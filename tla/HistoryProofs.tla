---------------------------- MODULE HistoryProofs ----------------------------
(***************************************************************************)
(* Theorems about what a turn reads from the history of its session, for   *)
(* any interleaving and any faults.                                        *)
(*                                                                         *)
(* The argument has three parts.  WellFormed says of every event of a      *)
(* history what the agents and the bridge guarantee of the events before   *)
(* it; each step keeps it.  Lemmas about well-formed histories follow,     *)
(* without a look at the actions.  ReadInv says where a request has read   *)
(* what it knows of a history.                                             *)
(***************************************************************************)
EXTENDS DispatcherProofs

----------------------------------------------------------------------------
(* A session as it was when its history held n events. *)

StatusAt(h, n)  == LastOf(h, 1..n, StatusTypes)
RunningAt(h, n) == StatusAt(h, n) # 0 /\ h[StatusAt(h, n)].type = "session.status_running"
GatedAt(h, n) ==
  /\ StatusAt(h, n) # 0
  /\ h[StatusAt(h, n)].type = "session.status_idle"
  /\ h[StatusAt(h, n)].stop = "requires_action"

StartAt(h, n)   == LastOf(h, 1..n, {"session.status_running"})
ServingAt(h, n) == IF StartAt(h, n) = 0 THEN 0 ELSE h[StartAt(h, n)].serves

ConfirmedAt(h, u, n) ==
  \E i \in Of(h, 1..n, {"user.tool_confirmation"}) : \E c \in h[i].decisions : c[1] = u

UnconfirmedAt(h, n) == {u \in Of(h, 1..n, {"agent.tool_use"}) : ~ConfirmedAt(h, u, n)}

IsMessage(h, i) == h[i].type = "user.message"
IsGate(h, i)    == h[i].type = "session.status_idle" /\ h[i].stop = "requires_action"
IsStatus(h, i)  == h[i].type \in StatusTypes

\* What the service guarantees of an event, given the ones before it.
EventOK(h, n) ==
  LET p == n - 1 IN
  /\ h[n].type = "session.status_running" =>
       \/ /\ ~RunningAt(h, p) /\ ~GatedAt(h, p)
          /\ h[n].serves \in 1..p /\ IsMessage(h, h[n].serves)
          /\ h[n].serves > ServingAt(h, p)
       \/ /\ GatedAt(h, p)
          /\ h[StatusAt(h, p)].ids \intersect UnconfirmedAt(h, p) = {}
          /\ h[n].serves = ServingAt(h, p)
  /\ IsGate(h, n) =>
       \/ RunningAt(h, p) /\ h[n].ids = UnconfirmedAt(h, p)
       \/ GatedAt(h, p) /\ h[n].ids = h[StatusAt(h, p)].ids \intersect UnconfirmedAt(h, p)
  /\ IsStatus(h, n) /\ h[n].type # "session.status_running" /\ ~IsGate(h, n) => RunningAt(h, p)

WellFormed(h) == \A n \in Positions(h) : EventOK(h, n)

\* Two histories that hold the same first n events.
Agree(h, g, n) == \A i \in 1..n : h[i] = g[i]

LEMMA AgreeAt ==
  ASSUME NEW h, NEW g, NEW n \in Nat, Agree(h, g, n)
  PROVE  /\ StatusAt(h, n) = StatusAt(g, n) /\ StartAt(h, n) = StartAt(g, n)
         /\ RunningAt(h, n) = RunningAt(g, n) /\ GatedAt(h, n) = GatedAt(g, n)
         /\ ServingAt(h, n) = ServingAt(g, n)
         /\ StatusAt(h, n) # 0 => h[StatusAt(h, n)] = g[StatusAt(h, n)]
         /\ UnconfirmedAt(h, n) = UnconfirmedAt(g, n)
<1>1. \A T : Of(h, 1..n, T) = Of(g, 1..n, T)
  BY DEF Agree, Of
<1>2. \A T : LastOf(h, 1..n, T) = LastOf(g, 1..n, T)
  BY <1>1 DEF LastOf
<1>3. \A T : LastOf(h, 1..n, T) # 0 => LastOf(h, 1..n, T) \in 1..n
  <2> TAKE T
  <2>1. 1..n \in SUBSET (1..n)
    OBVIOUS
  <2>2. LastOf(h, 1..n, T) \in {0} \union Of(h, 1..n, T)
    BY <2>1, LastOfIsPosition
  <2> QED
    BY <2>2 DEF Of
<1>4. \A u : ConfirmedAt(h, u, n) = ConfirmedAt(g, u, n)
  <2>1. \A i \in Of(h, 1..n, {"user.tool_confirmation"}) : h[i] = g[i]
    BY DEF Agree, Of
  <2> QED
    BY <1>1, <2>1 DEF ConfirmedAt
<1>5. StatusAt(h, n) = StatusAt(g, n) /\ StartAt(h, n) = StartAt(g, n)
  BY <1>2 DEF StatusAt, StartAt
<1>6. /\ StatusAt(h, n) # 0 => h[StatusAt(h, n)] = g[StatusAt(h, n)]
      /\ StartAt(h, n) # 0 => h[StartAt(h, n)] = g[StartAt(h, n)]
  BY <1>3 DEF Agree, StatusAt, StartAt
<1>7. UnconfirmedAt(h, n) = UnconfirmedAt(g, n)
  BY <1>1, <1>4 DEF UnconfirmedAt
<1> QED
  BY <1>5, <1>6, <1>7 DEF RunningAt, GatedAt, ServingAt

LEMMA AgreeEvent ==
  ASSUME NEW h, NEW g, NEW n \in Nat \ {0}, Agree(h, g, n), EventOK(h, n)
  PROVE  EventOK(g, n)
<1> DEFINE p == n - 1
<1>1. p \in Nat /\ Agree(h, g, p) /\ h[n] = g[n]
  BY DEF Agree
<1>2. /\ StatusAt(h, p) = StatusAt(g, p)
      /\ RunningAt(h, p) = RunningAt(g, p) /\ GatedAt(h, p) = GatedAt(g, p)
      /\ ServingAt(h, p) = ServingAt(g, p)
      /\ StatusAt(h, p) # 0 => h[StatusAt(h, p)] = g[StatusAt(h, p)]
      /\ UnconfirmedAt(h, p) = UnconfirmedAt(g, p)
  BY <1>1, AgreeAt
<1>3. \A i \in 1..p : h[i] = g[i]
  BY <1>1 DEF Agree
<1>4. GatedAt(h, p) => h[StatusAt(h, p)] = g[StatusAt(g, p)]
  BY <1>2 DEF GatedAt
<1>5. h[n].serves \in 1..p /\ IsMessage(h, h[n].serves) => IsMessage(g, g[n].serves)
  BY <1>1, <1>3 DEF IsMessage
<1> HIDE DEF p
<1>6. IsGate(g, n) = IsGate(h, n) /\ IsStatus(g, n) = IsStatus(h, n)
  BY <1>1 DEF IsGate, IsStatus
<1> QED
  BY <1>1, <1>2, <1>4, <1>5, <1>6 DEF EventOK, p

\* The state of a session is the one after its last event.
LEMMA NowAt ==
  ASSUME NEW h \in Seq(Event)
  PROVE  LET n == Len(h) IN
         /\ Running(h) => RunningAt(h, n)
         /\ Gated(h) <=> GatedAt(h, n)
         /\ Idle(h) => ~RunningAt(h, n)
         /\ Serving(h) = ServingAt(h, n)
         /\ Unconfirmed(h) = UnconfirmedAt(h, n)
         /\ Gate(h) = h[StatusAt(h, n)].ids
<1> DEFINE n == Len(h)
           at == StatusAt(h, n)
<1>1. n \in Nat
  BY LenProperties
<1>2. at # 0 => at \in 1..n /\ h[at].type \in StatusTypes
  <2>1. 1..n \in SUBSET (1..n)
    OBVIOUS
  <2>2. at \in {0} \union Of(h, 1..n, StatusTypes)
    BY <1>1, <2>1, LastOfIsPosition DEF StatusAt
  <2> QED
    BY <2>2 DEF Of
<1>3. at # 0 => h[at] \in Event
  BY <1>1, <1>2, ElementOfSeq
<1>4. Phase(h) = IF at = 0 THEN "new"
                 ELSE IF h[at].type = "session.status_idle" THEN h[at].stop ELSE h[at].type
  BY DEF Phase, StatusAt
<1>5. at # 0 /\ h[at].type = "session.status_idle" => h[at].stop \in {"requires_action", "end_turn"}
  BY <1>3 DEF Event
<1>6. Serving(h) = ServingAt(h, n)
  BY DEF Serving, ServingAt, StartAt
<1>7. Unconfirmed(h) = UnconfirmedAt(h, n)
  BY DEF Unconfirmed, UnconfirmedAt, Confirmed, ConfirmedAt
<1>8. Gate(h) = h[at].ids
  BY DEF Gate, StatusAt
<1> HIDE DEF at
<1>9. /\ Running(h) => RunningAt(h, n)
      /\ Gated(h) <=> GatedAt(h, n)
      /\ Idle(h) => ~RunningAt(h, n)
  BY <1>2, <1>4, <1>5 DEF Running, Gated, Idle, RunningAt, GatedAt, StatusTypes, at
<1> QED
  BY <1>6, <1>7, <1>8, <1>9 DEF at

----------------------------------------------------------------------------
(* Every history is well formed. *)

\* What the service may append to history h.
Follows(h, e) ==
  /\ e.type = "session.status_running" =>
       \/ Idle(h) /\ ~Gated(h) /\ e.serves \in Waiting(h)
       \/ Gated(h) /\ Gate(h) \intersect Unconfirmed(h) = {} /\ e.serves = Serving(h)
  /\ e.type = "session.status_idle" /\ e.stop = "requires_action" =>
       \/ Running(h) /\ e.ids = Unconfirmed(h)
       \/ Gated(h) /\ e.ids = Gate(h) \intersect Unconfirmed(h)
  /\ \/ e.type \in {"session.status_terminated", "session.error"}
     \/ e.type = "session.status_idle" /\ e.stop # "requires_action"
     => Running(h)

LEMMA FollowsOK ==
  ASSUME NEW h \in Seq(Event), NEW g, Agree(h, g, Len(h)), Follows(h, g[Len(h) + 1])
  PROVE  EventOK(g, Len(h) + 1)
<1> DEFINE n == Len(h)
           e == g[n + 1]
<1>1. n \in Nat /\ (n + 1) - 1 = n
  BY LenProperties
<1>2. /\ Running(h) => RunningAt(h, n)
      /\ Gated(h) <=> GatedAt(h, n)
      /\ Idle(h) => ~RunningAt(h, n)
      /\ Serving(h) = ServingAt(h, n)
      /\ Unconfirmed(h) = UnconfirmedAt(h, n)
      /\ Gate(h) = h[StatusAt(h, n)].ids
  BY NowAt
<1>3. /\ RunningAt(h, n) = RunningAt(g, n) /\ GatedAt(h, n) = GatedAt(g, n)
      /\ ServingAt(h, n) = ServingAt(g, n)
      /\ GatedAt(h, n) => h[StatusAt(h, n)] = g[StatusAt(g, n)]
      /\ UnconfirmedAt(h, n) = UnconfirmedAt(g, n)
  BY <1>1, AgreeAt DEF GatedAt
<1>4. \A m \in Waiting(h) : m \in 1..n /\ IsMessage(g, m) /\ m > ServingAt(h, n)
  BY <1>1, <1>2 DEF Waiting, Of, Agree, IsMessage
<1> HIDE DEF n, e
<1>5. e.type = "session.status_running" =>
       \/ /\ ~RunningAt(g, n) /\ ~GatedAt(g, n)
          /\ e.serves \in 1..n /\ IsMessage(g, e.serves)
          /\ e.serves > ServingAt(g, n)
       \/ /\ GatedAt(g, n)
          /\ g[StatusAt(g, n)].ids \intersect UnconfirmedAt(g, n) = {}
          /\ e.serves = ServingAt(g, n)
  BY <1>2, <1>3, <1>4 DEF Follows, n, e
<1>6. e.type = "session.status_idle" /\ e.stop = "requires_action" =>
       \/ RunningAt(g, n) /\ e.ids = UnconfirmedAt(g, n)
       \/ GatedAt(g, n) /\ e.ids = g[StatusAt(g, n)].ids \intersect UnconfirmedAt(g, n)
  BY <1>2, <1>3 DEF Follows, n, e
<1>7. IsStatus(g, n + 1) /\ e.type # "session.status_running" /\ ~IsGate(g, n + 1) => RunningAt(g, n)
  BY <1>2, <1>3 DEF Follows, n, e, IsStatus, IsGate, StatusTypes
<1>8. EventOK(g, n + 1)
  BY <1>1, <1>5, <1>6, <1>7 DEF EventOK, IsGate, e
<1> QED
  BY <1>8 DEF n

\* A history that is extended by events that may follow.
LEMMA ExtendOK ==
  ASSUME NEW h \in Seq(Event), WellFormed(h), NEW g, Agree(h, g, Len(h)),
         Len(g) \in Nat, \A n \in (Len(h) + 1)..Len(g) : EventOK(g, n)
  PROVE  WellFormed(g)
<1>1. Len(h) \in Nat
  BY LenProperties
<1>2. ASSUME NEW n \in 1..Len(h)  PROVE EventOK(g, n)
  <2>1. n \in Nat \ {0} /\ Agree(h, g, n)
    BY <1>1 DEF Agree
  <2>2. EventOK(h, n)
    BY DEF WellFormed, Positions
  <2> QED
    BY <2>1, <2>2, AgreeEvent
<1> QED
  BY <1>1, <1>2 DEF WellFormed, Positions

LEMMA AppendOK ==
  ASSUME NEW h \in Seq(Event), WellFormed(h), NEW e, Follows(h, e)
  PROVE  WellFormed(Append(h, e))
<1> DEFINE g == Append(h, e)
<1>1. /\ Len(g) = Len(h) + 1
      /\ \A i \in 1..Len(h) : g[i] = h[i]
      /\ g[Len(h) + 1] = e
  BY Appended, Zenon
<1>2. Len(h) \in Nat
  BY LenProperties
<1> HIDE DEF g
<1>3. Agree(h, g, Len(h))
  BY <1>1 DEF Agree
<1>4. EventOK(g, Len(h) + 1)
  BY <1>1, <1>3, FollowsOK
<1>5. \A n \in (Len(h) + 1)..Len(g) : EventOK(g, n)
  BY <1>1, <1>2, <1>4
<1>6. Len(g) \in Nat
  BY <1>1, <1>2
<1>7. WellFormed(g)
  BY <1>3, <1>5, <1>6, ExtendOK, Zenon
<1> QED
  BY <1>7 DEF g

Formed == \A s \in Sessions : WellFormed(log[s])

\* A step that appends one event.
LEMMA OneFormed ==
  ASSUME TypeInv, Formed, NEW s \in Sessions, NEW e, Append1(s, e), Follows(log[s], e)
  PROVE  Formed'
<1>1. \A q \in Sessions : log'[q] = IF q = s THEN Append(log[s], e) ELSE log[q]
  BY DEF Append1, TypeInv, TypeOK
<1>2. log[s] \in Seq(Event) /\ WellFormed(log[s])
  BY DEF TypeInv, TypeOK, Formed
<1>3. WellFormed(Append(log[s], e))
  BY <1>2, AppendOK
<1> QED
  BY <1>1, <1>3 DEF Formed

LEMMA NoneFormed ==
  ASSUME Formed, UNCHANGED log
  PROVE  Formed'
BY DEF Formed

\* What the bridge posts may follow any event.
LEMMA PostFollows ==
  ASSUME NEW h, NEW e, e.type \in PostTypes \union {"agent.tool_use", "agent.message"}
  PROVE  Follows(h, e)
BY DEF Follows, PostTypes

LEMMA PostFormed ==
  ASSUME TypeInv, Formed, NEW r \in Requests,
         RelayDecision(r) \/ SendMessage(r) \/ RelayAutos(r)
  PROVE  Formed'
<1>1. d[r].entry.session \in Sessions
  BY RequestFacts DEF RelayDecision, SendMessage, RelayAutos, At, InSession, HomeOf
<1>2. CASE CallFails(r) \/ Rejected(r)
  BY <1>2, NoneFormed DEF CallFails, Rejected, agentVars
<1>3. ASSUME NEW e, Append1(d[r].entry.session, e), e.type \in PostTypes
      PROVE  Formed'
  BY <1>1, <1>3, PostFollows, OneFormed
<1>4. /\ \A decisions, who : Confirmations(decisions, r, who).type \in PostTypes
      /\ UserMessage(r).type \in PostTypes
  BY DEF Confirmations, UserMessage, PostTypes
<1>5. CASE RelayDecision(r)
  <2>1. CASE PostConfirmations(r, d[r].entry.pending \X {Decision(d[r].answer)}, "human")
    BY <2>1, <1>3, <1>4 DEF PostConfirmations
  <2> QED
    BY <1>2, <1>5, <2>1 DEF RelayDecision
<1>6. CASE SendMessage(r)
  BY <1>2, <1>3, <1>4, <1>6 DEF SendMessage
<1>7. CASE RelayAutos(r)
  <2>1. CASE PostConfirmations(r, d[r].autos, "rule")
    BY <2>1, <1>3, <1>4 DEF PostConfirmations
  <2> QED
    BY <1>2, <1>7, <2>1 DEF RelayAutos
<1> QED
  BY <1>5, <1>6, <1>7

LEMMA FinishFormed ==
  ASSUME TypeInv, Formed, NEW s \in Sessions, FinishTurn(s)
  PROVE  Formed'
<1> DEFINE h    == log[s]
           tail == <<AgentMessage, EndTurn>>
           g    == h \o tail
<1>1. h \in Seq(Event) /\ Len(h) \in Nat /\ WellFormed(h) /\ Running(h)
  BY LenProperties DEF TypeInv, TypeOK, Formed, FinishTurn
<1>2. \A q \in Sessions : log'[q] = IF q = s THEN g ELSE log[q]
  BY DEF FinishTurn, TypeInv, TypeOK
<1>3. tail \in Seq(Event) /\ Len(tail) = 2 /\ tail[1] = AgentMessage /\ tail[2] = EndTurn
  <2>1. AgentMessage \in Event /\ EndTurn \in Event
    BY DEF AgentMessage, EndTurn, Event
  <2> QED
    BY <2>1
<1> HIDE DEF tail, h
<1>4. /\ Len(g) = Len(h) + 2
      /\ \A i \in 1..Len(h) : g[i] = h[i]
      /\ g[Len(h) + 1] = AgentMessage /\ g[Len(h) + 2] = EndTurn
  <2>1. /\ Len(g) = Len(h) + Len(tail)
        /\ \A i \in 1..Len(h) + Len(tail) :
             g[i] = IF i <= Len(h) THEN h[i] ELSE tail[i - Len(h)]
    BY <1>1, <1>3, ConcatProperties, Zenon
  <2> HIDE DEF g
  <2> QED
    BY <1>1, <1>3, <2>1
<1> HIDE DEF g
<1>5. Agree(h, g, Len(h))
  BY <1>4 DEF Agree
<1>6. EventOK(g, Len(h) + 1)
  <2>1. Follows(h, g[Len(h) + 1])
    BY <1>4, PostFollows DEF AgentMessage
  <2> QED
    BY <1>1, <1>5, <2>1, FollowsOK
<1>7. EventOK(g, Len(h) + 2)
  <2> DEFINE n == Len(h) + 1
  <2>1. RunningAt(g, Len(h))
    BY <1>1, <1>5, NowAt, AgreeAt
  <2>2. Of(g, 1..n, StatusTypes) = Of(g, 1..Len(h), StatusTypes)
    BY <1>1, <1>4 DEF Of, AgentMessage, StatusTypes
  <2>3. StatusAt(g, n) = StatusAt(g, Len(h))
    BY <2>2 DEF StatusAt, LastOf
  <2>4. RunningAt(g, n)
    BY <2>1, <2>3 DEF RunningAt
  <2>5. (Len(h) + 2) - 1 = n
    BY <1>1
  <2> HIDE DEF n
  <2> QED
    BY <1>4, <2>4, <2>5 DEF EventOK, IsGate, EndTurn
<1>8. \A n \in (Len(h) + 1)..Len(g) : EventOK(g, n)
  <2>1. \A n \in (Len(h) + 1)..Len(g) : n = Len(h) + 1 \/ n = Len(h) + 2
    BY <1>1, <1>4
  <2> QED
    BY <1>6, <1>7, <2>1
<1>9. WellFormed(g)
  <2>1. Len(g) \in Nat
    BY <1>1, <1>4
  <2> QED
    BY <1>1, <1>5, <1>8, <2>1, ExtendOK, Zenon
<1> QED
  BY <1>2, <1>9 DEF Formed

LEMMA AgentFormed ==
  ASSUME TypeInv, Formed, NEW s \in Sessions, AgentStep(s) \/ BreakAgent(s)
  PROVE  Formed'
<1> DEFINE h == log[s]
<1>1. \A m : /\ RunningOn(m).type = "session.status_running" /\ RunningOn(m).serves = m
  BY DEF RunningOn
<1>2. \A ids : /\ IdleOn(ids).type = "session.status_idle" /\ IdleOn(ids).ids = ids
               /\ IdleOn(ids).stop = "requires_action"
  BY DEF IdleOn
<1>3. CASE StartTurn(s)
  <2>1. Waiting(h) \in SUBSET Nat
    <3>1. Len(h) \in Nat
      BY LenProperties DEF TypeInv, TypeOK
    <3> QED
      BY <3>1 DEF Waiting, Of
  <2>2. PICK m \in Waiting(h) : \A n \in Waiting(h) : m <= n
    BY <1>3, <2>1, SmallestExists DEF StartTurn
  <2> DEFINE first == CHOOSE x \in Waiting(h) : \A n \in Waiting(h) : x <= n
  <2>3. first \in Waiting(h)
    BY <2>2
  <2>4. Append1(s, RunningOn(first)) /\ Idle(h) /\ ~Gated(h)
    BY <1>3 DEF StartTurn
  <2> HIDE DEF first
  <2>5. Follows(h, RunningOn(first))
    BY <1>1, <2>3, <2>4 DEF Follows
  <2> QED
    BY <2>4, <2>5, OneFormed
<1>4. CASE RequireAction(s)
  <2>1. Follows(h, IdleOn(Unconfirmed(h)))
    BY <1>2, <1>4 DEF Follows, RequireAction
  <2> QED
    BY <1>4, <2>1, OneFormed DEF RequireAction
<1>5. CASE AnnounceRest(s)
  <2>1. Follows(h, IdleOn(Gate(h) \intersect Unconfirmed(h)))
    BY <1>2, <1>5 DEF Follows, AnnounceRest
  <2> QED
    BY <1>5, <2>1, OneFormed DEF AnnounceRest
<1>6. CASE ResumeTurn(s)
  <2>1. Follows(h, RunningOn(Serving(h)))
    BY <1>1, <1>6 DEF Follows, ResumeTurn
  <2> QED
    BY <1>6, <2>1, OneFormed DEF ResumeTurn
<1>7. ASSUME NEW t \in Tools, UseTool(s, t)  PROVE Formed'
  <2>1. Follows(h, ToolUse(t))
    BY PostFollows DEF ToolUse
  <2> QED
    BY <1>7, <2>1, OneFormed DEF UseTool
<1>8. CASE BreakAgent(s)
  <2>1. \A e \in {SessionError, Terminated} : BreakTurn(s, e) => Follows(h, e)
    BY DEF Follows, BreakTurn, SessionError, Terminated
  <2> QED
    BY <1>8, <2>1, OneFormed DEF BreakAgent, BreakTurn
<1> QED
  BY <1>3, <1>4, <1>5, <1>6, <1>7, <1>8, FinishFormed DEF AgentStep

LEMMA InitFormed == Init => Formed
BY DEF Init, AgentInit, Formed, WellFormed, Positions

LEMMA NextFormed == TypeInv /\ Formed /\ [Next]_vars => Formed'
<1> SUFFICES ASSUME TypeInv, Formed, [Next]_vars  PROVE Formed'
  OBVIOUS
<1>1. ASSUME NEW r \in Requests, Step(r)  PROVE Formed'
  <2>1. CASE RelayDecision(r) \/ SendMessage(r) \/ RelayAutos(r)
    BY <2>1, PostFormed
  <2>2. CASE LoadSession(r) \/ FindSession(r) \/ RebuildSession(r) \/ AdoptSession(r)
               \/ RegisterSession(r) \/ Classify(r) \/ ClearPending(r)
    BY <2>2, NoneFormed DEF LoadSession, FindSession, RebuildSession, AdoptSession,
       RegisterSession, Classify, ClearPending, agentVars
  <2>3. CASE CreateSession(r) \/ Poll(r) \/ ParkDeferred(r) \/ PersistTask(r)
               \/ SaveSession(r) \/ Respond(r)
    BY <2>3, NoneFormed DEF CreateSession, Poll, ParkDeferred, PersistTask,
       SaveSession, Respond, CallFails, agentVars
  <2> QED
    BY <1>1, <2>1, <2>2, <2>3 DEF Step
<1>2. CASE Environment
  <2>1. CASE \E s \in Sessions : AgentStep(s) \/ BreakAgent(s)
    BY <2>1, AgentFormed
  <2>2. CASE ~ \E s \in Sessions : AgentStep(s) \/ BreakAgent(s)
    BY ZenonT(40), <1>2, <2>2, NoneFormed DEF Environment, Receive, Crash, ExpireSession, agentVars
  <2> QED
    BY <2>1, <2>2
<1>3. CASE UNCHANGED vars
  BY <1>3, NoneFormed DEF vars, agentVars
<1> QED
  BY <1>1, <1>2, <1>3 DEF Next

----------------------------------------------------------------------------
(* What a well-formed history says. *)

\* The status of a slice is the one of the last status event in it.
LEMMA LastStep ==
  ASSUME NEW h, NEW n \in Nat \ {0}, NEW T
  PROVE  LastOf(h, 1..n, T) = IF h[n].type \in T THEN n ELSE LastOf(h, 1..(n - 1), T)
<1>1. CASE h[n].type \in T
  <2>1. n \in Of(h, 1..n, T) /\ Of(h, 1..n, T) \in SUBSET (1..n)
    BY <1>1 DEF Of
  <2>2. LastOf(h, 1..n, T) = Largest(Of(h, 1..n, T))
    BY <2>1 DEF LastOf
  <2> DEFINE x == Largest(Of(h, 1..n, T))
  <2>3. x \in Of(h, 1..n, T) /\ \A y \in Of(h, 1..n, T) : y <= x
    BY <2>1, LargestIsElement
  <2> HIDE DEF x
  <2>4. x \in 1..n /\ n <= x
    BY <2>1, <2>3
  <2> QED
    BY <1>1, <2>2, <2>4 DEF x
<1>2. CASE h[n].type \notin T
  <2>1. Of(h, 1..n, T) = Of(h, 1..(n - 1), T)
    BY <1>2 DEF Of
  <2> QED
    BY <1>2, <2>1 DEF LastOf
<1> QED
  BY <1>1, <1>2

\* The turn of a session is that of its last running event.
LEMMA ServingType ==
  ASSUME NEW h \in Seq(Event), NEW n \in 0..Len(h)
  PROVE  /\ StartAt(h, n) # 0 =>
              StartAt(h, n) \in 1..n /\ h[StartAt(h, n)].type = "session.status_running"
         /\ ServingAt(h, n) \in Nat
<1> DEFINE at == StartAt(h, n)
<1>1. Len(h) \in Nat /\ n \in Nat
  BY LenProperties
<1>2. at # 0 => at \in 1..n /\ h[at].type = "session.status_running"
  <2>1. 1..n \in SUBSET (1..n)
    OBVIOUS
  <2>2. at \in {0} \union Of(h, 1..n, {"session.status_running"})
    BY <1>1, <2>1, LastOfIsPosition DEF StartAt
  <2> QED
    BY <2>2 DEF Of
<1>3. at # 0 => h[at].serves \in Nat
  <2>1. at # 0 => h[at] \in Event
    BY <1>1, <1>2, ElementOfSeq
  <2> QED
    BY <1>2, <2>1 DEF Event
<1> QED
  BY <1>2, <1>3 DEF ServingAt

\* An agent works on a message that was posted before it started.
ServesBefore(h, n) ==
  h[n].type = "session.status_running" /\ h[n].serves # 0 =>
    h[n].serves \in 1..(n - 1) /\ IsMessage(h, h[n].serves)

LEMMA ServesEarlier ==
  ASSUME NEW h \in Seq(Event), WellFormed(h)
  PROVE  \A n \in Positions(h) : ServesBefore(h, n)
<1>1. Len(h) \in Nat
  BY LenProperties
<1> DEFINE Bad == {n \in Positions(h) : ~ServesBefore(h, n)}
<1>2. SUFFICES ASSUME Bad # {}  PROVE FALSE
  OBVIOUS
<1>3. Bad \in SUBSET Nat
  BY <1>1 DEF Positions
<1>4. PICK n \in Bad : \A y \in Bad : n <= y
  BY <1>2, <1>3, SmallestExists
<1>5. n \in 1..Len(h) /\ ~ServesBefore(h, n) /\ \A q \in 1..(n - 1) : ServesBefore(h, q)
  BY <1>1, <1>4 DEF Positions
<1> DEFINE at == StartAt(h, n - 1)
<1>6. at # 0 => at \in 1..(n - 1) /\ h[at].type = "session.status_running"
  <2>1. n - 1 \in Nat /\ 1..(n - 1) \in SUBSET (1..(n - 1))
    BY <1>5
  <2>2. at \in {0} \union Of(h, 1..(n - 1), {"session.status_running"})
    BY <2>1, LastOfIsPosition DEF StartAt
  <2> QED
    BY <2>2 DEF Of
<1>7. EventOK(h, n)
  BY <1>5 DEF WellFormed, Positions
<1>8. h[n].type = "session.status_running" /\ h[n].serves = ServingAt(h, n - 1)
  BY <1>5, <1>7 DEF EventOK, ServesBefore
<1>9. h[n].serves = IF at = 0 THEN 0 ELSE h[at].serves
  BY <1>8 DEF ServingAt
<1> HIDE DEF at
<1>10. CASE at = 0
  BY <1>5, <1>9, <1>10 DEF ServesBefore
<1>11. CASE at # 0
  <2>1. at \in 1..(n - 1) /\ h[n].serves = h[at].serves /\ ServesBefore(h, at)
    BY <1>5, <1>6, <1>9, <1>11
  <2>2. at \in Nat /\ 1..(at - 1) \subseteq 1..(n - 1)
    BY <1>5, <2>1
  <2>3. ServesBefore(h, n)
    BY <1>6, <1>11, <2>1, <2>2 DEF ServesBefore
  <2> QED
    BY <1>5, <2>3
<1> QED
  BY <1>10, <1>11

LEMMA ServingStep ==
  ASSUME NEW h, NEW n \in Nat \ {0}
  PROVE  ServingAt(h, n) = IF h[n].type = "session.status_running" THEN h[n].serves
                           ELSE ServingAt(h, n - 1)
<1>1. StartAt(h, n) = IF h[n].type = "session.status_running" THEN n ELSE StartAt(h, n - 1)
  BY LastStep DEF StartAt
<1> QED
  BY <1>1 DEF ServingAt

\* Events of other types leave the last one where it is.
LEMMA LastKept ==
  ASSUME NEW h, NEW a \in Nat, NEW b \in Nat, a <= b, NEW T,
         \A i \in (a + 1)..b : h[i].type \notin T
  PROVE  LastOf(h, 1..b, T) = LastOf(h, 1..a, T)
<1>1. Of(h, 1..b, T) = Of(h, 1..a, T)
  BY DEF Of
<1> QED
  BY <1>1 DEF LastOf

\* When m was posted, the session was at rest and had served every message.
RestedAt(h, m) ==
  /\ ~RunningAt(h, m - 1) /\ ~GatedAt(h, m - 1)
  /\ \A i \in 1..(m - 1) : IsMessage(h, i) => i <= ServingAt(h, m - 1)

\* A message that was posted to a session at rest and is the last one has the
\* session to itself: the next turn is its own.
LEMMA TurnOfMessage ==
  ASSUME NEW h \in Seq(Event), WellFormed(h), NEW m \in Positions(h), NEW n \in m..Len(h),
         IsMessage(h, m), RestedAt(h, m), \A i \in (m + 1)..n : ~IsMessage(h, i)
  PROVE  ServingAt(h, n) = m \/ \A i \in (m + 1)..n : ~IsStatus(h, i)
<1>1. Len(h) \in Nat /\ m \in Nat \ {0} /\ m - 1 \in Nat /\ m <= Len(h) /\ n \in Nat
  BY LenProperties DEF Positions
<1> DEFINE P(x) == ServingAt(h, x) = m \/ \A i \in (m + 1)..x : ~IsStatus(h, i)
           Bad == {x \in m..n : ~P(x)}
<1>2. SUFFICES ASSUME Bad # {}  PROVE FALSE
  BY <1>1
<1>3. Bad \in SUBSET Nat
  BY <1>1
<1>4. PICK x \in Bad : \A y \in Bad : x <= y
  BY <1>2, <1>3, SmallestExists
<1>5. x \in m..n /\ ~P(x)
  BY <1>4
<1>6. x # m
  BY <1>1, <1>5
<1>7. x - 1 \in m..n /\ x \in Nat \ {0} /\ x - 1 \in Nat /\ x - 1 >= m
  BY <1>1, <1>5, <1>6
<1>8. P(x - 1)
  BY <1>4, <1>7
<1>9. ServingAt(h, x) = IF h[x].type = "session.status_running" THEN h[x].serves
                        ELSE ServingAt(h, x - 1)
  BY <1>7, ServingStep
<1>10. EventOK(h, x)
  BY <1>1, <1>5 DEF WellFormed, Positions
<1>11. ServingAt(h, x) # m /\ \E i \in (m + 1)..x : IsStatus(h, i)
  BY <1>5
<1> HIDE DEF Bad
<1>12. CASE ServingAt(h, x - 1) = m
  <2>1. h[x].type = "session.status_running" /\ h[x].serves # m
    BY <1>9, <1>11, <1>12
  <2>2. h[x].serves \in 1..(x - 1) /\ IsMessage(h, h[x].serves) /\ h[x].serves > m
    BY <1>10, <1>12, <2>1 DEF EventOK
  <2>3. h[x].serves \in (m + 1)..n
    BY <1>1, <1>5, <1>7, <2>2
  <2> QED
    BY <2>2, <2>3
<1>13. CASE \A i \in (m + 1)..(x - 1) : ~IsStatus(h, i)
  <2>1. \A i \in ((m - 1) + 1)..(x - 1) : h[i].type \notin StatusTypes
    <3>1. \A i \in ((m - 1) + 1)..(x - 1) : i = m \/ i \in (m + 1)..(x - 1)
      BY <1>1, <1>7
    <3> QED
      BY <1>13, <3>1 DEF IsStatus, IsMessage, StatusTypes
  <2>2. /\ StatusAt(h, x - 1) = StatusAt(h, m - 1)
        /\ StartAt(h, x - 1) = StartAt(h, m - 1)
    <3>1. StatusAt(h, x - 1) = StatusAt(h, m - 1)
      BY <1>1, <1>7, <2>1, LastKept DEF StatusAt
    <3>2. \A i \in ((m - 1) + 1)..(x - 1) : h[i].type \notin {"session.status_running"}
      BY <2>1 DEF StatusTypes
    <3>3. StartAt(h, x - 1) = StartAt(h, m - 1)
      BY <1>1, <1>7, <3>2, LastKept DEF StartAt
    <3> QED
      BY <3>1, <3>3
  <2>3. ~RunningAt(h, x - 1) /\ ~GatedAt(h, x - 1) /\ ServingAt(h, x - 1) = ServingAt(h, m - 1)
    BY <2>2 DEF RestedAt, RunningAt, GatedAt, ServingAt
  <2>4. IsStatus(h, x)
    <3>1. PICK i \in (m + 1)..x : IsStatus(h, i)
      BY <1>11
    <3>2. i = x \/ i \in (m + 1)..(x - 1)
      BY <1>1, <1>7
    <3> QED
      BY <1>13, <3>1, <3>2
  <2>5. h[x].type = "session.status_running"
    BY <1>10, <2>3, <2>4 DEF EventOK
  <2>6. h[x].serves \in 1..(x - 1) /\ IsMessage(h, h[x].serves) /\ h[x].serves > ServingAt(h, m - 1)
    BY <1>10, <2>3, <2>5 DEF EventOK
  <2>7. CASE h[x].serves \in 1..(m - 1)
    <3>1. h[x].serves <= ServingAt(h, m - 1)
      BY <2>6, <2>7 DEF RestedAt
    <3>2. ServingAt(h, m - 1) \in Nat
      BY <1>1, ServingType
    <3> QED
      BY <1>1, <2>6, <2>7, <3>1, <3>2
  <2>8. CASE h[x].serves \in (m + 1)..(x - 1)
    <3>1. h[x].serves \in (m + 1)..n
      BY <1>1, <1>5, <2>8
    <3> QED
      BY <2>6, <3>1
  <2>9. h[x].serves = m
    BY <1>1, <1>7, <2>6, <2>7, <2>8
  <2> QED
    BY <1>9, <1>11, <2>5, <2>9
<1> QED
  BY <1>8, <1>12, <1>13

----------------------------------------------------------------------------
(* What a request knows of the history of its session. *)

\* A gate of the history named use u.
Announced(h, u) == \E p \in Positions(h) : IsGate(h, p) /\ u \in h[p].ids

Known(e) == \A u \in e.pending : Announced(log[e.session], u)

\* The outcome of r comes from a status event of its turn, in a listing that showed
\* the decision r relayed but for the lag.
ReadFrom(r, h, anchor, read) ==
  \E k \in 0..Len(h) :
    /\ read \in CurrentTurn(h, k, anchor) /\ IsStatus(h, read)
    /\ Len(h) <= PageLimit => \A j \in ByHuman(h) : h[j].by = r => j <= k + MaxLag

Concluded == {"persist", "save", "respond"}
Turning   == {"poll", "auto", "park"} \union Concluded
Verdicts  == {"COMPLETED", "FAILED", "INPUT_REQUIRED"}

Knows(r, rec, h) ==
  /\ rec.pc = "recover" => rec.entry.pending = {}
  /\ rec.pc \in InSession => \A u \in rec.entry.pending : Announced(h, u)
  /\ rec.pc \in {"auto", "park"} => \A u \in rec.deferred : Announced(h, u)
  /\ rec.anchor # NoAnchor =>
       rec.pc \in Turning /\ rec.anchor \in Positions(h) /\ IsMessage(h, rec.anchor)
  /\ rec.outcome # "none" => rec.pc \in Concluded \union Finished
  /\ \/ rec.pc \in {"auto", "park"}
     \/ rec.pc \in Concluded /\ rec.outcome \in Verdicts
     => ReadFrom(r, h, rec.anchor, rec.read)

RequestKnows(r) == Knows(r, d[r], log[d[r].entry.session])

\* A human decides what a gate has named.
AnswersGates(h) ==
  \A j \in ByHuman(h) : \A u \in Uses(h[j]) : \E p \in 1..(j - 1) : IsGate(h, p) /\ u \in h[p].ids

ReadInv ==
  /\ TypeInv /\ Formed
  /\ \A c \in Contexts : Known(store[c])
  /\ \A r \in Requests : RequestKnows(r)
  /\ \A s \in Sessions : AnswersGates(log[s])

\* A history that keeps what it had.
Prolongs(h, g) == Len(h) \in Nat /\ Len(g) \in Nat /\ Len(h) <= Len(g) /\ Agree(h, g, Len(h))

LEMMA AnnouncedKept ==
  ASSUME NEW h, NEW g, Prolongs(h, g), NEW u, Announced(h, u)
  PROVE  Announced(g, u)
BY DEF Prolongs, Agree, Announced, Positions, IsGate

LEMMA TurnKept ==
  ASSUME NEW h, NEW g, Prolongs(h, g), NEW k \in 0..Len(h), NEW anchor
  PROVE  CurrentTurn(g, k, anchor) = CurrentTurn(h, k, anchor)
<1>1. Of(h, 1..k, {"user.message"}) = Of(g, 1..k, {"user.message"})
  BY DEF Prolongs, Agree, Of
<1> QED
  BY <1>1 DEF CurrentTurn, LastOf

LEMMA KnowsKept ==
  ASSUME NEW r, NEW rec \in Request, NEW h, NEW g, Prolongs(h, g), Knows(r, rec, h),
         \/ rec.pc \notin {"auto", "park"} \union Concluded
         \/ \A j \in ByHuman(g) : g[j].by = r => j <= Len(h)
  PROVE  Knows(r, rec, g)
<1>1. \A u : Announced(h, u) => Announced(g, u)
  BY AnnouncedKept
<1>2. \A p \in Positions(h) : p \in Positions(g) /\ h[p] = g[p]
  BY DEF Prolongs, Agree, Positions
<1>3. ASSUME ReadFrom(r, h, rec.anchor, rec.read), rec.pc \in {"auto", "park"} \union Concluded
      PROVE  ReadFrom(r, g, rec.anchor, rec.read)
  <2>1. PICK k \in 0..Len(h) :
          /\ rec.read \in CurrentTurn(h, k, rec.anchor) /\ IsStatus(h, rec.read)
          /\ Len(h) <= PageLimit => \A j \in ByHuman(h) : h[j].by = r => j <= k + MaxLag
    BY <1>3 DEF ReadFrom
  <2>2. rec.read \in CurrentTurn(g, k, rec.anchor)
    BY <2>1, TurnKept
  <2>3. rec.anchor \in Nat /\ rec.read \in Nat
    BY DEF Request
  <2>4. rec.read \in 1..Len(h)
    <3>1. CurrentTurn(h, k, rec.anchor) \in SUBSET (1..Len(h))
      BY <2>3, CurrentTurnIsSlice DEF Prolongs
    <3> QED
      BY <2>1, <3>1
  <2>5. IsStatus(g, rec.read)
    BY <2>1, <2>4 DEF IsStatus, Prolongs, Agree
  <2>6. ASSUME Len(g) <= PageLimit, NEW j \in ByHuman(g), g[j].by = r  PROVE j <= k + MaxLag
    <3>1. j \in Positions(g) /\ j <= Len(h)
      BY <1>3, <2>6 DEF ByHuman, Relayed, Of
    <3>2. j \in ByHuman(h) /\ h[j].by = r
      BY <1>2, <2>6, <3>1 DEF ByHuman, Relayed, Of, Positions, Prolongs, Agree
    <3> QED
      BY <2>1, <2>6, <3>2, AgentAssumption DEF Prolongs
  <2>7. k \in 0..Len(g)
    BY DEF Prolongs
  <2> QED
    BY <2>2, <2>5, <2>6, <2>7 DEF ReadFrom
<1>4. rec.anchor \in Positions(h) /\ IsMessage(h, rec.anchor) =>
        rec.anchor \in Positions(g) /\ IsMessage(g, rec.anchor)
  BY <1>2 DEF IsMessage
<1> QED
  BY <1>1, <1>3, <1>4 DEF Knows

\* What a step leaves of the histories.
LEMMA LogProlongs ==
  ASSUME TypeInv, TypeInv', Grows, NEW s \in Sessions
  PROVE  Prolongs(log[s], log'[s])
<1>1. Len(log[s]) \in Nat /\ Len(log'[s]) \in Nat
  BY LenProperties DEF TypeInv, TypeOK
<1> QED
  BY <1>1 DEF Prolongs, Grows, Agree, Positions

\* A human's decision is new only in the step in which its request relays it.
LEMMA NewDecision ==
  ASSUME TypeInv, TypeInv', Grows, NEW s \in Sessions, NEW j \in ByHuman(log'[s]),
         j > Len(log[s])
  PROVE  LET q == log'[s][j].by IN
         /\ j = Len(log[s]) + 1
         /\ q \in Requests /\ d[q].pc = "relay" /\ s = d[q].entry.session
         /\ Uses(log'[s][j]) = d[q].entry.pending
<1>1. Len(log[s]) \in Nat /\ Len(log'[s]) \in Nat
  BY LenProperties DEF TypeInv, TypeOK
<1> DEFINE e == log'[s][j]
<1>2. /\ j \in Positions(log'[s]) /\ j \notin Positions(log[s])
      /\ e.type = "user.tool_confirmation" /\ e.who = "human"
  BY <1>1 DEF ByHuman, Relayed, Of, Positions
<1>3. j = Len(log[s]) + 1 /\ PostedBy(e.by, s, e)
  BY <1>2 DEF Grows, PostTypes
<1>4. /\ e.by \in Requests /\ s = d[e.by].entry.session /\ d[e.by].pc = "relay"
      /\ e.decisions = d[e.by].entry.pending \X {Decision(d[e.by].answer)}
  BY <1>2, <1>3 DEF PostedBy
<1> HIDE DEF e
<1>5. Uses(e) = d[e.by].entry.pending
  <2>1. \A S, v : {c[1] : c \in S \X {v}} = S
    <3> TAKE S, v
    <3>1. \A x \in S : <<x, v>> \in S \X {v} /\ <<x, v>>[1] = x
      OBVIOUS
    <3>2. \A c \in S \X {v} : c[1] \in S
      OBVIOUS
    <3> QED
      BY <3>1, <3>2
  <2> DEFINE P == d[e.by].entry.pending
             v == Decision(d[e.by].answer)
  <2>2. e.decisions = P \X {v}
    BY <1>4
  <2> HIDE DEF P, v
  <2>3. Uses(e) = {c[1] : c \in P \X {v}}
    BY <2>2 DEF Uses
  <2>4. Uses(e) = P
    BY <2>1, <2>3
  <2> QED
    BY <2>4 DEF P
<1> QED
  BY <1>3, <1>4, <1>5 DEF e

\* A request that is not in the step still knows what it knew.
LEMMA OthersKnow ==
  ASSUME TypeInv, TypeInv', Grows, NEW q \in Requests, d'[q] = d[q], RequestKnows(q)
  PROVE  RequestKnows(q)'
<1> DEFINE s == d[q].entry.session
<1>1. d[q] \in Request
  BY RequestFacts
<1>2. CASE d[q].pc \in InSession
  <2>1. s \in Sessions
    BY <1>2, RequestFacts DEF HomeOf
  <2>2. Prolongs(log[s], log'[s])
    BY <2>1, LogProlongs
  <2>3. \/ d[q].pc \notin {"auto", "park"} \union Concluded
        \/ \A j \in ByHuman(log'[s]) : log'[s][j].by = q => j <= Len(log[s])
    <3>1. ASSUME d[q].pc # "relay", NEW j \in ByHuman(log'[s]), log'[s][j].by = q
          PROVE  j <= Len(log[s])
      <4>1. ~(j > Len(log[s]))
        BY <2>1, <3>1, NewDecision
      <4>2. j \in Nat /\ Len(log[s]) \in Nat
        <5>1. Len(log'[s]) \in Nat /\ Len(log[s]) \in Nat
          BY <2>1, LenProperties DEF TypeInv, TypeOK
        <5> QED
          BY <5>1 DEF ByHuman, Relayed, Of, Positions
      <4> QED
        BY <4>1, <4>2
    <3> QED
      BY <3>1 DEF Concluded
  <2>4. Knows(q, d[q], log[s])
    BY DEF RequestKnows
  <2> HIDE DEF s
  <2>5. Knows(q, d[q], log'[s])
    BY <1>1, <2>2, <2>3, <2>4, KnowsKept
  <2> QED
    BY <2>5 DEF RequestKnows, s
<1>3. CASE d[q].pc \notin InSession
  BY <1>3 DEF RequestKnows, Knows, InSession, Turning, Concluded
<1> QED
  BY <1>2, <1>3

\* The cache still knows what it knew.
LEMMA StillKnown ==
  ASSUME TypeInv, TypeInv', Grows, NEW e, Known(e), e.session \in Sessions \/ e.pending = {}
  PROVE  Known(e)'
<1>1. CASE e.session \in Sessions
  BY <1>1, LogProlongs, AnnouncedKept DEF Known
<1>2. CASE e.pending = {}
  BY <1>2 DEF Known
<1> QED
  BY <1>1, <1>2

\* A decision that is relayed is one that gates have named.
LEMMA NextAnswers ==
  ASSUME ReadInv, TypeInv', Grows
  PROVE  \A s \in Sessions : AnswersGates(log'[s])
<1> SUFFICES ASSUME NEW s \in Sessions, NEW j \in ByHuman(log'[s]), NEW u \in Uses(log'[s][j])
             PROVE  \E p \in 1..(j - 1) : IsGate(log'[s], p) /\ u \in log'[s][p].ids
  BY DEF AnswersGates
<1> DEFINE h == log[s]
           g == log'[s]
<1>1. Prolongs(h, g)
  BY LogProlongs DEF ReadInv
<1>2. j \in Nat /\ Len(h) \in Nat
  BY <1>1 DEF Prolongs, ByHuman, Relayed, Of, Positions
<1>3. \E p \in 1..(j - 1) : p \in Positions(h) /\ IsGate(h, p) /\ u \in h[p].ids
  <2>1. CASE j > Len(h)
    <3> DEFINE q == g[j].by
    <3>1. /\ j = Len(h) + 1 /\ q \in Requests /\ d[q].pc = "relay"
          /\ s = d[q].entry.session /\ Uses(g[j]) = d[q].entry.pending
      BY <2>1, NewDecision DEF ReadInv
    <3>2. RequestKnows(q)
      BY <3>1 DEF ReadInv
    <3>3. Announced(h, u)
      BY <3>1, <3>2 DEF RequestKnows, Knows, InSession
    <3> QED
      BY <1>2, <3>1, <3>3 DEF Announced, Positions
  <2>2. CASE ~(j > Len(h))
    <3>1. j \in Positions(h) /\ h[j] = g[j]
      BY <1>1, <1>2, <2>2 DEF Prolongs, Agree, ByHuman, Relayed, Of, Positions
    <3>2. j \in ByHuman(h) /\ u \in Uses(h[j])
      BY <3>1 DEF ByHuman, Relayed, Of
    <3>3. AnswersGates(h)
      BY DEF ReadInv
    <3>4. PICK p \in 1..(j - 1) : IsGate(h, p) /\ u \in h[p].ids
      BY <3>2, <3>3 DEF AnswersGates
    <3> QED
      BY <1>2, <3>1, <3>4 DEF Positions
  <2> QED
    BY <2>1, <2>2
<1> QED
  BY <1>1, <1>3 DEF Prolongs, Agree, Positions, IsGate

\* What is new in the cache is known, and no step writes while a history grows.
StoreKnown ==
  \A c \in Contexts : \/ store'[c] = store[c]
                      \/ store'[c].pending = {}
                      \/ UNCHANGED log /\ Known(store'[c])

\* What a step makes of the invariant.
LEMMA StepReads ==
  ASSUME ReadInv, TypeInv', Formed', Grows, StoreKnown,
         \A q \in Requests : d'[q] = d[q] \/ RequestKnows(q)'
  PROVE  ReadInv'
<1>1. \A q \in Requests : RequestKnows(q)'
  <2> TAKE q \in Requests
  <2>1. CASE d'[q] = d[q]
    BY <2>1, OthersKnow DEF ReadInv
  <2> QED
    BY <2>1
<1>2. \A c \in Contexts : Known(store[c])'
  <2> TAKE c \in Contexts
  <2>1. CASE store'[c] = store[c]
    <3>1. store[c].session \in Sessions \/ store[c].pending = {}
      BY DEF ReadInv, TypeInv, Housed, HomeOf, Cache!Present, Cache!NoEntry
    <3>2. Known(store[c])
      BY DEF ReadInv
    <3> DEFINE e == store[c]
    <3> HIDE DEF e
    <3>3. Known(e) /\ (e.session \in Sessions \/ e.pending = {}) => \A u \in e.pending : Announced(log'[e.session], u)
      BY StillKnown DEF ReadInv, Known
    <3> QED
      BY <2>1, <3>1, <3>2, <3>3 DEF Known, e
  <2>2. CASE store'[c].pending = {}
    BY <2>2 DEF Known
  <2>3. CASE UNCHANGED log /\ Known(store'[c])
    BY <2>3 DEF Known
  <2> QED
    BY <2>1, <2>2, <2>3 DEF StoreKnown
<1> QED
  BY <1>1, <1>2, NextAnswers DEF ReadInv

----------------------------------------------------------------------------
(* What each step of a request makes of what it knows. *)

Reads(r) ==
  /\ \A q \in Requests \ {r} : d'[q] = d[q]
  /\ StoreKnown
  /\ RequestKnows(r)'

\* A step that replaces the request and leaves cache and histories alone.
LEMMA QuietReads ==
  ASSUME TypeInv, NEW r \in Requests, NEW rec, d' = [d EXCEPT ![r] = rec],
         UNCHANGED <<store, log>>, Knows(r, rec, log[rec.entry.session])
  PROVE  Reads(r)
<1>1. d'[r] = rec /\ \A q \in Requests \ {r} : d'[q] = d[q]
  BY DEF TypeInv, TypeOK
<1> QED
  BY <1>1 DEF Reads, StoreKnown, RequestKnows

\* A request that leaves needs no history any more.
LEMMA LeaveReads ==
  ASSUME TypeInv, NEW r \in Requests, NEW pc \in Finished, Leave(r, pc), UNCHANGED store
  PROVE  Reads(r)
<1>1. d[r] \in Request
  BY RequestFacts
<1>2. /\ d'[r].pc = pc /\ d'[r].anchor = NoAnchor
      /\ \A q \in Requests \ {r} : d'[q] = d[q]
  BY <1>1 DEF Leave, TypeInv, TypeOK, Request
<1> QED
  BY <1>2 DEF Reads, StoreKnown, RequestKnows, Knows, Finished, InSession, Turning, Concluded

LEMMA FailureReads ==
  ASSUME TypeInv, NEW r \in Requests, CallFails(r) \/ Rejected(r)
  PROVE  Reads(r)
BY LeaveReads DEF CallFails, Rejected, Finished

\* A request that only moves on.
LEMMA GoReads ==
  ASSUME TypeInv, NEW r \in Requests, NEW pc, Go(r, pc), UNCHANGED log, StoreKnown,
         Knows(r, [d[r] EXCEPT !.pc = pc], log[d[r].entry.session])
  PROVE  Reads(r)
<1>1. d[r] \in Request
  BY RequestFacts
<1>2. /\ d'[r] = [d[r] EXCEPT !.pc = pc]
      /\ \A q \in Requests \ {r} : d'[q] = d[q]
  BY DEF Go, TypeInv, TypeOK
<1>3. d'[r].entry = d[r].entry
  BY <1>1, <1>2 DEF Request
<1> QED
  BY <1>2, <1>3 DEF Reads, RequestKnows

\* Moving on between two steps that ask the same of a request.
LEMMA KnowsMoved ==
  ASSUME NEW r, NEW rec \in Request, NEW h, Knows(r, rec, h), NEW pc,
         pc \notin {"recover", "auto", "park"},
         pc \in InSession => rec.pc \in InSession \/ rec.entry.pending = {},
         rec.anchor # NoAnchor => pc \in Turning,
         rec.outcome # "none" => pc \in Concluded /\ rec.pc \in Concluded,
         pc \in Concluded => rec.pc \in Concluded
  PROVE  Knows(r, [rec EXCEPT !.pc = pc], h)
<1> DEFINE new == [rec EXCEPT !.pc = pc]
<1>1. /\ new.pc = pc /\ new.entry = rec.entry /\ new.anchor = rec.anchor
      /\ new.deferred = rec.deferred /\ new.outcome = rec.outcome /\ new.read = rec.read
  BY DEF Request
<1> HIDE DEF new
<1>2. Knows(r, new, h)
  BY <1>1 DEF Knows
<1> QED
  BY <1>2 DEF new

\* Before its message or decision is out, a request has concluded nothing.
LEMMA EarlyFacts ==
  ASSUME ReadInv, NEW r \in Requests
  PROVE  /\ d[r] \in Request
         /\ d[r].pc \notin Concluded \union Finished => d[r].outcome = "none"
         /\ d[r].pc \notin Turning => d[r].anchor = NoAnchor
         /\ Knows(r, d[r], log[d[r].entry.session])
<1>1. d[r] \in Request
  BY RequestFacts DEF ReadInv
<1>2. Knows(r, d[r], log[d[r].entry.session])
  BY DEF ReadInv, RequestKnows
<1> QED
  BY <1>1, <1>2 DEF Knows

LEMMA ReceiveReads ==
  ASSUME ReadInv, NEW r \in Requests, NEW c \in Contexts, NEW t \in Tasks,
         NEW supplied \in BOOLEAN, Receive(r, c, t, supplied)
  PROVE  Reads(r)
<1> DEFINE rec == [d[r] EXCEPT !.pc = "load", !.ctx = c, !.task = t, !.supplied = supplied]
<1>1. d[r] \in Request /\ d[r].outcome = "none" /\ d[r].anchor = NoAnchor
  BY EarlyFacts DEF Receive, At, Concluded, Turning, Finished, InSession
<1>2. d' = [d EXCEPT ![r] = rec]
  BY DEF Receive, ReadInv, TypeInv, TypeOK
<1>3. rec.pc = "load" /\ rec.outcome = "none" /\ rec.anchor = NoAnchor
  BY <1>1 DEF Request
<1> HIDE DEF rec
<1>4. \A h : Knows(r, rec, h)
  BY <1>3 DEF Knows, InSession, Turning, Concluded
<1>5. UNCHANGED <<store, log>>
  BY DEF Receive, agentVars
<1> QED
  BY <1>2, <1>4, <1>5, QuietReads DEF ReadInv

LEMMA LoadReads ==
  ASSUME ReadInv, NEW r \in Requests, LoadSession(r)
  PROVE  Reads(r)
<1>0. d[r].pc = "load" /\ d[r].ctx \in Contexts
  BY RequestFacts DEF LoadSession, At, ReadInv
<1>1. PICK failed \in BOOLEAN :
        LET e == Cache!Load(d[r].ctx, failed) IN
        d' = [d EXCEPT ![r].entry = e,
                       ![r].pc = IF e # Cache!NoEntry THEN Branch(e)
                                 ELSE IF RecoveryEnabled /\ d[r].supplied THEN "recover"
                                 ELSE "create"]
  BY DEF LoadSession
<1> DEFINE e   == Cache!Load(d[r].ctx, failed)
           pc  == IF e # Cache!NoEntry THEN Branch(e)
                  ELSE IF RecoveryEnabled /\ d[r].supplied THEN "recover" ELSE "create"
           rec == [d[r] EXCEPT !.entry = e, !.pc = pc]
<1>2. d[r] \in Request /\ d[r].outcome = "none" /\ d[r].anchor = NoAnchor
  BY <1>0, EarlyFacts DEF Concluded, Turning, Finished, InSession
<1>3. d' = [d EXCEPT ![r] = rec]
  BY <1>1 DEF ReadInv, TypeInv, TypeOK
<1>4. e = Cache!NoEntry \/ Known(e)
  BY <1>0 DEF Cache!Load, ReadInv
<1>5. /\ e # Cache!NoEntry => pc \in {"classify", "post"}
      /\ e = Cache!NoEntry => pc \in {"recover", "create"} /\ e.pending = {}
  BY DEF Branch, Cache!NoEntry
<1> HIDE DEF e, pc
<1>6. rec.pc = pc /\ rec.entry = e /\ rec.outcome = "none" /\ rec.anchor = NoAnchor
  BY <1>2 DEF Request
<1> HIDE DEF rec
<1>7. Knows(r, rec, log[rec.entry.session])
  BY <1>4, <1>5, <1>6 DEF Knows, Known, InSession, Turning, Concluded
<1>8. UNCHANGED <<store, log>>
  BY DEF LoadSession, agentVars
<1> QED
  BY <1>3, <1>7, <1>8, QuietReads DEF ReadInv

LEMMA FindReads ==
  ASSUME ReadInv, NEW r \in Requests, FindSession(r)
  PROVE  Reads(r)
<1>1. /\ d[r].pc = "recover" /\ d[r] \in Request /\ d[r].outcome = "none"
      /\ d[r].anchor = NoAnchor /\ d[r].entry.pending = {}
  BY EarlyFacts DEF FindSession, At, Concluded, Turning, Finished, InSession, Knows
<1>2. UNCHANGED <<store, log>> /\ StoreKnown
  BY DEF FindSession, agentVars, StoreKnown
<1>3. CASE Go(r, "create")
  <2>1. Knows(r, [d[r] EXCEPT !.pc = "create"], log[d[r].entry.session])
    BY <1>1, EarlyFacts, KnowsMoved DEF InSession, Turning, Concluded
  <2> QED
    BY <1>2, <1>3, <2>1, GoReads DEF ReadInv
<1>4. CASE d' = [d EXCEPT ![r].pc = "rebuild",
                          ![r].entry.session = Largest(Recoverable(d[r].ctx))]
  <2> DEFINE s   == Largest(Recoverable(d[r].ctx))
             rec == [d[r] EXCEPT !.pc = "rebuild", !.entry.session = s]
  <2>1. d' = [d EXCEPT ![r] = rec]
    BY <1>4 DEF ReadInv, TypeInv, TypeOK
  <2> HIDE DEF s
  <2>2. /\ rec.pc = "rebuild" /\ rec.entry.pending = {} /\ rec.outcome = "none"
        /\ rec.anchor = NoAnchor
    BY <1>1 DEF Request, Entry
  <2> HIDE DEF rec
  <2>3. \A h : Knows(r, rec, h)
    BY <2>2 DEF Knows, Concluded
  <2> QED
    BY <1>2, <2>1, <2>3, QuietReads DEF ReadInv
<1> QED
  BY <1>3, <1>4 DEF FindSession

\* What LastStatus reads, it reads from a status event of the slice.
LEMMA LastStatusReads ==
  ASSUME NEW h \in Seq(Event), NEW slice \in SUBSET (1..Len(h))
  PROVE  LET status == LastStatus(h, slice) IN
         /\ status.kind \in {"done", "failed"} \/ status.ids # {} =>
              status.at \in slice /\ IsStatus(h, status.at)
         /\ status.ids # {} => IsGate(h, status.at) /\ status.ids = h[status.at].ids
<1> DEFINE at == LastOf(h, slice, StatusTypes)
           status == LastStatus(h, slice)
<1>1. at \in {0} \union Of(h, slice, StatusTypes)
  BY LenProperties, LastOfIsPosition
<1>2. at # 0 => at \in slice /\ IsStatus(h, at)
  BY <1>1 DEF Of, IsStatus
<1>3. status.at = at
  BY DEF LastStatus
<1>4. CASE at = 0
  <2>1. status.kind = "none" /\ status.ids = {}
    BY <1>4 DEF LastStatus
  <2> QED
    BY <2>1
<1>5. CASE at # 0
  <2>1. status.ids # {} => IsGate(h, at) /\ status.ids = h[at].ids
    BY <1>2, <1>5 DEF LastStatus, IsStatus, StatusTypes, IsGate
  <2> QED
    BY <1>2, <1>3, <1>5, <2>1
<1> QED
  BY <1>4, <1>5

LEMMA RebuildReads ==
  ASSUME ReadInv, NEW r \in Requests, RebuildSession(r)
  PROVE  Reads(r)
<1> DEFINE h == log[d[r].entry.session]
<1>1. /\ d[r].pc = "rebuild" /\ d[r] \in Request /\ d[r].outcome = "none"
      /\ Knows(r, d[r], h) /\ h \in Seq(Event)
  BY EarlyFacts, RequestFacts DEF RebuildSession, At, Concluded, Turning, Finished, InSession, ReadInv
<1>2. UNCHANGED <<store, log>>
  BY DEF RebuildSession, agentVars
<1>3. ASSUME NEW k \in VisiblePrefixes(h),
             d' = [d EXCEPT ![r].pc = "adopt",
                            ![r].entry.pending =
                               DecidedAs(h, 1..k, LastStatus(h, 1..k).ids, "defer")]
      PROVE  Reads(r)
  <2> DEFINE pending == DecidedAs(h, 1..k, LastStatus(h, 1..k).ids, "defer")
             rec == [d[r] EXCEPT !.pc = "adopt", !.entry.pending = pending]
  <2>1. d' = [d EXCEPT ![r] = rec]
    BY <1>3 DEF ReadInv, TypeInv, TypeOK
  <2>2. 1..k \in SUBSET (1..Len(h)) /\ 1..k \in SUBSET Positions(h)
    <3>1. Len(h) \in Nat
      BY <1>1, LenProperties
    <3> QED
      BY <3>1 DEF VisiblePrefixes, Positions
  <2>3. \A u \in pending : Announced(h, u)
    <3>1. \A u \in pending : u \in LastStatus(h, 1..k).ids
      BY DEF DecidedAs
    <3> HIDE DEF pending, h
    <3>2. ASSUME NEW u \in pending  PROVE Announced(h, u)
      <4>1. LastStatus(h, 1..k).ids # {} /\ u \in LastStatus(h, 1..k).ids
        BY <3>1
      <4>2. /\ LastStatus(h, 1..k).at \in 1..k
            /\ IsGate(h, LastStatus(h, 1..k).at)
            /\ u \in h[LastStatus(h, 1..k).at].ids
        BY <1>1, <2>2, <4>1, LastStatusReads
      <4> QED
        BY <2>2, <4>2 DEF Announced
    <3> QED
      BY <3>2
  <2> HIDE DEF pending
  <2>4. /\ rec.pc = "adopt" /\ rec.outcome = "none" /\ rec.anchor = d[r].anchor
        /\ rec.entry.pending = pending /\ rec.entry.session = d[r].entry.session
    BY <1>1 DEF Request, Entry
  <2> HIDE DEF rec
  <2>5. Knows(r, rec, h)
    BY <1>1, <2>3, <2>4 DEF Knows, Concluded, Turning, InSession
  <2> QED
    BY <1>2, <2>1, <2>4, <2>5, QuietReads DEF ReadInv
<1>4. CASE d' = [d EXCEPT ![r].pc = "create", ![r].entry = Cache!NoEntry]
  <2> DEFINE rec == [d[r] EXCEPT !.pc = "create", !.entry = Cache!NoEntry]
  <2>1. d' = [d EXCEPT ![r] = rec]
    BY <1>4 DEF ReadInv, TypeInv, TypeOK
  <2>2. rec.pc = "create" /\ rec.outcome = "none" /\ rec.anchor = d[r].anchor
    BY <1>1 DEF Request
  <2>3. d[r].anchor = NoAnchor
    BY <1>1 DEF Knows, Turning, Concluded
  <2> HIDE DEF rec
  <2>4. \A g : Knows(r, rec, g)
    BY <2>2, <2>3 DEF Knows, Concluded, InSession
  <2> QED
    BY <1>2, <2>1, <2>4, QuietReads DEF ReadInv
<1> QED
  BY <1>3, <1>4 DEF RebuildSession

LEMMA AdoptReads ==
  ASSUME ReadInv, NEW r \in Requests, AdoptSession(r) \/ RegisterSession(r)
  PROVE  Reads(r)
<1> DEFINE h  == log[d[r].entry.session]
           pc == IF d[r].pc = "adopt" THEN Branch(d[r].entry) ELSE "post"
<1>1. /\ d[r].pc \in {"adopt", "register"} /\ d[r] \in Request /\ d[r].outcome = "none"
      /\ d[r].anchor = NoAnchor /\ Knows(r, d[r], h) /\ d[r].ctx \in Contexts
  BY EarlyFacts, RequestFacts
     DEF AdoptSession, RegisterSession, At, Concluded, Turning, Finished, ReadInv
<1>2. UNCHANGED log /\ Go(r, pc)
  BY DEF AdoptSession, RegisterSession, At, agentVars
<1>3. Known(d[r].entry)
  BY <1>1 DEF Knows, InSession, Known
<1>4. StoreKnown
  <2>1. store' \in {store, [store EXCEPT ![d[r].ctx] = d[r].entry]}
    BY DEF AdoptSession, RegisterSession, Cache!Save, Cache!Create
  <2>2. \A c \in Contexts : store'[c] = store[c] \/ store'[c] = d[r].entry
    BY <2>1 DEF ReadInv, TypeInv, TypeOK
  <2> QED
    BY <1>2, <1>3, <2>2 DEF StoreKnown
<1>5. pc \in {"classify", "post"}
  BY DEF Branch
<1> HIDE DEF pc
<1>6. Knows(r, [d[r] EXCEPT !.pc = pc], h)
  BY <1>1, <1>5, KnowsMoved DEF InSession, Turning, Concluded
<1> QED
  BY <1>2, <1>4, <1>6, GoReads DEF ReadInv

LEMMA CreateReads ==
  ASSUME ReadInv, NEW r \in Requests, CreateSession(r)
  PROVE  Reads(r)
<1>1. /\ d[r].pc = "create" /\ d[r] \in Request /\ d[r].outcome = "none"
      /\ d[r].anchor = NoAnchor
  BY EarlyFacts DEF CreateSession, At, Concluded, Turning, Finished
<1>2. CASE CallFails(r)
  BY <1>2, FailureReads DEF ReadInv
<1>3. ASSUME NEW s \in Sessions, UNCHANGED <<log, store>>,
             Posted(r, [d[r] EXCEPT !.pc = "register",
                                    !.entry = [session |-> s, pending |-> {}]])
      PROVE  Reads(r)
  <2> DEFINE rec == [d[r] EXCEPT !.pc = "register",
                                 !.entry = [session |-> s, pending |-> {}]]
  <2>1. rec.pc = "register" /\ rec.entry.pending = {} /\ rec.outcome = "none"
        /\ rec.anchor = NoAnchor
    BY <1>1 DEF Request
  <2>2. Posted(r, rec)
    BY <1>3
  <2> HIDE DEF rec
  <2>3. \A h : Knows(r, rec, h)
    BY <2>1 DEF Knows, Concluded
  <2>4. CASE d' = [d EXCEPT ![r] = rec]
    BY <1>3, <2>3, <2>4, QuietReads DEF ReadInv
  <2>5. CASE Leave(r, "error")
    BY <1>3, <2>5, LeaveReads DEF Finished, ReadInv
  <2> QED
    BY <2>2, <2>4, <2>5 DEF Posted
<1> QED
  BY <1>2, <1>3 DEF CreateSession

LEMMA ClassifyReads ==
  ASSUME ReadInv, NEW r \in Requests, Classify(r)
  PROVE  Reads(r)
<1> DEFINE h == log[d[r].entry.session]
<1>1. /\ d[r].pc = "classify" /\ d[r] \in Request /\ d[r].outcome = "none"
      /\ d[r].anchor = NoAnchor /\ Knows(r, d[r], h)
  BY EarlyFacts DEF Classify, At, Concluded, Turning, Finished
<1>2. PICK answer \in {"approve", "deny", "none"} :
        d' = [d EXCEPT ![r].answer = answer, ![r].pc = "relay"]
  BY DEF Classify
<1> DEFINE rec == [d[r] EXCEPT !.answer = answer, !.pc = "relay"]
<1>3. d' = [d EXCEPT ![r] = rec]
  BY <1>2 DEF ReadInv, TypeInv, TypeOK
<1>4. rec.pc = "relay" /\ rec.entry = d[r].entry /\ rec.outcome = "none" /\ rec.anchor = NoAnchor
  BY <1>1 DEF Request
<1> HIDE DEF rec
<1>5. Knows(r, rec, h)
  BY <1>1, <1>4 DEF Knows, Concluded, InSession
<1> QED
  BY <1>3, <1>4, <1>5, QuietReads DEF Classify, agentVars, ReadInv

\* A POST that takes effect.
LEMMA PostedReads ==
  ASSUME TypeInv, NEW r \in Requests, NEW rec, Posted(r, rec), UNCHANGED store,
         Knows(r, rec, log'[rec.entry.session])
  PROVE  Reads(r)
<1>1. CASE d' = [d EXCEPT ![r] = rec]
  <2>1. d'[r] = rec /\ \A q \in Requests \ {r} : d'[q] = d[q]
    BY <1>1 DEF TypeInv, TypeOK
  <2> QED
    BY <2>1 DEF Reads, StoreKnown, RequestKnows
<1>2. CASE Leave(r, "error")
  BY <1>2, LeaveReads DEF Finished
<1> QED
  BY <1>1, <1>2 DEF Posted

LEMMA RelayReads ==
  ASSUME ReadInv, TypeInv', Grows, NEW r \in Requests, RelayDecision(r)
  PROVE  Reads(r)
<1> DEFINE s   == d[r].entry.session
           rec == [d[r] EXCEPT !.pc = "clear", !.confirmed = @ \union d[r].entry.pending]
<1>1. /\ d[r].pc = "relay" /\ d[r] \in Request /\ d[r].outcome = "none"
      /\ d[r].anchor = NoAnchor /\ Knows(r, d[r], log[s]) /\ s \in Sessions
  BY EarlyFacts, RequestFacts
     DEF RelayDecision, At, Concluded, Turning, Finished, ReadInv, InSession, HomeOf
<1>2. CASE CallFails(r) \/ Rejected(r)
  BY <1>2, FailureReads DEF ReadInv
<1>3. CASE Posted(r, rec) /\ UNCHANGED store
  <2>1. rec.pc = "clear" /\ rec.entry = d[r].entry /\ rec.outcome = "none" /\ rec.anchor = NoAnchor
    BY <1>1 DEF Request
  <2>2. Posted(r, rec)
    BY <1>3
  <2> HIDE DEF rec
  <2>3. \A u : Announced(log[s], u) => Announced(log'[s], u)
    BY <1>1, LogProlongs, AnnouncedKept DEF ReadInv
  <2>4. Knows(r, rec, log'[s])
    BY <1>1, <2>1, <2>3 DEF Knows, Concluded, InSession
  <2> QED
    BY <1>3, <2>1, <2>2, <2>4, PostedReads DEF ReadInv
<1> QED
  BY <1>2, <1>3 DEF RelayDecision

LEMMA ClearReads ==
  ASSUME ReadInv, NEW r \in Requests, ClearPending(r)
  PROVE  Reads(r)
<1> DEFINE e   == [d[r].entry EXCEPT !.pending = {}]
           rec == [d[r] EXCEPT !.entry = e, !.pc = "poll", !.polls = Polls]
<1>1. /\ d[r].pc = "clear" /\ d[r] \in Request /\ d[r].outcome = "none"
      /\ d[r].anchor = NoAnchor /\ d[r].ctx \in Contexts
  BY EarlyFacts, RequestFacts
     DEF ClearPending, At, Concluded, Turning, Finished, ReadInv
<1>2. d' = [d EXCEPT ![r] = rec] /\ UNCHANGED log
  BY DEF ClearPending, agentVars, ReadInv, TypeInv, TypeOK
<1>3. e.pending = {} /\ rec.entry = e /\ rec.pc = "poll" /\ rec.outcome = "none"
      /\ rec.anchor = NoAnchor
  BY <1>1 DEF Request, Entry
<1>4. store' \in {store, [store EXCEPT ![d[r].ctx] = e]}
  BY DEF ClearPending, Cache!Save
<1> HIDE DEF rec, e
<1>5. StoreKnown
  BY <1>1, <1>3, <1>4 DEF StoreKnown, ReadInv, TypeInv, TypeOK
<1>6. \A h : Knows(r, rec, h)
  BY <1>3 DEF Knows, Concluded
<1>7. d'[r] = rec /\ \A q \in Requests \ {r} : d'[q] = d[q]
  BY <1>2 DEF ReadInv, TypeInv, TypeOK
<1> QED
  BY <1>5, <1>6, <1>7 DEF Reads, RequestKnows

LEMMA SendReads ==
  ASSUME ReadInv, TypeInv', Grows, NEW r \in Requests, SendMessage(r)
  PROVE  Reads(r)
<1> DEFINE s      == d[r].entry.session
           anchor == IF Echoes THEN Len(log[s]) + 1 ELSE NoAnchor
           rec    == [d[r] EXCEPT !.pc = "poll", !.polls = Polls, !.anchor = anchor]
<1>1. /\ d[r].pc = "post" /\ d[r] \in Request /\ d[r].outcome = "none"
      /\ Knows(r, d[r], log[s]) /\ s \in Sessions /\ log[s] \in Seq(Event)
  BY EarlyFacts, RequestFacts
     DEF SendMessage, At, Concluded, Turning, Finished, ReadInv, InSession, HomeOf
<1>2. CASE CallFails(r) \/ Rejected(r)
  BY <1>2, FailureReads DEF ReadInv
<1>3. CASE Append1(s, UserMessage(r)) /\ Posted(r, rec) /\ UNCHANGED store
  <2>1. rec.pc = "poll" /\ rec.entry = d[r].entry /\ rec.outcome = "none" /\ rec.anchor = anchor
    BY <1>1 DEF Request
  <2>2. Posted(r, rec)
    BY <1>3
  <2> HIDE DEF rec
  <2>3. \A u : Announced(log[s], u) => Announced(log'[s], u)
    BY <1>1, LogProlongs, AnnouncedKept DEF ReadInv
  <2>4. anchor # NoAnchor => anchor \in Positions(log'[s]) /\ IsMessage(log'[s], anchor)
    <3>1. log'[s] = Append(log[s], UserMessage(r))
      BY <1>1, <1>3 DEF Append1, ReadInv, TypeInv, TypeOK
    <3> DEFINE h == log[s]
               g == Append(h, UserMessage(r))
    <3>2. h \in Seq(Event) /\ Len(h) \in Nat
      BY <1>1, LenProperties
    <3> HIDE DEF h
    <3>3. Len(g) = Len(h) + 1 /\ g[Len(h) + 1] = UserMessage(r)
      BY <3>2, Appended, Zenon
    <3> HIDE DEF g
    <3>4. Len(h) + 1 \in Positions(g) /\ IsMessage(g, Len(h) + 1)
      BY <3>2, <3>3 DEF Positions, IsMessage, UserMessage
    <3> QED
      BY <3>1, <3>4 DEF h, g
  <2> HIDE DEF anchor
  <2>5. Knows(r, rec, log'[s])
    BY <1>1, <2>1, <2>3, <2>4 DEF Knows, Concluded, InSession, Turning
  <2> QED
    BY <1>3, <2>1, <2>2, <2>5, PostedReads DEF ReadInv
<1> QED
  BY <1>2, <1>3 DEF SendMessage

\* The end of an iteration that leaves the loop running reads nothing.
LEMMA NextPollKnows ==
  ASSUME NEW r, NEW rec \in Request, NEW h, Knows(r, rec, h), rec.pc \in {"poll", "auto"}
  PROVE  Knows(r, NextPoll(rec), h)
<1> DEFINE new == NextPoll(rec)
<1>1. /\ \/ new.pc = "poll" /\ new.outcome = rec.outcome
         \/ new.pc = "persist" /\ new.outcome = "WORKING"
      /\ new.entry = rec.entry /\ new.anchor = rec.anchor
  BY DEF NextPoll, Request
<1> HIDE DEF new
<1>2. Knows(r, new, h)
  BY <1>1 DEF Knows, Concluded, InSession, Turning, Verdicts, Finished
<1> QED
  BY <1>2 DEF new

\* What a listing makes of a request, it makes of a status event of the turn.
LEMMA InterpretKnows ==
  ASSUME NEW r, NEW rec \in Request, NEW h \in Seq(Event), Knows(r, rec, h),
         rec.pc = "poll", NEW k \in VisiblePrefixes(h)
  PROVE  Knows(r, Interpret(rec, h, k), h)
<1> DEFINE turn   == CurrentTurn(h, k, rec.anchor)
           status == LastStatus(h, turn)
           ids    == status.ids \ rec.confirmed
<1>1. Len(h) \in Nat /\ k \in 0..Len(h) /\ rec.anchor \in Nat
  BY LenProperties DEF VisiblePrefixes, Request
<1>2. turn \in SUBSET (1..Len(h))
  BY <1>1, CurrentTurnIsSlice
<1>3. Len(h) <= PageLimit => \A j \in ByHuman(h) : h[j].by = r => j <= k + MaxLag
  BY <1>1, AgentAssumption DEF VisiblePrefixes, ByHuman, Relayed, Of, Positions
<1>4. status.kind \in {"done", "failed"} \/ ids # {} => ReadFrom(r, h, rec.anchor, status.at)
  <2>1. status.kind \in {"done", "failed"} \/ status.ids # {} =>
          status.at \in turn /\ IsStatus(h, status.at)
    BY <1>2, LastStatusReads
  <2> QED
    BY <1>1, <1>3, <2>1 DEF ReadFrom
<1>5. ASSUME ids # {}  PROVE \A u \in ids : Announced(h, u)
  <2>1. IsGate(h, status.at) /\ status.ids = h[status.at].ids /\ status.at \in turn
    BY <1>2, <1>5, LastStatusReads
  <2> QED
    BY <1>2, <2>1 DEF Announced, Positions
<1> DEFINE new == Interpret(rec, h, k)
<1>6. \/ /\ status.kind \in {"done", "failed"}
         /\ \/ new = Conclude(rec, "COMPLETED", status.at)
            \/ new = Conclude(rec, "FAILED", status.at)
      \/ ids # {} /\ new = GateTools(rec, h, turn, ids, status.at)
      \/ new = NextPoll(rec)
  BY DEF Interpret
<1> HIDE DEF status
<1>7. ASSUME NEW state \in {"COMPLETED", "FAILED"}, status.kind \in {"done", "failed"}
      PROVE  Knows(r, Conclude(rec, state, status.at), h)
  <2> DEFINE c == Conclude(rec, state, status.at)
  <2>1. /\ c.pc = "persist" /\ c.outcome = state /\ c.read = status.at
        /\ c.anchor = rec.anchor /\ c.entry = rec.entry
    BY DEF Conclude, Request
  <2> HIDE DEF c
  <2>2. Knows(r, c, h)
    BY <1>4, <1>7, <2>1 DEF Knows, Concluded, InSession, Turning
  <2> QED
    BY <2>2 DEF c
<1>8. ASSUME ids # {}  PROVE Knows(r, GateTools(rec, h, turn, ids, status.at), h)
  <2> DEFINE g == GateTools(rec, h, turn, ids, status.at)
  <2>1. /\ g.pc \in {"auto", "park"} /\ g.outcome = rec.outcome /\ g.read = status.at
        /\ g.anchor = rec.anchor /\ g.entry = rec.entry
        /\ g.deferred = DecidedAs(h, turn, ids, "defer")
    BY DEF GateTools, Request
  <2>2. g.deferred \subseteq ids
    BY <2>1 DEF DecidedAs
  <2> HIDE DEF g, ids, turn
  <2>3. Knows(r, g, h)
    BY <1>4, <1>5, <1>8, <2>1, <2>2 DEF Knows, Concluded, InSession, Turning, Finished
  <2> QED
    BY <2>3 DEF g
<1>9. Knows(r, NextPoll(rec), h)
  BY NextPollKnows
<1> HIDE DEF new, ids, turn
<1>10. Knows(r, new, h)
  BY <1>6, <1>7, <1>8, <1>9
<1> QED
  BY <1>10 DEF new

LEMMA PollReads ==
  ASSUME ReadInv, NEW r \in Requests, Poll(r)
  PROVE  Reads(r)
<1> DEFINE h == log[d[r].entry.session]
<1>1. /\ d[r].pc = "poll" /\ d[r] \in Request /\ Knows(r, d[r], h) /\ h \in Seq(Event)
  BY EarlyFacts, RequestFacts DEF Poll, At, ReadInv, InSession
<1>2. CASE CallFails(r)
  BY <1>2, FailureReads DEF ReadInv
<1>3. ASSUME UNCHANGED <<store, log>>, NEW k \in VisiblePrefixes(h),
             d' = [d EXCEPT ![r] = Interpret(d[r], h, k)]
      PROVE  Reads(r)
  <2> DEFINE new == Interpret(d[r], h, k)
  <2>1. Knows(r, new, h)
    BY <1>1, InterpretKnows
  <2>2. new.entry = d[r].entry
    BY <1>1, InterpretType DEF VisiblePrefixes
  <2>3. d' = [d EXCEPT ![r] = new]
    BY <1>3
  <2> HIDE DEF new
  <2> QED
    BY <1>3, <2>1, <2>2, <2>3, QuietReads DEF ReadInv
<1> QED
  BY <1>2, <1>3 DEF Poll, agentVars

LEMMA AutosReads ==
  ASSUME ReadInv, TypeInv', Grows, NEW r \in Requests, RelayAutos(r)
  PROVE  Reads(r)
<1> DEFINE s    == d[r].entry.session
           some == [d[r] EXCEPT !.autos = {}]
           rec  == IF some.deferred # {} THEN [some EXCEPT !.pc = "park"] ELSE NextPoll(some)
<1>1. /\ d[r].pc = "auto" /\ d[r] \in Request /\ d[r].outcome = "none"
      /\ Knows(r, d[r], log[s]) /\ s \in Sessions
  BY EarlyFacts, RequestFacts
     DEF RelayAutos, At, Concluded, Turning, Finished, ReadInv, InSession, HomeOf
<1>2. CASE CallFails(r) \/ Rejected(r)
  BY <1>2, FailureReads DEF ReadInv
<1>3. CASE Posted(r, rec) /\ UNCHANGED store
  <2>1. /\ some \in Request /\ some.pc = "auto" /\ some.entry = d[r].entry
        /\ some.outcome = "none" /\ some.anchor = d[r].anchor /\ some.read = d[r].read
        /\ some.deferred = d[r].deferred
    BY <1>1 DEF Request
  <2>2. Posted(r, rec)
    BY <1>3
  <2> HIDE DEF some
  <2>3. Knows(r, some, log[s])
    BY <1>1, <2>1 DEF Knows
  <2>4. Prolongs(log[s], log'[s])
    BY <1>1, LogProlongs DEF ReadInv
  <2>5. \A j \in ByHuman(log'[s]) : log'[s][j].by = r => j <= Len(log[s])
    <3> TAKE j \in ByHuman(log'[s])
    <3>1. log'[s][j].by = r => ~(j > Len(log[s]))
      BY <1>1, NewDecision DEF ReadInv
    <3> QED
      BY <2>4, <3>1 DEF Prolongs, ByHuman, Relayed, Of, Positions
  <2>6. Knows(r, some, log'[s])
    BY <2>1, <2>3, <2>4, <2>5, KnowsKept
  <2>7. Knows(r, rec, log'[s]) /\ rec.entry = d[r].entry
    <3>1. CASE some.deferred # {}
      <4> DEFINE p == [some EXCEPT !.pc = "park"]
      <4>1. /\ p.pc = "park" /\ p.entry = some.entry /\ p.outcome = some.outcome
            /\ p.anchor = some.anchor /\ p.read = some.read /\ p.deferred = some.deferred
        BY <2>1 DEF Request
      <4> HIDE DEF p
      <4>2. Knows(r, p, log'[s])
        BY <2>1, <2>6, <4>1 DEF Knows, InSession, Turning, Concluded
      <4> QED
        BY <2>1, <3>1, <4>1, <4>2 DEF p
    <3>2. CASE some.deferred = {}
      <4>1. Knows(r, NextPoll(some), log'[s])
        BY <2>1, <2>6, NextPollKnows
      <4>2. NextPoll(some).entry = some.entry
        BY <2>1, NextPollType
      <4> QED
        BY <2>1, <3>2, <4>1, <4>2
    <3> QED
      BY <3>1, <3>2
  <2> HIDE DEF rec
  <2> QED
    BY <1>3, <2>2, <2>7, PostedReads DEF ReadInv
<1> QED
  BY <1>2, <1>3 DEF RelayAutos

LEMMA ParkReads ==
  ASSUME ReadInv, NEW r \in Requests, ParkDeferred(r)
  PROVE  Reads(r)
<1> DEFINE h   == log[d[r].entry.session]
           e   == [d[r].entry EXCEPT !.pending = d[r].deferred]
           rec == [d[r] EXCEPT !.entry = e, !.outcome = "INPUT_REQUIRED", !.pc = "persist"]
<1>1. d[r].pc = "park" /\ d[r] \in Request /\ Knows(r, d[r], h) /\ d[r].ctx \in Contexts
  BY EarlyFacts, RequestFacts DEF ParkDeferred, At, ReadInv
<1>2. d' = [d EXCEPT ![r] = rec] /\ UNCHANGED log
  BY DEF ParkDeferred, agentVars, ReadInv, TypeInv, TypeOK
<1>3. store' \in {store, [store EXCEPT ![d[r].ctx] = e]}
  BY DEF ParkDeferred, Cache!Save
<1>4. e.pending = d[r].deferred /\ e.session = d[r].entry.session
  BY <1>1 DEF Request, Entry
<1>5. /\ rec.entry = e /\ rec.pc = "persist" /\ rec.outcome = "INPUT_REQUIRED"
      /\ rec.anchor = d[r].anchor /\ rec.read = d[r].read
  BY <1>1 DEF Request
<1> HIDE DEF rec, e
<1>6. Known(e)
  BY <1>1, <1>4 DEF Known, Knows
<1>7. StoreKnown
  BY <1>1, <1>2, <1>3, <1>6 DEF StoreKnown, ReadInv, TypeInv, TypeOK
<1>8. Knows(r, rec, h)
  BY <1>1, <1>4, <1>5 DEF Knows, Concluded, InSession, Turning
<1>9. d'[r] = rec /\ \A q \in Requests \ {r} : d'[q] = d[q]
  BY <1>2 DEF ReadInv, TypeInv, TypeOK
<1> QED
  BY <1>2, <1>4, <1>5, <1>7, <1>8, <1>9 DEF Reads, RequestKnows

LEMMA SaveReads ==
  ASSUME ReadInv, NEW r \in Requests, PersistTask(r) \/ SaveSession(r)
  PROVE  Reads(r)
<1> DEFINE h  == log[d[r].entry.session]
           pc == IF d[r].pc = "persist" THEN "save" ELSE "respond"
<1>1. /\ d[r].pc \in {"persist", "save"} /\ d[r] \in Request
      /\ Knows(r, d[r], h) /\ d[r].ctx \in Contexts
  BY EarlyFacts, RequestFacts DEF PersistTask, SaveSession, At, ReadInv
<1>2. UNCHANGED log /\ Go(r, pc)
  BY DEF PersistTask, SaveSession, At, agentVars
<1>3. Known(d[r].entry)
  BY <1>1 DEF Knows, InSession, Known
<1>4. StoreKnown
  <2>1. store' \in {store, [store EXCEPT ![d[r].ctx] = d[r].entry]}
    BY DEF PersistTask, SaveSession, Cache!Save
  <2>2. \A c \in Contexts : store'[c] = store[c] \/ store'[c] = d[r].entry
    BY <2>1 DEF ReadInv, TypeInv, TypeOK
  <2> QED
    BY <1>2, <1>3, <2>2 DEF StoreKnown
<1>5. pc \in {"save", "respond"}
  OBVIOUS
<1> HIDE DEF pc
<1>6. Knows(r, [d[r] EXCEPT !.pc = pc], h)
  BY <1>1, <1>5, KnowsMoved DEF InSession, Turning, Concluded
<1> QED
  BY <1>2, <1>4, <1>6, GoReads DEF ReadInv

LEMMA RespondReads ==
  ASSUME ReadInv, NEW r \in Requests, Respond(r)
  PROVE  Reads(r)
BY LeaveReads DEF Respond, Finished, ReadInv

\* Every step of a request.
LEMMA StepOfReads ==
  ASSUME ReadInv, TypeInv', Grows, NEW r \in Requests, Step(r)
  PROVE  Reads(r)
BY LoadReads, FindReads, RebuildReads, AdoptReads, CreateReads, ClassifyReads, RelayReads,
   ClearReads, SendReads, PollReads, AutosReads, ParkReads, SaveReads, RespondReads DEF Step

LEMMA InitReadInv == Init => ReadInv
<1> SUFFICES ASSUME Init  PROVE ReadInv
  OBVIOUS
<1>1. TypeInv /\ Formed
  BY InitTypeInv, InitFormed
<1>2. \A c \in Contexts : Known(store[c])
  BY DEF Init, Cache!StoreInit, Cache!NoEntry, Known
<1>3. \A r \in Requests : RequestKnows(r)
  BY DEF Init, Fresh, RequestKnows, Knows, InSession, Concluded, NoAnchor
<1>4. \A s \in Sessions : AnswersGates(log[s])
  BY DEF Init, AgentInit, AnswersGates, ByHuman, Relayed, Of, Positions
<1> QED
  BY <1>1, <1>2, <1>3, <1>4 DEF ReadInv

\* ReadInv is inductive.
LEMMA NextReadInv == ReadInv /\ [Next]_vars => ReadInv'
<1> SUFFICES ASSUME ReadInv, [Next]_vars  PROVE ReadInv'
  OBVIOUS
<1>1. TypeInv' /\ Formed' /\ Grows
  BY NextTypeInv, NextFormed, NextGrows DEF ReadInv
<1>2. ASSUME NEW r \in Requests, Reads(r)  PROVE ReadInv'
  BY <1>1, <1>2, StepReads DEF Reads
<1>3. ASSUME NEW r \in Requests, Step(r)  PROVE ReadInv'
  BY <1>1, <1>2, <1>3, StepOfReads
<1>4. ASSUME UNCHANGED d, StoreKnown  PROVE ReadInv'
  BY <1>1, <1>4, StepReads
<1>5. CASE Environment
  <2>1. ASSUME NEW r \in Requests, NEW c \in Contexts, NEW t \in Tasks,
               NEW supplied \in BOOLEAN, Receive(r, c, t, supplied)
        PROVE  ReadInv'
    BY <1>2, <2>1, ReceiveReads
  <2>2. ASSUME NEW r \in Requests, Crash(r)  PROVE ReadInv'
    BY <1>2, <2>2, LeaveReads DEF Crash, Finished, ReadInv
  <2>3. ASSUME NEW c \in Contexts, ExpireSession(c)  PROVE ReadInv'
    <3>1. StoreKnown
      BY <2>3 DEF ExpireSession, Cache!Expire, Cache!NoEntry, StoreKnown, ReadInv, TypeInv, TypeOK
    <3> QED
      BY <1>4, <2>3, <3>1 DEF ExpireSession
  <2>4. ASSUME NEW s \in Sessions, AgentStep(s) \/ BreakAgent(s)  PROVE ReadInv'
    BY <1>4, <2>4 DEF AgentStep, BreakAgent, StoreKnown
  <2> QED
    BY <1>5, <2>1, <2>2, <2>3, <2>4 DEF Environment
<1>6. CASE UNCHANGED vars
  BY <1>4, <1>6 DEF vars, StoreKnown
<1> QED
  BY <1>3, <1>5, <1>6 DEF Next

----------------------------------------------------------------------------
(* The outcome of a turn. *)

\* A prefix is a history, and in the state the session was in.
LEMMA UptoAt ==
  ASSUME NEW h \in Seq(Event), NEW n \in 0..Len(h)
  PROVE  LET b == Upto(h, n) IN
         /\ b \in Seq(Event) /\ Len(b) = n
         /\ Agree(b, h, n)
         /\ Serving(b) = ServingAt(h, n)
<1> DEFINE b == Upto(h, n)
<1>1. Len(h) \in Nat /\ n \in Nat
  BY LenProperties
<1>2. b \in Seq(Event) /\ Len(b) = n /\ \A i \in 1..n : b[i] = h[i]
  BY <1>1, SubSeqProperties DEF Upto
<1> HIDE DEF b
<1>3. Agree(b, h, n)
  BY <1>2 DEF Agree
<1>4. Serving(b) = ServingAt(b, n)
  BY <1>2, NowAt
<1>5. ServingAt(b, n) = ServingAt(h, n)
  BY <1>1, <1>3, AgreeAt
<1> QED
  BY <1>2, <1>3, <1>4, <1>5 DEF b

LEMMA PeaceIsRest ==
  ASSUME NEW h \in Seq(Event), NEW m \in Positions(h), PostedInPeace(h, m)
  PROVE  RestedAt(h, m)
<1> DEFINE n == m - 1
           b == Upto(h, n)
<1>1. Len(h) \in Nat /\ n \in 0..Len(h) /\ n \in Nat
  BY LenProperties DEF Positions
<1>2. Waiting(b) = {} /\ Idle(b) /\ ~Gated(b)
  BY DEF PostedInPeace
<1>3. b \in Seq(Event) /\ Len(b) = n /\ Agree(b, h, n) /\ Serving(b) = ServingAt(h, n)
  BY <1>1, UptoAt
<1> HIDE DEF b
<1>4. ~RunningAt(b, n) /\ ~GatedAt(b, n)
  BY <1>2, <1>3, NowAt
<1>5. ~RunningAt(h, n) /\ ~GatedAt(h, n)
  BY <1>1, <1>3, <1>4, AgreeAt
<1>6. ASSUME NEW i \in 1..n, IsMessage(h, i)  PROVE i <= ServingAt(h, n)
  <2>1. b[i] = h[i]
    BY <1>3 DEF Agree
  <2>2. ~(i > Serving(b))
    BY <1>2, <1>3, <1>6, <2>1 DEF Waiting, Of, IsMessage
  <2>3. ServingAt(h, n) \in Nat
    BY <1>1, ServingType
  <2> QED
    BY <1>1, <1>3, <2>2, <2>3
<1> QED
  BY <1>5, <1>6 DEF RestedAt

\* A status event that r read after message m, with no message in between, is of
\* the turn m opened.
LEMMA ReadAfter ==
  ASSUME NEW h \in Seq(Event), WellFormed(h), NEW m \in Positions(h), IsMessage(h, m),
         PostedInPeace(h, m), NEW i \in (m + 1)..Len(h), IsStatus(h, i),
         Of(h, (m + 1)..i, {"user.message"}) = {}
  PROVE  Serving(Upto(h, i)) = m
<1>1. Len(h) \in Nat /\ m \in Nat /\ i \in m..Len(h) /\ i \in 0..Len(h) /\ i \in (m + 1)..i
  BY LenProperties DEF Positions
<1>2. \A j \in (m + 1)..i : ~IsMessage(h, j)
  BY DEF Of, IsMessage
<1>3. RestedAt(h, m)
  BY PeaceIsRest
<1>4. ServingAt(h, i) = m \/ \A j \in (m + 1)..i : ~IsStatus(h, j)
  BY <1>1, <1>2, <1>3, TurnOfMessage
<1>5. ServingAt(h, i) = m
  BY <1>1, <1>4
<1> QED
  BY <1>1, <1>5, UptoAt

\* The turn that used tools a human decided was opened some time before: the message,
\* its start, the use and the gate come before the decision.
LEMMA OpenerBefore ==
  ASSUME NEW h \in Seq(Event), WellFormed(h), AnswersGates(h),
         NEW j \in ByHuman(h), NEW u \in Uses(h[j])
  PROVE  LET m == ServingAt(h, u) IN
         /\ u \in Positions(h) /\ j \in Positions(h)
         /\ m # 0 => m \in Positions(h) /\ IsMessage(h, m) /\ m + 4 <= j
<1>1. Len(h) \in Nat /\ j \in 1..Len(h)
  BY LenProperties DEF ByHuman, Relayed, Of, Positions
<1>2. PICK p \in 1..(j - 1) : IsGate(h, p) /\ u \in h[p].ids
  BY DEF AnswersGates
<1>3. EventOK(h, p) /\ p \in 1..Len(h)
  BY <1>1 DEF WellFormed, Positions
<1>4. u \in UnconfirmedAt(h, p - 1)
  BY <1>2, <1>3 DEF EventOK
<1>5. u \in 1..(p - 1) /\ h[u].type = "agent.tool_use"
  BY <1>4 DEF UnconfirmedAt, Of
<1>6. u \in 0..Len(h) /\ u \in Nat
  BY <1>1, <1>3, <1>5
<1> DEFINE q == StartAt(h, u)
<1>7. ASSUME ServingAt(h, u) # 0
      PROVE  ServingAt(h, u) \in 1..(u - 2) /\ IsMessage(h, ServingAt(h, u))
  <2>1. q \in 1..u /\ h[q].type = "session.status_running" /\ h[q].serves = ServingAt(h, u)
    BY <1>6, <1>7, ServingType DEF ServingAt
  <2>2. q # u
    BY <1>5, <2>1
  <2>3. ServesBefore(h, q)
    BY <1>1, <1>6, <2>1, ServesEarlier DEF Positions
  <2> HIDE DEF q
  <2>4. ServingAt(h, u) \in 1..(q - 1) /\ IsMessage(h, ServingAt(h, u))
    BY <1>7, <2>1, <2>3 DEF ServesBefore
  <2> QED
    BY <1>6, <2>1, <2>2, <2>4
<1> HIDE DEF q
<1>8. u \in Positions(h) /\ j \in Positions(h)
  BY <1>1, <1>3, <1>5 DEF Positions
<1>9. ASSUME ServingAt(h, u) # 0
      PROVE  ServingAt(h, u) \in Positions(h) /\ ServingAt(h, u) + 4 <= j
  <2> DEFINE m == ServingAt(h, u)
  <2>1. m \in 1..(u - 2)
    BY <1>7, <1>9
  <2> HIDE DEF m
  <2>2. m \in Positions(h) /\ m + 4 <= j
    BY <1>1, <1>5, <2>1 DEF Positions
  <2> QED
    BY <2>2 DEF m
<1> QED
  BY <1>1, <1>7, <1>8, <1>9

\* No history has outgrown the page a GET returns.
HistoriesFit == \A s \in Sessions : Len(log[s]) <= PageLimit

LEMMA OwnTurn ==
  ASSUME ReadInv, NEW r \in Requests,
         d[r].anchor # NoAnchor \/ (MaxLag <= 4 /\ HistoriesFit)
  PROVE  ReadsOwn(r)
<1> DEFINE s == d[r].entry.session
           h == log[s]
           m == Opener(r)
           read == d[r].read
           anchor == d[r].anchor
           mine == UNION {Uses(h[i]) : i \in {j \in ByHuman(h) : h[j].by = r}}
<1> SUFFICES ASSUME Active(r), d[r].outcome \in Verdicts, m # 0, PostedInPeace(h, m),
                    Of(h, (m + 1)..read, {"user.message"}) = {}
             PROVE  Serving(Upto(h, read)) = m
  BY DEF ReadsOwn, Verdicts
<1>1. d[r] \in Request /\ Knows(r, d[r], h)
  BY EarlyFacts
<1>2. d[r].pc \in Concluded
  BY <1>1 DEF Knows, Active, Verdicts
<1>3. s \in Sessions /\ h \in Seq(Event) /\ WellFormed(h) /\ AnswersGates(h)
  BY <1>2, RequestFacts DEF Concluded, InSession, HomeOf, ReadInv, Formed
<1>4. Len(h) \in Nat
  BY <1>3, LenProperties
<1>5. PICK k \in 0..Len(h) :
        /\ read \in CurrentTurn(h, k, anchor) /\ IsStatus(h, read)
        /\ Len(h) <= PageLimit => \A j \in ByHuman(h) : h[j].by = r => j <= k + MaxLag
  BY <1>1, <1>2 DEF Knows, ReadFrom
<1>6. ASSUME m \in Positions(h), IsMessage(h, m), read \in (m + 1)..k
      PROVE  Serving(Upto(h, read)) = m
  <2>1. read \in (m + 1)..Len(h)
    BY <1>4, <1>6 DEF Positions
  <2> HIDE DEF h, m, read
  <2> QED
    BY <1>3, <1>5, <1>6, <2>1, ReadAfter
<1>7. CASE anchor # NoAnchor
  <2>1. m = anchor
    BY <1>7 DEF Opener
  <2>2. m \in Positions(h) /\ IsMessage(h, m)
    BY <1>1, <1>7, <2>1 DEF Knows
  <2>3. read \in (m + 1)..k
    BY <1>5, <1>7, <2>1 DEF CurrentTurn
  <2> QED
    BY <1>6, <2>2, <2>3
<1>8. CASE anchor = NoAnchor
  <2>1. mine # {} /\ m = Serving(Upto(h, Largest(mine)))
    BY <1>8 DEF Opener
  <2>2. \A u \in mine : u \in Positions(h)
    <3> TAKE u \in mine
    <3>1. PICK j \in ByHuman(h) : u \in Uses(h[j])
      OBVIOUS
    <3> HIDE DEF h
    <3> QED
      BY <1>3, <3>1, OpenerBefore
  <2>3. Largest(mine) \in mine
    BY <1>4, <2>1, <2>2, LargestIsElement DEF Positions
  <2> DEFINE u == Largest(mine)
  <2>4. PICK j \in ByHuman(h) : h[j].by = r /\ u \in Uses(h[j])
    BY <2>3
  <2>5. u \in 0..Len(h)
    <3>1. u \in Positions(h)
      BY <2>2, <2>3
    <3> HIDE DEF u, h
    <3> QED
      BY <1>4, <3>1 DEF Positions
  <2>6. m = ServingAt(h, u)
    BY <1>3, <2>1, <2>5, UptoAt
  <2>7. m \in Positions(h) /\ IsMessage(h, m) /\ m + 4 <= j /\ j \in Positions(h)
    <3> DEFINE x == u
    <3>1. ServingAt(h, x) # 0 /\ x \in Uses(h[j])
      BY <2>4, <2>6
    <3> HIDE DEF x
    <3>2. /\ ServingAt(h, x) \in Positions(h) /\ IsMessage(h, ServingAt(h, x))
          /\ ServingAt(h, x) + 4 <= j /\ j \in Positions(h)
      BY <1>3, <3>1, OpenerBefore
    <3> QED
      BY <2>6, <3>2 DEF x
  <2>8. j <= k + MaxLag /\ MaxLag <= 4
    <3>1. MaxLag <= 4 /\ Len(h) <= PageLimit
      BY <1>3, <1>8 DEF HistoriesFit
    <3> QED
      BY <1>5, <2>4, <3>1
  <2>9. m <= k /\ k \in Nat
    <3> HIDE DEF m, h
    <3> QED
      BY <1>4, <2>7, <2>8, AgentAssumption DEF Positions
  <2> DEFINE last == LastOf(h, 1..k, {"user.message"})
  <2>10. read \in (last + 1)..k
    BY <1>5, <1>8 DEF CurrentTurn
  <2>11. last \in 1..k /\ IsMessage(h, last) /\ m <= last
    <3>1. m \in Of(h, 1..k, {"user.message"}) /\ Of(h, 1..k, {"user.message"}) \in SUBSET (1..k)
      <4> HIDE DEF m, h
      <4>1. m \in 1..k
        BY <1>4, <2>7, <2>9 DEF Positions
      <4> QED
        BY <2>7, <4>1 DEF Of, IsMessage
    <3>2. /\ Largest(Of(h, 1..k, {"user.message"})) \in Of(h, 1..k, {"user.message"})
          /\ m <= Largest(Of(h, 1..k, {"user.message"}))
      <4> HIDE DEF m, h
      <4> QED
        BY <2>9, <3>1, LargestIsElement
    <3>3. last = Largest(Of(h, 1..k, {"user.message"}))
      BY <3>1 DEF LastOf
    <3> HIDE DEF last
    <3> QED
      BY <3>2, <3>3 DEF Of, IsMessage
  <2>12. last = m
    <3> HIDE DEF last, h, m, read
    <3>1. ~(m < last)
      <4>1. m < last => last \in (m + 1)..read
        BY <2>7, <2>10, <2>11 DEF Positions
      <4> QED
        BY <2>11, <4>1 DEF Of, IsMessage
    <3> QED
      BY <2>7, <2>11, <3>1 DEF Positions
  <2> QED
    BY <1>6, <2>7, <2>10, <2>12
<1> QED
  BY <1>7, <1>8

\* A request that remembers the id of its message reads the outcome of that message's
\* turn, and of no other, whatever lags, breaks or overtakes it.
THEOREM AnchorsHold ==
  Spec => [](\A r \in Requests : d[r].anchor # NoAnchor => ReadsOwn(r))
<1>1. ReadInv => \A r \in Requests : d[r].anchor # NoAnchor => ReadsOwn(r)
  BY OwnTurn
<1> QED
  BY <1>1, InitReadInv, NextReadInv, PTL DEF Spec

\* A resumed turn has no anchor.  It is its own that a request reads, too, as long as
\* a listing is at most four events late and shows the whole history: between the
\* message and the decision lie the start, the use and the gate.
THEOREM TurnsAreOwn ==
  ASSUME MaxLag <= 4
  PROVE  Spec => [](HistoriesFit => ReadsOwnTurn)
<1>1. ReadInv => (HistoriesFit => ReadsOwnTurn)
  BY OwnTurn DEF ReadsOwnTurn
<1> QED
  BY <1>1, InitReadInv, NextReadInv, PTL DEF Spec
=============================================================================
