--------------------------- MODULE RecoveryProofs ---------------------------
(***************************************************************************)
(* Questions that are not forgotten, whatever crashes, expires or is lost. *)
(*                                                                         *)
(* A conversation takes one message at a time and the writes of the cache  *)
(* succeed.  When an entry is lost, recovery rebuilds it from the last     *)
(* gate of the session.  That is enough: a gate that names a use stays     *)
(* until the use is confirmed, and no rule confirms a use that has been    *)
(* left to the human, whether its turn shows the tool's name or a later    *)
(* message hides it.                                                       *)
(*                                                                         *)
(* The second part is about conversations that lose nothing: the cache     *)
(* then holds exactly the open questions, neither fewer nor more, also     *)
(* when a listing lacks the last event of the session.                     *)
(***************************************************************************)
EXTENDS GateProofs

\* The policy leaves use u to the human, and no rule has decided it.
Deferred(h, u) == Resolve(ToolOf(h, u)) = "defer"
Settled(h, u)  == Deferred(h, u) /\ Confirmed(h, u) => u \in Decided(h)

\* The questions that are open for the client of c, and an entry that has them.
Owed(c, s)   == {u \in Asked(c, s) \ Decided(log[s]) : Deferred(log[s], u)}
Covers(c, e) == Owed(c, e.session) \subseteq e.pending

\* A gate that a listing shows has named u.
Shown(h, u) == \E p \in Positions(h) : p <= PageLimit /\ IsGate(h, p) /\ u \in h[p].ids

\* A request that is about to put, or has put, what it deferred to the client.
Asking(rec) ==
  \/ rec.pc \in {"auto", "park"}
  \/ rec.pc \in Concluded \union {"done"} /\ rec.outcome = "INPUT_REQUIRED"

\* What a rule says of a use, which has its tool unless a later message hides it.
Lawful(h, c) ==
  /\ c[1] \in Of(h, Positions(h), {"agent.tool_use"})
  /\ \/ c[2] = Resolve(ToolOf(h, c[1]))
     \/ /\ c[2] = Resolve(NoTool)
        /\ \E i \in Positions(h) : c[1] < i /\ i <= PageLimit /\ IsMessage(h, i)

StoreCovers == \A c \in Contexts : store[c] = NoEntry \/ Covers(c, store[c])

Holding == Cached \union {"adopt", "register"}

\* What a request contributes.
HoldsEntry(r)   == d[r].pc \in Holding => Covers(d[r].ctx, d[r].entry)
HoldsDecided(r) == d[r].pc = "clear" => d[r].entry.pending \subseteq Decided(log[d[r].entry.session])
HoldsAsked(r) ==
  Asking(d[r]) =>
    /\ HomeOf(d[r].entry.session, d[r].ctx)
    /\ \A u \in d[r].deferred : Shown(log[d[r].entry.session], u)
                                /\ Settled(log[d[r].entry.session], u)
HoldsAutos(r) ==
  d[r].pc = "auto" =>
    \A a \in d[r].autos : Lawful(log[d[r].entry.session], a) /\ a[1] \notin d[r].deferred
HoldsAnchor(r) ==
  d[r].anchor # NoAnchor =>
    \A i \in Positions(log[d[r].entry.session]) :
      IsMessage(log[d[r].entry.session], i) => i <= d[r].anchor

Holds(r) ==
  HoldsEntry(r) /\ HoldsDecided(r) /\ HoldsAsked(r) /\ HoldsAutos(r) /\ HoldsAnchor(r)

RulesLawful ==
  \A s \in Sessions : \A j \in Relayed(log[s]) :
    log[s][j].who = "rule" => \A c \in log[s][j].decisions : Lawful(log[s], c)

ForgetInv == StoreCovers /\ (\A r \in Requests : Holds(r)) /\ RulesLawful

BaseInv == PostInv /\ CacheInv /\ ReadInv

----------------------------------------------------------------------------
\* A gate stays until its uses are confirmed.
LEMMA StaysGated ==
  ASSUME NEW h \in Seq(Event), WellFormed(h), NEW p \in Positions(h), IsGate(h, p),
         NEW u \in h[p].ids, NEW n \in p..Len(h), ~ConfirmedAt(h, u, n)
  PROVE  GatedAt(h, n) /\ u \in h[StatusAt(h, n)].ids
<1> DEFINE P(x) == GatedAt(h, x) /\ u \in h[StatusAt(h, x)].ids
           Bad  == {x \in p..n : ~P(x)}
<1>1. Len(h) \in Nat /\ p \in Nat \ {0} /\ p <= Len(h)
  BY LenProperties DEF Positions
<1>2. SUFFICES ASSUME Bad # {}  PROVE FALSE
  BY <1>1
<1>3. Bad \in SUBSET Nat
  BY <1>1
<1>4. PICK x \in Bad : \A y \in Bad : x <= y
  BY <1>2, <1>3, SmallestExists
<1>5. x \in p..n /\ ~P(x) /\ x \in Nat \ {0} /\ x \in 1..Len(h)
  BY <1>1, <1>4
<1>6. \A y \in p..n : y < x => P(y)
  BY <1>1, <1>3, <1>4
<1> HIDE DEF Bad
<1>7. StatusAt(h, x) = IF h[x].type \in StatusTypes THEN x ELSE StatusAt(h, x - 1)
  BY <1>5, LastStep DEF StatusAt
<1>8. CASE x = p
  BY <1>1, <1>5, <1>7, <1>8 DEF IsGate, GatedAt, StatusTypes
<1>9. CASE x # p
  <2> DEFINE y == x - 1
  <2>1. P(y) /\ y \in p..n
    BY <1>5, <1>6, <1>9, <1>1
  <2>2. u \in Of(h, 1..y, {"agent.tool_use"})
    <3>1. EventOK(h, p)
      BY DEF WellFormed
    <3>2. u \in UnconfirmedAt(h, p - 1)
      BY <3>1 DEF EventOK
    <3> QED
      BY <3>2, <2>1, <1>1 DEF UnconfirmedAt, Of
  <2>3. ~ConfirmedAt(h, u, y)
    <3>1. Of(h, 1..y, {"user.tool_confirmation"}) \subseteq Of(h, 1..n, {"user.tool_confirmation"})
      BY <2>1, <1>1 DEF Of
    <3> QED
      BY <3>1 DEF ConfirmedAt
  <2>4. u \in UnconfirmedAt(h, y)
    BY <2>2, <2>3 DEF UnconfirmedAt
  <2>5. ~RunningAt(h, y)
    BY <2>1 DEF RunningAt, GatedAt
  <2>6. EventOK(h, x)
    BY <1>5 DEF WellFormed, Positions
  <2> HIDE DEF y
  <2>7. h[x].type \in StatusTypes
    <3>1. CASE h[x].type \notin StatusTypes
      <4>1. StatusAt(h, x) = StatusAt(h, y)
        BY <1>7, <3>1 DEF y
      <4> QED
        BY <4>1, <2>1, <1>5 DEF GatedAt
    <3> QED
      BY <3>1
  <2>8. h[x].type # "session.status_running"
    BY <2>1, <2>4, <2>5, <2>6 DEF EventOK, y
  <2>9. IsGate(h, x)
    BY <2>5, <2>6, <2>7, <2>8 DEF EventOK, y, IsStatus
  <2>10. h[x].ids = h[StatusAt(h, y)].ids \intersect UnconfirmedAt(h, y)
    BY <2>5, <2>6, <2>9 DEF EventOK, y
  <2>11. StatusAt(h, x) = x
    BY <1>7, <2>7
  <2>12. P(x)
    BY <1>5, <2>1, <2>4, <2>9, <2>10, <2>11 DEF GatedAt, IsGate
  <2> QED
    BY <1>5, <2>12
<1> QED
  BY <1>8, <1>9

\* What a gate has named is a tool use of the history.
LEMMA ShownUse ==
  ASSUME NEW h \in Seq(Event), WellFormed(h), NEW u, Shown(h, u)
  PROVE  u \in Of(h, Positions(h), {"agent.tool_use"})
<1>1. Len(h) \in Nat
  BY LenProperties
<1>2. PICK p \in Positions(h) : IsGate(h, p) /\ u \in h[p].ids
  BY DEF Shown
<1>3. u \in UnconfirmedAt(h, p - 1)
  BY <1>2 DEF WellFormed, EventOK
<1> QED
  BY <1>1, <1>2, <1>3 DEF UnconfirmedAt, Of, Positions

LEMMA ShownKept ==
  ASSUME NEW h, NEW g, Prolongs(h, g), NEW u, Shown(h, u)
  PROVE  Shown(g, u)
BY DEF Prolongs, Agree, Shown, Positions, IsGate

LEMMA ToolKept ==
  ASSUME NEW h, NEW g, Prolongs(h, g), NEW u \in Of(h, Positions(h), {"agent.tool_use"})
  PROVE  /\ u \in Of(g, Positions(g), {"agent.tool_use"})
         /\ ToolOf(g, u) = ToolOf(h, u)
<1>1. u \in Positions(g) /\ g[u] = h[u]
  BY DEF Prolongs, Agree, Positions, Of
<1> QED
  BY <1>1 DEF Of, ToolOf, ExtractTool

LEMMA DecidedGrows ==
  ASSUME NEW h, NEW g, Prolongs(h, g)
  PROVE  Decided(h) \subseteq Decided(g)
<1>1. \A i \in ByHuman(h) : i \in ByHuman(g) /\ g[i] = h[i]
  BY DEF Prolongs, Agree, ByHuman, Relayed, Of, Positions
<1>2. \A i \in ByHuman(h) : Uses(g[i]) = Uses(h[i])
  BY <1>1 DEF Uses
<1> QED
  BY <1>1, <1>2 DEF Decided

LEMMA LawfulKept ==
  ASSUME NEW h, NEW g, Prolongs(h, g), NEW c, Lawful(h, c)
  PROVE  Lawful(g, c)
<1>1. \A i \in Positions(h) : i \in Positions(g) /\ g[i] = h[i]
  BY DEF Prolongs, Agree, Positions
<1> QED
  BY <1>1, ToolKept DEF Lawful, IsMessage

\* A use is confirmed by the request that has the session, as a human's decision or
\* a rule's.
LEMMA NewlyConfirmed ==
  ASSUME TypeInv, TypeInv', Grows, NEW s \in Sessions, NEW u,
         Confirmed(log'[s], u), ~Confirmed(log[s], u)
  PROVE  \E q \in Requests :
           /\ s = d[q].entry.session
           /\ \/ d[q].pc = "relay" /\ u \in Decided(log'[s])
              \/ d[q].pc = "auto" /\ \E a \in d[q].autos : a[1] = u
<1> DEFINE h == log[s]
           g == log'[s]
<1>1. Len(h) \in Nat /\ Len(g) \in Nat /\ Prolongs(h, g)
  BY LogProlongs, LenProperties DEF TypeInv, TypeOK
<1>2. PICK i \in Of(g, Positions(g), {"user.tool_confirmation"}) :
        \E c \in g[i].decisions : c[1] = u
  BY DEF Confirmed, Positions
<1>3. i \notin Positions(h)
  <2>1. i \in Positions(h) => g[i] = h[i]
    BY <1>1 DEF Prolongs, Agree, Positions
  <2> QED
    BY <1>2, <2>1 DEF Confirmed, Of, Positions
<1>4. g[i].type = "user.tool_confirmation" /\ i \in Positions(g)
  BY <1>2 DEF Of
<1>5. PostedBy(g[i].by, s, g[i])
  BY <1>3, <1>4 DEF Grows, PostTypes
<1> DEFINE q == g[i].by
<1>6. CASE d[q].pc = "relay" /\ g[i].who = "human"
  <2>1. i \in ByHuman(g) /\ u \in Uses(g[i])
    BY <1>2, <1>6, <1>4 DEF ByHuman, Relayed, Of, Uses
  <2>2. u \in Decided(g)
    BY <2>1 DEF Decided
  <2> QED
    BY <1>5, <1>6, <2>2 DEF PostedBy
<1>7. CASE d[q].pc = "auto" /\ g[i].decisions = d[q].autos
  BY <1>2, <1>5, <1>7 DEF PostedBy
<1> QED
  BY <1>4, <1>5, <1>6, <1>7 DEF PostedBy

\* Two requests that are under way in one session are the same.
LEMMA OneInSession ==
  ASSUME CacheInv, NEW q \in Requests, NEW r \in Requests,
         d[q].pc \in InSession, d[r].pc \in InSession,
         d[q].entry.session = d[r].entry.session
  PROVE  q = r
<1>1. TypeInv /\ Alone
  BY DEF CacheInv
<1>2. d[q].ctx = d[r].ctx
  BY <1>1, RequestFacts DEF HomeOf
<1>3. Active(q) /\ Active(r)
  BY DEF InSession, Active, Finished
<1> QED
  BY <1>1, <1>2, <1>3 DEF Alone

\* What is asked has been announced, in a session of the context.
LEMMA AskedFacts ==
  ASSUME ForgetInv, NEW c, NEW s, NEW u \in Asked(c, s)
  PROVE  HomeOf(s, c) /\ Shown(log[s], u) /\ Settled(log[s], u)
<1>1. PICK q \in Requests : /\ At(q, "done") /\ d[q].outcome = "INPUT_REQUIRED"
                            /\ d[q].ctx = c /\ d[q].entry.session = s /\ u \in d[q].deferred
  BY DEF Asked
<1>2. HoldsAsked(q) /\ Asking(d[q])
  BY <1>1 DEF ForgetInv, Holds, Asking, At
<1> QED
  BY <1>1, <1>2 DEF HoldsAsked

\* No step of any request lets a rule decide what a request has deferred.
LEMMA SettledKept ==
  ASSUME BaseInv, ForgetInv, TypeInv', Grows, NEW r \in Requests, Asking(d[r]),
         NEW u \in d[r].deferred
  PROVE  LET s == d[r].entry.session IN
         Shown(log'[s], u) /\ Settled(log'[s], u)
<1> DEFINE s == d[r].entry.session
           h == log[s]
           g == log'[s]
<1>1. /\ HomeOf(s, d[r].ctx) /\ Shown(h, u) /\ Settled(h, u)
      /\ TypeInv /\ CacheInv /\ WellFormed(h) /\ s \in Sessions /\ h \in Seq(Event)
  BY DEF ForgetInv, Holds, HoldsAsked, BaseInv, CacheInv, ReadInv, Formed, HomeOf, TypeInv, TypeOK
<1>2. Prolongs(h, g)
  BY <1>1, LogProlongs
<1>3. Shown(g, u)
  BY <1>1, <1>2, ShownKept
<1>4. ToolOf(g, u) = ToolOf(h, u) /\ Decided(h) \subseteq Decided(g)
  BY <1>1, <1>2, ShownUse, ToolKept, DecidedGrows
<1>5. ASSUME Deferred(g, u), Confirmed(g, u), u \notin Decided(g)  PROVE FALSE
  <2>1. Deferred(h, u) /\ u \notin Decided(h) /\ ~Confirmed(h, u)
    BY <1>1, <1>4, <1>5 DEF Deferred, Settled
  <2>2. PICK q \in Requests : /\ s = d[q].entry.session /\ d[q].pc = "auto"
                              /\ \E a \in d[q].autos : a[1] = u
    BY <1>1, <1>5, <2>1, NewlyConfirmed
  <2>3. CASE q = r
    BY <2>2, <2>3 DEF ForgetInv, Holds, HoldsAutos
  <2>4. CASE q # r
    <3>1. d[r].pc \notin InSession
      BY <1>1, <2>2, <2>4, OneInSession DEF InSession
    <3>2. At(r, "done") /\ d[r].outcome = "INPUT_REQUIRED"
      BY <3>1 DEF Asking, InSession, Concluded, At
    <3>3. d[q].ctx = d[r].ctx /\ d[q].entry.pending = {}
      BY <1>1, <2>2, RequestFacts DEF CacheInv, Synced, InSync, HomeOf, InSession
    <3>4. u \in Asked(d[q].ctx, s)
      BY <3>2, <3>3 DEF Asked
    <3>5. u \in Owed(d[q].ctx, s)
      BY <2>1, <3>4 DEF Owed
    <3>6. Covers(d[q].ctx, d[q].entry)
      BY <2>2 DEF ForgetInv, Holds, HoldsEntry, Holding, Cached
    <3> QED
      BY <2>2, <3>3, <3>5, <3>6 DEF Covers
  <2> QED
    BY <2>3, <2>4
<1> QED
  BY <1>3, <1>5 DEF Settled

\* Who is done, and what has become of what it asked.
LEMMA DoneStep ==
  ASSUME TypeInv, "storage" \notin FaultKinds, [Next]_vars, NEW q \in Requests,
         d'[q].pc = "done"
  PROVE  \/ d'[q] = d[q]
         \/ /\ d[q].pc = "respond" /\ d'[q].ctx = d[q].ctx /\ d'[q].entry = d[q].entry
            /\ d'[q].outcome = d[q].outcome /\ d'[q].deferred = d[q].deferred
<1>1. ASSUME NEW r \in Requests, Step(r), q # r  PROVE d'[q] = d[q]
  BY <1>1, StepMoves DEF MovesOn, Local
<1>2. ASSUME Step(q)
      PROVE  /\ d[q].pc = "respond" /\ d'[q].ctx = d[q].ctx /\ d'[q].entry = d[q].entry
             /\ d'[q].outcome = d[q].outcome /\ d'[q].deferred = d[q].deferred
  <2>1. MovesOn(q)
    BY <1>2, StepMoves
  <2> QED
    BY <2>1 DEF MovesOn, Local, Moves, Opens, Resumes, Works, Ends, Fails, Branch
<1>3. CASE Environment
  <2>1. ASSUME NEW r \in Requests, NEW c \in Contexts, NEW t \in Tasks,
               NEW supplied \in BOOLEAN, Receive(r, c, t, supplied)
        PROVE  d'[q] = d[q]
    <3> DEFINE rec == [d[r] EXCEPT !.pc = "load", !.ctx = c, !.task = t, !.supplied = supplied]
    <3>1. d' = [d EXCEPT ![r] = rec]
      BY ZenonT(40), <2>1 DEF Receive
    <3>2. rec.pc = "load"
      BY RequestFacts DEF Request
    <3> HIDE DEF rec
    <3> QED
      BY <3>1, <3>2 DEF TypeInv, TypeOK
  <2>2. ASSUME NEW r \in Requests, Crash(r)  PROVE d'[q] = d[q]
    BY <2>2, LeaveMoves DEF Crash, Local
  <2>3. CASE UNCHANGED d
    BY <2>3
  <2> QED
    BY <1>3, <2>1, <2>2, <2>3 DEF Environment, ExpireSession, AgentStep, BreakAgent
<1>4. CASE UNCHANGED vars
  BY <1>4 DEF vars
<1> QED
  BY <1>1, <1>2, <1>3, <1>4 DEF Next

\* A question becomes open only with the response that puts it.
LEMMA OwedStep ==
  ASSUME BaseInv, ForgetInv, TypeInv', "storage" \notin FaultKinds, [Next]_vars,
         NEW c, NEW s, NEW u, u \in Owed(c, s)'
  PROVE  \/ u \in Owed(c, s)
         \/ \E q \in Requests :
              /\ d[q].pc = "respond" /\ d'[q].pc = "done" /\ d[q].outcome = "INPUT_REQUIRED"
              /\ d[q].ctx = c /\ d[q].entry.session = s /\ u \in d[q].deferred
<1>0. TypeInv /\ Grows
  BY NextGrows DEF BaseInv, CacheInv
<1>1. PICK q \in Requests : /\ d'[q].pc = "done" /\ d'[q].outcome = "INPUT_REQUIRED"
                            /\ d'[q].ctx = c /\ d'[q].entry.session = s /\ u \in d'[q].deferred
  BY DEF Owed, Asked, At
<1>2. CASE d'[q] = d[q]
  <2>1. u \in Asked(c, s)
    BY <1>1, <1>2 DEF Asked, At
  <2>2. s \in Sessions /\ Shown(log[s], u)
    BY <2>1, AskedFacts DEF HomeOf
  <2>3. WellFormed(log[s]) /\ log[s] \in Seq(Event) /\ Prolongs(log[s], log'[s])
    BY <1>0, <2>2, LogProlongs DEF BaseInv, ReadInv, Formed, TypeInv, TypeOK
  <2>4. ToolOf(log'[s], u) = ToolOf(log[s], u) /\ Decided(log[s]) \subseteq Decided(log'[s])
    BY <2>2, <2>3, ShownUse, ToolKept, DecidedGrows
  <2>5. u \notin Decided(log'[s]) /\ Deferred(log'[s], u)
    BY DEF Owed, Deferred
  <2> QED
    BY <2>1, <2>4, <2>5 DEF Owed, Deferred
<1>3. CASE d'[q] # d[q]
  BY <1>0, <1>1, <1>3, DoneStep
<1> QED
  BY <1>2, <1>3

\* A message is new only in the step that posts it.
LEMMA NewMessage ==
  ASSUME TypeInv, TypeInv', Grows, NEW s \in Sessions, NEW i \in Positions(log'[s]),
         IsMessage(log'[s], i), i \notin Positions(log[s])
  PROVE  \E q \in Requests : d[q].pc = "post" /\ d[q].entry.session = s
  BY DEF Grows, PostedBy, PostTypes, IsMessage

\* The message of a request that has an anchor is the last of its session.
LEMMA AnchorLast ==
  ASSUME BaseInv, ForgetInv, TypeInv', Grows, NEW r \in Requests, d[r].anchor # NoAnchor
  PROVE  LET g == log'[d[r].entry.session] IN
         \A i \in Positions(g) : IsMessage(g, i) => i <= d[r].anchor
<1> DEFINE s == d[r].entry.session
           h == log[s]
           g == log'[s]
<1>1. d[r].pc \in Turning /\ TypeInv /\ CacheInv
  BY DEF BaseInv, ReadInv, RequestKnows, Knows, CacheInv
<1>2. d[r].pc \in InSession
  BY <1>1 DEF Turning, Concluded, InSession
<1>3. s \in Sessions
  BY <1>1, <1>2, RequestFacts DEF HomeOf
<1>4. ASSUME NEW i \in Positions(g), IsMessage(g, i), i \notin Positions(h)  PROVE FALSE
  <2>1. PICK q \in Requests : d[q].pc = "post" /\ d[q].entry.session = s
    BY <1>1, <1>3, <1>4, NewMessage
  <2>2. q = r
    BY <1>1, <1>2, <2>1, OneInSession DEF InSession
  <2> QED
    BY <1>1, <2>1, <2>2 DEF Turning, Concluded
<1>5. ASSUME NEW i \in Positions(g), IsMessage(g, i), i \in Positions(h)
      PROVE  i <= d[r].anchor
  <2>1. IsMessage(h, i)
    BY <1>3, <1>5 DEF Grows, IsMessage
  <2> QED
    BY <1>5, <2>1 DEF ForgetInv, Holds, HoldsAnchor
<1> QED
  BY <1>4, <1>5

\* A request that a step leaves alone.
LEMMA OthersHold ==
  ASSUME BaseInv, ForgetInv, TypeInv', "storage" \notin FaultKinds, [Next]_vars,
         NEW q \in Requests, d'[q] = d[q]
  PROVE  Holds(q)'
<1> DEFINE s == d[q].entry.session
<1>0. TypeInv /\ CacheInv /\ Grows /\ Holds(q)
  BY NextGrows DEF BaseInv, CacheInv, ForgetInv
<1>1. ASSUME d[q].pc \in InSession
      PROVE  /\ s \in Sessions /\ Prolongs(log[s], log'[s])
             /\ HomeOf(s, d[q].ctx) /\ HomeOf(s, d[q].ctx)'
  <2>1. s \in Sessions /\ HomeOf(s, d[q].ctx)
    BY <1>0, <1>1, RequestFacts DEF HomeOf
  <2>2. Prolongs(log[s], log'[s])
    BY <1>0, <2>1, LogProlongs
  <2>3. tag'[s] = tag[s]
    BY <1>0, <1>1, <2>1, RequestFacts, TagsKept, AgentAssumption DEF HomeOf, InSession
  <2> QED
    BY <2>1, <2>2, <2>3 DEF HomeOf
<1>2. HoldsEntry(q)'
  <2> SUFFICES ASSUME d[q].pc \in Holding, NEW u, u \in Owed(d[q].ctx, s)'
               PROVE  u \in d[q].entry.pending
    BY DEF HoldsEntry, Covers
  <2>1. CASE u \in Owed(d[q].ctx, s)
    BY <1>0, <2>1 DEF Holds, HoldsEntry, Covers
  <2>2. CASE u \notin Owed(d[q].ctx, s)
    <3>1. PICK p \in Requests : /\ d[p].pc = "respond" /\ d'[p].pc = "done"
                                /\ d[p].ctx = d[q].ctx
      BY <2>2, OwedStep
    <3>2. Active(p) /\ Active(q)
      BY <3>1 DEF Active, Finished, Holding, Cached
    <3>3. p = q
      BY <1>0, <3>1, <3>2 DEF CacheInv, Alone
    <3> QED
      BY <3>1, <3>3
  <2> QED
    BY <2>1, <2>2
<1>3. HoldsDecided(q)'
  <2>1. d[q].pc = "clear" => Decided(log[s]) \subseteq Decided(log'[s])
    BY <1>1, DecidedGrows DEF InSession
  <2> QED
    BY <1>0, <2>1 DEF Holds, HoldsDecided
<1>4. HoldsAsked(q)'
  <2> SUFFICES ASSUME Asking(d[q])
               PROVE  /\ HomeOf(s, d[q].ctx)'
                      /\ \A u \in d[q].deferred : Shown(log'[s], u) /\ Settled(log'[s], u)
    BY DEF HoldsAsked
  <2>1. HomeOf(s, d[q].ctx)
    BY <1>0 DEF Holds, HoldsAsked
  <2>2. d[q].pc # "new"
    BY DEF Asking, Concluded
  <2>3. tag'[s] = tag[s]
    BY <1>0, <2>1, <2>2, RequestFacts, TagsKept, AgentAssumption DEF HomeOf
  <2> QED
    BY <1>0, <2>1, <2>3, SettledKept DEF HomeOf
<1>5. HoldsAutos(q)'
  BY <1>0, <1>1, LawfulKept DEF Holds, HoldsAutos, InSession
<1>6. HoldsAnchor(q)'
  BY <1>0, AnchorLast DEF HoldsAnchor
<1> QED
  BY <1>2, <1>3, <1>4, <1>5, <1>6 DEF Holds

\* What the rules relay is lawful.
LEMMA NextLawful ==
  ASSUME BaseInv, ForgetInv, TypeInv', Grows
  PROVE  RulesLawful'
<1> SUFFICES ASSUME NEW s \in Sessions, NEW j \in Relayed(log'[s]), log'[s][j].who = "rule",
                    NEW c \in log'[s][j].decisions
             PROVE  Lawful(log'[s], c)
  BY DEF RulesLawful
<1> DEFINE h == log[s]
           g == log'[s]
<1>1. TypeInv /\ Prolongs(h, g)
  BY LogProlongs DEF BaseInv, CacheInv
<1>2. CASE j \in Positions(h)
  <2>1. g[j] = h[j]
    BY <1>2 DEF Grows
  <2>2. j \in Relayed(h)
    BY <1>2, <2>1 DEF Relayed, Of
  <2>3. Lawful(h, c)
    BY <2>1, <2>2 DEF ForgetInv, RulesLawful
  <2> QED
    BY <1>1, <2>3, LawfulKept
<1>3. CASE j \notin Positions(h)
  <2>1. j \in Positions(g) /\ g[j].type = "user.tool_confirmation"
    BY DEF Relayed, Of
  <2>2. PostedBy(g[j].by, s, g[j])
    BY <1>3, <2>1 DEF Grows, PostTypes
  <2>3. PICK q \in Requests : d[q].pc = "auto" /\ s = d[q].entry.session /\ c \in d[q].autos
    BY <2>1, <2>2 DEF PostedBy
  <2>4. Lawful(h, c)
    BY <2>3 DEF ForgetInv, Holds, HoldsAutos
  <2> QED
    BY <1>1, <2>4, LawfulKept
<1> QED
  BY <1>2, <1>3

\* What a poll makes of the gate it reads.
GateRead(rec, new, h, turn) ==
  LET ids == LastStatus(h, turn).ids \ rec.confirmed IN
  /\ ids # {}
  /\ new.deferred = DecidedAs(h, turn, ids, "defer")
  /\ new.autos = (DecidedAs(h, turn, ids, "allow") \X {"allow"})
                   \union (DecidedAs(h, turn, ids, "deny") \X {"deny"})

LEMMA InterpretGates ==
  ASSUME NEW rec \in Request, rec.pc = "poll", NEW h, NEW k,
         Interpret(rec, h, k).pc \in {"auto", "park"}
  PROVE  GateRead(rec, Interpret(rec, h, k), h, CurrentTurn(h, k, rec.anchor))
<1> DEFINE turn   == CurrentTurn(h, k, rec.anchor)
           status == LastStatus(h, turn)
           ids    == status.ids \ rec.confirmed
           new    == Interpret(rec, h, k)
           gated  == GateTools(rec, h, turn, ids, status.at)
<1>1. \/ \E state \in {"COMPLETED", "FAILED"} : new = Conclude(rec, state, status.at)
      \/ ids # {} /\ new = gated
      \/ new = NextPoll(rec)
  BY DEF Interpret
<1>2. NextPoll(rec).pc \notin {"auto", "park"}
  BY NextPollType
<1>3. \A state \in {"COMPLETED", "FAILED"} :
        Conclude(rec, state, status.at).pc \notin {"auto", "park"}
  BY DEF Conclude, Request
<1>4. /\ gated.deferred = DecidedAs(h, turn, ids, "defer")
      /\ gated.autos = (DecidedAs(h, turn, ids, "allow") \X {"allow"})
                         \union (DecidedAs(h, turn, ids, "deny") \X {"deny"})
  BY DEF GateTools, Request
<1> HIDE DEF new, gated, ids, status
<1>5. ids # {} /\ new = gated
  BY <1>1, <1>2, <1>3 DEF new
<1> QED
  BY <1>4, <1>5 DEF GateRead, new, ids, status

\* A use that the slice of its turn does not show lies before a message.
LEMMA OutsideTurn ==
  ASSUME NEW h \in Seq(Event), NEW k \in 0..Len(h), NEW anchor \in Nat,
         anchor # NoAnchor => anchor \in Positions(h) /\ IsMessage(h, anchor),
         NEW u \in Of(h, 1..k, {"agent.tool_use"}), u \notin CurrentTurn(h, k, anchor),
         CurrentTurn(h, k, anchor) # {}
  PROVE  \E i \in 1..k : u < i /\ IsMessage(h, i)
<1>1. Len(h) \in Nat /\ k \in Nat /\ u \in 1..k /\ h[u].type = "agent.tool_use"
  BY LenProperties DEF Of
<1>2. CASE anchor # NoAnchor
  <2>1. u <= anchor /\ anchor \in 1..k
    BY <1>1, <1>2 DEF CurrentTurn, Positions
  <2>2. u # anchor
    BY <1>1, <1>2 DEF IsMessage
  <2> QED
    BY <1>1, <1>2, <2>1, <2>2
<1>3. CASE anchor = NoAnchor
  <2> DEFINE last == LastOf(h, 1..k, {"user.message"})
  <2>1. 1..k \in SUBSET (1..k)
    OBVIOUS
  <2>2. last \in {0} \union Of(h, 1..k, {"user.message"})
    BY <1>1, <2>1, LastOfIsPosition
  <2>3. CurrentTurn(h, k, anchor) = (last + 1)..k
    BY <1>3 DEF CurrentTurn
  <2> HIDE DEF last
  <2>4. last \in 1..k /\ IsMessage(h, last) /\ u <= last
    BY <1>1, <2>2, <2>3 DEF Of, IsMessage
  <2>5. u # last
    BY <1>1, <2>4 DEF IsMessage
  <2> QED
    BY <1>1, <2>4, <2>5
<1> QED
  BY <1>2, <1>3

\* And one that it shows lies after all the messages that are shown.
LEMMA InsideTurn ==
  ASSUME NEW h \in Seq(Event), NEW k \in 0..Len(h), NEW anchor \in Nat,
         anchor # NoAnchor => \A i \in Positions(h) : IsMessage(h, i) => i <= anchor,
         NEW u \in CurrentTurn(h, k, anchor)
  PROVE  \A i \in 1..k : IsMessage(h, i) => i < u
<1>1. Len(h) \in Nat /\ k \in Nat
  BY LenProperties
<1> TAKE i \in 1..k
<1> HAVE IsMessage(h, i)
<1>2. CASE anchor # NoAnchor
  BY <1>1, <1>2 DEF CurrentTurn, Positions
<1>3. CASE anchor = NoAnchor
  <2> DEFINE S == Of(h, 1..k, {"user.message"})
             last == Largest(S)
  <2>1. i \in S /\ S \in SUBSET (1..k)
    BY DEF IsMessage, Of
  <2>2. last \in S /\ \A y \in S : y <= last
    BY <1>1, <2>1, LargestIsElement
  <2>3. u \in (last + 1)..k
    BY <1>3, <2>1 DEF CurrentTurn, LastOf
  <2> HIDE DEF last
  <2> QED
    BY <1>1, <2>1, <2>2, <2>3
<1> QED
  BY <1>2, <1>3

\* What a poll leaves to the human no rule has decided.
LEMMA PollHolds ==
  ASSUME BaseInv, ForgetInv, MaxLag = 0, NEW r \in Requests, Poll(r),
         d'[r].pc \in {"auto", "park"}
  PROVE  LET h == log[d[r].entry.session] IN
         /\ d'[r].entry = d[r].entry /\ d'[r].ctx = d[r].ctx /\ UNCHANGED log
         /\ \A u \in d'[r].deferred : Shown(h, u) /\ Settled(h, u)
         /\ \A a \in d'[r].autos : Lawful(h, a) /\ a[1] \notin d'[r].deferred
<1> DEFINE s    == d[r].entry.session
           h    == log[s]
           rec  == d[r]
           new  == d'[r]
<1>1. TypeInv /\ rec.pc = "poll" /\ Holds(r) /\ RulesLawful
  BY DEF BaseInv, CacheInv, Poll, At, ForgetInv
<1>2. rec \in Request /\ h \in Seq(Event) /\ s \in Sessions /\ Len(h) \in Nat
  BY <1>1, RequestFacts, LenProperties DEF InSession, HomeOf
<1>3. WellFormed(h) /\ Knows(r, rec, h)
  BY <1>2 DEF BaseInv, ReadInv, Formed, RequestKnows
<1>4. PICK k \in VisiblePrefixes(h) : d' = [d EXCEPT ![r] = Interpret(rec, h, k)] /\ UNCHANGED log
  <2>1. ~Leave(r, "error")
    <3>1. Leave(r, "error") /\ UNCHANGED store => new.pc = "error"
      BY <1>1, LeaveMoves
    <3> QED
      BY <3>1 DEF Poll, CallFails
  <2> QED
    BY <2>1 DEF Poll, CallFails, agentVars
<1>5. new = Interpret(rec, h, k)
  BY <1>1, <1>4 DEF TypeInv, TypeOK
<1>6. k \in 0..Len(h) /\ k <= PageLimit /\ k \in {Len(h), PageLimit} /\ PageLimit \in Nat
  BY <1>2, AgentAssumption DEF VisiblePrefixes
<1> DEFINE turn == CurrentTurn(h, k, rec.anchor)
           ids  == LastStatus(h, turn).ids \ rec.confirmed
           at   == LastStatus(h, turn).at
<1>7. /\ ids # {}
      /\ new.deferred = DecidedAs(h, turn, ids, "defer")
      /\ new.autos = (DecidedAs(h, turn, ids, "allow") \X {"allow"})
                       \union (DecidedAs(h, turn, ids, "deny") \X {"deny"})
  <2>1. GateRead(rec, Interpret(rec, h, k), h, turn)
    BY <1>1, <1>2, <1>5, InterpretGates
  <2> QED
    BY <1>5, <2>1 DEF GateRead
<1>8. k \in 0..Len(h) /\ rec.anchor \in Nat
  BY <1>2, <1>6 DEF Request
<1>9. turn \in SUBSET (1..Len(h))
  BY <1>2, <1>8, CurrentTurnIsSlice
<1>10. IsGate(h, at) /\ LastStatus(h, turn).ids = h[at].ids /\ at \in turn
  BY <1>2, <1>7, <1>9, LastStatusReads
<1>11. new.entry = rec.entry /\ new.ctx = rec.ctx
  BY <1>2, <1>5, <1>8, InterpretType
<1> HIDE DEF turn, at, ids, new
<1>12. /\ at \in Positions(h) /\ \A u \in ids : u \in h[at].ids
       /\ at <= PageLimit /\ turn # {} /\ at <= k
  <2>1. at <= k
    BY <1>6, <1>10 DEF turn, CurrentTurn
  <2>2. \A u \in ids : u \in h[at].ids
    BY <1>10 DEF ids
  <2>3. at \in Positions(h) /\ turn # {}
    BY <1>9, <1>10 DEF Positions
  <2> QED
    BY <1>2, <1>6, <2>1, <2>2, <2>3 DEF Positions
<1>13. \A u \in ids : Shown(h, u)
  BY <1>10, <1>12 DEF Shown
<1>14. \A u \in ids : u \in Of(h, 1..k, {"agent.tool_use"})
  <2>1. EventOK(h, at)
    BY <1>3, <1>12 DEF WellFormed
  <2>2. \A u \in ids : u \in UnconfirmedAt(h, at - 1)
    BY <1>10, <1>12, <2>1 DEF EventOK
  <2> QED
    BY <1>2, <1>6, <1>12, <2>2 DEF UnconfirmedAt, Of, Positions
<1>15. \A u \in ids : ExtractTool(h, turn, u) = IF u \in turn THEN ToolOf(h, u) ELSE NoTool
  BY <1>2, <1>6, <1>14 DEF ExtractTool, ToolOf, Of, Positions
<1>16. \A u \in ids : u \in turn => \A i \in 1..k : IsMessage(h, i) => i < u
  BY <1>1, <1>2, <1>8, InsideTurn DEF turn, Holds, HoldsAnchor
<1>17. \A u \in ids : u \notin turn => \E i \in 1..k : u < i /\ IsMessage(h, i)
  BY <1>2, <1>3, <1>8, <1>12, <1>14, OutsideTurn DEF turn, Knows, Positions
<1>18. ASSUME NEW u \in new.deferred  PROVE Shown(h, u) /\ Settled(h, u)
  <2>1. u \in ids /\ Resolve(ExtractTool(h, turn, u)) = "defer"
    BY <1>7 DEF DecidedAs
  <2>2. ASSUME Deferred(h, u), Confirmed(h, u), u \notin Decided(h)  PROVE FALSE
    <3>0. PICK j \in Relayed(h) : \E c \in h[j].decisions : c[1] = u
      BY <2>2 DEF Confirmed, Relayed, Positions
    <3>1. PICK c \in h[j].decisions : c[1] = u
      BY <3>0
    <3>2. h[j] \in Event /\ h[j].type = "user.tool_confirmation" /\ j \in Positions(h)
      BY <1>2, ElementOfSeq DEF Relayed, Of, Positions
    <3>3. h[j].who \in {"rule", "human"} /\ c[2] \in {"allow", "deny"}
      BY <3>2 DEF Event
    <3>4. h[j].who # "human"
      BY <2>2, <3>1 DEF Decided, ByHuman, Uses
    <3>5. Lawful(h, c)
      BY <1>1, <1>2, <3>1, <3>3, <3>4 DEF RulesLawful
    <3>6. c[2] # Resolve(ToolOf(h, u))
      BY <2>2, <3>3 DEF Deferred
    <3>7. c[2] = Resolve(NoTool) /\ \E i \in 1..k : u < i /\ IsMessage(h, i)
      BY <1>2, <1>6, <3>1, <3>5, <3>6 DEF Lawful, Positions
    <3>8. u \in turn
      BY <1>15, <2>1, <3>3, <3>7
    <3>9. PICK i \in 1..k : u < i /\ IsMessage(h, i)
      BY <3>7
    <3>10. i < u
      BY <1>16, <2>1, <3>8, <3>9
    <3>11. u \in Nat /\ i \in Nat
      BY <1>14, <2>1 DEF Of
    <3> QED
      BY <3>9, <3>10, <3>11
  <2> QED
    BY <1>13, <2>1, <2>2 DEF Settled
<1>19. ASSUME NEW a \in new.autos  PROVE Lawful(h, a) /\ a[1] \notin new.deferred
  <2>1. a[1] \in ids /\ Resolve(ExtractTool(h, turn, a[1])) = a[2] /\ a[2] \in {"allow", "deny"}
    BY <1>7 DEF DecidedAs
  <2>2. a[1] \notin new.deferred
    BY <1>7, <2>1 DEF DecidedAs
  <2>3. a[1] \in Of(h, Positions(h), {"agent.tool_use"})
    BY <1>2, <1>6, <1>14, <2>1 DEF Of, Positions
  <2>4. \A i \in 1..k : i \in Positions(h) /\ i <= PageLimit
    BY <1>2, <1>6 DEF Positions
  <2>5. Lawful(h, a)
    BY <1>15, <1>17, <2>1, <2>3, <2>4 DEF Lawful
  <2> QED
    BY <2>2, <2>5
<1> QED
  BY <1>4, <1>11, <1>18, <1>19 DEF new

\* What is recovered is what is owed: the gate that names it is the last one.
LEMMA RebuildHolds ==
  ASSUME BaseInv, ForgetInv, MaxLag = 0, NEW r \in Requests,
         RebuildSession(r), d'[r].pc = "adopt"
  PROVE  /\ Owed(d[r].ctx, d[r].entry.session) \subseteq d'[r].entry.pending
         /\ d'[r].entry.session = d[r].entry.session
<1> DEFINE s == d[r].entry.session
           h == log[s]
<1>1. d[r] \in Request /\ d[r].pc = "rebuild" /\ TypeInv
  BY RequestFacts DEF BaseInv, CacheInv, RebuildSession, At
<1>2. s \in Sessions /\ h \in Seq(Event) /\ Len(h) \in Nat
  BY <1>1, RequestFacts, LenProperties DEF InSession, HomeOf
<1>3. WellFormed(h)
  BY <1>2 DEF BaseInv, ReadInv, Formed
<1>4. ~ d' = [d EXCEPT ![r].pc = "create", ![r].entry = Cache!NoEntry]
  BY <1>1 DEF TypeInv, TypeOK, Request
<1>5. PICK n \in VisiblePrefixes(h) :
        d' = [d EXCEPT ![r].pc = "adopt",
                       ![r].entry.pending = DecidedAs(h, 1..n, LastStatus(h, 1..n).ids, "defer")]
  BY <1>4 DEF RebuildSession
<1> DEFINE gate    == LastStatus(h, 1..n)
           pending == DecidedAs(h, 1..n, gate.ids, "defer")
<1>6. n \in 0..Len(h) /\ n \in {Len(h), PageLimit} /\ PageLimit \in Nat
  BY <1>2, AgentAssumption DEF VisiblePrefixes
<1> HIDE DEF pending
<1>7. d'[r].entry.pending = pending /\ d'[r].entry.session = s
  BY <1>1, <1>5 DEF TypeInv, TypeOK, Request, Entry, pending
<1>8. ASSUME NEW u \in Owed(d[r].ctx, s)  PROVE u \in pending
  <2>1. u \in Asked(d[r].ctx, s) /\ u \notin Decided(h) /\ Deferred(h, u)
    BY DEF Owed
  <2>2. Shown(h, u) /\ ~Confirmed(h, u)
    BY <2>1, AskedFacts DEF Settled
  <2>3. PICK p \in Positions(h) : p <= PageLimit /\ IsGate(h, p) /\ u \in h[p].ids
    BY <2>2 DEF Shown
  <2>4. n \in p..Len(h) /\ ~ConfirmedAt(h, u, n)
    <3>1. n \in p..Len(h)
      BY <1>2, <1>6, <2>3 DEF Positions
    <3>2. Of(h, 1..n, {"user.tool_confirmation"}) \subseteq
            Of(h, 1..Len(h), {"user.tool_confirmation"})
      BY <1>2, <1>6 DEF Of
    <3> QED
      BY <2>2, <3>1, <3>2 DEF Confirmed, ConfirmedAt
  <2>5. GatedAt(h, n) /\ u \in h[StatusAt(h, n)].ids
    BY <1>2, <1>3, <2>3, <2>4, StaysGated
  <2>6. gate.ids = h[StatusAt(h, n)].ids
    BY <2>5 DEF LastStatus, GatedAt, StatusAt
  <2>7. u \in 1..n
    <3>1. EventOK(h, p)
      BY <1>3 DEF WellFormed
    <3>2. u \in UnconfirmedAt(h, p - 1)
      BY <2>3, <3>1 DEF EventOK
    <3> QED
      BY <1>2, <2>3, <2>4, <3>2 DEF UnconfirmedAt, Of, Positions
  <2>8. ExtractTool(h, 1..n, u) = ToolOf(h, u)
    BY <1>2, <1>6, <2>7 DEF ExtractTool, ToolOf, Positions, Of
  <2> QED
    BY <2>1, <2>5, <2>6, <2>8 DEF pending, DecidedAs, Deferred
<1> QED
  BY <1>7, <1>8

\* Nothing is owed in a session that is new.
LEMMA CreateHolds ==
  ASSUME BaseInv, ForgetInv, NEW r \in Requests, CreateSession(r), d'[r].pc = "register"
  PROVE  Owed(d[r].ctx, d'[r].entry.session) = {}
<1>1. d[r] \in Request /\ d[r].pc = "create" /\ TypeInv /\ d[r].ctx \in Contexts
  BY RequestFacts DEF BaseInv, CacheInv, CreateSession, At
<1>2. ~Leave(r, "error")
  <2>1. CreateSession(r) => UNCHANGED store
    BY DEF CreateSession, CallFails
  <2>2. Leave(r, "error") => d'[r].pc = "error"
    BY <1>1, <2>1, LeaveMoves
  <2> QED
    BY <2>2
<1>3. PICK s \in Sessions :
        /\ tag[s] = NoContext
        /\ d' = [d EXCEPT ![r] = [@ EXCEPT !.pc = "register",
                                           !.entry = [session |-> s, pending |-> {}]]]
  BY <1>2 DEF CreateSession, Posted, CallFails
<1>4. d'[r].entry.session = s
  BY <1>1, <1>3 DEF TypeInv, TypeOK, Request
<1>5. Asked(d[r].ctx, s) = {}
  BY <1>1, <1>3, AskedFacts, AgentAssumption DEF HomeOf
<1> QED
  BY <1>4, <1>5 DEF Owed

\* What a step after the message leaves of the turn.
LEMMA InterpretAnchor ==
  ASSUME NEW rec \in Request, NEW h, NEW k
  PROVE  Interpret(rec, h, k).anchor = rec.anchor
<1> DEFINE turn   == CurrentTurn(h, k, rec.anchor)
           status == LastStatus(h, turn)
           ids    == status.ids \ rec.confirmed
           new    == Interpret(rec, h, k)
<1>1. \/ \E state \in {"COMPLETED", "FAILED"} : new = Conclude(rec, state, status.at)
      \/ new = GateTools(rec, h, turn, ids, status.at)
      \/ new = NextPoll(rec)
  BY DEF Interpret
<1>2. NextPoll(rec).anchor = rec.anchor
  BY DEF NextPoll, Request
<1>3. \A state \in {"COMPLETED", "FAILED"} : Conclude(rec, state, status.at).anchor = rec.anchor
  BY DEF Conclude, Request
<1>4. GateTools(rec, h, turn, ids, status.at).anchor = rec.anchor
  BY DEF GateTools, Request
<1> HIDE DEF new, ids, status, turn
<1>5. new.anchor = rec.anchor
  BY <1>1, <1>2, <1>3, <1>4
<1> QED
  BY <1>5 DEF new

LEMMA PollKeeps ==
  ASSUME TypeInv, NEW r \in Requests, Poll(r)
  PROVE  d'[r].anchor \in {NoAnchor, d[r].anchor}
<1>1. CASE Leave(r, "error")
  BY <1>1 DEF Leave, TypeInv, TypeOK, Request
<1>2. CASE ~Leave(r, "error")
  <2>1. PICK k : d' = [d EXCEPT ![r] = Interpret(d[r], log[d[r].entry.session], k)]
    BY <1>2 DEF Poll, CallFails
  <2>2. d'[r] = Interpret(d[r], log[d[r].entry.session], k)
    BY <2>1 DEF TypeInv, TypeOK
  <2> QED
    BY <2>2, RequestFacts, InterpretAnchor
<1> QED
  BY <1>1, <1>2

LEMMA RestKeeps ==
  ASSUME TypeInv, NEW r \in Requests,
         \/ ClearPending(r) \/ RelayAutos(r) \/ ParkDeferred(r)
         \/ PersistTask(r) \/ SaveSession(r) \/ Respond(r)
  PROVE  /\ d'[r].anchor \in {NoAnchor, d[r].anchor}
         /\ d'[r].deferred = d[r].deferred /\ d'[r].pc # "auto"
<1> USE RequestFacts
<1>1. ASSUME NEW pc \in {"error", "done"}, Leave(r, pc)
      PROVE  /\ d'[r].anchor = NoAnchor
             /\ d'[r].deferred = d[r].deferred /\ d'[r].pc # "auto"
  BY <1>1 DEF Leave, TypeInv, TypeOK, Request
<1>2. CASE ClearPending(r)
  <2> DEFINE e == [d[r].entry EXCEPT !.pending = {}]
  <2>1. d' = [d EXCEPT ![r].entry = e, ![r].pc = "poll", ![r].polls = Polls]
    BY <1>2 DEF ClearPending
  <2> HIDE DEF e
  <2> QED
    BY <2>1 DEF TypeInv, TypeOK, Request
<1>3. CASE RelayAutos(r) /\ ~Leave(r, "error")
  <2> DEFINE some == [d[r] EXCEPT !.autos = {}]
             rec  == IF some.deferred # {} THEN [some EXCEPT !.pc = "park"] ELSE NextPoll(some)
  <2>1. d' = [d EXCEPT ![r] = rec]
    BY <1>3 DEF RelayAutos, Posted, CallFails, Rejected
  <2>2. some \in Request /\ some.anchor = d[r].anchor /\ some.deferred = d[r].deferred
    BY DEF Request
  <2> HIDE DEF some
  <2>3. /\ NextPoll(some).anchor = some.anchor /\ NextPoll(some).deferred = some.deferred
        /\ NextPoll(some).pc # "auto"
    BY <2>2 DEF NextPoll, Request
  <2>4. LET park == [some EXCEPT !.pc = "park"] IN
        park.anchor = some.anchor /\ park.deferred = some.deferred /\ park.pc # "auto"
    BY <2>2 DEF Request
  <2>5. rec.anchor = some.anchor /\ rec.deferred = some.deferred /\ rec.pc # "auto"
    BY <2>3, <2>4
  <2> HIDE DEF rec
  <2> QED
    BY <2>1, <2>2, <2>5 DEF TypeInv, TypeOK
<1>4. CASE ParkDeferred(r)
  <2> DEFINE e == [d[r].entry EXCEPT !.pending = d[r].deferred]
  <2>1. d' = [d EXCEPT ![r].entry = e, ![r].outcome = "INPUT_REQUIRED", ![r].pc = "persist"]
    BY <1>4 DEF ParkDeferred
  <2> HIDE DEF e
  <2> QED
    BY <2>1 DEF TypeInv, TypeOK, Request
<1>5. CASE PersistTask(r) \/ SaveSession(r)
  <2>1. Go(r, "save") \/ Go(r, "respond")
    BY <1>5 DEF PersistTask, SaveSession
  <2> QED
    BY <2>1 DEF Go, TypeInv, TypeOK, Request
<1> QED
  BY <1>1, <1>2, <1>3, <1>4, <1>5 DEF RelayAutos, Respond

\* Which step a request takes.
LEMMA TurnStep ==
  ASSUME NEW r \in Requests, Step(r)
  PROVE  /\ d[r].pc = "post" => SendMessage(r)
         /\ d[r].pc = "poll" => Poll(r)
         /\ d[r].pc = "create" => CreateSession(r)
         /\ d[r].pc = "rebuild" => RebuildSession(r)
         /\ d[r].pc \in {"clear", "auto", "park", "persist", "save", "respond"} =>
              \/ ClearPending(r) \/ RelayAutos(r) \/ ParkDeferred(r)
              \/ PersistTask(r) \/ SaveSession(r) \/ Respond(r)
  BY DEF Step, At, LoadSession, FindSession, RebuildSession, AdoptSession, CreateSession,
     RegisterSession, Classify, RelayDecision, ClearPending, SendMessage, Poll, RelayAutos,
     ParkDeferred, PersistTask, SaveSession, Respond

LEMMA StepAnchor ==
  ASSUME BaseInv, ForgetInv, BaseInv', Grows, "storage" \notin FaultKinds,
         NEW r \in Requests, Step(r)
  PROVE  HoldsAnchor(r)'
<1> SUFFICES ASSUME d'[r].anchor # NoAnchor  PROVE HoldsAnchor(r)'
  BY DEF HoldsAnchor
<1>1. TypeInv /\ TypeInv' /\ MovesOn(r)
  BY StepMoves DEF BaseInv, CacheInv
<1>2. d'[r].pc \in Turning
  BY DEF BaseInv, ReadInv, RequestKnows, Knows
<1>3. /\ d[r].pc \in {"post", "clear"} \union Turning
      /\ d'[r].entry.session = d[r].entry.session
  <2>1. d[r].entry \in Entry
    BY <1>1, RequestFacts
  <2>2. [d[r].entry EXCEPT !.pending = {}].session = d[r].entry.session
    BY <2>1 DEF Entry
  <2>3. [d[r].entry EXCEPT !.pending = d[r].deferred].session = d[r].entry.session
    BY <2>1 DEF Entry
  <2> QED
    BY <1>1, <1>2, <2>2, <2>3 DEF MovesOn, Moves, Opens, Resumes, Works, Ends, Fails, Branch,
       Turning, Concluded
<1>4. CASE d[r].pc # "post"
  <2>1. d'[r].anchor = d[r].anchor
    BY <1>1, <1>3, <1>4, TurnStep, PollKeeps, RestKeeps DEF Turning, Concluded
  <2> QED
    BY <1>1, <1>3, <2>1, AnchorLast DEF HoldsAnchor
<1>5. CASE d[r].pc = "post"
  <2> DEFINE s      == d[r].entry.session
             h      == log[s]
             g      == log'[s]
             anchor == IF Echoes THEN Len(h) + 1 ELSE NoAnchor
             rec    == [d[r] EXCEPT !.pc = "poll", !.polls = Polls, !.anchor = anchor]
  <2>1. SendMessage(r) /\ s \in Sessions
    BY <1>1, <1>5, TurnStep, RequestFacts DEF HomeOf, InSession
  <2>2. ~Leave(r, "error")
    <3>1. Leave(r, "error") => d'[r].anchor = NoAnchor
      BY <1>1, RequestFacts DEF Leave, TypeInv, TypeOK, Request
    <3> QED
      BY <3>1
  <2>3. Append1(s, UserMessage(r)) /\ d' = [d EXCEPT ![r] = rec]
    BY <2>1, <2>2 DEF SendMessage, CallFails, Rejected, Posted
  <2> HIDE DEF anchor
  <2>4. d'[r].anchor = anchor
    BY <1>1, <2>3, RequestFacts DEF TypeInv, TypeOK, Request
  <2>5. g = Append(h, UserMessage(r)) /\ h \in Seq(Event)
    BY <1>1, <2>1, <2>3 DEF Append1, TypeInv, TypeOK
  <2>6. Len(g) = Len(h) + 1 /\ Len(h) \in Nat
    BY <2>5, Appended, LenProperties
  <2>7. anchor = Len(g)
    BY <2>4, <2>6 DEF anchor
  <2> HIDE DEF g, h
  <2>8. \A i \in Positions(g) : i <= d'[r].anchor
    BY <2>4, <2>6, <2>7 DEF Positions
  <2> QED
    BY <1>3, <2>8 DEF HoldsAnchor, g
<1> QED
  BY <1>4, <1>5

\* Only a response opens a question, and only for its own conversation.
LEMMA OwedShrinks ==
  ASSUME BaseInv, ForgetInv, TypeInv', "storage" \notin FaultKinds,
         NEW r \in Requests, Step(r), NEW c, NEW s, d[r].pc # "respond" \/ c # d[r].ctx
  PROVE  Owed(c, s)' \subseteq Owed(c, s)
<1>1. MovesOn(r) /\ [Next]_vars
  BY StepMoves DEF BaseInv, CacheInv, Next
<1>2. \A q \in Requests \ {r} : d'[q] = d[q]
  BY <1>1 DEF MovesOn, Local
<1> SUFFICES ASSUME NEW u, u \in Owed(c, s)'  PROVE u \in Owed(c, s)
  OBVIOUS
<1> QED
  BY <1>1, <1>2, OwedStep

\* The copy of a request still has what is owed after its step ...
LEMMA StepEntry ==
  ASSUME BaseInv, ForgetInv, TypeInv', "storage" \notin FaultKinds, MaxLag = 0,
         NEW r \in Requests, Step(r), d[r].pc # "respond"
  PROVE  HoldsEntry(r)'
<1> DEFINE c   == d[r].ctx
           old == d[r]
           new == d'[r]
<1>1. /\ TypeInv /\ MovesOn(r) /\ Active(r) /\ Holds(r) /\ c \in Contexts /\ old.entry \in Entry
      /\ InSync(old, store[c], log[old.entry.session]) /\ new.ctx = c
  <2>1. TypeInv /\ MovesOn(r) /\ Active(r)
    BY StepMoves, MovesActive DEF BaseInv, CacheInv
  <2> QED
    BY <2>1, RequestFacts DEF BaseInv, CacheInv, Synced, ForgetInv, Active, MovesOn, Local
<1>2. \A k, s : Owed(k, s)' \subseteq Owed(k, s)
  BY OwedShrinks
<1> SUFFICES ASSUME new.pc \in Holding
             PROVE  Owed(c, new.entry.session) \subseteq new.entry.pending
  BY <1>1, <1>2 DEF HoldsEntry, Covers
<1>3. Moves(old, new, store[c], store'[c])
  BY <1>1 DEF MovesOn
<1>4. CASE new.entry = old.entry /\ old.pc \in Holding
  BY <1>1, <1>4 DEF Holds, HoldsEntry, Covers
<1>5. CASE old.pc = "load"
  <2>1. store[c] # NoEntry /\ new.entry = store[c]
    BY <1>3, <1>5 DEF Moves, Opens, Resumes, Works, Ends, Fails, Holding, Cached
  <2> QED
    BY <1>1, <2>1 DEF ForgetInv, StoreCovers, Covers
<1>6. CASE old.pc = "rebuild"
  <2>1. RebuildSession(r) /\ new.pc = "adopt"
    BY <1>3, <1>6, TurnStep DEF Moves, Opens, Resumes, Works, Ends, Fails, Holding, Cached
  <2> QED
    BY <2>1, RebuildHolds
<1>7. CASE old.pc = "create"
  <2>1. CreateSession(r) /\ new.pc = "register"
    BY <1>3, <1>7, TurnStep DEF Moves, Opens, Resumes, Works, Ends, Fails, Holding, Cached
  <2> QED
    BY <2>1, CreateHolds
<1>8. CASE old.pc = "clear"
  <2>1. new.entry = [old.entry EXCEPT !.pending = {}]
    BY <1>3, <1>8 DEF Moves, Opens, Resumes, Works, Ends, Fails
  <2>2. new.entry.session = old.entry.session
    BY <1>1, <2>1 DEF Entry
  <2>3. Owed(c, old.entry.session) \subseteq old.entry.pending
    BY <1>1, <1>8 DEF Holds, HoldsEntry, Covers, Holding, Cached
  <2>4. old.entry.pending \subseteq Decided(log[old.entry.session])
    BY <1>1, <1>8 DEF Holds, HoldsDecided
  <2>5. Owed(c, old.entry.session) = {}
    BY <2>3, <2>4 DEF Owed
  <2> QED
    BY <2>2, <2>5
<1>9. CASE old.pc = "park"
  <2>1. new.entry = [old.entry EXCEPT !.pending = old.deferred]
    BY <1>3, <1>9 DEF Moves, Opens, Resumes, Works, Ends, Fails
  <2>2. new.entry.session = old.entry.session
    BY <1>1, <2>1 DEF Entry
  <2>3. Owed(c, old.entry.session) \subseteq old.entry.pending
    BY <1>1, <1>9 DEF Holds, HoldsEntry, Covers, Holding, Cached
  <2>4. old.entry.pending = {}
    BY <1>1, <1>9 DEF InSync
  <2> QED
    BY <2>2, <2>3, <2>4
<1>10. CASE old.pc \in Holding \ {"clear", "park"}
  <2>1. new.entry = old.entry
    BY <1>3, <1>10 DEF Moves, Opens, Resumes, Works, Ends, Fails, Holding, Cached
  <2> QED
    BY <1>4, <1>10, <2>1
<1>11. old.pc \in Holding \union {"load", "rebuild", "create"}
  BY <1>3 DEF Moves, Opens, Resumes, Works, Ends, Fails, Holding, Cached
<1> QED
  BY <1>5, <1>6, <1>7, <1>8, <1>9, <1>10, <1>11

\* ... and so has the entry that it writes.
LEMMA StepStore ==
  ASSUME BaseInv, ForgetInv, TypeInv', "storage" \notin FaultKinds, MaxLag = 0,
         NEW r \in Requests, Step(r)
  PROVE  StoreCovers'
<1> DEFINE c   == d[r].ctx
           old == d[r]
           new == d'[r]
           was == store[c]
           is  == store'[c]
<1>1. /\ TypeInv /\ MovesOn(r) /\ Active(r) /\ Holds(r) /\ c \in Contexts /\ old.entry \in Entry
      /\ InSync(old, was, log[old.entry.session]) /\ new.ctx = c
  <2>1. TypeInv /\ MovesOn(r) /\ Active(r)
    BY StepMoves, MovesActive DEF BaseInv, CacheInv
  <2> QED
    BY <2>1, RequestFacts DEF BaseInv, CacheInv, Synced, ForgetInv, Active, MovesOn, Local
<1>0. [Next]_vars
  BY DEF Next
<1>2. Moves(old, new, was, is)
  BY <1>1 DEF MovesOn
<1>3. ASSUME NEW e \in Contexts, e # c  PROVE store'[e] = NoEntry \/ Covers(e, store[e])'
  <2>1. store'[e] = store[e]
    BY <1>1, <1>3 DEF MovesOn, Local
  <2>2. \A s : Owed(e, s)' \subseteq Owed(e, s)
    BY <1>3, OwedShrinks
  <2> QED
    BY <2>1, <2>2 DEF ForgetInv, StoreCovers, Covers
<1>4. ASSUME is # NoEntry, NEW k, NEW s, k = c, s = is.session, NEW u, u \in Owed(k, s)'
      PROVE  u \in is.pending
  <2>1. CASE old.pc = "respond"
    <3>1. is = was /\ was = old.entry
      <4>1. is = was
        BY <1>2, <2>1 DEF Moves, Opens, Resumes, Works, Ends, Fails
      <4> QED
        BY <1>1, <1>4, <2>1, <4>1 DEF InSync, Cached
    <3>2. Owed(c, is.session) \subseteq is.pending
      BY <1>1, <2>1, <3>1 DEF Holds, HoldsEntry, Covers, Holding, Cached
    <3>3. CASE u \notin Owed(k, s)
      <4>1. PICK q \in Requests : /\ d[q].pc = "respond" /\ d'[q].pc = "done"
                                  /\ d[q].outcome = "INPUT_REQUIRED" /\ d[q].ctx = c
                                  /\ u \in d[q].deferred
        BY <1>0, <1>4, <3>3, OwedStep
      <4>2. q = r
        BY <1>1, <4>1 DEF MovesOn, Local
      <4>3. old.entry.pending = old.deferred
        BY <1>1, <4>1, <4>2 DEF InSync
      <4> QED
        BY <3>1, <4>1, <4>2, <4>3
    <3> QED
      BY <1>4, <3>2, <3>3
  <2>2. CASE old.pc # "respond"
    <3>1. u \in Owed(c, is.session)
      BY <1>4, <2>2, OwedShrinks
    <3>2. CASE is = was
      BY <1>1, <1>4, <3>1, <3>2 DEF ForgetInv, StoreCovers, Covers
    <3>3. CASE is = old.entry /\ old.pc \in Holding
      BY <1>1, <3>1, <3>3 DEF Holds, HoldsEntry, Covers
    <3>4. CASE is = new.entry /\ new.pc \in Holding
      <4>1. HoldsEntry(r)'
        BY <2>2, StepEntry
      <4> QED
        BY <1>1, <1>4, <3>4, <4>1 DEF HoldsEntry, Covers
    <3>5. \/ is = was
          \/ is = old.entry /\ old.pc \in Holding
          \/ is = new.entry /\ new.pc \in Holding
      BY <1>2 DEF Moves, Opens, Resumes, Works, Ends, Fails, Holding, Cached
    <3> QED
      BY <3>2, <3>3, <3>4, <3>5
  <2> QED
    BY <2>1, <2>2
<1> QED
  BY <1>3, <1>4 DEF StoreCovers, Covers

\* What a step makes of a request's own questions.
LEMMA StepAsks ==
  ASSUME BaseInv, ForgetInv, TypeInv', Grows, "storage" \notin FaultKinds,
         MaxLag = 0, NEW r \in Requests, Step(r)
  PROVE  HoldsDecided(r)' /\ HoldsAsked(r)' /\ HoldsAutos(r)'
<1> DEFINE old == d[r]
           new == d'[r]
           s   == d[r].entry.session
<1>1. /\ TypeInv /\ MovesOn(r) /\ Holds(r) /\ old.entry \in Entry /\ new.ctx = old.ctx
      /\ [Next]_vars
  <2>1. TypeInv /\ MovesOn(r)
    BY StepMoves DEF BaseInv, CacheInv
  <2> QED
    BY <2>1, RequestFacts DEF ForgetInv, MovesOn, Local, Next
<1>2. Moves(old, new, store[old.ctx], store'[old.ctx])
  BY <1>1 DEF MovesOn
<1>3. HoldsDecided(r)'
  <2>1. new.pc = "clear" => new.entry = old.entry
    BY <1>2 DEF Moves, Opens, Resumes, Works, Ends, Fails, Branch
  <2> QED
    BY <1>1, <2>1, RelayConfirms DEF HoldsDecided
<1>4. CASE old.pc = "poll" /\ new.pc \in {"auto", "park"}
  <2>1. /\ new.entry = old.entry /\ UNCHANGED log
        /\ \A u \in new.deferred : Shown(log[s], u) /\ Settled(log[s], u)
        /\ \A a \in new.autos : Lawful(log[s], a) /\ a[1] \notin new.deferred
    BY <1>4, TurnStep, PollHolds
  <2>2. HomeOf(s, old.ctx) /\ tag'[s] = tag[s]
    BY <1>1, <1>4, RequestFacts, TagsKept, AgentAssumption DEF HomeOf, InSession
  <2> QED
    BY <1>1, <1>3, <1>4, <2>1, <2>2 DEF HoldsAsked, HoldsAutos, HomeOf
<1>5. CASE ~(old.pc = "poll" /\ new.pc \in {"auto", "park"})
  <2>1. new.pc # "auto"
    <3>1. new.pc = "auto" => old.pc = "auto"
      BY <1>2, <1>5 DEF Moves, Opens, Resumes, Works, Ends, Fails, Branch
    <3> QED
      BY <1>1, <3>1, TurnStep, RestKeeps
  <2>2. ASSUME Asking(new)
        PROVE  Asking(old) /\ new.deferred = old.deferred /\ new.entry.session = s
    <3>1. CASE new.pc = "park"
      <4>1. old.pc = "auto" /\ new.entry = old.entry
        BY <1>2, <1>5, <3>1 DEF Moves, Opens, Resumes, Works, Ends, Fails, Branch
      <4> QED
        BY <1>1, <4>1, TurnStep, RestKeeps DEF Asking
    <3>2. CASE new.pc # "park"
      <4>1. new.pc \in Concluded \union {"done"} /\ new.outcome = "INPUT_REQUIRED"
        BY <2>1, <2>2, <3>2 DEF Asking
      <4>2. Ends(old, new, store[old.ctx], store'[old.ctx])
        BY <1>2, <4>1 DEF Moves, Opens, Resumes, Works, Fails, Branch, Concluded
      <4>3. [old.entry EXCEPT !.pending = old.deferred].session = s
        BY <1>1 DEF Entry
      <4> QED
        BY <4>1, <4>2, <4>3 DEF Ends, Asking, Concluded
    <3> QED
      BY <3>1, <3>2
  <2>3. HoldsAutos(r)'
    BY <2>1 DEF HoldsAutos
  <2>4. HoldsAsked(r)'
    <3> SUFFICES ASSUME Asking(new)
                 PROVE  /\ HomeOf(s, old.ctx)'
                        /\ \A u \in old.deferred : Shown(log'[s], u) /\ Settled(log'[s], u)
      BY <1>1, <2>2 DEF HoldsAsked, HomeOf
    <3>1. HomeOf(s, old.ctx) /\ old.pc # "new"
      BY <1>1, <2>2 DEF Holds, HoldsAsked, Asking, Concluded
    <3>2. tag'[s] = tag[s]
      BY <1>1, <3>1, RequestFacts, TagsKept, AgentAssumption DEF HomeOf
    <3>3. HomeOf(s, old.ctx)'
      BY <1>1, <2>2, <3>1, <3>2 DEF HomeOf
    <3> QED
      BY <2>2, <3>3, SettledKept
  <2> QED
    BY <1>3, <2>3, <2>4
<1> QED
  BY <1>4, <1>5

\* A step of a request keeps the invariant.
LEMMA StepForget ==
  ASSUME BaseInv, BaseInv', ForgetInv, "storage" \notin FaultKinds, MaxLag = 0,
         NEW r \in Requests, Step(r)
  PROVE  ForgetInv'
<1>1. TypeInv /\ TypeInv' /\ [Next]_vars /\ Grows /\ MovesOn(r)
  BY NextGrows, StepMoves DEF BaseInv, CacheInv, Next
<1>2. \A q \in Requests \ {r} : Holds(q)'
  BY <1>1, OthersHold DEF MovesOn, Local
<1>3. HoldsEntry(r)'
  <2>1. CASE d[r].pc = "respond"
    <3>1. d'[r].pc \notin Holding
      BY <1>1, <2>1 DEF MovesOn, Moves, Opens, Resumes, Works, Ends, Fails, Holding, Cached
    <3> QED
      BY <3>1 DEF HoldsEntry
  <2>2. CASE d[r].pc # "respond"
    BY <1>1, <2>2, StepEntry
  <2> QED
    BY <2>1, <2>2
<1>4. HoldsDecided(r)' /\ HoldsAsked(r)' /\ HoldsAutos(r)' /\ HoldsAnchor(r)'
  BY <1>1, StepAsks, StepAnchor
<1>5. StoreCovers' /\ RulesLawful'
  BY <1>1, StepStore, NextLawful
<1> QED
  BY <1>2, <1>3, <1>4, <1>5 DEF ForgetInv, Holds

\* What else may happen: requests arrive or are dropped, and entries lapse.
LEMMA QuietForget ==
  ASSUME BaseInv, BaseInv', ForgetInv, "storage" \notin FaultKinds, [Next]_vars,
         \A q \in Requests : d'[q] = d[q] \/ d'[q].pc \in {"load", "dropped"},
         \A c \in Contexts : store'[c] \in {store[c], NoEntry}
  PROVE  ForgetInv'
<1>1. TypeInv /\ TypeInv' /\ Grows
  BY NextGrows DEF BaseInv, CacheInv
<1>2. ASSUME NEW q \in Requests  PROVE Holds(q)'
  <2>1. CASE d'[q] = d[q]
    BY <1>1, <2>1, OthersHold
  <2>2. CASE d'[q].pc \in {"load", "dropped"}
    <3>1. d'[q].anchor = NoAnchor
      BY <2>2 DEF BaseInv, ReadInv, RequestKnows, Knows, Turning, Concluded
    <3> QED
      BY <2>2, <3>1 DEF Holds, HoldsEntry, HoldsDecided, HoldsAsked, HoldsAutos, HoldsAnchor,
         Holding, Cached, Asking, Concluded
  <2> QED
    BY <2>1, <2>2
<1>3. ASSUME NEW c \in Contexts, store'[c] = store[c], store[c] # NoEntry
      PROVE  Covers(c, store[c])'
  <2> SUFFICES ASSUME NEW u, u \in Owed(c, store[c].session)'  PROVE u \in store[c].pending
    BY <1>3 DEF Covers
  <2>1. ~ \E q \in Requests : d[q].pc = "respond" /\ d'[q].pc = "done"
    OBVIOUS
  <2>2. u \in Owed(c, store[c].session)
    BY <1>1, <1>3, <2>1, OwedStep
  <2> QED
    BY <1>3, <2>2 DEF ForgetInv, StoreCovers, Covers
<1>4. StoreCovers'
  BY <1>3 DEF StoreCovers, NoEntry, Cache!NoEntry
<1> QED
  BY <1>1, <1>2, <1>4, NextLawful DEF ForgetInv

LEMMA EnvironmentForget ==
  ASSUME BaseInv, BaseInv', ForgetInv, "storage" \notin FaultKinds, Environment
  PROVE  ForgetInv'
<1>0. TypeInv /\ [Next]_vars
  BY DEF BaseInv, CacheInv, Next
<1>1. ASSUME NEW r \in Requests, NEW c \in Contexts, NEW t \in Tasks,
             NEW supplied \in BOOLEAN, Receive(r, c, t, supplied)
      PROVE  ForgetInv'
  <2> DEFINE rec == [d[r] EXCEPT !.pc = "load", !.ctx = c, !.task = t, !.supplied = supplied]
  <2>1. d' = [d EXCEPT ![r] = rec] /\ UNCHANGED store
    BY ZenonT(40), <1>1 DEF Receive
  <2>2. rec.pc = "load"
    BY <1>0, RequestFacts DEF Request
  <2> HIDE DEF rec
  <2>3. \A q \in Requests : d'[q] = d[q] \/ d'[q].pc = "load"
    BY <1>0, <2>1, <2>2 DEF TypeInv, TypeOK
  <2> QED
    BY <1>0, <2>1, <2>3, QuietForget
<1>2. ASSUME NEW r \in Requests, Crash(r)  PROVE ForgetInv'
  <2>1. \A q \in Requests : d'[q] = d[q] \/ d'[q].pc = "dropped"
    BY <1>0, <1>2, LeaveMoves DEF Crash, Local
  <2> QED
    BY <1>0, <1>2, <2>1, QuietForget DEF Crash
<1>3. ASSUME NEW c \in Contexts, ExpireSession(c)  PROVE ForgetInv'
  <2>1. UNCHANGED d /\ \A e \in Contexts : store'[e] \in {store[e], NoEntry}
    BY <1>0, <1>3 DEF ExpireSession, Cache!Expire, TypeInv, TypeOK, NoEntry
  <2> QED
    BY <1>0, <2>1, QuietForget
<1>4. ASSUME NEW s \in Sessions, AgentStep(s) \/ BreakAgent(s)  PROVE ForgetInv'
  <2>1. UNCHANGED <<d, store>>
    BY <1>4 DEF AgentStep, BreakAgent
  <2> QED
    BY <1>0, <2>1, QuietForget
<1> QED
  BY <1>1, <1>2, <1>3, <1>4 DEF Environment

LEMMA InitForget == Init => BaseInv /\ ForgetInv
<1> SUFFICES ASSUME Init  PROVE BaseInv /\ ForgetInv
  OBVIOUS
<1>1. BaseInv
  BY InitPostInv, InitCacheInv, InitReadInv DEF BaseInv
<1>2. StoreCovers
  BY DEF Init, Cache!StoreInit, StoreCovers, NoEntry
<1>3. \A r \in Requests : Holds(r)
  BY DEF Init, Fresh, Holds, HoldsEntry, HoldsDecided, HoldsAsked, HoldsAutos, HoldsAnchor,
     Holding, Cached, Asking, Concluded, NoAnchor
<1>4. RulesLawful
  BY DEF Init, AgentInit, RulesLawful, Relayed, Of, Positions
<1> QED
  BY <1>1, <1>2, <1>3, <1>4 DEF ForgetInv

\* ForgetInv is inductive.
LEMMA NextForget ==
  ASSUME ~Overlap, "storage" \notin FaultKinds, MaxLag = 0
  PROVE  BaseInv /\ ForgetInv /\ [Next]_vars => (BaseInv /\ ForgetInv)'
<1> SUFFICES ASSUME BaseInv, ForgetInv, [Next]_vars
             PROVE  BaseInv' /\ ForgetInv'
  OBVIOUS
<1>1. BaseInv'
  BY NextPostInv, NextCacheInv, NextReadInv DEF BaseInv
<1>2. CASE UNCHANGED vars
  BY <1>1, <1>2, QuietForget DEF vars
<1> QED
  BY <1>1, <1>2, StepForget, EnvironmentForget DEF Next

\* No open question is forgotten, whatever crashes, expires or is lost: the cached
\* entry of a conversation names every use that was put to its client, that the
\* policy defers and that no human has decided, also when recovery rebuilt it.
THEOREM NothingForgotten ==
  ASSUME ~Overlap, "storage" \notin FaultKinds, MaxLag = 0
  PROVE  Spec => []NoQuestionForgotten
<1>1. ForgetInv => NoQuestionForgotten
  BY DEF ForgetInv, StoreCovers, Covers, Owed, Open, Deferred, NoQuestionForgotten,
     Cache!Present, NoEntry
<1> QED
  BY <1>1, InitForget, NextForget, PTL DEF Spec

----------------------------------------------------------------------------
(* Questions and decisions of conversations whose entry is never lost. *)

\* A message that was posted later hides what was used before it from its turn, and
\* the policy leaves a use to the human by the tool that the last turn shows.
Hidden(h, u)   == \E i \in Positions(h) : u < i /\ IsMessage(h, i)
ForHuman(h, u) == Resolve(IF Hidden(h, u) THEN NoTool ELSE h[u].tool) = "defer"

\* The session waits for the human, for exactly these uses.
Awaits(h, uses) ==
  /\ GatedAt(h, Len(h)) /\ uses \subseteq Gate(h)
  /\ \A u \in uses : ~Confirmed(h, u)
  /\ \A u \in Gate(h) : ForHuman(h, u) => u \in uses

\* Since event j the session is r's.
Own(r, h, j) ==
  /\ \A i \in Positions(h) : IsMessage(h, i) => i <= j
  /\ \A i \in Relayed(h) : i > j => h[i].by = r

\* Decision j left nothing to the human of the gate it was about.
Spent(h, j) ==
  /\ GatedAt(h, j - 1)
  /\ \A u \in h[StatusAt(h, j - 1)].ids : ForHuman(h, u) => u \in Uses(h[j])

\* Event j is the message, or the decision, that opened the turn of r.
Opened(r, rec, h, j) ==
  IF rec.anchor # NoAnchor THEN j = rec.anchor
  ELSE j \in ByHuman(h) /\ h[j].by = r /\ Spent(h, j)

\* What r has confirmed the policy decides, or r's human has.
HasTurn(r, rec, h) ==
  \E j \in Positions(h) :
    /\ Own(r, h, j) /\ Opened(r, rec, h, j)
    /\ \A u \in rec.confirmed :
         /\ u \in Positions(h)
         /\ ForHuman(h, u) => rec.anchor = NoAnchor /\ u \in Uses(h[j])

Polling == {"clear", "poll", "auto"}

Tracks(r, rec, h) ==
  /\ rec.pc \in Undecided => rec.confirmed = {}
  /\ rec.pc \in Polling => HasTurn(r, rec, h)
  /\ rec.pc \in InSession /\ Asking(rec) /\ rec.deferred # {} => Awaits(h, rec.deferred)
  /\ rec.pc = "auto" => \A a \in rec.autos : a[1] \notin rec.deferred

RequestTracks(r) == Tracks(r, d[r], log[d[r].entry.session])

QuestionInv ==
  /\ \A c \in Contexts :
       OpenQuestion[c] # {} => Awaits(log[store[c].session], OpenQuestion[c])
  /\ \A r \in Requests : RequestTracks(r)

\* What was put to a client is decided, or still open.
Answered ==
  \A r \in Requests : d[r].pc = "done" /\ d[r].outcome = "INPUT_REQUIRED" =>
    /\ HomeOf(d[r].entry.session, d[r].ctx)
    /\ d[r].deferred \subseteq Decided(log[d[r].entry.session]) \union OpenQuestion[d[r].ctx]

AskInv == DecisionInv /\ ReadInv

----------------------------------------------------------------------------
\* What the invariants of the earlier modules give this part.
LEMMA AskFacts ==
  ASSUME AskInv
  PROVE  /\ TypeInv /\ PostInv /\ CacheInv /\ GateInv /\ Formed /\ Held /\ Alone /\ Synced
         /\ log \in [Sessions -> Seq(Event)]
BY DEF AskInv, DecisionInv, GateInv, CacheInv, ReadInv, TypeInv, TypeOK

\* Between a gate and now, as long as one of its uses is not confirmed, the session
\* is gated, and later gates name no other uses.
LEMMA GateShrinks ==
  ASSUME NEW h \in Seq(Event), WellFormed(h), NEW p \in Positions(h), IsGate(h, p),
         NEW u \in h[p].ids, ~Confirmed(h, u)
  PROVE  GatedAt(h, Len(h)) /\ u \in Gate(h) /\ Gate(h) \subseteq h[p].ids
<1>1. Len(h) \in Nat /\ p \in Nat \ {0} /\ p <= Len(h)
  BY LenProperties DEF Positions
<1> DEFINE P(x) == h[StatusAt(h, x)].ids \subseteq h[p].ids
           Bad  == {x \in p..Len(h) : ~P(x)}
<1>2. \A x \in p..Len(h) : ~ConfirmedAt(h, u, x)
  BY <1>1 DEF Confirmed, ConfirmedAt, Of
<1>3. \A x \in p..Len(h) : GatedAt(h, x) /\ u \in h[StatusAt(h, x)].ids
  BY <1>2, StaysGated
<1>4. ASSUME Bad # {}  PROVE FALSE
  <2>1. Bad \in SUBSET Nat
    BY <1>1
  <2>2. PICK x \in Bad : \A y \in Bad : x <= y
    BY <1>4, <2>1, SmallestExists
  <2>3. x \in p..Len(h) /\ ~P(x) /\ x \in Nat \ {0} /\ x \in Positions(h)
    BY <1>1, <2>2 DEF Positions
  <2>4. \A y \in p..Len(h) : y < x => P(y)
    BY <1>1, <2>1, <2>2
  <2> HIDE DEF Bad
  <2>5. StatusAt(h, x) = IF h[x].type \in StatusTypes THEN x ELSE StatusAt(h, x - 1)
    BY <2>3, LastStep DEF StatusAt
  <2>6. x # p
    BY <1>1, <2>3, <2>5 DEF IsGate, StatusTypes
  <2> DEFINE y == x - 1
  <2>7. P(y) /\ y \in p..Len(h) /\ y < x
    BY <1>1, <2>3, <2>4, <2>6
  <2>8. GatedAt(h, y) /\ GatedAt(h, x)
    BY <1>3, <2>3, <2>7
  <2>9. ~RunningAt(h, y)
    BY <2>8 DEF RunningAt, GatedAt
  <2>10. EventOK(h, x)
    BY <2>3 DEF WellFormed
  <2>11. h[x].type \in StatusTypes
    BY <2>3, <2>5, <2>7
  <2>12. StatusAt(h, x) = x /\ IsGate(h, x)
    BY <2>5, <2>8, <2>11 DEF GatedAt, IsGate
  <2>13. h[x].ids = h[StatusAt(h, y)].ids \intersect UnconfirmedAt(h, y)
    BY <2>9, <2>10, <2>12 DEF EventOK
  <2> QED
    BY <2>3, <2>7, <2>12, <2>13
<1>5. P(Len(h)) /\ Len(h) \in p..Len(h)
  BY <1>1, <1>4
<1> QED
  BY <1>3, <1>5 DEF Gate, StatusAt

\* A gate names tool uses that came before it and were not confirmed.
LEMMA GateNames ==
  ASSUME NEW h \in Seq(Event), WellFormed(h), NEW p \in Positions(h), IsGate(h, p),
         NEW u \in h[p].ids
  PROVE  u \in 1..(p - 1) /\ u \in Positions(h) /\ h[u].type = "agent.tool_use"
         /\ ~ConfirmedAt(h, u, p - 1)
<1>1. Len(h) \in Nat
  BY LenProperties
<1>2. u \in UnconfirmedAt(h, p - 1)
  BY DEF WellFormed, EventOK
<1> QED
  BY <1>1, <1>2 DEF UnconfirmedAt, Of, Positions

\* The gate of a session that is gated.
LEMMA GateNow ==
  ASSUME NEW h \in Seq(Event), NEW n \in 0..Len(h), GatedAt(h, n)
  PROVE  StatusAt(h, n) \in 1..n /\ StatusAt(h, n) \in Positions(h) /\ IsGate(h, StatusAt(h, n))
<1>1. Len(h) \in Nat /\ n \in Nat
  BY LenProperties
<1>2. StatusAt(h, n) \in {0} \union Of(h, 1..n, StatusTypes)
  BY <1>1, LastOfIsPosition DEF StatusAt
<1> QED
  BY <1>1, <1>2 DEF GatedAt, IsGate, Of, Positions

----------------------------------------------------------------------------
(* Histories that grow without a message. *)

\* What the events are that a history gains while r has the session.
Gains(r, h, g) ==
  /\ Prolongs(h, g)
  /\ \A i \in Positions(g) : IsMessage(g, i) => i \in Positions(h)
  /\ \A i \in Relayed(g) \ Positions(h) : g[i].by = r

\* No event that is not a message changes what is left to the human.
LEMMA ForHumanKept ==
  ASSUME NEW h, NEW g, Prolongs(h, g), \A i \in Positions(g) : IsMessage(g, i) => i \in Positions(h),
         NEW u \in Positions(h)
  PROVE  ForHuman(g, u) <=> ForHuman(h, u)
<1>1. \A i \in Positions(h) : i \in Positions(g) /\ g[i] = h[i]
  BY DEF Prolongs, Agree, Positions
<1>2. Hidden(g, u) <=> Hidden(h, u)
  BY <1>1 DEF Hidden, IsMessage
<1> QED
  BY <1>1, <1>2 DEF ForHuman

\* A session waits until a use is confirmed or a message is posted.
LEMMA AwaitsKept ==
  ASSUME NEW h \in Seq(Event), WellFormed(h), NEW g \in Seq(Event), WellFormed(g),
         Prolongs(h, g), \A i \in Positions(g) : IsMessage(g, i) => i \in Positions(h),
         NEW uses, uses # {}, Awaits(h, uses), \A u \in uses : ~Confirmed(g, u)
  PROVE  Awaits(g, uses)
<1> DEFINE p == StatusAt(h, Len(h))
<1>1. Len(h) \in Nat /\ Len(g) \in Nat
  BY LenProperties
<1>2. p \in Positions(h) /\ IsGate(h, p) /\ Gate(h) = h[p].ids
  BY <1>1, GateNow DEF Awaits, Gate, StatusAt
<1> HIDE DEF p
<1>3. p \in Positions(g) /\ g[p] = h[p] /\ IsGate(g, p)
  BY <1>2 DEF Prolongs, Agree, Positions, IsGate
<1>4. uses \subseteq g[p].ids /\ \A u \in g[p].ids : ForHuman(h, u) => u \in uses
  BY <1>2, <1>3 DEF Awaits
<1>5. \A u \in uses : GatedAt(g, Len(g)) /\ u \in Gate(g) /\ Gate(g) \subseteq g[p].ids
  BY <1>3, <1>4, GateShrinks
<1>6. ASSUME NEW u \in Gate(g), ForHuman(g, u)  PROVE u \in uses
  <2>1. u \in h[p].ids
    BY <1>3, <1>5, <1>6
  <2>2. u \in Positions(h)
    BY <1>2, <2>1, GateNames
  <2>3. ForHuman(h, u)
    BY <1>6, <2>2, ForHumanKept
  <2> QED
    BY <1>3, <1>4, <2>1, <2>3
<1> QED
  BY <1>5, <1>6 DEF Awaits

\* A decision that left nothing to the human still has when the history grows.
LEMMA SpentKept ==
  ASSUME NEW h \in Seq(Event), WellFormed(h), NEW g, Prolongs(h, g),
         \A i \in Positions(g) : IsMessage(g, i) => i \in Positions(h),
         NEW j \in Positions(h), Spent(h, j)
  PROVE  Spent(g, j)
<1>1. Len(h) \in Nat /\ j \in 1..Len(h) /\ j - 1 \in 0..Len(h) /\ j - 1 \in Nat
  BY LenProperties DEF Positions
<1>2. Agree(h, g, j - 1) /\ g[j] = h[j]
  BY <1>1 DEF Prolongs, Agree
<1> DEFINE p == StatusAt(h, j - 1)
<1>3. /\ StatusAt(g, j - 1) = p /\ (GatedAt(h, j - 1) = GatedAt(g, j - 1))
      /\ p # 0 => g[p] = h[p]
  BY <1>1, <1>2, AgreeAt
<1>4. p \in 1..(j - 1) /\ p \in Positions(h) /\ IsGate(h, p)
  BY <1>1, GateNow DEF Spent
<1>5. g[p] = h[p]
  BY <1>1, <1>3, <1>4
<1> HIDE DEF p
<1>6. \A u \in h[p].ids : ForHuman(g, u) <=> ForHuman(h, u)
  BY <1>4, GateNames, ForHumanKept
<1>7. \A u \in h[p].ids : ForHuman(h, u) => u \in Uses(h[j])
  BY DEF Spent, p
<1>8. GatedAt(g, j - 1)
  BY <1>3 DEF Spent
<1> QED
  BY <1>2, <1>3, <1>5, <1>6, <1>7, <1>8 DEF Spent

\* A request keeps its turn while only it writes to the session.
LEMMA HasTurnKept ==
  ASSUME NEW r, NEW rec, NEW h \in Seq(Event), WellFormed(h), NEW g, Gains(r, h, g),
         HasTurn(r, rec, h)
  PROVE  HasTurn(r, rec, g)
<1>1. PICK j \in Positions(h) :
        /\ Own(r, h, j) /\ Opened(r, rec, h, j)
        /\ \A u \in rec.confirmed :
             /\ u \in Positions(h)
             /\ ForHuman(h, u) => rec.anchor = NoAnchor /\ u \in Uses(h[j])
  BY DEF HasTurn
<1>2. /\ Prolongs(h, g)
      /\ \A i \in Positions(g) : IsMessage(g, i) => i \in Positions(h)
      /\ \A i \in Positions(h) : i \in Positions(g) /\ g[i] = h[i]
  BY DEF Gains, Prolongs, Agree, Positions
<1>3. Own(r, g, j)
  <2>1. \A i \in Positions(g) : IsMessage(g, i) => i <= j
    BY <1>1, <1>2 DEF Own, IsMessage
  <2>2. ASSUME NEW i \in Relayed(g), i > j  PROVE g[i].by = r
    <3>1. CASE i \in Positions(h)
      BY <1>1, <1>2, <2>2, <3>1 DEF Own, Relayed, Of
    <3>2. CASE i \notin Positions(h)
      BY <3>2 DEF Gains
    <3> QED
      BY <3>1, <3>2
  <2> QED
    BY <2>1, <2>2 DEF Own
<1>4. Opened(r, rec, g, j)
  <2>1. j \in ByHuman(h) => j \in ByHuman(g)
    BY <1>2 DEF ByHuman, Relayed, Of
  <2>2. Spent(h, j) => Spent(g, j)
    BY <1>2, SpentKept
  <2> QED
    BY <1>1, <1>2, <2>1, <2>2 DEF Opened
<1>5. \A u \in rec.confirmed :
        /\ u \in Positions(g)
        /\ ForHuman(g, u) => rec.anchor = NoAnchor /\ u \in Uses(g[j])
  BY <1>1, <1>2, ForHumanKept
<1> QED
  BY <1>2, <1>3, <1>4, <1>5 DEF HasTurn

----------------------------------------------------------------------------
(* What every request keeps of the invariant while the histories grow. *)

\* The posts that a session gains from a request that is past its message.
LEMMA SessionGains ==
  ASSUME AskInv, TypeInv', Grows, NEW q \in Requests,
         d[q].pc \in Polling \union {"park"} \union Concluded
  PROVE  LET s == d[q].entry.session IN
         s \in Sessions /\ Gains(q, log[s], log'[s])
<1> DEFINE s == d[q].entry.session
           h == log[s]
           g == log'[s]
<1>1. TypeInv /\ CacheInv /\ d[q].pc \in InSession
  BY AskFacts DEF Polling, Concluded, InSession
<1>2. s \in Sessions
  BY <1>1, RequestFacts DEF HomeOf
<1>3. Prolongs(h, g)
  BY <1>1, <1>2, LogProlongs
<1>4. ASSUME NEW i \in Positions(g), IsMessage(g, i), i \notin Positions(h)  PROVE FALSE
  <2>1. PICK p \in Requests : d[p].pc = "post" /\ d[p].entry.session = s
    BY <1>1, <1>2, <1>4, NewMessage
  <2>2. p = q
    BY <1>1, <2>1, OneInSession DEF InSession
  <2> QED
    BY <2>1, <2>2 DEF Polling, Concluded
<1>5. ASSUME NEW i \in Relayed(g) \ Positions(h)  PROVE g[i].by = q
  <2>1. i \in Positions(g) /\ g[i].type = "user.tool_confirmation"
    BY DEF Relayed, Of
  <2>2. PostedBy(g[i].by, s, g[i])
    BY <1>2, <1>5, <2>1 DEF Grows, PostTypes
  <2> QED
    BY <1>1, <2>2, OneInSession DEF PostedBy, InSession
<1> QED
  BY <1>2, <1>3, <1>4, <1>5 DEF Gains

\* What a request tracks stays true of it as it is, whoever takes the step.
LEMMA StillTracks ==
  ASSUME AskInv, QuestionInv, TypeInv', Formed', Grows, NEW q \in Requests
  PROVE  Tracks(q, d[q], log'[d[q].entry.session])
<1> DEFINE rec == d[q]
           s   == d[q].entry.session
           h   == log[s]
           g   == log'[s]
<1>1. Tracks(q, rec, h) /\ TypeInv /\ CacheInv /\ Formed
  BY AskFacts DEF QuestionInv, RequestTracks
<1>2. CASE rec.pc \notin Polling \union {"park"} \union Concluded
  BY <1>1, <1>2 DEF Tracks, Asking, Polling, Concluded, InSession
<1>3. CASE rec.pc \in Polling \union {"park"} \union Concluded
  <2>1. s \in Sessions /\ Gains(q, h, g)
    BY <1>3, SessionGains
  <2>2. h \in Seq(Event) /\ g \in Seq(Event) /\ WellFormed(h) /\ WellFormed(g)
    BY <1>1, <2>1 DEF TypeInv, TypeOK, Formed
  <2>3. rec.pc \in Polling => HasTurn(q, rec, g)
    BY <1>1, <2>1, <2>2, HasTurnKept DEF Tracks
  <2>4. ASSUME Asking(rec), rec.deferred # {}  PROVE Awaits(g, rec.deferred)
    <3>1. Awaits(h, rec.deferred)
      BY <1>1, <1>3, <2>4 DEF Tracks, Polling, Concluded, InSession
    <3>2. ASSUME NEW u \in rec.deferred, Confirmed(g, u)  PROVE FALSE
      <4>1. ~Confirmed(h, u)
        BY <3>1 DEF Awaits
      <4>2. PICK p \in Requests :
              /\ s = d[p].entry.session
              /\ \/ d[p].pc = "relay"
                 \/ d[p].pc = "auto" /\ \E a \in d[p].autos : a[1] = u
        BY <1>1, <2>1, <3>2, <4>1, NewlyConfirmed
      <4>3. p = q
        BY <1>1, <1>3, <4>2, OneInSession DEF InSession, Polling, Concluded
      <4> QED
        BY <1>1, <1>3, <4>2, <4>3 DEF Tracks, Polling, Concluded
    <3> QED
      BY <2>1, <2>2, <2>4, <3>1, <3>2, AwaitsKept DEF Gains
  <2> QED
    BY <1>1, <2>3, <2>4 DEF Tracks
<1> QED
  BY <1>2, <1>3

----------------------------------------------------------------------------
(* What a step makes of the request that takes it. *)

\* Before its message or its decision a request confirms nothing.
LEMMA EarlyRemembers ==
  ASSUME TypeInv, NEW r \in Requests,
         \/ LoadSession(r) \/ FindSession(r) \/ RebuildSession(r) \/ AdoptSession(r)
         \/ CreateSession(r) \/ RegisterSession(r) \/ Classify(r)
  PROVE  d'[r].confirmed \in {{}, d[r].confirmed}
<1> USE RequestFacts
<1>1. CASE LoadSession(r)
  <2>1. PICK e, pc : d' = [d EXCEPT ![r].entry = e, ![r].pc = pc]
    BY <1>1 DEF LoadSession
  <2> QED
    BY <2>1 DEF TypeInv, TypeOK, Request
<1>2. CASE FindSession(r)
  <2>1. \/ \E s : d' = [d EXCEPT ![r].pc = "rebuild", ![r].entry.session = s]
        \/ d' = [d EXCEPT ![r].pc = "create"]
    BY <1>2 DEF FindSession, Go
  <2> QED
    BY <2>1 DEF TypeInv, TypeOK, Request
<1>3. CASE RebuildSession(r)
  <2>1. \/ \E p : d' = [d EXCEPT ![r].pc = "adopt", ![r].entry.pending = p]
        \/ \E e : d' = [d EXCEPT ![r].pc = "create", ![r].entry = e]
    BY <1>3 DEF RebuildSession
  <2> QED
    BY <2>1 DEF TypeInv, TypeOK, Request
<1>4. CASE AdoptSession(r) \/ RegisterSession(r)
  <2>1. PICK pc : d' = [d EXCEPT ![r].pc = pc]
    BY <1>4 DEF AdoptSession, RegisterSession, Go
  <2> QED
    BY <2>1 DEF TypeInv, TypeOK, Request
<1>5. CASE CreateSession(r)
  <2>1. \/ Leave(r, "error")
        \/ \E e : d' = [d EXCEPT ![r] = [@ EXCEPT !.pc = "register", !.entry = e]]
    BY <1>5 DEF CreateSession, Posted, CallFails
  <2>2. ASSUME Leave(r, "error")  PROVE d'[r].confirmed = {}
    BY <2>2 DEF Leave, TypeInv, TypeOK, Request
  <2>3. ASSUME NEW e, d' = [d EXCEPT ![r] = [@ EXCEPT !.pc = "register", !.entry = e]]
        PROVE  d'[r].confirmed = d[r].confirmed
    BY <2>3 DEF TypeInv, TypeOK, Request
  <2> QED
    BY <2>1, <2>2, <2>3
<1>6. CASE Classify(r)
  <2>1. PICK answer : d' = [d EXCEPT ![r].answer = answer, ![r].pc = "relay"]
    BY <1>6 DEF Classify
  <2> QED
    BY <2>1 DEF TypeInv, TypeOK, Request
<1> QED
  BY <1>1, <1>2, <1>3, <1>4, <1>5, <1>6

\* After them it remembers what it has confirmed, and its anchor, until it leaves.
LEMMA RestRemembers ==
  ASSUME TypeInv, NEW r \in Requests,
         \/ ClearPending(r) \/ RelayAutos(r) \/ ParkDeferred(r)
         \/ PersistTask(r) \/ SaveSession(r) \/ Respond(r)
  PROVE  \/ d'[r].pc \in Finished
         \/ d'[r].anchor = d[r].anchor /\ d'[r].confirmed = d[r].confirmed
<1> USE RequestFacts
<1>1. ASSUME NEW pc \in {"error", "done"}, Leave(r, pc)  PROVE d'[r].pc \in Finished
  BY <1>1 DEF Leave, TypeInv, TypeOK, Request, Finished
<1>2. CASE ClearPending(r)
  <2>1. PICK e : d' = [d EXCEPT ![r].entry = e, ![r].pc = "poll", ![r].polls = Polls]
    BY <1>2 DEF ClearPending
  <2> QED
    BY <2>1 DEF TypeInv, TypeOK, Request
<1>3. CASE RelayAutos(r) /\ ~Leave(r, "error")
  <2> DEFINE some == [d[r] EXCEPT !.autos = {}]
             rec  == IF some.deferred # {} THEN [some EXCEPT !.pc = "park"] ELSE NextPoll(some)
  <2>1. d' = [d EXCEPT ![r] = rec]
    BY <1>3 DEF RelayAutos, Posted, CallFails, Rejected
  <2>2. some \in Request /\ some.anchor = d[r].anchor /\ some.confirmed = d[r].confirmed
    BY DEF Request
  <2> HIDE DEF some
  <2>3. NextPoll(some).anchor = some.anchor /\ NextPoll(some).confirmed = some.confirmed
    BY <2>2 DEF NextPoll, Request
  <2>4. LET park == [some EXCEPT !.pc = "park"] IN
        park.anchor = some.anchor /\ park.confirmed = some.confirmed
    BY <2>2 DEF Request
  <2>5. rec.anchor = some.anchor /\ rec.confirmed = some.confirmed
    BY <2>3, <2>4
  <2> HIDE DEF rec
  <2> QED
    BY <2>1, <2>2, <2>5 DEF TypeInv, TypeOK
<1>4. CASE ParkDeferred(r)
  <2>1. PICK e : d' = [d EXCEPT ![r].entry = e, ![r].outcome = "INPUT_REQUIRED",
                                ![r].pc = "persist"]
    BY <1>4 DEF ParkDeferred
  <2> QED
    BY <2>1 DEF TypeInv, TypeOK, Request
<1>5. CASE PersistTask(r) \/ SaveSession(r)
  <2>1. Go(r, "save") \/ Go(r, "respond")
    BY <1>5 DEF PersistTask, SaveSession
  <2> QED
    BY <2>1 DEF Go, TypeInv, TypeOK, Request
<1> QED
  BY <1>1, <1>2, <1>3, <1>4, <1>5 DEF RelayAutos, Respond

\* A step that adds nothing to the turn keeps what was tracked.
LEMMA TracksMoved ==
  ASSUME NEW r, NEW old, NEW new, NEW h, Tracks(r, old, h),
         new.pc \notin Undecided \union {"auto"},
         new.pc \in Polling =>
           old.pc \in Polling /\ new.anchor = old.anchor /\ new.confirmed = old.confirmed,
         new.pc \in InSession /\ Asking(new) =>
           old.pc \in InSession /\ Asking(old) /\ new.deferred = old.deferred
  PROVE  Tracks(r, new, h)
<1>1. HasTurn(r, old, h) /\ new.anchor = old.anchor /\ new.confirmed = old.confirmed =>
        HasTurn(r, new, h)
  BY DEF HasTurn, Opened
<1> QED
  BY <1>1 DEF Tracks

\* The event that a step appends is the last.
LEMMA TurnOpened ==
  ASSUME NEW r, NEW rec, NEW g, Len(g) \in Nat \ {0}, Opened(r, rec, g, Len(g)),
         \A u \in rec.confirmed :
           /\ u \in Positions(g)
           /\ ForHuman(g, u) => rec.anchor = NoAnchor /\ u \in Uses(g[Len(g)])
  PROVE  HasTurn(r, rec, g)
<1> DEFINE n == Len(g)
<1>1. n \in Positions(g)
  BY DEF Positions
<1>2. Own(r, g, n)
  BY DEF Own, Relayed, Of, Positions
<1> QED
  BY <1>1, <1>2 DEF HasTurn

\* The message that opens a turn leaves nothing confirmed.
LEMMA SendTracks ==
  ASSUME AskInv, QuestionInv, Echoes, Lossless,
         NEW r \in Requests, Step(r), d[r].pc = "post", d'[r].pc = "poll"
  PROVE  HasTurn(r, d'[r], log'[d[r].entry.session])
<1> DEFINE s      == d[r].entry.session
           h      == log[s]
           g      == log'[s]
           anchor == IF Echoes THEN Len(h) + 1 ELSE NoAnchor
           rec    == [d[r] EXCEPT !.pc = "poll", !.polls = Polls, !.anchor = anchor]
<1>1. TypeInv /\ SendMessage(r) /\ s \in Sessions
  BY AskFacts, TurnStep, RequestFacts DEF HomeOf, InSession
<1>2. ~Leave(r, "error")
  <2>1. Leave(r, "error") => d'[r].pc = "error"
    BY <1>1, RequestFacts DEF Leave, TypeInv, TypeOK, Request
  <2> QED
    BY <2>1
<1>3. Append1(s, UserMessage(r)) /\ d' = [d EXCEPT ![r] = rec]
  BY <1>1, <1>2 DEF SendMessage, CallFails, Rejected, Posted
<1>4. g = Append(h, UserMessage(r)) /\ h \in Seq(Event)
  BY <1>1, <1>3 DEF Append1, TypeInv, TypeOK
<1>5. Len(g) = Len(h) + 1 /\ Len(h) \in Nat
  BY <1>4, Appended, LenProperties
<1> HIDE DEF anchor
<1>6. d'[r].anchor = anchor /\ d'[r].confirmed = d[r].confirmed
  BY <1>1, <1>3, RequestFacts DEF TypeInv, TypeOK, Request
<1>7. anchor = Len(g) /\ Len(g) \in Nat \ {0}
  BY <1>5 DEF anchor
<1>8. d[r].confirmed = {}
  BY DEF QuestionInv, RequestTracks, Tracks, Undecided
<1> HIDE DEF g, h
<1>9. Opened(r, d'[r], g, Len(g))
  BY <1>6, <1>7 DEF Opened, NoAnchor
<1>10. HasTurn(r, d'[r], g)
  BY <1>6, <1>7, <1>8, <1>9, TurnOpened
<1> QED
  BY <1>10 DEF g

\* The decision that opens one is about all that the gate leaves to the human.
LEMMA RelayTracks ==
  ASSUME AskInv, QuestionInv, Lossless, NEW r \in Requests, Step(r),
         d[r].pc = "relay", d'[r].pc = "clear"
  PROVE  HasTurn(r, d'[r], log'[d[r].entry.session])
<1> DEFINE s         == d[r].entry.session
           P         == d[r].entry.pending
           decisions == P \X {Decision(d[r].answer)}
           e         == Confirmations(decisions, r, "human")
           h         == log[s]
           g         == log'[s]
           n         == Len(h) + 1
           rec       == [d[r] EXCEPT !.pc = "clear", !.confirmed = @ \union P]
<1>1. TypeInv /\ GateInv /\ Formed /\ RelayDecision(r) /\ d[r] \in Request
  BY AskFacts, RelayStep, RequestFacts
<1>2. s \in Sessions /\ h \in Seq(Event) /\ Len(h) \in Nat /\ WellFormed(h) /\ d[r].ctx \in Contexts
  BY <1>1, RequestFacts, LenProperties DEF InSession, HomeOf, Formed
<1>3. ~ Leave(r, "error")
  <2>1. Leave(r, "error") => d'[r].pc = "error"
    BY <1>1 DEF Leave, TypeInv, TypeOK, Request
  <2> QED
    BY <2>1
<1>4. Append1(s, e) /\ d' = [d EXCEPT ![r] = rec]
  BY <1>1, <1>3 DEF RelayDecision, CallFails, Rejected, PostConfirmations, Posted
<1>5. g = Append(h, e)
  BY <1>1, <1>2, <1>4 DEF Append1, TypeInv, TypeOK
<1>6. /\ e.type = "user.tool_confirmation" /\ e.who = "human" /\ e.by = r
      /\ e.decisions = decisions
  BY DEF Confirmations
<1> HIDE DEF e, g, h
<1>7. /\ Len(g) = n /\ g[n] = e /\ \A i \in 1..Len(h) : g[i] = h[i]
  BY <1>2, <1>5, Appended
<1>8. d'[r].anchor = NoAnchor /\ d'[r].confirmed = P
  <2>1. d[r].anchor = NoAnchor
    BY AskFacts DEF AskInv, ReadInv, RequestKnows, Knows, Turning, Concluded
  <2>2. d[r].confirmed = {}
    BY DEF QuestionInv, RequestTracks, Tracks, Undecided
  <2> QED
    BY <1>1, <1>4, <2>1, <2>2 DEF TypeInv, TypeOK, Request
<1>9. Awaits(h, P)
  <2>1. store[d[r].ctx] = d[r].entry /\ P # {}
    BY <1>1 DEF GateInv, CacheInv, Held, Cached, Synced, InSync
  <2>2. OpenQuestion[d[r].ctx] = P
    BY <1>1, <2>1, QuestionStep DEF QuestionAt, PastDecision
  <2> QED
    BY <1>2, <2>1, <2>2 DEF QuestionInv, h
<1>10. Uses(g[n]) = P
  <2>1. {c[1] : c \in decisions} = P
    BY FirstOfPairs
  <2> QED
    BY <1>6, <1>7, <2>1 DEF Uses
<1>11. Prolongs(h, g) /\ \A i \in Positions(g) : IsMessage(g, i) => i \in Positions(h)
  BY <1>2, <1>6, <1>7 DEF Prolongs, Agree, Positions, IsMessage
<1>12. n \in ByHuman(g) /\ g[n].by = r
  BY <1>2, <1>6, <1>7 DEF ByHuman, Relayed, Of, Positions
<1> DEFINE p == StatusAt(h, Len(h))
<1>13. p \in Positions(h) /\ IsGate(h, p) /\ Gate(h) = h[p].ids
  BY <1>2, <1>9, GateNow DEF Awaits, Gate, StatusAt
<1>14. \A u \in h[p].ids : u \in Positions(h) /\ (ForHuman(g, u) => u \in P)
  <2>1. \A u \in h[p].ids : u \in Positions(h)
    BY <1>2, <1>13, GateNames
  <2>2. \A u \in h[p].ids : ForHuman(h, u) => u \in P
    BY <1>9, <1>13 DEF Awaits
  <2> HIDE DEF p
  <2> QED
    BY <1>11, <2>1, <2>2, ForHumanKept
<1>15. Spent(g, n)
  <2>1. Agree(h, g, Len(h)) /\ n - 1 = Len(h)
    BY <1>2, <1>7 DEF Agree
  <2>2. StatusAt(g, n - 1) = p /\ GatedAt(g, n - 1) /\ g[p] = h[p]
    BY <1>2, <1>7, <1>9, <1>13, <2>1, AgreeAt DEF Awaits, Positions
  <2> HIDE DEF p
  <2> QED
    BY <1>10, <1>14, <2>2 DEF Spent
<1>16. Opened(r, d'[r], g, n)
  BY <1>8, <1>12, <1>15 DEF Opened
<1>17. P \subseteq h[p].ids
  BY <1>9, <1>13 DEF Awaits
<1>18. \A u \in P : u \in Positions(g)
  BY <1>11, <1>14, <1>17 DEF Prolongs, Positions
<1>19. HasTurn(r, d'[r], g)
  BY <1>2, <1>7, <1>8, <1>10, <1>16, <1>18, TurnOpened
<1> QED
  BY <1>19 DEF g

\* What a poll that finds a gate, in the turn it tracks, makes of it: a listing that
\* lacks at most the last event shows the whole of the turn.
LEMMA GateAwaits ==
  ASSUME NEW r, NEW rec \in Request, NEW new, NEW h \in Seq(Event), WellFormed(h),
         HasTurn(r, rec, h), NEW k \in 0..Len(h), Len(h) - k <= 1,
         rec.anchor # NoAnchor => rec.anchor \in Positions(h) /\ IsMessage(h, rec.anchor),
         \A i \in Relayed(h) : h[i].by = r => Uses(h[i]) \subseteq rec.confirmed,
         GateRead(rec, new, h, CurrentTurn(h, k, rec.anchor))
  PROVE  /\ new.deferred # {} => Awaits(h, new.deferred)
         /\ \A a \in new.autos : /\ a[1] \notin new.deferred
                                 /\ a[1] \in Positions(h) /\ ~ForHuman(h, a[1])
<1> DEFINE turn == CurrentTurn(h, k, rec.anchor)
           gate == LastStatus(h, turn)
           ids  == gate.ids \ rec.confirmed
           at   == LastOf(h, turn, StatusTypes)
<1>1. /\ ids # {}
      /\ new.deferred = DecidedAs(h, turn, ids, "defer")
      /\ new.autos = (DecidedAs(h, turn, ids, "allow") \X {"allow"})
                       \union (DecidedAs(h, turn, ids, "deny") \X {"deny"})
  BY DEF GateRead
<1>2. Len(h) \in Nat /\ k \in Nat /\ rec.anchor \in Nat
  BY LenProperties DEF Request
<1>3. turn \in SUBSET (1..Len(h))
  BY <1>2, CurrentTurnIsSlice
<1>4. gate.at = at
  BY DEF LastStatus
<1>5. IsGate(h, at) /\ gate.ids = h[at].ids /\ at \in turn
  BY <1>1, <1>3, <1>4, LastStatusReads
<1>0. PICK from \in Nat : turn = (from + 1)..k
  <2>1. 1..k \in SUBSET (1..k)
    OBVIOUS
  <2>2. LastOf(h, 1..k, {"user.message"}) \in {0} \union Of(h, 1..k, {"user.message"})
    BY <1>2, <2>1, LastOfIsPosition
  <2>3. LastOf(h, 1..k, {"user.message"}) \in Nat
    BY <2>2 DEF Of
  <2> QED
    BY <1>2, <2>3 DEF CurrentTurn
<1>6. at \in Positions(h) /\ at <= k /\ turn # {}
  <2>1. at \in 1..Len(h)
    BY <1>3, <1>5
  <2>2. at \in (from + 1)..k
    BY <1>0, <1>5
  <2> HIDE DEF at, turn
  <2> QED
    BY <1>2, <1>5, <2>1, <2>2 DEF Positions
<1>7. PICK j \in Positions(h) :
        /\ Own(r, h, j) /\ Opened(r, rec, h, j)
        /\ \A u \in rec.confirmed :
             ForHuman(h, u) => rec.anchor = NoAnchor /\ u \in Uses(h[j])
  BY DEF HasTurn
<1>8. rec.anchor = NoAnchor => j \in ByHuman(h) /\ h[j].by = r /\ Spent(h, j)
  BY <1>7 DEF Opened
<1>9. j - 1 <= k /\ (rec.anchor # NoAnchor => j = rec.anchor /\ j < at)
  <2>1. rec.anchor # NoAnchor => j = rec.anchor /\ j < at
    BY <1>2, <1>3, <1>5, <1>7 DEF Opened, CurrentTurn, Positions
  <2> QED
    BY <1>2, <1>6, <1>7, <2>1 DEF Positions
<1>10. \A i \in Positions(h) : IsMessage(h, i) => i \in 1..k
  <2> SUFFICES ASSUME NEW i \in Positions(h), IsMessage(h, i)  PROVE i <= k
    BY <1>2 DEF Positions
  <2>1. i <= j
    BY <1>7 DEF Own
  <2>2. CASE rec.anchor # NoAnchor
    BY <1>2, <1>6, <1>7, <1>9, <2>1, <2>2 DEF Positions
  <2>3. CASE rec.anchor = NoAnchor
    <3>1. i # j
      BY <1>8, <2>3 DEF ByHuman, Relayed, Of, IsMessage
    <3> QED
      BY <1>2, <1>7, <1>9, <2>1, <3>1 DEF Positions
  <2> QED
    BY <2>2, <2>3
<1> HIDE DEF turn, gate, ids, at
<1>11. \A u \in h[at].ids : /\ u \in 1..(at - 1) /\ u \in Positions(h)
                           /\ h[u].type = "agent.tool_use" /\ ~ConfirmedAt(h, u, at - 1)
  BY <1>5, <1>6, GateNames
<1>12. ASSUME NEW u \in h[at].ids
       PROVE  ForHuman(h, u) <=> Resolve(ExtractTool(h, turn, u)) = "defer"
  <2>1. u \in Of(h, 1..k, {"agent.tool_use"}) /\ u \in Nat
    BY <1>2, <1>6, <1>11 DEF Of, Positions
  <2>2. u \in turn => ~Hidden(h, u)
    <3>1. rec.anchor # NoAnchor => \A i \in Positions(h) : IsMessage(h, i) => i <= rec.anchor
      BY <1>7, <1>9 DEF Own
    <3>2. u \in turn => \A i \in 1..k : IsMessage(h, i) => i < u
      BY <1>2, <3>1, InsideTurn DEF turn
    <3> QED
      BY <1>2, <1>10, <2>1, <3>2 DEF Hidden
  <2>3. u \notin turn => Hidden(h, u)
    <3>1. u \notin turn => \E i \in 1..k : u < i /\ IsMessage(h, i)
      BY <1>2, <1>6, <2>1, OutsideTurn DEF turn
    <3> QED
      BY <1>2, <3>1 DEF Hidden, Positions
  <2>4. ExtractTool(h, turn, u) = IF Hidden(h, u) THEN NoTool ELSE h[u].tool
    BY <1>11, <2>2, <2>3 DEF ExtractTool, Of
  <2> QED
    BY <2>4 DEF ForHuman
<1>13. ids = h[at].ids \ rec.confirmed
  BY <1>5 DEF ids
<1>14. \A u : u \in new.deferred <=> u \in h[at].ids /\ u \notin rec.confirmed /\ ForHuman(h, u)
  BY <1>1, <1>12, <1>13 DEF DecidedAs
<1>15. ASSUME NEW a \in new.autos
       PROVE  a[1] \notin new.deferred /\ a[1] \in Positions(h) /\ ~ForHuman(h, a[1])
  <2>1. a[1] \in ids /\ Resolve(ExtractTool(h, turn, a[1])) \in {"allow", "deny"}
    BY <1>1 DEF DecidedAs
  <2>2. a[1] \in h[at].ids
    BY <1>13, <2>1
  <2>3. ~ForHuman(h, a[1])
    BY <1>12, <2>1, <2>2
  <2> QED
    BY <1>11, <1>14, <2>2, <2>3
<1>16. ASSUME new.deferred # {}, at > j  PROVE Awaits(h, new.deferred)
  <2>1. ASSUME NEW u \in new.deferred, Confirmed(h, u)  PROVE FALSE
    <3>1. u \in h[at].ids /\ u \notin rec.confirmed
      BY <1>14
    <3>2. PICK i \in Relayed(h) : \E c \in h[i].decisions : c[1] = u
      BY <2>1 DEF Confirmed, Relayed, Positions
    <3>3. u \in Uses(h[i]) /\ i \in Positions(h)
      BY <3>2 DEF Uses, Relayed, Of
    <3>4. i > at - 1
      BY <1>2, <1>6, <1>11, <3>1, <3>2 DEF ConfirmedAt, Relayed, Of, Positions
    <3>5. h[i].by = r
      BY <1>2, <1>6, <1>7, <1>16, <3>3, <3>4 DEF Own, Positions
    <3> QED
      BY <3>1, <3>3, <3>5
  <2>2. \A u \in new.deferred : GatedAt(h, Len(h)) /\ u \in Gate(h) /\ Gate(h) \subseteq h[at].ids
    BY <1>5, <1>6, <1>14, <2>1, GateShrinks
  <2>3. ASSUME NEW u \in Gate(h), ForHuman(h, u)  PROVE u \in new.deferred
    <3>1. u \in h[at].ids
      BY <1>16, <2>2
    <3>2. ASSUME u \in rec.confirmed  PROVE FALSE
      <4>1. rec.anchor = NoAnchor /\ u \in Uses(h[j])
        BY <1>7, <2>3, <3>2
      <4>2. j \in Of(h, 1..(at - 1), {"user.tool_confirmation"})
        BY <1>2, <1>6, <1>7, <1>8, <1>16, <4>1 DEF ByHuman, Relayed, Of, Positions
      <4>3. ConfirmedAt(h, u, at - 1)
        BY <4>1, <4>2 DEF ConfirmedAt, Uses
      <4> QED
        BY <1>11, <3>1, <4>3
    <3> QED
      BY <1>14, <2>3, <3>1, <3>2
  <2> QED
    BY <1>16, <2>1, <2>2, <2>3 DEF Awaits
<1>17. ASSUME NEW u \in new.deferred, at <= j  PROVE FALSE
  <2>1. rec.anchor = NoAnchor /\ j \in ByHuman(h) /\ h[j].by = r /\ Spent(h, j)
    BY <1>2, <1>6, <1>7, <1>8, <1>9, <1>17 DEF Positions
  <2>2. at < j /\ at \in Nat \ {0} /\ j \in Nat /\ j - 1 \in Nat
    <3>1. at # j
      BY <1>5, <2>1 DEF IsGate, ByHuman, Relayed, Of
    <3> QED
      BY <1>2, <1>6, <1>7, <1>17, <3>1 DEF Positions
  <2>3. \A i \in (at + 1)..(j - 1) : h[i].type \notin StatusTypes
    <3> SUFFICES ASSUME NEW i \in (at + 1)..(j - 1), h[i].type \in StatusTypes  PROVE FALSE
      OBVIOUS
    <3>1. i \in turn
      <4>1. at \in (from + 1)..k
        BY <1>0, <1>5
      <4>2. i \in (from + 1)..k
        BY <1>2, <1>9, <2>2, <4>1
      <4> QED
        BY <1>0, <4>2
    <3>2. i \in Of(h, turn, StatusTypes) /\ Of(h, turn, StatusTypes) \in SUBSET (1..Len(h))
      BY <1>3, <3>1 DEF Of
    <3>3. i <= at
      BY <1>2, <3>2, LargestIsElement DEF at, LastOf
    <3> QED
      BY <2>2, <3>3
  <2>4. StatusAt(h, j - 1) = StatusAt(h, at)
    BY <2>2, <2>3, LastKept DEF StatusAt
  <2>5. StatusAt(h, at) = at
    BY <1>5, <2>2, LastStep DEF StatusAt, IsGate, StatusTypes
  <2>6. u \in Uses(h[j])
    BY <1>14, <1>17, <2>1, <2>4, <2>5 DEF Spent
  <2>7. Uses(h[j]) \subseteq rec.confirmed
    BY <2>1 DEF ByHuman
  <2> QED
    BY <1>14, <1>17, <2>6, <2>7
<1> QED
  BY <1>2, <1>6, <1>7, <1>15, <1>16, <1>17 DEF Positions

\* A poll remembers what the rules decide in it, and nothing else.
LEMMA InterpretConfirms ==
  ASSUME NEW rec \in Request, NEW h, NEW k
  PROVE  LET new == Interpret(rec, h, k) IN
         /\ new.pc \in {"auto", "park"} =>
              new.confirmed = rec.confirmed \union {a[1] : a \in new.autos}
         /\ new.pc = "poll" => new.confirmed = rec.confirmed
<1> DEFINE turn   == CurrentTurn(h, k, rec.anchor)
           status == LastStatus(h, turn)
           ids    == status.ids \ rec.confirmed
           new    == Interpret(rec, h, k)
           gated  == GateTools(rec, h, turn, ids, status.at)
<1>1. \/ \E state \in {"COMPLETED", "FAILED"} : new = Conclude(rec, state, status.at)
      \/ new = gated
      \/ new = NextPoll(rec)
  BY DEF Interpret
<1>2. NextPoll(rec).pc \in {"poll", "persist"} /\ NextPoll(rec).confirmed = rec.confirmed
  BY NextPollType DEF NextPoll, Request
<1>3. \A state \in {"COMPLETED", "FAILED"} : Conclude(rec, state, status.at).pc = "persist"
  BY DEF Conclude, Request
<1>4. /\ gated.pc \in {"auto", "park"}
      /\ gated.confirmed = rec.confirmed \union {a[1] : a \in gated.autos}
  BY DEF GateTools, Request
<1> HIDE DEF new, gated, ids, status, turn
<1>5. /\ new.pc \in {"auto", "park"} =>
           new.confirmed = rec.confirmed \union {a[1] : a \in new.autos}
      /\ new.pc = "poll" => new.confirmed = rec.confirmed
  BY <1>1, <1>2, <1>3, <1>4
<1> QED
  BY <1>5 DEF new

\* A turn that is confirming keeps being one when it confirms what is not the human's.
LEMMA TurnConfirms ==
  ASSUME NEW r, NEW old, NEW new, NEW h, HasTurn(r, old, h), new.anchor = old.anchor,
         \A u \in new.confirmed : \/ u \in old.confirmed
                                  \/ u \in Positions(h) /\ ~ForHuman(h, u)
  PROVE  HasTurn(r, new, h)
<1>1. PICK j \in Positions(h) :
        /\ Own(r, h, j) /\ Opened(r, old, h, j)
        /\ \A u \in old.confirmed :
             /\ u \in Positions(h)
             /\ ForHuman(h, u) => old.anchor = NoAnchor /\ u \in Uses(h[j])
  BY DEF HasTurn
<1>2. Opened(r, new, h, j)
  BY <1>1 DEF Opened
<1> QED
  BY <1>1, <1>2 DEF HasTurn

\* What there is to track of a request that works on its turn.
LEMMA TracksTurn ==
  ASSUME NEW r, NEW new, NEW h,
         new.pc \in {"clear", "poll", "auto", "park", "persist", "error"},
         new.pc \in Polling => HasTurn(r, new, h),
         new.pc = "persist" => new.outcome # "INPUT_REQUIRED",
         new.pc \in {"auto", "park"} /\ new.deferred # {} => Awaits(h, new.deferred),
         new.pc = "auto" => \A a \in new.autos : a[1] \notin new.deferred
  PROVE  Tracks(r, new, h)
<1>1. new.pc \notin Undecided
  BY DEF Undecided
<1>2. new.pc \in InSession /\ Asking(new) => new.pc \in {"auto", "park"}
  BY DEF Asking, Concluded, InSession
<1> QED
  BY <1>1, <1>2 DEF Tracks

\* What a poll decides by the rules, and what it leaves to the human.
LEMMA PollTracks ==
  ASSUME AskInv, QuestionInv, HistoriesFit, MaxLag <= 1, NEW r \in Requests, Poll(r)
  PROVE  UNCHANGED log /\ Tracks(r, d'[r], log[d[r].entry.session])
<1> DEFINE s   == d[r].entry.session
           h   == log[s]
           rec == d[r]
           new == d'[r]
<1>1. TypeInv /\ PostInv /\ Formed /\ rec.pc = "poll" /\ UNCHANGED log
  BY AskFacts DEF Poll, At, CallFails, agentVars
<1>2. /\ rec \in Request /\ h \in Seq(Event) /\ s \in Sessions /\ Len(h) \in Nat
      /\ WellFormed(h)
  BY <1>1, RequestFacts, LenProperties DEF InSession, HomeOf, Formed
<1>3. HasTurn(r, rec, h)
  BY <1>1 DEF QuestionInv, RequestTracks, Tracks, Polling
<1> SUFFICES Tracks(r, new, h)
  BY <1>1
<1>4. CASE Leave(r, "error")
  <2>1. new.pc = "error"
    BY <1>1, <1>2, <1>4 DEF Leave, TypeInv, TypeOK, Request
  <2> QED
    BY <1>1, <2>1 DEF Tracks, Undecided, Polling, InSession
<1>5. CASE ~Leave(r, "error")
  <2>1. PICK k \in VisiblePrefixes(h) : d' = [d EXCEPT ![r] = Interpret(rec, h, k)]
    BY <1>5 DEF Poll, CallFails
  <2>2. new = Interpret(rec, h, k)
    BY <1>1, <2>1 DEF TypeInv, TypeOK
  <2>3. k \in 0..Len(h) /\ Len(h) - k <= 1
    <3>1. Len(h) <= PageLimit
      BY <1>2 DEF HistoriesFit
    <3> QED
      BY <1>2, <2>1, <3>1, AgentAssumption DEF VisiblePrefixes
  <2>4. /\ new.anchor = rec.anchor
        /\ new.pc \in {"poll", "auto", "park", "persist"}
        /\ new.pc = "persist" => new.outcome # "INPUT_REQUIRED"
        /\ new.pc \in {"auto", "park"} =>
             /\ new.confirmed = rec.confirmed \union {a[1] : a \in new.autos}
             /\ GateRead(rec, new, h, CurrentTurn(h, k, rec.anchor))
        /\ new.pc = "poll" => new.confirmed = rec.confirmed
    BY <1>1, <1>2, <2>2, <2>3, InterpretAnchor, InterpretMoves, InterpretConfirms,
       InterpretGates
  <2> HIDE DEF new, rec
  <2>5. CASE new.pc = "persist"
    BY <2>4, <2>5, TracksTurn DEF Polling
  <2>6. CASE new.pc = "poll"
    <3>1. HasTurn(r, new, h)
      BY <1>3, <2>4, <2>6, TurnConfirms
    <3> QED
      BY <2>6, <3>1, TracksTurn
  <2>7. CASE new.pc \in {"auto", "park"}
    <3>1. rec.anchor # NoAnchor => rec.anchor \in Positions(h) /\ IsMessage(h, rec.anchor)
      BY DEF AskInv, ReadInv, RequestKnows, Knows, rec
    <3>2. ASSUME NEW i \in Relayed(h), h[i].by = r  PROVE Uses(h[i]) \subseteq rec.confirmed
      <4>1. i \in Positions(h) /\ h[i].type = "user.tool_confirmation"
        BY DEF Relayed, Of
      <4>2. ConfirmationOK(s, h[i])
        BY <1>1, <1>2, <4>1 DEF PostInv, PostsOK, PostOK, PostTypes
      <4> QED
        BY <1>1, <3>2, <4>2 DEF ConfirmationOK, Finished, rec
    <3> HIDE DEF h
    <3>3. /\ new.deferred # {} => Awaits(h, new.deferred)
          /\ \A a \in new.autos : /\ a[1] \notin new.deferred
                                  /\ a[1] \in Positions(h) /\ ~ForHuman(h, a[1])
      BY <1>2, <1>3, <2>3, <2>4, <2>7, <3>1, <3>2, GateAwaits
    <3>4. HasTurn(r, new, h)
      BY <1>3, <2>4, <2>7, <3>3, TurnConfirms
    <3> QED
      BY <2>7, <3>3, <3>4, TracksTurn
  <2> QED
    BY <1>1, <2>4, <2>5, <2>6, <2>7 DEF new
<1> QED
  BY <1>4, <1>5

\* Nor is there anything to track before a turn, but that nothing is confirmed, and after it.
LEMMA TracksApart ==
  ASSUME NEW r, NEW new, NEW h, new.pc \in Undecided \union Finished,
         new.pc \in Undecided => new.confirmed = {}
  PROVE  Tracks(r, new, h)
<1>1. new.pc \notin Polling /\ new.pc # "auto"
  BY DEF Undecided, Finished, Polling
<1>2. ~(new.pc \in InSession /\ Asking(new))
  BY DEF Undecided, Finished, Asking, Concluded, InSession
<1> QED
  BY <1>1, <1>2 DEF Tracks

\* The steps of a request before its decision or message are these.
LEMMA EarlyStep ==
  ASSUME NEW r \in Requests, Step(r), d[r].pc \in Undecided \ {"relay", "post"}
  PROVE  \/ LoadSession(r) \/ FindSession(r) \/ RebuildSession(r) \/ AdoptSession(r)
         \/ CreateSession(r) \/ RegisterSession(r) \/ Classify(r)
  BY DEF Undecided, Step, At, RelayDecision, ClearPending, SendMessage, Poll, RelayAutos,
     ParkDeferred, PersistTask, SaveSession, Respond

\* What a request tracks after its own step.
LEMMA StepTracks ==
  ASSUME AskInv, QuestionInv, TypeInv', Formed', Grows, Echoes, Lossless,
         HistoriesFit, MaxLag <= 1, NEW r \in Requests, Step(r)
  PROVE  RequestTracks(r)'
<1> DEFINE old == d[r]
           new == d'[r]
           s   == d[r].entry.session
           g   == log'[s]
<1>1. /\ TypeInv /\ GateInv /\ Tracks(r, old, log[s]) /\ old.entry \in Entry
      /\ Moves(old, new, store[old.ctx], store'[old.ctx])
  BY AskFacts, StepFacts DEF QuestionInv, RequestTracks
<1>2. CASE old.pc \in Undecided \ {"relay", "post"}
  <2>1. new.pc \in Undecided \union Finished
    BY <1>1, <1>2 DEF Moves, Opens, Resumes, Works, Ends, Fails, Branch, Undecided, Finished
  <2>2. new.confirmed = {}
    BY <1>1, <1>2, EarlyStep, EarlyRemembers DEF Tracks
  <2> QED
    BY <2>1, <2>2, TracksApart DEF RequestTracks
<1>3. CASE new.pc \in Finished
  <2>1. new.pc \notin Undecided
    BY <1>3 DEF Finished, Undecided
  <2> QED
    BY <1>3, <2>1, TracksApart DEF RequestTracks
<1>4. CASE old.pc \notin Undecided \ {"relay", "post"} /\ new.pc \notin Finished
  <2>1. new.entry.session = s
    <3>1. /\ [old.entry EXCEPT !.pending = {}].session = s
          /\ [old.entry EXCEPT !.pending = old.deferred].session = s
      BY <1>1 DEF Entry
    <3> QED
      BY <1>1, <1>4, <3>1 DEF Moves, Opens, Resumes, Works, Ends, Fails, Undecided, Finished
  <2> SUFFICES Tracks(r, new, g)
    BY <2>1 DEF RequestTracks
  <2>2. CASE old.pc = "post"
    <3>1. new.pc = "poll"
      BY <1>1, <1>4, <2>2 DEF Moves, Opens, Resumes, Works, Ends, Fails, Finished
    <3> QED
      BY <2>2, <3>1, SendTracks, TracksTurn
  <2>3. CASE old.pc = "relay"
    <3>1. new.pc = "clear"
      BY <1>1, <1>4, <2>3 DEF Moves, Opens, Resumes, Works, Ends, Fails, Finished
    <3> QED
      BY <2>3, <3>1, RelayTracks, TracksTurn
  <2>4. CASE old.pc = "poll"
    <3>1. UNCHANGED log /\ Tracks(r, new, log[s])
      BY <2>4, TurnStep, PollTracks
    <3> QED
      BY <3>1
  <2>5. CASE old.pc \in {"clear", "auto", "park", "persist", "save", "respond"}
    <3>1. /\ new.anchor = old.anchor /\ new.confirmed = old.confirmed
          /\ new.deferred = old.deferred /\ new.pc # "auto"
      BY <1>1, <1>4, <2>5, TurnStep, RestRemembers, RestKeeps
    <3>2. /\ new.pc \in {"poll", "park"} \union Concluded
          /\ new.pc = "poll" => old.pc \in {"clear", "auto"}
          /\ new.pc = "park" => old.pc = "auto"
          /\ new.pc \in Concluded /\ new.outcome = "INPUT_REQUIRED" =>
               \/ old.pc = "park"
               \/ old.pc \in Concluded /\ old.outcome = "INPUT_REQUIRED"
      BY <1>1, <1>4, <2>5, <3>1 DEF Moves, Opens, Resumes, Works, Ends, Fails, Concluded,
         Finished
    <3>3. Tracks(r, old, g)
      BY StillTracks
    <3> HIDE DEF new, old, g
    <3>4. new.pc \in Polling => old.pc \in Polling
      BY <3>2 DEF Polling, Concluded
    <3>5. Asking(new) => old.pc \in InSession /\ Asking(old)
      BY <3>2 DEF Asking, Concluded, InSession
    <3>6. new.pc \notin Undecided \union {"auto"}
      BY <3>2 DEF Undecided, Concluded
    <3> QED
      BY <3>1, <3>3, <3>4, <3>5, <3>6, TracksMoved
  <2>6. old.pc \in {"relay", "post", "poll", "clear", "auto", "park", "persist", "save", "respond"}
    BY <1>1, <1>4 DEF Moves, Opens, Resumes, Works, Ends, Fails, Undecided
  <2> QED
    BY <2>2, <2>3, <2>4, <2>5, <2>6
<1> QED
  BY <1>2, <1>3, <1>4

\* What a request tracks is true after every step.
LEMMA ArrivalConfirms ==
  ASSUME TypeInv, NEW q \in Requests, Environment, d[q].pc = "new", d'[q].pc = "load"
  PROVE  d'[q].confirmed = d[q].confirmed
<1>1. ASSUME NEW r \in Requests, NEW c \in Contexts, NEW t \in Tasks, NEW supplied \in BOOLEAN,
             Receive(r, c, t, supplied)
      PROVE  d'[q].confirmed = d[q].confirmed
  <2> DEFINE rec == [d[r] EXCEPT !.pc = "load", !.ctx = c, !.task = t, !.supplied = supplied]
  <2>1. rec.confirmed = d[r].confirmed
    BY RequestFacts DEF Request
  <2>2. d' = [d EXCEPT ![r] = rec]
    BY ZenonT(40), <1>1 DEF Receive
  <2> HIDE DEF rec
  <2> QED
    BY <2>1, <2>2 DEF TypeInv, TypeOK
<1>2. ASSUME NEW r \in Requests, Crash(r)  PROVE d'[q] = d[q] \/ d'[q].pc = "dropped"
  BY <1>2, LeaveMoves DEF Crash, Local
<1>3. UNCHANGED d => d'[q].confirmed = d[q].confirmed
  OBVIOUS
<1> QED
  BY <1>1, <1>2, <1>3 DEF Environment, ExpireSession, AgentStep, BreakAgent

\* Every step keeps what a request tracks.
LEMMA NextTracks ==
  ASSUME AskInv, QuestionInv, TypeInv', Formed', [Next]_vars, Echoes, Lossless,
         HistoriesFit, MaxLag <= 1, NEW q \in Requests
  PROVE  RequestTracks(q)'
<1>1. TypeInv /\ GateInv /\ Grows
  BY AskFacts, NextGrows
<1>2. CASE d'[q] = d[q]
  BY <1>1, <1>2, StillTracks DEF RequestTracks
<1>3. ASSUME NEW r \in Requests, Step(r)  PROVE RequestTracks(q)'
  <2>1. q # r => d'[q] = d[q]
    BY <1>1, <1>3, StepFacts
  <2> QED
    BY <1>1, <1>2, <1>3, <2>1, StepTracks
<1>4. CASE Environment
  <2>1. CASE d[q].pc = "new" /\ d'[q].pc = "load"
    <3>1. d'[q].confirmed = {}
      BY <1>1, <1>4, <2>1, ArrivalConfirms DEF QuestionInv, RequestTracks, Tracks, Undecided
    <3>2. d'[q].pc \in Undecided
      BY <2>1 DEF Undecided
    <3> QED
      BY <3>1, <3>2, TracksApart DEF RequestTracks
  <2> QED
    BY <1>1, <1>2, <1>4, <2>1, EnvironmentFacts
<1>5. UNCHANGED vars => d'[q] = d[q]
  BY DEF vars
<1> QED
  BY <1>2, <1>3, <1>4, <1>5 DEF Next

----------------------------------------------------------------------------
(* What happens to an open question. *)

\* A session waits for the human until the decision is relayed: no one else posts to it.
LEMMA QuestionKept ==
  ASSUME AskInv, QuestionInv, TypeInv', Formed', Grows,
         NEW c \in Contexts, OpenQuestion[c] # {},
         \A p \in Requests : d[p].ctx = c /\ d[p].pc = "relay" => d'[p].pc \in Undecided
  PROVE  Awaits(log'[store[c].session], OpenQuestion[c])
<1> DEFINE s == store[c].session
           h == log[s]
           g == log'[s]
           U == OpenQuestion[c]
<1>1. TypeInv /\ Formed /\ Awaits(h, U)
  BY AskFacts DEF QuestionInv
<1>2. ~Taken(c) /\ store[c].pending # {}
  BY DEF OpenQuestion
<1>3. HomeOf(s, c)
  BY <1>1, <1>2 DEF TypeInv, Housed, Cache!Present, Cache!NoEntry
<1>4. s \in Sessions
  BY <1>3 DEF HomeOf
<1>5. ASSUME NEW p \in Requests, d[p].entry.session = s, d[p].pc \in {"relay", "post", "auto"}
      PROVE  d'[p].pc \in Undecided
  <2>1. d[p].ctx = c
    BY <1>1, <1>3, <1>5, RequestFacts DEF HomeOf, InSession
  <2> QED
    BY <1>2, <1>5, <2>1 DEF Taken, PastDecision
<1>6. ASSUME NEW i \in Positions(g), g[i].type \in PostTypes  PROVE i \in Positions(h)
  BY <1>4, <1>5, <1>6 DEF Grows, PostedBy
<1>7. \A i \in Positions(h) : g[i] = h[i]
  BY <1>4 DEF Grows
<1>8. /\ h \in Seq(Event) /\ g \in Seq(Event) /\ WellFormed(h) /\ WellFormed(g)
      /\ Prolongs(h, g)
  BY <1>1, <1>4, LogProlongs DEF TypeInv, TypeOK, Formed
<1>9. \A i \in Positions(g) : IsMessage(g, i) => i \in Positions(h)
  BY <1>6 DEF IsMessage, PostTypes
<1>10. ASSUME NEW u \in U, Confirmed(g, u)  PROVE FALSE
  <2>1. PICK i \in Of(g, Positions(g), {"user.tool_confirmation"}) :
          \E e \in g[i].decisions : e[1] = u
    BY <1>10 DEF Confirmed, Positions
  <2>2. i \in Positions(h) /\ g[i] = h[i]
    BY <1>6, <1>7, <2>1 DEF Of, PostTypes
  <2>3. Confirmed(h, u)
    BY <2>1, <2>2 DEF Confirmed, Of, Positions
  <2> QED
    BY <1>1, <2>3 DEF Awaits
<1> HIDE DEF h, g, U
<1>11. Awaits(g, U)
  BY <1>1, <1>8, <1>9, <1>10, AwaitsKept DEF U
<1> QED
  BY <1>11 DEF g, U

\* What a step of r makes of the questions.
QuestionMoved(r) ==
  LET c == d[r].ctx IN
  /\ \A e \in Contexts \ {c} : OpenQuestion'[e] = OpenQuestion[e] /\ store'[e] = store[e]
  /\ \/ /\ d[r].pc = "relay" /\ d'[r].pc = "clear"
        /\ OpenQuestion[c] = d[r].entry.pending /\ OpenQuestion'[c] = {}
     \/ /\ d[r].pc = "respond" /\ d'[r].pc = "done" /\ d'[r].outcome = "INPUT_REQUIRED"
        /\ OpenQuestion[c] = {} /\ OpenQuestion'[c] = d'[r].deferred
        /\ d'[r].deferred # {} /\ store'[c].session = d[r].entry.session
     \/ /\ d[r].pc = "relay" => UNCHANGED log
        /\ ~(d'[r].pc = "done" /\ d'[r].outcome = "INPUT_REQUIRED")
        /\ OpenQuestion'[c] = OpenQuestion[c]
        /\ OpenQuestion'[c] # {} => store'[c].session = store[c].session

\* How the open question of a conversation moves with a step of its request.
LEMMA QuestionMoves ==
  ASSUME GateInv, Lossless, NEW r \in Requests, Step(r)
  PROVE  QuestionMoved(r)
<1> DEFINE c   == d[r].ctx
           old == d[r]
           new == d'[r]
           was == store[c]
           is  == store'[c]
           h   == log[d[r].entry.session]
<1>1. /\ OpenQuestion[c] = QuestionAt(old.pc, was)
      /\ OpenQuestion' = [OpenQuestion EXCEPT ![c] = QuestionAt(new.pc, is)]
  BY QuestionStep
<1>2. TypeInv /\ c \in Contexts /\ \A e \in Contexts \ {c} : store'[e] = store[e]
  BY StepFacts DEF GateInv, CacheInv
<1>3. /\ OpenQuestion'[c] = QuestionAt(new.pc, is)
      /\ \A e \in Contexts \ {c} : OpenQuestion'[e] = OpenQuestion[e]
  BY <1>1, <1>2 DEF OpenQuestion
<1>4. /\ InSync(old, was, h) /\ Moves(old, new, was, is) /\ was \in Entry
      /\ old.pc \notin {"rebuild", "adopt"} /\ (old.pc \in Cached => was = old.entry)
      /\ old.pc = "recover" => new.pc = "create"
      /\ old.entry \in Entry
  BY StepFacts
<1>5. old.pc = "relay" /\ new.pc = "error" => UNCHANGED log
  BY <1>2, RelayFails
<1> HIDE DEF c, old, new, was, is, h
<1>6. \/ /\ old.pc = "relay" /\ new.pc = "clear"
         /\ QuestionAt(old.pc, was) = old.entry.pending /\ old.entry.pending # {}
         /\ QuestionAt(new.pc, is) = {}
      \/ /\ old.pc = "respond" /\ new.pc = "done" /\ new.outcome = "INPUT_REQUIRED"
         /\ QuestionAt(old.pc, was) = {}
         /\ QuestionAt(new.pc, is) = new.deferred /\ new.deferred # {}
      \/ /\ old.pc = "relay" => new.pc = "error"
         /\ ~(new.pc = "done" /\ new.outcome = "INPUT_REQUIRED")
         /\ QuestionAt(new.pc, is) = QuestionAt(old.pc, was)
  BY <1>4, MoveQuestion
<1>7. \/ is.session = was.session /\ old.pc # "register"
      \/ old.pc = "register" /\ was = NoEntry /\ is = old.entry
  BY <1>4, MoveSession
<1>8. old.pc = "register" => QuestionAt(old.pc, was) = {}
  BY DEF QuestionAt, PastDecision
<1>9. old.pc = "respond" => is.session = old.entry.session
  BY <1>4, <1>7 DEF Cached
<1> QED
  BY <1>1, <1>2, <1>3, <1>5, <1>6, <1>7, <1>8, <1>9 DEF QuestionMoved, c, old, new, was, is

\* Each question that is open waits in its session.
LEMMA NextQuestion ==
  ASSUME AskInv, QuestionInv, TypeInv', Formed', [Next]_vars, Lossless
  PROVE  \A c \in Contexts :
           OpenQuestion'[c] # {} => Awaits(log'[store'[c].session], OpenQuestion'[c])
<1> SUFFICES ASSUME NEW c \in Contexts, OpenQuestion'[c] # {}
             PROVE  Awaits(log'[store'[c].session], OpenQuestion'[c])
  OBVIOUS
<1>1. TypeInv /\ GateInv /\ Grows
  BY AskFacts, NextGrows
<1>2. ASSUME OpenQuestion'[c] = OpenQuestion[c], store'[c].session = store[c].session,
             \A p \in Requests : d[p].ctx = c /\ d[p].pc = "relay" => d'[p].pc \in Undecided
      PROVE  Awaits(log'[store'[c].session], OpenQuestion'[c])
  BY <1>1, <1>2, QuestionKept
<1>3. ASSUME NEW r \in Requests, Step(r)
      PROVE  Awaits(log'[store'[c].session], OpenQuestion'[c])
  <2>1. QuestionMoved(r) /\ \A q \in Requests \ {r} : d'[q] = d[q]
    BY <1>1, <1>3, QuestionMoves, StepFacts
  <2>2. \A q \in Requests \ {r} : d[q].pc = "relay" => d'[q].pc \in Undecided
    BY <2>1 DEF Undecided
  <2>3. CASE c # d[r].ctx
    <3>1. OpenQuestion'[c] = OpenQuestion[c] /\ store'[c] = store[c]
      BY <2>1, <2>3 DEF QuestionMoved
    <3>2. \A p \in Requests : d[p].ctx = c /\ d[p].pc = "relay" => d'[p].pc \in Undecided
      BY <2>2, <2>3
    <3> QED
      BY <1>2, <3>1, <3>2
  <2>4. CASE c = d[r].ctx /\ d[r].pc = "respond" /\ d'[r].pc = "done"
             /\ d'[r].outcome = "INPUT_REQUIRED"
    <3>1. OpenQuestion'[c] = d'[r].deferred /\ store'[c].session = d[r].entry.session
      BY <2>1, <2>4 DEF QuestionMoved
    <3>2. d'[r].deferred = d[r].deferred /\ d'[r].outcome = d[r].outcome
      BY <1>1, <1>3, <2>4, StepFacts DEF Moves, Opens, Resumes, Works, Ends, Fails
    <3>3. Tracks(r, d[r], log'[d[r].entry.session])
      BY <1>1, StillTracks
    <3>4. Asking(d[r]) /\ d[r].pc \in InSession
      BY <2>4, <3>2 DEF Asking, Concluded, InSession
    <3> QED
      BY <3>1, <3>2, <3>3, <3>4 DEF Tracks
  <2>5. CASE c = d[r].ctx /\ ~(d[r].pc = "respond" /\ d'[r].pc = "done"
             /\ d'[r].outcome = "INPUT_REQUIRED")
    <3>1. /\ d[r].pc = "relay" => UNCHANGED log
          /\ OpenQuestion'[c] = OpenQuestion[c] /\ store'[c].session = store[c].session
      BY <2>1, <2>5 DEF QuestionMoved
    <3>2. CASE UNCHANGED log
      BY <3>1, <3>2 DEF QuestionInv
    <3>3. CASE d[r].pc # "relay"
      <4>1. \A p \in Requests : d[p].ctx = c /\ d[p].pc = "relay" => d'[p].pc \in Undecided
        BY <2>2, <3>3
      <4> QED
        BY <1>2, <3>1, <4>1
    <3> QED
      BY <3>1, <3>2, <3>3
  <2> QED
    BY <2>3, <2>4, <2>5
<1>4. CASE Environment \/ UNCHANGED vars
  <2>1. /\ UNCHANGED store
        /\ \A q \in Requests : d'[q] = d[q] \/ (d[q].pc = "new" /\ d'[q].pc = "load")
    BY <1>1, <1>4, EnvironmentFacts DEF vars
  <2>2. Taken(c)' <=> Taken(c)
    BY <2>1 DEF Taken, PastDecision
  <2>3. OpenQuestion'[c] = OpenQuestion[c]
    BY <2>1, <2>2 DEF OpenQuestion
  <2>4. \A p \in Requests : d[p].pc = "relay" => d'[p].pc \in Undecided
    BY <2>1 DEF Undecided
  <2> QED
    BY <1>2, <2>1, <2>3, <2>4
<1> QED
  BY <1>3, <1>4 DEF Next

\* What was put to a client stays accounted for, while it is decided and after.
LEMMA StillAnswered ==
  ASSUME AskInv, Answered, TypeInv', [Next]_vars, Lossless, NEW q \in Requests,
         d[q].pc = "done", d[q].outcome = "INPUT_REQUIRED",
         NEW u \in d[q].deferred
  PROVE  LET s == d[q].entry.session
             c == d[q].ctx
         IN  /\ HomeOf(s, c) /\ tag'[s] = c
             /\ u \in Decided(log'[s]) \union OpenQuestion'[c]
<1> DEFINE s == d[q].entry.session
           c == d[q].ctx
<1>1. TypeInv /\ GateInv /\ Grows
  BY AskFacts, NextGrows
<1>2. HomeOf(s, c) /\ u \in Decided(log[s]) \union OpenQuestion[c]
  BY DEF Answered
<1>3. s \in Sessions /\ tag[s] = c /\ c \in Contexts
  BY <1>1, <1>2, RequestFacts DEF HomeOf
<1>4. tag'[s] = c
  BY <1>1, <1>3, TagsKept, AgentAssumption
<1>5. Decided(log[s]) \subseteq Decided(log'[s])
  BY <1>1, <1>3, LogProlongs, DecidedGrows
<1>6. ASSUME OpenQuestion'[c] = OpenQuestion[c]
      PROVE  u \in Decided(log'[s]) \union OpenQuestion'[c]
  BY <1>2, <1>5, <1>6
<1>7. ASSUME NEW r \in Requests, Step(r)
      PROVE  u \in Decided(log'[s]) \union OpenQuestion'[c]
  <2>1. QuestionMoved(r)
    BY <1>1, <1>7, QuestionMoves
  <2>2. CASE c # d[r].ctx \/ OpenQuestion'[c] = OpenQuestion[c]
    BY <1>3, <1>6, <2>1, <2>2 DEF QuestionMoved
  <2>3. CASE c = d[r].ctx /\ OpenQuestion[c] = {}
    BY <1>2, <1>5, <2>3
  <2>4. CASE /\ c = d[r].ctx /\ d[r].pc = "relay" /\ d'[r].pc = "clear"
             /\ OpenQuestion[c] = d[r].entry.pending
    <3>1. "storage" \notin FaultKinds
      BY DEF Lossless
    <3>2. \A x \in d[r].entry.pending : x \in Decided(log'[d[r].entry.session])
      BY <1>1, <1>7, <2>4, <3>1, StepMoves, RelayConfirms
    <3>3. HomeOf(d[r].entry.session, c)
      BY <1>1, <2>4, RequestFacts DEF InSession
    <3>4. d[r].entry.session = s
      BY <1>1, <1>3, <3>3, OneHome, AgentAssumption DEF OneSessionPerContext, HomeOf
    <3> QED
      BY <1>2, <1>5, <2>4, <3>2, <3>4
  <2> QED
    BY <2>1, <2>2, <2>3, <2>4 DEF QuestionMoved
<1>8. ASSUME Environment \/ UNCHANGED vars  PROVE OpenQuestion'[c] = OpenQuestion[c]
  <2>1. /\ UNCHANGED store
        /\ \A p \in Requests : d'[p] = d[p] \/ (d[p].pc = "new" /\ d'[p].pc = "load")
    BY <1>1, <1>8, EnvironmentFacts DEF vars
  <2>2. Taken(c)' <=> Taken(c)
    BY <2>1 DEF Taken, PastDecision
  <2> QED
    BY <1>3, <2>1, <2>2 DEF OpenQuestion
<1> QED
  BY <1>2, <1>4, <1>6, <1>7, <1>8 DEF Next

\* No step loses a question: it stays open until a human has decided it.
LEMMA NextAnswered ==
  ASSUME AskInv, Answered, TypeInv', [Next]_vars, Lossless
  PROVE  Answered'
<1>1. TypeInv /\ GateInv /\ "storage" \notin FaultKinds
  BY AskFacts DEF Lossless
<1> SUFFICES ASSUME NEW q \in Requests, d'[q].pc = "done", d'[q].outcome = "INPUT_REQUIRED"
             PROVE  /\ d'[q].entry.session \in Sessions /\ tag'[d'[q].entry.session] = d'[q].ctx
                    /\ d'[q].deferred \subseteq
                         Decided(log'[d'[q].entry.session]) \union OpenQuestion'[d'[q].ctx]
  BY DEF Answered, HomeOf
<1>2. CASE d'[q] = d[q]
  <2>1. HomeOf(d[q].entry.session, d[q].ctx)
    BY <1>2 DEF Answered
  <2>2. tag'[d[q].entry.session] = d[q].ctx
    BY <1>1, <1>2, <2>1, RequestFacts, TagsKept, AgentAssumption DEF HomeOf
  <2>3. \A u \in d[q].deferred :
          u \in Decided(log'[d[q].entry.session]) \union OpenQuestion'[d[q].ctx]
    BY <1>2, StillAnswered
  <2> QED
    BY <1>2, <2>1, <2>2, <2>3 DEF HomeOf
<1>3. CASE d'[q] # d[q]
  <2>1. /\ d[q].pc = "respond" /\ d'[q].ctx = d[q].ctx /\ d'[q].entry = d[q].entry
        /\ d'[q].deferred = d[q].deferred
    BY <1>1, <1>3, DoneStep
  <2>2. Step(q)
    <3>1. ~(Environment \/ UNCHANGED vars)
      BY <1>1, <1>3, <2>1, EnvironmentFacts DEF vars
    <3>2. \A r \in Requests \ {q} : ~Step(r)
      BY <1>1, <1>3, StepFacts
    <3> QED
      BY <3>1, <3>2 DEF Next
  <2>3. OpenQuestion'[d[q].ctx] = d'[q].deferred
    BY <1>1, <2>1, <2>2, QuestionMoves DEF QuestionMoved
  <2>4. HomeOf(d[q].entry.session, d[q].ctx) /\ d[q].ctx \in Contexts
    BY <1>1, <2>1, RequestFacts DEF InSession
  <2>5. tag'[d[q].entry.session] = d[q].ctx
    BY <1>1, <2>4, TagsKept, AgentAssumption DEF HomeOf
  <2> QED
    BY <2>1, <2>3, <2>4, <2>5 DEF HomeOf
<1> QED
  BY <1>2, <1>3

\* A listing that fits on a page did so before.
LEMMA FitBefore ==
  ASSUME TypeInv, [Next]_vars, HistoriesFit'
  PROVE  HistoriesFit
<1>1. \A s \in Sessions : /\ Len(log[s]) \in Nat /\ Len(log[s]) <= Len(log'[s])
                          /\ Len(log'[s]) <= PageLimit
  BY NextGrows, LenProperties DEF Grows, HistoriesFit, TypeInv, TypeOK
<1> QED
  BY <1>1, AgentAssumption DEF HistoriesFit

\* Nothing has been asked at first.
LEMMA InitQuestion == Init => AskInv /\ Answered /\ QuestionInv
<1> SUFFICES ASSUME Init  PROVE AskInv /\ Answered /\ QuestionInv
  OBVIOUS
<1>1. AskInv
  BY InitDecisionInv, InitReadInv DEF AskInv
<1>2. Answered
  BY DEF Init, Fresh, Answered
<1>3. OpenQuestion = [c \in Contexts |-> {}]
  BY DEF Init, OpenQuestion, Cache!StoreInit, Cache!NoEntry
<1>4. ASSUME NEW r \in Requests  PROVE RequestTracks(r)
  <2>1. d[r].pc = "new" /\ d[r].confirmed = {}
    BY DEF Init, Fresh
  <2>2. d[r].pc \in Undecided
    BY <2>1 DEF Undecided
  <2> QED
    BY <2>1, <2>2, TracksApart DEF RequestTracks
<1> QED
  BY <1>1, <1>2, <1>3, <1>4 DEF QuestionInv

\* What the earlier modules prove stays true along with it.
LEMMA NextAskInv ==
  ASSUME ~Overlap, Lossless
  PROVE  AskInv /\ [Next]_vars => AskInv'
<1>1. GateInv /\ [Next]_vars => GateInv'
  BY NextGateInv
<1>2. DecisionInv /\ [Next]_vars => DecisionInv'
  BY <1>1, StepDecisionInv, EnvironmentDecisionInv DEF Next, DecisionInv
<1> QED
  BY <1>2, NextReadInv DEF AskInv

\* The three together are inductive.
LEMMA NextQuestionInv ==
  ASSUME ~Overlap, Lossless, Echoes, MaxLag <= 1
  PROVE  AskInv /\ Answered /\ (HistoriesFit => QuestionInv) /\ [Next]_vars =>
           (AskInv /\ Answered /\ (HistoriesFit => QuestionInv))'
<1> SUFFICES ASSUME AskInv, Answered, HistoriesFit => QuestionInv, [Next]_vars
             PROVE  AskInv' /\ Answered' /\ (HistoriesFit' => QuestionInv')
  OBVIOUS
<1>1. AskInv'
  BY NextAskInv
<1>2. TypeInv' /\ Formed' /\ TypeInv
  BY <1>1, AskFacts DEF AskInv, ReadInv
<1>3. Answered'
  BY <1>2, NextAnswered
<1>4. ASSUME HistoriesFit'  PROVE QuestionInv'
  <2>1. HistoriesFit /\ QuestionInv
    BY <1>2, <1>4, FitBefore
  <2>2. \A r \in Requests : RequestTracks(r)'
    BY <1>2, <2>1, NextTracks
  <2>3. \A c \in Contexts :
          OpenQuestion'[c] # {} => Awaits(log'[store'[c].session], OpenQuestion'[c])
    BY <1>2, <2>1, NextQuestion
  <2> QED
    BY <2>2, <2>3 DEF QuestionInv
<1> QED
  BY <1>1, <1>3, <1>4

\* What is open is what the cache holds, when no request is under way.
LEMMA CacheIsQuestion ==
  ASSUME AskInv, Answered, QuestionInv
  PROVE  CacheHoldsOpenQuestions
<1> SUFFICES ASSUME NEW c \in Contexts, Quiet(c), Cache!Present(c)
             PROVE  store[c].pending = Open(c)
  BY DEF CacheHoldsOpenQuestions
<1> DEFINE s == store[c].session
           h == log[s]
<1>1. TypeInv /\ GateInv
  BY AskFacts
<1>2. HomeOf(s, c)
  BY <1>1 DEF TypeInv, Housed
<1>3. ~Taken(c)
  BY DEF Quiet, Taken, Active, Finished, PastDecision
<1>4. OpenQuestion[c] = store[c].pending
  BY <1>3 DEF OpenQuestion
<1>5. ASSUME NEW u \in store[c].pending  PROVE u \in Open(c)
  <2>1. Awaits(h, store[c].pending) /\ Asks(d, s, store[c].pending)
    BY <1>4, <1>5 DEF QuestionInv, AskInv, DecisionInv, QuestionAsked
  <2>2. PICK q \in Requests : /\ d[q].pc = "done" /\ d[q].outcome = "INPUT_REQUIRED"
                              /\ d[q].entry.session = s /\ d[q].deferred = store[c].pending
    BY <2>1 DEF Asks
  <2>3. d[q].ctx = c
    BY <1>2, <2>2 DEF Answered, HomeOf
  <2>4. u \in Asked(c, s)
    BY <1>5, <2>2, <2>3 DEF Asked, At
  <2>5. u \notin Decided(h)
    <3>1. ~Confirmed(h, u)
      BY <1>5, <2>1 DEF Awaits
    <3> QED
      BY <3>1 DEF Decided, ByHuman, Relayed, Uses, Confirmed, Positions
  <2> QED
    BY <2>4, <2>5 DEF Open
<1>6. ASSUME NEW u \in Open(c)  PROVE u \in store[c].pending
  <2>1. u \in Asked(c, s) /\ u \notin Decided(h)
    BY <1>6 DEF Open
  <2>2. PICK q \in Requests : /\ d[q].pc = "done" /\ d[q].outcome = "INPUT_REQUIRED"
                              /\ d[q].ctx = c /\ d[q].entry.session = s /\ u \in d[q].deferred
    BY <2>1 DEF Asked, At
  <2> QED
    BY <1>4, <2>1, <2>2 DEF Answered
<1> QED
  BY <1>5, <1>6

\* Between requests the cache holds exactly the questions that were put to the client
\* and are not decided: no call is lost, the API echoes event ids, a listing lacks at
\* most the last event, and the histories fit on a page.
THEOREM CacheIsExact ==
  ASSUME ~Overlap, Lossless, Echoes, MaxLag <= 1
  PROVE  Spec => [](HistoriesFit => CacheHoldsOpenQuestions)
<1> DEFINE Inv == AskInv /\ Answered /\ (HistoriesFit => QuestionInv)
<1>1. Init => Inv
  BY InitQuestion
<1>2. Inv /\ [Next]_vars => Inv'
  BY NextQuestionInv
<1>3. Inv => (HistoriesFit => CacheHoldsOpenQuestions)
  BY CacheIsQuestion
<1> HIDE DEF Inv
<1> QED
  BY <1>1, <1>2, <1>3, PTL DEF Spec
=============================================================================
