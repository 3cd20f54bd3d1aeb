-------------------------- MODULE DispatcherProofs --------------------------
(***************************************************************************)
(* Theorems about Dispatcher: what holds for any number of requests,       *)
(* contexts, sessions and tools, any policy, any interleaving and any      *)
(* faults.  The first part is about types, the second about what the       *)
(* bridge posts.                                                           *)
(*                                                                         *)
(* The argument of the second part has two halves.  CarriesTo says what a  *)
(* request keeps from one step to the next, PostedBy what a step may add   *)
(* to a history.  Its invariants follow from these two alone.              *)
(***************************************************************************)
EXTENDS DispatcherProperties, WellFoundedInduction, SequenceTheorems, TLAPS

----------------------------------------------------------------------------
(* Lemmas about histories. *)

\* A non-empty set of naturals has a smallest element.
LEMMA SmallestExists ==
  ASSUME NEW S \in SUBSET Nat, S # {}
  PROVE  \E x \in S : \A y \in S : x <= y
<1> DEFINE R == {ss \in Nat \X Nat : ss[1] < ss[2]}
<1>1. IsWellFoundedOn(R, Nat)
  BY NatLessThanWellFounded DEF OpToRel
<1>2. PICK x \in S : \A y \in S : ~(<<y, x>> \in R)
  BY <1>1, WFMin
<1>3. ASSUME NEW y \in S, y < x  PROVE FALSE
  <2>1. <<y, x>> \in Nat \X Nat /\ <<y, x>>[1] < <<y, x>>[2]
    BY <1>3
  <2>2. <<y, x>> \in R
    BY <2>1
  <2> QED
    BY <1>2, <2>2
<1> QED
  BY <1>3

\* A non-empty set of positions has a largest element, and Largest picks it.
LEMMA LargestIsElement ==
  ASSUME NEW n \in Nat, NEW S \in SUBSET (1..n), S # {}
  PROVE  Largest(S) \in S /\ \A y \in S : y <= Largest(S)
<1> DEFINE T == {n - x : x \in S}
<1>1. T \in SUBSET Nat
  <2>1. \A x \in S : n - x \in Nat
    OBVIOUS
  <2> QED
    BY <2>1
<1>2. T # {}
  <2>1. PICK x \in S : TRUE
    OBVIOUS
  <2>2. n - x \in T
    BY <2>1
  <2> QED
    BY <2>2
<1>3. PICK t \in T : \A u \in T : t <= u
  BY <1>1, <1>2, SmallestExists
<1>4. PICK x \in S : t = n - x
  BY <1>3
<1>5. \A y \in S : n - x <= n - y
  BY <1>3, <1>4
<1>6. ASSUME NEW y \in S  PROVE y <= x
  <2>1. x \in Int /\ y \in Int /\ n - x <= n - y
    BY <1>5
  <2> QED
    BY <2>1
<1> QED
  BY <1>6 DEF Largest

\* LastOf answers 0 or the position of an event of the slice.
LEMMA LastOfIsPosition ==
  ASSUME NEW h, NEW n \in Nat, NEW slice \in SUBSET (1..n), NEW types
  PROVE  LastOf(h, slice, types) \in {0} \union Of(h, slice, types)
<1>1. Of(h, slice, types) \in SUBSET (1..n)
  BY DEF Of
<1> QED
  BY <1>1, LargestIsElement DEF LastOf

\* What LastStatus answers about a slice of a history.
LEMMA LastStatusType ==
  ASSUME NEW h \in Seq(Event), NEW slice \in SUBSET (1..Len(h))
  PROVE  /\ LastStatus(h, slice).at \in Nat
         /\ LastStatus(h, slice).ids \in SUBSET Nat
<1> DEFINE at == LastOf(h, slice, StatusTypes)
<1>0. Len(h) \in Nat
  BY LenProperties
<1>1. at \in {0} \union Of(h, slice, StatusTypes)
  BY <1>0, LastOfIsPosition
<1>2. at # 0 => at \in 1..Len(h) /\ at \in Nat
  <2>1. Of(h, slice, StatusTypes) \in SUBSET slice
    BY DEF Of
  <2>2. at # 0 => at \in slice
    BY <1>1, <2>1
  <2>3. slice \in SUBSET (1..Len(h))
    OBVIOUS
  <2>4. 1..Len(h) \in SUBSET Nat
    BY <1>0
  <2> QED
    BY <2>2, <2>3, <2>4
<1>3. LastStatus(h, slice).at = at
  BY DEF LastStatus
<1>4. LastStatus(h, slice).ids \in {{}, h[at].ids}
  BY DEF LastStatus
<1>5. CASE at # 0 /\ h[at].type = "session.status_idle"
  <2>1. h[at] \in Event
    BY <1>1, <1>2, <1>5, ElementOfSeq
  <2>2. h[at].ids \in SUBSET Nat
    BY <1>5, <2>1 DEF Event
  <2> QED
    BY <1>1, <1>2, <1>3, <1>4, <2>2
<1>6. CASE ~(at # 0 /\ h[at].type = "session.status_idle")
  <2>1. LastStatus(h, slice).ids = {}
    <3>1. CASE at = 0
      BY <3>1 DEF LastStatus
    <3>2. CASE at # 0
      <4>1. h[at].type \in StatusTypes \ {"session.status_idle"}
        BY <1>1, <1>6, <3>2 DEF Of
      <4> QED
        BY <3>2, <4>1 DEF LastStatus, StatusTypes
    <3> QED
      BY <3>1, <3>2
  <2> QED
    BY <1>1, <1>2, <1>3, <2>1
<1> QED
  BY <1>5, <1>6

\* A turn is a slice of the list it is cut from.
LEMMA CurrentTurnIsSlice ==
  ASSUME NEW h, NEW n \in Nat, NEW k \in 0..n, NEW anchor \in Nat
  PROVE  CurrentTurn(h, k, anchor) \in SUBSET (1..n)
<1> DEFINE opening == LastOf(h, 1..k, {"user.message"})
<1>1. opening \in {0} \union Of(h, 1..k, {"user.message"})
  <2>1. k \in Nat /\ 1..k \in SUBSET (1..k)
    OBVIOUS
  <2> QED
    BY <2>1, LastOfIsPosition
<1>2. opening \in Nat
  BY <1>1 DEF Of
<1> QED
  BY <1>2 DEF CurrentTurn

\* A history stays one when an event is appended, and keeps what it had.
LEMMA AppendKeeps ==
  ASSUME NEW h \in Seq(Event), NEW e \in Event
  PROVE  /\ Append(h, e) \in Seq(Event)
         /\ Len(Append(h, e)) = Len(h) + 1
         /\ \A i \in 1..Len(h) : Append(h, e)[i] = h[i]
         /\ Append(h, e)[Len(h) + 1] = e
  BY AppendProperties

\* The same for an append to the history of one session.
LEMMA Append1Type ==
  ASSUME log \in [Sessions -> Seq(Event)], NEW s \in Sessions, NEW e \in Event,
         Append1(s, e)
  PROVE  log' \in [Sessions -> Seq(Event)]
  BY AppendKeeps DEF Append1

----------------------------------------------------------------------------
(* Types, and the sessions that entries name. *)

\* The steps at which a request has a session.
InSession == {"rebuild", "adopt", "register", "classify", "relay", "clear", "post",
              "poll", "auto", "park", "persist", "save", "respond"}

\* A session that belongs to the context.
HomeOf(s, c) == s \in Sessions /\ tag[s] = c

RequestHoused(rec) ==
  /\ rec.pc # "new" => rec.ctx \in Contexts
  /\ rec.pc \in InSession => HomeOf(rec.entry.session, rec.ctx)

\* The cache and the requests name sessions of their own context only.
Housed ==
  /\ \A c \in Contexts : Cache!Present(c) => HomeOf(store[c].session, c)
  /\ \A r \in Requests : RequestHoused(d[r])

TypeInv == TypeOK /\ Housed

LEMMA InitTypeInv == Init => TypeInv
<1> SUFFICES ASSUME Init PROVE TypeInv
  OBVIOUS
<1> USE DEF Init, AgentInit, Cache!StoreInit, Cache!NoEntry
<1>1. Fresh \in Request
  BY DispatcherAssumption DEF Fresh, Request, PCs, Entry, Answers, TaskStates, NoAnchor,
     NoSession, Cache!NoEntry
<1>2. TypeOK
  BY <1>1 DEF TypeOK, Entry, NoSession, TaskStates
<1>3. Housed
  BY DEF Housed, Cache!Present, RequestHoused, InSession, Fresh
<1> QED
  BY <1>2, <1>3 DEF TypeInv

\* A step that replaces one request and leaves tags and cache alone.
LEMMA RequestStep ==
  ASSUME TypeInv, NEW r \in Requests, NEW rec \in Request, RequestHoused(rec),
         d' = [d EXCEPT ![r] = rec], UNCHANGED <<tag, store, taskDb>>,
         log' \in [Sessions -> Seq(Event)], faults' \in Nat
  PROVE  TypeInv'
<1>1. TypeOK'
  BY DEF TypeInv, TypeOK
<1>2. Housed'
  BY DEF TypeInv, TypeOK, Housed, RequestHoused, HomeOf, Cache!Present
<1> QED
  BY <1>1, <1>2 DEF TypeInv

\* The calls of a request that fail, or are refused.
LEMMA FailureType ==
  ASSUME TypeInv, NEW r \in Requests, d[r].pc # "new", CallFails(r) \/ Rejected(r)
  PROVE  TypeInv'
<1> DEFINE rec == [d[r] EXCEPT !.pc = "error", !.supplied = FALSE, !.confirmed = {},
                               !.anchor = NoAnchor, !.polls = 0, !.autos = {}, !.read = 0]
<1>1. d[r] \in Request /\ RequestHoused(d[r])
  BY DEF TypeInv, TypeOK, Housed
<1>2. rec \in Request
  BY <1>1 DEF Request, PCs, NoAnchor
<1>3. d' = [d EXCEPT ![r] = rec] /\ UNCHANGED <<tag, log, store, taskDb>>
  BY DEF CallFails, Rejected, Leave, agentVars
<1>4. faults' \in Nat
  BY DEF CallFails, Rejected, Fault, TypeInv, TypeOK
<1>5. RequestHoused(rec)
  BY <1>1 DEF RequestHoused, InSession, Request
<1> QED
  BY <1>2, <1>3, <1>4, <1>5, RequestStep DEF TypeInv, TypeOK

\* What is posted for a request becomes part of the history.
LEMMA DecisionsTyped ==
  ASSUME TypeInv, NEW r \in Requests, HomeOf(d[r].entry.session, d[r].ctx),
         NEW decisions \in SUBSET (Nat \X {"allow", "deny"}), NEW who \in {"rule", "human"},
         PostConfirmations(r, decisions, who)
  PROVE  log' \in [Sessions -> Seq(Event)]
<1>1. Confirmations(decisions, r, who) \in Event
  BY DEF Confirmations, Event
<1> QED
  BY <1>1, Append1Type DEF PostConfirmations, HomeOf, TypeInv, TypeOK

\* A request that leaves, after a step that may have posted something.
LEMMA LeaveType ==
  ASSUME TypeInv, NEW r \in Requests, NEW pc \in Finished, Leave(r, pc),
         d[r].pc # "new", UNCHANGED <<tag, store, taskDb>>,
         log' \in [Sessions -> Seq(Event)], faults' \in Nat
  PROVE  TypeInv'
<1> DEFINE rec == [d[r] EXCEPT !.pc = pc, !.supplied = FALSE, !.confirmed = {},
                               !.anchor = NoAnchor, !.polls = 0, !.autos = {}, !.read = 0]
<1>1. d[r] \in Request /\ RequestHoused(d[r])
  BY DEF TypeInv, TypeOK, Housed
<1>2. rec \in Request
  BY <1>1 DEF Request, PCs, NoAnchor, Finished
<1>3. RequestHoused(rec)
  BY <1>1 DEF RequestHoused, InSession, Request, Finished
<1> QED
  BY <1>2, <1>3, RequestStep DEF Leave

\* The end of an iteration keeps the type of the request.
LEMMA NextPollType ==
  ASSUME NEW rec \in Request
  PROVE  /\ NextPoll(rec) \in Request
         /\ NextPoll(rec).pc \in {"poll", "persist"}
         /\ NextPoll(rec).ctx = rec.ctx
         /\ NextPoll(rec).entry = rec.entry
<1>1. CASE rec.polls > 1
  <2>1. rec.polls - 1 \in Nat
    BY <1>1 DEF Request
  <2> QED
    BY <1>1, <2>1 DEF NextPoll, Request, PCs
<1>2. CASE ~(rec.polls > 1)
  <2>1. NextPoll(rec) = [rec EXCEPT !.polls = 0, !.pc = "persist", !.outcome = "WORKING"]
    BY <1>2 DEF NextPoll
  <2>2. "persist" \in PCs /\ "WORKING" \in TaskStates /\ 0 \in Nat
    BY DEF PCs, TaskStates
  <2>3. NextPoll(rec) \in Request
    BY <2>1, <2>2 DEF Request
  <2> QED
    BY <2>1, <2>3 DEF Request
<1> QED
  BY <1>1, <1>2

\* So does the handling of a gate.
LEMMA GateToolsType ==
  ASSUME NEW rec \in Request, NEW h, NEW turn, NEW ids \in SUBSET Nat, NEW at \in Nat
  PROVE  /\ GateTools(rec, h, turn, ids, at) \in Request
         /\ GateTools(rec, h, turn, ids, at).pc \in {"auto", "park"}
         /\ GateTools(rec, h, turn, ids, at).ctx = rec.ctx
         /\ GateTools(rec, h, turn, ids, at).entry = rec.entry
<1> DEFINE autos == (DecidedAs(h, turn, ids, "allow") \X {"allow"})
                      \union (DecidedAs(h, turn, ids, "deny") \X {"deny"})
           deferred == DecidedAs(h, turn, ids, "defer")
           confirmed == rec.confirmed \union {a[1] : a \in autos}
           pc == IF autos # {} THEN "auto" ELSE "park"
<1>1. \A action : DecidedAs(h, turn, ids, action) \in SUBSET Nat
  BY DEF DecidedAs
<1>2. autos \in SUBSET (Nat \X {"allow", "deny"}) /\ deferred \in SUBSET Nat
  BY <1>1
<1>3. confirmed \in SUBSET Nat
  <2>1. \A a \in autos : a[1] \in Nat
    BY <1>2
  <2> HIDE DEF autos
  <2> QED
    BY <2>1 DEF Request
<1>4. pc \in {"auto", "park"}
  OBVIOUS
<1>5. GateTools(rec, h, turn, ids, at) =
        [rec EXCEPT !.autos = autos, !.deferred = deferred, !.read = at,
                    !.confirmed = confirmed, !.pc = pc]
  BY DEF GateTools
<1> HIDE DEF autos, deferred, confirmed, pc
<1>6. pc \in PCs
  BY <1>4 DEF PCs
<1>7. GateTools(rec, h, turn, ids, at) \in Request
  BY ZenonT(40), <1>2, <1>3, <1>5, <1>6 DEF Request
<1> QED
  BY <1>4, <1>5, <1>7 DEF Request

\* A listing of the events takes a request from a poll to a typed one.
LEMMA InterpretType ==
  ASSUME NEW rec \in Request, NEW h \in Seq(Event), NEW k \in 0..Len(h)
  PROVE  /\ Interpret(rec, h, k) \in Request
         /\ Interpret(rec, h, k).pc \in {"poll", "auto", "park", "persist"}
         /\ Interpret(rec, h, k).ctx = rec.ctx
         /\ Interpret(rec, h, k).entry = rec.entry
<1> DEFINE turn   == CurrentTurn(h, k, rec.anchor)
           status == LastStatus(h, turn)
           ids    == status.ids \ rec.confirmed
<1>1. turn \in SUBSET (1..Len(h))
  BY CurrentTurnIsSlice, LenProperties DEF Request
<1>2. status.at \in Nat /\ ids \in SUBSET Nat
  BY <1>1, LastStatusType
<1>3. ASSUME NEW state \in TaskStates
      PROVE  /\ Conclude(rec, state, status.at) \in Request
             /\ Conclude(rec, state, status.at).pc = "persist"
             /\ Conclude(rec, state, status.at).ctx = rec.ctx
             /\ Conclude(rec, state, status.at).entry = rec.entry
  BY <1>2 DEF Conclude, Request, PCs
<1> HIDE DEF turn, ids, status
<1>6. Interpret(rec, h, k) \in
        {Conclude(rec, "COMPLETED", status.at), Conclude(rec, "FAILED", status.at),
         GateTools(rec, h, turn, ids, status.at), NextPoll(rec)}
  BY DEF Interpret, turn, ids, status
<1> QED
  BY <1>2, <1>3, <1>6, NextPollType, GateToolsType DEF TaskStates

\* A step that replaces one request and may write the cache entry of its context.
LEMMA StoreStep ==
  ASSUME TypeInv, NEW r \in Requests, NEW rec \in Request, RequestHoused(rec),
         d' = [d EXCEPT ![r] = rec], UNCHANGED agentVars,
         NEW c \in Contexts, NEW e \in Entry, HomeOf(e.session, c),
         store' \in {store, [store EXCEPT ![c] = e]},
         taskDb' \in [Tasks -> TaskStates], faults' \in Nat
  PROVE  TypeInv'
<1>1. TypeOK'
  BY DEF TypeInv, TypeOK, agentVars
<1>2. Housed'
  BY DEF TypeInv, TypeOK, Housed, RequestHoused, HomeOf, Cache!Present, agentVars
<1> QED
  BY <1>1, <1>2 DEF TypeInv

\* Faults keep their type.
LEMMA FaultType ==
  ASSUME TypeInv, NEW kind, Fault(kind) \/ NoFault
  PROVE  faults' \in Nat
  BY DEF Fault, NoFault, TypeInv, TypeOK

LEMMA StorageType ==
  ASSUME TypeInv, NEW failed \in BOOLEAN, Storage(failed)
  PROVE  faults' \in Nat
  BY FaultType DEF Storage

\* What a request at pc knows of itself.
LEMMA RequestFacts ==
  ASSUME TypeInv, NEW r \in Requests
  PROVE  /\ d[r] \in Request
         /\ d[r].pc # "new" => d[r].ctx \in Contexts
         /\ d[r].pc \in InSession => HomeOf(d[r].entry.session, d[r].ctx)
         /\ d[r].entry \in Entry
         /\ log \in [Sessions -> Seq(Event)]
         /\ d[r].pc \in InSession => log[d[r].entry.session] \in Seq(Event)
  BY DEF TypeInv, TypeOK, Housed, RequestHoused, Request, HomeOf

\* Receiving and loading.
LEMMA ArrivalType ==
  ASSUME TypeInv, NEW r \in Requests,
         \/ \E c \in Contexts, t \in Tasks, supplied \in BOOLEAN : Receive(r, c, t, supplied)
         \/ LoadSession(r)
  PROVE  TypeInv'
<1> USE RequestFacts
<1>1. ASSUME NEW c \in Contexts, NEW t \in Tasks, NEW supplied \in BOOLEAN,
             Receive(r, c, t, supplied)
      PROVE  TypeInv'
  <2> DEFINE rec == [d[r] EXCEPT !.pc = "load", !.ctx = c, !.task = t, !.supplied = supplied]
  <2>1. "load" \in PCs \ InSession
    BY DEF PCs, InSession
  <2>2. rec \in Request /\ rec.pc = "load" /\ rec.ctx = c
    BY ZenonT(40), <2>1 DEF Request
  <2>3. RequestHoused(rec)
    BY <2>1, <2>2 DEF RequestHoused
  <2>4. d' = [d EXCEPT ![r] = rec]
    BY <1>1 DEF Receive
  <2>5. UNCHANGED <<tag, log, store, taskDb, faults>>
    BY <1>1 DEF Receive, agentVars
  <2> QED
    BY <2>2, <2>3, <2>4, <2>5, RequestStep DEF TypeInv, TypeOK
<1>2. CASE LoadSession(r)
  <2>1. PICK failed \in BOOLEAN :
          LET e == Cache!Load(d[r].ctx, failed) IN
          /\ Storage(failed)
          /\ d' = [d EXCEPT
               ![r].entry = e,
               ![r].pc = IF e # Cache!NoEntry THEN Branch(e)
                         ELSE IF RecoveryEnabled /\ d[r].supplied THEN "recover"
                         ELSE "create"]
    BY <1>2 DEF LoadSession
  <2> DEFINE c  == d[r].ctx
             e  == Cache!Load(c, failed)
             pc == IF e # Cache!NoEntry THEN Branch(e)
                   ELSE IF RecoveryEnabled /\ d[r].supplied THEN "recover" ELSE "create"
             rec == [d[r] EXCEPT !.entry = e, !.pc = pc]
  <2>2. d[r].pc = "load" /\ UNCHANGED <<tag, log, store, taskDb>>
    BY <1>2 DEF LoadSession, At, agentVars
  <2>3. c \in Contexts
    BY <2>2
  <2>4. e \in Entry
    BY <2>3 DEF Cache!Load, Cache!NoEntry, Entry, NoSession, TypeInv, TypeOK
  <2>5. pc \in PCs /\ (pc \in InSession => e # Cache!NoEntry)
    BY DEF Branch, PCs, InSession
  <2>6. e # Cache!NoEntry => HomeOf(e.session, c)
    BY <2>3 DEF Cache!Load, Cache!Present, TypeInv, Housed
  <2>7. d' = [d EXCEPT ![r] = rec]
    BY <2>1
  <2>8. faults' \in Nat
    BY <2>1, StorageType
  <2> HIDE DEF e, pc
  <2>9. rec \in Request
    BY ZenonT(40), <2>4, <2>5 DEF Request
  <2>10. RequestHoused(rec)
    <3>1. rec.pc = pc /\ rec.ctx = c /\ rec.entry = e
      BY DEF Request
    <3> QED
      BY <2>3, <2>5, <2>6, <3>1 DEF RequestHoused
  <2> QED
    BY <2>2, <2>7, <2>8, <2>9, <2>10, RequestStep DEF TypeInv, TypeOK
<1> QED
  BY <1>1, <1>2

\* A request that keeps its context and session stays housed.
LEMMA StaysHoused ==
  ASSUME TypeInv, NEW r \in Requests, d[r].pc \in InSession, NEW rec \in Request,
         rec.ctx = d[r].ctx, rec.entry.session = d[r].entry.session
  PROVE  RequestHoused(rec)
<1>1. "new" \notin InSession
  BY DEF InSession
<1> QED
  BY <1>1, RequestFacts DEF RequestHoused

\* A request that only moves on.
LEMMA GoType ==
  ASSUME TypeInv, NEW r \in Requests, d[r].pc # "new", NEW pc \in PCs, Go(r, pc),
         pc \in InSession => d[r].pc \in InSession
  PROVE  LET rec == [d[r] EXCEPT !.pc = pc] IN
         rec \in Request /\ RequestHoused(rec) /\ d' = [d EXCEPT ![r] = rec]
<1> DEFINE rec == [d[r] EXCEPT !.pc = pc]
<1>1. rec \in Request /\ rec.pc = pc /\ rec.ctx = d[r].ctx /\ rec.entry = d[r].entry
  BY RequestFacts DEF Request
<1>2. d' = [d EXCEPT ![r] = rec]
  BY DEF Go
<1>3. RequestHoused(rec)
  BY <1>1, RequestFacts DEF RequestHoused
<1> QED
  BY <1>1, <1>2, <1>3

\* recover_session finds a session of the context.
LEMMA RecoverableIsHome ==
  ASSUME TypeInv, NEW c \in Contexts, Recoverable(c) # {}
  PROVE  HomeOf(Largest(Recoverable(c)), c)
<1>1. Recoverable(c) \in SUBSET (1..MaxSessions) /\ MaxSessions \in Nat
  BY AgentAssumption DEF Recoverable, Sessions
<1>2. Largest(Recoverable(c)) \in Recoverable(c)
  BY <1>1, LargestIsElement
<1> QED
  BY <1>2 DEF Recoverable, HomeOf

\* Recovery: find, rebuild, adopt.
LEMMA RecoveryType ==
  ASSUME TypeInv, NEW r \in Requests,
         FindSession(r) \/ RebuildSession(r) \/ AdoptSession(r)
  PROVE  TypeInv'
<1> USE RequestFacts
<1>0. /\ {"recover", "rebuild", "adopt", "create", "classify", "post"} \in SUBSET PCs
      /\ {"rebuild", "adopt", "classify", "post"} \in SUBSET InSession
      /\ {"create", "recover"} \intersect InSession = {}
  BY DEF PCs, InSession
<1>1. CASE FindSession(r)
  <2>1. d[r].pc = "recover" /\ UNCHANGED <<tag, log, store, taskDb>>
    BY <1>1 DEF FindSession, At, agentVars
  <2>2. d[r].ctx \in Contexts
    BY <2>1
  <2>3. faults' \in Nat
    BY <1>1, FaultType DEF FindSession
  <2>4. CASE /\ Recoverable(d[r].ctx) # {}
             /\ d' = [d EXCEPT ![r].pc = "rebuild",
                               ![r].entry.session = Largest(Recoverable(d[r].ctx))]
    <3> DEFINE s   == Largest(Recoverable(d[r].ctx))
               e   == [d[r].entry EXCEPT !.session = s]
               rec == [d[r] EXCEPT !.pc = "rebuild", !.entry = e]
    <3>1. HomeOf(s, d[r].ctx)
      BY <2>2, <2>4, RecoverableIsHome
    <3> HIDE DEF s
    <3>2. e \in Entry /\ e.session = s
      BY <3>1 DEF Entry, HomeOf
    <3>3. d' = [d EXCEPT ![r] = rec]
      BY <2>4 DEF s
    <3> HIDE DEF e
    <3>4. rec \in Request /\ rec.pc = "rebuild" /\ rec.ctx = d[r].ctx /\ rec.entry = e
      BY ZenonT(40), <1>0, <3>2 DEF Request
    <3>5. RequestHoused(rec)
      BY <2>2, <3>1, <3>2, <3>4 DEF RequestHoused
    <3> QED
      BY <2>1, <2>3, <3>3, <3>4, <3>5, RequestStep DEF TypeInv, TypeOK
  <2>5. CASE Go(r, "create")
    BY <1>0, <2>1, <2>3, <2>5, GoType, RequestStep DEF TypeInv, TypeOK
  <2> QED
    BY <1>1, <2>4, <2>5 DEF FindSession
<1>2. CASE RebuildSession(r)
  <2> DEFINE h == log[d[r].entry.session]
  <2>1. d[r].pc = "rebuild" /\ UNCHANGED <<tag, log, store, taskDb>>
    BY <1>2 DEF RebuildSession, At, agentVars
  <2>2. faults' \in Nat
    BY <1>2, FaultType DEF RebuildSession
  <2>3. h \in Seq(Event) /\ HomeOf(d[r].entry.session, d[r].ctx)
    BY <1>0, <2>1
  <2>4. ASSUME NEW k \in VisiblePrefixes(h),
               d' = [d EXCEPT ![r].pc = "adopt",
                    ![r].entry.pending =
                       DecidedAs(h, 1..k, LastStatus(h, 1..k).ids, "defer")]
        PROVE  TypeInv'
    <3> DEFINE pending == DecidedAs(h, 1..k, LastStatus(h, 1..k).ids, "defer")
               e   == [d[r].entry EXCEPT !.pending = pending]
               rec == [d[r] EXCEPT !.pc = "adopt", !.entry = e]
    <3>1. Len(h) \in Nat
      BY <2>3, LenProperties
    <3>2. 1..k \in SUBSET (1..Len(h))
      BY <3>1 DEF VisiblePrefixes
    <3>3. pending \in SUBSET Nat
      BY <2>3, <3>2, LastStatusType DEF DecidedAs
    <3>4. d' = [d EXCEPT ![r] = rec]
      BY <2>4
    <3> HIDE DEF pending, h
    <3>5. e \in Entry /\ e.session = d[r].entry.session
      BY <3>3 DEF Entry
    <3> HIDE DEF e
    <3>6. rec \in Request /\ rec.ctx = d[r].ctx /\ rec.entry = e
      BY ZenonT(40), <1>0, <3>5 DEF Request
    <3>7. RequestHoused(rec)
      BY <1>0, <2>1, <3>5, <3>6, StaysHoused
    <3> QED
      BY <2>1, <2>2, <3>4, <3>6, <3>7, RequestStep DEF TypeInv, TypeOK
  <2>5. CASE d' = [d EXCEPT ![r].pc = "create", ![r].entry = Cache!NoEntry]
    <3> DEFINE rec == [d[r] EXCEPT !.pc = "create", !.entry = Cache!NoEntry]
    <3>1. Cache!NoEntry \in Entry
      BY DEF Cache!NoEntry, Entry, NoSession
    <3>2. rec \in Request /\ rec.pc = "create" /\ rec.ctx = d[r].ctx
      BY ZenonT(40), <1>0, <3>1 DEF Request
    <3>3. RequestHoused(rec)
      BY <1>0, <2>1, <3>2 DEF RequestHoused
    <3>4. d' = [d EXCEPT ![r] = rec]
      BY <2>5
    <3> QED
      BY <2>1, <2>2, <3>2, <3>3, <3>4, RequestStep DEF TypeInv, TypeOK
  <2> QED
    BY <1>2, <2>4, <2>5 DEF RebuildSession
<1>3. CASE AdoptSession(r)
  <2>1. d[r].pc = "adopt" /\ UNCHANGED <<tag, log, taskDb>>
    BY <1>3 DEF AdoptSession, At, agentVars
  <2>2. PICK failed \in BOOLEAN :
          Storage(failed) /\ Cache!Save(d[r].ctx, d[r].entry, failed)
    BY <1>3 DEF AdoptSession
  <2>3. faults' \in Nat
    BY <2>2, StorageType
  <2>4. store' \in {store, [store EXCEPT ![d[r].ctx] = d[r].entry]}
    BY <2>2 DEF Cache!Save
  <2>5. Branch(d[r].entry) \in PCs /\ Go(r, Branch(d[r].entry))
    BY <1>0, <1>3 DEF Branch, AdoptSession
  <2>6. HomeOf(d[r].entry.session, d[r].ctx) /\ d[r].ctx \in Contexts
    BY <1>0, <2>1
  <2>7. taskDb' \in [Tasks -> TaskStates]
    BY <2>1 DEF TypeInv, TypeOK
  <2> QED
    BY ZenonT(40), <1>0, <2>1, <2>3, <2>4, <2>5, <2>6, <2>7, GoType, StoreStep DEF agentVars
<1> QED
  BY <1>1, <1>2, <1>3

\* Creating and registering a session.
LEMMA CreationType ==
  ASSUME TypeInv, NEW r \in Requests, CreateSession(r) \/ RegisterSession(r)
  PROVE  TypeInv'
<1> USE RequestFacts
<1>0. /\ {"create", "register", "post", "error"} \in SUBSET PCs
      /\ {"register", "post"} \in SUBSET InSession
      /\ {"create", "error"} \intersect InSession = {}
  BY DEF PCs, InSession
<1>1. ASSUME At(r, "create"), NEW s \in Sessions, tag[s] = NoContext,
             tag' = [tag EXCEPT ![s] = d[r].ctx],
             Posted(r, [d[r] EXCEPT !.pc = "register",
                                    !.entry = [session |-> s, pending |-> {}]]),
             UNCHANGED <<log, store, taskDb>>
      PROVE  TypeInv'
  <2>1. d[r].ctx \in Contexts
    BY <1>1 DEF At
  <2>2. PICK rec \in Request :
             /\ d' = [d EXCEPT ![r] = rec] /\ rec.ctx = d[r].ctx
             /\ rec.pc \in {"register", "error"}
             /\ rec.pc = "register" => rec.entry.session = s
    <3>1. CASE Leave(r, "error")
      <4> DEFINE rec == [d[r] EXCEPT !.pc = "error", !.supplied = FALSE, !.confirmed = {},
                               !.anchor = NoAnchor, !.polls = 0, !.autos = {}, !.read = 0]
      <4>1. rec \in Request /\ rec.ctx = d[r].ctx /\ rec.pc = "error"
        BY ZenonT(40), <1>0 DEF Request, NoAnchor
      <4> QED
        BY <3>1, <4>1 DEF Leave
    <3>2. CASE ~Leave(r, "error")
      <4> DEFINE e == [session |-> s, pending |-> {}]
                 rec == [d[r] EXCEPT !.pc = "register", !.entry = e]
      <4>1. e \in Entry /\ e.session = s
        BY DEF Entry
      <4>2. d' = [d EXCEPT ![r] = rec]
        BY <1>1, <3>2 DEF Posted
      <4> HIDE DEF e
      <4>3. rec \in Request /\ rec.ctx = d[r].ctx /\ rec.pc = "register" /\ rec.entry = e
        BY ZenonT(40), <1>0, <4>1 DEF Request
      <4> QED
        BY <4>1, <4>2, <4>3
    <3> QED
      BY <3>1, <3>2
  <2>3. faults' \in Nat
    BY <1>1, FaultType DEF Posted
  <2>4. TypeOK'
    BY <1>1, <2>1, <2>2, <2>3 DEF TypeInv, TypeOK
  <2>5. \A q, c : c \in Contexts /\ HomeOf(q, c) => HomeOf(q, c)'
    BY <1>1, AgentAssumption DEF HomeOf, TypeInv, TypeOK
  <2>6. RequestHoused(d[r])'
    <3>1. d'[r] = rec
      BY <2>2 DEF TypeInv, TypeOK
    <3>2. HomeOf(s, rec.ctx)'
      BY <1>1, <2>1, <2>2 DEF HomeOf, TypeInv, TypeOK
    <3> QED
      BY <1>0, <2>1, <2>2, <3>1, <3>2 DEF RequestHoused, HomeOf
  <2>7. \A q \in Requests : RequestHoused(d[q])'
    <3>1. ASSUME NEW q \in Requests, q # r  PROVE RequestHoused(d[q])'
      <4>1. d'[q] = d[q] /\ RequestHoused(d[q])
        BY <2>2, <3>1 DEF TypeInv, TypeOK, Housed
      <4>2. "new" \notin InSession
        BY DEF InSession
      <4> QED
        BY <2>5, <4>1, <4>2 DEF RequestHoused, HomeOf
    <3> QED
      BY <2>6, <3>1
  <2>8. \A c \in Contexts : Cache!Present(c)' => HomeOf(store[c].session, c)'
    BY <1>1, <2>5 DEF TypeInv, Housed, Cache!Present, HomeOf
  <2> QED
    BY <2>4, <2>7, <2>8 DEF TypeInv, Housed
<1>2. CASE At(r, "create") /\ CallFails(r)
  BY <1>2, FailureType DEF At
<1>3. CASE RegisterSession(r)
  <2>1. d[r].pc = "register" /\ UNCHANGED <<tag, log, taskDb>> /\ Go(r, "post")
    BY <1>3 DEF RegisterSession, At, agentVars
  <2>2. PICK failed \in BOOLEAN :
          Storage(failed) /\ Cache!Create(d[r].ctx, d[r].entry, failed)
    BY <1>3 DEF RegisterSession
  <2>3. faults' \in Nat
    BY <2>2, StorageType
  <2>4. store' \in {store, [store EXCEPT ![d[r].ctx] = d[r].entry]}
    BY <2>2 DEF Cache!Create
  <2>5. HomeOf(d[r].entry.session, d[r].ctx) /\ d[r].ctx \in Contexts
    BY <1>0, <2>1
  <2>6. taskDb' \in [Tasks -> TaskStates]
    BY <2>1 DEF TypeInv, TypeOK
  <2> QED
    BY <1>0, <2>1, <2>3, <2>4, <2>5, <2>6, GoType, StoreStep DEF agentVars
<1> QED
  BY <1>1, <1>2, <1>3 DEF CreateSession

\* A POST that takes effect, answered or not.
LEMMA PostedType ==
  ASSUME TypeInv, NEW r \in Requests, d[r].pc # "new",
         NEW answered \in Request, RequestHoused(answered), Posted(r, answered),
         UNCHANGED <<tag, store, taskDb>>, log' \in [Sessions -> Seq(Event)]
  PROVE  TypeInv'
<1>1. faults' \in Nat
  BY FaultType DEF Posted
<1>2. CASE Leave(r, "error")
  BY <1>1, <1>2, LeaveType DEF Finished
<1>3. CASE d' = [d EXCEPT ![r] = answered]
  BY <1>1, <1>3, RequestStep
<1> QED
  BY <1>2, <1>3 DEF Posted

\* Classifying, relaying and clearing.
LEMMA ResumeType ==
  ASSUME TypeInv, NEW r \in Requests,
         Classify(r) \/ RelayDecision(r) \/ ClearPending(r)
  PROVE  TypeInv'
<1> USE RequestFacts
<1>0. /\ {"classify", "relay", "clear", "poll"} \in SUBSET PCs
      /\ {"classify", "relay", "clear", "poll"} \in SUBSET InSession
      /\ "new" \notin InSession
  BY DEF PCs, InSession
<1>1. CASE Classify(r)
  <2>1. d[r].pc = "classify" /\ UNCHANGED <<tag, log, store, taskDb>>
    BY <1>1 DEF Classify, At, agentVars
  <2>2. PICK answer \in {"approve", "deny", "none"} :
          /\ Fault("error") \/ Fault("timeout") \/ NoFault
          /\ d' = [d EXCEPT ![r].answer = answer, ![r].pc = "relay"]
    BY <1>1 DEF Classify
  <2> DEFINE rec == [d[r] EXCEPT !.answer = answer, !.pc = "relay"]
  <2>3. faults' \in Nat
    BY <2>2, FaultType
  <2>4. answer \in Answers
    BY DEF Answers
  <2>5. rec \in Request /\ rec.ctx = d[r].ctx /\ rec.entry = d[r].entry
    BY ZenonT(40), <1>0, <2>4 DEF Request
  <2>6. RequestHoused(rec)
    BY <1>0, <2>1, <2>5, StaysHoused
  <2>7. d' = [d EXCEPT ![r] = rec]
    BY <2>2
  <2> QED
    BY <2>1, <2>3, <2>5, <2>6, <2>7, RequestStep DEF TypeInv, TypeOK
<1>2. CASE RelayDecision(r)
  <2> DEFINE pending   == d[r].entry.pending
             decisions == pending \X {Decision(d[r].answer)}
             rec == [d[r] EXCEPT !.pc = "clear", !.confirmed = @ \union pending]
  <2>1. d[r].pc = "relay"
    BY <1>2 DEF RelayDecision, At
  <2>2. CASE CallFails(r) \/ Rejected(r)
    BY <2>1, <2>2, FailureType
  <2>3. CASE /\ PostConfirmations(r, decisions, "human")
             /\ Posted(r, rec)
             /\ UNCHANGED <<tag, store, taskDb>>
    <3>1. pending \in SUBSET Nat
      BY DEF Entry
    <3>2. decisions \in SUBSET (Nat \X {"allow", "deny"})
      BY <3>1 DEF Decision
    <3>3. log' \in [Sessions -> Seq(Event)]
      BY <1>0, <2>1, <2>3, <3>2, DecisionsTyped
    <3> HIDE DEF pending
    <3>4. rec \in Request /\ rec.ctx = d[r].ctx /\ rec.entry = d[r].entry
      BY ZenonT(40), <1>0, <3>1 DEF Request
    <3>5. RequestHoused(rec)
      BY <1>0, <2>1, <3>4, StaysHoused
    <3> QED
      BY <2>1, <2>3, <3>3, <3>4, <3>5, PostedType
  <2> QED
    BY <1>2, <2>2, <2>3 DEF RelayDecision
<1>3. CASE ClearPending(r)
  <2> DEFINE e   == [d[r].entry EXCEPT !.pending = {}]
             rec == [d[r] EXCEPT !.entry = e, !.pc = "poll", !.polls = Polls]
  <2>1. d[r].pc = "clear" /\ UNCHANGED <<tag, log, taskDb>>
    BY <1>3 DEF ClearPending, At, agentVars
  <2>2. PICK failed \in BOOLEAN : Storage(failed) /\ Cache!Save(d[r].ctx, e, failed)
    BY <1>3 DEF ClearPending
  <2>3. faults' \in Nat
    BY <2>2, StorageType
  <2>4. store' \in {store, [store EXCEPT ![d[r].ctx] = e]}
    BY <2>2 DEF Cache!Save
  <2>5. d' = [d EXCEPT ![r] = rec]
    BY <1>3 DEF ClearPending
  <2>6. e \in Entry /\ e.session = d[r].entry.session
    BY DEF Entry
  <2>7. Polls \in Nat
    BY DispatcherAssumption DEF Polls
  <2> HIDE DEF e
  <2>8. rec \in Request /\ rec.ctx = d[r].ctx /\ rec.entry = e
    BY ZenonT(40), <1>0, <2>6, <2>7 DEF Request
  <2>9. RequestHoused(rec)
    BY <1>0, <2>1, <2>6, <2>8, StaysHoused
  <2>10. HomeOf(e.session, d[r].ctx) /\ d[r].ctx \in Contexts
    BY <1>0, <2>1, <2>6
  <2>11. taskDb' \in [Tasks -> TaskStates]
    BY <2>1 DEF TypeInv, TypeOK
  <2> QED
    BY <2>1, <2>3, <2>4, <2>5, <2>6, <2>8, <2>9, <2>10, <2>11, StoreStep DEF agentVars
<1> QED
  BY <1>1, <1>2, <1>3

\* Posting the message, polling, and relaying what the rules decide.
LEMMA TurnType ==
  ASSUME TypeInv, NEW r \in Requests,
         SendMessage(r) \/ Poll(r) \/ RelayAutos(r)
  PROVE  TypeInv'
<1> USE RequestFacts
<1>0. /\ {"post", "poll", "auto", "park", "persist"} \in SUBSET PCs
      /\ {"post", "poll", "auto", "park", "persist"} \in SUBSET InSession
      /\ "new" \notin InSession
  BY DEF PCs, InSession
<1>1. CASE SendMessage(r)
  <2> DEFINE s      == d[r].entry.session
             anchor == IF Echoes THEN Len(log[s]) + 1 ELSE NoAnchor
             rec    == [d[r] EXCEPT !.pc = "poll", !.polls = Polls, !.anchor = anchor]
  <2>1. d[r].pc = "post"
    BY <1>1 DEF SendMessage, At
  <2>2. CASE CallFails(r) \/ Rejected(r)
    BY <2>1, <2>2, FailureType
  <2>3. CASE /\ Append1(s, UserMessage(r))
             /\ Posted(r, rec)
             /\ UNCHANGED <<tag, store, taskDb>>
    <3>1. UserMessage(r) \in Event
      BY DEF UserMessage, Event
    <3>2. log' \in [Sessions -> Seq(Event)]
      BY <1>0, <2>1, <2>3, <3>1, Append1Type DEF HomeOf
    <3>3. Polls \in Nat
      BY DispatcherAssumption DEF Polls
    <3>4. anchor \in Nat
      BY <1>0, <2>1, LenProperties DEF NoAnchor
    <3> HIDE DEF anchor
    <3>5. rec \in Request /\ rec.ctx = d[r].ctx /\ rec.entry = d[r].entry
      BY ZenonT(40), <1>0, <3>3, <3>4 DEF Request
    <3>6. RequestHoused(rec)
      BY <1>0, <2>1, <3>5, StaysHoused
    <3> QED
      BY <2>1, <2>3, <3>2, <3>5, <3>6, PostedType
  <2> QED
    BY <1>1, <2>2, <2>3 DEF SendMessage
<1>2. CASE Poll(r)
  <2> DEFINE h == log[d[r].entry.session]
  <2>1. d[r].pc = "poll"
    BY <1>2 DEF Poll, At
  <2>2. CASE CallFails(r)
    BY <2>1, <2>2, FailureType
  <2>3. ASSUME NEW k \in VisiblePrefixes(h), NoFault,
               d' = [d EXCEPT ![r] = Interpret(d[r], h, k)],
               UNCHANGED <<agentVars, store, taskDb>>
        PROVE  TypeInv'
    <3> DEFINE rec == Interpret(d[r], h, k)
    <3>1. h \in Seq(Event) /\ k \in 0..Len(h)
      BY <1>0, <2>1 DEF VisiblePrefixes
    <3>2. rec \in Request /\ rec.ctx = d[r].ctx /\ rec.entry = d[r].entry
      BY <3>1, InterpretType
    <3>3. RequestHoused(rec)
      BY <1>0, <2>1, <3>2, StaysHoused
    <3>4. faults' \in Nat
      BY <2>3, FaultType
    <3> HIDE DEF rec
    <3>5. d' = [d EXCEPT ![r] = rec] /\ UNCHANGED <<tag, log, store, taskDb>>
      BY <2>3 DEF rec, agentVars
    <3> QED
      BY <3>2, <3>3, <3>4, <3>5, RequestStep DEF TypeInv, TypeOK
  <2> QED
    BY <1>2, <2>2, <2>3 DEF Poll
<1>3. CASE RelayAutos(r)
  <2> DEFINE some == [d[r] EXCEPT !.autos = {}]
             rec  == IF some.deferred # {} THEN [some EXCEPT !.pc = "park"]
                                           ELSE NextPoll(some)
  <2>1. d[r].pc = "auto"
    BY <1>3 DEF RelayAutos, At
  <2>2. CASE CallFails(r) \/ Rejected(r)
    BY <2>1, <2>2, FailureType
  <2>3. CASE /\ PostConfirmations(r, d[r].autos, "rule")
             /\ Posted(r, rec)
             /\ UNCHANGED <<tag, store, taskDb>>
    <3>1. d[r].autos \in SUBSET (Nat \X {"allow", "deny"})
      BY DEF Request
    <3>2. log' \in [Sessions -> Seq(Event)]
      BY <1>0, <2>1, <2>3, <3>1, DecisionsTyped
    <3>3. some \in Request /\ some.ctx = d[r].ctx /\ some.entry = d[r].entry
      BY DEF Request
    <3> HIDE DEF some
    <3>4. rec \in Request /\ rec.ctx = d[r].ctx /\ rec.entry = d[r].entry
      <4>1. CASE some.deferred # {}
        BY <1>0, <3>3, <4>1 DEF Request
      <4>2. CASE some.deferred = {}
        BY <3>3, <4>2, NextPollType
      <4> QED
        BY <4>1, <4>2
    <3>5. RequestHoused(rec)
      BY <1>0, <2>1, <3>4, StaysHoused
    <3> QED
      BY <2>1, <2>3, <3>2, <3>4, <3>5, PostedType
  <2> QED
    BY <1>3, <2>2, <2>3 DEF RelayAutos
<1> QED
  BY <1>1, <1>2, <1>3

\* Parking, persisting, saving and responding.
LEMMA EndType ==
  ASSUME TypeInv, NEW r \in Requests,
         ParkDeferred(r) \/ PersistTask(r) \/ SaveSession(r) \/ Respond(r)
  PROVE  TypeInv'
<1> USE RequestFacts
<1>0. /\ {"park", "persist", "save", "respond"} \in SUBSET PCs
      /\ {"park", "persist", "save", "respond"} \in SUBSET InSession
      /\ "new" \notin InSession
  BY DEF PCs, InSession
<1>1. CASE ParkDeferred(r)
  <2> DEFINE e   == [d[r].entry EXCEPT !.pending = d[r].deferred]
             rec == [d[r] EXCEPT !.entry = e, !.outcome = "INPUT_REQUIRED",
                                 !.pc = "persist"]
  <2>1. d[r].pc = "park" /\ UNCHANGED <<tag, log, taskDb>>
    BY <1>1 DEF ParkDeferred, At, agentVars
  <2>2. PICK failed \in BOOLEAN : Storage(failed) /\ Cache!Save(d[r].ctx, e, failed)
    BY <1>1 DEF ParkDeferred
  <2>3. faults' \in Nat
    BY <2>2, StorageType
  <2>4. store' \in {store, [store EXCEPT ![d[r].ctx] = e]}
    BY <2>2 DEF Cache!Save
  <2>5. d' = [d EXCEPT ![r] = rec]
    BY <1>1 DEF ParkDeferred
  <2>6. e \in Entry /\ e.session = d[r].entry.session
    BY DEF Entry, Request
  <2>7. "INPUT_REQUIRED" \in TaskStates
    BY DEF TaskStates
  <2> HIDE DEF e
  <2>8. rec \in Request /\ rec.ctx = d[r].ctx /\ rec.entry = e
    BY ZenonT(40), <1>0, <2>6, <2>7 DEF Request
  <2>9. RequestHoused(rec)
    BY <1>0, <2>1, <2>6, <2>8, StaysHoused
  <2>10. HomeOf(e.session, d[r].ctx) /\ d[r].ctx \in Contexts
    BY <1>0, <2>1, <2>6
  <2>11. taskDb' \in [Tasks -> TaskStates]
    BY <2>1 DEF TypeInv, TypeOK
  <2> QED
    BY <2>1, <2>3, <2>4, <2>5, <2>6, <2>8, <2>9, <2>10, <2>11, StoreStep DEF agentVars
<1>2. ASSUME NEW pc \in {"save", "respond"}, NEW failed \in BOOLEAN,
             d[r].pc \in InSession, Go(r, pc), Storage(failed), UNCHANGED agentVars,
             store' \in {store, [store EXCEPT ![d[r].ctx] = d[r].entry]},
             taskDb' \in [Tasks -> TaskStates]
      PROVE  TypeInv'
  <2>1. faults' \in Nat
    BY <1>2, StorageType
  <2>2. HomeOf(d[r].entry.session, d[r].ctx) /\ d[r].ctx \in Contexts
    BY <1>0, <1>2
  <2> QED
    BY ZenonT(40), <1>0, <1>2, <2>1, <2>2, GoType, StoreStep
<1>3. CASE PersistTask(r)
  <2>1. PICK failed \in BOOLEAN :
          /\ Storage(failed)
          /\ taskDb' = IF failed THEN taskDb ELSE [taskDb EXCEPT ![d[r].task] = d[r].outcome]
    BY <1>3 DEF PersistTask
  <2>2. taskDb' \in [Tasks -> TaskStates]
    BY <2>1 DEF TypeInv, TypeOK, Request
  <2>3. d[r].pc \in InSession /\ Go(r, "save") /\ UNCHANGED agentVars /\ store' = store
    BY <1>0, <1>3 DEF PersistTask, At
  <2> QED
    BY <1>2, <2>1, <2>2, <2>3
<1>4. CASE SaveSession(r)
  <2>1. PICK failed \in BOOLEAN :
          Storage(failed) /\ Cache!Save(d[r].ctx, d[r].entry, failed)
    BY <1>4 DEF SaveSession
  <2>2. store' \in {store, [store EXCEPT ![d[r].ctx] = d[r].entry]}
    BY <2>1 DEF Cache!Save
  <2>3. /\ d[r].pc \in InSession /\ Go(r, "respond") /\ UNCHANGED agentVars
        /\ taskDb' \in [Tasks -> TaskStates]
    BY <1>0, <1>4 DEF SaveSession, At, TypeInv, TypeOK
  <2> QED
    BY <1>2, <2>1, <2>2, <2>3
<1>5. CASE Respond(r)
  <2>1. d[r].pc # "new" /\ Leave(r, "done") /\ UNCHANGED <<tag, log, store, taskDb, faults>>
    BY <1>5 DEF Respond, At, agentVars
  <2> QED
    BY <2>1, LeaveType DEF Finished, TypeInv, TypeOK
<1> QED
  BY <1>1, <1>3, <1>4, <1>5

\* What the agents do on their own adds events to a history.
LEMMA AgentType ==
  ASSUME TypeInv, NEW s \in Sessions, AgentStep(s) \/ BreakAgent(s)
  PROVE  TypeInv'
<1> DEFINE h == log[s]
<1>1. h \in Seq(Event) /\ Len(h) \in Nat
  BY LenProperties DEF TypeInv, TypeOK
<1>2. \A types : Of(h, 1..Len(h), types) \in SUBSET Nat
  BY <1>1 DEF Of
<1>3. ASSUME NEW e \in Event, Append1(s, e)  PROVE log' \in [Sessions -> Seq(Event)]
  BY <1>3, Append1Type DEF TypeInv, TypeOK
<1>4. Serving(h) \in Nat
  <2> DEFINE at == LastOf(h, 1..Len(h), {"session.status_running"})
  <2>1. at \in {0} \union Of(h, 1..Len(h), {"session.status_running"})
    BY <1>1, LastOfIsPosition
  <2>2. CASE at = 0
    BY <2>2 DEF Serving
  <2>3. CASE at # 0
    <3>1. at \in 1..Len(h) /\ h[at].type = "session.status_running"
      BY <2>1, <2>3 DEF Of
    <3>2. h[at] \in Event
      BY <1>1, <3>1, ElementOfSeq
    <3>3. h[at].serves \in Nat
      BY <3>1, <3>2 DEF Event
    <3> QED
      BY <2>3, <3>3 DEF Serving
  <2> QED
    BY <2>2, <2>3
<1>5. Unconfirmed(h) \in SUBSET Nat
  BY <1>2 DEF Unconfirmed
<1>6. \A m \in Nat : RunningOn(m) \in Event
  BY DEF RunningOn, Event
<1>7. \A ids \in SUBSET Nat : IdleOn(ids) \in Event
  BY DEF IdleOn, Event
<1>8. {AgentMessage, EndTurn, SessionError, Terminated} \in SUBSET Event
  BY DEF AgentMessage, EndTurn, SessionError, Terminated, Event
<1>9. log' \in [Sessions -> Seq(Event)]
  <2>1. CASE StartTurn(s)
    <3>1. Waiting(h) \in SUBSET Nat /\ Waiting(h) # {}
      BY <1>2, <2>1 DEF Waiting, StartTurn
    <3>2. (CHOOSE m \in Waiting(h) : \A n \in Waiting(h) : m <= n) \in Nat
      BY <3>1, SmallestExists
    <3> QED
      BY <1>3, <1>6, <2>1, <3>2 DEF StartTurn
  <2>2. CASE RequireAction(s)
    BY <1>3, <1>5, <1>7, <2>2 DEF RequireAction
  <2>3. CASE AnnounceRest(s)
    <3>1. Gate(h) \intersect Unconfirmed(h) \in SUBSET Nat
      BY <1>5
    <3> QED
      BY <1>3, <1>7, <2>3, <3>1 DEF AnnounceRest
  <2>4. CASE ResumeTurn(s)
    BY <1>3, <1>4, <1>6, <2>4 DEF ResumeTurn
  <2>5. CASE FinishTurn(s)
    <3>1. <<AgentMessage, EndTurn>> \in Seq(Event)
      BY <1>8
    <3>2. h \o <<AgentMessage, EndTurn>> \in Seq(Event)
      BY <1>1, <3>1, ConcatProperties
    <3> QED
      BY <2>5, <3>2 DEF FinishTurn, TypeInv, TypeOK
  <2>6. ASSUME NEW t \in Tools, UseTool(s, t)  PROVE log' \in [Sessions -> Seq(Event)]
    <3>1. ToolUse(t) \in Event
      BY DEF ToolUse, Event
    <3> QED
      BY <1>3, <2>6, <3>1 DEF UseTool
  <2>7. CASE BreakAgent(s)
    BY <1>3, <1>8, <2>7 DEF BreakAgent, BreakTurn
  <2> QED
    BY <2>1, <2>2, <2>3, <2>4, <2>5, <2>6, <2>7 DEF AgentStep
<1>10. UNCHANGED <<tag, store, d, taskDb>>
  BY DEF AgentStep, BreakAgent, BreakTurn, StartTurn, RequireAction, AnnounceRest,
     ResumeTurn, FinishTurn, UseTool
<1>11. faults' \in Nat
  BY FaultType DEF AgentStep, BreakAgent, NoFault
<1> HIDE DEF h
<1>12. TypeOK'
  BY <1>9, <1>10, <1>11 DEF TypeInv, TypeOK
<1>13. Housed'
  BY <1>10 DEF TypeInv, Housed, RequestHoused, HomeOf, Cache!Present
<1> QED
  BY <1>12, <1>13 DEF TypeInv

\* Crashes, and entries whose TTL lapses.
LEMMA BridgeFaultType ==
  ASSUME TypeInv,
         \/ \E r \in Requests : Crash(r)
         \/ \E c \in Contexts : ExpireSession(c)
  PROVE  TypeInv'
<1>1. ASSUME NEW r \in Requests, Crash(r)  PROVE TypeInv'
  <2>1. d[r].pc # "new" /\ Leave(r, "dropped") /\ UNCHANGED <<tag, log, store, taskDb>>
    BY <1>1 DEF Crash, Active, agentVars
  <2>2. faults' \in Nat
    BY <1>1, FaultType DEF Crash
  <2> QED
    BY <2>1, <2>2, LeaveType DEF Finished, TypeInv, TypeOK
<1>2. ASSUME NEW c \in Contexts, ExpireSession(c)  PROVE TypeInv'
  <2>1. store' = [store EXCEPT ![c] = Cache!NoEntry] /\ UNCHANGED <<tag, log, d, taskDb>>
    BY <1>2 DEF ExpireSession, Cache!Expire, agentVars
  <2>2. faults' \in Nat
    BY <1>2, FaultType DEF ExpireSession
  <2>3. Cache!NoEntry \in Entry
    BY DEF Cache!NoEntry, Entry, NoSession
  <2>4. TypeOK'
    BY <2>1, <2>2, <2>3 DEF TypeInv, TypeOK
  <2>5. Housed'
    BY <2>1 DEF TypeInv, TypeOK, Housed, RequestHoused, HomeOf, Cache!Present
  <2> QED
    BY <2>4, <2>5 DEF TypeInv
<1> QED
  BY <1>1, <1>2

\* TypeInv is inductive.
LEMMA NextTypeInv == TypeInv /\ [Next]_vars => TypeInv'
<1> SUFFICES ASSUME TypeInv, [Next]_vars PROVE TypeInv'
  OBVIOUS
<1>1. ASSUME NEW r \in Requests, Step(r)  PROVE TypeInv'
  BY <1>1, ArrivalType, RecoveryType, CreationType, ResumeType, TurnType, EndType DEF Step
<1>2. CASE Environment
  BY <1>2, ArrivalType, BridgeFaultType, AgentType DEF Environment
<1>3. CASE UNCHANGED vars
  BY <1>3 DEF vars, agentVars, TypeInv, TypeOK, Housed, RequestHoused, HomeOf, Cache!Present
<1> QED
  BY <1>1, <1>2, <1>3 DEF Next

\* Every variable keeps its type.
THEOREM TypeCorrect == Spec => []TypeOK
<1>1. TypeInv => TypeOK
  BY DEF TypeInv
<1> QED
  BY <1>1, InitTypeInv, NextTypeInv, PTL DEF Spec

----------------------------------------------------------------------------
(* What the bridge posts. *)

\* The steps of a request before it has relayed any decision.
Undecided == {"new", "load", "recover", "rebuild", "adopt", "create", "register",
              "classify", "relay", "post"}

\* No use is given two results.
OneResult(decisions) == \A c, e \in decisions : c[1] = e[1] => c = e

\* What the rules may say of a use of a session with history h.
Ruling(h, c) == c[2] \in {Resolve(ToolOf(h, c[1])), Resolve(NoTool)}

\* The decisions of a poll are new, are remembered, and are those of the rules.
FreshAutos(old, rec, h) ==
  /\ OneResult(rec.autos)
  /\ \A a \in rec.autos : /\ a[1] \in rec.confirmed /\ a[1] \notin old.confirmed
                          /\ Ruling(h, a)

\* What a step may make of a request.
CarriesTo(old, rec) ==
  /\ old.pc # "new" => rec.pc # "new" /\ rec.ctx = old.ctx
  /\ \/ rec = old
     \/ old.pc \in Undecided /\ rec.pc \in Undecided
     \/ /\ rec.pc \notin Undecided
        /\ rec.answer = old.answer
        /\ rec.pc \notin Finished =>
             old.pc \notin Finished /\ old.confirmed \subseteq rec.confirmed
        /\ rec.pc = "auto" =>
             /\ rec.entry.session = old.entry.session
             /\ FreshAutos(old, rec, log[rec.entry.session])

Carried == \A q \in Requests : CarriesTo(d[q], d'[q])

----------------------------------------------------------------------------
(* What a request keeps. *)

\* A step that replaces one request.
LEMMA OneCarried ==
  ASSUME TypeInv, NEW r \in Requests, NEW rec, d' = [d EXCEPT ![r] = rec],
         CarriesTo(d[r], rec)
  PROVE  Carried
<1>1. \A q \in Requests : d'[q] = IF q = r THEN rec ELSE d[q]
  BY DEF TypeInv, TypeOK
<1>2. \A q \in Requests : CarriesTo(d[q], d[q])
  BY DEF CarriesTo
<1> QED
  BY <1>1, <1>2 DEF Carried

\* A step that replaces none.
LEMMA NoneCarried ==
  ASSUME d' = d
  PROVE  Carried
  BY DEF Carried, CarriesTo

\* A request leaves.
LEMMA LeaveCarried ==
  ASSUME TypeInv, NEW r \in Requests, NEW pc \in Finished, Leave(r, pc)
  PROVE  Carried
<1> DEFINE rec == [d[r] EXCEPT !.pc = pc, !.supplied = FALSE, !.confirmed = {},
                               !.anchor = NoAnchor, !.polls = 0, !.autos = {}, !.read = 0]
<1>1. pc \notin Undecided /\ pc # "auto" /\ pc # "new"
  BY DEF Finished, Undecided
<1>2. rec.pc = pc /\ rec.ctx = d[r].ctx /\ rec.answer = d[r].answer
  BY RequestFacts DEF Request
<1>3. d' = [d EXCEPT ![r] = rec]
  BY DEF Leave
<1> QED
  BY <1>1, <1>2, <1>3, OneCarried DEF CarriesTo

\* A request moves on.
LEMMA GoCarried ==
  ASSUME TypeInv, NEW r \in Requests, NEW pc, Go(r, pc), pc # "new", pc # "auto",
         d[r].pc \notin Finished,
         pc \in Undecided => d[r].pc \in Undecided
  PROVE  Carried
<1> DEFINE rec == [d[r] EXCEPT !.pc = pc]
<1>1. /\ rec.pc = pc /\ rec.ctx = d[r].ctx /\ rec.answer = d[r].answer
      /\ rec.confirmed = d[r].confirmed
  BY RequestFacts DEF Request
<1>2. d' = [d EXCEPT ![r] = rec]
  BY DEF Go
<1> QED
  BY <1>1, <1>2, OneCarried DEF CarriesTo

\* A POST that takes effect.
LEMMA PostedCarried ==
  ASSUME TypeInv, NEW r \in Requests, NEW rec, Posted(r, rec), CarriesTo(d[r], rec)
  PROVE  Carried
  BY LeaveCarried, OneCarried DEF Posted, Finished

\* Steps up to the first decision or message.
LEMMA EarlyCarried ==
  ASSUME TypeInv, NEW r \in Requests,
         \/ LoadSession(r) \/ FindSession(r) \/ RebuildSession(r) \/ AdoptSession(r)
         \/ CreateSession(r) \/ RegisterSession(r) \/ Classify(r)
         \/ \E c \in Contexts, t \in Tasks, supplied \in BOOLEAN : Receive(r, c, t, supplied)
  PROVE  Carried
<1> USE RequestFacts
<1>0. /\ "new" \in Undecided /\ "auto" \notin Undecided
      /\ {"load", "recover", "rebuild", "adopt", "create", "register",
          "classify", "relay", "post"} \in SUBSET (Undecided \ (Finished \union {"new"}))
  BY DEF Undecided, Finished
<1>1. ASSUME NEW rec, d' = [d EXCEPT ![r] = rec], d[r].pc \in Undecided,
             rec.pc \in Undecided, d[r].pc # "new" => rec.pc # "new" /\ rec.ctx = d[r].ctx
      PROVE  Carried
  BY <1>1, OneCarried DEF CarriesTo
<1>2. ASSUME NEW c \in Contexts, NEW t \in Tasks, NEW supplied \in BOOLEAN,
             Receive(r, c, t, supplied)
      PROVE  Carried
  <2> DEFINE rec == [d[r] EXCEPT !.pc = "load", !.ctx = c, !.task = t, !.supplied = supplied]
  <2>1. rec.pc = "load"
    BY DEF Request
  <2>2. d[r].pc = "new" /\ d' = [d EXCEPT ![r] = rec]
    BY ZenonT(40), <1>2 DEF Receive, At
  <2> QED
    BY <1>0, <1>1, <2>1, <2>2
<1>3. CASE LoadSession(r)
  <2>1. PICK failed \in BOOLEAN :
          LET e == Cache!Load(d[r].ctx, failed) IN
          d' = [d EXCEPT
               ![r].entry = e,
               ![r].pc = IF e # Cache!NoEntry THEN Branch(e)
                         ELSE IF RecoveryEnabled /\ d[r].supplied THEN "recover"
                         ELSE "create"]
    BY <1>3 DEF LoadSession
  <2> DEFINE e  == Cache!Load(d[r].ctx, failed)
             pc == IF e # Cache!NoEntry THEN Branch(e)
                   ELSE IF RecoveryEnabled /\ d[r].supplied THEN "recover" ELSE "create"
             rec == [d[r] EXCEPT !.entry = e, !.pc = pc]
  <2>2. pc \in {"recover", "create", "classify", "post"}
    BY DEF Branch
  <2>3. d' = [d EXCEPT ![r] = rec] /\ d[r].pc = "load"
    BY <1>3, <2>1 DEF LoadSession, At
  <2> HIDE DEF e, pc
  <2>4. rec.pc = pc /\ rec.ctx = d[r].ctx
    BY DEF Request
  <2> QED
    BY <1>0, <1>1, <2>2, <2>3, <2>4
<1>4. CASE FindSession(r)
  <2>1. d[r].pc = "recover"
    BY <1>4 DEF FindSession, At
  <2>2. CASE Go(r, "create")
    BY <1>0, <2>1, <2>2, GoCarried
  <2>3. CASE d' = [d EXCEPT ![r].pc = "rebuild",
                            ![r].entry.session = Largest(Recoverable(d[r].ctx))]
    <3> DEFINE e   == [d[r].entry EXCEPT !.session = Largest(Recoverable(d[r].ctx))]
               rec == [d[r] EXCEPT !.pc = "rebuild", !.entry = e]
    <3>1. d' = [d EXCEPT ![r] = rec]
      BY <2>3
    <3> HIDE DEF e
    <3>2. rec.pc = "rebuild" /\ rec.ctx = d[r].ctx
      BY DEF Request
    <3> QED
      BY <1>0, <1>1, <2>1, <3>1, <3>2
  <2> QED
    BY <1>4, <2>2, <2>3 DEF FindSession
<1>5. CASE RebuildSession(r)
  <2> DEFINE h == log[d[r].entry.session]
  <2>1. d[r].pc = "rebuild"
    BY <1>5 DEF RebuildSession, At
  <2>2. PICK pc \in {"adopt", "create"} :
          \E e : d' = [d EXCEPT ![r] = [@ EXCEPT !.pc = pc, !.entry = e]]
    <3>1. ASSUME NEW k \in VisiblePrefixes(h),
                 d' = [d EXCEPT ![r].pc = "adopt",
                      ![r].entry.pending =
                         DecidedAs(h, 1..k, LastStatus(h, 1..k).ids, "defer")]
          PROVE  \E e : d' = [d EXCEPT ![r] = [@ EXCEPT !.pc = "adopt", !.entry = e]]
      <4> DEFINE e == [d[r].entry EXCEPT !.pending =
                         DecidedAs(h, 1..k, LastStatus(h, 1..k).ids, "defer")]
      <4>1. d' = [d EXCEPT ![r] = [@ EXCEPT !.pc = "adopt", !.entry = e]]
        BY <3>1
      <4> QED
        BY <4>1
    <3>2. CASE d' = [d EXCEPT ![r].pc = "create", ![r].entry = Cache!NoEntry]
      BY <3>2
    <3> QED
      BY <1>5, <3>1, <3>2 DEF RebuildSession
  <2>4. PICK e : d' = [d EXCEPT ![r] = [@ EXCEPT !.pc = pc, !.entry = e]]
    BY <2>2
  <2> DEFINE rec == [d[r] EXCEPT !.pc = pc, !.entry = e]
  <2>3. rec.pc = pc /\ rec.ctx = d[r].ctx /\ d' = [d EXCEPT ![r] = rec]
    BY <2>4 DEF Request
  <2> QED
    BY <1>0, <1>1, <2>1, <2>3
<1>6. CASE AdoptSession(r) \/ RegisterSession(r)
  <2>1. PICK pc \in {"classify", "post"} : Go(r, pc)
    BY <1>6 DEF AdoptSession, RegisterSession, Branch
  <2>2. d[r].pc \in {"adopt", "register"}
    BY <1>6 DEF AdoptSession, RegisterSession, At
  <2> QED
    BY <1>0, <2>1, <2>2, GoCarried
<1>7. CASE CreateSession(r)
  <2>1. d[r].pc = "create"
    BY <1>7 DEF CreateSession, At
  <2>2. CASE CallFails(r)
    BY <2>2, LeaveCarried DEF CallFails, Finished
  <2>3. ASSUME NEW s \in Sessions,
               Posted(r, [d[r] EXCEPT !.pc = "register",
                                      !.entry = [session |-> s, pending |-> {}]])
        PROVE  Carried
    <3> DEFINE rec == [d[r] EXCEPT !.pc = "register",
                                   !.entry = [session |-> s, pending |-> {}]]
    <3>1. rec.pc = "register" /\ rec.ctx = d[r].ctx
      BY DEF Request
    <3>2. CarriesTo(d[r], rec)
      BY <1>0, <2>1, <3>1 DEF CarriesTo
    <3> QED
      BY <2>3, <3>2, PostedCarried
  <2> QED
    BY <1>7, <2>2, <2>3 DEF CreateSession
<1>8. CASE Classify(r)
  <2>1. PICK answer \in {"approve", "deny", "none"} :
          d' = [d EXCEPT ![r].answer = answer, ![r].pc = "relay"]
    BY <1>8 DEF Classify
  <2> DEFINE rec == [d[r] EXCEPT !.answer = answer, !.pc = "relay"]
  <2>2. rec.pc = "relay" /\ rec.ctx = d[r].ctx /\ d' = [d EXCEPT ![r] = rec]
    BY <2>1 DEF Request
  <2>3. d[r].pc = "classify"
    BY <1>8 DEF Classify, At
  <2> QED
    BY <1>0, <1>1, <2>2, <2>3
<1> QED
  BY <1>2, <1>3, <1>4, <1>5, <1>6, <1>7, <1>8

\* A slice names a tool of the history, or none.
LEMMA ExtractInSlice ==
  ASSUME NEW h, NEW slice \in SUBSET Positions(h), NEW id
  PROVE  ExtractTool(h, slice, id) \in {ToolOf(h, id), NoTool}
  BY DEF ExtractTool, ToolOf, Of

\* What the rules decide of a gate.
LEMMA GateToolsCarried ==
  ASSUME NEW rec \in Request, rec.pc = "poll", NEW h, NEW turn \in SUBSET Positions(h),
         NEW ids \in SUBSET Nat, ids \intersect rec.confirmed = {}, NEW at \in Nat
  PROVE  LET new == GateTools(rec, h, turn, ids, at) IN
         /\ new.answer = rec.answer
         /\ rec.confirmed \subseteq new.confirmed
         /\ FreshAutos(rec, new, h)
<1> DEFINE allows == DecidedAs(h, turn, ids, "allow")
           denies == DecidedAs(h, turn, ids, "deny")
           autos  == (allows \X {"allow"}) \union (denies \X {"deny"})
           deferred == DecidedAs(h, turn, ids, "defer")
           confirmed == rec.confirmed \union {a[1] : a \in autos}
           pc == IF autos # {} THEN "auto" ELSE "park"
           new == GateTools(rec, h, turn, ids, at)
<1>1. new = [rec EXCEPT !.autos = autos, !.deferred = deferred, !.read = at,
                        !.confirmed = confirmed, !.pc = pc]
  BY DEF GateTools
<1>2. \A a \in autos :
        /\ a[1] \in ids
        /\ a[2] = Resolve(ExtractTool(h, turn, a[1]))
  BY DEF DecidedAs
<1>3. \A id \in ids : ExtractTool(h, turn, id) \in {ToolOf(h, id), NoTool}
  BY ExtractInSlice
<1>4. \A a \in autos : Ruling(h, a)
  <2> HIDE DEF autos
  <2> QED
    BY <1>2, <1>3 DEF Ruling
<1>5. OneResult(autos)
  <2>1. \A a \in autos : a = <<a[1], a[2]>>
    OBVIOUS
  <2> HIDE DEF autos
  <2> QED
    BY <1>2, <2>1 DEF OneResult
<1>6. \A a \in autos : a[1] \in confirmed /\ a[1] \notin rec.confirmed
  <2> HIDE DEF autos
  <2> QED
    BY <1>2
<1>7. rec.confirmed \subseteq confirmed
  OBVIOUS
<1> HIDE DEF autos, deferred, confirmed, pc, new
<1>8. new.autos = autos /\ new.confirmed = confirmed /\ new.answer = rec.answer
  BY <1>1 DEF Request
<1> QED
  BY <1>4, <1>5, <1>6, <1>7, <1>8 DEF FreshAutos, new

\* What a listing makes of a request.
LEMMA InterpretCarried ==
  ASSUME TypeInv, NEW r \in Requests, d[r].pc = "poll",
         NEW k \in VisiblePrefixes(log[d[r].entry.session])
  PROVE  CarriesTo(d[r], Interpret(d[r], log[d[r].entry.session], k))
<1> DEFINE rec    == d[r]
           h      == log[rec.entry.session]
           turn   == CurrentTurn(h, k, rec.anchor)
           status == LastStatus(h, turn)
           ids    == status.ids \ rec.confirmed
           new    == Interpret(rec, h, k)
<1>1. rec \in Request /\ h \in Seq(Event) /\ k \in 0..Len(h) /\ Len(h) \in Nat
  BY RequestFacts, LenProperties DEF InSession, VisiblePrefixes
<1>2. turn \in SUBSET Positions(h)
  BY <1>1, CurrentTurnIsSlice DEF Request, Positions
<1>3. status.at \in Nat /\ status.ids \in SUBSET Nat
  BY <1>1, <1>2, LastStatusType DEF Positions
<1>4. /\ new.pc \in {"poll", "auto", "park", "persist"}
      /\ new.ctx = rec.ctx
      /\ new.entry = rec.entry
  BY <1>1, InterpretType
<1> DEFINE gated == GateTools(rec, h, turn, ids, status.at)
<1>5. new \in {Conclude(rec, "COMPLETED", status.at), Conclude(rec, "FAILED", status.at),
               gated, NextPoll(rec)}
  BY DEF Interpret
<1> HIDE DEF new, turn, status, h
<1>6. CASE new \in {Conclude(rec, "COMPLETED", status.at), Conclude(rec, "FAILED", status.at)}
  <2>1. new.pc = "persist" /\ new.answer = rec.answer /\ new.confirmed = rec.confirmed
    BY ZenonT(40), <1>1, <1>6 DEF Conclude, Request
  <2> QED
    BY <1>4, <2>1 DEF CarriesTo, Undecided, Finished, new, h
<1>7. CASE new = gated
  <2>1. ids \in SUBSET Nat /\ ids \intersect rec.confirmed = {}
    BY <1>3
  <2>2. rec.pc = "poll"
    OBVIOUS
  <2> DEFINE at == status.at
  <2>3. at \in Nat
    BY <1>3
  <2> HIDE DEF rec, ids, gated, at
  <2>4. LET g == GateTools(rec, h, turn, ids, at) IN
        /\ g.answer = rec.answer
        /\ rec.confirmed \subseteq g.confirmed
        /\ FreshAutos(rec, g, h)
    BY <1>1, <1>2, <2>1, <2>2, <2>3, GateToolsCarried
  <2>5. new = GateTools(rec, h, turn, ids, at)
    BY <1>7 DEF gated, at
  <2>6. h = log[new.entry.session] /\ new.entry = rec.entry
    BY <1>4 DEF h
  <2> QED
    BY <1>4, <2>2, <2>4, <2>5, <2>6 DEF CarriesTo, Undecided, Finished, new, h, rec
<1>8. CASE new = NextPoll(rec)
  <2>1. new.answer = rec.answer /\ new.confirmed = rec.confirmed /\ new.pc # "auto"
    <3>1. new.pc \in {"poll", "persist"}
      BY <1>1, <1>8, NextPollType
    <3> QED
      BY <1>1, <1>8, <3>1 DEF NextPoll, Request
  <2> QED
    BY <1>4, <2>1 DEF CarriesTo, Undecided, Finished, new, h
<1> QED
  BY <1>5, <1>6, <1>7, <1>8

\* Steps from the first decision or message on.
LEMMA LateCarried ==
  ASSUME TypeInv, NEW r \in Requests,
         \/ RelayDecision(r) \/ ClearPending(r) \/ SendMessage(r) \/ Poll(r)
         \/ RelayAutos(r) \/ ParkDeferred(r) \/ PersistTask(r) \/ SaveSession(r)
         \/ Respond(r)
  PROVE  Carried
<1> USE RequestFacts
<1>0. /\ {"relay", "post"} \in SUBSET (Undecided \ Finished)
      /\ \A pc \in {"clear", "poll", "auto", "park", "persist", "save", "respond"} :
           pc \notin Undecided /\ pc \notin Finished
      /\ "new" \in Undecided /\ "auto" \notin Undecided
  BY DEF Undecided, Finished
<1>1. CASE CallFails(r) \/ Rejected(r)
  BY <1>1, LeaveCarried DEF CallFails, Rejected, Finished
<1>2. ASSUME NEW rec, d[r].pc \notin Finished, rec.pc \notin Undecided, rec.pc # "auto",
             rec.ctx = d[r].ctx, rec.answer = d[r].answer,
             d[r].confirmed \subseteq rec.confirmed
      PROVE  CarriesTo(d[r], rec)
  BY <1>0, <1>2 DEF CarriesTo
<1>3. CASE RelayDecision(r)
  <2> DEFINE pending == d[r].entry.pending
             rec == [d[r] EXCEPT !.pc = "clear", !.confirmed = @ \union pending]
  <2>1. d[r].pc = "relay"
    BY <1>3 DEF RelayDecision, At
  <2>2. CASE Posted(r, rec)
    <3> HIDE DEF pending
    <3>1. /\ rec.pc = "clear" /\ rec.ctx = d[r].ctx /\ rec.answer = d[r].answer
          /\ rec.confirmed = d[r].confirmed \union pending
      BY DEF Request
    <3>2. CarriesTo(d[r], rec)
      BY <1>0, <1>2, <2>1, <3>1
    <3> QED
      BY <2>2, <3>2, PostedCarried
  <2> QED
    BY <1>1, <1>3, <2>2 DEF RelayDecision
<1>4. CASE ClearPending(r)
  <2> DEFINE e   == [d[r].entry EXCEPT !.pending = {}]
             rec == [d[r] EXCEPT !.entry = e, !.pc = "poll", !.polls = Polls]
  <2>1. d[r].pc = "clear" /\ d' = [d EXCEPT ![r] = rec]
    BY <1>4 DEF ClearPending, At
  <2> HIDE DEF e
  <2>2. /\ rec.pc = "poll" /\ rec.ctx = d[r].ctx /\ rec.answer = d[r].answer
        /\ rec.confirmed = d[r].confirmed
    BY DEF Request
  <2> QED
    BY <1>0, <1>2, <2>1, <2>2, OneCarried
<1>5. CASE SendMessage(r)
  <2> DEFINE s      == d[r].entry.session
             anchor == IF Echoes THEN Len(log[s]) + 1 ELSE NoAnchor
             rec    == [d[r] EXCEPT !.pc = "poll", !.polls = Polls, !.anchor = anchor]
  <2>1. d[r].pc = "post"
    BY <1>5 DEF SendMessage, At
  <2>2. CASE Posted(r, rec)
    <3> HIDE DEF anchor
    <3>1. /\ rec.pc = "poll" /\ rec.ctx = d[r].ctx /\ rec.answer = d[r].answer
          /\ rec.confirmed = d[r].confirmed
      BY DEF Request
    <3>2. CarriesTo(d[r], rec)
      BY <1>0, <1>2, <2>1, <3>1
    <3> QED
      BY <2>2, <3>2, PostedCarried
  <2> QED
    BY <1>1, <1>5, <2>2 DEF SendMessage
<1>6. CASE Poll(r)
  <2>1. d[r].pc = "poll"
    BY <1>6 DEF Poll, At
  <2>2. ASSUME NEW k \in VisiblePrefixes(log[d[r].entry.session]),
               d' = [d EXCEPT ![r] = Interpret(d[r], log[d[r].entry.session], k)]
        PROVE  Carried
    BY <2>1, <2>2, InterpretCarried, OneCarried
  <2> QED
    BY <1>1, <1>6, <2>2 DEF Poll
<1>7. CASE RelayAutos(r)
  <2> DEFINE some == [d[r] EXCEPT !.autos = {}]
             rec  == IF some.deferred # {} THEN [some EXCEPT !.pc = "park"]
                                           ELSE NextPoll(some)
  <2>1. d[r].pc = "auto"
    BY <1>7 DEF RelayAutos, At
  <2>2. CASE Posted(r, rec)
    <3>1. /\ some \in Request /\ some.ctx = d[r].ctx /\ some.answer = d[r].answer
          /\ some.confirmed = d[r].confirmed
      BY DEF Request
    <3> HIDE DEF some
    <3>2. /\ rec.pc \in {"park", "poll", "persist"} /\ rec.ctx = some.ctx
          /\ rec.answer = some.answer /\ rec.confirmed = some.confirmed
      <4>1. CASE some.deferred # {}
        BY <3>1, <4>1 DEF Request
      <4>2. CASE some.deferred = {}
        <5>1. NextPoll(some).pc \in {"poll", "persist"} /\ NextPoll(some).ctx = some.ctx
          BY <3>1, NextPollType
        <5>2. NextPoll(some).answer = some.answer /\ NextPoll(some).confirmed = some.confirmed
          BY <3>1 DEF NextPoll, Request
        <5> QED
          BY <4>2, <5>1, <5>2
      <4> QED
        BY <4>1, <4>2
    <3>3. CarriesTo(d[r], rec)
      BY <1>0, <1>2, <2>1, <3>1, <3>2
    <3> QED
      BY <2>2, <3>3, PostedCarried DEF some
  <2> QED
    BY <1>1, <1>7, <2>2 DEF RelayAutos
<1>8. CASE ParkDeferred(r)
  <2> DEFINE e   == [d[r].entry EXCEPT !.pending = d[r].deferred]
             rec == [d[r] EXCEPT !.entry = e, !.outcome = "INPUT_REQUIRED",
                                 !.pc = "persist"]
  <2>1. d[r].pc = "park" /\ d' = [d EXCEPT ![r] = rec]
    BY <1>8 DEF ParkDeferred, At
  <2> HIDE DEF e
  <2>2. /\ rec.pc = "persist" /\ rec.ctx = d[r].ctx /\ rec.answer = d[r].answer
        /\ rec.confirmed = d[r].confirmed
    BY DEF Request
  <2> QED
    BY <1>0, <1>2, <2>1, <2>2, OneCarried
<1>9. CASE PersistTask(r) \/ SaveSession(r)
  <2>1. PICK pc \in {"save", "respond"} : Go(r, pc)
    BY <1>9 DEF PersistTask, SaveSession
  <2>2. d[r].pc \in {"persist", "save"}
    BY <1>9 DEF PersistTask, SaveSession, At
  <2> QED
    BY <1>0, <2>1, <2>2, GoCarried
<1>10. CASE Respond(r)
  BY <1>10, LeaveCarried DEF Respond, Finished
<1> QED
  BY <1>3, <1>4, <1>5, <1>6, <1>7, <1>8, <1>9, <1>10

\* Every step carries the requests.
LEMMA NextCarried == ASSUME TypeInv, [Next]_vars PROVE Carried
<1>1. ASSUME NEW r \in Requests, Step(r)  PROVE Carried
  BY <1>1, EarlyCarried, LateCarried DEF Step
<1>2. CASE Environment
  <2>1. ASSUME NEW r \in Requests, Crash(r)  PROVE Carried
    BY <2>1, LeaveCarried DEF Crash, Finished
  <2>2. ASSUME NEW c \in Contexts, ExpireSession(c)  PROVE Carried
    BY <2>2, NoneCarried DEF ExpireSession
  <2>3. ASSUME NEW s \in Sessions, AgentStep(s) \/ BreakAgent(s)  PROVE Carried
    BY <2>3, NoneCarried DEF AgentStep, BreakAgent
  <2> QED
    BY <1>2, <2>1, <2>2, <2>3, EarlyCarried DEF Environment
<1>3. CASE UNCHANGED vars
  BY <1>3, NoneCarried DEF vars
<1> QED
  BY <1>1, <1>2, <1>3 DEF Next

----------------------------------------------------------------------------
(* What a step adds to the histories. *)

PostTypes == {"user.message", "user.tool_confirmation"}

\* What request q may post to session s in this step.
PostedBy(q, s, e) ==
  /\ q \in Requests
  /\ d[q].pc \in {"relay", "post", "auto"}
  /\ s = d[q].entry.session
  /\ d'[q].pc \notin Undecided
  /\ e.type = "user.message" => d[q].pc = "post"
  /\ e.type = "user.tool_confirmation" =>
       \/ /\ d[q].pc = "relay" /\ e.who = "human"
          /\ e.decisions = d[q].entry.pending \X {Decision(d[q].answer)}
          /\ d'[q].pc \notin Finished => d[q].entry.pending \subseteq d'[q].confirmed
          /\ d'[q].pc # "auto"
       \/ /\ d[q].pc = "auto" /\ e.who = "rule"
          /\ e.decisions = d[q].autos
          /\ d'[q].pc # "auto"

\* A history keeps what it had, and a step posts at most one event.
Grows ==
  \A s \in Sessions :
    /\ Len(log[s]) <= Len(log'[s])
    /\ \A i \in Positions(log[s]) : log'[s][i] = log[s][i]
    /\ \A i \in Positions(log'[s]) \ Positions(log[s]) :
         log'[s][i].type \in PostTypes =>
           i = Len(log[s]) + 1 /\ PostedBy(log'[s][i].by, s, log'[s][i])

\* What an append does to any history.
LEMMA Appended ==
  ASSUME NEW h \in Seq(Event), NEW e
  PROVE  /\ Len(Append(h, e)) = Len(h) + 1
         /\ \A i \in 1..Len(h) : Append(h, e)[i] = h[i]
         /\ Append(h, e)[Len(h) + 1] = e
<1> DEFINE S == Event \union {e}
<1>1. h \in Seq(S)
  <2>1. h \in [1..Len(h) -> Event] /\ Len(h) \in Nat
    BY LenProperties
  <2>2. h \in [1..Len(h) -> S]
    BY <2>1
  <2> QED
    BY <2>1, <2>2
<1>2. e \in S
  OBVIOUS
<1> HIDE DEF S
<1> QED
  BY <1>1, <1>2, AppendProperties

\* A step that adds nothing.
LEMMA NothingGrows ==
  ASSUME TypeInv, UNCHANGED log
  PROVE  Grows
<1>1. \A s \in Sessions : Len(log[s]) \in Nat
  BY LenProperties DEF TypeInv, TypeOK
<1> QED
  BY <1>1 DEF Grows

\* A step that appends one event.
LEMMA OneGrows ==
  ASSUME TypeInv, NEW s \in Sessions, NEW e, Append1(s, e),
         e.type \in PostTypes => PostedBy(e.by, s, e)
  PROVE  Grows
<1>1. \A q \in Sessions : log[q] \in Seq(Event) /\ Len(log[q]) \in Nat
  BY LenProperties DEF TypeInv, TypeOK
<1>2. \A q \in Sessions : log'[q] = IF q = s THEN Append(log[s], e) ELSE log[q]
  BY DEF Append1, TypeInv, TypeOK
<1>3. /\ Len(log'[s]) = Len(log[s]) + 1
      /\ \A i \in 1..Len(log[s]) : log'[s][i] = log[s][i]
      /\ log'[s][Len(log[s]) + 1] = e
  <2> DEFINE h == log[s]
             g == Append(h, e)
  <2>1. h \in Seq(Event)
    BY <1>1
  <2>2. log'[s] = g
    BY <1>2
  <2> HIDE DEF h
  <2>3. /\ Len(g) = Len(h) + 1
        /\ \A i \in 1..Len(h) : g[i] = h[i]
        /\ g[Len(h) + 1] = e
    BY <2>1, Appended, Zenon
  <2> HIDE DEF g
  <2> QED
    BY <2>2, <2>3 DEF h
<1>4. \A i \in Positions(log'[s]) \ Positions(log[s]) : i = Len(log[s]) + 1
  BY <1>1, <1>3 DEF Positions
<1> QED
  BY <1>1, <1>2, <1>3, <1>4 DEF Grows, Positions

\* Where a request that posts stands afterwards.
LEMMA PostedTo ==
  ASSUME TypeInv, NEW r \in Requests, NEW rec, Posted(r, rec)
  PROVE  d'[r] = rec \/ d'[r].pc = "error"
<1>1. CASE d' = [d EXCEPT ![r] = rec]
  BY <1>1 DEF TypeInv, TypeOK
<1>2. CASE Leave(r, "error")
  BY <1>2 DEF TypeInv, TypeOK, Leave, Request
<1> QED
  BY <1>1, <1>2 DEF Posted

\* The steps that post.
LEMMA RelayGrows ==
  ASSUME TypeInv, NEW r \in Requests, RelayDecision(r)
  PROVE  Grows
<1> DEFINE pending == d[r].entry.pending
           e   == Confirmations(pending \X {Decision(d[r].answer)}, r, "human")
           rec == [d[r] EXCEPT !.pc = "clear", !.confirmed = @ \union pending]
<1>1. d[r].pc = "relay" /\ d[r].entry.session \in Sessions
  BY RequestFacts DEF RelayDecision, At, InSession, HomeOf
<1>2. CASE CallFails(r) \/ Rejected(r)
  BY <1>2, NothingGrows DEF CallFails, Rejected, agentVars
<1>3. CASE PostConfirmations(r, pending \X {Decision(d[r].answer)}, "human") /\ Posted(r, rec)
  <2>1. /\ e.type = "user.tool_confirmation" /\ e.by = r /\ e.who = "human"
        /\ e.decisions = pending \X {Decision(d[r].answer)}
    BY DEF Confirmations
  <2>2. Append1(d[r].entry.session, e)
    BY <1>3 DEF PostConfirmations
  <2> HIDE DEF pending
  <2>3. rec.pc = "clear" /\ pending \subseteq rec.confirmed
    BY RequestFacts DEF Request
  <2> HIDE DEF rec, e
  <2>4. /\ d'[r].pc \in {"clear", "error"}
        /\ d'[r].pc \notin Finished => pending \subseteq d'[r].confirmed
    BY <1>3, <2>3, PostedTo DEF Finished
  <2>5. PostedBy(r, d[r].entry.session, e)
    BY <1>1, <2>1, <2>4 DEF PostedBy, Undecided, pending
  <2> QED
    BY <1>1, <2>1, <2>2, <2>5, OneGrows
<1> QED
  BY <1>2, <1>3 DEF RelayDecision

LEMMA AutosGrows ==
  ASSUME TypeInv, NEW r \in Requests, RelayAutos(r)
  PROVE  Grows
<1> DEFINE e    == Confirmations(d[r].autos, r, "rule")
           some == [d[r] EXCEPT !.autos = {}]
           rec  == IF some.deferred # {} THEN [some EXCEPT !.pc = "park"] ELSE NextPoll(some)
<1>1. d[r].pc = "auto" /\ d[r].entry.session \in Sessions
  BY RequestFacts DEF RelayAutos, At, InSession, HomeOf
<1>2. CASE CallFails(r) \/ Rejected(r)
  BY <1>2, NothingGrows DEF CallFails, Rejected, agentVars
<1>3. CASE PostConfirmations(r, d[r].autos, "rule") /\ Posted(r, rec)
  <2>1. /\ e.type = "user.tool_confirmation" /\ e.by = r /\ e.who = "rule"
        /\ e.decisions = d[r].autos
    BY DEF Confirmations
  <2>2. Append1(d[r].entry.session, e)
    BY <1>3 DEF PostConfirmations
  <2>3. some \in Request
    BY RequestFacts DEF Request
  <2> HIDE DEF some
  <2>4. rec.pc \in {"park", "poll", "persist"}
    <3>1. NextPoll(some).pc \in {"poll", "persist"}
      BY <2>3, NextPollType
    <3>2. [some EXCEPT !.pc = "park"].pc = "park"
      BY <2>3 DEF Request
    <3> QED
      BY <3>1, <3>2
  <2>5. d'[r] = rec \/ d'[r].pc = "error"
    BY <1>3, PostedTo DEF some
  <2> HIDE DEF rec, e
  <2>6. d'[r].pc \in {"park", "poll", "persist", "error"}
    BY <2>4, <2>5
  <2>7. PostedBy(r, d[r].entry.session, e)
    BY <1>1, <2>1, <2>6 DEF PostedBy, Undecided
  <2> QED
    BY <1>1, <2>1, <2>2, <2>7, OneGrows
<1> QED
  BY <1>2, <1>3 DEF RelayAutos

LEMMA MessageGrows ==
  ASSUME TypeInv, NEW r \in Requests, SendMessage(r)
  PROVE  Grows
<1> DEFINE s      == d[r].entry.session
           anchor == IF Echoes THEN Len(log[s]) + 1 ELSE NoAnchor
           rec    == [d[r] EXCEPT !.pc = "poll", !.polls = Polls, !.anchor = anchor]
<1>1. d[r].pc = "post" /\ s \in Sessions
  BY RequestFacts DEF SendMessage, At, InSession, HomeOf
<1>2. CASE CallFails(r) \/ Rejected(r)
  BY <1>2, NothingGrows DEF CallFails, Rejected, agentVars
<1>3. CASE Append1(s, UserMessage(r)) /\ Posted(r, rec)
  <2>1. UserMessage(r).type = "user.message" /\ UserMessage(r).by = r
    BY DEF UserMessage
  <2> HIDE DEF anchor
  <2>2. rec.pc = "poll"
    BY RequestFacts DEF Request
  <2>3. d'[r].pc \in {"poll", "error"}
    BY <1>3, <2>2, PostedTo
  <2>4. PostedBy(r, s, UserMessage(r))
    BY <1>1, <2>1, <2>3 DEF PostedBy, Undecided
  <2> QED
    BY <1>1, <1>3, <2>1, <2>4, OneGrows
<1> QED
  BY <1>2, <1>3 DEF SendMessage

\* The agents post nothing for a request.
LEMMA AgentGrows ==
  ASSUME TypeInv, NEW s \in Sessions, AgentStep(s) \/ BreakAgent(s)
  PROVE  Grows
<1>1. /\ \A m : RunningOn(m).type \notin PostTypes
      /\ \A ids : IdleOn(ids).type \notin PostTypes
      /\ \A t : ToolUse(t).type \notin PostTypes
      /\ \A e \in {SessionError, Terminated} : e.type \notin PostTypes
      /\ AgentMessage.type \notin PostTypes /\ EndTurn.type \notin PostTypes
  BY DEF RunningOn, IdleOn, ToolUse, SessionError, Terminated, AgentMessage, EndTurn, PostTypes
<1>2. CASE StartTurn(s) \/ RequireAction(s) \/ AnnounceRest(s) \/ ResumeTurn(s) \/ BreakAgent(s)
  <2>1. PICK e : Append1(s, e) /\ e.type \notin PostTypes
    BY <1>1, <1>2 DEF StartTurn, RequireAction, AnnounceRest, ResumeTurn, BreakAgent, BreakTurn
  <2> QED
    BY <2>1, OneGrows
<1>3. ASSUME NEW t \in Tools, UseTool(s, t)  PROVE Grows
  BY <1>1, <1>3, OneGrows DEF UseTool
<1>4. CASE FinishTurn(s)
  <2> DEFINE h == log[s]
             tail == <<AgentMessage, EndTurn>>
             g == h \o tail
  <2>1. \A q \in Sessions : log[q] \in Seq(Event) /\ Len(log[q]) \in Nat
    BY LenProperties DEF TypeInv, TypeOK
  <2>2. AgentMessage \in Event /\ EndTurn \in Event
    BY DEF AgentMessage, EndTurn, Event
  <2>3. \A q \in Sessions : log'[q] = IF q = s THEN g ELSE log[q]
    BY <1>4 DEF FinishTurn, TypeInv, TypeOK
  <2>4. tail \in Seq(Event) /\ Len(tail) = 2 /\ tail[1] = AgentMessage /\ tail[2] = EndTurn
    BY <2>2
  <2>5. h \in Seq(Event) /\ Len(h) \in Nat
    BY <2>1
  <2> HIDE DEF tail, h
  <2>6. /\ Len(g) = Len(h) + 2
        /\ \A i \in 1..Len(h) : g[i] = h[i]
        /\ g[Len(h) + 1] = AgentMessage /\ g[Len(h) + 2] = EndTurn
    <3>1. /\ Len(g) = Len(h) + Len(tail)
          /\ \A i \in 1..Len(h) + Len(tail) :
               g[i] = IF i <= Len(h) THEN h[i] ELSE tail[i - Len(h)]
      BY <2>4, <2>5, ConcatProperties, Zenon
    <3> HIDE DEF g
    <3> QED
      BY <2>4, <2>5, <3>1
  <2>7. \A i \in Positions(g) \ Positions(h) : g[i].type \notin PostTypes
    BY <1>1, <2>5, <2>6 DEF Positions
  <2> HIDE DEF g
  <2> QED
    BY <2>1, <2>3, <2>5, <2>6, <2>7 DEF Grows, Positions, h
<1> QED
  BY <1>2, <1>3, <1>4 DEF AgentStep

\* What the histories gain in any step.
LEMMA NextGrows == ASSUME TypeInv, [Next]_vars PROVE Grows
<1>1. ASSUME NEW r \in Requests, Step(r)  PROVE Grows
  <2>1. CASE RelayDecision(r) \/ SendMessage(r) \/ RelayAutos(r)
    BY <2>1, RelayGrows, MessageGrows, AutosGrows
  <2>2. CASE LoadSession(r) \/ FindSession(r) \/ RebuildSession(r) \/ AdoptSession(r)
               \/ RegisterSession(r) \/ Classify(r) \/ ClearPending(r)
    BY <2>2, NothingGrows DEF LoadSession, FindSession, RebuildSession, AdoptSession,
       RegisterSession, Classify, ClearPending, agentVars
  <2>3. CASE CreateSession(r) \/ Poll(r) \/ ParkDeferred(r) \/ PersistTask(r)
               \/ SaveSession(r) \/ Respond(r)
    BY <2>3, NothingGrows DEF CreateSession, Poll, ParkDeferred, PersistTask,
       SaveSession, Respond, CallFails, agentVars
  <2> QED
    BY <1>1, <2>1, <2>2, <2>3 DEF Step
<1>2. CASE Environment
  <2>1. CASE \E s \in Sessions : AgentStep(s) \/ BreakAgent(s)
    BY <2>1, AgentGrows
  <2>2. CASE ~ \E s \in Sessions : AgentStep(s) \/ BreakAgent(s)
    BY ZenonT(40), <1>2, <2>2, NothingGrows DEF Environment, Receive, Crash, ExpireSession, agentVars
  <2> QED
    BY <2>1, <2>2
<1>3. CASE UNCHANGED vars
  BY <1>3, NothingGrows DEF vars, agentVars
<1> QED
  BY <1>1, <1>2, <1>3 DEF Next

\* A session keeps the context it was created for.
LEMMA TagsKept ==
  ASSUME TypeInv, [Next]_vars
  PROVE  \A s \in Sessions : tag[s] # NoContext => tag'[s] = tag[s]
<1>1. ASSUME NEW r \in Requests, Step(r)
      PROVE  \/ UNCHANGED tag
             \/ \E s \in Sessions : \E c : tag[s] = NoContext /\ tag' = [tag EXCEPT ![s] = c]
  <2>1. CASE CreateSession(r)
    BY <2>1 DEF CreateSession, CallFails, agentVars
  <2>2. CASE LoadSession(r) \/ FindSession(r) \/ RebuildSession(r) \/ AdoptSession(r)
               \/ RegisterSession(r) \/ Classify(r) \/ ClearPending(r) \/ Poll(r)
    BY <2>2 DEF LoadSession, FindSession, RebuildSession, AdoptSession,
       RegisterSession, Classify, ClearPending, Poll, CallFails, agentVars
  <2>3. CASE RelayDecision(r) \/ SendMessage(r) \/ RelayAutos(r)
    BY <2>3 DEF RelayDecision, SendMessage, RelayAutos, CallFails, Rejected, agentVars
  <2>4. CASE ParkDeferred(r) \/ PersistTask(r) \/ SaveSession(r) \/ Respond(r)
    BY <2>4 DEF ParkDeferred, PersistTask, SaveSession, Respond, agentVars
  <2> QED
    BY <1>1, <2>1, <2>2, <2>3, <2>4 DEF Step
<1>2. CASE Environment
  BY ZenonT(40), <1>2 DEF Environment, Receive, Crash, ExpireSession, AgentStep, BreakAgent, BreakTurn,
     StartTurn, RequireAction, AnnounceRest, ResumeTurn, FinishTurn, UseTool, agentVars
<1>3. CASE UNCHANGED vars
  BY <1>3 DEF vars, agentVars
<1> QED
  BY <1>1, <1>2, <1>3 DEF Next, TypeInv, TypeOK

----------------------------------------------------------------------------
(* The invariant, and the properties that follow from it. *)

\* What is true of a confirmation of session s, and of the request it is from.
ConfirmationOK(s, e) ==
  /\ OneResult(e.decisions)
  /\ d[e.by].pc \notin Undecided
  /\ d[e.by].pc \notin Finished => Uses(e) \subseteq d[e.by].confirmed
  /\ d[e.by].pc = "auto" =>
       \A c \in e.decisions, a \in d[e.by].autos : c[1] # a[1]
  /\ e.who = "human" =>
       \A c \in e.decisions : c[2] = "allow" => d[e.by].answer = "approve"
  /\ e.who = "rule" => \A c \in e.decisions : Ruling(log[s], c)

\* What is true of an event of session s that the bridge posted.
PostOK(s, e) ==
  /\ e.by \in Requests
  /\ d[e.by].pc # "new" /\ d[e.by].ctx = tag[s]
  /\ e.type = "user.tool_confirmation" => ConfirmationOK(s, e)

PostsOK ==
  \A s \in Sessions : \A i \in Positions(log[s]) :
    log[s][i].type \in PostTypes => PostOK(s, log[s][i])

\* What the rules have decided and a request is about to relay.
AutosOK ==
  \A r \in Requests : d[r].pc = "auto" =>
    /\ OneResult(d[r].autos)
    /\ \A a \in d[r].autos : /\ a[1] \in d[r].confirmed
                             /\ Ruling(log[d[r].entry.session], a)

ConfirmedOnce ==
  \A s \in Sessions : \A i, j \in Relayed(log[s]) :
    log[s][i].by = log[s][j].by /\ Uses(log[s][i]) \intersect Uses(log[s][j]) # {} => i = j

PostInv == TypeInv /\ PostsOK /\ AutosOK /\ ConfirmedOnce

\* What the rules say of a use remains what they may say of it.
LEMMA RulingKept ==
  ASSUME TypeInv, TypeInv', Grows, NEW s \in Sessions, NEW c, Ruling(log[s], c)
  PROVE  Ruling(log'[s], c)
<1> DEFINE h == log[s]
           g == log'[s]
           u == c[1]
<1>1. Len(h) \in Nat /\ Len(g) \in Nat
  BY LenProperties DEF TypeInv, TypeOK
<1>2. \A i \in Positions(h) : i \in Positions(g) /\ g[i] = h[i]
  BY <1>1 DEF Grows, Positions
<1>3. CASE u \in Positions(h)
  <2>1. ToolOf(g, u) = ToolOf(h, u)
    BY <1>2, <1>3 DEF ToolOf, ExtractTool, Of
  <2> QED
    BY <2>1 DEF Ruling
<1>4. CASE u \notin Positions(h)
  <2>1. ToolOf(h, u) = NoTool
    BY <1>4 DEF ToolOf, ExtractTool, Of
  <2> QED
    BY <2>1 DEF Ruling
<1> QED
  BY <1>3, <1>4

\* A request that has a context still has it, and its sessions still have theirs.
LEMMA ContextKept ==
  ASSUME TypeInv, [Next]_vars, NEW r \in Requests, d[r].pc # "new",
         NEW s \in Sessions, d[r].ctx = tag[s]
  PROVE  d'[r].pc # "new" /\ d'[r].ctx = tag'[s]
<1>1. CarriesTo(d[r], d'[r])
  BY NextCarried DEF Carried
<1>2. d'[r].pc # "new" /\ d'[r].ctx = d[r].ctx
  BY <1>1 DEF CarriesTo
<1>3. tag[s] # NoContext
  BY RequestFacts, AgentAssumption
<1> QED
  BY <1>2, <1>3, TagsKept

\* What was posted before the step.
LEMMA OldPost ==
  ASSUME TypeInv, TypeInv', [Next]_vars, NEW s \in Sessions, NEW e, PostOK(s, e)
  PROVE  PostOK(s, e)'
<1> DEFINE q == e.by
<1>1. q \in Requests /\ d'[q].pc # "new" /\ d'[q].ctx = tag'[s]
  BY ContextKept DEF PostOK
<1>2. ASSUME e.type = "user.tool_confirmation"  PROVE ConfirmationOK(s, e)'
  <2>1. ConfirmationOK(s, e)
    BY <1>2 DEF PostOK
  <2>2. CarriesTo(d[q], d'[q])
    BY <1>1, NextCarried DEF Carried
  <2>3. ASSUME NEW c \in e.decisions, e.who = "rule"  PROVE Ruling(log'[s], c)
    BY <2>1, <2>3, NextGrows, RulingKept DEF ConfirmationOK
  <2>4. CASE d'[q] = d[q]
    BY <2>1, <2>3, <2>4 DEF ConfirmationOK
  <2>5. CASE /\ d'[q].pc \notin Undecided
             /\ d'[q].answer = d[q].answer
             /\ d'[q].pc \notin Finished =>
                  d[q].pc \notin Finished /\ d[q].confirmed \subseteq d'[q].confirmed
             /\ d'[q].pc = "auto" =>
                  \A a \in d'[q].autos : a[1] \notin d[q].confirmed
    <3>1. d'[q].pc \notin Finished => Uses(e) \subseteq d'[q].confirmed
      BY <2>1, <2>5 DEF ConfirmationOK
    <3>2. d'[q].pc = "auto" => \A c \in e.decisions, a \in d'[q].autos : c[1] # a[1]
      <4>1. d'[q].pc = "auto" => Uses(e) \subseteq d[q].confirmed
        BY <2>1, <2>5 DEF ConfirmationOK, Finished
      <4> QED
        BY <2>5, <4>1 DEF Uses
    <3> QED
      BY <2>1, <2>3, <2>5, <3>1, <3>2 DEF ConfirmationOK
  <2>6. d[q].pc \notin Undecided
    BY <2>1 DEF ConfirmationOK
  <2> QED
    BY <2>2, <2>4, <2>5, <2>6 DEF CarriesTo, FreshAutos
<1> QED
  BY <1>1, <1>2 DEF PostOK

\* What is posted in the step.
LEMMA NewPost ==
  ASSUME TypeInv, TypeInv', AutosOK, [Next]_vars,
         NEW s \in Sessions, NEW e, PostedBy(e.by, s, e)
  PROVE  PostOK(s, e)'
<1> DEFINE q == e.by
<1>1. q \in Requests /\ d[q].pc \in {"relay", "post", "auto"} /\ s = d[q].entry.session
  BY DEF PostedBy
<1>2. d[q].pc # "new" /\ d[q].ctx = tag[s]
  BY <1>1, RequestFacts DEF InSession, HomeOf
<1>3. d'[q].pc # "new" /\ d'[q].ctx = tag'[s]
  BY <1>1, <1>2, ContextKept
<1>4. CarriesTo(d[q], d'[q]) /\ d'[q].pc \notin Undecided
  BY <1>1, NextCarried DEF Carried, PostedBy
<1>5. ASSUME e.type = "user.tool_confirmation"  PROVE ConfirmationOK(s, e)'
  <2>1. CASE /\ d[q].pc = "relay" /\ e.who = "human"
             /\ e.decisions = d[q].entry.pending \X {Decision(d[q].answer)}
             /\ d'[q].pc \notin Finished => d[q].entry.pending \subseteq d'[q].confirmed
             /\ d'[q].pc # "auto"
    <3>1. \A c \in e.decisions : /\ c[1] \in d[q].entry.pending
                                 /\ c[2] = Decision(d[q].answer)
                                 /\ c = <<c[1], c[2]>>
      BY <2>1
    <3>2. OneResult(e.decisions)
      BY <3>1 DEF OneResult
    <3>3. d'[q].pc \notin Finished => Uses(e) \subseteq d'[q].confirmed
      BY <2>1, <3>1 DEF Uses
    <3>4. d'[q].answer = d[q].answer
      BY <1>4, <2>1 DEF CarriesTo
    <3>5. \A c \in e.decisions : c[2] = "allow" => d'[q].answer = "approve"
      BY <3>1, <3>4 DEF Decision
    <3> QED
      BY <1>4, <2>1, <3>2, <3>3, <3>5 DEF ConfirmationOK
  <2>2. CASE /\ d[q].pc = "auto" /\ e.who = "rule"
             /\ e.decisions = d[q].autos /\ d'[q].pc # "auto"
    <3>1. /\ OneResult(e.decisions)
          /\ \A c \in e.decisions : c[1] \in d[q].confirmed /\ Ruling(log[s], c)
      BY <1>1, <2>2 DEF AutosOK
    <3>2. \A c \in e.decisions : Ruling(log'[s], c)
      BY <3>1, NextGrows, RulingKept
    <3>3. d'[q].pc \notin Finished => d[q].confirmed \subseteq d'[q].confirmed
      BY <1>4, <2>2 DEF CarriesTo, Undecided
    <3>4. d'[q].pc \notin Finished => Uses(e) \subseteq d'[q].confirmed
      BY <3>1, <3>3 DEF Uses
    <3> QED
      BY <1>4, <2>2, <3>1, <3>2, <3>4 DEF ConfirmationOK
  <2> QED
    BY <1>5, <2>1, <2>2 DEF PostedBy
<1> QED
  BY <1>1, <1>3, <1>5 DEF PostOK

\* A request does not confirm again what it has confirmed.
LEMMA NewConfirmsOthers ==
  ASSUME NEW s \in Sessions, NEW e, NEW f, PostedBy(e.by, s, e), PostOK(s, f),
         e.type = "user.tool_confirmation", f.type = "user.tool_confirmation",
         e.by = f.by
  PROVE  Uses(e) \intersect Uses(f) = {}
<1>1. ConfirmationOK(s, f)
  BY DEF PostOK
<1>2. d[e.by].pc = "auto" /\ e.decisions = d[e.by].autos
  BY <1>1 DEF ConfirmationOK, PostedBy, Undecided
<1> QED
  BY <1>1, <1>2 DEF ConfirmationOK, Uses

LEMMA InitPostInv == Init => PostInv
<1> SUFFICES ASSUME Init PROVE PostInv
  OBVIOUS
<1>1. TypeInv
  BY InitTypeInv
<1>2. \A s \in Sessions : Positions(log[s]) = {}
  BY DEF Init, AgentInit, Positions
<1>3. \A r \in Requests : d[r].pc = "new"
  BY DEF Init, Fresh
<1> QED
  BY <1>1, <1>2, <1>3 DEF PostInv, PostsOK, AutosOK, ConfirmedOnce, Relayed, Of

\* PostInv is inductive.
LEMMA NextPostInv == PostInv /\ [Next]_vars => PostInv'
<1> SUFFICES ASSUME PostInv, [Next]_vars PROVE PostInv'
  OBVIOUS
<1>1. TypeInv /\ TypeInv'
  BY NextTypeInv DEF PostInv
<1>2. Grows
  BY <1>1, NextGrows
<1>3. \A s \in Sessions : Len(log[s]) \in Nat /\ Len(log'[s]) \in Nat
  BY <1>1, LenProperties DEF TypeInv, TypeOK
<1>4. PostsOK'
  <2> SUFFICES ASSUME NEW s \in Sessions, NEW i \in Positions(log'[s]),
                      log'[s][i].type \in PostTypes
               PROVE  PostOK(s, log[s][i])'
    BY DEF PostsOK
  <2>1. PICK e : e = log'[s][i]
    OBVIOUS
  <2>2. CASE i \in Positions(log[s])
    <3>1. PostOK(s, e)
      BY <1>2, <2>1, <2>2 DEF PostInv, PostsOK, Grows
    <3>2. PostOK(s, e)'
      BY <1>1, <3>1, OldPost
    <3> QED
      BY <2>1, <3>2
  <2>3. CASE i \notin Positions(log[s])
    <3>1. PostedBy(e.by, s, e)
      BY <1>2, <2>1, <2>3 DEF Grows
    <3>2. PostOK(s, e)'
      BY <1>1, <3>1, NewPost DEF PostInv
    <3> QED
      BY <2>1, <3>2
  <2> QED
    BY <2>2, <2>3
<1>5. AutosOK'
  <2> SUFFICES ASSUME NEW r \in Requests, d'[r].pc = "auto"
               PROVE  /\ OneResult(d'[r].autos)
                      /\ \A a \in d'[r].autos :
                           a[1] \in d'[r].confirmed /\ Ruling(log'[d'[r].entry.session], a)
    BY DEF AutosOK
  <2>1. PICK s : s = d'[r].entry.session
    OBVIOUS
  <2>2. s \in Sessions
    BY <1>1, <2>1 DEF TypeInv, Housed, RequestHoused, InSession, HomeOf
  <2>3. CarriesTo(d[r], d'[r])
    BY <1>1, NextCarried DEF Carried
  <2>4. /\ OneResult(d'[r].autos)
        /\ \A a \in d'[r].autos : a[1] \in d'[r].confirmed /\ Ruling(log[s], a)
    <3>1. CASE d'[r] = d[r]
      BY <2>1, <3>1 DEF PostInv, AutosOK
    <3>2. CASE FreshAutos(d[r], d'[r], log[d'[r].entry.session])
      BY <2>1, <3>2 DEF FreshAutos
    <3> QED
      BY <2>3, <3>1, <3>2 DEF CarriesTo, Undecided
  <2>5. \A a \in d'[r].autos : Ruling(log'[s], a)
    BY <1>1, <1>2, <2>2, <2>4, RulingKept
  <2> QED
    BY <2>1, <2>4, <2>5
<1>6. ConfirmedOnce'
  <2> SUFFICES ASSUME NEW s \in Sessions, NEW i \in Relayed(log'[s]), NEW j \in Relayed(log'[s]),
                      log'[s][i].by = log'[s][j].by,
                      Uses(log'[s][i]) \intersect Uses(log'[s][j]) # {}
               PROVE  i = j
    BY DEF ConfirmedOnce
  <2>1. \A m \in Relayed(log'[s]) :
          m \in Positions(log'[s]) /\ log'[s][m].type = "user.tool_confirmation"
    BY DEF Relayed, Of
  <2>2. \A m \in Relayed(log'[s]) : m \in Positions(log[s]) =>
          m \in Relayed(log[s]) /\ log'[s][m] = log[s][m] /\ PostOK(s, log'[s][m])
    BY <1>2, <2>1 DEF Grows, PostInv, PostsOK, PostTypes, Relayed, Of
  <2>3. \A m \in Relayed(log'[s]) : m \notin Positions(log[s]) =>
          m = Len(log[s]) + 1 /\ PostedBy(log'[s][m].by, s, log'[s][m])
    BY <1>2, <2>1 DEF Grows, PostTypes
  <2>4. ASSUME NEW m \in Relayed(log'[s]), NEW n \in Relayed(log'[s]),
               m \notin Positions(log[s]), n \in Positions(log[s]),
               log'[s][m].by = log'[s][n].by
        PROVE  Uses(log'[s][m]) \intersect Uses(log'[s][n]) = {}
    <3>1. PICK e : e = log'[s][m]
      OBVIOUS
    <3>2. PICK f : f = log'[s][n]
      OBVIOUS
    <3>3. /\ PostedBy(e.by, s, e) /\ PostOK(s, f) /\ e.by = f.by
          /\ e.type = "user.tool_confirmation" /\ f.type = "user.tool_confirmation"
      BY <2>1, <2>2, <2>3, <2>4, <3>1, <3>2
    <3>4. Uses(e) \intersect Uses(f) = {}
      BY <3>3, NewConfirmsOthers
    <3> QED
      BY <3>1, <3>2, <3>4
  <2>5. CASE i \in Positions(log[s]) /\ j \in Positions(log[s])
    BY <2>2, <2>5 DEF PostInv, ConfirmedOnce
  <2>6. CASE i \notin Positions(log[s]) /\ j \notin Positions(log[s])
    BY <2>3, <2>6
  <2> QED
    BY <2>4, <2>5, <2>6
<1> QED
  BY <1>1, <1>4, <1>5, <1>6 DEF PostInv

\* Nothing is posted to the session of another conversation.
THEOREM PostsStay == Spec => []PostsStayInContext
<1>1. PostInv => PostsStayInContext
  BY DEF PostInv, PostsOK, PostOK, PostsStayInContext, PostTypes, Of
<1> QED
  BY <1>1, InitPostInv, NextPostInv, PTL DEF Spec

\* Nothing is allowed, or decided by a rule, without the sanction it needs.
THEOREM OnlySanctioned == Spec => []DecisionsAreSanctioned
<1>1. PostInv => DecisionsAreSanctioned
  <2> SUFFICES ASSUME PostInv, NEW s \in Sessions, NEW i \in Relayed(log[s])
               PROVE  LET e == log[s][i] IN
                      \A c \in e.decisions :
                        /\ e.who = "human" /\ c[2] = "allow" => d[e.by].answer = "approve"
                        /\ e.who = "rule" =>
                             c[2] \in {Resolve(ToolOf(log[s], c[1])), Resolve(NoTool)}
    BY DEF DecisionsAreSanctioned
  <2>1. ConfirmationOK(s, log[s][i])
    BY DEF PostInv, PostsOK, PostOK, PostTypes, Relayed, Of
  <2> QED
    BY <2>1 DEF ConfirmationOK, Ruling
<1> QED
  BY <1>1, InitPostInv, NextPostInv, PTL DEF Spec

\* No request confirms a use twice.
THEOREM ConfirmsOnce == Spec => []NoRequestConfirmsTwice
<1>1. PostInv => NoRequestConfirmsTwice
  <2> SUFFICES ASSUME PostInv, NEW s \in Sessions, NEW i \in Relayed(log[s]),
                      NEW j \in Relayed(log[s]),
                      NEW c \in log[s][i].decisions, NEW e \in log[s][j].decisions,
                      c[1] = e[1], log[s][i].by = log[s][j].by
               PROVE  i = j /\ c = e
    BY DEF NoRequestConfirmsTwice
  <2>1. c[1] \in Uses(log[s][i]) /\ c[1] \in Uses(log[s][j])
    BY DEF Uses
  <2>2. i = j
    BY <2>1 DEF PostInv, ConfirmedOnce
  <2>3. ConfirmationOK(s, log[s][i])
    BY DEF PostInv, PostsOK, PostOK, PostTypes, Relayed, Of
  <2> QED
    BY <2>2, <2>3 DEF ConfirmationOK, OneResult
<1> QED
  BY <1>1, InitPostInv, NextPostInv, PTL DEF Spec
=============================================================================
