------------------------------ MODULE GateProofs ------------------------------
(***************************************************************************)
(* Theorems about conversations that take one message at a time.           *)
(*                                                                         *)
(* In the first part the writes of the cache succeed, and anything else    *)
(* may fail.  Moves says what a step makes of a request and of the cache   *)
(* entry of its context; every invariant below follows from it, without a  *)
(* second look at the actions.                                             *)
(*                                                                         *)
(* In the second part calls fail and agents break, but no replica crashes, *)
(* no answer is lost and no TTL lapses.                                    *)
(***************************************************************************)
EXTENDS GateRefinement, HistoryProofs

NoEntry == Cache!NoEntry

----------------------------------------------------------------------------
(* The program of a request, as far as the cache is concerned: `was' and   *)
(* `is' are the entry of its context before and after the step.            *)

\* Finding a session.
Opens(old, new, was, is) ==
  \/ /\ old.pc = "load" /\ is = was /\ new.entry = was
     /\ was = NoEntry => new.pc \in {"recover", "create"}
     /\ was # NoEntry => new.pc = Branch(was)
  \/ old.pc = "recover" /\ is = was /\ new.pc \in {"rebuild", "create"}
  \/ old.pc = "rebuild" /\ is = was /\ new.pc \in {"adopt", "create"}
  \/ /\ old.pc = "adopt" /\ new.pc = Branch(old.entry)
     /\ new.entry = old.entry /\ is = old.entry
  \/ /\ old.pc = "create" /\ new.pc = "register"
     /\ new.entry.pending = {} /\ is = was
  \/ /\ old.pc = "register" /\ new.pc = "post" /\ new.entry = old.entry
     /\ is = IF was = NoEntry THEN old.entry ELSE was

\* Taking the message for a decision.
Resumes(old, new, was, is) ==
  \/ /\ <<old.pc, new.pc>> \in {<<"classify", "relay">>, <<"relay", "clear">>}
     /\ new.entry = old.entry /\ is = was
  \/ /\ old.pc = "clear" /\ new.pc = "poll"
     /\ new.entry = [old.entry EXCEPT !.pending = {}] /\ is = new.entry

\* Posting the message and polling.
Works(old, new, was, is) ==
  /\ new.entry = old.entry /\ is = was
  /\ \/ old.pc = "post" /\ new.pc = "poll"
     \/ /\ old.pc \in {"poll", "auto"}
        /\ \/ new.pc \in {"poll", "auto"}
           \/ new.pc = "park" /\ new.deferred # {}
           \/ new.pc = "persist" /\ new.outcome # "INPUT_REQUIRED"

\* Parking what is left to the human, and the end of the turn.
Ends(old, new, was, is) ==
  \/ /\ old.pc = "park" /\ new.pc = "persist" /\ new.outcome = "INPUT_REQUIRED"
     /\ new.deferred = old.deferred
     /\ new.entry = [old.entry EXCEPT !.pending = old.deferred] /\ is = new.entry
  \/ /\ <<old.pc, new.pc>> \in
           {<<"persist", "save">>, <<"save", "respond">>, <<"respond", "done">>}
     /\ new.entry = old.entry /\ new.outcome = old.outcome /\ new.deferred = old.deferred
     /\ is = IF old.pc = "save" THEN old.entry ELSE was

\* A call that fails.
Fails(old, new, was, is) ==
  /\ old.pc \in {"create", "relay", "post", "poll", "auto"} /\ new.pc = "error"
  /\ is = was

Moves(old, new, was, is) ==
  \/ Opens(old, new, was, is) \/ Resumes(old, new, was, is)
  \/ Works(old, new, was, is) \/ Ends(old, new, was, is)
  \/ Fails(old, new, was, is)

\* A step of r touches its own record and the entry of its own context only.
Local(r) ==
  /\ d'[r].ctx = d[r].ctx
  /\ \A q \in Requests \ {r} : d'[q] = d[q]
  /\ \A c \in Contexts \ {d[r].ctx} : store'[c] = store[c]

MovesOn(r) == Local(r) /\ Moves(d[r], d'[r], store[d[r].ctx], store'[d[r].ctx])

----------------------------------------------------------------------------
(* Each step of a request is a move. *)

\* A step that leaves the cache alone.
LEMMA Untouched ==
  ASSUME TypeInv, NEW r \in Requests, NEW rec, rec.ctx = d[r].ctx,
         d' = [d EXCEPT ![r] = rec], UNCHANGED store
  PROVE  d'[r] = rec /\ Local(r) /\ store'[d[r].ctx] = store[d[r].ctx]
  BY DEF Local, TypeInv, TypeOK

\* A step that writes the entry.
LEMMA Written ==
  ASSUME TypeInv, NEW r \in Requests, d[r].ctx \in Contexts, NEW rec, rec.ctx = d[r].ctx,
         d' = [d EXCEPT ![r] = rec], NEW e, store' = [store EXCEPT ![d[r].ctx] = e]
  PROVE  d'[r] = rec /\ Local(r) /\ store'[d[r].ctx] = e
  BY DEF Local, TypeInv, TypeOK

\* A request that leaves keeps its entry, what it deferred, and its outcome.
LEMMA LeaveMoves ==
  ASSUME TypeInv, NEW r \in Requests, NEW pc, Leave(r, pc), UNCHANGED store
  PROVE  /\ Local(r) /\ store'[d[r].ctx] = store[d[r].ctx]
         /\ d'[r].pc = pc /\ d'[r].entry = d[r].entry
         /\ d'[r].deferred = d[r].deferred /\ d'[r].outcome = d[r].outcome
<1> DEFINE rec == [d[r] EXCEPT !.pc = pc, !.supplied = FALSE, !.confirmed = {},
                               !.anchor = NoAnchor, !.polls = 0, !.autos = {}, !.read = 0]
<1>1. d' = [d EXCEPT ![r] = rec]
  BY DEF Leave
<1>2. /\ rec.ctx = d[r].ctx /\ rec.pc = pc /\ rec.entry = d[r].entry
      /\ rec.deferred = d[r].deferred /\ rec.outcome = d[r].outcome
  BY RequestFacts DEF Request
<1> HIDE DEF rec
<1> QED
  BY <1>1, <1>2, Untouched

\* A call that fails, or is refused, or whose answer is lost.
LEMMA FailureMoves ==
  ASSUME TypeInv, NEW r \in Requests, Leave(r, "error"), UNCHANGED store,
         d[r].pc \in {"create", "relay", "post", "poll", "auto"}
  PROVE  MovesOn(r)
  BY LeaveMoves DEF MovesOn, Moves, Fails

\* A request that only moves on.
LEMMA GoMoves ==
  ASSUME TypeInv, NEW r \in Requests, NEW pc, Go(r, pc)
  PROVE  /\ \A q \in Requests \ {r} : d'[q] = d[q]
         /\ d'[r].pc = pc /\ d'[r].ctx = d[r].ctx /\ d'[r].entry = d[r].entry
         /\ d'[r].deferred = d[r].deferred /\ d'[r].outcome = d[r].outcome
<1> DEFINE rec == [d[r] EXCEPT !.pc = pc]
<1>1. /\ rec.pc = pc /\ rec.ctx = d[r].ctx /\ rec.entry = d[r].entry
      /\ rec.deferred = d[r].deferred /\ rec.outcome = d[r].outcome
  BY RequestFacts DEF Request
<1>2. d' = [d EXCEPT ![r] = rec]
  BY DEF Go
<1> HIDE DEF rec
<1>3. d'[r] = rec /\ \A q \in Requests \ {r} : d'[q] = d[q]
  BY <1>2 DEF TypeInv, TypeOK
<1> QED
  BY <1>1, <1>3

\* Without storage faults every write of the cache takes effect.
LEMMA NoLostWrite ==
  ASSUME "storage" \notin FaultKinds, NEW failed \in BOOLEAN, Storage(failed)
  PROVE  failed = FALSE
  BY DEF Storage, Fault

LEMMA OpensMoves ==
  ASSUME TypeInv, "storage" \notin FaultKinds, NEW r \in Requests,
         \/ LoadSession(r) \/ FindSession(r) \/ RebuildSession(r)
         \/ AdoptSession(r) \/ CreateSession(r) \/ RegisterSession(r)
  PROVE  MovesOn(r)
<1> USE RequestFacts
<1>0. ASSUME Local(r), Opens(d[r], d'[r], store[d[r].ctx], store'[d[r].ctx])
      PROVE  MovesOn(r)
  BY <1>0 DEF MovesOn, Moves
<1>1. CASE LoadSession(r)
  <2>1. PICK failed \in BOOLEAN :
          LET e == Cache!Load(d[r].ctx, failed) IN
          /\ Storage(failed)
          /\ d' = [d EXCEPT
               ![r].entry = e,
               ![r].pc = IF e # Cache!NoEntry THEN Branch(e)
                         ELSE IF RecoveryEnabled /\ d[r].supplied THEN "recover"
                         ELSE "create"]
    BY <1>1 DEF LoadSession
  <2> DEFINE e  == store[d[r].ctx]
             pc == IF e # NoEntry THEN Branch(e)
                   ELSE IF RecoveryEnabled /\ d[r].supplied THEN "recover" ELSE "create"
             rec == [d[r] EXCEPT !.entry = e, !.pc = pc]
  <2>2. failed = FALSE
    BY <2>1, NoLostWrite
  <2>3. d' = [d EXCEPT ![r] = rec]
    BY <2>1, <2>2 DEF Cache!Load, NoEntry
  <2>4. d[r].pc = "load" /\ UNCHANGED store
    BY <1>1 DEF LoadSession, At
  <2>5. /\ e = NoEntry => pc \in {"recover", "create"}
        /\ e # NoEntry => pc = Branch(e)
    OBVIOUS
  <2> HIDE DEF e, pc
  <2>6. rec.ctx = d[r].ctx /\ rec.entry = e /\ rec.pc = pc
    BY DEF Request
  <2> HIDE DEF rec
  <2>7. d'[r] = rec /\ Local(r) /\ store'[d[r].ctx] = e
    BY <2>3, <2>4, <2>6, Untouched DEF e
  <2> QED
    BY <1>0, <2>4, <2>5, <2>6, <2>7 DEF Opens, e
<1>2. CASE FindSession(r)
  <2>1. d[r].pc = "recover" /\ UNCHANGED store
    BY <1>2 DEF FindSession, At
  <2>2. CASE Go(r, "create")
    <3>1. Local(r) /\ d'[r].pc = "create" /\ store'[d[r].ctx] = store[d[r].ctx]
      BY <2>1, <2>2, GoMoves DEF Local
    <3> QED
      BY <1>0, <2>1, <3>1 DEF Opens
  <2>3. CASE d' = [d EXCEPT ![r].pc = "rebuild",
                            ![r].entry.session = Largest(Recoverable(d[r].ctx))]
    <3> DEFINE e   == [d[r].entry EXCEPT !.session = Largest(Recoverable(d[r].ctx))]
               rec == [d[r] EXCEPT !.pc = "rebuild", !.entry = e]
    <3>1. d' = [d EXCEPT ![r] = rec]
      BY <2>3
    <3> HIDE DEF e
    <3>2. rec.pc = "rebuild" /\ rec.ctx = d[r].ctx
      BY DEF Request
    <3> HIDE DEF rec
    <3>3. d'[r] = rec /\ Local(r) /\ store'[d[r].ctx] = store[d[r].ctx]
      BY <2>1, <3>1, <3>2, Untouched
    <3> QED
      BY <1>0, <2>1, <3>2, <3>3 DEF Opens
  <2> QED
    BY <1>2, <2>2, <2>3 DEF FindSession
<1>3. CASE RebuildSession(r)
  <2> DEFINE h == log[d[r].entry.session]
  <2>1. d[r].pc = "rebuild" /\ UNCHANGED store
    BY <1>3 DEF RebuildSession, At
  <2>2. PICK pc \in {"adopt", "create"} :
          \E e : d' = [d EXCEPT ![r] = [@ EXCEPT !.pc = pc, !.entry = e]]
    <3>1. ASSUME NEW k \in VisiblePrefixes(h),
                 d' = [d EXCEPT ![r].pc = "adopt",
                      ![r].entry.pending =
                         DecidedAs(h, 1..k, LastStatus(h, 1..k).ids, "defer")]
          PROVE  \E e : d' = [d EXCEPT ![r] = [@ EXCEPT !.pc = "adopt", !.entry = e]]
      <4> DEFINE e == [d[r].entry EXCEPT !.pending =
                         DecidedAs(h, 1..k, LastStatus(h, 1..k).ids, "defer")]
      <4>1. d' = [d EXCEPT ![r] = [@ EXCEPT !.pc = "adopt", !.entry = e]]
        BY <3>1
      <4> QED
        BY <4>1
    <3>2. CASE d' = [d EXCEPT ![r].pc = "create", ![r].entry = Cache!NoEntry]
      BY <3>2
    <3> QED
      BY <1>3, <3>1, <3>2 DEF RebuildSession
  <2>3. PICK e : d' = [d EXCEPT ![r] = [@ EXCEPT !.pc = pc, !.entry = e]]
    BY <2>2
  <2> DEFINE rec == [d[r] EXCEPT !.pc = pc, !.entry = e]
  <2>4. rec.pc = pc /\ rec.ctx = d[r].ctx /\ d' = [d EXCEPT ![r] = rec]
    BY <2>3 DEF Request
  <2> HIDE DEF rec
  <2>5. d'[r] = rec /\ Local(r) /\ store'[d[r].ctx] = store[d[r].ctx]
    BY <2>1, <2>4, Untouched
  <2> QED
    BY <1>0, <2>1, <2>4, <2>5 DEF Opens
<1>4. CASE AdoptSession(r)
  <2>1. d[r].pc = "adopt" /\ d[r].ctx \in Contexts
    BY <1>4 DEF AdoptSession, At
  <2>2. store' = [store EXCEPT ![d[r].ctx] = d[r].entry]
    BY <1>4, NoLostWrite DEF AdoptSession, Cache!Save
  <2>3. Local(r) /\ store'[d[r].ctx] = d[r].entry
    BY <1>4, <2>1, <2>2, GoMoves DEF AdoptSession, Local, TypeInv, TypeOK
  <2>4. d'[r].pc = Branch(d[r].entry) /\ d'[r].entry = d[r].entry
    BY <1>4, GoMoves DEF AdoptSession
  <2> QED
    BY <1>0, <2>1, <2>3, <2>4 DEF Opens
<1>5. CASE CreateSession(r)
  <2>1. d[r].pc = "create" /\ UNCHANGED store
    BY <1>5 DEF CreateSession, At, CallFails
  <2>2. CASE Leave(r, "error")
    BY <2>1, <2>2, FailureMoves
  <2>3. ASSUME NEW s \in Sessions,
               d' = [d EXCEPT ![r] = [@ EXCEPT !.pc = "register",
                                      !.entry = [session |-> s, pending |-> {}]]]
        PROVE  MovesOn(r)
    <3> DEFINE e   == [session |-> s, pending |-> {}]
               rec == [d[r] EXCEPT !.pc = "register", !.entry = e]
    <3>1. d' = [d EXCEPT ![r] = rec]
      BY <2>3
    <3>2. e.pending = {}
      OBVIOUS
    <3> HIDE DEF e
    <3>3. rec.pc = "register" /\ rec.ctx = d[r].ctx /\ rec.entry = e
      BY DEF Request
    <3> HIDE DEF rec
    <3>4. d'[r] = rec /\ Local(r) /\ store'[d[r].ctx] = store[d[r].ctx]
      BY <2>1, <3>1, <3>3, Untouched
    <3> QED
      BY <1>0, <2>1, <3>2, <3>3, <3>4 DEF Opens
  <2> QED
    BY <1>5, <2>2, <2>3 DEF CreateSession, Posted, CallFails
<1>6. CASE RegisterSession(r)
  <2> DEFINE c == d[r].ctx
             e == IF store[c] = NoEntry THEN d[r].entry ELSE store[c]
  <2>1. d[r].pc = "register" /\ c \in Contexts
    BY <1>6 DEF RegisterSession, At
  <2>2. store' = [store EXCEPT ![c] = e]
    BY <1>6, NoLostWrite DEF RegisterSession, Cache!Create, Cache!Present, NoEntry, TypeInv, TypeOK
  <2>3. Local(r) /\ store'[c] = e
    BY <1>6, <2>1, <2>2, GoMoves DEF RegisterSession, Local, TypeInv, TypeOK
  <2>4. d'[r].pc = "post" /\ d'[r].entry = d[r].entry
    BY <1>6, GoMoves DEF RegisterSession
  <2> QED
    BY <1>0, <2>1, <2>3, <2>4 DEF Opens
<1> QED
  BY <1>1, <1>2, <1>3, <1>4, <1>5, <1>6

LEMMA ResumesMoves ==
  ASSUME TypeInv, "storage" \notin FaultKinds, NEW r \in Requests,
         Classify(r) \/ RelayDecision(r) \/ ClearPending(r)
  PROVE  MovesOn(r)
<1> USE RequestFacts
<1>0. ASSUME Local(r), Resumes(d[r], d'[r], store[d[r].ctx], store'[d[r].ctx])
      PROVE  MovesOn(r)
  BY <1>0 DEF MovesOn, Moves
<1>1. CASE Classify(r)
  <2>1. PICK answer : d' = [d EXCEPT ![r] = [@ EXCEPT !.answer = answer, !.pc = "relay"]]
    BY <1>1 DEF Classify
  <2>2. d[r].pc = "classify" /\ UNCHANGED store
    BY <1>1 DEF Classify, At
  <2> DEFINE rec == [d[r] EXCEPT !.answer = answer, !.pc = "relay"]
  <2>3. rec.pc = "relay" /\ rec.ctx = d[r].ctx /\ rec.entry = d[r].entry
    BY DEF Request
  <2>4. d' = [d EXCEPT ![r] = rec]
    BY <2>1
  <2> HIDE DEF rec
  <2>5. d'[r] = rec /\ Local(r) /\ store'[d[r].ctx] = store[d[r].ctx]
    BY <2>2, <2>3, <2>4, Untouched
  <2> QED
    BY <1>0, <2>2, <2>3, <2>5 DEF Resumes
<1>2. CASE RelayDecision(r)
  <2> DEFINE pending == d[r].entry.pending
             rec     == [d[r] EXCEPT !.pc = "clear", !.confirmed = @ \union pending]
  <2>1. d[r].pc = "relay" /\ UNCHANGED store
    BY <1>2 DEF RelayDecision, At, CallFails, Rejected
  <2>2. CASE Leave(r, "error")
    BY <2>1, <2>2, FailureMoves
  <2>3. CASE d' = [d EXCEPT ![r] = rec]
    <3> HIDE DEF pending
    <3>1. rec.pc = "clear" /\ rec.ctx = d[r].ctx /\ rec.entry = d[r].entry
      BY DEF Request
    <3> HIDE DEF rec
    <3>2. d'[r] = rec /\ Local(r) /\ store'[d[r].ctx] = store[d[r].ctx]
      BY <2>1, <2>3, <3>1, Untouched
    <3> QED
      BY <1>0, <2>1, <3>1, <3>2 DEF Resumes
  <2> QED
    BY <1>2, <2>2, <2>3 DEF RelayDecision, Posted, CallFails, Rejected
<1>3. CASE ClearPending(r)
  <2> DEFINE e   == [d[r].entry EXCEPT !.pending = {}]
             rec == [d[r] EXCEPT !.entry = e, !.pc = "poll", !.polls = Polls]
  <2>1. d[r].pc = "clear" /\ d[r].ctx \in Contexts
    BY <1>3 DEF ClearPending, At
  <2>2. store' = [store EXCEPT ![d[r].ctx] = e]
    BY <1>3, NoLostWrite DEF ClearPending, Cache!Save
  <2>3. d' = [d EXCEPT ![r] = rec]
    BY <1>3 DEF ClearPending
  <2> HIDE DEF e
  <2>4. rec.pc = "poll" /\ rec.ctx = d[r].ctx /\ rec.entry = e
    BY DEF Request
  <2> HIDE DEF rec
  <2>5. d'[r] = rec /\ Local(r) /\ store'[d[r].ctx] = e
    BY <2>1, <2>2, <2>3, <2>4, Written
  <2> QED
    BY <1>0, <2>1, <2>4, <2>5 DEF Resumes, e
<1> QED
  BY <1>1, <1>2, <1>3

\* An id that is neither allowed nor denied by the rules is deferred.
LEMMA EveryIdIsDecided ==
  ASSUME NEW h, NEW slice, NEW ids
  PROVE  \A id \in ids :
           \E action \in {"allow", "deny", "defer"} : id \in DecidedAs(h, slice, ids, action)
<1>1. \A key : Resolve(key) \in {"allow", "deny", "defer"}
  BY DEF Resolve, Parse
<1> QED
  BY <1>1 DEF DecidedAs

\* A poll leaves the entry alone; it parks only when there is something to defer,
\* and ends the turn otherwise with an outcome of its own.
LEMMA InterpretMoves ==
  ASSUME NEW rec \in Request, rec.pc = "poll", NEW h \in Seq(Event), NEW k \in 0..Len(h)
  PROVE  LET new == Interpret(rec, h, k) IN
         \/ new.pc \in {"poll", "auto"}
         \/ new.pc = "park" /\ new.deferred # {}
         \/ new.pc = "persist" /\ new.outcome # "INPUT_REQUIRED"
<1> DEFINE turn   == CurrentTurn(h, k, rec.anchor)
           status == LastStatus(h, turn)
           at     == status.at
           ids    == status.ids \ rec.confirmed
           new    == Interpret(rec, h, k)
<1>1. \/ new \in {Conclude(rec, "COMPLETED", at), Conclude(rec, "FAILED", at), NextPoll(rec)}
      \/ ids # {} /\ new = GateTools(rec, h, turn, ids, at)
  BY DEF Interpret
<1> HIDE DEF new, turn, status
<1>2. ASSUME NEW state \in {"COMPLETED", "FAILED"}, new = Conclude(rec, state, at)
      PROVE  new.pc = "persist" /\ new.outcome # "INPUT_REQUIRED"
  <2>1. new.pc = "persist" /\ new.outcome = state
    BY <1>2 DEF Conclude, Request
  <2> QED
    BY <2>1
<1>3. CASE new = NextPoll(rec)
  BY <1>3 DEF NextPoll, Request, new
<1>4. CASE ids # {} /\ new = GateTools(rec, h, turn, ids, at)
  <2> DEFINE allows    == DecidedAs(h, turn, ids, "allow")
             denies    == DecidedAs(h, turn, ids, "deny")
             autos     == (allows \X {"allow"}) \union (denies \X {"deny"})
             deferred  == DecidedAs(h, turn, ids, "defer")
             confirmed == rec.confirmed \union {a[1] : a \in autos}
             pc        == IF autos # {} THEN "auto" ELSE "park"
  <2>1. autos = {} => deferred # {}
    <3>1. \A id \in allows : <<id, "allow">> \in autos
      OBVIOUS
    <3>2. \A id \in denies : <<id, "deny">> \in autos
      OBVIOUS
    <3>3. PICK id \in ids : TRUE
      BY <1>4
    <3>4. id \in allows \/ id \in denies \/ id \in deferred
      BY EveryIdIsDecided
    <3> HIDE DEF allows, denies, autos, deferred
    <3> QED
      BY <3>1, <3>2, <3>4
  <2>2. GateTools(rec, h, turn, ids, at) =
          [rec EXCEPT !.autos = autos, !.deferred = deferred, !.read = at,
                      !.confirmed = confirmed, !.pc = pc]
    BY DEF GateTools
  <2> HIDE DEF autos, deferred, confirmed, at
  <2>3. pc = "auto" \/ (pc = "park" /\ autos = {})
    OBVIOUS
  <2> HIDE DEF pc
  <2> DEFINE gated == [rec EXCEPT !.autos = autos, !.deferred = deferred, !.read = at,
                                  !.confirmed = confirmed, !.pc = pc]
  <2>5. gated.pc = pc /\ gated.deferred = deferred
    BY DEF Request
  <2> HIDE DEF gated
  <2>4. new.pc = pc /\ new.deferred = deferred
    BY <1>4, <2>2, <2>5 DEF gated
  <2> QED
    BY <2>1, <2>3, <2>4 DEF new
<1> QED
  BY <1>1, <1>2, <1>3, <1>4 DEF new

LEMMA WorksMoves ==
  ASSUME TypeInv, NEW r \in Requests, SendMessage(r) \/ Poll(r) \/ RelayAutos(r)
  PROVE  MovesOn(r)
<1> USE RequestFacts
<1>0. ASSUME Local(r), Works(d[r], d'[r], store[d[r].ctx], store'[d[r].ctx])
      PROVE  MovesOn(r)
  BY <1>0 DEF MovesOn, Moves
<1>1. d[r].pc \in {"post", "poll", "auto"} /\ UNCHANGED store
  BY DEF SendMessage, Poll, RelayAutos, At, CallFails, Rejected
<1>2. CASE Leave(r, "error")
  BY <1>1, <1>2, FailureMoves
<1>3. CASE SendMessage(r) /\ ~Leave(r, "error")
  <2> DEFINE s      == d[r].entry.session
             anchor == IF Echoes THEN Len(log[s]) + 1 ELSE NoAnchor
             rec    == [d[r] EXCEPT !.pc = "poll", !.polls = Polls, !.anchor = anchor]
  <2>1. d[r].pc = "post" /\ d' = [d EXCEPT ![r] = rec]
    BY <1>3 DEF SendMessage, At, Posted, CallFails, Rejected
  <2> HIDE DEF anchor
  <2>2. rec.pc = "poll" /\ rec.ctx = d[r].ctx /\ rec.entry = d[r].entry
    BY DEF Request
  <2> HIDE DEF rec
  <2>3. d'[r] = rec /\ Local(r) /\ store'[d[r].ctx] = store[d[r].ctx]
    BY <1>1, <2>1, <2>2, Untouched
  <2> QED
    BY <1>0, <2>1, <2>2, <2>3 DEF Works
<1>4. CASE Poll(r) /\ ~Leave(r, "error")
  <2> DEFINE h == log[d[r].entry.session]
  <2>1. d[r].pc = "poll"
    BY <1>4 DEF Poll, At
  <2>2. PICK k \in VisiblePrefixes(h) : d' = [d EXCEPT ![r] = Interpret(d[r], h, k)]
    BY <1>4 DEF Poll, CallFails
  <2> DEFINE rec == Interpret(d[r], h, k)
  <2>3. h \in Seq(Event) /\ k \in 0..Len(h)
    BY <2>1 DEF InSession, VisiblePrefixes
  <2>4. rec.ctx = d[r].ctx /\ rec.entry = d[r].entry
    BY <2>3, InterpretType
  <2>5. \/ rec.pc \in {"poll", "auto"}
        \/ rec.pc = "park" /\ rec.deferred # {}
        \/ rec.pc = "persist" /\ rec.outcome # "INPUT_REQUIRED"
    BY <2>1, <2>3, InterpretMoves
  <2>6. d' = [d EXCEPT ![r] = rec]
    BY <2>2
  <2> HIDE DEF rec
  <2>7. d'[r] = rec /\ Local(r) /\ store'[d[r].ctx] = store[d[r].ctx]
    BY <1>1, <2>4, <2>6, Untouched
  <2> QED
    BY <1>0, <2>1, <2>4, <2>5, <2>7 DEF Works
<1>5. CASE RelayAutos(r) /\ ~Leave(r, "error")
  <2> DEFINE some == [d[r] EXCEPT !.autos = {}]
             rec  == IF some.deferred # {} THEN [some EXCEPT !.pc = "park"]
                                           ELSE NextPoll(some)
  <2>1. d[r].pc = "auto" /\ d' = [d EXCEPT ![r] = rec]
    BY <1>5 DEF RelayAutos, At, Posted, CallFails, Rejected
  <2>2. some \in Request /\ some.ctx = d[r].ctx /\ some.entry = d[r].entry
    BY DEF Request
  <2> HIDE DEF some
  <2>3. CASE some.deferred # {}
    <3> DEFINE park == [some EXCEPT !.pc = "park"]
    <3>1. /\ park.pc = "park" /\ park.ctx = d[r].ctx /\ park.entry = d[r].entry
          /\ park.deferred # {}
      BY <2>2, <2>3 DEF Request
    <3> HIDE DEF park
    <3>2. d' = [d EXCEPT ![r] = park]
      BY <2>1, <2>3 DEF park
    <3>3. d'[r] = park /\ Local(r) /\ store'[d[r].ctx] = store[d[r].ctx]
      BY <1>1, <3>1, <3>2, Untouched
    <3> QED
      BY <1>0, <2>1, <3>1, <3>3 DEF Works
  <2>4. CASE some.deferred = {}
    <3> DEFINE next == NextPoll(some)
    <3>1. next.ctx = d[r].ctx /\ next.entry = d[r].entry /\ next.pc \in {"poll", "persist"}
      BY <2>2, NextPollType
    <3>2. next.pc = "persist" => next.outcome # "INPUT_REQUIRED"
      BY <2>2 DEF NextPoll, Request
    <3> HIDE DEF next
    <3>3. d' = [d EXCEPT ![r] = next]
      BY <2>1, <2>4 DEF next
    <3>4. d'[r] = next /\ Local(r) /\ store'[d[r].ctx] = store[d[r].ctx]
      BY <1>1, <3>1, <3>3, Untouched
    <3> QED
      BY <1>0, <2>1, <3>1, <3>2, <3>4 DEF Works
  <2> QED
    BY <2>3, <2>4
<1> QED
  BY <1>2, <1>3, <1>4, <1>5

LEMMA EndsMoves ==
  ASSUME TypeInv, "storage" \notin FaultKinds, NEW r \in Requests,
         ParkDeferred(r) \/ PersistTask(r) \/ SaveSession(r) \/ Respond(r)
  PROVE  MovesOn(r)
<1> USE RequestFacts
<1>0. ASSUME Local(r), Ends(d[r], d'[r], store[d[r].ctx], store'[d[r].ctx])
      PROVE  MovesOn(r)
  BY <1>0 DEF MovesOn, Moves
<1>1. CASE ParkDeferred(r)
  <2> DEFINE e   == [d[r].entry EXCEPT !.pending = d[r].deferred]
             rec == [d[r] EXCEPT !.entry = e, !.outcome = "INPUT_REQUIRED",
                                 !.pc = "persist"]
  <2>1. d[r].pc = "park" /\ d[r].ctx \in Contexts
    BY <1>1 DEF ParkDeferred, At
  <2>2. store' = [store EXCEPT ![d[r].ctx] = e]
    BY <1>1, NoLostWrite DEF ParkDeferred, Cache!Save
  <2>3. d' = [d EXCEPT ![r] = rec]
    BY <1>1 DEF ParkDeferred
  <2> HIDE DEF e
  <2>4. /\ rec.pc = "persist" /\ rec.ctx = d[r].ctx /\ rec.entry = e
        /\ rec.outcome = "INPUT_REQUIRED" /\ rec.deferred = d[r].deferred
    BY DEF Request
  <2> HIDE DEF rec
  <2>5. d'[r] = rec /\ Local(r) /\ store'[d[r].ctx] = e
    BY <2>1, <2>2, <2>3, <2>4, Written
  <2> QED
    BY <1>0, <2>1, <2>4, <2>5 DEF Ends, e
<1>2. CASE PersistTask(r)
  <2>1. d[r].pc = "persist" /\ Go(r, "save") /\ UNCHANGED store
    BY <1>2 DEF PersistTask, At
  <2>2. Local(r)
    BY <2>1, GoMoves DEF Local
  <2> QED
    BY <1>0, <2>1, <2>2, GoMoves DEF Ends
<1>3. CASE SaveSession(r)
  <2>1. d[r].pc = "save" /\ d[r].ctx \in Contexts /\ Go(r, "respond")
    BY <1>3 DEF SaveSession, At
  <2>2. store' = [store EXCEPT ![d[r].ctx] = d[r].entry]
    BY <1>3, NoLostWrite DEF SaveSession, Cache!Save
  <2>3. Local(r) /\ store'[d[r].ctx] = d[r].entry
    BY <2>1, <2>2, GoMoves DEF Local, TypeInv, TypeOK
  <2> QED
    BY <1>0, <2>1, <2>3, GoMoves DEF Ends
<1>4. CASE Respond(r)
  <2>1. d[r].pc = "respond" /\ Leave(r, "done") /\ UNCHANGED store
    BY <1>4 DEF Respond, At
  <2> QED
    BY <1>0, <2>1, LeaveMoves DEF Ends
<1> QED
  BY <1>1, <1>2, <1>3, <1>4

LEMMA StepMoves ==
  ASSUME TypeInv, "storage" \notin FaultKinds, NEW r \in Requests, Step(r)
  PROVE  MovesOn(r)
  BY OpensMoves, ResumesMoves, WorksMoves, EndsMoves DEF Step
----------------------------------------------------------------------------
(* The invariant: a conversation belongs to one request, whose copy of the *)
(* entry is the cached one.                                                *)

\* The steps of a request that found no entry, or has not written its own, and of
\* one that has an entry.
Uncached == {"recover", "rebuild", "adopt", "create", "register"}
Cached   == {"classify", "relay", "clear", "post", "poll", "auto", "park",
             "persist", "save", "respond"}

\* What a request at pc knows of the cached entry, and of its pending tools: while
\* the turn works there are none, and afterwards they are those it parked.
InSync(rec, cached, h) ==
  /\ rec.pc \in Uncached => cached = NoEntry
  /\ rec.pc \in Cached => cached \in {NoEntry, rec.entry}
  /\ rec.pc \in {"classify", "relay"} => rec.entry.pending # {}
  /\ rec.pc \in {"register", "post", "poll", "auto", "park"} => rec.entry.pending = {}
  /\ rec.pc = "clear" => \A u \in rec.entry.pending : Confirmed(h, u)
  /\ rec.pc = "park" => rec.deferred # {}
  /\ rec.pc \in {"persist", "save", "respond"} =>
       IF rec.outcome = "INPUT_REQUIRED"
         THEN rec.entry.pending = rec.deferred /\ rec.deferred # {}
         ELSE rec.entry.pending = {}

Alone ==
  \A q, r \in Requests : Active(q) /\ Active(r) /\ d[q].ctx = d[r].ctx => q = r

Synced == \A r \in Requests : InSync(d[r], store[d[r].ctx], log[d[r].entry.session])

CacheInv == TypeInv /\ Alone /\ Synced

\* A move keeps the request and the cache in step.
LEMMA MoveSync ==
  ASSUME NEW old, NEW new, NEW was \in Entry, NEW is, NEW h, NEW g, old.entry \in Entry,
         InSync(old, was, h), Moves(old, new, was, is),
         new.pc = "clear" => \A u \in old.entry.pending : Confirmed(g, u)
  PROVE  InSync(new, is, g)
<1>1. CASE Opens(old, new, was, is)
  BY <1>1 DEF Opens, Branch, InSync, Uncached, Cached
<1>2. CASE Resumes(old, new, was, is)
  <2>1. [old.entry EXCEPT !.pending = {}].pending = {}
    BY DEF Entry
  <2> QED
    BY <1>2, <2>1 DEF Resumes, InSync, Uncached, Cached
<1>3. CASE Works(old, new, was, is)
  BY <1>3 DEF Works, InSync, Uncached, Cached
<1>4. CASE Ends(old, new, was, is)
  <2>1. [old.entry EXCEPT !.pending = old.deferred].pending = old.deferred
    BY DEF Entry
  <2> QED
    BY <1>4, <2>1 DEF Ends, InSync, Uncached, Cached
<1>5. CASE Fails(old, new, was, is)
  BY <1>5 DEF Fails, InSync, Uncached, Cached
<1> QED
  BY <1>1, <1>2, <1>3, <1>4, <1>5 DEF Moves

\* What is confirmed stays confirmed.
LEMMA ConfirmedKept ==
  ASSUME TypeInv, TypeInv', [Next]_vars, NEW s \in Sessions, NEW u, Confirmed(log[s], u)
  PROVE  Confirmed(log'[s], u)
<1>1. Len(log[s]) \in Nat /\ Len(log'[s]) \in Nat
  BY LenProperties DEF TypeInv, TypeOK
<1>2. \A i \in Positions(log[s]) : i \in Positions(log'[s]) /\ log'[s][i] = log[s][i]
  BY <1>1, NextGrows DEF Grows, Positions
<1> QED
  BY <1>2 DEF Confirmed, Of, Positions

\* A move starts from a request that is active.
LEMMA MovesActive ==
  ASSUME NEW r \in Requests, MovesOn(r)
  PROVE  Active(r)
  BY DEF MovesOn, Moves, Opens, Resumes, Works, Ends, Fails, Active, Finished

\* Only the relay of the decision leads to the clearing of the entry.
LEMMA RelayStep ==
  ASSUME NEW r \in Requests, Step(r), d[r].pc = "relay"
  PROVE  RelayDecision(r)
  BY DEF Step, At, LoadSession, FindSession, RebuildSession, AdoptSession, CreateSession,
     RegisterSession, Classify, ClearPending, SendMessage, Poll, RelayAutos, ParkDeferred,
     PersistTask, SaveSession, Respond

\* The pending tools of a request are decided once it has relayed the decision.
LEMMA RelayConfirms ==
  ASSUME TypeInv, NEW r \in Requests, Step(r), MovesOn(r), d'[r].pc = "clear"
  PROVE  \A u \in d[r].entry.pending : /\ Confirmed(log'[d[r].entry.session], u)
                                       /\ u \in Decided(log'[d[r].entry.session])
<1> DEFINE s         == d[r].entry.session
           decisions == d[r].entry.pending \X {Decision(d[r].answer)}
           e         == Confirmations(decisions, r, "human")
<1>1. d[r].pc = "relay"
  BY DEF MovesOn, Moves, Opens, Resumes, Works, Ends, Fails, Branch
<1>2. RelayDecision(r)
  BY <1>1, RelayStep
<1>3. s \in Sessions /\ log[s] \in Seq(Event) /\ Len(log[s]) \in Nat
  BY <1>1, RequestFacts, LenProperties DEF InSession, HomeOf
<1>4. ~ Leave(r, "error")
  <2>1. Leave(r, "error") => d'[r].pc = "error"
    BY RequestFacts DEF Leave, Request, TypeInv, TypeOK
  <2> QED
    BY <2>1
<1>5. Append1(s, e)
  BY <1>2, <1>4 DEF RelayDecision, CallFails, Rejected, PostConfirmations
<1>6. log'[s] = Append(log[s], e)
  BY <1>3, <1>5 DEF Append1, TypeInv, TypeOK
<1>7. e.type = "user.tool_confirmation" /\ e.decisions = decisions /\ e.who = "human"
  BY DEF Confirmations
<1> DEFINE h == log[s]
           g == Append(h, e)
<1> HIDE DEF e
<1>8. Len(g) = Len(h) + 1 /\ g[Len(h) + 1] = e
  <2> HIDE DEF h
  <2> QED
    BY <1>3, Appended DEF h
<1> HIDE DEF h, g
<1>9. Len(h) + 1 \in Of(g, 1..Len(g), {"user.tool_confirmation"})
  BY <1>3, <1>7, <1>8 DEF Of, h
<1>10. Len(h) + 1 \in ByHuman(g)
  BY <1>7, <1>8, <1>9 DEF ByHuman, Relayed, Positions
<1>11. ASSUME NEW u \in d[r].entry.pending  PROVE Confirmed(g, u) /\ u \in Decided(g)
  <2>1. <<u, Decision(d[r].answer)>> \in decisions
    OBVIOUS
  <2> HIDE DEF decisions
  <2>2. Confirmed(g, u)
    BY <1>7, <1>8, <1>9, <2>1 DEF Confirmed
  <2>3. u \in Uses(g[Len(h) + 1])
    BY <1>7, <1>8, <2>1 DEF Uses
  <2> QED
    BY <1>10, <2>2, <2>3 DEF Decided
<1> QED
  BY <1>6, <1>11 DEF g, h

\* A step of a request keeps the invariant.
LEMMA StepCacheInv ==
  ASSUME CacheInv, TypeInv', "storage" \notin FaultKinds, NEW r \in Requests, Step(r)
  PROVE  CacheInv'
<1>1. TypeInv /\ [Next]_vars
  BY DEF CacheInv, Next
<1>2. MovesOn(r) /\ Active(r)
  BY <1>1, StepMoves, MovesActive
<1>3. /\ \A q \in Requests \ {r} : d'[q] = d[q]
      /\ d'[r].ctx = d[r].ctx
      /\ \A c \in Contexts \ {d[r].ctx} : store'[c] = store[c]
  BY <1>2 DEF MovesOn, Local
<1>4. Alone'
  <2>1. \A q \in Requests : d'[q].ctx = d[q].ctx /\ (Active(q)' => Active(q))
    BY <1>2, <1>3 DEF Active
  <2> QED
    BY <2>1 DEF CacheInv, Alone
<1>5. ASSUME NEW q \in Requests, q # r
      PROVE  InSync(d'[q], store'[d'[q].ctx], log'[d'[q].entry.session])
  <2>1. d'[q] = d[q] /\ InSync(d[q], store[d[q].ctx], log[d[q].entry.session])
    BY <1>3, <1>5 DEF CacheInv, Synced
  <2>2. CASE d[q].pc \in Uncached \union Cached
    <3>1. Active(q) /\ d[q].ctx # d[r].ctx
      BY <1>2, <1>5, <2>2 DEF Active, Finished, Uncached, Cached, CacheInv, Alone
    <3>2. d[q].ctx \in Contexts
      BY <1>1, <3>1, RequestFacts DEF Active
    <3>3. store'[d[q].ctx] = store[d[q].ctx]
      BY <1>3, <3>1, <3>2
    <3>4. d[q].pc = "clear" => d[q].entry.session \in Sessions
      BY <1>1, RequestFacts DEF InSession, HomeOf
    <3>5. d[q].pc = "clear" =>
            \A u \in d[q].entry.pending : Confirmed(log'[d[q].entry.session], u)
      BY <1>1, <2>1, <3>4, ConfirmedKept DEF InSync
    <3> QED
      BY <2>1, <3>3, <3>5 DEF InSync
  <2>3. CASE d[q].pc \notin Uncached \union Cached
    BY <2>1, <2>3 DEF InSync, Uncached, Cached
  <2> QED
    BY <2>2, <2>3
<1>6. InSync(d'[r], store'[d'[r].ctx], log'[d'[r].entry.session])
  <2> DEFINE old == d[r]
             new == d'[r]
             was == store[d[r].ctx]
             is  == store'[d[r].ctx]
             h   == log[d[r].entry.session]
             g   == log'[d'[r].entry.session]
  <2>1. old.entry \in Entry /\ was \in Entry
    BY <1>1, <1>2, RequestFacts DEF Active, TypeInv, TypeOK
  <2>2. InSync(old, was, h) /\ Moves(old, new, was, is)
    BY <1>2 DEF CacheInv, Synced, MovesOn
  <2>3. new.pc = "clear" => \A u \in old.entry.pending : Confirmed(g, u)
    <3>1. new.pc = "clear" => new.entry = old.entry
      BY <2>2 DEF Moves, Opens, Resumes, Works, Ends, Fails, Branch
    <3> QED
      BY <1>1, <1>2, <3>1, RelayConfirms
  <2>4. InSync(new, is, g)
    <3> HIDE DEF old, new, was, is, h, g
    <3> QED
      BY <2>1, <2>2, <2>3, MoveSync
  <2> QED
    BY <1>3, <2>4
<1> QED
  BY <1>4, <1>5, <1>6 DEF CacheInv, Synced

\* A step of the environment keeps it: a request arrives only where none is open.
LEMMA EnvironmentCacheInv ==
  ASSUME CacheInv, TypeInv', ~Overlap, Environment
  PROVE  CacheInv'
<1>1. TypeInv /\ [Next]_vars
  BY DEF CacheInv, Next
<1>2. ASSUME NEW r \in Requests, d[r].pc = "clear"
      PROVE  /\ d[r].entry.session \in Sessions
             /\ InSync(d[r], store[d[r].ctx], log[d[r].entry.session])
             /\ \A u \in d[r].entry.pending : Confirmed(log'[d[r].entry.session], u)
  <2>1. d[r].entry.session \in Sessions
    BY <1>1, <1>2, RequestFacts DEF InSession, HomeOf
  <2>2. InSync(d[r], store[d[r].ctx], log[d[r].entry.session])
    BY DEF CacheInv, Synced
  <2> QED
    BY <1>1, <1>2, <2>1, <2>2, ConfirmedKept DEF InSync
<1>3. ASSUME NEW r \in Requests, d'[r] = d[r],
             d[r].pc \in Uncached \union Cached =>
               store'[d[r].ctx] \in {store[d[r].ctx], NoEntry}
      PROVE  InSync(d'[r], store'[d'[r].ctx], log'[d'[r].entry.session])
  <2>1. InSync(d[r], store[d[r].ctx], log[d[r].entry.session])
    BY DEF CacheInv, Synced
  <2> QED
    BY <1>2, <1>3, <2>1 DEF InSync, Uncached, Cached
<1>4. ASSUME NEW r \in Requests, d'[r].pc \in {"load", "dropped"}
      PROVE  InSync(d'[r], store'[d'[r].ctx], log'[d'[r].entry.session])
  BY <1>4 DEF InSync, Uncached, Cached
<1>5. ASSUME NEW r \in Requests, NEW c \in Contexts, NEW t \in Tasks, NEW supplied \in BOOLEAN,
             Receive(r, c, t, supplied)
      PROVE  CacheInv'
  <2> DEFINE rec == [d[r] EXCEPT !.pc = "load", !.ctx = c, !.task = t, !.supplied = supplied]
  <2>1. d[r] \in Request
    BY <1>1, RequestFacts
  <2>2. rec.pc = "load" /\ rec.ctx = c
    BY <2>1 DEF Request
  <2>3. d' = [d EXCEPT ![r] = rec] /\ UNCHANGED store
    BY ZenonT(40), <1>5 DEF Receive
  <2> HIDE DEF rec
  <2>4. d'[r] = rec /\ \A q \in Requests \ {r} : d'[q] = d[q]
    BY <1>1, <2>3 DEF TypeInv, TypeOK
  <2>5. \A q \in Requests : d[q].ctx = c => ~Active(q)
    BY <1>5 DEF Receive
  <2>6. Alone'
    BY <2>2, <2>4, <2>5 DEF CacheInv, Alone, Active
  <2>7. Synced'
    BY <1>3, <1>4, <2>2, <2>3, <2>4 DEF Synced
  <2> QED
    BY <2>6, <2>7 DEF CacheInv
<1>6. ASSUME NEW r \in Requests, Crash(r)  PROVE CacheInv'
  <2>1. Leave(r, "dropped") /\ UNCHANGED store /\ Active(r)
    BY <1>6 DEF Crash
  <2>2. /\ \A q \in Requests \ {r} : d'[q] = d[q]
        /\ d'[r].pc = "dropped"
    BY <1>1, <2>1, LeaveMoves DEF Local
  <2>3. Alone'
    BY <2>2 DEF CacheInv, Alone, Active, Finished
  <2>4. Synced'
    BY <1>3, <1>4, <2>1, <2>2 DEF Synced
  <2> QED
    BY <2>3, <2>4 DEF CacheInv
<1>7. ASSUME NEW c \in Contexts, ExpireSession(c)  PROVE CacheInv'
  <2>1. store' = [store EXCEPT ![c] = NoEntry] /\ d' = d
    BY <1>7 DEF ExpireSession, Cache!Expire, NoEntry
  <2>2. ASSUME NEW r \in Requests, d[r].pc \in Uncached \union Cached
        PROVE  store'[d[r].ctx] \in {store[d[r].ctx], NoEntry}
    <3>1. d[r].ctx \in Contexts
      BY <1>1, <2>2, RequestFacts DEF Uncached, Cached
    <3> QED
      BY <1>1, <2>1, <3>1 DEF TypeInv, TypeOK
  <2>3. Synced'
    BY <1>3, <2>1, <2>2 DEF Synced
  <2> QED
    BY <2>1, <2>3 DEF CacheInv, Alone, Active
<1>8. ASSUME NEW s \in Sessions, AgentStep(s) \/ BreakAgent(s)  PROVE CacheInv'
  <2>1. d' = d /\ store' = store
    BY <1>8 DEF AgentStep, BreakAgent
  <2>2. Synced'
    BY <1>3, <2>1 DEF Synced
  <2> QED
    BY <2>1, <2>2 DEF CacheInv, Alone, Active
<1> QED
  BY <1>5, <1>6, <1>7, <1>8 DEF Environment

LEMMA InitCacheInv == Init => CacheInv
<1> SUFFICES ASSUME Init PROVE CacheInv
  OBVIOUS
<1>1. TypeInv
  BY InitTypeInv
<1>2. \A r \in Requests : d[r].pc = "new"
  BY DEF Init, Fresh
<1> QED
  BY <1>1, <1>2 DEF CacheInv, Alone, Active, Synced, InSync, Uncached, Cached

\* CacheInv is inductive.
LEMMA NextCacheInv ==
  ASSUME ~Overlap, "storage" \notin FaultKinds
  PROVE  CacheInv /\ [Next]_vars => CacheInv'
<1> SUFFICES ASSUME CacheInv, [Next]_vars PROVE CacheInv'
  OBVIOUS
<1>1. TypeInv'
  BY NextTypeInv DEF CacheInv
<1>2. CASE UNCHANGED vars
  BY <1>1, <1>2 DEF vars, agentVars, CacheInv, Alone, Active, Synced
<1> QED
  BY <1>1, <1>2, StepCacheInv, EnvironmentCacheInv DEF Next

----------------------------------------------------------------------------
(* What a write takes away. *)

\* A move takes a pending tool from the entry only after the relay.
LEMMA MoveClears ==
  ASSUME NEW old, NEW new, NEW was \in Entry, NEW is, NEW h, old.entry \in Entry,
         InSync(old, was, h), Moves(old, new, was, is), was # NoEntry,
         NEW u \in was.pending \ is.pending
  PROVE  was = old.entry /\ old.pc = "clear" /\ Confirmed(h, u)
<1>1. is # was
  OBVIOUS
<1>2. CASE Opens(old, new, was, is)
  BY <1>1, <1>2 DEF Opens, InSync, Uncached
<1>3. CASE Resumes(old, new, was, is)
  BY <1>1, <1>3 DEF Resumes, InSync, Cached
<1>4. CASE Ends(old, new, was, is)
  BY <1>1, <1>4 DEF Ends, InSync, Cached
<1> QED
  BY <1>1, <1>2, <1>3, <1>4 DEF Moves, Works, Fails

ClearsDecided ==
  \A c \in Contexts :
    Cache!Present(c) /\ store'[c] # Cache!NoEntry =>
      \A u \in store[c].pending \ store'[c].pending :
        Confirmed(log'[store[c].session], u)

LEMMA NextClears ==
  ASSUME "storage" \notin FaultKinds, CacheInv, [Next]_vars
  PROVE  ClearsDecided
<1>0. TypeInv /\ TypeInv'
  BY NextTypeInv DEF CacheInv
<1>1. ASSUME \A c \in Contexts : store'[c] \in {store[c], Cache!NoEntry}
      PROVE  ClearsDecided
  BY <1>1 DEF ClearsDecided
<1>2. ASSUME NEW r \in Requests, Step(r), NEW c \in Contexts, store[c] # NoEntry,
             NEW u \in store[c].pending \ store'[c].pending
      PROVE  Confirmed(log'[store[c].session], u)
  <2>1. MovesOn(r) /\ Active(r)
    BY <1>0, <1>2, StepMoves, MovesActive
  <2>2. c = d[r].ctx
    BY <1>2, <2>1 DEF MovesOn, Local
  <2>3. InSync(d[r], store[c], log[d[r].entry.session])
    BY <2>2 DEF CacheInv, Synced
  <2>4. Moves(d[r], d'[r], store[c], store'[c])
    BY <2>1, <2>2 DEF MovesOn
  <2>5. store[c] \in Entry /\ d[r].entry \in Entry
    BY <1>0, RequestFacts DEF TypeInv, TypeOK
  <2>6. /\ store[c] = d[r].entry /\ d[r].pc = "clear"
        /\ Confirmed(log[d[r].entry.session], u)
    <3> DEFINE old == d[r]
               new == d'[r]
               was == store[c]
               is  == store'[c]
               h   == log[d[r].entry.session]
    <3>1. was # NoEntry /\ u \in was.pending \ is.pending
      BY <1>2
    <3> HIDE DEF old, new, was, is, h
    <3>2. /\ was \in Entry /\ old.entry \in Entry
          /\ InSync(old, was, h) /\ Moves(old, new, was, is)
      BY <2>3, <2>4, <2>5 DEF old, new, was, is, h
    <3>3. was = old.entry /\ old.pc = "clear" /\ Confirmed(h, u)
      BY <3>1, <3>2, MoveClears
    <3> QED
      BY <3>3 DEF old, was, h
  <2>7. d[r].entry.session \in Sessions
    BY <1>0, <2>6, RequestFacts DEF InSession, HomeOf
  <2> QED
    BY <1>0, <2>6, <2>7, ConfirmedKept
<1>3. ASSUME NEW r \in Requests, Step(r)  PROVE ClearsDecided
  BY <1>2, <1>3 DEF ClearsDecided, Cache!Present, NoEntry
<1>4. CASE Environment
  <2>1. ASSUME NEW c \in Contexts, ExpireSession(c)
        PROVE  \A e \in Contexts : store'[e] \in {store[e], Cache!NoEntry}
    BY <1>0, <2>1 DEF ExpireSession, Cache!Expire, TypeInv, TypeOK
  <2>2. CASE \A c \in Contexts : ~ExpireSession(c)
    <3>1. \A r \in Requests : Crash(r) => UNCHANGED store
      BY DEF Crash
    <3>2. \A r \in Requests, c \in Contexts, t \in Tasks, supplied \in BOOLEAN :
            Receive(r, c, t, supplied) => UNCHANGED store
      BY DEF Receive
    <3>3. \A s \in Sessions : AgentStep(s) \/ BreakAgent(s) => UNCHANGED store
      BY DEF AgentStep, BreakAgent
    <3> QED
      BY <1>1, <1>4, <2>2, <3>1, <3>2, <3>3 DEF Environment
  <2> QED
    BY <1>1, <2>1, <2>2
<1>5. CASE UNCHANGED vars
  BY <1>1, <1>5 DEF vars
<1> QED
  BY <1>3, <1>4, <1>5 DEF Next

\* No write of the cache wipes out a question: whatever crashes, is lost or expires,
\* a pending tool leaves an entry that stays only when it has been confirmed.
THEOREM QuestionsSurvive ==
  ASSUME ~Overlap, "storage" \notin FaultKinds
  PROVE  Spec => PendingClearedByDecision
<1>1. CacheInv /\ [Next]_vars => [ClearsDecided]_vars
  BY NextClears
<1>2. PendingClearedByDecision <=> [][ClearsDecided]_vars
  BY PTL DEF PendingClearedByDecision, ClearsDecided
<1>3. CacheInv /\ [Next]_vars => CacheInv'
  BY NextCacheInv
<1> QED
  BY <1>1, <1>2, <1>3, InitCacheInv, PTL DEF Spec

----------------------------------------------------------------------------
(* Conversations whose cache entry is never lost. *)

\* The faults these theorems allow.
Lossless == FaultKinds \subseteq {"error", "agent"}

\* A request past its load has the cached entry, and there is nothing to recover.
Held ==
  \A r \in Requests :
    /\ d[r].pc \notin {"rebuild", "adopt"}
    /\ d[r].pc \in Cached => store[d[r].ctx] = d[r].entry

\* A request is about to register session s.
Registering(s) ==
  \E r \in Requests : d[r].pc = "register" /\ d[r].ctx = tag[s] /\ d[r].entry.session = s

\* A session that was created is the one of its context's entry, or will be.
Homed ==
  \A s \in Sessions : tag[s] # NoContext => store[tag[s]].session = s \/ Registering(s)

GateInv == PostInv /\ CacheInv /\ Held /\ Homed

----------------------------------------------------------------------------
(* GateInv is an invariant. *)

LEMMA NoLostAnswer ==
  ASSUME Lossless, NEW r \in Requests, NEW rec, Posted(r, rec)
  PROVE  d' = [d EXCEPT ![r] = rec]
  BY DEF Lossless, Posted, Fault

\* A move from a step whose request has the cached entry.
LEMMA MoveHeld ==
  ASSUME NEW old, NEW new, NEW was, NEW is, NEW h, InSync(old, was, h),
         Moves(old, new, was, is), old.pc \notin {"rebuild", "adopt"},
         old.pc \in Cached => was = old.entry
  PROVE  /\ new.pc \in Cached => is = new.entry
         /\ new.pc # "adopt" /\ (new.pc = "rebuild" => old.pc = "recover")
  BY DEF Moves, Opens, Resumes, Works, Ends, Fails, Branch, InSync, Cached, Uncached

\* It keeps the session of the entry, unless it writes the first.
LEMMA MoveSession ==
  ASSUME NEW old, NEW new, NEW was \in Entry, NEW is, NEW h, InSync(old, was, h),
         Moves(old, new, was, is), old.pc \notin {"rebuild", "adopt"},
         old.pc \in Cached => was = old.entry
  PROVE  \/ is.session = was.session /\ old.pc # "register"
         \/ old.pc = "register" /\ was = NoEntry /\ is = old.entry
<1>1. [was EXCEPT !.pending = {}].session = was.session
  BY DEF Entry
<1>2. [was EXCEPT !.pending = old.deferred].session = was.session
  BY DEF Entry
<1> QED
  BY <1>1, <1>2 DEF Moves, Opens, Resumes, Works, Ends, Fails, InSync, Cached, Uncached

\* A request without an entry finds no session of its context.
LEMMA NothingToRecover ==
  ASSUME GateInv, NEW r \in Requests, d[r].pc = "recover"
  PROVE  Recoverable(d[r].ctx) = {}
<1> SUFFICES ASSUME NEW s \in Sessions, tag[s] = d[r].ctx  PROVE FALSE
  BY DEF Recoverable
<1>1. TypeInv /\ d[r].ctx \in Contexts /\ store[d[r].ctx] = NoEntry
  BY RequestFacts DEF GateInv, CacheInv, Synced, InSync, Uncached
<1>2. NoEntry.session = 0 /\ 0 \notin Sessions
  BY AgentAssumption DEF NoEntry, Cache!NoEntry, Sessions
<1>3. PICK q \in Requests : d[q].pc = "register" /\ d[q].ctx = tag[s]
  BY <1>1, <1>2, AgentAssumption DEF GateInv, Homed, Registering
<1>4. q = r
  BY <1>3 DEF GateInv, CacheInv, Alone, Active, Finished
<1> QED
  BY <1>3, <1>4

\* What a step does to the tags.
LEMMA TagStep ==
  ASSUME TypeInv, Lossless, NEW r \in Requests, Step(r)
  PROVE  \/ UNCHANGED tag
         \/ /\ d[r].pc = "create" /\ d'[r].pc = "register" /\ UNCHANGED store
            /\ tag' = [tag EXCEPT ![d'[r].entry.session] = d[r].ctx]
<1>1. CASE CreateSession(r)
  <2>1. CASE CallFails(r)
    BY <2>1 DEF CallFails, agentVars
  <2>2. ASSUME NEW s \in Sessions, tag' = [tag EXCEPT ![s] = d[r].ctx],
               Posted(r, [d[r] EXCEPT !.pc = "register",
                                      !.entry = [session |-> s, pending |-> {}]])
        PROVE  d'[r].pc = "register" /\ d'[r].entry.session = s
    <3> DEFINE e   == [session |-> s, pending |-> {}]
               rec == [d[r] EXCEPT !.pc = "register", !.entry = e]
    <3>1. d' = [d EXCEPT ![r] = rec]
      BY <2>2, NoLostAnswer
    <3>2. e.session = s
      OBVIOUS
    <3> HIDE DEF e
    <3>3. rec.pc = "register" /\ rec.entry = e
      BY RequestFacts DEF Request
    <3> HIDE DEF rec
    <3>4. d'[r] = rec
      BY <3>1 DEF TypeInv, TypeOK
    <3> QED
      BY <3>2, <3>3, <3>4
  <2> QED
    BY <1>1, <2>1, <2>2 DEF CreateSession, At
<1>2. CASE LoadSession(r) \/ FindSession(r) \/ RebuildSession(r) \/ AdoptSession(r)
             \/ RegisterSession(r) \/ Classify(r) \/ ClearPending(r) \/ Poll(r)
  BY <1>2 DEF LoadSession, FindSession, RebuildSession, AdoptSession,
     RegisterSession, Classify, ClearPending, Poll, CallFails, agentVars
<1>3. CASE RelayDecision(r) \/ SendMessage(r) \/ RelayAutos(r)
  BY <1>3 DEF RelayDecision, SendMessage, RelayAutos, CallFails, Rejected, agentVars
<1>4. CASE ParkDeferred(r) \/ PersistTask(r) \/ SaveSession(r) \/ Respond(r)
  BY <1>4 DEF ParkDeferred, PersistTask, SaveSession, Respond, agentVars
<1> QED
  BY <1>1, <1>2, <1>3, <1>4 DEF Step

\* What a step of a request does, as far as GateInv is concerned.
LEMMA StepFacts ==
  ASSUME GateInv, Lossless, NEW r \in Requests, Step(r)
  PROVE  /\ Active(r) /\ d[r].ctx \in Contexts
         /\ \A q \in Requests \ {r} : d'[q] = d[q]
         /\ d'[r].ctx = d[r].ctx
         /\ \A c \in Contexts \ {d[r].ctx} : store'[c] = store[c]
         /\ Moves(d[r], d'[r], store[d[r].ctx], store'[d[r].ctx])
         /\ store[d[r].ctx] \in Entry /\ d[r].entry \in Entry
         /\ InSync(d[r], store[d[r].ctx], log[d[r].entry.session])
         /\ d[r].pc \notin {"rebuild", "adopt"}
         /\ d[r].pc \in Cached => store[d[r].ctx] = d[r].entry
         /\ d[r].pc = "recover" => d'[r].pc = "create"
<1>1. TypeInv /\ "storage" \notin FaultKinds
  BY DEF GateInv, CacheInv, Lossless
<1>2. MovesOn(r) /\ Active(r)
  BY <1>1, StepMoves, MovesActive
<1>3. d[r].ctx \in Contexts
  BY <1>1, <1>2, RequestFacts DEF Active
<1>4. ASSUME d[r].pc = "recover"  PROVE d'[r].pc = "create"
  <2>1. Recoverable(d[r].ctx) = {}
    BY <1>4, NothingToRecover
  <2>2. FindSession(r)
    BY <1>4 DEF Step, At, LoadSession, FindSession, RebuildSession, AdoptSession,
       CreateSession, RegisterSession, Classify, RelayDecision, ClearPending, SendMessage,
       Poll, RelayAutos, ParkDeferred, PersistTask, SaveSession, Respond
  <2>3. Go(r, "create")
    BY <2>1, <2>2 DEF FindSession
  <2> QED
    BY <1>1, <2>3, GoMoves
<1> QED
  BY <1>1, <1>2, <1>3, <1>4, RequestFacts DEF MovesOn, Local, GateInv, CacheInv, Synced, Held,
     TypeInv, TypeOK

\* A step of a request keeps Held and Homed.
LEMMA StepHeld ==
  ASSUME GateInv, Lossless, NEW r \in Requests, Step(r)
  PROVE  Held'
<1> USE StepFacts
<1>1. ASSUME NEW q \in Requests, q # r
      PROVE  /\ d'[q].pc \notin {"rebuild", "adopt"}
             /\ d'[q].pc \in Cached => store'[d'[q].ctx] = d'[q].entry
  <2>1. d'[q] = d[q]
    BY <1>1
  <2>2. ASSUME d[q].pc \in Cached  PROVE store'[d[q].ctx] = store[d[q].ctx]
    <3>1. Active(q)
      BY <2>2 DEF Active, Finished, Cached
    <3>2. d[q].ctx # d[r].ctx
      BY <1>1, <3>1 DEF GateInv, CacheInv, Alone
    <3>3. d[q].ctx \in Contexts
      BY <3>1, RequestFacts DEF Active, GateInv, CacheInv
    <3> QED
      BY <3>2, <3>3
  <2> QED
    BY <2>1, <2>2 DEF GateInv, Held
<1>2. /\ d'[r].pc \notin {"rebuild", "adopt"}
      /\ d'[r].pc \in Cached => store'[d'[r].ctx] = d'[r].entry
  <2> DEFINE old == d[r]
             new == d'[r]
             was == store[d[r].ctx]
             is  == store'[d[r].ctx]
             h   == log[d[r].entry.session]
  <2>1. /\ InSync(old, was, h) /\ Moves(old, new, was, is)
        /\ old.pc \notin {"rebuild", "adopt"} /\ (old.pc \in Cached => was = old.entry)
        /\ old.pc = "recover" => new.pc = "create"
    OBVIOUS
  <2>2. /\ new.pc \in Cached => is = new.entry
        /\ new.pc # "adopt" /\ new.pc # "rebuild"
    <3> HIDE DEF old, new, was, is, h
    <3> QED
      BY <2>1, MoveHeld
  <2> QED
    BY <2>2
<1> QED
  BY <1>1, <1>2 DEF Held

LEMMA StepHomed ==
  ASSUME GateInv, Lossless, NEW r \in Requests, Step(r)
  PROVE  Homed'
<1> USE StepFacts
<1>0. TypeInv /\ tag \in [Sessions -> Contexts \union {NoContext}]
  BY DEF GateInv, CacheInv, TypeInv, TypeOK
<1> SUFFICES ASSUME NEW s \in Sessions, tag'[s] # NoContext
             PROVE  store'[tag'[s]].session = s \/ Registering(s)'
  BY DEF Homed
<1>1. CASE tag'[s] # tag[s]
  <2>1. /\ d'[r].pc = "register"
        /\ tag' = [tag EXCEPT ![d'[r].entry.session] = d[r].ctx]
    BY <1>0, <1>1, TagStep
  <2>2. d'[r].entry.session = s /\ tag'[s] = d[r].ctx
    BY <1>0, <1>1, <2>1
  <2> QED
    BY <2>1, <2>2 DEF Registering
<1>2. CASE tag'[s] = tag[s] /\ tag[s] # d[r].ctx
  <2>1. tag[s] \in Contexts
    BY <1>0, <1>2
  <2>2. store'[tag[s]] = store[tag[s]]
    BY <1>2, <2>1
  <2>3. Registering(s) => Registering(s)'
    BY <1>2 DEF Registering
  <2> QED
    BY <1>2, <2>2, <2>3 DEF GateInv, Homed
<1>3. CASE tag'[s] = tag[s] /\ tag[s] = d[r].ctx
  <2> DEFINE old == d[r]
             new == d'[r]
             was == store[d[r].ctx]
             is  == store'[d[r].ctx]
             h   == log[d[r].entry.session]
  <2>1. \/ is.session = was.session /\ old.pc # "register"
        \/ old.pc = "register" /\ was = NoEntry /\ is = old.entry
    <3>1. /\ was \in Entry /\ InSync(old, was, h) /\ Moves(old, new, was, is)
          /\ old.pc \notin {"rebuild", "adopt"} /\ (old.pc \in Cached => was = old.entry)
      OBVIOUS
    <3> HIDE DEF old, new, was, is, h
    <3> QED
      BY <3>1, MoveSession
  <2>2. CASE store[tag[s]].session = s
    <3>1. NoEntry.session # s
      BY AgentAssumption DEF NoEntry, Cache!NoEntry, Sessions
    <3> QED
      BY <1>3, <2>1, <2>2, <3>1
  <2>3. CASE Registering(s)
    <3>1. PICK q \in Requests : /\ d[q].pc = "register" /\ d[q].ctx = tag[s]
                                /\ d[q].entry.session = s
      BY <2>3 DEF Registering
    <3>2. q = r
      BY <1>3, <3>1 DEF GateInv, CacheInv, Alone, Active, Finished
    <3> QED
      BY <1>3, <2>1, <3>1, <3>2
  <2> QED
    BY <1>3, <2>2, <2>3 DEF GateInv, Homed
<1> QED
  BY <1>1, <1>2, <1>3

LEMMA InitGateInv == Init => GateInv
<1> SUFFICES ASSUME Init PROVE GateInv
  OBVIOUS
<1>1. Held
  BY DEF Init, Fresh, Held, Cached
<1>2. Homed
  BY DEF Init, AgentInit, Homed
<1> QED
  BY <1>1, <1>2, InitPostInv, InitCacheInv DEF GateInv

\* What the environment does to the requests and the cache.
LEMMA EnvironmentFacts ==
  ASSUME TypeInv, Lossless, Environment
  PROVE  /\ UNCHANGED <<store, tag>>
         /\ \A q \in Requests : d'[q] = d[q] \/ (d[q].pc = "new" /\ d'[q].pc = "load")
<1>1. ASSUME NEW r \in Requests, NEW c \in Contexts, NEW t \in Tasks, NEW supplied \in BOOLEAN,
             Receive(r, c, t, supplied)
      PROVE  /\ UNCHANGED <<store, tag>>
             /\ \A q \in Requests : d'[q] = d[q] \/ (d[q].pc = "new" /\ d'[q].pc = "load")
  <2> DEFINE rec == [d[r] EXCEPT !.pc = "load", !.ctx = c, !.task = t, !.supplied = supplied]
  <2>1. rec.pc = "load"
    BY RequestFacts DEF Request
  <2>2. d[r].pc = "new" /\ d' = [d EXCEPT ![r] = rec] /\ UNCHANGED <<store, tag>>
    BY ZenonT(40), <1>1 DEF Receive, At, agentVars
  <2> HIDE DEF rec
  <2> QED
    BY <2>1, <2>2 DEF TypeInv, TypeOK
<1>2. \A r \in Requests : ~Crash(r)
  BY DEF Crash, Fault, Lossless
<1>3. \A c \in Contexts : ~ExpireSession(c)
  BY DEF ExpireSession, Fault, Lossless
<1>4. ASSUME NEW s \in Sessions, AgentStep(s) \/ BreakAgent(s)  PROVE UNCHANGED <<store, tag, d>>
  BY <1>4 DEF AgentStep, BreakAgent, BreakTurn, StartTurn, RequireAction, AnnounceRest,
     ResumeTurn, FinishTurn, UseTool
<1> QED
  BY <1>1, <1>2, <1>3, <1>4 DEF Environment

\* GateInv is inductive.
LEMMA NextGateInv ==
  ASSUME ~Overlap, Lossless
  PROVE  GateInv /\ [Next]_vars => GateInv'
<1> SUFFICES ASSUME GateInv, [Next]_vars PROVE GateInv'
  OBVIOUS
<1>1. PostInv' /\ CacheInv'
  BY NextPostInv, NextCacheInv DEF GateInv, Lossless
<1>2. CASE Environment \/ UNCHANGED vars
  <2>1. /\ UNCHANGED <<store, tag>>
        /\ \A q \in Requests : d'[q] = d[q] \/ (d[q].pc = "new" /\ d'[q].pc = "load")
    BY <1>2, EnvironmentFacts DEF GateInv, CacheInv, vars, agentVars
  <2>2. Held'
    BY <2>1 DEF GateInv, Held, Cached
  <2>3. Homed'
    BY <2>1 DEF GateInv, Homed, Registering
  <2> QED
    BY <1>1, <2>2, <2>3 DEF GateInv
<1>3. ASSUME NEW r \in Requests, Step(r)  PROVE GateInv'
  BY <1>1, <1>3, StepHeld, StepHomed DEF GateInv
<1> QED
  BY <1>2, <1>3 DEF Next

\* So a context has one session.
LEMMA OneHome ==
  ASSUME GateInv
  PROVE  OneSessionPerContext
<1> SUFFICES ASSUME NEW s \in Sessions, NEW q \in Sessions,
                    tag[s] = tag[q], tag[s] # NoContext
             PROVE  s = q
  BY DEF OneSessionPerContext
<1>1. ASSUME NEW x \in Sessions, NEW y \in Sessions, tag[x] = tag[y],
             store[tag[x]].session = x, Registering(y)
      PROVE  FALSE
  <2>1. PICK r \in Requests : d[r].pc = "register" /\ d[r].ctx = tag[x]
    BY <1>1 DEF Registering
  <2>2. store[tag[x]] = NoEntry
    BY <2>1 DEF GateInv, CacheInv, Synced, InSync, Uncached
  <2> QED
    BY <1>1, <2>2, AgentAssumption DEF NoEntry, Cache!NoEntry, Sessions
<1>2. CASE Registering(s) /\ Registering(q)
  BY <1>2 DEF Registering, GateInv, CacheInv, Alone, Active, Finished
<1> QED
  BY <1>1, <1>2 DEF GateInv, Homed

\* A conversation never gets a second session, also when its turns fail halfway.
THEOREM OneSession ==
  ASSUME ~Overlap, Lossless
  PROVE  Spec => []OneSessionPerContext
<1>1. GateInv /\ [Next]_vars => GateInv'
  BY NextGateInv
<1> QED
  BY <1>1, OneHome, InitGateInv, PTL DEF Spec
----------------------------------------------------------------------------
(* What a step does to what was decided. *)

\* The uses a request has decided for the human in session s.
HumanUses(s, r) ==
  UNION {Uses(log[s][i]) : i \in {j \in ByHuman(log[s]) : log[s][j].by = r}}

\* A step in which no request relays a decision adds none.
LEMMA DecidedKept ==
  ASSUME TypeInv, TypeInv', [Next]_vars,
         \/ UNCHANGED log
         \/ \A q \in Requests : d[q].pc = "relay" => d'[q].pc \in Undecided
  PROVE  \A q \in Requests : /\ DecidedBy(q)' = DecidedBy(q)
                             /\ \A s \in Sessions : HumanUses(s, q)' = HumanUses(s, q)
<1>1. CASE UNCHANGED log
  BY <1>1 DEF DecidedBy, HumanUses, ByHuman, Relayed, Positions, Of, Uses
<1>2. CASE \A q \in Requests : d[q].pc = "relay" => d'[q].pc \in Undecided
  <2>1. Grows
    BY NextGrows
  <2>2. ASSUME NEW s \in Sessions
        PROVE  /\ ByHuman(log'[s]) = ByHuman(log[s])
               /\ \A i \in ByHuman(log[s]) : log'[s][i] = log[s][i]
    <3>1. Len(log[s]) \in Nat /\ Len(log'[s]) \in Nat
      BY LenProperties DEF TypeInv, TypeOK
    <3>2. \A i \in Positions(log[s]) : i \in Positions(log'[s]) /\ log'[s][i] = log[s][i]
      BY <2>1, <3>1 DEF Grows, Positions
    <3>3. ASSUME NEW i \in ByHuman(log'[s])  PROVE i \in Positions(log[s])
      <4>1. /\ i \in Positions(log'[s]) /\ log'[s][i].who = "human"
            /\ log'[s][i].type = "user.tool_confirmation"
        BY DEF ByHuman, Relayed, Of
      <4>2. i \notin Positions(log[s]) => PostedBy(log'[s][i].by, s, log'[s][i])
        BY <2>1, <4>1 DEF Grows, PostTypes
      <4> QED
        BY <1>2, <4>1, <4>2 DEF PostedBy
    <3> QED
      BY <3>2, <3>3 DEF ByHuman, Relayed, Of
  <2>3. \A q \in Requests, s \in Sessions :
          UNION {log'[s][i].decisions : i \in {j \in ByHuman(log'[s]) : log'[s][j].by = q}} =
          UNION {log[s][i].decisions : i \in {j \in ByHuman(log[s]) : log[s][j].by = q}}
    BY <2>2
  <2>4. \A q \in Requests, s \in Sessions : HumanUses(s, q)' = HumanUses(s, q)
    BY <2>2 DEF HumanUses, Uses
  <2> QED
    BY <2>3, <2>4 DEF DecidedBy
<1> QED
  BY <1>1, <1>2

\* A request that has not relayed its decision has decided nothing.
LEMMA DecidedNothing ==
  ASSUME PostInv, NEW r \in Requests, d[r].pc \in Undecided
  PROVE  DecidedBy(r) = {} /\ \A s \in Sessions : HumanUses(s, r) = {}
<1>1. ASSUME NEW s \in Sessions, NEW i \in ByHuman(log[s]), log[s][i].by = r  PROVE FALSE
  <2>1. i \in Positions(log[s]) /\ log[s][i].type = "user.tool_confirmation"
    BY DEF ByHuman, Relayed, Of
  <2>2. ConfirmationOK(s, log[s][i])
    BY <2>1 DEF PostInv, PostsOK, PostOK, PostTypes
  <2> QED
    BY <1>1, <2>2 DEF ConfirmationOK
<1> QED
  BY <1>1 DEF DecidedBy, HumanUses

LEMMA FirstOfPairs ==
  ASSUME NEW S, NEW v
  PROVE  {c[1] : c \in S \X {v}} = S
<1>1. \A x \in S : <<x, v>> \in S \X {v} /\ <<x, v>>[1] = x
  OBVIOUS
<1>2. \A c \in S \X {v} : c[1] \in S
  OBVIOUS
<1> QED
  BY <1>1, <1>2, Zenon

\* The relay of a decision adds that decision.
LEMMA DecidedRelay ==
  ASSUME PostInv, TypeInv', Lossless, NEW r \in Requests, Step(r), d[r].pc = "relay",
         d'[r].pc = "clear"
  PROVE  /\ DecidedBy(r)' = d[r].entry.pending \X {Decision(d[r].answer)}
         /\ \A q \in Requests \ {r} : DecidedBy(q)' = DecidedBy(q)
         /\ \A p \in Sessions :
              /\ HumanUses(p, r)' =
                   IF p = d[r].entry.session THEN d[r].entry.pending ELSE {}
              /\ \A q \in Requests \ {r} : HumanUses(p, q)' = HumanUses(p, q)
<1> DEFINE s         == d[r].entry.session
           decisions == d[r].entry.pending \X {Decision(d[r].answer)}
           e         == Confirmations(decisions, r, "human")
           h         == log[s]
           g         == Append(h, e)
           n         == Len(h) + 1
<1>0. TypeInv
  BY DEF PostInv
<1>1. RelayDecision(r)
  BY RelayStep
<1>2. s \in Sessions /\ h \in Seq(Event) /\ Len(h) \in Nat
  BY <1>0, RequestFacts, LenProperties DEF InSession, HomeOf
<1>3. ~ Leave(r, "error")
  <2>1. Leave(r, "error") => d'[r].pc = "error"
    BY <1>0, RequestFacts DEF Leave, Request, TypeInv, TypeOK
  <2> QED
    BY <2>1
<1>4. Append1(s, e)
  BY <1>1, <1>3 DEF RelayDecision, CallFails, Rejected, PostConfirmations
<1>5. \A q \in Sessions : log'[q] = IF q = s THEN g ELSE log[q]
  BY <1>0, <1>4 DEF Append1, TypeInv, TypeOK
<1>6. /\ e.type = "user.tool_confirmation" /\ e.who = "human" /\ e.by = r
      /\ e.decisions = decisions
  BY DEF Confirmations
<1> HIDE DEF e
<1>7. /\ Len(g) = n /\ g[n] = e
      /\ \A i \in 1..Len(h) : g[i] = h[i]
  <2> HIDE DEF h
  <2> QED
    BY <1>2, Appended DEF n
<1> HIDE DEF h, g
<1>8. Positions(g) = Positions(h) \union {n} /\ n \notin Positions(h)
  BY <1>2, <1>7 DEF Positions, n
<1>9. ByHuman(g) = ByHuman(h) \union {n}
  BY <1>6, <1>7, <1>8 DEF ByHuman, Relayed, Of, Positions
<1>10. \A i \in ByHuman(h) : g[i] = h[i]
  BY <1>7 DEF ByHuman, Relayed, Of, Positions
<1>11. n \notin ByHuman(h)
  BY <1>8 DEF ByHuman, Relayed, Of
<1>12. \A q \in Sessions : \A i \in ByHuman(log[q]) : log[q][i].by # r
  <2> SUFFICES ASSUME NEW q \in Sessions, NEW i \in ByHuman(log[q]), log[q][i].by = r
               PROVE  FALSE
    OBVIOUS
  <2>1. i \in Positions(log[q]) /\ log[q][i].type = "user.tool_confirmation"
    BY DEF ByHuman, Relayed, Of
  <2>2. ConfirmationOK(q, log[q][i])
    BY <2>1 DEF PostInv, PostsOK, PostOK, PostTypes
  <2> QED
    BY <2>2 DEF ConfirmationOK, Undecided
<1> HIDE DEF n, decisions
<1>13. \A q \in Sessions : \A x :
         x \in {j \in ByHuman(log'[q]) : log'[q][j].by = r} <=> q = s /\ x = n
  BY <1>5, <1>6, <1>7, <1>9, <1>10, <1>12 DEF h
<1>14. DecidedBy(r)' = decisions
  <2>1. \A x : x \in DecidedBy(r)' <=>
          \E q \in Sessions : \E i \in {j \in ByHuman(log'[q]) : log'[q][j].by = r} :
            x \in log'[q][i].decisions
    BY DEF DecidedBy
  <2>2. log'[s][n].decisions = decisions
    BY <1>2, <1>5, <1>6, <1>7
  <2>3. \A x : x \in DecidedBy(r)' <=> x \in decisions
    BY <1>2, <1>13, <2>1, <2>2
  <2> DEFINE D == DecidedBy(r)'
  <2> HIDE DEF D
  <2>4. D = decisions
    BY <2>3 DEF D
  <2> QED
    BY <2>4 DEF D
<1>15. ASSUME NEW q \in Requests, q # r  PROVE DecidedBy(q)' = DecidedBy(q)
  <2>1. \A p \in Sessions :
          /\ {j \in ByHuman(log'[p]) : log'[p][j].by = q} =
             {j \in ByHuman(log[p]) : log[p][j].by = q}
          /\ \A i \in ByHuman(log[p]) : log'[p][i] = log[p][i]
    BY <1>5, <1>6, <1>7, <1>9, <1>10, <1>15 DEF h
  <2>2. \A p \in Sessions :
          UNION {log'[p][i].decisions : i \in {j \in ByHuman(log'[p]) : log'[p][j].by = q}} =
          UNION {log[p][i].decisions : i \in {j \in ByHuman(log[p]) : log[p][j].by = q}}
    BY <2>1
  <2> DEFINE after(p) ==
               UNION {log'[p][i].decisions : i \in {j \in ByHuman(log'[p]) : log'[p][j].by = q}}
             before(p) ==
               UNION {log[p][i].decisions : i \in {j \in ByHuman(log[p]) : log[p][j].by = q}}
  <2>3. /\ DecidedBy(q)' = UNION {after(p) : p \in Sessions}
        /\ DecidedBy(q) = UNION {before(p) : p \in Sessions}
    BY DEF DecidedBy
  <2>4. \A p \in Sessions : after(p) = before(p)
    BY <2>2
  <2> HIDE DEF after, before
  <2>5. {after(p) : p \in Sessions} = {before(p) : p \in Sessions}
    BY <2>4
  <2> QED
    BY <2>3, <2>5
<1>16. ASSUME NEW p \in Sessions
       PROVE  /\ HumanUses(p, r)' = IF p = s THEN d[r].entry.pending ELSE {}
              /\ \A q \in Requests \ {r} : HumanUses(p, q)' = HumanUses(p, q)
  <2>1. log'[s][n].decisions = decisions
    BY <1>2, <1>5, <1>6, <1>7
  <2>2. Uses(log'[s][n]) = d[r].entry.pending
    <3>1. {c[1] : c \in decisions} = d[r].entry.pending
      BY FirstOfPairs DEF decisions
    <3> QED
      BY <2>1, <3>1 DEF Uses
  <2> DEFINE mine == {j \in ByHuman(log'[p]) : log'[p][j].by = r}
  <2>3. HumanUses(p, r)' = UNION {Uses(log'[p][i]) : i \in mine}
    BY DEF HumanUses
  <2>4. \A x : x \in mine <=> p = s /\ x = n
    BY <1>13
  <2> HIDE DEF mine
  <2>5. p = s => mine = {n}
    BY <2>4
  <2>6. p # s => mine = {}
    BY <2>4
  <2>7. HumanUses(p, r)' = IF p = s THEN d[r].entry.pending ELSE {}
    BY <2>2, <2>3, <2>5, <2>6
  <2>8. ASSUME NEW q \in Requests \ {r}  PROVE HumanUses(p, q)' = HumanUses(p, q)
    <3>1. /\ {j \in ByHuman(log'[p]) : log'[p][j].by = q} =
             {j \in ByHuman(log[p]) : log[p][j].by = q}
          /\ \A i \in ByHuman(log[p]) : log'[p][i] = log[p][i]
      BY <1>5, <1>6, <1>7, <1>9, <1>10 DEF h
    <3> QED
      BY <3>1 DEF HumanUses, Uses
  <2> QED
    BY <2>7, <2>8
<1> QED
  BY <1>14, <1>15, <1>16 DEF decisions, s

\* A decision that is not relayed leaves the histories alone.
LEMMA RelayFails ==
  ASSUME TypeInv, Lossless, NEW r \in Requests, Step(r), d[r].pc = "relay",
         d'[r].pc = "error"
  PROVE  UNCHANGED log
<1>1. RelayDecision(r)
  BY RelayStep
<1> DEFINE rec == [d[r] EXCEPT !.pc = "clear", !.confirmed = @ \union d[r].entry.pending]
<1>2. rec.pc = "clear"
  BY RequestFacts DEF Request
<1>3. CallFails(r) \/ Rejected(r) \/ Posted(r, rec)
  BY <1>1 DEF RelayDecision
<1> HIDE DEF rec
<1>4. ~Posted(r, rec)
  BY <1>2, NoLostAnswer DEF TypeInv, TypeOK
<1> QED
  BY <1>3, <1>4 DEF CallFails, Rejected, agentVars

----------------------------------------------------------------------------
(* What a step does to the open questions. *)

\* What a move makes of the question of its conversation.
QuestionAt(pc, cached) == IF pc \in PastDecision THEN {} ELSE cached.pending

LEMMA MoveQuestion ==
  ASSUME NEW old, NEW new, NEW was, NEW is, NEW h, InSync(old, was, h),
         Moves(old, new, was, is), old.pc \notin {"rebuild", "adopt"},
         old.pc \in Cached => was = old.entry, old.pc = "recover" => new.pc = "create"
  PROVE  \/ /\ old.pc = "relay" /\ new.pc = "clear"
            /\ QuestionAt(old.pc, was) = old.entry.pending /\ old.entry.pending # {}
            /\ QuestionAt(new.pc, is) = {}
         \/ /\ old.pc = "respond" /\ new.pc = "done" /\ new.outcome = "INPUT_REQUIRED"
            /\ QuestionAt(old.pc, was) = {}
            /\ QuestionAt(new.pc, is) = new.deferred /\ new.deferred # {}
         \/ /\ old.pc = "relay" => new.pc = "error"
            /\ ~(new.pc = "done" /\ new.outcome = "INPUT_REQUIRED")
            /\ QuestionAt(new.pc, is) = QuestionAt(old.pc, was)
<1> USE DEF QuestionAt, PastDecision, InSync, Cached, Uncached
<1>1. NoEntry.pending = {}
  BY DEF NoEntry, Cache!NoEntry
<1>2. CASE Opens(old, new, was, is)
  BY <1>1, <1>2 DEF Opens, Branch
<1>3. CASE Resumes(old, new, was, is)
  BY <1>3 DEF Resumes
<1>4. CASE Works(old, new, was, is)
  BY <1>4 DEF Works
<1>5. CASE Ends(old, new, was, is)
  BY <1>5 DEF Ends
<1>6. CASE Fails(old, new, was, is)
  BY <1>1, <1>6 DEF Fails
<1> QED
  BY <1>2, <1>3, <1>4, <1>5, <1>6 DEF Moves

\* A step of a request changes the question of its own conversation only.
LEMMA QuestionStep ==
  ASSUME GateInv, Lossless, NEW r \in Requests, Step(r)
  PROVE  LET c == d[r].ctx IN
         /\ OpenQuestion[c] = QuestionAt(d[r].pc, store[c])
         /\ OpenQuestion' = [OpenQuestion EXCEPT ![c] = QuestionAt(d'[r].pc, store'[c])]
<1> USE StepFacts
<1> DEFINE c == d[r].ctx
<1>1. ASSUME NEW q \in Requests, d[q].ctx = c, d[q].pc \in PastDecision  PROVE q = r
  BY <1>1 DEF GateInv, CacheInv, Alone, Active, Finished, PastDecision
<1>2. Taken(c) <=> d[r].pc \in PastDecision
  BY <1>1 DEF Taken
<1>3. Taken(c)' <=> d'[r].pc \in PastDecision
  BY <1>1 DEF Taken
<1>4. \A e \in Contexts \ {c} : Taken(e)' <=> Taken(e)
  BY DEF Taken
<1>5. OpenQuestion[c] = QuestionAt(d[r].pc, store[c])
  BY <1>2 DEF OpenQuestion, QuestionAt
<1>6. OpenQuestion' = [e \in Contexts |-> IF Taken(e)' THEN {} ELSE store'[e].pending]
  BY DEF OpenQuestion
<1>7. \A e \in Contexts : OpenQuestion'[e] =
        IF e = c THEN QuestionAt(d'[r].pc, store'[c]) ELSE OpenQuestion[e]
  BY <1>3, <1>4, <1>6 DEF OpenQuestion, QuestionAt
<1> QED
  BY <1>5, <1>6, <1>7 DEF OpenQuestion

----------------------------------------------------------------------------
(* The refinement. *)

ToldTo == [r \in Requests |-> ToldBy(d[r])]
DecidedIn == [r \in Requests |-> DecidedBy(r)]

LEMMA InitGate == Init => Abstract!Init
<1> SUFFICES ASSUME Init PROVE Abstract!Init
  OBVIOUS
<1>1. \A r \in Requests : d[r].pc = "new"
  BY DEF Init, Fresh
<1>2. OpenQuestion = [c \in Contexts |-> {}]
  BY DEF Init, OpenQuestion, Cache!StoreInit, Cache!NoEntry
<1>3. \A r \in Requests : ToldBy(d[r]) = {}
  BY <1>1 DEF ToldBy
<1>4. \A s \in Sessions : ByHuman(log[s]) = {}
  BY DEF Init, AgentInit, ByHuman, Relayed, Positions, Of
<1>5. \A r \in Requests : DecidedBy(r) = {}
  BY <1>4 DEF DecidedBy
<1> QED
  BY <1>2, <1>3, <1>5 DEF Abstract!Init

\* What a step of a request tells the client.
LEMMA ToldStep ==
  ASSUME GateInv, Lossless, NEW r \in Requests, Step(r)
  PROVE  /\ ToldBy(d[r]) = {}
         /\ ToldTo' = [ToldTo EXCEPT ![r] = ToldBy(d'[r])]
<1> USE StepFacts
<1>1. ToldBy(d[r]) = {}
  BY DEF ToldBy, Active, Finished
<1>2. \A q \in Requests \ {r} : ToldBy(d'[q]) = ToldBy(d[q])
  OBVIOUS
<1>3. ToldTo' = [q \in Requests |-> ToldBy(d'[q])]
  BY DEF ToldTo, ToldBy
<1> QED
  BY <1>1, <1>2, <1>3 DEF ToldTo

LEMMA StepGate ==
  ASSUME GateInv, GateInv', Lossless, NEW r \in Requests, Step(r)
  PROVE  Abstract!Next \/ UNCHANGED Abstract!gateVars
<1> USE StepFacts
<1> DEFINE c   == d[r].ctx
           old == d[r]
           new == d'[r]
           was == store[c]
           is  == store'[c]
           h   == log[d[r].entry.session]
           result == Decision(d[r].answer)
<1>0. PostInv /\ TypeInv /\ TypeInv' /\ [Next]_vars
  BY DEF GateInv, CacheInv, Next
<1>1. /\ OpenQuestion[c] = QuestionAt(old.pc, was)
      /\ OpenQuestion' = [OpenQuestion EXCEPT ![c] = QuestionAt(new.pc, is)]
  BY QuestionStep
<1>2. /\ ToldTo[r] = {}
      /\ ToldTo' = [ToldTo EXCEPT ![r] = ToldBy(new)]
  BY ToldStep DEF ToldTo
<1>3. \/ /\ old.pc = "relay" /\ new.pc = "clear"
         /\ QuestionAt(old.pc, was) = old.entry.pending /\ old.entry.pending # {}
         /\ QuestionAt(new.pc, is) = {}
      \/ /\ old.pc = "respond" /\ new.pc = "done" /\ new.outcome = "INPUT_REQUIRED"
         /\ QuestionAt(old.pc, was) = {}
         /\ QuestionAt(new.pc, is) = new.deferred /\ new.deferred # {}
      \/ /\ old.pc = "relay" => new.pc = "error"
         /\ ~(new.pc = "done" /\ new.outcome = "INPUT_REQUIRED")
         /\ QuestionAt(new.pc, is) = QuestionAt(old.pc, was)
  <2>1. /\ InSync(old, was, h) /\ Moves(old, new, was, is)
        /\ old.pc \notin {"rebuild", "adopt"} /\ (old.pc \in Cached => was = old.entry)
        /\ old.pc = "recover" => new.pc = "create"
    OBVIOUS
  <2> HIDE DEF c, old, new, was, is, h
  <2> QED
    BY <2>1, MoveQuestion
<1>4. ToldBy(new) = {} => ToldTo' = ToldTo
  BY <1>2 DEF ToldTo
<1>5. QuestionAt(new.pc, is) = QuestionAt(old.pc, was) => OpenQuestion' = OpenQuestion
  <2>1. OpenQuestion = [e \in Contexts |-> OpenQuestion[e]]
    BY DEF OpenQuestion
  <2> QED
    BY <1>1, <2>1
<1>6. \A q \in Requests \ {r} : d[q].pc = "relay" => d'[q].pc \in Undecided
  BY DEF Undecided
<1>7. DecidedIn' = [q \in Requests |-> DecidedBy(q)']
  BY DEF DecidedIn
<1>8. CASE /\ old.pc = "relay" /\ new.pc = "clear"
           /\ QuestionAt(old.pc, was) = old.entry.pending /\ old.entry.pending # {}
           /\ QuestionAt(new.pc, is) = {}
  <2>1. ToldBy(new) = {}
    BY <1>8 DEF ToldBy
  <2>2. /\ DecidedBy(r)' = old.entry.pending \X {result}
        /\ \A q \in Requests \ {r} : DecidedBy(q)' = DecidedBy(q)
    BY <1>0, <1>8, DecidedRelay
  <2>3. DecidedIn[r] = {}
    BY <1>0, <1>8, DecidedNothing DEF DecidedIn, Undecided
  <2>4. DecidedIn' = [DecidedIn EXCEPT ![r] = OpenQuestion[c] \X {result}]
    <3>1. OpenQuestion[c] \X {result} = old.entry.pending \X {result}
      BY <1>1, <1>8
    <3>2. \A q \in Requests : DecidedBy(q)' =
            IF q = r THEN OpenQuestion[c] \X {result} ELSE DecidedBy(q)
      BY <2>2, <3>1
    <3> QED
      BY <1>7, <3>2 DEF DecidedIn
  <2>5. result \in {"allow", "deny"}
    BY DEF Decision
  <2>6. Abstract!Decide(r, c, result)
    BY <1>1, <1>4, <1>8, <2>1, <2>3, <2>4 DEF Abstract!Decide, ToldTo, DecidedIn
  <2> QED
    BY <2>5, <2>6 DEF Abstract!Next, Abstract!Results
<1>9. CASE /\ old.pc = "respond" /\ new.pc = "done" /\ new.outcome = "INPUT_REQUIRED"
           /\ QuestionAt(old.pc, was) = {}
           /\ QuestionAt(new.pc, is) = new.deferred /\ new.deferred # {}
  <2>1. ToldBy(new) = new.deferred
    BY <1>9 DEF ToldBy
  <2>2. \A q \in Requests : DecidedBy(q)' = DecidedBy(q)
    BY <1>0, <1>6, <1>9, DecidedKept
  <2>3. DecidedIn' = DecidedIn
    BY <1>7, <2>2 DEF DecidedIn
  <2>4. OpenQuestion'[c] = new.deferred
    BY <1>1, <1>9 DEF OpenQuestion
  <2>5. Abstract!Ask(r, c)
    BY <1>1, <1>2, <1>9, <2>1, <2>3, <2>4 DEF Abstract!Ask, ToldTo, DecidedIn
  <2> QED
    BY <2>5 DEF Abstract!Next
<1>10. CASE /\ old.pc = "relay" => new.pc = "error"
            /\ ~(new.pc = "done" /\ new.outcome = "INPUT_REQUIRED")
            /\ QuestionAt(new.pc, is) = QuestionAt(old.pc, was)
  <2>1. ToldBy(new) = {}
    BY <1>10 DEF ToldBy
  <2>2. old.pc = "relay" => UNCHANGED log
    BY <1>0, <1>10, RelayFails
  <2>3. \A q \in Requests : DecidedBy(q)' = DecidedBy(q)
    BY <1>0, <1>6, <2>2, DecidedKept
  <2>4. DecidedIn' = DecidedIn
    BY <1>7, <2>3 DEF DecidedIn
  <2> QED
    BY <1>4, <1>5, <1>10, <2>1, <2>4 DEF Abstract!gateVars, ToldTo, DecidedIn
<1> QED
  BY <1>3, <1>8, <1>9, <1>10

LEMMA EnvironmentGate ==
  ASSUME GateInv, GateInv', [Next]_vars, Environment \/ UNCHANGED vars, Lossless
  PROVE  UNCHANGED Abstract!gateVars
<1>1. TypeInv /\ TypeInv'
  BY DEF GateInv, CacheInv
<1>2. /\ UNCHANGED store
      /\ \A q \in Requests : d'[q] = d[q] \/ (d[q].pc = "new" /\ d'[q].pc = "load")
  BY <1>1, EnvironmentFacts DEF vars
<1>3. \A c \in Contexts : Taken(c)' <=> Taken(c)
  BY <1>2 DEF Taken, PastDecision
<1>4. OpenQuestion' = OpenQuestion
  BY <1>2, <1>3 DEF OpenQuestion
<1>5. \A q \in Requests : ToldBy(d'[q]) = ToldBy(d[q])
  BY <1>2 DEF ToldBy
<1>6. ToldTo' = ToldTo
  BY <1>5 DEF ToldTo, ToldBy
<1>7. \A q \in Requests : DecidedBy(q)' = DecidedBy(q)
  BY <1>1, <1>2, DecidedKept DEF Undecided
<1>8. DecidedIn' = DecidedIn
  BY <1>7 DEF DecidedIn
<1> QED
  BY <1>4, <1>6, <1>8 DEF Abstract!gateVars, ToldTo, DecidedIn

\* The dispatcher implements the approval gate: each question is put to the client
\* whole, one message decides all of it once, and nothing else is decided for them.
THEOREM Implements ==
  ASSUME ~Overlap, Lossless
  PROVE  Spec => ImplementsGate
<1>1. GateInv /\ [Next]_vars => GateInv'
  BY NextGateInv
<1>2. GateInv /\ GateInv' /\ [Next]_vars => [Abstract!Next]_Abstract!gateVars
  BY StepGate, EnvironmentGate DEF Next
<1> QED
  BY <1>1, <1>2, InitGateInv, InitGate, PTL DEF Spec, ImplementsGate, Abstract!Spec
----------------------------------------------------------------------------
(* What a human's decision is about. *)

\* One response, of the requests recs, has put these uses of session s to the client.
Asks(recs, s, uses) ==
  \E q \in Requests : /\ recs[q].pc = "done" /\ recs[q].outcome = "INPUT_REQUIRED"
                      /\ recs[q].entry.session = s /\ recs[q].deferred = uses

\* An open question is one that was asked.
QuestionAsked ==
  \A c \in Contexts : OpenQuestion[c] # {} => Asks(d, store[c].session, OpenQuestion[c])

DecisionInv == GateInv /\ QuestionAsked /\ DecisionAnswersQuestion

LEMMA DecisionsByUses ==
  DecisionAnswersQuestion <=>
    \A s \in Sessions, r \in Requests : HumanUses(s, r) # {} => Asks(d, s, HumanUses(s, r))
  BY DEF DecisionAnswersQuestion, HumanUses, Asks, At

\* A response that was sent stays as it is.
LEMMA AsksKept ==
  ASSUME \A q \in Requests : d[q].pc = "done" => d'[q] = d[q],
         NEW s, NEW uses, Asks(d, s, uses)
  PROVE  Asks(d', s, uses)
  BY DEF Asks

\* A step that decides nothing and changes no question keeps the invariant.
LEMMA DecisionKept ==
  ASSUME DecisionInv, GateInv',
         \A q \in Requests : d[q].pc = "done" => d'[q] = d[q],
         \A q \in Requests, s \in Sessions : HumanUses(s, q)' = HumanUses(s, q),
         \A c \in Contexts : OpenQuestion'[c] # {} =>
           \/ OpenQuestion'[c] = OpenQuestion[c] /\ store'[c].session = store[c].session
           \/ Asks(d', store'[c].session, OpenQuestion'[c])
  PROVE  DecisionInv'
<1>1. QuestionAsked'
  <2> SUFFICES ASSUME NEW c \in Contexts, OpenQuestion'[c] # {}
               PROVE  Asks(d', store'[c].session, OpenQuestion'[c])
    BY DEF QuestionAsked
  <2>1. CASE /\ OpenQuestion'[c] = OpenQuestion[c]
             /\ store'[c].session = store[c].session
    <3>1. Asks(d, store[c].session, OpenQuestion[c])
      BY <2>1 DEF DecisionInv, QuestionAsked
    <3> QED
      BY <2>1, <3>1, AsksKept
  <2> QED
    BY <2>1
<1>2. ASSUME NEW s \in Sessions, NEW r \in Requests, HumanUses(s, r)' # {}
      PROVE  Asks(d', s, HumanUses(s, r)')
  <2>1. Asks(d, s, HumanUses(s, r))
    BY <1>2, DecisionsByUses DEF DecisionInv
  <2> QED
    BY <2>1, AsksKept
<1>3. DecisionAnswersQuestion'
  BY <1>2 DEF DecisionAnswersQuestion, HumanUses, Asks, At
<1> QED
  BY <1>1, <1>3 DEF DecisionInv

LEMMA StepDecisionInv ==
  ASSUME DecisionInv, GateInv', Lossless, NEW r \in Requests, Step(r)
  PROVE  DecisionInv'
<1>0. GateInv /\ PostInv /\ TypeInv /\ TypeInv' /\ [Next]_vars
  BY DEF DecisionInv, GateInv, CacheInv, Next
<1> USE StepFacts
<1> DEFINE c   == d[r].ctx
           old == d[r]
           new == d'[r]
           was == store[c]
           is  == store'[c]
           h   == log[d[r].entry.session]
<1>1. /\ OpenQuestion[c] = QuestionAt(old.pc, was)
      /\ OpenQuestion' = [OpenQuestion EXCEPT ![c] = QuestionAt(new.pc, is)]
  BY <1>0, QuestionStep
<1>2. OpenQuestion'[c] = QuestionAt(new.pc, is)
  BY <1>0, <1>1 DEF OpenQuestion
<1>3. /\ \A q \in Requests : d[q].pc = "done" => d'[q] = d[q]
      /\ \A e \in Contexts \ {c} : /\ OpenQuestion'[e] = OpenQuestion[e]
                                  /\ store'[e] = store[e]
  BY <1>0, <1>1 DEF Active, Finished, OpenQuestion
<1>4. /\ InSync(old, was, h) /\ Moves(old, new, was, is) /\ was \in Entry
      /\ old.pc \notin {"rebuild", "adopt"} /\ (old.pc \in Cached => was = old.entry)
      /\ old.pc = "recover" => new.pc = "create"
  BY <1>0
<1>5. \/ /\ old.pc = "relay" /\ new.pc = "clear"
         /\ QuestionAt(old.pc, was) = old.entry.pending /\ old.entry.pending # {}
         /\ QuestionAt(new.pc, is) = {}
      \/ /\ old.pc = "respond" /\ new.pc = "done" /\ new.outcome = "INPUT_REQUIRED"
         /\ QuestionAt(old.pc, was) = {}
         /\ QuestionAt(new.pc, is) = new.deferred /\ new.deferred # {}
      \/ /\ old.pc = "relay" => new.pc = "error"
         /\ ~(new.pc = "done" /\ new.outcome = "INPUT_REQUIRED")
         /\ QuestionAt(new.pc, is) = QuestionAt(old.pc, was)
  <2> HIDE DEF c, old, new, was, is, h
  <2> QED
    BY <1>4, MoveQuestion
<1>6. \/ is.session = was.session /\ old.pc # "register"
      \/ old.pc = "register" /\ was = NoEntry /\ is = old.entry
  <2> HIDE DEF c, old, new, was, is, h
  <2> QED
    BY <1>4, MoveSession
<1>7. \A q \in Requests \ {r} : d[q].pc = "relay" => d'[q].pc \in Undecided
  BY <1>0 DEF Undecided
<1>8. CASE /\ old.pc = "relay" /\ new.pc = "clear"
           /\ QuestionAt(old.pc, was) = old.entry.pending /\ old.entry.pending # {}
           /\ QuestionAt(new.pc, is) = {}
  <2> DEFINE s == old.entry.session
  <2>1. \A p \in Sessions :
          /\ HumanUses(p, r)' = IF p = s THEN old.entry.pending ELSE {}
          /\ \A q \in Requests \ {r} : HumanUses(p, q)' = HumanUses(p, q)
    BY <1>0, <1>8, DecidedRelay
  <2>2. was = old.entry
    BY <1>4, <1>8 DEF Cached
  <2>3. Asks(d, s, old.entry.pending)
    BY <1>0, <1>1, <1>8, <2>2 DEF DecisionInv, QuestionAsked
  <2>4. Asks(d', s, old.entry.pending)
    BY <1>3, <2>3, AsksKept
  <2>5. ASSUME NEW p \in Sessions, NEW q \in Requests, HumanUses(p, q)' # {}
        PROVE  Asks(d', p, HumanUses(p, q)')
    <3>1. CASE q = r
      BY <2>1, <2>4, <2>5, <3>1
    <3>2. CASE q # r
      <4>1. HumanUses(p, q)' = HumanUses(p, q)
        BY <2>1, <3>2
      <4>2. Asks(d, p, HumanUses(p, q))
        BY <2>5, <4>1, DecisionsByUses DEF DecisionInv
      <4> QED
        BY <1>3, <4>1, <4>2, AsksKept
    <3> QED
      BY <3>1, <3>2
  <2>6. DecisionAnswersQuestion'
    BY <2>5 DEF DecisionAnswersQuestion, HumanUses, Asks, At
  <2>7. ASSUME NEW e \in Contexts, OpenQuestion'[e] # {}
        PROVE  Asks(d', store'[e].session, OpenQuestion'[e])
    <3>1. e # c
      BY <1>2, <1>8, <2>7
    <3>2. Asks(d, store[e].session, OpenQuestion[e])
      BY <1>3, <2>7, <3>1 DEF DecisionInv, QuestionAsked
    <3> QED
      BY <1>3, <3>1, <3>2, AsksKept
  <2> QED
    BY <2>6, <2>7 DEF DecisionInv, QuestionAsked
<1>9. CASE /\ old.pc = "respond" /\ new.pc = "done" /\ new.outcome = "INPUT_REQUIRED"
           /\ QuestionAt(old.pc, was) = {}
           /\ QuestionAt(new.pc, is) = new.deferred /\ new.deferred # {}
  <2>1. \A q \in Requests, s \in Sessions : HumanUses(s, q)' = HumanUses(s, q)
    BY <1>0, <1>7, <1>9, DecidedKept
  <2>2. new.entry.session = is.session
    <3>1. new.entry = old.entry /\ was = old.entry
      BY <1>4, <1>9 DEF Moves, Opens, Resumes, Works, Ends, Fails, Cached, Branch
    <3> QED
      BY <1>6, <1>9, <3>1
  <2>3. Asks(d', store'[c].session, OpenQuestion'[c])
    BY <1>2, <1>9, <2>2 DEF Asks
  <2> QED
    BY <1>0, <1>3, <2>1, <2>3, DecisionKept
<1>10. CASE /\ old.pc = "relay" => new.pc = "error"
            /\ ~(new.pc = "done" /\ new.outcome = "INPUT_REQUIRED")
            /\ QuestionAt(new.pc, is) = QuestionAt(old.pc, was)
  <2>1. old.pc = "relay" => UNCHANGED log
    BY <1>0, <1>10, RelayFails
  <2>2. \A q \in Requests, s \in Sessions : HumanUses(s, q)' = HumanUses(s, q)
    BY <1>0, <1>7, <2>1, DecidedKept
  <2>3. OpenQuestion'[c] # {} =>
          OpenQuestion'[c] = OpenQuestion[c] /\ is.session = was.session
    BY <1>1, <1>2, <1>6, <1>10 DEF QuestionAt, PastDecision
  <2> QED
    BY <1>0, <1>3, <2>2, <2>3, DecisionKept
<1> QED
  BY <1>5, <1>8, <1>9, <1>10

LEMMA EnvironmentDecisionInv ==
  ASSUME DecisionInv, GateInv', [Next]_vars, Environment \/ UNCHANGED vars, Lossless
  PROVE  DecisionInv'
<1>1. GateInv /\ TypeInv /\ TypeInv'
  BY DEF DecisionInv, GateInv, CacheInv
<1>2. /\ UNCHANGED store
      /\ \A q \in Requests : d'[q] = d[q] \/ (d[q].pc = "new" /\ d'[q].pc = "load")
  BY <1>1, EnvironmentFacts DEF vars
<1>3. \A c \in Contexts : Taken(c)' <=> Taken(c)
  BY <1>2 DEF Taken, PastDecision
<1>4. OpenQuestion' = OpenQuestion
  BY <1>2, <1>3 DEF OpenQuestion
<1>5. \A q \in Requests, s \in Sessions : HumanUses(s, q)' = HumanUses(s, q)
  BY <1>1, <1>2, DecidedKept DEF Undecided
<1> QED
  BY <1>1, <1>2, <1>4, <1>5, DecisionKept

LEMMA InitDecisionInv == Init => DecisionInv
<1> SUFFICES ASSUME Init PROVE DecisionInv
  OBVIOUS
<1>1. OpenQuestion = [c \in Contexts |-> {}]
  BY DEF Init, OpenQuestion, Cache!StoreInit, Cache!NoEntry
<1>2. \A s \in Sessions : ByHuman(log[s]) = {}
  BY DEF Init, AgentInit, ByHuman, Relayed, Positions, Of
<1>3. DecisionAnswersQuestion
  BY <1>2, DecisionsByUses DEF HumanUses
<1> QED
  BY <1>1, <1>3, InitGateInv DEF DecisionInv, QuestionAsked

\* The human's decision is relayed for all the tools one response asked about, and
\* for no other, in any number of conversations.
THEOREM DecisionsAnswer ==
  ASSUME ~Overlap, Lossless
  PROVE  Spec => []DecisionAnswersQuestion
<1>1. GateInv /\ [Next]_vars => GateInv'
  BY NextGateInv
<1>2. DecisionInv /\ [Next]_vars => DecisionInv'
  BY <1>1, StepDecisionInv, EnvironmentDecisionInv DEF Next, DecisionInv
<1>3. DecisionInv => DecisionAnswersQuestion
  BY DEF DecisionInv
<1> QED
  BY <1>2, <1>3, InitDecisionInv, PTL DEF Spec
=============================================================================
