----------------------------- MODULE Dispatcher -----------------------------
(***************************************************************************)
(* dispatch() of services/dispatcher.rs: one message/send turn, with the   *)
(* tool-confirmation gate, over the hot cache (SessionStore) and the       *)
(* managed agents (ManagedAgent).                                          *)
(*                                                                         *)
(* Any number of requests run at a time, on one gateway replica or on      *)
(* several that share the storage.  Each request is one record d[r].  The  *)
(* code gives up control at its awaits and nowhere else, so an action is   *)
(* one awaited call with the computation up to the next await.  `pc'       *)
(* names the call the request makes next:                                  *)
(*                                                                         *)
(*   new -> load -> [recover -> rebuild -> adopt | create -> register]     *)
(*       -> (classify -> relay -> clear | post) -> poll*                   *)
(*       -> (auto -> poll* | [auto ->] park) -> persist -> save -> respond *)
(*       -> done,     or error, or dropped (crash)                         *)
(*                                                                         *)
(* A fault is a call that fails, a call the server carried out although    *)
(* its answer was lost, a storage error, a crash, the end of a TTL, or an  *)
(* agent's breakdown.  Each run names the kinds it allows and how many.    *)
(***************************************************************************)
EXTENDS ManagedAgent

CONSTANTS
  Tasks,            \* A2A task ids
  MaxPolls,         \* maxPollAttempts, as configured
  RecoveryEnabled,  \* sessionRecovery
  Echoes,           \* does the API echo the id of a posted user.message?
  Overlap,          \* may a client send on a context whose last request is open?
  FaultKinds,       \* the kinds of faults that happen
  MaxFaults         \* bound: how many of them

NoSession == 0

ASSUME DispatcherAssumption ==
  /\ Tasks # {}
  /\ MaxPolls \in Int
  /\ {RecoveryEnabled, Echoes, Overlap} \subseteq BOOLEAN
  /\ FaultKinds \subseteq {"error", "timeout", "storage", "crash", "expire", "agent", "aged"}
  /\ MaxFaults \in Nat

VARIABLES
  store,    \* the hot cache
  d,        \* the requests
  taskDb,   \* the state the task store keeps for each task
  faults    \* how many faults have happened

vars == <<agentVars, store, d, taskDb, faults>>

Cache == INSTANCE SessionStore

----------------------------------------------------------------------------
(* Types. *)

Entry == [session : {NoSession} \union Sessions, pending : SUBSET Nat]

TaskStates == {"none", "COMPLETED", "FAILED", "INPUT_REQUIRED", "WORKING"}

\* What the approval classifier answered: "none" is a failed call, and
\* "unasked" that the request did not need it.
Answers == {"unasked", "approve", "deny", "none"}

PCs == {"new", "load", "recover", "rebuild", "adopt", "create", "register",
        "classify", "relay", "clear", "post", "poll", "auto", "park",
        "persist", "save", "respond", "done", "error", "dropped"}

Request ==
  [pc        : PCs,
   ctx       : Contexts \union {NoContext},
   supplied  : BOOLEAN,
   task      : Tasks,
   entry     : Entry,               \* the request's own copy of the session entry
   answer    : Answers,
   confirmed : SUBSET Nat,          \* ids this request has confirmed
   anchor    : Nat,
   polls     : Nat,                 \* iterations of the poll loop that are left
   autos     : SUBSET (Nat \X {"allow", "deny"}),   \* decided by rules in this poll
   deferred  : SUBSET Nat,          \* left to the human in this poll
   outcome   : TaskStates,
   read      : Nat]                 \* the status event the outcome was read from

Fresh ==
  [pc |-> "new", ctx |-> NoContext, supplied |-> FALSE,
   task |-> CHOOSE t \in Tasks : TRUE, entry |-> Cache!NoEntry,
   answer |-> "unasked", confirmed |-> {}, anchor |-> NoAnchor, polls |-> 0,
   autos |-> {}, deferred |-> {}, outcome |-> "none", read |-> 0]

\* dispatch returns or is dropped: its locals are gone.
Leave(r, pc) ==
  d' = [d EXCEPT ![r] = [@ EXCEPT !.pc = pc, !.supplied = FALSE, !.confirmed = {},
                                  !.anchor = NoAnchor, !.polls = 0, !.autos = {}, !.read = 0]]

Finished == {"done", "error", "dropped"}
Active(r) == d[r].pc \notin {"new"} \union Finished

At(r, pc) == d[r].pc = pc
Go(r, pc) == d' = [d EXCEPT ![r].pc = pc]

----------------------------------------------------------------------------
(* Faults. *)

Fault(kind) ==
  /\ kind \in FaultKinds
  /\ faults < MaxFaults
  /\ faults' = faults + 1

NoFault == UNCHANGED faults

\* A call of the hot cache, which may fail without its caller being told.
Storage(failed) == IF failed THEN Fault("storage") ELSE NoFault

\* A call of the Claude API returned an error, which dispatch passes on with `?'.
CallFails(r) ==
  /\ Fault("error")
  /\ Leave(r, "error")
  /\ UNCHANGED <<agentVars, store, taskDb>>

\* A POST to a session that has ended is refused.
Rejected(r) ==
  /\ d[r].entry.session # NoSession /\ Ended(log[d[r].entry.session])
  /\ Leave(r, "error")
  /\ UNCHANGED <<agentVars, store, taskDb, faults>>

\* A POST that takes effect: answered, or carried out with its answer lost.
Posted(r, answered) ==
  \/ NoFault /\ d' = [d EXCEPT ![r] = answered]
  \/ Fault("timeout") /\ Leave(r, "error")

----------------------------------------------------------------------------
(* Session: load, recover or create. *)

\* A request arrives.  Without a contextId it gets a fresh one.
Receive(r, c, t, supplied) ==
  /\ At(r, "new")
  /\ supplied \/ \A q \in Requests : d[q].ctx # c
  /\ Overlap \/ \A q \in Requests : d[q].ctx = c => ~Active(q)
  /\ d' = [d EXCEPT ![r].pc = "load", ![r].ctx = c, ![r].task = t,
                    ![r].supplied = supplied]
  /\ UNCHANGED <<agentVars, store, taskDb, faults>>

\* A session with pending tools takes the message as the human's decision.
Branch(entry) == IF entry.pending # {} THEN "classify" ELSE "post"

LoadSession(r) ==
  /\ At(r, "load")
  /\ \E failed \in BOOLEAN :
       LET e == Cache!Load(d[r].ctx, failed) IN
       /\ Storage(failed)
       /\ d' = [d EXCEPT
            ![r].entry = e,
            ![r].pc = IF e # Cache!NoEntry THEN Branch(e)
                      ELSE IF RecoveryEnabled /\ d[r].supplied THEN "recover"
                      ELSE "create"]
  /\ UNCHANGED <<agentVars, store, taskDb>>

\* Mutant: the newest idle session of the agent, whatever its tag.
RecoverableUntagged(c) == {s \in Sessions : tag[s] # NoContext /\ Idle(log[s])}

\* recover_session, first call: the newest idle session tagged with the context.
Recoverable(c) == {s \in Sessions : tag[s] = c /\ Idle(log[s])}

FindSession(r) ==
  /\ At(r, "recover")
  /\ \/ /\ NoFault
        /\ Recoverable(d[r].ctx) # {}
        /\ d' = [d EXCEPT ![r].pc = "rebuild",
                          ![r].entry.session = Largest(Recoverable(d[r].ctx))]
     \/ /\ \/ NoFault /\ Recoverable(d[r].ctx) = {}
           \/ Fault("error")
           \/ Fault("aged")
        /\ Go(r, "create")
  /\ UNCHANGED <<agentVars, store, taskDb>>

\* Mutant: the session is adopted without its gate.
RebuildSessionBare(r) ==
  /\ At(r, "rebuild") /\ Go(r, "adopt")
  /\ UNCHANGED <<agentVars, store, taskDb, faults>>

\* recover_session, second call: the deferred tools of the trailing gate.
RebuildSession(r) ==
  LET h == log[d[r].entry.session] IN
  /\ At(r, "rebuild")
  /\ \/ /\ NoFault
        /\ \E k \in VisiblePrefixes(h) :
             d' = [d EXCEPT ![r].pc = "adopt",
                  ![r].entry.pending =
                     DecidedAs(h, 1..k, LastStatus(h, 1..k).ids, "defer")]
     \/ /\ Fault("error")
        /\ d' = [d EXCEPT ![r].pc = "create", ![r].entry = Cache!NoEntry]
  /\ UNCHANGED <<agentVars, store, taskDb>>

AdoptSession(r) ==
  /\ At(r, "adopt")
  /\ \E failed \in BOOLEAN :
       Storage(failed) /\ Cache!Save(d[r].ctx, d[r].entry, failed)
  /\ Go(r, Branch(d[r].entry))
  /\ UNCHANGED <<agentVars, taskDb>>

CreateSession(r) ==
  /\ At(r, "create")
  /\ \/ \E s \in Sessions :
          /\ tag[s] = NoContext
          /\ \A q \in Sessions : q < s => tag[q] # NoContext
          /\ tag' = [tag EXCEPT ![s] = d[r].ctx]
          /\ Posted(r, [d[r] EXCEPT !.pc = "register",
                                    !.entry = [session |-> s, pending |-> {}]])
          /\ UNCHANGED <<log, store, taskDb>>
     \/ CallFails(r)

\* Mutant: nothing is written until the turn ends.
RegisterSessionLate(r) ==
  /\ At(r, "register") /\ Go(r, "post")
  /\ UNCHANGED <<agentVars, store, taskDb, faults>>

\* The entry is written only where there is none; the request goes on with its
\* own session either way.
RegisterSession(r) ==
  /\ At(r, "register")
  /\ \E failed \in BOOLEAN :
       Storage(failed) /\ Cache!Create(d[r].ctx, d[r].entry, failed)
  /\ Go(r, "post")
  /\ UNCHANGED <<agentVars, taskDb>>

----------------------------------------------------------------------------
(* Resume: the message is the decision on the pending tools. *)

\* One /v1/messages call.  What it answers is the model's reading of the message.
Classify(r) ==
  /\ At(r, "classify")
  /\ \E answer \in {"approve", "deny", "none"} :
       /\ IF answer = "none" THEN Fault("error") \/ Fault("timeout") ELSE NoFault
       /\ d' = [d EXCEPT ![r].answer = answer, ![r].pc = "relay"]
  /\ UNCHANGED <<agentVars, store, taskDb>>

\* Mutants: relay the classifier's word; let a failed classification approve.
DecisionVerbatim(answer) == answer
DecisionFailsOpen(answer) == IF answer = "deny" THEN "deny" ELSE "allow"

\* Anything but a clear approval denies.
Decision(answer) == IF answer = "approve" THEN "allow" ELSE "deny"

PostConfirmations(r, decisions, who) ==
  LET s == d[r].entry.session IN
  /\ ~Ended(log[s])
  /\ Append1(s, Confirmations(decisions, r, who))

RelayDecision(r) ==
  LET pending == d[r].entry.pending
      result  == Decision(d[r].answer)
  IN
  /\ At(r, "relay")
  /\ \/ /\ PostConfirmations(r, pending \X {result}, "human")
        /\ Posted(r, [d[r] EXCEPT !.pc = "clear", !.confirmed = @ \union pending])
        /\ UNCHANGED <<tag, store, taskDb>>
     \/ CallFails(r)
     \/ Rejected(r)

\* max_poll_attempts.max(1)
Polls == IF MaxPolls >= 1 THEN MaxPolls ELSE 1

\* Mutant: the pending tools are relayed but not cleared.
ClearPendingNever(r) ==
  /\ At(r, "clear") /\ NoFault
  /\ d' = [d EXCEPT ![r].pc = "poll", ![r].polls = Polls]
  /\ UNCHANGED <<agentVars, store, taskDb>>

ClearPending(r) ==
  LET e == [d[r].entry EXCEPT !.pending = {}] IN
  /\ At(r, "clear")
  /\ \E failed \in BOOLEAN : Storage(failed) /\ Cache!Save(d[r].ctx, e, failed)
  /\ d' = [d EXCEPT ![r].entry = e, ![r].pc = "poll", ![r].polls = Polls]
  /\ UNCHANGED <<agentVars, taskDb>>

----------------------------------------------------------------------------
(* New turn: post the message and remember its event id. *)

SendMessage(r) ==
  LET s == d[r].entry.session IN
  /\ At(r, "post")
  /\ \/ /\ ~Ended(log[s])
        /\ Append1(s, UserMessage(r))
        /\ Posted(r, [d[r] EXCEPT !.pc = "poll", !.polls = Polls,
                        !.anchor = IF Echoes THEN Len(log[s]) + 1 ELSE NoAnchor])
        /\ UNCHANGED <<tag, store, taskDb>>
     \/ CallFails(r)
     \/ Rejected(r)

----------------------------------------------------------------------------
(* The poll loop. *)

\* The rest of an iteration that leaves the loop running: the next one, or
\* WORKING when the budget is spent.
NextPoll(rec) ==
  IF rec.polls > 1
    THEN [rec EXCEPT !.polls = @ - 1, !.pc = "poll"]
    ELSE [rec EXCEPT !.polls = 0, !.pc = "persist", !.outcome = "WORKING"]

Conclude(rec, state, at) ==
  [rec EXCEPT !.outcome = state, !.read = at, !.pc = "persist"]

\* Mutant: what the rules decide is relayed but not remembered.
GateToolsForgetful(rec, h, turn, ids, at) ==
  LET allowed == DecidedAs(h, turn, ids, "allow")
      denied  == DecidedAs(h, turn, ids, "deny")
  IN  [rec EXCEPT !.autos = (allowed \X {"allow"}) \union (denied \X {"deny"}),
                  !.deferred = DecidedAs(h, turn, ids, "defer"), !.read = at,
                  !.pc = IF allowed \union denied # {} THEN "auto" ELSE "park"]

\* What the request does with the ids of a requires_action it has not confirmed.
GateTools(rec, h, turn, ids, at) ==
  LET autos == (DecidedAs(h, turn, ids, "allow") \X {"allow"})
                 \union (DecidedAs(h, turn, ids, "deny") \X {"deny"})
      deferred == DecidedAs(h, turn, ids, "defer")
  IN  [rec EXCEPT !.autos = autos, !.deferred = deferred, !.read = at,
                  !.confirmed = @ \union {a[1] : a \in autos},
                  !.pc = IF autos # {} THEN "auto" ELSE "park"]

\* Mutant: a poll that finds nothing to do is not counted.
InterpretUncounted(rec, h, k) ==
  LET turn   == CurrentTurn(h, k, rec.anchor)
      status == LastStatus(h, turn)
      ids    == status.ids \ rec.confirmed
  IN  CASE status.kind = "done"   -> Conclude(rec, "COMPLETED", status.at)
        [] status.kind = "failed" -> Conclude(rec, "FAILED", status.at)
        [] ids # {}               -> GateTools(rec, h, turn, ids, status.at)
        [] OTHER                  -> rec

\* What one listing of the events, 1..k, makes of the request.
Interpret(rec, h, k) ==
  LET turn   == CurrentTurn(h, k, rec.anchor)
      status == LastStatus(h, turn)
      ids    == status.ids \ rec.confirmed
  IN  CASE status.kind = "done"   -> Conclude(rec, "COMPLETED", status.at)
        [] status.kind = "failed" -> Conclude(rec, "FAILED", status.at)
        [] ids # {}               -> GateTools(rec, h, turn, ids, status.at)
        [] OTHER                  -> NextPoll(rec)

Poll(r) ==
  LET s == d[r].entry.session IN
  /\ At(r, "poll")
  /\ \/ /\ NoFault
        /\ \E k \in VisiblePrefixes(log[s]) :
             d' = [d EXCEPT ![r] = Interpret(d[r], log[s], k)]
        /\ UNCHANGED <<agentVars, store, taskDb>>
     \/ CallFails(r)

\* The rules' decisions are relayed before anything is left to the human.
RelayAutos(r) ==
  /\ At(r, "auto")
  /\ \/ /\ PostConfirmations(r, d[r].autos, "rule")
        /\ Posted(r, LET rec == [d[r] EXCEPT !.autos = {}] IN
                     IF rec.deferred # {} THEN [rec EXCEPT !.pc = "park"]
                                          ELSE NextPoll(rec))
        /\ UNCHANGED <<tag, store, taskDb>>
     \/ CallFails(r)
     \/ Rejected(r)

\* Mutants: park every tool of the gate, the relayed ones too; park in the cache
\* but not in the copy that is written back at the end.
ParkWholeGate(r) ==
  LET e == [d[r].entry EXCEPT !.pending = d[r].deferred \union d[r].confirmed] IN
  /\ At(r, "park") /\ NoFault
  /\ Cache!Save(d[r].ctx, e, FALSE)
  /\ d' = [d EXCEPT ![r].entry = e, ![r].outcome = "INPUT_REQUIRED", ![r].pc = "persist"]
  /\ UNCHANGED <<agentVars, taskDb>>

ParkInCacheOnly(r) ==
  /\ At(r, "park") /\ NoFault
  /\ Cache!Save(d[r].ctx, [d[r].entry EXCEPT !.pending = d[r].deferred], FALSE)
  /\ d' = [d EXCEPT ![r].outcome = "INPUT_REQUIRED", ![r].pc = "persist"]
  /\ UNCHANGED <<agentVars, taskDb>>

ParkDeferred(r) ==
  LET e == [d[r].entry EXCEPT !.pending = d[r].deferred] IN
  /\ At(r, "park")
  /\ \E failed \in BOOLEAN : Storage(failed) /\ Cache!Save(d[r].ctx, e, failed)
  /\ d' = [d EXCEPT ![r].entry = e, ![r].outcome = "INPUT_REQUIRED",
                    ![r].pc = "persist"]
  /\ UNCHANGED <<agentVars, taskDb>>

----------------------------------------------------------------------------
(* The end of the turn. *)

\* create, else update: the entry is the turn's in both cases.
PersistTask(r) ==
  /\ At(r, "persist")
  /\ \E failed \in BOOLEAN :
       /\ Storage(failed)
       /\ taskDb' = IF failed THEN taskDb ELSE [taskDb EXCEPT ![d[r].task] = d[r].outcome]
  /\ Go(r, "save")
  /\ UNCHANGED <<agentVars, store>>

\* The request's own copy is written back, whatever the cache holds by now.
SaveSession(r) ==
  /\ At(r, "save")
  /\ \E failed \in BOOLEAN :
       Storage(failed) /\ Cache!Save(d[r].ctx, d[r].entry, failed)
  /\ Go(r, "respond")
  /\ UNCHANGED <<agentVars, taskDb>>

\* The A2A task reaches the client.
Respond(r) ==
  /\ At(r, "respond")
  /\ Leave(r, "done")
  /\ UNCHANGED <<agentVars, store, taskDb, faults>>

----------------------------------------------------------------------------
(* What happens to the bridge. *)

\* The replica restarts, or the client goes away and the call is dropped.
Crash(r) ==
  /\ Active(r)
  /\ Fault("crash")
  /\ Leave(r, "dropped")
  /\ UNCHANGED <<agentVars, store, taskDb>>

ExpireSession(c) ==
  /\ Fault("expire")
  /\ Cache!Expire(c)
  /\ UNCHANGED <<agentVars, d, taskDb>>

BreakAgent(s) ==
  /\ Fault("agent")
  /\ \E e \in {SessionError, Terminated} : BreakTurn(s, e)
  /\ UNCHANGED <<store, d, taskDb>>

----------------------------------------------------------------------------
Init ==
  /\ AgentInit
  /\ Cache!StoreInit
  /\ d = [r \in Requests |-> Fresh]
  /\ taskDb = [t \in Tasks |-> "none"]
  /\ faults = 0

\* One step of the code for request r.
Step(r) ==
  \/ LoadSession(r) \/ FindSession(r) \/ RebuildSession(r) \/ AdoptSession(r)
  \/ CreateSession(r) \/ RegisterSession(r)
  \/ Classify(r) \/ RelayDecision(r) \/ ClearPending(r)
  \/ SendMessage(r) \/ Poll(r) \/ RelayAutos(r) \/ ParkDeferred(r)
  \/ PersistTask(r) \/ SaveSession(r) \/ Respond(r)

AgentStep(s) ==
  /\ \/ StartTurn(s) \/ RequireAction(s) \/ AnnounceRest(s)
     \/ ResumeTurn(s) \/ FinishTurn(s)
     \/ \E t \in Tools : UseTool(s, t)
  /\ UNCHANGED <<store, d, taskDb, faults>>

Environment ==
  \/ \E r \in Requests, c \in Contexts, t \in Tasks, supplied \in BOOLEAN :
       Receive(r, c, t, supplied)
  \/ \E r \in Requests : Crash(r)
  \/ \E c \in Contexts : ExpireSession(c)
  \/ \E s \in Sessions : AgentStep(s) \/ BreakAgent(s)

Next == (\E r \in Requests : Step(r)) \/ Environment

Spec == Init /\ [][Next]_vars

\* A request that waits for a call is answered, or times out (timeout_ms), so
\* each step of the code is taken in the end.  Nothing is asked of the clients,
\* the agents or the faults.
FairSpec == Spec /\ \A r \in Requests : WF_vars(Step(r))
=============================================================================
