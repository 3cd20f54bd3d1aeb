--------------------------- MODULE GateRefinement ---------------------------
(***************************************************************************)
(* Dispatcher implements ApprovalGate when each conversation takes one     *)
(* message at a time and no write to the cache is lost: the refinement     *)
(* mapping.                                                                *)
(*                                                                         *)
(* The question lives in the cache from the moment it is parked.  It is    *)
(* open for the client when the response has left, and closed when the     *)
(* decision has reached the agent, which is before the cache is cleared.   *)
(***************************************************************************)
EXTENDS DispatcherProperties

\* From its decision, or its first call when there is nothing to decide, to its
\* response a request has its conversation to itself and no question is open.
PastDecision == {"create", "register", "clear", "post", "poll", "auto", "park",
                 "persist", "save", "respond"}

Taken(c) == \E r \in Requests : d[r].ctx = c /\ d[r].pc \in PastDecision

OpenQuestion == [c \in Contexts |-> IF Taken(c) THEN {} ELSE store[c].pending]

ToldBy(rec) ==
  IF rec.pc = "done" /\ rec.outcome = "INPUT_REQUIRED" THEN rec.deferred ELSE {}

DecidedBy(r) ==
  UNION {UNION {log[s][i].decisions : i \in {j \in ByHuman(log[s]) : log[s][j].by = r}} :
           s \in Sessions}

Abstract == INSTANCE ApprovalGate WITH
          question <- OpenQuestion,
          told     <- [r \in Requests |-> ToldBy(d[r])],
          decided  <- [r \in Requests |-> DecidedBy(r)]

\* Every behaviour of the dispatcher is one of the gate: a question is put to the
\* client whole, stays open until one message decides all of it, and is decided once
\* (services/dispatcher.rs, the resume branch, the gate, and the two saves).
ImplementsGate == Abstract!Spec
=============================================================================
