---------------------------- MODULE ApprovalGate ----------------------------
(***************************************************************************)
(* What the tool-confirmation gate promises the human, apart from how it   *)
(* keeps the promise (README.md and docs/spec.md, Tool confirmation).      *)
(*                                                                         *)
(* A conversation has at most one open question: the tool uses that one    *)
(* response has put to the client.  It stays open until one message of the *)
(* conversation decides it.  That decision is about all of its uses, gives *)
(* them one result and reaches the agent once; nothing else is ever        *)
(* decided in the human's name, and no request asks or decides twice.      *)
(***************************************************************************)
EXTENDS Integers, Sequences

CONSTANTS
  Contexts,   \* the conversations
  Requests    \* the messages of all conversations

VARIABLES
  question,   \* the open question of each conversation, {} when there is none
  told,       \* what the response to each request has put to the client
  decided     \* what the agent was told in the human's name, by each request

gateVars == <<question, told, decided>>

Results == {"allow", "deny"}

Init ==
  /\ question = [c \in Contexts |-> {}]
  /\ told     = [r \in Requests |-> {}]
  /\ decided  = [r \in Requests |-> {}]

\* The response to r asks about some uses while no question is open.
Ask(r, c) ==
  /\ question[c] = {}
  /\ question'[c] # {}
  /\ question' = [question EXCEPT ![c] = question'[c]]
  /\ told[r] = {}
  /\ told' = [told EXCEPT ![r] = question'[c]]
  /\ UNCHANGED decided

\* The message of r decides the open question.
Decide(r, c, result) ==
  /\ question[c] # {}
  /\ question' = [question EXCEPT ![c] = {}]
  /\ decided[r] = {}
  /\ decided' = [decided EXCEPT ![r] = question[c] \X {result}]
  /\ UNCHANGED told

Next ==
  \E r \in Requests, c \in Contexts :
    Ask(r, c) \/ \E result \in Results : Decide(r, c, result)

Spec == Init /\ [][Next]_gateVars

----------------------------------------------------------------------------
\* One response has put these uses to the client.
Told(uses) == \E q \in Requests : told[q] = uses

\* What is open was put to the client whole, and what was decided in the human's
\* name is one result for all the uses that were (README.md, Tool confirmation).
OnlyToldIsDecided ==
  /\ \A c \in Contexts : question[c] # {} => Told(question[c])
  /\ \A r \in Requests :
       decided[r] # {} =>
         \E q \in Requests, result \in Results : decided[r] = told[q] \X {result}
=============================================================================
