--------------------------- MODULE SessionEvents ----------------------------
(***************************************************************************)
(* The event history of one managed-agent session, and how the dispatcher  *)
(* reads it: services/dispatcher.rs, contracts/message.rs and the bodies   *)
(* services/claude_client.rs posts.                                        *)
(*                                                                         *)
(* A history is a sequence that only grows.  The identifier of an event is *)
(* its position in it.  A GET of the events returns a prefix 1..k of the   *)
(* history: the whole of it, what is visible so far, or its first page of  *)
(* 1000.  A slice of the list is the set of the positions it holds.  The   *)
(* confirmations of one POST are one event: the bridge never reads them.   *)
(* Wording, token usage and timestamps are left out.                       *)
(***************************************************************************)
EXTENDS Integers, Sequences, FiniteSets, ToolGate

CONSTANT Requests   \* the message/send requests; see Dispatcher

NoAnchor == 0       \* the None of Option<event id>

\* What the bridge posts.  `by' is the request that posted the event and
\* `who' tells a rule's decision from a human's: neither is sent, both are
\* recorded here for the properties.
UserMessage(r) == [type |-> "user.message", by |-> r]

\* The confirmations of one POST, as pairs of a tool use and a result.
Confirmations(decisions, r, who) ==
  [type |-> "user.tool_confirmation", decisions |-> decisions, by |-> r, who |-> who]

\* What the agent emits.  `serves' is the user.message the agent works on.
ToolUse(t)     == [type |-> "agent.tool_use", tool |-> t]
AgentMessage   == [type |-> "agent.message"]
RunningOn(m)   == [type |-> "session.status_running", serves |-> m]
IdleOn(ids)    == [type |-> "session.status_idle", stop |-> "requires_action", ids |-> ids]
EndTurn        == [type |-> "session.status_idle", stop |-> "end_turn", ids |-> {}]
SessionError   == [type |-> "session.error"]
Terminated     == [type |-> "session.status_terminated"]

Event ==
  [type : {"user.message"}, by : Requests]
    \union [type : {"user.tool_confirmation"}, decisions : SUBSET (Nat \X {"allow", "deny"}),
            by : Requests, who : {"rule", "human"}]
    \union [type : {"agent.tool_use"}, tool : Tools]
    \union [type : {"session.status_running"}, serves : Nat]
    \union [type : {"session.status_idle"}, stop : {"requires_action", "end_turn"},
            ids : SUBSET Nat]
    \union [type : {"agent.message", "session.error", "session.status_terminated"}]

----------------------------------------------------------------------------
Largest(S) == CHOOSE x \in S : \A y \in S : y <= x

\* The positions of a slice that hold an event of one of the types.
Of(h, slice, types) == {i \in slice : h[i].type \in types}

LastOf(h, slice, types) ==
  IF Of(h, slice, types) = {} THEN 0 ELSE Largest(Of(h, slice, types))

StatusTypes == {"session.status_idle", "session.status_terminated",
                "session.error", "session.status_running"}

\* Mutant: an anchor that is not visible yet is ignored.
CurrentTurnUnanchored(h, k, anchor) ==
  IF anchor \in 1..k THEN (anchor + 1)..k
  ELSE (LastOf(h, 1..k, {"user.message"}) + 1)..k

\* The events of the list 1..k that belong to the turn the anchor opened.  An
\* anchor the list does not show yet gives the empty slice; no anchor falls
\* back to the last user.message, or to the whole list.
CurrentTurn(h, k, anchor) ==
  IF anchor # NoAnchor
    THEN (anchor + 1)..k
    ELSE (LastOf(h, 1..k, {"user.message"}) + 1)..k

\* The last status-bearing event of the slice decides it.  `at' is its position.
LastStatus(h, slice) ==
  LET at == LastOf(h, slice, StatusTypes)
      kind ==
        IF at = 0 THEN "none"
        ELSE CASE h[at].type = "session.status_idle" ->
                    IF h[at].stop = "requires_action" THEN "requires_action" ELSE "done"
               [] h[at].type = "session.status_terminated" -> "done"
               [] h[at].type = "session.error"             -> "failed"
               [] h[at].type = "session.status_running"    -> "running"
  IN  [kind |-> kind, at |-> at,
       ids |-> IF kind = "requires_action" THEN h[at].ids ELSE {}]

\* The tool an id of a requires_action names.  It is looked up in the slice: an
\* id whose tool_use event lies outside of it is a tool without a name.
ExtractTool(h, slice, id) ==
  IF id \in Of(h, slice, {"agent.tool_use"}) THEN h[id].tool ELSE NoTool

\* The uses among `ids' that the policy decides with `action'.
DecidedAs(h, slice, ids, action) ==
  {id \in ids : Resolve(ExtractTool(h, slice, id)) = action}
=============================================================================
