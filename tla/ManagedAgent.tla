---------------------------- MODULE ManagedAgent ----------------------------
(***************************************************************************)
(* The Claude Managed Agents service, as the bridge uses it.  It is not    *)
(* part of the repository; this module states what services/dispatcher.rs  *)
(* and services/claude_client.rs rely on and what they must cope with:     *)
(*                                                                         *)
(*   - a session keeps the whole of its history and only appends to it;    *)
(*   - the agent serves the user.messages of a session one at a time, in   *)
(*     the order they were posted; one that is posted while an earlier     *)
(*     turn is open, or waits at a gate, is queued;                        *)
(*   - a turn may use tools; before it runs them it goes idle with         *)
(*     requires_action and resumes when each of them is confirmed.  While  *)
(*     only some are, it may announce the remaining ones again;            *)
(*   - a GET of the events may lag behind the POSTs and the agent by a few *)
(*     events, and returns one page.                                       *)
(***************************************************************************)
EXTENDS SessionEvents

CONSTANTS
  Contexts,     \* the A2A contextIds
  NoContext,    \* the tag of a session that does not exist yet
  MaxSessions,  \* bound: sessions that can be created
  MaxUses,      \* bound: tool uses per session
  MaxLag,       \* how many of the latest events a GET may not show yet
  PageLimit     \* how many events a GET returns at most

ASSUME AgentAssumption ==
  /\ NoContext \notin Contexts
  /\ MaxSessions \in Nat \ {0}
  /\ MaxUses \in Nat
  /\ MaxLag \in Nat
  /\ PageLimit \in Nat \ {0}

Sessions == 1..MaxSessions   \* in the order of their creation

VARIABLES
  tag,   \* metadata.a2a_context_id of each session
  log    \* the history of each session

agentVars == <<tag, log>>

AgentInit ==
  /\ tag = [s \in Sessions |-> NoContext]
  /\ log = [s \in Sessions |-> <<>>]

Append1(s, e) == log' = [log EXCEPT ![s] = Append(@, e)]

----------------------------------------------------------------------------
(* The state of a session is a function of its history. *)

Phase(h) ==
  LET at == LastOf(h, 1..Len(h), StatusTypes)
  IN  IF at = 0 THEN "new"
      ELSE IF h[at].type = "session.status_idle" THEN h[at].stop
      ELSE h[at].type

Gated(h)   == Phase(h) = "requires_action"
Running(h) == Phase(h) = "session.status_running"
Idle(h)    == Phase(h) \in {"new", "end_turn", "requires_action", "session.error"}
Ended(h)   == Phase(h) = "session.status_terminated"

\* The user.message of the turn that is open, or was last.
Serving(h) ==
  LET at == LastOf(h, 1..Len(h), {"session.status_running"})
  IN  IF at = 0 THEN 0 ELSE h[at].serves

Waiting(h) == {i \in Of(h, 1..Len(h), {"user.message"}) : i > Serving(h)}

Confirmed(h, use) ==
  \E i \in Of(h, 1..Len(h), {"user.tool_confirmation"}) :
    \E c \in h[i].decisions : c[1] = use

Unconfirmed(h) == {u \in Of(h, 1..Len(h), {"agent.tool_use"}) : ~Confirmed(h, u)}

\* The prefixes a GET of the events may return.
VisiblePrefixes(h) ==
  {k \in 0..Len(h) : k <= PageLimit /\ (Len(h) - k <= MaxLag \/ k = PageLimit)}

----------------------------------------------------------------------------
(* What the agents do on their own. *)

StartTurn(s) ==
  /\ Idle(log[s]) /\ ~Gated(log[s])
  /\ Waiting(log[s]) # {}
  /\ Append1(s, RunningOn(CHOOSE m \in Waiting(log[s]) :
                            \A n \in Waiting(log[s]) : m <= n))
  /\ UNCHANGED tag

UseTool(s, t) ==
  /\ Running(log[s])
  /\ Cardinality(Of(log[s], DOMAIN log[s], {"agent.tool_use"})) < MaxUses
  /\ Append1(s, ToolUse(t))
  /\ UNCHANGED tag

RequireAction(s) ==
  /\ Running(log[s])
  /\ Unconfirmed(log[s]) # {}
  /\ Append1(s, IdleOn(Unconfirmed(log[s])))
  /\ UNCHANGED tag

\* The last announced gate: the ids of the last status event of a gated session.
Gate(h) == h[LastOf(h, 1..Len(h), StatusTypes)].ids

AnnounceRest(s) ==
  /\ Gated(log[s])
  /\ Gate(log[s]) \intersect Unconfirmed(log[s]) \notin {{}, Gate(log[s])}
  /\ Append1(s, IdleOn(Gate(log[s]) \intersect Unconfirmed(log[s])))
  /\ UNCHANGED tag

ResumeTurn(s) ==
  /\ Gated(log[s])
  /\ Gate(log[s]) \intersect Unconfirmed(log[s]) = {}
  /\ Append1(s, RunningOn(Serving(log[s])))
  /\ UNCHANGED tag

FinishTurn(s) ==
  /\ Running(log[s])
  /\ Unconfirmed(log[s]) = {}
  /\ log' = [log EXCEPT ![s] = @ \o <<AgentMessage, EndTurn>>]
  /\ UNCHANGED tag

\* An error ends the turn; a termination ends the session.
BreakTurn(s, e) ==
  /\ Running(log[s])
  /\ e \in {SessionError, Terminated}
  /\ Append1(s, e)
  /\ UNCHANGED tag
=============================================================================
