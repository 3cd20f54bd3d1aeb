---------------------------- MODULE MCDispatcher ----------------------------
(***************************************************************************)
(* Dispatcher on small instances.  A cfg names the sets; the policies it   *)
(* chooses from are defined here.                                          *)
(***************************************************************************)
EXTENDS GateRefinement, TLC

CONSTANTS allow_tool, deny_tool, defer_tool

\* No rule: the default decides.
NoRules == <<>>

\* One rule for a tool that is allowed; all others are left to the default.
AllowRule == <<[tool |-> {allow_tool}, action |-> "allow"]>>

\* One rule for a tool that is denied.
DenyRule == <<[tool |-> {deny_tool}, action |-> "deny"]>>

\* Two patterns match the same tool: the second rule never gets to it.
OverlappingRules == DenyRule \o <<[tool |-> {deny_tool}, action |-> "allow"]>>

\* Requests are interchangeable, and so are contexts.
Symmetry == Permutations(Requests) \union Permutations(Contexts)
=============================================================================
