------------------------------ MODULE ToolGate ------------------------------
(***************************************************************************)
(* The tool-confirmation policy: services/tool_gate.rs.                    *)
(*                                                                         *)
(* Each tool an agent paused on is decided by the first rule whose pattern *)
(* matches the tool's key, else by the default action.  A tool is          *)
(* identified with its canonical key; a pattern with the set of keys its   *)
(* glob matches.                                                           *)
(***************************************************************************)
EXTENDS Integers, Sequences, FiniteSets

CONSTANTS
  Tools,          \* the canonical keys of the tools the agents can call
  NoTool,         \* "tool_use:", the key of a tool use whose event is not found
  Rules,          \* toolConfirmation.rules, in order: [tool |-> SUBSET, action |-> STRING]
  DefaultAction   \* toolConfirmation.defaultAction, as configured

Keys == Tools \union {NoTool}

ASSUME RulesAssumption ==
  /\ NoTool \notin Tools
  /\ Rules \in Seq([tool : SUBSET Keys, action : STRING])
  /\ DefaultAction \in STRING

Actions == {"allow", "deny", "defer"}

\* Any spelling the policy does not know is a defer.
Parse(action) == IF action \in {"allow", "deny"} THEN action ELSE "defer"

GlobMatch(key, pattern) == key \in pattern

Matching(key) == {i \in DOMAIN Rules : GlobMatch(key, Rules[i].tool)}

\* The decision for one tool.  It is the same at every call: the configuration
\* does not change while the policy runs.
Resolve(key) ==
  IF Matching(key) = {}
    THEN Parse(DefaultAction)
    ELSE LET first == CHOOSE i \in Matching(key) : \A j \in Matching(key) : i <= j
         IN  Parse(Rules[first].action)
=============================================================================
