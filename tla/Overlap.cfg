\* Two requests at a time on two contexts, and one of lost answer, storage error, expiry,
\* agent breakdown.
SPECIFICATION Spec
SYMMETRY Symmetry
CONSTANTS
  allow_tool = allow_tool
  deny_tool = deny_tool
  defer_tool = defer_tool
  NoTool = NoTool
  NoContext = NoContext
  Requests = {r1, r2}
  Contexts = {c1, c2}
  Tools = {defer_tool, deny_tool}
  Rules <- OverlappingRules
  DefaultAction = "defer"
  MaxSessions = 2
  MaxUses = 1
  MaxLag = 0
  PageLimit = 1000
  Tasks = {k1}
  MaxPolls = 2
  RecoveryEnabled = TRUE
  Echoes = FALSE
  Overlap = TRUE
  FaultKinds = {"timeout", "storage", "expire", "agent"}
  MaxFaults = 1
CHECK_DEADLOCK FALSE
INVARIANTS
  PostsStayInContext
  DecisionsAreSanctioned
  NoRequestConfirmsTwice
