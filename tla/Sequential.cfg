\* One message at a time on one context, at most one failing call or broken turn.
SPECIFICATION Spec
SYMMETRY Symmetry
CONSTANTS
  allow_tool = allow_tool
  deny_tool = deny_tool
  defer_tool = defer_tool
  NoTool = NoTool
  NoContext = NoContext
  Requests = {r1, r2, r3}
  Contexts = {c1}
  Tools = {defer_tool, allow_tool}
  Rules <- AllowRule
  DefaultAction = "defer"
  MaxSessions = 3
  MaxUses = 2
  MaxLag = 1
  PageLimit = 1000
  Tasks = {k1}
  MaxPolls = 2
  RecoveryEnabled = FALSE
  Echoes = TRUE
  Overlap = FALSE
  FaultKinds = {"error", "agent"}
  MaxFaults = 1
CHECK_DEADLOCK FALSE
INVARIANTS
  TypeOK
  CacheHoldsOpenQuestions
  DecisionAnswersQuestion
  OneSessionPerContext
  ReadsOwnTurn
PROPERTIES
  ImplementsGate
