\* A tool denied by a rule, all others allowed, and a turn that outlives its poll budget.
SPECIFICATION Spec
CONSTANTS
  allow_tool = allow_tool
  deny_tool = deny_tool
  defer_tool = defer_tool
  NoTool = NoTool
  NoContext = NoContext
  Requests = {r1, r2}
  Contexts = {c1}
  Tools = {deny_tool}
  Rules <- DenyRule
  DefaultAction = "allow"
  MaxSessions = 3
  MaxUses = 2
  MaxLag = 0
  PageLimit = 1000
  Tasks = {k1}
  MaxPolls = 1
  RecoveryEnabled = FALSE
  Echoes = TRUE
  Overlap = FALSE
  FaultKinds = {}
  MaxFaults = 0
CHECK_DEADLOCK FALSE
INVARIANT
  DeniedToolsStayDenied
