\* Two requests at a time on one context, whose history outgrows the page; every request ends.
SPECIFICATION FairSpec

CONSTANTS
  allow_tool = allow_tool
  deny_tool = deny_tool
  defer_tool = defer_tool
  NoTool = NoTool
  NoContext = NoContext
  Requests = {r1, r2}
  Contexts = {c1}
  Tools = {defer_tool}
  Rules <- NoRules
  DefaultAction = "defer"
  MaxSessions = 2
  MaxUses = 1
  MaxLag = 0
  PageLimit = 4
  Tasks = {k1}
  MaxPolls = 2
  RecoveryEnabled = FALSE
  Echoes = FALSE
  Overlap = TRUE
  FaultKinds = {"error"}
  MaxFaults = 1
CHECK_DEADLOCK FALSE
PROPERTIES
  EveryRequestEnds
