\* One request on each configuration, with any of its calls failing.
SPECIFICATION FairSpec
CONSTANTS
  None = None
  Malformed = Malformed
  NoId = NoId
  Alnum = {"a", "b"}
  PathLetters = {"a", "b", "_", "-"}
  Setups <- AllSetups
  SkillNames <- Resolved
  PartLists <- Parts
CHECK_DEADLOCK FALSE
INVARIANTS
  ExcludesWhatPatternsCover
  FailedLookupsLoseNoSkill
  CardIsComplete
  CallersAreAnswered
PROPERTIES
  CardIsServed
