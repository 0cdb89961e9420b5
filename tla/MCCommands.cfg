SPECIFICATION Spec
CONSTANTS
  Asked <- MCAsked
  Sessions <- MCSessions
  Unknown = TRUE
  Null = Null
INVARIANTS
  CommandIsWhole
  PatchesStayInside
  EveryCommandFits
  ResultIsTrue
  MadeIsNamed
CHECK_DEADLOCK FALSE
