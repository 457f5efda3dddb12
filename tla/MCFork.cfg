SPECIFICATION FairSpec
CONSTANTS
  MaxKills = 2
INVARIANTS
  OutputExact
PROPERTIES
  PrintsFive
CHECK_DEADLOCK FALSE
