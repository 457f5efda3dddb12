CONSTANTS
  NULL = NULL
  MaxInits = 3
SPECIFICATION Spec
INVARIANTS NamesOnce TypesReady
