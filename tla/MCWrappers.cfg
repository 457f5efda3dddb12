SPECIFICATION Spec
CONSTANTS
  Names = {process, library, both}
  InProcess = {process, both}
  InLibrary = {library, both}
  Dummy = Dummy
  Unbound = Unbound
  NULL = NULL
  MaxOpen = 2
  MaxMappings = 2
INVARIANTS
  DummyOnlyUnchecked
  CrashNeedsUnload
CHECK_DEADLOCK FALSE
