SPECIFICATION Spec
CONSTANTS
  Names = {a}
  Fps = {p}
  Dummy = Dummy
  AbiNames = {sysv, other}
  KnownAbis = {sysv}
  DefaultAbi = DefaultAbi
  TypeNames = {i, x}
  StandardTypes <- OneType
  i = i
  int = int
  Addr = {adr1}
  NULL = NULL
  MAX_PARAMETERS = 1
  MaxArgs = 2
  MaxDepth = 2
INVARIANTS
  Ledger
  CStringsExact
  TempsExact
  ArgsInBounds
PROPERTIES
  TableSpec
