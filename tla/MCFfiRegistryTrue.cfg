SPECIFICATION Spec
CONSTANTS
  Names = {a}
  Fps = {p}
  Dummy = Dummy
  AbiNames = {}
  KnownAbis = {}
  DefaultAbi = DefaultAbi
  TypeNames = {i}
  StandardTypes <- OneType
  i = i
  int = int
  Addr = {adr1}
  NULL = NULL
  MAX_PARAMETERS = 1
  MaxArgs = 2
  MaxDepth = 1
PROPERTY
  TrueMeansBound
