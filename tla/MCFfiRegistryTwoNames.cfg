SPECIFICATION Spec
CONSTANTS
  Names = {a, b}
  Fps = {p}
  Dummy = Dummy
  AbiNames = {}
  KnownAbis = {}
  DefaultAbi = DefaultAbi
  TypeNames = {i}
  StandardTypes <- OneType
  i = i
  int = int
  Addr = {adr1, adr2}
  NULL = NULL
  MAX_PARAMETERS = 0
  MaxArgs = 0
  MaxDepth = 3
INVARIANTS
  UniqueNames
  NativeNodeLive
PROPERTIES
  FirstDefinitionWins
  TrueMeansCallable
