SPECIFICATION Spec
CONSTANTS
  Word = 128
  UInt = 16
  DoubleRange = 32
  FloatRange = 4
  Registers = 1
  Garbage = {0, 5}
  MaxArity = 3
  Integrals <- IntegralSample
  Halves <- HalfSample
  Pointers <- PointerSample
INVARIANTS
  ParametersPassed
  EchoExact
  SizeNotLarger
  PointerRoundTrip
