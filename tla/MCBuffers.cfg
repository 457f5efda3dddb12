SPECIFICATION Spec
CONSTANTS
  FD_SETSIZE = 16
  Descriptors <- NearLimits
  Values <- Numbers
  Sizes = {0, 1, 5, 127}
  HalfWord = 128
  LabelLengths = {0, 1, 63, 64, 256}
  MaxLabels = 3
INVARIANTS
  KernelSees
  NfdsCovers
  QueryAsks
  PointerInside
CHECK_DEADLOCK FALSE
