SPECIFICATION Spec
CONSTANTS
  Objects = {s1, s2, s3}
  MaxFd = 2
  stdin = stdin
  None = None
SYMMETRY Symmetric
INVARIANTS
  LiveOwn
  AcceptedUnreachable
  StdinOnlyByAccepted
PROPERTIES
  ReadDestroysAtEnd
