CONSTANTS
  Keyboard <- TwoKeys
  MaxServer = 3
  InSize = 2
  OutSize = 2
  MaxInterrupts = 1
SPECIFICATION FairSpec
INVARIANTS ReadsWhenReady
PROPERTIES CloseEnds KeysReachServer
\* A read() may block for ever.
CHECK_DEADLOCK FALSE
