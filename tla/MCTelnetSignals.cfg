CONSTANTS
  Keyboard <- InterruptAndQuit
  MaxServer = 3
  InSize = 4
  OutSize = 2
  MaxInterrupts = 1
SPECIFICATION Spec
INVARIANTS TypeOK InOrderOnce ExceptionOnlyAfterFailure ListenServesNobody
PROPERTIES SessionLossless
\* A read() may block for ever.
CHECK_DEADLOCK FALSE
