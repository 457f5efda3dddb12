CONSTANTS
  server = server
  other = other
  Domains = 2
  Hosts <- TwoHosts
  resolver <- server
  MaxStray = 2
  MaxRepeats = 1
  MaxInterrupts = 1
SPECIFICATION FairSpec
INVARIANTS OneQueryEach ResultsMatch SocketsClosed
PROPERTIES LookupEnds LookupsSpec
\* A recvfrom() may block for ever.
CHECK_DEADLOCK FALSE
