SPECIFICATION Spec
CONSTANTS
  MaxReports = 2
  MaxFaults = 1
  MaxLost = 1
  MaxConns = 4
  Inflight = 2
INVARIANTS
  CompletedStays
\* the bounded reports are all done, and nothing is left to send
CHECK_DEADLOCK FALSE
