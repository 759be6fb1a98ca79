SPECIFICATION Spec
CONSTANTS
  MaxReports = 3
  MaxFaults = 2
  MaxLost = 1
  MaxConns = 5
  Inflight = 2
INVARIANTS
  TypeOK
  AtMostOnce
  CompletedKept
  BrokerBound
  ThreadSurvives
  OrderedAtFirst
PROPERTIES
  Progress
\* the bounded reports are all done, and nothing is left to send
CHECK_DEADLOCK FALSE
