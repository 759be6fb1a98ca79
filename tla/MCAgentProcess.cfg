SPECIFICATION Spec
CONSTANTS
  N = 4
  Messages = {"m1", "m2"}
  Seconds = {1, 2}
  Kind <- Four
  MaxEvents = 5
  MaxPosts = 2
INVARIANTS
  TypeOK
  ReportLags
  GoesOnWatching
PROPERTIES
  CountConverges
  ErrorPublished
\* main() returns when a module cannot be started
CHECK_DEADLOCK FALSE
