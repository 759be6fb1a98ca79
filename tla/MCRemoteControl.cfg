SPECIFICATION Spec
CONSTANTS
  Users = {"u1", "u2"}
  First <- OneEach
  Bodies = {"modules"}
  Faults = {"open"}
  MaxPids = 4
  MaxCommands = 2
  MaxDrops = 1
  MaxQueue = 4
INVARIANTS
  TypeOK
  Population
PROPERTIES
  BackOnline
  FallsSilent
\* the bounded console falls silent, and all agents may be stopped
CHECK_DEADLOCK FALSE
