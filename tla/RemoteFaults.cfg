SPECIFICATION Spec
CONSTANTS
  Users = {"u1"}
  First <- TwoOfOne
  Bodies = {"modules", "noModules", "invalid"}
  Faults = {"open", "popen", "refused"}
  MaxPids = 6
  MaxCommands = 2
  MaxDrops = 1
  MaxQueue = 2
INVARIANTS
  NeverMore
PROPERTIES
  FallsSilent
\* the bounded console falls silent, and all agents may be gone
CHECK_DEADLOCK FALSE
