SPECIFICATION Spec
CONSTANTS
  N = 4
  Messages = {"m1", "m2"}
  Seconds = {1, 2}
INVARIANTS
  TypeOK
  ListInv
  CursorInv
  WalkIsLive
PROPERTIES
  ImplementsWatchdog
  EveryAgentChecked
\* mainLoop returns when its last agent is gone, and main() with it
CHECK_DEADLOCK FALSE
