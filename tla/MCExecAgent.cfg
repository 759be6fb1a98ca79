SPECIFICATION SpecCommandsEnd
CONSTANTS
  MaxRuns = 3
  WithSamples = TRUE
  Outputs = {"nothing", "text"}
INVARIANTS
  TypeOK
  OneCommand
  FreedIsQuiet
  ThrowsFresh
PROPERTIES
  ExpiredIsFreed
\* a freed agent takes no step
CHECK_DEADLOCK FALSE
