SPECIFICATION Spec
CONSTANTS
  MaxRuns = 2
  WithSamples = FALSE
  Outputs = {"nothing", "text"}
PROPERTIES
  ExpiredIsFreed
CHECK_DEADLOCK FALSE
