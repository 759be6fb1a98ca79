SPECIFICATION Spec
CONSTANTS
  MaxRuns = 2
  WithSamples = FALSE
  Outputs = {"text"}
INVARIANTS
  FailureKept
CHECK_DEADLOCK FALSE
