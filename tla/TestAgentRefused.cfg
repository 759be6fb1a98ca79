SPECIFICATION Spec
CONSTANTS
  Iterations = 5
  Answers = {"varied", "refused"}
INVARIANTS
  DiesReported
CHECK_DEADLOCK FALSE
