SPECIFICATION Spec
CONSTANTS
  Iterations = 5
  Answers = {"varied", "equal", "refused", "throws"}
INVARIANTS
  TypeOK
  FreedIsQuiet
  ThrowsFresh
  JoinIsPrompt
PROPERTIES
  StoppedIsFreed
\* a freed agent takes no step, nor does a worker without an answer
CHECK_DEADLOCK FALSE
