SPECIFICATION Spec
CONSTANTS
  Answers <- SomeAnswers
  MaxInt = 1023
INVARIANTS
  TypeOK
  BodyIsSent
  AnswerIsReported
  NeverPartialRows
PROPERTIES
  Returns
\* the request is made once
CHECK_DEADLOCK FALSE
