SPECIFICATION Spec
CONSTANTS
  Answers <- SomeAnswers
  MaxDelta = 6
INVARIANTS CallsBegin ContentBegins TokensSuffice
CHECK_DEADLOCK FALSE
