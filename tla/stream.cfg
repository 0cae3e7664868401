SPECIFICATION Spec
CONSTANTS
  Configs <- SomeConfigs
  Prompts <- SomePrompts
  Answers <- SomeAnswers
  MaxChunk = 3
  Window = 1
  Interval = 3
INVARIANTS DecodedExactly StreamAgrees NothingTakenBack
CHECK_DEADLOCK FALSE
