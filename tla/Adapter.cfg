CONSTANTS
  Prompt = {p1, p2}
  Hello = hello
SPECIFICATION FairSpec
CHECK_DEADLOCK FALSE
INVARIANTS
  TypeOK
  PromptsAnswerBeforeExit
  NoGatewayOutlivesTheAdapter
  LossAsksForRestart
PROPERTY GoesDown
