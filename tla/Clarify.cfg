CONSTANTS
  single = single
  batch = batch
  q1 = q1
  q2 = q2
  Request = {single, batch}
  Single = {single}
  Questions <- MCQuestions
  Answer = {yes}
  None = None
  Deliveries = 2
  Failures = 1
  Faults = {"lock", "refusal"}
SPECIFICATION FairSpec
CHECK_DEADLOCK FALSE
INVARIANTS
  TypeOK
  CardsAreDue
  ToldAsTyped
PROPERTIES
  AnswersArrive
