CONSTANTS
  Tool = {t1}
  Ask = {a1}
  None = None
  Replies = {"allow", "deny", "unoffered", "dismissed"}
  Faults = {"undelivered", "malformed"}
SPECIFICATION FairSpec
CHECK_DEADLOCK FALSE
INVARIANTS
  TypeOK
  AnswerTellsTheEnding
  CleanAnswerShowsAll
  RowsAreKnown
  ReleasedAtSettle
  OneDecision
PROPERTIES
  RowsMoveForward
  ApprovalsAreDecided
  PromptAnswers
