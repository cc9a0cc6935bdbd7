CONSTANTS
  r1 = r1
  None = None
  Bucket = 2
  Start = 5
  Horizon = 9
  HistoryTtl = 2
  Provided = 2
  Limit = {1, 2}
  Reader = {r1}
  QueueCap = 1
SPECIFICATION Spec
CHECK_DEADLOCK FALSE
INVARIANTS TypeOK BarsHardlyGoBack HistoryNearlyClosed GapBounded AnswerNotShort
