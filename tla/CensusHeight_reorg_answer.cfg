\* The block a search returns, when a reorganisation reaches the tip mid-search.
CONSTANTS
  MaxHeight = 2
  MaxRun = 1
  MaxReorg = 1
  Timestamps = {1, 2}
  Starts = {2}
  NoTimestamp = NoTimestamp
SPECIFICATION Spec
INVARIANT AnswerAtOrAfterStart
CHECK_DEADLOCK FALSE
