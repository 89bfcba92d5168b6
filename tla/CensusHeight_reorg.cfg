\* Reorganisations of the newest two blocks between any two reads.
CONSTANTS
  MaxHeight = 4
  MaxRun = 1
  MaxReorg = 2
  Timestamps = {1, 2}
  Starts = {1, 2}
  NoTimestamp = NoTimestamp
SPECIFICATION Spec
INVARIANTS
  BuriedAnswer
PROPERTIES
  ReadsRunOut
  Terminates
CHECK_DEADLOCK FALSE
