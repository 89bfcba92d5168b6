\* A source whose newest answers change between any two reads.
CONSTANTS
  MaxHeight = 3
  MaxRun = 1
  MaxReorg = 2
  Timestamps = {1, 3}
  Starts = {2, 3}
  NoTimestamp = NoTimestamp
  MaxTimestamp = 4
  StallsBeforeBisection = 1
SPECIFICATION Spec
INVARIANTS
  TypeOK
  BuriedAnswer
  ProbeInBracket
PROPERTIES
  ReadsRunOut
  Terminates
CHECK_DEADLOCK FALSE
