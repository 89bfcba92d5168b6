\* A chain that only grows while it is searched.
CONSTANTS
  MaxHeight = 6
  MaxRun = 2
  MaxReorg = 0
  Timestamps = {1, 2}
  Starts = {1, 2, 3}
  NoTimestamp = NoTimestamp
SPECIFICATION Spec
INVARIANTS
  TypeOK
  ChangeReportedOnlyIfChanged
  ExhaustedOnlyByLongRun
PROPERTIES
  ImplementsOracle
  Terminates
CHECK_DEADLOCK FALSE
