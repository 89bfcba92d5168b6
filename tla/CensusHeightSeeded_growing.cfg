\* Short chains that grow, and twenty-five dated blocks whose timestamps bend
\* interpolation away, with every seed.
CONSTANTS
  MaxHeight = 24
  ShortTip = 4
  MaxRun = 1
  MaxReorg = 0
  Timestamps = {99, 100, 1000}
  Starts = {100}
  NoTimestamp = NoTimestamp
  MaxTimestamp = 2000
  StallsBeforeBisection = 3
SPECIFICATION MCSpec
INVARIANTS
  ChangeReportedOnlyIfChanged
  ExhaustedOnlyByLongRun
  StallsBounded
  HeadwayGuaranteed
PROPERTIES
  ImplementsOracle
CHECK_DEADLOCK FALSE
