\* Two runs of the program, one to three poll results, two errno values.
CONSTANTS
  IntBits = 4
  LongBits = 8
  Args <- MCArgs
  Default = 5
  LoadErrs = {1, 22}
  PollErrs = {9}
  MaxEvents = 2
  MaxRuns = 2
SPECIFICATION FairSpec
INVARIANT TypeOK
INVARIANT FailureExitsNonZero
PROPERTY ShutdownTerminates
CHECK_DEADLOCK FALSE
