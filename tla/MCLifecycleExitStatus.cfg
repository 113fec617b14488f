\* Two runs; the last poll before a signal may have consumed events.
CONSTANTS
  IntBits = 4
  LongBits = 8
  Args <- MCArgs
  Default = 5
  LoadErrs = {1, 22}
  PollErrs = {9}
  MaxEvents = 2
  MaxRuns = 2
SPECIFICATION Spec
CHECK_DEADLOCK FALSE
INVARIANT CleanShutdownExitsZero
