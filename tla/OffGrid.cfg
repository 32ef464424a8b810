SPECIFICATION Spec
CONSTANTS
  MonthStart <- Gregorian
  Starts <- JanuaryStarts
  Durations <- OneMonth
  Times <- MCTimes
  MaxPeriods = 9
  MaxReads = 1
INVARIANT CyclesBeginPeriods
CHECK_DEADLOCK FALSE
