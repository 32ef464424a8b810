SPECIFICATION FairSpec
CONSTANTS
  MonthStart <- Gregorian
  Starts <- MCStarts
  Durations <- MCDurations
  Times <- MCTimes
  MaxPeriods = 9
  MaxReads = 2
INVARIANTS TypeOK GridTiles GridsAgree PeriodsDisjoint CadenceOnGrid PeriodCreditedOnce NoGap
PROPERTY ReadEnds
CHECK_DEADLOCK FALSE
