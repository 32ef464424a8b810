SPECIFICATION Spec
CONSTANTS
  GrantIds = {1, 2}
  EventIds = {e1}
  Reads = {r1, r2}
  Durations = {2}
  Caps = {2}
  Aggregations = {"sum"}
  MaxTime = 4
  AtInputs = {0}
  AskInputs = {3}
  Amounts = {3}
  Priorities = {1}
  Values = {2}
  Lifetimes <- ShortOrEndless
  MaxCalls = 4
SYMMETRY Symmetry
INVARIANTS TypeOK SnapshotSane SeedExact SnapshotsAccurate ClosedPeriodsOnly
CHECK_DEADLOCK FALSE
