SPECIFICATION Spec
CONSTANTS
  GrantIds = {1, 2}
  EventIds = {e1, e2}
  Reads <- NoReads
  Durations = {0, 2}
  Caps <- SomeCaps
  Aggregations = {"sum"}
  MaxTime = 3
  AtInputs = {0}
  AskInputs = {0}
  Amounts = {2}
  Priorities = {1, 2}
  Values = {1, 3}
  Lifetimes <- ShortOrEndless
  MaxCalls = 4
SYMMETRY Symmetry
INVARIANTS UsageCountedOnce BurnsInOrder CarryBounded
PROPERTY Monotone
CHECK_DEADLOCK FALSE
