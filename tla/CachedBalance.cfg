SPECIFICATION Spec
CONSTANTS
  GrantIds = {1}
  EventIds = {e1}
  Reads = {r1}
  Durations = {2}
  Caps <- NoCap
  Aggregations = {"sum"}
  MaxTime = 3
  AtInputs = {0}
  AskInputs = {0}
  Amounts = {2}
  Priorities = {1}
  Values = {2}
  Lifetimes <- Endless
  MaxCalls = 3
INVARIANT CacheExact
CHECK_DEADLOCK FALSE
