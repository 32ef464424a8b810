SPECIFICATION Spec
CONSTANTS
  GrantIds = {1}
  EventIds = {e1}
  Reads <- NoReads
  Durations = {2}
  Caps <- NoCap
  Aggregations = {"sum"}
  MaxTime = 3
  AtInputs = {3}
  AskInputs = {0}
  Amounts = {2}
  Priorities = {1}
  Values = {2}
  Lifetimes <- Endless
  MaxCalls = 3
INVARIANT SpendableWhenEffective
CHECK_DEADLOCK FALSE
