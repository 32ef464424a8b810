CONSTANTS
  basic = basic
  pro = pro
  credits = credits
  storage = storage
  Customers = {c1, c2}
  Plans = {basic, pro}
  Features = {credits, storage}
  SubIds = {s1, s2}
  Requests = {r1, r2}
  Workers = {w1}
  Entries <- MCEntries
  Interval <- MCInterval
  Metered <- MCMetered
  MaxTime = 1
  AtInputs <- MCAtInputs
  EndInputs <- EndInputsNear
  MaxCalls = 3
SPECIFICATION Spec
SYMMETRY Symmetry
INVARIANTS TypeOK NoOverCredit SingleEpoch OwnCustomer
PROPERTIES MaterializedWhole RowIsolation Tombstones IssuesCredit
