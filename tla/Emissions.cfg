CONSTANTS
  basic = basic
  pro = pro
  credits = credits
  storage = storage
  Customers = {c1}
  Plans = {basic, pro}
  Features = {credits}
  SubIds = {s1}
  Requests = {r1}
  Workers = {w1, w2}
  Entries <- CreditEntries
  Interval <- MCInterval
  Metered <- CreditsMetered
  MaxTime = 3
  AtInputs <- NowOnly
  EndInputs <- OpenEnded
  MaxCalls = 3
SPECIFICATION Spec
SYMMETRY Symmetry
INVARIANTS EmissionUnique EmissionCadence NoOverCredit
