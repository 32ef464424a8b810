CONSTANTS
  basic = basic
  pro = pro
  credits = credits
  storage = storage
  Customers = {c1}
  Plans = {basic, pro}
  Features = {credits, storage}
  SubIds = {s1}
  Requests = {r1}
  Workers = {w1}
  Entries <- MCEntries
  Interval <- MCInterval
  Metered <- MCMetered
  MaxTime = 2
  AtInputs <- MCAtInputs
  EndInputs <- MCEndInputs
  MaxCalls = 2
SPECIFICATION FairSpec
PROPERTIES ArchivedKeepsWorking

