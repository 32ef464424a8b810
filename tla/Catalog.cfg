SPECIFICATION Spec
CONSTANTS
  s1 = s1
  c1 = c1
  Ids <- MCIds
  Slugs = {s1}
  MaxEntries = 2
  Clients = {c1}
  Limit = 1
INVARIANTS TypeOK RefsResolve WalkComplete PagesAscend
PROPERTY RowsKept
