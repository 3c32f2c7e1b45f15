SPECIFICATION PaneSpec
CONSTANTS
  a = a
  b = b
  d1 = d1
  d2 = d2
  r1 = r1
  r2 = r2
  Texts = {a, b}
  Absent = Absent
  Refreshes = {r1, r2}
  DetailReads = {d1, d2}
  NoRead = NoRead
  NoDetail = NoDetail
  MaxChanges = 2
  Workspaces = {w1, w2}
  PathOrder <- MCPathOrder
  Listings <- MCListings
  Queries <- MCQueries
  NoQuery = NoQuery
  None = None
  MaxActs = 5
  Threads = {t1, t2}
  InitialWindow = 1
  BatchSize = 1
  MaxEntries = 3
  MaxEvents = 4
  NoRestore = NoRestore
  MaxText = 2
  MaxReads = 1
  MaxLosses = 1
SYMMETRY Symmetry
INVARIANTS ReviewIsTrue TreeIsTrue ConversationSettles CardIsTrue
CHECK_DEADLOCK FALSE
