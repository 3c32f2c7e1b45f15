SPECIFICATION ApprovalsFairSpec
CONSTANTS
  Calls = {}
  MaxSpawn = 2
  Ids = {i1}
  Threads = {t1}
  s1 = s1
  pageA = pageA
  pageB = pageB
  NoSession = NoSession
  Sessions = {s1}
  Clients = {pageA, pageB}
  SessionOf <- SharedSession
  PagesAt <- OnePageAfterRestart
INVARIANTS
  CardsAreAnswerable
  RepliedOnce
PROPERTY SubmittedClearsWhileCodexLives
CHECK_DEADLOCK FALSE
