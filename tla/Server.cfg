SPECIFICATION ServerSpec
CONSTANTS
  t1 = t1
  t2 = t2
  Ids = {w1}
  NoWorkspace = NoWorkspace
  Paths <- MCPaths
  Home <- MCHome
  Threads = {t1, t2}
  Listed = {t1}
  Cwd <- MCCwd
  Asked = {}
  Calls = {o1}
  Warmup = Warmup
  MaxRetained = 1
  MaxAttempts = 2
  MaxChanges = 1
  MaxExits = 1
  MaxSaves = 1
  MaxEvents = 1
  Turns = {u1, u2}
  Processes = {p1}
  MaxCalls = 2
  Slugs = {s1}
  Patches = {q1, q2}
  MaxRewrites = 1
  MaxVersion = 2
  Viewed = {v1, v2}
  Existing = {v1}
  None = None
  Kept = 1
  MaxSteps = 3
INVARIANTS CacheIsDue FakeSettles WorkIsKept ViewsAreTrue
PROPERTIES OnlyOvertakenAnswersSpoil PinnedViewStays
CHECK_DEADLOCK FALSE
