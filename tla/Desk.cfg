SPECIFICATION DeskSpec
CONSTANTS
  i1 = a1
  i2 = a2
  NoWorkspace = NoWorkspace
  All = All
  NoEditor = NoEditor
  MaxAsked = 2
  MaxLost = 1
  MaxOpening = 1
  Places = {a1, a2}
  NoPlace = NoPlace
  Queries = {b1, b2}
  Blank = Blank
  Nothing = Nothing
  MaxCalls = 2
  Files = {a1, a2}
  Lines = {b1, b2}
  MaxDialogs = 2
  MaxEdits = 1
  MaxFailed = 1
  Tabs = {a1, a2}
  SessionIds = {b1, b2}
  Threads = {c1, c2}
  Procs = {p1}
  NoSession = NoSession
  NoThread = NoThread
  CreatedStatus = CreatedStatus
  MaxStatus = 1
  MaxBound = 2
  MaxMishaps = 1
  NoAnswer = NoAnswer
  MaxTyped = 1
  Viewports = {12, 18, 30}
  Positions = {0, 3, 6}
  Key = 2
  StoredWidths = {1, 5}
  NoDrag = NoDrag
  Branch = {b1, b2}
  Detached = Detached
  NoBranch = NoBranch
  BranchCalls = {a1, a2}
  NoEffect = NoEffect
  MaxSpent = 2
  NoCwd = NoCwd
  NoLink = NoLink
SYMMETRY Symmetry
INVARIANTS ProjectsAgree ResultsAreMeant PreviewIsTrue ClientsAreServed PlacesAgree PaneIsKept BranchesAreTrue
CHECK_DEADLOCK FALSE
