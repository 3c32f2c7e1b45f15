SPECIFICATION ControlsSpec
CONSTANTS
  LoginIds = {l1}
  Keys = {k1}
  NoAccount = NoAccount
  NoLogin = NoLogin
  MaxOps = 2
  MaxExits = 1
  Models = {"m1", "m2"}
  Wide = {"m1"}
  DefaultModel = "m1"
  NoCopy = NoCopy
  MaxRequests = 2
  Kinds = {"commandExecutionApproval", "fileChangeApproval", "requestUserInput",
           "mcpServerElicitation", "permissionsApproval", "dynamicToolCall",
           "chatgptAuthTokensRefresh", "applyPatchApproval", "execCommandApproval"}
  Ids = {i1}
  MaxAsked = 2
  MaxRestarts = 1
  w1 = w1
  w2 = w2
  Nowhere = Nowhere
  Absent = Absent
  MaxPressed = 1
  MaxTurned = 2
INVARIANTS LoginsAreHeld AccountReachesPage SettingsAgree DecisionsAreMeant ListsAreDue
CHECK_DEADLOCK FALSE
