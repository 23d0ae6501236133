SPECIFICATION SmoothSpec
CONSTANTS
  r1 = r1  r2 = r2  p1 = p1  p2 = p2
  Runs = {r1}
  Repos = {p1}
  RepoOf <- OneRun
  Conclusions = {"success"}
  OmitsTime = {}
  Loop = loop
  Refreshers = {}
  MaxClock = 1
  LastEvent = 0
  MaxAttempts = 1
  NeedsApproval = {r1}
  Deletable = {}
  Lags = {}
  SpotCheckWindow = 2
  StaleRunReconcileAfter = 1
PROPERTY LostCompletionsAreClosedOut
