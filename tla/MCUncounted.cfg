SPECIFICATION SmoothSpec
CONSTANTS
  r1 = r1  r2 = r2  p1 = p1  p2 = p2
  Runs = {r1,r2}
  Repos = {p1}
  RepoOf <- Together
  Conclusions = {"success"}
  OmitsTime = {}
  Loop = loop
  Refreshers = {}
  MaxClock = 0
  LastEvent = 0
  MaxAttempts = 1
  NeedsApproval = {}
  Deletable = {}
  Lags = {}
  SpotCheckWindow = 2
  StaleRunReconcileAfter = 1
PROPERTY ActiveRunsAreCounted
