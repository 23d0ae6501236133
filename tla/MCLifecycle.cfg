SPECIFICATION Spec
CONSTANTS
  r1 = r1  r2 = r2  p1 = p1  p2 = p2
  Runs = {r1}
  Repos = {p1}
  RepoOf <- OneRun
  Conclusions = {"success", "failure"}
  OmitsTime = {}
  Loop = loop
  Refreshers = {}
  MaxClock = 2
  LastEvent = 1
  MaxAttempts = 2
  NeedsApproval = {r1}
  Deletable = {r1}
  Lags = {r1}
  SpotCheckWindow = 3
  StaleRunReconcileAfter = 1
INVARIANTS Inv OutcomesOK
PROPERTIES CompletedIsFinal NoResurrection ImplementsBoard
