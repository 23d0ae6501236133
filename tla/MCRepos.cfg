SPECIFICATION Spec
CONSTANTS
  r1 = r1  r2 = r2  p1 = p1  p2 = p2
  Runs = {r1, r2}
  Repos = {p1, p2}
  RepoOf <- Apart
  Conclusions = {"success"}
  OmitsTime = {r2}
  Loop = loop
  Refreshers = {}
  MaxClock = 1
  LastEvent = 1
  MaxAttempts = 1
  NeedsApproval = {}
  Deletable = {}
  Lags = {}
  SpotCheckWindow = 3
  StaleRunReconcileAfter = 1
INVARIANTS Inv ClosesOnlyWithEvidence CompletionsHappened
PROPERTIES CompletedIsFinal NoResurrection
