\* One run, the loop and a refresh overlapping.
SPECIFICATION Spec
CONSTANTS
  r1 = r1  r2 = r2  p1 = p1  p2 = p2
  Runs = {r1}
  Repos = {p1}
  RepoOf <- OneRun
  Conclusions = {"success"}
  OmitsTime = {}
  Loop = loop
  Refreshers = {refresh}
  MaxClock = 2
  LastEvent = 2
  MaxAttempts = 1
  NeedsApproval = {}
  Deletable = {}
  Lags = {r1}
  SpotCheckWindow = 3
  StaleRunReconcileAfter = 1
INVARIANTS TypeOK CompletedRowsAreTrue ClosesOnlyWithEvidence OneBootstrap
PROPERTIES CompletedIsFinal NoResurrection
