SPECIFICATION FairSpec
CONSTANTS
  Processes = {p1, p2}
  a = a
  b = b
  success = success
  Runs = {a, b}
  Repos = {"repo"}
  RepoOf <- Where
  Conclusions = {success}
  OmitsTime = {}
  Arrivals <- News
  Stamps <- SweepTimes
  Found <- Rows
  LegacyLogs <- Logs
  MaxJobs = 2
  MaxCommits = 2
INVARIANTS StoreInv ServesTheSchema AckedIsStored
PROPERTIES ImplementsLedger EventuallyServes
