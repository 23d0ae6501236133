SPECIFICATION FairSpec
CONSTANTS
  Callers = {r1, r2}
  Quota = 1
  Window = 2
  Margin = 1
  TokenLife = 2
  JwtLife = 1
  Penalty = 1
  Minute = 1
INVARIANTS TransportInv ReportIsTrue KnowsTheBudget
PROPERTIES PauseIsKept MintsWhenStale ExpiresOnlyAsleep EveryRequestEnds
