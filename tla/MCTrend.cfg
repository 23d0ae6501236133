SPECIFICATION Spec
CONSTANTS
  Deliveries = {d1, d2, d3}
  Sweeps = {s1}
  MaxMinute = 2
  Depths = {few, many}
INVARIANTS TrendInv RescansOnlyAfterStragglers
PROPERTY ImplementsTrend
