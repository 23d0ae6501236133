SPECIFICATION FairSpec
CONSTANTS
  Groups = {1, 2, 3}
  Loop = loop
  Refreshers = {refresh}
  Capacities <- SmallOrLarge
  PageSize = 2
  MaxChanges = 1
INVARIANT RunnersInv
PROPERTIES ShownWasTrue ShownWasExact ShowsWhatStays
