SPECIFICATION Spec
CONSTANTS
  Runs = {1, 2, 3, 4, 5}
  PageSize = 2
INVARIANTS ListInv MissedOnlyIfShifted
