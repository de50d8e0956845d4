SPECIFICATION Spec
CONSTANTS
  DayLength = 2
  Horizon = 2
  Cycle = 5
  Lag = 1
  MaxSubs = 3
  MaxCount = 1
  Plans = {small}
  Allowances = {0}
  Happens = {}
  small = small
  large = large
  TierUpTo <- MCOneTier
  Inputs <- MCNoInputs
INVARIANTS CarriedOnce
CHECK_DEADLOCK FALSE
