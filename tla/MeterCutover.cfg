SPECIFICATION Spec
CONSTANTS
  DayLength = 2
  Horizon = 5
  Cycle = 5
  Lag = 1
  MaxSubs = 2
  MaxCount = 1
  Plans = {small, large}
  Allowances = {0}
  Happens = {"replan"}
  small = small
  large = large
  TierUpTo <- MCTierUpTo
  Inputs <- MCNoInputs
INVARIANTS EachDayStatedOnce NeverOverbilled
CHECK_DEADLOCK FALSE
