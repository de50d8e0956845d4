SPECIFICATION FairSpec
CONSTANTS
  DayLength = 2
  Horizon = 3
  Cycle = 3
  Lag = 1
  MaxSubs = 1
  MaxCount = 1
  Plans = {small}
  Allowances = {0, 1}
  Happens = {"erase", "hold", "deal"}
  small = small
  large = large
  TierUpTo <- MCOneTier
  Inputs <- MCInputs
INVARIANTS Inv TiersCountTheirEvents
PROPERTIES StatedNeverDown UsageIsStated
CHECK_DEADLOCK FALSE
