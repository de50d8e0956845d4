SPECIFICATION FairSpec
CONSTANTS
  Tables = {events, profiles}
  EventTable = events
  Rebuilt = {keys}
  Source = profiles
  Passes = {p1}
  Hold = 1
  RoundEvery = 1
  WatchFor = 2
  KeyLife = 1
  MaxAge = 2
  Horizon = 6
  MaxLate = 1
  None = None
INVARIANTS Inv
PROPERTIES DeletesHaveRows Erased
