SPECIFICATION FairSpec
CONSTANTS
  Subs = {old, new}
  Deals = {new}
  Words = {"active", "past_due", "paused"}
  Held = {old}
  Readers = {r1}
  Attempts = {a1}
  Second = 2
  MaxChanges <- MCChanges
  old = old
  new = new
  Quiet = 2
  Horizon = 2
  None = None
INVARIANTS Inv SettledIsCovered
PROPERTIES NothingUndone Converges
