SPECIFICATION FairSpec
CONSTANTS
  FreeDays = 1
  PaidDays = 3
  DefaultDays = 0
  Overrides = {2}
  Wait = 2
  Months <- MCMonths
  Calendar <- MCCalendar
  MaxRescan = 28
  Start = 4
  Quiet = 6
  Horizon = 9
  MaxChanges = 3
  None = None
INVARIANTS Inv PaidUntilAsked
PROPERTIES NoticeGiven ExpireStands Enforced
