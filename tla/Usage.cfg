SPECIFICATION Spec
CONSTANTS
  Projects = {p1, p2}
  Orgs = {o1, o2}
  Passes = {a, b}
  o1 = o1
  o2 = o2
  p1 = p1
  p2 = p2
  OrgOf <- MCOrgOf
  Anniversary <- MCAnniversary
  Earlier <- MCEarlier
  MonthStart = 1
  Rescan = 1
  Doomed = {p1}
  Horizon = 2
  MaxChanges = 1
  MaxFaults = 1
  None = None
INVARIANTS Inv FullPassCountsAll
PROPERTIES KeptAsFrozen
SYMMETRY Symmetry
