CONSTANTS
    Profile = p
    External = x
    Aliases = {a}
    NoId = none
    Asked = {p, a}
    LateIds = {}
    Callers = {c1, c2}
    Workers = {w1}
    MaxRows = 2
    MaxMsgs = 3
    MaxFaults = 2
    MaxDeliver = 1
SPECIFICATION Spec
CHECK_DEADLOCK FALSE
SYMMETRY Symmetry
INVARIANT PromiseRecorded
