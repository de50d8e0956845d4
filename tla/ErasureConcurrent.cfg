CONSTANTS
    Profile = p
    External = x
    Aliases = {a}
    NoId = none
    Asked = {x}
    LateIds = {a}
    Callers = {c1}
    Workers = {w1, w2}
    MaxRows = 1
    MaxMsgs = 2
    MaxFaults = 1
    MaxDeliver = 2
SPECIFICATION FairSpec
CHECK_DEADLOCK FALSE
INVARIANT TypeOK
INVARIANT CompletedErasesEvents
PROPERTY DeletesOnlyRecorded
PROPERTY DrivenCompletes
