CONSTANTS
    Messages = {m1, m2}
    NoMsg = none
    Poison = {m2}
    Loops = {l1, l2}
    MaxDeliver = 2
    Prefetch = 1
    MaxErrs = 1
    MaxFaults = 2
SPECIFICATION FairSpec
CHECK_DEADLOCK FALSE
INVARIANT TypeOK
INVARIANT StrandedOnlyByLoss
INVARIANT UnhealthyIsReal
PROPERTY PromiseKept
PROPERTY RetriesAreUsed
PROPERTY GetsDone
