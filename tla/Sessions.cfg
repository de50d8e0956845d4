SPECIFICATION FairSpec
CONSTANTS
  Requests = {r1, r2, r3}
  MaxFaults = 1
  None = None
INVARIANTS Inv ExchangedForOne EndedStaysEnded
PROPERTIES Answered
