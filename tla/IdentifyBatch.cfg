SPECIFICATION IdentifySpec
CONSTANTS
  Users = {alice, bob}
  Anons = {anon}
  Device = phone
  Keys = {color, plan}
  alice = alice
  bob = bob
  anon = anon
  phone = phone
  color = color
  plan = plan
  None = None
  Batches <- MCBatches
  MaxBytes = 3
  MaxRows = 2
  MaxMessages = 2
  MaxFailures = 1
INVARIANTS Inv BatchInOrder MirroredInOrder MergeIsTold
CHECK_DEADLOCK FALSE
