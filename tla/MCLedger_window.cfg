SPECIFICATION Spec
CONSTANTS
  PPM = 10
  Word = 128
  alice = alice
  bob = bob
  carol = carol
  t1 = t1
  t2 = t2
  v0 = v0
  v1 = v1
  r = r
  None = None
  Identity = {alice, bob, carol}
  Task = {t1}
  Benchmark = {v0, v1}
  Result = {r}
  Ucu = {0, 1, 2}
  MaxEpoch = 2
  MaxNonce = 2
  params <- SmallParams
  Body <- SmallBody
  Allocation <- SmallAllocation
INVARIANTS
  ReleasedAfterWindow
CHECK_DEADLOCK FALSE
