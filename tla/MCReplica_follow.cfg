SPECIFICATION ReplicaSpec
CONSTANTS
  PPM = 10
  req = req
  prov = prov
  chal = chal
  t1 = t1
  t2 = t2
  v0 = v0
  right = right
  wrong = wrong
  th1 = th1
  th2 = th2
  program = program
  None = None
  Identity = {req, prov, chal}
  Task = {t1}
  Benchmark = {v0}
  Result = {right, wrong}
  Ucu = {1, 2}
  MaxEpoch = 1
  MaxNonce = 3
  MaxBlocks = 3
  MaxRestarts = 1
  Thread = {th1}
  Blob = {program}
  params <- SmallParams
  Body <- SmallBody
  Allocation <- SmallAllocation
  Mail <- LifeMail
  Needs <- SmallNeeds
  Outcome <- SmallOutcome
INVARIANTS
  ReplicaAgrees
PROPERTIES
  ReplaysUserBlocks
CHECK_DEADLOCK FALSE
