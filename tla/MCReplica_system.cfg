SPECIFICATION ReplicaSpec
CONSTANTS
  PPM = 10
  req = req
  prov = prov
  chal = chal
  t1 = t1
  t2 = t2
  v0 = v0
  right = right
  wrong = wrong
  th1 = th1
  th2 = th2
  program = program
  None = None
  Identity = {req, prov, chal}
  Task = {t1}
  Benchmark = {v0}
  Result = {right, wrong}
  Ucu = {1, 2}
  MaxEpoch = 2
  MaxNonce = 3
  MaxBlocks = 6
  MaxRestarts = 0
  Thread = {th1}
  Blob = {program}
  params <- SmallParams
  Body <- SmallBody
  Allocation <- SmallAllocation
  Mail <- SmallMail
  Needs <- SmallNeeds
  Outcome <- SmallOutcome
INVARIANTS
  EveryBlockReplays
CHECK_DEADLOCK FALSE
