SPECIFICATION WorkerSpec
CONSTANTS
  PPM = 10
  req = req
  prov = prov
  chal = chal
  t1 = t1
  t2 = t2
  v0 = v0
  right = right
  wrong = wrong
  th1 = th1
  w1 = w1
  w2 = w2
  program = program
  input1 = input1
  input2 = input2
  None = None
  Identity = {req, prov, chal}
  Task = {t1, t2}
  Benchmark = {v0}
  Result = {right, wrong}
  Ucu = {1, 2}
  MaxEpoch = 1
  MaxNonce = 4
  MaxBlocks = 0
  MaxWorkerRestarts = 1
  MaxLives = 2
  Thread = {th1}
  Blob = {program, input1, input2}
  Worker = {w1, w2}
  req_key = req
  prov_key = prov
  TaskAt <- SmallTaskAt
  params <- StakeParams
  Body <- SmallBody
  Allocation <- SmallAllocation
  Mail <- SmallMail
  Needs <- SmallNeeds
  Outcome <- SmallOutcome
INVARIANTS
  OneDriver
PROPERTIES
  TotalSettled
  FailsForAReason
  SomeWorkerFinishes
CHECK_DEADLOCK FALSE
