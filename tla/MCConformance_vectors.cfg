SPECIFICATION ScenarioSpec
CONSTANTS
  req = req
  prov = prov
  chal = chal
  task = task
  None = None
  Identity = {req, prov, chal}
  Task = {task}
  Benchmark = {0}
  Result = {"honest", "forged"}
  Ucu <- SomeWork
  MaxEpoch = 32
  MaxNonce = 3
  PPM = 1000
  UCU_SCALE = 100000
  params <- devnet
  Body <- ScenarioBody
  Allocation <- NoAllocation
  Work <- SomeWork
INVARIANTS
  PublishedVectors
  ForgeryEarnsNothing
  ReplicaMatches
PROPERTIES
  ScenariosEnd
CHECK_DEADLOCK FALSE
