SPECIFICATION Spec
CONSTANTS
  PPM = 10
  Word = 64
  alice = alice
  bob = bob
  carol = carol
  t1 = t1
  t2 = t2
  v0 = v0
  v1 = v1
  r = r
  None = None
  Identity = {alice, bob}
  Task = {t1, t2}
  Benchmark = {v0, v1}
  Result = {r}
  Ucu = {0, 1, 2}
  MaxEpoch = 3
  MaxNonce = 4
  params <- LongParams
  Body <- SmallBody
  Allocation <- SmallAllocation
INVARIANTS
  TypeOK
  Conservation
  EscrowBacked
  BondsBacked
  RecordsAgree
  MintedByWork
  WordsAdmitAlike
PROPERTIES
  PenalisedOnce
  SettlementFinal
  HonestChallengerMadeWhole
  ClawbackReachesRequester
  SupplySpec
SYMMETRY Symmetry
CHECK_DEADLOCK FALSE
