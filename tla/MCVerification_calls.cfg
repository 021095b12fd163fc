SPECIFICATION Spec
CONSTANTS
  p = p
  a = a
  b = b
  None = None
  Word = 3
  U64 = 8
  Rate = {0, 300000, 500000, 999999, 1000000, 1500000}
  Provider = p
  Eligible <- SmallEligible
  Work = {0, 3, 4, 7, 8, 12}
  Power = {0, 1, 2, 4, 7}
  Window = {0, 1, 2, 4, 5}
  Temp = {0, 1, 3, 4}
  Version = {0, 1}
  version = 0
  e_baseline = 3
  t_std = 2
  UCU_SCALE = 4
  MICRO_Q_SCALE = 5
INVARIANTS
  AuditRate
  AuditedByOther
  AllTakePart
  LowerBound
  TightBound
PROPERTIES
  TighterSealNotLess
CHECK_DEADLOCK FALSE
