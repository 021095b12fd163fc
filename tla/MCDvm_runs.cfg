SPECIFICATION Spec
CONSTANTS
  Provider = Provider
  Reexecutor = Reexecutor
  Client = Client
  Guest <- SmallGuest
  Limits <- SmallLimits
  UCU_SCALE = 7
  fuel_per_ucu = 3
  METER_FUEL_CEILING = 3
  DEFAULT_MAX_MEM = 2
  MaxFuel = 3
INVARIANTS
  WithinCeiling
  HonestProofAccepted
  EstimateSuffices
PROPERTIES
  EveryRunEnds
CHECK_DEADLOCK FALSE
