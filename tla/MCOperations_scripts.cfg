SPECIFICATION Spec
CONSTANTS
  Inexact = {}
  Circle = Circle
  Mints = {b1}
  Spots = {10, 16}
  Instants = {13, 30}
  Days = {1}
  Scripts <- AllScripts
  ORDER_LADDER_BIDS <- Bids
  ORDER_LADDER_ASKS <- Asks
  STRIKE_OFFSETS_PCT <- Offsets
  MaxRuns = 2
CONSTRAINT TwoStrikesAlone
INVARIANTS CleanSeedVerifies ResumesAfterStop
CHECK_DEADLOCK FALSE
