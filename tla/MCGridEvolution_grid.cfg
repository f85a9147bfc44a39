SPECIFICATION Spec
CONSTANTS
  NoConfig = NoConfig
  Tickers <- OneTicker
  Spots = {555, 610, 670}
  Inexact = {505, 710, 730}
  FirstDay <- From
  LastDay <- To
  MAX_ALLOWED_STRIKES = 16
INVARIANTS OneAnchorAfterClose ExpandedCapEnds
PROPERTIES StrikesVanishOnlyInRace
CHECK_DEADLOCK FALSE
