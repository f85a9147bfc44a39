SPECIFICATION Spec
CONSTANTS
  u1 = u1
  u2 = u2
  Nobody = Nobody
  Users <- TwoUsers
  InitialUsdc <- CollateralUsdc
  Amounts = {0, 1, 2}
  SplAmounts = {1}
  U64_MAX = 2
  Strikes = {5}
  StrikeTick = 1
  StrikeDeviation = 4
  CloseTimes = {1}
  ExpiryHorizon = 1
  OverrideDelays = {0, 1}
  MintFlips = {TRUE, FALSE}
  Expiries = {1}
  FeeConfigs <- FeeMenu
  InitialFeeConfig <- FeesOff
  Readings <- ReadingMenu
  MaxTime = 3
  BPS = 4
  TIER_BREAK_1K = 1
  TIER_BREAK_10K = 2
  TIER1_BPS = 4
  TIER2_BPS = 2
  TIER3_BPS = 1
  DECAY_WINDOW = 1
  ORACLE_BPS = 10
  PRICE_STALENESS_SECS = 2
  PRICE_CONFIDENCE_BPS = 2
CONSTRAINT MarketBounds
INVARIANTS TypeOK VaultHoldsPairs SettlementProvenance
PROPERTIES VaultPaysForBurns TierVolumeEarned ImplementsPromise
CHECK_DEADLOCK FALSE
