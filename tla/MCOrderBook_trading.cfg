SPECIFICATION Spec
CONSTANTS
  u1 = u1
  u2 = u2
  Users <- TwoUsers
  InitialUsdc <- PairUsdc
  InitialYes <- PairYes
  Prices = {1, 3}
  Sizes = {1, 3}
  SplAmounts = {1}
  MintFlips = {TRUE, FALSE}
  ORDERBOOK_N = 3
  MAX_FILLS = 2
  MAX_PAIRS = 1
  U64_MAX = 4
  PRICE_SCALE = 4
CONSTRAINT BookBounds
INVARIANTS EscrowExact PriceTimePriority CrankProgress OrdersReclaimable
PROPERTIES CrossedOnlyByFillLimit
CHECK_DEADLOCK FALSE
