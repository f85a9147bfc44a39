SPECIFICATION ClientSpec
CONSTANTS
  trader = trader
  dealer = dealer
  Users <- PageUsers
  InitialUsdc <- PageUsdc
  InitialYes <- PageYes
  Prices = {1, 2}
  Sizes = {1, 2}
  TOKEN_SCALE = 2
  Contracts = {1}
  SplAmounts = {}
  MintFlips = {}
  ORDERBOOK_N = 2
  MAX_FILLS = 2
  MAX_PAIRS = 1
  U64_MAX = 2
  PRICE_SCALE = 3
  PRICE_YES_ASK = 1
  PRICE_NO_ASK = 1
  MAX_SUBMITS = 2
  MAX_RELOADS = 1
CONSTRAINT ClientBounds
INVARIANT BuyNoAllOrNothing
CHECK_DEADLOCK FALSE
