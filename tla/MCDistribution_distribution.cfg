SPECIFICATION DistributeSpec
CONSTANTS
  u1 = u1
  u2 = u2
  None = None
  NoLeaf = NoLeaf
  Wallets <- TwoUsers
  Tables <- SomeTables
  Pools = {1007}
  TOP_N = 1
  Ranked = {0, 1, 2}
  Days <- SomeDays
  MaxAttempts = 2
INVARIANTS PeriodsTile OwnRootPays PaidWithinPool
CONSTRAINT LibraryOverlaps
CHECK_DEADLOCK FALSE
