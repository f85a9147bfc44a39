SPECIFICATION Spec
CONSTANTS
  u1 = u1
  u2 = u2
  circle = circle
  busdc = busdc
  Users <- TwoUsers
  Mints <- TwoMints
  FirstMint = circle
  PeriodIds = {0, 4}
  Trees <- RingTrees
  Amounts = {0, 1, 2}
  FeeShares = {1}
  CAPACITY = 2
  METRIC_COUNT = 2
  POSITIONS_PER_METRIC = 2
  PERIOD_WIDTH = 4
  MaxCommits = 3
  MaxInflow = 2
INVARIANTS RewardsConserved BitmapMatchesPayments RecentRootsPayable
CHECK_DEADLOCK FALSE
