\* Two lots, two bidders, one claim; two scenes, and the stock 0 .. 3.
CONSTANTS
  l1 = l1
  l2 = l2
  b1 = b1
  b2 = b2
  Lots = {l1, l2}
  Bidders = {b1, b2}
  Claims = {c1}
  Nobody = Nobody
  Amounts = {1, 2, 3}
  StartingPrice = 1
  MinBidIncrement = 1
  MaxBidAttempts = 3
  Quantity <- LotSizes
  InitialStock = 3
SPECIFICATION MCFairSpec
INVARIANTS EveryHoldReleasedOnce BidLadder ConflictMeansProgress
PROPERTIES LotsMoveForward BidsAreAtomic OverdueLotsClose EveryBidAnswered
