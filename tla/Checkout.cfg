SPECIFICATION FairSpec
CONSTANTS
  Orders = {o1, o2}
  PoolSize = 1
  MaxOrders = 1
  MaxInFlight = 2
INVARIANTS PoolKept ChargeFate BookHoldsNewest
PROPERTIES HeldEnds
CHECK_DEADLOCK FALSE
