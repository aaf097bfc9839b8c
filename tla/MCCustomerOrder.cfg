CONSTANTS
  o1 = o1
  c1 = c1
  x1 = x1
  x2 = x2
  none = none
  Order = {o1}
  Row = {1, 2}
  Courier = {c1}
  NoCourier = none
  Tx = {x1, x2}
  Channels = {"pickup", "table", "drivethru", "shop_cod", "shop_prepaid", "counter_delivery", "online_pickup", "online_delivery", "aggregator"}
  MaxTries = 2
SPECIFICATION CustomerSpec
CHECK_DEADLOCK FALSE
INVARIANTS CookedOnce PaidOnce
PROPERTIES FinishedStays PaidGetsCooked
