CONSTANTS
  w1 = w1
  w2 = w2
  l1 = l1
  l2 = l2
  o1 = o1
  o2 = o2
  o3 = o3
  Worker = {w1, w2}
  Nobody = Nobody
  Limit = 2
  Policies <- MCAll
  MaxAmount = 2
  MaxCharged = 5
  Till = {w1, w2}
  Uuid = {o1, o2, o3}
  Line = {l1, l2}
  Sold <- MCSold
  Paid = 2
  MaxQty = 2
  Idle = Idle
  NoTill = NoTill
  Order = {o1, o2}
  Card = {w1, w2}
  Carts <- MCCarts
  Tenders <- MCTenders
  IssueAmount = 2
  Reward = 2
  Worth = 1
  PromoWorth = 1
  MaxTries = 2
  MaxRedeemed = 1
  GuardMode = "observe"
  Attempt = {w1, w2}
  SupportsRefund = {TRUE, FALSE}
  NoCharge = NoCharge
SPECIFICATION MoneySpec
CHECK_DEADLOCK FALSE
SYMMETRY MCSymmetry
CONSTRAINT TwoAspects
INVARIANT SoldCardIsMinted
