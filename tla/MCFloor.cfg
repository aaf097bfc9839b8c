CONSTANTS
  w1 = w1
  w2 = w2
  u1 = u1
  u2 = u2
  f1 = f1
  f2 = f2
  b1 = b1
  b2 = b2
  p1 = p1
  t1 = t1
  t2 = t2
  d1 = d1
  Worker = {w1, w2}
  Table = {1, 2}
  NoTable = NoTable
  Uuid = {u1, u2}
  Fire = {f1, f2}
  OrderOf <- MCOrderOf
  TableOf <- MCTableOf
  Moves <- MCMoves
  Idle = Idle
  Nobody = Nobody
  Res = {b1, b2}
  Party = {p1}
  Spot = {t1, t2}
  NoSpot = NoSpot
  Ord = {d1}
  NoOrd = NoOrd
  Starts = {1, 2, 3}
  Lengths = {2}
SPECIFICATION FloorSpec
CHECK_DEADLOCK FALSE
SYMMETRY MCSymmetry
CONSTRAINT OneBook
INVARIANTS NothingLost LabelsRight  NobodyDeadlocked HeldApart NoLeftoverOrder
PROPERTY PaymentsKept
