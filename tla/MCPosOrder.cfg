CONSTANTS
  w1 = w1
  w2 = w2
  k1 = k1
  q1 = q1
  q2 = q2
  q3 = q3
  Worker = {w1, w2}
  Order = {o1}
  Key = {k1}
  ClientKey = {k1}
  NoKey = NoKey
  Idle = Idle
  CashRounding = TRUE
  OpeningTotal <- MCOpeningTotal
  MaxTotal = 3
  MaxAmount = 1
  MaxExtra = 1
  Server = {w1, w2}
  Req = {q1, q2, q3}
  AdminReq = {q3}
  Skew = 1
  Retention = 3
  Grace = 1
  Window = 2
  PerWindow = 1
  Life = 2
  MaxRun = 1
  MaxTime = 4
  MaxKey = 3
  MaxDeliver = 2
SPECIFICATION RequestSpec
CHECK_DEADLOCK FALSE
SYMMETRY WorkerSymmetry
CONSTRAINT OneKind
INVARIANTS FinalIsBalanced OneTenderPerKey PaymentsAddUp  QuotaHeld 
PROPERTY ImplementsLedger
