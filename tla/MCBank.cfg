CONSTANTS
  w1 = w1
  w2 = w2
  m1 = m1
  q1 = q1
  q2 = q2
  o1 = o1
  Worker = {w1, w2}
  Order = {o1}
  Key = {m1, q1, q2}
  RequestId = {m1}
  OrderOf <- MCOrderOf
  Token = {q1, q2}
  TokenOf <- MCTokenOf
  ClientKey = {}
  NoKey = NoKey
  Idle = Idle
  AllowPartial = TRUE
  AllowPartialQr = TRUE
  CashRounding = FALSE
  Outcome <- MCSomeOutcome
  OpeningTotal <- MCOpeningTotal
  MaxTotal = 2
  MaxAmount = 1
  MaxExtra = 0
SPECIFICATION BankSpec
SYMMETRY MCSymmetry
INVARIANTS BookedOnce ConfirmedIsPaid
PROPERTIES SettledStays ConfirmedAsShown ImplementsLedger
