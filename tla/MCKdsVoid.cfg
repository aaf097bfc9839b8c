CONSTANTS
  t1 = t1
  t2 = t2
  s1 = s1
  s2 = s2
  Ticket <- MCTwoTickets
  Fire = {1, 2}
  FireOf <- MCFireOf
  Screen <- MCOneScreen
  InIdOrder = TRUE
  MaxMoves = 0
  MaxMishaps = 0
SPECIFICATION KdsSpec
CHECK_DEADLOCK FALSE
INVARIANT CancelIsAnnounced
