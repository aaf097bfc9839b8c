CONSTANTS
  t1 = t1
  t2 = t2
  s1 = s1
  s2 = s2
  Ticket <- MCOneTicket
  Fire = {1}
  FireOf <- MCFireOf
  Screen <- MCTwoScreens
  InIdOrder = TRUE
  MaxMoves = 2
  MaxMishaps = 1
SPECIFICATION FairKdsSpec
CHECK_DEADLOCK FALSE
INVARIANT ShownWasTrue
 
