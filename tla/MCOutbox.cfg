CONSTANTS
  d1 = d1
  d2 = d2
  Dispatcher <- MCDispatcher
  Event = {1, 2, 3}
  Aggregate = {"a", "b"}
  AggregateOf <- MCAggregateOf
  KindOf <- MCKindOf
  Serial = TRUE
  BatchSize = 2
  MaxAttempts <- MCMaxAttempts
  MaxRollbacks = 1
  MaxReplays = 1
SPECIFICATION FairOutboxSpec
CHECK_DEADLOCK FALSE
INVARIANTS  AckedTookEffect NotRepeated
PROPERTIES  EventuallySettled
