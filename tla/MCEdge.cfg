CONSTANTS
  t1 = t1
  t2 = t2
  none = none
  Terminal <- MCTerminal
  MaxOpen = 2
  Journals <- MCJournals
  NoUuid = none
  Opening <- MCOpening
  BatchSize = 2
  Record = {1, 2, 3}
  PullLimit = 2
  MaxClock = 4
SPECIFICATION MCSpec
CHECK_DEADLOCK FALSE
INVARIANTS Converges OverdraftFlagged CompleteIsCurrent
PROPERTIES ImplementsIngest EventuallySynced
