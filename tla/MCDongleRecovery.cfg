SPECIFICATION FairSpec
CONSTANTS
  ReceiverCalled = TRUE
  MaxInstances = 2
  MaxPosted = 1
  MaxAsks = 2
  MaxSearches = 1
  MaxReconnects = 1
INVARIANTS TypeOK NeverStuck ReadyWhenShown KilledComesBack
PROPERTIES HuntEnds HuntSpends
CHECK_DEADLOCK FALSE
