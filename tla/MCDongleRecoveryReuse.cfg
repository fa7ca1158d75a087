SPECIFICATION Spec
CONSTANTS
  ReceiverCalled = FALSE
  MaxInstances = 2
  MaxPosted = 1
  MaxAsks = 2
  MaxSearches = 1
  MaxReconnects = 1
PROPERTIES PicksNewInstance
CHECK_DEADLOCK FALSE
