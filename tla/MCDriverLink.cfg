SPECIFICATION Spec
CONSTANTS
  s1 = s1
  s2 = s2
  command = command
  bare = bare
  beat = beat
  focus = focus
  close = close
  Stoppers <- MCStoppers
  QueueMessages <- MCQueueMessages
  Bare <- MCBare
  Heartbeat = beat
  ReleaseFocus = focus
  Close = close
  Nothing = nothing
  MaxFailures = 3
INVARIANTS TypeOK ReleasedAtMostOnce
PROPERTIES WritesAreAtomic ReleaseIsExclusive StopCompletes ThreadsEnd
CHECK_DEADLOCK FALSE
