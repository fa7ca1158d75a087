SPECIFICATION Spec
CONSTANTS
  s1 = s1
  s2 = s2
  p1 = p1
  p2 = p2
  null = null
  Surfaces <- MCSurfaces
  Streams <- MCStreams
  Nothing = null
INVARIANTS DetachedIsStopped
CHECK_DEADLOCK FALSE
