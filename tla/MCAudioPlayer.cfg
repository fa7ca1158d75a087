SPECIFICATION Spec
CONSTANTS
  media = media
  w1 = w1
  w2 = w2
  b1 = b1
  b2 = b2
  b3 = b3
  b4 = b4
  null = null
  Types <- MCTypes
  Buffers <- MCBuffers
  Workers <- MCWorkers
  Capacity = 3
  HighWatermark = 2
  Target = 1
  Nothing = null
INVARIANTS TypeOK BufferExclusive OneConsumer MuteHolds
PROPERTIES StaleGoesFirst
CHECK_DEADLOCK FALSE
SYMMETRY Symmetric
