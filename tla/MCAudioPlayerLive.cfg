SPECIFICATION Spec
CONSTANTS
  media = media
  w1 = w1
  w2 = w2
  b1 = b1
  b2 = b2
  b3 = b3
  b4 = b4
  null = null
  Types <- MCTypes
  Buffers <- MCFewBuffers
  Workers <- MCOneWorker
  Capacity = 2
  HighWatermark = 1
  Target = 0
  Nothing = null
PROPERTIES MuteSettles WorkerEnds
CHECK_DEADLOCK FALSE
