SPECIFICATION FairSpec
CONSTANTS
  c1 = c1
  c2 = c2
  b1 = b1
  b2 = b2
  b3 = b3
  none = none
  null = null
  Codecs <- MCCodecs
  Buffers <- MCBuffers
  NoCodec = none
  NoBuffer = null
INVARIANTS TypeOK BuffersOwned TeardownIsOrdered OnlyFailedInitOrphans
PROPERTIES FeedsInOrder CallsReturn
CHECK_DEADLOCK FALSE
