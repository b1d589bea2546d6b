SPECIFICATION FairSpec
CONSTANTS
  Buffers = {b1, b2, b3}
  PoolCounts = {2, 3}
  c1 = c1
  Consumers = {c1}
  ConsumerList <- OneConsumer
  NoFrame = NoFrame
  FatalErrors = 2
  MaxFrames = 4
INVARIANTS RefcountExact
PROPERTIES TeardownEnds NewestIsTaken
