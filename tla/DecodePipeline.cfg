SPECIFICATION FairSpec
CONSTANTS
  Buffer = {b1, b2, b3}
  NoBuffer = NoBuffer
  Decoder = {d1, d2}
  ManagerQueueMax = 1
  WorkerQueueMax = 0
  MaxFrames = 3
  ShortFrames = {2}
INVARIANTS
  PoolPartition
  WakeupsSuffice
  FramesInOrder
  WholeFrames
PROPERTIES
  DeliversInOrder
  AllBuffersReturn
