SPECIFICATION FairSpec
CONSTANTS
  App = App
  Worker = Worker
  Nobody = Nobody
  PhaseBits <- MCPhaseBits
  MaxOutputQueue = 2
  MaxInputQueue = 1
  DataPool = 3
  SamplePool = 4
  MaxBlocks = 3
  MaxEvents = 3
INVARIANTS
  BlocksInOrder
  SignalUnbroken
PROPERTY
  TransmissionEnds
