CONSTANTS
  ROWS = 19
  COLUMNS = 65
  BLOCKSIZE = 8
  PreambleBits = 4
  PostambleBits = 2
  Plans <- MCPlans
  Zeros <- MCZeros
  Encoded <- encode
  Decoded <- Decode
SPECIFICATION Spec
INVARIANT CodecBears
INVARIANT OnlyFramesDecode
INVARIANT FrameArrives
INVARIANT NothingInvented
PROPERTY ErrorCountHonest
