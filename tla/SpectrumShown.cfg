SPECIFICATION Spec
CONSTANTS
  NumBins = 8192
  SamplesPerBuffer = 4096
  Decimation = 10
  LowPassTaps = 131
  MatchedTaps = 65
  SamplesPerBit = 8
  BitTime = 114532464
  BitPhaseInc = 14316559
  HalfTurn = 2
  Frequencies = {0}
  FftResultSize = 4096
  Ranges = {}
  BufferLengths = {4096}
  MaxSamples = 12288
  MaxAhead = 8193
INVARIANT
  ShowsLatest
CHECK_DEADLOCK FALSE
