SPECIFICATION Spec
CONSTANTS
  NumBins = 16
  SamplesPerBuffer = 8
  Decimation = 2
  LowPassTaps = 5
  MatchedTaps = 3
  SamplesPerBit = 4
  BitTime = 19
  BitPhaseInc = 5
  HalfTurn = 2
  Frequencies <- MCFrequencies
  FftResultSize = 8
  Ranges <- MCRanges
  BufferLengths = {3, 8, 20}
  MaxSamples = 64
  MaxAhead = 9
INVARIANTS
  ConvolvesLatest
  SpectrumOfLatest
  
PROPERTIES
  BitSpacing
CHECK_DEADLOCK FALSE
