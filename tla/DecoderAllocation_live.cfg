SPECIFICATION Spec
CONSTANTS
  NumBins = 10
  WindowSize = 1
  MinDistance = 2
  MaxPeaks = 4
  UintModulus = 65536
  MaxDecoders = 2
  DecodeTicks = 1
  RetuneTicks = 1
  AgeCap = 2
  Delay = 2
  MaxCalc = 2
  ExcludeShift = 0
  CentreBin = 5
  ManualBin = 7
  MaxChanges = 0
  Spectra <- MCTwoSignals
  Satellites <- MCSatellites
  Counts = {2}
  Ranges = {}
PROPERTY EverySignalTried
