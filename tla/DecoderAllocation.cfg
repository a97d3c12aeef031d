SPECIFICATION Spec
CONSTANTS
  NumBins = 10
  WindowSize = 3
  MinDistance = 2
  MaxPeaks = 4
  UintModulus = 65536
  MaxDecoders = 2
  DecodeTicks = 1
  RetuneTicks = 1
  AgeCap = 2
  Delay = 1
  MaxCalc = 2
  ExcludeShift = 0
  CentreBin = 5
  ManualBin = 7
  MaxChanges = 1
  Spectra <- MCSpectra
  Satellites <- MCSatellites
  Counts <- MCCounts
  Ranges <- MCRanges
PROPERTY OnlySignalsFollowed
PROPERTY NoCompany
