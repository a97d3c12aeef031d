SPECIFICATION FairSpec
CONSTANTS
  Caller <- MCCaller
  NoCaller = NoCaller
  Menus <- MCMenus
  BlockSize <- MCBlockSize
  First = 17
  Last = 20
  Page = 16
  Images <- MCImages
  Frequencies = {7}
  CachePeriod = 1
  TickMod = 4
INVARIANTS
  CacheHonest
PROPERTIES
  WriteTold
  VerifyHonest
  SaveFaithful
  CallReturns
