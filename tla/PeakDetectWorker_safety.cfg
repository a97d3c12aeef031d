SPECIFICATION FairSpec
CONSTANTS
  FftPool = 4
  MaxInputQueue = 2
  MaxCalc = 1
  MaxRequests = 3
  MaxEvents = 6
INVARIANTS
  DryOnlyWhenBehind
  RequestPending
  WorkNoticed
PROPERTY
  RequestAnswered
CHECK_DEADLOCK FALSE
