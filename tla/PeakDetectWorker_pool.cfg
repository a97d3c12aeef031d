SPECIFICATION Spec
CONSTANTS
  FftPool = 4
  MaxInputQueue = 2
  MaxCalc = 1
  MaxRequests = 3
  MaxEvents = 6
INVARIANT
  FftBufferAvailable
