SPECIFICATION Spec
CONSTANTS
  Decoder = {d1}
  Manager = Manager
  OutBuffer = {b1, b2, b3}
  NoBuffer = NoBuffer
  OutQueueLimit = 0
  RestartCount = 0
  FirstCount = 1
  InQueueLimit = 0
  MaxPosted = 1
  MaxStarts = 2
INVARIANTS
  StreamHandlesTrue
  CallbackNeverLate
  QuietCallsAreSafe
  PoolNeverDry
  VictimWillEnd
CHECK_DEADLOCK FALSE
