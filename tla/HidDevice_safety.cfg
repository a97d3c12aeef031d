SPECIFICATION FairSpec
CONSTANTS
  QueueLimit = 1
  MaxReports = 6
  Mishaps = {"gone at start", "cancel too late", "events fail"}
INVARIANTS
  NothingFreedInUse
  NoLostWakeup
PROPERTIES
  ReportsSpec
  CloseReturns
  ReadReturnsWhenGone
CHECK_DEADLOCK FALSE
