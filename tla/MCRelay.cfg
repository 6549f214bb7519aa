CONSTANTS
  Size = 3
  MinRead = 1
  YieldSize = 2
  WriterCap = 1
  SockCap = 1
  Total = 4
  RelaySize = 1
  RelayTotal = 2
  MaxIdle = 2
SPECIFICATION MCSpec
INVARIANTS Outcome
PROPERTIES PipeSpec Delivered TaskEnds
CHECK_DEADLOCK FALSE
