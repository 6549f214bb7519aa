CONSTANTS
  PipelineSize = 2
  NoEarlyErrorReply = FALSE
  MaxReq = 3
  c1 = c1
  c2 = c2
  Clients = {c1, c2}
  MinIdle = 2
  MaxIdle = 2
  CmdCap = 2
  Fetches = 1
  TaskCap = 1
  ExpireCap = 1
SPECIFICATION MCSpec
INVARIANTS Inv PoolRight
PROPERTIES QuitOnlyIdle PipelineEnds FetchEnds PoolRefills
CHECK_DEADLOCK FALSE
