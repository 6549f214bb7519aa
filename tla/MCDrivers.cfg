CONSTANTS
  N = 2
  EachTries = 2
  RetryTcp = TRUE
  TailWait = TRUE
  RetryEmpty = TRUE
SPECIFICATION MCSpec
INVARIANTS WaitLeftExact AllTried FailOverRight
PROPERTIES EveryQueryEnds FailureRebuilds
CHECK_DEADLOCK FALSE
