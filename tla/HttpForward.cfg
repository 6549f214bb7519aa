CONSTANTS
  BodyLen = 2
  BufSize = 2
  Bypass = TRUE
  EagerIcap = FALSE
  EarlyHints = FALSE
  SockOptsFail = FALSE
  MaxReq = 2
  MaxInfo = 1
SPECIFICATION FairSpec
INVARIANTS BodyIntact RightReply KeptMeansServed
PROPERTIES TaskEnds
