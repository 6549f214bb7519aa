CONSTANTS
  BodyLen = 1
  BufSize = 2
  Bypass = TRUE
  EagerIcap = FALSE
  EarlyHints = FALSE
  SockOptsFail = FALSE
  MaxReq = 2
  MaxInfo = 0
SPECIFICATION Spec
INVARIANT RetryRecoverable
