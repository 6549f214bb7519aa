CONSTANTS
  PipelineSize = 1
  NoEarlyErrorReply = FALSE
  MaxReq = 1
SPECIFICATION Spec
INVARIANT ReaderWaits
