CONSTANTS
  k1 = k1
  Keys <- MCKeys
  Reqs <- MCReqs
  RecordTtls <- MCRecordTtls
  MinTtl = 1
  MaxTtl = 1
  NegTtl = 1
  BatchCount = 2
  MaxUpdates = 1
  MaxTime = 2
SPECIFICATION FairSpec
INVARIANTS SingleFlight TablesAgree
PROPERTIES StaleKeptOnError RequestEnds ShutdownEnds
CHECK_DEADLOCK FALSE
