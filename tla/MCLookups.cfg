CONSTANTS
  ip1 = ip1
  ip2 = ip2
  Ips = {ip1, ip2}
  Nets <- MCNets
  Reqs <- MCReqs
  Batch = 2
  RspCap = 1
  N = 1
  EachTries = 0
  RetryTcp = TRUE
  TailWait = TRUE
  RetryEmpty = TRUE
SPECIFICATION LocateSpec
INVARIANTS LocateRight
PROPERTIES FetchEnds
CHECK_DEADLOCK FALSE
