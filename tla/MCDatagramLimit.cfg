CONSTANTS
  s1 = s1
  s2 = s2
  Socks <- MCSocks
  LocalSocks = {s1}
  N = 2
  RBytes = 3
  RPackets = 2
  MaxBurstBytes = 3
  MaxBurstPackets = 2
  MaxPackets = 1
  MaxBytes = 5
  Singles <- MCSingles
  Batches <- MCBatches
SPECIFICATION FairSpec
INVARIANTS Inv
PROPERTIES RateKept SomeoneSends
