CONSTANTS
  s1 = s1
  s2 = s2
  Streams <- MCStreams
  N = 2
  Configs <- MCConfigs
  FirstConfig = 1
  Replenish <- MCReplenish
  MaxBurst <- MCMaxBurst
  WindowSizes <- MCWindowSizes
  Sizes <- MCSizes
  UpdateCap = 1
SPECIFICATION FairSpec
INVARIANTS HeldIsRange ChargedAlike
PROPERTIES RateKept SomeoneMoves
