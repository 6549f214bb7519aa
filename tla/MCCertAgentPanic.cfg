CONSTANTS
  k1 = k1
  k2 = k2
  r1 = r1
  r2 = r2
  Keys = {k1}
  Reqs = {r1, r2}
  Batch = 2
SPECIFICATION Spec
INVARIANT NoPanic
CHECK_DEADLOCK FALSE
