SPECIFICATION Spec
CONSTANTS
  Instances = {i1, i2}
  Principals = {reaper, other}
  Reaper = reaper
  ScanIds = {s1, s2}
  MaxCandidates = {1}
  Tokens = {t1, t2}
  Digests = {d1, d2}
  Hold = h1
  OtherHolds = {}
  MinDeletes = {2}
  None = None
  LeaseMax = 1
  MaxSkew = 1
  MaxClock = 2
  MaxVersion = 3
  MaxRefs = 0
  BurnBound = 1
SYMMETRY Symmetry
INVARIANTS BurnedFenceDoesNotBlockScan
CHECK_DEADLOCK FALSE
