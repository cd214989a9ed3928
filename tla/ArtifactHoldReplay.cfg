SPECIFICATION Spec
CONSTANTS
  Instances = {i1, i2}
  Principals = {reaper, other}
  Reaper = reaper
  ScanIds = {s1}
  MaxCandidates = {1, 2}
  Tokens = {t1, t2, t3}
  Digests = {d1}
  Hold = h1
  OtherHolds = {h2}
  MinDeletes = {None}
  None = None
  LeaseMax = 1
  MaxSkew = 1
  MaxClock = 3
  MaxVersion = 3
  MaxRefs = 1
  BurnBound = 1
SYMMETRY Symmetry
INVARIANTS AuthorityUnique ReplayAuthorityValid HoldReflectsCommit ClaimsValid AnswerIsCommitted
PROPERTIES SupersededIsRefused LedgerGrows
CHECK_DEADLOCK FALSE
