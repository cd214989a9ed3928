SPECIFICATION Spec
CONSTANTS
  NCalls = 2
  Ids = {r1}
  NHandlers = 2
  NStarts = 2
  NCloses = 2
  Sub = 2
  Timeouts = {1, 3}
  AuthTtl = 2
  Skew = 1
  Lifetime = 2
  Offsets <- SkewedClocks
  GuardOffset = 2
  Retention = 1
  Fits = {"yes", "streaming", "foreign", "misdirected"}
  MaxLoad = 5
  MaxClock = 3
  MaxDeliveries = 2
  None = None
INVARIANTS AnswerIsTrue ClosedIsDeaf
PROPERTIES GrantedOnce NoTimelyRefusal CloseEnds
CHECK_DEADLOCK FALSE
