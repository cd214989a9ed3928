SPECIFICATION Spec
CONSTANTS
  Calls = {c1, c2}
  Texts = {x1, x2}
  Steps = {s1, s2}
  MaxAttempts = 2
  None = None
PROPERTIES EveryCallEnds
CHECK_DEADLOCK FALSE
