SPECIFICATION Spec
CONSTANTS
  Calls = {c1}
  Texts = {x1}
  Steps = {s1, s2}
  MaxAttempts = 1
  None = None
INVARIANTS RefusedPlanFails
CHECK_DEADLOCK FALSE
