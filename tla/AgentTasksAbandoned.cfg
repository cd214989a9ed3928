SPECIFICATION Spec
CONSTANTS
  Calls = {c1}
  TaskIds = {t1}
  Payloads = {p1}
  None = None
INVARIANTS StreamEndsTask
CHECK_DEADLOCK FALSE
