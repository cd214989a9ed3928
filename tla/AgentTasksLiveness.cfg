SPECIFICATION Spec
CONSTANTS
  Calls = {c1, c2}
  TaskIds = {t1}
  Payloads = {p1}
  None = None
PROPERTIES EveryTaskEnds EveryCallEnds
CHECK_DEADLOCK FALSE
