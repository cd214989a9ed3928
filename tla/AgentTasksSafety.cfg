SPECIFICATION Spec
CONSTANTS
  Calls = {c1, c2, c3}
  TaskIds = {t1}
  Payloads = {p1, p2}
  None = None
SYMMETRY Symmetry
INVARIANTS TypeOK AtMostOnce AnswersAgree AcceptedCancelWins NoOrphan
PROPERTIES ImplementsService
CHECK_DEADLOCK FALSE
