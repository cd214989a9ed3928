SPECIFICATION Spec
CONSTANTS
  SafeInteger = 3
  MaxEvents = 4
  MaxOpens = 3
  None = None
INVARIANTS TypeOK ViewIsPrefix FinalIsComplete
CHECK_DEADLOCK FALSE
