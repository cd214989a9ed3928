SPECIFICATION Spec
CONSTANTS
  Writers = {w1, w2, w3}
  MaxAttempts = 2
  MaxRev = 4
SYMMETRY Symmetry
INVARIANTS NoSpuriousConflict
PROPERTIES ImplementsLog
CHECK_DEADLOCK FALSE
