SPECIFICATION Spec
CONSTANTS
  Calls = {c1}
  Texts = {x1}
  Steps = {s1, s2, s3}
  MaxAttempts = 2
  None = None
SYMMETRY Symmetry
INVARIANTS TypeOK DependenciesFirst StepRunsOnce VerdictIsTrue
PROPERTIES SettledStays
CHECK_DEADLOCK FALSE
