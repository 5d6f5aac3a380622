\* A captured name is declared again.
CONSTANTS
  Programs <- MCPrograms
  MaxSteps = 150
SPECIFICATION Spec
INVARIANT NoTypeErrors
CHECK_DEADLOCK FALSE
