CONSTANTS
  Programs <- MCPrograms
  MaxSteps = 150
SPECIFICATION Spec
INVARIANTS
  LocalsInLockstep
  EnginesAgree
  TypeSound
  EffectsRespected
  OptimizeKeeps
CHECK_DEADLOCK FALSE
