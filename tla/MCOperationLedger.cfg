SPECIFICATION Spec
CONSTANTS
  r1 = r1
  r2 = r2
  publish = publish
  deploy = deploy
  Runner <- MCRunners
  Op <- MCOps
  MaxAttempts = 2
  OverallCap = 3
SYMMETRY RunnerSymmetry
INVARIANTS
  EffectsCharged
  ChargesReconcile
  JournalAgrees
  SettlesOwnAttempt
