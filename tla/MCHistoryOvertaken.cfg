SPECIFICATION Spec
CONSTANTS
  Instances = {a}
  MaxInstances = 1
  MaxBytes = 0
  MaxEvents = 0
  MaxTurns <- FiveTurns
  MaxTroubles = 1
  MaxFailures = 1
  MaxContinues = 1
INVARIANTS ReplaysTheCommitted
