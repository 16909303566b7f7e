SPECIFICATION FairSpec
CONSTANTS
  Instances = {a}
  MaxInstances = 1
  MaxBytes = 2
  MaxEvents = 0
  MaxTurns <- FourTurns
  MaxTroubles = 1
  MaxFailures = 2
  MaxContinues = 1
INVARIANTS ReplaysTheCommittedUnlessOvertaken
PROPERTIES EveryTurnEnds
