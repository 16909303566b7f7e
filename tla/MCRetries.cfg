SPECIFICATION FairSpec
CONSTANTS
  Programs <- AllPrograms
  MaximumTimerInterval = 2
  Second = 2
  MaxLong = 10
  MaxDouble = 10
  MaxLate = 1
INVARIANTS RetriesTypeOK AttemptsAreBounded DelaysAreKept FailsWhenSpent LastAttemptCounts RacesWaitForTimers
PROPERTIES CodeEnds
