SPECIFICATION Spec
CONSTANTS
  Programs <- FanOut
  MaximumTimerInterval = 2
  Second = 2
  MaxLong = 10
  MaxDouble = 10
  MaxLate = 1
INVARIANTS FailuresAreSpent
