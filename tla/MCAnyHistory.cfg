SPECIFICATION Spec
CONSTANTS
  Programs <- AnyPrograms
  EventNames <- Names
  CaseFold <- Fold
  BadPayload = 9
  WorkItems <- AnyWorkItems
INVARIANTS ExecutorTypeOK IdsAreFresh OneCompletion NobodyWaitsForTheDone ResumedCatchesUp
PROPERTIES NothingAfterCompletion OutcomesAreFinal SuspendedIsFrozen
