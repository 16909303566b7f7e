SPECIFICATION Spec
CONSTANTS
  Programs <- ControlPrograms
  Scenarios <- TerminateScenarios
  EventNames <- OneName
  CaseFold <- OneFold
  BadPayload = 0
INVARIANTS AlwaysAnswers
