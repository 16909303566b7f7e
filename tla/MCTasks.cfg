SPECIFICATION FairSpec
CONSTANTS
  Programs <- TaskPrograms
  Scenarios <- TaskScenarios
  EventNames <- OneName
  CaseFold <- OneFold
  BadPayload = 0
INVARIANTS AlwaysAnswers
PROPERTIES RunsOnce Ends
