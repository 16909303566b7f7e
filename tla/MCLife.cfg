SPECIFICATION Spec
CONSTANTS
  Programs <- LifePrograms
  Scenarios <- LifeScenarios
  EventNames <- OneName
  CaseFold <- OneFold
  BadPayload = 3
INVARIANTS NoFalseAlarm AskedOnce ReplaysAgree EachEventOnce ServedInOrder NoWaitStarves CarriesTheUnreceived TerminateIsHonoured
