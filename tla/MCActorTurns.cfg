SPECIFICATION Spec
CONSTANTS
  StateNames = {count, name}
  Values = {v1, v2}
  NoValue = null
  MaxRequests = 3
  MaxOperations = 3
SYMMETRY Symmetry
INVARIANTS ActorTypeOK NeverRefused OnlyEarlyWritesAreLost
PROPERTIES IsTransactional
