SPECIFICATION CacheSpec
CONSTANTS
  Instances = {a, b, c}
  MaxInstances = 2
  MaxBytes = 4
  MaxEvents = 3
INVARIANTS CacheConsistent CacheWithinBounds
