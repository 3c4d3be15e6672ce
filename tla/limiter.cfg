CONSTANTS
  Nil = Nil
  Requests = {r1, r2}
  Ids = {i1, i2}
  Paths <- SomePaths
  SeatLimit = 2
  CheckInLimit = 3
  DefaultLimit = 4
  Window = 3
  Delay = 1
  MaxTime = 7
  Burst = 4
SPECIFICATION Spec
SYMMETRY Symmetric
INVARIANTS TypeOK SecondsWithinLimit
PROPERTIES OnlyHeavyUseRefused
