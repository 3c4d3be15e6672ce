CONSTANTS
  Nil = Nil
  Passengers = {p1, p2}
  Seats = {s1}
  Sessions = {x1, x2}
  HoldDuration = 1
  MaxTime = 4
  WorkerQueues = {"celery", "seats"}
SPECIFICATION CheckInSpec
SYMMETRY Symmetric
INVARIANTS AuditEndsInStatus
PROPERTIES StartIsAtomic CheckInsAreKept HoldsAreHonoured StolenByNewCheckInsOnly
