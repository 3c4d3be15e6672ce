CONSTANTS
  Nil = Nil
  Passengers = {p1, p2}
  Seats = {s1}
  Sessions = {x1, x2}
  HoldDuration = 1
  MaxTime = 3
  WorkerQueues = {"celery", "seats"}
SPECIFICATION CheckInSpec
PROPERTIES OneHolder
