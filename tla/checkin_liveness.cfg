CONSTANTS
  Nil = Nil
  Passengers = {p1}
  Seats = {s1}
  Sessions = {x1, x2}
  HoldDuration = 1
  MaxTime = 2
  WorkerQueues = {"celery", "seats"}
SPECIFICATION FairCheckInSpec
PROPERTIES EveryRequestEnds NoHoldForever
