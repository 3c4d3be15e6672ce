CONSTANTS
  Nil = Nil
  Passengers = {p1, p2}
  Traveller = p1
  Seats = {s1}
  Sessions = {x1, x2}
  HoldDuration = 1
  MaxTime = 2
  Bags = {b1}
  Weights = {30}
  MaxBaggageWeight = 25
  FeePerKg = 10
SPECIFICATION FeesSpec
SYMMETRY Symmetric
INVARIANTS NoCycleOfWaits
PROPERTIES ImplementsFees TakenBackByOverlapOnly
