CONSTANTS
  Nil = Nil
  Bags = {b1, b2, b3}
  Sessions = {x1, x2, x3}
  Weights = {15, 30}
  MaxBaggageWeight = 25
  FeePerKg = 10
SPECIFICATION RecordedSpec
SYMMETRY Symmetric
INVARIANTS TypeOK NeverOvercharged NothingIsFree FeesMatchExcess WaitsWhileInDebt NeverStuckWaiting EachFeePaidOnce
PROPERTIES BagsAreKept CompletedIsFinal
