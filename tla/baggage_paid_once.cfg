CONSTANTS
  Nil = Nil
  Bags = {b1, b2}
  Sessions = {x1, x2}
  Weights = {15, 30}
  MaxBaggageWeight = 25
  FeePerKg = 10
SPECIFICATION RecordedSpec
SYMMETRY Symmetric
INVARIANTS PaidOnce
