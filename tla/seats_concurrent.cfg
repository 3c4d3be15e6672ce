CONSTANTS
  Nil = Nil
  Passengers = {p1, p2}
  Seats = {s1, s2}
  Sessions = {x1, x2}
  HoldDuration = 1
  MaxTime = 4
SPECIFICATION SeatSpec
SYMMETRY Symmetric
INVARIANTS SeatTypeOK RowShape DecidedOnCurrentRow AuditEndsInStatus
PROPERTIES OneHolder ConfirmedIsFinal HoldsAreHonoured TakenByFormerHolderOnly AuditSlipsAtConfirmationsOnly
