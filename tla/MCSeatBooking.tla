---------------------------- MODULE MCSeatBooking -----------------------------
(* Small instances of SeatBooking for TLC. *)
EXTENDS SeatRequirements, TLC

Symmetric ==
  Permutations(Passengers) \cup Permutations(Seats) \cup Permutations(Sessions)
===============================================================================
