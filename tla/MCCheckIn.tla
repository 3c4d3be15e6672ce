------------------------------ MODULE MCCheckIn -------------------------------
(* Small instances of CheckIn for TLC. *)
EXTENDS CheckInLiveness, TLC

Symmetric ==
  Permutations(Passengers) \cup Permutations(Seats) \cup Permutations(Sessions)
===============================================================================
