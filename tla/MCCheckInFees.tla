---------------------------- MODULE MCCheckInFees -----------------------------
(* Small instances of CheckInFees for TLC. *)
EXTENDS CheckInFees, TLC

Symmetric ==
  Permutations(Sessions) \cup Permutations(Seats) \cup Permutations(Bags)
===============================================================================
