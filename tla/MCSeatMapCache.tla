---------------------------- MODULE MCSeatMapCache ----------------------------
(* Small instances of SeatMapCache for TLC. *)
EXTENDS SeatMapCache, TLC

Symmetric == Permutations(Sessions) \cup Permutations(Keys \ {WholeMap})
===============================================================================
