--------------------------- MODULE MCBaggagePayment ---------------------------
(* Small instances of BaggagePayment for TLC: the limit and the fee are    *)
(* those of settings.py, and two weights reach the limit in several ways.  *)
EXTENDS BaggageRequirements, TLC

Symmetric == Permutations(Bags) \cup Permutations(Sessions)
===============================================================================
