---------------------------- MODULE MCRateLimiter -----------------------------
(* Small instances of RateLimiter for TLC. *)
EXTENDS RateLimiter, TLC

Symmetric == Permutations(Requests)

(* Of each limit a path, of the lowest two that are counted together. *)
SomePaths ==
  {<<"seats", i, "hold">> : i \in Ids} \cup
  {<<"checkin", "start">>, <<"passengers">>}
===============================================================================
