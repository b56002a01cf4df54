--------------------------- MODULE MCRateLimiter ---------------------------
(***************************************************************************)
(* Two clients and three requests.                                         *)
(***************************************************************************)
EXTENDS RateLimiter, TLC

MCSymmetry == Permutations(Requests) \cup Permutations(Clients)
=============================================================================
