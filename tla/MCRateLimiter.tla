--------------------------- MODULE MCRateLimiter ----------------------------
(***************************************************************************)
(* A limiter with two tokens for everyone and one for each identity, and a *)
(* pool of two buckets for three identities.                               *)
(***************************************************************************)
EXTENDS RateLimiter, TLC

CONSTANTS c1, c2, i1, i2, i3

Symmetry == Permutations({c1, c2}) \cup Permutations({i1, i2, i3})

=============================================================================
