------------------------------ MODULE MCClient ------------------------------
(***************************************************************************)
(* Two terminals, and two messages at the edges of the largest bucket: one *)
(* byte too long for the bucket before, and as long as any can be. The     *)
(* second is encrypted for someone else's key.                             *)
(***************************************************************************)
EXTENDS Client, TLC

CONSTANTS t1, t2, k1, k2, s1, s2

EdgeLength == [s \in Msg |-> IF s = s1 THEN 16381 ELSE 65532]

RealBuckets == <<4096, 16384, 65536>>

Terminals == Permutations({t1, t2})

=============================================================================
