---------------------------- MODULE MCLifecycle -----------------------------
(***************************************************************************)
(* p1 and p2 are started on the same paths; p3 has a socket path of its    *)
(* own and only its gossip path in common with them. One identity.         *)
(***************************************************************************)
EXTENDS Lifecycle

CONSTANTS p1, p2, p3, a1, a2, b, dir, i1, i2, i3

SocketOf == [p \in Proc |-> IF p = p3 THEN a2 ELSE a1]

SharedGossip == [p \in Proc |-> b]

SharedDir == [p \in Proc |-> dir]

=============================================================================
