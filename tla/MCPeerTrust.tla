---------------------------- MODULE MCPeerTrust -----------------------------
(***************************************************************************)
(* Two peers, one of which calls, as does a stranger; one slot for two     *)
(* connections, one pool thread.                                           *)
(***************************************************************************)
EXTENDS PeerTrust

CONSTANTS p, q, c1, c2, c3, w1

=============================================================================
