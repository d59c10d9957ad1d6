------------------------------- MODULE MCMesh -------------------------------
(***************************************************************************)
(* Small meshes: two relays that trust each other, and three in a line,    *)
(* where what the ends exchange has to pass through the middle.            *)
(***************************************************************************)
EXTENDS Mesh, TLC

CONSTANTS alice, bob, s1, s2, n1, n2, n3, w

Pair == n1 :> {n2} @@ n2 :> {n1}

Line == n1 :> {n2} @@ n2 :> {n1, n3} @@ n3 :> {n2}

ToAlice == [s \in Sig |-> BlindRecipientId(alice, 0)]

UnitSize == [s \in Sig |-> 1]

\* alice deletes both messages; bob claims s1 too.
Contested == {<<s, alice>> : s \in Sig} \cup {<<s1, bob>>}

\* alice deletes s1 only.
FirstOnly == {<<s1, alice>>}

=============================================================================
