------------------------------ MODULE MCRelay -------------------------------
(***************************************************************************)
(* Small instances of Relay. A day is two ticks and the retention window   *)
(* is four, so that the messages of the first day, and the tombstones they *)
(* leave, expire and are reaped before the clock stops.                    *)
(***************************************************************************)
EXTENDS Relay, TLC

CONSTANTS alice, bob, s1, s2, s3, w1, w2

\* Two messages for alice, the second from a sender whose clock is a day
\* behind.
First == Signed(alice, 0, 3)
Second == Signed(alice, -1, 6)

TwoAddr == s1 :> First.addr @@ s2 :> Second.addr
TwoCreated == s1 :> 0 @@ s2 :> 1
TwoExpires == s1 :> First.expires @@ s2 :> Second.expires
TwoSize == s1 :> 1 @@ s2 :> 1

OneAddr == s1 :> First.addr
OneCreated == s1 :> 0
OneExpires == s1 :> First.expires
OneSize == s1 :> 1

\* Three messages for one inbox that holds two, the first as large as its
\* byte quota.
ThreeAddr == [s \in {s1, s2, s3} |-> First.addr]
ThreeCreated == [s \in {s1, s2, s3} |-> 0]
ThreeExpires == [s \in {s1, s2, s3} |-> IF s = s1 THEN 3 ELSE 4]
ThreeSize == s1 :> 2 @@ s2 :> 1 @@ s3 :> 1

Threads == Permutations({w1, w2})

Genuines == {[sig |-> s, addr |-> Addr[s]] : s \in Sig}

\* Also s1 with its recipient_id replaced by one of bob's.
Tampered == Genuines \cup {[sig |-> s1, addr |-> Signed(bob, 0, 3).addr]}

ByOwners == {<<s, Owner(s)>> : s \in Sig}

\* alice deletes s1 only; bob claims it too.
Contested == {<<s1, alice>>, <<s1, bob>>}

\* Also a request by bob for alice's s1.
ByOthers == ByOwners \cup {<<s1, bob>>}

=============================================================================
