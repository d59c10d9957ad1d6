------------------------------- MODULE Mailbox ------------------------------
(***************************************************************************)
(* What a relay promises of a message, to those who only talk to it: it    *)
(* can be fetched from when it arrives until it is deleted or expires, and *)
(* that happens once. A message that was deleted before it arrived never   *)
(* can be. When a publish races a delete of the same message and overlooks *)
(* it, nothing more is promised of that message: it is adrift.             *)
(***************************************************************************)
CONSTANT Msg   \* the messages, by their signatures

VARIABLE box   \* box[s]: whether s can be fetched, now, never yet, no longer

States == {"new", "live", "gone", "adrift"}

TypeOK == box \in [Msg -> States]

Init == box \in [Msg -> {"new", "gone"}]

\* s is published; only a message that was never there can come in.
Arrive(s) == box[s] = "new" /\ box' = [box EXCEPT ![s] = "live"]

\* The messages of S are deleted by their owners or expire. One that was not
\* there yet will not be.
Vanish(S) ==
    /\ \A s \in S : box[s] # "adrift"
    /\ box' = [s \in Msg |-> IF s \in S THEN "gone" ELSE box[s]]

\* A publish of s has overlooked a delete of s.
Stray(s) == box' = [box EXCEPT ![s] = "adrift"]

\* (What is gone after a step that deletes has vanished, then or before.)
Next ==
    \/ Vanish({s \in Msg : box'[s] = "gone"})
    \/ \E s \in Msg : Arrive(s) \/ Stray(s)

Spec == Init /\ [][Next]_box

=============================================================================
