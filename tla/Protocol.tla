------------------------------ MODULE Protocol ------------------------------
(***************************************************************************)
(* The addresses of Aethernode (protocol.py): a recipient's identifier is  *)
(* derived from the recipient's public key and the UTC calendar day, and a *)
(* relay or a client that needs every identifier a key may still be using  *)
(* enumerates the days of the retention window.                            *)
(*                                                                         *)
(* A public key is a member of Key, an instant is an integer, and the HMAC *)
(* is the pair of what it is keyed on: it has no collisions.               *)
(***************************************************************************)
EXTENDS Integers, FiniteSets

CONSTANTS
    Key,         \* the public keys
    DaySeconds,  \* the length of a UTC day (86400 in the code)
    MaxTtl       \* the relay's retention window, --max-ttl

ASSUME ProtocolAssumption ==
    /\ DaySeconds \in Nat \ {0}
    /\ MaxTtl \in Nat \ {0}

\* day_bucket
Day(t) == t \div DaySeconds

\* blind_recipient_id
BlindRecipientId(key, day) == <<key, day>>

Address == Key \X Int

\* Mutant: the days of the window, without the buffer.
MutLookbackDays == -((-MaxTtl) \div DaySeconds)

\* ceil(MaxTtl / a day), plus a day of buffer for clock skew
LookbackDays == -((-MaxTtl) \div DaySeconds) + 1

\* _candidate_recipient_ids: the relay's and the client's copy
CandidateRecipientIds(key, t) ==
    {BlindRecipientId(key, Day(t - offset * DaySeconds)) : offset \in 0 .. LookbackDays}

\* cmd_send: what a sender whose clock shows t signs into a message to key
Signed(key, t, ttl) ==
    [addr |-> BlindRecipientId(key, Day(t)), expires |-> t + ttl]

\* cmd_fetch asks /health for MaxTtl and looks for the same identifiers.
FetchIds(key, t) == CandidateRecipientIds(key, t)

\* Mutant: today is not counted.
MutMaxFetchIds == -((-MaxTtl) \div DaySeconds) + 1

\* _MAX_FETCH_IDS: the most identifiers a relay accepts in one fetch
MaxFetchIds == -((-MaxTtl) \div DaySeconds) + 2

=============================================================================
