------------------------------- MODULE RelayDb ------------------------------
(***************************************************************************)
(* The relay's SQLite database (relay.init_db) and the statements that run *)
(* on it, as operators from one database value to the next. A database is  *)
(* a record of two tables and of the two AUTOINCREMENT counters, which     *)
(* never hand out an id twice, not even after the row is deleted. Each     *)
(* operator stands for what one critical section of db_lock executes.      *)
(***************************************************************************)
EXTENDS Protocol, FiniteSetsExt

CONSTANTS
    Sig,            \* message signatures: the name of a message everywhere
    Size,           \* Size[s]: LENGTH(payload) of the message s
    QuotaMessages,  \* --recipient-quota-max-messages
    QuotaBytes      \* --recipient-quota-max-bytes

ASSUME DbAssumption ==
    /\ Size \in [Sig -> Nat]
    /\ QuotaMessages \in Nat
    /\ QuotaBytes \in Nat

MessageRow == [id : Nat, sig : Sig, addr : Address]

DeletionRow ==
    [id : Nat, sig : Sig, requester : Key, confirmed : BOOLEAN, at : Int]

Database ==
    [messages : SUBSET MessageRow, deletions : SUBSET DeletionRow,
     lastMessage : Nat, lastDeletion : Nat]

EmptyDb == [messages |-> {}, deletions |-> {}, lastMessage |-> 0, lastDeletion |-> 0]

-----------------------------------------------------------------------------
\* Reading.

Stored(d) == {m.sig : m \in d.messages}

MessageExists(d, s) == s \in Stored(d)

RequestsFor(d, s) == {r \in d.deletions : r.sig = s}

ConfirmedRows(d) == {r \in d.deletions : r.confirmed}

Confirmed(d) == {r.sig : r \in ConfirmedRows(d)}

Inbox(d, a) == {m \in d.messages : m.addr = a}

Bytes(rows) == MapThenSumSet(LAMBDA m : Size[m.sig], rows)

\* check_recipient_quota: what is physically stored counts, expired or not
HasRoom(d, a) ==
    /\ Cardinality(Inbox(d, a)) < QuotaMessages
    /\ Bytes(Inbox(d, a)) < QuotaBytes

-----------------------------------------------------------------------------
\* Writing.

InsertMessage(d, s, a) ==
    [messages     |-> d.messages \cup {[id |-> d.lastMessage + 1, sig |-> s, addr |-> a]},
     deletions    |-> d.deletions,
     lastMessage  |-> d.lastMessage + 1,
     lastDeletion |-> d.lastDeletion]

\* A new row of deletion_requests.
NewDeletion(d, s, k, c, t) ==
    [id |-> d.lastDeletion + 1, sig |-> s, requester |-> k, confirmed |-> c, at |-> t]

OtherMessages(d, s) == {m \in d.messages : m.sig # s}

OtherDeletions(d, s) == {r \in d.deletions : r.sig # s}

\* INSERT OR REPLACE: the row that was there goes, its id is not used again
ReplaceDeletion(d, messages, row) ==
    [messages     |-> messages,
     deletions    |-> OtherDeletions(d, row.sig) \cup {row},
     lastMessage  |-> d.lastMessage,
     lastDeletion |-> d.lastDeletion + 1]

\* Mutant: the row is updated in place and keeps its id.
MutConfirmInPlace(d, s, k, t) ==
    IF RequestsFor(d, s) = {}
      THEN ReplaceDeletion(d, OtherMessages(d, s), NewDeletion(d, s, k, TRUE, t))
      ELSE [d EXCEPT !.messages = OtherMessages(d, s),
                     !.deletions =
                       {IF r.sig = s THEN [r EXCEPT !.requester = k, !.confirmed = TRUE] ELSE r
                          : r \in @}]

\* Mutant: two columns of the INSERT swapped.
MutConfirmSwapsColumns(d, s, k, t) ==
    ReplaceDeletion(d, OtherMessages(d, s), NewDeletion(d, k, s, TRUE, t))

\* _apply_confirmed_deletion: DELETE the message, INSERT OR REPLACE the
\* tombstone
ConfirmDeletion(d, s, k, t) ==
    ReplaceDeletion(d, OtherMessages(d, s), NewDeletion(d, s, k, TRUE, t))

\* Mutant: INSERT OR REPLACE where the code has INSERT OR IGNORE.
MutRecordPendingReplaces(d, s, k, t) ==
    ReplaceDeletion(d, d.messages, NewDeletion(d, s, k, FALSE, t))

\* INSERT OR IGNORE of a pending request: any row of the signature wins
RecordPending(d, s, k, t) ==
    IF RequestsFor(d, s) # {} THEN d
    ELSE ReplaceDeletion(d, d.messages, NewDeletion(d, s, k, FALSE, t))

\* a pending request whose claim did not match the message
DropRequest(d, s) == [d EXCEPT !.deletions = OtherDeletions(d, s)]

=============================================================================
