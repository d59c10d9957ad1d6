------------------------------- MODULE Client -------------------------------
(***************************************************************************)
(* client.py as its user runs it: commands in one or several terminals,    *)
(* each a process of its own, on one home directory with one identity, and *)
(* on one relay. Others send to the addresses the user has announced.      *)
(*                                                                         *)
(* The relay is a Mailbox, as module Relay is, with what a Mailbox leaves  *)
(* open: a request to delete may be taken without effect, and a message a  *)
(* publish of which overlooks it is adrift, in some inboxes and not in     *)
(* others. Requests and responses may be lost, and what comes back         *)
(* from a fetch may have been altered on the way. Commands are ended by    *)
(* Ctrl-C at any point. Messages have sizes, in bytes, for the padding.    *)
(***************************************************************************)
EXTENDS Integers, FiniteSets, Sequences

CONSTANTS
    Term,       \* terminals
    Key,        \* key pairs that may be generated (bound)
    Msg,        \* messages others may send, by their signatures
    Length,     \* Length[s]: the bytes of the text of s
    Foreign,    \* the messages of Msg that are encrypted for some other key
    PadBuckets  \* PAD_BUCKETS, smallest first

\* what an identity file holds when it holds no key; also nobody
Missing == "missing"
Torn == "torn"

ASSUME ClientAssumption ==
    /\ IsFiniteSet(Term)
    /\ Missing \notin Key /\ Torn \notin Key
    /\ Length \in [Msg -> Nat]
    /\ Foreign \subseteq Msg
    /\ PadBuckets \in Seq(Nat) /\ PadBuckets # <<>>
    /\ \A i, j \in DOMAIN PadBuckets : i <= j => PadBuckets[i] <= PadBuckets[j]

VARIABLES
    priv,       \* identity.pem
    pub,        \* identity.pub
    run,        \* run[t]: the command in terminal t
    announced,  \* keys that register has printed (ghost)
    raced,      \* two first launches have overlapped (ghost)
    sent,       \* sent[s]: to whom s was sent, and how long it was padded
    box,        \* the relay, a Mailbox
    shown,      \* messages whose text the user has seen
    told        \* messages the user has been told are deleted

vars == <<priv, pub, run, announced, raced, sent, box, shown, told>>

home == <<priv, pub>>
user == <<announced, shown, told>>

Relay == INSTANCE Mailbox

Idle == [pc |-> "off", cmd |-> "none", key |-> Missing, todo |-> {}, target |-> {}]

NotSent == [to |-> Missing, prefix |-> 0, size |-> 0]

Command == {"register", "fetch", "fetchDelete", "delete"}

Init ==
    /\ priv = Missing
    /\ pub = Missing
    /\ run = [t \in Term |-> Idle]
    /\ announced = {}
    /\ raced = FALSE
    /\ sent = [s \in Msg |-> NotSent]
    /\ box = [s \in Msg |-> "new"]
    /\ shown = {}
    /\ told = {}

At(t, pc) == run[t].pc = pc

Go(t, pc) == run' = [run EXCEPT ![t].pc = pc]

\* sys.exit, the end of the command, or an exception that nothing catches
Exit(t) == run' = [run EXCEPT ![t] = Idle]

-----------------------------------------------------------------------------
\* The identity.

\* A command is entered. Its target is for delete alone: the signature of a
\* message that has been sent.
Start(t, cmd) ==
    /\ At(t, "off")
    /\ \E target \in IF cmd = "delete" THEN {{s} : s \in Msg} ELSE {{}} :
         /\ \A s \in target : sent[s] # NotSent
         /\ run' = [run EXCEPT ![t] = [Idle EXCEPT !.pc = "identity", !.cmd = cmd,
                                                   !.target = target]]
    /\ UNCHANGED <<home, user, raced, sent, box>>

\* A fresh RSA key is nowhere yet.
Taken == {priv, pub} \cup {run[t].key : t \in Term} \cup announced

Generating(t) == run[t].pc \in {"generate", "privOpen", "privDone", "pubOpen"}

\* A new pair; the first launch of t races with one that is not done.
Generate(t) ==
    /\ \/ Key \subseteq Taken /\ Exit(t)        \* the bound
       \/ \E k \in Key \ Taken :
            run' = [run EXCEPT ![t].pc = "generate", ![t].key = k]
    /\ raced' = (raced \/ \E u \in Term : Generating(u))

Load(t) == run' = [run EXCEPT ![t].pc = "command", ![t].key = priv]

\* Mutant: register makes a new identity.
MutRegisterGenerates(t) ==
    /\ At(t, "identity")
    /\ IF priv # Missing /\ pub # Missing /\ run[t].cmd # "register"
         THEN (IF priv = Torn THEN Exit(t) ELSE Load(t)) /\ UNCHANGED raced
         ELSE Generate(t)
    /\ UNCHANGED <<home, user, sent, box>>

\* load_or_generate_identity: with both files there, the private key is what
\* counts; else a new pair is generated, which takes a while.
LoadOrGenerate(t) ==
    /\ At(t, "identity")
    /\ IF priv # Missing /\ pub # Missing
         THEN (IF priv = Torn THEN Exit(t) ELSE Load(t)) /\ UNCHANGED raced
         ELSE Generate(t)
    /\ UNCHANGED <<home, user, sent, box>>

\* _generate_keypair: write_bytes of the private key, then of the public one;
\* each opens its file empty and then fills it.
OpenPriv(t) ==
    /\ At(t, "generate")
    /\ priv' = Torn
    /\ Go(t, "privOpen")
    /\ UNCHANGED <<pub, user, raced, sent, box>>

WritePriv(t) ==
    /\ At(t, "privOpen")
    /\ priv' = run[t].key
    /\ Go(t, "privDone")
    /\ UNCHANGED <<pub, user, raced, sent, box>>

OpenPub(t) ==
    /\ At(t, "privDone")
    /\ pub' = Torn
    /\ Go(t, "pubOpen")
    /\ UNCHANGED <<priv, user, raced, sent, box>>

WritePub(t) ==
    /\ At(t, "pubOpen")
    /\ pub' = run[t].key
    /\ Go(t, "command")
    /\ UNCHANGED <<priv, user, raced, sent, box>>

Identity(t) == LoadOrGenerate(t) \/ OpenPriv(t) \/ WritePriv(t) \/ OpenPub(t) \/ WritePub(t)

\* cmd_register: the address is printed.
Register(t) ==
    /\ At(t, "command")
    /\ run[t].cmd = "register"
    /\ announced' = announced \cup {run[t].key}
    /\ Exit(t)
    /\ UNCHANGED <<home, shown, told, raced, sent, box>>

-----------------------------------------------------------------------------
\* Padding and sizes.

PrefixSize == 4   \* _LEN_PREFIX_SIZE

\* Mutant: the length prefix is not counted.
MutNeeded(n) == n

Needed(n) == n + PrefixSize

\* The buckets that hold a text of n bytes.
Fitting(n) == {i \in DOMAIN PadBuckets : Needed(n) <= PadBuckets[i]}

\* pad_plaintext: the length of the text, and the first bucket that holds both
Padded(n) ==
    [prefix |-> n,
     size |-> PadBuckets[CHOOSE i \in Fitting(n) : \A j \in Fitting(n) : i <= j]]

\* unpad_plaintext returns as many bytes as the prefix says, if they are there.
Unpads(p) == p.size >= PrefixSize /\ p.prefix <= p.size - PrefixSize

\* base64 of the AES-GCM ciphertext of n bytes and its tag
Base64Bytes(n) == 4 * ((n + 16 + 2) \div 3)

\* A published payload: the ciphertext, and 1385 bytes for its eight other
\* fields, their names and the JSON around them.
BodyBytes(size) == Base64Bytes(size) + 1385

\* Mutant: the relay takes the protocol's figure as it is.
MutMaxBodyBytes == Base64Bytes(PadBuckets[Len(PadBuckets)]) + 1320

\* _MAX_BODY_BYTES: half as much again as MAX_PUBLISH_BODY_BYTES
MaxBodyBytes ==
    LET most == Base64Bytes(PadBuckets[Len(PadBuckets)]) + 1320 IN most + most \div 2

\* cmd_send, by whoever has an announced key: a text too long for any bucket
\* is not sent; the relay has it at once, or another relay has it first.
Send(s, k) ==
    /\ sent[s] = NotSent
    /\ k \in announced
    /\ Fitting(Length[s]) # {}
    /\ LET p == Padded(Length[s]) IN
       /\ sent' = [sent EXCEPT ![s] = [to |-> k, prefix |-> p.prefix, size |-> p.size]]
       /\ Relay!Arrive(s) \/ UNCHANGED box
    /\ UNCHANGED <<home, run, user, raced>>

\* A message comes from another relay, later.
Arrive(s) ==
    /\ sent[s] # NotSent
    /\ Relay!Arrive(s)
    /\ UNCHANGED <<home, run, user, raced, sent>>

\* The relay is rid of s: it expires, or its delete comes from another relay.
Expire(s) ==
    /\ sent[s] # NotSent
    /\ box[s] # "gone"
    /\ Relay!Vanish({s})
    /\ UNCHANGED <<home, run, user, raced, sent>>

\* A publish of s at the relay overlooks a delete of s.
Stray(s) ==
    /\ sent[s] # NotSent
    /\ box[s] # "adrift"
    /\ Relay!Stray(s)
    /\ UNCHANGED <<home, run, user, raced, sent>>

World(s) == (\E k \in Key : Send(s, k)) \/ Arrive(s) \/ Expire(s) \/ Stray(s)

-----------------------------------------------------------------------------
\* Reading.

\* The messages for k in a given state.
For(k, state) == {s \in Msg : box[s] = state /\ sent[s].to = k}

\* cmd_fetch: GET /health and POST /fetch; either may fail, and nothing there
\* is nothing to do.
Fetch(t) ==
    /\ At(t, "command")
    /\ run[t].cmd \in {"fetch", "fetchDelete"}
    /\ \/ Exit(t)
       \/ \E strays \in SUBSET For(run[t].key, "adrift") :
            LET page == For(run[t].key, "live") \cup strays IN
            /\ page # {}
            /\ run' = [run EXCEPT ![t].pc = "inbox", ![t].todo = page]
    /\ UNCHANGED <<home, user, raced, sent, box>>

\* decrypt_message, with the key of terminal t: RSA-OAEP, AES-GCM, padding
Decrypts(t, s) ==
    s \notin Foreign /\ sent[s].to = run[t].key /\ Unpads(sent[s])

\* The page goes on without s, or s is deleted next.
Skip(t, s) == run' = [run EXCEPT ![t].todo = @ \ {s}]

ThenDelete(t, s) ==
    run' = [run EXCEPT ![t].todo = @ \ {s}, ![t].pc = "delete", ![t].target = {s}]

\* Mutant: a message that could not be read is deleted like the others.
MutRead(t, s) ==
    /\ At(t, "inbox")
    /\ s \in run[t].todo
    /\ \E intact \in BOOLEAN :
         shown' = IF intact /\ Decrypts(t, s) THEN shown \cup {s} ELSE shown
    /\ IF run[t].cmd = "fetchDelete" THEN ThenDelete(t, s) ELSE Skip(t, s)
    /\ UNCHANGED <<home, announced, told, raced, sent, box>>

\* One message of the page: its signature is verified, it is decrypted and
\* printed; with --delete-after-read one that was is deleted next.
Read(t, s) ==
    /\ At(t, "inbox")
    /\ s \in run[t].todo
    /\ \E intact \in BOOLEAN :
         IF intact /\ Decrypts(t, s)
           THEN /\ shown' = shown \cup {s}
                /\ IF run[t].cmd = "fetchDelete" THEN ThenDelete(t, s) ELSE Skip(t, s)
           ELSE Skip(t, s) /\ UNCHANGED shown
    /\ UNCHANGED <<home, announced, told, raced, sent, box>>

EndFetch(t) ==
    /\ At(t, "inbox")
    /\ run[t].todo = {}
    /\ Exit(t)
    /\ UNCHANGED <<home, user, raced, sent, box>>

-----------------------------------------------------------------------------
\* Deleting.

\* cmd_delete goes straight to its request.
BeginDelete(t) ==
    /\ At(t, "command")
    /\ run[t].cmd = "delete"
    /\ Go(t, "delete")
    /\ UNCHANGED <<home, user, raced, sent, box>>

\* After a delete the command ends, or goes on with the page.
AfterDelete(t) ==
    IF run[t].cmd = "delete" THEN Exit(t)
    ELSE run' = [run EXCEPT ![t].pc = "inbox", ![t].target = {}]

\* handle_delete_request at the relay. It finds the message, and the message
\* is k's: the answer is "deleted".
Deleted(s, k) ==
    /\ sent[s].to = k
    /\ box[s] # "new"
    /\ Relay!Vanish({s}) \/ (box[s] = "adrift" /\ UNCHANGED box)

\* It does not find it, or takes it for another's: "delete_requested". It may
\* remember a request for what has not come yet; it need not, when it already
\* has a claim of someone else's.
Requested(s, k) ==
    UNCHANGED box \/ (sent[s].to = k /\ box[s] = "new" /\ Relay!Vanish({s}))

\* Mutant: any answer is taken for "deleted".
MutDelete(t, s) ==
    /\ At(t, "delete")
    /\ s \in run[t].target
    /\ \/ UNCHANGED <<box, told>>
       \/ (Deleted(s, run[t].key) \/ Requested(s, run[t].key)) /\ told' = told \cup {s}
    /\ AfterDelete(t)
    /\ UNCHANGED <<home, announced, shown, raced, sent>>

\* POST /delete: the request is lost or refused, or it is handled; then the
\* answer is lost, or it is not. Only "deleted" is reported as done.
Delete(t, s) ==
    /\ At(t, "delete")
    /\ s \in run[t].target
    /\ \/ UNCHANGED <<box, told>>
       \/ Deleted(s, run[t].key) /\ told' \in {told, told \cup {s}}
       \/ Requested(s, run[t].key) /\ UNCHANGED told
    /\ AfterDelete(t)
    /\ UNCHANGED <<home, announced, shown, raced, sent>>

-----------------------------------------------------------------------------
\* Ctrl-C, or a kill
Quit(t) ==
    /\ ~At(t, "off")
    /\ Exit(t)
    /\ UNCHANGED <<home, user, raced, sent, box>>

\* main, after its options
Main(t) ==
    \/ Identity(t) \/ Register(t) \/ Fetch(t) \/ EndFetch(t) \/ BeginDelete(t)
    \/ \E s \in Msg : Read(t, s) \/ Delete(t, s)

Next ==
    \/ \E t \in Term : (\E cmd \in Command : Start(t, cmd)) \/ Main(t) \/ Quit(t)
    \/ \E s \in Msg : World(s)

Spec == Init /\ [][Next]_vars

-----------------------------------------------------------------------------
\* Properties.

Running ==
    [pc : {"off", "identity", "generate", "privOpen", "privDone", "pubOpen", "command",
           "inbox", "delete"},
     cmd : Command \cup {"none"}, key : Key \cup {Missing},
     todo : SUBSET Msg, target : SUBSET Msg]

TypeOK ==
    /\ priv \in Key \cup {Missing, Torn}
    /\ pub \in Key \cup {Missing, Torn}
    /\ run \in [Term -> Running]
    /\ announced \subseteq Key
    /\ raced \in BOOLEAN
    /\ sent \in [Msg -> [to : Key \cup {Missing}, prefix : Nat, size : Nat]]
    /\ Relay!TypeOK
    /\ shown \subseteq Msg
    /\ told \subseteq Msg

\* An address that was announced stays the one whose private key is on disk,
\* whatever was killed or left half written before and after, unless two
\* terminals were generating the first identity at once
\* (load_or_generate_identity).
AnnouncedKept == ~raced => announced \subseteq {priv}

\* A fetch removes no message it has not shown to its user: not one that was
\* altered, not one it could not decrypt (client.py: "immediately after it is
\* successfully verified and decrypted").
FetchDeletesTheRead ==
    [][\A t \in Term, s \in Msg :
           run[t].cmd = "fetchDelete" /\ Delete(t, s) /\ box'[s] # box[s] => s \in shown]_vars

\* What the user was told is deleted is in no later inbox, however many
\* requests and answers were lost, and whoever else deletes or sends at the
\* time: the relay has it no more and never will, unless a publish of it
\* overlooks the delete (cmd_delete, cmd_fetch; the relay's other answer,
\* "delete_requested", is no such report).
ReportsTrue == \A s \in told : box[s] \in {"gone", "adrift"}

\* Whatever is sent can be read again, and no relay refuses it for its size
\* (pad_plaintext, protocol.py: the sizes "can never fall out of sync").
PaddingSound ==
    \A s \in Msg : sent[s] # NotSent =>
        /\ Unpads(sent[s]) /\ sent[s].prefix = Length[s]
        /\ BodyBytes(sent[s].size) <= MaxBodyBytes

=============================================================================
