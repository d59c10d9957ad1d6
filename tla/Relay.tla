-------------------------------- MODULE Relay -------------------------------
(***************************************************************************)
(* One relay process: the request threads of its two servers (clients on   *)
(* relay.RelayHandler, peers on gossip.GossipHandler), the pulls of        *)
(* gossip.AntiEntropySync and the sweep of relay._CleanupJob, all on one   *)
(* database behind one lock.                                               *)
(*                                                                         *)
(* A step of a thread is one critical section of db_lock, or one read of   *)
(* the clock outside it; what a thread carries from one section to the     *)
(* next (the verdict of a check, a claim it has read, an instant) is in    *)
(* its task. The three ways a message comes in, POST /publish, POST        *)
(* /gossip/publish and an anti-entropy page, take the same sections in     *)
(* the same order. The token buckets are separate (module RateLimiter):    *)
(* here they accept or refuse at will.                                     *)
(***************************************************************************)
EXTENDS RelayDb

CONSTANTS
    Worker,        \* request threads that may be in flight at once
    Addr,          \* Addr[s]: the recipient_id its sender signed into s
    Created,       \* Created[s]: when the sender signed s
    Expires,       \* Expires[s]: the expires_at its sender signed into s
    Compact,       \* the messages whose expires_at is written in the basic
                   \* ISO 8601 format (20260722T100000+00:00)
    Payload,       \* the payloads that reach the relay
    Request,       \* the delete requests that reach it: <<signature, key>>
    Pulled,        \* signatures whose confirmed deletion a peer may serve
    MinTtl,        \* --min-ttl
    MaxTime,       \* bound: the clock stops here
    MaxRequests    \* bound: requests and pulled items handled in a behaviour

ASSUME RelayAssumption ==
    /\ IsFiniteSet(Worker)
    /\ Addr \in [Sig -> Address]
    /\ Created \in [Sig -> Nat]
    /\ Expires \in [Sig -> Nat]
    /\ Compact \subseteq Sig
    /\ Payload \subseteq [sig : Sig, addr : Address]
    /\ Request \subseteq Sig \X Key
    /\ Pulled \subseteq Sig
    /\ MinTtl \in Nat
    /\ MaxTime \in Nat
    /\ MaxRequests \in Nat

VARIABLES
    now,       \* the clock, UTC
    db,        \* the database
    task,      \* task[w]: what request thread w is doing
    sweep,     \* the instant the sweep under way goes by, or NoSweep
    requests,  \* how many requests have arrived (bound)
    inserts,   \* inserts[s]: INSERTs of the message s (ghost)
    pushes,    \* pushes[p][s]: fan-outs of s to the peers' path p (ghost)
    asked,     \* signatures whose owner had a delete taken (ghost)
    disturbed  \* signatures a publish of which overlooked a delete (ghost)

vars == <<now, db, task, sweep, requests, inserts, pushes, asked, disturbed>>

\* the two target paths of a fan-out
Path == {"publish", "delete"}

Owner(s) == Addr[s][1]

\* verify_signature: the payload is what the sender signed
Genuine(p) == p.addr = Addr[p.sig]

Idle == [pc |-> "idle"]

NoSweep == -1

PublishTask ==
    [pc : {"dedup", "quota", "validate", "resolveRead"}, sig : Sig, addr : Address]

\* resolve_deletion_request between its two critical sections: with the claim
\* it has read, then with the verdict on it. asOf is the last id given to a
\* deletion request when it looked (ghost).
SearchTask == [pc : {"search"}, sig : Sig, addr : Address, key : Key, asOf : Nat]

ResolveTask ==
    [pc : {"resolveWrite"}, sig : Sig, addr : Address, key : Key, matched : BOOLEAN, asOf : Nat]

\* insert_message_and_maybe_gossip before its critical section
InsertTask == [pc : {"insert"}, sig : Sig, addr : Address, asOf : Nat]

FanoutTask == [pc : {"fanout"}, sig : Sig, path : Path]

\* handle_delete_request before its critical section
DeleteTask == [pc : {"delete"}, sig : Sig, key : Key, at : Nat]

Task ==
    {Idle} \cup PublishTask \cup SearchTask \cup ResolveTask \cup InsertTask
           \cup FanoutTask \cup DeleteTask

Init ==
    /\ now = 0
    /\ db = EmptyDb
    /\ task = [w \in Worker |-> Idle]
    /\ sweep = NoSweep
    /\ requests = 0
    /\ inserts = [s \in Sig |-> 0]
    /\ pushes = [p \in Path |-> [s \in Sig |-> 0]]
    /\ asked = {}
    /\ disturbed = {}

-----------------------------------------------------------------------------
\* What a step does to a thread and to the database.

GoTo(w, t) == task' = [task EXCEPT ![w] = t]

Advance(w, pc) == GoTo(w, [task[w] EXCEPT !.pc = pc])

\* The response is sent and the thread ends.
Answer(w) == GoTo(w, Idle)

\* The write is committed and the lock released; the fan-out is still to come
\* (before the response to a publish, after the response to a delete).
ThenFanout(w, path) == GoTo(w, [pc |-> "fanout", sig |-> task[w].sig, path |-> path])

\* What the steps of a publish leave alone.
Quiet == UNCHANGED <<now, sweep, requests, pushes, asked>>

\* What a request's arrival leaves alone.
Unseen == UNCHANGED <<now, db, sweep, inserts, pushes, asked, disturbed>>

-----------------------------------------------------------------------------
\* Publishing.

\* A payload arrives, from a client, a peer's push or an anti-entropy page.
Receive(w) ==
    /\ task[w] = Idle
    /\ requests < MaxRequests
    /\ \E p \in Payload :
         /\ Created[p.sig] <= now
         /\ GoTo(w, [pc |-> "dedup", sig |-> p.sig, addr |-> p.addr])
    /\ requests' = requests + 1
    /\ Unseen

\* message_exists: a duplicate is answered before anything else is spent.
Dedup(w) ==
    /\ task[w].pc = "dedup"
    /\ IF MessageExists(db, task[w].sig) THEN Answer(w) ELSE Advance(w, "quota")
    /\ UNCHANGED <<db, inserts, disturbed>>
    /\ Quiet

\* The limiter, then check_recipient_quota: a pre-filter outside the lock
\* section that inserts.
QuotaFilter(w) ==
    /\ task[w].pc = "quota"
    /\ \/ Answer(w)     \* 429, rate limit exceeded
       \/ IF HasRoom(db, task[w].addr) THEN Advance(w, "validate") ELSE Answer(w)
    /\ UNCHANGED <<db, inserts, disturbed>>
    /\ Quiet

ValidPublish(p, t) ==
    /\ Expires[p.sig] >= t + MinTtl
    /\ Expires[p.sig] <= t + MaxTtl
    /\ Genuine(p)

\* Mutant: the signature is not verified.
MutValidate(w) ==
    /\ task[w].pc = "validate"
    /\ IF Expires[task[w].sig] >= now + MinTtl /\ Expires[task[w].sig] <= now + MaxTtl
         THEN Advance(w, "resolveRead") \/ Answer(w)
         ELSE Answer(w)
    /\ UNCHANGED <<db, inserts, disturbed>>
    /\ Quiet

\* _validate_publish_payload, then the per-identity bucket.
Validate(w) ==
    /\ task[w].pc = "validate"
    /\ IF ValidPublish(task[w], now)
         THEN Advance(w, "resolveRead") \/ Answer(w)
         ELSE Answer(w)
    /\ UNCHANGED <<db, inserts, disturbed>>
    /\ Quiet

\* The look for a deletion request of the message finds none, or finds the
\* claim of the key k.
FindNone(w) ==
    GoTo(w, [pc |-> "insert", sig |-> task[w].sig, addr |-> task[w].addr,
             asOf |-> db.lastDeletion])

FindClaim(w, k) ==
    GoTo(w, [pc |-> "search", sig |-> task[w].sig, addr |-> task[w].addr, key |-> k,
             asOf |-> db.lastDeletion])

\* Mutant: only a pending request is looked at.
MutResolvePendingOnly(w) ==
    /\ task[w].pc = "resolveRead"
    /\ LET claims == RequestsFor(db, task[w].sig) \ ConfirmedRows(db) IN
       \/ claims = {} /\ FindNone(w)
       \/ \E r \in claims : FindClaim(w, r.requester)
    /\ UNCHANGED <<db, inserts, disturbed>>
    /\ Quiet

\* resolve_deletion_request, first section: is this signature already the
\* target of a delete?
ResolveRead(w) ==
    /\ task[w].pc = "resolveRead"
    /\ LET claims == RequestsFor(db, task[w].sig) IN
       \/ claims = {} /\ FindNone(w)
       \/ \E r \in claims : IF r.confirmed THEN Answer(w) ELSE FindClaim(w, r.requester)
    /\ UNCHANGED <<db, inserts, disturbed>>
    /\ Quiet

\* The day search over the claim, by the clock and outside the lock.
ResolveSearch(w) ==
    /\ task[w].pc = "search"
    /\ LET t == task[w] IN
       GoTo(w, [pc |-> "resolveWrite", sig |-> t.sig, addr |-> t.addr, key |-> t.key,
                matched |-> t.addr \in CandidateRecipientIds(t.key, now), asOf |-> t.asOf])
    /\ UNCHANGED <<db, inserts, disturbed>>
    /\ Quiet

\* The owner's delete was recorded after the publish t looked for one. Neither
\* the DELETE of a claim, which is by signature, nor the INSERT looks again.
Overlooked(t) ==
    \E r \in RequestsFor(db, t.sig) : r.requester = Owner(t.sig) /\ r.id > t.asOf

Disturb(t) == disturbed' = IF Overlooked(t) THEN disturbed \cup {t.sig} ELSE disturbed

\* resolve_deletion_request, second section: a claim that matched becomes a
\* tombstone and the message is discarded, one that did not is deleted.
ResolveWrite(w) ==
    /\ task[w].pc = "resolveWrite"
    /\ LET t == task[w] IN
       \/ /\ t.matched
          /\ db' = ConfirmDeletion(db, t.sig, t.key, now)
          /\ Answer(w)
          /\ UNCHANGED disturbed
       \/ /\ ~t.matched
          /\ db' = DropRequest(db, t.sig)
          /\ GoTo(w, [pc |-> "insert", sig |-> t.sig, addr |-> t.addr, asOf |-> t.asOf])
          /\ Disturb(t)
    /\ UNCHANGED inserts
    /\ Quiet

\* The INSERT of a new row.
Store(t) ==
    /\ db' = InsertMessage(db, t.sig, t.addr)
    /\ inserts' = [inserts EXCEPT ![t.sig] = @ + 1]
    /\ Disturb(t)

\* Mutant: the quota is not checked again with the INSERT.
MutInsertNoRecheck(w) ==
    /\ task[w].pc = "insert"
    /\ LET t == task[w] IN
       IF ~MessageExists(db, t.sig)
         THEN Store(t) /\ ThenFanout(w, "publish")
         ELSE Answer(w) /\ UNCHANGED <<db, inserts, disturbed>>
    /\ Quiet

\* Mutant: fan-out also for a signature that was already there.
MutInsertFansDuplicates(w) ==
    /\ task[w].pc = "insert"
    /\ LET t == task[w] IN
       IF HasRoom(db, t.addr)
         THEN /\ IF MessageExists(db, t.sig) THEN UNCHANGED <<db, inserts, disturbed>>
                                             ELSE Store(t)
              /\ ThenFanout(w, "publish")
         ELSE Answer(w) /\ UNCHANGED <<db, inserts, disturbed>>
    /\ Quiet

\* insert_message_and_maybe_gossip: the quota again, and the INSERT, whose
\* UNIQUE signature decides whether the message is new.
Insert(w) ==
    /\ task[w].pc = "insert"
    /\ LET t == task[w] IN
       IF HasRoom(db, t.addr) /\ ~MessageExists(db, t.sig)
         THEN Store(t) /\ ThenFanout(w, "publish")
         ELSE Answer(w) /\ UNCHANGED <<db, inserts, disturbed>>
    /\ Quiet

\* schedule_fanout, after the commit and outside the lock.
Fanout(w) ==
    /\ task[w].pc = "fanout"
    /\ pushes' = [pushes EXCEPT ![task[w].path][task[w].sig] = @ + 1]
    /\ Answer(w)
    /\ UNCHANGED <<now, db, sweep, requests, inserts, asked, disturbed>>

-----------------------------------------------------------------------------
\* Deleting.

\* A delete request passes its own signature check; the clock and the day
\* search are read here, before the lock is taken.
ReceiveDelete(w) ==
    /\ task[w] = Idle
    /\ requests < MaxRequests
    /\ \E q \in Request :
         /\ Created[q[1]] <= now
         /\ GoTo(w, [pc |-> "delete", sig |-> q[1], key |-> q[2], at |-> now])
    /\ requests' = requests + 1
    /\ Unseen

\* The row a delete request may remove: one its requester is addressed by.
OwnedRow(d, s, k, t) ==
    \E m \in d.messages : m.sig = s /\ m.addr \in CandidateRecipientIds(k, t)

\* INSERT OR IGNORE records nothing where a row of the signature is: here a
\* stranger's claim, made before the owner asked.
Blocked(t) ==
    /\ ~MessageExists(db, t.sig)
    /\ \E r \in RequestsFor(db, t.sig) : r.requester # t.key

\* The owner of the message is told it is deleted, or that it will be. (One
\* who is Blocked is told the same, for nothing.)
Remember(t) ==
    asked' = IF t.key = Owner(t.sig) /\ ~Blocked(t) THEN asked \cup {t.sig} ELSE asked

\* Mutant: any requester may delete a stored message.
MutHandleDeleteUnchecked(w) ==
    /\ task[w].pc = "delete"
    /\ LET t == task[w] IN
       /\ \/ /\ MessageExists(db, t.sig)
             /\ db' = ConfirmDeletion(db, t.sig, t.key, t.at)
             /\ ThenFanout(w, "delete")
          \/ /\ ~MessageExists(db, t.sig)
             /\ db' = RecordPending(db, t.sig, t.key, t.at)
             /\ Answer(w)
       /\ Remember(t)
    /\ UNCHANGED <<now, sweep, requests, inserts, pushes, disturbed>>

\* Mutant: every delete request is forwarded, confirmed here or not.
MutHandleDeleteAlwaysFans(w) ==
    /\ task[w].pc = "delete"
    /\ LET t == task[w] IN
       /\ \/ /\ OwnedRow(db, t.sig, t.key, t.at)
             /\ db' = ConfirmDeletion(db, t.sig, t.key, t.at)
          \/ /\ ~MessageExists(db, t.sig)
             /\ db' = RecordPending(db, t.sig, t.key, t.at)
          \/ /\ MessageExists(db, t.sig) /\ ~OwnedRow(db, t.sig, t.key, t.at)
             /\ UNCHANGED db
       /\ ThenFanout(w, "delete")
       /\ Remember(t)
    /\ UNCHANGED <<now, sweep, requests, inserts, pushes, disturbed>>

\* handle_delete_request: delete what is here and owned, remember what is
\* not here, and answer alike when it is here and not owned.
HandleDelete(w) ==
    /\ task[w].pc = "delete"
    /\ LET t == task[w] IN
       /\ \/ /\ OwnedRow(db, t.sig, t.key, t.at)
             /\ db' = ConfirmDeletion(db, t.sig, t.key, t.at)
             /\ ThenFanout(w, "delete")
          \/ /\ ~MessageExists(db, t.sig)
             /\ db' = RecordPending(db, t.sig, t.key, t.at)
             /\ Answer(w)
          \/ /\ MessageExists(db, t.sig) /\ ~OwnedRow(db, t.sig, t.key, t.at)
             /\ UNCHANGED db
             /\ Answer(w)
       /\ Remember(t)
    /\ UNCHANGED <<now, sweep, requests, inserts, pushes, disturbed>>

\* _sync_deletions_with_peer, one row of the page: a peer has confirmed a
\* deletion the message's owner asked for at some earlier instant.
ApplyTombstone(s) ==
    /\ s \in Pulled
    /\ Created[s] <= now
    /\ requests < MaxRequests
    /\ requests' = requests + 1
    /\ \/ s \in Confirmed(db) /\ UNCHANGED db
       \/ /\ s \notin Confirmed(db)
          /\ \E t \in Created[s] .. now : db' = ConfirmDeletion(db, s, Owner(s), t)
    /\ UNCHANGED <<now, task, sweep, inserts, pushes, asked, disturbed>>

-----------------------------------------------------------------------------
\* Time.

\* expires_at > t as the database compares it: two strings. now is written
\* in the extended format (2026-07-22T...), whose "-" sorts below any digit,
\* so within one calendar year a basic-format expiry is above every instant.
TextAfter(s, t) == s \in Compact \/ Expires[s] > t

\* Mutant: what the sweep has not yet taken is returned.
MutFetched(d, ids, t) ==
    {m \in d.messages : m.addr \in ids /\ Cardinality(ids) <= MaxFetchIds}

\* _do_fetch: what is returned for a set of recipient identifiers; a request
\* with too many of them is refused.
Fetched(d, ids, t) ==
    {m \in d.messages :
       m.addr \in ids /\ TextAfter(m.sig, t) /\ Cardinality(ids) <= MaxFetchIds}

\* Mutant: tombstones are reaped after the shortest lifetime of a message.
MutSweptEarly(d, t) ==
    [d EXCEPT !.messages = {m \in @ : TextAfter(m.sig, t)},
              !.deletions = {r \in @ : r.at > t - MinTtl}]

\* Mutant: the sweep reaps the tombstones and leaves the messages.
MutSweptKeepsExpired(d, t) ==
    [d EXCEPT !.deletions = {r \in @ : r.at > t - MaxTtl}]

\* What the sweep leaves of the database d at the instant t.
SweptDb(d, t) ==
    [d EXCEPT !.messages = {m \in @ : TextAfter(m.sig, t)},
              !.deletions = {r \in @ : r.at > t - MaxTtl}]

\* _CleanupJob._run_once reads the clock, then takes the lock.
StartSweep ==
    /\ sweep = NoSweep
    /\ sweep' = now
    /\ UNCHANGED <<now, db, task, requests, inserts, pushes, asked, disturbed>>

Sweep ==
    /\ sweep # NoSweep
    /\ db' = SweptDb(db, sweep)
    /\ sweep' = NoSweep
    /\ UNCHANGED <<now, task, requests, inserts, pushes, asked, disturbed>>

Tick ==
    /\ now < MaxTime
    /\ now' = now + 1
    /\ UNCHANGED <<db, task, sweep, requests, inserts, pushes, asked, disturbed>>

\* The process is killed and started again: the threads are gone, the
\* database holds what was committed.
Restart ==
    /\ task' = [w \in Worker |-> Idle]
    /\ sweep' = NoSweep
    /\ UNCHANGED <<now, db, requests, inserts, pushes, asked, disturbed>>

-----------------------------------------------------------------------------
Publish(w) ==
    \/ Receive(w) \/ Dedup(w) \/ QuotaFilter(w) \/ Validate(w)
    \/ ResolveRead(w) \/ ResolveSearch(w) \/ ResolveWrite(w) \/ Insert(w) \/ Fanout(w)

Delete(w) == ReceiveDelete(w) \/ HandleDelete(w)

Next ==
    \/ \E w \in Worker : Publish(w) \/ Delete(w)
    \/ \E s \in Sig : ApplyTombstone(s)
    \/ StartSweep
    \/ Sweep
    \/ Tick
    \/ Restart

\* The sweep is a loop of its own thread and the clock advances. The relay is
\* not killed in the middle of every sweep it begins.
Fairness == WF_vars(StartSweep) /\ SF_vars(Sweep) /\ WF_vars(Tick)

Spec == Init /\ [][Next]_vars /\ Fairness

-----------------------------------------------------------------------------
\* Properties.

TypeOK ==
    /\ now \in 0 .. MaxTime
    /\ db \in Database
    /\ task \in [Worker -> Task]
    /\ sweep \in NoSweep .. now
    /\ requests \in 0 .. MaxRequests
    /\ inserts \in [Sig -> Nat]
    /\ pushes \in [Path -> [Sig -> Nat]]
    /\ asked \subseteq Sig
    /\ disturbed \subseteq Sig

\* Every confirmed tombstone names the owner of its message: no order of
\* publishes, deletes and resolutions lets another key confirm one, neither
\* through a pending claim nor through a payload that was tampered with
\* (handle_delete_request, resolve_deletion_request).
AuthorizedTombstones ==
    \A r \in ConfirmedRows(db) : r.requester = Owner(r.sig)

\* However the filters of concurrent publishes interleave, an address never
\* holds more messages than the quota: the check made with the INSERT
\* (insert_message_and_maybe_gossip) is the one that counts.
QuotaCountBound ==
    \A a \in {m.addr : m \in db.messages} : Cardinality(Inbox(db, a)) <= QuotaMessages

\* The byte quota is overshot by less than one message: without some one
\* message of it the inbox is below the quota (the check does not count the
\* payload about to be inserted, but no two inserts share one check).
QuotaBytesOvershoot ==
    \A a \in {m.addr : m \in db.messages} :
        \E m \in Inbox(db, a) : Bytes(Inbox(db, a) \ {m}) < QuotaBytes

\* Each INSERT pays for at most one flood of the message and, later, one of
\* its deletion: what keeps the mesh's traffic bounded when every relay
\* forwards to every other (insert_message_and_maybe_gossip, _do_delete).
FloodBounded ==
    \A p \in Path, s \in Sig : pushes[p][s] <= inserts[s]

\* Once its owner's delete has been taken, a message that has not expired is
\* not in the relay: not the copy that was there, and none that arrives later,
\* whatever publishes, deletes, strangers' claims, peers' deletions, sweeps and
\* restarts run beside each other; the two races in which a publish overlooks
\* a delete recorded after it looked (the DELETE in resolve_deletion_request and
\* the INSERT in insert_message_and_maybe_gossip) are the only ways out.
OwnerDeleteHonoured ==
    \A s \in asked \ disturbed : Expires[s] > now => s \notin Stored(db)

\* The same without the exception, as the client prints it (client.py, when a
\* delete is not confirmed: "it will be purged automatically if and when it
\* arrives"). The code does not do it.
PurgedOnArrival ==
    \A s \in asked : Expires[s] > now => s \notin Stored(db)

\* What a key's fetch returns is that key's live messages, all of them and
\* no others: whatever the day each was addressed with, also by a sender
\* whose clock was up to a day behind; whether or not the sweep has run; and
\* the relay never refuses the fetch for the number of its identifiers
\* (relay.py: a fetch built for its own window "can never be rejected").
\* The same day search decides on the recipient's deletes.
FetchExact ==
    \A k \in Key :
        Fetched(db, FetchIds(k, now), now) =
          {m \in db.messages : Owner(m.sig) = k /\ Expires[m.sig] > now}

\* s has been in the relay, or will never be.
Over(s) == inserts[s] > 0 \/ s \in asked \/ s \in Confirmed(db) \/ Expires[s] <= now

\* The relay as its users see it.
View == [s \in Sig |-> IF s \in disturbed THEN "adrift"
                       ELSE IF s \in Stored(db) /\ Expires[s] > now THEN "live"
                       ELSE IF s \in Stored(db) \/ Over(s) THEN "gone" ELSE "new"]

AMailbox == INSTANCE Mailbox WITH Msg <- Sig, box <- View

\* A relay is a mailbox: through restarts, sweeps, peers' deletions,
\* strangers' claims and publishes and deletes side by side each message comes
\* once and goes once, until a publish of it overlooks a delete. Nothing is
\* said of a message from then on, nor that a live one stays.
ImplementsMailbox == AMailbox!Spec

\* A confirmed tombstone stays confirmed until its retention window is over.
\* No repeated or late request, sweep or restart downgrades it to a pending one
\* or deletes it earlier, but a publish does that read a claim on its message
\* before the tombstone was written and drops the claim after (the DELETE by
\* signature at the end of resolve_deletion_request).
TombstoneKept ==
    [][\A r \in ConfirmedRows(db) :
           r.at > now - MaxTtl => r.sig \in Confirmed(db') \cup disturbed']_vars

\* The same without the exception (handle_delete_request: "never downgrade an
\* existing confirmed row"). It is so of the INSERT OR IGNORE the comment is
\* at, and not of the relay.
NeverDowngraded ==
    [][\A r \in ConfirmedRows(db) :
           r.at > now - MaxTtl => r.sig \in Confirmed(db')]_vars

\* A row becomes confirmed only under an id above every id ever given out,
\* so that no peer's /gossip/deletions cursor has already gone past it
\* (the comment in resolve_deletion_request on INSERT OR REPLACE).
ConfirmedAheadOfCursors ==
    [][\A r \in ConfirmedRows(db') :
           r \notin ConfirmedRows(db) => r.id > db.lastDeletion]_vars

\* An expired message is physically deleted in the end, also one that was
\* validated before it expired and inserted after.
ExpiredSwept ==
    \A s \in Sig : (s \in Stored(db) /\ Expires[s] <= now) ~> s \notin Stored(db)

=============================================================================
