-------------------------------- MODULE Mesh --------------------------------
(***************************************************************************)
(* Relays that trust each other (gossip.py): every new message and every   *)
(* confirmed deletion is pushed once to each peer, without retry, and a    *)
(* background loop pulls what the peers have and this relay lacks, page by *)
(* page, behind an in-memory cursor per peer and table.                    *)
(*                                                                         *)
(* As in module Relay a step is one critical section of a relay's db_lock: *)
(* a publish, a push or a pulled message goes through its look-ups and its *)
(* INSERT one by one, and between them other requests, the relay's own     *)
(* pulls and its peers go on. A page is a copy of the peer's rows.         *)
(* There is no clock: nothing expires and no tombstone is reaped, so that  *)
(* what is not converged upon was never going to be. Time, signatures and  *)
(* validation are module Relay's.                                          *)
(***************************************************************************)
EXTENDS RelayDb

CONSTANTS
    Node,        \* the relays
    Worker,      \* the request threads of each relay
    Peers,       \* Peers[n]: the relays that n trusts, pushes to and pulls from
    Addr,        \* Addr[s]: the recipient_id its sender signed into s
    Entry,       \* the relays that clients talk to
    Request,     \* the delete requests clients make: <<signature, key>>
    PageLimit,   \* GOSSIP_PULL_BATCH_LIMIT
    BodyCap,     \* max_body_bytes, the most a puller reads of a response
    TombSize,    \* the size of one row of a page of tombstones
    Volatile,    \* the relays that run with --db :memory:
    MaxRequests, \* bound: publishes and deletes by clients in a behaviour
    MaxPushes,   \* bound: pushes that are not lost in a behaviour
    MaxFaults    \* bound: restarts, failed pulls and exhausted limiters

\* The thread of AntiEntropySync.
Loop == "loop"

ASSUME MeshAssumption ==
    /\ IsFiniteSet(Node)
    /\ Loop \notin Worker
    /\ Peers \in [Node -> SUBSET Node]
    /\ \A n \in Node : n \notin Peers[n]
    /\ Entry \subseteq Node
    /\ Addr \in [Sig -> Address]
    /\ Request \subseteq Sig \X Key
    /\ PageLimit \in Nat \ {0}
    /\ BodyCap \in Nat
    /\ TombSize \in Nat
    /\ Volatile \subseteq Node
    /\ MaxRequests \in Nat
    /\ MaxPushes \in Nat
    /\ MaxFaults \in Nat

VARIABLES
    db,       \* db[n]: n's database
    task,     \* task[n][t]: the message that n's thread t is handling
    wire,     \* pushes in the fan-out pools, not yet delivered
    cursor,   \* cursor[n][p][k]: how far n has paged through p's table k
    loop,     \* loop[n]: what n's anti-entropy thread is doing
    requests, \* how many requests clients have made (bound)
    pushes,   \* how many pushes have got away (bound)
    faults,   \* how many faults have happened (bound)
    seen,     \* seen[n][k]: what n's pulls have dealt with (ghost)
    disturbed \* <<n, s>>: handling s, n overlooked a tombstone of s (ghost)

vars == <<db, task, wire, cursor, loop, requests, pushes, faults, seen, disturbed>>

Owner(s) == Addr[s][1]

\* The two tables, each with its push path and its pull path.
Table == {"messages", "deletions"}

Push == [from : Node, to : Node, table : Table, sig : Sig, key : Key]

Thread == Worker \cup {Loop}

Idle == [pc |-> "idle"]

\* asOf is the last id given to a deletion row when the thread looked (ghost).
Task ==
    {Idle} \cup [pc : {"quota", "look"}, sig : Sig]
           \cup [pc : {"resolve"}, sig : Sig, key : Key, asOf : Nat]
           \cup [pc : {"insert"}, sig : Sig, asOf : Nat]

\* What the loop has left of the round over its peers and tables.
Round(n) == Peers[n] \X Table

Waiting == [pc |-> "wait"]

Init ==
    /\ db = [n \in Node |-> EmptyDb]
    /\ task = [n \in Node |-> [t \in Thread |-> Idle]]
    /\ wire = {}
    /\ cursor = [n \in Node |-> [p \in Node |-> [k \in Table |-> 0]]]
    /\ loop = [n \in Node |-> [todo |-> Round(n), pull |-> Waiting]]
    /\ requests = 0
    /\ pushes = 0
    /\ faults = 0
    /\ seen = [n \in Node |-> [k \in Table |-> {}]]
    /\ disturbed = {}

-----------------------------------------------------------------------------
\* Pages.

Rows(d, table) == IF table = "messages" THEN d.messages ELSE ConfirmedRows(d)

\* SELECT ... WHERE id > since ORDER BY id LIMIT PageLimit
Page(d, table, since) ==
    LET rows == {r \in Rows(d, table) : r.id > since} IN
    {r \in rows : Cardinality({q \in rows : q.id <= r.id}) <= PageLimit}

\* _read_bounded_response reads no more than the cap of either page: one of
\* messages carries their payloads, one of tombstones a signature and a key
\* for each.
Fits(page, table) ==
    IF table = "messages" THEN Bytes(page) <= BodyCap
                          ELSE Cardinality(page) * TombSize <= BodyCap

First(rows) == CHOOSE r \in rows : \A q \in rows : r.id <= q.id

\* The first row of the page has been dealt with, for good.
Past(n) ==
    LET pull == loop[n].pull
        r == First(pull.rows)
    IN  /\ loop' = [loop EXCEPT ![n].pull.rows = @ \ {r}, ![n].pull.max = r.id]
        /\ seen' = [seen EXCEPT ![n][pull.table] = @ \cup {r.sig}]

-----------------------------------------------------------------------------
\* Handling a message, however it came.

\* A claim of the key k on s is its recipient's: the day search, within a day.
Owns(k, s) == Addr[s] \in CandidateRecipientIds(k, 0)

GoTo(n, t, x) == task' = [task EXCEPT ![n][t] = x]

GoOn(n, t, x) == GoTo(n, t, x) /\ UNCHANGED <<loop, seen>>

\* The message is dealt with: a request is answered, a pull goes past its row.
Finish(n, t) ==
    /\ GoTo(n, t, Idle)
    /\ IF t = Loop THEN Past(n) ELSE UNCHANGED <<loop, seen>>

\* message_exists: a duplicate is done with at once.
Arrive(n, t, s) ==
    /\ task[n][t] = Idle
    /\ IF MessageExists(db[n], s) THEN Finish(n, t)
                                  ELSE GoOn(n, t, [pc |-> "quota", sig |-> s])

\* check_recipient_quota
QuotaFilter(n, t) ==
    /\ task[n][t].pc = "quota"
    /\ LET s == task[n][t].sig IN
       IF HasRoom(db[n], Addr[s]) THEN GoOn(n, t, [pc |-> "look", sig |-> s])
                                  ELSE Finish(n, t)
    /\ UNCHANGED <<db, wire, cursor, requests, pushes, faults, disturbed>>

\* Mutant: only a pending request is looked for.
MutLook(n, t) ==
    /\ task[n][t].pc = "look"
    /\ LET s == task[n][t].sig
           claims == RequestsFor(db[n], s) \ ConfirmedRows(db[n])
           asOf == db[n].lastDeletion
       IN  \/ claims = {} /\ GoOn(n, t, [pc |-> "insert", sig |-> s, asOf |-> asOf])
           \/ \E r \in claims :
                GoOn(n, t, [pc |-> "resolve", sig |-> s, key |-> r.requester, asOf |-> asOf])
    /\ UNCHANGED <<db, wire, cursor, requests, pushes, faults, disturbed>>

\* resolve_deletion_request, first section.
Look(n, t) ==
    /\ task[n][t].pc = "look"
    /\ LET s == task[n][t].sig
           claims == RequestsFor(db[n], s)
           asOf == db[n].lastDeletion
       IN  \/ claims = {} /\ GoOn(n, t, [pc |-> "insert", sig |-> s, asOf |-> asOf])
           \/ \E r \in claims :
                IF r.confirmed THEN Finish(n, t)
                ELSE GoOn(n, t, [pc |-> "resolve", sig |-> s, key |-> r.requester, asOf |-> asOf])
    /\ UNCHANGED <<db, wire, cursor, requests, pushes, faults, disturbed>>

\* A tombstone of the message was written after the thread looked for one.
Overlooked(n, t) ==
    \E r \in ConfirmedRows(db[n]) : r.sig = task[n][t].sig /\ r.id > task[n][t].asOf

Disturb(n, t) ==
    disturbed' = IF Overlooked(n, t) THEN disturbed \cup {<<n, task[n][t].sig>>} ELSE disturbed

\* Mutant: a claim is taken for the recipient's.
MutResolve(n, t) ==
    /\ task[n][t].pc = "resolve"
    /\ db' = [db EXCEPT ![n] = ConfirmDeletion(@, task[n][t].sig, task[n][t].key, 0)]
    /\ Finish(n, t)
    /\ UNCHANGED <<wire, cursor, requests, pushes, faults, disturbed>>

\* resolve_deletion_request, second section: the recipient's claim becomes a
\* tombstone; any other is deleted, by signature.
Resolve(n, t) ==
    /\ task[n][t].pc = "resolve"
    /\ LET x == task[n][t] IN
       \/ /\ Owns(x.key, x.sig)
          /\ db' = [db EXCEPT ![n] = ConfirmDeletion(@, x.sig, x.key, 0)]
          /\ Finish(n, t)
          /\ UNCHANGED disturbed
       \/ /\ ~Owns(x.key, x.sig)
          /\ db' = [db EXCEPT ![n] = DropRequest(@, x.sig)]
          /\ GoOn(n, t, [pc |-> "insert", sig |-> x.sig, asOf |-> x.asOf])
          /\ Disturb(n, t)
    /\ UNCHANGED <<wire, cursor, requests, pushes, faults>>

\* schedule_fanout: a copy for every peer, beside the pushes on their way. Any
\* of them may be lost: a peer that is down, a 429, the crash of a relay.
FanOut(n, table, s, k, rest) ==
    \E sent \in SUBSET {[from |-> n, to |-> p, table |-> table, sig |-> s, key |-> k]
                          : p \in Peers[n]} :
        /\ pushes' = pushes + Cardinality(sent)
        /\ pushes' <= MaxPushes
        /\ wire' = rest \cup sent

\* insert_message_and_maybe_gossip: a new message is stored and forwarded. (A
\* crash before it is forwarded loses the pushes.)
Insert(n, t) ==
    /\ task[n][t].pc = "insert"
    /\ LET s == task[n][t].sig IN
       IF HasRoom(db[n], Addr[s]) /\ ~MessageExists(db[n], s)
         THEN /\ db' = [db EXCEPT ![n] = InsertMessage(@, s, Addr[s])]
              /\ FanOut(n, "messages", s, Owner(s), wire)
              /\ Disturb(n, t)
         ELSE UNCHANGED <<db, wire, pushes, disturbed>>
    /\ Finish(n, t)
    /\ UNCHANGED <<cursor, requests, faults>>

Handle(n, t) == QuotaFilter(n, t) \/ Look(n, t) \/ Resolve(n, t) \/ Insert(n, t)

\* handle_delete_request at n, in one section, and the fan-out of what it
\* confirmed.
TakeDelete(n, s, k, rest) ==
    LET owned == MessageExists(db[n], s) /\ Owns(k, s) IN
    /\ db' = [db EXCEPT ![n] =
                CASE owned -> ConfirmDeletion(@, s, k, 0)
                  [] MessageExists(@, s) /\ ~owned -> @
                  [] OTHER -> RecordPending(@, s, k, 0)]
    /\ IF owned THEN FanOut(n, "deletions", s, k, rest) ELSE wire' = rest /\ UNCHANGED pushes

-----------------------------------------------------------------------------
\* Clients and pushes.

\* POST /publish: s is sent by its author, to one relay or to several, once or
\* again.
Publish(n, s) ==
    /\ requests < MaxRequests
    /\ requests' = requests + 1
    /\ \E t \in Worker : Arrive(n, t, s)
    /\ UNCHANGED <<db, wire, cursor, pushes, faults, disturbed>>

\* POST /delete
ClientDelete(n, q) ==
    /\ requests < MaxRequests
    /\ requests' = requests + 1
    /\ TakeDelete(n, q[1], q[2], wire)
    /\ UNCHANGED <<task, cursor, loop, faults, seen, disturbed>>

\* _push_to_peer reaches its peer.
Deliver(m) ==
    /\ m \in wire
    /\ \/ /\ m.table = "messages"
          /\ \E t \in Worker : Arrive(m.to, t, m.sig)
          /\ wire' = wire \ {m}
          /\ UNCHANGED <<db, pushes>>
       \/ /\ m.table = "deletions"
          /\ TakeDelete(m.to, m.sig, m.key, wire \ {m})
          /\ UNCHANGED <<task, loop, seen>>
    /\ UNCHANGED <<cursor, requests, faults, disturbed>>

-----------------------------------------------------------------------------
\* Anti-entropy.

NextRound(n, todo) == IF todo = {} THEN Round(n) ELSE todo

\* The loop goes on to the next peer and table.
Done(n) ==
    LET pull == loop[n].pull IN
    loop' = [loop EXCEPT ![n] = [todo |-> NextRound(n, @.todo \ {<<pull.peer, pull.table>>}),
                                 pull |-> Waiting]]

\* The next request of the round; a failed one, or one whose answer is too
\* long to read, is given up until the next round.
StartPull(n, p, table) ==
    /\ loop[n].pull = Waiting
    /\ <<p, table>> \in loop[n].todo
    /\ table = "deletions" => <<p, "messages">> \notin loop[n].todo
    /\ LET page == Page(db[p], table, cursor[n][p][table])
           skip == [loop EXCEPT ![n].todo = NextRound(n, @ \ {<<p, table>>})]
           take == [loop EXCEPT ![n].pull =
                      [pc |-> "pull", peer |-> p, table |-> table, rows |-> page,
                       max |-> cursor[n][p][table]]]
       IN  \/ /\ loop' = IF Fits(page, table) /\ page # {} THEN take ELSE skip
              /\ UNCHANGED faults
           \/ /\ faults < MaxFaults
              /\ faults' = faults + 1
              /\ loop' = skip
    /\ UNCHANGED <<db, task, wire, cursor, requests, pushes, seen, disturbed>>

\* gossip_pull_limiter is asked once for a row, or for its global bucket
\* before the quota and for the peer's own before the look-up.
AtLimiter(n) ==
    /\ loop[n].pull.pc = "pull"
    /\ loop[n].pull.rows # {}
    /\ loop[n].pull.table = "messages" => task[n][Loop].pc \in {"quota", "look"}

\* Mutant: the cursor goes past the row that the limiter refused.
MutOutOfBudget(n) ==
    /\ AtLimiter(n)
    /\ faults < MaxFaults
    /\ faults' = faults + 1
    /\ cursor' = [cursor EXCEPT ![n][loop[n].pull.peer][loop[n].pull.table] =
                    First(loop[n].pull.rows).id]
    /\ GoTo(n, Loop, Idle)
    /\ Done(n)
    /\ UNCHANGED <<db, wire, requests, pushes, seen, disturbed>>

\* gossip_pull_limiter refuses: the rest of the page is left for the next
\* round, and the cursor stays before it.
OutOfBudget(n) ==
    /\ AtLimiter(n)
    /\ faults < MaxFaults
    /\ faults' = faults + 1
    /\ cursor' = [cursor EXCEPT ![n][loop[n].pull.peer][loop[n].pull.table] = loop[n].pull.max]
    /\ GoTo(n, Loop, Idle)
    /\ Done(n)
    /\ UNCHANGED <<db, wire, requests, pushes, seen, disturbed>>

\* _sync_with_peer, the next row of the page.
PullMessage(n) ==
    /\ loop[n].pull.pc = "pull"
    /\ loop[n].pull.table = "messages"
    /\ loop[n].pull.rows # {}
    /\ Arrive(n, Loop, First(loop[n].pull.rows).sig)
    /\ UNCHANGED <<db, wire, cursor, requests, pushes, faults, disturbed>>

\* Mutant: a peer's tombstone is only remembered as a request.
MutPullDeletion(n) ==
    /\ loop[n].pull.pc = "pull"
    /\ loop[n].pull.table = "deletions"
    /\ loop[n].pull.rows # {}
    /\ LET r == First(loop[n].pull.rows) IN
       db' = [db EXCEPT ![n] = RecordPending(@, r.sig, r.requester, r.at)]
    /\ Past(n)
    /\ UNCHANGED <<task, wire, cursor, requests, pushes, faults, disturbed>>

\* _sync_deletions_with_peer, one row: no check of its own, the peer made it.
PullDeletion(n) ==
    /\ loop[n].pull.pc = "pull"
    /\ loop[n].pull.table = "deletions"
    /\ loop[n].pull.rows # {}
    /\ LET r == First(loop[n].pull.rows) IN
       db' = IF r.sig \in Confirmed(db[n]) THEN db
             ELSE [db EXCEPT ![n] = ConfirmDeletion(@, r.sig, r.requester, r.at)]
    /\ Past(n)
    /\ UNCHANGED <<task, wire, cursor, requests, pushes, faults, disturbed>>

\* Mutant: one cursor per peer, for both tables.
MutEndPull(n) ==
    /\ loop[n].pull.pc = "pull"
    /\ loop[n].pull.rows = {}
    /\ cursor' = [cursor EXCEPT ![n][loop[n].pull.peer] = [k \in Table |-> loop[n].pull.max]]
    /\ Done(n)
    /\ UNCHANGED <<db, task, wire, requests, pushes, faults, seen, disturbed>>

\* The page is done: only now the cursor moves.
EndPull(n) ==
    /\ loop[n].pull.pc = "pull"
    /\ loop[n].pull.rows = {}
    /\ cursor' = [cursor EXCEPT ![n][loop[n].pull.peer][loop[n].pull.table] = loop[n].pull.max]
    /\ Done(n)
    /\ UNCHANGED <<db, task, wire, requests, pushes, faults, seen, disturbed>>

-----------------------------------------------------------------------------
\* n crashes and starts again: its threads, the pool, the page and the cursors
\* are gone; so is the database of a relay that keeps it in memory.
Restart(n) ==
    /\ faults < MaxFaults
    /\ faults' = faults + 1
    /\ task' = [task EXCEPT ![n] = [t \in Thread |-> Idle]]
    /\ wire' = {m \in wire : m.from # n}
    /\ cursor' = [cursor EXCEPT ![n] = [p \in Node |-> [k \in Table |-> 0]]]
    /\ loop' = [loop EXCEPT ![n] = [todo |-> Round(n), pull |-> Waiting]]
    /\ db' = IF n \in Volatile THEN [db EXCEPT ![n] = EmptyDb] ELSE db
    /\ seen' = IF n \in Volatile THEN [seen EXCEPT ![n] = [k \in Table |-> {}]] ELSE seen
    /\ UNCHANGED <<requests, pushes, disturbed>>

AntiEntropy(n) ==
    \/ \E p \in Peers[n], k \in Table : StartPull(n, p, k)
    \/ PullMessage(n) \/ Handle(n, Loop) \/ PullDeletion(n)
    \/ OutOfBudget(n) \/ EndPull(n)

Next ==
    \/ \E n \in Entry, s \in Sig : Publish(n, s)
    \/ \E n \in Entry, q \in Request : ClientDelete(n, q)
    \/ \E m \in wire : Deliver(m)
    \/ \E n \in Node, t \in Worker : Handle(n, t)
    \/ \E n \in Node : AntiEntropy(n) \/ Restart(n)

\* Each relay's loop runs; nothing is assumed of clients, of request threads
\* or of pushes.
Fairness == \A n \in Node : WF_vars(AntiEntropy(n))

Spec == Init /\ [][Next]_vars /\ Fairness

-----------------------------------------------------------------------------
\* Properties.

Pulling == [pc : {"pull"}, peer : Node, table : Table,
            rows : SUBSET (MessageRow \cup DeletionRow), max : Nat]

TypeOK ==
    /\ db \in [Node -> Database]
    /\ task \in [Node -> [Thread -> Task]]
    /\ wire \subseteq Push
    /\ cursor \in [Node -> [Node -> [Table -> Nat]]]
    /\ loop \in [Node -> [todo : SUBSET (Node \X Table), pull : {Waiting} \cup Pulling]]
    /\ requests \in 0 .. MaxRequests
    /\ pushes \in 0 .. MaxPushes
    /\ faults \in 0 .. MaxFaults
    /\ seen \in [Node -> [Table -> SUBSET Sig]]
    /\ disturbed \subseteq Node \X Sig

\* A relay's cursor goes past a message of a peer only when the relay's pulls
\* have handled it, whatever happened in between: a limiter that ran dry, a
\* page cut short, a restart of either side. That is of relays with their
\* databases on disk.
MessageCursorSound ==
    \A n \in Node : \A p \in Peers[n] : \A r \in Rows(db[p], "messages") :
        r.id <= cursor[n][p]["messages"] => r.sig \in seen[n]["messages"]

\* The same for tombstones, though a row may become confirmed long after its
\* request was recorded: none ends up below a cursor that went by while it
\* was pending (resolve_deletion_request on INSERT OR REPLACE).
DeletionCursorSound ==
    \A n \in Node : \A p \in Peers[n] : \A r \in Rows(db[p], "deletions") :
        r.id <= cursor[n][p]["deletions"] => r.sig \in seen[n]["deletions"]

\* n has paged to the end of both tables of p.
CaughtUp(n, p) == \A k \in Table : \A r \in Rows(db[p], k) : r.id <= cursor[n][p][k]

\* The messages of which n has overlooked a tombstone.
Overlooks(n) == {s \in Sig : <<n, s>> \in disturbed}

\* A relay that has caught up with a peer has missed nothing of it, however
\* the two came to what they hold: a tombstone of the peer is its own, and a
\* message of the peer is here too or is deleted. Three things are excepted: a
\* message handled here while its tombstone was being pulled (Overlooks), an
\* inbox without room, where a skipped message is never asked for again
\* (_sync_with_peer: "permanent skip"), and databases in memory.
NothingMissed ==
    \A n \in Node : \A p \in Peers[n] : CaughtUp(n, p) =>
        /\ Confirmed(db[p]) \subseteq Confirmed(db[n]) \cup Overlooks(n)
        /\ Stored(db[p]) \subseteq Stored(db[n]) \cup Confirmed(db[n]) \cup Overlooks(n)

\* When every relay has caught up with its peers, all hold the same of every
\* message of which none has overlooked a tombstone, those that do not know
\* each other included.
AgreeAtRest ==
    (\A n \in Node : \A p \in Peers[n] : CaughtUp(n, p)) =>
        \A n, p \in Node, s \in Sig :
            (\A q \in Node : s \notin Overlooks(q)) =>
                /\ s \in Stored(db[n]) <=> s \in Stored(db[p])
                /\ s \in Confirmed(db[n]) <=> s \in Confirmed(db[p])

\* A message does not come back to a relay that holds its tombstone, from a
\* push or a page that is older than the deletion: only the INSERT of one that
\* was looked up before the tombstone was written puts it there.
NoResurrection == \A n \in Node : Stored(db[n]) \cap Confirmed(db[n]) \subseteq Overlooks(n)

\* The copies of the messages, one at each relay with its database on disk,
\* as those see them who talk to it.
Copy == (Node \ Volatile) \X Sig

View == [c \in Copy |-> IF c \in disturbed THEN "adrift"
                        ELSE IF c[2] \in Stored(db[c[1]]) THEN "live"
                        ELSE IF c[2] \in Confirmed(db[c[1]]) THEN "gone" ELSE "new"]

AMailbox == INSTANCE Mailbox WITH Msg <- Copy, box <- View

\* At every relay a message comes once and goes once, whatever clients and
\* peers send, pull, repeat or lose, in whatever order, and through restarts,
\* until the relay overlooks a tombstone of it, written while it handled the
\* message; of that copy nothing is said from then on.
ImplementsMailbox == AMailbox!Spec

\* Tombstones are taken over from peers unchecked; none in the mesh is for
\* anyone but the recipient of its message all the same.
AuthorizedTombstones ==
    \A n \in Node : \A r \in ConfirmedRows(db[n]) : r.requester = Owner(r.sig)

\* A page that n asks p for is longer than n reads of a response.
Stuck ==
    \E n \in Node : \E p \in Peers[n], k \in Table : ~Fits(Page(db[p], k, cursor[n][p][k]), k)

\* A relay has overlooked a tombstone of s.
Adrift(s) == \E n \in Node : s \in Overlooks(n)

\* A message stored anywhere reaches every relay or is deleted, without any
\* push ever having to arrive (AntiEntropySync: "what makes replication
\* genuinely converge").
MessagesConverge ==
    \A s \in Sig :
        (\E n \in Node : s \in Stored(db[n]))
            ~> \/ \A n \in Node : s \in Stored(db[n])
               \/ \E n \in Node : s \in Confirmed(db[n])
               \/ Adrift(s)

\* A deletion confirmed anywhere removes the message everywhere and for good.
DeletionsConverge ==
    \A s \in Sig :
        (\E n \in Node : s \in Confirmed(db[n]))
            ~> [](\/ Adrift(s)
                  \/ \A n \in Node : s \in Confirmed(db[n]) /\ s \notin Stored(db[n]))

\* Both, wherever in the mesh a message and its deletion come in: relays that
\* do not know each other converge through those between them. It takes pages
\* that fit their readers: a relay that is Stuck for good asks for the same
\* page in every round and learns nothing more from that peer.
Converges == <>[]~Stuck => MessagesConverge /\ DeletionsConverge

=============================================================================
