# Aethernode: a TLA+ development

Aethernode is a store-and-forward relay for end-to-end encrypted messages.
Clients publish signed ciphertexts to any relay of a small, mutually trusting
mesh, fetch them from any other, and delete them; relays copy messages and
deletions to each other. This directory holds TLA+ modules translated from the
Python sources, the TLC configurations that check them on small instances, and
theorems about them that the TLA+ proof system checks. Paths and line numbers
refer to the repository beside this directory; `PROJECT.json` maps every
definition to the lines it stands for.

    tlc -workers 2 -config relay_conc.cfg MCRelay     # a run
    tlapm RelayProofs.tla                             # a proof

Contents: [the system](#the-system) · [hazards](#hazards) ·
[modules](#modules) · [runs](#runs) · [findings](#findings) ·
[fairness](#fairness) · [proofs](#proofs) ·
[what is only model-checked](#what-is-only-model-checked) ·
[what is not modelled](#what-is-not-modelled) · [plan](#plan)

## The system

A relay is one Python process: two `ThreadingMixIn` HTTP servers (clients on a
Unix socket behind Tor, peers on mutual TLS), one SQLite connection shared by
all threads behind one `threading.Lock` (`DB_LOCK`), and three background
threads: the retention sweep, the anti-entropy loop and the fan-out pool. A
client is a command that runs and ends; what it keeps is a key pair on disk.

| component | state | operations | correct when | module |
|---|---|---|---|---|
| Request handling (`relay.py` `RelayHandler`, `gossip.py` `GossipHandler`) | what each thread carries between two lock sections | `POST /publish`, `/delete`, `/fetch`, `/gossip/publish`, `/gossip/delete`, `GET /gossip/messages`, `/gossip/deletions` | only the recipient's key can have a message deleted; a deleted message stays away; a message is flooded once; quotas hold under concurrency | `Relay` |
| Store (`relay.init_db`, the SQL in `gossip.py`) | `messages`, `deletion_requests`, the two AUTOINCREMENT counters | INSERT with quota recheck, INSERT OR IGNORE of a pending request, confirm (DELETE + INSERT OR REPLACE), drop of a pending request, sweep | ids are never reused; a confirmed row is never below a reader's cursor | `RelayDb` |
| Retention sweep (`relay._CleanupJob`) | none of its own | one pass every `--cleanup-interval` | expired messages go; tombstones outlive the messages they stand for | `Relay` |
| Gossip (`gossip.GossipContext`, `AntiEntropySync`) | pushes under way, a cursor per peer and table (in memory), the page being handled | push to every peer, pull page, apply row, move cursor | every message and deletion reaches every relay though pushes are lost | `Mesh` |
| Rate limiter (`ratelimit.py`) | a global bucket, an LRU pool of identity buckets | `check_global`, `check_identity`, `refund_global`, `allow` | a bound on what is let through in any period; one identity cannot spend the others' budget | `RateLimiter` |
| Addresses (`protocol.py`) | none | `day_bucket`, `blind_recipient_id`, the search over the days of the window | every address a key may still be using is searched | `Protocol` |
| Trust store, fan-out pool, loop (`gossip.py`) | `peers.json` (read once), `blacklist.json` (read at every use), the pool's queue | `active_peers`, `is_blacklisted`, `trusted_cadata`, `schedule_fanout` | a revoked peer is neither served nor contacted once what was under way is over; a restored one is again | `PeerTrust` |
| Connection cap (`BoundedThreadingMixIn`) | a semaphore | acquire, spawn, release | each connection gives back exactly one slot | `PeerTrust` |
| Lifecycle (`relay.main`) | lock files, sockets, the started flags | start-up, signal, `finally` | one instance per socket; a crash is in nobody's way; starts and stops end | `Lifecycle` |
| Identities (`gossip.py`, `client.py`) | key and certificate files | generate, load | what was announced is kept over crashes and restarts | `Lifecycle`, `Client` |
| Client (`client.py`) | its key files; the page of a fetch | register, send, fetch, fetch `--delete-after-read`, delete | what it reports is true; it deletes nothing unread; what it sends can be read | `Client` |

**Interactions.** Request threads, the anti-entropy thread and the sweep share
the database, and hold `DB_LOCK` for one statement group at a time: a publish
takes it four or five times (dedup, quota pre-filter, resolution read,
resolution write, INSERT), a delete once. Between two sections any other
thread may run, and what was read is carried on. Relays interact through
pushes (one per peer, no retry, no acknowledgement that matters) and pulls
(a page of rows above the cursor). The limiter is called from request threads
and from the anti-entropy thread under its own lock. Relay processes on one
host interact through lock files, socket paths and identity files; terminals
of one user through the two files of the client's identity and the mailbox.

**What is hard.** Decisions taken in one critical section and acted upon in
another; two ways for the same item to arrive, in either order (a delete may
overtake its message); cursors over a table whose rows change from invisible
to visible; retention in which every record has an end and the end of a
tombstone must not come before the end of what it stands for; addresses that
rotate daily; text comparison of time stamps; refunds that race with refills;
files that are read while somebody writes them, or after somebody died writing.

## Hazards

`PROJECT.json` lists each at its line with the properties that would catch it.
In short:

- *Interleaving and atomicity*: a delete between resolution and INSERT
  (`relay.py:474`), the stale claim and the DELETE by signature in `resolve_deletion_request`
  (`gossip.py:943`), concurrent passes of the quota pre-filter (`:803`),
  duplicates inserted by two threads (`:825`), refunds (`ratelimit.py:113`), an
  edit of the blacklist between handshake and check (`gossip.py:515`), a stale
  socket removed and bound in several steps (`relay.py:158`), two first
  launches of the client (`client.py:169`).
- *Ordering and sequence*: claims recorded for messages that are not here
  (`gossip.py:1044`, `:1054`), confirmation of a row that was invisible to the
  peers' cursors (`:957`), tombstones pulled before, after or while their message
  is handled (`:1442`), the `finally` of an instance that never got the lock
  (`relay.py:1024`).
- *Stale state*: pages that are copies (`:1300`), an expiry checked before
  several waits (`relay.py:303`), pushes queued before a revocation
  (`gossip.py:1206`).
- *Failure*: lost pushes (`:1156`), pulls that break off (`:1314`), crashes
  between commit and fan-out (`:829`), databases that start over (`:1287`), the
  blacklist that ends the loop (`:1272`), kills between and inside the two
  identity files (`gossip.py:162`, `client.py:139`), answers lost in the middle
  of a delete-after-read (`client.py:720`).
- *Limits and boundaries*: byte quota (`:814`), page against body limit
  (`:1294`), LRU cap (`ratelimit.py:90`), fractional capacities
  (`ratelimit.py:52`), retention cut-offs (`relay.py:717`, `:718`), tokens not
  given back (`relay.py:448`), connection slots (`relay.py:663`), the days a
  client searches and the identifiers a relay accepts (`client.py:644`,
  `relay.py:829`), pad buckets and the body cap (`client.py:229`,
  `relay.py:58`).
- *Deadlock*: `shutdown()` of a server whose loop never ran (`relay.py:1013`).

A message that a pull skips because the inbox is full is never asked for again
from that peer (`gossip.py:1325`, "permanent skip"). `NothingMissed` says what
holds where inboxes have room; with `QuotaMessages = 1` in `mesh_safe.cfg` it
fails accordingly.

## Modules

| module | models | extends |
|---|---|---|
| `Protocol` | addresses, the day search, the cap on a fetch's identifiers | |
| `RelayDb` | the two tables and every statement that changes them, as operators on a database value | `Protocol` |
| `Mailbox` | what a relay promises of a message, and when it promises nothing more | |
| `Relay` | one process: threads × lock sections × sweep × clock × restarts | `RelayDb`, instantiates `Mailbox` |
| `Mesh` | several relays: request threads and loops × lock sections × pushes, pages, cursors, failures | `RelayDb`, instantiates `Mailbox` |
| `RateLimiter` | the token buckets and their callers | |
| `PeerTrust` | blacklist edits × connections and their slots × pool × loop | |
| `Lifecycle` | relay processes on one file system, from first lock to last unlink | |
| `Client` | a user's terminals, the identity files, a relay that is a `Mailbox` and may take a delete without effect | instantiates `Mailbox` |
| `MCRelay`, `MCMesh`, `MCRateLimiter`, `MCPeerTrust`, `MCLifecycle`, `MCClient` | the instances the runs check | their module |
| `RelayDbProofs`, `RelayProofs`, `RelayBounds`, `MeshProofs`, `RateLimiterProofs`, `PeerTrustProofs`, `LifecycleProofs`, `ClientProofs` | theorems | their module and `TLAPS` |

**How they compose.** `Relay` and `Mesh` are two views of one relay over the
same `RelayDb`. Both take a request one lock section at a time; `Relay` adds the
clock, with expiry, validation and retention, and `Mesh` the other relays, with
pages, cursors and lost pushes. `Relay` implements `Mailbox`
(`ImplementsMailbox`; `View` maps the tables, the clock and what was overlooked to
new, live, gone and adrift), `Mesh` implements a `Mailbox` of all copies of all
messages, one for each relay, and `Client` changes its relay by the actions of
`Mailbox` alone, so that what `Client` says of a user holds with such a relay, be
it one of a mesh. `PeerTrust` says with whom a relay exchanges anything; what is
exchanged is `Mesh`'s subject. `Lifecycle` says when there is a process at all.

**`Protocol`.** Time is an integer, a day `DaySeconds` of it. `day_bucket` is a
division; the HMAC that makes a recipient's identifier is a pair of its key and
its input, that is, free of collisions. `CandidateRecipientIds` is the search
that the relay and the client share; `MaxFetchIds` is the relay's cap, which is
computed apart from it.

**`RelayDb`.** A database is a record of the two tables (sets of rows) and the
two AUTOINCREMENT counters, which survive the rows they numbered. Each operator
is what one critical section executes: `InsertMessage`, `ConfirmDeletion`
(`_apply_confirmed_deletion`), `RecordPending` (INSERT OR IGNORE),
`DropRequest`. `expires_at` is not in the row because nothing in the code ever
changes it: it is the constant `Expires` of the signature. The column
`requester_recipient_id` is left out (`gossip.py:1032`: "nothing reads this
column back").

**`Relay`.** `task[w]` is the program counter of request thread `w` and what it
carries. One action is one critical section or one read of the clock outside
it:

| action | code |
|---|---|
| `Receive`, `Dedup`, `QuotaFilter`, `Validate` | `_do_publish` up to its resolution, with `message_exists`, `check_recipient_quota`, `_validate_publish_payload`; the limiter may refuse at its two places |
| `ResolveRead`, `ResolveSearch`, `ResolveWrite` | the first section of `resolve_deletion_request`, the day search outside the lock, the second section |
| `Insert`, `Fanout` | `insert_message_and_maybe_gossip`, `schedule_fanout` |
| `ReceiveDelete`, `HandleDelete`, `Fanout` | `_do_delete`, `handle_delete_request` |
| `ApplyTombstone` | a row of `_sync_deletions_with_peer` |
| `StartSweep`, `Sweep` | `_run_once`: the clock is read, then the lock is taken |
| `Tick`, `Restart` | the clock, a kill and a new start |

A message that comes from a peer's push or from an anti-entropy page passes
through the same sections in the same order, so it is the same thread here.
`Fetched` is what `_do_fetch` returns; it changes nothing and is an operator
(`FetchExact` evaluates it in every state, with the identifiers a client sends).
`inserts`, `pushes`, `asked` and `disturbed` are ghosts, and so is the field
`asOf` of a thread: they count and remember for the properties and no guard reads
them. `asOf` is the last id given to a deletion row when the thread looked for one
of its message. A publish that drops a claim or inserts its message when a row of
the owner's with a higher id is there has overlooked it (`Overlooked`), and the
message is `disturbed` from then on. `asked` are the messages whose owner had a
delete taken: one that INSERT OR IGNORE does not record, because a stranger's
claim is there (`Blocked`), was answered and not taken. `Payload` is what arrives, which may differ
from what was signed; `Compact` names the messages whose `expires_at` is in the
basic ISO 8601 format, which `fromisoformat` accepts and `TextAfter` compares
as SQLite does.

**`Mailbox`.** A message is new, live or gone. It goes from new to live once, and
from new or live to gone by its owner's delete or by its expiry, never back. A
publish that overlooks a delete of it sets it adrift, and nothing is promised of
it any more. (That a live message stays for some time is not promised either.)

**`Mesh`.** `task[n][t]` is the program counter of thread `t` of relay `n`: of a
request thread (`Worker`), or of its anti-entropy thread (`Loop`), which handles
a pulled message by the same steps. These are the lock sections:

| action | code |
|---|---|
| `Arrive` (in `Publish`, `Deliver`, `PullMessage`) | `message_exists`, for a client's publish, a peer's push, or the next row of a page |
| `QuotaFilter` | `check_recipient_quota` |
| `Look`, `Resolve` | the two sections of `resolve_deletion_request` (the day search between them reads nothing that changes: there is no clock here) |
| `Insert` | the section of `insert_message_and_maybe_gossip` and the fan-out after it |
| `TakeDelete` (in `ClientDelete`, `Deliver`) | `handle_delete_request`, one section, and its fan-out |
| `StartPull`, `PullMessage`, `PullDeletion`, `EndPull` | the request for a page, one row of it, the cursor |
| `OutOfBudget` | the pull limiter refuses, at either of its two places |
| `Restart` | a crash: threads, pool, page and cursors are gone, and with `Volatile` the database |

Between any two of them other threads, clients, the pushes in `wire`
and the other relays go on. A push is either delivered or lost; `MaxPushes` bounds
how many get away at all. A delivered push has the effect of a client's request
at the peer. `Fits` holds pages of either table against `BodyCap`, as
`_read_bounded_response` does: a page of tombstones weighs `TombSize` for each. A
page that does not fit is asked for again in every round (`Stuck`). Nothing
expires and no tombstone is reaped, so whatever fails to converge was never going
to. `seen[n][k]` is a ghost: the signatures relay `n`'s pulls have come to a
decision about. `disturbed` and `asOf` are ghosts as in `Relay`: relay `n` has
overlooked a tombstone of `s` when it drops a claim on `s` or stores `s` while a
confirmed row of `s` is there that was written after its thread looked.

**`RateLimiter`.** A bucket holds parts of a token, `Unit` to the token, so that
a fractional refill is an integer. The limiter's lock makes each method one
step. The split path (`check_global` … work … `check_identity`, then
`refund_global`) is several steps of a `Caller`, `allow` is one. `mark` is an
observer that may start to count at any time; `recent` is the LRU order without
its cap.

**`PeerTrust`.** An edit of `blacklist.json` is two steps: an editor truncates
the file (`broken`) before it writes it. A connection goes through the slot,
the start of its thread, the handshake against the certificates of *all*
configured peers, the one check of the blacklist, and the request; each of
these may be the last. `schedule_fanout` reads the blacklist when it queues,
the pool does not read it again; the loop reads it at the top of a round.
`status[c]` is a ghost: how the caller of `c` stood at any time since `c` was
accepted. The client listener takes and gives back its slots in the same way.

**`Lifecycle`.** `pc[p]` is where invocation `p` is in `main`; an action is what
it does to one file, lock or server. `Path.write_bytes` is two steps: it opens
its file empty, then fills it. An flock belongs to the process and goes with it
(`End`), which leaves socket files behind as `Stale`. `loop[p]` distinguishes
`server_started = True` from a `serve_forever` that has entered its loop,
because `shutdown()` waits for the latter. `os.chmod` is a step of its own after each `bind`
(`ChmodSocket`, `ChmodGossip`), which fails when the `finally` of another instance
has removed the socket in between (finding 3 below). `Interrupt` is Ctrl-C or any exception
that leads to the `finally`; `Kill` is everything that skips it. The operator may
put a file of another kind at a path (`PutFile`). `OneRelayPerDir` is an
assumption about use: two relays that share `--relay-identity-dir` have a socket
path in common.

**`Client`.** `run[t]` is the command in terminal `t`, a process of its own; the
terminals share `identity.pem` and `identity.pub`, written as in `Lifecycle`. A
fetch reads one message at a time and with `--delete-after-read` deletes it
next; a request may be lost, refused, or handled with its answer lost; Ctrl-C
comes anywhere. A delete that is handled is answered `deleted` when the relay had
the message and took it for the requester's (`Deleted`), else `delete_requested`
(`Requested`): then a message that has not come yet may be gone for good, or the
request may have had no effect at all, because a stranger's claim was there first
or the address is outside the day search. Only the first answer is reported as a
deletion. `Stray` is a publish that overlooks a delete; of such a message the
relay may show anything to a fetch. A message carries its length, padding its real buckets and
sizes in bytes, so that `BodyBytes` is compared with the relay's `MaxBodyBytes`
as the two programs compute them: 1385 bytes around the ciphertext is what the
eight other fields come to for the 2048-bit RSA keys `cmd_send` uses. `raced`
is a ghost: two first launches have overlapped. `told` and `shown` are ghosts
too: what the user has been told of deletes, and has read.

## Runs

| run | instance | what it shows | states |
|---|---|---|---|
| `relay_time` | 2 threads, 2 messages of one recipient, the second from a sender whose clock is a day behind, 3 requests, the recipient's and a stranger's delete of the first, pulled tombstones of it, clock to 5 | the relay is a `Mailbox`; fetches are exact; deletes are honoured; tombstones are kept; expired rows go | 483 thousand |
| `relay_conc` | 2 threads (symmetric), 3 messages for an inbox of 2, 4 requests, clock to 4, a tampered payload, a stranger's claim, pulled tombstones | types, authorization of tombstones, both quotas, bounded flooding, confirmed rows ahead of cursors | 2.1 million |
| `mesh_safe` | 2 relays, clients at one of them, 2 messages, 4 requests, 1 push that is not lost, pages of 2, 1 fault, deletes of both messages, a stranger's claim on one | each relay is a `Mailbox`, cursors are sound, who has caught up with a peer has missed nothing, nothing deleted comes back, tombstones stay authorized although they are taken over unchecked, but for what a relay overlooks while it handles the message | 2.6 million |
| `mesh_converge` | 2 relays, clients at one, 2 messages, 3 requests, 1 push that is not lost, 1 fault, pages of 2 rows where the reader takes 1 | messages and deletions converge while no page is stuck | 147 thousand |
| `limiter` | 2 callers, 3 identities for a pool of 2, 5 requests, clock to 4, half a token per tick | budgets, refunds, evictions, sustained rate | 92 thousand |
| `lifecycle` | 2 invocations with a gossip path and an identity directory in common, 3 key pairs, started, interrupted and killed any number of times | one listener to a path; a path stays free until `bind`; identities survive; nothing a crash leaves keeps a relay from starting, but for a torn certificate; starts and stops end | 60 thousand |
| `peer_trust` | 2 peers and a stranger, 2 connections for 1 slot, 1 pool thread, 3 places in the queue, the blacklist edited for ever | slots are conserved; revocation and restoration work at the door; what was under way runs out; restored peers are pulled from | 695 thousand |
| `client` | 2 terminals (symmetric), 2 key pairs, 2 messages at the edges of the largest bucket, the second for another key | addresses are kept, reports are true, nothing unread is deleted, what is sent fits and can be read | 1.1 million |
| `relay_race_insert`, `relay_downgrade`, `lifecycle_unlink`, `trust_loop` | | the [findings](#findings) | |

**Bounds.** `MaxTime`, `MaxRequests`, `MaxPushes`, `MaxFaults` and `MaxQueue` cap
counters and appear in guards only; when one is reached the rest of the system
goes on. In the relay runs a day is 2 ticks and the retention window 4, so a
clock that runs to 5 lets messages expire, lets both kinds of deletion rows be
reaped, and crosses two day boundaries; with 3 requests a message can be
published, deleted and published again, be published twice while it is deleted,
or be claimed by a stranger before any of that; a pulled tombstone counts as one
of the three. In `relay_conc` the clock
stops at 4, the retention window, and three of its four requests fill the inbox
and race for the last place. A publish has at most nine steps and two of them race
in every run that has two threads.

A fault in `mesh_*` is a restart, a failed request or a limiter that ran dry; one
is enough to break off any pull at any row, and convergence after the last fault
starts from whatever state it left. Four requests are what `DeletionCursorSound`
needs to be in danger: a pending claim, another message with its deletion above
it, and the message claimed. One push that gets away is enough for it to be
overtaken by a page, by a client's request or by its own deletion, which then
travels by pull. Each relay has one request thread beside its loop, so a push is
handled while a tombstone of its message is pulled, which is how one is
overlooked. In `mesh_converge` two messages make a page that is too long for its
reader (`BodyCap = 1`); when the peer has one of them deleted the page fits again,
so that a stuck loop may come free. The same run
with `Peers <- Line`, three relays in a line, `MaxRequests = 2` and
`MaxPushes = 0` holds as well: what comes in at one end reaches the other through
the middle by pulling alone.

`Identity` in `lifecycle` and `Key` in `client` are bounds as well: how many key
pairs can ever be generated. Three are one for the relay that has been served
with, one that a killed start leaves in the key file, and one to generate. When
they are used up, a start that would generate another does not get further
(which `Settles` would notice: an identity comes free again once no file and
nobody holds it, so this does not happen in the run). In `client` the second key
pair is what an overlapping first launch makes. The `client` lengths are those at
which the bucket changes and at which no bucket is left: 16381 is one byte too
long for the second bucket with its prefix, 65532 the longest text that is sent.

**What the races leave.** Two critical sections of a publish act on an earlier
look for deletion rows: the DELETE of a claim that was found to be a stranger's,
and the INSERT. A row of the owner's that is written in between is overlooked by
either, the first two of the [findings](#findings). No run excludes this. The
properties of `relay_time` and `mesh_safe` say what holds of every other message,
and of this one until then (`disturbed`, `Overlooks`, adrift), and the two
violation runs check the same claims without the exception. In the same way
`Converges` presupposes that no page is stuck for good, says nothing of a message
whose tombstone a relay overlooked, and is checked where databases persist.

**Deadlock** is checked in every run: the sweep, the anti-entropy loops, the
editor of the blacklist and the operator never stop, a terminal can always be
given a command, and in `limiter` the observer may always mark.

## Findings

Each is a violation run; `PROJECT.json` quotes the lines that say otherwise.

1. `relay_race_insert` (`relay.py:474`): a delete that is handled between a
   publish's resolution and its INSERT is recorded as pending beside the
   message that is then stored; nothing resolves it any more.
2. `relay_downgrade` (`gossip.py:960`): `resolve_deletion_request` deletes the row
   of the signature on the strength of a claim it read before it released the
   lock. A tombstone that was pulled in between is lost, and the message stored.
   The cursor is past it, so it does not come again from that peer.
3. `lifecycle_unlink` (`relay.py:1024`): a second instance is refused by the lock
   through `sys.exit` inside the `try`, and its `finally` unlinks both paths. The
   first goes on serving sockets nobody can connect to, or, if it was between
   `bind` and `chmod`, fails to start. (`LiveSocketKept` says that nothing else
   does that.)
4. `trust_loop` (`gossip.py:1272`): `active_peers` is called outside any `try` at
   the top of the loop, so that a blacklist read while it is being written ends
   anti-entropy for good.

That findings 1 and 2 need two threads, or a thread and the loop, is
`OneRequestAtATime`: with one request thread and no peers neither can happen.

### Smaller disagreements

These were met on the way and are not runs of their own. Those with a setting
can be reproduced with one change to the named configuration, which should then
check the one property alone.

- *A stranger's claim* (`gossip.py:1054`): INSERT OR IGNORE lets the first pending
  claim win. When it is a stranger's, the owner's own request is answered and
  forgotten, and the message is stored when it arrives. `relay_time.cfg` has this
  case; `OwnerDeleteHonoured` fails in it with `Blocked(t) == FALSE`, that is, if
  the answer is taken for a promise.
- *Compact expiry* (`relay.py:287`): an `expires_at` in the basic ISO 8601 format
  passes validation, sorts above every `now` of its calendar year, and is served
  and kept after it has passed. `relay_time.cfg` with `Compact = {s1}`:
  `FetchExact`, `ExpiredSwept`.
- *Page against body cap* (`gossip.py:1294`, `:1422`): a page of either table is
  cut at 500 rows, its reader refuses more than `max_body_bytes`; a backlog larger
  than that is requested and refused for ever. `mesh_converge.cfg` with the property
  `MessagesConverge`, which has no premise; and with `TombSize = 2`,
  `DeletionsConverge`.
- *A peer that starts over* (`gossip.py:1287`): with `--db :memory:` a restarted
  peer numbers its rows from 1, below the cursors of the others. `mesh_converge.cfg`
  with `Volatile = {n1}`: `Converges`.
- *A full inbox* (`gossip.py:1325`): what a pull skips for want of room is behind
  the cursor for good. `mesh_safe.cfg` with `QuotaMessages = 1`: `NothingMissed`.
- *Byte quota* (`gossip.py:814`): the payload about to be added is not counted, so
  the quota is overshot by up to one message, where `README.md:258` says a publish
  that would exceed it is rejected. `QuotaBytesOvershoot` states what is
  guaranteed.
- *Pending requests reaped early* (`relay.py:718`): one is reaped `MaxTtl` after it
  was made, on the ground that `requested_at` "is always >= that publish time"
  (`relay.py:684`). A message that reaches the relay after the request may expire
  later than that.
- *Fractional rates* (`ratelimit.py:52`): an option below 1 per minute makes a bucket
  that never holds a whole token; everything is refused. `limiter.cfg` with
  `GlobalCap = 1`: `SustainedRate`.
- *Two first launches* (`client.py:169`): each finds no identity, each generates one
  and prints an address; the files are the last writer's. This is why
  `AnnouncedKept` and `ReportsTrue` except `raced`.
- *Senders whose clock is ahead* (`client.py:644`): the buffer day reaches back only.
  A message addressed with tomorrow's day is not found until tomorrow, and its
  recipient's delete is answered `delete_requested` and has no effect on it.
- *The cap on identifiers* (`relay.py:829`): `MaxFetchIds` keeps step with the
  client's look-back, but a request body has its own cap, which some 1957 days of
  identifiers reach; `--max-ttl` has no upper limit.
- *Overhead of a payload* (`protocol.py:18`): "measured at roughly 1.3 KB", 1320 in
  the constant, 1385 in fact. The factor of one and a half in `relay.py:58` hides it
  (`MutMaxBodyBytes` shows what would happen without).
- *A comment on the blacklist* (`gossip.py:511`): "the cadata bundle already excludes
  blacklisted fingerprints". `trusted_cadata` includes all configured peers, and has
  to, for restoration to work (`RefusedForCause`, `MutTrusted`).
- *Ctrl-C between `server_started = True` and the loop* (`relay.py:1013`):
  `shutdown()` waits for a loop that never starts, the deadlock that the comment
  above it sets out to avoid. `Settles` excepts it as `Hung`.
- *A certificate half written* (`gossip.py:162`): a kill inside the second
  `write_bytes` leaves two files that exist and cannot be loaded, so that every
  later start fails until somebody removes one. `StartsUnlessBlocked` excepts it.
- *A second Ctrl-C in the `finally`* of `main` leaves the rest of it undone; it is a
  `Kill` in `Lifecycle`.

## Fairness

- `Relay`: weak fairness of `StartSweep` and of `Tick`, strong fairness of `Sweep`.
  `_CleanupJob._loop` is a thread that runs a pass every interval, catches whatever
  a pass raises and ends only with the process; the clock advances. A pass is two
  steps and a restart ends it between them; the strong fairness says that the relay
  is not killed in the middle of every pass it begins. Nothing is assumed of request
  threads (they may hang or die) nor of `Restart`.
- `Mesh`: weak fairness of each relay's `AntiEntropy`, one thread that visits
  peer after peer, catching what a visit raises (`_loop`, `gossip.py:1270`), and
  makes progress row by row. Nothing is assumed of pushes or clients. Convergence
  presupposes that the loop's thread lives (finding 4). Faults are bounded
  (`MaxFaults`): a peer that is down for ever is not expected to converge.
- `PeerTrust`: weak fairness of `AntiEntropy` and of each pool thread. Both run on
  threads of their own and everything they wait for has a timeout. Nothing is
  assumed of connections, whose callers may keep them open, nor of the editor.
- `Lifecycle`: weak fairness of each process's `Main`: a process that is not killed
  goes on. Nobody has to start one, to stop it or to tidy up after it.
- `RateLimiter`, `Client`, `Mailbox`: none; their properties are safety.

## Proofs

All proofs are of `Spec => []Inv` or `Spec => ActionProperty`, for every value of
the constants that satisfies the modules' assumptions: any number of threads,
messages, keys, identities, relays, peers, processes, any quota, any bound.

| theorem | module | property | argument |
|---|---|---|---|
| `TypeCorrect` | `RelayProofs` | `TypeOK` | inductive as it stands: one lemma per database operator (`RelayDbProofs`) says that it maps databases to databases, one per way in which a thread moves says that it stays in `Task` |
| `DeletesAuthorized` | `RelayProofs` | `AuthorizedTombstones` | `AuthInv` |
| `FetchesCover` | `RelayProofs` | (`FetchCovers`) | `AuthInv`, `SentBefore` and the arithmetic of the day search, where `HonestSenders`: a fetch has every live message of its key and none of another's, however expiries are written |
| `FetchesExact` | `RelayProofs` | `FetchExact` | from `FetchesCover`, where `Compact = {}` besides |
| `DeletesHonoured`, `TombstonesKept` | `RelayProofs` | `OwnerDeleteHonoured`, `TombstoneKept` | `CalmInv`, where `HonestSenders` |
| `MailboxImplemented` | `RelayProofs` | `ImplementsMailbox` | the same: initial states map, a step vanishes some messages, lets one arrive or stutters |
| `OneRequestAtATime` | `RelayProofs` | (`PurgedOnArrival`, `NeverDowngraded`) | `AloneInv`: with `HonestSenders`, one thread and no pulled tombstones what a thread has looked up is all there is (`UpToDate`), so that nothing is ever `disturbed` |
| `QuotaHolds` | `RelayBounds` | `QuotaCountBound` | `QuotaInv` |
| `QuotaBytesHold` | `RelayBounds` | `QuotaBytesOvershoot` | `BytesInv` |
| `FloodHolds` | `RelayBounds` | `FloodBounded` | `FloodInv` |
| `CursorsNeverPass` | `RelayBounds` | `ConfirmedAheadOfCursors` | every operator that confirms a row numbers it `lastDeletion + 1` |
| `TombstonesAuthorized` | `MeshProofs` | `AuthorizedTombstones` | `TombInv` |
| `NothingResurrected` | `MeshProofs` | `NoResurrection` | `SafeInv`, with `AsOfInv` |
| `MailboxesImplemented` | `MeshProofs` | `ImplementsMailbox` | every step has an `Outcome`: nothing, a deletion at one relay, the arrival there of a message that was neither stored nor deleted, or one copy astray |
| `NothingIsMissed` | `MeshProofs` | `NothingMissed` | `CursorInv` and `SettledInv`, where `Volatile = {}` and `Roomy` |
| `AllAgreeAtRest` | `MeshProofs` | (`AgreeAtRest`) | `NothingIsMissed` and `NothingResurrected`, where `Volatile = {}`, `Roomy` and `Connected` |
| `MessageCursorsSound`, `DeletionCursorsSound` | `MeshProofs` | `MessageCursorSound`, `DeletionCursorSound` | `CursorInv`, where `Volatile = {}` |
| `BackstopHolds`, `DrainBounded` | `RateLimiterProofs` | `GlobalBackstop`, `NoDrain` | `GlobalInv` |
| `RateSustained` | `RateLimiterProofs` | `SustainedRate` | `GlobalInv`, where `GlobalCap >= Unit` |
| `IdentityBudgeted`, `PoolKeepsRecent` | `RateLimiterProofs` | `IdentityBudget`, `PoolIsRecent` | `BudgetInv`, `RecentInv` |
| `OneListener`, `NothingInTheWay`, `SocketsKept` | `LifecycleProofs` | `NoTwoListeners`, `BindFindsNoSocket`, `LiveSocketKept` | `SocketInv` |
| `PairsMatch`, `OneIdentity` | `LifecycleProofs` | `PairMatches`, `IdentityStable` | `IdentityInv` |
| `StartsUnblocked` | `LifecycleProofs` | `StartsUnlessBlocked` | `SocketInv`, `IdentityInv`, `StartInv` |
| `SlotsHold` | `PeerTrustProofs` | `SlotsConserved` | `SlotInv` |
| `RevocationBars`, `RestorationWorks` | `PeerTrustProofs` | `RevokedAtTheDoor`, `RefusedForCause` | `DoorInv` |
| `AddressesLast` | `ClientProofs` | `AnnouncedKept` | `IdentityInv` |
| `ReportsHold` | `ClientProofs` | `ReportsTrue` | inductive as it stands |
| `OnlyTheReadIsDeleted` | `ClientProofs` | `FetchDeletesTheRead` | `ShownTarget` |
| `PaddingHolds` | `ClientProofs` | `PaddingSound` | `PaddedFits`, `BodyFits`: arithmetic on the buckets |

`LifecycleProofs`, `MeshProofs`, `PeerTrustProofs` and `ClientProofs` also prove
their modules' `TypeOK` (`TypeCorrect`), `RateLimiterProofs` its (`LimiterTypes`);
no run lists these.

**`AuthInv`.** That every confirmed row names the owner is not inductive: a row
is confirmed on the strength of a stored message's address or of an address a
thread carries. The invariant adds that every stored address is the one its
sender signed (`StoredGenuine`), that every thread past the validation carries
such an address (`VerifiedGenuine`), and that a thread that found a claim
matching carries the owner's key (`MatchedByOwner`). This is the argument of the
comment in `resolve_deletion_request` on why it must run after the signature
check; `Validate` without it (`MutValidate`) breaks it. The day search enters
through one fact, `CandidateOfKey`: an address found in the search for a key is
an address of that key, on whatever day.

**The day search.** `HonestSenders` asks that a sender's clock be right or a day
behind, and its message's lifetime within the window. What is stored, or about
to be, was sent before now (`SentBefore`), so a live message was created less
than `MaxTtl` ago, which is at most `LookbackDays - 1` days (`WindowDays`); its
address may be of the day before that, and the buffer day of `LookbackDays` is
just enough (`LiveFound`). Subtracting whole days from an instant subtracts as
many from its day (`DaysBack`), so the search meets that address. `FetchIdsFew`
says that the search never makes more identifiers than the relay accepts.

**`CalmInv`.** No step is excluded: what a race can do is to set a message
`disturbed`, and the invariant is about the others. `DbCalm` says that a signature
has one deletion row at most, that a confirmed one is no older than its message,
that a live message whose owner's delete was taken is not stored and has the
owner's row, and that a live message once inserted is stored or has its tombstone;
and of every thread (`Calm`) that any row of its message that is there now, and
that it did not find, was numbered after it looked (`Looked`). Ids only go up
(`Grows`), so that stays so whatever the others do, and it is what
makes the ghost `asOf` tell the rows a thread has overlooked from those it has
not. A row is reaped `MaxTtl` after a delete that came after the message was
created, when the message has expired; the sweep goes by the instant it has read,
which is not later than now. Each step is then sorted: it only takes messages away
and keeps their tombstones (`FadingVanishes`: `Vanish`, or nothing), it inserts one
that was never there (`Arrive`) or has expired, or it overlooks a row (`Stray`).

**`BytesInv`** bounds the weight of what would be left of an inbox without one of
its rows. A sum over a set is a fold, and an induction over the set is out of the
prover's reach; `BytesCount` shows instead that the sum is the number of pairs of
a row and a place in its payload (`Places`), so that what is known of cardinalities
applies. It takes a smallest set for which the equation fails (`SmallestSet`) and
refutes it.

**`QuotaInv`** bounds every address's inbox, not only those with messages, and
asks that the table be finite so that cardinalities can be counted. Every write
but the INSERT shrinks or keeps the inbox; the INSERT is made under the test
that leaves room for one.

**`FloodInv`** adds to the fan-outs that have happened those that threads are
about to schedule (`Due`), and for deletions also the row that is still there to
be deleted (`Held`): publishing moves one unit from INSERT to `Due`, confirming
moves it from `Held` to `Due`, fanning out from `Due` to `pushes`, and a restart
loses it.

**`TombInv`** (Mesh) says of every relay's database that a signature has one row
among the deletion requests and that confirmed rows are the owners'; and of a page
of tombstones under way that its rows are the owners'. The page is why the theorem
needs more than one relay's database: a relay takes over the rows of a page
unchecked.

**`AsOfInv`** (Mesh): a tombstone of its message that is there while a thread is
about to resolve or to store was written after the thread looked. A thread that
stores beside a tombstone has therefore overlooked it, by the definition of the
ghost; that is all `NoResurrection` asks. The steps of all threads, clients, pushes
and loops come down to five things that can happen to one relay's database
(`Changes`: a row is confirmed, recorded or dropped, a message is put, a volatile
relay restarts), and these to an `Outcome` for the messages as seen from outside.

**`CursorInv`** (Mesh). A table is `Numbered`: finite, its ids distinct and at most
the counter's. A relay has `Decided` up to an id when it has seen every row of the
peer's table at or below it. The invariant says that this holds of every cursor,
of what a pull has got to so far, and, for the page in hand, that any row the
peer now has at or below a row of the page is in the page or was seen
(`PageOrdered`). A peer's step adds rows above its counter only (`Grows`), which is
what `ConfirmDeletion`'s DELETE and INSERT instead of an UPDATE is for: with the
row confirmed in place (`MutConfirmInPlace`) a tombstone appears below the
counter. A restarted relay's counter does not go back, unless it was in memory;
hence `Volatile = {}`.

**`SettledInv`** (Mesh): what a relay has decided about is there to be seen, a
tombstone as one and a message as stored or deleted, and no message has two rows.
Overlooked messages (`Overlooks`) are excepted, and stay so. It needs `Roomy`,
inboxes that hold everything there is to send: rows of different messages are then
too few and too light to fill one (`RoomLeft`). With `CursorInv`
it makes `NothingMissed` a matter of substitution. `AllAgreeAtRest` goes from
neighbours to the whole mesh without an induction on paths: the relays that agree
with a given one are a set that no trust leads out of, which in a `Connected` mesh
is everyone.

**`GlobalInv`.** The bucket is refilled lazily, so what it holds at an instant is
not a variable: `Level` is the bucket as it would be if refilled now. The
invariant says that what could still be taken, with what was taken since the
mark, is within capacity plus refill (`WindowInv`), that every caller that may
still get a refund has been counted (`InFlightSpent`, which keeps a refund from
making a token out of nothing), and `NoDrain`. A refill in two steps is a refill
in one (`RefillAgain`), which is why it does not matter who refills.

**`BudgetInv`** says the same of one identity, with one capacity more for each time its
bucket was evicted: an identity without a bucket counts as one with a full bucket
(`BucketOf`), which is what it would get. **`RecentInv`**: the pool's order is the end
of the order it would have without a cap, and no identity is in that twice; taking
one out and appending it, and dropping the head when there is one too many, keep it
so. `Others` takes out one place of a sequence, so that what it does to the other
places can be said without a recursive filter (`OthersIs`).

**`SocketInv`** (Lifecycle): a lock has one holder, who has come past a lock holds it
until it ends, who is bound to a path holds its lock, and a socket file whose
process lives is one that process listens at. **`IdentityInv`** (Lifecycle): a
certificate is that of the key beside it, and what has been served with is that
certificate, except while one process is at work on the two files; by
`OneRelayPerDir` and the locks there is only one (`OneWriter`). **`IdentityInv`**
(Client) has no lock to rely on and says the same only while `~raced`.
**`StartInv`** (Lifecycle): whoever holds a lock runs and was told its path, so that a
lock refused is another relay's, and there is a certificate when it is loaded.

**`SlotInv`** counts: the open connections and the free slots add up, and the
finite set of connections changes by one element with each change of the
counter. **`DoorInv`**: an open connection has witnessed how its caller stands now
(`NowWitnessed`), and one that was refused has witnessed a cause (`Caused`).

**`ReportsTrue`** (Client) is inductive: `Mailbox` has no step from gone but to
adrift, and a terminal reports a deletion in the step in which the relay makes it
or finds it made.

Assumptions: only the named `ASSUME`s of the modules, and those stated in the
table. The modules' say that constants have their types, that `Worker`, `Caller`,
`Conn`, `Node`, `Peer` and `Term` are finite, that a day is not empty, that the two
paths of a relay differ (`main` refuses otherwise), `OneRelayPerDir`, and that pad
buckets rise. TLC evaluates them in every run.

## What is only model-checked

- Liveness: `ExpiredSwept`, `Converges`, `Settles`, `RevocationSettles`,
  `RestoredIsPulled`. Fairness and ENABLED are out of the prover's reach. Of
  convergence the safety half is proved: no cursor goes past what was not decided
  (`MessageCursorsSound`), and when all cursors are at their ends all relays hold
  the same (`AllAgreeAtRest`); that the cursors get there is what
  `mesh_converge` checks.
- That the four violations are ones: `relay_race_insert`, `relay_downgrade`,
  `lifecycle_unlink` and `trust_loop` are counterexamples, which TLC finds.

Every invariant and every action property of the passing runs is a theorem.

## What is not modelled

- Parsing, JSON, HTTP status codes and timeouts, and the wording of responses.
- Cryptography: a signature is genuine or not (`Genuine`), an address is what
  `blind_recipient_id` is computed from, a payload decrypts under one key
  (`Decrypts`). A passphrase on a key only adds a way for a start to fail.
- `secure_delete`, `auto_vacuum` and the journal: they are about what remains on
  the disk, not about what the database holds.
- TLS, Tor and SOCKS: a request to a peer succeeds or fails (`StartPull`, lost
  pushes, `Handshake`); certificates are the peers they are of.
- In `Mesh`: the clock, hence expiry and reaping (a relay that takes a message
  again after its tombstone was reaped is `Relay`'s subject), and the validation of
  payloads, which keeps what is stored what its sender signed (`Relay`'s
  `AuthorizedTombstones` has the tampered ones).
- In `Client`: the output of the commands, and `send` as a process of its own (it
  keeps no state; what matters of it is `Padded` and the sizes). Clock skew between
  client and relay is not in `Client`; `FetchExact` covers senders up to a day
  behind.
- The simulations and tests (`simulate_partition.py`, `stress_test_quota.py`,
  `stress_test_quota_multiday.py`, `smoke_test.py`): read as documentation of
  intent.

## Plan

Done, in this order: `Protocol`, `RelayDb`, `Relay` (the core), `RelayProofs`,
`RelayBounds`, `Mesh`, `RateLimiter`, `RateLimiterProofs`, `Mailbox` and its
refinement, `Lifecycle`, `PeerTrust`, `Client`, and a proof module for each.

Then the proofs that were left: the limiter's LRU pool, the byte quota, the relay's
promises for any number of threads, and the mesh as a mailbox and at rest. Last,
`Mesh` was split into the lock sections that `Relay` has, pages of tombstones were
held against the body cap, and the claims of both modules were restated, and
proved again, with the races in the model instead of beside it.

Left are questions that need more of the model before they need a proof: a clock
in `Mesh`, so that expiry and reaping meet the cursors, and a convergence argument
as a measure that anti-entropy decreases, which would leave only fairness itself
to TLC.
