------------------------------ MODULE PeerTrust ------------------------------
(***************************************************************************)
(* Whom a relay talks to while its operator edits blacklist.json: the      *)
(* connections peers make to the gossip listener (GossipUnixTLSServer, at  *)
(* most so many at once), the pushes in the fan-out pool (GossipContext)   *)
(* and the anti-entropy loop (AntiEntropySync). peers.json is read once at *)
(* startup, blacklist.json at every use: each of the three reads it at one *)
(* moment and acts on what it read at a later one.                         *)
(*                                                                         *)
(* The client listener (RelayUnixHTTPServer) takes and gives back its      *)
(* slots in the same way and has neither handshake nor blacklist.          *)
(***************************************************************************)
EXTENDS Integers, FiniteSets, Sequences

CONSTANTS
    Peer,      \* the peers of peers.json
    Stranger,  \* anyone else who reaches the listener
    Caller,    \* who makes connections to it
    Conn,      \* connections that may exist at once
    Slots,     \* max_concurrent_connections
    Worker,    \* the threads of the fan-out pool
    MaxQueue   \* bound: pushes waiting for a thread

ASSUME PeerTrustAssumption ==
    /\ Stranger \notin Peer
    /\ IsFiniteSet(Peer)
    /\ Caller \subseteq Peer \cup {Stranger}
    /\ IsFiniteSet(Conn)
    /\ Slots \in Nat
    /\ MaxQueue \in Nat

VARIABLES
    listed,   \* the fingerprints in blacklist.json
    broken,   \* blacklist.json does not parse: it is being written
    pinned,   \* the peers whose certificates the listener's SSL context trusts
    conn,     \* conn[c]: what the thread of connection c is doing, for whom
    free,     \* the counter of the connection semaphore
    queue,    \* pushes in the pool that wait for a thread
    pushing,  \* pushing[w]: the peers worker w is pushing to: one, or none
    loop,     \* the anti-entropy loop: its thread, and what is left of a round
    status    \* status[c]: how c's caller stood since c was accepted (ghost)

vars == <<listed, broken, pinned, conn, free, queue, pushing, loop, status>>

file == <<listed, broken, pinned>>
inbound == <<conn, free, status>>
outbound == <<queue, pushing, loop>>

Closed == [pc |-> "closed", who |-> Stranger]

\* Connections that hold a slot: a thread is about to be started for them, or
\* runs.
Holding == {"spawn", "handshake", "check", "handle", "refused"}

\* Mutant: the trust bundle leaves out the peers that are revoked.
MutTrusted(l) == Peer \ l

\* trusted_cadata, when the blacklist is l: the certificates of all configured
\* peers, whatever it says
Trusted(l) == Peer

\* peers.json has been read and the SSL context is built.
Init ==
    /\ listed \in SUBSET Peer
    /\ broken = FALSE
    /\ pinned = Trusted(listed)
    /\ conn = [c \in Conn |-> Closed]
    /\ free = Slots
    /\ queue = <<>>
    /\ pushing = [w \in Worker |-> {}]
    /\ loop = [pc |-> "wait", todo |-> {}]
    /\ status = [c \in Conn |-> {}]

-----------------------------------------------------------------------------
\* The operator and the file.

\* TrustStore.active_peers, when the file parses
ActivePeers == Peer \ listed

\* How q stands, with a file that holds l and may not parse.
Standing(q, l, b) ==
    IF b THEN "unreadable" ELSE IF q \in l THEN "revoked" ELSE "trusted"

\* Every connection that is open lives through the edit.
Witnessed ==
    status' = [c \in Conn |->
                 IF conn[c] = Closed THEN status[c]
                 ELSE status[c] \cup {Standing(conn[c].who, listed', broken')}]

\* An editor truncates the file before it writes it.
BeginEdit ==
    /\ ~broken
    /\ broken' = TRUE
    /\ Witnessed
    /\ UNCHANGED <<listed, pinned, conn, free, outbound>>

EndEdit ==
    /\ broken
    /\ broken' = FALSE
    /\ listed' \in SUBSET Peer
    /\ Witnessed
    /\ UNCHANGED <<pinned, conn, free, outbound>>

-----------------------------------------------------------------------------
\* Connections.

Become(c, pc) == conn' = [conn EXCEPT ![c].pc = pc]

\* process_request: a slot, or the connection is closed at once.
Accept(c, q) ==
    /\ conn[c] = Closed
    /\ free > 0
    /\ free' = free - 1
    /\ conn' = [conn EXCEPT ![c] = [pc |-> "spawn", who |-> q]]
    /\ status' = [status EXCEPT ![c] = {Standing(q, listed, broken)}]
    /\ UNCHANGED <<file, outbound>>

\* Mutant: a thread that cannot be started keeps its slot.
MutSpawn(c) ==
    /\ conn[c].pc = "spawn"
    /\ \/ Become(c, "handshake") /\ UNCHANGED <<free, status>>
       \/ /\ conn' = [conn EXCEPT ![c] = Closed]
          /\ UNCHANGED <<free, status>>
    /\ UNCHANGED <<file, outbound>>

\* ThreadingMixIn.process_request: Thread.start, which may raise.
Spawn(c) ==
    /\ conn[c].pc = "spawn"
    /\ \/ Become(c, "handshake") /\ UNCHANGED <<free, status>>
       \/ /\ conn' = [conn EXCEPT ![c] = Closed]
          /\ free' = free + 1
          /\ UNCHANGED status
    /\ UNCHANGED <<file, outbound>>

\* wrap_socket: a certificate that is not pinned, or a caller that goes away,
\* ends it.
Handshake(c) ==
    /\ conn[c].pc = "handshake"
    /\ IF conn[c].who \in pinned THEN Become(c, "check") ELSE Become(c, "refused")
    /\ UNCHANGED <<free, status, file, outbound>>

\* Mutant: a file that cannot be read blacklists nobody.
MutAdmitted(q) == broken \/ q \notin listed

\* is_blacklisted, which raises when the file does not parse
Admitted(q) == ~broken /\ q \notin listed

\* finish_request after the handshake: the one check of the blacklist.
Check(c) ==
    /\ conn[c].pc = "check"
    /\ IF Admitted(conn[c].who) THEN Become(c, "handle") ELSE Become(c, "refused")
    /\ UNCHANGED <<free, status, file, outbound>>

\* process_request_thread ends: the request is handled, the connection was
\* refused, or its caller is gone.
Release(c) ==
    /\ conn[c].pc \in {"handshake", "handle", "refused"}
    /\ conn' = [conn EXCEPT ![c] = Closed]
    /\ free' = free + 1
    /\ UNCHANGED <<status, file, outbound>>

Connection(c) ==
    \/ \E q \in Caller : Accept(c, q)
    \/ Spawn(c) \/ Handshake(c) \/ Check(c) \/ Release(c)

-----------------------------------------------------------------------------
\* Pushes and pulls.

\* All orders of a set of peers: the order of peers.json is any.
Orders(S) == {s \in [1 .. Cardinality(S) -> S] : \A i, j \in DOMAIN s : s[i] = s[j] => i = j}

\* schedule_fanout: one push for every active peer joins the queue. When the
\* blacklist cannot be read there is none; the caller goes on.
Fanout ==
    /\ ~broken
    /\ Len(queue) + Cardinality(ActivePeers) <= MaxQueue
    /\ \E s \in Orders(ActivePeers) : queue' = queue \o s
    /\ UNCHANGED <<pushing, loop, file, inbound>>

\* A pool thread takes the next push ...
TakePush(w) ==
    /\ pushing[w] = {}
    /\ queue # <<>>
    /\ pushing' = [pushing EXCEPT ![w] = {Head(queue)}]
    /\ queue' = Tail(queue)
    /\ UNCHANGED <<loop, file, inbound>>

\* Mutant: a push that fails is put back.
MutEndPush(w) ==
    /\ pushing[w] # {}
    /\ queue' = queue \o [i \in 1 .. 1 |-> CHOOSE q \in pushing[w] : TRUE]
    /\ pushing' = [pushing EXCEPT ![w] = {}]
    /\ UNCHANGED <<loop, file, inbound>>

\* ... and is done with it, delivered or not: there is no retry.
EndPush(w) ==
    /\ pushing[w] # {}
    /\ pushing' = [pushing EXCEPT ![w] = {}]
    /\ UNCHANGED <<queue, loop, file, inbound>>

\* The top of the loop reads the blacklist outside any try: a file that does
\* not parse at that moment is the end of the thread.
BeginRound ==
    /\ loop.pc = "wait"
    /\ loop' = IF broken THEN [pc |-> "dead", todo |-> {}]
                         ELSE [pc |-> "round", todo |-> ActivePeers]
    /\ UNCHANGED <<queue, pushing, file, inbound>>

\* Mutant: a peer that cannot be reached ends the round.
MutSync(q) ==
    /\ loop.pc = "round"
    /\ q \in loop.todo
    /\ \E rest \in {loop.todo \ {q}, {}} : loop' = [loop EXCEPT !.todo = rest]
    /\ UNCHANGED <<queue, pushing, file, inbound>>

\* _sync_with_peer and _sync_deletions_with_peer; what they raise is caught.
Sync(q) ==
    /\ loop.pc = "round"
    /\ q \in loop.todo
    /\ loop' = [loop EXCEPT !.todo = @ \ {q}]
    /\ UNCHANGED <<queue, pushing, file, inbound>>

EndRound ==
    /\ loop.pc = "round"
    /\ loop.todo = {}
    /\ loop' = [loop EXCEPT !.pc = "wait"]
    /\ UNCHANGED <<queue, pushing, file, inbound>>

AntiEntropy == BeginRound \/ EndRound \/ \E q \in Peer : Sync(q)

Pool(w) == TakePush(w) \/ EndPush(w)

-----------------------------------------------------------------------------
Next ==
    \/ BeginEdit \/ EndEdit
    \/ \E c \in Conn : Connection(c)
    \/ Fanout
    \/ \E w \in Worker : Pool(w)
    \/ AntiEntropy

\* The loop and the pool run on threads of their own and what they wait for
\* has a timeout. A connection waits for its caller without one.
Fairness == WF_vars(AntiEntropy) /\ \A w \in Worker : WF_vars(Pool(w))

Spec == Init /\ [][Next]_vars /\ Fairness

-----------------------------------------------------------------------------
\* Properties.

TypeOK ==
    /\ listed \subseteq Peer
    /\ broken \in BOOLEAN
    /\ pinned \subseteq Peer
    /\ conn \in [Conn -> [pc : Holding \cup {"closed"}, who : Peer \cup {Stranger}]]
    /\ free \in 0 .. Slots
    /\ queue \in Seq(Peer)
    /\ pushing \in [Worker -> SUBSET Peer]
    /\ loop \in [pc : {"wait", "round", "dead"}, todo : SUBSET Peer]
    /\ status \in [Conn -> SUBSET {"trusted", "revoked", "unreadable"}]

\* Every slot is free or held by one open connection, whichever way the
\* connections before it ended: a thread that did not start, a handshake that
\* failed, a refused peer, a blacklist that does not parse
\* (process_request: a failure must not "permanently shrink the effective
\* cap by one").
SlotsConserved == free + Cardinality({c \in Conn : conn[c] # Closed}) = Slots

\* No peer's request is handled when the peer was revoked, or the file could
\* not be read, during the whole life of its connection: a revocation bars
\* every connection made after it (finish_request, README: "takes effect
\* without restarting the relay").
RevokedAtTheDoor ==
    \A c \in Conn : conn[c].pc = "handle" => "trusted" \in status[c]

\* And the other way: a configured peer that was in good standing all along
\* is not turned away, however often it had been revoked and restored before
\* (trusted_cadata: "revocation AND restoration both take effect").
RefusedForCause ==
    \A c \in Conn :
        conn[c].pc = "refused" /\ conn[c].who \in Peer => status[c] # {"trusted"}

\* The relay is in no exchange of its own with q, and none is waiting.
Quiet(q) ==
    /\ \A i \in DOMAIN queue : queue[i] # q
    /\ \A w \in Worker : q \notin pushing[w]
    /\ q \notin loop.todo

\* Pushes queued before a revocation, and a round begun before it, may still
\* reach the revoked peer; they are all there is, and they run out.
RevocationSettles ==
    \A q \in Peer : <>[](q \in listed /\ ~broken) => <>[]Quiet(q)

\* The step takes q, and q alone, off what is left of the round.
PulledFrom(q) == q \in loop.todo /\ loop'.todo = loop.todo \ {q}

\* A peer in good standing is pulled from again and again, also one that was
\* revoked and restored, as long as the loop's thread lives.
RestoredIsPulled ==
    \A q \in Peer :
        []<>(q \in listed \/ broken \/ loop.pc = "dead") \/ []<><<PulledFrom(q)>>_vars

\* The same without the proviso: what AntiEntropySync is for ("periodically
\* pulls any messages a peer has that this relay doesn't").
PullsGoOn ==
    \A q \in Peer : []<>(q \in listed \/ broken) \/ []<><<PulledFrom(q)>>_vars

=============================================================================
