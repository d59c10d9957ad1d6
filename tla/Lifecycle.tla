------------------------------ MODULE Lifecycle ------------------------------
(***************************************************************************)
(* A relay process from its start to its end (relay.main), several of them *)
(* on one file system: the advisory locks beside the two socket paths, the *)
(* socket files, the relay's identity in its two files, and the finally    *)
(* that takes everything down again.                                       *)
(*                                                                         *)
(* A step is what the process does to a file, a lock or a server between   *)
(* two points at which another process, Ctrl-C or a kill can come in.      *)
(***************************************************************************)
EXTENDS Integers, FiniteSets

CONSTANTS
    Proc,         \* invocations of the relay; one may run again when it ended
    Path,         \* the paths they may be told to bind
    Dir,          \* identity directories
    Identity,     \* key pairs that may be generated
    SocketPath,   \* SocketPath[p]: --socket-path
    GossipPath,   \* GossipPath[p]: --gossip-socket-path
    IdentityDir   \* IdentityDir[p]: --relay-identity-dir

\* what an identity file holds when it is not a key or a certificate
Missing == "missing"
Torn == "torn"

ASSUME LifecycleAssumption ==
    /\ SocketPath \in [Proc -> Path]
    /\ GossipPath \in [Proc -> Path]
    /\ \A p \in Proc : SocketPath[p] # GossipPath[p]     \* main refuses
    /\ IdentityDir \in [Proc -> Dir]
    /\ Missing \notin Identity /\ Torn \notin Identity

\* An identity directory is one relay's: two invocations that share it are
\* told to bind a path in common.
ASSUME OneRelayPerDir ==
    \A p, q \in Proc :
        IdentityDir[p] = IdentityDir[q] =>
          {SocketPath[p], GossipPath[p]} \cap {SocketPath[q], GossipPath[q]} # {}

VARIABLES
    pc,      \* pc[p]: where p is in main
    lock,    \* lock[a]: who holds the flock on a's lock file
    file,    \* file[a]: what is at the path a
    bound,   \* bound[p]: the paths p has a listening socket for
    loop,    \* loop[p]: what is known of the client server's serve_forever
    own,     \* own[p]: the identity p has generated or loaded
    key,     \* key[d]: relay_key.pem
    cert,    \* cert[d]: relay_cert.pem
    pinned   \* pinned[d]: the fingerprints served with from d (ghost)

vars == <<pc, lock, file, bound, loop, own, key, cert, pinned>>

Generating == {"keyOpen", "keyDone", "certOpen"}

Starting ==
    {"lock", "prepare", "gossipLock", "gossipPrepare", "identity", "load", "bind",
     "chmod", "gossipBind", "gossipChmod", "jobs", "serve"} \cup Generating

\* the finally of main
Stopping == {"stop", "unlink", "gossipUnlink"}

Absent == [kind |-> "absent"]
Regular == [kind |-> "regular"]
Stale == [kind |-> "socket", by |-> {}]        \* its process is dead
Socket(p) == [kind |-> "socket", by |-> {p}]

Sockets == {Stale} \cup {Socket(p) : p \in Proc}

Init ==
    /\ pc = [p \in Proc |-> "off"]
    /\ lock = [a \in Path |-> {}]
    /\ file = [a \in Path |-> Absent]
    /\ bound = [p \in Proc |-> {}]
    /\ loop = [p \in Proc |-> "none"]
    /\ own = [p \in Proc |-> Missing]
    /\ key = [d \in Dir |-> Missing]
    /\ cert = [d \in Dir |-> Missing]
    /\ pinned = [d \in Dir |-> {}]

Go(p, l) == pc' = [pc EXCEPT ![p] = l]

\* sys.exit and any other exception inside the try lead to the finally.
Fail(p) == Go(p, "stop")

Files == <<key, cert, pinned, own>>

-----------------------------------------------------------------------------
\* Starting.

\* Options are parsed and the database is opened, or cannot be.
Start(p) ==
    /\ pc[p] = "off"
    /\ Go(p, "lock") \/ Fail(p)
    /\ UNCHANGED <<lock, file, bound, loop, Files>>

\* Mutant: whoever comes second gets the lock as well.
MutAcquire(p, a, next) ==
    /\ Go(p, next) /\ lock' = [lock EXCEPT ![a] = @ \cup {p}]
    /\ UNCHANGED <<file, bound, loop, Files>>

\* _acquire_relay_lock: LOCK_EX | LOCK_NB, and exit when it is held
Acquire(p, a, next) ==
    /\ IF lock[a] = {} THEN Go(p, next) /\ lock' = [lock EXCEPT ![a] = {p}]
                       ELSE Fail(p) /\ UNCHANGED lock
    /\ UNCHANGED <<file, bound, loop, Files>>

\* _prepare_socket_path: a socket that is still there is unlinked, anything
\* else is left alone and ends the process.
Prepare(p, a, next) ==
    /\ IF file[a] = Regular
         THEN Fail(p) /\ UNCHANGED file
         ELSE Go(p, next) /\ file' = [file EXCEPT ![a] = Absent]
    /\ UNCHANGED <<lock, bound, loop, Files>>

Lock(p) == pc[p] = "lock" /\ Acquire(p, SocketPath[p], "prepare")

PrepareSocket(p) == pc[p] = "prepare" /\ Prepare(p, SocketPath[p], "gossipLock")

GossipLock(p) == pc[p] = "gossipLock" /\ Acquire(p, GossipPath[p], "gossipPrepare")

PrepareGossip(p) == pc[p] = "gossipPrepare" /\ Prepare(p, GossipPath[p], "identity")

\* What is on disk or in use; a fresh RSA key is none of it.
Taken ==
    {key[d] : d \in Dir} \cup {cert[d] : d \in Dir} \cup {own[p] : p \in Proc}
      \cup UNION {pinned[d] : d \in Dir}

\* Both files exist, whatever is in them.
HasIdentity(d) == key[d] # Missing /\ cert[d] # Missing

\* load_or_generate_relay_identity: an existing key is parsed; a new one is
\* generated and its file is opened, which truncates it.
LoadOrGenerate(p) ==
    /\ pc[p] = "identity"
    /\ LET d == IdentityDir[p] IN
       IF HasIdentity(d)
         THEN /\ IF key[d] = Torn THEN Fail(p) ELSE Go(p, "load")
              /\ UNCHANGED <<own, key>>
         ELSE /\ \E i \in Identity \ Taken : own' = [own EXCEPT ![p] = i]
              /\ key' = [key EXCEPT ![d] = Torn]
              /\ Go(p, "keyOpen")
    /\ UNCHANGED <<lock, file, bound, loop, cert, pinned>>

\* generate_relay_identity: write_bytes of the key, then of the certificate;
\* each opens its file empty and then fills it.
WriteKey(p) ==
    /\ pc[p] = "keyOpen"
    /\ key' = [key EXCEPT ![IdentityDir[p]] = own[p]]
    /\ Go(p, "keyDone")
    /\ UNCHANGED <<lock, file, bound, loop, own, cert, pinned>>

OpenCert(p) ==
    /\ pc[p] = "keyDone"
    /\ cert' = [cert EXCEPT ![IdentityDir[p]] = Torn]
    /\ Go(p, "certOpen")
    /\ UNCHANGED <<lock, file, bound, loop, own, key, pinned>>

\* Mutant: the certificate is made for another key.
MutWriteCert(p) ==
    /\ pc[p] = "certOpen"
    /\ \E i \in Identity \ Taken : cert' = [cert EXCEPT ![IdentityDir[p]] = i]
    /\ Go(p, "load")
    /\ UNCHANGED <<lock, file, bound, loop, own, key, pinned>>

WriteCert(p) ==
    /\ pc[p] = "certOpen"
    /\ cert' = [cert EXCEPT ![IdentityDir[p]] = own[p]]
    /\ Go(p, "load")
    /\ UNCHANGED <<lock, file, bound, loop, own, key, pinned>>

\* load_cert and relay_fingerprint: whoever is in the certificate is who this
\* relay is.
LoadCert(p) ==
    /\ pc[p] = "load"
    /\ LET c == cert[IdentityDir[p]] IN
       IF c \in Identity THEN Go(p, "bind") /\ own' = [own EXCEPT ![p] = c]
                         ELSE Fail(p) /\ UNCHANGED own
    /\ UNCHANGED <<lock, file, bound, loop, key, cert, pinned>>

\* bind(): the path must be free
BindTo(p, a, next) ==
    /\ IF file[a] = Absent
         THEN /\ file' = [file EXCEPT ![a] = Socket(p)]
              /\ bound' = [bound EXCEPT ![p] = @ \cup {a}]
              /\ Go(p, next)
         ELSE Fail(p) /\ UNCHANGED <<file, bound>>
    /\ UNCHANGED <<lock, loop, Files>>

\* os.chmod: whatever is at the path, and something must be
Chmod(p, a, next) ==
    /\ IF file[a] = Absent THEN Fail(p) ELSE Go(p, next)
    /\ UNCHANGED <<lock, file, bound, loop, Files>>

Bind(p) == pc[p] = "bind" /\ BindTo(p, SocketPath[p], "chmod")

ChmodSocket(p) == pc[p] = "chmod" /\ Chmod(p, SocketPath[p], "gossipBind")

\* build_server_ssl_context refuses a key that is not the certificate's.
GossipBind(p) ==
    /\ pc[p] = "gossipBind"
    /\ IF key[IdentityDir[p]] = cert[IdentityDir[p]]
         THEN BindTo(p, GossipPath[p], "gossipChmod")
         ELSE Fail(p) /\ UNCHANGED <<lock, file, bound, loop, Files>>

ChmodGossip(p) == pc[p] = "gossipChmod" /\ Chmod(p, GossipPath[p], "jobs")

\* The gossip listener's thread and the two jobs are started and the banner
\* with the fingerprint is printed; no thread to be had, or a blacklist that
\* does not parse, ends it. Then server_started is set.
StartJobs(p) ==
    /\ pc[p] = "jobs"
    /\ \/ /\ Go(p, "serve")
          /\ loop' = [loop EXCEPT ![p] = "flagged"]
          /\ pinned' = [pinned EXCEPT ![IdentityDir[p]] = @ \cup {own[p]}]
       \/ Fail(p) /\ UNCHANGED <<loop, pinned>>
    /\ UNCHANGED <<lock, file, bound, own, key, cert>>

\* serve_forever enters its loop.
Serve(p) ==
    /\ pc[p] = "serve"
    /\ Go(p, "serving")
    /\ loop' = [loop EXCEPT ![p] = "entered"]
    /\ UNCHANGED <<lock, file, bound, Files>>

-----------------------------------------------------------------------------
\* Stopping.

\* Ctrl-C, or any other exception (a passphrase that does not fit, a
\* peers.json that does not parse), wherever the process is. In the finally
\* no step catches a second Ctrl-C, which is as good as a kill.
Interrupt(p) ==
    /\ pc[p] \in Starting \cup {"serving"}
    /\ Fail(p)
    /\ UNCHANGED <<lock, file, bound, loop, Files>>

\* Mutant: the client server's shutdown is called whether or not it started.
MutStopServers(p) ==
    /\ pc[p] = "stop"
    /\ SocketPath[p] \in bound[p] => loop[p] = "entered"
    /\ Go(p, "unlink")
    /\ UNCHANGED <<lock, file, bound, loop, Files>>

\* The jobs, the pool and the two servers are stopped and the database is
\* closed. shutdown() of the client server waits for a serve_forever to
\* leave its loop: one that was never entered keeps it waiting for ever.
StopServers(p) ==
    /\ pc[p] = "stop"
    /\ loop[p] # "flagged"
    /\ Go(p, "unlink")
    /\ UNCHANGED <<lock, file, bound, loop, Files>>

\* os.unlink: whatever is at the path
Unlink(p, a) == file' = [file EXCEPT ![a] = Absent]

UnlinkSocket(p) ==
    /\ pc[p] = "unlink"
    /\ Unlink(p, SocketPath[p])
    /\ Go(p, "gossipUnlink")
    /\ UNCHANGED <<lock, bound, loop, Files>>

\* Mutant: the lock outlives its process, as a PID file would.
MutEnd(p, f) ==
    /\ Go(p, "off")
    /\ file' = [a \in Path |-> IF f[a] = Socket(p) THEN Stale ELSE f[a]]
    /\ bound' = [bound EXCEPT ![p] = {}]
    /\ loop' = [loop EXCEPT ![p] = "none"]
    /\ own' = [own EXCEPT ![p] = Missing]
    /\ UNCHANGED <<lock, key, cert, pinned>>

\* What the operating system does when p is gone: its locks are released,
\* its listening sockets closed; f are the files it leaves.
End(p, f) ==
    /\ Go(p, "off")
    /\ lock' = [a \in Path |-> lock[a] \ {p}]
    /\ file' = [a \in Path |-> IF f[a] = Socket(p) THEN Stale ELSE f[a]]
    /\ bound' = [bound EXCEPT ![p] = {}]
    /\ loop' = [loop EXCEPT ![p] = "none"]
    /\ own' = [own EXCEPT ![p] = Missing]
    /\ UNCHANGED <<key, cert, pinned>>

UnlinkGossip(p) ==
    /\ pc[p] = "gossipUnlink"
    /\ End(p, [file EXCEPT ![GossipPath[p]] = Absent])

\* SIGTERM, SIGKILL, or a second Ctrl-C: no finally, or not the rest of it
Kill(p) == pc[p] # "off" /\ End(p, file)

-----------------------------------------------------------------------------
\* The operator, who may have a file of another kind at a path.

PutFile(a) ==
    /\ file[a] = Absent
    /\ file' = [file EXCEPT ![a] = Regular]
    /\ UNCHANGED <<pc, lock, bound, loop, Files>>

TakeFile(a) ==
    /\ file[a] = Regular
    /\ file' = [file EXCEPT ![a] = Absent]
    /\ UNCHANGED <<pc, lock, bound, loop, Files>>

-----------------------------------------------------------------------------
\* main, from its first lock to its last unlink
Main(p) ==
    \/ Lock(p) \/ PrepareSocket(p) \/ GossipLock(p) \/ PrepareGossip(p)
    \/ LoadOrGenerate(p) \/ WriteKey(p) \/ OpenCert(p) \/ WriteCert(p) \/ LoadCert(p)
    \/ Bind(p) \/ ChmodSocket(p) \/ GossipBind(p) \/ ChmodGossip(p)
    \/ StartJobs(p) \/ Serve(p)
    \/ StopServers(p) \/ UnlinkSocket(p) \/ UnlinkGossip(p)

Next ==
    \/ \E p \in Proc : Start(p) \/ Main(p) \/ Interrupt(p) \/ Kill(p)
    \/ \E a \in Path : PutFile(a) \/ TakeFile(a)

\* A process that is not killed goes on; nobody has to start one, to stop it
\* or to tidy up.
Fairness == \A p \in Proc : WF_vars(Main(p))

Spec == Init /\ [][Next]_vars /\ Fairness

-----------------------------------------------------------------------------
\* Properties.

TypeOK ==
    /\ pc \in [Proc -> {"off", "serving"} \cup Starting \cup Stopping]
    /\ lock \in [Path -> SUBSET Proc]
    /\ file \in [Path -> {Absent, Regular} \cup Sockets]
    /\ bound \in [Proc -> SUBSET Path]
    /\ loop \in [Proc -> {"none", "flagged", "entered"}]
    /\ own \in [Proc -> Identity \cup {Missing}]
    /\ key \in [Dir -> Identity \cup {Missing, Torn}]
    /\ cert \in [Dir -> Identity \cup {Missing, Torn}]
    /\ pinned \in [Dir -> SUBSET Identity]

PathsOf(p) == {SocketPath[p], GossipPath[p]}

\* No two processes listen on one path, however they are started, killed and
\* started again (main: "guarantees only one relay instance can ever bind ...
\* each socket path at a time").
NoTwoListeners ==
    \A p, q \in Proc : p # q => bound[p] \cap bound[q] = {}

\* Between the removal of a stale socket and its own bind() nobody else puts
\* a socket at the path: bind() never fails with "address already in use"
\* because of another relay (_prepare_socket_path).
BindFindsNoSocket ==
    \A p \in Proc :
        /\ pc[p] \in {"gossipLock", "gossipPrepare", "identity", "load", "bind"} \cup Generating
             => file[SocketPath[p]] \notin Sockets
        /\ pc[p] \in {"identity", "load", "bind", "chmod", "gossipBind"} \cup Generating
             => file[GossipPath[p]] \notin Sockets

\* A certificate on disk is that of the key beside it, wherever in the
\* writing of the two a process was killed (generate_relay_identity).
PairMatches == \A d \in Dir : cert[d] \in Identity => key[d] = cert[d]

\* The fingerprint a relay has announced, and its peers have pinned, is the
\* one it serves with from then on: a crash while the identity is written
\* costs no identity that was ever in use, and of relays that share a path
\* no two generate one (load_or_generate_relay_identity).
IdentityStable == \A d \in Dir : Cardinality(pinned[d]) <= 1

\* The socket of a live process is removed by that process itself or by the
\* finally of one that does not hold the path's lock, and by nothing else:
\* not by the start of another (_acquire_relay_lock: "instead of silently
\* stealing or deleting the first instance's live socket").
LiveSocketKept ==
    [][\A a \in Path, q \in Proc :
           file[a] = Socket(q) /\ file'[a] # Socket(q) =>
             \/ pc[q] \in Stopping \/ pc'[q] = "off"
             \/ \E p \in Proc \ lock[a] : pc[p] \in {"unlink", "gossipUnlink"}]_vars

\* Whatever crashed before it, a relay's start breaks off only while another
\* one with one of its paths is running, for a file that is not a socket, for
\* a certificate that a crash has left half written, or because the socket it
\* has just bound is gone, by the finally of another ("the lock can never go
\* stale and never needs cleanup").
StartsUnlessBlocked ==
    [][\A p \in Proc :
           pc[p] \in Starting \ {"jobs"} /\ pc'[p] = "stop" /\ Main(p) =>
             \/ \E q \in Proc \ {p} : pc[q] # "off" /\ PathsOf(q) \cap PathsOf(p) # {}
             \/ \E a \in PathsOf(p) : file[a] = Regular
             \/ cert[IdentityDir[p]] = Torn
             \/ \E a \in bound[p] : file[a] # Socket(p)]_vars

\* Ctrl-C came between server_started = True and the loop.
Hung(p) == pc[p] = "stop" /\ loop[p] = "flagged"

\* A start ends in a relay that serves or in no process, and so does a stop,
\* at whatever point of the start it was ordered, but for the one window
\* (finally: shutdown() "deadlocks forever if that loop never started").
Settles ==
    \A p \in Proc :
        pc[p] \in Starting \cup Stopping ~> pc[p] \in {"off", "serving"} \/ Hung(p)

\* A relay that serves can be reached at both its paths, while the operator
\* leaves the files alone: what the second instance's refusal is for
\* (_acquire_relay_lock).
ServingReachable ==
    \A p \in Proc : pc[p] = "serving" => \A a \in PathsOf(p) : file[a] = Socket(p)

=============================================================================
