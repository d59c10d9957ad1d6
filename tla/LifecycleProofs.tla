--------------------------- MODULE LifecycleProofs --------------------------
(***************************************************************************)
(* Theorems about Lifecycle, for every number of processes, every set of   *)
(* paths, directories and key pairs, and every way they share them.        *)
(***************************************************************************)
EXTENDS Lifecycle, FiniteSetTheorems, TLAPS

-----------------------------------------------------------------------------
\* What is at a path.

LEMMA SocketFacts ==
    /\ \A p, q \in Proc : Socket(p) = Socket(q) => p = q
    /\ \A p \in Proc : Socket(p) # Stale /\ Socket(p) # Absent /\ Socket(p) # Regular
    /\ \A p \in Proc : Socket(p) \in Sockets
    /\ Stale \in Sockets /\ Absent \notin Sockets /\ Regular \notin Sockets
<1>1. \A p, q \in Proc : Socket(p) = Socket(q) => p = q
  <2> SUFFICES ASSUME NEW p \in Proc, NEW q \in Proc, Socket(p) = Socket(q)
               PROVE  p = q
    OBVIOUS
  <2>1. Socket(p).by = Socket(q).by
    OBVIOUS
  <2>2. {p} = {q}
    BY <2>1 DEF Socket
  <2> QED
    BY <2>2
<1>2. ASSUME NEW p \in Proc
      PROVE  Socket(p) # Stale /\ Socket(p) # Absent /\ Socket(p) # Regular
  <2>1. Socket(p).by # Stale.by
    BY DEF Socket, Stale
  <2>2. Socket(p).kind # Absent.kind /\ Socket(p).kind # Regular.kind
    BY DEF Socket, Absent, Regular
  <2> QED
    BY <2>1, <2>2
<1>3. \A f \in Sockets : f.kind = "socket"
  BY DEF Sockets, Socket, Stale
<1>4. Absent.kind # "socket" /\ Regular.kind # "socket"
  BY DEF Absent, Regular
<1>5. Stale \in Sockets /\ \A p \in Proc : Socket(p) \in Sockets
  BY DEF Sockets
<1> QED
  BY <1>1, <1>2, <1>3, <1>4, <1>5

-----------------------------------------------------------------------------
\* Types.

Known ==
    {"keyOpen", "keyDone", "certOpen", "bind", "chmod", "gossipBind", "gossipChmod", "jobs"}

\* From the generation of its identity, or its loading, a process has one.
OwnKnown == \A p \in Proc : pc[p] \in Known => own[p] \in Identity

TypeInv == TypeOK /\ OwnKnown

LEMMA TypeInit == Init => TypeInv
BY DEF Init, TypeInv, TypeOK, OwnKnown, Known

LEMMA AcquireType ==
    ASSUME TypeInv, NEW p \in Proc, NEW a \in Path, NEW next \in {"prepare", "gossipPrepare"},
           Acquire(p, a, next)
    PROVE  TypeInv'
BY DEF Acquire, Go, Fail, Files, TypeInv, TypeOK, OwnKnown, Known, Starting, Stopping

LEMMA PrepareType ==
    ASSUME TypeInv, NEW p \in Proc, NEW a \in Path, NEW next \in {"gossipLock", "identity"},
           Prepare(p, a, next)
    PROVE  TypeInv'
BY DEF Prepare, Go, Fail, Files, TypeInv, TypeOK, OwnKnown, Known, Starting, Stopping

LEMMA BindToType ==
    ASSUME TypeInv, NEW p \in Proc, NEW a \in Path, NEW next \in {"chmod", "gossipChmod"},
           pc[p] \in Known, BindTo(p, a, next)
    PROVE  TypeInv'
BY DEF BindTo, Go, Fail, Files, TypeInv, TypeOK, OwnKnown, Known, Starting, Stopping, Sockets

LEMMA EndType ==
    ASSUME TypeInv, NEW p \in Proc, NEW f \in [Path -> {Absent, Regular} \cup Sockets],
           End(p, f)
    PROVE  TypeInv'
<1>1. file' \in [Path -> {Absent, Regular} \cup Sockets]
  BY SocketFacts DEF End
<1>2. /\ pc' \in [Proc -> {"off", "serving"} \cup Starting \cup Stopping]
      /\ lock' \in [Path -> SUBSET Proc] /\ bound' \in [Proc -> SUBSET Path]
      /\ loop' \in [Proc -> {"none", "flagged", "entered"}]
      /\ own' \in [Proc -> Identity \cup {Missing}]
      /\ UNCHANGED <<key, cert, pinned>>
  BY DEF End, Go, TypeInv, TypeOK
<1>3. OwnKnown'
  BY DEF End, Go, TypeInv, TypeOK, OwnKnown, Known
<1> QED
  BY <1>1, <1>2, <1>3 DEF TypeInv, TypeOK

LEMMA TypeStep == TypeInv /\ [Next]_vars => TypeInv'
<1> SUFFICES ASSUME TypeInv, [Next]_vars
             PROVE  TypeInv'
  OBVIOUS
<1> USE LifecycleAssumption
<1> USE DEF Go, Fail, Files, Starting, Stopping, Generating
<1>1. CASE UNCHANGED vars
  BY <1>1 DEF vars, TypeInv, TypeOK, OwnKnown
<1>2. ASSUME NEW p \in Proc, Start(p) PROVE TypeInv'
  BY <1>2 DEF Start, TypeInv, TypeOK, OwnKnown, Known
<1>3. ASSUME NEW p \in Proc, Lock(p) \/ GossipLock(p) PROVE TypeInv'
  BY <1>3, AcquireType DEF Lock, GossipLock
<1>4. ASSUME NEW p \in Proc, PrepareSocket(p) \/ PrepareGossip(p) PROVE TypeInv'
  BY <1>4, PrepareType DEF PrepareSocket, PrepareGossip
<1>5. ASSUME NEW p \in Proc, LoadOrGenerate(p) PROVE TypeInv'
  <2>1. CASE HasIdentity(IdentityDir[p])
    BY <1>5, <2>1 DEF LoadOrGenerate, TypeInv, TypeOK, OwnKnown, Known
  <2>2. CASE ~HasIdentity(IdentityDir[p])
    <3>1. PICK i \in Identity : own' = [own EXCEPT ![p] = i]
      BY <1>5, <2>2 DEF LoadOrGenerate
    <3>2. /\ pc' = [pc EXCEPT ![p] = "keyOpen"] /\ key' = [key EXCEPT ![IdentityDir[p]] = Torn]
          /\ UNCHANGED <<lock, file, bound, loop, cert, pinned>>
      BY <1>5, <2>2 DEF LoadOrGenerate
    <3>3. TypeOK'
      BY <3>1, <3>2 DEF TypeInv, TypeOK
    <3>4. OwnKnown'
      BY <3>1, <3>2 DEF TypeInv, TypeOK, OwnKnown
    <3> QED
      BY <3>3, <3>4 DEF TypeInv
  <2> QED
    BY <2>1, <2>2
<1>6. ASSUME NEW p \in Proc, WriteKey(p) \/ OpenCert(p) \/ WriteCert(p) PROVE TypeInv'
  BY <1>6 DEF WriteKey, OpenCert, WriteCert, TypeInv, TypeOK, OwnKnown, Known
<1>7. ASSUME NEW p \in Proc, LoadCert(p) PROVE TypeInv'
  BY <1>7 DEF LoadCert, TypeInv, TypeOK, OwnKnown, Known
<1>8. ASSUME NEW p \in Proc, Bind(p) PROVE TypeInv'
  BY <1>8, BindToType DEF Bind, Known
<1>chmod. ASSUME NEW p \in Proc, ChmodSocket(p) \/ ChmodGossip(p) PROVE TypeInv'
  BY <1>chmod DEF ChmodSocket, ChmodGossip, Chmod, TypeInv, TypeOK, OwnKnown, Known
<1>9. ASSUME NEW p \in Proc, GossipBind(p) PROVE TypeInv'
  <2>1. CASE BindTo(p, GossipPath[p], "gossipChmod")
    BY <1>9, <2>1, BindToType DEF GossipBind, Known
  <2>2. CASE Fail(p) /\ UNCHANGED <<lock, file, bound, loop, Files>>
    BY <1>9, <2>2 DEF GossipBind, TypeInv, TypeOK, OwnKnown, Known
  <2> QED
    BY <1>9, <2>1, <2>2 DEF GossipBind
<1>10. ASSUME NEW p \in Proc, StartJobs(p) PROVE TypeInv'
  <2>1. own[p] \in Identity
    BY <1>10 DEF StartJobs, TypeInv, OwnKnown, Known
  <2>2. pinned' \in [Dir -> SUBSET Identity]
    BY <1>10, <2>1 DEF StartJobs, TypeInv, TypeOK
  <2> QED
    BY <1>10, <2>2 DEF StartJobs, TypeInv, TypeOK, OwnKnown, Known
<1>11. ASSUME NEW p \in Proc, Serve(p) \/ Interrupt(p) \/ StopServers(p) PROVE TypeInv'
  BY <1>11 DEF Serve, Interrupt, StopServers, TypeInv, TypeOK, OwnKnown, Known
<1>12. ASSUME NEW p \in Proc, UnlinkSocket(p) PROVE TypeInv'
  BY <1>12 DEF UnlinkSocket, Unlink, TypeInv, TypeOK, OwnKnown, Known
<1>13. ASSUME NEW p \in Proc, UnlinkGossip(p) \/ Kill(p) PROVE TypeInv'
  <2>1. /\ file \in [Path -> {Absent, Regular} \cup Sockets]
        /\ [file EXCEPT ![GossipPath[p]] = Absent] \in [Path -> {Absent, Regular} \cup Sockets]
    BY DEF TypeInv, TypeOK
  <2> QED
    BY <1>13, <2>1, EndType DEF UnlinkGossip, Kill
<1>14. ASSUME NEW a \in Path, PutFile(a) \/ TakeFile(a) PROVE TypeInv'
  BY <1>14 DEF PutFile, TakeFile, TypeInv, TypeOK, OwnKnown, Known
<1> QED
  BY <1>1, <1>2, <1>3, <1>4, <1>5, <1>6, <1>7, <1>8, <1>chmod, <1>9, <1>10, <1>11, <1>12, <1>13,
     <1>14
     DEF Next, Main

\* Every variable keeps its type.
THEOREM TypeCorrect == Spec => []TypeOK
<1>1. Spec => []TypeInv
  BY TypeInit, TypeStep, PTL DEF Spec
<1>2. TypeInv => TypeOK
  BY DEF TypeInv
<1> QED
  BY <1>1, <1>2, PTL

-----------------------------------------------------------------------------
\* Locks and sockets.

\* Nobody shares a lock.
LockExclusive == \A a \in Path : \A p, q \in lock[a] : p = q

PastFirstLock == (Starting \ {"lock"}) \cup {"serving"}

PastBothLocks == PastFirstLock \ {"prepare", "gossipLock"}

\* Who has come past a lock holds it.
LocksHeld ==
    \A p \in Proc :
        /\ pc[p] \in PastFirstLock => p \in lock[SocketPath[p]]
        /\ pc[p] \in PastBothLocks => p \in lock[GossipPath[p]]

\* Who listens at a path holds its lock.
BoundLocked == \A p \in Proc : \A a \in bound[p] : p \in lock[a]

\* A live socket is that of a process that listens at it.
SocketBound == \A a \in Path, p \in Proc : file[a] = Socket(p) => a \in bound[p]

BeforeBind ==
    {"off", "lock", "prepare", "gossipLock", "gossipPrepare", "identity", "load", "bind"}
      \cup Generating

\* Who has not come to bind() does not listen.
NotYetBound == \A p \in Proc : pc[p] \in BeforeBind => bound[p] = {}

SocketInv ==
    /\ LockExclusive
    /\ LocksHeld
    /\ BoundLocked
    /\ SocketBound
    /\ NotYetBound
    /\ BindFindsNoSocket

LEMMA SocketInit == Init => SocketInv
BY SocketFacts DEF Init, SocketInv, LockExclusive, LocksHeld, BoundLocked, SocketBound,
   NotYetBound, BindFindsNoSocket, PastFirstLock, PastBothLocks, BeforeBind, Starting,
   Generating

\* A step of p that touches neither locks nor files, to a point of main that
\* asks for no more than the one it leaves.
LEMMA MoveSocket ==
    ASSUME TypeOK, SocketInv, NEW p \in Proc, NEW l, Go(p, l),
           UNCHANGED <<lock, file, bound>>,
           l \in PastFirstLock => pc[p] \in PastFirstLock,
           l \in PastBothLocks => pc[p] \in PastBothLocks,
           l \in BeforeBind => pc[p] \in BeforeBind,
           \/ l \in {"lock", "serve", "serving"} \cup Stopping
           \/ l \in {"gossipBind", "jobs"} /\ pc[p] \in {"chmod", "gossipChmod"}
                /\ (l = "gossipBind" => pc[p] = "chmod")
           \/ l \in {"load", "bind"} \cup Generating
              /\ pc[p] \in {"identity", "load"} \cup Generating
    PROVE  SocketInv'
<1> USE DEF Go, SocketInv
<1>1. LockExclusive' /\ BoundLocked' /\ SocketBound'
  BY DEF LockExclusive, BoundLocked, SocketBound
<1>2. LocksHeld'
  BY DEF LocksHeld, TypeOK
<1>3. NotYetBound'
  BY DEF NotYetBound, TypeOK
<1>4. BindFindsNoSocket'
  BY DEF BindFindsNoSocket, TypeOK, Starting, Stopping, Generating
<1> QED
  BY <1>1, <1>2, <1>3, <1>4

LEMMA FailSocket ==
    ASSUME TypeOK, SocketInv, NEW p \in Proc, Fail(p), UNCHANGED <<lock, file, bound>>
    PROVE  SocketInv'
BY MoveSocket DEF Fail, PastFirstLock, PastBothLocks, BeforeBind, Starting, Stopping, Generating

LEMMA AcquireSocket ==
    ASSUME TypeOK, SocketInv, NEW p \in Proc, Lock(p) \/ GossipLock(p)
    PROVE  SocketInv'
<1> USE LifecycleAssumption
<1> DEFINE a == IF pc[p] = "lock" THEN SocketPath[p] ELSE GossipPath[p]
           next == IF pc[p] = "lock" THEN "prepare" ELSE "gossipPrepare"
<1>1. Acquire(p, a, next) /\ pc[p] \in {"lock", "gossipLock"} /\ a \in Path
  BY DEF Lock, GossipLock
<1>2. CASE lock[a] # {}
  BY <1>1, <1>2, FailSocket DEF Acquire
<1>3. CASE lock[a] = {}
  <2>1. /\ lock' = [lock EXCEPT ![a] = {p}] /\ pc' = [pc EXCEPT ![p] = next]
        /\ UNCHANGED <<file, bound>>
    BY <1>1, <1>3 DEF Acquire, Go
  <2>2. LockExclusive'
    BY <1>1, <2>1 DEF LockExclusive, SocketInv, TypeOK
  <2>3. LocksHeld'
    BY <1>1, <1>3, <2>1 DEF LocksHeld, SocketInv, TypeOK, PastFirstLock, PastBothLocks, Starting
  <2>4. BoundLocked'
    BY <1>1, <1>3, <2>1 DEF BoundLocked, SocketInv, TypeOK
  <2>5. SocketBound'
    BY <2>1 DEF SocketBound, SocketInv
  <2>6. NotYetBound'
    BY <1>1, <2>1 DEF NotYetBound, SocketInv, TypeOK, BeforeBind
  <2>7. BindFindsNoSocket'
    BY <1>1, <2>1 DEF BindFindsNoSocket, SocketInv, TypeOK, Starting, Generating
  <2> QED
    BY <2>2, <2>3, <2>4, <2>5, <2>6, <2>7 DEF SocketInv
<1> QED
  BY <1>2, <1>3

LEMMA PrepareSocketInv ==
    ASSUME TypeOK, SocketInv, NEW p \in Proc, PrepareSocket(p) \/ PrepareGossip(p)
    PROVE  SocketInv'
<1> USE LifecycleAssumption
<1> DEFINE a == IF pc[p] = "prepare" THEN SocketPath[p] ELSE GossipPath[p]
           next == IF pc[p] = "prepare" THEN "gossipLock" ELSE "identity"
<1>1. Prepare(p, a, next) /\ pc[p] \in {"prepare", "gossipPrepare"} /\ a \in Path
  BY DEF PrepareSocket, PrepareGossip
<1>2. CASE file[a] = Regular
  BY <1>1, <1>2, FailSocket DEF Prepare
<1>3. CASE file[a] # Regular
  <2>1. /\ file' = [file EXCEPT ![a] = Absent] /\ pc' = [pc EXCEPT ![p] = next]
        /\ UNCHANGED <<lock, bound>>
    BY <1>1, <1>3 DEF Prepare, Go
  <2>2. LockExclusive' /\ BoundLocked'
    BY <2>1 DEF LockExclusive, BoundLocked, SocketInv
  <2>3. LocksHeld'
    BY <1>1, <2>1 DEF LocksHeld, SocketInv, TypeOK, PastFirstLock, PastBothLocks, Starting
  <2>4. SocketBound'
    BY <1>1, <2>1, SocketFacts DEF SocketBound, SocketInv, TypeOK
  <2>5. NotYetBound'
    BY <1>1, <2>1 DEF NotYetBound, SocketInv, TypeOK, BeforeBind
  <2>6. BindFindsNoSocket'
    BY <1>1, <2>1, SocketFacts
       DEF BindFindsNoSocket, SocketInv, TypeOK, Starting, Generating
  <2> QED
    BY <2>2, <2>3, <2>4, <2>5, <2>6 DEF SocketInv
<1> QED
  BY <1>2, <1>3

LEMMA BindSocket ==
    ASSUME TypeOK, SocketInv, NEW p \in Proc, Bind(p) \/ GossipBind(p)
    PROVE  SocketInv'
<1> USE LifecycleAssumption
<1> DEFINE a == IF pc[p] = "bind" THEN SocketPath[p] ELSE GossipPath[p]
           next == IF pc[p] = "bind" THEN "chmod" ELSE "gossipChmod"
<1>1. CASE Fail(p) /\ UNCHANGED <<lock, file, bound>>
  BY <1>1, FailSocket
<1>2. CASE ~(Fail(p) /\ UNCHANGED <<lock, file, bound>>)
  <2>1. /\ file[a] = Absent /\ file' = [file EXCEPT ![a] = Socket(p)]
        /\ bound' = [bound EXCEPT ![p] = @ \cup {a}]
        /\ pc' = [pc EXCEPT ![p] = next]
        /\ UNCHANGED lock
        /\ pc[p] \in {"bind", "gossipBind"} /\ a \in Path
    BY <1>2 DEF Bind, GossipBind, BindTo, Go, Files
  <2>2. LockExclusive'
    BY <2>1 DEF LockExclusive, SocketInv
  <2>3. LocksHeld'
    BY <2>1 DEF LocksHeld, SocketInv, TypeOK, PastFirstLock, PastBothLocks, Starting
  <2>4. p \in lock[a]
    BY <2>1 DEF LocksHeld, SocketInv, PastFirstLock, PastBothLocks, Starting
  <2>5. BoundLocked'
    BY <2>1, <2>4 DEF BoundLocked, SocketInv, TypeOK
  <2>6. SocketBound'
    BY <2>1, SocketFacts DEF SocketBound, SocketInv, TypeOK
  <2>7. NotYetBound'
    BY <2>1 DEF NotYetBound, SocketInv, TypeOK, BeforeBind, Generating
  <2>8. BindFindsNoSocket'
    <3> SUFFICES ASSUME NEW q \in Proc
        PROVE  /\ pc'[q] \in {"gossipLock", "gossipPrepare", "identity", "load", "bind"}
                              \cup Generating
                    => file'[SocketPath[q]] \notin Sockets
               /\ pc'[q] \in {"identity", "load", "bind", "chmod", "gossipBind"} \cup Generating
                    => file'[GossipPath[q]] \notin Sockets
      BY DEF BindFindsNoSocket
    <3>1. CASE q = p
      BY <2>1, <3>1 DEF BindFindsNoSocket, SocketInv, TypeOK, Starting, Generating
    <3>2. CASE q # p
      <4>1. q \notin lock[a]
        BY <2>1, <2>4, <3>2 DEF LockExclusive, SocketInv
      <4>2. /\ pc[q] \in Starting \ {"lock", "prepare"} => SocketPath[q] # a
            /\ pc[q] \in {"identity", "load", "bind", "chmod", "gossipBind"} \cup Generating
                 => GossipPath[q] # a
        BY <4>1 DEF LocksHeld, SocketInv, PastFirstLock, PastBothLocks, Starting, Generating
      <4>3. pc'[q] = pc[q] /\ \A b \in Path : b # a => file'[b] = file[b]
        BY <2>1, <3>2 DEF TypeOK
      <4>4. pc[q] \in {"gossipLock", "gossipPrepare", "identity", "load", "bind"} \cup Generating
              => pc[q] \in Starting \ {"lock", "prepare"}
        BY DEF Starting, Generating
      <4>5. SocketPath[q] \in Path /\ GossipPath[q] \in Path
        OBVIOUS
      <4> QED
        BY <4>2, <4>3, <4>4, <4>5 DEF BindFindsNoSocket, SocketInv
    <3> QED
      BY <3>1, <3>2
  <2> QED
    BY <2>2, <2>3, <2>5, <2>6, <2>7, <2>8 DEF SocketInv
<1> QED
  BY <1>1, <1>2

\* A path's file is removed, or the file of a dead process is left behind.
LEMMA UnlinkedSocket ==
    ASSUME TypeOK, SocketInv, NEW p \in Proc, UnlinkSocket(p)
    PROVE  SocketInv'
<1>1. /\ file' = [file EXCEPT ![SocketPath[p]] = Absent]
      /\ pc' = [pc EXCEPT ![p] = "gossipUnlink"]
      /\ UNCHANGED <<lock, bound>>
  BY DEF UnlinkSocket, Unlink, Go
<1>2. LockExclusive' /\ BoundLocked'
  BY <1>1 DEF LockExclusive, BoundLocked, SocketInv
<1>3. LocksHeld' /\ NotYetBound'
  BY <1>1 DEF LocksHeld, NotYetBound, SocketInv, TypeOK, PastFirstLock, PastBothLocks,
     BeforeBind, Starting, Generating
<1>4. SocketBound' /\ BindFindsNoSocket'
  BY <1>1, SocketFacts
     DEF SocketBound, BindFindsNoSocket, SocketInv, TypeOK, Starting, Generating
<1> QED
  BY <1>2, <1>3, <1>4 DEF SocketInv

LEMMA EndSocket ==
    ASSUME TypeOK, SocketInv, NEW p \in Proc, NEW f, End(p, f),
           f = file \/ f = [file EXCEPT ![GossipPath[p]] = Absent]
    PROVE  SocketInv'
<1> USE LifecycleAssumption
<1>1. /\ pc' = [pc EXCEPT ![p] = "off"]
      /\ lock' = [a \in Path |-> lock[a] \ {p}]
      /\ file' = [a \in Path |-> IF f[a] = Socket(p) THEN Stale ELSE f[a]]
      /\ bound' = [bound EXCEPT ![p] = {}]
  BY DEF End, Go
<1>2. \A a \in Path : /\ file'[a] = Stale => file[a] = Stale \/ file[a] = Socket(p)
                     /\ file'[a] \in {file[a], Absent, Stale}
                     /\ file'[a] # Socket(p)
  BY <1>1, SocketFacts DEF TypeOK
<1>3. LockExclusive'
  BY <1>1 DEF LockExclusive, SocketInv
<1>4. LocksHeld'
  BY <1>1 DEF LocksHeld, SocketInv, TypeOK, PastFirstLock, PastBothLocks, Starting, Generating
<1>5. BoundLocked'
  BY <1>1 DEF BoundLocked, SocketInv, TypeOK
<1>6. SocketBound'
  <2> SUFFICES ASSUME NEW a \in Path, NEW q \in Proc, file'[a] = Socket(q)
               PROVE  a \in bound'[q]
    BY DEF SocketBound
  <2>1. q # p /\ file[a] = Socket(q)
    BY <1>2, SocketFacts
  <2> QED
    BY <1>1, <2>1 DEF SocketBound, SocketInv, TypeOK
<1>7. NotYetBound'
  BY <1>1 DEF NotYetBound, SocketInv, TypeOK, BeforeBind
<1>8. BindFindsNoSocket'
  <2>1. \A a \in Path : file'[a] \in Sockets => file[a] \in Sockets
    BY <1>2, SocketFacts
  <2> QED
    BY <1>1, <2>1 DEF BindFindsNoSocket, SocketInv, TypeOK, Starting, Generating
<1> QED
  BY <1>3, <1>4, <1>5, <1>6, <1>7, <1>8 DEF SocketInv

LEMMA SocketStep == TypeOK /\ SocketInv /\ [Next]_vars => SocketInv'
<1> SUFFICES ASSUME TypeOK, SocketInv, [Next]_vars
             PROVE  SocketInv'
  OBVIOUS
<1>1. CASE UNCHANGED vars
  BY <1>1 DEF vars, SocketInv, LockExclusive, LocksHeld, BoundLocked, SocketBound,
     NotYetBound, BindFindsNoSocket
<1>2. ASSUME NEW p \in Proc, Start(p) PROVE SocketInv'
  BY <1>2, FailSocket, MoveSocket DEF Start, PastFirstLock, PastBothLocks, BeforeBind, Starting,
     Generating
<1>3. ASSUME NEW p \in Proc, Lock(p) \/ GossipLock(p) PROVE SocketInv'
  BY <1>3, AcquireSocket
<1>4. ASSUME NEW p \in Proc, PrepareSocket(p) \/ PrepareGossip(p) PROVE SocketInv'
  BY <1>4, PrepareSocketInv
<1>5. ASSUME NEW p \in Proc,
             LoadOrGenerate(p) \/ WriteKey(p) \/ OpenCert(p) \/ WriteCert(p) \/ LoadCert(p)
      PROVE  SocketInv'
  <2>1. /\ UNCHANGED <<lock, file, bound>>
        /\ pc[p] \in {"identity", "load"} \cup Generating
        /\ Fail(p) \/ \E l \in {"load", "bind"} \cup Generating : Go(p, l)
    BY <1>5 DEF LoadOrGenerate, WriteKey, OpenCert, WriteCert, LoadCert, Generating
  <2> QED
    BY <2>1, FailSocket, MoveSocket DEF PastFirstLock, PastBothLocks, BeforeBind, Starting,
       Generating
<1>6. ASSUME NEW p \in Proc, Bind(p) \/ GossipBind(p) PROVE SocketInv'
  BY <1>6, BindSocket
<1>chmod. ASSUME NEW p \in Proc, ChmodSocket(p) \/ ChmodGossip(p) PROVE SocketInv'
  BY <1>chmod, FailSocket, MoveSocket DEF ChmodSocket, ChmodGossip, Chmod, PastFirstLock,
     PastBothLocks, BeforeBind, Starting, Generating
<1>7. ASSUME NEW p \in Proc, StartJobs(p) \/ Serve(p) \/ Interrupt(p) \/ StopServers(p)
      PROVE  SocketInv'
  <2>1. CASE StartJobs(p)
    BY <2>1, FailSocket, MoveSocket DEF StartJobs, PastFirstLock, PastBothLocks, BeforeBind,
       Starting, Generating
  <2>2. CASE Serve(p)
    BY <2>2, MoveSocket DEF Serve, PastFirstLock, PastBothLocks, BeforeBind, Starting, Generating
  <2>3. CASE Interrupt(p)
    BY <2>3, FailSocket DEF Interrupt
  <2>4. CASE StopServers(p)
    BY <2>4, MoveSocket DEF StopServers, PastFirstLock, PastBothLocks, BeforeBind, Starting,
       Stopping, Generating
  <2> QED
    BY <1>7, <2>1, <2>2, <2>3, <2>4
<1>8. ASSUME NEW p \in Proc, UnlinkSocket(p) PROVE SocketInv'
  BY <1>8, UnlinkedSocket
<1>9. ASSUME NEW p \in Proc, UnlinkGossip(p) \/ Kill(p) PROVE SocketInv'
  BY <1>9, EndSocket DEF UnlinkGossip, Kill
<1>10. ASSUME NEW a \in Path, PutFile(a) \/ TakeFile(a) PROVE SocketInv'
  <2>1. /\ UNCHANGED <<pc, lock, bound>>
        /\ \A b \in Path : file'[b] = file[b] \/ file'[b] = Absent \/ file'[b] = Regular
    BY <1>10 DEF PutFile, TakeFile, TypeOK
  <2>2. LockExclusive' /\ LocksHeld' /\ BoundLocked' /\ NotYetBound'
    BY <2>1 DEF SocketInv, LockExclusive, LocksHeld, BoundLocked, NotYetBound
  <2>3. SocketBound' /\ BindFindsNoSocket'
    BY <2>1, SocketFacts, LifecycleAssumption DEF SocketInv, SocketBound, BindFindsNoSocket
  <2> QED
    BY <2>2, <2>3 DEF SocketInv
<1> QED
  BY <1>1, <1>2, <1>3, <1>4, <1>5, <1>6, <1>chmod, <1>7, <1>8, <1>9, <1>10 DEF Next, Main

LEMMA SocketsSafe == Spec => [](TypeOK /\ SocketInv)
<1>1. Init => SocketInv
  BY SocketInit
<1>2. TypeOK /\ SocketInv /\ [Next]_vars => SocketInv'
  BY SocketStep
<1> QED
  BY <1>1, <1>2, TypeCorrect, PTL DEF Spec

\* No two processes listen on one path: listening takes the lock, from
\* before the bind to the end of the process.
THEOREM OneListener == Spec => []NoTwoListeners
<1>1. TypeOK /\ SocketInv => NoTwoListeners
  BY DEF TypeOK, SocketInv, LockExclusive, BoundLocked, NoTwoListeners
<1> QED
  BY <1>1, SocketsSafe, PTL

\* A path stays free of sockets from the removal of a stale one to bind().
THEOREM NothingInTheWay == Spec => []BindFindsNoSocket
<1>1. TypeOK /\ SocketInv => BindFindsNoSocket
  BY DEF SocketInv
<1> QED
  BY <1>1, SocketsSafe, PTL

\* What takes the socket of a live process away.
Removal ==
    \A a \in Path, q \in Proc :
        file[a] = Socket(q) /\ file'[a] # Socket(q) =>
          \/ pc[q] \in Stopping \/ pc'[q] = "off"
          \/ \E p \in Proc \ lock[a] : pc[p] \in {"unlink", "gossipUnlink"}

LEMMA RemovalStep == TypeOK /\ SocketInv /\ [Next]_vars => Removal
<1> SUFFICES ASSUME TypeOK, SocketInv, [Next]_vars, NEW a \in Path, NEW q \in Proc,
                    file[a] = Socket(q), file'[a] # Socket(q)
             PROVE  \/ pc[q] \in Stopping \/ pc'[q] = "off"
                    \/ \E p \in Proc \ lock[a] : pc[p] \in {"unlink", "gossipUnlink"}
  BY DEF Removal
<1>1. a \in bound[q] /\ q \in lock[a]
  BY DEF SocketInv, SocketBound, BoundLocked
<1>2. ASSUME NEW p \in Proc, p \in lock[a] PROVE p = q
  BY <1>1, <1>2 DEF SocketInv, LockExclusive
<1>3. ASSUME NEW p \in Proc, PrepareSocket(p) \/ PrepareGossip(p) PROVE FALSE
  <2>1. /\ a \in {SocketPath[p], GossipPath[p]} /\ pc[p] \in {"prepare", "gossipPrepare"}
        /\ pc[p] = "prepare" => a = SocketPath[p]
        /\ pc[p] = "gossipPrepare" => a = GossipPath[p]
    BY <1>3 DEF PrepareSocket, PrepareGossip, Prepare, TypeOK
  <2>2. p \in lock[a] /\ bound[p] = {}
    BY <2>1 DEF SocketInv, LocksHeld, NotYetBound, PastFirstLock, PastBothLocks, BeforeBind,
       Starting
  <2> QED
    BY <1>1, <1>2, <2>2
<1>4. ASSUME NEW p \in Proc, Bind(p) \/ GossipBind(p) PROVE FALSE
  BY <1>4, SocketFacts DEF Bind, GossipBind, BindTo, TypeOK
<1>5. ASSUME NEW p \in Proc, UnlinkSocket(p)
      PROVE  pc[q] \in Stopping \/ \E r \in Proc \ lock[a] : pc[r] \in {"unlink", "gossipUnlink"}
  BY <1>2, <1>5 DEF UnlinkSocket, Stopping
<1>6. ASSUME NEW p \in Proc, UnlinkGossip(p)
      PROVE  pc[q] \in Stopping \/ \E r \in Proc \ lock[a] : pc[r] \in {"unlink", "gossipUnlink"}
  BY <1>2, <1>6 DEF UnlinkGossip, Stopping
<1>7. ASSUME NEW p \in Proc, Kill(p) PROVE pc'[q] = "off"
  <2>1. p = q
    BY <1>7, SocketFacts DEF Kill, End
  <2> QED
    BY <1>7, <2>1 DEF Kill, End, Go, TypeOK
<1>8. ASSUME NEW b \in Path, PutFile(b) \/ TakeFile(b) PROVE FALSE
  BY <1>8, SocketFacts DEF PutFile, TakeFile, TypeOK
<1>9. ASSUME NEW p \in Proc,
             \/ Start(p) \/ Lock(p) \/ GossipLock(p) \/ LoadOrGenerate(p) \/ WriteKey(p)
             \/ OpenCert(p) \/ WriteCert(p) \/ LoadCert(p) \/ StartJobs(p) \/ Serve(p)
             \/ ChmodSocket(p) \/ ChmodGossip(p) \/ StopServers(p) \/ Interrupt(p)
      PROVE  FALSE
  BY <1>9 DEF ChmodSocket, ChmodGossip, Chmod, Start, Lock, GossipLock, Acquire, LoadOrGenerate, WriteKey, OpenCert, WriteCert,
     LoadCert, StartJobs, Serve, StopServers, Interrupt
<1>10. CASE UNCHANGED vars
  BY <1>10 DEF vars
<1> QED
  BY <1>3, <1>4, <1>5, <1>6, <1>7, <1>8, <1>9, <1>10 DEF Next, Main

\* The socket of a live process goes away with the process, or by the finally
\* of one that never held the path's lock; nothing else removes it.
THEOREM SocketsKept == Spec => LiveSocketKept
<1>1. TypeOK /\ SocketInv /\ [Next]_vars => [Removal]_vars
  BY RemovalStep
<1>2. Spec => [][Removal]_vars
  BY <1>1, SocketsSafe, PTL DEF Spec
<1>3. [Removal]_vars <=>
        [\A a \in Path, q \in Proc :
           file[a] = Socket(q) /\ file'[a] # Socket(q) =>
             \/ pc[q] \in Stopping \/ pc'[q] = "off"
             \/ \E p \in Proc \ lock[a] : pc[p] \in {"unlink", "gossipUnlink"}]_vars
  BY DEF Removal
<1> QED
  BY <1>2, <1>3, PTL DEF LiveSocketKept

-----------------------------------------------------------------------------
\* The identity.

\* The certificate of a directory is that of its key, and of whoever has
\* served with it.
Paired ==
    \A d \in Dir :
        /\ cert[d] # Missing => key[d] # Missing
        /\ cert[d] \in Identity => key[d] = cert[d]
        /\ pinned[d] \subseteq {cert[d]}

\* What is in the two files while p writes them, and until it is served with.
Writing ==
    \A p \in Proc :
        LET d == IdentityDir[p] IN
        /\ pc[p] = "keyOpen" => key[d] = Torn /\ cert[d] = Missing
        /\ pc[p] = "keyDone" => key[d] = own[p] /\ cert[d] = Missing
        /\ pc[p] = "certOpen" => key[d] = own[p] /\ cert[d] = Torn
        /\ pc[p] \in {"bind", "chmod", "gossipBind", "gossipChmod", "jobs"} => cert[d] = own[p]

IdentityInv == Paired /\ Writing

LEMMA IdentityInit == Init => IdentityInv
BY DEF Init, IdentityInv, Paired, Writing

\* Of two processes with one identity directory only one is past its locks.
LEMMA OneWriter ==
    ASSUME SocketInv, NEW p \in Proc, NEW q \in Proc,
           pc[p] \in PastBothLocks, pc[q] \in PastBothLocks, IdentityDir[p] = IdentityDir[q]
    PROVE  p = q
<1>1. PICK a \in {SocketPath[p], GossipPath[p]} : a \in {SocketPath[q], GossipPath[q]}
  BY OneRelayPerDir
<1>2. p \in lock[a] /\ q \in lock[a] /\ a \in Path
  BY <1>1, LifecycleAssumption DEF SocketInv, LocksHeld, PastBothLocks
<1> QED
  BY <1>2 DEF SocketInv, LockExclusive

\* A step of p that leaves the files alone.
LEMMA MoveIdentity ==
    ASSUME TypeOK, IdentityInv, NEW p \in Proc, NEW l, Go(p, l), UNCHANGED Files,
           \/ l \notin Known
           \/ l \in {"chmod", "gossipBind", "gossipChmod", "jobs"}
                /\ pc[p] \in {"bind", "chmod", "gossipBind", "gossipChmod"}
    PROVE  IdentityInv'
<1>1. Paired'
  BY DEF IdentityInv, Paired, Files
<1>2. Writing'
  BY DEF IdentityInv, Writing, Files, Go, TypeOK, Known
<1> QED
  BY <1>1, <1>2 DEF IdentityInv

\* A step of p past its locks that changes the files of its own directory.
LEMMA WriteIdentity ==
    ASSUME TypeOK, SocketInv, IdentityInv, NEW p \in Proc, pc[p] \in PastBothLocks,
           NEW l, Go(p, l), LifecycleAssumption,
           \A d \in Dir : d # IdentityDir[p] =>
             key'[d] = key[d] /\ cert'[d] = cert[d] /\ pinned'[d] = pinned[d],
           \A q \in Proc : q # p => own'[q] = own[q],
           LET d == IdentityDir[p] IN
             /\ cert'[d] # Missing => key'[d] # Missing
             /\ cert'[d] \in Identity => key'[d] = cert'[d]
             /\ pinned'[d] \subseteq {cert'[d]}
             /\ l = "keyOpen" => key'[d] = Torn /\ cert'[d] = Missing
             /\ l = "keyDone" => key'[d] = own'[p] /\ cert'[d] = Missing
             /\ l = "certOpen" => key'[d] = own'[p] /\ cert'[d] = Torn
             /\ l \in {"bind", "chmod", "gossipBind", "gossipChmod", "jobs"} => cert'[d] = own'[p]
    PROVE  IdentityInv'
<1> USE LifecycleAssumption
<1>1. Paired'
  BY DEF IdentityInv, Paired
<1>2. ASSUME NEW q \in Proc
      PROVE  LET d == IdentityDir[q] IN
             /\ pc'[q] = "keyOpen" => key'[d] = Torn /\ cert'[d] = Missing
             /\ pc'[q] = "keyDone" => key'[d] = own'[q] /\ cert'[d] = Missing
             /\ pc'[q] = "certOpen" => key'[d] = own'[q] /\ cert'[d] = Torn
             /\ pc'[q] \in {"bind", "chmod", "gossipBind", "gossipChmod", "jobs"} => cert'[d] = own'[q]
  <2>1. CASE q = p
    BY <2>1 DEF Go, TypeOK
  <2>2. CASE q # p /\ pc[q] \in PastBothLocks
    <3>1. IdentityDir[q] # IdentityDir[p]
      BY <2>2, OneWriter
    <3>2. pc'[q] = pc[q] /\ own'[q] = own[q]
      BY <2>2 DEF Go, TypeOK
    <3>3. IdentityDir[q] \in Dir
      OBVIOUS
    <3>4. key'[IdentityDir[q]] = key[IdentityDir[q]] /\ cert'[IdentityDir[q]] = cert[IdentityDir[q]]
      BY <3>1, <3>3
    <3> QED
      BY <3>2, <3>4 DEF IdentityInv, Writing
  <2>3. CASE q # p /\ pc[q] \notin PastBothLocks
    BY <2>3 DEF Go, TypeOK, PastBothLocks, PastFirstLock, Starting, Generating
  <2> QED
    BY <2>1, <2>2, <2>3
<1> QED
  BY <1>1, <1>2 DEF IdentityInv, Writing

LEMMA IdentityStep == TypeInv /\ SocketInv /\ IdentityInv /\ [Next]_vars => IdentityInv'
<1> SUFFICES ASSUME TypeInv, SocketInv, IdentityInv, [Next]_vars
             PROVE  IdentityInv'
  OBVIOUS
<1> USE LifecycleAssumption
<1>0. TypeOK /\ OwnKnown
  BY DEF TypeInv
<1>1. CASE UNCHANGED vars
  BY <1>1 DEF vars, IdentityInv, Paired, Writing
<1>2. ASSUME NEW p \in Proc,
             \/ Start(p) \/ Lock(p) \/ GossipLock(p) \/ PrepareSocket(p) \/ PrepareGossip(p)
             \/ Serve(p) \/ Interrupt(p) \/ StopServers(p) \/ UnlinkSocket(p)
      PROVE  IdentityInv'
  BY <1>0, <1>2, MoveIdentity DEF Start, Lock, GossipLock, Acquire, PrepareSocket, PrepareGossip,
     Prepare, Serve, Interrupt, StopServers, UnlinkSocket, Fail, Known
<1>3. ASSUME NEW p \in Proc, Bind(p) \/ ChmodSocket(p) \/ GossipBind(p) \/ ChmodGossip(p)
      PROVE  IdentityInv'
  BY <1>0, <1>3, MoveIdentity DEF Bind, ChmodSocket, GossipBind, ChmodGossip, BindTo, Chmod, Fail,
     Known
<1>4. ASSUME NEW p \in Proc, LoadOrGenerate(p) PROVE IdentityInv'
  <2>1. CASE HasIdentity(IdentityDir[p])
    BY <1>0, <1>4, <2>1, MoveIdentity DEF LoadOrGenerate, Fail, Files, Known
  <2>2. CASE ~HasIdentity(IdentityDir[p])
    <3> DEFINE d == IdentityDir[p]
    <3>1. cert[d] = Missing /\ pinned[d] = {}
      BY <1>0, <2>2 DEF HasIdentity, IdentityInv, Paired, TypeOK
    <3>2. /\ pc[p] \in PastBothLocks /\ Go(p, "keyOpen")
          /\ key' = [key EXCEPT ![d] = Torn]
          /\ \E i \in Identity : own' = [own EXCEPT ![p] = i]
          /\ UNCHANGED <<cert, pinned>>
      BY <1>4, <2>2 DEF LoadOrGenerate, PastBothLocks, PastFirstLock, Starting
    <3>3. key'[d] = Torn /\ Torn # Missing
      BY <1>0, <3>2 DEF TypeOK, Torn, Missing
    <3> QED
      BY <1>0, <3>1, <3>2, <3>3, WriteIdentity DEF TypeOK
  <2> QED
    BY <2>1, <2>2
<1>5. ASSUME NEW p \in Proc, WriteKey(p) PROVE IdentityInv'
  <2> DEFINE d == IdentityDir[p]
  <2>1. /\ pc[p] \in PastBothLocks /\ Go(p, "keyDone")
        /\ key' = [key EXCEPT ![d] = own[p]] /\ UNCHANGED <<own, cert, pinned>>
        /\ cert[d] = Missing
    BY <1>5 DEF WriteKey, PastBothLocks, PastFirstLock, Starting, Generating, IdentityInv, Writing
  <2>2. pinned[d] \subseteq {cert[d]} /\ key'[d] = own[p] /\ Missing \notin Identity
    BY <1>0, <2>1 DEF IdentityInv, Paired, TypeOK
  <2> QED
    BY <1>0, <2>1, <2>2, WriteIdentity DEF TypeOK
<1>6. ASSUME NEW p \in Proc, OpenCert(p) PROVE IdentityInv'
  <2> DEFINE d == IdentityDir[p]
  <2>1. /\ pc[p] \in PastBothLocks /\ Go(p, "certOpen")
        /\ cert' = [cert EXCEPT ![d] = Torn] /\ UNCHANGED <<own, key, pinned>>
        /\ key[d] = own[p] /\ cert[d] = Missing
    BY <1>6 DEF OpenCert, PastBothLocks, PastFirstLock, Starting, Generating, IdentityInv, Writing
  <2>2. own[p] \in Identity /\ pinned[d] = {}
    BY <1>0, <1>6, <2>1 DEF OpenCert, OwnKnown, Known, IdentityInv, Paired, TypeOK
  <2>3. cert'[d] = Torn
    BY <1>0, <2>1 DEF TypeOK
  <2> QED
    BY <1>0, <2>1, <2>2, <2>3, WriteIdentity DEF TypeOK
<1>7. ASSUME NEW p \in Proc, WriteCert(p) PROVE IdentityInv'
  <2> DEFINE d == IdentityDir[p]
  <2>1. /\ pc[p] \in PastBothLocks /\ Go(p, "load")
        /\ cert' = [cert EXCEPT ![d] = own[p]] /\ UNCHANGED <<own, key, pinned>>
        /\ key[d] = own[p] /\ cert[d] = Torn
    BY <1>7 DEF WriteCert, PastBothLocks, PastFirstLock, Starting, Generating, IdentityInv, Writing
  <2>2. own[p] \in Identity /\ pinned[d] = {}
    BY <1>0, <1>7, <2>1 DEF WriteCert, OwnKnown, Known, IdentityInv, Paired, TypeOK
  <2>3. cert'[d] = own[p]
    BY <1>0, <2>1 DEF TypeOK
  <2> QED
    BY <1>0, <2>1, <2>2, <2>3, WriteIdentity DEF TypeOK
<1>8. ASSUME NEW p \in Proc, LoadCert(p) PROVE IdentityInv'
  <2> DEFINE d == IdentityDir[p]
  <2>1. CASE cert[d] \notin Identity
    BY <1>0, <1>8, <2>1, MoveIdentity DEF LoadCert, Fail, Files, Known
  <2>2. CASE cert[d] \in Identity
    <3>1. /\ pc[p] \in PastBothLocks /\ Go(p, "bind")
          /\ own' = [own EXCEPT ![p] = cert[d]] /\ UNCHANGED <<key, cert, pinned>>
      BY <1>8, <2>2 DEF LoadCert, PastBothLocks, PastFirstLock, Starting
    <3>2. pinned[d] \subseteq {cert[d]} /\ key[d] = cert[d]
      BY <1>0, <2>2 DEF IdentityInv, Paired, TypeOK
    <3>3. own'[p] = cert[d]
      BY <1>0, <3>1 DEF TypeOK
    <3> QED
      BY <1>0, <2>2, <3>1, <3>2, <3>3, WriteIdentity DEF TypeOK
  <2> QED
    BY <2>1, <2>2
<1>9. ASSUME NEW p \in Proc, StartJobs(p) PROVE IdentityInv'
  <2> DEFINE d == IdentityDir[p]
  <2>1. CASE Fail(p) /\ UNCHANGED <<loop, pinned>>
    BY <1>0, <1>9, <2>1, MoveIdentity DEF StartJobs, Fail, Files, Known
  <2>2. CASE ~(Fail(p) /\ UNCHANGED <<loop, pinned>>)
    <3>1. /\ pc[p] \in PastBothLocks /\ Go(p, "serve")
          /\ pinned' = [pinned EXCEPT ![d] = @ \cup {own[p]}] /\ UNCHANGED <<own, key, cert>>
          /\ cert[d] = own[p]
      BY <1>9, <2>2 DEF StartJobs, PastBothLocks, PastFirstLock, Starting, IdentityInv, Writing
    <3>2. own[p] \in Identity /\ pinned[d] \subseteq {cert[d]} /\ key[d] = cert[d]
      BY <1>0, <1>9, <3>1 DEF StartJobs, OwnKnown, Known, IdentityInv, Paired, TypeOK
    <3>3. pinned'[d] \subseteq {cert[d]}
      BY <1>0, <3>1, <3>2 DEF TypeOK
    <3>4. cert[d] # Missing => key[d] # Missing
      BY <3>2
    <3> QED
      BY <1>0, <3>1, <3>2, <3>3, <3>4, WriteIdentity DEF TypeOK
  <2> QED
    BY <2>1, <2>2
<1>10. ASSUME NEW p \in Proc, UnlinkGossip(p) \/ Kill(p) PROVE IdentityInv'
  <2>1. /\ pc' = [pc EXCEPT ![p] = "off"] /\ own' = [own EXCEPT ![p] = Missing]
        /\ UNCHANGED <<key, cert, pinned>>
    BY <1>10 DEF UnlinkGossip, Kill, End, Go
  <2>2. Paired'
    BY <2>1 DEF IdentityInv, Paired
  <2>3. Writing'
    BY <1>0, <2>1 DEF IdentityInv, Writing, TypeOK
  <2> QED
    BY <2>2, <2>3 DEF IdentityInv
<1>11. ASSUME NEW a \in Path, PutFile(a) \/ TakeFile(a) PROVE IdentityInv'
  BY <1>11 DEF PutFile, TakeFile, Files, IdentityInv, Paired, Writing
<1> QED
  BY <1>1, <1>2, <1>3, <1>4, <1>5, <1>6, <1>7, <1>8, <1>9, <1>10, <1>11 DEF Next, Main

LEMMA IdentitySafe == Spec => []IdentityInv
<1>1. Init => TypeInv /\ SocketInv /\ IdentityInv
  BY TypeInit, SocketInit, IdentityInit
<1>2. TypeInv /\ SocketInv /\ IdentityInv /\ [Next]_vars => (TypeInv /\ SocketInv /\ IdentityInv)'
  BY TypeStep, SocketStep, IdentityStep DEF TypeInv
<1> QED
  BY <1>1, <1>2, PTL DEF Spec

\* The certificate on disk is that of the key beside it, wherever in the
\* writing of the two a relay was killed.
THEOREM PairsMatch == Spec => []PairMatches
<1>1. IdentityInv => PairMatches
  BY DEF IdentityInv, Paired, PairMatches
<1> QED
  BY <1>1, IdentitySafe, PTL

\* A directory never serves a second identity.
THEOREM OneIdentity == Spec => []IdentityStable
<1>1. ASSUME IdentityInv PROVE IdentityStable
  <2> SUFFICES ASSUME NEW d \in Dir PROVE Cardinality(pinned[d]) <= 1
    BY DEF IdentityStable
  <2>1. pinned[d] = {} \/ pinned[d] = {cert[d]}
    BY <1>1 DEF IdentityInv, Paired
  <2>2. Cardinality({}) = 0 /\ Cardinality({cert[d]}) = 1
    BY FS_EmptySet, FS_Singleton
  <2> QED
    BY <2>1, <2>2
<1> QED
  BY <1>1, IdentitySafe, PTL

-----------------------------------------------------------------------------
\* What a start may break off for.

\* Who holds a lock is running, was told that path, and has come past the lock.
Holders ==
    \A a \in Path : \A p \in lock[a] :
        /\ pc[p] \notin {"off", "lock"} /\ a \in PathsOf(p)
        /\ pc[p] \in {"prepare", "gossipLock"} => a = SocketPath[p]

\* There is a certificate to load.
CertToLoad == \A p \in Proc : pc[p] = "load" => cert[IdentityDir[p]] # Missing

\* What is to be chmodded has been bound.
ToChmod ==
    \A p \in Proc :
        /\ pc[p] = "chmod" => SocketPath[p] \in bound[p]
        /\ pc[p] = "gossipChmod" => GossipPath[p] \in bound[p]

StartInv == Holders /\ CertToLoad /\ ToChmod

LEMMA StartInit == Init => StartInv
BY DEF Init, StartInv, Holders, CertToLoad, ToChmod

LEMMA StartStep == TypeInv /\ StartInv /\ [Next]_vars => StartInv'
<1> SUFFICES ASSUME TypeInv, StartInv, [Next]_vars
             PROVE  StartInv'
  OBVIOUS
<1> USE LifecycleAssumption
<1>0. TypeOK /\ OwnKnown
  BY DEF TypeInv
<1>go. ASSUME NEW p \in Proc, NEW l, Go(p, l), UNCHANGED <<lock, cert, bound>>,
              l \notin {"chmod", "gossipChmod"},
              l \notin {"off", "lock", "prepare", "gossipLock", "load"}
                \/ (pc[p] = "off" /\ l = "lock") \/ (pc[p] = "prepare" /\ l = "gossipLock"),
              pc[p] = "off" => l \in {"lock", "stop"}
       PROVE  StartInv'
  BY <1>0, <1>go DEF Go, StartInv, Holders, CertToLoad, ToChmod, TypeOK
<1>1. CASE UNCHANGED vars
  BY <1>1 DEF vars, StartInv, Holders, CertToLoad, ToChmod
<1>2. ASSUME NEW p \in Proc,
             \/ Start(p) \/ PrepareSocket(p) \/ PrepareGossip(p) \/ WriteKey(p)
             \/ ChmodSocket(p) \/ ChmodGossip(p) \/ StartJobs(p) \/ Serve(p) \/ Interrupt(p)
             \/ StopServers(p) \/ UnlinkSocket(p)
      PROVE  StartInv'
  BY <1>2, <1>go DEF Start, PrepareSocket, PrepareGossip, Prepare, WriteKey, ChmodSocket,
     ChmodGossip, Chmod, StartJobs, Serve, Interrupt, StopServers, UnlinkSocket, Fail, Files, Starting, Generating
<1>bind. ASSUME NEW p \in Proc, Bind(p) \/ GossipBind(p) PROVE StartInv'
  <2>1. CASE Fail(p) /\ UNCHANGED <<lock, cert, bound>>
    BY <1>bind, <2>1, <1>go DEF Fail, Bind, GossipBind
  <2>2. CASE ~(Fail(p) /\ UNCHANGED <<lock, cert, bound>>)
    <3> DEFINE a == IF pc[p] = "bind" THEN SocketPath[p] ELSE GossipPath[p]
               next == IF pc[p] = "bind" THEN "chmod" ELSE "gossipChmod"
    <3>1. /\ bound' = [bound EXCEPT ![p] = @ \cup {a}] /\ pc' = [pc EXCEPT ![p] = next]
          /\ UNCHANGED <<lock, cert>> /\ pc[p] \in {"bind", "gossipBind"}
      BY <1>bind, <2>2 DEF Bind, GossipBind, BindTo, Go, Files
    <3> QED
      BY <1>0, <3>1 DEF StartInv, Holders, CertToLoad, ToChmod, TypeOK
  <2> QED
    BY <2>1, <2>2
<1>3. ASSUME NEW p \in Proc, Lock(p) \/ GossipLock(p) PROVE StartInv'
  <2> DEFINE a == IF pc[p] = "lock" THEN SocketPath[p] ELSE GossipPath[p]
             next == IF pc[p] = "lock" THEN "prepare" ELSE "gossipPrepare"
  <2>1. Acquire(p, a, next) /\ pc[p] \in {"lock", "gossipLock"} /\ a \in Path
    BY <1>3 DEF Lock, GossipLock
  <2>2. CASE lock[a] # {}
    BY <2>1, <2>2, <1>go DEF Acquire, Fail, Files
  <2>3. CASE lock[a] = {}
    <3>1. /\ lock' = [lock EXCEPT ![a] = {p}] /\ pc' = [pc EXCEPT ![p] = next]
          /\ UNCHANGED <<cert, bound>>
      BY <2>1, <2>3 DEF Acquire, Go, Files
    <3> QED
      BY <1>0, <2>1, <3>1 DEF StartInv, Holders, CertToLoad, ToChmod, PathsOf, TypeOK
  <2> QED
    BY <2>2, <2>3
<1>4. ASSUME NEW p \in Proc, LoadOrGenerate(p) PROVE StartInv'
  <2>1. CASE pc' = [pc EXCEPT ![p] = "load"] /\ HasIdentity(IdentityDir[p])
    BY <1>0, <1>4, <2>1 DEF LoadOrGenerate, HasIdentity, StartInv, Holders, CertToLoad, ToChmod, TypeOK
  <2>2. CASE Fail(p) \/ Go(p, "keyOpen")
    BY <1>4, <2>2, <1>go DEF LoadOrGenerate, Fail
  <2> QED
    BY <1>4, <2>1, <2>2 DEF LoadOrGenerate, Go
<1>5. ASSUME NEW p \in Proc, OpenCert(p) \/ WriteCert(p) PROVE StartInv'
  <2>1. /\ UNCHANGED <<lock, bound>>
        /\ \/ pc' = [pc EXCEPT ![p] = "certOpen"] \/ pc' = [pc EXCEPT ![p] = "load"]
        /\ \E c \in Identity \cup {Torn} : cert' = [cert EXCEPT ![IdentityDir[p]] = c]
        /\ pc[p] \in {"keyDone", "certOpen"}
    BY <1>0, <1>5 DEF OpenCert, WriteCert, Go, OwnKnown, Known
  <2>2. \A c \in Identity \cup {Torn} : c # Missing
    BY DEF Torn, Missing
  <2> QED
    BY <1>0, <2>1, <2>2 DEF StartInv, Holders, CertToLoad, ToChmod, TypeOK
<1>6. ASSUME NEW p \in Proc, LoadCert(p) PROVE StartInv'
  BY <1>6, <1>go DEF LoadCert, Fail
<1>7. ASSUME NEW p \in Proc, UnlinkGossip(p) \/ Kill(p) PROVE StartInv'
  <2>1. /\ pc' = [pc EXCEPT ![p] = "off"] /\ lock' = [a \in Path |-> lock[a] \ {p}]
        /\ bound' = [bound EXCEPT ![p] = {}] /\ UNCHANGED cert
    BY <1>7 DEF UnlinkGossip, Kill, End, Go
  <2>2. Holders'
    BY <1>0, <2>1 DEF StartInv, Holders, TypeOK
  <2>3. CertToLoad' /\ ToChmod'
    BY <1>0, <2>1 DEF StartInv, CertToLoad, ToChmod, TypeOK
  <2> QED
    BY <2>2, <2>3 DEF StartInv
<1>8. ASSUME NEW a \in Path, PutFile(a) \/ TakeFile(a) PROVE StartInv'
  BY <1>8 DEF PutFile, TakeFile, Files, StartInv, Holders, CertToLoad, ToChmod
<1> QED
  BY <1>1, <1>2, <1>bind, <1>3, <1>4, <1>5, <1>6, <1>7, <1>8 DEF Next, Main

LEMMA StartSafe == Spec => [](TypeInv /\ SocketInv /\ IdentityInv /\ StartInv)
<1>1. Init => TypeInv /\ SocketInv /\ IdentityInv /\ StartInv
  BY TypeInit, SocketInit, IdentityInit, StartInit
<1>2. TypeInv /\ SocketInv /\ IdentityInv /\ StartInv /\ [Next]_vars
        => (TypeInv /\ SocketInv /\ IdentityInv /\ StartInv)'
  BY TypeStep, SocketStep, IdentityStep, StartStep DEF TypeInv
<1> QED
  BY <1>1, <1>2, PTL DEF Spec

\* Why a start of p may break off.
Blocked(p) ==
    \/ \E q \in Proc \ {p} : pc[q] # "off" /\ PathsOf(q) \cap PathsOf(p) # {}
    \/ \E a \in PathsOf(p) : file[a] = Regular
    \/ cert[IdentityDir[p]] = Torn
    \/ \E a \in bound[p] : file[a] # Socket(p)

\* The lock that is refused is held by another process.
LEMMA RefusedLock ==
    ASSUME TypeOK, StartInv, NEW p \in Proc, Lock(p) \/ GossipLock(p), pc'[p] = "stop"
    PROVE  Blocked(p)
<1> DEFINE a == IF pc[p] = "lock" THEN SocketPath[p] ELSE GossipPath[p]
<1>1. pc[p] \in {"lock", "gossipLock"} /\ a \in Path /\ a \in PathsOf(p)
  BY LifecycleAssumption DEF Lock, GossipLock, PathsOf
<1>2. lock[a] # {}
  BY DEF Lock, GossipLock, Acquire, Go, TypeOK
<1>3. PICK q \in lock[a] : q \in Proc
  BY <1>1, <1>2 DEF TypeOK
<1>4. q # p
  BY <1>1, <1>3, LifecycleAssumption DEF StartInv, Holders
<1>5. pc[q] # "off" /\ a \in PathsOf(q)
  BY <1>1, <1>3 DEF StartInv, Holders
<1> QED
  BY <1>1, <1>3, <1>4, <1>5 DEF Blocked

LEMMA RefusedStart ==
    ASSUME TypeInv, SocketInv, IdentityInv, StartInv, NEW p \in Proc,
           pc[p] \in Starting \ {"jobs"}, pc'[p] = "stop", Main(p)
    PROVE  Blocked(p)
<1> USE LifecycleAssumption DEF Go
<1> DEFINE d == IdentityDir[p]
<1>0. TypeOK /\ OwnKnown /\ d \in Dir
  BY DEF TypeInv
<1>1. CASE Lock(p) \/ GossipLock(p)
  BY <1>0, <1>1, RefusedLock
<1>2. CASE PrepareSocket(p) \/ PrepareGossip(p)
  BY <1>0, <1>2 DEF PrepareSocket, PrepareGossip, Prepare, Blocked, PathsOf, TypeOK
<1>3. CASE LoadOrGenerate(p)
  <2>1. key[d] = Torn /\ cert[d] # Missing
    BY <1>0, <1>3 DEF LoadOrGenerate, HasIdentity, TypeOK
  <2>2. cert[d] \notin Identity
    BY <1>0, <2>1 DEF IdentityInv, Paired
  <2> QED
    BY <1>0, <2>1, <2>2 DEF Blocked, TypeOK
<1>4. CASE LoadCert(p)
  <2>1. pc[p] = "load" /\ cert[d] \notin Identity
    BY <1>0, <1>4 DEF LoadCert, TypeOK
  <2> QED
    BY <1>0, <2>1 DEF StartInv, CertToLoad, Blocked, TypeOK
<1>5. CASE Bind(p)
  <2>1. pc[p] = "bind" /\ file[SocketPath[p]] # Absent
    BY <1>0, <1>5 DEF Bind, BindTo, TypeOK
  <2>2. file[SocketPath[p]] \notin Sockets
    BY <2>1 DEF SocketInv, BindFindsNoSocket, Starting
  <2> QED
    BY <1>0, <2>1, <2>2 DEF Blocked, PathsOf, TypeOK
<1>6. CASE GossipBind(p)
  <2>1. pc[p] = "gossipBind" /\ key[d] = cert[d]
    BY <1>0, <1>6 DEF GossipBind, IdentityInv, Writing, Paired, OwnKnown, Known
  <2>2. file[GossipPath[p]] # Absent
    BY <1>0, <1>6, <2>1 DEF GossipBind, BindTo, TypeOK
  <2>3. file[GossipPath[p]] \notin Sockets
    BY <2>1 DEF SocketInv, BindFindsNoSocket
  <2> QED
    BY <1>0, <2>2, <2>3 DEF Blocked, PathsOf, TypeOK
<1>chmod. CASE ChmodSocket(p) \/ ChmodGossip(p)
  <2> DEFINE a == IF pc[p] = "chmod" THEN SocketPath[p] ELSE GossipPath[p]
  <2>1. a \in bound[p]
    BY <1>chmod DEF ChmodSocket, ChmodGossip, StartInv, ToChmod
  <2>2. file[a] = Absent
    BY <1>0, <1>chmod DEF ChmodSocket, ChmodGossip, Chmod, TypeOK
  <2> QED
    BY <2>1, <2>2, SocketFacts DEF Blocked
<1>7. CASE \/ WriteKey(p) \/ OpenCert(p) \/ WriteCert(p) \/ StartJobs(p) \/ Serve(p)
           \/ StopServers(p) \/ UnlinkSocket(p) \/ UnlinkGossip(p)
  BY <1>0, <1>7 DEF WriteKey, OpenCert, WriteCert, StartJobs, Serve, StopServers, UnlinkSocket,
     UnlinkGossip, End, TypeOK, Starting, Generating
<1> QED
  BY <1>1, <1>2, <1>3, <1>4, <1>5, <1>6, <1>chmod, <1>7 DEF Main

\* A start breaks off only for another relay that runs, for a file that is no
\* socket, for a torn certificate, or for a socket of its own that another's
\* finally has removed: nothing else a crash leaves is in its way.
THEOREM StartsUnblocked == Spec => StartsUnlessBlocked
<1>1. ASSUME TypeInv, SocketInv, IdentityInv, StartInv
      PROVE  \A p \in Proc :
               pc[p] \in Starting \ {"jobs"} /\ pc'[p] = "stop" /\ Main(p) =>
                 \/ \E q \in Proc \ {p} : pc[q] # "off" /\ PathsOf(q) \cap PathsOf(p) # {}
                 \/ \E a \in PathsOf(p) : file[a] = Regular
                 \/ cert[IdentityDir[p]] = Torn
                 \/ \E a \in bound[p] : file[a] # Socket(p)
  BY <1>1, RefusedStart DEF Blocked
<1> QED
  BY <1>1, StartSafe, PTL DEF StartsUnlessBlocked

=============================================================================
