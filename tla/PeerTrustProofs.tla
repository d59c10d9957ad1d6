--------------------------- MODULE PeerTrustProofs --------------------------
(***************************************************************************)
(* Theorems about PeerTrust, for every set of peers and of connections,    *)
(* every number of slots and pool threads, and every way in which the      *)
(* blacklist is edited while they are at work.                             *)
(***************************************************************************)
EXTENDS PeerTrust, FiniteSetTheorems, TLAPS

-----------------------------------------------------------------------------
\* Counting slots.

Open == {c \in Conn : conn[c] # Closed}

LEMMA OpenIsFinite == IsFiniteSet(Open) /\ Cardinality(Open) \in Nat
BY PeerTrustAssumption, FS_Subset, FS_CardinalityType DEF Open

\* Types, and the count of the slots: free stays within them because of it.
SlotInv == TypeOK /\ SlotsConserved

LEMMA ConnTypes ==
    ASSUME TypeOK, NEW c \in Conn
    PROVE  /\ conn[c].pc \in Holding \cup {"closed"} /\ conn[c].who \in Peer \cup {Stranger}
           /\ conn[c].pc \in Holding => c \in Open
BY DEF TypeOK, Open, Closed, Holding

\* A connection that was closed and no longer is takes one.
LEMMA OneMore ==
    ASSUME SlotsConserved, free \in Nat, NEW c \in Conn, c \notin Open,
           Open' = Open \cup {c}, free > 0, free' = free - 1
    PROVE  SlotsConserved' /\ free' \in Nat
<1>1. Cardinality(Open') = Cardinality(Open) + 1
  BY OpenIsFinite, FS_AddElement
<1> QED
  BY <1>1, OpenIsFinite DEF SlotsConserved, Open

\* One that was open and no longer is gives it back.
LEMMA OneLess ==
    ASSUME SlotsConserved, free \in Nat, NEW c \in Conn, c \in Open,
           Open' = Open \ {c}, free' = free + 1
    PROVE  SlotsConserved' /\ free' \in Nat
<1>1. Cardinality(Open') = Cardinality(Open) - 1
  BY OpenIsFinite, FS_RemoveElement
<1> QED
  BY <1>1, OpenIsFinite DEF SlotsConserved, Open

\* One that stays open keeps it.
LEMMA AsMany ==
    ASSUME SlotsConserved, Open' = Open, free' = free
    PROVE  SlotsConserved'
BY DEF SlotsConserved, Open

LEMMA FreeInRange ==
    ASSUME SlotsConserved', free' \in Nat, IsFiniteSet(Open'), Cardinality(Open') \in Nat
    PROVE  free' \in 0 .. Slots
BY PeerTrustAssumption DEF SlotsConserved, Open

LEMMA OpenIsFiniteNext == IsFiniteSet(Open') /\ Cardinality(Open') \in Nat
<1>1. Open' \in SUBSET Conn
  BY DEF Open
<1> QED
  BY <1>1, PeerTrustAssumption, FS_Subset, FS_CardinalityType

-----------------------------------------------------------------------------
\* What each step does to a connection.

Rest == [Conn -> SUBSET {"trusted", "revoked", "unreadable"}]

LEMMA StandingType ==
    ASSUME NEW q, NEW l, NEW b
    PROVE  Standing(q, l, b) \in {"trusted", "revoked", "unreadable"}
BY DEF Standing

LEMMA BecomeType ==
    ASSUME SlotInv, NEW c \in Conn, NEW pc \in Holding, conn[c].pc \in Holding,
           Become(c, pc), UNCHANGED <<free, status, file, outbound>>
    PROVE  SlotInv'
<1>1. conn' \in [Conn -> [pc : Holding \cup {"closed"}, who : Peer \cup {Stranger}]]
  BY DEF Become, SlotInv, TypeOK
<1>2. Open' = Open
  <2>1. \A d \in Conn : d # c => conn'[d] = conn[d]
    BY DEF Become, SlotInv, TypeOK
  <2>2. conn'[c].pc = pc
    BY DEF Become, SlotInv, TypeOK
  <2>3. conn'[c] # Closed /\ conn[c] # Closed
    BY <2>2 DEF Closed, Holding
  <2> QED
    BY <2>1, <2>3 DEF Open
<1> QED
  BY <1>1, <1>2, AsMany DEF SlotInv, TypeOK, file, outbound

LEMMA CloseType ==
    ASSUME SlotInv, NEW c \in Conn, conn[c].pc \in Holding,
           conn' = [conn EXCEPT ![c] = Closed], free' = free + 1,
           UNCHANGED <<status, file, outbound>>
    PROVE  SlotInv'
<1>1. conn' \in [Conn -> [pc : Holding \cup {"closed"}, who : Peer \cup {Stranger}]]
  BY DEF Closed, SlotInv, TypeOK
<1>2. c \in Open
  BY ConnTypes DEF SlotInv
<1>3. Open' = Open \ {c}
  BY DEF Open, SlotInv, TypeOK
<1>4. free \in Nat
  BY DEF SlotInv, TypeOK
<1>5. SlotsConserved' /\ free' \in Nat
  BY <1>2, <1>3, <1>4, OneLess DEF SlotInv
<1>6. free' \in 0 .. Slots
  BY <1>5, FreeInRange, OpenIsFiniteNext
<1> QED
  BY <1>1, <1>5, <1>6 DEF SlotInv, TypeOK, file, outbound

LEMMA AcceptType ==
    ASSUME SlotInv, NEW c \in Conn, NEW q \in Caller, Accept(c, q)
    PROVE  SlotInv'
<1> DEFINE new == [pc |-> "spawn", who |-> q]
<1>1. new \in [pc : Holding \cup {"closed"}, who : Peer \cup {Stranger}] /\ new # Closed
  <2>1. new.pc # Closed.pc
    BY DEF Closed
  <2> QED
    BY <2>1, PeerTrustAssumption DEF Holding
<1>2. conn' \in [Conn -> [pc : Holding \cup {"closed"}, who : Peer \cup {Stranger}]]
  BY <1>1 DEF Accept, SlotInv, TypeOK
<1>3. c \notin Open /\ Open' = Open \cup {c}
  BY <1>1 DEF Accept, Open, SlotInv, TypeOK
<1>4. free \in Nat
  BY DEF SlotInv, TypeOK
<1>5. SlotsConserved' /\ free' \in Nat
  BY <1>3, <1>4, OneMore DEF SlotInv, Accept
<1>6. free' \in 0 .. Slots
  BY <1>5, FreeInRange, OpenIsFiniteNext
<1>7. status' \in Rest
  BY DEF Accept, Standing, Rest, SlotInv, TypeOK
<1> QED
  BY <1>2, <1>5, <1>6, <1>7 DEF SlotInv, TypeOK, Accept, file, outbound, Rest

LEMMA ConnectionType ==
    ASSUME SlotInv, NEW c \in Conn, Connection(c)
    PROVE  SlotInv'
<1>1. CASE \E q \in Caller : Accept(c, q)
  BY <1>1, AcceptType
<1>2. CASE Spawn(c)
  <2>1. conn[c].pc \in Holding
    BY <1>2 DEF Spawn, Holding
  <2>2. CASE Become(c, "handshake") /\ UNCHANGED <<free, status>>
    BY <1>2, <2>1, <2>2, BecomeType DEF Spawn, Holding
  <2>3. CASE conn' = [conn EXCEPT ![c] = Closed] /\ free' = free + 1 /\ UNCHANGED status
    BY <1>2, <2>1, <2>3, CloseType DEF Spawn
  <2> QED
    BY <1>2, <2>2, <2>3 DEF Spawn
<1>3. CASE Handshake(c)
  BY <1>3, BecomeType DEF Handshake, Holding
<1>4. CASE Check(c)
  BY <1>4, BecomeType DEF Check, Holding
<1>5. CASE Release(c)
  BY <1>5, CloseType DEF Release, Holding
<1> QED
  BY <1>1, <1>2, <1>3, <1>4, <1>5 DEF Connection

-----------------------------------------------------------------------------
\* The other steps leave connections and slots alone.

LEMMA SlotsUntouched ==
    ASSUME SlotInv, TypeOK', UNCHANGED <<conn, free>>
    PROVE  SlotInv'
BY DEF SlotInv, SlotsConserved

LEMMA EditType ==
    ASSUME SlotInv, BeginEdit \/ EndEdit
    PROVE  SlotInv'
<1>1. listed' \in SUBSET Peer /\ broken' \in BOOLEAN
  BY DEF BeginEdit, EndEdit, SlotInv, TypeOK
<1>2. Witnessed
  BY DEF BeginEdit, EndEdit
<1>3. \A c \in Conn :
         status[c] \cup {Standing(conn[c].who, listed', broken')}
           \in SUBSET {"trusted", "revoked", "unreadable"}
  BY StandingType DEF SlotInv, TypeOK
<1>4. status' \in Rest
  BY <1>2, <1>3 DEF Witnessed, Rest, SlotInv, TypeOK
<1> QED
  BY <1>1, <1>4, SlotsUntouched DEF BeginEdit, EndEdit, SlotInv, TypeOK, outbound, Rest

LEMMA FanoutType ==
    ASSUME SlotInv, Fanout
    PROVE  SlotInv'
<1>1. PICK s \in Orders(ActivePeers) : queue' = queue \o s
  BY DEF Fanout
<1>2. Cardinality(ActivePeers) \in Nat
  BY PeerTrustAssumption, FS_Subset, FS_CardinalityType DEF ActivePeers
<1>3. s \in [1 .. Cardinality(ActivePeers) -> Peer]
  BY <1>1 DEF Orders, ActivePeers
<1>a. s \in Seq(Peer)
  BY <1>2, <1>3
<1>4. queue' \in Seq(Peer)
  BY <1>1, <1>a DEF SlotInv, TypeOK
<1> QED
  BY <1>4, SlotsUntouched DEF Fanout, SlotInv, TypeOK, file, inbound

LEMMA PoolType ==
    ASSUME SlotInv, NEW w \in Worker, Pool(w)
    PROVE  SlotInv'
<1>1. pushing' \in [Worker -> SUBSET Peer] /\ queue' \in Seq(Peer)
  <2>1. CASE TakePush(w)
    <3>1. Head(queue) \in Peer /\ Tail(queue) \in Seq(Peer)
      BY <2>1 DEF TakePush, SlotInv, TypeOK
    <3> QED
      BY <2>1, <3>1 DEF TakePush, SlotInv, TypeOK
  <2>2. CASE EndPush(w)
    BY <2>2 DEF EndPush, SlotInv, TypeOK
  <2> QED
    BY <2>1, <2>2 DEF Pool
<1> QED
  BY <1>1, SlotsUntouched DEF Pool, TakePush, EndPush, SlotInv, TypeOK, file, inbound

LEMMA AntiEntropyType ==
    ASSUME SlotInv, AntiEntropy
    PROVE  SlotInv'
<1>1. loop' \in [pc : {"wait", "round", "dead"}, todo : SUBSET Peer]
  BY DEF AntiEntropy, BeginRound, Sync, EndRound, ActivePeers, SlotInv, TypeOK
<1> QED
  BY <1>1, SlotsUntouched
     DEF AntiEntropy, BeginRound, Sync, EndRound, SlotInv, TypeOK, file, inbound

LEMMA SlotInit == Init => SlotInv
<1> SUFFICES ASSUME Init PROVE SlotInv
  OBVIOUS
<1>1. Open = {}
  BY DEF Init, Open
<1>2. Cardinality(Open) = 0
  BY <1>1, FS_EmptySet
<1>3. SlotsConserved
  BY <1>2, PeerTrustAssumption DEF Init, SlotsConserved, Open
<1>4. Closed \in [pc : Holding \cup {"closed"}, who : Peer \cup {Stranger}]
  BY DEF Closed
<1>5. conn \in [Conn -> [pc : Holding \cup {"closed"}, who : Peer \cup {Stranger}]]
  BY <1>4 DEF Init
<1>6. queue \in Seq(Peer) /\ free \in 0 .. Slots
  BY PeerTrustAssumption DEF Init
<1> QED
  BY <1>3, <1>5, <1>6 DEF SlotInv, TypeOK, Init, Trusted

LEMMA SlotStep == SlotInv /\ [Next]_vars => SlotInv'
<1> SUFFICES ASSUME SlotInv, [Next]_vars PROVE SlotInv'
  OBVIOUS
<1>1. CASE UNCHANGED vars
  BY <1>1 DEF vars, SlotInv, TypeOK, SlotsConserved
<1> QED
  BY <1>1, ConnectionType, EditType, FanoutType, PoolType, AntiEntropyType DEF Next

\* No slot is lost and none is given back twice, whichever way connections
\* end (process_request, process_request_thread).
THEOREM SlotsHold == Spec => []SlotsConserved
<1>1. SlotInv => SlotsConserved
  BY DEF SlotInv
<1> QED
  BY <1>1, SlotInit, SlotStep, PTL DEF Spec

\* Every variable keeps its type.
THEOREM TypeCorrect == Spec => []TypeOK
<1>1. SlotInv => TypeOK
  BY DEF SlotInv
<1> QED
  BY <1>1, SlotInit, SlotStep, PTL DEF Spec

-----------------------------------------------------------------------------
\* The blacklist at the door.

\* An open connection has seen how its caller stands now.
NowWitnessed ==
    \A c \in Conn : conn[c] # Closed => Standing(conn[c].who, listed, broken) \in status[c]

\* It was turned away for what it has seen.
Caused ==
    \A c \in Conn :
        conn[c].pc = "refused" /\ conn[c].who \in Peer
          => status[c] \cap {"revoked", "unreadable"} # {}

DoorInv == NowWitnessed /\ RevokedAtTheDoor /\ Caused /\ pinned = Peer

LEMMA DoorInit == Init => DoorInv
BY DEF Init, DoorInv, NowWitnessed, RevokedAtTheDoor, Caused, Closed, Trusted

\* A connection moves on: the others stay as they are.
LEMMA DoorBecome ==
    ASSUME TypeOK, DoorInv, NEW c \in Conn, NEW pc \in Holding,
           conn[c] # Closed, Become(c, pc), UNCHANGED <<free, status, file, outbound>>,
           pc = "handle" => "trusted" \in status[c],
           pc = "refused" /\ conn[c].who \in Peer
             => status[c] \cap {"revoked", "unreadable"} # {}
    PROVE  DoorInv'
<1>1. /\ conn'[c].pc = pc /\ conn'[c].who = conn[c].who
      /\ \A d \in Conn : d # c => conn'[d] = conn[d]
  BY DEF Become, TypeOK
<1> QED
  BY <1>1 DEF DoorInv, NowWitnessed, RevokedAtTheDoor, Caused, file

LEMMA DoorClose ==
    ASSUME TypeOK, DoorInv, NEW c \in Conn, conn' = [conn EXCEPT ![c] = Closed],
           UNCHANGED <<status, file, outbound>>
    PROVE  DoorInv'
<1>1. conn'[c] = Closed /\ \A d \in Conn : d # c => conn'[d] = conn[d]
  BY DEF TypeOK
<1> QED
  BY <1>1 DEF DoorInv, NowWitnessed, RevokedAtTheDoor, Caused, Closed, file

LEMMA DoorEdit ==
    ASSUME TypeOK, DoorInv, BeginEdit \/ EndEdit
    PROVE  DoorInv'
<1>1. /\ UNCHANGED <<conn, pinned>>
      /\ \A c \in Conn : conn[c] # Closed =>
           status'[c] = status[c] \cup {Standing(conn[c].who, listed', broken')}
      /\ \A c \in Conn : status[c] \subseteq status'[c]
  BY DEF BeginEdit, EndEdit, Witnessed, TypeOK
<1>2. NowWitnessed'
  BY <1>1 DEF NowWitnessed
<1>3. RevokedAtTheDoor' /\ Caused'
  BY <1>1 DEF DoorInv, RevokedAtTheDoor, Caused
<1> QED
  BY <1>1, <1>2, <1>3 DEF DoorInv

LEMMA DoorConnection ==
    ASSUME TypeOK, DoorInv, NEW c \in Conn, Connection(c)
    PROVE  DoorInv'
<1>1. CASE \E q \in Caller : Accept(c, q)
  <2>1. PICK q \in Caller : Accept(c, q)
    BY <1>1
  <2>2. /\ conn'[c].pc = "spawn" /\ conn'[c].who = q
        /\ status'[c] = {Standing(q, listed, broken)}
        /\ \A d \in Conn : d # c => conn'[d] = conn[d] /\ status'[d] = status[d]
    BY <2>1 DEF Accept, TypeOK
  <2> QED
    BY <2>1, <2>2 DEF Accept, DoorInv, NowWitnessed, RevokedAtTheDoor, Caused, file
<1>2. CASE Spawn(c)
  <2>1. conn[c] # Closed
    BY <1>2 DEF Spawn, Closed
  <2> QED
    BY <1>2, <2>1, DoorBecome, DoorClose DEF Spawn, Holding
<1>3. CASE Handshake(c)
  <2>1. conn[c] # Closed
    BY <1>3 DEF Handshake, Closed
  <2> QED
    BY <1>3, <2>1, DoorBecome DEF Handshake, Holding, DoorInv
<1>4. CASE Check(c)
  <2>1. conn[c] # Closed
    BY <1>4 DEF Check, Closed
  <2>2. Standing(conn[c].who, listed, broken) \in status[c]
    BY <2>1 DEF DoorInv, NowWitnessed
  <2>3. Admitted(conn[c].who) => "trusted" \in status[c]
    BY <2>2 DEF Admitted, Standing
  <2>4. ~Admitted(conn[c].who) => status[c] \cap {"revoked", "unreadable"} # {}
    BY <2>2 DEF Admitted, Standing
  <2> QED
    BY <1>4, <2>1, <2>3, <2>4, DoorBecome DEF Check, Holding
<1>5. CASE Release(c)
  BY <1>5, DoorClose DEF Release
<1> QED
  BY <1>1, <1>2, <1>3, <1>4, <1>5 DEF Connection

LEMMA DoorStep == TypeOK /\ DoorInv /\ [Next]_vars => DoorInv'
<1> SUFFICES ASSUME TypeOK, DoorInv, [Next]_vars PROVE DoorInv'
  OBVIOUS
<1>1. CASE UNCHANGED <<conn, status, listed, broken, pinned>>
  BY <1>1 DEF DoorInv, NowWitnessed, RevokedAtTheDoor, Caused
<1>2. Fanout \/ AntiEntropy \/ (\E w \in Worker : Pool(w)) \/ UNCHANGED vars
        => UNCHANGED <<conn, status, listed, broken, pinned>>
  BY DEF Fanout, AntiEntropy, BeginRound, Sync, EndRound, Pool, TakePush, EndPush, vars,
         file, inbound
<1> QED
  BY <1>1, <1>2, DoorEdit, DoorConnection DEF Next

\* A revocation bars every connection made after it, in whatever order the
\* edits, handshakes and checks of any number of connections fall.
THEOREM RevocationBars == Spec => []RevokedAtTheDoor
<1>1. DoorInv => RevokedAtTheDoor
  BY DEF DoorInv
<1> QED
  BY <1>1, DoorInit, DoorStep, TypeCorrect, PTL DEF Spec

\* And only a revocation, or a file that could not be read, turns a
\* configured peer away.
THEOREM RestorationWorks == Spec => []RefusedForCause
<1>1. DoorInv => RefusedForCause
  BY DEF DoorInv, Caused, RefusedForCause
<1> QED
  BY <1>1, DoorInit, DoorStep, TypeCorrect, PTL DEF Spec

=============================================================================
