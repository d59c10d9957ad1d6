---------------------------- MODULE RelayProofs ----------------------------
(***************************************************************************)
(* Theorems about Relay, for every number of threads, every set of         *)
(* messages and keys, every quota and every bound.                         *)
(***************************************************************************)
EXTENDS Relay, RelayDbProofs, FiniteSetTheorems

-----------------------------------------------------------------------------
\* The sweep leaves a database.

LEMMA SweptDbType ==
    ASSUME NEW d \in Database, NEW t \in Int
    PROVE  SweptDb(d, t) \in Database
BY DEF SweptDb, Database

-----------------------------------------------------------------------------
\* What a thread's pc says of the data it carries.

LEMMA TaskByPc ==
    ASSUME NEW t \in Task
    PROVE  /\ t.pc \in {"dedup", "quota", "validate", "resolveRead"} => t \in PublishTask
           /\ t.pc = "search" => t \in SearchTask
           /\ t.pc = "resolveWrite" => t \in ResolveTask
           /\ t.pc = "insert" => t \in InsertTask
           /\ t.pc = "fanout" => t \in FanoutTask
           /\ t.pc = "delete" => t \in DeleteTask
BY DEF Task, Idle, PublishTask, SearchTask, ResolveTask, InsertTask, FanoutTask, DeleteTask

LEMMA AdvanceType ==
    ASSUME NEW t \in PublishTask,
           NEW pc \in {"dedup", "quota", "validate", "resolveRead"}
    PROVE  [t EXCEPT !.pc = pc] \in Task
BY DEF PublishTask, Task

LEMMA GoToType ==
    ASSUME task \in [Worker -> Task], NEW w \in Worker, NEW t \in Task, GoTo(w, t)
    PROVE  task' \in [Worker -> Task]
BY DEF GoTo

LEMMA AnswerType ==
    ASSUME task \in [Worker -> Task], NEW w \in Worker, Answer(w)
    PROVE  task' \in [Worker -> Task]
BY GoToType DEF Answer, Task

LEMMA ThenFanoutType ==
    ASSUME task \in [Worker -> Task], NEW w \in Worker, NEW path \in Path,
           task[w].sig \in Sig, ThenFanout(w, path)
    PROVE  task' \in [Worker -> Task]
<1>1. [pc |-> "fanout", sig |-> task[w].sig, path |-> path] \in Task
  BY DEF Task, FanoutTask
<1> QED
  BY <1>1, GoToType DEF ThenFanout

LEMMA CountUp ==
    ASSUME NEW f \in [Sig -> Nat], NEW s \in Sig
    PROVE  [f EXCEPT ![s] = @ + 1] \in [Sig -> Nat]
OBVIOUS

-----------------------------------------------------------------------------
\* Every variable keeps its type: in particular no thread is ever in a step
\* whose data it has not been given.
THEOREM TypeCorrect == Spec => []TypeOK
<1> USE RelayAssumption, ProtocolAssumption, DbAssumption
<1>1. Init => TypeOK
  BY DEF Init, TypeOK, EmptyDb, Database, Task, NoSweep
<1>2. TypeOK /\ [Next]_vars => TypeOK'
  <2> SUFFICES ASSUME TypeOK, [Next]_vars PROVE TypeOK'
    OBVIOUS
  <2> USE DEF TypeOK
  <2>1. ASSUME NEW w \in Worker, Receive(w) PROVE TypeOK'
    BY <2>1 DEF Receive, Unseen, GoTo, Task, PublishTask
  <2>2. ASSUME NEW w \in Worker, Dedup(w) PROVE TypeOK'
    <3>1. task' \in [Worker -> Task]
      BY <2>2, TaskByPc, AdvanceType, GoToType, AnswerType DEF Dedup, Advance
    <3> QED
      BY <2>2, <3>1 DEF Dedup, Quiet
  <2>3. ASSUME NEW w \in Worker, QuotaFilter(w) PROVE TypeOK'
    <3>1. task' \in [Worker -> Task]
      BY <2>3, TaskByPc, AdvanceType, GoToType, AnswerType DEF QuotaFilter, Advance
    <3> QED
      BY <2>3, <3>1 DEF QuotaFilter, Quiet
  <2>4. ASSUME NEW w \in Worker, Validate(w) PROVE TypeOK'
    <3>1. task' \in [Worker -> Task]
      BY <2>4, TaskByPc, AdvanceType, GoToType, AnswerType DEF Validate, Advance
    <3> QED
      BY <2>4, <3>1 DEF Validate, Quiet
  <2>5. ASSUME NEW w \in Worker, ResolveRead(w) PROVE TypeOK'
    <3>1. task[w] \in PublishTask /\ db.lastDeletion \in Nat
      BY <2>5, TaskByPc, DatabaseFields DEF ResolveRead
    <3>2. CASE FindNone(w)
      <4>1. [pc |-> "insert", sig |-> task[w].sig, addr |-> task[w].addr,
             asOf |-> db.lastDeletion] \in Task
        BY <3>1 DEF PublishTask, Task, InsertTask
      <4> QED
        BY <2>5, <3>2, <4>1, GoToType DEF FindNone, ResolveRead, Quiet
    <3>3. ASSUME NEW r \in RequestsFor(db, task[w].sig), FindClaim(w, r.requester) PROVE TypeOK'
      <4>1. r.requester \in Key
        BY DatabaseFields DEF RequestsFor, DeletionRow
      <4>2. [pc |-> "search", sig |-> task[w].sig, addr |-> task[w].addr, key |-> r.requester,
             asOf |-> db.lastDeletion] \in Task
        BY <3>1, <4>1 DEF PublishTask, Task, SearchTask
      <4> QED
        BY <2>5, <3>3, <4>2, GoToType DEF FindClaim, ResolveRead, Quiet
    <3>4. CASE Answer(w)
      BY <2>5, <3>4, AnswerType DEF ResolveRead, Quiet
    <3> QED
      BY <2>5, <3>2, <3>3, <3>4 DEF ResolveRead
  <2>16. ASSUME NEW w \in Worker, ResolveSearch(w) PROVE TypeOK'
    <3>1. task[w] \in SearchTask
      BY <2>16, TaskByPc DEF ResolveSearch
    <3>2. [pc |-> "resolveWrite", sig |-> task[w].sig, addr |-> task[w].addr, key |-> task[w].key,
           matched |-> task[w].addr \in CandidateRecipientIds(task[w].key, now),
           asOf |-> task[w].asOf] \in Task
      BY <3>1 DEF SearchTask, Task, ResolveTask
    <3>3. task' \in [Worker -> Task]
      BY <2>16, <3>2, GoToType DEF ResolveSearch
    <3> QED
      BY <2>16, <3>3 DEF ResolveSearch, Quiet
  <2>6. ASSUME NEW w \in Worker, ResolveWrite(w) PROVE TypeOK'
    <3>1. task[w] \in ResolveTask
      BY <2>6, TaskByPc DEF ResolveWrite
    <3>2. [pc |-> "insert", sig |-> task[w].sig, addr |-> task[w].addr, asOf |-> task[w].asOf]
            \in Task
      BY <3>1 DEF ResolveTask, Task, InsertTask
    <3>3. task' \in [Worker -> Task]
      BY <2>6, <3>2, GoToType, AnswerType DEF ResolveWrite
    <3>4. db' \in Database
      BY <2>6, <3>1, ConfirmDeletionType, DropRequestType DEF ResolveWrite, ResolveTask
    <3>5. disturbed' \subseteq Sig
      BY <2>6, <3>1 DEF ResolveWrite, Disturb, ResolveTask
    <3> QED
      BY <2>6, <3>3, <3>4, <3>5 DEF ResolveWrite, Quiet
  <2>7. ASSUME NEW w \in Worker, Insert(w) PROVE TypeOK'
    <3>1. task[w] \in InsertTask
      BY <2>7, TaskByPc DEF Insert
    <3>2. task[w].sig \in Sig /\ task[w].addr \in Address
      BY <3>1 DEF InsertTask
    <3>3. task' \in [Worker -> Task]
      BY <2>7, <3>2, ThenFanoutType, AnswerType DEF Insert, Path
    <3>4. db' \in Database /\ inserts' \in [Sig -> Nat] /\ disturbed' \subseteq Sig
      <4>1. CASE UNCHANGED <<db, inserts, disturbed>>
        BY <4>1
      <4>2. CASE Store(task[w])
        <5>1. db' \in Database
          BY <3>2, <4>2, InsertMessageType DEF Store
        <5>2. inserts' \in [Sig -> Nat]
          BY <3>2, <4>2, CountUp DEF Store
        <5> QED
          BY <3>2, <4>2, <5>1, <5>2 DEF Store, Disturb
      <4> QED
        BY <2>7, <4>1, <4>2 DEF Insert
    <3> QED
      BY <2>7, <3>3, <3>4 DEF Insert, Quiet
  <2>8. ASSUME NEW w \in Worker, Fanout(w) PROVE TypeOK'
    <3>1. task[w].sig \in Sig /\ task[w].path \in Path
      BY <2>8, TaskByPc DEF Fanout, FanoutTask
    <3> QED
      BY <2>8, <3>1, AnswerType DEF Fanout
  <2>9. ASSUME NEW w \in Worker, ReceiveDelete(w) PROVE TypeOK'
    BY <2>9 DEF ReceiveDelete, Unseen, GoTo, Task, DeleteTask
  <2>10. ASSUME NEW w \in Worker, HandleDelete(w) PROVE TypeOK'
    <3>1. task[w].sig \in Sig /\ task[w].key \in Key /\ task[w].at \in Int
      BY <2>10, TaskByPc DEF HandleDelete, DeleteTask
    <3>2. task' \in [Worker -> Task]
      BY <2>10, <3>1, ThenFanoutType, AnswerType DEF HandleDelete, Path
    <3>3. db' \in Database
      BY <2>10, <3>1, ConfirmDeletionType, RecordPendingType DEF HandleDelete
    <3>4. asked' \subseteq Sig
      BY <2>10, <3>1 DEF HandleDelete, Remember
    <3> QED
      BY <2>10, <3>2, <3>3, <3>4 DEF HandleDelete
  <2>11. ASSUME NEW s \in Sig, ApplyTombstone(s) PROVE TypeOK'
    BY <2>11, ConfirmDeletionType DEF ApplyTombstone, Owner, Address
  <2>12. CASE StartSweep
    BY <2>12 DEF StartSweep, NoSweep
  <2>17. CASE Sweep
    BY <2>17, SweptDbType DEF Sweep, NoSweep
  <2>13. CASE Tick
    BY <2>13 DEF Tick
  <2>14. CASE Restart
    BY <2>14 DEF Restart, Task, NoSweep
  <2>15. CASE UNCHANGED vars
    BY <2>15 DEF vars
  <2> QED
    BY <2>1, <2>2, <2>3, <2>4, <2>5, <2>6, <2>7, <2>8, <2>9, <2>10, <2>11, <2>12, <2>13, <2>14, <2>15,
       <2>16, <2>17 DEF Next, Publish, Delete
<1> QED
  BY <1>1, <1>2, PTL DEF Spec

-----------------------------------------------------------------------------
\* Authorization. The invariant follows the claim on its way to the tombstone:
\* what is stored or about to be is what its sender signed, and a thread that
\* found a claim matching holds the owner's key.

VerifiedPc == {"resolveRead", "search", "resolveWrite", "insert"}

StoredGenuine == \A m \in db.messages : m.addr = Addr[m.sig]

VerifiedGenuine ==
    \A w \in Worker : task[w].pc \in VerifiedPc => task[w].addr = Addr[task[w].sig]

MatchedByOwner ==
    \A w \in Worker :
        task[w].pc = "resolveWrite" /\ task[w].matched => task[w].key = Owner(task[w].sig)

AuthInv == StoredGenuine /\ VerifiedGenuine /\ MatchedByOwner /\ AuthorizedTombstones

\* A delete request accepted for a genuine row comes from its owner.
LEMMA OwnedRowOwner ==
    ASSUME StoredGenuine, NEW s, NEW k, NEW t, OwnedRow(db, s, k, t)
    PROVE  k = Owner(s)
<1>1. PICK m \in db.messages : m.sig = s /\ m.addr \in CandidateRecipientIds(k, t)
  BY DEF OwnedRow
<1> QED
  BY <1>1, CandidateOfKey DEF StoredGenuine, Owner

LEMMA ConfirmDeletionAuth ==
    ASSUME NEW d \in Database, NEW s \in Sig, NEW k \in Key, NEW t \in Int,
           \A r \in ConfirmedRows(d) : r.requester = Owner(r.sig), k = Owner(s)
    PROVE  \A r \in ConfirmedRows(ConfirmDeletion(d, s, k, t)) : r.requester = Owner(r.sig)
BY DEF ConfirmDeletion, ReplaceDeletion, NewDeletion, OtherDeletions, ConfirmedRows

LEMMA RecordPendingConfirmed ==
    ASSUME NEW d \in Database, NEW s \in Sig, NEW k \in Key, NEW t \in Int
    PROVE  ConfirmedRows(RecordPending(d, s, k, t)) \subseteq ConfirmedRows(d)
BY DEF RecordPending, ReplaceDeletion, NewDeletion, OtherDeletions, ConfirmedRows

LEMMA AuthAlways == Spec => []AuthInv
<1> USE RelayAssumption
<1>1. Init => AuthInv
  BY DEF Init, AuthInv, StoredGenuine, VerifiedGenuine, MatchedByOwner, AuthorizedTombstones,
         EmptyDb, ConfirmedRows, VerifiedPc, Idle
<1>2. TypeOK /\ AuthInv /\ [Next]_vars => AuthInv'
  <2> SUFFICES ASSUME TypeOK, AuthInv, [Next]_vars PROVE AuthInv'
    OBVIOUS
  <2> USE DEF AuthInv
  <2>db. db \in Database /\ task \in [Worker -> Task]
    BY DEF TypeOK
  \* The threads' part, for a step of one thread that leaves the database.
  <2>idle. ASSUME NEW w \in Worker, NEW t, GoTo(w, t),
                  t.pc \in VerifiedPc => t.addr = Addr[t.sig],
                  t.pc = "resolveWrite" /\ t.matched => t.key = Owner(t.sig)
           PROVE  VerifiedGenuine' /\ MatchedByOwner'
    BY <2>idle, <2>db DEF GoTo, VerifiedGenuine, MatchedByOwner, Owner
  <2>answer. ASSUME NEW w \in Worker, Answer(w) PROVE VerifiedGenuine' /\ MatchedByOwner'
    BY <2>answer, <2>idle DEF Answer, Idle, VerifiedPc
  <2>fan. ASSUME NEW w \in Worker, NEW p, ThenFanout(w, p)
          PROVE  VerifiedGenuine' /\ MatchedByOwner'
    BY <2>fan, <2>idle DEF ThenFanout, VerifiedPc
  <2>same. ASSUME db' = db PROVE StoredGenuine' /\ AuthorizedTombstones'
    BY <2>same DEF StoredGenuine, AuthorizedTombstones
  <2>1. ASSUME NEW w \in Worker, Receive(w) PROVE AuthInv'
    <3>1. VerifiedGenuine' /\ MatchedByOwner'
      BY <2>1, <2>idle DEF Receive, Unseen, VerifiedPc
    <3> QED
      BY <2>1, <2>same, <3>1 DEF Receive, Unseen
  <2>2. ASSUME NEW w \in Worker, Dedup(w) PROVE AuthInv'
    <3>1. task[w] \in PublishTask
      BY <2>2, <2>db, TaskByPc DEF Dedup
    <3>2. VerifiedGenuine' /\ MatchedByOwner'
      BY <2>2, <2>idle, <2>answer, <3>1 DEF Dedup, Advance, VerifiedPc, PublishTask
    <3> QED
      BY <2>2, <2>same, <3>2 DEF Dedup
  <2>3. ASSUME NEW w \in Worker, QuotaFilter(w) PROVE AuthInv'
    <3>1. task[w] \in PublishTask
      BY <2>3, <2>db, TaskByPc DEF QuotaFilter
    <3>2. VerifiedGenuine' /\ MatchedByOwner'
      BY <2>3, <2>idle, <2>answer, <3>1 DEF QuotaFilter, Advance, VerifiedPc, PublishTask
    <3> QED
      BY <2>3, <2>same, <3>2 DEF QuotaFilter
  <2>4. ASSUME NEW w \in Worker, Validate(w) PROVE AuthInv'
    <3>1. task[w] \in PublishTask
      BY <2>4, <2>db, TaskByPc DEF Validate
    <3>2. ASSUME Advance(w, "resolveRead"), ValidPublish(task[w], now)
          PROVE  VerifiedGenuine' /\ MatchedByOwner'
      BY <2>idle, <3>1, <3>2 DEF Advance, ValidPublish, Genuine, PublishTask
    <3> QED
      BY <2>4, <2>same, <2>answer, <3>2 DEF Validate
  <2>5. ASSUME NEW w \in Worker, ResolveRead(w) PROVE AuthInv'
    <3>1. /\ task[w] \in PublishTask
          /\ task[w].addr = Addr[task[w].sig]
      BY <2>5, <2>db, TaskByPc DEF ResolveRead, VerifiedGenuine, VerifiedPc
    <3>2. CASE FindNone(w)
      BY <2>5, <2>same, <2>idle, <3>1, <3>2 DEF ResolveRead, FindNone
    <3>3. CASE Answer(w)
      BY <2>5, <2>same, <2>answer, <3>3 DEF ResolveRead
    <3>4. ASSUME NEW k, FindClaim(w, k) PROVE AuthInv'
      BY <2>5, <2>same, <2>idle, <3>1, <3>4 DEF ResolveRead, FindClaim
    <3> QED
      BY <2>5, <3>2, <3>3, <3>4 DEF ResolveRead
  <2>16. ASSUME NEW w \in Worker, ResolveSearch(w) PROVE AuthInv'
    <3> DEFINE t == task[w]
               found == [pc |-> "resolveWrite", sig |-> t.sig, addr |-> t.addr, key |-> t.key,
                         matched |-> t.addr \in CandidateRecipientIds(t.key, now),
                         asOf |-> t.asOf]
    <3>1. t \in SearchTask /\ t.addr = Addr[t.sig]
      BY <2>16, <2>db, TaskByPc DEF ResolveSearch, VerifiedGenuine, VerifiedPc
    <3>2. t.addr \in CandidateRecipientIds(t.key, now) => t.key = Owner(t.sig)
      BY <3>1, CandidateOfKey DEF Owner
    <3>3. /\ found.pc = "resolveWrite" /\ found.sig = t.sig /\ found.addr = t.addr
          /\ found.key = t.key
          /\ found.matched <=> t.addr \in CandidateRecipientIds(t.key, now)
      OBVIOUS
    <3>4. GoTo(w, found)
      BY <2>16 DEF ResolveSearch
    <3> HIDE DEF found
    <3>5. VerifiedGenuine' /\ MatchedByOwner'
      BY <2>idle, <3>1, <3>2, <3>3, <3>4
    <3> QED
      BY <2>16, <2>same, <3>5 DEF ResolveSearch
  <2>6. ASSUME NEW w \in Worker, ResolveWrite(w) PROVE AuthInv'
    <3>1. /\ task[w] \in ResolveTask
          /\ task[w].sig \in Sig /\ task[w].key \in Key
          /\ task[w].addr = Addr[task[w].sig]
          /\ task[w].matched => task[w].key = Owner(task[w].sig)
      BY <2>6, <2>db, TaskByPc DEF ResolveWrite, ResolveTask, VerifiedGenuine, VerifiedPc, MatchedByOwner
    <3>2. CASE task[w].matched
      <4>1. db' = ConfirmDeletion(db, task[w].sig, task[w].key, now) /\ Answer(w) /\ now \in Int
        BY <2>6, <3>2 DEF ResolveWrite, TypeOK
      <4>2. AuthorizedTombstones'
        BY <2>db, <3>1, <3>2, <4>1, ConfirmDeletionAuth DEF AuthorizedTombstones
      <4>3. StoredGenuine'
        BY <4>1 DEF StoredGenuine, ConfirmDeletion, ReplaceDeletion, OtherMessages
      <4> QED
        BY <2>answer, <4>1, <4>2, <4>3
    <3>3. CASE ~task[w].matched
      <4>1. /\ db' = DropRequest(db, task[w].sig)
            /\ GoTo(w, [pc |-> "insert", sig |-> task[w].sig, addr |-> task[w].addr,
                        asOf |-> task[w].asOf])
        BY <2>6, <3>3 DEF ResolveWrite
      <4>2. AuthorizedTombstones' /\ StoredGenuine'
        BY <2>db, <4>1 DEF AuthorizedTombstones, StoredGenuine, DropRequest, OtherDeletions,
                          ConfirmedRows, Database
      <4> QED
        BY <2>idle, <3>1, <4>1, <4>2
    <3> QED
      BY <3>2, <3>3
  <2>7. ASSUME NEW w \in Worker, Insert(w) PROVE AuthInv'
    <3>1. task[w].sig \in Sig /\ task[w].addr = Addr[task[w].sig]
      BY <2>7, <2>db, TaskByPc DEF Insert, InsertTask, VerifiedGenuine, VerifiedPc
    <3>2. VerifiedGenuine' /\ MatchedByOwner'
      BY <2>7, <2>fan, <2>answer DEF Insert
    <3>3. CASE db' = InsertMessage(db, task[w].sig, task[w].addr)
      BY <3>1, <3>2, <3>3 DEF InsertMessage, StoredGenuine, AuthorizedTombstones, ConfirmedRows
    <3> QED
      BY <2>7, <2>same, <3>2, <3>3 DEF Insert, Store
  <2>8. ASSUME NEW w \in Worker, Fanout(w) PROVE AuthInv'
    BY <2>8, <2>same, <2>answer DEF Fanout
  <2>9. ASSUME NEW w \in Worker, ReceiveDelete(w) PROVE AuthInv'
    <3>1. VerifiedGenuine' /\ MatchedByOwner'
      BY <2>9, <2>idle DEF ReceiveDelete, Unseen, VerifiedPc
    <3> QED
      BY <2>9, <2>same, <3>1 DEF ReceiveDelete, Unseen
  <2>10. ASSUME NEW w \in Worker, HandleDelete(w) PROVE AuthInv'
    <3>1. task[w].sig \in Sig /\ task[w].key \in Key /\ task[w].at \in Int
      BY <2>10, <2>db, TaskByPc DEF HandleDelete, DeleteTask
    <3>2. VerifiedGenuine' /\ MatchedByOwner'
      BY <2>10, <2>fan, <2>answer DEF HandleDelete
    <3>3. CASE /\ OwnedRow(db, task[w].sig, task[w].key, task[w].at)
               /\ db' = ConfirmDeletion(db, task[w].sig, task[w].key, task[w].at)
      <4>1. task[w].key = Owner(task[w].sig)
        BY <3>3, OwnedRowOwner
      <4>2. AuthorizedTombstones'
        BY <2>db, <3>1, <3>3, <4>1, ConfirmDeletionAuth DEF AuthorizedTombstones
      <4>3. StoredGenuine'
        BY <3>3 DEF StoredGenuine, ConfirmDeletion, ReplaceDeletion, OtherMessages
      <4> QED
        BY <3>2, <4>2, <4>3
    <3>4. CASE db' = RecordPending(db, task[w].sig, task[w].key, task[w].at)
      <4>1. AuthorizedTombstones'
        BY <2>db, <3>1, <3>4, RecordPendingConfirmed DEF AuthorizedTombstones
      <4>2. StoredGenuine'
        BY <3>4 DEF StoredGenuine, RecordPending, ReplaceDeletion
      <4> QED
        BY <3>2, <4>1, <4>2
    <3> QED
      BY <2>10, <2>same, <3>2, <3>3, <3>4 DEF HandleDelete
  <2>11. ASSUME NEW s \in Sig, ApplyTombstone(s) PROVE AuthInv'
    <3>1. VerifiedGenuine' /\ MatchedByOwner'
      BY <2>11 DEF ApplyTombstone, VerifiedGenuine, MatchedByOwner, Owner
    <3>2. ASSUME NEW t \in Created[s] .. now, db' = ConfirmDeletion(db, s, Owner(s), t)
          PROVE  StoredGenuine' /\ AuthorizedTombstones'
      <4>1. t \in Int /\ Owner(s) \in Key
        BY DEF TypeOK, Owner, Address
      <4>2. AuthorizedTombstones'
        BY <2>db, <3>2, <4>1, ConfirmDeletionAuth DEF AuthorizedTombstones
      <4> QED
        BY <3>2, <4>2 DEF StoredGenuine, ConfirmDeletion, ReplaceDeletion, OtherMessages
    <3> QED
      BY <2>11, <2>same, <3>1, <3>2 DEF ApplyTombstone
  <2>12. CASE StartSweep
    BY <2>12 DEF StartSweep, StoredGenuine, AuthorizedTombstones, VerifiedGenuine, MatchedByOwner
  <2>17. CASE Sweep
    <3>1. /\ db'.messages \subseteq db.messages
          /\ db'.deletions \subseteq db.deletions
      BY <2>17, <2>db DEF Sweep, SweptDb, Database
    <3>2. task' = task
      BY <2>17 DEF Sweep
    <3> QED
      BY <3>1, <3>2 DEF StoredGenuine, AuthorizedTombstones, ConfirmedRows, VerifiedGenuine,
                        MatchedByOwner, Owner
  <2>13. CASE Tick
    BY <2>13 DEF Tick, StoredGenuine, AuthorizedTombstones, VerifiedGenuine, MatchedByOwner
  <2>14. CASE Restart
    <3>1. VerifiedGenuine' /\ MatchedByOwner'
      BY <2>14 DEF Restart, Idle, VerifiedGenuine, MatchedByOwner, VerifiedPc
    <3> QED
      BY <2>14, <2>same, <3>1 DEF Restart
  <2>15. CASE UNCHANGED vars
    BY <2>15 DEF vars, StoredGenuine, AuthorizedTombstones, VerifiedGenuine, MatchedByOwner
  <2> QED
    BY <2>1, <2>2, <2>3, <2>4, <2>5, <2>6, <2>7, <2>8, <2>9, <2>10, <2>11, <2>12, <2>13, <2>14, <2>15,
       <2>16, <2>17 DEF Next, Publish, Delete
<1> QED
  BY <1>1, <1>2, TypeCorrect, PTL DEF Spec

\* No tombstone is confirmed for anyone but the owner of its message,
\* whatever requests, payloads and interleavings the relay meets.
THEOREM DeletesAuthorized == Spec => []AuthorizedTombstones
<1>1. AuthInv => AuthorizedTombstones
  BY DEF AuthInv
<1> QED
  BY <1>1, AuthAlways, PTL

-----------------------------------------------------------------------------
\* Retrieval: the days a client searches cover those of every live message.

LEMMA Cancel ==
    ASSUME NEW d \in Nat \ {0}, NEW x \in Int, NEW y \in Int, d * x < d * y
    PROVE  x < y
<1>1. SUFFICES ASSUME y <= x PROVE FALSE
  OBVIOUS
<1>2. PICK n \in Nat : x = y + n
  BY <1>1
<1>3. d * x = d * y + d * n /\ d * n \in Nat
  BY <1>2
<1> QED
  BY <1>3

LEMMA DayBounds ==
    ASSUME NEW t \in Int
    PROVE  /\ Day(t) \in Int
           /\ DaySeconds * Day(t) <= t
           /\ t < DaySeconds * (Day(t) + 1)
BY ProtocolAssumption DEF Day

\* Earlier instants have earlier days.
LEMMA DayRises ==
    ASSUME NEW t \in Int, NEW u \in Int, t <= u
    PROVE  Day(t) <= Day(u)
<1>1. DaySeconds * Day(t) < DaySeconds * (Day(u) + 1)
  BY DayBounds, ProtocolAssumption
<1> QED
  BY <1>1, Cancel, DayBounds, ProtocolAssumption

\* To go back so many times the length of a day is to go back so many days.
LEMMA DaysBack ==
    ASSUME NEW t \in Int, NEW n \in Int
    PROVE  Day(t - n * DaySeconds) = Day(t) - n
<1> DEFINE u == t - n * DaySeconds
<1>1. u \in Int /\ Day(u) \in Int /\ Day(t) \in Int
  BY DayBounds, ProtocolAssumption
<1>2. DaySeconds * (Day(t) - n) < DaySeconds * (Day(u) + 1)
  <2>1. DaySeconds * (Day(t) - n) = DaySeconds * Day(t) - n * DaySeconds
    BY <1>1, ProtocolAssumption
  <2>2. DaySeconds * Day(t) <= t /\ u < DaySeconds * (Day(u) + 1)
    BY <1>1, DayBounds
  <2> QED
    BY <1>1, <2>1, <2>2, ProtocolAssumption
<1>3. DaySeconds * Day(u) < DaySeconds * (Day(t) - n + 1)
  <2>1. DaySeconds * (Day(t) - n + 1) = DaySeconds * (Day(t) + 1) - n * DaySeconds
    BY <1>1, ProtocolAssumption
  <2>2. t < DaySeconds * (Day(t) + 1) /\ DaySeconds * Day(u) <= u
    BY <1>1, DayBounds
  <2> QED
    BY <1>1, <2>1, <2>2, ProtocolAssumption
<1>4. Day(t) - n < Day(u) + 1 /\ Day(u) < Day(t) - n + 1
  BY <1>1, <1>2, <1>3, Cancel, ProtocolAssumption
<1> QED
  BY <1>1, <1>4

\* The retention window spans no more days than are searched, less one.
LEMMA WindowDays ==
    ASSUME NEW t \in Int, NEW u \in Int, t <= u, u < t + MaxTtl
    PROVE  /\ LookbackDays \in Int
           /\ Day(u) - Day(t) <= LookbackDays - 1
<1> DEFINE c == -((-MaxTtl) \div DaySeconds)
<1>1. c \in Int /\ MaxTtl <= DaySeconds * c
  <2>1. (-MaxTtl) \div DaySeconds \in Int /\ DaySeconds * ((-MaxTtl) \div DaySeconds) <= -MaxTtl
    BY ProtocolAssumption, DayBounds, -MaxTtl \in Int DEF Day
  <2> QED
    BY <2>1, ProtocolAssumption
<1> HIDE DEF c
<1>2. Day(u) \in Int /\ Day(t) \in Int
  BY DayBounds
<1>3. DaySeconds * Day(u) < DaySeconds * (Day(t) + 1 + c)
  <2>1. DaySeconds * (Day(t) + 1 + c) = DaySeconds * (Day(t) + 1) + DaySeconds * c
    BY <1>1, <1>2, ProtocolAssumption
  <2>2. DaySeconds * Day(u) <= u /\ t < DaySeconds * (Day(t) + 1)
    BY DayBounds
  <2> QED
    BY <1>1, <1>2, <2>1, <2>2, ProtocolAssumption
<1>4. Day(u) < Day(t) + 1 + c
  BY <1>1, <1>2, <1>3, Cancel, ProtocolAssumption
<1> QED
  BY <1>1, <1>2, <1>4 DEF LookbackDays, c

LEMMA LookbackNat == LookbackDays \in Nat
<1>1. LookbackDays \in Int /\ Day(0) - Day(0) <= LookbackDays - 1 /\ Day(0) \in Int
  BY WindowDays, DayBounds, ProtocolAssumption
<1> QED
  BY <1>1

\* No fetch is refused for the number of its identifiers.
LEMMA FetchIdsFew ==
    ASSUME NEW k, NEW t
    PROVE  Cardinality(FetchIds(k, t)) <= MaxFetchIds
<1> DEFINE days == 0 .. LookbackDays
           ids == FetchIds(k, t)
           id == [n \in days |-> BlindRecipientId(k, Day(t - n * DaySeconds))]
<1>1. IsFiniteSet(days) /\ Cardinality(days) = LookbackDays + 1
  BY LookbackNat, FS_Interval
<1>2. id \in Surjection(days, ids)
  BY DEF Surjection, FetchIds, CandidateRecipientIds
<1>3. Cardinality(ids) <= Cardinality(days)
  BY <1>1, <1>2, FS_Surjection
<1>4. MaxFetchIds = LookbackDays + 1
  <2>1. (-MaxTtl) \div DaySeconds \in Int
    BY ProtocolAssumption, DayBounds, -MaxTtl \in Int DEF Day
  <2> QED
    BY <2>1 DEF MaxFetchIds, LookbackDays
<1> QED
  BY <1>1, <1>3, <1>4

\* What is asked of senders: a clock that is right or a day behind, and a
\* lifetime within the window.
HonestSenders ==
    \A s \in Sig :
        /\ Addr[s][2] \in {Day(Created[s]) - 1, Day(Created[s])}
        /\ Expires[s] <= Created[s] + MaxTtl

\* The address of a live message is among those its owner asks for.
LEMMA LiveFound ==
    ASSUME HonestSenders, NEW s \in Sig, NEW t \in Int, Created[s] <= t, t < Expires[s]
    PROVE  Addr[s] \in FetchIds(Owner(s), t)
<1> DEFINE n == Day(t) - Addr[s][2]
<1>1. Created[s] \in Int /\ Expires[s] \in Int /\ t < Created[s] + MaxTtl /\ MaxTtl \in Int
  BY RelayAssumption, ProtocolAssumption DEF HonestSenders
<1>2. /\ Day(Created[s]) \in Int /\ Day(t) \in Int
      /\ Day(Created[s]) <= Day(t)
      /\ LookbackDays \in Int /\ Day(t) - Day(Created[s]) <= LookbackDays - 1
  BY <1>1, DayBounds, DayRises, WindowDays
<1>3. n \in 0 .. LookbackDays /\ Addr[s][2] = Day(t) - n
  BY <1>2 DEF HonestSenders
<1>4. Day(t - n * DaySeconds) = Addr[s][2]
  BY <1>3, DaysBack
<1>5. Addr[s] = BlindRecipientId(Owner(s), Day(t - n * DaySeconds))
  BY <1>4, RelayAssumption DEF Address, BlindRecipientId, Owner
<1> QED
  BY <1>3, <1>5 DEF FetchIds, CandidateRecipientIds

\* Nothing is stored, or on its way to be, before it was sent.
SentBefore ==
    /\ \A m \in db.messages : Created[m.sig] <= now
    /\ \A w \in Worker : task[w].pc \in {"dedup", "quota", "validate"} \cup VerifiedPc
         => Created[task[w].sig] <= now

LEMMA SentBeforeInit == Init => SentBefore
BY DEF Init, SentBefore, EmptyDb, Idle, VerifiedPc

\* No step but a publish changes a thread other than by moving it on.
LEMMA SentBeforeStep == TypeOK /\ SentBefore /\ [Next]_vars => SentBefore'
<1> SUFFICES ASSUME TypeOK, SentBefore, [Next]_vars PROVE SentBefore'
  OBVIOUS
<1> USE RelayAssumption DEF SentBefore
<1>db. db \in Database /\ task \in [Worker -> Task] /\ now \in Nat
  BY DEF TypeOK
<1>idle. ASSUME NEW w \in Worker, NEW t, GoTo(w, t), UNCHANGED now,
                db'.messages \subseteq db.messages,
                t.pc \in {"dedup", "quota", "validate"} \cup VerifiedPc
                  => Created[t.sig] <= now
         PROVE  SentBefore'
  BY <1>idle, <1>db DEF GoTo
<1>answer. ASSUME NEW w \in Worker, Answer(w), UNCHANGED now, db'.messages \subseteq db.messages
           PROVE  SentBefore'
  BY <1>answer, <1>idle DEF Answer, Idle, VerifiedPc
<1>fan. ASSUME NEW w \in Worker, NEW p, ThenFanout(w, p), UNCHANGED now,
               db'.messages \subseteq db.messages
        PROVE  SentBefore'
  BY <1>fan, <1>idle DEF ThenFanout, VerifiedPc
<1>advance. ASSUME NEW w \in Worker, NEW pc, Advance(w, pc), task[w] \in PublishTask,
                   UNCHANGED now, db' = db
            PROVE  SentBefore'
  BY <1>advance, <1>idle DEF Advance, PublishTask, VerifiedPc
<1>confirm. ASSUME NEW s, NEW k, NEW t, db' = ConfirmDeletion(db, s, k, t)
            PROVE  db'.messages \subseteq db.messages
  BY <1>confirm DEF ConfirmDeletion, ReplaceDeletion, OtherMessages
<1>1. ASSUME NEW w \in Worker, Receive(w) PROVE SentBefore'
  BY <1>1, <1>idle DEF Receive, Unseen
<1>2. ASSUME NEW w \in Worker, Dedup(w) \/ QuotaFilter(w) \/ Validate(w) PROVE SentBefore'
  <2>1. task[w] \in PublishTask
    BY <1>2, <1>db, TaskByPc DEF Dedup, QuotaFilter, Validate
  <2> QED
    BY <1>2, <2>1, <1>answer, <1>advance DEF Dedup, QuotaFilter, Validate, Quiet
<1>3. ASSUME NEW w \in Worker, ResolveRead(w) PROVE SentBefore'
  <2>1. task[w] \in PublishTask /\ Created[task[w].sig] <= now
    BY <1>3, <1>db, TaskByPc DEF ResolveRead, VerifiedPc
  <2>2. CASE FindNone(w)
    BY <1>3, <2>1, <2>2, <1>idle DEF FindNone, ResolveRead, Quiet
  <2>3. ASSUME NEW k, FindClaim(w, k) PROVE SentBefore'
    BY <1>3, <2>1, <2>3, <1>idle DEF FindClaim, ResolveRead, Quiet
  <2> QED
    BY <1>3, <2>2, <2>3, <1>answer DEF ResolveRead, Quiet
<1>14. ASSUME NEW w \in Worker, ResolveSearch(w) PROVE SentBefore'
  <2>1. Created[task[w].sig] <= now
    BY <1>14 DEF ResolveSearch, VerifiedPc
  <2> QED
    BY <1>14, <2>1, <1>idle DEF ResolveSearch, Quiet
<1>4. ASSUME NEW w \in Worker, ResolveWrite(w) PROVE SentBefore'
  <2>1. Created[task[w].sig] <= now
    BY <1>4 DEF ResolveWrite, VerifiedPc
  <2>2. CASE task[w].matched
    BY <1>4, <2>2, <1>answer, <1>confirm DEF ResolveWrite, Quiet
  <2>3. CASE ~task[w].matched
    <3>1. db'.messages = db.messages
      BY <1>4, <2>3, <1>db DEF ResolveWrite, DropRequest, Database
    <3> QED
      BY <1>4, <2>1, <2>3, <3>1, <1>idle DEF ResolveWrite, Quiet
  <2> QED
    BY <2>2, <2>3
<1>5. ASSUME NEW w \in Worker, Insert(w) PROVE SentBefore'
  <2>1. Created[task[w].sig] <= now
    BY <1>5 DEF Insert, VerifiedPc
  <2>2. CASE Answer(w) /\ UNCHANGED db
    BY <1>5, <2>2, <1>answer DEF Insert, Quiet
  <2>3. CASE Store(task[w]) /\ ThenFanout(w, "publish")
    <3>1. \A m \in db'.messages : Created[m.sig] <= now
      BY <2>1, <2>3 DEF Store, InsertMessage
    <3>2. \A v \in Worker : v # w => task'[v] = task[v]
      BY <2>3, <1>db DEF ThenFanout, GoTo
    <3>3. task'[w].pc = "fanout"
      BY <2>3, <1>db DEF ThenFanout, GoTo
    <3> QED
      BY <1>5, <3>1, <3>2, <3>3 DEF Insert, Quiet, VerifiedPc
  <2> QED
    BY <1>5, <2>2, <2>3 DEF Insert
<1>6. ASSUME NEW w \in Worker, Fanout(w) PROVE SentBefore'
  BY <1>6, <1>answer DEF Fanout
<1>7. ASSUME NEW w \in Worker, ReceiveDelete(w) PROVE SentBefore'
  BY <1>7, <1>idle DEF ReceiveDelete, Unseen, VerifiedPc
<1>8. ASSUME NEW w \in Worker, HandleDelete(w) PROVE SentBefore'
  <2>1. ASSUME NEW s, NEW k, NEW t, db' = RecordPending(db, s, k, t)
        PROVE  db'.messages \subseteq db.messages
    BY <2>1 DEF RecordPending, ReplaceDeletion
  <2>2. db'.messages \subseteq db.messages
    BY <1>8, <1>confirm, <2>1 DEF HandleDelete
  <2> QED
    BY <1>8, <2>2, <1>answer, <1>fan DEF HandleDelete
<1>9. ASSUME NEW s \in Sig, ApplyTombstone(s) PROVE SentBefore'
  <2>1. db'.messages \subseteq db.messages
    BY <1>9, <1>confirm DEF ApplyTombstone
  <2> QED
    BY <1>9, <2>1 DEF ApplyTombstone
<1>10. CASE Sweep
  <2>1. db'.messages \subseteq db.messages
    BY <1>10, <1>db DEF Sweep, SweptDb, Database
  <2> QED
    BY <1>10, <2>1 DEF Sweep
<1>15. CASE StartSweep
  BY <1>15 DEF StartSweep
<1>11. CASE Tick
  <2>1. now' = now + 1 /\ db' = db /\ task' = task
    BY <1>11 DEF Tick
  <2>2. \A m \in db.messages : Created[m.sig] \in Nat
    BY <1>db, DatabaseFields DEF MessageRow
  <2>3. \A w \in Worker : task[w].pc \in {"dedup", "quota", "validate"} \cup VerifiedPc
          => Created[task[w].sig] \in Nat
    BY <1>db, TaskByPc DEF VerifiedPc, PublishTask, SearchTask, ResolveTask, InsertTask
  <2> QED
    BY <1>db, <2>1, <2>2, <2>3
<1>12. CASE Restart
  BY <1>12, <1>db DEF Restart, Idle, VerifiedPc
<1>13. CASE UNCHANGED vars
  BY <1>13 DEF vars
<1> QED
  BY <1>1, <1>2, <1>3, <1>4, <1>5, <1>6, <1>7, <1>8, <1>9, <1>10, <1>11, <1>12, <1>13, <1>14, <1>15
  DEF Next, Publish, Delete

\* Every live message of a key is in what it fetches, and nothing of another
\* key is: however the expiries are written.
FetchCovers ==
    \A k \in Key :
        LET page == Fetched(db, FetchIds(k, now), now) IN
        /\ {m \in db.messages : Owner(m.sig) = k /\ Expires[m.sig] > now} \subseteq page
        /\ \A m \in page : m \in db.messages /\ Owner(m.sig) = k

\* A recipient gets every live message, and nothing that is not his, whatever
\* runs beside the fetch and whatever form senders write their expiries in:
\* what a form that sorts wrongly can do is to show him more of his own.
THEOREM FetchesCover == ASSUME HonestSenders PROVE Spec => []FetchCovers
<1>1. ASSUME TypeOK, AuthInv, SentBefore PROVE FetchCovers
  <2> SUFFICES ASSUME NEW k \in Key, NEW m \in db.messages
               PROVE  /\ m.addr \in FetchIds(k, now) => Owner(m.sig) = k
                      /\ Owner(m.sig) = k /\ Expires[m.sig] > now => m.addr \in FetchIds(k, now)
    BY FetchIdsFew DEF FetchCovers, Fetched, TextAfter
  <2>1. m.sig \in Sig /\ m.addr = Addr[m.sig] /\ Created[m.sig] <= now /\ now \in Int
    BY <1>1, DatabaseFields DEF TypeOK, MessageRow, AuthInv, StoredGenuine, SentBefore
  <2>2. ASSUME m.addr \in FetchIds(k, now) PROVE Owner(m.sig) = k
    BY <2>1, <2>2, CandidateOfKey DEF FetchIds, Owner
  <2>3. ASSUME Owner(m.sig) = k, Expires[m.sig] > now PROVE m.addr \in FetchIds(k, now)
    <3>1. now < Expires[m.sig]
      BY <2>1, <2>3, RelayAssumption
    <3> QED
      BY <2>1, <2>3, <3>1, LiveFound
  <2> QED
    BY <2>2, <2>3
<1> QED
  BY <1>1, TypeCorrect, AuthAlways, SentBeforeInit, SentBeforeStep, PTL DEF Spec

\* A recipient gets every live message, and nothing else, whatever runs
\* beside the fetch, as long as expiries are written as the code's own
\* clients write them.
THEOREM FetchesExact ==
    ASSUME Compact = {}, HonestSenders
    PROVE  Spec => []FetchExact
<1>1. FetchCovers => FetchExact
  BY DEF FetchCovers, FetchExact, Fetched, TextAfter
<1> QED
  BY <1>1, FetchesCover, PTL

-----------------------------------------------------------------------------
\* What a relay promises its users: for every number of threads, set of
\* messages and order of requests, pulls, sweeps and restarts. The invariant
\* says what is so of every message that is not disturbed. What a thread has
\* read about a message is so of the rows that are no newer than its look.

\* A row keeps its id, and a new one gets an id that no look can have seen.
Grows(d, e) ==
    /\ d.lastDeletion <= e.lastDeletion
    /\ \A r \in e.deletions : r \in d.deletions \/ r.id > d.lastDeletion

LEMMA SubsetGrows ==
    ASSUME NEW d \in Database, NEW e, e.deletions \subseteq d.deletions,
           e.lastDeletion = d.lastDeletion
    PROVE  Grows(d, e)
BY DatabaseFields DEF Grows

LEMMA ReplaceGrows ==
    ASSUME NEW d \in Database, NEW messages, NEW row, row.id = d.lastDeletion + 1
    PROVE  Grows(d, ReplaceDeletion(d, messages, row))
BY DatabaseFields DEF Grows, ReplaceDeletion, OtherDeletions

LEMMA ConfirmGrows ==
    ASSUME NEW d \in Database, NEW s, NEW k, NEW t
    PROVE  Grows(d, ConfirmDeletion(d, s, k, t))
<1>1. NewDeletion(d, s, k, TRUE, t).id = d.lastDeletion + 1
  BY DEF NewDeletion
<1> QED
  BY <1>1, ReplaceGrows DEF ConfirmDeletion

LEMMA PendingGrows ==
    ASSUME NEW d \in Database, NEW s, NEW k, NEW t
    PROVE  Grows(d, RecordPending(d, s, k, t))
<1>1. NewDeletion(d, s, k, FALSE, t).id = d.lastDeletion + 1
  BY DEF NewDeletion
<1> QED
  BY <1>1, ReplaceGrows, SubsetGrows DEF RecordPending

\* A signature has one row at most, and none is older than its message.
RowsSound(d) ==
    /\ \A r \in d.deletions : r.at >= Created[r.sig]
    /\ \A q, r \in d.deletions : q.sig = r.sig => q = r

\* The owner's request or tombstone.
Recorded(d, s) == \E r \in RequestsFor(d, s) : r.requester = Owner(s)

\* What was asked to be deleted (a) is not stored, and is remembered until it
\* has expired; what was inserted (i) is stored, or its tombstone is: all of it
\* for messages that are not disturbed (x).
DbCalm(d, a, n, i, x) ==
    /\ RowsSound(d)
    /\ \A s \in a : s \notin x /\ Expires[s] > n => s \notin Stored(d) /\ Recorded(d, s)
    /\ \A s \in Stored(d) : i[s] > 0
    /\ \A s \in Sig : s \notin x /\ i[s] > 0 /\ Expires[s] > n => s \in Stored(d) \cup Confirmed(d)

\* What a thread with the task t has found out is still so, of the rows that
\* were there.
Looked(t, d) ==
    t.pc \in {"search", "resolveWrite", "insert"} =>
        /\ t.asOf <= d.lastDeletion
        /\ \A r \in RequestsFor(d, t.sig) :
              r.id > t.asOf \/ (t.pc # "insert" /\ r.requester = t.key /\ ~r.confirmed)

Calm(t, d, n) ==
    /\ Looked(t, d)
    /\ t.pc = "resolveWrite" /\ ~t.matched /\ t.key = Owner(t.sig) => Expires[t.sig] <= n
    /\ t.pc = "delete" => Created[t.sig] <= t.at /\ t.at <= n

CalmInv ==
    /\ DbCalm(db, asked, now, inserts, disturbed)
    /\ \A w \in Worker : Calm(task[w], db, now)

LEMMA OwnerIsKey == ASSUME NEW s \in Sig PROVE Owner(s) \in Key
BY RelayAssumption DEF Owner, Address

LEMMA ConfirmCalm ==
    ASSUME NEW d \in Database, NEW a \in SUBSET Sig, NEW n, NEW i, NEW x, DbCalm(d, a, n, i, x),
           NEW s \in Sig, NEW t \in Int, t >= Created[s]
    PROVE  DbCalm(ConfirmDeletion(d, s, Owner(s), t), a \cup {s}, n, i, x)
<1>1. PICK e : e = ConfirmDeletion(d, s, Owner(s), t)
  OBVIOUS
<1>2. /\ Stored(e) = Stored(d) \ {s}
      /\ Confirmed(e) = Confirmed(d) \cup {s}
      /\ RequestsFor(e, s) # {}
      /\ \A u : u # s => RequestsFor(e, u) = RequestsFor(d, u)
      /\ \A r \in e.deletions :
           \/ r \in d.deletions /\ r.sig # s
           \/ r.sig = s /\ r.requester = Owner(s) /\ r.at = t
      /\ \A q, r \in e.deletions : q.sig = s /\ r.sig = s => q = r
  BY <1>1, OwnerIsKey, ConfirmEffect
<1>3. RowsSound(e)
  BY <1>2 DEF DbCalm, RowsSound
<1>4. \A u : u = s \/ Recorded(d, u) => Recorded(e, u)
  BY <1>2 DEF Recorded, RequestsFor
<1> QED
  BY <1>1, <1>2, <1>3, <1>4 DEF DbCalm

\* A request of any key keeps what is so; one of the owner's is recorded, if
\* no one else's is there.
LEMMA PendingCalm ==
    ASSUME NEW d \in Database, NEW a \in SUBSET Sig, NEW n, NEW i, NEW x, DbCalm(d, a, n, i, x),
           NEW s \in Sig, NEW k, NEW t \in Int, t >= Created[s], s \notin Stored(d)
    PROVE  /\ DbCalm(RecordPending(d, s, k, t), a, n, i, x)
           /\ k = Owner(s) /\ (\A r \in RequestsFor(d, s) : r.requester = k)
                => DbCalm(RecordPending(d, s, k, t), a \cup {s}, n, i, x)
<1> DEFINE e == RecordPending(d, s, k, t)
           row == NewDeletion(d, s, k, FALSE, t)
<1>1. CASE RequestsFor(d, s) # {}
  BY <1>1 DEF RecordPending, DbCalm, Recorded
<1>2. CASE RequestsFor(d, s) = {}
  <2>1. e.messages = d.messages /\ e.deletions = d.deletions \cup {row}
    BY <1>2 DEF RecordPending, ReplaceDeletion, OtherDeletions, RequestsFor, NewDeletion
  <2>2. row.sig = s /\ row.requester = k /\ row.at = t /\ ~row.confirmed
    BY DEF NewDeletion
  <2> HIDE DEF e, row
  <2>3. Stored(e) = Stored(d) /\ Confirmed(e) = Confirmed(d)
    BY <2>1, <2>2 DEF Stored, Confirmed, ConfirmedRows
  <2>4. /\ \A u : Recorded(d, u) => Recorded(e, u)
        /\ k = Owner(s) => Recorded(e, s)
    BY <2>1, <2>2 DEF RequestsFor, Recorded
  <2>5. RowsSound(e)
    BY <1>2, <2>1, <2>2 DEF DbCalm, RowsSound, RequestsFor
  <2> QED
    BY <2>3, <2>4, <2>5 DEF DbCalm, e
<1> QED
  BY <1>1, <1>2

\* Rows may go that belong to messages which have expired.
LEMMA ReapCalm ==
    ASSUME NEW d, NEW e, NEW a \in SUBSET Sig, NEW n, NEW i, NEW x, DbCalm(d, a, n, i, x),
           e.messages \subseteq d.messages, e.deletions \subseteq d.deletions,
           \A m \in d.messages : m \notin e.messages => ~ (Expires[m.sig] > n),
           \A r \in d.deletions : r \notin e.deletions => ~ (Expires[r.sig] > n)
    PROVE  DbCalm(e, a, n, i, x)
<1>1. Stored(e) \subseteq Stored(d) /\ \A s \in Stored(d) : Expires[s] > n => s \in Stored(e)
  BY DEF Stored
<1>2. \A s : Expires[s] > n /\ Recorded(d, s) => Recorded(e, s)
  BY DEF RequestsFor, Recorded
<1>3. \A s \in Confirmed(d) : Expires[s] > n => s \in Confirmed(e)
  BY DEF Confirmed, ConfirmedRows
<1>4. RowsSound(e)
  BY DEF RowsSound, DbCalm
<1> QED
  BY <1>1, <1>2, <1>3, <1>4 DEF DbCalm

\* A claim may be dropped that is not the owner's.
LEMMA DropCalm ==
    ASSUME NEW d \in Database, NEW a \in SUBSET Sig, NEW n, NEW i, NEW x, DbCalm(d, a, n, i, x),
           NEW s, s \in x \/ ~ (Expires[s] > n) \/ (~Recorded(d, s) /\ s \notin Confirmed(d))
    PROVE  DbCalm(DropRequest(d, s), a, n, i, x)
<1>1. PICK e : e = DropRequest(d, s)
  OBVIOUS
<1>2. e.messages = d.messages /\ e.deletions = {r \in d.deletions : r.sig # s}
  BY <1>1 DEF DropRequest, OtherDeletions, Database
<1>3. Stored(e) = Stored(d) /\ RowsSound(e)
  BY <1>2 DEF Stored, RowsSound, DbCalm
<1>4. \A u : u # s => (Recorded(d, u) => Recorded(e, u)) /\ (u \in Confirmed(d) => u \in Confirmed(e))
  BY <1>2 DEF Recorded, RequestsFor, Confirmed, ConfirmedRows
<1> QED
  BY <1>1, <1>3, <1>4 DEF DbCalm

LEMMA InsertCalm ==
    ASSUME NEW d \in Database, NEW a \in SUBSET Sig, NEW n, NEW i \in [Sig -> Nat], NEW x,
           DbCalm(d, a, n, i, x), NEW s \in Sig, NEW y,
           s \in x \/ ~ (Expires[s] > n) \/ ~Recorded(d, s)
    PROVE  DbCalm(InsertMessage(d, s, y), a, n, [i EXCEPT ![s] = @ + 1], x)
<1> DEFINE e == InsertMessage(d, s, y)
           j == [i EXCEPT ![s] = @ + 1]
<1>1. e.deletions = d.deletions /\ Stored(e) = Stored(d) \cup {s}
  <2> DEFINE row == [id |-> d.lastMessage + 1, sig |-> s, addr |-> y]
  <2>1. e.messages = d.messages \cup {row} /\ e.deletions = d.deletions /\ row.sig = s
    BY DEF InsertMessage
  <2> HIDE DEF e, row
  <2> QED
    BY <2>1 DEF Stored
<1>2. \A u \in Sig : j[u] > 0 <=> i[u] > 0 \/ u = s
  OBVIOUS
<1>3. Stored(d) \subseteq Sig
  BY DatabaseFields DEF Stored, MessageRow
<1> HIDE DEF e, j
<1>4. Confirmed(e) = Confirmed(d) /\ (\A u : Recorded(e, u) <=> Recorded(d, u))
      /\ (RowsSound(d) => RowsSound(e))
  BY <1>1 DEF Confirmed, ConfirmedRows, RequestsFor, Recorded, RowsSound
<1> QED
  BY <1>1, <1>2, <1>3, <1>4 DEF DbCalm, e, j

LEMMA CalmInit == Init => CalmInv
BY DEF Init, CalmInv, DbCalm, RowsSound, Calm, Looked, EmptyDb, Stored, Confirmed, ConfirmedRows, Idle

LEMMA FewerAsked ==
    ASSUME NEW d, NEW a, NEW b, a \subseteq b, NEW n, NEW i, NEW x, DbCalm(d, b, n, i, x)
    PROVE  DbCalm(d, a, n, i, x)
BY DEF DbCalm

LEMMA MoreDisturbed ==
    ASSUME NEW d, NEW a, NEW n, NEW i, NEW x, NEW y, x \subseteq y, DbCalm(d, a, n, i, x)
    PROVE  DbCalm(d, a, n, i, y)
BY DEF DbCalm

LEMMA AskedExpired ==
    ASSUME NEW d, NEW a, NEW n, NEW i, NEW x, DbCalm(d, a, n, i, x), NEW s, ~ (Expires[s] > n)
    PROVE  DbCalm(d, a \cup {s}, n, i, x)
BY DEF DbCalm

\* No message becomes live by time passing.
LEMMA LaterCalm ==
    ASSUME NEW d \in Database, NEW a \in SUBSET Sig, NEW n \in Nat, NEW i, NEW x,
           DbCalm(d, a, n, i, x)
    PROVE  DbCalm(d, a, n + 1, i, x)
<1>1. \A s \in Sig : Expires[s] > n + 1 => Expires[s] > n
  BY RelayAssumption
<1> QED
  BY <1>1 DEF DbCalm

LEMMA CalmKept ==
    ASSUME NEW t \in Task, NEW d \in Database, NEW e \in Database, Grows(d, e),
           NEW n \in Nat, NEW m \in Nat, n <= m, Calm(t, d, n)
    PROVE  Calm(t, e, m)
<1>1. /\ t.pc \in {"search", "resolveWrite", "insert"} => t.asOf \in Nat
      /\ t.pc = "resolveWrite" => t.sig \in Sig
      /\ t.pc = "delete" => t.at \in Nat
  BY TaskByPc DEF SearchTask, ResolveTask, InsertTask, DeleteTask
<1>2. Looked(t, e)
  <2> SUFFICES ASSUME t.pc \in {"search", "resolveWrite", "insert"}
               PROVE  /\ t.asOf <= e.lastDeletion
                      /\ \A r \in RequestsFor(e, t.sig) :
                            r.id > t.asOf \/ (t.pc # "insert" /\ r.requester = t.key /\ ~r.confirmed)
    BY DEF Looked
  <2>1. t.asOf <= d.lastDeletion /\ d.lastDeletion \in Nat /\ t.asOf \in Nat
    BY <1>1, DatabaseFields DEF Calm, Looked
  <2>2. t.asOf <= e.lastDeletion
    BY <2>1, DatabaseFields DEF Grows
  <2>3. ASSUME NEW r \in RequestsFor(e, t.sig), r \notin d.deletions PROVE r.id > t.asOf
    <3>1. r.id > d.lastDeletion
      BY <2>3 DEF Grows, RequestsFor
    <3>2. r.id \in Nat
      BY DatabaseFields DEF RequestsFor, DeletionRow
    <3> QED
      BY <2>1, <3>1, <3>2
  <2>4. ASSUME NEW r \in RequestsFor(e, t.sig), r \in d.deletions
        PROVE  r.id > t.asOf \/ (t.pc # "insert" /\ r.requester = t.key /\ ~r.confirmed)
    BY <2>4 DEF Calm, Looked, RequestsFor
  <2> QED
    BY <2>2, <2>3, <2>4
<1>3. t.pc = "resolveWrite" => Expires[t.sig] \in Nat
  BY <1>1, RelayAssumption
<1> QED
  BY <1>1, <1>2, <1>3 DEF Calm

\* While a message is live its owner's delete finds it.
LEMMA OwnerOwnsRow ==
    ASSUME HonestSenders, StoredGenuine, NEW s \in Sig, s \in Stored(db), NEW t \in Int,
           Created[s] <= t, t < Expires[s]
    PROVE  OwnedRow(db, s, Owner(s), t)
<1>1. PICK m \in db.messages : m.sig = s
  BY DEF Stored
<1>2. m.addr \in CandidateRecipientIds(Owner(s), t)
  BY <1>1, LiveFound DEF StoredGenuine, FetchIds
<1> QED
  BY <1>1, <1>2 DEF OwnedRow

\* The clock only advances.
LEMMA TimePasses ==
    ASSUME [Next]_vars
    PROVE  now' = now \/ now' = now + 1
<1>1. CASE Tick
  BY <1>1 DEF Tick
<1>2. CASE ~Tick
  BY <1>2 DEF Next, vars, Publish, Delete, Receive, Unseen, Dedup, QuotaFilter, Validate,
     ResolveRead, ResolveSearch, ResolveWrite, Insert, Fanout, ReceiveDelete, HandleDelete,
     ApplyTombstone, StartSweep, Sweep, Restart, Quiet
<1> QED
  BY <1>1, <1>2

\* No step takes back an id.
LEMMA StepGrows ==
    ASSUME TypeOK, [Next]_vars
    PROVE  Grows(db, db')
<1>db. db \in Database
  BY DEF TypeOK
<1>same. ASSUME UNCHANGED db PROVE Grows(db, db')
  BY <1>db, <1>same, SubsetGrows
<1>1. ASSUME NEW w \in Worker,
             \/ Receive(w) \/ Dedup(w) \/ QuotaFilter(w) \/ Validate(w)
             \/ ResolveRead(w) \/ ResolveSearch(w) \/ Fanout(w) \/ ReceiveDelete(w)
      PROVE  Grows(db, db')
  BY <1>1, <1>same DEF Receive, Dedup, QuotaFilter, Validate, ResolveRead, ResolveSearch, Fanout,
                       ReceiveDelete, Unseen
<1>2. ASSUME NEW w \in Worker, ResolveWrite(w) PROVE Grows(db, db')
  <2>1. CASE db' = ConfirmDeletion(db, task[w].sig, task[w].key, now)
    BY <1>db, <2>1, ConfirmGrows
  <2>2. CASE db' = DropRequest(db, task[w].sig)
    <3>1. db'.deletions \subseteq db.deletions /\ db'.lastDeletion = db.lastDeletion
      BY <1>db, <2>2 DEF DropRequest, OtherDeletions, Database
    <3> QED
      BY <1>db, <3>1, SubsetGrows
  <2> QED
    BY <1>2, <2>1, <2>2 DEF ResolveWrite
<1>3. ASSUME NEW w \in Worker, Insert(w) PROVE Grows(db, db')
  <2>1. CASE Store(task[w])
    <3>1. db'.deletions \subseteq db.deletions /\ db'.lastDeletion = db.lastDeletion
      BY <2>1 DEF Store, InsertMessage
    <3> QED
      BY <1>db, <3>1, SubsetGrows
  <2> QED
    BY <1>3, <1>same, <2>1 DEF Insert
<1>4. ASSUME NEW w \in Worker, HandleDelete(w) PROVE Grows(db, db')
  BY <1>4, <1>db, <1>same, ConfirmGrows, PendingGrows DEF HandleDelete
<1>5. ASSUME NEW s \in Sig, ApplyTombstone(s) PROVE Grows(db, db')
  BY <1>5, <1>db, <1>same, ConfirmGrows DEF ApplyTombstone
<1>6. CASE Sweep
  <2>1. db'.deletions \subseteq db.deletions /\ db'.lastDeletion = db.lastDeletion
    BY <1>6, <1>db DEF Sweep, SweptDb, Database
  <2> QED
    BY <1>db, <2>1, SubsetGrows
<1>7. CASE StartSweep \/ Tick \/ Restart \/ UNCHANGED vars
  BY <1>7, <1>same DEF StartSweep, Tick, Restart, vars
<1> QED
  BY <1>1, <1>2, <1>3, <1>4, <1>5, <1>6, <1>7 DEF Next, Publish, Delete

LEMMA CalmStep ==
    ASSUME HonestSenders
    PROVE  TypeOK /\ TypeOK' /\ AuthInv /\ SentBefore /\ CalmInv /\ [Next]_vars => CalmInv'
<1> SUFFICES ASSUME TypeOK, TypeOK', AuthInv, SentBefore, CalmInv, [Next]_vars
             PROVE  CalmInv'
  OBVIOUS
<1> USE RelayAssumption
<1>types. /\ db \in Database /\ task \in [Worker -> Task] /\ now \in Nat
          /\ asked \in SUBSET Sig /\ inserts \in [Sig -> Nat]
          /\ db' \in Database /\ now' \in Nat
  BY DEF TypeOK
<1>calm. DbCalm(db, asked, now, inserts, disturbed)
  BY DEF CalmInv
<1>grows. Grows(db, db')
  BY StepGrows
<1>later. now <= now'
  BY <1>types, TimePasses
\* What a thread that does not move has found out stays so.
<1>others. ASSUME NEW v \in Worker, task'[v] = task[v] PROVE Calm(task'[v], db', now')
  <2>1. Calm(task[v], db, now) /\ task[v] \in Task
    BY <1>types DEF CalmInv
  <2> QED
    BY <1>types, <1>grows, <1>later, <1>others, <2>1, CalmKept
<1>go. ASSUME NEW w \in Worker, NEW t, GoTo(w, t),
              DbCalm(db', asked', now', inserts', disturbed'), Calm(t, db', now')
       PROVE  CalmInv'
  <2>1. ASSUME NEW v \in Worker PROVE Calm(task'[v], db', now')
    <3>1. CASE v = w
      BY <1>types, <1>go, <3>1 DEF GoTo
    <3>2. CASE v # w
      BY <1>types, <1>go, <1>others, <3>2 DEF GoTo
    <3> QED
      BY <3>1, <3>2
  <2> QED
    BY <1>go, <2>1 DEF CalmInv
<1>move. ASSUME NEW w \in Worker, NEW t, GoTo(w, t),
                UNCHANGED <<db, asked, now, inserts, disturbed>>, Calm(t, db, now)
         PROVE  CalmInv'
  BY <1>move, <1>go, <1>calm
<1>idle. ASSUME NEW d, NEW n PROVE Calm(Idle, d, n)
  BY DEF Calm, Looked, Idle
<1>fan. ASSUME NEW s, NEW p, NEW d, NEW n
        PROVE  Calm([pc |-> "fanout", sig |-> s, path |-> p], d, n)
  BY DEF Calm, Looked
<1>advance. ASSUME NEW w \in Worker, NEW pc \in {"quota", "validate", "resolveRead"}, Advance(w, pc),
                   task[w] \in PublishTask, UNCHANGED <<db, asked, now, inserts, disturbed>>
            PROVE  CalmInv'
  <2>1. Calm([task[w] EXCEPT !.pc = pc], db, now)
    BY <1>advance DEF Calm, Looked, PublishTask
  <2> QED
    BY <1>advance, <1>move, <2>1 DEF Advance
<1>answer. ASSUME NEW w \in Worker, Answer(w), UNCHANGED <<db, asked, now, inserts, disturbed>>
           PROVE  CalmInv'
  BY <1>answer, <1>move, <1>idle DEF Answer
<1>1. ASSUME NEW w \in Worker, Receive(w) PROVE CalmInv'
  <2>1. PICK p \in Payload : GoTo(w, [pc |-> "dedup", sig |-> p.sig, addr |-> p.addr])
    BY <1>1 DEF Receive
  <2>2. Calm([pc |-> "dedup", sig |-> p.sig, addr |-> p.addr], db, now)
    BY DEF Calm, Looked
  <2> QED
    BY <1>1, <1>move, <2>1, <2>2 DEF Receive, Unseen
<1>2. ASSUME NEW w \in Worker, Dedup(w) \/ QuotaFilter(w) \/ Validate(w) PROVE CalmInv'
  <2>1. task[w] \in PublishTask
    BY <1>2, <1>types, TaskByPc DEF Dedup, QuotaFilter, Validate
  <2> QED
    BY <1>2, <2>1, <1>answer, <1>advance DEF Dedup, QuotaFilter, Validate, Quiet
<1>3. ASSUME NEW w \in Worker, ResolveRead(w) PROVE CalmInv'
  <2> DEFINE s == task[w].sig
             none == [pc |-> "insert", sig |-> s, addr |-> task[w].addr, asOf |-> db.lastDeletion]
             claim(k) == [pc |-> "search", sig |-> s, addr |-> task[w].addr, key |-> k,
                          asOf |-> db.lastDeletion]
  <2>1. UNCHANGED <<db, asked, now, inserts, disturbed>> /\ db.lastDeletion \in Nat
    BY <1>3, <1>types, DatabaseFields DEF ResolveRead, Quiet
  <2>2. CASE RequestsFor(db, s) = {} /\ FindNone(w)
    <3>1. Calm(none, db, now)
      BY <2>1, <2>2 DEF Calm, Looked
    <3> QED
      BY <1>move, <2>1, <2>2, <3>1 DEF FindNone
  <2>3. CASE Answer(w)
    BY <1>answer, <2>1, <2>3
  <2>4. ASSUME NEW r \in RequestsFor(db, s), ~r.confirmed, FindClaim(w, r.requester) PROVE CalmInv'
    <3>1. \A q \in RequestsFor(db, s) : q = r
      BY <1>calm, <2>4 DEF DbCalm, RowsSound, RequestsFor
    <3>2. Calm(claim(r.requester), db, now)
      BY <2>1, <2>4, <3>1 DEF Calm, Looked
    <3> QED
      BY <1>move, <2>1, <2>4, <3>2 DEF FindClaim
  <2> QED
    BY <1>3, <2>2, <2>3, <2>4 DEF ResolveRead
<1>14. ASSUME NEW w \in Worker, ResolveSearch(w) PROVE CalmInv'
  <2> DEFINE t == task[w]
             found == [pc |-> "resolveWrite", sig |-> t.sig, addr |-> t.addr, key |-> t.key,
                       matched |-> t.addr \in CandidateRecipientIds(t.key, now), asOf |-> t.asOf]
  <2>1. UNCHANGED <<db, asked, now, inserts, disturbed>> /\ GoTo(w, found)
    BY <1>14 DEF ResolveSearch, Quiet
  <2>2. /\ t \in SearchTask /\ t.sig \in Sig
        /\ t.addr = Addr[t.sig] /\ Created[t.sig] <= now /\ Calm(t, db, now)
    BY <1>14, <1>types, TaskByPc DEF ResolveSearch, SearchTask, AuthInv, VerifiedGenuine, SentBefore,
                                     VerifiedPc, CalmInv
  <2>3. t.key = Owner(t.sig) /\ t.addr \notin CandidateRecipientIds(t.key, now)
          => Expires[t.sig] <= now
    <3>1. CASE now < Expires[t.sig]
      BY <1>types, <2>2, <3>1, LiveFound DEF FetchIds
    <3> QED
      BY <1>types, <2>2, <3>1
  <2>4. Looked(found, db)
    BY <1>14, <2>2 DEF Calm, Looked, ResolveSearch
  <2>5. found.pc = "resolveWrite" /\ found.sig = t.sig /\ found.key = t.key
        /\ (~found.matched <=> t.addr \notin CandidateRecipientIds(t.key, now))
    OBVIOUS
  <2> HIDE DEF found
  <2>6. Calm(found, db, now)
    BY <2>3, <2>4, <2>5 DEF Calm
  <2> QED
    BY <1>move, <2>1, <2>6
<1>4. ASSUME NEW w \in Worker, ResolveWrite(w) PROVE CalmInv'
  <2> DEFINE t == task[w]
             s == task[w].sig
  <2>1. /\ s \in Sig /\ t.asOf \in Nat /\ Created[s] <= now /\ Calm(t, db, now)
        /\ t.matched => t.key = Owner(s)
    BY <1>4, <1>types, TaskByPc DEF ResolveWrite, ResolveTask, SentBefore, VerifiedPc, CalmInv,
                                    AuthInv, MatchedByOwner
  <2>2. UNCHANGED <<asked, now, inserts>>
    BY <1>4 DEF ResolveWrite, Quiet
  <2>3. CASE t.matched
    <3>1. db' = ConfirmDeletion(db, s, Owner(s), now) /\ Answer(w) /\ UNCHANGED disturbed
      BY <1>4, <2>1, <2>3 DEF ResolveWrite
    <3>2. DbCalm(ConfirmDeletion(db, s, Owner(s), now), asked \cup {s}, now, inserts, disturbed)
      BY <1>types, <1>calm, <2>1, ConfirmCalm
    <3>3. DbCalm(db', asked', now', inserts', disturbed')
      BY <2>2, <3>1, <3>2, FewerAsked
    <3> QED
      BY <1>go, <1>idle, <3>1, <3>3 DEF Answer
  <2>4. CASE ~t.matched
    <3> DEFINE next == [pc |-> "insert", sig |-> s, addr |-> t.addr, asOf |-> t.asOf]
    <3>1. db' = DropRequest(db, s) /\ GoTo(w, next) /\ Disturb(t)
      BY <1>4, <2>4 DEF ResolveWrite
    <3>2. disturbed \subseteq disturbed' /\ (Overlooked(t) => s \in disturbed')
      BY <3>1 DEF Disturb
    <3>3. ASSUME ~Overlooked(t), Expires[s] > now
          PROVE  ~Recorded(db, s) /\ s \notin Confirmed(db)
      <4>1. \A r \in RequestsFor(db, s) :
              r.requester = Owner(s) => t.key = Owner(s) /\ ~r.confirmed
        BY <1>4, <2>1, <3>3 DEF Overlooked, Calm, Looked, ResolveWrite
      <4>2. ~ (t.key = Owner(s))
        BY <1>4, <1>types, <2>1, <2>4, <3>3 DEF Calm, ResolveWrite
      <4>3. ~Recorded(db, s)
        BY <4>1, <4>2 DEF Recorded
      <4> QED
        BY <4>3 DEF Recorded, AuthInv, AuthorizedTombstones, Confirmed, ConfirmedRows, RequestsFor
    <3>4. DbCalm(db, asked, now, inserts, disturbed')
      BY <1>calm, <3>2, MoreDisturbed
    <3>5. DbCalm(db', asked', now', inserts', disturbed')
      BY <1>types, <2>2, <3>1, <3>2, <3>3, <3>4, DropCalm
    <3>6. RequestsFor(db', s) = {} /\ db'.lastDeletion = db.lastDeletion
      BY <1>types, <3>1 DEF RequestsFor, DropRequest, OtherDeletions, Database
    <3>7. t.asOf <= db.lastDeletion
      BY <1>4, <2>1 DEF Calm, Looked, ResolveWrite
    <3>8. Calm(next, db', now')
      BY <3>6, <3>7 DEF Calm, Looked
    <3> QED
      BY <1>go, <3>1, <3>5, <3>8
  <2> QED
    BY <2>3, <2>4
<1>5. ASSUME NEW w \in Worker, Insert(w) PROVE CalmInv'
  <2> DEFINE t == task[w]
             s == task[w].sig
  <2>1. s \in Sig /\ t.asOf \in Nat /\ Calm(t, db, now) /\ UNCHANGED <<asked, now>>
    BY <1>5, <1>types, TaskByPc DEF Insert, InsertTask, CalmInv, Quiet
  <2>2. CASE Answer(w) /\ UNCHANGED <<db, inserts, disturbed>>
    BY <1>answer, <2>1, <2>2
  <2>3. CASE Store(t) /\ ThenFanout(w, "publish")
    <3>1. disturbed \subseteq disturbed' /\ (Overlooked(t) => s \in disturbed')
      BY <2>3 DEF Store, Disturb
    <3>2. ~Overlooked(t) => ~Recorded(db, s)
      BY <1>5, <2>1 DEF Overlooked, Recorded, Calm, Looked, Insert
    <3>3. DbCalm(db, asked, now, inserts, disturbed')
      BY <1>calm, <3>1, MoreDisturbed
    <3>4. DbCalm(InsertMessage(db, s, t.addr), asked, now, [inserts EXCEPT ![s] = @ + 1], disturbed')
      BY <1>types, <2>1, <3>1, <3>2, <3>3, InsertCalm
    <3>5. DbCalm(db', asked', now', inserts', disturbed')
      BY <2>1, <2>3, <3>4 DEF Store
    <3> QED
      BY <1>go, <1>fan, <2>3, <3>5 DEF ThenFanout
  <2> QED
    BY <1>5, <2>2, <2>3 DEF Insert
<1>6. ASSUME NEW w \in Worker, Fanout(w) PROVE CalmInv'
  BY <1>6, <1>answer DEF Fanout
<1>7. ASSUME NEW w \in Worker, ReceiveDelete(w) PROVE CalmInv'
  <2>1. PICK q \in Request : /\ Created[q[1]] <= now
                             /\ GoTo(w, [pc |-> "delete", sig |-> q[1], key |-> q[2], at |-> now])
    BY <1>7 DEF ReceiveDelete
  <2>2. Calm([pc |-> "delete", sig |-> q[1], key |-> q[2], at |-> now], db, now)
    BY <1>types, <2>1 DEF Calm, Looked
  <2> QED
    BY <1>7, <1>move, <2>1, <2>2 DEF ReceiveDelete, Unseen
<1>8. ASSUME NEW w \in Worker, HandleDelete(w) PROVE CalmInv'
  <2> DEFINE s == task[w].sig
             k == task[w].key
             t == task[w].at
  <2>1. s \in Sig /\ k \in Key /\ t \in Nat /\ Created[s] <= t /\ t <= now
    BY <1>8, <1>types, TaskByPc DEF HandleDelete, DeleteTask, CalmInv, Calm
  <2>2. /\ UNCHANGED <<now, inserts, disturbed>>
        /\ asked' = IF k = Owner(s) /\ ~Blocked(task[w]) THEN asked \cup {s} ELSE asked
    BY <1>8 DEF HandleDelete, Remember
  <2>3. CASE OwnedRow(db, s, k, t) /\ db' = ConfirmDeletion(db, s, k, t) /\ ThenFanout(w, "delete")
    <3>1. k = Owner(s)
      BY <2>3, OwnedRowOwner DEF AuthInv
    <3>2. DbCalm(db', asked \cup {s}, now, inserts, disturbed)
      BY <1>types, <1>calm, <2>1, <2>3, <3>1, ConfirmCalm
    <3>3. DbCalm(db', asked', now', inserts', disturbed')
      BY <2>2, <3>2, FewerAsked
    <3> QED
      BY <1>go, <1>fan, <2>3, <3>3 DEF ThenFanout
  <2>4. CASE s \notin Stored(db) /\ db' = RecordPending(db, s, k, t) /\ Answer(w)
    <3>1. ~Blocked(task[w]) => \A r \in RequestsFor(db, s) : r.requester = k
      BY <2>4 DEF Blocked, MessageExists
    <3>2. /\ DbCalm(db', asked, now, inserts, disturbed)
          /\ k = Owner(s) /\ ~Blocked(task[w]) => DbCalm(db', asked \cup {s}, now, inserts, disturbed)
      BY <1>types, <1>calm, <2>1, <2>4, <3>1, PendingCalm
    <3>3. DbCalm(db', asked', now', inserts', disturbed')
      BY <2>2, <3>2
    <3> QED
      BY <1>go, <1>idle, <2>4, <3>3 DEF Answer
  <2>5. CASE s \in Stored(db) /\ ~OwnedRow(db, s, k, t) /\ db' = db /\ Answer(w)
    <3>1. k = Owner(s) => ~ (Expires[s] > now)
      <4>1. CASE t < Expires[s]
        BY <2>1, <2>5, <4>1, OwnerOwnsRow DEF AuthInv
      <4> QED
        BY <1>types, <2>1, <4>1
    <3>2. DbCalm(db', asked', now', inserts', disturbed')
      BY <1>calm, <2>2, <2>5, <3>1, AskedExpired
    <3> QED
      BY <1>go, <1>idle, <2>5, <3>2 DEF Answer
  <2> QED
    BY <1>8, <2>3, <2>4, <2>5 DEF HandleDelete, MessageExists
<1>9. ASSUME NEW s \in Sig, ApplyTombstone(s) PROVE CalmInv'
  <2>1. UNCHANGED <<task, asked, now, inserts, disturbed>>
    BY <1>9 DEF ApplyTombstone
  <2>2. DbCalm(db', asked', now', inserts', disturbed')
    <3>1. CASE UNCHANGED db
      BY <1>calm, <2>1, <3>1
    <3>2. ASSUME NEW t \in Created[s] .. now, db' = ConfirmDeletion(db, s, Owner(s), t)
          PROVE  DbCalm(db', asked', now', inserts', disturbed')
      <4>1. t \in Int /\ t >= Created[s]
        BY <1>types
      <4>2. DbCalm(db', asked \cup {s}, now, inserts, disturbed)
        BY <1>types, <1>calm, <3>2, <4>1, ConfirmCalm
      <4> QED
        BY <2>1, <4>2, FewerAsked
    <3> QED
      BY <1>9, <3>1, <3>2 DEF ApplyTombstone
  <2> QED
    BY <1>9, <1>others, <2>1, <2>2 DEF CalmInv
<1>10. CASE Sweep
  <2>0. sweep \in Nat /\ sweep <= now
    <3>1. sweep # -1 /\ sweep \in -1 .. now
      BY <1>10 DEF Sweep, TypeOK, NoSweep
    <3> QED
      BY <1>types, <3>1
  <2>1. /\ db'.messages = {m \in db.messages : TextAfter(m.sig, sweep)}
        /\ db'.deletions = {r \in db.deletions : r.at > sweep - MaxTtl}
        /\ UNCHANGED <<task, asked, now, inserts, disturbed>>
    BY <1>10, <1>types DEF Sweep, SweptDb, Database
  <2>2. ASSUME NEW m \in db.messages, m \notin db'.messages PROVE ~ (Expires[m.sig] > now)
    <3>1. m.sig \in Sig
      BY <1>types, DatabaseFields DEF MessageRow
    <3> QED
      BY <1>types, <2>0, <2>1, <2>2, <3>1 DEF TextAfter
  <2>3. ASSUME NEW r \in db.deletions, r \notin db'.deletions PROVE ~ (Expires[r.sig] > now)
    <3>1. r.sig \in Sig /\ r.at \in Int /\ MaxTtl \in Nat
      BY <1>types, DatabaseFields, ProtocolAssumption DEF DeletionRow
    <3>2. r.at <= sweep - MaxTtl
      BY <1>types, <2>0, <2>1, <2>3, <3>1
    <3>3. r.at >= Created[r.sig] /\ Expires[r.sig] <= Created[r.sig] + MaxTtl
      BY <1>calm, <3>1 DEF DbCalm, RowsSound, HonestSenders
    <3> QED
      BY <1>types, <2>0, <3>1, <3>2, <3>3
  <2>4. DbCalm(db', asked, now, inserts, disturbed)
    BY <1>types, <1>calm, <2>1, <2>2, <2>3, ReapCalm
  <2> QED
    BY <1>others, <2>1, <2>4 DEF CalmInv
<1>11. CASE Tick
  <2>1. now' = now + 1 /\ UNCHANGED <<db, task, asked, inserts, disturbed>>
    BY <1>11 DEF Tick
  <2>2. DbCalm(db', asked', now', inserts', disturbed')
    BY <1>types, <1>calm, <2>1, LaterCalm
  <2> QED
    BY <1>others, <2>1, <2>2 DEF CalmInv
<1>12. CASE Restart
  <2>1. \A w \in Worker : task'[w] = Idle
    BY <1>12 DEF Restart
  <2> QED
    BY <1>12, <1>calm, <1>idle, <2>1 DEF Restart, CalmInv
<1>13. CASE StartSweep \/ UNCHANGED vars
  BY <1>13 DEF StartSweep, vars, CalmInv
<1> QED
  BY <1>1, <1>2, <1>3, <1>4, <1>5, <1>6, <1>7, <1>8, <1>9, <1>10, <1>11, <1>12, <1>13, <1>14
  DEF Next, Publish, Delete

LEMMA SentBeforeAlways == Spec => []SentBefore
BY TypeCorrect, SentBeforeInit, SentBeforeStep, PTL DEF Spec

LEMMA CalmAlways ==
    ASSUME HonestSenders
    PROVE  Spec => [](TypeOK /\ AuthInv /\ SentBefore /\ CalmInv)
BY TypeCorrect, AuthAlways, SentBeforeAlways, CalmInit, CalmStep, PTL DEF Spec

\* Once an owner's delete is taken the message is not served again before it
\* expires, whatever runs beside it and whoever else claims the message, until
\* a publish of it overlooks the delete. The one assumption is HonestSenders.
THEOREM DeletesHonoured ==
    ASSUME HonestSenders
    PROVE  Spec => []OwnerDeleteHonoured
<1>1. CalmInv => OwnerDeleteHonoured
  BY DEF CalmInv, DbCalm, OwnerDeleteHonoured
<1> QED
  BY <1>1, CalmAlways, PTL

-----------------------------------------------------------------------------
\* What a step does to what users see.

\* Messages may go, none comes; a tombstone goes only when it is too old to be
\* of use or its message is disturbed.
Fading ==
    /\ now <= now' /\ Stored(db') \subseteq Stored(db)
    /\ inserts' = inserts /\ asked \subseteq asked'
    /\ \A r \in ConfirmedRows(db) :
         \/ r.sig \in Confirmed(db') \cup disturbed'
         \/ r.at <= now - MaxTtl /\ Expires[r.sig] <= now

\* The drop of a claim behind a tombstone that was written meanwhile.
Straying(w) ==
    /\ ResolveWrite(w)
    /\ Stored(db') = Stored(db) /\ Confirmed(db) \subseteq Confirmed(db') \cup {task[w].sig}
    /\ Confirmed(db') \subseteq Confirmed(db)
    /\ disturbed' = disturbed \cup {task[w].sig}

LEMMA DropStrays ==
    ASSUME TypeOK, AuthInv, CalmInv, NEW w \in Worker, ResolveWrite(w), ~task[w].matched
    PROVE  /\ Stored(db') = Stored(db) /\ Confirmed(db') \subseteq Confirmed(db)
           /\ Confirmed(db) \subseteq Confirmed(db') \cup {task[w].sig}
           /\ \/ disturbed' = disturbed \cup {task[w].sig}
              \/ disturbed' = disturbed /\ Confirmed(db) \subseteq Confirmed(db')
<1> DEFINE t == task[w]
           s == task[w].sig
<1>1. db \in Database /\ Calm(t, db, now) /\ t.pc = "resolveWrite"
  BY DEF TypeOK, CalmInv, ResolveWrite
<1>2. db' = DropRequest(db, s) /\ Disturb(t)
  BY DEF ResolveWrite
<1>3. db'.messages = db.messages /\ db'.deletions = OtherDeletions(db, s)
  BY <1>1, <1>2 DEF DropRequest, Database
<1>4. /\ Stored(db') = Stored(db) /\ Confirmed(db') \subseteq Confirmed(db)
      /\ Confirmed(db) \subseteq Confirmed(db') \cup {s}
      /\ s \notin Confirmed(db) => Confirmed(db) \subseteq Confirmed(db')
  BY <1>3 DEF Stored, Confirmed, ConfirmedRows, OtherDeletions
<1>5. s \in Confirmed(db) => Overlooked(t)
  <2> SUFFICES ASSUME NEW r \in ConfirmedRows(db), r.sig = s PROVE Overlooked(t)
    BY DEF Confirmed
  <2>1. r \in RequestsFor(db, s) /\ r.confirmed
    BY DEF ConfirmedRows, RequestsFor
  <2>2. r.requester = Owner(s)
    BY DEF AuthInv, AuthorizedTombstones
  <2>3. r.id > t.asOf
    BY <1>1, <2>1 DEF Calm, Looked
  <2> QED
    BY <2>1, <2>2, <2>3 DEF Overlooked
<1>6. CASE Overlooked(t)
  BY <1>2, <1>4, <1>6 DEF Disturb
<1>7. CASE ~Overlooked(t)
  BY <1>2, <1>4, <1>5, <1>7 DEF Disturb
<1> QED
  BY <1>6, <1>7

LEMMA StepFades ==
    ASSUME HonestSenders, TypeOK, AuthInv, CalmInv, [Next]_vars
    PROVE  \/ Fading /\ disturbed' = disturbed
           \/ \E w \in Worker : Straying(w)
           \/ \E w \in Worker : Insert(w)
<1> USE RelayAssumption, ProtocolAssumption
<1>types. /\ db \in Database /\ task \in [Worker -> Task] /\ now \in Nat /\ asked \in SUBSET Sig
  BY DEF TypeOK
<1>rows. \A r \in ConfirmedRows(db) : r.sig \in Confirmed(db) /\ r.sig \in Sig /\ r.at \in Int
  BY <1>types, DatabaseFields DEF ConfirmedRows, Confirmed, DeletionRow
<1>still. ASSUME UNCHANGED <<now, inserts>>, asked \subseteq asked', Stored(db') \subseteq Stored(db),
                 Confirmed(db) \subseteq Confirmed(db')
          PROVE  Fading
  BY <1>types, <1>rows, <1>still DEF Fading
<1>same. ASSUME UNCHANGED <<now, db, inserts, disturbed>>, asked \subseteq asked'
         PROVE Fading /\ disturbed' = disturbed
  BY <1>same, <1>still
<1>1. ASSUME NEW w \in Worker,
             \/ Receive(w) \/ Dedup(w) \/ QuotaFilter(w) \/ Validate(w)
             \/ ResolveRead(w) \/ ResolveSearch(w) \/ Fanout(w) \/ ReceiveDelete(w)
      PROVE  Fading /\ disturbed' = disturbed
  BY <1>1, <1>same DEF Receive, Dedup, QuotaFilter, Validate, ResolveRead, ResolveSearch, Fanout,
                       ReceiveDelete, Quiet, Unseen
<1>2. ASSUME NEW w \in Worker, ResolveWrite(w)
      PROVE  (Fading /\ disturbed' = disturbed) \/ Straying(w)
  <2> DEFINE s == task[w].sig
  <2>1. s \in Sig /\ task[w].key \in Key /\ UNCHANGED <<now, asked, inserts>>
    BY <1>2, <1>types, TaskByPc DEF ResolveWrite, ResolveTask, Quiet
  <2>2. CASE task[w].matched
    <3>1. db' = ConfirmDeletion(db, s, task[w].key, now) /\ UNCHANGED disturbed
      BY <1>2, <2>2 DEF ResolveWrite
    <3> QED
      BY <1>types, <1>still, <2>1, <3>1, ConfirmEffect
  <2>3. CASE ~task[w].matched
    <3>1. /\ Stored(db') = Stored(db) /\ Confirmed(db') \subseteq Confirmed(db)
          /\ Confirmed(db) \subseteq Confirmed(db') \cup {s}
          /\ \/ disturbed' = disturbed \cup {s}
             \/ disturbed' = disturbed /\ Confirmed(db) \subseteq Confirmed(db')
      BY <1>2, <2>3, DropStrays
    <3> QED
      BY <1>2, <1>still, <2>1, <3>1 DEF Straying
  <2> QED
    BY <2>2, <2>3
<1>3. ASSUME NEW w \in Worker, HandleDelete(w) PROVE Fading /\ disturbed' = disturbed
  <2> DEFINE t == task[w]
  <2>1. t.sig \in Sig /\ t.key \in Key /\ t.at \in Nat
    BY <1>3, <1>types, TaskByPc DEF HandleDelete, DeleteTask
  <2>2. asked \subseteq asked' /\ UNCHANGED <<now, inserts, disturbed>>
    BY <1>3 DEF HandleDelete, Remember
  <2>3. CASE db' = ConfirmDeletion(db, t.sig, t.key, t.at)
    BY <1>types, <1>still, <2>1, <2>2, <2>3, ConfirmEffect
  <2>4. CASE db' = RecordPending(db, t.sig, t.key, t.at)
    <3>1. Stored(db') = Stored(db)
      BY <2>4 DEF RecordPending, ReplaceDeletion, Stored
    <3>2. Confirmed(db) \subseteq Confirmed(db')
      BY <2>4 DEF RecordPending, ReplaceDeletion, OtherDeletions, NewDeletion, RequestsFor, Confirmed,
                  ConfirmedRows
    <3> QED
      BY <1>still, <2>2, <3>1, <3>2
  <2> QED
    BY <1>3, <1>same, <2>2, <2>3, <2>4 DEF HandleDelete
<1>4. ASSUME NEW s \in Sig, ApplyTombstone(s) PROVE Fading /\ disturbed' = disturbed
  <2>1. UNCHANGED <<now, asked, inserts, disturbed>>
    BY <1>4 DEF ApplyTombstone
  <2>2. ASSUME NEW t \in Created[s] .. now, db' = ConfirmDeletion(db, s, Owner(s), t) PROVE Fading
    <3>1. t \in Int
      BY <1>types
    <3>2. Owner(s) \in Key
      BY OwnerIsKey
    <3>3. Stored(db') \subseteq Stored(db) /\ Confirmed(db) \subseteq Confirmed(db')
      BY <1>types, <2>2, <3>1, <3>2, ConfirmEffect
    <3>4. asked \subseteq asked'
      BY <2>1
    <3> QED
      BY <1>still, <2>1, <3>3, <3>4
  <2> QED
    BY <1>4, <1>same, <2>1, <2>2 DEF ApplyTombstone
<1>5. CASE Sweep
  <2>0. sweep \in Nat /\ sweep <= now
    <3>1. sweep # -1 /\ sweep \in -1 .. now
      BY <1>5 DEF Sweep, TypeOK, NoSweep
    <3> QED
      BY <1>types, <3>1
  <2>1. /\ db'.messages = {m \in db.messages : TextAfter(m.sig, sweep)}
        /\ db'.deletions = {r \in db.deletions : r.at > sweep - MaxTtl}
        /\ UNCHANGED <<asked, now, inserts, disturbed>>
    BY <1>5, <1>types DEF Sweep, SweptDb, Database
  <2>2. Stored(db') \subseteq Stored(db)
    BY <2>1 DEF Stored
  <2>3. ASSUME NEW r \in ConfirmedRows(db), r.sig \notin Confirmed(db')
        PROVE  r.at <= now - MaxTtl /\ Expires[r.sig] <= now
    <3>1. ~ (r.at > sweep - MaxTtl)
      BY <2>1, <2>3 DEF Confirmed, ConfirmedRows
    <3>2. r.at >= Created[r.sig] /\ Expires[r.sig] <= Created[r.sig] + MaxTtl
      BY <1>rows, <2>3 DEF CalmInv, DbCalm, RowsSound, ConfirmedRows, HonestSenders
    <3> QED
      BY <1>types, <1>rows, <2>0, <2>3, <3>1, <3>2
  <2> QED
    BY <1>types, <2>1, <2>2, <2>3 DEF Fading
<1>6. CASE Tick
  BY <1>6, <1>types, <1>rows DEF Tick, Fading
<1>7. CASE StartSweep \/ Restart \/ UNCHANGED vars
  BY <1>7, <1>same DEF StartSweep, Restart, vars
<1> QED
  BY <1>1, <1>2, <1>3, <1>4, <1>5, <1>6, <1>7 DEF Next, Publish, Delete

\* An insert touches no tombstone.
LEMMA InsertKeepsTombstones ==
    ASSUME NEW w \in Worker, Insert(w) PROVE ConfirmedRows(db') = ConfirmedRows(db)
BY DEF Insert, Store, InsertMessage, ConfirmedRows

\* A tombstone is there for the whole of its window, unless a publish that
\* overlooked it drops it: for every number of threads and order of requests,
\* strangers' included. The one assumption is HonestSenders.
THEOREM TombstonesKept ==
    ASSUME HonestSenders
    PROVE  Spec => TombstoneKept
<1>1. ASSUME TypeOK, AuthInv, CalmInv, [Next]_vars, NEW r \in ConfirmedRows(db), r.at > now - MaxTtl
      PROVE  r.sig \in Confirmed(db') \cup disturbed'
  <2>0. r.sig \in Confirmed(db)
    BY DEF Confirmed
  <2>1. CASE Fading
    <3>1. r.at \in Int /\ now \in Int /\ MaxTtl \in Int
      BY <1>1, DatabaseFields, ProtocolAssumption DEF TypeOK, ConfirmedRows, DeletionRow
    <3> QED
      BY <1>1, <2>1, <3>1 DEF Fading
  <2>2. CASE \E w \in Worker : Insert(w)
    BY <2>0, <2>2, InsertKeepsTombstones DEF Confirmed
  <2>3. CASE \E w \in Worker : Straying(w)
    BY <2>0, <2>3 DEF Straying
  <2> QED
    BY <1>1, <2>1, <2>2, <2>3, StepFades
<1>2. TypeOK /\ AuthInv /\ CalmInv /\ [Next]_vars
        => \A r \in ConfirmedRows(db) :
             r.at > now - MaxTtl => r.sig \in Confirmed(db') \cup disturbed'
  BY <1>1
<1> QED
  BY <1>2, CalmAlways, PTL DEF Spec, TombstoneKept

LEMMA FadingVanishes ==
    ASSUME TypeOK, CalmInv, Fading, disturbed' = disturbed, now' \in Nat
    PROVE  AMailbox!Vanish({s \in Sig : View'[s] = "gone"})
<1> DEFINE S == {s \in Sig : View'[s] = "gone"}
<1> USE RelayAssumption
<1>types. now \in Nat /\ inserts \in [Sig -> Nat]
  BY DEF TypeOK
<1>1. ASSUME NEW s \in Sig, View'[s] # "gone" PROVE View'[s] = View[s]
  <2>0. CASE s \in disturbed
    BY <2>0 DEF View, Over
  <2>1. CASE s \notin disturbed /\ s \in Stored(db') /\ Expires[s] > now'
    BY <1>types, <2>1 DEF View, Over, Fading
  <2>2. CASE s \notin disturbed /\ ~ (s \in Stored(db') /\ Expires[s] > now')
    <3>1. View'[s] = "new" /\ s \notin Stored(db') /\ ~Over(s)'
      BY <1>1, <2>2 DEF View, Over
    <3>2. /\ ~ (inserts[s] > 0) /\ s \notin asked /\ ~ (Expires[s] <= now) /\ ~ (Expires[s] <= now')
          /\ s \notin Confirmed(db')
      BY <1>types, <3>1 DEF Over, Fading
    <3>3. s \notin Stored(db)
      BY <3>2 DEF CalmInv, DbCalm
    <3>4. s \notin Confirmed(db)
      BY <2>2, <3>2 DEF Fading, Confirmed
    <3> QED
      BY <2>2, <3>1, <3>2, <3>3, <3>4 DEF View, Over
  <2> QED
    BY <2>0, <2>1, <2>2
<1>2. View' = [s \in Sig |-> IF s \in S THEN "gone" ELSE View[s]]
  BY <1>1 DEF View, Over
<1>3. \A s \in S : View[s] # "adrift"
  BY DEF View, Over
<1> QED
  BY <1>2, <1>3 DEF AMailbox!Vanish

\* Where only s changes and is disturbed, s strays.
LEMMA OthersSame ==
    ASSUME NEW s \in Sig, now' = now, asked' = asked, disturbed' = disturbed \cup {s},
           \A u \in Sig : u # s => /\ inserts'[u] = inserts[u]
                                   /\ u \in Stored(db') <=> u \in Stored(db)
                                   /\ u \in Confirmed(db') <=> u \in Confirmed(db)
    PROVE  AMailbox!Stray(s)
<1>1. View'[s] = "adrift"
  BY DEF View, Over
<1>2. ASSUME NEW u \in Sig, u # s PROVE View'[u] = View[u]
  BY <1>2 DEF View, Over
<1>3. View' = [View EXCEPT ![s] = "adrift"]
  BY <1>1, <1>2 DEF View, Over
<1> QED
  BY <1>3 DEF AMailbox!Stray

LEMMA DropIsStray ==
    ASSUME TypeOK, NEW w \in Worker, Straying(w)
    PROVE  \E s \in Sig : AMailbox!Stray(s)
<1>1. task[w].sig \in Sig /\ UNCHANGED <<now, asked, inserts>>
  BY TaskByPc DEF TypeOK, Straying, ResolveWrite, ResolveTask, Quiet
<1>2. AMailbox!Stray(task[w].sig)
  BY <1>1, OthersSame DEF Straying
<1> QED
  BY <1>1, <1>2

LEMMA InsertArrives ==
    ASSUME TypeOK, AuthInv, CalmInv, NEW w \in Worker, Insert(w)
    PROVE  View' = View \/ \E s \in Sig : AMailbox!Arrive(s) \/ AMailbox!Stray(s)
<1> DEFINE t == task[w]
           s == task[w].sig
           row == [id |-> db.lastMessage + 1, sig |-> s, addr |-> task[w].addr]
<1> USE RelayAssumption
<1>types. /\ now \in Nat /\ inserts \in [Sig -> Nat] /\ s \in Sig /\ Calm(t, db, now)
  BY TaskByPc DEF TypeOK, Insert, InsertTask, CalmInv
<1>1. CASE UNCHANGED <<db, inserts, disturbed>>
  BY <1>1 DEF Insert, Quiet, View, Over
<1>2. CASE Store(t) /\ s \notin Stored(db)
  <2>1. /\ db'.messages = db.messages \cup {row} /\ row.sig = s
        /\ inserts' = [inserts EXCEPT ![s] = @ + 1] /\ now' = now /\ asked' = asked
        /\ disturbed' = IF Overlooked(t) THEN disturbed \cup {s} ELSE disturbed
    BY <1>2 DEF Insert, Store, InsertMessage, Quiet, Disturb
  <2> HIDE DEF row
  <2>2. Stored(db') = Stored(db) \cup {s} /\ Confirmed(db') = Confirmed(db)
    BY <2>1, InsertKeepsTombstones DEF Stored, Confirmed
  <2>others. \A u \in Sig : u # s => inserts'[u] = inserts[u]
    BY <1>types, <2>1
  <2>3. CASE s \in disturbed'
    <3>1. disturbed' = disturbed \cup {s}
      BY <2>1, <2>3
    <3>2. AMailbox!Stray(s)
      BY <1>types, <2>1, <2>2, <2>others, <3>1, OthersSame
    <3> QED
      BY <1>types, <3>2
  <2>4. CASE s \notin disturbed'
    <3>1. ~Overlooked(t) /\ disturbed' = disturbed /\ s \notin disturbed
      BY <2>1, <2>4
    <3>2. \A u \in Sig : u # s => View'[u] = View[u]
      BY <2>1, <2>2, <2>others, <3>1 DEF View, Over
    <3>3. ~Recorded(db, s)
      BY <1>types, <3>1 DEF Calm, Looked, Insert, Overlooked, Recorded
    <3>4. s \notin Confirmed(db)
      BY <3>3 DEF Recorded, AuthInv, AuthorizedTombstones, Confirmed, ConfirmedRows, RequestsFor
    <3>5. CASE Expires[s] > now
      <4>1. s \notin asked
        BY <3>1, <3>3, <3>5 DEF CalmInv, DbCalm
      <4>2. ~ (inserts[s] > 0)
        BY <1>types, <1>2, <3>1, <3>4, <3>5 DEF CalmInv, DbCalm
      <4>3. View[s] = "new" /\ View'[s] = "live"
        BY <1>types, <1>2, <2>1, <2>2, <3>1, <3>4, <3>5, <4>1, <4>2 DEF View, Over
      <4>4. View' = [View EXCEPT ![s] = "live"]
        BY <1>types, <3>2, <4>3 DEF View, Over
      <4> QED
        BY <1>types, <4>3, <4>4 DEF AMailbox!Arrive
    <3>6. CASE ~ (Expires[s] > now)
      <4>1. View'[s] = View[s]
        BY <1>types, <2>1, <2>2, <3>1, <3>6 DEF View, Over
      <4> QED
        BY <3>2, <4>1 DEF View, Over
    <3> QED
      BY <3>5, <3>6
  <2> QED
    BY <2>3, <2>4
<1> QED
  BY <1>1, <1>2 DEF Insert, MessageExists

\* A relay is a mailbox, for every number of threads and set of messages, with
\* strangers' claims and peers' deletions, and with no bound on how long it
\* runs; a message that is disturbed is adrift. The one assumption is
\* HonestSenders.
THEOREM MailboxImplemented ==
    ASSUME HonestSenders
    PROVE  Spec => ImplementsMailbox
<1>1. Init => AMailbox!Init
  BY DEF Init, View, Over, EmptyDb, Stored, AMailbox!Init
<1>2. ASSUME TypeOK, TypeOK', AuthInv, CalmInv, [Next]_vars PROVE [AMailbox!Next]_View
  <2>1. CASE Fading /\ disturbed' = disturbed
    BY <1>2, <2>1, FadingVanishes DEF TypeOK, AMailbox!Next
  <2>2. CASE \E w \in Worker : Insert(w)
    BY <1>2, <2>2, InsertArrives DEF AMailbox!Next
  <2>3. CASE \E w \in Worker : Straying(w)
    BY <1>2, <2>3, DropIsStray DEF AMailbox!Next
  <2> QED
    BY <1>2, <2>1, <2>2, <2>3, StepFades
<1> QED
  BY <1>1, <1>2, CalmAlways, PTL DEF Spec, ImplementsMailbox, AMailbox!Spec

-----------------------------------------------------------------------------
\* One request at a time.

\* What a thread has seen is all there is.
UpToDate(t, d) ==
    t.pc \in {"search", "resolveWrite", "insert"} => \A r \in RequestsFor(d, t.sig) : r.id <= t.asOf

AloneInv ==
    /\ disturbed = {}
    /\ \A r \in db.deletions : r.id <= db.lastDeletion
    /\ \A w \in Worker : UpToDate(task[w], db)

LEMMA AloneStep ==
    ASSUME \A v, w \in Worker : v = w, Pulled = {}, TypeOK, AloneInv, [Next]_vars
    PROVE  AloneInv'
<1>types. db \in Database /\ task \in [Worker -> Task] /\ db.lastDeletion \in Nat
  BY DatabaseFields DEF TypeOK
<1>ids. ASSUME Grows(db, db'), db'.lastDeletion = db.lastDeletion \/ db'.lastDeletion = db.lastDeletion + 1,
               \A r \in db'.deletions : r \in db.deletions \/ r.id = db'.lastDeletion
        PROVE  \A r \in db'.deletions : r.id <= db'.lastDeletion
  <2> SUFFICES ASSUME NEW r \in db.deletions PROVE r.id <= db'.lastDeletion
    BY <1>ids, <1>types
  <2>1. r.id \in Nat /\ r.id <= db.lastDeletion
    BY <1>types, DatabaseFields DEF AloneInv, DeletionRow
  <2> QED
    BY <1>ids, <1>types, <2>1
\* A step of the one thread: what it sees next is what is there.
<1>go. ASSUME NEW w \in Worker, NEW t, GoTo(w, t), UpToDate(t, db'), disturbed' = disturbed,
              \A r \in db'.deletions : r.id <= db'.lastDeletion
       PROVE  AloneInv'
  BY <1>types, <1>go DEF AloneInv, GoTo
<1>idle. ASSUME NEW d PROVE UpToDate(Idle, d)
  BY DEF UpToDate, Idle
<1>fan. ASSUME NEW s, NEW p, NEW d PROVE UpToDate([pc |-> "fanout", sig |-> s, path |-> p], d)
  BY DEF UpToDate
<1>confirm. ASSUME NEW s, NEW k, NEW t, db' = ConfirmDeletion(db, s, k, t)
            PROVE  \A r \in db'.deletions : r.id <= db'.lastDeletion
  <2>1. /\ db'.lastDeletion = db.lastDeletion + 1
        /\ \A r \in db'.deletions : r \in db.deletions \/ r.id = db'.lastDeletion
    BY <1>confirm DEF ConfirmDeletion, ReplaceDeletion, OtherDeletions, NewDeletion
  <2>2. Grows(db, db')
    BY <1>types, <1>confirm, ConfirmGrows
  <2> QED
    BY <1>ids, <2>1, <2>2
<1>1. ASSUME NEW w \in Worker, Receive(w) PROVE AloneInv'
  <2>1. PICK p \in Payload : GoTo(w, [pc |-> "dedup", sig |-> p.sig, addr |-> p.addr])
    BY <1>1 DEF Receive
  <2>2. UpToDate([pc |-> "dedup", sig |-> p.sig, addr |-> p.addr], db')
    BY DEF UpToDate
  <2> QED
    BY <1>1, <1>go, <2>1, <2>2 DEF Receive, Unseen, AloneInv
<1>2. ASSUME NEW w \in Worker, Dedup(w) \/ QuotaFilter(w) \/ Validate(w) PROVE AloneInv'
  <2>1. task[w] \in PublishTask /\ UNCHANGED <<db, disturbed>>
    BY <1>2, <1>types, TaskByPc DEF Dedup, QuotaFilter, Validate
  <2>2. ASSUME NEW pc \in {"quota", "validate", "resolveRead"}, Advance(w, pc) PROVE AloneInv'
    <3>1. UpToDate([task[w] EXCEPT !.pc = pc], db')
      BY <2>1, <2>2 DEF UpToDate, PublishTask
    <3> QED
      BY <1>go, <2>1, <2>2, <3>1 DEF Advance, AloneInv
  <2>3. CASE Answer(w)
    BY <1>go, <1>idle, <2>1, <2>3 DEF Answer, AloneInv
  <2> QED
    BY <1>2, <2>2, <2>3 DEF Dedup, QuotaFilter, Validate
<1>3. ASSUME NEW w \in Worker, ResolveRead(w) PROVE AloneInv'
  <2> DEFINE s == task[w].sig
             none == [pc |-> "insert", sig |-> s, addr |-> task[w].addr, asOf |-> db.lastDeletion]
             claim(k) == [pc |-> "search", sig |-> s, addr |-> task[w].addr, key |-> k,
                          asOf |-> db.lastDeletion]
  <2>1. UNCHANGED <<db, disturbed>>
    BY <1>3 DEF ResolveRead
  <2>2. UpToDate(none, db') /\ \A k : UpToDate(claim(k), db')
    BY <2>1 DEF UpToDate, AloneInv, RequestsFor
  <2> QED
    BY <1>3, <1>go, <1>idle, <2>1, <2>2 DEF ResolveRead, FindNone, FindClaim, Answer, AloneInv
<1>4. ASSUME NEW w \in Worker, ResolveSearch(w) PROVE AloneInv'
  <2> DEFINE t == task[w]
             found == [pc |-> "resolveWrite", sig |-> t.sig, addr |-> t.addr, key |-> t.key,
                       matched |-> t.addr \in CandidateRecipientIds(t.key, now), asOf |-> t.asOf]
  <2>1. UNCHANGED <<db, disturbed>> /\ GoTo(w, found)
    BY <1>4 DEF ResolveSearch
  <2>2. UpToDate(found, db')
    BY <1>4, <2>1 DEF UpToDate, AloneInv, ResolveSearch
  <2> QED
    BY <1>go, <2>1, <2>2 DEF AloneInv
<1>5. ASSUME NEW w \in Worker, ResolveWrite(w) PROVE AloneInv'
  <2> DEFINE t == task[w]
             next == [pc |-> "insert", sig |-> t.sig, addr |-> t.addr, asOf |-> t.asOf]
  <2>1. CASE t.matched
    BY <1>5, <1>go, <1>idle, <1>confirm, <2>1 DEF ResolveWrite, Answer
  <2>2. CASE ~t.matched
    <3>1. db' = DropRequest(db, t.sig) /\ GoTo(w, next) /\ Disturb(t)
      BY <1>5, <2>2 DEF ResolveWrite
    <3>2. db'.deletions = OtherDeletions(db, t.sig) /\ db'.lastDeletion = db.lastDeletion
      BY <1>types, <3>1 DEF DropRequest, Database
    <3>3. ~Overlooked(t)
      <4>1. \A r \in RequestsFor(db, t.sig) : r.id <= t.asOf /\ r.id \in Nat
        BY <1>5, <1>types, DatabaseFields DEF AloneInv, UpToDate, ResolveWrite, RequestsFor, DeletionRow
      <4>2. t.asOf \in Nat
        BY <1>5, <1>types, TaskByPc DEF ResolveWrite, ResolveTask
      <4> QED
        BY <4>1, <4>2 DEF Overlooked
    <3>4. UpToDate(next, db')
      BY <3>2 DEF UpToDate, RequestsFor, OtherDeletions
    <3>5. \A r \in db'.deletions : r.id <= db'.lastDeletion
      BY <3>2 DEF AloneInv, OtherDeletions
    <3> QED
      BY <1>go, <3>1, <3>3, <3>4, <3>5 DEF Disturb
  <2> QED
    BY <2>1, <2>2
<1>6. ASSUME NEW w \in Worker, Insert(w) PROVE AloneInv'
  <2> DEFINE t == task[w]
  <2>1. CASE Answer(w) /\ UNCHANGED <<db, disturbed>>
    BY <1>go, <1>idle, <2>1 DEF Answer, AloneInv
  <2>2. CASE Store(t) /\ ThenFanout(w, "publish")
    <3>1. ~Overlooked(t)
      <4>1. \A r \in RequestsFor(db, t.sig) : r.id <= t.asOf /\ r.id \in Nat
        BY <1>6, <1>types, DatabaseFields DEF AloneInv, UpToDate, Insert, RequestsFor, DeletionRow
      <4>2. t.asOf \in Nat
        BY <1>6, <1>types, TaskByPc DEF Insert, InsertTask
      <4> QED
        BY <4>1, <4>2 DEF Overlooked
    <3>2. db'.deletions = db.deletions /\ db'.lastDeletion = db.lastDeletion /\ disturbed' = disturbed
      BY <2>2, <3>1 DEF Store, InsertMessage, Disturb
    <3> QED
      BY <1>go, <1>fan, <2>2, <3>2 DEF ThenFanout, AloneInv
  <2> QED
    BY <1>6, <2>1, <2>2 DEF Insert
<1>7. ASSUME NEW w \in Worker, Fanout(w) PROVE AloneInv'
  BY <1>7, <1>go, <1>idle DEF Fanout, Answer, AloneInv
<1>8. ASSUME NEW w \in Worker, ReceiveDelete(w) PROVE AloneInv'
  <2>1. PICK q \in Request : GoTo(w, [pc |-> "delete", sig |-> q[1], key |-> q[2], at |-> now])
    BY <1>8 DEF ReceiveDelete
  <2>2. UpToDate([pc |-> "delete", sig |-> q[1], key |-> q[2], at |-> now], db')
    BY DEF UpToDate
  <2> QED
    BY <1>8, <1>go, <2>1, <2>2 DEF ReceiveDelete, Unseen, AloneInv
<1>9. ASSUME NEW w \in Worker, HandleDelete(w) PROVE AloneInv'
  <2> DEFINE t == task[w]
  <2>0. disturbed' = disturbed
    BY <1>9 DEF HandleDelete
  <2>1. CASE db' = ConfirmDeletion(db, t.sig, t.key, t.at)
    BY <1>9, <1>go, <1>idle, <1>fan, <1>confirm, <2>0, <2>1 DEF HandleDelete, Answer, ThenFanout
  <2>2. CASE db' = RecordPending(db, t.sig, t.key, t.at)
    <3>1. \/ db' = db
          \/ /\ db'.lastDeletion = db.lastDeletion + 1
             /\ \A r \in db'.deletions : r \in db.deletions \/ r.id = db'.lastDeletion
      BY <2>2 DEF RecordPending, ReplaceDeletion, OtherDeletions, NewDeletion
    <3>2. Grows(db, db')
      BY <1>types, <2>2, PendingGrows
    <3>3. \A r \in db'.deletions : r.id <= db'.lastDeletion
      BY <1>ids, <3>1, <3>2 DEF AloneInv
    <3> QED
      BY <1>9, <1>go, <1>idle, <1>fan, <2>0, <3>3 DEF HandleDelete, Answer, ThenFanout
  <2>3. CASE db' = db
    BY <1>9, <1>go, <1>idle, <1>fan, <2>0, <2>3 DEF HandleDelete, Answer, ThenFanout, AloneInv
  <2> QED
    BY <1>9, <2>1, <2>2, <2>3 DEF HandleDelete
<1>10. ASSUME NEW s \in Sig, ApplyTombstone(s) PROVE FALSE
  BY <1>10 DEF ApplyTombstone
<1>11. CASE Sweep
  <2>1. /\ db'.deletions \subseteq db.deletions /\ db'.lastDeletion = db.lastDeletion
        /\ UNCHANGED <<task, disturbed>>
    BY <1>11, <1>types DEF Sweep, SweptDb, Database
  <2> QED
    BY <2>1 DEF AloneInv, UpToDate, RequestsFor
<1>12. CASE StartSweep \/ Tick \/ UNCHANGED vars
  BY <1>12 DEF StartSweep, Tick, vars, AloneInv
<1>13. CASE Restart
  <2>1. \A w \in Worker : task'[w] = Idle
    BY <1>13 DEF Restart
  <2> QED
    BY <1>13, <1>idle, <2>1 DEF Restart, AloneInv
<1> QED
  BY <1>1, <1>2, <1>3, <1>4, <1>5, <1>6, <1>7, <1>8, <1>9, <1>10, <1>11, <1>12, <1>13
  DEF Next, Publish, Delete

\* A relay that serves one request at a time and pulls no deletions does what
\* its client and its comments say, without exception: a message whose owner's
\* delete was taken is not there, and no tombstone is downgraded. Strangers may
\* claim it; the senders are honest.
THEOREM OneRequestAtATime ==
    ASSUME HonestSenders, \A v, w \in Worker : v = w, Pulled = {}
    PROVE  Spec => []PurgedOnArrival /\ NeverDowngraded
<1>1. Init => AloneInv
  BY DEF Init, AloneInv, EmptyDb, UpToDate, Idle
<1>2. TypeOK /\ AloneInv /\ [Next]_vars => AloneInv'
  BY AloneStep
<1>3. Spec => []AloneInv
  BY <1>1, <1>2, TypeCorrect, PTL DEF Spec
<1>4. AloneInv /\ OwnerDeleteHonoured => PurgedOnArrival
  BY DEF AloneInv, OwnerDeleteHonoured, PurgedOnArrival
<1>5. AloneInv' /\ (\A r \in ConfirmedRows(db) :
                      r.at > now - MaxTtl => r.sig \in Confirmed(db') \cup disturbed')
        => \A r \in ConfirmedRows(db) : r.at > now - MaxTtl => r.sig \in Confirmed(db')
  BY DEF AloneInv
<1> QED
  BY <1>3, <1>4, <1>5, DeletesHonoured, TombstonesKept, PTL DEF TombstoneKept, NeverDowngraded

=============================================================================
