----------------------------- MODULE RelayBounds ----------------------------
(***************************************************************************)
(* What bounds a relay's storage and its traffic, proved for every number  *)
(* of threads, quota and order of requests.                                *)
(***************************************************************************)
EXTENDS RelayProofs, FiniteSetTheorems

-----------------------------------------------------------------------------
\* What the writing operators do to the table of messages.

LEMMA ConfirmShrinks ==
    ASSUME NEW d, NEW s, NEW k, NEW t
    PROVE  ConfirmDeletion(d, s, k, t).messages = OtherMessages(d, s)
           /\ OtherMessages(d, s) \subseteq d.messages
BY DEF ConfirmDeletion, ReplaceDeletion, OtherMessages

LEMMA PendingKeepsMessages ==
    ASSUME NEW d, NEW s, NEW k, NEW t
    PROVE  RecordPending(d, s, k, t).messages = d.messages
BY DEF RecordPending, ReplaceDeletion

LEMMA DropKeepsMessages ==
    ASSUME NEW d \in Database, NEW s
    PROVE  DropRequest(d, s).messages = d.messages
BY DEF DropRequest, Database

-----------------------------------------------------------------------------
\* The quota.

WithinQuota(d) ==
    /\ IsFiniteSet(d.messages)
    /\ \A a \in Address : Cardinality(Inbox(d, a)) <= QuotaMessages

QuotaInv == WithinQuota(db)

\* Deleting rows keeps every inbox within the quota.
LEMMA ShrinkingKeepsQuota ==
    ASSUME NEW d, NEW e, WithinQuota(d), e.messages \subseteq d.messages, DbAssumption
    PROVE  WithinQuota(e)
<1>1. IsFiniteSet(e.messages)
  BY FS_Subset DEF WithinQuota
<1>2. ASSUME NEW a \in Address PROVE Cardinality(Inbox(e, a)) <= QuotaMessages
  <2>1. Inbox(e, a) \subseteq Inbox(d, a) /\ Inbox(d, a) \subseteq d.messages
    BY DEF Inbox
  <2>2. IsFiniteSet(Inbox(d, a))
    BY <2>1, FS_Subset DEF WithinQuota
  <2>3. IsFiniteSet(Inbox(e, a)) /\ Cardinality(Inbox(e, a)) <= Cardinality(Inbox(d, a))
    BY <2>1, <2>2, FS_Subset
  <2>4. Cardinality(Inbox(e, a)) \in Nat /\ Cardinality(Inbox(d, a)) \in Nat
    BY <2>2, <2>3, FS_CardinalityType
  <2>5. Cardinality(Inbox(d, a)) <= QuotaMessages
    BY DEF WithinQuota
  <2> QED
    BY <2>3, <2>4, <2>5 DEF DbAssumption
<1> QED
  BY <1>1, <1>2 DEF WithinQuota

\* One row more in an inbox that had room.
LEMMA InsertKeepsQuota ==
    ASSUME NEW d, WithinQuota(d), DbAssumption, NEW s, NEW a \in Address,
           Cardinality(Inbox(d, a)) < QuotaMessages
    PROVE  WithinQuota(InsertMessage(d, s, a))
<1> DEFINE row == [id |-> d.lastMessage + 1, sig |-> s, addr |-> a]
           e == InsertMessage(d, s, a)
<1>1. e.messages = d.messages \cup {row}
  BY DEF InsertMessage
<1>2. IsFiniteSet(e.messages)
  <2>1. IsFiniteSet(d.messages)
    BY DEF WithinQuota
  <2>2. IsFiniteSet(d.messages \cup {row})
    BY <2>1, FS_AddElement
  <2> QED
    BY <1>1, <2>2
<1>3. ASSUME NEW b \in Address PROVE Cardinality(Inbox(e, b)) <= QuotaMessages
  <2>1. IsFiniteSet(Inbox(d, b))
    BY FS_Subset DEF WithinQuota, Inbox
  <2>2. Cardinality(Inbox(d, b)) \in Nat
    BY <2>1, FS_CardinalityType
  <2>3. CASE b = a
    <3>1. Inbox(e, b) = Inbox(d, b) \cup {row}
      BY <1>1, <2>3 DEF Inbox
    <3>2. Cardinality(Inbox(d, b) \cup {row}) \in {Cardinality(Inbox(d, b)), Cardinality(Inbox(d, b)) + 1}
      BY <2>1, FS_AddElement
    <3> HIDE DEF row, e
    <3> QED
      BY <2>2, <2>3, <3>1, <3>2 DEF DbAssumption
  <2>4. CASE b # a
    <3>1. Inbox(e, b) = Inbox(d, b)
      BY <1>1, <2>4 DEF Inbox
    <3> QED
      BY <3>1 DEF WithinQuota
  <2> QED
    BY <2>3, <2>4
<1> QED
  BY <1>2, <1>3 DEF WithinQuota

\* A step deletes rows at most, or is the INSERT of one in an inbox that had
\* room.
LEMMA MessagesStep ==
    ASSUME TypeOK, [Next]_vars
    PROVE  \/ db'.messages \subseteq db.messages
           \/ \E s \in Sig, a \in Address : db' = InsertMessage(db, s, a) /\ HasRoom(db, a)
<1> DEFINE Shrunk == db'.messages \subseteq db.messages
<1>db. db \in Database /\ task \in [Worker -> Task]
  BY DEF TypeOK
<1>1. ASSUME NEW w \in Worker,
             \/ Receive(w) \/ Dedup(w) \/ QuotaFilter(w) \/ Validate(w)
             \/ ResolveRead(w) \/ ResolveSearch(w) \/ Fanout(w) \/ ReceiveDelete(w)
      PROVE  Shrunk
  BY <1>1 DEF Receive, Dedup, QuotaFilter, Validate, ResolveRead, ResolveSearch, Fanout,
              ReceiveDelete, Unseen
<1>2. ASSUME NEW w \in Worker, ResolveWrite(w) PROVE Shrunk
  <2>1. db' = ConfirmDeletion(db, task[w].sig, task[w].key, now) \/ db' = DropRequest(db, task[w].sig)
    BY <1>2 DEF ResolveWrite
  <2> QED
    BY <1>db, <2>1, DropKeepsMessages, ConfirmShrinks
<1>3. ASSUME NEW w \in Worker, Insert(w)
      PROVE  Shrunk \/ \E s \in Sig, a \in Address : db' = InsertMessage(db, s, a) /\ HasRoom(db, a)
  <2>1. task[w].sig \in Sig /\ task[w].addr \in Address
    BY <1>3, <1>db, TaskByPc DEF Insert, InsertTask
  <2> QED
    BY <1>3, <2>1 DEF Insert, Store
<1>4. ASSUME NEW w \in Worker, HandleDelete(w) PROVE Shrunk
  <2>1. \/ db' = ConfirmDeletion(db, task[w].sig, task[w].key, task[w].at)
        \/ db' = RecordPending(db, task[w].sig, task[w].key, task[w].at)
        \/ db' = db
    BY <1>4 DEF HandleDelete
  <2> QED
    BY <2>1, ConfirmShrinks, PendingKeepsMessages
<1>5. ASSUME NEW s \in Sig, ApplyTombstone(s) PROVE Shrunk
  BY <1>5, ConfirmShrinks DEF ApplyTombstone
<1>6. CASE Sweep
  BY <1>6, <1>db DEF Sweep, SweptDb, Database
<1>7. CASE StartSweep \/ Tick \/ Restart \/ UNCHANGED vars
  BY <1>7 DEF StartSweep, Tick, Restart, vars
<1> QED
  BY <1>1, <1>2, <1>3, <1>4, <1>5, <1>6, <1>7 DEF Next, Publish, Delete

LEMMA QuotaAlways == Spec => [](TypeOK /\ QuotaInv)
<1> USE DbAssumption
<1>1. Init => QuotaInv
  <2> SUFFICES ASSUME Init PROVE QuotaInv
    OBVIOUS
  <2>1. db.messages = {}
    BY DEF Init, EmptyDb
  <2>2. ASSUME NEW a PROVE Cardinality(Inbox(db, a)) = 0
    <3>1. Inbox(db, a) = {}
      BY <2>1 DEF Inbox
    <3> QED
      BY <3>1, FS_EmptySet
  <2> QED
    BY <2>1, <2>2, FS_EmptySet DEF QuotaInv, WithinQuota, DbAssumption
<1>2. TypeOK /\ QuotaInv /\ [Next]_vars => QuotaInv'
  <2> SUFFICES ASSUME TypeOK, QuotaInv, [Next]_vars PROVE QuotaInv'
    OBVIOUS
  <2>1. CASE db'.messages \subseteq db.messages
    BY <2>1, ShrinkingKeepsQuota DEF QuotaInv
  <2>2. CASE \E s \in Sig, a \in Address : db' = InsertMessage(db, s, a) /\ HasRoom(db, a)
    BY <2>2, InsertKeepsQuota DEF HasRoom, QuotaInv
  <2> QED
    BY <2>1, <2>2, MessagesStep
<1> QED
  BY <1>1, <1>2, TypeCorrect, PTL DEF Spec

\* An address never holds more messages than its quota.
THEOREM QuotaHolds == Spec => []QuotaCountBound
<1>1. TypeOK /\ QuotaInv => QuotaCountBound
  BY DatabaseFields DEF TypeOK, QuotaInv, WithinQuota, QuotaCountBound, MessageRow
<1> QED
  BY <1>1, QuotaAlways, PTL

-----------------------------------------------------------------------------
\* The quota in bytes. It is checked without the payload that is about to be
\* inserted, so the last row may exceed it; any row may have become the last
\* one by then, or have been deleted.

BytesWithin(rows) == rows = {} \/ \E m \in rows : Bytes(rows \ {m}) < QuotaBytes

BytesInv == \A a \in Address : BytesWithin(Inbox(db, a))

LEMMA InboxSized ==
    ASSUME NEW d \in Database, IsFiniteSet(d.messages), NEW a, DbAssumption
    PROVE  IsFiniteSet(Inbox(d, a)) /\ Sized(Inbox(d, a))
<1>1. Inbox(d, a) \subseteq d.messages
  BY DEF Inbox
<1>2. \A m \in d.messages : Size[m.sig] \in Nat
  BY DatabaseFields DEF MessageRow, DbAssumption
<1> QED
  BY <1>1, <1>2, FS_Subset DEF Sized

\* Fewer rows: if the heavy one is gone, any other is as good.
LEMMA FewerWithin ==
    ASSUME NEW rows, IsFiniteSet(rows), Sized(rows), BytesWithin(rows), DbAssumption,
           NEW some \in SUBSET rows
    PROVE  BytesWithin(some)
<1> SUFFICES ASSUME some # {} PROVE \E m \in some : Bytes(some \ {m}) < QuotaBytes
  BY DEF BytesWithin
<1>1. PICK m \in rows : Bytes(rows \ {m}) < QuotaBytes
  BY DEF BytesWithin
<1>2. PICK n \in some : some \ {n} \subseteq rows \ {m}
  OBVIOUS
<1>3. IsFiniteSet(rows \ {m}) /\ Sized(rows \ {m})
  BY FS_Subset DEF Sized
<1>4. /\ Bytes(some \ {n}) \in Nat /\ Bytes(rows \ {m}) \in Nat
      /\ Bytes(some \ {n}) <= Bytes(rows \ {m})
  BY <1>2, <1>3, BytesMonotone
<1>5. QuotaBytes \in Nat
  BY DEF DbAssumption
<1>6. Bytes(some \ {n}) < QuotaBytes
  BY <1>1, <1>4, <1>5
<1> QED
  BY <1>6

\* One row more, where what was there was below the quota.
LEMMA OneMoreWithin ==
    ASSUME NEW rows, IsFiniteSet(rows), Sized(rows), Bytes(rows) < QuotaBytes, DbAssumption,
           NEW row
    PROVE  BytesWithin(rows \cup {row})
<1>1. (rows \cup {row}) \ {row} \subseteq rows
  OBVIOUS
<1>2. /\ Bytes((rows \cup {row}) \ {row}) \in Nat /\ Bytes(rows) \in Nat
      /\ Bytes((rows \cup {row}) \ {row}) <= Bytes(rows)
  BY <1>1, BytesMonotone
<1>3. Bytes((rows \cup {row}) \ {row}) < QuotaBytes
  BY <1>2 DEF DbAssumption
<1> QED
  BY <1>3 DEF BytesWithin

\* An inbox exceeds the byte quota by less than its last message, whatever
\* the number of threads that publish to it at once.
THEOREM QuotaBytesHold == Spec => []QuotaBytesOvershoot
<1> USE DbAssumption
<1>1. Init => BytesInv
  BY DEF Init, EmptyDb, BytesInv, BytesWithin, Inbox
<1>2. TypeOK /\ QuotaInv /\ BytesInv /\ [Next]_vars => BytesInv'
  <2> SUFFICES ASSUME TypeOK, QuotaInv, BytesInv, [Next]_vars, NEW a \in Address
               PROVE  BytesWithin(Inbox(db', a))
    BY DEF BytesInv
  <2>1. /\ IsFiniteSet(Inbox(db, a)) /\ Sized(Inbox(db, a))
        /\ BytesWithin(Inbox(db, a))
    BY InboxSized DEF TypeOK, QuotaInv, WithinQuota, BytesInv
  <2>2. CASE Inbox(db', a) \subseteq Inbox(db, a)
    BY <2>1, <2>2, FewerWithin
  <2>3. ASSUME NEW s \in Sig, NEW b \in Address, db' = InsertMessage(db, s, b), HasRoom(db, b)
        PROVE  BytesWithin(Inbox(db', a))
    <3> DEFINE row == [id |-> db.lastMessage + 1, sig |-> s, addr |-> b]
    <3>1. db'.messages = db.messages \cup {row} /\ row.addr = b
      BY <2>3 DEF InsertMessage
    <3> HIDE DEF row
    <3>2. CASE a = b
      <4>1. Inbox(db', a) = Inbox(db, a) \cup {row}
        BY <3>1, <3>2 DEF Inbox
      <4>2. Bytes(Inbox(db, a)) < QuotaBytes
        BY <2>3, <3>2 DEF HasRoom
      <4>3. BytesWithin(Inbox(db, a) \cup {row})
        BY <2>1, <4>2, OneMoreWithin
      <4> QED
        BY <4>1, <4>3
    <3>3. CASE a # b
      <4>1. Inbox(db', a) = Inbox(db, a)
        BY <3>1, <3>3 DEF Inbox
      <4> QED
        BY <2>1, <4>1
    <3> QED
      BY <3>2, <3>3
  <2> QED
    BY <2>2, <2>3, MessagesStep DEF Inbox
<1>3. TypeOK /\ BytesInv => QuotaBytesOvershoot
  <2> SUFFICES ASSUME TypeOK, BytesInv, NEW m \in db.messages
               PROVE  \E n \in Inbox(db, m.addr) : Bytes(Inbox(db, m.addr) \ {n}) < QuotaBytes
    BY DEF QuotaBytesOvershoot
  <2>1. m.addr \in Address /\ m \in Inbox(db, m.addr)
    BY DatabaseFields DEF TypeOK, MessageRow, Inbox
  <2> QED
    BY <2>1 DEF BytesInv, BytesWithin
<1> QED
  BY <1>1, <1>2, <1>3, QuotaAlways, PTL DEF Spec

-----------------------------------------------------------------------------
\* The traffic. A fan-out that has happened or that a thread is about to
\* schedule is paid for by an INSERT; of a deletion's, also the row that is
\* still there to be deleted has been.

Due(t, p, s) == {w \in Worker : t[w].pc = "fanout" /\ t[w].path = p /\ t[w].sig = s}

Held(d, s) == IF s \in Stored(d) THEN 1 ELSE 0

FloodInv ==
    \A s \in Sig :
        /\ pushes["publish"][s] + Cardinality(Due(task, "publish", s)) <= inserts[s]
        /\ pushes["delete"][s] + Cardinality(Due(task, "delete", s)) + Held(db, s) <= inserts[s]

LEMMA DueFinite ==
    ASSUME RelayAssumption, NEW t, NEW p, NEW s
    PROVE  IsFiniteSet(Due(t, p, s)) /\ Cardinality(Due(t, p, s)) \in Nat
<1>1. Due(t, p, s) \subseteq Worker /\ IsFiniteSet(Worker)
  BY DEF Due, RelayAssumption
<1>2. IsFiniteSet(Due(t, p, s))
  BY <1>1, FS_Subset
<1> QED
  BY <1>2, FS_CardinalityType

\* A step of thread w that does not end in a fan-out owes nothing new.
LEMMA DueNotMore ==
    ASSUME RelayAssumption, task \in [Worker -> Task], NEW w \in Worker, NEW t,
           GoTo(w, t), t.pc # "fanout", NEW p, NEW s
    PROVE  Cardinality(Due(task', p, s)) <= Cardinality(Due(task, p, s))
<1>1. Due(task', p, s) \subseteq Due(task, p, s)
  BY DEF GoTo, Due
<1> QED
  BY <1>1, DueFinite, FS_Subset

\* One that does, from a step that was no fan-out, owes exactly that one.
LEMMA DueOneMore ==
    ASSUME RelayAssumption, task \in [Worker -> Task], NEW w \in Worker, NEW q,
           ThenFanout(w, q), task[w].pc # "fanout", NEW p, NEW s
    PROVE  Cardinality(Due(task', p, s)) =
             Cardinality(Due(task, p, s)) + (IF p = q /\ s = task[w].sig THEN 1 ELSE 0)
<1>1. CASE p = q /\ s = task[w].sig
  <2>1. Due(task', p, s) = Due(task, p, s) \cup {w} /\ w \notin Due(task, p, s)
    BY <1>1 DEF ThenFanout, GoTo, Due
  <2>2. Cardinality(Due(task, p, s) \cup {w}) = Cardinality(Due(task, p, s)) + 1
    BY <2>1, DueFinite, FS_AddElement
  <2> QED
    BY <1>1, <2>1, <2>2
<1>2. CASE ~(p = q /\ s = task[w].sig)
  <2>1. Due(task', p, s) = Due(task, p, s)
    BY <1>2 DEF ThenFanout, GoTo, Due
  <2> QED
    BY <1>2, <2>1, DueFinite
<1> QED
  BY <1>1, <1>2

\* The fan-out itself settles it.
LEMMA DueOneLess ==
    ASSUME RelayAssumption, task \in [Worker -> Task], NEW w \in Worker, Answer(w),
           task[w].pc = "fanout", NEW p, NEW s
    PROVE  Cardinality(Due(task', p, s)) =
             Cardinality(Due(task, p, s))
               - (IF p = task[w].path /\ s = task[w].sig THEN 1 ELSE 0)
<1>1. CASE p = task[w].path /\ s = task[w].sig
  <2>1. Due(task', p, s) = Due(task, p, s) \ {w} /\ w \in Due(task, p, s)
    BY <1>1 DEF Answer, GoTo, Due, Idle
  <2>2. Cardinality(Due(task, p, s) \ {w}) = Cardinality(Due(task, p, s)) - 1
    BY <2>1, DueFinite, FS_RemoveElement
  <2> QED
    BY <1>1, <2>1, <2>2
<1>2. CASE ~(p = task[w].path /\ s = task[w].sig)
  <2>1. Due(task', p, s) = Due(task, p, s)
    BY <1>2 DEF Answer, GoTo, Due, Idle
  <2> QED
    BY <1>2, <2>1, DueFinite
<1> QED
  BY <1>1, <1>2

\* Nothing new owed, nothing inserted, no row more: the invariant stays.
LEMMA FloodKept ==
    ASSUME RelayAssumption, TypeOK, FloodInv, UNCHANGED <<inserts, pushes>>,
           db'.messages \subseteq db.messages,
           \A p \in Path, s \in Sig :
               Cardinality(Due(task', p, s)) <= Cardinality(Due(task, p, s))
    PROVE  FloodInv'
<1> SUFFICES ASSUME NEW s \in Sig
             PROVE  /\ pushes["publish"][s] + Cardinality(Due(task', "publish", s)) <= inserts[s]
                    /\ pushes["delete"][s] + Cardinality(Due(task', "delete", s)) + Held(db', s)
                         <= inserts[s]
  BY DEF FloodInv
<1>1. /\ inserts[s] \in Nat
      /\ pushes["publish"][s] \in Nat /\ pushes["delete"][s] \in Nat
  BY DEF TypeOK, Path
<1>2. Held(db', s) <= Held(db, s) /\ Held(db, s) \in Nat /\ Held(db', s) \in Nat
  BY DEF Held, Stored
<1>3. \A p \in Path : /\ Cardinality(Due(task', p, s)) \in Nat
                      /\ Cardinality(Due(task, p, s)) \in Nat
  BY DueFinite
<1>4. /\ pushes["publish"][s] + Cardinality(Due(task, "publish", s)) <= inserts[s]
      /\ pushes["delete"][s] + Cardinality(Due(task, "delete", s)) + Held(db, s) <= inserts[s]
  BY DEF FloodInv
<1>5. "publish" \in Path /\ "delete" \in Path
  BY DEF Path
<1> QED
  BY <1>1, <1>2, <1>3, <1>4, <1>5

\* The steps that only move a thread along, or end it, and delete rows at most.
LEMMA FloodKeptByMove ==
    ASSUME RelayAssumption, TypeOK, FloodInv, UNCHANGED <<inserts, pushes>>,
           db'.messages \subseteq db.messages,
           NEW w \in Worker, NEW t, GoTo(w, t), t.pc # "fanout"
    PROVE  FloodInv'
BY FloodKept, DueNotMore DEF TypeOK

\* An INSERT pays for the fan-out it owes and for the row it leaves.
LEMMA FloodKeptByInsert ==
    ASSUME RelayAssumption, TypeOK, FloodInv, NEW w \in Worker,
           task[w].pc = "insert", task[w].sig \in Sig, ~MessageExists(db, task[w].sig),
           Store(task[w]), ThenFanout(w, "publish"), UNCHANGED pushes
    PROVE  FloodInv'
<1> DEFINE x == task[w].sig
<1> SUFFICES ASSUME NEW s \in Sig
             PROVE  /\ pushes["publish"][s] + Cardinality(Due(task', "publish", s)) <= inserts'[s]
                    /\ pushes["delete"][s] + Cardinality(Due(task', "delete", s)) + Held(db', s)
                         <= inserts'[s]
  BY DEF FloodInv
<1>1. /\ inserts[s] \in Nat
      /\ pushes["publish"][s] \in Nat /\ pushes["delete"][s] \in Nat
  BY DEF TypeOK, Path
<1>2. /\ Cardinality(Due(task', "publish", s)) =
           Cardinality(Due(task, "publish", s)) + (IF s = x THEN 1 ELSE 0)
      /\ Cardinality(Due(task', "delete", s)) = Cardinality(Due(task, "delete", s))
  <2>1. task \in [Worker -> Task] /\ task[w].pc # "fanout"
    BY DEF TypeOK
  <2>2. \A p : Cardinality(Due(task', p, s)) =
             Cardinality(Due(task, p, s)) + (IF p = "publish" /\ s = x THEN 1 ELSE 0)
    BY <2>1, DueOneMore
  <2> QED
    BY <2>2, DueFinite
<1>3. inserts'[s] = inserts[s] + (IF s = x THEN 1 ELSE 0)
  BY <1>1 DEF Store, TypeOK
<1>4. Held(db', s) = IF s = x THEN 1 ELSE Held(db, s)
  <2>1. db'.messages = db.messages \cup {[id |-> db.lastMessage + 1, sig |-> x, addr |-> task[w].addr]}
    BY DEF Store, InsertMessage
  <2>2. [id |-> db.lastMessage + 1, sig |-> x, addr |-> task[w].addr].sig = x
    OBVIOUS
  <2>3. Stored(db') = Stored(db) \cup {x}
    BY <2>1, <2>2 DEF Stored
  <2> QED
    BY <2>3 DEF Held
<1>5. s = x => Held(db, s) = 0
  BY DEF Held, MessageExists
<1>6. /\ Cardinality(Due(task, "publish", s)) \in Nat
      /\ Cardinality(Due(task, "delete", s)) \in Nat
      /\ Held(db, s) \in Nat
  BY DueFinite DEF Held
<1>7. /\ pushes["publish"][s] + Cardinality(Due(task, "publish", s)) <= inserts[s]
      /\ pushes["delete"][s] + Cardinality(Due(task, "delete", s)) + Held(db, s) <= inserts[s]
  BY DEF FloodInv
<1> HIDE DEF x
<1> QED
  BY <1>1, <1>2, <1>3, <1>4, <1>5, <1>6, <1>7

\* A deletion's fan-out takes over what the deleted row had paid.
LEMMA FloodKeptByConfirm ==
    ASSUME RelayAssumption, TypeOK, FloodInv, NEW w \in Worker, NEW k, NEW t,
           task[w].pc = "delete", MessageExists(db, task[w].sig),
           db' = ConfirmDeletion(db, task[w].sig, k, t), ThenFanout(w, "delete"),
           UNCHANGED <<inserts, pushes>>
    PROVE  FloodInv'
<1> DEFINE x == task[w].sig
<1> SUFFICES ASSUME NEW s \in Sig
             PROVE  /\ pushes["publish"][s] + Cardinality(Due(task', "publish", s)) <= inserts[s]
                    /\ pushes["delete"][s] + Cardinality(Due(task', "delete", s)) + Held(db', s)
                         <= inserts[s]
  BY DEF FloodInv
<1>1. /\ inserts[s] \in Nat
      /\ pushes["publish"][s] \in Nat /\ pushes["delete"][s] \in Nat
  BY DEF TypeOK, Path
<1>2. /\ Cardinality(Due(task', "publish", s)) = Cardinality(Due(task, "publish", s))
      /\ Cardinality(Due(task', "delete", s)) =
           Cardinality(Due(task, "delete", s)) + (IF s = x THEN 1 ELSE 0)
  <2>1. task \in [Worker -> Task] /\ task[w].pc # "fanout"
    BY DEF TypeOK
  <2>2. \A p : Cardinality(Due(task', p, s)) =
             Cardinality(Due(task, p, s)) + (IF p = "delete" /\ s = x THEN 1 ELSE 0)
    BY <2>1, DueOneMore
  <2> QED
    BY <2>2, DueFinite
<1>3. Held(db', s) = IF s = x THEN 0 ELSE Held(db, s)
  BY ConfirmShrinks DEF Held, Stored, OtherMessages
<1>4. s = x => Held(db, s) = 1
  BY DEF Held, MessageExists
<1>5. /\ Cardinality(Due(task, "publish", s)) \in Nat
      /\ Cardinality(Due(task, "delete", s)) \in Nat
      /\ Held(db, s) \in Nat
  BY DueFinite DEF Held
<1>6. /\ pushes["publish"][s] + Cardinality(Due(task, "publish", s)) <= inserts[s]
      /\ pushes["delete"][s] + Cardinality(Due(task, "delete", s)) + Held(db, s) <= inserts[s]
  BY DEF FloodInv
<1> HIDE DEF x
<1> QED
  BY <1>1, <1>2, <1>3, <1>4, <1>5, <1>6

LEMMA FloodKeptByFanout ==
    ASSUME RelayAssumption, TypeOK, FloodInv, NEW w \in Worker, Fanout(w)
    PROVE  FloodInv'
<1>1. task[w] \in FanoutTask
  BY TaskByPc DEF Fanout, TypeOK
<1> DEFINE x == task[w].sig
           q == task[w].path
<1>2. x \in Sig /\ q \in Path
  BY <1>1 DEF FanoutTask
<1> SUFFICES ASSUME NEW s \in Sig
             PROVE  /\ pushes'["publish"][s] + Cardinality(Due(task', "publish", s)) <= inserts[s]
                    /\ pushes'["delete"][s] + Cardinality(Due(task', "delete", s)) + Held(db, s)
                         <= inserts[s]
  BY DEF FloodInv, Fanout
<1>3. /\ inserts[s] \in Nat
      /\ pushes["publish"][s] \in Nat /\ pushes["delete"][s] \in Nat
  BY DEF TypeOK, Path
<1>4. \A p \in Path : Cardinality(Due(task', p, s)) =
           Cardinality(Due(task, p, s)) - (IF p = q /\ s = x THEN 1 ELSE 0)
  BY DueOneLess DEF Fanout, TypeOK
<1>5. \A p \in Path : pushes'[p][s] = pushes[p][s] + (IF p = q /\ s = x THEN 1 ELSE 0)
  BY <1>2, <1>3 DEF Fanout, TypeOK, Path
<1>6. /\ Cardinality(Due(task, "publish", s)) \in Nat
      /\ Cardinality(Due(task, "delete", s)) \in Nat
      /\ Held(db, s) \in Nat
  BY DueFinite DEF Held
<1>7. /\ pushes["publish"][s] + Cardinality(Due(task, "publish", s)) <= inserts[s]
      /\ pushes["delete"][s] + Cardinality(Due(task, "delete", s)) + Held(db, s) <= inserts[s]
  BY DEF FloodInv
<1>8. "publish" \in Path /\ "delete" \in Path
  BY DEF Path
<1> HIDE DEF x, q
<1> QED
  BY <1>3, <1>4, <1>5, <1>6, <1>7, <1>8

\* Each INSERT of a message is followed by at most one flood of it and at
\* most one of its deletion, whatever the number of threads and requests.
THEOREM FloodHolds == Spec => []FloodBounded
<1> USE RelayAssumption
<1>1. Init => FloodInv
  <2> SUFFICES ASSUME Init, NEW s \in Sig
               PROVE  /\ pushes["publish"][s] + Cardinality(Due(task, "publish", s)) <= inserts[s]
                      /\ pushes["delete"][s] + Cardinality(Due(task, "delete", s)) + Held(db, s)
                           <= inserts[s]
    BY DEF FloodInv
  <2>1. Due(task, "publish", s) = {} /\ Due(task, "delete", s) = {}
    BY DEF Init, Due, Idle
  <2>2. Held(db, s) = 0
    BY DEF Init, EmptyDb, Held, Stored
  <2>3. Cardinality({}) = 0
    BY FS_EmptySet
  <2>4. pushes["publish"][s] = 0 /\ pushes["delete"][s] = 0 /\ inserts[s] = 0
    BY DEF Init, Path
  <2>5. Cardinality(Due(task, "publish", s)) = 0 /\ Cardinality(Due(task, "delete", s)) = 0
    BY <2>1, <2>3
  <2> QED
    BY <2>2, <2>4, <2>5
<1>2. TypeOK /\ FloodInv /\ [Next]_vars => FloodInv'
  <2> SUFFICES ASSUME TypeOK, FloodInv, [Next]_vars PROVE FloodInv'
    OBVIOUS
  <2>db. db \in Database /\ task \in [Worker -> Task]
    BY DEF TypeOK
  <2>move. ASSUME NEW w \in Worker, NEW t, GoTo(w, t), t.pc # "fanout",
                  UNCHANGED <<inserts, pushes>>, db'.messages \subseteq db.messages
           PROVE  FloodInv'
    BY <2>move, FloodKeptByMove
  <2>answer. ASSUME NEW w \in Worker, Answer(w),
                    UNCHANGED <<inserts, pushes>>, db'.messages \subseteq db.messages
             PROVE  FloodInv'
    BY <2>answer, <2>move DEF Answer, Idle
  <2>1. ASSUME NEW w \in Worker, Receive(w) PROVE FloodInv'
    BY <2>1, <2>move DEF Receive, Unseen
  <2>2. ASSUME NEW w \in Worker, Dedup(w) PROVE FloodInv'
    <3>1. task[w] \in PublishTask
      BY <2>2, <2>db, TaskByPc DEF Dedup
    <3> QED
      BY <2>2, <3>1, <2>move, <2>answer DEF Dedup, Advance, Quiet, PublishTask
  <2>3. ASSUME NEW w \in Worker, QuotaFilter(w) PROVE FloodInv'
    <3>1. task[w] \in PublishTask
      BY <2>3, <2>db, TaskByPc DEF QuotaFilter
    <3> QED
      BY <2>3, <3>1, <2>move, <2>answer DEF QuotaFilter, Advance, Quiet, PublishTask
  <2>4. ASSUME NEW w \in Worker, Validate(w) PROVE FloodInv'
    <3>1. task[w] \in PublishTask
      BY <2>4, <2>db, TaskByPc DEF Validate
    <3> QED
      BY <2>4, <3>1, <2>move, <2>answer DEF Validate, Advance, Quiet, PublishTask
  <2>5. ASSUME NEW w \in Worker, ResolveRead(w) PROVE FloodInv'
    <3>1. task[w] \in PublishTask
      BY <2>5, <2>db, TaskByPc DEF ResolveRead
    <3> QED
      BY <2>5, <3>1, <2>move, <2>answer DEF ResolveRead, FindNone, FindClaim, Quiet
  <2>15. ASSUME NEW w \in Worker, ResolveSearch(w) PROVE FloodInv'
    BY <2>15, <2>move DEF ResolveSearch, Quiet
  <2>6. ASSUME NEW w \in Worker, ResolveWrite(w) PROVE FloodInv'
    <3>1. db'.messages \subseteq db.messages
      BY <2>6, <2>db, ConfirmShrinks, DropKeepsMessages DEF ResolveWrite
    <3> QED
      BY <2>6, <3>1, <2>move, <2>answer DEF ResolveWrite, Quiet
  <2>7. ASSUME NEW w \in Worker, Insert(w) PROVE FloodInv'
    <3>1. task[w].pc = "insert" /\ task[w].sig \in Sig
      BY <2>7, <2>db, TaskByPc DEF Insert, InsertTask
    <3> QED
      BY <2>7, <3>1, <2>answer, FloodKeptByInsert DEF Insert, Quiet
  <2>8. ASSUME NEW w \in Worker, Fanout(w) PROVE FloodInv'
    BY <2>8, FloodKeptByFanout
  <2>9. ASSUME NEW w \in Worker, ReceiveDelete(w) PROVE FloodInv'
    BY <2>9, <2>move DEF ReceiveDelete, Unseen
  <2>10. ASSUME NEW w \in Worker, HandleDelete(w) PROVE FloodInv'
    <3>1. CASE /\ OwnedRow(db, task[w].sig, task[w].key, task[w].at)
               /\ db' = ConfirmDeletion(db, task[w].sig, task[w].key, task[w].at)
               /\ ThenFanout(w, "delete")
      <4>1. MessageExists(db, task[w].sig)
        BY <3>1 DEF OwnedRow, MessageExists, Stored
      <4> QED
        BY <2>10, <3>1, <4>1, FloodKeptByConfirm DEF HandleDelete
    <3>2. CASE db' = RecordPending(db, task[w].sig, task[w].key, task[w].at) /\ Answer(w)
      BY <2>10, <3>2, <2>answer, PendingKeepsMessages DEF HandleDelete
    <3>3. CASE UNCHANGED db /\ Answer(w)
      BY <2>10, <3>3, <2>answer DEF HandleDelete
    <3> QED
      BY <2>10, <3>1, <3>2, <3>3 DEF HandleDelete
  <2>same. ASSUME UNCHANGED <<task, inserts, pushes>>, db'.messages \subseteq db.messages
           PROVE  FloodInv'
    <3>1. \A p \in Path, s \in Sig :
             Cardinality(Due(task', p, s)) <= Cardinality(Due(task, p, s))
      BY <2>same, DueFinite
    <3> QED
      BY <2>same, <3>1, FloodKept
  <2>11. ASSUME NEW s \in Sig, ApplyTombstone(s) PROVE FloodInv'
    BY <2>11, <2>same, ConfirmShrinks DEF ApplyTombstone
  <2>12. CASE Sweep
    BY <2>12, <2>db, <2>same DEF Sweep, SweptDb, Database
  <2>13. CASE StartSweep \/ Tick \/ UNCHANGED vars
    BY <2>13, <2>same DEF StartSweep, Tick, vars
  <2>14. CASE Restart
    <3>1. \A p, s : Due(task', p, s) \subseteq Due(task, p, s)
      BY <2>14 DEF Restart, Due, Idle
    <3>2. \A p \in Path, s \in Sig :
             Cardinality(Due(task', p, s)) <= Cardinality(Due(task, p, s))
      BY <3>1, DueFinite, FS_Subset
    <3> QED
      BY <2>14, <3>2, FloodKept DEF Restart
  <2> QED
    BY <2>1, <2>2, <2>3, <2>4, <2>5, <2>6, <2>7, <2>8, <2>9, <2>10, <2>11, <2>12, <2>13, <2>14,
       <2>15
    DEF Next, Publish, Delete
<1>3. TypeOK /\ FloodInv => FloodBounded
  <2> SUFFICES ASSUME TypeOK, FloodInv, NEW p \in Path, NEW s \in Sig
               PROVE  pushes[p][s] <= inserts[s]
    BY DEF FloodBounded
  <2>1. pushes[p][s] \in Nat /\ inserts[s] \in Nat
    BY DEF TypeOK
  <2>2. Cardinality(Due(task, p, s)) \in Nat /\ Held(db, s) \in Nat
    BY DueFinite DEF Held
  <2> QED
    BY <2>1, <2>2 DEF FloodInv, Path
<1> QED
  BY <1>1, <1>2, <1>3, TypeCorrect, PTL DEF Spec

-----------------------------------------------------------------------------
\* Ids and cursors.

NewlyConfirmed(d, e) == ConfirmedRows(e) \ ConfirmedRows(d)

AheadOf(d, e) == \A r \in NewlyConfirmed(d, e) : r.id > d.lastDeletion

LEMMA ReplaceAhead ==
    ASSUME NEW d \in Database, NEW messages, NEW s, NEW k, NEW c, NEW t
    PROVE  AheadOf(d, ReplaceDeletion(d, messages, NewDeletion(d, s, k, c, t)))
<1>1. NewDeletion(d, s, k, c, t).id = d.lastDeletion + 1 /\ d.lastDeletion \in Nat
  BY DEF NewDeletion, Database
<1>2. NewlyConfirmed(d, ReplaceDeletion(d, messages, NewDeletion(d, s, k, c, t)))
        \subseteq {NewDeletion(d, s, k, c, t)}
  BY DEF NewlyConfirmed, ConfirmedRows, ReplaceDeletion, OtherDeletions
<1> QED
  BY <1>1, <1>2 DEF AheadOf

LEMMA SubsetAhead ==
    ASSUME NEW d, NEW e, e.deletions \subseteq d.deletions
    PROVE  AheadOf(d, e)
BY DEF AheadOf, NewlyConfirmed, ConfirmedRows

LEMMA ConfirmAhead ==
    ASSUME NEW d \in Database, NEW s, NEW k, NEW t
    PROVE  AheadOf(d, ConfirmDeletion(d, s, k, t)) /\ AheadOf(d, RecordPending(d, s, k, t))
BY ReplaceAhead, SubsetAhead DEF ConfirmDeletion, RecordPending

\* No row ever becomes confirmed at or below an id that was given out before,
\* so a peer that pages /gossip/deletions by id misses none of them.
THEOREM CursorsNeverPass == Spec => ConfirmedAheadOfCursors
<1>1. TypeOK /\ [Next]_vars =>
        [\A r \in ConfirmedRows(db') : r \notin ConfirmedRows(db) => r.id > db.lastDeletion]_vars
  <2> SUFFICES ASSUME TypeOK, Next PROVE AheadOf(db, db')
    BY DEF AheadOf, NewlyConfirmed
  <2>db. db \in Database
    BY DEF TypeOK
  <2>1. ASSUME NEW w \in Worker, Publish(w) PROVE AheadOf(db, db')
    <3>1. \/ db'.deletions = db.deletions
          \/ db' = ConfirmDeletion(db, task[w].sig, task[w].key, now)
          \/ db' = DropRequest(db, task[w].sig)
      BY <2>1 DEF Publish, Receive, Unseen, Dedup, QuotaFilter, Validate, ResolveRead, ResolveSearch,
                  ResolveWrite, Insert, Store, InsertMessage, Fanout
    <3>2. DropRequest(db, task[w].sig).deletions \subseteq db.deletions
      BY <2>db DEF DropRequest, OtherDeletions, Database
    <3> QED
      BY <2>db, <3>1, <3>2, ConfirmAhead, SubsetAhead
  <2>2. ASSUME NEW w \in Worker, Delete(w) PROVE AheadOf(db, db')
    <3>1. \/ db' = db
          \/ db' = ConfirmDeletion(db, task[w].sig, task[w].key, task[w].at)
          \/ db' = RecordPending(db, task[w].sig, task[w].key, task[w].at)
      BY <2>2 DEF Delete, ReceiveDelete, Unseen, HandleDelete
    <3> QED
      BY <2>db, <3>1, ConfirmAhead, SubsetAhead
  <2>3. ASSUME NEW s \in Sig, ApplyTombstone(s) PROVE AheadOf(db, db')
    BY <2>db, <2>3, ConfirmAhead, SubsetAhead DEF ApplyTombstone
  <2>4. CASE Sweep
    <3>1. db'.deletions \subseteq db.deletions
      BY <2>4, <2>db DEF Sweep, SweptDb, Database
    <3> QED
      BY <3>1, SubsetAhead
  <2>5. CASE StartSweep \/ Tick \/ Restart
    BY <2>5, SubsetAhead DEF StartSweep, Tick, Restart
  <2> QED
    BY <2>1, <2>2, <2>3, <2>4, <2>5 DEF Next
<1> QED
  BY <1>1, TypeCorrect, PTL DEF Spec, ConfirmedAheadOfCursors

=============================================================================
