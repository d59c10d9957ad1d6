----------------------------- MODULE MeshProofs -----------------------------
(***************************************************************************)
(* Theorems about Mesh, for every set of relays and every way they trust   *)
(* each other, every number of request threads, every page size, body cap, *)
(* quota and set of requests.                                              *)
(***************************************************************************)
EXTENDS Mesh, RelayDbProofs, WellFoundedInduction

-----------------------------------------------------------------------------
\* Types.

RowType == MessageRow \cup DeletionRow

LoopType == [Node -> [todo : SUBSET (Node \X Table), pull : {Waiting} \cup Pulling]]

\* A page of tombstones has rows of deletion_requests.
PagesTyped ==
    \A n \in Node :
        loop[n].pull.pc = "pull" /\ loop[n].pull.table = "deletions"
          => loop[n].pull.rows \subseteq DeletionRow

\* n's loop has a row to deal with.
AtHand(n) == loop[n].pull.pc = "pull" /\ loop[n].pull.rows # {}

\* What the loop handles is the first row of its page.
LoopBusy ==
    \A n \in Node : task[n][Loop] # Idle =>
        /\ AtHand(n)
        /\ loop[n].pull.table = "messages"
        /\ First(loop[n].pull.rows).sig = task[n][Loop].sig

TypeInv == TypeOK /\ PagesTyped /\ LoopBusy

\* The first row of a page that is not empty is one of its rows.
LEMMA FirstRow ==
    ASSUME NEW rows, rows # {}, \A r \in rows : r.id \in Nat
    PROVE  First(rows) \in rows /\ \A q \in rows : First(rows).id <= q.id
<1> DEFINE ids == {r.id : r \in rows}
<1>1. ids \subseteq Nat /\ ids # {}
  OBVIOUS
<1>2. PICK i \in ids : \A j \in ids : ~ (<<j, i>> \in OpToRel(<, Nat))
  BY <1>1, WFMin, NatLessThanWellFounded
<1>3. \A j \in ids : ~ (j < i)
  BY <1>1, <1>2 DEF OpToRel
<1>4. ASSUME NEW j \in ids PROVE i <= j
  <2>1. i \in Nat /\ j \in Nat
    BY <1>1
  <2> QED
    BY <1>3, <2>1
<1>5. \E r \in rows : \A q \in rows : r.id <= q.id
  BY <1>4
<1> QED
  BY <1>5 DEF First

LEMMA PageType ==
    ASSUME NEW d \in Database, NEW table \in Table, NEW since
    PROVE  Page(d, table, since) \subseteq Rows(d, table) /\ Rows(d, table) \subseteq RowType
BY DatabaseFields DEF Page, Rows, RowType, ConfirmedRows

\* A pull under way.
LEMMA PullType ==
    ASSUME TypeOK, NEW n \in Node, loop[n].pull.pc = "pull"
    PROVE  loop[n].pull \in Pulling /\ loop[n].pull.rows \subseteq RowType
BY DEF TypeOK, Waiting, Pulling, RowType

\* Its first row.
LEMMA PullRow ==
    ASSUME TypeOK, NEW n \in Node, AtHand(n)
    PROVE  LET r == First(loop[n].pull.rows) IN
           /\ r \in loop[n].pull.rows /\ r \in RowType
           /\ r.id \in Nat /\ r.sig \in Sig
           /\ \A q \in loop[n].pull.rows : r.id <= q.id
<1>1. loop[n].pull.rows \subseteq RowType /\ loop[n].pull.rows # {}
  BY PullType DEF AtHand
<1>2. \A r \in RowType : r.id \in Nat /\ r.sig \in Sig
  BY DEF RowType, MessageRow, DeletionRow
<1> QED
  BY <1>1, <1>2, FirstRow

LEMMA TaskFields ==
    ASSUME TypeOK, NEW n \in Node, NEW t \in Thread
    PROVE  LET x == task[n][t] IN
           /\ x.pc \in {"idle", "quota", "look", "resolve", "insert"}
           /\ x.pc = "idle" => x = Idle
           /\ x.pc # "idle" => x.sig \in Sig /\ Addr[x.sig] \in Address /\ x # Idle
           /\ x.pc = "resolve" => x.key \in Key /\ x.asOf \in Nat
           /\ x.pc = "insert" => x.asOf \in Nat
<1>1. task[n][t] \in Task
  BY DEF TypeOK
<1> QED
  BY <1>1, MeshAssumption DEF Task, Idle

LEMMA Threads == Loop \in Thread /\ \A t \in Worker : t \in Thread /\ t # Loop
BY MeshAssumption DEF Thread

\* What a step does to the loops.
Steps ==
    \/ UNCHANGED <<loop, seen>>
    \/ \E n \in Node : /\ AtHand(n) /\ Past(n)
                       /\ PullMessage(n) \/ Handle(n, Loop) \/ PullDeletion(n)
    \/ \E n \in Node : \E p \in Peers[n], k \in Table : StartPull(n, p, k)
    \/ \E n \in Node : OutOfBudget(n) \/ EndPull(n)
    \/ \E n \in Node : Restart(n)

\* A thread that handles a message moves on, or ends and takes the row off.
LEMMA HandleSteps ==
    ASSUME TypeInv, NEW n \in Node, NEW t \in Thread, Handle(n, t)
    PROVE  UNCHANGED <<loop, seen>> \/ (t = Loop /\ AtHand(n) /\ Past(n))
<1>1. task[n][t] # Idle
  BY DEF Handle, QuotaFilter, Look, Resolve, Insert, Idle
<1>2. t = Loop => AtHand(n)
  BY <1>1 DEF TypeInv, LoopBusy
<1>3. Finish(n, t) \/ UNCHANGED <<loop, seen>>
  BY DEF Handle, QuotaFilter, Look, Resolve, Insert, GoOn
<1> QED
  BY <1>2, <1>3 DEF Finish

LEMMA StepSteps ==
    ASSUME TypeInv, [Next]_vars
    PROVE  Steps
<1>1. ASSUME NEW n \in Node, NEW s, NEW t \in Worker, Arrive(n, t, s) PROVE Steps
  BY <1>1, Threads DEF Arrive, Finish, GoOn, Steps
<1>2. CASE \E n \in Entry, s \in Sig : Publish(n, s)
  BY <1>1, <1>2, MeshAssumption DEF Publish
<1>3. CASE \E n \in Entry, q \in Request : ClientDelete(n, q)
  BY <1>3 DEF ClientDelete, Steps
<1>4. CASE \E m \in wire : Deliver(m)
  <2>1. \A m \in wire : m.to \in Node
    BY DEF TypeInv, TypeOK, Push
  <2>2. PICK m \in wire : Deliver(m)
    BY <1>4
  <2>3. CASE m.table = "messages"
    BY <1>1, <2>1, <2>2, <2>3 DEF Deliver
  <2>4. CASE m.table = "deletions"
    BY <2>2, <2>4 DEF Deliver, Steps
  <2> QED
    BY <2>2, <2>3, <2>4 DEF Deliver
<1>5. CASE \E n \in Node, t \in Worker : Handle(n, t)
  BY <1>5, HandleSteps, Threads DEF Steps
<1>6. ASSUME NEW n \in Node, PullMessage(n) PROVE Steps
  <2>1. AtHand(n) /\ (Finish(n, Loop) \/ UNCHANGED <<loop, seen>>)
    BY <1>6 DEF PullMessage, Arrive, GoOn, AtHand
  <2> QED
    BY <1>6, <2>1 DEF Finish, Steps
<1>7. ASSUME NEW n \in Node, PullDeletion(n) PROVE Steps
  BY <1>7 DEF PullDeletion, AtHand, Steps
<1>8. CASE \E n \in Node : AntiEntropy(n) \/ Restart(n)
  BY <1>6, <1>7, <1>8, HandleSteps, Threads DEF AntiEntropy, Steps
<1> QED
  BY <1>2, <1>3, <1>4, <1>5, <1>8 DEF Next, vars, Steps

LEMMA DoneType ==
    ASSUME TypeOK, NEW n \in Node, Done(n)
    PROVE  loop' \in LoopType
<1>1. Round(n) \subseteq Node \X Table
  BY MeshAssumption DEF Round
<1>2. \A todo \in SUBSET (Node \X Table) : NextRound(n, todo) \in SUBSET (Node \X Table)
  BY <1>1 DEF NextRound
<1> QED
  BY <1>2 DEF Done, TypeOK, LoopType

LEMMA StartPullType ==
    ASSUME TypeOK, NEW n \in Node, NEW p \in Peers[n], NEW table \in Table, StartPull(n, p, table)
    PROVE  loop' \in LoopType
<1> DEFINE page == Page(db[p], table, cursor[n][p][table])
           pull == [pc |-> "pull", peer |-> p, table |-> table, rows |-> page,
                    max |-> cursor[n][p][table]]
<1>1. p \in Node /\ Round(n) \subseteq Node \X Table
  BY MeshAssumption DEF Round
<1>2. pull \in Pulling
  <2>1. db[p] \in Database /\ cursor[n][p][table] \in Nat
    BY <1>1 DEF TypeOK
  <2>2. page \subseteq RowType
    BY <2>1, PageType
  <2> QED
    BY <1>1, <2>1, <2>2 DEF Pulling, RowType
<1>3. NextRound(n, loop[n].todo \ {<<p, table>>}) \subseteq Node \X Table
  BY <1>1 DEF NextRound, TypeOK
<1>4. loop' = [loop EXCEPT ![n].todo = NextRound(n, @ \ {<<p, table>>})]
      \/ loop' = [loop EXCEPT ![n].pull = pull]
  BY DEF StartPull
<1>5. loop \in LoopType
  BY DEF TypeOK, LoopType
<1> HIDE DEF pull, page
<1> QED
  BY <1>2, <1>3, <1>4, <1>5 DEF LoopType

LEMMA PastType ==
    ASSUME TypeOK, NEW n \in Node, AtHand(n), Past(n)
    PROVE  /\ loop' \in LoopType
           /\ seen' \in [Node -> [Table -> SUBSET Sig]]
<1> DEFINE r == First(loop[n].pull.rows)
           pull == [loop[n].pull EXCEPT !.rows = @ \ {r}, !.max = r.id]
<1>1. r.id \in Nat /\ r.sig \in Sig
  BY PullRow
<1>2. loop[n].pull \in Pulling
  BY PullType DEF AtHand
<1>3. loop' = [loop EXCEPT ![n].pull = pull]
      /\ seen' = [seen EXCEPT ![n][loop[n].pull.table] = @ \cup {r.sig}]
  BY <1>2 DEF Past, TypeOK
<1> HIDE DEF r
<1>4. pull \in Pulling /\ loop[n].pull.table \in Table
  BY <1>1, <1>2 DEF Pulling
<1> HIDE DEF pull
<1> QED
  BY <1>1, <1>3, <1>4 DEF TypeOK, LoopType

LEMMA RestartType ==
    ASSUME TypeOK, NEW n \in Node, Restart(n)
    PROVE  /\ loop' \in LoopType
           /\ seen' \in [Node -> [Table -> SUBSET Sig]]
           /\ db' \in [Node -> Database]
<1>1. EmptyDb \in Database
  BY DEF EmptyDb, Database
<1>2. Round(n) \subseteq Node \X Table
  BY MeshAssumption DEF Round
<1>3. db' \in [Node -> Database] /\ seen' \in [Node -> [Table -> SUBSET Sig]]
  BY <1>1 DEF Restart, TypeOK
<1>4. loop' \in LoopType
  BY <1>2 DEF Restart, TypeOK, LoopType
<1> QED
  BY <1>3, <1>4

LEMMA StepsType ==
    ASSUME TypeOK, Steps
    PROVE  loop' \in LoopType /\ seen' \in [Node -> [Table -> SUBSET Sig]]
<1>1. CASE UNCHANGED <<loop, seen>>
  BY <1>1 DEF TypeOK, LoopType
<1>2. ASSUME NEW n \in Node, OutOfBudget(n) \/ EndPull(n)
      PROVE  loop' \in LoopType /\ seen' \in [Node -> [Table -> SUBSET Sig]]
  <2>1. Done(n) /\ UNCHANGED seen
    BY <1>2 DEF OutOfBudget, EndPull
  <2> QED
    BY <2>1, DoneType DEF TypeOK
<1>3. ASSUME NEW n \in Node, NEW p \in Peers[n], NEW k \in Table, StartPull(n, p, k)
      PROVE  loop' \in LoopType /\ seen' \in [Node -> [Table -> SUBSET Sig]]
  <2>1. UNCHANGED seen
    BY <1>3 DEF StartPull
  <2> QED
    BY <1>3, <2>1, StartPullType DEF TypeOK
<1> QED
  BY <1>1, <1>2, <1>3, PastType, RestartType DEF Steps

-----------------------------------------------------------------------------
\* What a step does to the databases.

\* The key k may have s deleted at n: it is s's owner, or a page that n has
\* fetched says so.
Warranted(n, s, k) ==
    \/ k = Owner(s)
    \/ /\ loop[n].pull.pc = "pull"
       /\ loop[n].pull.table = "deletions"
       /\ \E r \in loop[n].pull.rows : r.sig = s /\ r.requester = k

Confirms(n, s, k, t) ==
    /\ Warranted(n, s, k)
    /\ db' = [db EXCEPT ![n] = ConfirmDeletion(@, s, k, t)]
    /\ UNCHANGED disturbed

Records(n, s, k, t) ==
    /\ db' = [db EXCEPT ![n] = RecordPending(@, s, k, t)]
    /\ UNCHANGED disturbed

\* The claim that a thread has looked up is not its message's owner's.
Drops(n, t) ==
    /\ task[n][t].pc = "resolve"
    /\ db' = [db EXCEPT ![n] = DropRequest(@, task[n][t].sig)]
    /\ Disturb(n, t)

\* A thread stores its message.
Puts(n, t) ==
    /\ task[n][t].pc = "insert"
    /\ ~MessageExists(db[n], task[n][t].sig)
    /\ db' = [db EXCEPT ![n] = InsertMessage(@, task[n][t].sig, Addr[task[n][t].sig])]
    /\ Disturb(n, t)

Changes ==
    \/ UNCHANGED <<db, disturbed>>
    \/ \E n \in Node, s \in Sig, k \in Key, t \in Int : Confirms(n, s, k, t) \/ Records(n, s, k, t)
    \/ \E n \in Node, t \in Thread : Drops(n, t) \/ Puts(n, t)
    \/ \E n \in Volatile : Restart(n)

\* The owner check of handle_delete_request and resolve_deletion_request.
LEMMA OwnsIsOwner ==
    ASSUME NEW k, NEW s, Owns(k, s)
    PROVE  k = Owner(s)
BY CandidateOfKey DEF Owns, Owner

LEMMA HandleChanges ==
    ASSUME TypeInv, NEW n \in Node, NEW t \in Thread, Handle(n, t)
    PROVE  Changes
<1>1. CASE QuotaFilter(n, t) \/ Look(n, t)
  BY <1>1 DEF QuotaFilter, Look, Changes
<1>2. CASE Resolve(n, t)
  <2> DEFINE x == task[n][t]
  <2>1. x.pc = "resolve" /\ x.sig \in Sig /\ x.key \in Key
    BY <1>2, TaskFields DEF Resolve, TypeInv
  <2>2. CASE Owns(x.key, x.sig)
    <3>1. Confirms(n, x.sig, x.key, 0)
      BY <1>2, <2>2, OwnsIsOwner DEF Resolve, Confirms, Warranted
    <3> QED
      BY <2>1, <3>1 DEF Changes
  <2>3. CASE ~Owns(x.key, x.sig)
    <3>1. Drops(n, t)
      BY <1>2, <2>3 DEF Resolve, Drops
    <3> QED
      BY <3>1 DEF Changes
  <2> QED
    BY <2>2, <2>3
<1>3. CASE Insert(n, t)
  <2>1. Puts(n, t) \/ UNCHANGED <<db, disturbed>>
    BY <1>3 DEF Insert, Puts
  <2> QED
    BY <2>1 DEF Changes
<1> QED
  BY <1>1, <1>2, <1>3 DEF Handle

LEMMA TakeDeleteChanges ==
    ASSUME TypeOK, NEW n \in Node, NEW s \in Sig, NEW k \in Key, NEW rest,
           TakeDelete(n, s, k, rest), UNCHANGED disturbed
    PROVE  Changes
<1>1. \/ UNCHANGED db
      \/ db' = [db EXCEPT ![n] = RecordPending(@, s, k, 0)]
      \/ db' = [db EXCEPT ![n] = ConfirmDeletion(@, s, k, 0)] /\ Owns(k, s)
  BY DEF TakeDelete, TypeOK
<1>2. CASE UNCHANGED db
  BY <1>2 DEF Changes
<1>3. CASE db' = [db EXCEPT ![n] = RecordPending(@, s, k, 0)]
  <2>1. Records(n, s, k, 0)
    BY <1>3 DEF Records
  <2> QED
    BY <2>1 DEF Changes
<1>4. CASE db' = [db EXCEPT ![n] = ConfirmDeletion(@, s, k, 0)] /\ Owns(k, s)
  <2>1. Confirms(n, s, k, 0)
    BY <1>4, OwnsIsOwner DEF Confirms, Warranted
  <2> QED
    BY <2>1 DEF Changes
<1> QED
  BY <1>1, <1>2, <1>3, <1>4

LEMMA PullDeletionChanges ==
    ASSUME TypeInv, NEW n \in Node, PullDeletion(n)
    PROVE  Changes
<1> DEFINE r == First(loop[n].pull.rows)
<1>1. r \in loop[n].pull.rows /\ AtHand(n)
  BY PullRow DEF PullDeletion, AtHand, TypeInv
<1>2. r \in DeletionRow
  BY <1>1 DEF PullDeletion, TypeInv, PagesTyped
<1>3. /\ UNCHANGED db \/ db' = [db EXCEPT ![n] = ConfirmDeletion(@, r.sig, r.requester, r.at)]
      /\ UNCHANGED disturbed
  BY DEF PullDeletion
<1>4. Warranted(n, r.sig, r.requester)
  BY <1>1 DEF PullDeletion, Warranted
<1>5. UNCHANGED db \/ Confirms(n, r.sig, r.requester, r.at)
  BY <1>3, <1>4 DEF Confirms
<1>6. r.sig \in Sig /\ r.requester \in Key /\ r.at \in Int
  BY <1>2 DEF DeletionRow
<1> QED
  BY <1>3, <1>5, <1>6 DEF Changes

LEMMA StepChanges ==
    ASSUME TypeInv, [Next]_vars
    PROVE  Changes
<1>1. CASE UNCHANGED <<db, disturbed>>
  BY <1>1 DEF Changes
<1>2. CASE \E n \in Entry, s \in Sig : Publish(n, s)
  BY <1>1, <1>2 DEF Publish
<1>3. CASE \E n \in Entry, q \in Request : ClientDelete(n, q)
  <2>1. PICK n \in Entry, q \in Request : ClientDelete(n, q)
    BY <1>3
  <2>2. n \in Node /\ q[1] \in Sig /\ q[2] \in Key
    BY MeshAssumption
  <2> QED
    BY <2>1, <2>2, TakeDeleteChanges DEF ClientDelete, TypeInv
<1>4. CASE \E m \in wire : Deliver(m)
  <2>1. PICK m \in wire : Deliver(m)
    BY <1>4
  <2>2. m.to \in Node /\ m.sig \in Sig /\ m.key \in Key
    BY DEF TypeInv, TypeOK, Push
  <2>3. CASE m.table = "messages"
    BY <1>1, <2>1, <2>3 DEF Deliver
  <2>4. CASE m.table = "deletions"
    <3>1. TakeDelete(m.to, m.sig, m.key, wire \ {m}) /\ UNCHANGED disturbed
      BY <2>1, <2>4 DEF Deliver
    <3> QED
      BY <2>2, <3>1, TakeDeleteChanges DEF TypeInv
  <2> QED
    BY <2>1, <2>3, <2>4 DEF Deliver
<1>5. CASE \E n \in Node, t \in Worker : Handle(n, t)
  BY <1>5, HandleChanges, Threads
<1>6. ASSUME NEW n \in Node, AntiEntropy(n) PROVE Changes
  <2>1. CASE \E p \in Peers[n], k \in Table : StartPull(n, p, k)
    BY <1>1, <2>1 DEF StartPull
  <2>2. CASE PullMessage(n) \/ OutOfBudget(n) \/ EndPull(n)
    BY <1>1, <2>2 DEF PullMessage, OutOfBudget, EndPull
  <2> QED
    BY <1>6, <2>1, <2>2, HandleChanges, Threads, PullDeletionChanges DEF AntiEntropy
<1>7. ASSUME NEW n \in Node, Restart(n) PROVE Changes
  <2>1. CASE n \in Volatile
    BY <1>7, <2>1 DEF Changes
  <2>2. CASE n \notin Volatile
    BY <1>1, <1>7, <2>2 DEF Restart
  <2> QED
    BY <2>1, <2>2
<1> QED
  BY <1>1, <1>2, <1>3, <1>4, <1>5, <1>6, <1>7 DEF Next, vars

LEMMA ChangesType ==
    ASSUME TypeOK, Changes
    PROVE  db' \in [Node -> Database] /\ disturbed' \subseteq Node \X Sig
<1> DEFINE Typed == db' \in [Node -> Database] /\ disturbed' \subseteq Node \X Sig
<1>1. CASE UNCHANGED <<db, disturbed>>
  BY <1>1 DEF TypeOK
<1>2. ASSUME NEW n \in Node, NEW e \in Database, db' = [db EXCEPT ![n] = e]
      PROVE  db' \in [Node -> Database]
  BY <1>2 DEF TypeOK
<1>3. ASSUME NEW n \in Node, NEW s \in Sig, NEW k \in Key, NEW t \in Int,
             Confirms(n, s, k, t) \/ Records(n, s, k, t)
      PROVE  Typed
  <2>1. db[n] \in Database
    BY DEF TypeOK
  <2>2. ConfirmDeletion(db[n], s, k, t) \in Database /\ RecordPending(db[n], s, k, t) \in Database
    BY <2>1, ConfirmDeletionType, RecordPendingType
  <2>3. db' \in [Node -> Database]
    BY <1>2, <1>3, <2>2 DEF Confirms, Records
  <2> QED
    BY <1>3, <2>3 DEF Confirms, Records, TypeOK
<1>4. ASSUME NEW n \in Node, NEW t \in Thread, Drops(n, t) \/ Puts(n, t)
      PROVE  Typed
  <2> DEFINE s == task[n][t].sig
  <2>1. db[n] \in Database
    BY DEF TypeOK
  <2>2. s \in Sig /\ Addr[s] \in Address
    BY <1>4, TaskFields DEF Drops, Puts
  <2>3. DropRequest(db[n], s) \in Database /\ InsertMessage(db[n], s, Addr[s]) \in Database
    BY <2>1, <2>2, DropRequestType, InsertMessageType
  <2>4. db' \in [Node -> Database]
    BY <1>2, <1>4, <2>3 DEF Drops, Puts
  <2>5. disturbed' \subseteq Node \X Sig
    BY <1>4, <2>2 DEF Drops, Puts, Disturb, TypeOK
  <2> QED
    BY <2>4, <2>5
<1>5. ASSUME NEW n \in Volatile, Restart(n) PROVE Typed
  <2>1. n \in Node
    BY MeshAssumption
  <2>2. db' \in [Node -> Database]
    BY <1>5, <2>1, RestartType
  <2>3. UNCHANGED disturbed
    BY <1>5 DEF Restart
  <2> QED
    BY <2>2, <2>3 DEF TypeOK
<1> QED
  BY <1>1, <1>3, <1>4, <1>5 DEF Changes

-----------------------------------------------------------------------------
\* What a step does to the threads.

\* A thread has looked for requests, and found none or one that is pending.
Looked(n, t, x) ==
    /\ task[n][t].pc = "look"
    /\ x.pc \in {"resolve", "insert"}
    /\ x.asOf = db[n].lastDeletion
    /\ \/ RequestsFor(db[n], x.sig) = {}
       \/ \E r \in RequestsFor(db[n], x.sig) : ~r.confirmed
    /\ UNCHANGED db

\* A thread goes on with its message.
GoesOn(n, t, x) ==
    /\ x \in Task /\ x.pc # "idle" /\ task[n][t] # Idle
    /\ x.sig = task[n][t].sig
    /\ \/ x.pc \in {"quota", "look"}
       \/ Looked(n, t, x)
       \/ /\ task[n][t].pc = "resolve" /\ x.pc = "insert"
          /\ x.asOf = task[n][t].asOf

Goes(n, t, x) ==
    /\ task' = [task EXCEPT ![n][t] = x]
    /\ x = Idle \/ x \in [pc : {"quota"}, sig : Sig] \/ GoesOn(n, t, x)

LEMMA HandleGoes ==
    ASSUME TypeInv, NEW n \in Node, NEW t \in Thread, Handle(n, t)
    PROVE  \E x : Goes(n, t, x) /\ (x = Idle \/ (GoesOn(n, t, x) /\ UNCHANGED loop))
<1> DEFINE s == task[n][t].sig
           asOf == db[n].lastDeletion
           ins == [pc |-> "insert", sig |-> s, asOf |-> asOf]
           res(r) == [pc |-> "resolve", sig |-> s, key |-> r.requester, asOf |-> asOf]
           late == [pc |-> "insert", sig |-> s, asOf |-> task[n][t].asOf]
           see == [pc |-> "look", sig |-> s]
<1>1. task[n][t] # Idle /\ s \in Sig /\ db[n] \in Database /\ asOf \in Nat
  <2>1. task[n][t].pc # "idle"
    BY DEF Handle, QuotaFilter, Look, Resolve, Insert
  <2> QED
    BY <2>1, TaskFields, DatabaseFields DEF TypeInv, TypeOK
<1>2. CASE Finish(n, t)
  BY <1>2 DEF Finish, GoTo, Goes
<1>3. CASE QuotaFilter(n, t) /\ ~Finish(n, t)
  <2>1. GoOn(n, t, see)
    BY <1>3 DEF QuotaFilter
  <2>2. GoesOn(n, t, see)
    BY <1>1 DEF GoesOn, Task
  <2> QED
    BY <2>1, <2>2 DEF GoOn, GoTo, Goes
<1>4. CASE Look(n, t) /\ ~Finish(n, t)
  <2>1. task[n][t].pc = "look" /\ UNCHANGED db
    BY <1>4 DEF Look
  <2>2. \/ RequestsFor(db[n], s) = {} /\ GoOn(n, t, ins)
        \/ \E r \in RequestsFor(db[n], s) : ~r.confirmed /\ GoOn(n, t, res(r))
    BY <1>4 DEF Look
  <2>3. CASE RequestsFor(db[n], s) = {} /\ GoOn(n, t, ins)
    <3>1. ins \in Task
      BY <1>1 DEF Task
    <3>2. GoesOn(n, t, ins)
      BY <1>1, <2>1, <2>3, <3>1 DEF GoesOn, Looked
    <3> QED
      BY <2>3, <3>2 DEF GoOn, GoTo, Goes
  <2>4. ASSUME NEW r \in RequestsFor(db[n], s), ~r.confirmed, GoOn(n, t, res(r))
        PROVE  GoesOn(n, t, res(r)) /\ Goes(n, t, res(r)) /\ UNCHANGED loop
    <3>1. r.requester \in Key
      BY <1>1, DatabaseFields DEF RequestsFor, DeletionRow
    <3>2. res(r) \in Task
      BY <1>1, <3>1 DEF Task
    <3>3. GoesOn(n, t, res(r))
      BY <1>1, <2>1, <2>4, <3>2 DEF GoesOn, Looked
    <3> QED
      BY <2>4, <3>3 DEF GoOn, GoTo, Goes
  <2> QED
    BY <2>2, <2>3, <2>4
<1>5. CASE Resolve(n, t) /\ ~Finish(n, t)
  <2>1. task[n][t].pc = "resolve" /\ GoOn(n, t, late)
    BY <1>5 DEF Resolve
  <2>2. task[n][t].asOf \in Nat
    BY <2>1, TaskFields DEF TypeInv
  <2>3. late \in Task
    BY <1>1, <2>2 DEF Task
  <2>4. GoesOn(n, t, late)
    BY <1>1, <2>1, <2>3 DEF GoesOn
  <2> QED
    BY <2>1, <2>4 DEF GoOn, GoTo, Goes
<1> QED
  BY <1>2, <1>3, <1>4, <1>5 DEF Handle, Insert

LEMMA ArriveGoes ==
    ASSUME NEW n, NEW t, NEW s \in Sig, Arrive(n, t, s)
    PROVE  \E x : Goes(n, t, x) /\ (x = Idle \/ (x = [pc |-> "quota", sig |-> s] /\ UNCHANGED loop))
<1> DEFINE x == [pc |-> "quota", sig |-> s]
<1>1. CASE Finish(n, t)
  BY <1>1 DEF Finish, GoTo, Goes
<1>2. CASE GoOn(n, t, x)
  BY <1>2 DEF GoOn, GoTo, Goes
<1> QED
  BY <1>1, <1>2 DEF Arrive

LEMMA StepGoes ==
    ASSUME TypeInv, [Next]_vars
    PROVE  \/ UNCHANGED task
           \/ \E n \in Node, t \in Thread : \E x : Goes(n, t, x)
           \/ \E n \in Node : Restart(n)
<1>1. CASE \E n \in Entry, s \in Sig : Publish(n, s)
  BY <1>1, ArriveGoes, Threads, MeshAssumption DEF Publish
<1>2. CASE \E n \in Entry, q \in Request : ClientDelete(n, q)
  BY <1>2 DEF ClientDelete
<1>3. CASE \E m \in wire : Deliver(m)
  <2>1. \A m \in wire : m.to \in Node /\ m.sig \in Sig
    BY DEF TypeInv, TypeOK, Push
  <2> QED
    BY <1>3, <2>1, ArriveGoes, Threads DEF Deliver
<1>4. CASE \E n \in Node, t \in Worker : Handle(n, t)
  BY <1>4, HandleGoes, Threads
<1>5. ASSUME NEW n \in Node, AntiEntropy(n)
      PROVE  UNCHANGED task \/ \E t \in Thread : \E x : Goes(n, t, x)
  <2>1. CASE \E p \in Peers[n], k \in Table : StartPull(n, p, k)
    BY <2>1 DEF StartPull
  <2>2. CASE PullDeletion(n) \/ EndPull(n)
    BY <2>2 DEF PullDeletion, EndPull
  <2>3. CASE OutOfBudget(n)
    <3>1. Goes(n, Loop, Idle)
      BY <2>3 DEF OutOfBudget, GoTo, Goes
    <3> QED
      BY <3>1, Threads
  <2>4. CASE PullMessage(n)
    <3>1. AtHand(n)
      BY <2>4 DEF PullMessage, AtHand
    <3>2. First(loop[n].pull.rows).sig \in Sig
      BY <3>1, PullRow DEF TypeInv
    <3> QED
      BY <2>4, <3>2, ArriveGoes, Threads DEF PullMessage
  <2>5. CASE Handle(n, Loop)
    BY <2>5, HandleGoes, Threads
  <2> QED
    BY <1>5, <2>1, <2>2, <2>3, <2>4, <2>5 DEF AntiEntropy
<1> QED
  BY <1>1, <1>2, <1>3, <1>4, <1>5 DEF Next, vars

LEMMA TaskType ==
    ASSUME TypeInv, [Next]_vars
    PROVE  task' \in [Node -> [Thread -> Task]]
<1>1. task \in [Node -> [Thread -> Task]]
  BY DEF TypeInv, TypeOK
<1>2. ASSUME NEW n \in Node, NEW t \in Thread, NEW x, Goes(n, t, x)
      PROVE  task' \in [Node -> [Thread -> Task]]
  <2>1. x \in Task
    BY <1>2 DEF Goes, GoesOn, Task
  <2>2. task' = [task EXCEPT ![n][t] = x]
    BY <1>2 DEF Goes
  <2> QED
    BY <1>1, <2>1, <2>2
<1>3. ASSUME NEW n \in Node, Restart(n)
      PROVE  task' \in [Node -> [Thread -> Task]]
  <2>1. task' = [task EXCEPT ![n] = [t \in Thread |-> Idle]] /\ Idle \in Task
    BY <1>3 DEF Restart, Task
  <2> QED
    BY <1>1, <2>1
<1> QED
  BY <1>1, <1>2, <1>3, StepGoes

LEMMA LoopBusyStep == TypeInv /\ [Next]_vars => LoopBusy'
<1> SUFFICES ASSUME TypeInv, [Next]_vars, NEW n \in Node, task'[n][Loop] # Idle
             PROVE  /\ loop'[n].pull.pc = "pull" /\ loop'[n].pull.rows # {}
                    /\ loop'[n].pull.table = "messages"
                    /\ First(loop'[n].pull.rows).sig = task'[n][Loop].sig
  BY DEF LoopBusy, AtHand
<1>types. /\ task \in [Node -> [Thread -> Task]] /\ loop \in LoopType
          /\ Loop \in Thread /\ \A t \in Worker : t # Loop
  BY Threads DEF TypeInv, TypeOK, LoopType
<1>1. CASE task'[n][Loop] = task[n][Loop] /\ loop'[n] = loop[n]
  BY <1>1 DEF TypeInv, LoopBusy, AtHand
<1>2. ASSUME NEW i \in Node, NEW t \in Worker, Handle(i, t) \/ \E s : Arrive(i, t, s)
      PROVE  task'[n][Loop] = task[n][Loop] /\ loop'[n] = loop[n]
  <2>1. (\E x : GoTo(i, t, x)) /\ UNCHANGED loop
    BY <1>types, <1>2 DEF Handle, QuotaFilter, Look, Resolve, Insert, Arrive, GoOn, Finish
  <2>2. PICK x : task' = [task EXCEPT ![i][t] = x]
    BY <2>1 DEF GoTo
  <2>3. task'[n][Loop] = task[n][Loop]
    BY <1>types, <2>2
  <2> QED
    BY <2>1, <2>3
<1>3. ASSUME NEW i \in Node, i # n, AntiEntropy(i) \/ Restart(i)
      PROVE  task'[n][Loop] = task[n][Loop] /\ loop'[n] = loop[n]
  <2>1. loop'[n] = loop[n]
    <3>1. CASE \/ \E p \in Peers[i], k \in Table : StartPull(i, p, k)
               \/ OutOfBudget(i) \/ EndPull(i) \/ Restart(i)
      BY <1>3, <1>types, <3>1 DEF StartPull, OutOfBudget, EndPull, Restart, Done, LoopType
    <3>2. CASE PullMessage(i) \/ Handle(i, Loop) \/ PullDeletion(i)
      <4>1. Past(i) \/ UNCHANGED loop
        BY <3>2 DEF PullMessage, Arrive, Handle, QuotaFilter, Look, Resolve, Insert, PullDeletion,
           GoOn, Finish
      <4> QED
        BY <1>3, <1>types, <4>1 DEF Past, LoopType
    <3> QED
      BY <1>3, <3>1, <3>2 DEF AntiEntropy
  <2>2. task'[n][Loop] = task[n][Loop]
    <3>1. CASE \/ \E p \in Peers[i], k \in Table : StartPull(i, p, k)
               \/ EndPull(i) \/ PullDeletion(i) \/ OutOfBudget(i) \/ Restart(i)
      BY <1>3, <1>types, <3>1 DEF StartPull, EndPull, PullDeletion, OutOfBudget, Restart, GoTo
    <3>2. CASE PullMessage(i) \/ Handle(i, Loop)
      <4>1. \E x : GoTo(i, Loop, x)
        BY <3>2 DEF PullMessage, Arrive, Handle, QuotaFilter, Look, Resolve, Insert, GoOn, Finish
      <4> QED
        BY <1>3, <1>types, <4>1 DEF GoTo
    <3> QED
      BY <1>3, <3>1, <3>2 DEF AntiEntropy
  <2> QED
    BY <2>1, <2>2
<1>4. ASSUME AntiEntropy(n) \/ Restart(n)
      PROVE  /\ loop'[n].pull.pc = "pull" /\ loop'[n].pull.rows # {}
             /\ loop'[n].pull.table = "messages"
             /\ First(loop'[n].pull.rows).sig = task'[n][Loop].sig
  <2>1. CASE PullMessage(n)
    <3> DEFINE r == First(loop[n].pull.rows)
    <3>1. AtHand(n) /\ loop[n].pull.table = "messages" /\ Arrive(n, Loop, r.sig)
      BY <2>1 DEF PullMessage, AtHand
    <3>2. r.sig \in Sig
      BY <3>1, PullRow DEF TypeInv
    <3>3. PICK x : task' = [task EXCEPT ![n][Loop] = x]
                   /\ (x = Idle \/ (x = [pc |-> "quota", sig |-> r.sig] /\ UNCHANGED loop))
      BY <3>1, <3>2, ArriveGoes DEF Goes
    <3>4. task'[n][Loop] = x
      BY <1>types, <3>3
    <3>5. x.sig = r.sig /\ UNCHANGED loop
      BY <3>3, <3>4
    <3> QED
      BY <3>1, <3>4, <3>5 DEF AtHand
  <2>2. CASE Handle(n, Loop)
    <3>1. PICK x : task' = [task EXCEPT ![n][Loop] = x]
                   /\ (x = Idle \/ (GoesOn(n, Loop, x) /\ UNCHANGED loop))
      BY <1>types, <2>2, HandleGoes DEF Goes
    <3>2. task'[n][Loop] = x
      BY <1>types, <3>1
    <3>3. task[n][Loop] # Idle /\ x.sig = task[n][Loop].sig /\ UNCHANGED loop
      BY <3>1, <3>2 DEF GoesOn
    <3> QED
      BY <3>2, <3>3 DEF TypeInv, LoopBusy, AtHand
  <2>3. CASE PullDeletion(n) \/ EndPull(n) \/ \E p \in Peers[n], k \in Table : StartPull(n, p, k)
    <3>1. task'[n][Loop] = task[n][Loop]
      BY <2>3 DEF PullDeletion, EndPull, StartPull
    <3>2. ASSUME NEW p, NEW k, StartPull(n, p, k) PROVE ~AtHand(n)
      BY <3>2 DEF StartPull, AtHand, Waiting
    <3>3. loop[n].pull.table # "messages" \/ ~AtHand(n)
      BY <2>3, <3>2 DEF PullDeletion, EndPull, AtHand
    <3> QED
      BY <3>1, <3>3 DEF TypeInv, LoopBusy
  <2>4. CASE OutOfBudget(n) \/ Restart(n)
    <3>1. task'[n][Loop] = Idle
      BY <1>types, <2>4 DEF OutOfBudget, Restart, GoTo
    <3> QED
      BY <3>1
  <2> QED
    BY <1>4, <2>1, <2>2, <2>3, <2>4 DEF AntiEntropy
<1>5. CASE \E i \in Entry, s \in Sig : Publish(i, s)
  BY <1>1, <1>2, <1>5, MeshAssumption DEF Publish
<1>6. CASE \E m \in wire : Deliver(m)
  <2>1. \A m \in wire : m.to \in Node
    BY DEF TypeInv, TypeOK, Push
  <2> QED
    BY <1>1, <1>2, <1>6, <2>1 DEF Deliver
<1>7. CASE (\E i \in Entry, q \in Request : ClientDelete(i, q)) \/ UNCHANGED vars
  BY <1>1, <1>7 DEF ClientDelete, vars
<1> QED
  BY <1>1, <1>2, <1>3, <1>4, <1>5, <1>6, <1>7 DEF Next

-----------------------------------------------------------------------------
\* Every variable keeps its type.

LEMMA FanOutType ==
    ASSUME TypeOK, NEW n \in Node, NEW table \in Table, NEW s \in Sig, NEW k \in Key,
           NEW rest \in SUBSET Push, FanOut(n, table, s, k, rest)
    PROVE  wire' \subseteq Push /\ pushes' \in 0 .. MaxPushes
<1> DEFINE copy(p) == [from |-> n, to |-> p, table |-> table, sig |-> s, key |-> k]
           copies == {copy(p) : p \in Peers[n]}
<1>1. Peers[n] \subseteq Node /\ IsFiniteSet(Node)
  BY MeshAssumption
<1>2. copies \subseteq Push
  BY <1>1 DEF Push
<1>3. IsFiniteSet(copies)
  <2>1. IsFiniteSet(Peers[n])
    BY <1>1, FS_Subset
  <2> DEFINE f == [p \in Peers[n] |-> copy(p)]
  <2>2. f \in Surjection(Peers[n], copies)
    BY DEF Surjection
  <2> HIDE DEF f, copies
  <2> QED
    BY <2>1, <2>2, FS_Surjection
<1>4. PICK sent \in SUBSET copies : /\ pushes' = pushes + Cardinality(sent)
                                    /\ pushes' <= MaxPushes
                                    /\ wire' = rest \cup sent
  BY DEF FanOut
<1> HIDE DEF copies
<1>5. Cardinality(sent) \in Nat
  BY <1>3, FS_Subset, FS_CardinalityType
<1>6. pushes \in Nat /\ MaxPushes \in Nat
  BY MeshAssumption DEF TypeOK
<1>7. pushes' \in Nat
  BY <1>4, <1>5, <1>6
<1> QED
  BY <1>2, <1>4, <1>6, <1>7

\* What a step does to the pushes on their way.
LEMMA WireType ==
    ASSUME TypeInv, [Next]_vars
    PROVE  wire' \subseteq Push /\ pushes' \in 0 .. MaxPushes
<1> DEFINE Typed == wire' \subseteq Push /\ pushes' \in 0 .. MaxPushes
<1>1. CASE wire' \subseteq wire /\ UNCHANGED pushes
  BY <1>1 DEF TypeInv, TypeOK
<1>2. ASSUME NEW n \in Node, NEW t \in Thread, Handle(n, t) PROVE Typed
  <2>1. CASE QuotaFilter(n, t) \/ Look(n, t) \/ Resolve(n, t)
    BY <1>1, <2>1 DEF QuotaFilter, Look, Resolve
  <2>2. CASE Insert(n, t)
    <3> DEFINE s == task[n][t].sig
    <3>1. s \in Sig /\ Addr[s] \in Address
      BY <2>2, TaskFields DEF Insert, TypeInv
    <3>2. Owner(s) \in Key /\ wire \in SUBSET Push /\ "messages" \in Table
      BY <3>1 DEF Owner, Address, Table, TypeInv, TypeOK
    <3>3. FanOut(n, "messages", s, Owner(s), wire) \/ UNCHANGED <<wire, pushes>>
      BY <2>2 DEF Insert
    <3> HIDE DEF s
    <3> QED
      BY <1>1, <3>1, <3>2, <3>3, FanOutType DEF TypeInv
  <2> QED
    BY <1>2, <2>1, <2>2 DEF Handle
<1>3. ASSUME NEW n \in Node, NEW s \in Sig, NEW k \in Key, NEW rest \in SUBSET wire,
             TakeDelete(n, s, k, rest)
      PROVE  Typed
  <2>1. rest \in SUBSET Push /\ "deletions" \in Table
    BY DEF TypeInv, TypeOK, Table
  <2>2. FanOut(n, "deletions", s, k, rest) \/ (wire' = rest /\ UNCHANGED pushes)
    BY <1>3 DEF TakeDelete
  <2> QED
    BY <1>1, <2>1, <2>2, FanOutType DEF TypeInv
<1>4. CASE \E n \in Entry, s \in Sig : Publish(n, s)
  BY <1>1, <1>4 DEF Publish
<1>5. CASE \E n \in Entry, q \in Request : ClientDelete(n, q)
  <2>1. PICK n \in Entry, q \in Request : ClientDelete(n, q)
    BY <1>5
  <2>2. n \in Node /\ q[1] \in Sig /\ q[2] \in Key
    BY MeshAssumption
  <2>3. TakeDelete(n, q[1], q[2], wire)
    BY <2>1 DEF ClientDelete
  <2> QED
    BY <1>3, <2>2, <2>3
<1>6. CASE \E m \in wire : Deliver(m)
  <2>1. PICK m \in wire : Deliver(m)
    BY <1>6
  <2>2. m.to \in Node /\ m.sig \in Sig /\ m.key \in Key
    BY DEF TypeInv, TypeOK, Push
  <2>3. TakeDelete(m.to, m.sig, m.key, wire \ {m}) \/ (wire' = wire \ {m} /\ UNCHANGED pushes)
    BY <2>1 DEF Deliver
  <2> QED
    BY <1>1, <1>3, <2>2, <2>3
<1>7. ASSUME NEW n \in Node, AntiEntropy(n) \/ Restart(n) PROVE Typed
  <2>1. CASE \/ \E p \in Peers[n], k \in Table : StartPull(n, p, k)
             \/ OutOfBudget(n) \/ PullMessage(n) \/ PullDeletion(n) \/ EndPull(n) \/ Restart(n)
    BY <1>1, <2>1 DEF StartPull, OutOfBudget, PullMessage, PullDeletion, EndPull, Restart
  <2>2. CASE Handle(n, Loop)
    BY <1>2, <2>2, Threads
  <2> QED
    BY <1>7, <2>1, <2>2 DEF AntiEntropy
<1> QED
  BY <1>1, <1>2, <1>4, <1>5, <1>6, <1>7, Threads DEF Next, vars

LEMMA CursorSet ==
    ASSUME TypeOK, NEW n \in Node, loop[n].pull.pc = "pull",
           cursor' = [cursor EXCEPT ![n][loop[n].pull.peer][loop[n].pull.table] = loop[n].pull.max]
    PROVE  cursor' \in [Node -> [Node -> [Table -> Nat]]]
BY PullType DEF Pulling, TypeOK

\* Every kind of step.
LEMMA StepKinds ==
    ASSUME [Next]_vars
    PROVE  \/ UNCHANGED vars
           \/ \E n \in Entry, s \in Sig : Publish(n, s)
           \/ \E n \in Entry, q \in Request : ClientDelete(n, q)
           \/ \E m \in wire : Deliver(m)
           \/ \E n \in Node, t \in Thread : Handle(n, t)
           \/ \E n \in Node, p \in Node, k \in Table : StartPull(n, p, k)
           \/ \E n \in Node : \/ PullMessage(n) \/ PullDeletion(n)
                              \/ OutOfBudget(n) \/ EndPull(n) \/ Restart(n)
BY Threads, MeshAssumption DEF Next, AntiEntropy

LEMMA BoundsType ==
    ASSUME TypeOK, [Next]_vars
    PROVE  /\ cursor' \in [Node -> [Node -> [Table -> Nat]]]
           /\ requests' \in 0 .. MaxRequests
           /\ faults' \in 0 .. MaxFaults
<1> DEFINE Typed == /\ cursor' \in [Node -> [Node -> [Table -> Nat]]]
                    /\ requests' \in 0 .. MaxRequests
                    /\ faults' \in 0 .. MaxFaults
<1>types. /\ cursor \in [Node -> [Node -> [Table -> Nat]]]
          /\ requests \in 0 .. MaxRequests /\ MaxRequests \in Nat
          /\ faults \in 0 .. MaxFaults /\ MaxFaults \in Nat
  BY MeshAssumption DEF TypeOK
<1>1. CASE \/ \E n \in Node, t \in Thread : Handle(n, t)
           \/ \E m \in wire : Deliver(m)
           \/ \E n \in Node : PullMessage(n) \/ PullDeletion(n)
           \/ UNCHANGED vars
  <2>1. UNCHANGED <<cursor, requests, faults>>
    BY <1>1 DEF Handle, QuotaFilter, Look, Resolve, Insert, Deliver, PullMessage, PullDeletion, vars
  <2> QED
    BY <1>types, <2>1
<1>2. CASE \/ \E n \in Entry, s \in Sig : Publish(n, s)
           \/ \E n \in Entry, q \in Request : ClientDelete(n, q)
  <2>1. UNCHANGED <<cursor, faults>> /\ requests < MaxRequests /\ requests' = requests + 1
    BY <1>2 DEF Publish, ClientDelete
  <2> QED
    BY <1>types, <2>1
<1>3. ASSUME NEW n \in Node, NEW p \in Node, NEW k \in Table, StartPull(n, p, k) PROVE Typed
  <2>1. /\ UNCHANGED <<cursor, requests>>
        /\ UNCHANGED faults \/ (faults < MaxFaults /\ faults' = faults + 1)
    BY <1>3 DEF StartPull
  <2> QED
    BY <1>types, <2>1
<1>4. ASSUME NEW n \in Node, OutOfBudget(n) \/ EndPull(n) PROVE Typed
  <2>1. cursor' \in [Node -> [Node -> [Table -> Nat]]]
    BY <1>4, CursorSet DEF OutOfBudget, EndPull, AtLimiter
  <2>2. /\ UNCHANGED requests
        /\ UNCHANGED faults \/ (faults < MaxFaults /\ faults' = faults + 1)
    BY <1>4 DEF OutOfBudget, EndPull
  <2> QED
    BY <1>types, <2>1, <2>2
<1>5. ASSUME NEW n \in Node, Restart(n) PROVE Typed
  <2>1. /\ cursor' = [cursor EXCEPT ![n] = [p \in Node |-> [k \in Table |-> 0]]]
        /\ UNCHANGED requests /\ faults < MaxFaults /\ faults' = faults + 1
    BY <1>5 DEF Restart
  <2> QED
    BY <1>types, <2>1
<1> QED
  BY <1>1, <1>2, <1>3, <1>4, <1>5, StepKinds

LEMMA TypeStep == TypeInv /\ [Next]_vars => TypeOK'
<1> SUFFICES ASSUME TypeInv, [Next]_vars PROVE TypeOK'
  OBVIOUS
<1>1. loop' \in LoopType /\ seen' \in [Node -> [Table -> SUBSET Sig]]
  BY StepSteps, StepsType DEF TypeInv
<1>2. db' \in [Node -> Database] /\ disturbed' \subseteq Node \X Sig
  BY StepChanges, ChangesType DEF TypeInv
<1>3. TypeOK
  BY DEF TypeInv
<1> QED
  BY <1>1, <1>2, <1>3, TaskType, WireType, BoundsType DEF TypeOK, LoopType

\* What a step does to the page of n: it is kept, loses its first row, which
\* has been dealt with, or is fetched.
LEMMA PageMoves ==
    ASSUME TypeInv, [Next]_vars, NEW n \in Node, loop'[n].pull.pc = "pull"
    PROVE  \/ /\ loop[n].pull.pc = "pull"
              /\ loop'[n].pull = loop[n].pull
           \/ LET r == First(loop[n].pull.rows) IN
              /\ AtHand(n) /\ Past(n)
              /\ loop'[n].pull = [loop[n].pull EXCEPT !.rows = @ \ {r}, !.max = r.id]
              /\ r.sig \in seen'[n][loop[n].pull.table]
           \/ \E p \in Peers[n], k \in Table :
                /\ UNCHANGED <<db, seen>>
                /\ loop'[n].pull = [pc |-> "pull", peer |-> p, table |-> k,
                                    rows |-> Page(db[p], k, cursor[n][p][k]),
                                    max |-> cursor[n][p][k]]
<1>types. loop \in LoopType /\ seen \in [Node -> [Table -> SUBSET Sig]]
  BY DEF TypeInv, TypeOK, LoopType
<1>1. CASE loop'[n] = loop[n]
  BY <1>1
<1>2. CASE AtHand(n) /\ Past(n)
  <2> DEFINE r == First(loop[n].pull.rows)
  <2>1. /\ loop' = [loop EXCEPT ![n].pull.rows = @ \ {r}, ![n].pull.max = r.id]
        /\ seen' = [seen EXCEPT ![n][loop[n].pull.table] = @ \cup {r.sig}]
    BY <1>2 DEF Past
  <2>2. loop[n].pull \in Pulling
    BY <1>2, PullType DEF AtHand, TypeInv
  <2> HIDE DEF r
  <2>3. loop[n].pull.table \in Table
    BY <2>2 DEF Pulling
  <2>4. r.sig \in seen'[n][loop[n].pull.table]
    BY <1>types, <2>1, <2>3
  <2>5. loop'[n].pull = [loop[n].pull EXCEPT !.rows = @ \ {r}, !.max = r.id]
    BY <1>types, <2>1 DEF LoopType
  <2> QED
    BY <1>2, <2>4, <2>5 DEF r
<1>3. ASSUME NEW p \in Peers[n], NEW k \in Table, StartPull(n, p, k)
      PROVE  \/ loop'[n].pull = loop[n].pull
             \/ /\ UNCHANGED <<db, seen>>
                /\ loop'[n].pull = [pc |-> "pull", peer |-> p, table |-> k,
                                    rows |-> Page(db[p], k, cursor[n][p][k]),
                                    max |-> cursor[n][p][k]]
  BY <1>3, <1>types DEF StartPull, LoopType
<1>4. ASSUME Done(n) \/ Restart(n) PROVE FALSE
  BY <1>4, <1>types DEF Done, Restart, Waiting, LoopType
<1>5. ASSUME NEW i \in Node, i # n,
             \/ Past(i) \/ OutOfBudget(i) \/ EndPull(i) \/ Restart(i)
             \/ \E p \in Peers[i], k \in Table : StartPull(i, p, k)
      PROVE  loop'[n] = loop[n]
  <2>1. CASE Past(i)
    BY <1>5, <2>1, <1>types DEF Past, LoopType
  <2>2. CASE OutOfBudget(i) \/ EndPull(i) \/ Restart(i)
    BY <1>5, <2>2, <1>types DEF OutOfBudget, EndPull, Restart, Done, LoopType
  <2>3. CASE \E p \in Peers[i], k \in Table : StartPull(i, p, k)
    BY <1>5, <2>3, <1>types DEF StartPull, LoopType
  <2> QED
    BY <1>5, <2>1, <2>2, <2>3
<1>6. Steps
  BY StepSteps
<1>7. CASE UNCHANGED <<loop, seen>>
  BY <1>1, <1>7
<1>8. ASSUME NEW i \in Node, i # n,
             \/ AtHand(i) /\ Past(i)
             \/ OutOfBudget(i) \/ EndPull(i) \/ Restart(i)
             \/ \E p \in Peers[i], k \in Table : StartPull(i, p, k)
      PROVE  loop'[n] = loop[n]
  BY <1>5, <1>8
<1>9. CASE OutOfBudget(n) \/ EndPull(n) \/ Restart(n)
  BY <1>4, <1>9 DEF OutOfBudget, EndPull
<1>10. CASE \E p \in Peers[n], k \in Table : StartPull(n, p, k)
  BY <1>3, <1>10
<1> QED
  BY <1>1, <1>2, <1>6, <1>7, <1>8, <1>9, <1>10 DEF Steps

LEMMA PagesStep == TypeInv /\ [Next]_vars => PagesTyped'
<1> SUFFICES ASSUME TypeInv, [Next]_vars, NEW n \in Node,
                    loop'[n].pull.pc = "pull", loop'[n].pull.table = "deletions"
             PROVE  loop'[n].pull.rows \subseteq DeletionRow
  BY DEF PagesTyped
<1>1. CASE loop[n].pull.pc = "pull" /\ loop'[n].pull = loop[n].pull
  BY <1>1 DEF TypeInv, PagesTyped
<1>2. ASSUME NEW r, AtHand(n),
             loop'[n].pull = [loop[n].pull EXCEPT !.rows = @ \ {r}, !.max = r.id]
      PROVE  loop'[n].pull.rows \subseteq DeletionRow
  <2>1. loop[n].pull \in Pulling
    BY <1>2, PullType DEF AtHand, TypeInv
  <2>2. loop'[n].pull.rows = loop[n].pull.rows \ {r} /\ loop[n].pull.table = "deletions"
    BY <1>2, <2>1 DEF Pulling
  <2> QED
    BY <1>2, <2>2 DEF TypeInv, PagesTyped, AtHand
<1>3. ASSUME NEW p \in Peers[n], NEW k \in Table,
             loop'[n].pull = [pc |-> "pull", peer |-> p, table |-> k,
                              rows |-> Page(db[p], k, cursor[n][p][k]),
                              max |-> cursor[n][p][k]]
      PROVE  loop'[n].pull.rows \subseteq DeletionRow
  <2>1. db[p].deletions \subseteq DeletionRow
    BY MeshAssumption, DatabaseFields DEF TypeInv, TypeOK
  <2>2. k = "deletions" /\ loop'[n].pull.rows = Page(db[p], k, cursor[n][p][k])
    BY <1>3
  <2> QED
    BY <2>1, <2>2 DEF Page, Rows, ConfirmedRows
<1> QED
  BY <1>1, <1>2, <1>3, PageMoves

LEMMA TypeInit == Init => TypeInv
<1> SUFFICES ASSUME Init PROVE TypeInv
  OBVIOUS
<1>1. EmptyDb \in Database
  BY DEF EmptyDb, Database
<1>2. \A n \in Node : Round(n) \subseteq Node \X Table
  BY MeshAssumption DEF Round
<1>3. PagesTyped /\ LoopBusy
  BY Threads DEF Init, PagesTyped, LoopBusy, Waiting
<1>4. Idle \in Task
  BY DEF Task
<1> QED
  BY <1>1, <1>2, <1>3, <1>4, MeshAssumption DEF Init, TypeInv, TypeOK

LEMMA TypeInvStep == TypeInv /\ [Next]_vars => TypeInv'
BY TypeStep, PagesStep, LoopBusyStep DEF TypeInv

\* Every variable keeps its type.
THEOREM TypeCorrect == Spec => []TypeOK
<1>1. TypeInv => TypeOK
  BY DEF TypeInv
<1> QED
  BY <1>1, TypeInit, TypeInvStep, PTL DEF Spec

-----------------------------------------------------------------------------
\* Ids. A row gets an id above all ids there were, so that what was looked up,
\* fetched or passed stays the same while the tables grow.

LastId(d, k) == IF k = "messages" THEN d.lastMessage ELSE d.lastDeletion

\* The rows of a table are finite in number, and numbered up to the last id.
Numbered(d) ==
    \A k \in Table :
        /\ IsFiniteSet(Rows(d, k))
        /\ \A r \in Rows(d, k) : 0 < r.id /\ r.id <= LastId(d, k)
        /\ \A r, q \in Rows(d, k) : r.id = q.id => r = q

\* From d to e no id was used again.
Grows(d, e) ==
    \A k \in Table :
        /\ LastId(d, k) <= LastId(e, k)
        /\ \A r \in Rows(e, k) : r \in Rows(d, k) \/ LastId(d, k) < r.id

LEMMA RowIds ==
    ASSUME NEW d \in Database, NEW k \in Table
    PROVE  LastId(d, k) \in Nat /\ \A r \in Rows(d, k) : r.id \in Nat
BY DatabaseFields DEF LastId, Rows, ConfirmedRows, MessageRow, DeletionRow

\* Each table loses rows, gains one with the next id, or both.
LEMMA NumberedStep ==
    ASSUME NEW d \in Database, NEW e \in Database, Numbered(d),
           \A k \in Table :
             \/ Rows(e, k) \subseteq Rows(d, k) /\ LastId(d, k) <= LastId(e, k)
             \/ /\ LastId(e, k) = LastId(d, k) + 1
                /\ \E row : row.id = LastId(e, k) /\ Rows(e, k) \subseteq Rows(d, k) \cup {row}
    PROVE  Numbered(e) /\ Grows(d, e)
<1> SUFFICES ASSUME NEW k \in Table
             PROVE  /\ IsFiniteSet(Rows(e, k))
                    /\ \A r \in Rows(e, k) : 0 < r.id /\ r.id <= LastId(e, k)
                    /\ \A r, q \in Rows(e, k) : r.id = q.id => r = q
                    /\ LastId(d, k) <= LastId(e, k)
                    /\ \A r \in Rows(e, k) : r \in Rows(d, k) \/ LastId(d, k) < r.id
  BY DEF Numbered, Grows
<1>1. /\ IsFiniteSet(Rows(d, k))
      /\ \A r \in Rows(d, k) : 0 < r.id /\ r.id <= LastId(d, k)
      /\ \A r, q \in Rows(d, k) : r.id = q.id => r = q
  BY DEF Numbered
<1>2. /\ LastId(d, k) \in Nat /\ \A r \in Rows(d, k) : r.id \in Nat
      /\ LastId(e, k) \in Nat /\ \A r \in Rows(e, k) : r.id \in Nat
  BY RowIds
<1>3. CASE Rows(e, k) \subseteq Rows(d, k) /\ LastId(d, k) <= LastId(e, k)
  <2>1. IsFiniteSet(Rows(e, k))
    BY <1>1, <1>3, FS_Subset
  <2> QED
    BY <1>1, <1>2, <1>3, <2>1
<1>4. ASSUME LastId(e, k) = LastId(d, k) + 1, NEW row, row.id = LastId(e, k),
             Rows(e, k) \subseteq Rows(d, k) \cup {row}
      PROVE  /\ IsFiniteSet(Rows(e, k))
             /\ \A r \in Rows(e, k) : 0 < r.id /\ r.id <= LastId(e, k)
             /\ \A r, q \in Rows(e, k) : r.id = q.id => r = q
             /\ \A r \in Rows(e, k) : r \in Rows(d, k) \/ LastId(d, k) < r.id
  <2>1. IsFiniteSet(Rows(d, k) \cup {row})
    BY <1>1, FS_AddElement
  <2>2. IsFiniteSet(Rows(e, k))
    BY <1>4, <2>1, FS_Subset
  <2>3. \A r \in Rows(e, k) : r = row \/ (r \in Rows(d, k) /\ r.id < row.id)
    BY <1>1, <1>2, <1>4
  <2> QED
    BY <1>1, <1>2, <1>4, <2>2, <2>3
<1> QED
  BY <1>2, <1>3, <1>4

LEMMA ConfirmNumbered ==
    ASSUME NEW d \in Database, Numbered(d), NEW s \in Sig, NEW k \in Key, NEW t \in Int
    PROVE  LET e == ConfirmDeletion(d, s, k, t) IN Numbered(e) /\ Grows(d, e)
<1> DEFINE e == ConfirmDeletion(d, s, k, t)
           row == NewDeletion(d, s, k, TRUE, t)
<1>1. e \in Database
  BY ConfirmDeletionType
<1>2. /\ e.messages \subseteq d.messages /\ e.lastMessage = d.lastMessage
      /\ e.deletions \subseteq d.deletions \cup {row} /\ e.lastDeletion = d.lastDeletion + 1
      /\ row.id = e.lastDeletion
  BY DEF ConfirmDeletion, ReplaceDeletion, OtherMessages, OtherDeletions, NewDeletion
<1>3. d.lastMessage \in Nat /\ d.lastDeletion \in Nat
  BY DatabaseFields
<1> HIDE DEF e, row
<1>4. Rows(e, "messages") \subseteq Rows(d, "messages")
      /\ LastId(d, "messages") <= LastId(e, "messages")
  BY <1>2, <1>3 DEF Rows, LastId
<1>5. /\ LastId(e, "deletions") = LastId(d, "deletions") + 1
      /\ row.id = LastId(e, "deletions")
      /\ Rows(e, "deletions") \subseteq Rows(d, "deletions") \cup {row}
  BY <1>2 DEF Rows, LastId, ConfirmedRows
<1>6. Numbered(e) /\ Grows(d, e)
  BY <1>1, <1>4, <1>5, NumberedStep DEF Table
<1> QED
  BY <1>6 DEF e

LEMMA RecordNumbered ==
    ASSUME NEW d \in Database, Numbered(d), NEW s \in Sig, NEW k \in Key, NEW t \in Int
    PROVE  LET e == RecordPending(d, s, k, t) IN Numbered(e) /\ Grows(d, e)
<1> DEFINE e == RecordPending(d, s, k, t)
<1>1. e \in Database
  BY RecordPendingType
<1>2. d.lastMessage \in Nat /\ d.lastDeletion \in Nat
  BY DatabaseFields
<1>3. /\ e.messages = d.messages /\ e.lastMessage = d.lastMessage
      /\ ConfirmedRows(e) \subseteq ConfirmedRows(d) /\ d.lastDeletion <= e.lastDeletion
  BY <1>2 DEF RecordPending, ReplaceDeletion, OtherDeletions, NewDeletion, ConfirmedRows
<1> HIDE DEF e
<1>4. \A table \in Table :
        Rows(e, table) \subseteq Rows(d, table) /\ LastId(d, table) <= LastId(e, table)
  BY <1>2, <1>3 DEF Rows, LastId, Table
<1>5. Numbered(e) /\ Grows(d, e)
  BY <1>1, <1>4, NumberedStep
<1> QED
  BY <1>5 DEF e

LEMMA DropNumbered ==
    ASSUME NEW d \in Database, Numbered(d), NEW s \in Sig
    PROVE  Numbered(DropRequest(d, s)) /\ Grows(d, DropRequest(d, s))
<1> DEFINE e == DropRequest(d, s)
<1>1. e \in Database
  BY DropRequestType
<1>2. /\ e.messages = d.messages /\ e.lastMessage = d.lastMessage
      /\ ConfirmedRows(e) \subseteq ConfirmedRows(d) /\ e.lastDeletion = d.lastDeletion
  BY DEF DropRequest, OtherDeletions, ConfirmedRows, Database
<1>3. d.lastMessage \in Nat /\ d.lastDeletion \in Nat
  BY DatabaseFields
<1> HIDE DEF e
<1>4. \A table \in Table :
        Rows(e, table) \subseteq Rows(d, table) /\ LastId(d, table) <= LastId(e, table)
  BY <1>2, <1>3 DEF Rows, LastId, Table
<1>5. Numbered(e) /\ Grows(d, e)
  BY <1>1, <1>4, NumberedStep
<1> QED
  BY <1>5 DEF e

LEMMA InsertNumbered ==
    ASSUME NEW d \in Database, Numbered(d), NEW s \in Sig, NEW a \in Address
    PROVE  Numbered(InsertMessage(d, s, a)) /\ Grows(d, InsertMessage(d, s, a))
<1> DEFINE e == InsertMessage(d, s, a)
           row == [id |-> d.lastMessage + 1, sig |-> s, addr |-> a]
<1>1. e \in Database
  BY InsertMessageType
<1>2. /\ e.messages = d.messages \cup {row} /\ e.lastMessage = d.lastMessage + 1
      /\ e.deletions = d.deletions /\ e.lastDeletion = d.lastDeletion
      /\ row.id = d.lastMessage + 1
  BY DEF InsertMessage
<1>3. d.lastMessage \in Nat /\ d.lastDeletion \in Nat
  BY DatabaseFields
<1> HIDE DEF e, row
<1>4. /\ LastId(e, "messages") = LastId(d, "messages") + 1
      /\ row.id = LastId(e, "messages")
      /\ Rows(e, "messages") \subseteq Rows(d, "messages") \cup {row}
  BY <1>2 DEF Rows, LastId
<1>5. Rows(e, "deletions") \subseteq Rows(d, "deletions")
      /\ LastId(d, "deletions") <= LastId(e, "deletions")
  BY <1>2, <1>3 DEF Rows, LastId, ConfirmedRows
<1>6. Numbered(e) /\ Grows(d, e)
  BY <1>1, <1>4, <1>5, NumberedStep DEF Table
<1> QED
  BY <1>6 DEF e

AllNumbered == \A p \in Node : Numbered(db[p])

LEMMA AllNumberedInit == Init => AllNumbered
<1>1. \A k \in Table : Rows(EmptyDb, k) = {} /\ LastId(EmptyDb, k) = 0
  BY DEF Rows, EmptyDb, ConfirmedRows, LastId
<1> QED
  BY <1>1, FS_EmptySet DEF Init, AllNumbered, Numbered

\* Every table grows, but for a relay's that restarts without its database.
LEMMA ChangesGrow ==
    ASSUME TypeOK, AllNumbered, Changes, NEW p \in Node
    PROVE  Numbered(db'[p]) /\ (Grows(db[p], db'[p]) \/ (p \in Volatile /\ Restart(p)))
<1>1. db[p] \in Database /\ Numbered(db[p]) /\ Grows(db[p], db[p])
  BY RowIds DEF Grows, TypeOK, AllNumbered
<1>2. ASSUME NEW n \in Node, NEW e, Numbered(e), Grows(db[n], e), db' = [db EXCEPT ![n] = e]
      PROVE  Numbered(db'[p]) /\ Grows(db[p], db'[p])
  BY <1>1, <1>2 DEF TypeOK
<1>3. CASE UNCHANGED <<db, disturbed>>
  BY <1>1, <1>3
<1>4. ASSUME NEW n \in Node, NEW s \in Sig, NEW k \in Key, NEW t \in Int,
             Confirms(n, s, k, t) \/ Records(n, s, k, t)
      PROVE  Numbered(db'[p]) /\ Grows(db[p], db'[p])
  <2>1. db[n] \in Database /\ Numbered(db[n])
    BY DEF TypeOK, AllNumbered
  <2>2. /\ Numbered(ConfirmDeletion(db[n], s, k, t)) /\ Grows(db[n], ConfirmDeletion(db[n], s, k, t))
        /\ Numbered(RecordPending(db[n], s, k, t)) /\ Grows(db[n], RecordPending(db[n], s, k, t))
    BY <2>1, ConfirmNumbered, RecordNumbered
  <2> QED
    BY <1>2, <1>4, <2>2 DEF Confirms, Records
<1>5. ASSUME NEW n \in Node, NEW t \in Thread, Drops(n, t) \/ Puts(n, t)
      PROVE  Numbered(db'[p]) /\ Grows(db[p], db'[p])
  <2> DEFINE s == task[n][t].sig
  <2>1. db[n] \in Database /\ Numbered(db[n]) /\ s \in Sig /\ Addr[s] \in Address
    BY <1>5, TaskFields DEF Drops, Puts, TypeOK, AllNumbered
  <2>2. /\ Numbered(DropRequest(db[n], s)) /\ Grows(db[n], DropRequest(db[n], s))
        /\ Numbered(InsertMessage(db[n], s, Addr[s])) /\ Grows(db[n], InsertMessage(db[n], s, Addr[s]))
    BY <2>1, DropNumbered, InsertNumbered
  <2> QED
    BY <1>2, <1>5, <2>2 DEF Drops, Puts
<1>6. ASSUME NEW n \in Volatile, Restart(n)
      PROVE  Numbered(db'[p]) /\ (Grows(db[p], db'[p]) \/ (p \in Volatile /\ Restart(p)))
  <2>1. db' = [db EXCEPT ![n] = EmptyDb]
    BY <1>6 DEF Restart
  <2>2. CASE p = n
    <3>1. db'[p] = EmptyDb
      BY <2>1, <2>2 DEF TypeOK
    <3>2. \A k \in Table : Rows(EmptyDb, k) = {} /\ LastId(EmptyDb, k) = 0
      BY DEF Rows, EmptyDb, ConfirmedRows, LastId
    <3>3. Numbered(EmptyDb)
      BY <3>2, FS_EmptySet DEF Numbered
    <3> QED
      BY <1>6, <2>2, <3>1, <3>3
  <2>3. CASE p # n
    BY <1>1, <2>1, <2>3 DEF TypeOK
  <2> QED
    BY <2>2, <2>3
<1> QED
  BY <1>3, <1>4, <1>5, <1>6 DEF Changes

-----------------------------------------------------------------------------
\* Tombstones: one row for a signature, and for the owner alone when it is
\* confirmed.

Genuine(d) == \A r \in ConfirmedRows(d) : r.requester = Owner(r.sig)

OneRequest(d) == \A r, q \in d.deletions : r.sig = q.sig => r = q

DbSound(d) == Genuine(d) /\ OneRequest(d)

LEMMA ConfirmSound ==
    ASSUME NEW d \in Database, DbSound(d), NEW s, NEW k, NEW t, k = Owner(s)
    PROVE  DbSound(ConfirmDeletion(d, s, k, t))
<1> DEFINE e == ConfirmDeletion(d, s, k, t)
           row == NewDeletion(d, s, k, TRUE, t)
<1>1. /\ e.messages = {m \in d.messages : m.sig # s}
      /\ e.deletions = {r \in d.deletions : r.sig # s} \cup {row}
  BY DEF ConfirmDeletion, ReplaceDeletion, OtherMessages, OtherDeletions, NewDeletion
<1>2. row.sig = s /\ row.requester = k /\ row.confirmed
  BY DEF NewDeletion
<1> HIDE DEF e, row
<1>3. Genuine(e)
  BY <1>1, <1>2 DEF DbSound, Genuine, ConfirmedRows
<1>4. OneRequest(e)
  BY <1>1, <1>2 DEF DbSound, OneRequest
<1> QED
  BY <1>3, <1>4 DEF DbSound, e

LEMMA RecordSound ==
    ASSUME NEW d \in Database, DbSound(d), NEW s, NEW k, NEW t
    PROVE  DbSound(RecordPending(d, s, k, t))
<1>1. CASE RequestsFor(d, s) # {}
  BY <1>1 DEF RecordPending
<1>2. CASE RequestsFor(d, s) = {}
  <2> DEFINE e == RecordPending(d, s, k, t)
             row == NewDeletion(d, s, k, FALSE, t)
  <2>1. /\ e.messages = d.messages
        /\ e.deletions = {r \in d.deletions : r.sig # s} \cup {row}
    BY <1>2 DEF RecordPending, ReplaceDeletion, OtherDeletions, NewDeletion
  <2>2. row.sig = s /\ ~row.confirmed
    BY DEF NewDeletion
  <2> HIDE DEF e, row
  <2>3. ConfirmedRows(e) \subseteq ConfirmedRows(d)
    BY <2>1, <2>2 DEF ConfirmedRows
  <2>4. Genuine(e)
    BY <2>3 DEF DbSound, Genuine
  <2>5. OneRequest(e)
    BY <2>1, <2>2 DEF DbSound, OneRequest
  <2> QED
    BY <2>4, <2>5 DEF DbSound, e
<1> QED
  BY <1>1, <1>2

\* Fewer requests, or other messages, make no difference.
LEMMA FewerSound ==
    ASSUME NEW d, DbSound(d), NEW e, e.deletions \subseteq d.deletions
    PROVE  DbSound(e)
BY DEF DbSound, Genuine, OneRequest, ConfirmedRows

\* Pages carry tombstones of owners too.
PageGenuine(n) ==
    loop[n].pull.pc = "pull" /\ loop[n].pull.table = "deletions"
      => \A r \in loop[n].pull.rows : r.requester = Owner(r.sig)

TombInv == \A n \in Node : DbSound(db[n]) /\ PageGenuine(n)

LEMMA TombInit == Init => TombInv
BY DEF Init, TombInv, DbSound, Genuine, OneRequest, EmptyDb, ConfirmedRows, PageGenuine, Waiting

LEMMA TombDbStep ==
    ASSUME TypeOK, TombInv, Changes
    PROVE  \A i \in Node : DbSound(db'[i])
<1>1. ASSUME NEW n \in Node, NEW e, DbSound(e), db' = [db EXCEPT ![n] = e]
      PROVE  \A i \in Node : DbSound(db'[i])
  BY <1>1 DEF TypeOK, TombInv
<1>2. CASE UNCHANGED <<db, disturbed>>
  BY <1>2 DEF TombInv
<1>3. ASSUME NEW n \in Node, NEW s \in Sig, NEW k \in Key, NEW t \in Int,
             Confirms(n, s, k, t) \/ Records(n, s, k, t)
      PROVE  \A i \in Node : DbSound(db'[i])
  <2>1. db[n] \in Database /\ DbSound(db[n])
    BY DEF TypeOK, TombInv
  <2>2. CASE Confirms(n, s, k, t)
    <3>1. k = Owner(s)
      BY <2>2 DEF Confirms, Warranted, TombInv, PageGenuine
    <3>2. DbSound(ConfirmDeletion(db[n], s, k, t))
      BY <2>1, <3>1, ConfirmSound
    <3> QED
      BY <1>1, <2>2, <3>2 DEF Confirms
  <2>3. CASE Records(n, s, k, t)
    <3>1. DbSound(RecordPending(db[n], s, k, t))
      BY <2>1, RecordSound
    <3> QED
      BY <1>1, <2>3, <3>1 DEF Records
  <2> QED
    BY <1>3, <2>2, <2>3
<1>4. ASSUME NEW n \in Node, NEW t \in Thread, Drops(n, t) \/ Puts(n, t)
      PROVE  \A i \in Node : DbSound(db'[i])
  <2> DEFINE s == task[n][t].sig
  <2>1. db[n] \in Database /\ DbSound(db[n])
    BY DEF TypeOK, TombInv
  <2>2. /\ DropRequest(db[n], s).deletions \subseteq db[n].deletions
        /\ InsertMessage(db[n], s, Addr[s]).deletions \subseteq db[n].deletions
    BY <2>1 DEF DropRequest, OtherDeletions, InsertMessage, Database
  <2>3. DbSound(DropRequest(db[n], s)) /\ DbSound(InsertMessage(db[n], s, Addr[s]))
    BY <2>1, <2>2, FewerSound
  <2> QED
    BY <1>1, <1>4, <2>3 DEF Drops, Puts
<1>5. ASSUME NEW n \in Volatile, Restart(n) PROVE \A i \in Node : DbSound(db'[i])
  <2>1. DbSound(EmptyDb) /\ n \in Node
    BY MeshAssumption DEF DbSound, Genuine, OneRequest, EmptyDb, ConfirmedRows
  <2>2. db' = [db EXCEPT ![n] = EmptyDb]
    BY <1>5 DEF Restart
  <2> QED
    BY <1>1, <2>1, <2>2
<1> QED
  BY <1>2, <1>3, <1>4, <1>5 DEF Changes

LEMMA TombStep == TypeInv /\ TombInv /\ [Next]_vars => TombInv'
<1> SUFFICES ASSUME TypeInv, TombInv, [Next]_vars, NEW n \in Node PROVE PageGenuine(n)'
  BY StepChanges, TombDbStep DEF TombInv, TypeInv
<1> SUFFICES ASSUME loop'[n].pull.pc = "pull", loop'[n].pull.table = "deletions",
                    NEW r \in loop'[n].pull.rows
             PROVE  r.requester = Owner(r.sig)
  BY DEF PageGenuine
<1>1. CASE loop[n].pull.pc = "pull" /\ loop'[n].pull = loop[n].pull
  BY <1>1 DEF TombInv, PageGenuine
<1>2. ASSUME NEW q, AtHand(n),
             loop'[n].pull = [loop[n].pull EXCEPT !.rows = @ \ {q}, !.max = q.id]
      PROVE  r.requester = Owner(r.sig)
  <2>1. loop[n].pull \in Pulling
    BY <1>2, PullType DEF AtHand, TypeInv
  <2>2. loop'[n].pull.rows = loop[n].pull.rows \ {q} /\ loop[n].pull.table = "deletions"
    BY <1>2, <2>1 DEF Pulling
  <2> QED
    BY <1>2, <2>2 DEF TombInv, PageGenuine, AtHand
<1>3. ASSUME NEW p \in Peers[n], NEW k \in Table,
             loop'[n].pull = [pc |-> "pull", peer |-> p, table |-> k,
                              rows |-> Page(db[p], k, cursor[n][p][k]),
                              max |-> cursor[n][p][k]]
      PROVE  r.requester = Owner(r.sig)
  <2>1. k = "deletions" /\ r \in Page(db[p], k, cursor[n][p][k])
    BY <1>3
  <2>2. r \in ConfirmedRows(db[p]) /\ p \in Node
    BY <2>1, MeshAssumption DEF Page, Rows
  <2> QED
    BY <2>2 DEF TombInv, DbSound, Genuine
<1> QED
  BY <1>1, <1>2, <1>3, PageMoves

\* Every tombstone in the mesh is one its message's recipient asked for,
\* though relays take them over from each other unchecked.
THEOREM TombstonesAuthorized == Spec => []AuthorizedTombstones
<1>1. TombInv => AuthorizedTombstones
  BY DEF TombInv, DbSound, Genuine, AuthorizedTombstones
<1> QED
  BY <1>1, TypeInit, TypeInvStep, TombInit, TombStep, PTL DEF Spec

-----------------------------------------------------------------------------
\* What a thread may overlook. A tombstone of its message that is there when
\* it stores or drops was written after it looked.

Handling == {"resolve", "insert"}

AsOfInv ==
    \A n \in Node, t \in Thread : task[n][t].pc \in Handling =>
        /\ task[n][t].asOf <= db[n].lastDeletion
        /\ \A r \in ConfirmedRows(db[n]) :
             r.sig = task[n][t].sig => task[n][t].asOf < r.id

LEMMA AsOfInit == Init => AsOfInv
BY DEF Init, AsOfInv, Handling, Idle

\* So a tombstone that is there then is seen to have been overlooked.
LEMMA AsOfOverlooks ==
    ASSUME TypeOK, AsOfInv, NEW n \in Node, NEW t \in Thread, task[n][t].pc \in Handling,
           task[n][t].sig \in Confirmed(db[n])
    PROVE  Overlooked(n, t)
<1>1. PICK r \in ConfirmedRows(db[n]) : r.sig = task[n][t].sig
  BY DEF Confirmed
<1>2. task[n][t].asOf < r.id
  BY <1>1 DEF AsOfInv
<1>3. r.id \in Nat /\ task[n][t].asOf \in Nat
  BY <1>1, TaskFields, DatabaseFields DEF TypeOK, ConfirmedRows, DeletionRow, Handling
<1> QED
  BY <1>1, <1>2, <1>3 DEF Overlooked

LEMMA AsOfStep ==
    TypeInv /\ AllNumbered /\ TombInv /\ AsOfInv /\ [Next]_vars => AsOfInv'
<1> SUFFICES ASSUME TypeInv, AllNumbered, TombInv, AsOfInv, [Next]_vars,
                    NEW n \in Node, NEW t \in Thread, task'[n][t].pc \in Handling
             PROVE  /\ task'[n][t].asOf <= db'[n].lastDeletion
                    /\ \A r \in ConfirmedRows(db'[n]) :
                         r.sig = task'[n][t].sig => task'[n][t].asOf < r.id
  BY DEF AsOfInv
<1> DEFINE x == task'[n][t]
<1>types. /\ task \in [Node -> [Thread -> Task]]
          /\ db[n] \in Database /\ db[n].lastDeletion \in Nat
          /\ db'[n] \in Database /\ db'[n].lastDeletion \in Nat
  BY TypeStep, DatabaseFields DEF TypeInv, TypeOK
<1>1. ~Restart(n)
  BY <1>types DEF Restart, Idle, Handling
<1>2. Grows(db[n], db'[n])
  BY <1>1, StepChanges, ChangesGrow DEF TypeInv
<1>3. /\ db[n].lastDeletion <= db'[n].lastDeletion
      /\ \A r \in ConfirmedRows(db'[n]) : r \in ConfirmedRows(db[n]) \/ db[n].lastDeletion < r.id
  BY <1>2 DEF Grows, Table, LastId, Rows
<1>ids. \A r \in ConfirmedRows(db'[n]) : r.id \in Nat
  BY <1>types, DatabaseFields DEF ConfirmedRows, DeletionRow
<1>4. CASE /\ task[n][t].pc \in Handling
           /\ x.sig = task[n][t].sig /\ x.asOf = task[n][t].asOf
  <2>1. /\ x.asOf <= db[n].lastDeletion
        /\ \A r \in ConfirmedRows(db[n]) : r.sig = x.sig => x.asOf < r.id
    BY <1>4 DEF AsOfInv
  <2>2. x.asOf \in Nat
    BY <1>4, TaskFields DEF TypeInv, Handling
  <2> HIDE DEF x
  <2> QED
    BY <1>types, <1>3, <1>ids, <2>1, <2>2 DEF x
<1>5. CASE Looked(n, t, x)
  <2>1. \A r \in ConfirmedRows(db[n]) : r.sig # x.sig
    <3>1. OneRequest(db[n])
      BY DEF TombInv, DbSound
    <3>2. \/ RequestsFor(db[n], x.sig) = {}
          \/ \E r \in RequestsFor(db[n], x.sig) : ~r.confirmed
      BY <1>5 DEF Looked
    <3> QED
      BY <3>1, <3>2 DEF OneRequest, RequestsFor, ConfirmedRows
  <2>2. x.asOf = db[n].lastDeletion /\ db'[n] = db[n]
    BY <1>5 DEF Looked
  <2> QED
    BY <1>types, <2>1, <2>2
<1>6. CASE task'[n][t] = task[n][t]
  BY <1>4, <1>6
<1>7. ASSUME NEW i \in Node, NEW u \in Thread, NEW y, Goes(i, u, y), task'[n][t] # task[n][t]
      PROVE  \/ /\ task[n][t].pc \in Handling
                /\ x.sig = task[n][t].sig /\ x.asOf = task[n][t].asOf
             \/ Looked(n, t, x)
  <2>1. i = n /\ u = t /\ y = x
    BY <1>7, <1>types DEF Goes
  <2>2. GoesOn(n, t, x)
    BY <1>7, <2>1 DEF Goes, Idle, Handling
  <2> QED
    BY <2>2 DEF GoesOn, Handling
<1>8. ASSUME NEW i \in Node, Restart(i) PROVE task'[n][t] = task[n][t]
  BY <1>1, <1>8, <1>types DEF Restart
<1> HIDE DEF x
<1> QED
  BY <1>4, <1>5, <1>6, <1>7, <1>8, StepGoes DEF x

-----------------------------------------------------------------------------
\* Copies. What a step comes to for those who only see what is stored and what
\* is deleted: nothing; a message is deleted at one relay; one arrives there
\* that was neither stored nor deleted; or the relay overlooks a tombstone, and
\* anything may become of that one message.

SameBut(n, s) ==
    \A i \in Node, u \in Sig : <<i, u>> # <<n, s>> =>
        /\ u \in Stored(db'[i]) <=> u \in Stored(db[i])
        /\ u \in Confirmed(db'[i]) <=> u \in Confirmed(db[i])

Still ==
    /\ \A i \in Node : Stored(db'[i]) = Stored(db[i]) /\ Confirmed(db'[i]) = Confirmed(db[i])
    /\ UNCHANGED disturbed

Deleted(n, s) ==
    /\ SameBut(n, s) /\ UNCHANGED disturbed
    /\ s \notin Stored(db'[n]) /\ s \in Confirmed(db'[n])

Arrived(n, s) ==
    /\ SameBut(n, s) /\ UNCHANGED disturbed
    /\ s \notin Stored(db[n]) /\ s \notin Confirmed(db[n])
    /\ s \in Stored(db'[n]) /\ s \notin Confirmed(db'[n])

Astray(n, s) == SameBut(n, s) /\ disturbed' = disturbed \cup {<<n, s>>}

Outcome ==
    \/ Still
    \/ \E n \in Node, s \in Sig : Deleted(n, s) \/ Arrived(n, s) \/ Astray(n, s)
    \/ \E n \in Volatile : Restart(n)

LEMMA RecordEffect ==
    ASSUME NEW d, NEW s, NEW k, NEW t
    PROVE  LET e == RecordPending(d, s, k, t) IN
           Stored(e) = Stored(d) /\ Confirmed(e) = Confirmed(d)
<1>1. CASE RequestsFor(d, s) # {}
  BY <1>1 DEF RecordPending
<1>2. CASE RequestsFor(d, s) = {}
  <2> DEFINE e == RecordPending(d, s, k, t)
             row == NewDeletion(d, s, k, FALSE, t)
  <2>1. /\ e.messages = d.messages
        /\ e.deletions = {r \in d.deletions : r.sig # s} \cup {row}
        /\ row.sig = s /\ ~row.confirmed
    BY <1>2 DEF RecordPending, ReplaceDeletion, OtherDeletions, NewDeletion
  <2>2. \A r \in d.deletions : r.sig # s
    BY <1>2 DEF RequestsFor
  <2> HIDE DEF e, row
  <2>3. ConfirmedRows(e) = ConfirmedRows(d)
    BY <2>1, <2>2 DEF ConfirmedRows
  <2> QED
    BY <2>1, <2>3 DEF Stored, Confirmed, e
<1> QED
  BY <1>1, <1>2

LEMMA DropEffect ==
    ASSUME NEW d \in Database, NEW s
    PROVE  LET e == DropRequest(d, s) IN
           Stored(e) = Stored(d) /\ Confirmed(e) = Confirmed(d) \ {s}
<1> DEFINE e == DropRequest(d, s)
<1>1. e.messages = d.messages /\ e.deletions = {r \in d.deletions : r.sig # s}
  BY DEF DropRequest, OtherDeletions, Database
<1> HIDE DEF e
<1>2. Confirmed(e) = Confirmed(d) \ {s}
  BY <1>1 DEF Confirmed, ConfirmedRows
<1> QED
  BY <1>1, <1>2 DEF Stored, e

LEMMA InsertEffect ==
    ASSUME NEW d, NEW s, NEW a
    PROVE  LET e == InsertMessage(d, s, a) IN
           Stored(e) = Stored(d) \cup {s} /\ Confirmed(e) = Confirmed(d)
<1> DEFINE e == InsertMessage(d, s, a)
           row == [id |-> d.lastMessage + 1, sig |-> s, addr |-> a]
<1>1. e.messages = d.messages \cup {row} /\ e.deletions = d.deletions /\ row.sig = s
  BY DEF InsertMessage
<1> HIDE DEF e, row
<1> QED
  BY <1>1 DEF Stored, Confirmed, ConfirmedRows, e

LEMMA StepOutcome ==
    ASSUME TypeOK, AsOfInv, Changes
    PROVE  Outcome
<1>1. CASE UNCHANGED <<db, disturbed>>
  BY <1>1 DEF Outcome, Still
<1>2. ASSUME NEW n \in Node, NEW s \in Sig, NEW k \in Key, NEW t \in Int, Confirms(n, s, k, t)
      PROVE  Deleted(n, s)
  <2> DEFINE e == ConfirmDeletion(db[n], s, k, t)
  <2>1. db'[n] = e /\ \A i \in Node : i # n => db'[i] = db[i]
    BY <1>2 DEF Confirms, TypeOK
  <2>2. Stored(e) = Stored(db[n]) \ {s} /\ Confirmed(e) = Confirmed(db[n]) \cup {s}
    BY ConfirmEffect DEF TypeOK
  <2>3. UNCHANGED disturbed
    BY <1>2 DEF Confirms
  <2> HIDE DEF e
  <2> QED
    BY <2>1, <2>2, <2>3 DEF Deleted, SameBut
<1>3. ASSUME NEW n \in Node, NEW s \in Sig, NEW k \in Key, NEW t \in Int, Records(n, s, k, t)
      PROVE  Still
  <2> DEFINE e == RecordPending(db[n], s, k, t)
  <2>1. db'[n] = e /\ \A i \in Node : i # n => db'[i] = db[i]
    BY <1>3 DEF Records, TypeOK
  <2>2. Stored(e) = Stored(db[n]) /\ Confirmed(e) = Confirmed(db[n])
    BY RecordEffect
  <2>3. UNCHANGED disturbed
    BY <1>3 DEF Records
  <2> HIDE DEF e
  <2> QED
    BY <2>1, <2>2, <2>3 DEF Still
<1>4. ASSUME NEW n \in Node, NEW t \in Thread, Drops(n, t)
      PROVE  Still \/ Astray(n, task[n][t].sig)
  <2> DEFINE s == task[n][t].sig
             e == DropRequest(db[n], s)
  <2>1. db'[n] = e /\ \A i \in Node : i # n => db'[i] = db[i]
    BY <1>4 DEF Drops, TypeOK
  <2>2. Stored(e) = Stored(db[n]) /\ Confirmed(e) = Confirmed(db[n]) \ {s}
    BY DropEffect DEF TypeOK
  <2>3. \/ Overlooked(n, t) /\ disturbed' = disturbed \cup {<<n, s>>}
        \/ ~Overlooked(n, t) /\ UNCHANGED disturbed
    BY <1>4 DEF Drops, Disturb
  <2>4. ~Overlooked(n, t) => s \notin Confirmed(db[n])
    BY <1>4, AsOfOverlooks DEF Drops, Handling
  <2> HIDE DEF e, s
  <2>5. CASE Overlooked(n, t) /\ disturbed' = disturbed \cup {<<n, s>>}
    <3>1. Astray(n, s)
      BY <2>1, <2>2, <2>5 DEF Astray, SameBut
    <3> QED
      BY <3>1 DEF s
  <2>6. CASE ~Overlooked(n, t) /\ UNCHANGED disturbed
    BY <2>1, <2>2, <2>4, <2>6 DEF Still
  <2> QED
    BY <2>3, <2>5, <2>6
<1>5. ASSUME NEW n \in Node, NEW t \in Thread, Puts(n, t)
      PROVE  Arrived(n, task[n][t].sig) \/ Astray(n, task[n][t].sig)
  <2> DEFINE s == task[n][t].sig
             e == InsertMessage(db[n], s, Addr[s])
  <2>1. db'[n] = e /\ \A i \in Node : i # n => db'[i] = db[i]
    BY <1>5 DEF Puts, TypeOK
  <2>2. Stored(e) = Stored(db[n]) \cup {s} /\ Confirmed(e) = Confirmed(db[n])
    BY InsertEffect
  <2>3. \/ Overlooked(n, t) /\ disturbed' = disturbed \cup {<<n, s>>}
        \/ ~Overlooked(n, t) /\ UNCHANGED disturbed
    BY <1>5 DEF Puts, Disturb
  <2>4. ~Overlooked(n, t) => s \notin Confirmed(db[n])
    BY <1>5, AsOfOverlooks DEF Puts, Handling
  <2>5. s \notin Stored(db[n])
    BY <1>5 DEF Puts, MessageExists
  <2> HIDE DEF e, s
  <2>6. SameBut(n, s)
    BY <2>1, <2>2 DEF SameBut
  <2>7. CASE Overlooked(n, t) /\ disturbed' = disturbed \cup {<<n, s>>}
    BY <2>6, <2>7 DEF Astray, s
  <2>8. CASE ~Overlooked(n, t) /\ UNCHANGED disturbed
    <3>1. Arrived(n, s)
      BY <2>1, <2>2, <2>4, <2>5, <2>6, <2>8 DEF Arrived
    <3> QED
      BY <3>1 DEF s
  <2> QED
    BY <2>3, <2>7, <2>8
<1>6. ASSUME NEW n \in Node, NEW t \in Thread, Drops(n, t) \/ Puts(n, t)
      PROVE  task[n][t].sig \in Sig
  BY <1>6, TaskFields DEF Drops, Puts
<1> QED
  BY <1>1, <1>2, <1>3, <1>4, <1>5, <1>6 DEF Changes, Outcome

\* What was overlooked stays so.
LEMMA DisturbedKept ==
    ASSUME Outcome
    PROVE  disturbed \subseteq disturbed'
BY DEF Outcome, Still, Deleted, Arrived, Astray, Restart

LEMMA CleanStep ==
    ASSUME TypeOK, TypeOK', NoResurrection, Outcome
    PROVE  NoResurrection'
<1> SUFFICES ASSUME NEW i \in Node, NEW u \in Sig, u \in Stored(db'[i]), u \in Confirmed(db'[i])
             PROVE  <<i, u>> \in disturbed'
  BY DEF NoResurrection, Overlooks, TypeOK, Database, Stored, MessageRow
<1>1. ASSUME u \in Stored(db[i]), u \in Confirmed(db[i]) PROVE <<i, u>> \in disturbed'
  BY <1>1, DisturbedKept DEF NoResurrection, Overlooks
<1>2. CASE Still
  BY <1>1, <1>2 DEF Still
<1>3. ASSUME NEW n \in Node, NEW s \in Sig, Deleted(n, s) \/ Arrived(n, s) \/ Astray(n, s)
      PROVE  <<i, u>> \in disturbed'
  <2>1. CASE <<i, u>> # <<n, s>>
    <3>1. SameBut(n, s)
      BY <1>3 DEF Deleted, Arrived, Astray
    <3> QED
      BY <1>1, <2>1, <3>1 DEF SameBut
  <2>2. CASE <<i, u>> = <<n, s>>
    BY <1>3, <2>2 DEF Deleted, Arrived, Astray
  <2> QED
    BY <2>1, <2>2
<1>4. ASSUME NEW n \in Volatile, Restart(n) PROVE u \in Stored(db[i]) /\ u \in Confirmed(db[i])
  <2>1. db' = [db EXCEPT ![n] = EmptyDb]
    BY <1>4 DEF Restart
  <2>2. Stored(EmptyDb) = {}
    BY DEF Stored, EmptyDb
  <2> QED
    BY <2>1, <2>2 DEF TypeOK
<1> QED
  BY <1>1, <1>2, <1>3, <1>4 DEF Outcome

\* Everything the theorems below rest on.
SafeInv == TypeInv /\ AllNumbered /\ TombInv /\ AsOfInv /\ NoResurrection

LEMMA SafeInit == Init => SafeInv
<1>1. Init => NoResurrection
  BY DEF Init, NoResurrection, EmptyDb, Stored
<1> QED
  BY <1>1, TypeInit, AllNumberedInit, TombInit, AsOfInit DEF SafeInv

LEMMA SafeStep == SafeInv /\ [Next]_vars => SafeInv'
<1> SUFFICES ASSUME SafeInv, [Next]_vars PROVE SafeInv'
  OBVIOUS
<1>1. TypeInv' /\ TombInv' /\ AsOfInv'
  BY TypeInvStep, TombStep, AsOfStep DEF SafeInv
<1>2. TypeOK /\ TypeOK' /\ Changes
  BY <1>1, StepChanges DEF SafeInv, TypeInv
<1>3. AllNumbered'
  BY <1>2, ChangesGrow DEF SafeInv, AllNumbered
<1>4. Outcome
  BY <1>2, StepOutcome DEF SafeInv
<1>5. NoResurrection'
  BY <1>2, <1>4, CleanStep DEF SafeInv
<1> QED
  BY <1>1, <1>3, <1>5 DEF SafeInv

LEMMA SafeOutcome ==
    ASSUME SafeInv, [Next]_vars
    PROVE  Outcome
BY StepChanges, StepOutcome DEF SafeInv, TypeInv

\* A relay holds a message together with its tombstone only when it handled
\* the message while the tombstone was being written, whatever is pushed,
\* pulled, lost or repeated, and in whatever order.
THEOREM NothingResurrected == Spec => []NoResurrection
<1>1. SafeInv => NoResurrection
  BY DEF SafeInv
<1> QED
  BY <1>1, SafeInit, SafeStep, PTL DEF Spec

\* Only one copy changes, and is no longer as it was.
LEMMA OthersKept ==
    ASSUME NEW n \in Node, NEW s \in Sig, SameBut(n, s), disturbed \subseteq disturbed',
           disturbed' \subseteq disturbed \cup {<<n, s>>}
    PROVE  \A c \in Copy : c # <<n, s>> => View'[c] = View[c]
<1> SUFFICES ASSUME NEW c \in Copy, c # <<n, s>> PROVE View'[c] = View[c]
  OBVIOUS
<1>1. c[1] \in Node /\ c[2] \in Sig /\ c = <<c[1], c[2]>>
  BY DEF Copy
<1>2. /\ c[2] \in Stored(db'[c[1]]) <=> c[2] \in Stored(db[c[1]])
      /\ c[2] \in Confirmed(db'[c[1]]) <=> c[2] \in Confirmed(db[c[1]])
  BY <1>1 DEF SameBut
<1>3. c \in disturbed' <=> c \in disturbed
  OBVIOUS
<1> QED
  BY <1>2, <1>3 DEF View

\* What an outcome is of the mailbox of all copies.
LEMMA OutcomeMoves ==
    ASSUME TypeOK, Outcome
    PROVE  [AMailbox!Next]_View
<1>1. CASE Still
  BY <1>1 DEF Still, View, Copy
<1>2. ASSUME NEW n \in Volatile, Restart(n) PROVE View' = View
  <2>1. UNCHANGED disturbed /\ \A i \in Node \ Volatile : db'[i] = db[i]
    BY <1>2 DEF Restart, TypeOK
  <2> QED
    BY <2>1 DEF View, Copy
<1>3. ASSUME NEW n \in Node, NEW s \in Sig, Deleted(n, s) PROVE [AMailbox!Next]_View
  <2> DEFINE S == {c \in Copy : View'[c] = "gone"}
  <2>1. \A c \in Copy : c # <<n, s>> => View'[c] = View[c]
    BY <1>3, OthersKept DEF Deleted
  <2>2. <<n, s>> \in Copy =>
          View'[<<n, s>>] = IF <<n, s>> \in disturbed THEN View[<<n, s>>] ELSE "gone"
    BY <1>3 DEF Deleted, View
  <2>3. \A c \in Copy : View'[c] # "gone" => View'[c] = View[c]
    BY <2>1, <2>2
  <2>4. \A c \in S : View[c] # "adrift"
    <3>1. UNCHANGED disturbed
      BY <1>3 DEF Deleted
    <3> QED
      BY <3>1 DEF View
  <2>5. View' = [c \in Copy |-> IF c \in S THEN "gone" ELSE View[c]]
    BY <2>3 DEF View
  <2>6. AMailbox!Vanish(S)
    BY <2>4, <2>5 DEF AMailbox!Vanish
  <2> QED
    BY <2>6 DEF AMailbox!Next
<1>4. ASSUME NEW n \in Node, NEW s \in Sig, Arrived(n, s) PROVE [AMailbox!Next]_View
  <2>1. \A c \in Copy : c # <<n, s>> => View'[c] = View[c]
    BY <1>4, OthersKept DEF Arrived
  <2>2. CASE <<n, s>> \notin Copy \/ <<n, s>> \in disturbed
    <3>1. UNCHANGED disturbed
      BY <1>4 DEF Arrived
    <3>2. <<n, s>> \in Copy => View'[<<n, s>>] = View[<<n, s>>]
      BY <2>2, <3>1 DEF View
    <3> QED
      BY <2>1, <3>2 DEF View
  <2>3. CASE <<n, s>> \in Copy /\ <<n, s>> \notin disturbed
    <3>1. View[<<n, s>>] = "new" /\ View'[<<n, s>>] = "live"
      BY <1>4, <2>3 DEF Arrived, View
    <3>2. View' = [View EXCEPT ![<<n, s>>] = "live"]
      BY <2>1, <2>3, <3>1 DEF View
    <3>3. AMailbox!Arrive(<<n, s>>)
      BY <3>1, <3>2 DEF AMailbox!Arrive
    <3> QED
      BY <2>3, <3>3 DEF AMailbox!Next
  <2> QED
    BY <2>2, <2>3
<1>5. ASSUME NEW n \in Node, NEW s \in Sig, Astray(n, s) PROVE [AMailbox!Next]_View
  <2>1. \A c \in Copy : c # <<n, s>> => View'[c] = View[c]
    BY <1>5, OthersKept DEF Astray
  <2>2. CASE <<n, s>> \notin Copy
    BY <2>1, <2>2 DEF View
  <2>3. CASE <<n, s>> \in Copy
    <3>1. View'[<<n, s>>] = "adrift"
      BY <1>5, <2>3 DEF Astray, View
    <3>2. View' = [View EXCEPT ![<<n, s>>] = "adrift"]
      BY <2>1, <2>3, <3>1 DEF View
    <3>3. AMailbox!Stray(<<n, s>>)
      BY <3>2 DEF AMailbox!Stray
    <3> QED
      BY <2>3, <3>3 DEF AMailbox!Next
  <2> QED
    BY <2>2, <2>3
<1> QED
  BY <1>1, <1>2, <1>3, <1>4, <1>5 DEF Outcome

\* A message comes to each relay once and goes once, in every mesh: none is
\* brought back by a peer that has not heard of its deletion. A relay that
\* overlooks a tombstone may do with that message as it likes, and no other.
THEOREM MailboxesImplemented == Spec => ImplementsMailbox
<1>1. Init => AMailbox!Init
  BY DEF Init, View, Copy, EmptyDb, Stored, Confirmed, ConfirmedRows, AMailbox!Init
<1>2. SafeInv /\ [Next]_vars => [AMailbox!Next]_View
  BY SafeOutcome, OutcomeMoves DEF SafeInv, TypeInv
<1> QED
  BY <1>1, <1>2, SafeInit, SafeStep, PTL DEF Spec, ImplementsMailbox, AMailbox!Spec

-----------------------------------------------------------------------------
\* Cursors. With databases on disk tables only grow, and what a relay's pulls
\* have dealt with they have.
Kept ==
    /\ \A p \in Node : Grows(db[p], db'[p])
    /\ \A n \in Node, k \in Table : seen[n][k] \subseteq seen'[n][k]

LEMMA StepKept ==
    ASSUME TypeInv, AllNumbered, [Next]_vars, Volatile = {}
    PROVE  Kept
<1>1. \A p \in Node : Grows(db[p], db'[p])
  BY StepChanges, ChangesGrow DEF TypeInv
<1>2. Steps
  BY StepSteps
<1>types. seen \in [Node -> [Table -> SUBSET Sig]]
  BY DEF TypeInv, TypeOK
<1>3. CASE UNCHANGED seen
  BY <1>1, <1>3 DEF Kept
<1>4. ASSUME NEW i \in Node, AtHand(i), Past(i) PROVE Kept
  <2> DEFINE u == {First(loop[i].pull.rows).sig}
  <2>1. loop[i].pull.table \in Table
    BY <1>4, PullType DEF AtHand, TypeInv, Pulling
  <2>2. seen' = [seen EXCEPT ![i][loop[i].pull.table] = @ \cup u]
    BY <1>4 DEF Past
  <2> HIDE DEF u
  <2>3. \A n \in Node, k \in Table : seen[n][k] \subseteq seen'[n][k]
    BY <1>types, <2>1, <2>2
  <2> QED
    BY <1>1, <2>3 DEF Kept
<1>5. ASSUME NEW i \in Node,
             \/ OutOfBudget(i) \/ EndPull(i) \/ Restart(i)
             \/ \E q \in Peers[i], k \in Table : StartPull(i, q, k)
      PROVE  UNCHANGED seen
  BY <1>5 DEF OutOfBudget, EndPull, Restart, StartPull
<1> QED
  BY <1>2, <1>3, <1>4, <1>5 DEF Steps

\* n has decided about every row of p's table k up to the id c.
Decided(n, p, k, c) ==
    /\ c <= LastId(db[p], k)
    /\ \A r \in Rows(db[p], k) : r.id <= c => r.sig \in seen[n][k]

\* The same of the page n works on: what it is past is decided, and below a
\* row that is left there is nothing but decided rows and rows of the page.
PageOrdered(n) ==
    LET pull == loop[n].pull
        d == db[pull.peer]
        k == pull.table
    IN  pull.pc = "pull" =>
          /\ Decided(n, pull.peer, k, pull.max)
          /\ \A q \in pull.rows : q.id <= LastId(d, k)
          /\ \A q, r \in pull.rows : q.id = r.id => q = r
          /\ \A q \in pull.rows, r \in Rows(d, k) :
               r.id <= q.id => r \in pull.rows \/ r.sig \in seen[n][k]

CursorInv ==
    /\ AllNumbered
    /\ \A n, p \in Node, k \in Table : Decided(n, p, k, cursor[n][p][k])
    /\ \A n \in Node : PageOrdered(n)

LEMMA CursorInit == Init => CursorInv
<1> SUFFICES ASSUME Init PROVE CursorInv
  OBVIOUS
<1>1. \A p \in Node : db[p] = EmptyDb
  BY DEF Init
<1>2. \A k \in Table : Rows(EmptyDb, k) = {} /\ LastId(EmptyDb, k) = 0
  BY DEF Rows, EmptyDb, ConfirmedRows, LastId
<1>3. \A n, p \in Node, k \in Table : Decided(n, p, k, cursor[n][p][k])
  BY <1>1, <1>2 DEF Init, Decided
<1>4. \A n \in Node : PageOrdered(n)
  BY DEF Init, PageOrdered, Waiting
<1> QED
  BY <1>3, <1>4, AllNumberedInit DEF CursorInv

\* What is decided stays so.
LEMMA DecidedKept ==
    ASSUME TypeOK, TypeOK', Kept, NEW n \in Node, NEW p \in Node, NEW k \in Table, NEW c \in Nat,
           Decided(n, p, k, c)
    PROVE  /\ c <= LastId(db'[p], k)
           /\ \A r \in Rows(db'[p], k) : r.id <= c => r.sig \in seen'[n][k]
<1>1. /\ LastId(db[p], k) \in Nat /\ LastId(db'[p], k) \in Nat
      /\ \A r \in Rows(db'[p], k) : r.id \in Nat
  BY RowIds DEF TypeOK
<1>2. Grows(db[p], db'[p]) /\ seen[n][k] \subseteq seen'[n][k]
  BY DEF Kept
<1> QED
  BY <1>1, <1>2 DEF Decided, Grows

\* A page that is kept, or loses its first row to a decision, stays ordered.
LEMMA PageKept ==
    ASSUME TypeOK, TypeOK', Kept, NEW n \in Node, PageOrdered(n),
           loop[n].pull.pc = "pull",
           loop'[n].pull.pc = "pull",
           loop'[n].pull.peer = loop[n].pull.peer, loop'[n].pull.table = loop[n].pull.table,
           \/ loop'[n].pull.rows = loop[n].pull.rows /\ loop'[n].pull.max = loop[n].pull.max
           \/ LET r == First(loop[n].pull.rows) IN
                /\ loop[n].pull.rows # {}
                /\ loop'[n].pull.rows = loop[n].pull.rows \ {r}
                /\ loop'[n].pull.max = r.id
                /\ r.sig \in seen'[n][loop[n].pull.table]
    PROVE  PageOrdered(n)'
<1> DEFINE p == loop[n].pull.peer
           k == loop[n].pull.table
           rows == loop[n].pull.rows
           max == loop[n].pull.max
<1>1. p \in Node /\ k \in Table /\ max \in Nat /\ rows \subseteq RowType
  BY PullType DEF Pulling
<1>2. /\ Decided(n, p, k, max)
      /\ \A q \in rows : q.id <= LastId(db[p], k)
      /\ \A q, r \in rows : q.id = r.id => q = r
      /\ \A q \in rows, r \in Rows(db[p], k) : r.id <= q.id => r \in rows \/ r.sig \in seen[n][k]
  BY DEF PageOrdered
<1>3. /\ LastId(db[p], k) \in Nat /\ LastId(db'[p], k) \in Nat
      /\ \A r \in Rows(db'[p], k) : r.id \in Nat
      /\ \A r \in rows : r.id \in Nat
  BY <1>1, RowIds DEF TypeOK, RowType, MessageRow, DeletionRow
<1>4. Grows(db[p], db'[p]) /\ seen[n][k] \subseteq seen'[n][k]
  BY <1>1 DEF Kept
<1>5. rows # {} => First(rows) \in rows /\ \A q \in rows : First(rows).id <= q.id
  BY <1>3, FirstRow
<1> HIDE DEF p, k, rows, max
\* The peer's table has no other rows than it had, as far up as the page goes.
<1>6. /\ LastId(db[p], k) <= LastId(db'[p], k)
      /\ \A q \in rows, r \in Rows(db'[p], k) : r.id <= q.id => r \in Rows(db[p], k)
  BY <1>1, <1>2, <1>3, <1>4 DEF Grows
<1>7. /\ \A q \in rows : q.id <= LastId(db'[p], k)
      /\ \A q \in rows, r \in Rows(db'[p], k) : r.id <= q.id => r \in rows \/ r.sig \in seen'[n][k]
  BY <1>2, <1>3, <1>4, <1>6
<1>8. /\ max <= LastId(db'[p], k)
      /\ \A r \in Rows(db'[p], k) : r.id <= max => r.sig \in seen'[n][k]
  BY <1>1, <1>2, DecidedKept
<1>9. CASE loop'[n].pull.rows = rows /\ loop'[n].pull.max = max
  BY <1>2, <1>7, <1>8, <1>9 DEF PageOrdered, Decided, p, k
<1>10. CASE /\ rows # {} /\ loop'[n].pull.rows = rows \ {First(rows)}
            /\ loop'[n].pull.max = First(rows).id /\ First(rows).sig \in seen'[n][k]
  <2> DEFINE f == First(rows)
  <2>1. f \in rows /\ \A q \in rows : f.id <= q.id
    BY <1>5, <1>10
  <2>2. f.sig \in seen'[n][k] /\ loop'[n].pull.rows = rows \ {f} /\ loop'[n].pull.max = f.id
    BY <1>10
  <2> HIDE DEF f
  <2>3. ASSUME NEW r \in Rows(db'[p], k), r.id <= f.id PROVE r.sig \in seen'[n][k]
    <3>1. r \in rows \/ r.sig \in seen'[n][k]
      BY <1>7, <2>1, <2>3
    <3>2. ASSUME r \in rows PROVE r = f
      BY <1>2, <1>3, <2>1, <2>3, <3>2
    <3> QED
      BY <2>2, <3>1, <3>2
  <2>4. \A q \in rows \ {f}, r \in Rows(db'[p], k) :
          r.id <= q.id => r \in rows \ {f} \/ r.sig \in seen'[n][k]
    BY <1>7, <2>2
  <2>5. f.id <= LastId(db'[p], k)
    BY <1>7, <2>1
  <2> QED
    BY <1>2, <1>7, <2>2, <2>3, <2>4, <2>5 DEF PageOrdered, Decided, p, k
<1> QED
  BY <1>9, <1>10 DEF p, k, rows, max

\* A page takes the lowest rows behind the cursor and leaves none of them out.
LEMMA PageDownward ==
    ASSUME NEW d \in Database, NEW k \in Table, IsFiniteSet(Rows(d, k)), NEW since \in Nat,
           NEW q \in Page(d, k, since), NEW r \in Rows(d, k), r.id <= q.id, since < r.id
    PROVE  r \in Page(d, k, since)
<1> DEFINE rows == {x \in Rows(d, k) : x.id > since}
           upTo(x) == {y \in rows : y.id <= x.id}
<1>1. q \in rows /\ Cardinality(upTo(q)) <= PageLimit
  BY DEF Page
<1>2. r \in rows
  BY RowIds
<1>3. \A x \in rows : x.id \in Nat
  BY RowIds
<1>4. upTo(r) \subseteq upTo(q)
  BY <1>1, <1>2, <1>3
<1>5. IsFiniteSet(upTo(q))
  BY FS_Subset
<1>6. /\ Cardinality(upTo(r)) \in Nat /\ Cardinality(upTo(q)) \in Nat
      /\ Cardinality(upTo(r)) <= Cardinality(upTo(q))
  BY <1>4, <1>5, FS_Subset, FS_CardinalityType
<1>7. Cardinality(upTo(r)) <= PageLimit
  BY <1>1, <1>6, MeshAssumption
<1> QED
  BY <1>2, <1>7 DEF Page

LEMMA PageFetched ==
    ASSUME TypeOK, CursorInv, UNCHANGED <<db, seen>>, NEW n \in Node, NEW p \in Node,
           NEW k \in Table, loop'[n].pull.peer = p, loop'[n].pull.table = k,
           loop'[n].pull.rows = Page(db[p], k, cursor[n][p][k]),
           loop'[n].pull.max = cursor[n][p][k]
    PROVE  PageOrdered(n)'
<1> DEFINE c == cursor[n][p][k]
           page == Page(db[p], k, c)
<1>1. db[p] \in Database /\ c \in Nat /\ Numbered(db[p]) /\ Decided(n, p, k, c)
  BY DEF TypeOK, CursorInv, AllNumbered
<1>2. page \subseteq Rows(db[p], k)
  BY DEF Page
<1>3. /\ IsFiniteSet(Rows(db[p], k))
      /\ \A r \in Rows(db[p], k) : r.id <= LastId(db[p], k)
      /\ \A r, q \in Rows(db[p], k) : r.id = q.id => r = q
  BY <1>1 DEF Numbered
<1>4. ASSUME NEW q \in page, NEW r \in Rows(db[p], k), r.id <= q.id
      PROVE  r \in page \/ r.sig \in seen[n][k]
  <2>1. CASE r.id <= c
    BY <1>1, <2>1 DEF Decided
  <2>2. CASE c < r.id
    BY <1>1, <1>3, <1>4, <2>2, PageDownward
  <2>3. r.id \in Nat
    BY <1>1, RowIds
  <2> QED
    BY <1>1, <2>1, <2>2, <2>3
<1> HIDE DEF page
<1>5. /\ \A q \in page : q.id <= LastId(db[p], k)
      /\ \A q, r \in page : q.id = r.id => q = r
  BY <1>2, <1>3
<1>6. loop'[n].pull.rows = page
  BY DEF page
<1> QED
  BY <1>1, <1>4, <1>5, <1>6 DEF PageOrdered, Decided

\* What a step does to a cursor: nothing, forget it, or bring it to where the
\* page has been dealt with.
LEMMA CursorMoves ==
    ASSUME TypeOK, [Next]_vars, NEW n \in Node, NEW p \in Node, NEW k \in Table
    PROVE  \/ cursor'[n][p][k] = cursor[n][p][k]
           \/ cursor'[n][p][k] = 0
           \/ /\ loop[n].pull.pc = "pull" /\ loop[n].pull.peer = p /\ loop[n].pull.table = k
              /\ cursor'[n][p][k] = loop[n].pull.max
<1>1. CASE UNCHANGED cursor
  BY <1>1
<1>2. ASSUME NEW i \in Node, OutOfBudget(i) \/ EndPull(i)
      PROVE  \/ cursor'[n][p][k] = cursor[n][p][k]
             \/ /\ loop[n].pull.pc = "pull" /\ loop[n].pull.peer = p /\ loop[n].pull.table = k
                /\ cursor'[n][p][k] = loop[n].pull.max
  <2>1. loop[i].pull.pc = "pull"
        /\ cursor' = [cursor EXCEPT ![i][loop[i].pull.peer][loop[i].pull.table] = loop[i].pull.max]
    BY <1>2 DEF OutOfBudget, EndPull, AtLimiter
  <2>2. loop[i].pull.peer \in Node /\ loop[i].pull.table \in Table
    BY <2>1, PullType DEF Pulling
  <2> QED
    BY <2>1, <2>2 DEF TypeOK
<1>3. ASSUME NEW i \in Node, Restart(i)
      PROVE  cursor'[n][p][k] = cursor[n][p][k] \/ cursor'[n][p][k] = 0
  BY <1>3 DEF Restart, TypeOK
<1>4. ASSUME \/ \E i \in Entry, s \in Sig : Publish(i, s)
             \/ \E i \in Entry, q \in Request : ClientDelete(i, q)
             \/ \E m \in wire : Deliver(m)
             \/ \E i \in Node, t \in Thread : Handle(i, t)
             \/ \E i \in Node, q \in Node, l \in Table : StartPull(i, q, l)
             \/ \E i \in Node : PullMessage(i) \/ PullDeletion(i)
             \/ UNCHANGED vars
      PROVE  UNCHANGED cursor
  BY <1>4 DEF Publish, ClientDelete, Deliver, Handle, QuotaFilter, Look, Resolve, Insert, StartPull,
     PullMessage, PullDeletion, vars
<1> QED
  BY <1>1, <1>2, <1>3, <1>4, StepKinds

LEMMA CursorStep ==
    ASSUME Volatile = {}
    PROVE  TypeInv /\ CursorInv /\ [Next]_vars => CursorInv'
<1> SUFFICES ASSUME TypeInv, CursorInv, [Next]_vars PROVE CursorInv'
  OBVIOUS
<1>1. Kept /\ TypeOK /\ TypeOK'
  BY StepKept, TypeInvStep DEF CursorInv, TypeInv
<1>2. AllNumbered'
  BY <1>1, StepChanges, ChangesGrow DEF CursorInv, AllNumbered
<1>3. ASSUME NEW n \in Node, NEW p \in Node, NEW k \in Table
      PROVE  Decided(n, p, k, cursor[n][p][k])'
  <2> DEFINE c == cursor'[n][p][k]
  <2>1. CASE c = cursor[n][p][k]
    <3>1. c \in Nat /\ Decided(n, p, k, cursor[n][p][k])
      BY <1>1, <2>1 DEF CursorInv, TypeOK
    <3> QED
      BY <1>1, <2>1, <3>1, DecidedKept DEF Decided
  <2>2. CASE c = 0
    <3>1. /\ LastId(db'[p], k) \in Nat /\ \A r \in Rows(db'[p], k) : r.id \in Nat
          /\ \A r \in Rows(db'[p], k) : 0 < r.id
      BY <1>1, <1>2, RowIds DEF TypeOK, AllNumbered, Numbered
    <3> QED
      BY <2>2, <3>1 DEF Decided
  <2>3. CASE /\ loop[n].pull.pc = "pull" /\ loop[n].pull.peer = p /\ loop[n].pull.table = k
             /\ c = loop[n].pull.max
    <3>1. loop[n].pull.max \in Nat /\ Decided(n, p, k, loop[n].pull.max)
      BY <1>1, <2>3, PullType DEF CursorInv, PageOrdered, Pulling
    <3> QED
      BY <1>1, <2>3, <3>1, DecidedKept DEF Decided
  <2> QED
    BY <1>1, <2>1, <2>2, <2>3, CursorMoves
<1>4. ASSUME NEW n \in Node PROVE PageOrdered(n)'
  <2>1. CASE loop'[n].pull.pc # "pull"
    BY <2>1 DEF PageOrdered
  <2>2. CASE loop'[n].pull.pc = "pull"
    <3> DEFINE r == First(loop[n].pull.rows)
    <3>1. PageOrdered(n) /\ \A p \in Peers[n] : p \in Node
      BY MeshAssumption DEF CursorInv
    <3>2. CASE loop[n].pull.pc = "pull" /\ loop'[n].pull = loop[n].pull
      BY <1>1, <2>2, <3>1, <3>2, PageKept
    <3>3. CASE /\ AtHand(n)
               /\ loop'[n].pull = [loop[n].pull EXCEPT !.rows = @ \ {r}, !.max = r.id]
               /\ r.sig \in seen'[n][loop[n].pull.table]
      <4>1. loop[n].pull \in Pulling
        BY <1>1, <3>3, PullType DEF AtHand
      <4> HIDE DEF r
      <4>2. /\ loop'[n].pull.peer = loop[n].pull.peer
            /\ loop'[n].pull.table = loop[n].pull.table
            /\ loop'[n].pull.rows = loop[n].pull.rows \ {r}
            /\ loop'[n].pull.max = r.id
        BY <3>3, <4>1 DEF Pulling
      <4> QED
        BY <1>1, <2>2, <3>1, <3>3, <4>2, PageKept DEF AtHand, r
    <3>4. ASSUME NEW p \in Peers[n], NEW k \in Table, UNCHANGED <<db, seen>>,
                 loop'[n].pull = [pc |-> "pull", peer |-> p, table |-> k,
                                  rows |-> Page(db[p], k, cursor[n][p][k]),
                                  max |-> cursor[n][p][k]]
          PROVE  PageOrdered(n)'
      <4>1. /\ loop'[n].pull.peer = p /\ loop'[n].pull.table = k
            /\ loop'[n].pull.rows = Page(db[p], k, cursor[n][p][k])
            /\ loop'[n].pull.max = cursor[n][p][k]
        BY <3>4
      <4> QED
        BY <1>1, <3>1, <3>4, <4>1, PageFetched
    <3> QED
      BY <2>2, <3>2, <3>3, <3>4, PageMoves
  <2> QED
    BY <2>1, <2>2
<1> QED
  BY <1>2, <1>3, <1>4 DEF CursorInv

\* A cursor passes no message its relay's pulls have not dealt with, if
\* databases are on disk; a relay that loses its rows starts their ids again,
\* and the cursors of its peers are past them.
THEOREM MessageCursorsSound == ASSUME Volatile = {} PROVE Spec => []MessageCursorSound
<1>1. CursorInv => MessageCursorSound
  BY MeshAssumption DEF CursorInv, Decided, MessageCursorSound, Table
<1> QED
  BY <1>1, TypeInit, TypeInvStep, CursorInit, CursorStep, PTL DEF Spec

\* And none of a tombstone, though a row gets confirmed after its id was
\* passed: resolving it gives it a new one.
THEOREM DeletionCursorsSound == ASSUME Volatile = {} PROVE Spec => []DeletionCursorSound
<1>1. CursorInv => DeletionCursorSound
  BY MeshAssumption DEF CursorInv, Decided, DeletionCursorSound, Table
<1> QED
  BY <1>1, TypeInit, TypeInvStep, CursorInit, CursorStep, PTL DEF Spec

-----------------------------------------------------------------------------
\* What was decided is there to be seen: a tombstone is one, and a message is
\* stored or deleted, where its inbox had room. Inboxes that hold everything
\* there is to send have room for what they do not hold.

Everything == {[id |-> 0, sig |-> s, addr |-> Addr[s]] : s \in Sig}

Roomy ==
    /\ IsFiniteSet(Sig)
    /\ Cardinality(Sig) < QuotaMessages
    /\ Bytes(Everything) < QuotaBytes

OneCopy(d) == \A q, r \in d.messages : q.sig = r.sig => q = r

LEMMA RoomLeft ==
    ASSUME Roomy, NEW d \in Database, OneCopy(d), NEW a
    PROVE  HasRoom(d, a)
<1> DEFINE rows == Inbox(d, a)
           name == [m \in rows |-> m.sig]
           place == [p \in Places(rows) |-> <<[id |-> 0, sig |-> p[1].sig, addr |-> Addr[p[1].sig]], p[2]>>]
<1>1. /\ \A m \in rows : m.sig \in Sig
      /\ \A q, r \in rows : q.sig = r.sig => q = r
  BY DEF OneCopy, Inbox, Database, MessageRow
<1>2. Sized(rows) /\ Sized(Everything)
  BY <1>1, DbAssumption DEF Sized, Everything
<1>3. IsFiniteSet(Everything)
  <2> DEFINE row == [s \in Sig |-> [id |-> 0, sig |-> s, addr |-> Addr[s]]]
  <2>1. row \in Surjection(Sig, Everything)
    BY DEF Everything, Surjection
  <2> QED
    BY <2>1, FS_Surjection DEF Roomy
<1>4. IsFiniteSet(rows) /\ Cardinality(rows) <= Cardinality(Sig)
  <2>1. name \in Injection(rows, Sig)
    BY <1>1 DEF Injection, IsInjective
  <2> HIDE DEF name, rows
  <2> QED
    BY <2>1, FS_Injection DEF Roomy
<1>5. Bytes(rows) <= Bytes(Everything)
  <2>1. place \in Injection(Places(rows), Places(Everything))
    <3>1. \A p \in Places(rows) : place[p] \in Places(Everything)
      BY <1>1 DEF Places, Everything
    <3>2. \A p, q \in Places(rows) : place[p] = place[q] => p = q
      BY <1>1 DEF Places
    <3> QED
      BY <3>1, <3>2 DEF Injection, IsInjective
  <2> HIDE DEF place
  <2>2. IsFiniteSet(Places(Everything))
    BY <1>2, <1>3, PlacesFinite
  <2>3. Cardinality(Places(rows)) <= Cardinality(Places(Everything))
    BY <2>1, <2>2, FS_Injection
  <2> QED
    BY <1>2, <1>3, <1>4, <2>3, BytesCount
<1>6. /\ Bytes(rows) \in Nat /\ Bytes(Everything) \in Nat
      /\ Cardinality(rows) \in Nat /\ Cardinality(Sig) \in Nat
  BY <1>2, <1>3, <1>4, BytesMonotone, FS_CardinalityType DEF Roomy
<1> QED
  BY <1>4, <1>5, <1>6, DbAssumption DEF Roomy, HasRoom

\* A signature is stored once.
OneCopyInv == \A n \in Node : OneCopy(db[n])

LEMMA OneCopyInit == Init => OneCopyInv
BY DEF Init, OneCopyInv, OneCopy, EmptyDb

LEMMA OneCopyStep ==
    ASSUME TypeOK, OneCopyInv, Changes
    PROVE  OneCopyInv'
<1>1. ASSUME NEW n \in Node, NEW e, OneCopy(e), db' = [db EXCEPT ![n] = e]
      PROVE  OneCopyInv'
  BY <1>1 DEF TypeOK, OneCopyInv
<1>2. ASSUME NEW n \in Node, NEW e, e.messages \subseteq db[n].messages
      PROVE  OneCopy(e)
  BY <1>2 DEF OneCopyInv, OneCopy
<1>3. CASE UNCHANGED <<db, disturbed>>
  BY <1>3 DEF OneCopyInv
<1>4. ASSUME NEW n \in Node, NEW s \in Sig, NEW k \in Key, NEW t \in Int,
             Confirms(n, s, k, t) \/ Records(n, s, k, t)
      PROVE  OneCopyInv'
  <2>1. /\ ConfirmDeletion(db[n], s, k, t).messages \subseteq db[n].messages
        /\ RecordPending(db[n], s, k, t).messages \subseteq db[n].messages
    BY DEF ConfirmDeletion, RecordPending, ReplaceDeletion, OtherMessages
  <2>2. OneCopy(ConfirmDeletion(db[n], s, k, t)) /\ OneCopy(RecordPending(db[n], s, k, t))
    BY <1>2, <2>1
  <2> QED
    BY <1>1, <1>4, <2>2 DEF Confirms, Records
<1>5. ASSUME NEW n \in Node, NEW t \in Thread, Drops(n, t)
      PROVE  OneCopyInv'
  <2>1. DropRequest(db[n], task[n][t].sig).messages \subseteq db[n].messages
    BY DEF DropRequest, TypeOK, Database
  <2>2. OneCopy(DropRequest(db[n], task[n][t].sig))
    BY <1>2, <2>1
  <2> QED
    BY <1>1, <1>5, <2>2 DEF Drops
<1>6. ASSUME NEW n \in Node, NEW t \in Thread, Puts(n, t)
      PROVE  OneCopyInv'
  <2> DEFINE s == task[n][t].sig
             e == InsertMessage(db[n], s, Addr[s])
             row == [id |-> db[n].lastMessage + 1, sig |-> s, addr |-> Addr[s]]
  <2>1. e.messages = db[n].messages \cup {row} /\ row.sig = s
    BY DEF InsertMessage
  <2>2. \A q \in db[n].messages : q.sig # s
    BY <1>6 DEF Puts, MessageExists, Stored
  <2>3. db' = [db EXCEPT ![n] = e]
    BY <1>6 DEF Puts
  <2> HIDE DEF e, row, s
  <2>4. OneCopy(e)
    BY <2>1, <2>2 DEF OneCopyInv, OneCopy
  <2> QED
    BY <1>1, <2>3, <2>4
<1>7. ASSUME NEW n \in Volatile, Restart(n) PROVE OneCopyInv'
  <2>1. OneCopy(EmptyDb) /\ n \in Node
    BY MeshAssumption DEF OneCopy, EmptyDb
  <2>2. db' = [db EXCEPT ![n] = EmptyDb]
    BY <1>7 DEF Restart
  <2> QED
    BY <1>1, <2>1, <2>2
<1> QED
  BY <1>3, <1>4, <1>5, <1>6, <1>7 DEF Changes

\* The row that a pull goes past has been made good: a tombstone is one here,
\* a message is stored or deleted.
LEMMA PastSettles ==
    ASSUME Roomy, TypeInv, OneCopyInv, NEW n \in Node, AtHand(n), Past(n),
           PullMessage(n) \/ Handle(n, Loop) \/ PullDeletion(n)
    PROVE  LET s == First(loop[n].pull.rows).sig IN
           /\ loop[n].pull.table = "deletions" => s \in Confirmed(db'[n])
           /\ loop[n].pull.table = "messages" => s \in Stored(db'[n]) \cup Confirmed(db'[n])
<1> DEFINE r == First(loop[n].pull.rows)
           x == task[n][Loop]
<1>1. r \in loop[n].pull.rows /\ r.sig \in Sig
  BY PullRow DEF TypeInv
<1>2. ~UNCHANGED loop
  <2>1. loop' = [loop EXCEPT ![n].pull.rows = @ \ {r}, ![n].pull.max = r.id]
    BY DEF Past
  <2>2. loop[n].pull \in Pulling
    BY PullType DEF AtHand, TypeInv
  <2> HIDE DEF r
  <2>3. loop'[n].pull.rows = loop[n].pull.rows \ {r}
    BY <2>1, <2>2 DEF TypeInv, TypeOK, Pulling
  <2> QED
    BY <1>1, <2>3
<1>types. db[n] \in Database /\ OneCopy(db[n]) /\ \A a : HasRoom(db[n], a)
  BY RoomLeft DEF TypeInv, TypeOK, OneCopyInv
<1>3. CASE PullDeletion(n)
  <2>1. loop[n].pull.table = "deletions" /\ r \in DeletionRow
    BY <1>1, <1>3 DEF PullDeletion, TypeInv, PagesTyped
  <2>2. db' = IF r.sig \in Confirmed(db[n]) THEN db
              ELSE [db EXCEPT ![n] = ConfirmDeletion(@, r.sig, r.requester, r.at)]
    BY <1>3 DEF PullDeletion
  <2>3. r.sig \in Sig /\ r.requester \in Key /\ r.at \in Int
    BY <2>1 DEF DeletionRow
  <2> HIDE DEF r
  <2>4. CASE r.sig \in Confirmed(db[n])
    BY <2>1, <2>2, <2>4 DEF r
  <2>5. CASE r.sig \notin Confirmed(db[n])
    <3>1. db'[n] = ConfirmDeletion(db[n], r.sig, r.requester, r.at)
      BY <2>2, <2>5 DEF TypeInv, TypeOK
    <3>2. r.sig \in Confirmed(db'[n])
      BY <1>types, <2>3, <3>1, ConfirmEffect
    <3> QED
      BY <2>1, <3>2 DEF r
  <2> QED
    BY <2>4, <2>5
<1>4. CASE PullMessage(n)
  <2>1. loop[n].pull.table = "messages" /\ Arrive(n, Loop, r.sig) /\ UNCHANGED db
    BY <1>4 DEF PullMessage
  <2>2. MessageExists(db[n], r.sig)
    BY <1>2, <2>1 DEF Arrive, GoOn
  <2> QED
    BY <2>1, <2>2 DEF MessageExists
<1>5. CASE Handle(n, Loop)
  <2>1. x # Idle
    BY <1>5 DEF Handle, QuotaFilter, Look, Resolve, Insert, Idle
  <2>2. loop[n].pull.table = "messages" /\ r.sig = x.sig
    BY <2>1 DEF TypeInv, LoopBusy
  <2>3. CASE QuotaFilter(n, Loop)
    BY <1>2, <1>types, <2>3 DEF QuotaFilter, GoOn
  <2>4. CASE Look(n, Loop)
    <3>1. \E q \in RequestsFor(db[n], x.sig) : q.confirmed
      BY <1>2, <2>4 DEF Look, GoOn
    <3>2. x.sig \in Confirmed(db[n]) /\ db' = db
      BY <2>4, <3>1 DEF Look, RequestsFor, Confirmed, ConfirmedRows
    <3> QED
      BY <2>2, <3>2
  <2>5. CASE Resolve(n, Loop)
    <3>1. x.sig \in Sig /\ x.key \in Key
      BY <2>5, TaskFields, Threads DEF Resolve, TypeInv
    <3>2. db' = [db EXCEPT ![n] = ConfirmDeletion(@, x.sig, x.key, 0)]
      BY <1>2, <2>5 DEF Resolve, GoOn
    <3>3. db'[n] = ConfirmDeletion(db[n], x.sig, x.key, 0)
      BY <3>2 DEF TypeInv, TypeOK
    <3>4. x.sig \in Confirmed(db'[n])
      BY <1>types, <3>1, <3>3, ConfirmEffect
    <3> QED
      BY <2>2, <3>4
  <2>6. CASE Insert(n, Loop)
    <3>1. CASE MessageExists(db[n], x.sig)
      BY <2>2, <2>6, <3>1 DEF Insert, MessageExists
    <3>2. CASE ~MessageExists(db[n], x.sig)
      <4>1. db' = [db EXCEPT ![n] = InsertMessage(@, x.sig, Addr[x.sig])]
        BY <1>types, <2>6, <3>2 DEF Insert
      <4>2. db'[n] = InsertMessage(db[n], x.sig, Addr[x.sig])
        BY <4>1 DEF TypeInv, TypeOK
      <4> QED
        BY <2>2, <4>2, InsertEffect
    <3> QED
      BY <3>1, <3>2
  <2> QED
    BY <1>5, <2>3, <2>4, <2>5, <2>6 DEF Handle
<1> QED
  BY <1>3, <1>4, <1>5

\* What n knows of the deletions, and of the messages, that its pulls have
\* gone past.
Settled(n) ==
    /\ seen[n]["deletions"] \subseteq Confirmed(db[n]) \cup Overlooks(n)
    /\ seen[n]["messages"] \subseteq Stored(db[n]) \cup Confirmed(db[n]) \cup Overlooks(n)

SettledInv == OneCopyInv /\ \A n \in Node : Settled(n)

LEMMA SettledInit == Init => SettledInv
BY OneCopyInit DEF Init, SettledInv, Settled, Table

\* It is not forgotten.
LEMMA OutcomeHolds ==
    ASSUME Volatile = {}, Outcome, NEW i \in Node, NEW u \in Sig
    PROVE  /\ u \in Confirmed(db[i]) \cup Overlooks(i)
                => u \in Confirmed(db'[i]) \/ <<i, u>> \in disturbed'
           /\ u \in Stored(db[i]) \cup Confirmed(db[i]) \cup Overlooks(i)
                => u \in Stored(db'[i]) \cup Confirmed(db'[i]) \/ <<i, u>> \in disturbed'
<1>1. <<i, u>> \in disturbed => <<i, u>> \in disturbed'
  BY DisturbedKept
<1>2. CASE Still
  BY <1>1, <1>2 DEF Still, Overlooks
<1>3. ASSUME NEW n \in Node, NEW s \in Sig, Deleted(n, s) \/ Arrived(n, s) \/ Astray(n, s)
      PROVE  /\ u \in Confirmed(db[i]) \cup Overlooks(i)
                  => u \in Confirmed(db'[i]) \/ <<i, u>> \in disturbed'
             /\ u \in Stored(db[i]) \cup Confirmed(db[i]) \cup Overlooks(i)
                  => u \in Stored(db'[i]) \cup Confirmed(db'[i]) \/ <<i, u>> \in disturbed'
  <2>1. CASE <<i, u>> # <<n, s>>
    <3>1. SameBut(n, s)
      BY <1>3 DEF Deleted, Arrived, Astray
    <3> QED
      BY <1>1, <2>1, <3>1 DEF SameBut, Overlooks
  <2>2. CASE <<i, u>> = <<n, s>>
    BY <1>1, <1>3, <2>2 DEF Deleted, Arrived, Astray, Overlooks
  <2> QED
    BY <2>1, <2>2
<1> QED
  BY <1>2, <1>3 DEF Outcome

LEMMA SettledStep ==
    ASSUME Roomy, Volatile = {}
    PROVE  SafeInv /\ SettledInv /\ [Next]_vars => SettledInv'
<1> SUFFICES ASSUME SafeInv, SettledInv, [Next]_vars PROVE SettledInv'
  OBVIOUS
<1>1. TypeInv /\ TypeOK /\ TypeOK' /\ Outcome /\ Steps /\ Changes
  BY SafeStep, SafeOutcome, StepSteps, StepChanges DEF SafeInv, TypeInv
<1>2. OneCopyInv'
  BY <1>1, OneCopyStep DEF SettledInv
<1>types. seen \in [Node -> [Table -> SUBSET Sig]] /\ Table = {"messages", "deletions"}
  BY <1>1 DEF TypeOK, Table
<1>3. ASSUME NEW n \in Node, seen'[n] = seen[n]
      PROVE  Settled(n)'
  BY <1>1, <1>3, <1>types, OutcomeHolds DEF SettledInv, Settled, Overlooks
<1>4. CASE UNCHANGED seen
  BY <1>2, <1>3, <1>4 DEF SettledInv
<1>5. ASSUME NEW n \in Node, AtHand(n), Past(n),
             PullMessage(n) \/ Handle(n, Loop) \/ PullDeletion(n)
      PROVE  SettledInv'
  <2> DEFINE s == First(loop[n].pull.rows).sig
             k == loop[n].pull.table
  <2>1. k \in Table
    BY <1>1, <1>5, PullType DEF AtHand, Pulling
  <2>2. seen' = [seen EXCEPT ![n][k] = @ \cup {s}]
    BY <1>5 DEF Past
  <2>3. /\ k = "deletions" => s \in Confirmed(db'[n])
        /\ k = "messages" => s \in Stored(db'[n]) \cup Confirmed(db'[n])
    BY <1>1, <1>5, PastSettles DEF SettledInv
  <2> HIDE DEF s, k
  <2>4. \A i \in Node : i # n => seen'[i] = seen[i]
    BY <1>types, <2>2
  <2>5. /\ seen'[n]["deletions"] \subseteq
             seen[n]["deletions"] \cup (IF k = "deletions" THEN {s} ELSE {})
        /\ seen'[n]["messages"] \subseteq
             seen[n]["messages"] \cup (IF k = "messages" THEN {s} ELSE {})
    BY <1>types, <2>1, <2>2
  <2>6. \A l \in Table : seen[n][l] \subseteq Sig
    BY <1>types
  <2>7. Settled(n)'
    BY <1>1, <1>types, <2>3, <2>5, <2>6, OutcomeHolds DEF SettledInv, Settled, Overlooks
  <2> QED
    BY <1>2, <1>3, <2>4, <2>7 DEF SettledInv
<1>6. ASSUME NEW n \in Node,
             \/ OutOfBudget(n) \/ EndPull(n) \/ Restart(n)
             \/ \E p \in Peers[n], k \in Table : StartPull(n, p, k)
      PROVE  UNCHANGED seen
  BY <1>6 DEF OutOfBudget, EndPull, Restart, StartPull
<1> QED
  BY <1>1, <1>4, <1>5, <1>6 DEF Steps

\* A relay that has paged to the end of a peer's tables holds the peer's
\* tombstones and messages, or has them deleted, whatever was lost, cut short
\* or restarted on the way: what anti-entropy can still miss, it misses only
\* for lack of room, with a database, or because it handled the message while
\* its tombstone was pulled (_sync_with_peer, the cursors).
THEOREM NothingIsMissed == ASSUME Volatile = {}, Roomy PROVE Spec => []NothingMissed
<1>1. CursorInv /\ SettledInv => NothingMissed
  <2> SUFFICES ASSUME CursorInv, SettledInv, NEW n \in Node, NEW p \in Peers[n], CaughtUp(n, p)
               PROVE  /\ Confirmed(db[p]) \subseteq Confirmed(db[n]) \cup Overlooks(n)
                      /\ Stored(db[p]) \subseteq
                           Stored(db[n]) \cup Confirmed(db[n]) \cup Overlooks(n)
    BY DEF NothingMissed
  <2>1. p \in Node /\ Settled(n)
    BY MeshAssumption DEF SettledInv
  <2>2. \A k \in Table : \A r \in Rows(db[p], k) : r.sig \in seen[n][k]
    BY <2>1 DEF CursorInv, Decided, CaughtUp
  <2>3. Confirmed(db[p]) \subseteq seen[n]["deletions"]
    BY <2>2 DEF Table, Rows, Confirmed
  <2>4. Stored(db[p]) \subseteq seen[n]["messages"]
    BY <2>2 DEF Table, Rows, Stored
  <2> QED
    BY <2>1, <2>3, <2>4 DEF Settled
<1> QED
  BY <1>1, TypeInit, TypeInvStep, CursorInit, CursorStep, SafeInit, SafeStep, SettledInit,
     SettledStep, PTL DEF Spec

\* Trust is mutual, and no group of relays is cut off from the others.
Connected ==
    /\ \A n \in Node : \A p \in Peers[n] : n \in Peers[p]
    /\ \A S \in SUBSET Node : S # {} /\ S # Node => \E n \in S : \E p \in Peers[n] : p \notin S

\* In a connected mesh all relays hold the same of every message, once each has
\* caught up with its peers, but of one whose tombstone a relay has
\* overlooked: the end that anti-entropy works towards is the one it means to
\* reach, however far apart two relays are.
THEOREM AllAgreeAtRest == ASSUME Volatile = {}, Roomy, Connected PROVE Spec => []AgreeAtRest
<1>1. ASSUME NothingMissed, NoResurrection PROVE AgreeAtRest
  <2> SUFFICES ASSUME \A n \in Node : \A p \in Peers[n] : CaughtUp(n, p), NEW n \in Node,
                      NEW s \in Sig, \A q \in Node : s \notin Overlooks(q)
               PROVE  \A p \in Node : /\ s \in Stored(db[n]) <=> s \in Stored(db[p])
                                      /\ s \in Confirmed(db[n]) <=> s \in Confirmed(db[p])
    BY DEF AgreeAtRest
  <2> DEFINE Same(m, p) == /\ s \in Stored(db[m]) <=> s \in Stored(db[p])
                           /\ s \in Confirmed(db[m]) <=> s \in Confirmed(db[p])
  <2>1. ASSUME NEW m \in Node, NEW p \in Peers[m] PROVE Same(m, p)
    <3>1. p \in Node /\ m \in Peers[p]
      BY MeshAssumption DEF Connected
    <3>2. CaughtUp(m, p) /\ CaughtUp(p, m)
      BY <3>1
    <3>3. /\ s \in Confirmed(db[p]) <=> s \in Confirmed(db[m])
          /\ s \in Stored(db[p]) => s \in Stored(db[m]) \cup Confirmed(db[m])
          /\ s \in Stored(db[m]) => s \in Stored(db[p]) \cup Confirmed(db[p])
      BY <1>1, <3>1, <3>2 DEF NothingMissed
    <3>4. ~(s \in Stored(db[m]) /\ s \in Confirmed(db[m]))
          /\ ~(s \in Stored(db[p]) /\ s \in Confirmed(db[p]))
      BY <1>1, <3>1 DEF NoResurrection
    <3> QED
      BY <3>3, <3>4
  <2> DEFINE S == {p \in Node : Same(n, p)}
  <2>2. S \subseteq Node /\ n \in S
    OBVIOUS
  <2>3. ASSUME NEW m \in S, NEW p \in Peers[m] PROVE p \in S
    <3>1. m \in Node /\ p \in Node /\ Same(n, m)
      BY MeshAssumption
    <3> QED
      BY <2>1, <3>1
  <2>4. S = Node
    <3> HIDE DEF S
    <3> QED
      BY <2>2, <2>3 DEF Connected
  <2> QED
    BY <2>4
<1> QED
  BY <1>1, NothingIsMissed, NothingResurrected, PTL

=============================================================================
