---------------------------- MODULE RelayDbProofs ---------------------------
(***************************************************************************)
(* Lemmas about RelayDb, for the modules that build relays on it: every    *)
(* statement maps databases to databases, an address says whose it is, and *)
(* fewer rows weigh no more.                                               *)
(***************************************************************************)
EXTENDS RelayDb, FiniteSetTheorems, TLAPS

-----------------------------------------------------------------------------
\* The database operators map databases to databases.

LEMMA DatabaseFields ==
    ASSUME NEW d \in Database
    PROVE  /\ d.messages \subseteq MessageRow /\ d.deletions \subseteq DeletionRow
           /\ d.lastMessage \in Nat /\ d.lastDeletion \in Nat
BY DEF Database

LEMMA InsertMessageType ==
    ASSUME NEW d \in Database, NEW s \in Sig, NEW a \in Address
    PROVE  InsertMessage(d, s, a) \in Database
<1> DEFINE row == [id |-> d.lastMessage + 1, sig |-> s, addr |-> a]
<1>1. d.messages \cup {row} \subseteq MessageRow
  BY DatabaseFields DEF MessageRow
<1> QED
  BY <1>1, DatabaseFields DEF Database, InsertMessage

LEMMA ReplaceDeletionType ==
    ASSUME NEW d \in Database, NEW messages \in SUBSET MessageRow, NEW row \in DeletionRow
    PROVE  ReplaceDeletion(d, messages, row) \in Database
<1>1. OtherDeletions(d, row.sig) \cup {row} \subseteq DeletionRow
  BY DatabaseFields DEF OtherDeletions
<1> QED
  BY <1>1, DatabaseFields DEF ReplaceDeletion, Database

LEMMA NewDeletionType ==
    ASSUME NEW d \in Database, NEW s \in Sig, NEW k \in Key, NEW c \in BOOLEAN, NEW t \in Int
    PROVE  NewDeletion(d, s, k, c, t) \in DeletionRow
BY DatabaseFields DEF NewDeletion, DeletionRow

LEMMA ConfirmDeletionType ==
    ASSUME NEW d \in Database, NEW s \in Sig, NEW k \in Key, NEW t \in Int
    PROVE  ConfirmDeletion(d, s, k, t) \in Database
<1>1. OtherMessages(d, s) \subseteq MessageRow
  BY DatabaseFields DEF OtherMessages
<1> QED
  BY <1>1, NewDeletionType, ReplaceDeletionType DEF ConfirmDeletion

LEMMA RecordPendingType ==
    ASSUME NEW d \in Database, NEW s \in Sig, NEW k \in Key, NEW t \in Int
    PROVE  RecordPending(d, s, k, t) \in Database
BY DatabaseFields, NewDeletionType, ReplaceDeletionType DEF RecordPending

LEMMA DropRequestType ==
    ASSUME NEW d \in Database, NEW s \in Sig
    PROVE  DropRequest(d, s) \in Database
BY DEF DropRequest, OtherDeletions, Database

\* What a confirmed deletion does to the two tables.
LEMMA ConfirmEffect ==
    ASSUME NEW d \in Database, NEW s \in Sig, NEW k \in Key, NEW t \in Int,
           NEW e, e = ConfirmDeletion(d, s, k, t)
    PROVE  /\ Stored(e) = Stored(d) \ {s}
           /\ Confirmed(e) = Confirmed(d) \cup {s}
           /\ RequestsFor(e, s) # {}
           /\ \A u : u # s => RequestsFor(e, u) = RequestsFor(d, u)
           /\ \A r \in e.deletions :
                \/ r \in d.deletions /\ r.sig # s
                \/ r.sig = s /\ r.requester = k /\ r.at = t
           /\ \A q, r \in e.deletions : q.sig = s /\ r.sig = s => q = r
<1> DEFINE row == NewDeletion(d, s, k, TRUE, t)
<1>1. e.messages = OtherMessages(d, s) /\ e.deletions = OtherDeletions(d, s) \cup {row}
  BY DEF ConfirmDeletion, ReplaceDeletion, NewDeletion
<1>2. row.sig = s /\ row.confirmed /\ row.requester = k /\ row.at = t
  BY DEF NewDeletion
<1> HIDE DEF row
<1>3. Stored(e) = Stored(d) \ {s}
  BY <1>1 DEF Stored, OtherMessages
<1>4. Confirmed(e) = Confirmed(d) \cup {s}
  BY <1>1, <1>2 DEF Confirmed, ConfirmedRows, OtherDeletions
<1>5. RequestsFor(e, s) # {} /\ \A u : u # s => RequestsFor(e, u) = RequestsFor(d, u)
  BY <1>1, <1>2 DEF RequestsFor, OtherDeletions
<1>6. /\ \A r \in e.deletions :
           \/ r \in d.deletions /\ r.sig # s
           \/ r.sig = s /\ r.requester = k /\ r.at = t
      /\ \A q, r \in e.deletions : q.sig = s /\ r.sig = s => q = r
  BY <1>1, <1>2 DEF OtherDeletions
<1> QED
  BY <1>3, <1>4, <1>5, <1>6

\* An address that may be k's is k's.
LEMMA CandidateOfKey ==
    ASSUME NEW k, NEW t, NEW a \in CandidateRecipientIds(k, t)
    PROVE  a[1] = k
BY DEF CandidateRecipientIds, BlindRecipientId

-----------------------------------------------------------------------------
\* What an inbox weighs. Bytes is a fold, whose value is what the recursive
\* equation of the sum says whatever the order it takes the rows in: it counts
\* the pairs of a row and a place in its payload.

Sized(rows) == \A m \in rows : Size[m.sig] \in Nat

Places(rows) == {p \in rows \X Nat : p[2] \in 1 .. Size[p[1].sig]}

\* A collection of subsets of a finite set has a smallest member: what the
\* lemmas below use instead of an induction on the size of a set.
LEMMA SmallestSet ==
    ASSUME NEW S, IsFiniteSet(S), NEW C, C \subseteq SUBSET S, C # {}
    PROVE  \E T \in C : \A U \in C : U \subseteq T => U = T
<1>1. IsWellFoundedOn(StrictSubsetOrdering(S), SUBSET S)
  BY FS_StrictSubsetOrderingWellFounded, FS_FiniteSubsetsOfFinite
<1>2. PICK T \in C : \A U \in C : <<U, T>> \notin StrictSubsetOrdering(S)
  BY <1>1, WFMin
<1> QED
  BY <1>2 DEF StrictSubsetOrdering

\* The places of one row more.
LEMMA PlacesSplit ==
    ASSUME NEW T, NEW x \in T, Sized(T), IsFiniteSet(Places(T \ {x}))
    PROVE  /\ IsFiniteSet(Places(T))
           /\ Cardinality(Places(T)) = Size[x.sig] + Cardinality(Places(T \ {x}))
<1> DEFINE k == Size[x.sig]
           mine == {x} \X (1 .. k)
           rest == Places(T \ {x})
<1>1. k \in Nat
  BY DEF Sized
<1>2. IsFiniteSet(mine) /\ Cardinality(mine) = k
  <2> HIDE DEF k
  <2>1. IsFiniteSet(1 .. k) /\ Cardinality(1 .. k) = k
    <3>1. 1 \in Int /\ k \in Int
      BY <1>1
    <3>2. /\ IsFiniteSet(1 .. k)
          /\ Cardinality(1 .. k) = IF 1 > k THEN 0 ELSE k - 1 + 1
      BY <3>1, FS_Interval
    <3> QED
      BY <1>1, <3>2
  <2>2. IsFiniteSet({x}) /\ Cardinality({x}) = 1
    BY FS_Singleton
  <2>3. IsFiniteSet({x} \X (1 .. k)) /\ Cardinality({x} \X (1 .. k)) = 1 * k
    BY <2>1, <2>2, FS_Product
  <2> QED
    BY <1>1, <2>3
<1>3. Places(T) = mine \cup rest /\ mine \cap rest = {}
  BY DEF Places
<1> HIDE DEF k, mine, rest
<1>4. IsFiniteSet(rest) /\ Cardinality(rest) \in Nat
  BY FS_CardinalityType DEF rest
<1>5. /\ IsFiniteSet(mine \cup rest)
      /\ Cardinality(mine \cup rest) = Cardinality(mine) + Cardinality(rest) - Cardinality(mine \cap rest)
  BY <1>2, <1>4, FS_Union
<1>6. Cardinality(mine \cap rest) = 0
  BY <1>3, FS_EmptySet
<1> QED
  BY <1>1, <1>2, <1>3, <1>4, <1>5, <1>6 DEF k, rest

LEMMA PlacesFinite ==
    ASSUME NEW rows, IsFiniteSet(rows), Sized(rows)
    PROVE  IsFiniteSet(Places(rows)) /\ Cardinality(Places(rows)) \in Nat
<1> DEFINE C == {T \in SUBSET rows : ~IsFiniteSet(Places(T))}
<1>1. C = {}
  <2>1. SUFFICES ASSUME C # {} PROVE FALSE
    OBVIOUS
  <2>2. PICK T \in C : \A U \in C : U \subseteq T => U = T
    <3>1. C \subseteq SUBSET rows /\ C # {} /\ IsFiniteSet(rows)
      BY <2>1
    <3> HIDE DEF C
    <3> QED
      BY <3>1, SmallestSet
  <2>3. T # {}
    <3>1. Places({}) = {}
      BY DEF Places
    <3> QED
      BY <3>1, FS_EmptySet
  <2>4. PICK x \in T : TRUE
    BY <2>3
  <2>5. IsFiniteSet(Places(T \ {x}))
    BY <2>2
  <2> QED
    BY <2>5, PlacesSplit DEF Sized
<1> QED
  BY <1>1, FS_CardinalityType

\* The equation the fold is defined by.
Adds(f, rows) ==
    f = [s \in SUBSET rows |->
           IF s = {} THEN 0
           ELSE LET x == CHOOSE y \in s : TRUE IN Size[x.sig] + f[s \ {x}]]

LEMMA BytesCount ==
    ASSUME NEW rows, IsFiniteSet(rows), Sized(rows)
    PROVE  Bytes(rows) = Cardinality(Places(rows))
<1>1. \A s \in SUBSET rows :
         /\ s = {} => Cardinality(Places(s)) = 0
         /\ s # {} => LET x == CHOOSE y \in s : TRUE IN
                      Cardinality(Places(s)) = Size[x.sig] + Cardinality(Places(s \ {x}))
  <2>1. Cardinality(Places({})) = 0
    BY FS_EmptySet DEF Places
  <2>2. ASSUME NEW s \in SUBSET rows, NEW x \in s
        PROVE  Cardinality(Places(s)) = Size[x.sig] + Cardinality(Places(s \ {x}))
    <3>1. IsFiniteSet(s \ {x})
      BY FS_Subset
    <3>2. IsFiniteSet(Places(s \ {x}))
      BY <3>1, PlacesFinite DEF Sized
    <3> QED
      BY <3>2, PlacesSplit DEF Sized
  <2> QED
    BY <2>1, <2>2
<1>2. Adds([s \in SUBSET rows |-> Cardinality(Places(s))], rows)
  BY <1>1 DEF Adds
<1>3. PICK f : Adds(f, rows) /\ Bytes(rows) = f[rows]
  <2> DEFINE iter[s \in SUBSET rows] ==
               IF s = {} THEN 0
               ELSE LET x == CHOOSE y \in s : TRUE IN Size[x.sig] + iter[s \ {x}]
  <2>1. Bytes(rows) = iter[rows]
    BY DEF Bytes, MapThenSumSet, MapThenFoldSet
  <2>2. iter = CHOOSE f : Adds(f, rows)
    BY DEF Adds
  <2>3. Adds(iter, rows)
    BY <1>2, <2>2
  <2> QED
    BY <2>1, <2>3
\* two functions that satisfy the equation do not differ
<1> DEFINE C == {s \in SUBSET rows : f[s] # Cardinality(Places(s))}
<1>4. C = {}
  <2>1. SUFFICES ASSUME C # {} PROVE FALSE
    OBVIOUS
  <2>2. PICK T \in C : \A U \in C : U \subseteq T => U = T
    <3>1. C \subseteq SUBSET rows /\ C # {} /\ IsFiniteSet(rows)
      BY <2>1
    <3> HIDE DEF C
    <3> QED
      BY <3>1, SmallestSet
  <2> DEFINE x == CHOOSE y \in T : TRUE
  <2>3. f[T] = IF T = {} THEN 0 ELSE Size[x.sig] + f[T \ {x}]
    BY <1>3 DEF Adds
  <2>4. CASE T = {}
    BY <1>1, <2>3, <2>4
  <2>5. CASE T # {}
    <3>1. x \in T
      BY <2>5
    <3>2. f[T \ {x}] = Cardinality(Places(T \ {x}))
      BY <2>2, <3>1
    <3>3. Cardinality(Places(T)) = Size[x.sig] + Cardinality(Places(T \ {x}))
      BY <1>1, <2>5
    <3> QED
      BY <2>2, <2>3, <2>5, <3>2, <3>3
  <2> QED
    BY <2>4, <2>5
<1> QED
  BY <1>3, <1>4

\* Fewer rows weigh no more.
LEMMA BytesMonotone ==
    ASSUME NEW rows, IsFiniteSet(rows), Sized(rows), NEW some \in SUBSET rows
    PROVE  Bytes(some) \in Nat /\ Bytes(rows) \in Nat /\ Bytes(some) <= Bytes(rows)
<1>1. IsFiniteSet(some) /\ Sized(some)
  BY FS_Subset DEF Sized
<1>2. Places(some) \subseteq Places(rows)
  BY DEF Places
<1>3. Cardinality(Places(some)) <= Cardinality(Places(rows))
  BY <1>2, PlacesFinite, FS_Subset
<1> QED
  BY <1>1, <1>3, BytesCount, PlacesFinite

=============================================================================
