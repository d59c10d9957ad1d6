---------------------------- MODULE ClientProofs ----------------------------
(***************************************************************************)
(* Theorems about Client, for every number of terminals, keys, messages    *)
(* and pad buckets, and every length of text.                              *)
(***************************************************************************)
EXTENDS Client, WellFoundedInduction, TLAPS

-----------------------------------------------------------------------------
\* Padding.

\* A text that fits in some bucket fits in a first one.
LEMMA FirstFit ==
    ASSUME NEW n \in Nat, Fitting(n) # {}
    PROVE  \E i \in Fitting(n) : \A j \in Fitting(n) : i <= j
<1>1. Fitting(n) \subseteq Nat
  BY ClientAssumption DEF Fitting
<1>2. PICK i \in Fitting(n) : \A j \in Fitting(n) : ~ (<<j, i>> \in OpToRel(<, Nat))
  BY <1>1, WFMin, NatLessThanWellFounded
<1>3. \A j \in Fitting(n) : ~ (j < i)
  BY <1>1, <1>2 DEF OpToRel
<1> QED
  BY <1>1, <1>3

\* pad_plaintext: the padded text has room for the prefix and the text, in a
\* bucket that is no larger than the last.
LEMMA PaddedFits ==
    ASSUME NEW n \in Nat, Fitting(n) # {}
    PROVE  LET p == Padded(n) IN
           /\ p.prefix = n
           /\ p.size \in Nat
           /\ n + PrefixSize <= p.size
           /\ p.size <= PadBuckets[Len(PadBuckets)]
<1> DEFINE i == CHOOSE i \in Fitting(n) : \A j \in Fitting(n) : i <= j
<1>1. i \in Fitting(n)
  BY FirstFit
<1>2. i \in DOMAIN PadBuckets /\ n + PrefixSize <= PadBuckets[i]
  BY <1>1 DEF Fitting, Needed
<1>3. Len(PadBuckets) \in DOMAIN PadBuckets /\ i <= Len(PadBuckets)
  BY <1>2, ClientAssumption
<1>4. PadBuckets[i] \in Nat /\ PadBuckets[i] <= PadBuckets[Len(PadBuckets)]
  BY <1>2, <1>3, ClientAssumption
<1>5. Padded(n).prefix = n /\ Padded(n).size = PadBuckets[i]
  BY DEF Padded
<1> QED
  BY <1>2, <1>4, <1>5

\* What is published is no longer than a relay accepts.
LEMMA BodyFits ==
    ASSUME NEW size \in Nat, NEW largest \in Nat, size <= largest,
           largest = PadBuckets[Len(PadBuckets)]
    PROVE  BodyBytes(size) <= MaxBodyBytes
<1>1. Base64Bytes(size) <= Base64Bytes(largest) /\ Base64Bytes(size) \in Nat
      /\ Base64Bytes(largest) \in Nat
  BY DEF Base64Bytes
<1> DEFINE most == Base64Bytes(largest) + 1320
<1>2. MaxBodyBytes = most + most \div 2
  BY DEF MaxBodyBytes
<1>3. most \in Nat /\ most >= 1320
  BY <1>1
<1>4. most \div 2 >= 660 /\ most \div 2 \in Nat
  BY <1>3
<1>5. BodyBytes(size) <= most + 65
  BY <1>1 DEF BodyBytes
<1> HIDE DEF most
<1> QED
  BY <1>1, <1>2, <1>3, <1>4, <1>5 DEF BodyBytes

-----------------------------------------------------------------------------
\* Types: a command that has its identity has a key.

WithKey == {"generate", "privOpen", "privDone", "pubOpen", "command", "inbox", "delete"}

KeyKnown == \A t \in Term : run[t].pc \in WithKey => run[t].key \in Key

TypeInv == TypeOK /\ KeyKnown

\* A terminal whose command moves on to pc, all else of it unchanged.
LEMMA GoType ==
    ASSUME TypeInv, NEW t \in Term, NEW pc \in WithKey, Go(t, pc), run[t].pc \in WithKey
    PROVE  run' \in [Term -> Running] /\ KeyKnown'
<1>1. run' \in [Term -> Running]
  BY DEF TypeInv, TypeOK, Go, Running, WithKey
<1>2. \A u \in Term : run'[u].key = run[u].key /\ (u # t => run'[u].pc = run[u].pc)
  BY DEF TypeInv, TypeOK, Go, Running
<1> QED
  BY <1>1, <1>2 DEF TypeInv, KeyKnown

LEMMA ExitType ==
    ASSUME TypeInv, NEW t \in Term, Exit(t)
    PROVE  run' \in [Term -> Running] /\ KeyKnown'
<1>1. Idle \in Running
  BY DEF Idle, Running
<1>2. run' \in [Term -> Running]
  BY <1>1 DEF TypeInv, TypeOK, Exit
<1>3. run'[t].pc = "off" /\ \A u \in Term : u # t => run'[u] = run[u]
  BY DEF TypeInv, TypeOK, Exit, Idle
<1> QED
  BY <1>2, <1>3 DEF TypeInv, KeyKnown, WithKey

\* Any other change of what terminal t runs.
LEMMA RunType ==
    ASSUME TypeInv, NEW t \in Term, NEW r \in Running, run' = [run EXCEPT ![t] = r],
           r.pc \in WithKey => r.key \in Key
    PROVE  run' \in [Term -> Running] /\ KeyKnown'
<1>1. run' \in [Term -> Running]
  BY DEF TypeInv, TypeOK
<1>2. run'[t] = r /\ \A u \in Term : u # t => run'[u] = run[u]
  BY DEF TypeInv, TypeOK
<1> QED
  BY <1>1, <1>2 DEF TypeInv, KeyKnown

LEMMA TypeInit == Init => TypeInv
<1> SUFFICES ASSUME Init PROVE TypeInv
  OBVIOUS
<1>1. Idle \in Running
  BY DEF Idle, Running
<1>2. NotSent \in [to : Key \cup {Missing}, prefix : Nat, size : Nat]
  BY DEF NotSent
<1>3. Relay!TypeOK
  BY DEF Init, Relay!TypeOK, Relay!States
<1>4. KeyKnown
  BY DEF Init, KeyKnown, Idle, WithKey
<1> QED
  BY <1>1, <1>2, <1>3, <1>4 DEF Init, TypeInv, TypeOK

LEMMA StartType ==
    ASSUME TypeInv, NEW t \in Term, NEW cmd \in Command, Start(t, cmd)
    PROVE  TypeInv'
<1>1. PICK target \in IF cmd = "delete" THEN {{s} : s \in Msg} ELSE {{}} :
        run' = [run EXCEPT ![t] = [Idle EXCEPT !.pc = "identity", !.cmd = cmd,
                                               !.target = target]]
  BY DEF Start
<1> DEFINE r == [Idle EXCEPT !.pc = "identity", !.cmd = cmd, !.target = target]
<1>2. target \in SUBSET Msg
  BY <1>1
<1>3. r \in Running /\ r.pc \notin WithKey
  BY <1>2 DEF Idle, Running, Command, WithKey
<1>4. run' \in [Term -> Running] /\ KeyKnown'
  BY <1>1, <1>3, RunType
<1> QED
  BY <1>4 DEF TypeInv, TypeOK, Start, home, user, Relay!TypeOK

LEMMA IdentityType ==
    ASSUME TypeInv, NEW t \in Term, Identity(t)
    PROVE  TypeInv'
<1>1. run[t] \in Running /\ priv \in Key \cup {Missing, Torn}
  BY DEF TypeInv, TypeOK
<1>2. CASE LoadOrGenerate(t)
  <2>1. raced' \in BOOLEAN
    BY <1>2 DEF LoadOrGenerate, Generate, TypeInv, TypeOK
  <2>2. run' \in [Term -> Running] /\ KeyKnown'
    <3>1. CASE Exit(t)
      BY <3>1, ExitType
    <3>2. CASE Load(t) /\ priv \in Key
      <4> DEFINE r == [run[t] EXCEPT !.pc = "command", !.key = priv]
      <4>1. r \in Running /\ r.key \in Key
        BY <1>1, <3>2 DEF Running
      <4>2. run' = [run EXCEPT ![t] = r]
        BY <3>2 DEF Load, TypeInv, TypeOK
      <4> QED
        BY <4>1, <4>2, RunType
    <3>3. CASE \E k \in Key : run' = [run EXCEPT ![t].pc = "generate", ![t].key = k]
      <4>1. PICK k \in Key : run' = [run EXCEPT ![t].pc = "generate", ![t].key = k]
        BY <3>3
      <4> DEFINE r == [run[t] EXCEPT !.pc = "generate", !.key = k]
      <4>2. r \in Running /\ r.key \in Key
        BY <1>1 DEF Running
      <4>3. run' = [run EXCEPT ![t] = r]
        BY <4>1 DEF TypeInv, TypeOK
      <4> QED
        BY <4>2, <4>3, RunType
    <3> QED
      BY <1>1, <1>2, <3>1, <3>2, <3>3 DEF LoadOrGenerate, Generate
  <2> QED
    BY <1>2, <2>1, <2>2 DEF LoadOrGenerate, TypeInv, TypeOK, home, user, Relay!TypeOK
<1>3. CASE OpenPriv(t) \/ WritePriv(t) \/ OpenPub(t) \/ WritePub(t)
  <2>1. run[t].pc \in WithKey
    BY <1>3 DEF OpenPriv, WritePriv, OpenPub, WritePub, At, WithKey
  <2>2. run[t].key \in Key
    BY <2>1 DEF TypeInv, KeyKnown
  <2>3. \E pc \in WithKey : Go(t, pc)
    BY <1>3 DEF OpenPriv, WritePriv, OpenPub, WritePub, WithKey
  <2>4. run' \in [Term -> Running] /\ KeyKnown'
    BY <2>1, <2>3, GoType
  <2> QED
    BY <1>3, <2>2, <2>4 DEF OpenPriv, WritePriv, OpenPub, WritePub, TypeInv, TypeOK, user,
       Relay!TypeOK
<1> QED
  BY <1>2, <1>3 DEF Identity

\* Commands.
LEMMA CommandType ==
    ASSUME TypeInv, NEW t \in Term,
           Register(t) \/ Fetch(t) \/ EndFetch(t) \/ BeginDelete(t) \/ Quit(t)
    PROVE  TypeInv'
<1>1. run[t] \in Running
  BY DEF TypeInv, TypeOK
<1>2. run' \in [Term -> Running] /\ KeyKnown'
  <2>1. CASE Exit(t)
    BY <2>1, ExitType
  <2>2. CASE BeginDelete(t)
    BY <2>2, GoType DEF BeginDelete, At, WithKey
  <2>3. ASSUME NEW page \in SUBSET Msg, At(t, "command"),
               run' = [run EXCEPT ![t].pc = "inbox", ![t].todo = page]
        PROVE  run' \in [Term -> Running] /\ KeyKnown'
    <3> DEFINE r == [run[t] EXCEPT !.pc = "inbox", !.todo = page]
    <3>1. r \in Running /\ r.key = run[t].key
      BY <1>1 DEF Running
    <3>2. r.key \in Key
      BY <2>3, <3>1 DEF TypeInv, KeyKnown, At, WithKey
    <3>3. run' = [run EXCEPT ![t] = r]
      BY <2>3 DEF TypeInv, TypeOK
    <3> QED
      BY <3>1, <3>2, <3>3, RunType
  <2>4. CASE Fetch(t)
    <3>1. CASE \E page \in SUBSET Msg :
                  run' = [run EXCEPT ![t].pc = "inbox", ![t].todo = page]
      BY <2>3, <2>4, <3>1 DEF Fetch
    <3>2. \A strays \in SUBSET For(run[t].key, "adrift") :
            For(run[t].key, "live") \cup strays \in SUBSET Msg
      BY DEF For
    <3> QED
      BY <2>1, <2>4, <3>1, <3>2 DEF Fetch
  <2> QED
    BY <2>1, <2>2, <2>4 DEF Register, EndFetch, Quit
<1>3. announced' \subseteq Key
  BY DEF Register, Fetch, EndFetch, BeginDelete, Quit, At, WithKey, TypeInv, TypeOK, KeyKnown,
         user
<1> QED
  BY <1>2, <1>3
     DEF Register, Fetch, EndFetch, BeginDelete, Quit, TypeInv, TypeOK, home, user, Relay!TypeOK

LEMMA ReadType ==
    ASSUME TypeInv, NEW t \in Term, NEW s \in Msg, Read(t, s)
    PROVE  TypeInv'
<1>1. run[t] \in Running /\ run[t].key \in Key
  BY DEF TypeInv, TypeOK, KeyKnown, Read, At, WithKey
<1>2. Skip(t, s) \/ ThenDelete(t, s)
  BY DEF Read
<1>3. run' \in [Term -> Running] /\ KeyKnown'
  <2>1. CASE Skip(t, s)
    <3> DEFINE r == [run[t] EXCEPT !.todo = @ \ {s}]
    <3>1. r \in Running /\ r.key \in Key
      BY <1>1 DEF Running
    <3>2. run' = [run EXCEPT ![t] = r]
      BY <2>1 DEF Skip, TypeInv, TypeOK
    <3> QED
      BY <3>1, <3>2, RunType
  <2>2. CASE ThenDelete(t, s)
    <3> DEFINE r == [run[t] EXCEPT !.todo = @ \ {s}, !.pc = "delete", !.target = {s}]
    <3>1. r \in Running /\ r.key \in Key
      BY <1>1 DEF Running
    <3>2. run' = [run EXCEPT ![t] = r]
      BY <2>2 DEF ThenDelete, TypeInv, TypeOK
    <3> QED
      BY <3>1, <3>2, RunType
  <2> QED
    BY <1>2, <2>1, <2>2
<1>4. shown' \subseteq Msg
  BY DEF Read, TypeInv, TypeOK
<1> QED
  BY <1>3, <1>4 DEF Read, TypeInv, TypeOK, home, Relay!TypeOK

LEMMA DeleteType ==
    ASSUME TypeInv, NEW t \in Term, NEW s \in Msg, Delete(t, s)
    PROVE  TypeInv'
<1>1. run[t] \in Running /\ run[t].key \in Key
  BY DEF TypeInv, TypeOK, KeyKnown, Delete, At, WithKey
<1>2. run' \in [Term -> Running] /\ KeyKnown'
  <2>1. CASE Exit(t)
    BY <2>1, ExitType
  <2>2. CASE run' = [run EXCEPT ![t].pc = "inbox", ![t].target = {}]
    <3> DEFINE r == [run[t] EXCEPT !.pc = "inbox", !.target = {}]
    <3>1. r \in Running /\ r.key \in Key
      BY <1>1 DEF Running
    <3>2. run' = [run EXCEPT ![t] = r]
      BY <2>2 DEF TypeInv, TypeOK
    <3> QED
      BY <3>1, <3>2, RunType
  <2> QED
    BY <2>1, <2>2 DEF Delete, AfterDelete
<1>3. told' \subseteq Msg
  BY DEF Delete, TypeInv, TypeOK
<1>4. box' \in [Msg -> Relay!States]
  BY DEF Delete, Deleted, Requested, Relay!Vanish, Relay!States, TypeInv, TypeOK, Relay!TypeOK
<1> QED
  BY <1>2, <1>3, <1>4 DEF Delete, TypeInv, TypeOK, home, Relay!TypeOK

LEMMA WorldType ==
    ASSUME TypeInv, NEW s \in Msg, World(s)
    PROVE  TypeInv'
<1>1. box' \in [Msg -> Relay!States]
  BY DEF Send, Arrive, Expire, Stray, World, Relay!Arrive, Relay!Vanish, Relay!Stray, Relay!States, TypeInv, TypeOK,
         Relay!TypeOK
<1>2. sent' \in [Msg -> [to : Key \cup {Missing}, prefix : Nat, size : Nat]]
  <2>1. CASE UNCHANGED sent
    BY <2>1 DEF TypeInv, TypeOK
  <2>2. CASE \E k \in Key : Send(s, k)
    <3>1. PICK k \in Key : Send(s, k)
      BY <2>2
    <3>2. Padded(Length[s]).prefix \in Nat /\ Padded(Length[s]).size \in Nat
      BY <3>1, PaddedFits, ClientAssumption DEF Send
    <3> QED
      BY <3>1, <3>2 DEF Send, TypeInv, TypeOK
  <2> QED
    BY <2>1, <2>2 DEF Arrive, Expire, Stray, World
<1>3. UNCHANGED <<home, run, user, raced>>
  BY DEF Send, Arrive, Expire, Stray, World
<1> QED
  BY <1>1, <1>2, <1>3 DEF TypeInv, TypeOK, KeyKnown, home, user, Relay!TypeOK

LEMMA TypeStep == TypeInv /\ [Next]_vars => TypeInv'
<1> SUFFICES ASSUME TypeInv, [Next]_vars PROVE TypeInv'
  OBVIOUS
<1>1. CASE UNCHANGED vars
  BY <1>1 DEF vars, TypeInv, TypeOK, KeyKnown, Relay!TypeOK
<1> QED
  BY <1>1, StartType, IdentityType, CommandType, ReadType, DeleteType, WorldType DEF Next, Main

\* Every variable keeps its type.
THEOREM TypeCorrect == Spec => []TypeOK
<1>1. TypeInv => TypeOK
  BY DEF TypeInv
<1> QED
  BY <1>1, TypeInit, TypeStep, PTL DEF Spec

-----------------------------------------------------------------------------
\* The identity files.

Making == {"generate", "privOpen", "privDone", "pubOpen"}

\* A public file is never alone, whoever raced.
PrivFirst ==
    /\ pub # Missing => priv # Missing
    /\ \A t \in Term : run[t].pc \in {"privOpen", "privDone", "pubOpen"} => priv # Missing

\* The terminal that makes the identity is alone, and the one file it has
\* written is its own.
Maker(t) ==
    /\ \A u \in Term : run[t].pc \in Making /\ run[u].pc \in Making => t = u
    /\ run[t].pc \in {"generate", "privOpen", "privDone"} => pub = Missing
    /\ run[t].pc \in {"privDone", "pubOpen"} => priv = run[t].key

\* Whoever has the identity has the one on disk.
User(t) == run[t].pc \in {"command", "inbox", "delete"} => priv = run[t].key /\ pub # Missing

\* What was given to others is on disk.
Given ==
    /\ announced \subseteq {priv}
    /\ announced # {} => pub # Missing

IdentityInv == PrivFirst /\ (~raced => (\A t \in Term : Maker(t) /\ User(t)) /\ Given)

LEMMA IdentityInit == Init => IdentityInv
BY DEF Init, Idle, IdentityInv, PrivFirst, Maker, User, Given, Making

\* A step of t that leaves the files alone and makes no identity.
LEMMA QuietIdentity ==
    ASSUME TypeInv, IdentityInv, NEW t \in Term,
           \A u \in Term : u # t => run'[u] = run[u],
           UNCHANGED <<home, raced>>,
           run'[t].pc \notin Making,
           run'[t].pc \in {"command", "inbox", "delete"} /\ ~raced
             => priv = run'[t].key /\ pub # Missing,
           announced' # announced \/ told' # told
             => run[t].pc \in {"command", "inbox", "delete"},
           announced' \subseteq announced \cup {run[t].key}
    PROVE  IdentityInv'
<1>1. PrivFirst'
  BY DEF IdentityInv, PrivFirst, Making, home
<1>2. ASSUME ~raced', NEW u \in Term PROVE Maker(u)' /\ User(u)'
  BY <1>2 DEF IdentityInv, Maker, User, Making, home
<1>3. ASSUME ~raced' PROVE Given'
  BY <1>3 DEF IdentityInv, Given, User, home
<1> QED
  BY <1>1, <1>2, <1>3 DEF IdentityInv

LEMMA LoadIdentity ==
    ASSUME TypeInv, IdentityInv, NEW t \in Term, LoadOrGenerate(t)
    PROVE  IdentityInv'
<1>1. /\ UNCHANGED <<home, user>>
      /\ \A u \in Term : u # t => run'[u] = run[u]
  BY DEF LoadOrGenerate, Generate, Load, Exit, TypeInv, TypeOK
<1>2. CASE Exit(t) /\ UNCHANGED raced
  <2>1. run'[t].pc = "off"
    BY <1>2 DEF Exit, Idle, TypeInv, TypeOK
  <2> QED
    BY <1>1, <1>2, <2>1, QuietIdentity DEF user, Making
<1>3. CASE Load(t) /\ pub # Missing /\ UNCHANGED raced
  <2>1. run'[t].pc = "command" /\ run'[t].key = priv
    BY <1>3 DEF Load, TypeInv, TypeOK, Running
  <2> QED
    BY <1>1, <1>3, <2>1, QuietIdentity DEF user, Making
<1>4. CASE Generate(t) /\ ~(priv # Missing /\ pub # Missing)
  <2>1. pub = Missing
    BY <1>4 DEF IdentityInv, PrivFirst
  <2>2. run'[t].pc \in {"off", "generate"}
    BY <1>4 DEF Generate, Exit, Idle, TypeInv, TypeOK, Running
  <2>3. PrivFirst'
    BY <1>1, <2>2 DEF IdentityInv, PrivFirst, home
  <2>4. ~raced' => ~raced /\ \A u \in Term : run[u].pc \notin Making
    BY <1>4 DEF Generate, Generating, Making, TypeInv, TypeOK
  <2>5. ASSUME ~raced', NEW u \in Term PROVE Maker(u)' /\ User(u)'
    <3>1. CASE u = t
      BY <1>1, <2>1, <2>2, <2>4, <2>5, <3>1 DEF Maker, User, Making, home
    <3>2. CASE u # t
      BY <1>1, <2>1, <2>4, <2>5, <3>2 DEF IdentityInv, Maker, User, Making, home
    <3> QED
      BY <3>1, <3>2
  <2>6. ASSUME ~raced' PROVE Given'
    BY <1>1, <2>4, <2>6 DEF IdentityInv, Given, home, user
  <2> QED
    BY <2>3, <2>5, <2>6 DEF IdentityInv
<1> QED
  BY <1>2, <1>3, <1>4 DEF LoadOrGenerate

\* A step of t that writes to the files.
LEMMA WriteIdentity ==
    ASSUME TypeInv, IdentityInv, NEW t \in Term, run[t].pc \in Making,
           NEW pc \in {"privOpen", "privDone", "pubOpen", "command"}, Go(t, pc),
           UNCHANGED <<user, raced>>,
           priv' # Missing,
           ~raced => /\ pc \in {"privOpen", "privDone"} => pub' = Missing
                     /\ pc \in {"privDone", "pubOpen", "command"} => priv' = run[t].key
                     /\ pc = "command" => pub' # Missing
                     /\ pub # Missing => pub' # Missing /\ priv' = priv
    PROVE  IdentityInv'
<1>1. /\ run'[t].pc = pc /\ run'[t].key = run[t].key
      /\ \A u \in Term : u # t => run'[u] = run[u]
  BY DEF Go, TypeInv, TypeOK, Running
<1>2. PrivFirst'
  BY <1>1 DEF PrivFirst
<1>3. ASSUME ~raced', NEW u \in Term PROVE Maker(u)' /\ User(u)'
  <2>1. Maker(t) /\ User(u) /\ ~raced
    BY <1>3 DEF IdentityInv
  <2>2. \A v \in Term : v # t => run'[v].pc \notin Making
    BY <1>1, <2>1 DEF Maker
  <2>3. CASE u = t
    BY <1>1, <2>1, <2>2, <2>3 DEF Maker, User, Making
  <2>4. CASE u # t
    BY <1>1, <2>1, <2>2, <2>4 DEF Maker, User, Making
  <2> QED
    BY <2>3, <2>4
<1>4. ASSUME ~raced' PROVE Given'
  BY <1>4 DEF IdentityInv, Given, user
<1> QED
  BY <1>2, <1>3, <1>4 DEF IdentityInv

LEMMA FilesIdentity ==
    ASSUME TypeInv, IdentityInv, NEW t \in Term,
           OpenPriv(t) \/ WritePriv(t) \/ OpenPub(t) \/ WritePub(t)
    PROVE  IdentityInv'
<1>1. Torn # Missing /\ \A k \in Key : k # Missing
  BY ClientAssumption DEF Torn, Missing
<1>2. run[t].pc \in WithKey /\ run[t].pc \in Making
  BY DEF OpenPriv, WritePriv, OpenPub, WritePub, At, WithKey, Making
<1>3. run[t].key # Missing
  BY <1>1, <1>2 DEF TypeInv, KeyKnown
<1>4. PrivFirst /\ (~raced => Maker(t) /\ User(t))
  BY DEF IdentityInv
<1>5. CASE OpenPriv(t)
  BY <1>1, <1>2, <1>4, <1>5, WriteIdentity DEF OpenPriv, At, Maker
<1>6. CASE WritePriv(t)
  BY <1>2, <1>3, <1>4, <1>6, WriteIdentity DEF WritePriv, At, Maker
<1>7. CASE OpenPub(t)
  BY <1>1, <1>2, <1>4, <1>7, WriteIdentity DEF OpenPub, At, Maker, PrivFirst
<1>8. CASE WritePub(t)
  BY <1>2, <1>3, <1>4, <1>8, WriteIdentity DEF WritePub, At, Maker, PrivFirst
<1> QED
  BY <1>5, <1>6, <1>7, <1>8

LEMMA IdentityStep == TypeInv /\ IdentityInv /\ [Next]_vars => IdentityInv'
<1> SUFFICES ASSUME TypeInv, IdentityInv, [Next]_vars PROVE IdentityInv'
  OBVIOUS
<1>1. CASE UNCHANGED vars
  BY <1>1 DEF vars, IdentityInv, PrivFirst, Maker, User, Given
<1>2. ASSUME NEW t \in Term, NEW cmd \in Command, Start(t, cmd) PROVE IdentityInv'
  <2>1. run'[t].pc = "identity" /\ \A u \in Term : u # t => run'[u] = run[u]
    BY <1>2 DEF Start, TypeInv, TypeOK, Idle
  <2> QED
    BY <1>2, <2>1, QuietIdentity DEF Start, Making, user
<1>3. ASSUME NEW t \in Term, Identity(t) PROVE IdentityInv'
  BY <1>3, LoadIdentity, FilesIdentity DEF Identity
<1>4. ASSUME NEW t \in Term, Register(t) \/ Fetch(t) \/ EndFetch(t) \/ BeginDelete(t) \/ Quit(t)
      PROVE  IdentityInv'
  <2>1. /\ \A u \in Term : u # t => run'[u] = run[u]
        /\ \/ run'[t].pc = "off"
           \/ /\ run[t].pc = "command"
              /\ run'[t].pc \in {"inbox", "delete"} /\ run'[t].key = run[t].key
    BY <1>4 DEF Register, Fetch, EndFetch, BeginDelete, Quit, Exit, Go, Idle, At, TypeInv, TypeOK,
       Running
  <2>2. UNCHANGED <<home, raced, told>>
    BY <1>4 DEF Register, Fetch, EndFetch, BeginDelete, Quit, user
  <2>3. announced' # announced => run[t].pc = "command" /\ announced' = announced \cup {run[t].key}
    BY <1>4 DEF Register, Fetch, EndFetch, BeginDelete, Quit, At, user
  <2>4. run[t].pc = "command" /\ ~raced => priv = run[t].key /\ pub # Missing
    BY DEF IdentityInv, User
  <2> QED
    BY <2>1, <2>2, <2>3, <2>4, QuietIdentity DEF Making
<1>5. ASSUME NEW t \in Term, NEW s \in Msg, Read(t, s) \/ Delete(t, s) PROVE IdentityInv'
  <2>1. /\ \A u \in Term : u # t => run'[u] = run[u]
        /\ \/ run'[t].pc = "off"
           \/ run'[t].pc \in {"inbox", "delete"} /\ run'[t].key = run[t].key
    BY <1>5 DEF Read, Skip, ThenDelete, Delete, AfterDelete, Exit, Idle, At, TypeInv, TypeOK,
       Running
  <2>2. UNCHANGED <<home, raced, announced>> /\ run[t].pc \in {"inbox", "delete"}
    BY <1>5 DEF Read, Delete, At
  <2>3. run[t].pc \in {"inbox", "delete"} /\ ~raced => priv = run[t].key /\ pub # Missing
    BY DEF IdentityInv, User
  <2> QED
    BY <2>1, <2>2, <2>3, QuietIdentity DEF Making
<1>6. ASSUME NEW s \in Msg, World(s)
      PROVE  IdentityInv'
  BY <1>6 DEF Send, Arrive, Expire, Stray, World, IdentityInv, PrivFirst, Maker, User, Given, home, user
<1> QED
  BY <1>1, <1>2, <1>3, <1>4, <1>5, <1>6 DEF Next, Main

\* An announced address keeps its private key on disk, unless two first
\* launches overlapped (load_or_generate_identity).
THEOREM AddressesLast == Spec => []AnnouncedKept
<1>1. IdentityInv => AnnouncedKept
  BY DEF IdentityInv, Given, AnnouncedKept
<1> QED
  BY <1>1, TypeInit, TypeStep, IdentityInit, IdentityStep, PTL DEF Spec

-----------------------------------------------------------------------------
\* What the user is told.

LEMMA DeleteReport ==
    ASSUME TypeInv, ReportsTrue, NEW t \in Term, NEW s \in Msg, Delete(t, s)
    PROVE  ReportsTrue'
<1>1. /\ \A r \in told' : r \in told \/ (r = s /\ Deleted(s, run[t].key))
      /\ \A r \in Msg : box[r] \in {"gone", "adrift"} => box'[r] = box[r]
  BY DEF Delete, Deleted, Requested, Relay!Vanish, TypeInv, TypeOK, Relay!TypeOK
<1>2. Deleted(s, run[t].key) => box'[s] \in {"gone", "adrift"}
  BY DEF Deleted, Relay!Vanish, TypeInv, TypeOK, Relay!TypeOK
<1> QED
  BY <1>1, <1>2 DEF ReportsTrue, TypeInv, TypeOK

LEMMA WorldReport ==
    ASSUME TypeInv, ReportsTrue, NEW s \in Msg, World(s)
    PROVE  ReportsTrue'
<1>1. told' = told
  BY DEF World, Send, Arrive, Expire, Stray, user
<1>2. \A r \in Msg : box[r] \in {"gone", "adrift"} => box'[r] \in {"gone", "adrift"}
  BY DEF World, Send, Arrive, Expire, Stray, Relay!Arrive, Relay!Vanish, Relay!Stray, TypeInv,
         TypeOK, Relay!TypeOK
<1> QED
  BY <1>1, <1>2 DEF ReportsTrue, TypeInv, TypeOK

LEMMA ReportStep == TypeInv /\ ReportsTrue /\ [Next]_vars => ReportsTrue'
<1> SUFFICES ASSUME TypeInv, ReportsTrue, [Next]_vars PROVE ReportsTrue'
  OBVIOUS
<1>1. CASE UNCHANGED <<box, told>>
  BY <1>1 DEF ReportsTrue
<1>2. ASSUME NEW t \in Term, (\E cmd \in Command : Start(t, cmd)) \/ Main(t) \/ Quit(t),
             ~\E s \in Msg : Delete(t, s)
      PROVE  UNCHANGED <<box, told>>
  BY <1>2 DEF Main, Start, Identity, LoadOrGenerate, OpenPriv, WritePriv, OpenPub, WritePub,
         Register, Fetch, EndFetch, BeginDelete, Quit, Read, user
<1> QED
  BY <1>1, <1>2, DeleteReport, WorldReport DEF Next, vars

\* A deletion that was reported as done is done for good, whatever requests and
\* answers were lost, or else overlooked by a publish (cmd_delete, cmd_fetch).
THEOREM ReportsHold == Spec => []ReportsTrue
<1>1. Init => ReportsTrue
  BY DEF Init, ReportsTrue
<1> QED
  BY <1>1, TypeInit, TypeStep, ReportStep, PTL DEF Spec

-----------------------------------------------------------------------------
\* What a fetch deletes.

ShownTarget ==
    \A t \in Term : run[t].cmd = "fetchDelete" => run[t].target \subseteq shown

LEMMA ShownInit == Init => ShownTarget
BY DEF Init, Idle, ShownTarget

LEMMA ShownStep == TypeInv /\ ShownTarget /\ [Next]_vars => ShownTarget'
<1> SUFFICES ASSUME TypeInv, ShownTarget, [Next]_vars PROVE ShownTarget'
  OBVIOUS
<1>1. CASE UNCHANGED <<run, shown>>
  BY <1>1 DEF ShownTarget
<1>2. ASSUME NEW t \in Term, shown \subseteq shown',
             \A u \in Term : u # t => run'[u] = run[u],
             run'[t].cmd = "fetchDelete" => run'[t].target \subseteq shown'
      PROVE  ShownTarget'
  BY <1>2 DEF ShownTarget
<1>3. ASSUME NEW t \in Term, NEW cmd \in Command, Start(t, cmd) PROVE ShownTarget'
  BY <1>2, <1>3 DEF Start, Idle, user, TypeInv, TypeOK
<1>4. ASSUME NEW t \in Term, Identity(t) \/ Register(t) \/ Fetch(t) \/ EndFetch(t)
             \/ BeginDelete(t) \/ Quit(t)
      PROVE  ShownTarget'
  <2>1. shown' = shown /\ \A u \in Term : u # t => run'[u] = run[u]
    BY <1>4 DEF Identity, LoadOrGenerate, Load, Generate, OpenPriv, WritePriv, OpenPub, WritePub,
       Register, Fetch, EndFetch, BeginDelete, Quit, Go, Exit, TypeInv, TypeOK, user
  <2>2. run'[t].target \in {{}, run[t].target} /\ (run'[t].target = {} \/ run'[t].cmd = run[t].cmd)
    BY <1>4 DEF Identity, LoadOrGenerate, Load, Generate, OpenPriv, WritePriv, OpenPub, WritePub,
       Register, Fetch, EndFetch, BeginDelete, Quit, Go, Exit, Idle, TypeInv, TypeOK, Running
  <2> QED
    BY <1>2, <2>1, <2>2 DEF ShownTarget
<1>5. ASSUME NEW t \in Term, NEW s \in Msg, Read(t, s) PROVE ShownTarget'
  <2>1. shown \subseteq shown' /\ \A u \in Term : u # t => run'[u] = run[u]
    BY <1>5 DEF Read, Skip, ThenDelete, TypeInv, TypeOK
  <2>2. /\ run'[t].cmd = run[t].cmd
        /\ \/ run'[t].target = run[t].target
           \/ run'[t].target = {s} /\ s \in shown'
    BY <1>5 DEF Read, Skip, ThenDelete, TypeInv, TypeOK, Running
  <2> QED
    BY <1>2, <2>1, <2>2 DEF ShownTarget
<1>6. ASSUME NEW t \in Term, NEW s \in Msg, Delete(t, s) PROVE ShownTarget'
  <2>1. shown' = shown /\ \A u \in Term : u # t => run'[u] = run[u]
    BY <1>6 DEF Delete, AfterDelete, Exit, TypeInv, TypeOK
  <2>2. run'[t].target = {}
    BY <1>6 DEF Delete, AfterDelete, Exit, Idle, TypeInv, TypeOK, Running
  <2> QED
    BY <1>2, <2>1, <2>2
<1>7. ASSUME NEW s \in Msg, World(s)
      PROVE  ShownTarget'
  BY <1>1, <1>7 DEF Send, Arrive, Expire, Stray, World, user
<1> QED
  BY <1>1, <1>3, <1>4, <1>5, <1>6, <1>7 DEF Next, Main, vars

\* What --delete-after-read deletes, its user has read.
THEOREM OnlyTheReadIsDeleted == Spec => FetchDeletesTheRead
<1> DEFINE A == \A t \in Term, s \in Msg :
                  run[t].cmd = "fetchDelete" /\ Delete(t, s) /\ box'[s] # box[s] => s \in shown
<1>1. ShownTarget /\ [Next]_vars => [A]_vars
  BY DEF ShownTarget, Delete
<1>2. Spec => [][A]_vars
  BY <1>1, TypeInit, TypeStep, ShownInit, ShownStep, PTL DEF Spec
<1> QED
  BY <1>2 DEF FetchDeletesTheRead

-----------------------------------------------------------------------------
\* Whatever is sent can be read, and is not refused for its size: for every
\* length of text and every rising sequence of buckets.
THEOREM PaddingHolds == Spec => []PaddingSound
<1>1. Init => PaddingSound
  BY DEF Init, PaddingSound
<1>2. TypeInv /\ PaddingSound /\ [Next]_vars => PaddingSound'
  <2> SUFFICES ASSUME TypeInv, PaddingSound, [Next]_vars PROVE PaddingSound'
    OBVIOUS
  <2>1. CASE UNCHANGED sent
    BY <2>1 DEF PaddingSound
  <2>2. ASSUME NEW s \in Msg, NEW k \in Key, Send(s, k) PROVE PaddingSound'
    <3> DEFINE p == Padded(Length[s])
    <3>1. Length[s] \in Nat /\ Fitting(Length[s]) # {}
      BY <2>2, ClientAssumption DEF Send
    <3>2. /\ p.prefix = Length[s] /\ p.size \in Nat /\ Length[s] + PrefixSize <= p.size
          /\ p.size <= PadBuckets[Len(PadBuckets)]
      BY <3>1, PaddedFits
    <3>3. BodyBytes(p.size) <= MaxBodyBytes
      <4>1. PadBuckets[Len(PadBuckets)] \in Nat
        BY ClientAssumption
      <4> QED
        BY <3>2, <4>1, BodyFits
    <3>4. sent' = [sent EXCEPT ![s] = [to |-> k, prefix |-> p.prefix, size |-> p.size]]
      BY <2>2 DEF Send
    <3> HIDE DEF p
    <3>5. /\ sent'[s].prefix = p.prefix /\ sent'[s].size = p.size
          /\ \A r \in Msg : r # s => sent'[r] = sent[r]
      BY <3>4 DEF TypeInv, TypeOK
    <3>6. Unpads(sent'[s]) /\ sent'[s].prefix = Length[s]
          /\ BodyBytes(sent'[s].size) <= MaxBodyBytes
      BY <3>1, <3>2, <3>3, <3>5 DEF Unpads, PrefixSize
    <3> QED
      BY <3>5, <3>6 DEF PaddingSound
  <2>3. UNCHANGED sent \/ \E s \in Msg, k \in Key : Send(s, k)
    BY DEF Next, Main, Start, Identity, LoadOrGenerate, OpenPriv, WritePriv, OpenPub, WritePub,
           Register, Fetch, EndFetch, BeginDelete, Quit, Read, Delete, Arrive, Expire, Stray, World, vars
  <2> QED
    BY <2>1, <2>2, <2>3
<1> QED
  BY <1>1, <1>2, TypeInit, TypeStep, PTL DEF Spec

=============================================================================
