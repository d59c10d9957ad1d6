-------------------------- MODULE RateLimiterProofs -------------------------
(***************************************************************************)
(* The two levels of RateLimiter, for every capacity, rate, pool size,     *)
(* number of callers and identities and order of their steps.              *)
(*                                                                         *)
(* No property is inductive over what a bucket holds: its tokens are only  *)
(* brought up to date by the next attempt. Each is over what it would hold *)
(* if it were refilled at this instant, GlobalNow.tokens for the global    *)
(* bucket and BucketOf(i).tokens for the one of i.                         *)
(***************************************************************************)
EXTENDS RateLimiter, FiniteSetTheorems, SequenceTheorems, TLAPS

-----------------------------------------------------------------------------
\* Facts about a bucket.

LEMMA Product == ASSUME NEW x \in Nat, NEW y \in Nat PROVE x * y \in Nat
OBVIOUS

LEMMA OneMore == ASSUME NEW x \in Int, NEW y \in Int PROVE (x + 1) * y = x * y + y
OBVIOUS

\* A refill never lowers a bucket, and never fills it beyond its capacity.
LEMMA RefillBounds ==
    ASSUME NEW b \in Bucket, NEW cap \in Nat, NEW rate \in Nat, NEW t \in Nat,
           b.tokens <= cap, b.last <= t
    PROVE  /\ Refilled(b, cap, rate, t) \in Bucket
           /\ Refilled(b, cap, rate, t).tokens <= cap
           /\ Refilled(b, cap, rate, t).tokens >= b.tokens
           /\ Refilled(b, cap, rate, t).last = t
<1> DEFINE gain == (t - b.last) * rate
<1>1. b.tokens \in Nat /\ b.last \in Nat
  BY DEF Bucket
<1>2. gain \in Nat
  BY <1>1
<1> HIDE DEF gain
<1>3. Refilled(b, cap, rate, t) = [tokens |-> AtMost(cap, b.tokens + gain), last |-> t]
  BY DEF Refilled, gain
<1> QED
  BY <1>1, <1>2, <1>3 DEF AtMost, Bucket

\* A second refill at the same instant changes nothing.
LEMMA RefillAgain ==
    ASSUME NEW n \in Nat, NEW cap \in Nat, NEW rate \in Nat, NEW t \in Nat, n <= cap
    PROVE  Refilled([tokens |-> n, last |-> t], cap, rate, t).tokens = n
<1>1. (t - t) * rate = 0
  OBVIOUS
<1> QED
  BY <1>1 DEF Refilled, AtMost

\* A tick of the clock adds at most the rate.
LEMMA RefillTick ==
    ASSUME NEW b \in Bucket, NEW cap \in Nat, NEW rate \in Nat, NEW t \in Nat,
           b.last <= t
    PROVE  Refilled(b, cap, rate, t + 1).tokens <= Refilled(b, cap, rate, t).tokens + rate
<1> DEFINE gain == (t - b.last) * rate
<1>1. b.tokens \in Nat /\ b.last \in Nat
  BY DEF Bucket
<1>2. gain \in Nat
  BY <1>1
<1>3. ((t + 1) - b.last) * rate = gain + rate
  <2>1. t - b.last \in Int /\ (t + 1) - b.last = (t - b.last) + 1
    BY <1>1
  <2> QED
    BY <2>1, OneMore
<1> HIDE DEF gain
<1>4. Refilled(b, cap, rate, t).tokens = AtMost(cap, b.tokens + gain)
  BY DEF Refilled, gain
<1>5. Refilled(b, cap, rate, t + 1).tokens = AtMost(cap, b.tokens + (gain + rate))
  BY <1>3 DEF Refilled
<1> QED
  BY <1>1, <1>2, <1>4, <1>5 DEF AtMost

\* A refund adds at most a token, whether it comes before or after a refill.
LEMMA RefundBounds ==
    ASSUME NEW b \in Bucket, NEW cap \in Nat, NEW rate \in Nat, NEW t \in Nat,
           b.tokens <= cap, b.last <= t
    PROVE  /\ Refunded(b, cap) \in Bucket
           /\ Refunded(b, cap).last = b.last
           /\ Refunded(b, cap).tokens <= cap
           /\ Refunded(b, cap).tokens >= AtMost(cap, b.tokens + Unit)
           /\ Refilled(Refunded(b, cap), cap, rate, t).tokens
                <= Refilled(b, cap, rate, t).tokens + Unit
<1> DEFINE gain == (t - b.last) * rate
<1>1. b.tokens \in Nat /\ b.last \in Nat /\ Unit \in Nat
  BY LimiterAssumption DEF Bucket
<1>2. gain \in Nat
  BY <1>1
<1>3. Refunded(b, cap) = [tokens |-> AtMost(cap, b.tokens + Unit), last |-> b.last]
  BY DEF Refunded, Bucket
<1>4. AtMost(cap, b.tokens + Unit) \in Nat
  BY <1>1 DEF AtMost
<1>5. Refilled(b, cap, rate, t).tokens = AtMost(cap, b.tokens + gain)
  BY DEF Refilled
<1>6. Refilled(Refunded(b, cap), cap, rate, t).tokens
        = AtMost(cap, AtMost(cap, b.tokens + Unit) + gain)
  BY <1>3 DEF Refilled
<1> HIDE DEF gain
<1>7. AtMost(cap, AtMost(cap, b.tokens + Unit) + gain) <= AtMost(cap, b.tokens + gain) + Unit
  BY <1>1, <1>2 DEF AtMost
<1>8. AtMost(cap, b.tokens + Unit) <= cap
  BY <1>1 DEF AtMost
<1> QED
  BY <1>1, <1>3, <1>4, <1>5, <1>6, <1>7, <1>8 DEF Bucket

\* An attempt takes a token or nothing.
LEMMA TakeBounds ==
    ASSUME NEW b \in Bucket
    PROVE  /\ Takes(b) => Taken(b) = [tokens |-> b.tokens - Unit, last |-> b.last]
           /\ Takes(b) => b.tokens - Unit \in Nat
           /\ ~Takes(b) => Taken(b) = b
BY LimiterAssumption DEF Takes, Taken, Bucket

-----------------------------------------------------------------------------
\* The inductive invariant.

\* The types of what the global bucket depends on.
GlobalTypes ==
    /\ now \in Nat
    /\ global \in Bucket
    /\ global.tokens <= GlobalCap
    /\ global.last <= now
    /\ spent \in Int
    /\ mark \in [time : Nat, spent : Int]
    /\ mark.time <= now

Level == GlobalNow.tokens

\* What could still be taken at this instant counts with what was.
WindowInv ==
    Level + Unit * (spent - mark.spent) <= GlobalCap + GlobalRate * (now - mark.time)

\* Callers that hold a global token which may still come back.
Busy(calls) == {c \in Caller : calls[c] # "idle"}

InFlight == Busy(call)

\* Each of them is counted in spent: a refund is of a token that was taken.
InFlightSpent ==
    /\ call \in [Caller -> {"idle", "work", "refund"}]
    /\ spent >= Cardinality(InFlight)

GlobalInv == GlobalTypes /\ InFlightSpent /\ WindowInv /\ NoDrain

\* What the steps of the limiter do to the global bucket and to the ghosts:
\* an attempt that takes or not, a refund, a take that is refunded at once,
\* a tick, a mark, nothing.
LEMMA GlobalSteps ==
    ASSUME [Next]_vars
    PROVE  \/ /\ Takes(GlobalNow)
              /\ global' = Taken(GlobalNow)
              /\ spent' = spent + 1
              /\ UNCHANGED <<now, mark>>
           \/ /\ ~Takes(GlobalNow)
              /\ global' \in {GlobalNow, Taken(GlobalNow)}
              /\ UNCHANGED <<now, mark, spent>>
           \/ /\ \E c \in Caller : call[c] = "refund"
              /\ global' = Refunded(global, GlobalCap)
              /\ spent' = spent - 1
              /\ UNCHANGED <<now, mark>>
           \/ /\ Takes(GlobalNow)
              /\ global' = Refunded(Taken(GlobalNow), GlobalCap)
              /\ UNCHANGED <<now, mark, spent>>
           \/ now' = now + 1 /\ UNCHANGED <<global, mark, spent>>
           \/ mark' = [time |-> now, spent |-> spent] /\ UNCHANGED <<now, global, spent>>
           \/ UNCHANGED <<now, global, mark, spent>>
<1>1. CASE \E c \in Caller : CheckGlobal(c) \/ Reject(c) \/ RefundGlobal(c)
  BY <1>1 DEF CheckGlobal, Reject, RefundGlobal
<1>2. CASE \E c \in Caller, i \in Identity : CheckIdentity(c, i)
  BY <1>2 DEF CheckIdentity
<1>3. CASE \E i \in Identity : Allow(i)
  BY <1>3 DEF Allow
<1>4. CASE Tick
  BY <1>4 DEF Tick
<1>5. CASE Mark
  BY <1>5 DEF Mark
<1>6. CASE UNCHANGED vars
  BY <1>6 DEF vars
<1> QED
  BY <1>1, <1>2, <1>3, <1>4, <1>5, <1>6 DEF Next

\* The callers under way are finitely many; one that starts or ends changes
\* their number by one.
LEMMA BusyCount ==
    ASSUME NEW f \in [Caller -> {"idle", "work", "refund"}], NEW c \in Caller,
           NEW pc \in {"idle", "work", "refund"}
    PROVE  LET g == [f EXCEPT ![c] = pc] IN
           /\ Cardinality(Busy(f)) \in Nat
           /\ g \in [Caller -> {"idle", "work", "refund"}]
           /\ f[c] # "idle" => Cardinality(Busy(f)) >= 1
           /\ Cardinality(Busy(g)) <= Cardinality(Busy(f)) + 1
           /\ f[c] # "idle" => Cardinality(Busy(g)) <= Cardinality(Busy(f))
           /\ f[c] # "idle" /\ pc = "idle"
                => Cardinality(Busy(g)) = Cardinality(Busy(f)) - 1
<1> DEFINE g == [f EXCEPT ![c] = pc]
<1>1. IsFiniteSet(Caller)
  BY LimiterAssumption
<1>2. Busy(f) \subseteq Caller
  BY DEF Busy
<1>3. IsFiniteSet(Busy(f))
  BY <1>1, <1>2, FS_Subset
<1>4. Cardinality(Busy(f)) \in Nat
  BY <1>3, FS_CardinalityType
<1>5. g \in [Caller -> {"idle", "work", "refund"}]
  OBVIOUS
<1>6. pc = "idle" => Busy(g) = Busy(f) \ {c}
  BY DEF Busy
<1>7. pc # "idle" => Busy(g) = Busy(f) \cup {c}
  BY DEF Busy
<1>8. c \in Busy(f) <=> f[c] # "idle"
  BY DEF Busy
<1>9. Cardinality(Busy(f) \cup {c})
        = IF c \in Busy(f) THEN Cardinality(Busy(f)) ELSE Cardinality(Busy(f)) + 1
  BY <1>3, FS_AddElement
<1>10. Cardinality(Busy(f) \ {c})
        = IF c \in Busy(f) THEN Cardinality(Busy(f)) - 1 ELSE Cardinality(Busy(f))
  BY <1>3, FS_RemoveElement
<1>11. f[c] # "idle" => Cardinality(Busy(f)) >= 1
  BY <1>3, <1>4, <1>8, FS_EmptySet
<1>12. \/ Cardinality(Busy(g)) = Cardinality(Busy(f) \ {c}) /\ pc = "idle"
       \/ Cardinality(Busy(g)) = Cardinality(Busy(f) \cup {c}) /\ pc # "idle"
  BY <1>6, <1>7
<1> HIDE DEF g
<1>13. /\ Cardinality(Busy(g)) <= Cardinality(Busy(f)) + 1
       /\ f[c] # "idle" => Cardinality(Busy(g)) <= Cardinality(Busy(f))
       /\ f[c] # "idle" /\ pc = "idle"
            => Cardinality(Busy(g)) = Cardinality(Busy(f)) - 1
  BY <1>4, <1>8, <1>9, <1>10, <1>12
<1> QED
  BY <1>4, <1>5, <1>11, <1>13 DEF g

LEMMA CallCount ==
    ASSUME call \in [Caller -> {"idle", "work", "refund"}], NEW c \in Caller,
           NEW pc \in {"idle", "work", "refund"}, call' = [call EXCEPT ![c] = pc]
    PROVE  /\ Cardinality(Busy(call)) \in Nat
           /\ Cardinality(Busy(call')) \in Nat
           /\ call' \in [Caller -> {"idle", "work", "refund"}]
           /\ Cardinality(Busy(call')) <= Cardinality(Busy(call)) + 1
           /\ call[c] # "idle" => Cardinality(Busy(call')) <= Cardinality(Busy(call))
           /\ call[c] # "idle" /\ pc = "idle"
                => Cardinality(Busy(call')) = Cardinality(Busy(call)) - 1
<1> DEFINE g == [call EXCEPT ![c] = pc]
<1>1. /\ Cardinality(Busy(call)) \in Nat
      /\ g \in [Caller -> {"idle", "work", "refund"}]
      /\ Cardinality(Busy(g)) <= Cardinality(Busy(call)) + 1
      /\ call[c] # "idle" => Cardinality(Busy(g)) <= Cardinality(Busy(call))
      /\ call[c] # "idle" /\ pc = "idle"
           => Cardinality(Busy(g)) = Cardinality(Busy(call)) - 1
  BY BusyCount
<1>2. Cardinality(Busy(g)) \in Nat
  BY <1>1, BusyCount
<1>3. call' = g
  OBVIOUS
<1> HIDE DEF g
<1> QED
  BY <1>1, <1>2, <1>3

LEMMA InFlightStep ==
    ASSUME InFlightSpent, spent \in Int, [Next]_vars
    PROVE  InFlightSpent'
<1>f. /\ call \in [Caller -> {"idle", "work", "refund"}]
      /\ spent >= Cardinality(Busy(call))
  BY DEF InFlightSpent, InFlight
<1>s. SUFFICES /\ call' \in [Caller -> {"idle", "work", "refund"}]
               /\ spent' >= Cardinality(Busy(call'))
  BY DEF InFlightSpent, InFlight
<1> DEFINE Goal == /\ call' \in [Caller -> {"idle", "work", "refund"}]
                   /\ spent' >= Cardinality(Busy(call'))
<1>0. CASE UNCHANGED <<call, spent>>
  BY <1>0, <1>f
<1>1. ASSUME NEW c \in Caller, CheckGlobal(c) PROVE Goal
  <2>1. CASE call' = [call EXCEPT ![c] = "work"] /\ spent' = spent + 1
    <3>1. /\ Cardinality(Busy(call)) \in Nat
          /\ Cardinality(Busy(call')) \in Nat
          /\ call' \in [Caller -> {"idle", "work", "refund"}]
          /\ Cardinality(Busy(call')) <= Cardinality(Busy(call)) + 1
      BY <2>1, <1>f, CallCount
    <3> QED
      BY <2>1, <3>1, <1>f
  <2> QED
    BY <1>0, <1>1, <2>1 DEF CheckGlobal
<1>2. ASSUME NEW c \in Caller, Reject(c) PROVE Goal
  <2>1. call' = [call EXCEPT ![c] = "idle"] /\ spent' = spent /\ call[c] # "idle"
    BY <1>2 DEF Reject
  <2>2. /\ Cardinality(Busy(call)) \in Nat
        /\ Cardinality(Busy(call')) \in Nat
        /\ call' \in [Caller -> {"idle", "work", "refund"}]
        /\ Cardinality(Busy(call')) <= Cardinality(Busy(call))
    BY <2>1, <1>f, CallCount
  <2> QED
    BY <2>1, <2>2, <1>f
<1>3. ASSUME NEW c \in Caller, RefundGlobal(c) PROVE Goal
  <2>1. call' = [call EXCEPT ![c] = "idle"] /\ spent' = spent - 1 /\ call[c] # "idle"
    BY <1>3 DEF RefundGlobal
  <2>2. /\ Cardinality(Busy(call)) \in Nat
        /\ Cardinality(Busy(call')) \in Nat
        /\ call' \in [Caller -> {"idle", "work", "refund"}]
        /\ Cardinality(Busy(call')) = Cardinality(Busy(call)) - 1
    BY <2>1, <1>f, CallCount
  <2> QED
    BY <2>1, <2>2, <1>f
<1>4. ASSUME NEW c \in Caller, NEW i \in Identity, CheckIdentity(c, i) PROVE Goal
  <2>1. PICK pc \in {"idle", "refund"} : call' = [call EXCEPT ![c] = pc]
    BY <1>4 DEF CheckIdentity
  <2>2. call[c] # "idle" /\ spent' = spent
    BY <1>4 DEF CheckIdentity
  <2>3. /\ Cardinality(Busy(call)) \in Nat
        /\ Cardinality(Busy(call')) \in Nat
        /\ call' \in [Caller -> {"idle", "work", "refund"}]
        /\ Cardinality(Busy(call')) <= Cardinality(Busy(call))
    BY <2>1, <2>2, <1>f, CallCount
  <2> QED
    BY <2>2, <2>3, <1>f
<1>5. ASSUME NEW i \in Identity, Allow(i) PROVE Goal
  <2>1. call' = call /\ spent' \in {spent, spent + 1}
    BY <1>5 DEF Allow
  <2>2. Cardinality(Busy(call)) \in Nat
    BY LimiterAssumption, FS_Subset, FS_CardinalityType DEF Busy
  <2> QED
    BY <2>1, <2>2, <1>f
<1> QED
  BY <1>0, <1>1, <1>2, <1>3, <1>4, <1>5 DEF Next, Tick, Mark, vars

LEMMA GlobalInit == Init => GlobalInv
<1> SUFFICES ASSUME Init PROVE GlobalInv
  OBVIOUS
<1> USE LimiterAssumption
<1>1. GlobalTypes
  BY DEF Init, GlobalTypes, Fresh, Bucket
<1>2. Level = GlobalCap
  BY RefillAgain DEF Init, Level, GlobalNow, Fresh
<1>3. WindowInv
  BY <1>2 DEF Init, WindowInv
<1>4. NoDrain
  BY DEF Init, NoDrain, Fresh
<1>5. InFlightSpent
  <2>1. InFlight = {}
    BY DEF Init, InFlight, Busy
  <2>2. Cardinality(InFlight) = 0
    BY <2>1, FS_EmptySet
  <2> QED
    BY <2>2 DEF Init, InFlightSpent
<1> QED
  BY <1>1, <1>3, <1>4, <1>5 DEF GlobalInv

LEMMA GlobalStep == GlobalInv /\ [Next]_vars => GlobalInv'
<1> SUFFICES ASSUME GlobalInv, [Next]_vars PROVE GlobalInv'
  OBVIOUS
<1>c. Unit \in Nat /\ GlobalCap \in Nat /\ GlobalRate \in Nat
  BY LimiterAssumption
<1>t. GlobalTypes
  BY DEF GlobalInv
<1>f. InFlightSpent'
  BY <1>t, InFlightStep DEF GlobalInv, GlobalTypes
<1>m. mark.time \in Nat /\ mark.spent \in Int /\ mark.time <= now
  BY <1>t DEF GlobalTypes
<1>g. /\ GlobalNow \in Bucket
      /\ GlobalNow.tokens <= GlobalCap
      /\ GlobalNow.tokens >= global.tokens
      /\ GlobalNow.last = now
  BY <1>c, <1>t, RefillBounds DEF GlobalTypes, GlobalNow
<1>l. Level \in Nat /\ Level <= GlobalCap /\ Level >= global.tokens
  BY <1>g DEF Level, Bucket
<1>w. Level + Unit * (spent - mark.spent) <= GlobalCap + GlobalRate * (now - mark.time)
  BY DEF GlobalInv, WindowInv
<1>n. global.tokens >= GlobalCap - Unit * spent
  BY DEF GlobalInv, NoDrain
<1>a. Level >= GlobalCap - Unit * spent
  BY <1>c, <1>l, <1>n, <1>t DEF GlobalTypes, Bucket
<1>1. CASE /\ Takes(GlobalNow)
           /\ global' = Taken(GlobalNow)
           /\ spent' = spent + 1
           /\ UNCHANGED <<now, mark>>
  <2>1. global' = [tokens |-> Level - Unit, last |-> now] /\ Level - Unit \in Nat
    BY <1>1, <1>g, TakeBounds DEF Level
  <2>2. GlobalTypes'
    BY <2>1, <1>1, <1>t, <1>l, <1>c DEF GlobalTypes, Bucket
  <2>3. Level' = Level - Unit
    <3>1. Level - Unit <= GlobalCap
      BY <1>l, <1>c
    <3>2. now \in Nat
      BY <1>t DEF GlobalTypes
    <3>3. Refilled([tokens |-> Level - Unit, last |-> now], GlobalCap, GlobalRate, now).tokens
            = Level - Unit
      BY <2>1, <3>1, <3>2, <1>c, RefillAgain
    <3> QED
      BY <2>1, <3>3, <1>1 DEF Level, GlobalNow
  <2>4. /\ Unit * (spent' - mark.spent) = Unit * (spent - mark.spent) + Unit
        /\ Unit * spent' = Unit * spent + Unit
    BY <1>1, <1>c, <1>m, <1>t DEF GlobalTypes
  <2>5. Unit * (spent - mark.spent) \in Int /\ Unit * spent \in Int
        /\ GlobalRate * (now - mark.time) \in Int
    BY <1>c, <1>m, <1>t DEF GlobalTypes
  <2>6. WindowInv'
    BY <2>3, <2>4, <2>5, <1>w, <1>1, <1>l, <1>c DEF WindowInv
  <2>7. NoDrain'
    BY <2>1, <2>4, <2>5, <1>a, <1>l, <1>c DEF NoDrain
  <2> QED
    BY <2>2, <2>6, <2>7, <1>f DEF GlobalInv
<1>2. CASE /\ ~Takes(GlobalNow)
           /\ global' \in {GlobalNow, Taken(GlobalNow)}
           /\ UNCHANGED <<now, mark, spent>>
  <2>1. global' = GlobalNow
    BY <1>2, <1>g, TakeBounds
  <2>2. global' = [tokens |-> Level, last |-> now]
    BY <2>1, <1>g DEF Level, Bucket
  <2>3. GlobalTypes'
    BY <2>2, <1>2, <1>t, <1>l DEF GlobalTypes, Bucket
  <2>4. now \in Nat
    BY <1>t DEF GlobalTypes
  <2>5. Level' = Level
    <3>1. Refilled([tokens |-> Level, last |-> now], GlobalCap, GlobalRate, now).tokens = Level
      BY <2>4, <1>c, <1>l, RefillAgain
    <3> QED
      BY <2>2, <3>1, <1>2 DEF Level, GlobalNow
  <2>6. WindowInv'
    BY <2>5, <1>w, <1>2 DEF WindowInv
  <2>7. NoDrain'
    BY <2>2, <1>a, <1>2 DEF NoDrain
  <2> QED
    BY <2>3, <2>6, <2>7, <1>f DEF GlobalInv
<1>3. CASE /\ \E c \in Caller : call[c] = "refund"
           /\ global' = Refunded(global, GlobalCap)
           /\ spent' = spent - 1
           /\ UNCHANGED <<now, mark>>
  <2>1. /\ global' \in Bucket
        /\ global'.last = global.last
        /\ global'.tokens <= GlobalCap
        /\ global'.tokens >= AtMost(GlobalCap, global.tokens + Unit)
        /\ Refilled(global', GlobalCap, GlobalRate, now).tokens <= Level + Unit
    BY <1>3, <1>c, <1>t, RefundBounds DEF GlobalTypes, Level, GlobalNow
  <2>2. GlobalTypes'
    BY <2>1, <1>3, <1>t DEF GlobalTypes
  <2>3. Level' <= Level + Unit
    BY <2>1, <1>3 DEF Level, GlobalNow
  <2>4. Level' \in Nat
    BY <2>2, <1>c, RefillBounds, <1>3 DEF GlobalTypes, Level, GlobalNow, Bucket
  <2>5. /\ Unit * (spent' - mark.spent) = Unit * (spent - mark.spent) - Unit
        /\ Unit * spent' = Unit * spent - Unit
    BY <1>3, <1>c, <1>m, <1>t DEF GlobalTypes
  <2>6. Unit * (spent - mark.spent) \in Int /\ Unit * spent \in Int
        /\ GlobalRate * (now - mark.time) \in Int
    BY <1>c, <1>m, <1>t DEF GlobalTypes
  <2>7. WindowInv'
    BY <2>3, <2>4, <2>5, <2>6, <1>w, <1>3, <1>l, <1>c DEF WindowInv
  <2>8. NoDrain'
    <3>1. global.tokens \in Nat /\ global'.tokens \in Nat
      BY <1>t, <2>1 DEF GlobalTypes, Bucket
    <3>2. CASE global.tokens + Unit <= GlobalCap
      BY <3>1, <3>2, <2>1, <2>5, <2>6, <1>n, <1>c DEF NoDrain, AtMost
    <3>3. CASE global.tokens + Unit > GlobalCap
      <4>1. global'.tokens >= GlobalCap
        BY <3>1, <3>3, <2>1, <1>c DEF AtMost
      <4>2. spent >= 1
        <5>1. PICK c \in Caller : call[c] = "refund"
          BY <1>3
        <5>2. c \in InFlight
          BY <5>1 DEF InFlight, Busy
        <5>3. IsFiniteSet(InFlight)
          BY LimiterAssumption, FS_Subset DEF InFlight, Busy
        <5>4. Cardinality(InFlight) \in Nat /\ Cardinality(InFlight) # 0
          BY <5>2, <5>3, FS_EmptySet, FS_CardinalityType
        <5> QED
          BY <5>4, <1>t DEF GlobalInv, InFlightSpent, GlobalTypes
      <4>3. spent - 1 \in Nat
        BY <4>2, <1>t DEF GlobalTypes
      <4>4. Unit * spent' \in Nat
        BY <4>3, <1>c, <1>3, Product
      <4> QED
        BY <4>1, <4>4, <3>1, <1>c DEF NoDrain
    <3> QED
      BY <3>1, <3>2, <3>3, <1>c
  <2> QED
    BY <2>2, <2>7, <2>8, <1>f DEF GlobalInv
<1>4. CASE /\ Takes(GlobalNow)
           /\ global' = Refunded(Taken(GlobalNow), GlobalCap)
           /\ UNCHANGED <<now, mark, spent>>
  <2>1. Taken(GlobalNow) = [tokens |-> Level - Unit, last |-> now] /\ Level - Unit \in Nat
    BY <1>4, <1>g, TakeBounds DEF Level
  <2>2. global' = [tokens |-> Level, last |-> now]
    BY <2>1, <1>4, <1>l, <1>c DEF Refunded, AtMost
  <2>3. GlobalTypes'
    BY <2>2, <1>4, <1>t, <1>l DEF GlobalTypes, Bucket
  <2>4. now \in Nat
    BY <1>t DEF GlobalTypes
  <2>5. Level' = Level
    <3>1. Refilled([tokens |-> Level, last |-> now], GlobalCap, GlobalRate, now).tokens = Level
      BY <2>4, <1>c, <1>l, RefillAgain
    <3> QED
      BY <2>2, <3>1, <1>4 DEF Level, GlobalNow
  <2>6. WindowInv'
    BY <2>5, <1>w, <1>4 DEF WindowInv
  <2>7. NoDrain'
    BY <2>2, <1>a, <1>4 DEF NoDrain
  <2> QED
    BY <2>3, <2>6, <2>7, <1>f DEF GlobalInv
<1>5. CASE now' = now + 1 /\ UNCHANGED <<global, mark, spent>>
  <2>1. GlobalTypes'
    BY <1>5, <1>t, <1>m DEF GlobalTypes, Bucket
  <2>2. Level' <= Level + GlobalRate
    BY <1>5, <1>t, <1>c, RefillTick DEF GlobalTypes, Level, GlobalNow
  <2>3. Level' \in Nat
    BY <2>1, <1>c, RefillBounds, <1>5 DEF GlobalTypes, Level, GlobalNow, Bucket
  <2>4. GlobalRate * (now' - mark.time) = GlobalRate * (now - mark.time) + GlobalRate
    BY <1>5, <1>c, <1>m, <1>t DEF GlobalTypes
  <2>5. Unit * (spent - mark.spent) \in Int /\ GlobalRate * (now - mark.time) \in Int
    BY <1>c, <1>m, <1>t DEF GlobalTypes
  <2>6. WindowInv'
    BY <2>2, <2>3, <2>4, <2>5, <1>w, <1>5, <1>l, <1>c DEF WindowInv
  <2>7. NoDrain'
    BY <1>n, <1>5 DEF NoDrain
  <2> QED
    BY <2>1, <2>6, <2>7, <1>f DEF GlobalInv
<1>6. CASE mark' = [time |-> now, spent |-> spent] /\ UNCHANGED <<now, global, spent>>
  <2>1. GlobalTypes'
    BY <1>6, <1>t DEF GlobalTypes
  <2>2. Level' = Level
    BY <1>6 DEF Level, GlobalNow
  <2>3. now' - mark'.time = 0 /\ spent' - mark'.spent = 0
    BY <1>6, <1>t DEF GlobalTypes
  <2>4. Unit * 0 = 0 /\ GlobalRate * 0 = 0
    BY <1>c
  <2>5. WindowInv'
    BY <2>2, <2>3, <2>4, <1>l, <1>c DEF WindowInv
  <2>6. NoDrain'
    BY <1>n, <1>6 DEF NoDrain
  <2> QED
    BY <2>1, <2>5, <2>6, <1>f DEF GlobalInv
<1>7. CASE UNCHANGED <<now, global, mark, spent>>
  <2>1. GlobalTypes' /\ WindowInv' /\ NoDrain'
    BY <1>7, <1>t, <1>w, <1>n DEF GlobalTypes, WindowInv, NoDrain, Level, GlobalNow
  <2> QED
    BY <2>1, <1>f DEF GlobalInv
<1> QED
  BY <1>1, <1>2, <1>3, <1>4, <1>5, <1>6, <1>7, GlobalSteps

LEMMA GlobalAlways == Spec => []GlobalInv
BY GlobalInit, GlobalStep, PTL DEF Spec

-----------------------------------------------------------------------------
\* Over any stretch of time the relay lets no more past the global bucket
\* than its capacity and the refill of the stretch, whatever the number of
\* identities, the size of the pool and the order of takes and refunds.
THEOREM BackstopHolds == Spec => []GlobalBackstop
<1>1. GlobalInv => GlobalBackstop
  <2> SUFFICES ASSUME GlobalInv PROVE GlobalBackstop
    OBVIOUS
  <2>1. GlobalTypes /\ WindowInv
    BY DEF GlobalInv
  <2>2. Level \in Nat
    BY <2>1, LimiterAssumption, RefillBounds DEF GlobalTypes, Level, GlobalNow, Bucket
  <2>3. /\ Unit * (spent - mark.spent) \in Int
        /\ GlobalRate * (now - mark.time) \in Int
        /\ GlobalCap \in Nat
    BY <2>1, LimiterAssumption DEF GlobalTypes
  <2> QED
    BY <2>1, <2>2, <2>3 DEF WindowInv, GlobalBackstop
<1> QED
  BY <1>1, GlobalAlways, PTL

\* What an identity over its own limit tries does not take from the global
\* bucket: all that is missing from it was spent by others.
THEOREM DrainBounded == Spec => []NoDrain
<1>1. GlobalInv => NoDrain
  BY DEF GlobalInv
<1> QED
  BY <1>1, GlobalAlways, PTL

\* Time that refills a token lets a request through, if the bucket can hold
\* one: an "N per minute" setting is the rate it says.
THEOREM RateSustained == ASSUME GlobalCap >= Unit PROVE Spec => []SustainedRate
<1>1. GlobalInv => SustainedRate
  <2> SUFFICES ASSUME GlobalInv, (now - global.last) * GlobalRate >= Unit PROVE Takes(GlobalNow)
    BY DEF SustainedRate
  <2> DEFINE gain == (now - global.last) * GlobalRate
  <2>1. global.tokens \in Nat /\ global.last \in Nat /\ now \in Nat
    BY DEF GlobalInv, GlobalTypes, Bucket
  <2>2. gain \in Int /\ gain >= Unit
    BY <2>1, LimiterAssumption
  <2>3. GlobalNow.tokens = AtMost(GlobalCap, global.tokens + gain)
    BY DEF GlobalNow, Refilled
  <2> HIDE DEF gain
  <2> QED
    BY <2>1, <2>2, <2>3, LimiterAssumption DEF AtMost, Takes
<1> QED
  BY <1>1, GlobalAlways, PTL

-----------------------------------------------------------------------------
\* Facts about the order of the pool.

\* What is left of a sequence without its element n.
LEMMA TakenOut ==
    ASSUME NEW S, NEW s \in Seq(S), NEW n \in 1 .. Len(s)
    PROVE  LET r == SubSeq(s, 1, n - 1) \o SubSeq(s, n + 1, Len(s)) IN
           /\ r \in Seq(S)
           /\ Len(r) = Len(s) - 1
           /\ \A m \in 1 .. Len(s) - 1 : r[m] = s[IF m < n THEN m ELSE m + 1]
<1> DEFINE a == SubSeq(s, 1, n - 1)
           b == SubSeq(s, n + 1, Len(s))
           r == a \o b
<1>0. Len(s) \in Nat /\ \A m \in 1 .. Len(s) : s[m] \in S
  BY LenProperties, ElementOfSeq
<1>1. /\ a \in Seq(S) /\ Len(a) = n - 1
      /\ \A m \in 1 .. n - 1 : a[m] = s[m]
  <2>1. \A m \in 1 .. n - 1 : s[m] \in S
    BY <1>0
  <2>2. /\ SubSeq(s, 1, n - 1) \in Seq(S)
        /\ Len(SubSeq(s, 1, n - 1)) = IF 1 <= n - 1 THEN n - 1 - 1 + 1 ELSE 0
        /\ \A m \in 1 .. n - 1 - 1 + 1 : SubSeq(s, 1, n - 1)[m] = s[1 + m - 1]
    BY <1>0, <2>1, SubSeqProperties
  <2> QED
    BY <1>0, <2>2
<1>2. /\ b \in Seq(S) /\ Len(b) = Len(s) - n
      /\ \A m \in 1 .. Len(s) - n : b[m] = s[n + m]
  <2>1. \A m \in n + 1 .. Len(s) : s[m] \in S
    BY <1>0
  <2>2. /\ SubSeq(s, n + 1, Len(s)) \in Seq(S)
        /\ Len(SubSeq(s, n + 1, Len(s))) =
             IF n + 1 <= Len(s) THEN Len(s) - (n + 1) + 1 ELSE 0
        /\ \A m \in 1 .. Len(s) - (n + 1) + 1 :
             SubSeq(s, n + 1, Len(s))[m] = s[(n + 1) + m - 1]
    BY <1>0, <2>1, SubSeqProperties
  <2> QED
    BY <1>0, <2>2
<1> SUFFICES /\ r \in Seq(S)
             /\ Len(r) = Len(s) - 1
             /\ \A m \in 1 .. Len(s) - 1 : r[m] = s[IF m < n THEN m ELSE m + 1]
  OBVIOUS
<1> HIDE DEF a, b
<1>3. /\ r \in Seq(S)
      /\ Len(r) = Len(a) + Len(b)
      /\ \A m \in 1 .. Len(a) + Len(b) : r[m] = IF m <= Len(a) THEN a[m] ELSE b[m - Len(a)]
  BY <1>1, <1>2, ConcatProperties
<1> HIDE DEF r
<1>4. Len(r) = Len(s) - 1
  BY <1>0, <1>1, <1>2, <1>3
<1>5. ASSUME NEW m \in 1 .. Len(s) - 1 PROVE r[m] = s[IF m < n THEN m ELSE m + 1]
  <2>1. CASE m < n
    <3>1. m \in 1 .. n - 1 /\ m \in 1 .. Len(a) + Len(b) /\ m <= Len(a)
      BY <1>0, <1>1, <1>2, <2>1
    <3> QED
      BY <1>1, <1>3, <2>1, <3>1
  <2>2. CASE m >= n
    <3>1. /\ m - Len(a) \in 1 .. Len(s) - n
          /\ m \in 1 .. Len(a) + Len(b)
          /\ ~(m <= Len(a)) /\ ~(m < n)
          /\ n + (m - Len(a)) = m + 1
      BY <1>0, <1>1, <1>2, <2>2
    <3> QED
      BY <1>2, <1>3, <3>1
  <2> QED
    BY <1>0, <2>1, <2>2
<1> QED
  BY <1>3, <1>4, <1>5

LEMMA OthersIs ==
    ASSUME NEW S, NEW s \in Seq(S), NEW i
    PROVE  /\ Others(s, i) \in Seq(S)
           /\ ~Occurs(i, s) => Others(s, i) = s
           /\ Occurs(i, s) =>
                \E n \in 1 .. Len(s) :
                   /\ s[n] = i
                   /\ Len(Others(s, i)) = Len(s) - 1
                   /\ \A m \in 1 .. Len(s) - 1 :
                        Others(s, i)[m] = s[IF m < n THEN m ELSE m + 1]
<1>1. CASE ~Occurs(i, s)
  BY <1>1 DEF Others
<1>2. CASE Occurs(i, s)
  <2> DEFINE n == CHOOSE n \in DOMAIN s : s[n] = i
  <2>1. n \in 1 .. Len(s) /\ s[n] = i
    BY <1>2, LenProperties DEF Occurs
  <2>2. Others(s, i) = SubSeq(s, 1, n - 1) \o SubSeq(s, n + 1, Len(s))
    BY <1>2 DEF Others
  <2> HIDE DEF n
  <2>3. /\ Others(s, i) \in Seq(S)
        /\ Len(Others(s, i)) = Len(s) - 1
        /\ \A m \in 1 .. Len(s) - 1 : Others(s, i)[m] = s[IF m < n THEN m ELSE m + 1]
    BY <2>1, <2>2, TakenOut
  <2> QED
    BY <1>2, <2>1, <2>3
<1> QED
  BY <1>1, <1>2

\* Taking i out leaves every other identity in.
LEMMA OthersKept ==
    ASSUME NEW S, NEW s \in Seq(S), NEW i, NEW j, j # i
    PROVE  Occurs(j, Others(s, i)) <=> Occurs(j, s)
<1>1. CASE ~Occurs(i, s)
  BY <1>1, OthersIs
<1>2. CASE Occurs(i, s)
  <2> DEFINE r == Others(s, i)
  <2>1. PICK n \in 1 .. Len(s) :
             /\ s[n] = i
             /\ Len(r) = Len(s) - 1
             /\ \A m \in 1 .. Len(s) - 1 : r[m] = s[IF m < n THEN m ELSE m + 1]
    BY <1>2, OthersIs
  <2>2. Len(s) \in Nat /\ DOMAIN s = 1 .. Len(s)
    BY LenProperties
  <2>3. DOMAIN r = 1 .. Len(s) - 1
    BY <2>1, OthersIs, LenProperties
  <2> HIDE DEF r
  <2>4. ASSUME NEW m \in DOMAIN r, r[m] = j PROVE Occurs(j, s)
    BY <2>1, <2>2, <2>3, <2>4 DEF Occurs
  <2>5. ASSUME NEW m \in DOMAIN s, s[m] = j PROVE Occurs(j, r)
    <3>1. CASE m < n
      <4>1. m \in DOMAIN r /\ r[m] = j
        BY <2>1, <2>2, <2>3, <2>5, <3>1
      <4> QED
        BY <4>1 DEF Occurs
    <3>2. CASE m > n
      <4>1. m - 1 \in DOMAIN r /\ r[m - 1] = j
        BY <2>1, <2>2, <2>3, <2>5, <3>2
      <4> QED
        BY <4>1 DEF Occurs
    <3>3. m # n
      BY <2>1, <2>5
    <3> QED
      BY <2>2, <3>1, <3>2, <3>3
  <2> QED
    BY <2>4, <2>5 DEF Occurs, r
<1> QED
  BY <1>1, <1>2

\* Appending an element adds just that one, and the tail lacks at most the head.
LEMMA AppendOccurs ==
    ASSUME NEW S, NEW s \in Seq(S), NEW i \in S, NEW j
    PROVE  Occurs(j, Append(s, i)) <=> j = i \/ Occurs(j, s)
<1>1. /\ Append(s, i) \in Seq(S)
      /\ Len(Append(s, i)) = Len(s) + 1
      /\ \A m \in 1 .. Len(s) : Append(s, i)[m] = s[m]
      /\ Append(s, i)[Len(s) + 1] = i
  BY AppendProperties
<1>2. /\ Len(s) \in Nat /\ DOMAIN s = 1 .. Len(s)
      /\ DOMAIN Append(s, i) = 1 .. Len(s) + 1
  BY <1>1, LenProperties
<1> QED
  BY <1>1, <1>2 DEF Occurs

LEMMA TailOccurs ==
    ASSUME NEW S, NEW s \in Seq(S), s # <<>>, NEW j
    PROVE  /\ Occurs(j, Tail(s)) => Occurs(j, s)
           /\ Occurs(j, s) /\ ~Occurs(j, Tail(s)) => j = Head(s)
<1>1. /\ Tail(s) \in Seq(S)
      /\ Len(Tail(s)) = Len(s) - 1
      /\ \A m \in 1 .. Len(s) - 1 : Tail(s)[m] = s[m + 1]
  BY HeadTailProperties
<1>h. Head(s) = s[1]
  <2>1. 1 \in 1 .. Len(s) /\ Len(s) \in 1 .. Len(s)
    BY EmptySeq
  <2> QED
    BY <2>1, HeadTailOfSubSeq, SubSeqFull
<1>2. /\ Len(s) \in Nat /\ DOMAIN s = 1 .. Len(s)
      /\ DOMAIN Tail(s) = 1 .. Len(s) - 1
  BY <1>1, LenProperties
<1>3. ASSUME NEW m \in DOMAIN Tail(s), Tail(s)[m] = j PROVE Occurs(j, s)
  <2>1. m + 1 \in DOMAIN s /\ s[m + 1] = j
    BY <1>1, <1>2, <1>3
  <2> QED
    BY <2>1 DEF Occurs
<1>4. ASSUME NEW m \in DOMAIN s, s[m] = j, ~Occurs(j, Tail(s)) PROVE j = Head(s)
  <2>1. CASE m = 1
    BY <1>h, <1>4, <2>1
  <2>2. CASE m > 1
    <3>1. m - 1 \in DOMAIN Tail(s) /\ Tail(s)[m - 1] = j
      BY <1>1, <1>2, <1>4, <2>2
    <3> QED
      BY <1>4, <3>1 DEF Occurs
  <2> QED
    BY <1>2, <2>1, <2>2
<1> QED
  BY <1>3, <1>4 DEF Occurs

\* A bucket that is used is the last of the order; the eviction, if there is
\* one, is of the head.
LEMMA PoolStep ==
    ASSUME NEW i \in Identity, order \in Seq(Identity), UseBucket(i)
    PROVE  /\ Touched(i) \in Seq(Identity) /\ Touched(i) # <<>>
           /\ Head(Touched(i)) \in Identity
           /\ order' \in Seq(Identity)
           /\ \A j : Pooled(j)' => j = i \/ Pooled(j)
           /\ \A j : (j = i \/ Pooled(j)) /\ ~Pooled(j)'
                        => Full(Touched(i)) /\ j = Head(Touched(i))
<1> DEFINE t == Touched(i)
<1>1. Others(order, i) \in Seq(Identity)
  BY OthersIs
<1>2. t \in Seq(Identity) /\ t # <<>>
  BY <1>1, AppendProperties DEF Touched
<1>3. Head(t) \in Identity /\ Tail(t) \in Seq(Identity)
  BY <1>2, HeadTailProperties
<1>4. \A j : Occurs(j, t) <=> j = i \/ Occurs(j, order)
  BY <1>1, AppendOccurs, OthersKept DEF Touched
<1> HIDE DEF t
<1>5. order' = IF Full(t) THEN Tail(t) ELSE t
  BY DEF UseBucket, t
<1>6. \A j : Occurs(j, order') => Occurs(j, t)
  BY <1>2, <1>5, TailOccurs
<1>7. \A j : Occurs(j, t) /\ ~Occurs(j, order') => Full(t) /\ j = Head(t)
  BY <1>2, <1>5, TailOccurs
<1> QED
  BY <1>2, <1>3, <1>4, <1>5, <1>6, <1>7 DEF Pooled, t

-----------------------------------------------------------------------------
\* What an identity has been let through is paid for by its bucket. As for
\* the global bucket, what counts is what the bucket would hold now, and an
\* identity without a bucket would get a full one: an eviction gives back
\* what the identity had spent, at most one capacity.

PoolTypes ==
    /\ now \in Nat
    /\ buckets \in [Identity -> Bucket]
    /\ \A i \in Identity : buckets[i].tokens <= IdentityCap /\ buckets[i].last <= now
    /\ order \in Seq(Identity)
    /\ admitted \in [Identity -> Nat]
    /\ evicted \in [Identity -> Nat]

Due(i) == IdentityCap * (1 + evicted[i]) + IdentityRate * now

Paid == \A i \in Identity : BucketOf(i).tokens + Unit * admitted[i] <= Due(i)

BudgetInv == PoolTypes /\ Paid

\* The bucket b of an identity, or a full one, brought to the instant t.
LEMMA BucketAt ==
    ASSUME NEW t \in Nat, NEW b \in Bucket, b.tokens <= IdentityCap, b.last <= t,
           NEW pooled \in BOOLEAN, NEW r,
           r = Refilled(IF pooled THEN b ELSE Fresh(IdentityCap, t),
                        IdentityCap, IdentityRate, t)
    PROVE  /\ r \in Bucket
           /\ r.tokens \in Nat
           /\ r.tokens <= IdentityCap
           /\ r.last = t
           /\ ~pooled => r.tokens = IdentityCap
<1> DEFINE c == IF pooled THEN b ELSE Fresh(IdentityCap, t)
<1>1. IdentityCap \in Nat /\ IdentityRate \in Nat
  BY LimiterAssumption
<1>2. c \in Bucket /\ c.tokens <= IdentityCap /\ c.last <= t
  BY <1>1 DEF Fresh, Bucket
<1>3. r = Refilled(c, IdentityCap, IdentityRate, t)
  OBVIOUS
<1>4. ~pooled => r.tokens = IdentityCap
  BY <1>1, RefillAgain DEF Fresh
<1> HIDE DEF c
<1>5. r \in Bucket /\ r.tokens <= IdentityCap /\ r.last = t
  BY <1>1, <1>2, <1>3, RefillBounds
<1> QED
  BY <1>4, <1>5 DEF Bucket

LEMMA BucketNow ==
    ASSUME PoolTypes, NEW i \in Identity
    PROVE  /\ BucketOf(i) \in Bucket
           /\ BucketOf(i).tokens \in Nat
           /\ BucketOf(i).tokens <= IdentityCap
           /\ BucketOf(i).last = now
           /\ ~Pooled(i) => BucketOf(i).tokens = IdentityCap
<1>1. /\ now \in Nat /\ buckets[i] \in Bucket
      /\ buckets[i].tokens <= IdentityCap /\ buckets[i].last <= now
  BY DEF PoolTypes
<1>2. Pooled(i) \in BOOLEAN
  BY DEF Pooled, Occurs
<1> QED
  BY <1>1, <1>2, BucketAt DEF BucketOf

LEMMA BucketNext ==
    ASSUME PoolTypes', NEW i \in Identity
    PROVE  /\ BucketOf(i)'.tokens \in Nat
           /\ BucketOf(i)'.tokens <= IdentityCap
           /\ ~Pooled(i)' => BucketOf(i)'.tokens = IdentityCap
<1>1. /\ now' \in Nat /\ buckets'[i] \in Bucket
      /\ buckets'[i].tokens <= IdentityCap /\ buckets'[i].last <= now'
  BY DEF PoolTypes
<1>2. Pooled(i)' \in BOOLEAN
  BY DEF Pooled, Occurs
<1> QED
  BY <1>1, <1>2, BucketAt DEF BucketOf

\* An identity is let through, or not, by its bucket.
Attempt(i) ==
    /\ UseBucket(i)
    /\ UNCHANGED now
    /\ \/ Takes(BucketOf(i)) /\ Admit(i)
       \/ ~Takes(BucketOf(i)) /\ UNCHANGED admitted

LEMMA AttemptTypes ==
    ASSUME PoolTypes, NEW i \in Identity, Attempt(i)
    PROVE  /\ PoolTypes'
           /\ buckets'[i] = [tokens |-> IF Takes(BucketOf(i)) THEN BucketOf(i).tokens - Unit
                                        ELSE BucketOf(i).tokens,
                             last |-> now]
           /\ \A j \in Identity \ {i} : buckets'[j] = buckets[j]
<1> DEFINE b == BucketOf(i)
           t == Taken(BucketOf(i))
<1>1. b \in Bucket /\ b.tokens \in Nat /\ b.tokens <= IdentityCap /\ b.last = now
  BY BucketNow
<1>2. t = [tokens |-> IF Takes(b) THEN b.tokens - Unit ELSE b.tokens, last |-> now]
  <2>1. CASE Takes(b)
    BY <1>1, <2>1, TakeBounds
  <2>2. CASE ~Takes(b)
    BY <1>1, <2>2, TakeBounds DEF Bucket
  <2> QED
    BY <2>1, <2>2
<1>3. (IF Takes(b) THEN b.tokens - Unit ELSE b.tokens) \in 0 .. IdentityCap
  BY <1>1, TakeBounds, LimiterAssumption
<1>4. buckets' = [buckets EXCEPT ![i] = t] /\ now' = now /\ now \in Nat
  BY DEF Attempt, UseBucket, PoolTypes
<1> HIDE DEF b, t
<1>5. t \in Bucket /\ t.tokens <= IdentityCap /\ t.last <= now
  BY <1>2, <1>3, <1>4 DEF Bucket
<1>6. /\ buckets' \in [Identity -> Bucket]
      /\ \A j \in Identity : buckets'[j].tokens <= IdentityCap /\ buckets'[j].last <= now'
      /\ buckets'[i] = t
      /\ \A j \in Identity \ {i} : buckets'[j] = buckets[j]
  BY <1>4, <1>5 DEF PoolTypes
<1>7. order' \in Seq(Identity) /\ Head(Touched(i)) \in Identity
  BY PoolStep DEF Attempt, PoolTypes
<1>8. admitted' \in [Identity -> Nat] /\ evicted' \in [Identity -> Nat]
  <2>1. /\ admitted \in [Identity -> Nat] /\ evicted \in [Identity -> Nat]
        /\ admitted' \in {admitted, [admitted EXCEPT ![i] = @ + 1]}
        /\ evicted' \in {evicted, [evicted EXCEPT ![Head(Touched(i))] = @ + 1]}
    BY DEF Attempt, UseBucket, Admit, PoolTypes
  <2>2. [admitted EXCEPT ![i] = @ + 1] \in [Identity -> Nat]
    BY <2>1
  <2>3. \A h \in Identity : [evicted EXCEPT ![h] = @ + 1] \in [Identity -> Nat]
    BY <2>1
  <2> QED
    BY <2>1, <2>2, <2>3, <1>7
<1> QED
  BY <1>2, <1>4, <1>6, <1>7, <1>8 DEF PoolTypes, b

LEMMA AttemptPaid ==
    ASSUME BudgetInv, NEW i \in Identity, Attempt(i)
    PROVE  BudgetInv'
<1>t. PoolTypes /\ Paid
  BY DEF BudgetInv
<1>c. Unit \in Nat /\ IdentityCap \in Nat /\ IdentityRate \in Nat /\ now \in Nat /\ now' = now
  BY <1>t, LimiterAssumption DEF PoolTypes, Attempt
<1>u. /\ PoolTypes'
      /\ buckets'[i] = [tokens |-> IF Takes(BucketOf(i)) THEN BucketOf(i).tokens - Unit
                                   ELSE BucketOf(i).tokens,
                        last |-> now]
      /\ \A j \in Identity \ {i} : buckets'[j] = buckets[j]
  BY <1>t, AttemptTypes
<1>p. /\ \A j : Pooled(j)' => j = i \/ Pooled(j)
      /\ \A j : (j = i \/ Pooled(j)) /\ ~Pooled(j)'
                  => Full(Touched(i)) /\ j = Head(Touched(i))
  BY <1>t, PoolStep DEF PoolTypes, Attempt
<1>e. evicted' = IF Full(Touched(i)) THEN [evicted EXCEPT ![Head(Touched(i))] = @ + 1]
                                     ELSE evicted
  BY DEF Attempt, UseBucket
<1>1. ASSUME NEW j \in Identity PROVE BucketOf(j)'.tokens + Unit * admitted'[j] <= Due(j)'
  <2> DEFINE had == BucketOf(j).tokens
             has == BucketOf(j)'.tokens
             charge == IF j = i /\ Takes(BucketOf(i)) THEN Unit ELSE 0
  <2> SUFFICES has + Unit * admitted'[j] <= Due(j)'
    OBVIOUS
  <2>1. admitted[j] \in Nat /\ admitted'[j] \in Nat /\ evicted[j] \in Nat /\ evicted'[j] \in Nat
    BY <1>t, <1>u DEF PoolTypes
  <2>2. had \in Nat /\ had <= IdentityCap /\ (~Pooled(j) => had = IdentityCap)
    BY <1>t, BucketNow
  <2>3. has \in Nat /\ has <= IdentityCap /\ (~Pooled(j)' => has = IdentityCap)
    BY <1>u, BucketNext
  <2>4. Unit * admitted'[j] = Unit * admitted[j] + charge /\ charge \in Nat /\ charge <= had
    <3>1. Unit * (admitted[j] + 1) = Unit * admitted[j] + Unit
      BY <1>c, <2>1
    <3>2. admitted'[j] = IF j = i /\ Takes(BucketOf(i)) THEN admitted[j] + 1 ELSE admitted[j]
      BY <1>t DEF Attempt, Admit, PoolTypes
    <3>3. Takes(BucketOf(j)) => Unit <= had
      BY <1>c, <2>2 DEF Takes
    <3> QED
      BY <3>1, <3>2, <3>3, <1>c, <2>1, <2>2
  \* What it has now is what it had less what it was charged, or it was
  \* evicted and has a full bucket.
  <2>5. CASE Pooled(j)'
    <3>1. has = had - charge
      <4>1. CASE j = i
        <5>1. had - charge \in Nat /\ had - charge <= IdentityCap
          BY <2>2, <2>4, <1>c
        <5>2. buckets'[j] = [tokens |-> had - charge, last |-> now]
          BY <1>u, <4>1, <2>2
        <5>3. BucketOf(j)' = Refilled(buckets'[j], IdentityCap, IdentityRate, now)
          BY <2>5, <1>c DEF BucketOf
        <5> HIDE DEF had, charge
        <5>4. Refilled([tokens |-> had - charge, last |-> now], IdentityCap, IdentityRate, now).tokens
                = had - charge
          BY <5>1, <1>c, RefillAgain
        <5> QED
          BY <5>2, <5>3, <5>4
      <4>2. CASE j # i
        BY <4>2, <1>u, <1>p, <1>c, <2>2, <2>5 DEF BucketOf
      <4> QED
        BY <4>1, <4>2
    <3>2. evicted'[j] = evicted[j] \/ evicted'[j] = evicted[j] + 1
      BY <1>e, <1>t DEF PoolTypes
    <3>3. Due(j) <= Due(j)'
      <4>1. IdentityCap * (1 + (evicted[j] + 1)) = IdentityCap * (1 + evicted[j]) + IdentityCap
        BY <1>c, <2>1
      <4>2. IdentityCap * (1 + evicted[j]) \in Int /\ IdentityRate * now \in Int
        BY <1>c, <2>1
      <4> QED
        BY <3>2, <4>1, <4>2, <1>c, <2>1 DEF Due
    <3>4. Due(j) \in Int /\ Due(j)' \in Int /\ Unit * admitted[j] \in Int
      BY <1>c, <2>1 DEF Due
    <3>5. had + Unit * admitted[j] <= Due(j)
      BY <1>t DEF Paid
    <3> HIDE DEF had, has, charge
    <3> QED
      BY <3>1, <3>3, <3>4, <3>5, <2>2, <2>3, <2>4
  <2>6. CASE ~Pooled(j)'
    <3>1. has = IdentityCap
      BY <2>3, <2>6
    <3>2. had + Unit * admitted[j] <= Due(j)
      BY <1>t DEF Paid
    <3>3. Due(j) \in Int /\ Due(j)' \in Int /\ Unit * admitted[j] \in Int
      BY <1>c, <2>1 DEF Due
    <3>4. CASE j = i \/ Pooled(j)
      <4>1. evicted'[j] = evicted[j] + 1
        BY <3>4, <2>6, <1>p, <1>e, <1>t DEF PoolTypes
      <4>2. IdentityCap * (1 + (evicted[j] + 1)) = IdentityCap * (1 + evicted[j]) + IdentityCap
        BY <1>c, <2>1
      <4>3. Due(j)' = Due(j) + IdentityCap
        <5>1. IdentityCap * (1 + evicted[j]) \in Int /\ IdentityRate * now \in Int
          BY <1>c, <2>1
        <5> QED
          BY <4>1, <4>2, <5>1, <1>c DEF Due
      <4> HIDE DEF had, has, charge
      <4> QED
        BY <3>1, <3>2, <3>3, <4>3, <2>2, <2>4, <1>c
    <3>5. CASE j # i /\ ~Pooled(j)
      <4>1. had = IdentityCap /\ charge = 0
        BY <3>5, <2>2
      <4>2. evicted'[j] = evicted[j] \/ evicted'[j] = evicted[j] + 1
        BY <1>e, <1>t DEF PoolTypes
      <4>3. Due(j) <= Due(j)'
        <5>1. IdentityCap * (1 + (evicted[j] + 1)) = IdentityCap * (1 + evicted[j]) + IdentityCap
          BY <1>c, <2>1
        <5>2. IdentityCap * (1 + evicted[j]) \in Int /\ IdentityRate * now \in Int
          BY <1>c, <2>1
        <5> QED
          BY <4>2, <5>1, <5>2, <1>c, <2>1 DEF Due
      <4> HIDE DEF had, has, charge
      <4> QED
        BY <3>1, <3>2, <3>3, <4>1, <4>3, <2>4, <1>c
    <3> QED
      BY <3>4, <3>5
  <2> QED
    BY <2>5, <2>6
<1> QED
  BY <1>u, <1>1 DEF BudgetInv, Paid

\* What a step does to the pool.
LEMMA PoolSteps ==
    ASSUME [Next]_vars
    PROVE  \/ \E i \in Identity : Attempt(i)
           \/ now' = now + 1 /\ UNCHANGED <<buckets, order, admitted, evicted, recent>>
           \/ UNCHANGED <<now, buckets, order, admitted, evicted, recent>>
<1>1. ASSUME NEW c \in Caller, NEW i \in Identity, CheckIdentity(c, i) PROVE Attempt(i)
  BY <1>1 DEF CheckIdentity, Attempt
<1>2. ASSUME NEW i \in Identity, Allow(i)
      PROVE  Attempt(i) \/ UNCHANGED <<now, buckets, order, admitted, evicted, recent>>
  BY <1>2 DEF Allow, Attempt
<1> QED
  BY <1>1, <1>2 DEF Next, CheckGlobal, Reject, RefundGlobal, Tick, Mark, vars

LEMMA BudgetInit == Init => BudgetInv
<1> SUFFICES ASSUME Init PROVE BudgetInv
  OBVIOUS
<1>1. IdentityCap \in Nat /\ IdentityRate \in Nat /\ Unit \in Nat
  BY LimiterAssumption
<1>2. PoolTypes
  BY <1>1, EmptySeq DEF Init, PoolTypes, Fresh, Bucket
<1>3. ASSUME NEW i \in Identity PROVE BucketOf(i).tokens + Unit * admitted[i] <= Due(i)
  <2>1. admitted[i] = 0 /\ evicted[i] = 0 /\ now = 0
    BY DEF Init
  <2>2. BucketOf(i).tokens \in Nat /\ BucketOf(i).tokens <= IdentityCap
    BY <1>2, BucketNow
  <2>3. Unit * 0 = 0 /\ IdentityRate * 0 = 0 /\ IdentityCap * (1 + 0) = IdentityCap
    BY <1>1
  <2> QED
    BY <1>1, <2>1, <2>2, <2>3 DEF Due
<1> QED
  BY <1>2, <1>3 DEF BudgetInv, Paid

LEMMA BudgetStep == BudgetInv /\ [Next]_vars => BudgetInv'
<1> SUFFICES ASSUME BudgetInv, [Next]_vars PROVE BudgetInv'
  OBVIOUS
<1>t. PoolTypes /\ Paid
  BY DEF BudgetInv
<1>1. ASSUME NEW i \in Identity, Attempt(i) PROVE BudgetInv'
  BY <1>1, AttemptPaid
<1>2. CASE now' = now + 1 /\ UNCHANGED <<buckets, order, admitted, evicted>>
  <2>c. IdentityCap \in Nat /\ IdentityRate \in Nat /\ Unit \in Nat /\ now \in Nat
    BY <1>t, LimiterAssumption DEF PoolTypes
  <2>1. PoolTypes'
    BY <1>2, <1>t, <2>c DEF PoolTypes, Bucket
  <2>2. ASSUME NEW i \in Identity PROVE BucketOf(i)'.tokens + Unit * admitted'[i] <= Due(i)'
    <3> DEFINE had == BucketOf(i).tokens
               has == BucketOf(i)'.tokens
    <3> SUFFICES has + Unit * admitted'[i] <= Due(i)'
      OBVIOUS
    <3>1. had \in Nat /\ (~Pooled(i) => had = IdentityCap)
      BY <1>t, BucketNow
    <3>2. has \in Nat /\ (~Pooled(i)' => has = IdentityCap)
      BY <2>1, BucketNext
    <3>3. Pooled(i)' <=> Pooled(i)
      BY <1>2 DEF Pooled
    <3>4. has <= had + IdentityRate
      <4>1. CASE Pooled(i)
        <5>1. buckets[i] \in Bucket /\ buckets[i].last <= now
          BY <1>t DEF PoolTypes
        <5>2. Refilled(buckets[i], IdentityCap, IdentityRate, now + 1).tokens
                <= Refilled(buckets[i], IdentityCap, IdentityRate, now).tokens + IdentityRate
          BY <2>c, <5>1, RefillTick
        <5> QED
          BY <1>2, <3>3, <4>1, <5>2 DEF BucketOf
      <4>2. CASE ~Pooled(i)
        BY <2>c, <3>1, <3>2, <3>3, <4>2
      <4> QED
        BY <4>1, <4>2
    <3>5. had + Unit * admitted[i] <= Due(i)
      BY <1>t DEF Paid
    <3>6. admitted'[i] = admitted[i] /\ evicted'[i] = evicted[i]
          /\ admitted[i] \in Nat /\ evicted[i] \in Nat
      BY <1>2, <1>t DEF PoolTypes
    <3>7. Due(i)' = Due(i) + IdentityRate /\ Due(i) \in Int
      <4>1. IdentityRate * (now + 1) = IdentityRate * now + IdentityRate
        BY <2>c
      <4>2. IdentityCap * (1 + evicted[i]) \in Int /\ IdentityRate * now \in Int
        BY <2>c, <3>6
      <4> QED
        BY <1>2, <2>c, <3>6, <4>1, <4>2 DEF Due
    <3>8. Unit * admitted[i] \in Int
      BY <2>c, <3>6
    <3> HIDE DEF had, has
    <3> QED
      BY <2>c, <3>1, <3>2, <3>4, <3>5, <3>6, <3>7, <3>8
  <2> QED
    BY <2>1, <2>2 DEF BudgetInv, Paid
<1>3. CASE UNCHANGED <<now, buckets, order, admitted, evicted>>
  <2>1. PoolTypes'
    BY <1>3, <1>t DEF PoolTypes
  <2>2. \A i \in Identity : BucketOf(i)' = BucketOf(i) /\ Due(i)' = Due(i)
    BY <1>3 DEF BucketOf, Pooled, Due
  <2> QED
    BY <1>3, <1>t, <2>1, <2>2 DEF BudgetInv, Paid
<1> QED
  BY <1>1, <1>2, <1>3, PoolSteps

\* An identity gets no more out of the limiter than its capacity and its
\* refill allow, and one more capacity for each eviction of its bucket,
\* whatever the size of the pool and however its requests, on either path,
\* and those of the other identities interleave.
THEOREM IdentityBudgeted == Spec => []IdentityBudget
<1>1. BudgetInv => IdentityBudget
  <2> SUFFICES ASSUME BudgetInv, NEW i \in Identity
               PROVE  Unit * admitted[i] <= IdentityCap * (1 + evicted[i]) + IdentityRate * now
    BY DEF IdentityBudget
  <2>1. BucketOf(i).tokens \in Nat
    BY BucketNow DEF BudgetInv
  <2>2. BucketOf(i).tokens + Unit * admitted[i] <= Due(i)
    BY DEF BudgetInv, Paid
  <2>3. Unit * admitted[i] \in Int /\ Due(i) \in Int
    BY LimiterAssumption DEF BudgetInv, PoolTypes, Due
  <2>4. Unit * admitted[i] <= Due(i)
    BY <2>1, <2>2, <2>3
  <2> QED
    BY <2>4 DEF Due
<1> QED
  BY <1>1, BudgetInit, BudgetStep, PTL DEF Spec

-----------------------------------------------------------------------------
\* The pool is the end of the list it would be without a cap.

Distinct(s) == \A m, n \in DOMAIN s : s[m] = s[n] => m = n

\* t is the last k elements of s.
IsEnd(t, s, k) ==
    /\ Len(t) = k
    /\ k <= Len(s)
    /\ \A m \in 1 .. k : t[m] = s[Len(s) - k + m]

PoolSize(s) == AtMost(MaxIdentities, Len(s))

RecentInv ==
    /\ recent \in Seq(Identity)
    /\ order \in Seq(Identity)
    /\ Distinct(recent)
    /\ IsEnd(order, recent, PoolSize(recent))

\* What is taken out of a sequence without repetition is gone.
LEMMA OthersDistinct ==
    ASSUME NEW S, NEW s \in Seq(S), Distinct(s), NEW i
    PROVE  Distinct(Others(s, i)) /\ ~Occurs(i, Others(s, i))
<1>1. CASE ~Occurs(i, s)
  BY <1>1, OthersIs
<1>2. CASE Occurs(i, s)
  <2> DEFINE r == Others(s, i)
  <2>1. PICK n \in 1 .. Len(s) :
             /\ s[n] = i
             /\ Len(r) = Len(s) - 1
             /\ \A m \in 1 .. Len(s) - 1 : r[m] = s[IF m < n THEN m ELSE m + 1]
    BY <1>2, OthersIs
  <2>2. Len(s) \in Nat /\ DOMAIN s = 1 .. Len(s)
    BY LenProperties
  <2>3. DOMAIN r = 1 .. Len(s) - 1
    BY <2>1, OthersIs, LenProperties
  <2> SUFFICES Distinct(r) /\ ~Occurs(i, r)
    OBVIOUS
  <2> HIDE DEF r
  <2> DEFINE at(m) == IF m < n THEN m ELSE m + 1
  <2>4. \A m \in DOMAIN r : at(m) \in DOMAIN s /\ at(m) # n /\ r[m] = s[at(m)]
    BY <2>1, <2>2, <2>3
  <2>5. \A l, m \in DOMAIN r : at(l) = at(m) => l = m
    BY <2>2, <2>3
  <2> HIDE DEF at
  <2> QED
    BY <2>1, <2>2, <2>4, <2>5 DEF Distinct, Occurs
<1> QED
  BY <1>1, <1>2

LEMMA AppendDistinct ==
    ASSUME NEW S, NEW s \in Seq(S), Distinct(s), NEW i \in S, ~Occurs(i, s)
    PROVE  Distinct(Append(s, i))
<1>1. /\ Append(s, i) \in Seq(S)
      /\ Len(Append(s, i)) = Len(s) + 1
      /\ \A m \in 1 .. Len(s) : Append(s, i)[m] = s[m]
      /\ Append(s, i)[Len(s) + 1] = i
  BY AppendProperties
<1>2. /\ Len(s) \in Nat /\ DOMAIN s = 1 .. Len(s)
      /\ DOMAIN Append(s, i) = 1 .. Len(s) + 1
  BY <1>1, LenProperties
<1> QED
  BY <1>1, <1>2 DEF Distinct, Occurs

\* A use of i keeps the pool the end of the list.
LEMMA RecentUse ==
    ASSUME RecentInv, NEW i \in Identity, UseBucket(i)
    PROVE  RecentInv'
<1> DEFINE k == PoolSize(recent)
           l == Len(recent)
           old == Others(recent, i)
           kept == Others(order, i)
           all == Append(old, i)
           t == Append(kept, i)
<1>0. /\ recent \in Seq(Identity) /\ order \in Seq(Identity) /\ Distinct(recent)
      /\ MaxIdentities \in Nat
  BY LimiterAssumption DEF RecentInv
<1>1. /\ l \in Nat /\ DOMAIN recent = 1 .. l
      /\ Len(order) = k /\ DOMAIN order = 1 .. k
      /\ k = (IF l <= MaxIdentities THEN l ELSE MaxIdentities)
      /\ k \in Nat /\ k <= l
      /\ \A m \in 1 .. k : order[m] = recent[l - k + m]
  BY <1>0, LenProperties DEF RecentInv, IsEnd, PoolSize, AtMost
<1>2. old \in Seq(Identity) /\ Distinct(old) /\ ~Occurs(i, old)
  BY <1>0, OthersIs, OthersDistinct
<1>3. /\ all \in Seq(Identity) /\ Distinct(all)
      /\ Len(all) = Len(old) + 1
      /\ \A m \in 1 .. Len(old) : all[m] = old[m]
      /\ all[Len(old) + 1] = i
  BY <1>2, AppendProperties, AppendDistinct
<1>4. kept \in Seq(Identity)
  BY <1>0, OthersIs
<1>5. /\ t \in Seq(Identity) /\ t # <<>>
      /\ Len(t) = Len(kept) + 1
      /\ \A m \in 1 .. Len(kept) : t[m] = kept[m]
      /\ t[Len(kept) + 1] = i
  BY <1>4, AppendProperties
<1>6. /\ Tail(t) \in Seq(Identity)
      /\ Len(Tail(t)) = Len(t) - 1
      /\ \A m \in 1 .. Len(t) - 1 : Tail(t)[m] = t[m + 1]
  BY <1>5, HeadTailProperties
<1>7. recent' = all /\ order' = IF Len(t) > MaxIdentities THEN Tail(t) ELSE t
  BY DEF UseBucket, Touched, Full
<1>8. Len(old) \in Nat /\ Len(kept) \in Nat
  BY <1>2, <1>4, LenProperties
<1> SUFFICES IsEnd(order', all, PoolSize(all))
  BY <1>3, <1>5, <1>6, <1>7 DEF RecentInv
<1>a. PoolSize(all) = IF Len(all) <= MaxIdentities THEN Len(all) ELSE MaxIdentities
  BY DEF PoolSize, AtMost
<1>b. /\ ~Occurs(i, order) => kept = order
      /\ Occurs(i, order) =>
           \E n \in 1 .. k :
              /\ order[n] = i
              /\ Len(kept) = k - 1
              /\ \A m \in 1 .. k - 1 : kept[m] = order[IF m < n THEN m ELSE m + 1]
  <2>1. /\ ~Occurs(i, order) => Others(order, i) = order
        /\ Occurs(i, order) =>
             \E n \in 1 .. Len(order) :
                /\ order[n] = i
                /\ Len(Others(order, i)) = Len(order) - 1
                /\ \A m \in 1 .. Len(order) - 1 :
                     Others(order, i)[m] = order[IF m < n THEN m ELSE m + 1]
    BY <1>0, OthersIs
  <2> HIDE DEF k
  <2> QED
    BY <1>1, <2>1
<1>c. /\ ~Occurs(i, recent) => old = recent
      /\ Occurs(i, recent) =>
           \E p \in 1 .. l :
              /\ recent[p] = i
              /\ Len(old) = l - 1
              /\ \A m \in 1 .. l - 1 : old[m] = recent[IF m < p THEN m ELSE m + 1]
  BY <1>0, OthersIs
<1>d. l \in Nat /\ k \in Nat /\ k <= l
  BY <1>1
<1>e. l = Len(recent)
  OBVIOUS
<1> HIDE DEF k, l, old, kept, all, t
\* i is in the pool
<1>9. CASE Occurs(i, order)
  <2>1. PICK n \in 1 .. k :
             /\ order[n] = i
             /\ Len(kept) = k - 1
             /\ \A m \in 1 .. k - 1 : kept[m] = order[IF m < n THEN m ELSE m + 1]
    BY <1>9, <1>b
  <2>2. l - k + n \in 1 .. l /\ recent[l - k + n] = i /\ k \in 1 .. l
    BY <1>0, <1>1, <2>1
  <2>3. Occurs(i, recent)
    BY <1>1, <2>2 DEF Occurs
  <2>4. PICK p \in 1 .. l :
             /\ recent[p] = i
             /\ Len(old) = l - 1
             /\ \A m \in 1 .. l - 1 : old[m] = recent[IF m < p THEN m ELSE m + 1]
    BY <2>3, <1>c
  <2>5. p = l - k + n
    BY <1>0, <1>1, <2>2, <2>4 DEF Distinct
  <2>6. Len(all) = l /\ PoolSize(all) = k /\ Len(t) = k /\ order' = t
    BY <1>0, <1>1, <1>3, <1>5, <1>7, <2>1, <2>2, <2>4, <1>a
  <2>7. ASSUME NEW m \in 1 .. k PROVE t[m] = all[l - k + m]
    <3>1. CASE m = k
      <4>1. t[k] = i
        <5>1. Len(kept) + 1 = k
          BY <2>1, <1>d
        <5> QED
          BY <1>5, <5>1
      <4>2. all[l - k + m] = i
        <5>1. Len(old) + 1 = l - k + m
          BY <2>4, <1>d, <3>1
        <5> QED
          BY <1>3, <5>1
      <4> QED
        BY <3>1, <4>1, <4>2
    <3>2. CASE m < n
      <4>1. t[m] = order[m] /\ m \in 1 .. k - 1
        <5>1. m \in 1 .. k - 1 /\ m \in 1 .. Len(kept)
          BY <1>d, <2>1, <3>2
        <5> QED
          BY <1>5, <2>1, <3>2, <5>1
      <4>2. all[l - k + m] = recent[l - k + m]
        <5>1. l - k + m \in 1 .. l - 1 /\ l - k + m < p
          BY <1>1, <2>2, <2>5, <3>2
        <5> QED
          BY <1>3, <2>4, <5>1
      <4> QED
        BY <1>1, <4>1, <4>2
    <3>3. CASE n <= m /\ m < k
      <4>1. t[m] = order[m + 1] /\ m + 1 \in 1 .. k
        <5>1. m \in 1 .. k - 1 /\ ~(m < n) /\ m + 1 \in 1 .. k
          BY <2>2, <3>3
        <5> QED
          BY <1>5, <2>1, <5>1
      <4>2. all[l - k + m] = recent[l - k + (m + 1)]
        <5>1. /\ l - k + m \in 1 .. l - 1 /\ ~(l - k + m < p)
              /\ l - k + m + 1 = l - k + (m + 1)
          BY <1>1, <2>2, <2>5, <3>3
        <5> QED
          BY <1>3, <2>4, <5>1
      <4> QED
        BY <1>1, <4>1, <4>2
    <3> QED
      BY <2>2, <3>1, <3>2, <3>3
  <2>8. k \in Nat /\ k <= l
    BY <1>1, <2>2
  <2> QED
    BY <2>6, <2>7, <2>8 DEF IsEnd
\* i is not in the pool
<1>10. CASE ~Occurs(i, order)
  <2>1. kept = order
    BY <1>10, <1>b
  <2>2. Len(t) = k + 1 /\ (\A m \in 1 .. k : t[m] = recent[l - k + m]) /\ t[k + 1] = i
    BY <1>1, <1>5, <2>1
  \* but it would be without the cap
  <2>3. CASE Occurs(i, recent)
    <3>1. PICK p \in 1 .. l :
               /\ recent[p] = i
               /\ Len(old) = l - 1
               /\ \A m \in 1 .. l - 1 : old[m] = recent[IF m < p THEN m ELSE m + 1]
      BY <2>3, <1>c
    <3>2. p <= l - k
      <4>1. SUFFICES ASSUME p > l - k PROVE FALSE
        BY <1>1
      <4>2. p - (l - k) \in 1 .. k /\ l - k + (p - (l - k)) = p
        BY <1>1, <4>1
      <4>3. order[p - (l - k)] = i
        BY <1>1, <3>1, <4>2
      <4> QED
        BY <1>1, <1>10, <4>2, <4>3 DEF Occurs
    <3>3. k = MaxIdentities /\ k < l
      BY <1>0, <1>1, <3>2
    <3>4. Len(all) = l /\ PoolSize(all) = k /\ order' = Tail(t)
      BY <1>0, <1>1, <1>3, <1>7, <2>2, <3>1, <3>3, <1>a
    <3>5. k \in Nat
      BY <1>0, <3>3
    <3>6. ASSUME NEW m \in 1 .. k PROVE Tail(t)[m] = all[l - k + m]
      <4>1. Tail(t)[m] = t[m + 1]
        BY <1>6, <2>2, <3>5
      <4>2. CASE m = k
        BY <1>1, <1>3, <2>2, <3>1, <3>5, <4>1, <4>2
      <4>3. CASE m < k
        <5>1. /\ m + 1 \in 1 .. k
              /\ l - k + m \in 1 .. l - 1 /\ ~(l - k + m < p)
              /\ l - k + m + 1 = l - k + (m + 1)
          BY <1>1, <3>2, <3>3, <3>5, <4>3
        <5>2. all[l - k + m] = recent[l - k + (m + 1)]
          BY <1>3, <3>1, <5>1
        <5> QED
          BY <2>2, <4>1, <5>1, <5>2
      <4> QED
        <5>1. m = k \/ m < k
          BY <1>d
        <5> QED
          BY <4>2, <4>3, <5>1
    <3>7. Len(Tail(t)) = k
      BY <1>6, <2>2, <3>5
    <3> QED
      BY <1>1, <3>3, <3>4, <3>5, <3>6, <3>7 DEF IsEnd
  \* nor would it be then
  <2>4. CASE ~Occurs(i, recent)
    <3>1. old = recent
      BY <2>4, <1>c
    <3>2. Len(all) = l + 1 /\ (\A m \in 1 .. l : all[m] = recent[m]) /\ all[l + 1] = i
      BY <1>3, <1>e, <3>1
    <3>3. CASE l < MaxIdentities
      <4>1. k = l /\ order' = t /\ PoolSize(all) = k + 1
        BY <1>0, <1>1, <1>7, <2>2, <3>2, <3>3, <1>a
      <4>2. ASSUME NEW m \in 1 .. k + 1 PROVE t[m] = all[(l + 1) - (k + 1) + m]
        <5>1. (l + 1) - (k + 1) + m = m /\ (m = l + 1 \/ m \in 1 .. l)
          BY <1>d, <4>1
        <5>2. CASE m = l + 1
          BY <2>2, <3>2, <4>1, <5>1, <5>2
        <5>3. CASE m \in 1 .. l
          <6>1. l - k + m = m
            BY <1>d, <4>1
          <6> QED
            BY <2>2, <3>2, <4>1, <5>1, <5>3, <6>1
        <5> QED
          BY <5>1, <5>2, <5>3
      <4> QED
        BY <1>1, <2>2, <3>2, <4>1, <4>2 DEF IsEnd
    <3>4. CASE l >= MaxIdentities
      <4>1. k = MaxIdentities /\ order' = Tail(t) /\ PoolSize(all) = k
        BY <1>0, <1>1, <1>7, <2>2, <3>2, <3>4, <1>a
      <4>2. k \in Nat /\ k <= l
        BY <1>0, <3>4, <4>1
      <4>3. ASSUME NEW m \in 1 .. k PROVE Tail(t)[m] = all[(l + 1) - k + m]
        <5>1. Tail(t)[m] = t[m + 1]
          BY <1>6, <2>2, <4>2
        <5>2. CASE m = k
          <6>1. (l + 1) - k + m = l + 1
            BY <1>d, <5>2
          <6> QED
            BY <2>2, <3>2, <5>1, <5>2, <6>1
        <5>3. CASE m < k
          <6>1. m + 1 \in 1 .. k /\ (l + 1) - k + m \in 1 .. l /\ (l + 1) - k + m = l - k + (m + 1)
            BY <1>d, <5>3
          <6> QED
            BY <2>2, <3>2, <5>1, <6>1
        <5> QED
          <6>1. m = k \/ m < k
            BY <1>d
          <6> QED
            BY <5>2, <5>3, <6>1
      <4>4. Len(Tail(t)) = k /\ k <= l + 1
        BY <1>d, <1>6, <2>2
      <4> QED
        BY <3>2, <4>1, <4>2, <4>3, <4>4 DEF IsEnd
    <3> QED
      BY <1>0, <1>1, <3>3, <3>4
  <2> QED
    BY <2>3, <2>4
<1> QED
  BY <1>9, <1>10

LEMMA RecentInit == Init => RecentInv
<1> SUFFICES ASSUME Init PROVE RecentInv
  OBVIOUS
<1>1. recent = <<>> /\ order = <<>> /\ <<>> \in Seq(Identity) /\ Len(<<>>) = 0
  BY EmptySeq DEF Init
<1>2. DOMAIN recent = {}
  BY <1>1
<1>3. PoolSize(recent) = 0
  BY <1>1, LimiterAssumption DEF PoolSize, AtMost
<1> QED
  BY <1>1, <1>2, <1>3 DEF RecentInv, Distinct, IsEnd

LEMMA RecentStep == RecentInv /\ [Next]_vars => RecentInv'
<1> SUFFICES ASSUME RecentInv, [Next]_vars PROVE RecentInv'
  OBVIOUS
<1>1. ASSUME NEW i \in Identity, Attempt(i) PROVE RecentInv'
  BY <1>1, RecentUse DEF Attempt
<1>2. CASE UNCHANGED <<order, recent>>
  BY <1>2 DEF RecentInv, Distinct, IsEnd, PoolSize
<1> QED
  BY <1>1, <1>2, PoolSteps

\* The pool is never anything else than the identities used last, in the
\* order of their use: evictions take the least recently used, and only when
\* there are more identities than the pool may hold.
THEOREM PoolKeepsRecent == Spec => []PoolIsRecent
<1>1. RecentInv => PoolIsRecent
  <2> SUFFICES ASSUME RecentInv PROVE PoolIsRecent
    OBVIOUS
  <2> DEFINE k == PoolSize(recent)
             l == Len(recent)
             end == SubSeq(recent, l - k + 1, l)
  <2>1. /\ recent \in Seq(Identity) /\ order \in Seq(Identity)
        /\ l \in Nat /\ k \in Nat /\ k <= l
        /\ Len(order) = k /\ \A m \in 1 .. k : order[m] = recent[l - k + m]
    BY LenProperties, LimiterAssumption DEF RecentInv, IsEnd, PoolSize, AtMost
  <2>2. \A m \in l - k + 1 .. l : recent[m] \in Identity
    BY <2>1, ElementOfSeq
  <2>3. /\ end \in Seq(Identity)
        /\ Len(end) = IF l - k + 1 <= l THEN l - (l - k + 1) + 1 ELSE 0
        /\ \A m \in 1 .. l - (l - k + 1) + 1 : end[m] = recent[(l - k + 1) + m - 1]
    <3>1. l \in Int /\ l - k + 1 \in Int
      BY <2>1
    <3> QED
      BY <2>2, <3>1, SubSeqProperties
  <2> HIDE DEF k, l, end
  <2>4. Len(end) = k
    BY <2>1, <2>3
  <2>5. ASSUME NEW m \in 1 .. Len(order) PROVE order[m] = end[m]
    <3>1. m \in 1 .. k /\ m \in 1 .. l - (l - k + 1) + 1 /\ (l - k + 1) + m - 1 = l - k + m
      BY <2>1
    <3> QED
      BY <2>1, <2>3, <3>1
  <2>6. order = end
    BY <2>1, <2>3, <2>4, <2>5, SeqEqual
  <2> QED
    BY <2>6 DEF PoolIsRecent, end, k, l, PoolSize
<1> QED
  BY <1>1, RecentInit, RecentStep, PTL DEF Spec

-----------------------------------------------------------------------------
\* What the bounds of the model keep.
Bounded == now \in 0 .. MaxTime /\ requests \in 0 .. MaxRequests

\* Every variable keeps its type: in particular no bucket ever holds less
\* than no token, and none was last refilled in the future.
THEOREM LimiterTypes == Spec => []TypeOK
<1>1. Init => Bounded
  BY LimiterAssumption DEF Init, Bounded
<1>2. Bounded /\ [Next]_vars => Bounded'
  <2> SUFFICES ASSUME Bounded, [Next]_vars PROVE Bounded'
    OBVIOUS
  <2>1. MaxTime \in Nat /\ MaxRequests \in Nat
    BY LimiterAssumption
  <2>2. CASE now' = now + 1 /\ now < MaxTime /\ requests' = requests
    BY <2>1, <2>2 DEF Bounded
  <2>3. CASE now' = now /\ requests' = requests + 1 /\ requests < MaxRequests
    BY <2>1, <2>3 DEF Bounded
  <2>4. CASE UNCHANGED <<now, requests>>
    BY <2>4 DEF Bounded
  <2> QED
    BY <2>2, <2>3, <2>4 DEF Next, CheckGlobal, Reject, RefundGlobal, CheckIdentity, Allow,
                            Tick, Mark, vars
<1>3. GlobalInv /\ BudgetInv /\ RecentInv /\ Bounded => TypeOK
  BY DEF GlobalInv, GlobalTypes, InFlightSpent, BudgetInv, PoolTypes, RecentInv, Bounded, TypeOK
<1> QED
  BY <1>1, <1>2, <1>3, GlobalAlways, BudgetInit, BudgetStep, RecentInit, RecentStep, PTL DEF Spec

=============================================================================
