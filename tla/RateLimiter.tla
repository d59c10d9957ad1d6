----------------------------- MODULE RateLimiter ----------------------------
(***************************************************************************)
(* ratelimit.RateLimiter and the two ways its callers use it. A bucket     *)
(* holds parts of a token, Unit to the token, so that a fractional refill  *)
(* is an integer; the clock ticks with no more grain than the refill. The  *)
(* limiter's own lock makes every method one step; the split path, which   *)
(* takes from the global bucket, does its work and comes back for the      *)
(* identity's, is several.                                                 *)
(***************************************************************************)
EXTENDS Integers, Sequences, FiniteSets

CONSTANTS
    Identity,       \* sender public keys, or peer fingerprints
    Caller,         \* request threads on the split path
    Unit,           \* parts of a token to the token
    GlobalCap,      \* global_capacity, in parts
    GlobalRate,     \* global_refill_per_second, in parts per tick
    IdentityCap,    \* per_identity_capacity, in parts
    IdentityRate,   \* per_identity_refill_per_second, in parts per tick
    MaxIdentities,  \* max_identities
    MaxTime,        \* bound: the clock stops here
    MaxRequests     \* bound: requests in a behaviour

ASSUME LimiterAssumption ==
    /\ IsFiniteSet(Caller)
    /\ Unit \in Nat \ {0}
    /\ {GlobalCap, GlobalRate, IdentityCap, IdentityRate} \subseteq Nat
    /\ {MaxIdentities, MaxTime, MaxRequests} \subseteq Nat

VARIABLES
    now,       \* time.monotonic()
    global,    \* the global bucket
    buckets,   \* buckets[i]: the bucket of i, while i is in the pool
    order,     \* the pool, least recently used first
    call,      \* call[c]: how far the caller c is
    requests,  \* how many requests have arrived (bound)
    spent,     \* global tokens taken and not given back (ghost)
    mark,      \* an instant, and what was spent until then (ghost)
    admitted,  \* admitted[i]: requests of i let through (ghost)
    evicted,   \* evicted[i]: times i's bucket was dropped (ghost)
    recent     \* the pool as it would be without a cap (ghost)

vars == <<now, global, buckets, order, call, requests, spent, mark, admitted,
          evicted, recent>>

Bucket == [tokens : Nat, last : Nat]

\* A bucket just made: full.
Fresh(capacity, t) == [tokens |-> capacity, last |-> t]

Init ==
    /\ now = 0
    /\ global = Fresh(GlobalCap, 0)
    /\ buckets = [i \in Identity |-> Fresh(IdentityCap, 0)]
    /\ order = <<>>
    /\ call = [c \in Caller |-> "idle"]
    /\ requests = 0
    /\ spent = 0
    /\ mark = [time |-> 0, spent |-> 0]
    /\ admitted = [i \in Identity |-> 0]
    /\ evicted = [i \in Identity |-> 0]
    /\ recent = <<>>

-----------------------------------------------------------------------------
\* The bucket.

AtMost(cap, n) == IF n <= cap THEN n ELSE cap

\* Mutant: the refill is not capped.
MutRefilled(b, cap, rate, t) ==
    [tokens |-> b.tokens + (t - b.last) * rate, last |-> t]

\* Mutant: last_refill is set before the elapsed time is computed.
MutRefilledLate(b, cap, rate, t) == [tokens |-> AtMost(cap, b.tokens), last |-> t]

\* _refill, at the instant t
Refilled(b, cap, rate, t) ==
    [tokens |-> AtMost(cap, b.tokens + (t - b.last) * rate), last |-> t]

\* try_take on a bucket that has been refilled: what is left of it
Taken(b) == [b EXCEPT !.tokens = IF @ >= Unit THEN @ - Unit ELSE @]

Takes(b) == b.tokens >= Unit

\* Mutant: nothing is given back.
MutRefunded(b, cap) == b

\* refund
Refunded(b, cap) == [b EXCEPT !.tokens = AtMost(cap, @ + Unit)]

-----------------------------------------------------------------------------
\* The pool of per-identity buckets, an OrderedDict.

Occurs(i, s) == \E n \in DOMAIN s : s[n] = i

Pooled(i) == Occurs(i, order)

\* The sequence s with i, which occurs in it once at most, taken out.
Others(s, i) ==
    IF Occurs(i, s)
      THEN LET n == CHOOSE n \in DOMAIN s : s[n] = i IN
           SubSeq(s, 1, n - 1) \o SubSeq(s, n + 1, Len(s))
      ELSE s

\* Mutant: a bucket that is found stays where it is in the order.
MutTouched(i) == IF Pooled(i) THEN order ELSE Append(order, i)

\* The order with i at its end, before any eviction.
Touched(i) == Append(Others(order, i), i)

Full(s) == Len(s) > MaxIdentities

\* Mutant: a bucket that is found is made anew all the same.
MutBucketOf(i) == Refilled(Fresh(IdentityCap, now), IdentityCap, IdentityRate, now)

\* i's bucket, or a full one if i has none, brought to this instant
BucketOf(i) ==
    Refilled(IF Pooled(i) THEN buckets[i] ELSE Fresh(IdentityCap, now),
             IdentityCap, IdentityRate, now)

\* _get_or_create_bucket_locked and try_take: i's bucket is used, and the
\* least recently used one goes if they have become too many.
UseBucket(i) ==
    LET touched == Touched(i) IN
    /\ order' = IF Full(touched) THEN Tail(touched) ELSE touched
    /\ evicted' = IF Full(touched) THEN [evicted EXCEPT ![Head(touched)] = @ + 1] ELSE evicted
    /\ buckets' = [buckets EXCEPT ![i] = Taken(BucketOf(i))]
    /\ recent' = Append(Others(recent, i), i)

Admit(i) == admitted' = [admitted EXCEPT ![i] = @ + 1]

-----------------------------------------------------------------------------
\* The split path: POST /publish, POST /delete, an anti-entropy page.

GlobalNow == Refilled(global, GlobalCap, GlobalRate, now)

\* check_global
CheckGlobal(c) ==
    /\ call[c] = "idle"
    /\ requests < MaxRequests
    /\ requests' = requests + 1
    /\ global' = Taken(GlobalNow)
    /\ \/ Takes(GlobalNow) /\ call' = [call EXCEPT ![c] = "work"] /\ spent' = spent + 1
       \/ ~Takes(GlobalNow) /\ UNCHANGED <<call, spent>>
    /\ UNCHANGED <<now, buckets, order, mark, admitted, evicted, recent>>

\* The request is refused by the quota or the validation: its token is gone.
Reject(c) ==
    /\ call[c] = "work"
    /\ call' = [call EXCEPT ![c] = "idle"]
    /\ UNCHANGED <<now, global, buckets, order, requests, spent, mark, admitted,
                   evicted, recent>>

\* check_identity
CheckIdentity(c, i) ==
    /\ call[c] = "work"
    /\ UseBucket(i)
    /\ \/ Takes(BucketOf(i)) /\ Admit(i) /\ call' = [call EXCEPT ![c] = "idle"]
       \/ ~Takes(BucketOf(i)) /\ call' = [call EXCEPT ![c] = "refund"] /\ UNCHANGED admitted
    /\ UNCHANGED <<now, global, requests, spent, mark>>

\* refund_global, in a lock section of its own
RefundGlobal(c) ==
    /\ call[c] = "refund"
    /\ call' = [call EXCEPT ![c] = "idle"]
    /\ global' = Refunded(global, GlobalCap)
    /\ spent' = spent - 1
    /\ UNCHANGED <<now, buckets, order, requests, mark, admitted, evicted, recent>>

-----------------------------------------------------------------------------
\* allow: both buckets at once, for a peer on POST /gossip/*
Allow(i) ==
    /\ requests < MaxRequests
    /\ requests' = requests + 1
    /\ \/ /\ ~Takes(GlobalNow)
          /\ global' = GlobalNow
          /\ UNCHANGED <<buckets, order, spent, admitted, evicted, recent>>
       \/ /\ Takes(GlobalNow)
          /\ UseBucket(i)
          /\ \/ /\ Takes(BucketOf(i))
                /\ global' = Taken(GlobalNow)
                /\ spent' = spent + 1
                /\ Admit(i)
             \/ /\ ~Takes(BucketOf(i))
                /\ global' = Refunded(Taken(GlobalNow), GlobalCap)
                /\ UNCHANGED <<spent, admitted>>
    /\ UNCHANGED <<now, call, mark>>

Tick ==
    /\ now < MaxTime
    /\ now' = now + 1
    /\ UNCHANGED <<global, buckets, order, call, requests, spent, mark, admitted,
                   evicted, recent>>

\* An observer starts to count here (ghost).
Mark ==
    /\ mark' = [time |-> now, spent |-> spent]
    /\ UNCHANGED <<now, global, buckets, order, call, requests, spent, admitted,
                   evicted, recent>>

Next ==
    \/ \E c \in Caller : CheckGlobal(c) \/ Reject(c) \/ RefundGlobal(c)
    \/ \E c \in Caller, i \in Identity : CheckIdentity(c, i)
    \/ \E i \in Identity : Allow(i)
    \/ Tick
    \/ Mark

Spec == Init /\ [][Next]_vars

-----------------------------------------------------------------------------
\* Properties.

TypeOK ==
    /\ now \in 0 .. MaxTime
    /\ global \in Bucket
    /\ buckets \in [Identity -> Bucket]
    /\ order \in Seq(Identity)
    /\ call \in [Caller -> {"idle", "work", "refund"}]
    /\ requests \in 0 .. MaxRequests
    /\ spent \in Int
    /\ mark \in [time : Nat, spent : Int]
    /\ admitted \in [Identity -> Nat]
    /\ evicted \in [Identity -> Nat]
    /\ recent \in Seq(Identity)

\* Over any stretch of time, however many identities there are and however
\* refunds interleave with other requests, no more is let past the global
\* bucket than its capacity and what the stretch refills (RateLimiter: "the
\* actual backstop").
GlobalBackstop ==
    Unit * (spent - mark.spent) <= GlobalCap + GlobalRate * (now - mark.time)

\* What is missing from the global bucket has been spent by requests that
\* were let through, are under way, or were refused by a later check; an
\* identity over its own limit takes nothing from the others, however often
\* it tries (refund_global).
NoDrain == global.tokens >= GlobalCap - Unit * spent

\* An identity is let through no more often than its capacity and its refill
\* allow, and once more its capacity for each time its bucket was evicted.
IdentityBudget ==
    \A i \in Identity :
        Unit * admitted[i] <= IdentityCap * (1 + evicted[i]) + IdentityRate * now

\* The pool holds exactly the identities used last, in the order of their
\* use, and no more of them than its cap.
PoolIsRecent ==
    LET size == AtMost(MaxIdentities, Len(recent)) IN
    order = SubSeq(recent, Len(recent) - size + 1, Len(recent))

\* When there has been time to refill a token since the last attempt, the
\* next one succeeds (per_minute: an "N per minute" setting is the rate).
SustainedRate == (now - global.last) * GlobalRate >= Unit => Takes(GlobalNow)

=============================================================================
