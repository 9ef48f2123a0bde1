--------------------------- MODULE RateLimiterProofs ---------------------------
(***************************************************************************)
(* Proofs about RateLimiter, for any number of threads and addresses, any  *)
(* rates and capacities: a bucket keeps to its capacity and, but for the   *)
(* stores that undo a consumption, to its rate.                            *)
(***************************************************************************)
EXTENDS RateLimiter, TLAPS, FiniteSetTheorems

-----------------------------------------------------------------------------
(* The inductive invariant                                                 *)

\* Thread t has claimed a period of bucket b and not yet stored the tokens for it.
Refills(t, b) == thread[t].pc \in {"load", "store"} /\ thread[t].bucket = b

\* The ticks of the periods that threads other than those of set out are refilling.
Claimed(b, out) ==
  {tick \in 1..MaxTime :
     \E t \in Threads \ out : Refills(t, b) /\ thread[t].last < tick /\ tick <= thread[t].now}
Pending(b) == Claimed(b, {})
PendingWithout(b, t) == Claimed(b, {t})

\* Inside try_consume there is a bucket.
Trying == {"clock", "last", "claim", "load", "store", "balance", "take"}

Sound(r) ==
  /\ r.pc \in Trying => r.bucket \in Buckets /\ bucket[r.bucket] # None
  /\ r.pc \in {"lookup", "create"} => r.ip \in Ips
  /\ r.now <= now
  /\ r.pc = "claim" => r.last < r.now
  /\ r.pc = "store" => r.seen <= Capacity(r.bucket)

\* Every thread is where its local variables say.
ThreadInv == \A t \in Threads : Sound(thread[t])

\* The periods that are refilled lie before the last refill and apart from each other.
Apart(t, u) == thread[t].now <= thread[u].last \/ thread[u].now <= thread[t].last
PeriodInv ==
  /\ \A t \in Threads : thread[t].pc \in {"load", "store"} =>
       thread[t].last < thread[t].now /\ thread[t].now <= Bucket(t).last_refill
  /\ \A b \in Buckets : \A t, u \in Threads :
       t # u /\ Refills(t, b) /\ Refills(u, b) => Apart(t, u)

\* What bucket b may have let pass and still hold.
Allowed(b) ==
  Capacity(b) + MaxRate * (bucket[b].last_refill - bucket[b].born) + Cost * undone[b]

\* So it does with these tokens and with those of ticks still to come.
Within(b, tokens, ticks) ==
  Cost * admitted[b] + tokens + MaxRate * Cardinality(ticks) <= Allowed(b)

Good(b) ==
  /\ bucket[b] = None => admitted[b] = 0
  /\ bucket[b] # None =>
       /\ bucket[b].born <= bucket[b].last_refill
       /\ Within(b, bucket[b].tokens, Pending(b))
       /\ \A t \in Threads : At(t, "store") /\ thread[t].bucket = b =>
            Within(b, thread[t].seen, PendingWithout(b, t))
BucketInv == \A b \in Buckets : Good(b)

IInv == TypeOK /\ ThreadInv /\ PeriodInv /\ BucketInv

-----------------------------------------------------------------------------
(* Numbers                                                                 *)

\* Arithmetic.
LEMMA Times ==
  ASSUME NEW a \in Nat, NEW m \in Nat, NEW n \in Nat
  PROVE  /\ a * m \in Nat /\ a * (m + n) = a * m + a * n /\ a * (m + 1) = a * m + a
         /\ m * a = a * m
         /\ m <= n => a * m <= a * n
  <1>1. a * m \in Nat /\ a * n \in Nat /\ a * (m + n) = a * m + a * n /\ a * (m + 1) = a * m + a /\ m * a = a * m
    OBVIOUS
  <1>2. ASSUME m <= n PROVE a * m <= a * n
    <2>1. PICK d \in Nat : n = m + d
      <3>1. n - m \in Nat /\ n = m + (n - m)
        BY <1>2
      <3> QED BY <3>1
    <2>2. a * n = a * m + a * d /\ a * m \in Nat /\ a * d \in Nat
      BY <2>1
    <2> QED BY <2>2
  <1> QED BY <1>1, <1>2

\* The largest rate is one of the rates.
LEMMA MaxRateIs == MaxRate \in Nat /\ MaxRate \in Rates /\ \A rate \in Rates : rate \in Nat /\ rate <= MaxRate
  <1>1. MaxRate \in Rates /\ \A rate \in Rates : rate <= MaxRate
    BY RateLimiterAssumption DEF MaxRate
  <1> QED BY <1>1, RateLimiterAssumption

LEMMA LeastIs == \A m, n \in Nat : /\ Least(m, n) \in Nat /\ Least(m, n) <= m /\ Least(m, n) <= n
  BY DEF Least

\* The ticks of periods are finitely many, fewer of fewer threads.
LEMMA ClaimedFinite ==
  ASSUME NEW b, NEW out
  PROVE  /\ IsFiniteSet(Claimed(b, out)) /\ Cardinality(Claimed(b, out)) \in Nat
         /\ \A s \in SUBSET Claimed(b, out) : /\ IsFiniteSet(s) /\ Cardinality(s) \in Nat
                                              /\ Cardinality(s) <= Cardinality(Claimed(b, out))
  <1>1. MaxTime \in Int /\ 1 \in Int
    BY RateLimiterAssumption
  <1>2. IsFiniteSet(1..MaxTime)
    BY <1>1, FS_Interval
  <1>3. Claimed(b, out) \in SUBSET (1..MaxTime)
    BY DEF Claimed
  <1>4. IsFiniteSet(Claimed(b, out))
    BY <1>2, <1>3, FS_Subset
  <1>5. \A s \in SUBSET Claimed(b, out) : IsFiniteSet(s) /\ Cardinality(s) <= Cardinality(Claimed(b, out))
    BY <1>4, FS_Subset
  <1> QED BY <1>4, <1>5, FS_CardinalityType

\* A period adds no more ticks than it is long, and as many when none is there yet.
LEMMA PeriodAdds ==
  ASSUME NEW s, IsFiniteSet(s), NEW m \in Nat, NEW n \in Nat, m <= n, NEW r
  PROVE  /\ r \subseteq s \cup ((m + 1)..n) => Cardinality(r) <= Cardinality(s) + (n - m)
         /\ r = s \cup ((m + 1)..n) /\ s \cap ((m + 1)..n) = {} => Cardinality(r) = Cardinality(s) + (n - m)
  <1> DEFINE p == (m + 1)..n
             u == s \cup p
  <1>1. IsFiniteSet(p) /\ Cardinality(p) = n - m
    <2>1. m + 1 \in Int /\ n \in Int /\ (m + 1 > n => n - m = 0) /\ n - (m + 1) + 1 = n - m
      OBVIOUS
    <2> QED BY <2>1, FS_Interval
  <1> HIDE DEF p
  <1>2. IsFiniteSet(u) /\ Cardinality(u) = Cardinality(s) + Cardinality(p) - Cardinality(s \cap p)
    BY <1>1, FS_Union
  <1>3. /\ Cardinality(s) \in Nat /\ Cardinality(s \cap p) \in Nat /\ Cardinality(u) \in Nat
        /\ n - m \in Nat
    BY <1>1, <1>2, FS_CardinalityType, FS_Intersection
  <1> HIDE DEF u
  <1>4. Cardinality(u) <= Cardinality(s) + (n - m)
    BY <1>1, <1>2, <1>3
  <1>5. ASSUME r \subseteq u PROVE Cardinality(r) <= Cardinality(u) /\ Cardinality(r) \in Nat
    BY <1>2, <1>5, FS_Subset, FS_CardinalityType
  <1>6. ASSUME s \cap p = {} PROVE Cardinality(u) = Cardinality(s) + (n - m)
    <2>1. Cardinality(s \cap p) = 0
      BY <1>6, FS_EmptySet
    <2> QED BY <1>1, <1>2, <1>3, <2>1
  <1>7. ASSUME r \subseteq u PROVE Cardinality(r) <= Cardinality(s) + (n - m)
    BY <1>3, <1>4, <1>5, <1>7
  <1> QED BY <1>6, <1>7 DEF u, p

-----------------------------------------------------------------------------
(* Types                                                                   *)

Locals ==
  [pc : {"idle", "clock", "last", "claim", "load", "store", "balance", "take", "lookup", "create"},
   ip : Ips \cup {None}, bucket : Buckets \cup {None},
   now : 0..MaxTime, last : 0..MaxTime, seen : Nat]

\* A bucket at time n.
Filled(b, n) == [tokens : 0..Capacity(b), last_refill : 0..n, rate : Rates, born : 0..n]

LEMMA CapacityType == \A b : Capacity(b) \in Nat
  BY RateLimiterAssumption DEF Capacity

\* A bucket that exists is a record; None is none.
LEMMA FilledIs ==
  ASSUME NEW b, NEW n \in Nat
  PROVE  \A x \in Filled(b, n) :
           /\ x # None
           /\ x.tokens \in Nat /\ x.tokens <= Capacity(b) /\ x.rate \in Nat /\ x.rate <= MaxRate
           /\ x.rate \in Rates
           /\ x.last_refill \in Nat /\ x.last_refill <= n /\ x.born \in Nat /\ x.born <= n
  <1> TAKE x \in Filled(b, n)
  <1>1. /\ x.tokens \in 0..Capacity(b) /\ x.last_refill \in 0..n /\ x.rate \in Rates /\ x.born \in 0..n
        /\ x = [tokens |-> x.tokens, last_refill |-> x.last_refill, rate |-> x.rate, born |-> x.born]
    BY DEF Filled
  <1>2. /\ x.tokens \in Nat /\ x.tokens <= Capacity(b) /\ x.rate \in Nat /\ x.rate <= MaxRate
        /\ x.last_refill \in Nat /\ x.last_refill <= n /\ x.born \in Nat /\ x.born <= n
    BY <1>1, CapacityType, MaxRateIs
  <1>3. x \in [tokens : Nat, last_refill : Nat, rate : Rates, born : Nat]
    BY <1>1, <1>2
  <1> QED BY <1>1, <1>2, <1>3, RateLimiterAssumption

LEMMA Typed ==
  TypeOK <=>
    /\ now \in Nat /\ now <= MaxTime
    /\ DOMAIN bucket = Buckets
    /\ \A b \in Buckets : (b # "global" /\ bucket[b] = None) \/ bucket[b] \in Filled(b, now)
    /\ thread \in [Threads -> Locals]
    /\ admitted \in [Buckets -> Nat] /\ undone \in [Buckets -> Nat]
  <1>1. now \in 0..MaxTime <=> now \in Nat /\ now <= MaxTime
    BY RateLimiterAssumption
  <1> QED BY <1>1 DEF TypeOK, Filled, Locals

\* The same in the next state.
LEMMA TypedAfter ==
  ASSUME /\ now' \in Nat /\ now' <= MaxTime
         /\ DOMAIN bucket' = Buckets
         /\ \A b \in Buckets : (b # "global" /\ bucket'[b] = None) \/ bucket'[b] \in Filled(b, now')
         /\ thread' \in [Threads -> Locals]
         /\ admitted' \in [Buckets -> Nat] /\ undone' \in [Buckets -> Nat]
  PROVE  TypeOK'
  <1>1. now' \in 0..MaxTime
    BY RateLimiterAssumption
  <1> QED BY <1>1 DEF TypeOK, Filled, Locals

LEMMA LocalsIs ==
  \A r \in Locals :
    /\ r.now \in Nat /\ r.now <= MaxTime /\ r.last \in Nat /\ r.last <= MaxTime /\ r.seen \in Nat
    /\ r.pc \in {"idle", "clock", "last", "claim", "load", "store", "balance", "take", "lookup", "create"}
    /\ r.ip \in Ips \cup {None} /\ r.bucket \in Buckets \cup {None}
  BY RateLimiterAssumption DEF Locals

\* What is known of a bucket that a thread works on.
LEMMA BucketIs ==
  ASSUME TypeOK, NEW b \in Buckets, bucket[b] # None
  PROVE  /\ bucket[b] \in Filled(b, now) /\ now \in Nat
         /\ bucket[b].tokens \in Nat /\ bucket[b].tokens <= Capacity(b)
         /\ bucket[b].rate \in Nat /\ bucket[b].rate <= MaxRate
         /\ bucket[b].last_refill \in Nat /\ bucket[b].last_refill <= now
         /\ bucket[b].born \in Nat /\ bucket[b].born <= now
  BY Typed, FilledIs

-----------------------------------------------------------------------------
(* What a step leaves as it is                                             *)

\* The same threads refill b, and the same periods.
SameRefills(b) ==
  \A u \in Threads :
    /\ Refills(u, b)' <=> Refills(u, b)
    /\ Refills(u, b) => thread'[u].last = thread[u].last /\ thread'[u].now = thread[u].now

\* Whoever has tokens of b to store had them before.
SameStores(b) ==
  \A u \in Threads : At(u, "store")' /\ thread'[u].bucket = b =>
    At(u, "store") /\ thread[u].bucket = b /\ thread'[u].seen = thread[u].seen

\* Bucket b is as it was, but for its rate.
SameBucket(b) ==
  /\ bucket'[b] = None <=> bucket[b] = None
  /\ admitted'[b] = admitted[b] /\ undone'[b] = undone[b]
  /\ bucket[b] # None =>
       /\ bucket'[b].tokens = bucket[b].tokens /\ bucket'[b].born = bucket[b].born
       /\ bucket'[b].last_refill = bucket[b].last_refill

LEMMA SameClaims ==
  ASSUME NEW b, NEW out, SameRefills(b)
  PROVE  Claimed(b, out)' = Claimed(b, out)
  BY DEF Claimed, SameRefills

LEMMA KeptBucket ==
  ASSUME NEW b, Good(b), SameRefills(b), SameStores(b), SameBucket(b)
  PROVE  Good(b)'
  <1>1. Pending(b)' = Pending(b)
    BY SameClaims DEF Pending
  <1>2. \A t : PendingWithout(b, t)' = PendingWithout(b, t)
    BY SameClaims DEF PendingWithout
  <1>3. bucket[b] # None => Allowed(b)' = Allowed(b)
    BY DEF SameBucket, Allowed
  <1>4. ASSUME bucket[b] # None PROVE Within(b, bucket[b].tokens, Pending(b))'
    BY <1>1, <1>3, <1>4 DEF Within, SameBucket, Good
  <1>5. ASSUME bucket[b] # None, NEW t \in Threads, At(t, "store")', thread'[t].bucket = b
        PROVE  Within(b, thread[t].seen, PendingWithout(b, t))'
    BY <1>2, <1>3, <1>5 DEF Within, SameBucket, SameStores, Good
  <1> QED BY <1>4, <1>5 DEF Good, SameBucket

-----------------------------------------------------------------------------
(* Steps that refill nothing and take nothing                              *)

Refill == {"load", "store"}

\* Thread t goes on to locals r, outside a refill before and after.
LEMMA MoveKeeps ==
  ASSUME IInv, NEW t \in Threads, NEW r \in Locals,
         thread[t].pc \notin Refill, r.pc \notin Refill, Sound(r),
         thread' = [thread EXCEPT ![t] = r], UNCHANGED <<now, bucket, admitted, undone>>
  PROVE  IInv'
  <1>0. TypeOK /\ ThreadInv /\ PeriodInv /\ BucketInv
    BY DEF IInv
  <1>1. thread \in [Threads -> Locals]
    BY <1>0, Typed
  <1>2. thread'[t] = r /\ \A u \in Threads \ {t} : thread'[u] = thread[u]
    BY <1>1
  <1>3. TypeOK'
    <2>1. thread' \in [Threads -> Locals]
      BY <1>1
    <2> QED BY <1>0, <2>1, Typed, TypedAfter
  <1>4. ThreadInv'
    <2> SUFFICES ASSUME NEW u \in Threads PROVE Sound(thread[u])'
      BY DEF ThreadInv
    <2>1. Sound(thread'[u])
      BY <1>0, <1>2 DEF ThreadInv
    <2> QED BY <2>1 DEF Sound
  <1>5. PeriodInv'
    BY <1>0, <1>2 DEF PeriodInv, Refill, Refills, Apart, Bucket
  <1>6. BucketInv'
    <2> SUFFICES ASSUME NEW b \in Buckets PROVE Good(b)'
      BY DEF BucketInv
    <2>1. SameRefills(b)
      BY <1>2 DEF SameRefills, Refills, Refill
    <2>2. SameStores(b)
      BY <1>2 DEF SameStores, At, Refill
    <2>3. SameBucket(b)
      BY DEF SameBucket
    <2> QED BY <1>0, <2>1, <2>2, <2>3, KeptBucket DEF BucketInv
  <1> QED BY <1>3, <1>4, <1>5, <1>6 DEF IInv

\* A thread that works on a bucket has one.
LEMMA AtBucket ==
  ASSUME IInv, NEW t \in Threads, thread[t].pc \in Trying
  PROVE  /\ thread[t].bucket \in Buckets /\ Bucket(t) = bucket[thread[t].bucket] /\ Bucket(t) # None
         /\ thread[t] \in Locals /\ thread \in [Threads -> Locals]
         /\ Bucket(t).tokens \in Nat /\ Bucket(t).tokens <= Capacity(thread[t].bucket)
         /\ Bucket(t).last_refill \in Nat /\ Bucket(t).last_refill <= now
         /\ Bucket(t).born \in Nat /\ Bucket(t).born <= now
         /\ Bucket(t).rate \in Nat /\ Bucket(t).rate <= MaxRate
         /\ thread[t].now \in Nat /\ thread[t].last \in Nat /\ thread[t].seen \in Nat
         /\ now \in Nat /\ now <= MaxTime
         /\ thread[t].now <= now
  <1>1. thread[t].bucket \in Buckets /\ Bucket(t) = bucket[thread[t].bucket] /\ Bucket(t) # None
    BY DEF IInv, ThreadInv, Sound, Bucket
  <1>2. TypeOK /\ thread \in [Threads -> Locals] /\ now \in Nat /\ now <= MaxTime
    BY Typed DEF IInv
  <1>3. thread[t] \in Locals
    BY <1>2
  <1>4. thread[t].now <= now
    BY DEF IInv, ThreadInv, Sound
  <1> QED BY <1>1, <1>2, <1>3, <1>4, BucketIs, LocalsIs

LEMMA IdleType == Idle \in Locals /\ Idle.now = 0 /\ Idle.pc \notin Refill /\ (now \in Nat => Sound(Idle))
  BY RateLimiterAssumption DEF Idle, Locals, Refill, Sound, Trying

LEMMA ConsumingType ==
  ASSUME NEW b \in Buckets, NEW ip \in Ips \cup {None}, bucket[b] # None, now \in Nat
  PROVE  Consuming(b, ip) \in Locals /\ Consuming(b, ip).pc = "clock" /\ Sound(Consuming(b, ip))
  <1>1. Idle \in Locals /\ Idle.now = 0
    BY IdleType
  <1>2. /\ Consuming(b, ip) \in Locals /\ Consuming(b, ip).pc = "clock"
        /\ Consuming(b, ip).bucket = b /\ Consuming(b, ip).now = 0
    BY <1>1 DEF Consuming, Locals
  <1> QED BY <1>2 DEF Sound, Trying

LEMMA IInvParts == IInv => /\ now \in Nat /\ now <= MaxTime /\ thread \in [Threads -> Locals] /\ bucket["global"] # None
                           /\ \A t \in Threads : thread[t] \in Locals
  <1>1. TypeOK => bucket["global"] \in Filled("global", now) /\ now \in Nat
    BY Typed DEF Buckets
  <1>2. TypeOK => bucket["global"] # None
    BY <1>1, FilledIs
  <1> QED BY <1>2, Typed DEF IInv

LEMMA CheckKeeps == ASSUME IInv, NEW t \in Threads, NEW ip \in Ips \cup {None}, Check(t, ip) PROVE IInv'
  <1>1. "global" \in Buckets
    BY DEF Buckets
  <1>2. Consuming("global", ip) \in Locals /\ Consuming("global", ip).pc = "clock" /\ Sound(Consuming("global", ip))
    BY <1>1, IInvParts, ConsumingType
  <1>3. thread[t].pc \notin Refill /\ Consuming("global", ip).pc \notin Refill
    BY <1>2 DEF Check, At, Refill
  <1> QED BY <1>2, <1>3, MoveKeeps DEF Check, Consume

LEMMA ReadClockKeeps == ASSUME IInv, NEW t \in Threads, ReadClock(t) PROVE IInv'
  <1> DEFINE r == [thread[t] EXCEPT !.now = now, !.pc = "last"]
  <1>1. thread[t].pc = "clock" /\ thread[t].pc \in Trying /\ thread[t].pc \notin Refill
    BY DEF ReadClock, At, Trying, Refill
  <1>2. thread[t] \in Locals /\ now \in 0..MaxTime /\ now <= now
    BY IInvParts DEF IInv, TypeOK
  <1>3. r \in Locals /\ r.pc = "last" /\ r.now = now /\ r.bucket = thread[t].bucket
    BY <1>2 DEF Locals
  <1>4. Sound(r)
    BY <1>1, <1>2, <1>3, AtBucket DEF Sound
  <1>5. thread' = [thread EXCEPT ![t] = r]
    BY IInvParts DEF ReadClock
  <1>6. UNCHANGED <<now, bucket, admitted, undone>>
    BY DEF ReadClock
  <1>7. r.pc \notin Refill
    BY <1>3 DEF Refill
  <1> HIDE DEF r
  <1> QED BY <1>1, <1>3, <1>4, <1>5, <1>6, <1>7, MoveKeeps

LEMMA LoadLastKeeps == ASSUME IInv, NEW t \in Threads, LoadLast(t) PROVE IInv'
  <1> DEFINE next == IF thread[t].now <= Bucket(t).last_refill THEN "balance" ELSE "claim"
             r == [thread[t] EXCEPT !.last = Bucket(t).last_refill, !.pc = next]
  <1>1. thread[t].pc = "last" /\ thread[t].pc \in Trying /\ thread[t].pc \notin Refill
    BY DEF LoadLast, At, Trying, Refill
  <1>2. thread[t] \in Locals /\ Bucket(t).last_refill \in 0..MaxTime
    BY <1>1, AtBucket, RateLimiterAssumption
  <1>3. /\ r \in Locals /\ r.pc = next /\ r.now = thread[t].now /\ r.bucket = thread[t].bucket
        /\ r.last = Bucket(t).last_refill
    BY <1>2 DEF Locals
  <1>4. next = "claim" => Bucket(t).last_refill < thread[t].now
    BY <1>1, AtBucket
  <1>5. next \in {"balance", "claim"}
    OBVIOUS
  <1>6. thread' = [thread EXCEPT ![t] = r]
    BY IInvParts DEF LoadLast
  <1>7. UNCHANGED <<now, bucket, admitted, undone>>
    BY DEF LoadLast
  <1> HIDE DEF next
  <1>8. Sound(r)
    BY <1>1, <1>3, <1>4, <1>5, AtBucket DEF Sound
  <1>9. r.pc \notin Refill
    BY <1>3, <1>5 DEF Refill
  <1> HIDE DEF r
  <1> QED BY <1>1, <1>3, <1>6, <1>7, <1>8, <1>9, MoveKeeps

\* Thread t only goes from one place of a bucket to another.
LEMMA GotoKeeps ==
  ASSUME IInv, NEW t \in Threads, NEW pc \in {"balance", "take"}, NEW seen \in Nat,
         thread[t].pc \in Trying \ Refill,
         thread' = [thread EXCEPT ![t] = [thread[t] EXCEPT !.pc = pc, !.seen = seen]],
         UNCHANGED <<now, bucket, admitted, undone>>
  PROVE  IInv'
  <1> DEFINE r == [thread[t] EXCEPT !.pc = pc, !.seen = seen]
  <1>1. r \in Locals /\ r.pc = pc /\ r.now = thread[t].now /\ r.bucket = thread[t].bucket
    BY AtBucket DEF Locals
  <1>2. Sound(r) /\ r.pc \notin Refill
    BY <1>1, AtBucket DEF Sound, Refill
  <1>3. thread' = [thread EXCEPT ![t] = r]
    OBVIOUS
  <1> HIDE DEF r
  <1> QED BY <1>1, <1>2, <1>3, MoveKeeps

LEMMA LoadBalanceKeeps == ASSUME IInv, NEW t \in Threads, LoadBalance(t) PROVE IInv'
  <1>1. thread[t].pc \in Trying \ Refill
    BY DEF LoadBalance, At, Trying, Refill
  <1>2. Bucket(t).tokens \in Nat /\ thread[t] \in Locals /\ thread \in [Threads -> Locals]
    BY <1>1, AtBucket
  <1>3. thread' = [thread EXCEPT ![t] = [thread[t] EXCEPT !.pc = "take", !.seen = Bucket(t).tokens]]
    BY <1>2 DEF LoadBalance, Locals
  <1> QED BY <1>1, <1>2, <1>3, GotoKeeps DEF LoadBalance

LEMMA RetryKeeps == ASSUME IInv, NEW t \in Threads, Retry(t) PROVE IInv'
  <1>1. thread[t].pc = "take" /\ thread[t].pc \in Trying \ Refill
    BY DEF Retry, At, Trying, Refill
  <1>2. Bucket(t).tokens \in Nat /\ thread[t] \in Locals /\ thread \in [Threads -> Locals]
    BY <1>1, AtBucket
  <1>3. thread' = [thread EXCEPT ![t] = [thread[t] EXCEPT !.pc = "take", !.seen = Bucket(t).tokens]]
    BY <1>1, <1>2 DEF Retry, Locals
  <1> QED BY <1>1, <1>2, <1>3, GotoKeeps DEF Retry

LEMMA RefuseKeeps == ASSUME IInv, NEW t \in Threads, Refuse(t) PROVE IInv'
  <1>1. thread[t].pc \notin Refill
    BY DEF Refuse, At, Refill
  <1> QED BY <1>1, IdleType, IInvParts, MoveKeeps DEF Refuse

LEMMA LookupKeeps == ASSUME IInv, NEW t \in Threads, Lookup(t) PROVE IInv'
  <1>1. thread[t].pc = "lookup" /\ thread[t].pc \notin Refill /\ thread[t] \in Locals /\ now \in Nat
    BY IInvParts DEF Lookup, At, Refill
  <1>2. thread[t].ip \in Ips /\ thread[t].ip \in Buckets /\ thread[t].ip \in Ips \cup {None}
    BY <1>1 DEF IInv, ThreadInv, Sound, Buckets
  <1>3. UNCHANGED <<now, bucket, admitted, undone>>
    BY DEF Lookup
  <1>4. CASE bucket[thread[t].ip] = None
    <2> DEFINE r == [thread[t] EXCEPT !.pc = "create"]
    <2>1. r \in Locals /\ r.pc = "create" /\ r.ip = thread[t].ip /\ r.now = thread[t].now
      BY <1>1 DEF Locals
    <2>2. Sound(r) /\ r.pc \notin Refill
      BY <1>2, <2>1 DEF Sound, IInv, ThreadInv, Trying, Refill
    <2>3. thread' = [thread EXCEPT ![t] = r]
      BY <1>4, IInvParts DEF Lookup, Goto
    <2> HIDE DEF r
    <2> QED BY <1>1, <1>3, <2>1, <2>2, <2>3, MoveKeeps
  <1>5. CASE bucket[thread[t].ip] # None
    <2> DEFINE r == Consuming(thread[t].ip, thread[t].ip)
    <2>1. r \in Locals /\ r.pc = "clock" /\ Sound(r)
      BY <1>1, <1>2, <1>5, ConsumingType
    <2>2. thread' = [thread EXCEPT ![t] = r]
      BY <1>5 DEF Lookup, Consume
    <2>3. r.pc \notin Refill
      BY <2>1 DEF Refill
    <2> HIDE DEF r
    <2> QED BY <1>1, <1>3, <2>1, <2>2, <2>3, MoveKeeps
  <1> QED BY <1>4, <1>5

-----------------------------------------------------------------------------
(* Steps that change a bucket                                              *)

\* What Sound asks of a thread in the next state.
SoundAfter(r) ==
  /\ r.pc \in Trying => r.bucket \in Buckets /\ bucket'[r.bucket] # None
  /\ r.pc \in {"lookup", "create"} => r.ip \in Ips
  /\ r.now <= now'
  /\ r.pc = "claim" => r.last < r.now
  /\ r.pc = "store" => r.seen <= Capacity(r.bucket)

LEMMA ThreadsAfter ==
  ASSUME IInv, NEW t \in Threads, NEW r \in Locals, SoundAfter(r), now' = now,
         thread' = [thread EXCEPT ![t] = r],
         \A c \in Buckets : bucket[c] # None => bucket'[c] # None
  PROVE  /\ ThreadInv' /\ thread' \in [Threads -> Locals]
         /\ thread'[t] = r /\ \A u \in Threads \ {t} : thread'[u] = thread[u]
  <1>1. thread \in [Threads -> Locals] /\ ThreadInv
    BY IInvParts DEF IInv
  <1>2. thread'[t] = r /\ thread' \in [Threads -> Locals] /\ \A u \in Threads \ {t} : thread'[u] = thread[u]
    BY <1>1
  <1>3. ASSUME NEW u \in Threads PROVE Sound(thread[u])'
    <2>1. CASE u = t
      BY <1>2, <2>1 DEF Sound, SoundAfter
    <2>2. CASE u # t
      BY <1>1, <1>2, <2>2 DEF Sound, ThreadInv
    <2> QED BY <2>1, <2>2
  <1> QED BY <1>2, <1>3 DEF ThreadInv

LEMMA BucketsAfter ==
  ASSUME TypeOK, NEW b \in Buckets, NEW x \in Filled(b, now), bucket' = [bucket EXCEPT ![b] = x], now' = now
  PROVE  /\ DOMAIN bucket' = Buckets
         /\ \A c \in Buckets : (c # "global" /\ bucket'[c] = None) \/ bucket'[c] \in Filled(c, now')
         /\ bucket'[b] = x /\ x # None /\ \A c \in Buckets \ {b} : bucket'[c] = bucket[c]
         /\ \A c \in Buckets : bucket[c] # None => bucket'[c] # None
  <1>1. DOMAIN bucket = Buckets /\ now \in Nat
    BY Typed
  <1>2. bucket'[b] = x /\ DOMAIN bucket' = Buckets /\ \A c \in Buckets \ {b} : bucket'[c] = bucket[c]
    BY <1>1
  <1>3. x # None
    BY <1>1, FilledIs
  <1> QED BY <1>2, <1>3, Typed

\* The buckets that thread t, of bucket b, does not touch stay good.
LEMMA OthersKeep ==
  ASSUME IInv, NEW t \in Threads, NEW b,
         thread[t].bucket = b \/ thread[t].pc \notin Refill,
         thread'[t].bucket = b \/ thread'[t].pc \notin Refill,
         \A u \in Threads \ {t} : thread'[u] = thread[u],
         NEW c \in Buckets, c # b, bucket'[c] = bucket[c], admitted'[c] = admitted[c], undone'[c] = undone[c]
  PROVE  Good(c)'
  <1>1. SameRefills(c)
    BY DEF SameRefills, Refills, Refill
  <1>2. SameStores(c)
    BY DEF SameStores, At, Refill
  <1>3. SameBucket(c)
    BY DEF SameBucket
  <1> QED BY <1>1, <1>2, <1>3, KeptBucket DEF IInv, BucketInv

LEMMA TickKeeps == ASSUME IInv, Tick PROVE IInv'
  <1>0. TypeOK /\ ThreadInv /\ PeriodInv /\ BucketInv /\ now \in Nat /\ now' = now + 1
    BY Typed DEF IInv, Tick
  <1>1. TypeOK'
    <2>1. \A b : Filled(b, now) \subseteq Filled(b, now')
      BY <1>0 DEF Filled
    <2>2. now' \in Nat /\ now' <= MaxTime
      BY <1>0, RateLimiterAssumption DEF Tick
    <2> QED BY <1>0, <2>1, <2>2, Typed, TypedAfter DEF Tick
  <1>2. ThreadInv'
    <2>1. \A t \in Threads : thread[t].now \in Nat
      BY IInvParts, LocalsIs
    <2> QED BY <1>0, <2>1 DEF ThreadInv, Sound, Tick
  <1>3. PeriodInv'
    BY <1>0 DEF PeriodInv, Tick, Refills, Apart, Bucket
  <1>4. BucketInv'
    <2> SUFFICES ASSUME NEW b \in Buckets PROVE Good(b)'
      BY DEF BucketInv
    <2>1. SameRefills(b) /\ SameStores(b) /\ SameBucket(b)
      BY DEF SameRefills, SameStores, SameBucket, Refills, At, Tick
    <2> QED BY <1>0, <2>1, KeptBucket DEF BucketInv
  <1> QED BY <1>1, <1>2, <1>3, <1>4 DEF IInv

LEMMA SetRateKeeps == ASSUME IInv, NEW b \in Buckets, NEW rate \in Rates, SetRate(b, rate) PROVE IInv'
  <1> DEFINE x == [bucket[b] EXCEPT !.rate = rate]
  <1>0. TypeOK /\ ThreadInv /\ PeriodInv /\ BucketInv /\ bucket[b] \in Filled(b, now) /\ bucket[b] # None
    BY BucketIs DEF IInv, SetRate
  <1>1. /\ x \in Filled(b, now) /\ x.tokens = bucket[b].tokens /\ x.last_refill = bucket[b].last_refill
        /\ x.born = bucket[b].born
    BY <1>0 DEF Filled
  <1>2. bucket' = [bucket EXCEPT ![b] = x] /\ UNCHANGED <<now, thread, admitted, undone>>
    BY DEF SetRate
  <1> HIDE DEF x
  <1>3. /\ DOMAIN bucket' = Buckets
        /\ \A c \in Buckets : (c # "global" /\ bucket'[c] = None) \/ bucket'[c] \in Filled(c, now')
        /\ bucket'[b] = x /\ x # None /\ \A c \in Buckets \ {b} : bucket'[c] = bucket[c]
        /\ \A c \in Buckets : bucket[c] # None => bucket'[c] # None
    BY <1>0, <1>1, <1>2, BucketsAfter
  <1>4. TypeOK'
    BY <1>0, <1>2, <1>3, Typed, TypedAfter
  <1>5. ThreadInv'
    BY <1>0, <1>2, <1>3 DEF ThreadInv, Sound
  <1>6. \A c \in Buckets : SameBucket(c)
    BY <1>0, <1>1, <1>2, <1>3 DEF SameBucket
  <1>7. PeriodInv'
    <2>1. \A t \in Threads : thread[t].pc \in {"load", "store"} => Bucket(t).last_refill' = Bucket(t).last_refill
      BY <1>0, <1>2, <1>6 DEF SameBucket, Bucket, ThreadInv, Sound, Trying
    <2> QED BY <1>0, <1>2, <2>1 DEF PeriodInv, Refills, Apart
  <1>8. BucketInv'
    <2> SUFFICES ASSUME NEW c \in Buckets PROVE Good(c)'
      BY DEF BucketInv
    <2>1. SameRefills(c) /\ SameStores(c)
      BY <1>2 DEF SameRefills, SameStores, Refills, At
    <2> QED BY <1>0, <1>6, <2>1, KeptBucket DEF BucketInv
  <1> QED BY <1>4, <1>5, <1>7, <1>8 DEF IInv

-----------------------------------------------------------------------------
(* A refill                                                                *)

\* Arithmetic: a refill from m to n makes room for its ticks.
LEMMA RoomGrows ==
  ASSUME NEW rate \in Nat, NEW a \in Nat, NEW k \in Nat, NEW l \in Nat, NEW c \in Nat,
         NEW born \in Nat, NEW m \in Nat, NEW n \in Nat, born <= m, m <= n, l <= k + (n - m),
         a + rate * k <= c + rate * (m - born)
  PROVE  a + rate * l <= c + rate * (n - born)
  <1>1. PICK d \in Nat, e \in Nat : d = n - m /\ e = m - born /\ n - born = e + d
    OBVIOUS
  <1>2. rate * l <= rate * (k + d) /\ rate * l \in Nat /\ rate * (k + d) = rate * k + rate * d /\ rate * k \in Nat
    BY <1>1, Times
  <1>3. rate * (e + d) = rate * e + rate * d /\ rate * e \in Nat /\ rate * d \in Nat
    BY <1>1, Times
  <1> QED BY <1>1, <1>2, <1>3

\* Arithmetic: fewer ticks need less room.
LEMMA LessRoom ==
  ASSUME NEW rate \in Nat, NEW k \in Nat, NEW l \in Nat, l <= k
  PROVE  rate * l \in Nat /\ rate * k \in Nat /\ rate * l <= rate * k
  BY Times

\* The numbers of a bucket.
LEMMA Numbers ==
  ASSUME IInv, NEW b \in Buckets
  PROVE  /\ admitted[b] \in Nat /\ undone[b] \in Nat /\ Capacity(b) \in Nat /\ Cost \in Nat
         /\ Cost * admitted[b] \in Nat /\ Cost * undone[b] \in Nat /\ MaxRate \in Nat
         /\ Cost * (admitted[b] + 1) = Cost * admitted[b] + Cost
         /\ Cost * (undone[b] + 1) = Cost * undone[b] + Cost
         /\ \A out : Cardinality(Claimed(b, out)) \in Nat /\ MaxRate * Cardinality(Claimed(b, out)) \in Nat
  <1>1. admitted[b] \in Nat /\ undone[b] \in Nat /\ Capacity(b) \in Nat /\ Cost \in Nat /\ MaxRate \in Nat
    BY CapacityType, MaxRateIs, Typed, RateLimiterAssumption DEF IInv
  <1>2. /\ Cost * admitted[b] \in Nat /\ Cost * undone[b] \in Nat
        /\ Cost * (admitted[b] + 1) = Cost * admitted[b] + Cost
        /\ Cost * (undone[b] + 1) = Cost * undone[b] + Cost
    BY <1>1, Times
  <1>3. \A out : Cardinality(Claimed(b, out)) \in Nat /\ MaxRate * Cardinality(Claimed(b, out)) \in Nat
    BY <1>1, ClaimedFinite, Times
  <1> QED BY <1>1, <1>2, <1>3

\* What Within says of a bucket, as numbers.
LEMMA WithinIs ==
  ASSUME NEW b, NEW tokens, NEW ticks
  PROVE  Within(b, tokens, ticks) <=>
           Cost * admitted[b] + tokens + MaxRate * Cardinality(ticks)
             <= Capacity(b) + MaxRate * (bucket[b].last_refill - bucket[b].born) + Cost * undone[b]
  BY DEF Within, Allowed

\* Sets of ticks are finite.
LEMMA TicksFinite ==
  ASSUME NEW s, s \subseteq 1..MaxTime PROVE IsFiniteSet(s) /\ Cardinality(s) \in Nat
  <1>1. MaxTime \in Int /\ 1 \in Int
    BY RateLimiterAssumption
  <1>2. IsFiniteSet(1..MaxTime)
    BY <1>1, FS_Interval
  <1> QED BY <1>2, FS_Subset, FS_CardinalityType

LEMMA ClaimFails == ASSUME IInv, NEW t \in Threads, Claim(t), Bucket(t).last_refill # thread[t].last PROVE IInv'
  <1>1. thread[t].pc = "claim" /\ thread[t].pc \in Trying \ Refill /\ thread[t].pc \in Trying
    BY DEF Claim, At, Trying, Refill
  <1>2. thread[t].seen \in Nat /\ thread[t] \in Locals /\ thread \in [Threads -> Locals]
    BY <1>1, AtBucket
  <1>3. thread' = [thread EXCEPT ![t] = [thread[t] EXCEPT !.pc = "balance", !.seen = thread[t].seen]]
    BY <1>2 DEF Claim, Goto, Locals
  <1> QED BY <1>1, <1>2, <1>3, GotoKeeps DEF Claim

\* The ticks of a claimed period come to those of bucket b.
LEMMA ClaimSucceeds ==
  ASSUME IInv, NEW t \in Threads, Claim(t), Bucket(t).last_refill = thread[t].last
  PROVE  IInv'
  <1> DEFINE b0 == thread[t].bucket
             x0 == [Bucket(t) EXCEPT !.last_refill = thread[t].now]
             r0 == [thread[t] EXCEPT !.pc = "load"]
  <1>0. TypeOK /\ ThreadInv /\ PeriodInv /\ BucketInv
    BY DEF IInv
  <1>1. thread[t].pc = "claim" /\ thread[t].pc \in Trying /\ thread[t].pc \notin Refill
    BY DEF Claim, At, Trying, Refill
  <1>2. /\ b0 \in Buckets /\ Bucket(t) = bucket[b0] /\ bucket[b0] # None /\ bucket[b0] \in Filled(b0, now)
        /\ thread[t] \in Locals /\ thread[t].now \in Nat /\ thread[t].now <= now /\ now \in Nat
        /\ thread[t].last \in Nat /\ thread[t].last < thread[t].now
    BY <1>0, <1>1, AtBucket, BucketIs DEF ThreadInv, Sound
  <1>3. /\ x0 \in Filled(b0, now) /\ x0.tokens = bucket[b0].tokens /\ x0.last_refill = thread[t].now
        /\ x0.born = bucket[b0].born
    BY <1>2 DEF Filled
  <1>4. /\ r0 \in Locals /\ r0.pc = "load" /\ r0.bucket = b0 /\ r0.now = thread[t].now /\ r0.last = thread[t].last
    BY <1>2 DEF Locals
  <1>5. bucket' = [bucket EXCEPT ![b0] = x0] /\ thread' = [thread EXCEPT ![t] = r0]
    BY <1>2 DEF Claim, Goto
  <1> HIDE DEF b0, x0, r0
  <1>6. PICK b \in Buckets, x \in Filled(b0, now), r \in Locals : b = b0 /\ x = x0 /\ r = r0
    BY <1>2, <1>3, <1>4
  <1>7. thread[t].bucket = b /\ UNCHANGED <<now, admitted, undone>>
    BY <1>6 DEF b0, Claim
  <1>8. /\ DOMAIN bucket' = Buckets
        /\ \A c \in Buckets : (c # "global" /\ bucket'[c] = None) \/ bucket'[c] \in Filled(c, now')
        /\ bucket'[b] = x /\ x # None /\ \A c \in Buckets \ {b} : bucket'[c] = bucket[c]
        /\ \A c \in Buckets : bucket[c] # None => bucket'[c] # None
    BY <1>0, <1>5, <1>6, <1>7, BucketsAfter
  <1>9. SoundAfter(r)
    BY <1>2, <1>4, <1>6, <1>7, <1>8 DEF SoundAfter
  <1>10. /\ ThreadInv' /\ thread' \in [Threads -> Locals]
         /\ thread'[t] = r /\ \A u \in Threads \ {t} : thread'[u] = thread[u]
    BY <1>5, <1>6, <1>7, <1>8, <1>9, ThreadsAfter
  <1>11. TypeOK'
    BY <1>0, <1>7, <1>8, <1>10, Typed, TypedAfter
  <1>12. \A u \in Threads : thread[u].now \in Nat /\ thread[u].last \in Nat
    BY IInvParts, LocalsIs
  <1>13. /\ bucket[b].last_refill = thread[t].last /\ bucket'[b].last_refill = thread[t].now
         /\ bucket'[b].tokens = bucket[b].tokens /\ bucket'[b].born = bucket[b].born
         /\ r.pc = "load" /\ r.bucket = b /\ r.now = thread[t].now /\ r.last = thread[t].last
    BY <1>2, <1>3, <1>4, <1>6, <1>8
  <1>14. \A u \in Threads \ {t} : Refills(u, b) => thread[u].now <= thread[t].last
    BY <1>0, <1>7, <1>13 DEF PeriodInv, Refills, Bucket
  <1>15. PeriodInv'
    <2>1. ASSUME NEW u \in Threads, thread'[u].pc \in {"load", "store"}
          PROVE  thread'[u].last < thread'[u].now /\ thread'[u].now <= bucket'[thread'[u].bucket].last_refill
      <3>1. CASE u = t
        BY <1>2, <1>10, <1>13, <3>1
      <3>2. CASE u # t /\ thread[u].bucket = b
        BY <1>0, <1>2, <1>10, <1>12, <1>13, <1>14, <2>1, <3>2 DEF PeriodInv, Refills, Bucket
      <3>3. CASE u # t /\ thread[u].bucket # b
        BY <1>0, <1>8, <1>10, <2>1, <3>3 DEF PeriodInv, Bucket, ThreadInv, Sound, Trying
      <3> QED BY <3>1, <3>2, <3>3
    <2>2. ASSUME NEW c \in Buckets, NEW u \in Threads, NEW v \in Threads, u # v, Refills(u, c)', Refills(v, c)'
          PROVE  Apart(u, v)'
      <3>1. CASE u # t /\ v # t
        BY <1>0, <1>10, <2>2, <3>1 DEF PeriodInv, Refills, Apart
      <3>2. CASE u = t
        BY <1>10, <1>13, <1>14, <2>2, <3>2 DEF Refills, Apart
      <3>3. CASE v = t
        BY <1>10, <1>13, <1>14, <2>2, <3>3 DEF Refills, Apart
      <3> QED BY <3>1, <3>2, <3>3
    <2> QED BY <2>1, <2>2 DEF PeriodInv, Bucket
  <1>16. Good(b)'
    <2> DEFINE p == (thread[t].last + 1)..thread[t].now
    <2>1. \A out : Claimed(b, out)' \subseteq Claimed(b, out) \cup p
      <3>1. \A u \in Threads \ {t} : Refills(u, b)' => Refills(u, b)
        BY <1>10 DEF Refills
      <3>2. \A tick \in 1..MaxTime : thread[t].last < tick /\ tick <= thread[t].now => tick \in p
        BY <1>2
      <3> QED BY <1>10, <1>13, <3>1, <3>2 DEF Claimed
    <2> HIDE DEF p
    <2>2. Good(b) /\ bucket[b] # None
      BY <1>0, <1>2, <1>6 DEF BucketInv
    <2>3. /\ bucket[b].born \in Nat /\ bucket[b].tokens \in Nat /\ bucket[b].last_refill \in Nat
          /\ bucket[b].born <= bucket[b].last_refill
      BY <1>0, <2>2, BucketIs DEF Good
    <2>4. ASSUME NEW out, NEW tokens \in Nat, Within(b, tokens, Claimed(b, out))
          PROVE  Within(b, tokens, Claimed(b, out))'
      <3>1. Cardinality(Claimed(b, out)') <= Cardinality(Claimed(b, out)) + (thread[t].now - thread[t].last)
        BY <1>2, <2>1, ClaimedFinite, PeriodAdds DEF p
      <3>2. Cardinality(Claimed(b, out)') \in Nat
        <4>1. Claimed(b, out)' \subseteq 1..MaxTime
          BY DEF Claimed
        <4> QED BY <4>1, TicksFinite
      <3>3. PICK k \in Nat, l \in Nat : k = Cardinality(Claimed(b, out)) /\ l = Cardinality(Claimed(b, out)')
        BY <3>2, ClaimedFinite
      <3>4. PICK a \in Nat, c \in Nat : a = Cost * admitted[b] + tokens /\ c = Capacity(b) + Cost * undone[b]
        BY Numbers
      <3>5. PICK z \in Nat, m \in Nat, n \in Nat : z = bucket[b].born /\ m = thread[t].last /\ n = thread[t].now
        BY <1>2, <2>3
      <3>6. a + MaxRate * k <= c + MaxRate * (m - z)
        <4>1. Cost * admitted[b] + tokens + MaxRate * k
                 <= Capacity(b) + MaxRate * (m - z) + Cost * undone[b]
          BY <1>13, <2>4, <3>3, <3>5, WithinIs
        <4>2. MaxRate * k \in Nat /\ m - z \in Nat /\ MaxRate * (m - z) \in Nat
          BY <1>13, <2>3, <3>5, MaxRateIs, Times
        <4> QED BY <3>4, <4>1, <4>2, Numbers
      <3>7. a + MaxRate * l <= c + MaxRate * (n - z)
        <4>1. z <= m /\ m <= n /\ l <= k + (n - m)
          BY <1>2, <1>13, <2>3, <3>1, <3>3, <3>5
        <4> QED BY <3>6, <4>1, MaxRateIs, RoomGrows
      <3>8. MaxRate * l \in Nat /\ n - z \in Nat /\ MaxRate * (n - z) \in Nat
        <4>1. n - z \in Nat
          BY <1>2, <1>13, <2>3, <3>5
        <4> QED BY <4>1, MaxRateIs, Times
      <3>9. Cost * admitted[b] + tokens + MaxRate * l <= Capacity(b) + MaxRate * (n - z) + Cost * undone[b]
        BY <3>4, <3>7, <3>8, Numbers
      <3> QED BY <1>7, <1>13, <3>3, <3>5, <3>9 DEF Within, Allowed
    <2>5. Within(b, bucket[b].tokens, Pending(b))'
      <3>1. Within(b, bucket[b].tokens, Claimed(b, {}))
        BY <2>2 DEF Good, Pending
      <3>2. PICK tokens \in Nat : tokens = bucket[b].tokens
        BY <2>3
      <3>3. Within(b, tokens, Claimed(b, {}))'
        BY <2>4, <3>1, <3>2
      <3>4. bucket'[b].tokens = tokens
        BY <1>13, <3>2
      <3> QED BY <3>3, <3>4 DEF Within, Pending
    <2>6. ASSUME NEW u \in Threads, thread'[u].pc = "store", thread'[u].bucket = b
          PROVE  Within(b, thread[u].seen, PendingWithout(b, u))'
      <3>1. u # t /\ thread'[u] = thread[u]
        BY <1>10, <1>13, <2>6
      <3>2. thread[u].seen \in Nat
        BY IInvParts, LocalsIs
      <3>3. Within(b, thread[u].seen, Claimed(b, {u}))
        BY <2>2, <2>6, <3>1 DEF Good, PendingWithout, At
      <3>4. PICK seen \in Nat : seen = thread[u].seen
        BY <3>2
      <3>5. Within(b, seen, Claimed(b, {u}))'
        BY <2>4, <3>3, <3>4
      <3> QED BY <3>1, <3>4, <3>5 DEF Within, PendingWithout
    <2>7. bucket'[b].born <= bucket'[b].last_refill
      BY <1>2, <1>13, <2>3
    <2> QED BY <1>8, <2>5, <2>6, <2>7 DEF Good, At
  <1>17. BucketInv'
    <2> SUFFICES ASSUME NEW c \in Buckets PROVE Good(c)'
      BY DEF BucketInv
    <2>1. CASE c = b
      BY <1>16, <2>1
    <2>2. CASE c # b
      <3>1. bucket'[c] = bucket[c] /\ admitted'[c] = admitted[c] /\ undone'[c] = undone[c]
        BY <1>7, <1>8, <2>2
      <3>2. thread'[t].bucket = b
        BY <1>10, <1>13
      <3> QED BY <1>7, <1>10, <2>2, <3>1, <3>2, OthersKeep
    <2> QED BY <2>1, <2>2
  <1> QED BY <1>10, <1>11, <1>15, <1>17 DEF IInv

\* The tokens of a thread's period join those it finds: what it will store is within the room of
\* the bucket without its period.
LEMMA LoadTokensKeeps == ASSUME IInv, NEW t \in Threads, LoadTokens(t) PROVE IInv'
  <1> DEFINE b0 == thread[t].bucket
             r0 == [thread[t] EXCEPT !.seen = Refilled(t), !.pc = "store"]
  <1>0. TypeOK /\ ThreadInv /\ PeriodInv /\ BucketInv
    BY DEF IInv
  <1>1. thread[t].pc = "load" /\ thread[t].pc \in Trying /\ Refills(t, b0)
    BY DEF LoadTokens, At, Trying, Refills
  <1>2. /\ b0 \in Buckets /\ Bucket(t) = bucket[b0] /\ bucket[b0] # None
        /\ thread[t] \in Locals /\ thread[t].now \in Nat /\ thread[t].now <= MaxTime
        /\ thread[t].last \in Nat /\ thread[t].last < thread[t].now
        /\ thread[t].now <= now /\ now \in Nat
        /\ Bucket(t).tokens \in Nat /\ Bucket(t).rate \in Nat /\ Bucket(t).rate <= MaxRate
    BY <1>0, <1>1, AtBucket, LocalsIs DEF PeriodInv
  <1>3. PICK d \in Nat : d = thread[t].now - thread[t].last
    BY <1>2
  <1>4. /\ Refilled(t) \in Nat /\ Refilled(t) <= Capacity(b0)
        /\ Refilled(t) <= bucket[b0].tokens + MaxRate * d
    <2>1. PICK rate \in Nat, tokens \in Nat : rate = Bucket(t).rate /\ tokens = Bucket(t).tokens
      BY <1>2
    <2>2. d * rate \in Nat /\ d * rate <= d * MaxRate /\ MaxRate * d = d * MaxRate /\ MaxRate * d \in Nat
      BY <1>2, <2>1, Times, MaxRateIs
    <2>3. PICK e \in Nat : e = d * rate
      BY <2>2
    <2>4. Refilled(t) = Least(Capacity(b0), tokens + e)
      BY <1>3, <2>1, <2>3 DEF Refilled
    <2>5. /\ Least(Capacity(b0), tokens + e) \in Nat /\ Least(Capacity(b0), tokens + e) <= Capacity(b0)
          /\ Least(Capacity(b0), tokens + e) <= tokens + e
      BY LeastIs, CapacityType
    <2>6. tokens + e <= tokens + MaxRate * d
      BY <2>2, <2>3
    <2> QED BY <1>2, <2>1, <2>2, <2>4, <2>5, <2>6
  <1>5. /\ r0 \in Locals /\ r0.pc = "store" /\ r0.bucket = b0 /\ r0.now = thread[t].now /\ r0.last = thread[t].last
        /\ r0.seen = Refilled(t)
    BY <1>2, <1>4 DEF Locals
  <1>6. thread' = [thread EXCEPT ![t] = r0] /\ UNCHANGED <<now, bucket, admitted, undone>>
    BY <1>2 DEF LoadTokens
  <1>7. SoundAfter(r0)
    BY <1>2, <1>4, <1>5, <1>6 DEF SoundAfter
  <1> HIDE DEF b0, r0
  <1>8. PICK b \in Buckets, r \in Locals : b = b0 /\ r = r0
    BY <1>2, <1>5
  <1>9. /\ ThreadInv' /\ thread' \in [Threads -> Locals]
        /\ thread'[t] = r /\ \A u \in Threads \ {t} : thread'[u] = thread[u]
    BY <1>6, <1>7, <1>8, ThreadsAfter
  <1>10. TypeOK'
    BY <1>0, <1>6, <1>9, Typed, TypedAfter
  <1>11. /\ thread[t].bucket = b /\ r.pc = "store" /\ r.bucket = b /\ r.now = thread[t].now
         /\ r.last = thread[t].last /\ r.seen = Refilled(t)
    BY <1>5, <1>8 DEF b0
  <1>12. \A c : SameRefills(c)
    BY <1>1, <1>9, <1>11 DEF SameRefills, Refills
  <1>13. PeriodInv'
    BY <1>0, <1>1, <1>6, <1>9, <1>11 DEF PeriodInv, Refills, Apart, Bucket
  <1>14. PICK seen \in Nat : seen = Refilled(t)
    BY <1>4
  <1>15. Within(b, seen, PendingWithout(b, t))
    <2> DEFINE p == (thread[t].last + 1)..thread[t].now
    <2>1. Pending(b) = PendingWithout(b, t) \cup p
      <3>1. \A tick \in p : tick \in 1..MaxTime /\ thread[t].last < tick /\ tick <= thread[t].now
        BY <1>2, RateLimiterAssumption
      <3>2. \A tick \in 1..MaxTime : thread[t].last < tick /\ tick <= thread[t].now => tick \in p
        BY <1>2
      <3> HIDE DEF p
      <3>3. Refills(t, b)
        BY <1>1, <1>8
      <3> QED BY <3>1, <3>2, <3>3 DEF Pending, PendingWithout, Claimed
    <2>2. PendingWithout(b, t) \cap p = {}
      <3> SUFFICES ASSUME NEW tick \in p, NEW u \in Threads \ {t}, Refills(u, b),
                          thread[u].last < tick, tick <= thread[u].now
                   PROVE  FALSE
        BY DEF PendingWithout, Claimed
      <3>1. thread[u].now \in Nat /\ thread[u].last \in Nat /\ tick \in Nat
            /\ thread[t].last < tick /\ tick <= thread[t].now
        BY <1>2, IInvParts, LocalsIs
      <3>2. Apart(t, u)
        BY <1>0, <1>1, <1>8 DEF PeriodInv
      <3> QED BY <1>2, <3>1, <3>2 DEF Apart
    <2>3. PICK k \in Nat, l \in Nat : k = Cardinality(Pending(b)) /\ l = Cardinality(PendingWithout(b, t))
      BY ClaimedFinite DEF Pending, PendingWithout
    <2>4. k = l + d
      <3>1. IsFiniteSet(PendingWithout(b, t))
        BY ClaimedFinite DEF PendingWithout
      <3>2. thread[t].last <= thread[t].now
        BY <1>2
      <3>3. Cardinality(Pending(b)) = Cardinality(PendingWithout(b, t)) + (thread[t].now - thread[t].last)
        BY <1>2, <2>1, <2>2, <3>1, <3>2, PeriodAdds
      <3> QED BY <1>3, <2>3, <3>3
    <2>5. MaxRate * k = MaxRate * l + MaxRate * d /\ MaxRate * l \in Nat /\ MaxRate * d \in Nat
      BY <2>4, MaxRateIs, Times
    <2>6. Within(b, bucket[b].tokens, Pending(b))
      BY <1>0, <1>2, <1>8 DEF BucketInv, Good
    <2>7. /\ bucket[b].tokens \in Nat /\ bucket[b].born \in Nat /\ bucket[b].last_refill \in Nat
          /\ bucket[b].born <= bucket[b].last_refill
      BY <1>0, <1>2, <1>8, BucketIs DEF BucketInv, Good
    <2>8. PICK e \in Nat : e = bucket[b].last_refill - bucket[b].born
      BY <2>7
    <2>9. PICK room \in Nat : room = MaxRate * e
      BY MaxRateIs, Times
    <2>10. Cost * admitted[b] + bucket[b].tokens + MaxRate * k <= Capacity(b) + room + Cost * undone[b]
      BY <2>3, <2>6, <2>8, <2>9, WithinIs
    <2>11. seen <= bucket[b].tokens + MaxRate * d
      BY <1>4, <1>8, <1>14
    <2>12. Cost * admitted[b] + seen + MaxRate * l <= Capacity(b) + room + Cost * undone[b]
      BY <2>5, <2>7, <2>10, <2>11, Numbers
    <2> QED BY <2>3, <2>8, <2>9, <2>12, WithinIs
  <1>16. Good(b)'
    <2>1. \A out : Claimed(b, out)' = Claimed(b, out)
      BY <1>12, SameClaims
    <2>2. Good(b)
      BY <1>0 DEF BucketInv
    <2>3. ASSUME NEW u \in Threads, thread'[u].pc = "store", thread'[u].bucket = b
          PROVE  Within(b, thread[u].seen, PendingWithout(b, u))'
      <3>1. CASE u = t
        BY <1>6, <1>9, <1>11, <1>14, <1>15, <2>1, <3>1 DEF Within, Allowed, PendingWithout
      <3>2. CASE u # t
        <4>1. Within(b, thread[u].seen, PendingWithout(b, u)) /\ thread'[u] = thread[u]
          BY <1>9, <2>2, <2>3, <3>2, <1>2, <1>8 DEF Good, At
        <4> QED BY <1>6, <2>1, <4>1 DEF Within, Allowed, PendingWithout
      <3> QED BY <3>1, <3>2
    <2>4. Within(b, bucket[b].tokens, Pending(b))'
      BY <1>2, <1>6, <1>8, <2>1, <2>2 DEF Good, Within, Allowed, Pending
    <2> QED BY <1>6, <2>2, <2>3, <2>4 DEF Good, At
  <1>17. BucketInv'
    <2> SUFFICES ASSUME NEW c \in Buckets PROVE Good(c)'
      BY DEF BucketInv
    <2>1. CASE c = b
      BY <1>16, <2>1
    <2>2. CASE c # b
      <3>1. bucket'[c] = bucket[c] /\ admitted'[c] = admitted[c] /\ undone'[c] = undone[c]
        BY <1>6
      <3>2. thread'[t].bucket = b
        BY <1>9, <1>11
      <3> QED BY <1>9, <1>11, <2>2, <3>1, <3>2, OthersKeep
    <2> QED BY <2>1, <2>2
  <1> QED BY <1>9, <1>10, <1>13, <1>17 DEF IInv

\* What was within the room without the period of t becomes what the bucket holds.
LEMMA StoreKeeps == ASSUME IInv, NEW t \in Threads, Store(t) PROVE IInv'
  <1> DEFINE b0 == thread[t].bucket
             x0 == [Bucket(t) EXCEPT !.tokens = thread[t].seen]
             r0 == [thread[t] EXCEPT !.pc = "balance"]
  <1>0. TypeOK /\ ThreadInv /\ PeriodInv /\ BucketInv
    BY DEF IInv
  <1>1. thread[t].pc = "store" /\ thread[t].pc \in Trying
    BY DEF Store, At, Trying
  <1>2. /\ b0 \in Buckets /\ Bucket(t) = bucket[b0] /\ bucket[b0] # None /\ bucket[b0] \in Filled(b0, now)
        /\ thread[t] \in Locals /\ thread[t].now \in Nat /\ thread[t].now <= now /\ now \in Nat
        /\ thread[t].seen \in Nat /\ thread[t].seen <= Capacity(b0) /\ thread[t].seen \in 0..Capacity(b0)
    BY <1>0, <1>1, AtBucket, BucketIs, CapacityType DEF ThreadInv, Sound
  <1>3. /\ x0 \in Filled(b0, now) /\ x0.tokens = thread[t].seen /\ x0.last_refill = bucket[b0].last_refill
        /\ x0.born = bucket[b0].born
    BY <1>2 DEF Filled
  <1>4. /\ r0 \in Locals /\ r0.pc = "balance" /\ r0.bucket = b0 /\ r0.now = thread[t].now
    BY <1>2 DEF Locals
  <1>5. bucket' = [bucket EXCEPT ![b0] = x0] /\ thread' = [thread EXCEPT ![t] = r0]
    BY <1>2 DEF Store, Goto
  <1> HIDE DEF b0, x0, r0
  <1>6. PICK b \in Buckets, x \in Filled(b0, now), r \in Locals : b = b0 /\ x = x0 /\ r = r0
    BY <1>2, <1>3, <1>4
  <1>7. thread[t].bucket = b /\ UNCHANGED <<now, admitted, undone>>
    BY <1>6 DEF b0, Store
  <1>8. /\ DOMAIN bucket' = Buckets
        /\ \A c \in Buckets : (c # "global" /\ bucket'[c] = None) \/ bucket'[c] \in Filled(c, now')
        /\ bucket'[b] = x /\ x # None /\ \A c \in Buckets \ {b} : bucket'[c] = bucket[c]
        /\ \A c \in Buckets : bucket[c] # None => bucket'[c] # None
    BY <1>0, <1>5, <1>6, <1>7, BucketsAfter
  <1>9. SoundAfter(r)
    BY <1>2, <1>4, <1>6, <1>7, <1>8 DEF SoundAfter
  <1>10. /\ ThreadInv' /\ thread' \in [Threads -> Locals]
         /\ thread'[t] = r /\ \A u \in Threads \ {t} : thread'[u] = thread[u]
    BY <1>5, <1>6, <1>7, <1>8, <1>9, ThreadsAfter
  <1>11. TypeOK'
    BY <1>0, <1>7, <1>8, <1>10, Typed, TypedAfter
  <1>12. /\ bucket'[b].last_refill = bucket[b].last_refill /\ bucket'[b].tokens = thread[t].seen
         /\ bucket'[b].born = bucket[b].born
         /\ r.pc = "balance" /\ r.bucket = b
    BY <1>2, <1>3, <1>4, <1>6, <1>8
  <1>13. PeriodInv'
    <2>1. ASSUME NEW u \in Threads, thread'[u].pc \in {"load", "store"}
          PROVE  thread'[u].last < thread'[u].now /\ thread'[u].now <= bucket'[thread'[u].bucket].last_refill
      <3>1. u # t /\ thread'[u] = thread[u]
        BY <1>10, <1>12, <2>1
      <3> QED BY <1>0, <1>8, <1>12, <2>1, <3>1 DEF PeriodInv, Bucket, ThreadInv, Sound, Trying
    <2>2. ASSUME NEW c \in Buckets, NEW u \in Threads, NEW v \in Threads, u # v, Refills(u, c)', Refills(v, c)'
          PROVE  Apart(u, v)'
      <3>1. u # t /\ v # t
        BY <1>10, <1>12, <2>2 DEF Refills
      <3> QED BY <1>0, <1>10, <2>2, <3>1 DEF PeriodInv, Refills, Apart
    <2> QED BY <2>1, <2>2 DEF PeriodInv, Bucket
  <1>14. Good(b)'
    <2>1. Good(b) /\ bucket[b] # None
      BY <1>0, <1>2, <1>6 DEF BucketInv
    <2>2. Pending(b)' = PendingWithout(b, t)
      <3>1. ~Refills(t, b)' /\ \A u \in Threads \ {t} : Refills(u, b)' <=> Refills(u, b)
        BY <1>10, <1>12 DEF Refills
      <3> QED BY <1>10, <3>1 DEF Pending, PendingWithout, Claimed
    <2>3. \A u : PendingWithout(b, u)' \subseteq PendingWithout(b, u)
      <3>1. \A u \in Threads : Refills(u, b)' => Refills(u, b) /\ thread'[u] = thread[u]
        BY <1>10, <1>12 DEF Refills
      <3> QED BY <3>1 DEF PendingWithout, Claimed
    <2>4. Within(b, thread[t].seen, PendingWithout(b, t))
      BY <1>1, <1>7, <2>1 DEF Good, At
    <2>5. Allowed(b)' = Allowed(b)
      BY <1>7, <1>12 DEF Allowed
    <2>6. Within(b, bucket[b].tokens, Pending(b))'
      BY <1>7, <1>12, <2>2, <2>4, <2>5 DEF Within
    <2>7. ASSUME NEW u \in Threads, thread'[u].pc = "store", thread'[u].bucket = b
          PROVE  Within(b, thread[u].seen, PendingWithout(b, u))'
      <3>1. u # t /\ thread'[u] = thread[u]
        BY <1>10, <1>12, <2>7
      <3>2. Within(b, thread[u].seen, PendingWithout(b, u))
        BY <2>1, <2>7, <3>1 DEF Good, At
      <3>3. PICK k \in Nat, l \in Nat :
              /\ k = Cardinality(PendingWithout(b, u)) /\ l = Cardinality(PendingWithout(b, u)') /\ l <= k
        BY <2>3, ClaimedFinite DEF PendingWithout
      <3>4. MaxRate * l \in Nat /\ MaxRate * k \in Nat /\ MaxRate * l <= MaxRate * k
        BY <3>3, MaxRateIs, LessRoom
      <3>5. thread[u].seen \in Nat /\ Cost * admitted[b] \in Nat
        BY IInvParts, LocalsIs, Numbers
      <3>6. Cost * admitted[b] + thread[u].seen + MaxRate * k <= Allowed(b)
        BY <3>2, <3>3 DEF Within
      <3>7. Allowed(b) \in Nat
        <4>1. bucket[b].last_refill - bucket[b].born \in Nat
          BY <1>0, <2>1, BucketIs DEF Good
        <4>2. MaxRate * (bucket[b].last_refill - bucket[b].born) \in Nat
          BY <4>1, MaxRateIs, Times
        <4> QED BY <4>2, Numbers DEF Allowed
      <3>8. Cost * admitted[b] + thread[u].seen + MaxRate * l <= Allowed(b)
        BY <3>4, <3>5, <3>6, <3>7
      <3> QED BY <1>7, <2>5, <3>1, <3>3, <3>8 DEF Within
    <2> QED BY <1>7, <1>8, <1>12, <2>1, <2>6, <2>7 DEF Good, At
  <1>15. BucketInv'
    <2> SUFFICES ASSUME NEW c \in Buckets PROVE Good(c)'
      BY DEF BucketInv
    <2>1. CASE c = b
      BY <1>14, <2>1
    <2>2. CASE c # b
      <3>1. bucket'[c] = bucket[c] /\ admitted'[c] = admitted[c] /\ undone'[c] = undone[c]
        BY <1>7, <1>8, <2>2
      <3>2. thread'[t].bucket = b
        BY <1>10, <1>12
      <3> QED BY <1>7, <1>10, <2>2, <3>1, <3>2, OthersKeep
    <2> QED BY <2>1, <2>2
  <1> QED BY <1>10, <1>11, <1>13, <1>15 DEF IInv

-----------------------------------------------------------------------------
(* A consumption, and a new bucket                                         *)

\* A request costs what it takes; while a refill is being stored it also counts as undone.
LEMMA TakeKeeps == ASSUME IInv, NEW t \in Threads, Take(t) PROVE IInv'
  <1> DEFINE b0 == thread[t].bucket
             x0 == [bucket[b0] EXCEPT !.tokens = @ - Cost]
             look == [Idle EXCEPT !.pc = "lookup", !.ip = thread[t].ip]
             r0 == IF b0 = "global" /\ thread[t].ip # None THEN look ELSE Idle
  <1>0. TypeOK /\ ThreadInv /\ PeriodInv /\ BucketInv
    BY DEF IInv
  <1>1. thread[t].pc = "take" /\ thread[t].pc \in Trying /\ thread[t].pc \notin Refill
    BY DEF Take, At, Trying, Refill
  <1>2. /\ b0 \in Buckets /\ bucket[b0] # None /\ bucket[b0] \in Filled(b0, now)
        /\ thread[t] \in Locals /\ now \in Nat /\ Cost \in Nat
        /\ bucket[b0].tokens \in Nat /\ Cost <= bucket[b0].tokens
        /\ bucket[b0].tokens <= Capacity(b0) /\ Capacity(b0) \in Nat
        /\ bucket[b0].tokens - Cost \in 0..Capacity(b0)
    <2>1. /\ b0 \in Buckets /\ bucket[b0] # None /\ thread[t] \in Locals /\ now \in Nat /\ thread[t].seen \in Nat
      BY <1>1, AtBucket
    <2>2. bucket[b0].tokens = thread[t].seen /\ Cost <= thread[t].seen /\ Cost \in Nat
      BY RateLimiterAssumption, <2>1 DEF Take
    <2>3. bucket[b0] \in Filled(b0, now) /\ bucket[b0].tokens <= Capacity(b0) /\ Capacity(b0) \in Nat
      BY <1>0, <2>1, BucketIs, CapacityType
    <2> QED BY <2>1, <2>2, <2>3
  <1>3. /\ x0 \in Filled(b0, now) /\ x0.tokens = bucket[b0].tokens - Cost
        /\ x0.last_refill = bucket[b0].last_refill /\ x0.born = bucket[b0].born
    BY <1>2 DEF Filled
  <1>4. r0 \in Locals /\ r0.pc \in {"idle", "lookup"} /\ r0.now = 0 /\ (r0.pc = "lookup" => r0.ip \in Ips)
    <2>1. Idle \in Locals /\ Idle.now = 0 /\ Idle.pc = "idle"
      BY IdleType DEF Idle
    <2>2. thread[t].ip \in Ips \cup {None}
      BY <1>2, LocalsIs
    <2>3. look \in Locals /\ look.pc = "lookup" /\ look.now = 0 /\ look.ip = thread[t].ip
      BY <2>1, <2>2 DEF Locals
    <2> HIDE DEF look
    <2> QED BY <2>1, <2>2, <2>3
  <1>5. bucket' = [bucket EXCEPT ![b0] = x0] /\ thread' = [thread EXCEPT ![t] = r0] /\ now' = now
    BY <1>2 DEF Take
  <1> HIDE DEF x0, r0, look
  <1>6. PICK b \in Buckets, x \in Filled(b0, now), r \in Locals : b = b0 /\ x = x0 /\ r = r0
    BY <1>2, <1>3, <1>4
  <1>7. /\ admitted' = [admitted EXCEPT ![b] = @ + 1]
        /\ undone' = [undone EXCEPT ![b] = IF Refilling(b) THEN @ + 1 ELSE @]
    BY <1>6 DEF Take
  <1> HIDE DEF b0
  <1>8. /\ DOMAIN bucket' = Buckets
        /\ \A c \in Buckets : (c # "global" /\ bucket'[c] = None) \/ bucket'[c] \in Filled(c, now')
        /\ bucket'[b] = x /\ x # None /\ \A c \in Buckets \ {b} : bucket'[c] = bucket[c]
        /\ \A c \in Buckets : bucket[c] # None => bucket'[c] # None
    BY <1>0, <1>5, <1>6, BucketsAfter
  <1>9. SoundAfter(r)
    BY <1>2, <1>4, <1>5, <1>6 DEF SoundAfter, Trying
  <1>10. /\ ThreadInv' /\ thread' \in [Threads -> Locals]
         /\ thread'[t] = r /\ \A u \in Threads \ {t} : thread'[u] = thread[u]
    BY <1>5, <1>6, <1>8, <1>9, ThreadsAfter
  <1>11. /\ admitted' \in [Buckets -> Nat] /\ undone' \in [Buckets -> Nat]
         /\ admitted'[b] = admitted[b] + 1
         /\ undone'[b] = IF Refilling(b) THEN undone[b] + 1 ELSE undone[b]
         /\ \A c \in Buckets \ {b} : admitted'[c] = admitted[c] /\ undone'[c] = undone[c]
    <2>1. admitted \in [Buckets -> Nat] /\ undone \in [Buckets -> Nat]
      BY <1>0, Typed
    <2> HIDE DEF b0
    <2> QED BY <1>7, <2>1
  <1>12. TypeOK'
    BY <1>0, <1>5, <1>8, <1>10, <1>11, Typed, TypedAfter
  <1>13. /\ bucket'[b].last_refill = bucket[b].last_refill /\ bucket'[b].tokens = bucket[b].tokens - Cost
         /\ bucket'[b].born = bucket[b].born /\ bucket[b] # None
         /\ r.pc \notin Refill /\ thread'[t] = r
    BY <1>2, <1>3, <1>4, <1>6, <1>8, <1>10 DEF Refill
  <1>14. \A c : SameRefills(c) /\ SameStores(c)
    BY <1>1, <1>10, <1>13 DEF SameRefills, SameStores, Refills, At, Refill
  <1>15. PeriodInv'
    <2>1. ASSUME NEW u \in Threads, thread'[u].pc \in {"load", "store"}
          PROVE  thread'[u].last < thread'[u].now /\ thread'[u].now <= bucket'[thread'[u].bucket].last_refill
      <3>1. u # t /\ thread'[u] = thread[u]
        BY <1>10, <1>13, <2>1 DEF Refill
      <3> QED BY <1>0, <1>8, <1>13, <2>1, <3>1 DEF PeriodInv, Bucket, ThreadInv, Sound, Trying
    <2>2. ASSUME NEW c \in Buckets, NEW u \in Threads, NEW v \in Threads, u # v, Refills(u, c)', Refills(v, c)'
          PROVE  Apart(u, v)'
      <3>1. u # t /\ v # t
        BY <1>10, <1>13, <2>2 DEF Refills, Refill
      <3> QED BY <1>0, <1>10, <2>2, <3>1 DEF PeriodInv, Refills, Apart
    <2> QED BY <2>1, <2>2 DEF PeriodInv, Bucket
  <1>16. Good(b)'
    <2>1. Good(b)
      BY <1>0 DEF BucketInv
    <2>2. \A out : Claimed(b, out)' = Claimed(b, out)
      BY <1>14, SameClaims
    <2>3. PICK room \in Nat : room = MaxRate * (bucket[b].last_refill - bucket[b].born)
      <3>1. bucket[b].last_refill - bucket[b].born \in Nat
        BY <1>0, <1>13, <2>1, BucketIs DEF Good
      <3> QED BY <3>1, MaxRateIs, Times
    <2>4. PICK a \in Nat, z \in Nat, c \in Nat, m \in Nat, n \in Nat :
            /\ a = Cost * admitted[b] /\ z = Cost * undone[b] /\ c = Capacity(b)
            /\ m = admitted[b] /\ n = undone[b]
            /\ Cost * (m + 1) = a + Cost /\ Cost * (n + 1) = z + Cost
      BY Numbers
    <2>5. Within(b, bucket[b].tokens, Pending(b))'
      <3>1. PICK k \in Nat : k = MaxRate * Cardinality(Pending(b))
        BY Numbers DEF Pending
      <3>2. a + bucket[b].tokens + k <= c + room + z
        BY <1>13, <2>1, <2>3, <2>4, <3>1 DEF Good, Within, Allowed
      <3>3. PICK tokens \in Nat : tokens = bucket[b].tokens /\ Cost <= tokens
        BY <1>2, <1>6
      <3>4. (a + Cost) + (tokens - Cost) + k <= c + room + z /\ z <= z + Cost
        BY <1>2, <3>2, <3>3
      <3>5. (a + Cost) + (tokens - Cost) + k <= c + room + (z + Cost)
        BY <1>2, <3>2, <3>3
      <3>6. admitted'[b] = m + 1 /\ (undone'[b] = n \/ undone'[b] = n + 1)
        BY <1>11, <2>4
      <3>7. Cost * admitted'[b] = a + Cost /\ (Cost * undone'[b] = z \/ Cost * undone'[b] = z + Cost)
        BY <2>4, <3>6
      <3>8. Pending(b)' = Pending(b)
        BY <2>2 DEF Pending
      <3>9. Cost * admitted'[b] + (tokens - Cost) + k <= c + room + Cost * undone'[b]
        BY <3>4, <3>5, <3>7
      <3>10. /\ bucket'[b].tokens = tokens - Cost /\ MaxRate * Cardinality(Pending(b)') = k
             /\ MaxRate * (bucket'[b].last_refill - bucket'[b].born) = room
        BY <1>13, <2>3, <3>1, <3>3, <3>8
      <3> QED BY <2>4, <3>9, <3>10 DEF Within, Allowed
    <2>6. ASSUME NEW u \in Threads, thread'[u].pc = "store", thread'[u].bucket = b
          PROVE  Within(b, thread[u].seen, PendingWithout(b, u))'
      <3>1. thread[u].pc = "store" /\ thread[u].bucket = b /\ thread'[u].seen = thread[u].seen
        BY <1>14, <2>6 DEF SameStores, At
      <3>2. PICK k \in Nat : k = MaxRate * Cardinality(PendingWithout(b, u))
        BY Numbers DEF PendingWithout
      <3>3. PICK seen \in Nat : seen = thread[u].seen
        BY IInvParts, LocalsIs
      <3>4. a + seen + k <= c + room + z
        BY <1>13, <2>1, <2>3, <2>4, <3>1, <3>2, <3>3 DEF Good, Within, Allowed, At
      <3>5. Refilling(b)
        BY <3>1 DEF Refilling, At
      <3>6. Cost * admitted'[b] = a + Cost /\ Cost * undone'[b] = z + Cost
        <4>1. admitted'[b] = m + 1 /\ undone'[b] = n + 1
          BY <1>11, <2>4, <3>5
        <4> QED BY <2>4, <4>1
      <3>7. Cost * admitted'[b] + seen + k <= c + room + Cost * undone'[b]
        BY <1>2, <3>4, <3>6
      <3>8. PendingWithout(b, u)' = PendingWithout(b, u)
        BY <2>2 DEF PendingWithout
      <3>9. /\ thread'[u].seen = seen /\ MaxRate * Cardinality(PendingWithout(b, u)') = k
            /\ MaxRate * (bucket'[b].last_refill - bucket'[b].born) = room
        BY <1>13, <2>3, <3>1, <3>2, <3>3, <3>8
      <3> QED BY <2>4, <3>7, <3>9 DEF Within, Allowed
    <2> QED BY <1>8, <1>13, <2>1, <2>5, <2>6 DEF Good, At
  <1>17. BucketInv'
    <2> SUFFICES ASSUME NEW c \in Buckets PROVE Good(c)'
      BY DEF BucketInv
    <2>1. CASE c = b
      BY <1>16, <2>1
    <2>2. CASE c # b
      <3>1. bucket'[c] = bucket[c] /\ admitted'[c] = admitted[c] /\ undone'[c] = undone[c]
        BY <1>8, <1>11, <2>2
      <3> QED BY <1>1, <1>10, <1>13, <2>2, <3>1, OthersKeep
    <2> QED BY <2>1, <2>2
  <1> QED BY <1>10, <1>12, <1>15, <1>17 DEF IInv

\* Nobody works on a bucket that is not there; a new one is full and has let nothing pass.
LEMMA CreateNew ==
  ASSUME IInv, NEW t \in Threads, Create(t), bucket[thread[t].ip] = None
  PROVE  IInv'
  <1>0. TypeOK /\ ThreadInv /\ PeriodInv /\ BucketInv
    BY DEF IInv
  <1>1. thread[t].pc = "create" /\ thread[t].pc \notin Refill /\ now \in Nat
    BY IInvParts DEF Create, At, Refill
  <1>2. thread[t].ip \in Ips /\ thread[t].ip \in Buckets /\ UNCHANGED <<now, admitted, undone>>
    BY <1>0, <1>1 DEF ThreadInv, Sound, Buckets, Create
  <1>3. PICK b \in Buckets : b = thread[t].ip
    BY <1>2
  <1>4. PICK rate \in Rates : bucket' = [bucket EXCEPT ![b] = NewBucket(b, rate)]
    BY <1>3 DEF Create
  <1>5. PICK x \in Filled(b, now) :
          x = NewBucket(b, rate) /\ x.tokens = Capacity(b) /\ x.last_refill = now /\ x.born = now
    <2>1. Capacity(b) \in 0..Capacity(b) /\ now \in 0..now
      BY <1>1, CapacityType
    <2>2. NewBucket(b, rate) \in Filled(b, now)
      BY <2>1 DEF NewBucket, Filled
    <2> QED BY <2>2 DEF NewBucket
  <1>6. /\ DOMAIN bucket' = Buckets
        /\ \A c \in Buckets : (c # "global" /\ bucket'[c] = None) \/ bucket'[c] \in Filled(c, now')
        /\ bucket'[b] = x /\ x # None /\ \A c \in Buckets \ {b} : bucket'[c] = bucket[c]
        /\ \A c \in Buckets : bucket[c] # None => bucket'[c] # None
    BY <1>0, <1>2, <1>4, <1>5, BucketsAfter
  <1>7. PICK r \in Locals : r = Consuming(b, b) /\ r.pc = "clock" /\ r.bucket = b /\ r.now = 0
    <2>1. Idle \in Locals /\ Idle.now = 0 /\ b \in Ips \cup {None}
      BY <1>2, <1>3, IdleType
    <2>2. /\ Consuming(b, b) \in Locals /\ Consuming(b, b).pc = "clock"
          /\ Consuming(b, b).bucket = b /\ Consuming(b, b).now = 0
      BY <2>1 DEF Consuming, Locals
    <2> QED BY <2>2
  <1>8. thread' = [thread EXCEPT ![t] = r]
    BY <1>3, <1>7 DEF Create, Consume
  <1>9. SoundAfter(r)
    BY <1>1, <1>2, <1>6, <1>7 DEF SoundAfter
  <1>10. /\ ThreadInv' /\ thread' \in [Threads -> Locals]
         /\ thread'[t] = r /\ \A u \in Threads \ {t} : thread'[u] = thread[u]
    BY <1>2, <1>6, <1>8, <1>9, ThreadsAfter
  <1>11. TypeOK'
    BY <1>0, <1>2, <1>6, <1>10, Typed, TypedAfter
  <1>12. \A u \in Threads : thread[u].pc \in Refill => thread[u].bucket # b
    BY <1>0, <1>3 DEF ThreadInv, Sound, Trying, Refill, Create
  <1>13. r.pc \notin Refill
    BY <1>7 DEF Refill
  <1>14. PeriodInv'
    <2>1. ASSUME NEW u \in Threads, thread'[u].pc \in {"load", "store"}
          PROVE  thread'[u].last < thread'[u].now /\ thread'[u].now <= bucket'[thread'[u].bucket].last_refill
      <3>1. u # t /\ thread'[u] = thread[u] /\ thread[u].bucket # b
        BY <1>10, <1>12, <1>13, <2>1 DEF Refill
      <3> QED BY <1>0, <1>6, <2>1, <3>1 DEF PeriodInv, Bucket, ThreadInv, Sound, Trying
    <2>2. ASSUME NEW c \in Buckets, NEW u \in Threads, NEW v \in Threads, u # v, Refills(u, c)', Refills(v, c)'
          PROVE  Apart(u, v)'
      <3>1. u # t /\ v # t
        BY <1>10, <1>13, <2>2 DEF Refills, Refill
      <3> QED BY <1>0, <1>10, <2>2, <3>1 DEF PeriodInv, Refills, Apart
    <2> QED BY <2>1, <2>2 DEF PeriodInv, Bucket
  <1>15. Good(b)'
    <2>1. \A u \in Threads : ~Refills(u, b)' /\ ~(At(u, "store")' /\ thread'[u].bucket = b)
      BY <1>10, <1>12, <1>13 DEF Refills, At, Refill
    <2>2. Pending(b)' = {}
      BY <2>1 DEF Pending, Claimed
    <2>3. Cardinality(Pending(b)') = 0 /\ MaxRate * 0 = 0
      BY <2>2, FS_EmptySet, MaxRateIs
    <2>4. admitted'[b] = 0 /\ undone'[b] = undone[b] /\ Cost * 0 = 0
      BY <1>0, <1>2, <1>3, RateLimiterAssumption DEF BucketInv, Good
    <2>5. Cost * undone[b] \in Nat /\ Capacity(b) \in Nat
      BY Numbers
    <2>6. bucket'[b].tokens = Capacity(b) /\ bucket'[b].last_refill - bucket'[b].born = 0
      BY <1>1, <1>5, <1>6
    <2>7. Within(b, bucket[b].tokens, Pending(b))'
      BY <2>3, <2>4, <2>5, <2>6 DEF Within, Allowed
    <2>8. bucket'[b].born <= bucket'[b].last_refill
      BY <1>1, <1>5, <1>6
    <2> QED BY <1>6, <2>1, <2>7, <2>8 DEF Good
  <1>16. BucketInv'
    <2> SUFFICES ASSUME NEW c \in Buckets PROVE Good(c)'
      BY DEF BucketInv
    <2>1. CASE c = b
      BY <1>15, <2>1
    <2>2. CASE c # b
      <3>1. bucket'[c] = bucket[c] /\ admitted'[c] = admitted[c] /\ undone'[c] = undone[c]
        BY <1>2, <1>6, <2>2
      <3>2. thread'[t].bucket = b
        BY <1>7, <1>10
      <3> QED BY <1>1, <1>10, <2>2, <3>1, <3>2, OthersKeep
    <2> QED BY <2>1, <2>2
  <1> QED BY <1>10, <1>11, <1>14, <1>16 DEF IInv

LEMMA CreateLate == ASSUME IInv, NEW t \in Threads, Create(t), bucket[thread[t].ip] # None PROVE IInv'
  <1> DEFINE r == Consuming(thread[t].ip, thread[t].ip)
  <1>1. thread[t].pc = "create" /\ thread[t].pc \notin Refill /\ now \in Nat
    BY IInvParts DEF Create, At, Refill
  <1>2. thread[t].ip \in Ips /\ thread[t].ip \in Buckets /\ thread[t].ip \in Ips \cup {None}
    BY <1>1 DEF IInv, ThreadInv, Sound, Buckets
  <1>3. r \in Locals /\ r.pc = "clock" /\ Sound(r)
    BY <1>1, <1>2, ConsumingType
  <1>4. thread' = [thread EXCEPT ![t] = r] /\ UNCHANGED <<now, bucket, admitted, undone>>
    BY DEF Create, Consume
  <1>5. r.pc \notin Refill
    BY <1>3 DEF Refill
  <1> HIDE DEF r
  <1> QED BY <1>1, <1>3, <1>4, <1>5, MoveKeeps

-----------------------------------------------------------------------------
(* The theorems                                                            *)

LEMMA Initial == Init => IInv
  <1> SUFFICES ASSUME Init PROVE IInv
    OBVIOUS
  <1>1. PICK rate \in Rates :
          bucket = [b \in Buckets |-> IF b = "global" THEN NewBucket(b, rate) ELSE None]
    BY DEF Init
  <1>2. now = 0 /\ 0 <= MaxTime /\ now \in 0..0
    BY RateLimiterAssumption DEF Init
  <1>3. \A b \in Buckets : bucket[b] = IF b = "global" THEN NewBucket(b, rate) ELSE None
    BY <1>1
  <1>4. NewBucket("global", rate) \in Filled("global", now)
    <2>1. Capacity("global") \in 0..Capacity("global")
      BY CapacityType
    <2> QED BY <1>2, <2>1 DEF NewBucket, Filled
  <1>5. Idle \in Locals /\ Idle.now = 0 /\ Idle.pc = "idle"
    BY IdleType DEF Idle
  <1>6. thread \in [Threads -> Locals] /\ \A t \in Threads : thread[t] = Idle
    BY <1>5 DEF Init
  <1>7. TypeOK
    <2>1. admitted \in [Buckets -> Nat] /\ undone \in [Buckets -> Nat]
      BY DEF Init
    <2>2. \A b \in Buckets : (b # "global" /\ bucket[b] = None) \/ bucket[b] \in Filled(b, now)
      BY <1>3, <1>4
    <2>3. now \in Nat /\ now <= MaxTime /\ DOMAIN bucket = Buckets
      BY <1>1, <1>2
    <2> QED BY <1>6, <2>1, <2>2, <2>3, Typed
  <1>8. ThreadInv
    BY <1>2, <1>6, IdleType DEF ThreadInv
  <1>9. PeriodInv
    BY <1>5, <1>6 DEF PeriodInv, Refills
  <1>10. ASSUME NEW b \in Buckets PROVE Good(b)
    <2>1. admitted[b] = 0 /\ undone[b] = 0 /\ Cost * 0 = 0 /\ MaxRate * 0 = 0
      BY RateLimiterAssumption, MaxRateIs DEF Init
    <2>2. Pending(b) = {} /\ Cardinality(Pending(b)) = 0
      <3>1. Pending(b) = {}
        BY <1>5, <1>6 DEF Pending, Claimed, Refills
      <3> QED BY <3>1, FS_EmptySet
    <2>3. ASSUME bucket[b] # None
          PROVE  bucket[b].tokens = Capacity(b) /\ bucket[b].last_refill = 0 /\ bucket[b].born = 0
      <3>1. bucket[b] = NewBucket("global", rate) /\ b = "global"
        BY <1>3, <2>3
      <3> QED BY <1>2, <3>1 DEF NewBucket
    <2>4. ASSUME bucket[b] # None PROVE Within(b, bucket[b].tokens, Pending(b)) /\ bucket[b].born <= bucket[b].last_refill
      <3>1. bucket[b].last_refill - bucket[b].born = 0 /\ Capacity(b) \in Nat
        BY <2>3, <2>4, CapacityType
      <3>2. 0 + Capacity(b) + 0 <= Capacity(b) + 0 + 0
        BY <3>1
      <3>3. bucket[b].born <= bucket[b].last_refill
        BY <2>3, <2>4
      <3> QED BY <2>1, <2>2, <2>3, <2>4, <3>1, <3>2, <3>3 DEF Within, Allowed
    <2> QED BY <1>5, <1>6, <2>1, <2>4 DEF Good, At
  <1> QED BY <1>7, <1>8, <1>9, <1>10 DEF IInv, BucketInv

LEMMA Inductive == IInv /\ [Next]_vars => IInv'
  <1> SUFFICES ASSUME IInv, [Next]_vars PROVE IInv'
    OBVIOUS
  <1>1. ASSUME NEW t \in Threads, ThreadStep(t) PROVE IInv'
    <2>1. CASE \E ip \in Ips \cup {None} : Check(t, ip)
      BY <2>1, CheckKeeps
    <2>2. CASE ReadClock(t) \/ LoadLast(t)
      BY <2>2, ReadClockKeeps, LoadLastKeeps
    <2>3. CASE Claim(t)
      BY <2>3, ClaimFails, ClaimSucceeds
    <2>4. CASE LoadTokens(t) \/ Store(t)
      BY <2>4, LoadTokensKeeps, StoreKeeps
    <2>5. CASE LoadBalance(t) \/ Retry(t) \/ Refuse(t)
      BY <2>5, LoadBalanceKeeps, RetryKeeps, RefuseKeeps
    <2>6. CASE Take(t)
      BY <2>6, TakeKeeps
    <2>7. CASE Lookup(t) \/ Create(t)
      BY <2>7, LookupKeeps, CreateNew, CreateLate
    <2> QED BY <1>1, <2>1, <2>2, <2>3, <2>4, <2>5, <2>6, <2>7 DEF ThreadStep
  <1>2. CASE Tick
    BY <1>2, TickKeeps
  <1>3. ASSUME NEW b \in Buckets, NEW rate \in Rates, SetRate(b, rate) PROVE IInv'
    BY <1>3, SetRateKeeps
  <1>4. CASE UNCHANGED vars
    <2>1. UNCHANGED <<now, bucket, thread, admitted, undone>>
      BY <1>4 DEF vars
    <2>2. TypeOK'
      BY <2>1 DEF IInv, TypeOK
    <2>3. ThreadInv' /\ PeriodInv'
      BY <2>1 DEF IInv, ThreadInv, Sound, PeriodInv, Refills, Apart, Bucket
    <2>4. ASSUME NEW b \in Buckets PROVE Good(b)'
      <3>1. SameRefills(b) /\ SameStores(b) /\ SameBucket(b)
        BY <2>1 DEF SameRefills, SameStores, SameBucket, Refills, At
      <3> QED BY <3>1, KeptBucket DEF IInv, BucketInv
    <2> QED BY <2>2, <2>3, <2>4 DEF IInv, BucketInv
  <1> QED BY <1>1, <1>2, <1>3, <1>4 DEF Next

\* Every variable has its type; in particular no refill takes a bucket over its capacity, and
\* nobody is at work on a bucket that is not there.
THEOREM TypeCorrect == Spec => []TypeOK
  <1>1. IInv => TypeOK
    BY DEF IInv
  <1> QED BY Initial, Inductive, <1>1, PTL DEF Spec

\* For any threads, addresses, rates and capacities: what a bucket has let pass and still holds comes
\* from its first filling and the time up to its last refill, but for requests admitted while a refill
\* stood between its load and its store (token_bucket.hpp:104).
THEOREM WithinRateHolds == Spec => []WithinRate
  <1>1. IInv => WithinRate
    <2> SUFFICES ASSUME IInv, NEW b \in Buckets, bucket[b] # None
                 PROVE  Cost * admitted[b] + bucket[b].tokens
                          <= Capacity(b) + MaxRate * (bucket[b].last_refill - bucket[b].born) + Cost * undone[b]
      BY DEF WithinRate
    <2>1. Within(b, bucket[b].tokens, Pending(b))
      BY DEF IInv, BucketInv, Good
    <2>2. PICK k \in Nat : k = MaxRate * Cardinality(Pending(b))
      BY Numbers DEF Pending
    <2>3. /\ Cost * admitted[b] \in Nat /\ Cost * undone[b] \in Nat /\ bucket[b].tokens \in Nat
          /\ Capacity(b) \in Nat
      BY Numbers, BucketIs DEF IInv
    <2>4. MaxRate * (bucket[b].last_refill - bucket[b].born) \in Nat
      <3>1. bucket[b].last_refill - bucket[b].born \in Nat
        BY BucketIs DEF IInv, BucketInv, Good
      <3> QED BY <3>1, MaxRateIs, Times
    <2> QED BY <2>1, <2>2, <2>3, <2>4 DEF Within, Allowed
  <1> QED BY Initial, Inductive, <1>1, PTL DEF Spec
=============================================================================
