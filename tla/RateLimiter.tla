------------------------------ MODULE RateLimiter ------------------------------
(***************************************************************************)
(* RateLimiter and its TokenBuckets (token_bucket.hpp), used by several    *)
(* worker threads at once: Connection::handle_request calls check() for    *)
(* every request.  There is no lock around a bucket, so every access to    *)
(* one of its atomics is a step of its own.                                *)
(*                                                                         *)
(* Tokens are counted in parts, Cost of which make a request: a refill     *)
(* adds fractions of a token.  The clock is the number of ticks since the  *)
(* limiter was built.  A compare_exchange_weak that fails although nothing *)
(* has changed loads the same value again and is no step here.  The bucket *)
(* of an address is called by the address; its owner ip_buckets_ never     *)
(* drops it.                                                               *)
(***************************************************************************)
EXTENDS Naturals

CONSTANTS
  Threads,         \* worker threads
  Ips,             \* client addresses
  Cost,            \* parts of a token a request takes
  Rates,           \* parts per tick, from the constructor or set_rate
  GlobalCapacity,  \* parts
  IpCapacity,      \* parts
  MaxTime,         \* bound: ticks
  None             \* the empty client_ip; no bucket

ASSUME RateLimiterAssumption ==
  /\ Cost \in Nat \ {0}
  /\ Rates \subseteq Nat /\ \E rate \in Rates : \A r \in Rates : r <= rate
  /\ GlobalCapacity \in Nat /\ IpCapacity \in Nat /\ MaxTime \in Nat
  /\ "global" \notin Ips /\ None \notin Ips \cup {"global"}
  /\ None \notin [tokens : Nat, last_refill : Nat, rate : Rates, born : Nat]

VARIABLES
  now,       \* steady_clock
  bucket,    \* the buckets, None for one that does not exist
  thread,    \* where each thread is in check(), and its local variables
  admitted,  \* history: requests a bucket has let pass
  undone     \* history: those of them that a refill may have given back

vars == <<now, bucket, thread, admitted, undone>>

Buckets == Ips \cup {"global"}
Capacity(b) == IF b = "global" THEN GlobalCapacity ELSE IpCapacity
Least(m, n) == IF m < n THEN m ELSE n

\* A new bucket is full.
NewBucket(b, rate) == [tokens |-> Capacity(b), last_refill |-> now, rate |-> rate, born |-> now]

Idle == [pc |-> "idle", ip |-> None, bucket |-> None, now |-> 0, last |-> 0, seen |-> 0]

\* try_consume begins on bucket b, in the check of address ip.
Consuming(b, ip) == [Idle EXCEPT !.pc = "clock", !.ip = ip, !.bucket = b]

Init ==
  /\ now = 0
  /\ \E rate \in Rates :
       bucket = [b \in Buckets |-> IF b = "global" THEN NewBucket(b, rate) ELSE None]
  /\ thread = [t \in Threads |-> Idle]
  /\ admitted = [b \in Buckets |-> 0]
  /\ undone = [b \in Buckets |-> 0]

-----------------------------------------------------------------------------
At(t, pc) == thread[t].pc = pc
Goto(t, pc) == thread' = [thread EXCEPT ![t].pc = pc]
Bucket(t) == bucket[thread[t].bucket]

Consume(t, b, ip) == thread' = [thread EXCEPT ![t] = Consuming(b, ip)]

-----------------------------------------------------------------------------
(* TokenBucket::refill                                                     *)

ReadClock(t) ==
  /\ At(t, "clock")
  /\ thread' = [thread EXCEPT ![t].now = now, ![t].pc = "last"]
  /\ UNCHANGED <<now, bucket, admitted, undone>>

\* Nothing to do when no time has passed, or another thread has refilled since.
LoadLast(t) ==
  LET last == Bucket(t).last_refill
  IN  /\ At(t, "last")
      /\ thread' = [thread EXCEPT ![t].last = last,
                                  ![t].pc = IF thread[t].now <= last THEN "balance" ELSE "claim"]
      /\ UNCHANGED <<now, bucket, admitted, undone>>

\* Mutant: last_refill_ is stored instead of exchanged.
Claim_Unchecked(t) ==
  /\ At(t, "claim")
  /\ bucket' = [bucket EXCEPT ![thread[t].bucket].last_refill = thread[t].now]
  /\ Goto(t, "load")
  /\ UNCHANGED <<now, admitted, undone>>

\* compare_exchange_strong on last_refill_: one thread gets the period.
Claim(t) ==
  /\ At(t, "claim")
  /\ \/ /\ Bucket(t).last_refill = thread[t].last
        /\ bucket' = [bucket EXCEPT ![thread[t].bucket].last_refill = thread[t].now]
        /\ Goto(t, "load")
     \/ /\ Bucket(t).last_refill # thread[t].last
        /\ Goto(t, "balance")
        /\ UNCHANGED bucket
  /\ UNCHANGED <<now, admitted, undone>>

\* Mutant: the capacity is not applied.
Refilled_Uncapped(t) == Bucket(t).tokens + (thread[t].now - thread[t].last) * Bucket(t).rate

\* What the refill will store: the tokens it finds and those of its period.
Refilled(t) ==
  Least(Capacity(thread[t].bucket),
        Bucket(t).tokens + (thread[t].now - thread[t].last) * Bucket(t).rate)

LoadTokens(t) ==
  /\ At(t, "load")
  /\ thread' = [thread EXCEPT ![t].seen = Refilled(t), ![t].pc = "store"]
  /\ UNCHANGED <<now, bucket, admitted, undone>>

\* A store, whatever has become of tokens_ since it was loaded.
Store(t) ==
  /\ At(t, "store")
  /\ bucket' = [bucket EXCEPT ![thread[t].bucket].tokens = thread[t].seen]
  /\ Goto(t, "balance")
  /\ UNCHANGED <<now, admitted, undone>>

-----------------------------------------------------------------------------
(* TokenBucket::try_consume, after its refill, and RateLimiter::check      *)

LoadBalance(t) ==
  /\ At(t, "balance")
  /\ thread' = [thread EXCEPT ![t].seen = Bucket(t).tokens, ![t].pc = "take"]
  /\ UNCHANGED <<now, bucket, admitted, undone>>

\* A refill of b stands between its load and its store.
Refilling(b) == \E t \in Threads : At(t, "store") /\ thread[t].bucket = b

\* The tokens are there and compare_exchange succeeds.  check() returns TRUE, or
\* goes on to the bucket of the client.
Take(t) ==
  LET b == thread[t].bucket
  IN  /\ At(t, "take") /\ thread[t].seen >= Cost
      /\ bucket[b].tokens = thread[t].seen
      /\ bucket' = [bucket EXCEPT ![b].tokens = @ - Cost]
      /\ admitted' = [admitted EXCEPT ![b] = @ + 1]
      /\ undone' = [undone EXCEPT ![b] = IF Refilling(b) THEN @ + 1 ELSE @]
      /\ IF b = "global" /\ thread[t].ip # None
           THEN thread' = [thread EXCEPT ![t] = [Idle EXCEPT !.pc = "lookup", !.ip = thread[t].ip]]
           ELSE thread' = [thread EXCEPT ![t] = Idle]
      /\ UNCHANGED now

\* It fails and has loaded the value that is there.
Retry(t) ==
  /\ At(t, "take") /\ thread[t].seen >= Cost
  /\ Bucket(t).tokens # thread[t].seen
  /\ thread' = [thread EXCEPT ![t].seen = Bucket(t).tokens]
  /\ UNCHANGED <<now, bucket, admitted, undone>>

\* Too few tokens: check() returns FALSE.  A global token that was taken before
\* the client's own bucket refused is not given back.
Refuse(t) ==
  /\ At(t, "take") /\ thread[t].seen < Cost
  /\ thread' = [thread EXCEPT ![t] = Idle]
  /\ UNCHANGED <<now, bucket, admitted, undone>>

\* check(): the empty address is only held against the global bucket.
Check(t, ip) ==
  /\ At(t, "idle")
  /\ Consume(t, "global", ip)
  /\ UNCHANGED <<now, bucket, admitted, undone>>

\* get_or_create_ip_bucket, its first look, under the mutex.
Lookup(t) ==
  /\ At(t, "lookup")
  /\ IF bucket[thread[t].ip] = None THEN Goto(t, "create") ELSE Consume(t, thread[t].ip, thread[t].ip)
  /\ UNCHANGED <<now, bucket, admitted, undone>>

\* Mutant: the bucket is made without a second look.
Create_Unchecked(t) ==
  LET ip == thread[t].ip
  IN  /\ At(t, "create")
      /\ \E rate \in Rates : bucket' = [bucket EXCEPT ![ip] = NewBucket(ip, rate)]
      /\ Consume(t, ip, ip)
      /\ UNCHANGED <<now, admitted, undone>>

\* The second look, and the new bucket if there is still none, under the mutex again.
Create(t) ==
  LET ip == thread[t].ip
  IN  /\ At(t, "create")
      /\ IF bucket[ip] # None THEN UNCHANGED bucket
         ELSE \E rate \in Rates : bucket' = [bucket EXCEPT ![ip] = NewBucket(ip, rate)]
      /\ Consume(t, ip, ip)
      /\ UNCHANGED <<now, admitted, undone>>

-----------------------------------------------------------------------------
Tick ==
  /\ now < MaxTime
  /\ now' = now + 1
  /\ UNCHANGED <<bucket, thread, admitted, undone>>

\* set_rate, as tests/test_token_bucket.cpp uses it.
SetRate(b, rate) ==
  /\ bucket[b] # None
  /\ bucket' = [bucket EXCEPT ![b].rate = rate]
  /\ UNCHANGED <<now, thread, admitted, undone>>

ThreadStep(t) ==
  \/ \E ip \in Ips \cup {None} : Check(t, ip)
  \/ ReadClock(t) \/ LoadLast(t) \/ Claim(t) \/ LoadTokens(t) \/ Store(t)
  \/ LoadBalance(t) \/ Take(t) \/ Retry(t) \/ Refuse(t)
  \/ Lookup(t) \/ Create(t)

Next ==
  \/ \E t \in Threads : ThreadStep(t)
  \/ Tick
  \/ \E b \in Buckets, rate \in Rates : SetRate(b, rate)

Spec == Init /\ [][Next]_vars

-----------------------------------------------------------------------------
(* Properties                                                              *)

\* Every variable has its type; a bucket never holds more than its capacity.
TypeOK ==
  /\ now \in 0..MaxTime
  /\ DOMAIN bucket = Buckets
  /\ \A b \in Buckets :
       \/ b # "global" /\ bucket[b] = None
       \/ bucket[b] \in [tokens : 0..Capacity(b), last_refill : 0..now, rate : Rates, born : 0..now]
  /\ thread \in
       [Threads -> [pc : {"idle", "clock", "last", "claim", "load", "store", "balance", "take",
                          "lookup", "create"},
                    ip : Ips \cup {None}, bucket : Buckets \cup {None},
                    now : 0..MaxTime, last : 0..MaxTime, seen : Nat]]
  /\ admitted \in [Buckets -> Nat] /\ undone \in [Buckets -> Nat]

\* What a bucket has let pass and still holds comes from its first filling and
\* from the time up to its last refill, no period of it counted twice.  Only
\* requests admitted while a refill stood between its load and its store can
\* come on top of that (token_bucket.hpp:104).
MaxRate == CHOOSE rate \in Rates : \A r \in Rates : r <= rate
WithinRate ==
  \A b \in Buckets : bucket[b] # None =>
    Cost * admitted[b] + bucket[b].tokens
      <= Capacity(b) + MaxRate * (bucket[b].last_refill - bucket[b].born) + Cost * undone[b]
=============================================================================
