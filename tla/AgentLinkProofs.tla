---------------------------- MODULE AgentLinkProofs ----------------------------
(***************************************************************************)
(* Proofs about AgentLink, for any number of workers, clients, calls and   *)
(* data frames: the load is spread over the pool, and a call that has its  *)
(* client to itself gets its own answer, whatever other calls do to each   *)
(* other's.                                                                *)
(***************************************************************************)
EXTENDS AgentLink, TLAPS

-----------------------------------------------------------------------------
(* The inductive invariant                                                 *)

\* The n-th frame of the answer to call r, and the one that refuses it.
Answer(r, n) == [req |-> r, kind |-> KindOf(n - 1)]
Refusal(r) == [req |-> r, kind |-> "error"]

\* The calls that have begun have the clients in turn, the others have nothing.
Assigned ==
  /\ next_agent_index > 0 => pool > 0
  /\ \A r \in Ids :
       IF r <= next_agent_index
         THEN call[r].client = (r - 1) % pool
         ELSE call[r] = [client |-> None, got |-> <<>>, result |-> "none"]

\* A worker has a call of its own, which is not over.
Working ==
  /\ \A w \in Workers : worker[w].pc # "idle" =>
       /\ worker[w].call \in 1..next_agent_index
       /\ call[worker[w].call].result = "none"
       /\ \A n \in DOMAIN call[worker[w].call].got :
            Ends(call[worker[w].call].got[n].kind) = "none"
  /\ \A v, w \in Workers : worker[v].pc # "idle" /\ worker[w].pc # "idle"
                           /\ worker[v].call = worker[w].call => v = w

Serving == serving.client # None => serving.req \in Ids

\* Where the request of a worker is not yet in the buffers.
Pending == {"send", "sending"}

\* Nothing has been sent over the link of client i.
Untouched(i) ==
  /\ link[i].requests = <<>> /\ link[i].frames = <<>> /\ serving.client # i
  /\ link[i].shut => link[i].broken

\* What call r has got, and what waits for it, are the frames of its answer in order.
Regular(r) ==
  LET c == call[r]
      frames == link[c.client].frames
  IN  /\ Len(c.got) + Len(frames) <= Chunks + 2
      /\ \A n \in DOMAIN c.got : c.got[n] = Answer(r, n)
      /\ \A n \in DOMAIN frames : frames[n] = Answer(r, Len(c.got) + n)

\* Or they are the one frame that refuses it.
Refused(r) ==
  LET c == call[r]
      frames == link[c.client].frames
  IN  /\ serving.client # c.client
      /\ Len(c.got) + Len(frames) = 1
      /\ \A n \in DOMAIN c.got : c.got[n] = Refusal(r)
      /\ \A n \in DOMAIN frames : frames[n] = Refusal(r)

\* The link of a call that has its client to itself.
Own(r) ==
  LET c == call[r]
      l == link[c.client]
      total == Len(c.got) + Len(l.frames)
  IN  /\ l.requests = <<>> \/ (l.requests = <<r>> /\ total = 0 /\ serving.client # c.client /\ ~l.shut)
      /\ serving.client = c.client =>
           serving.req = r /\ serving.sent = total /\ ~l.shut
      /\ Regular(r) \/ Refused(r)
      /\ l.shut /\ ~l.broken => Refused(r) \/ total = Chunks + 2
      /\ c.result = "ok" => Len(c.got) = Chunks + 2 /\ \A n \in DOMAIN c.got : c.got[n] = Answer(r, n)
      /\ c.result \in {"cut", "unsent"} => l.broken

Links ==
  /\ \A i \in Clients : (\A r \in Ids : call[r].client # i) => Untouched(i)
  /\ \A r \in Ids : call[r].client # None /\ Alone(r) => Own(r)
  /\ \A w \in Workers : worker[w].pc \in Pending /\ Alone(worker[w].call) =>
       call[worker[w].call].got = <<>> /\ Untouched(ClientOf(w))

IInv == TypeOK /\ Assigned /\ Working /\ Serving /\ Links

-----------------------------------------------------------------------------
(* Lemmas about the parts of the state                                     *)

\* The remainder is a client of the pool, and below the pool size the number itself.
LEMMA Remainder ==
  ASSUME NEW n \in Nat, NEW m \in Nat, m > 0
  PROVE  n % m \in 0..(m - 1) /\ (n < m => n % m = n)
  OBVIOUS

\* Arithmetic.
LEMMA NextNumber ==
  \A m, n \in Nat : /\ m + 1 \in Nat /\ ~(m + 1 <= m) /\ (m + 1 <= n <=> m < n)
                    /\ (n <= m + 1 <=> n <= m \/ n = m + 1)
  OBVIOUS

\* What TypeOK says, by parts.
LEMMA Types ==
  ASSUME TypeOK
  PROVE  /\ pool \in Nat /\ pool <= PoolSize /\ next_agent_index \in Nat
         /\ next_agent_index <= Calls
         /\ \A w \in Workers : /\ worker[w] \in [pc : {"idle", "send", "sending", "recv"}, call : Ids \cup {None}]
                               /\ worker[w].call \in Ids \cup {None}
         /\ \A r \in Ids : /\ call[r] \in [client : Clients \cup {None}, got : Seq(Frame), result : Results]
                           /\ call[r].client \in Clients \cup {None} /\ call[r].got \in Seq(Frame)
         /\ \A i \in Clients : /\ link[i] \in [requests : Seq(Ids), frames : Seq(Frame),
                                               shut : BOOLEAN, broken : BOOLEAN]
                               /\ link[i].requests \in Seq(Ids) /\ link[i].frames \in Seq(Frame)
                               /\ link[i].shut \in BOOLEAN /\ link[i].broken \in BOOLEAN
         /\ None \notin Ids /\ None \notin Clients
         /\ Chunks \in Nat /\ Calls \in Nat /\ PoolSize \in Nat
  <1>1. /\ pool \in Nat /\ pool <= PoolSize /\ next_agent_index \in Nat
        /\ next_agent_index <= Calls /\ None \notin Ids /\ None \notin Clients
        /\ Chunks \in Nat /\ Calls \in Nat /\ PoolSize \in Nat
    BY AgentLinkAssumption DEF TypeOK, Ids, Clients
  <1>2. \A w \in Workers : /\ worker[w] \in [pc : {"idle", "send", "sending", "recv"}, call : Ids \cup {None}]
                           /\ worker[w].call \in Ids \cup {None}
    BY DEF TypeOK
  <1>3. \A r \in Ids : /\ call[r] \in [client : Clients \cup {None}, got : Seq(Frame), result : Results]
                       /\ call[r].client \in Clients \cup {None} /\ call[r].got \in Seq(Frame)
    BY DEF TypeOK
  <1>4. \A i \in Clients : /\ link[i] \in [requests : Seq(Ids), frames : Seq(Frame),
                                           shut : BOOLEAN, broken : BOOLEAN]
                           /\ link[i].requests \in Seq(Ids) /\ link[i].frames \in Seq(Frame)
                           /\ link[i].shut \in BOOLEAN /\ link[i].broken \in BOOLEAN
    BY DEF TypeOK
  <1> QED BY <1>1, <1>2, <1>3, <1>4

\* The call of a worker that is not idle.
LEMMA CallOf ==
  ASSUME IInv, NEW w \in Workers, worker[w].pc # "idle"
  PROVE  /\ worker[w].call \in Ids /\ worker[w].call \in 1..next_agent_index
         /\ ClientOf(w) \in Clients /\ ClientOf(w) # None
         /\ call[worker[w].call].result = "none"
  <1>1. worker[w].call \in 1..next_agent_index /\ call[worker[w].call].result = "none"
    BY DEF IInv, Working
  <1>2. worker[w].call \in Ids
    BY <1>1, Types DEF IInv, Ids
  <1>3. /\ call[worker[w].call].client = (worker[w].call - 1) % pool
        /\ pool \in Nat /\ pool > 0 /\ pool <= PoolSize /\ worker[w].call - 1 \in Nat
    BY <1>1, <1>2, Types DEF IInv, Assigned
  <1>4. (worker[w].call - 1) % pool \in 0..(pool - 1)
    BY <1>3, Remainder
  <1>5. ClientOf(w) \in Clients
    BY <1>3, <1>4, Types DEF ClientOf, Clients, IInv
  <1> QED BY <1>1, <1>2, <1>5, Types DEF IInv

\* What goes on at the link of client i is unchanged.
SameLink(i) ==
  /\ link'[i] = link[i]
  /\ serving' = serving \/ (serving.client # i /\ serving'.client # i)

\* Where nothing goes on, nothing has been sent.
LEMMA UntouchedKept ==
  ASSUME NEW i, Untouched(i), SameLink(i)
  PROVE  Untouched(i)'
  BY DEF Untouched, SameLink

\* And a call has what it had.
LEMMA OwnKept ==
  ASSUME NEW r, Own(r), call'[r] = call[r], SameLink(call[r].client)
  PROVE  Own(r)'
  BY DEF Own, Regular, Refused, SameLink

\* A step at one link, which begins no call: the other links, and the calls that have
\* those to themselves, are as they were.
LEMMA OneLink ==
  ASSUME IInv, NEW i \in Clients,
         \A r \in Ids : /\ call'[r].client = call[r].client
                        /\ call[r].client # i => call'[r] = call[r],
         \A j \in Clients \ {i} : SameLink(j),
         \A w \in Workers : worker'[w].pc \in Pending => worker'[w] = worker[w],
         (\A r \in Ids : call[r].client # i) => Untouched(i)',
         \A r \in Ids : call[r].client = i /\ Alone(r) => Own(r)',
         \A w \in Workers : worker'[w].pc \in Pending /\ ClientOf(w) = i /\ Alone(worker[w].call) =>
                              call'[worker[w].call].got = <<>> /\ Untouched(i)'
  PROVE  Links'
  <1>1. \A r \in Ids : Alone(r)' <=> Alone(r)
    BY DEF Alone
  <1>2. ASSUME NEW j \in Clients, \A r \in Ids : call'[r].client # j
        PROVE  Untouched(j)'
    <2>1. Untouched(j) /\ \A r \in Ids : call[r].client # j
      BY <1>2 DEF IInv, Links
    <2> QED BY <2>1, UntouchedKept
  <1>3. ASSUME NEW r \in Ids, call'[r].client # None, Alone(r)'
        PROVE  Own(r)'
    <2>1. Own(r) /\ Alone(r) /\ call[r].client \in Clients
      BY <1>1, <1>3, Types DEF IInv, Links
    <2> QED BY <2>1, OwnKept
  <1>4. ASSUME NEW w \in Workers, worker'[w].pc \in Pending, Alone(worker[w].call)'
        PROVE  call'[worker'[w].call].got = <<>> /\ Untouched(ClientOf(w))'
    <2>1. worker'[w] = worker[w] /\ worker[w].pc \in Pending
      BY <1>4
    <2>2. worker[w].call \in Ids /\ ClientOf(w) \in Clients
      BY <2>1, CallOf DEF Pending
    <2>3. Alone(worker[w].call)
      BY <1>1, <1>4, <2>2
    <2>4. call[worker[w].call].got = <<>> /\ Untouched(ClientOf(w))
      BY <2>1, <2>3 DEF IInv, Links
    <2>5. ClientOf(w)' = ClientOf(w)
      BY <2>1, <2>2 DEF ClientOf
    <2>6. CASE ClientOf(w) = i
      BY <1>4, <2>1, <2>3, <2>5, <2>6
    <2>7. CASE ClientOf(w) # i
      <3>1. call'[worker[w].call] = call[worker[w].call]
        BY <2>2, <2>7 DEF ClientOf
      <3>2. Untouched(ClientOf(w))'
        BY <2>2, <2>4, <2>5, <2>7, UntouchedKept DEF Untouched, SameLink
      <3> QED BY <2>1, <2>4, <3>1, <3>2
    <2> QED BY <2>6, <2>7
  <1> QED BY <1>2, <1>3, <1>4 DEF Links

-----------------------------------------------------------------------------
(* The steps                                                               *)

\* Nothing has been sent yet.
LEMMA Initial == Init => IInv
  <1> SUFFICES ASSUME Init PROVE IInv
    OBVIOUS
  <1> USE AgentLinkAssumption
  <1>1. TypeOK
    <2>1. <<>> \in Seq(Frame) /\ <<>> \in Seq(Ids)
      OBVIOUS
    <2> QED BY <2>1 DEF Init, TypeOK, NoLink, Results
  <1>2. Assigned /\ Working /\ Serving
    <2>1. \A r \in Ids : ~(r <= 0)
      BY DEF Ids
    <2> QED BY <2>1 DEF Init, Assigned, Working, Serving
  <1>3. \A i \in Clients : Untouched(i)
    BY DEF Init, Untouched, NoLink, Clients
  <1>4. Links
    BY <1>3 DEF Init, Links, Pending
  <1> QED BY <1>1, <1>2, <1>4 DEF IInv

\* A new call gets the next client: it has it to itself when no call before it had.
LEMMA AcquireStep ==
  ASSUME IInv, NEW w \in Workers, Acquire(w)
  PROVE  IInv'
  <1>0. pool > 0 /\ next_agent_index < Calls
    BY DEF Acquire
  <1>n. PICK n \in Ids : n = next_agent_index + 1
    BY <1>0, Types DEF IInv, Ids
  <1>i. PICK i \in Clients : i = NextIndex
    <2>1. pool \in Nat /\ pool > 0 /\ pool <= PoolSize /\ PoolSize \in Nat /\ next_agent_index \in Nat
      BY <1>0, Types DEF IInv
    <2>2. NextIndex \in 0..(pool - 1)
      BY <2>1, Remainder DEF NextIndex
    <2> QED BY <2>1, <2>2 DEF Clients
  <1>1. /\ worker[w].pc = "idle" /\ pool > 0 /\ next_agent_index' = n
        /\ call' = [call EXCEPT ![n].client = i]
        /\ worker' = [worker EXCEPT ![w] = [pc |-> "send", call |-> n]]
        /\ pool' = pool /\ link' = link /\ serving' = serving /\ agent' = agent
    BY <1>n, <1>i DEF Acquire
  <1>2. next_agent_index \in Nat /\ n \in 0..Calls /\ n > 0 /\ n - 1 = next_agent_index
    BY <1>n, Types DEF IInv, Ids
  <1>3. i = (n - 1) % pool /\ i # None
    BY <1>i, <1>2, Types DEF NextIndex, IInv
  <1>4. ~(n <= next_agent_index) /\ \A r \in Ids : r <= n <=> r <= next_agent_index \/ r = n
    BY <1>n, <1>2 DEF Ids
  <1>5. call[n] = [client |-> None, got |-> <<>>, result |-> "none"]
    BY <1>2, <1>4 DEF IInv, Assigned
  <1>6. /\ call'[n] = [client |-> i, got |-> <<>>, result |-> "none"]
        /\ \A r \in Ids : r # n => call'[r] = call[r]
        /\ worker'[w] = [pc |-> "send", call |-> n]
        /\ \A v \in Workers : v # w => worker'[v] = worker[v]
    <2>1. worker \in [Workers -> [pc : {"idle", "send", "sending", "recv"}, call : Ids \cup {None}]]
      BY DEF IInv, TypeOK
    <2>2. /\ worker'[w] = [pc |-> "send", call |-> n]
          /\ \A v \in Workers : v # w => worker'[v] = worker[v]
      BY <1>1, <2>1
    <2>3. DOMAIN call = Ids
      BY DEF IInv, TypeOK
    <2>4. /\ call'[n] = [call[n] EXCEPT !.client = i]
          /\ \A r \in Ids : r # n => call'[r] = call[r]
      BY <1>1, <1>2, <2>3
    <2>5. [call[n] EXCEPT !.client = i] = [client |-> i, got |-> <<>>, result |-> "none"]
      BY <1>5
    <2> QED BY <2>2, <2>4, <2>5
  <1>7. TypeOK'
    <2>1. call' \in [Ids -> [client : Clients \cup {None}, got : Seq(Frame), result : Results]]
      BY ZenonT(30), <1>1, <1>2, <1>3 DEF IInv, TypeOK
    <2>2. worker' \in [Workers -> [pc : {"idle", "send", "sending", "recv"}, call : Ids \cup {None}]]
      BY <1>1, <1>2 DEF IInv, TypeOK
    <2> QED BY <1>1, <1>2, <2>1, <2>2 DEF IInv, TypeOK
  <1>8. Assigned'
    BY <1>1, <1>2, <1>3, <1>4, <1>6 DEF IInv, Assigned
  <1>9. Working'
    <2>1. ASSUME NEW v \in Workers, worker'[v].pc # "idle"
          PROVE  /\ worker'[v].call \in 1..n
                 /\ call'[worker'[v].call].result = "none"
                 /\ \A m \in DOMAIN call'[worker'[v].call].got :
                      Ends(call'[worker'[v].call].got[m].kind) = "none"
                 /\ v # w => worker[v].pc # "idle" /\ worker[v].call # n
      <3>1. CASE v = w
        <4>1. DOMAIN <<>> = {} /\ n \in 1..n
          BY <1>2 DEF Ids
        <4> QED BY <1>6, <3>1, <4>1
      <3>2. CASE v # w
        <4>1. worker[v].call \in 1..next_agent_index /\ worker[v].call \in Ids
          BY <1>6, <2>1, <3>2, CallOf
        <4>2. worker[v].call # n /\ worker[v].call \in 1..n
          BY <1>2, <1>4, <4>1
        <4> QED BY <1>6, <2>1, <3>2, <4>1, <4>2 DEF IInv, Working
      <3> QED BY <3>1, <3>2
    <2>2. ASSUME NEW u \in Workers, NEW v \in Workers, worker'[u].pc # "idle", worker'[v].pc # "idle",
                 worker'[u].call = worker'[v].call
          PROVE  u = v
      BY <1>6, <2>1, <2>2 DEF IInv, Working
    <2> QED BY <1>1, <2>1, <2>2 DEF Working
  <1>10. Links'
    <2>1. ASSUME NEW r \in Ids, r # n, call[r].client # None, Alone(r)'
          PROVE  Alone(r) /\ call[r].client # i
      <3>1. call'[r] = call[r] /\ call'[n].client = i
        BY <1>6, <2>1
      <3>2. call[r].client # i
        BY <3>1, <2>1 DEF Alone
      <3>3. ASSUME NEW q \in Ids, q # r
            PROVE  call[q].client # call[r].client
        <4>1. CASE q = n
          BY <1>5, <2>1, <4>1
        <4>2. CASE q # n
          <5>1. call'[q] = call[q]
            BY <1>6, <4>2
          <5> QED BY <5>1, <3>1, <3>3, <2>1 DEF Alone
        <4> QED BY <4>1, <4>2
      <3> QED BY <3>2, <3>3 DEF Alone
    <2>2. \A j : SameLink(j)
      BY <1>1 DEF SameLink
    <2>3. ASSUME NEW j \in Clients, \A r \in Ids : call'[r].client # j
          PROVE  Untouched(j)'
      <3>1. \A r \in Ids : call[r].client # j
        BY <1>5, <1>6, <2>3, Types DEF IInv
      <3> QED BY <2>2, <2>3, <3>1, UntouchedKept DEF IInv, Links
    <2>4. ASSUME NEW r \in Ids, call'[r].client # None, Alone(r)'
          PROVE  Own(r)' /\ (r = n => Untouched(i)')
      <3>1. CASE r # n
        <4>1. Own(r) /\ call'[r] = call[r]
          BY <1>6, <2>1, <2>4, <3>1 DEF IInv, Links
        <4> QED BY <2>2, <3>1, <4>1, OwnKept
      <3>2. CASE r = n
        <4>1. \A q \in Ids : call[q].client # i
          BY <1>3, <1>5, <1>6, <2>4, <3>2 DEF Alone
        <4>2. Untouched(i)
          BY <1>3, <4>1 DEF IInv, Links
        <4>3. Untouched(i)'
          BY <2>2, <4>2, UntouchedKept
        <4>4. /\ call'[n].client = i /\ call'[n].got = <<>> /\ call'[n].result = "none"
              /\ link'[i].requests = <<>> /\ link'[i].frames = <<>> /\ serving'.client # i
              /\ link'[i].shut => link'[i].broken
          BY <1>6, <4>3 DEF Untouched
        <4>5. Regular(n)'
          BY <4>4, Types DEF Regular, IInv
        <4>6. Own(n)'
          BY <4>4, <4>5 DEF Own
        <4> QED BY <3>2, <4>3, <4>6
      <3> QED BY <3>1, <3>2
    <2>5. ASSUME NEW v \in Workers, worker'[v].pc \in Pending, Alone(worker[v].call)'
          PROVE  call'[worker'[v].call].got = <<>> /\ Untouched(ClientOf(v))'
      <3>1. CASE v = w
        <4>1. worker'[v].call = n /\ ClientOf(v)' = i /\ call'[n].got = <<>> /\ call'[n].client = i
          BY <1>6, <3>1 DEF ClientOf
        <4>2. Untouched(i)'
          BY <1>3, <2>4, <2>5, <4>1
        <4> QED BY <4>1, <4>2 DEF Untouched
      <3>2. CASE v # w
        <4>1. worker'[v] = worker[v] /\ worker[v].pc \in Pending
          BY <1>6, <2>5, <3>2
        <4>2. /\ worker[v].call \in Ids /\ worker[v].call \in 1..next_agent_index
              /\ ClientOf(v) # None /\ ClientOf(v) \in Clients
          BY <4>1, CallOf DEF Pending
        <4>3. worker[v].call # n
          BY <1>2, <1>4, <4>2
        <4>4. Alone(worker[v].call)
          BY <2>1, <2>5, <4>1, <4>2, <4>3 DEF ClientOf
        <4>5. call[worker[v].call].got = <<>> /\ Untouched(ClientOf(v))
          BY <4>1, <4>4 DEF IInv, Links
        <4>6. call'[worker[v].call] = call[worker[v].call]
          BY <1>6, <4>2, <4>3
        <4>7. ClientOf(v)' = ClientOf(v)
          BY <4>1, <4>6 DEF ClientOf
        <4> QED BY <1>1, <4>1, <4>5, <4>6, <4>7 DEF Untouched
      <3> QED BY <3>1, <3>2
    <2> QED BY <2>3, <2>4, <2>5 DEF Links
  <1> QED BY <1>1, <1>7, <1>8, <1>9, <1>10 DEF IInv, Serving

\* A step of a worker within its call, at the link of that call.
AtCall(w, r, i) ==
  /\ worker[w].pc # "idle" /\ worker[w].call = r /\ call[r].client = i
  /\ worker'[w].pc \notin Pending
  /\ \A v \in Workers \ {w} : worker'[v] = worker[v]
  /\ \A q \in Ids \ {r} : call'[q] = call[q]
  /\ call'[r].client = i
  /\ \A j \in Clients \ {i} : link'[j] = link[j]
  /\ serving' = serving /\ pool' = pool /\ next_agent_index' = next_agent_index
  /\ worker'[w].pc # "idle" =>
       /\ worker'[w].call = r /\ call'[r].result = "none"
       /\ \A n \in DOMAIN call'[r].got : Ends(call'[r].got[n].kind) = "none"

\* It leaves the other calls as they were.
LEMMA WorkerStepParts ==
  ASSUME IInv, NEW w \in Workers, NEW r \in Ids, NEW i \in Clients, AtCall(w, r, i),
         Alone(r) => Own(r)'
  PROVE  Assigned' /\ Working' /\ Serving' /\ Links'
  <1>1. /\ r \in 1..next_agent_index /\ r <= next_agent_index
        /\ \A q \in Ids : q <= next_agent_index \/ ~(q <= next_agent_index)
    BY CallOf, Types DEF AtCall, IInv
  <1>2. Assigned'
    BY <1>1 DEF AtCall, IInv, Assigned
  <1>3. \A v \in Workers \ {w} : worker[v].pc # "idle" =>
           worker[v].call # r /\ worker[v].call \in Ids
    BY CallOf DEF AtCall, IInv, Working
  <1>4. Working'
    <2>1. ASSUME NEW v \in Workers, worker'[v].pc # "idle"
          PROVE  /\ worker'[v].call \in 1..next_agent_index
                 /\ call'[worker'[v].call].result = "none"
                 /\ \A n \in DOMAIN call'[worker'[v].call].got :
                      Ends(call'[worker'[v].call].got[n].kind) = "none"
                 /\ worker[v].pc # "idle" /\ worker'[v].call = worker[v].call
      <3>1. CASE v = w
        BY <1>1, <2>1, <3>1 DEF AtCall
      <3>2. CASE v # w
        <4>1. worker'[v] = worker[v] /\ worker[v].call # r /\ worker[v].call \in Ids
          BY <1>3, <2>1, <3>2 DEF AtCall
        <4>2. call'[worker[v].call] = call[worker[v].call]
          BY <4>1 DEF AtCall
        <4> QED BY <2>1, <4>1, <4>2 DEF IInv, Working
      <3> QED BY <3>1, <3>2
    <2>2. ASSUME NEW u \in Workers, NEW v \in Workers, worker'[u].pc # "idle", worker'[v].pc # "idle",
                 worker'[u].call = worker'[v].call
          PROVE  u = v
      BY <2>1, <2>2 DEF IInv, Working
    <2> QED BY <2>1, <2>2 DEF Working, AtCall
  <1>5. Serving'
    BY DEF AtCall, IInv, Serving
  <1>6. Links'
    <2>1. \A q \in Ids : /\ call'[q].client = call[q].client
                         /\ call[q].client # i => call'[q] = call[q]
      BY DEF AtCall
    <2>2. \A j \in Clients \ {i} : SameLink(j)
      BY DEF AtCall, SameLink
    <2>3. \A v \in Workers : worker'[v].pc \in Pending => worker'[v] = worker[v]
      BY DEF AtCall
    <2>4. ~\A q \in Ids : call[q].client # i
      BY DEF AtCall
    <2>5. \A q \in Ids : call[q].client = i /\ Alone(q) => q = r
      BY DEF AtCall, Alone
    <2>6. ASSUME NEW v \in Workers, worker'[v].pc \in Pending, ClientOf(v) = i, Alone(worker[v].call)
          PROVE  FALSE
      <3>1. v # w /\ worker[v].pc # "idle"
        BY <2>6 DEF AtCall, Pending
      <3>2. worker[v].call # r /\ worker[v].call \in Ids
        BY <1>3, <3>1
      <3> QED BY <2>5, <2>6, <3>2 DEF ClientOf
    <2> QED BY <2>1, <2>2, <2>3, <2>4, <2>5, <2>6, OneLink
  <1> QED BY <1>2, <1>4, <1>5, <1>6

\* What a worker's variables are after its call.
LEMMA Returned ==
  ASSUME TypeOK, NEW w \in Workers, Return(w)
  PROVE  /\ worker' \in [Workers -> [pc : {"idle", "send", "sending", "recv"}, call : Ids \cup {None}]]
         /\ worker'[w].pc = "idle" /\ \A v \in Workers \ {w} : worker'[v] = worker[v]
  BY DEF TypeOK, Return

\* Or while it waits for a frame.
LEMMA Receiving ==
  ASSUME TypeOK, NEW w \in Workers, worker' = [worker EXCEPT ![w].pc = "recv"]
  PROVE  /\ worker' \in [Workers -> [pc : {"idle", "send", "sending", "recv"}, call : Ids \cup {None}]]
         /\ worker'[w].pc = "recv" /\ worker'[w].call = worker[w].call
         /\ \A v \in Workers \ {w} : worker'[v] = worker[v]
  BY DEF TypeOK

\* What is known of a worker whose request is not yet sent.
LEMMA BeforeSend ==
  ASSUME IInv, NEW w \in Workers, worker[w].pc \in Pending,
         NEW r \in Ids, r = worker[w].call, NEW i \in Clients, i = call[r].client
  PROVE  /\ TypeOK /\ worker[w].pc # "idle" /\ i = ClientOf(w) /\ i # None
         /\ call[r].result = "none" /\ Chunks \in Nat
         /\ \A n \in DOMAIN call[r].got : Ends(call[r].got[n].kind) = "none"
         /\ Alone(r) => call[r].got = <<>> /\ Untouched(i)
         /\ link[i].requests \in Seq(Ids) /\ link[i].frames \in Seq(Frame)
  <1>1. TypeOK /\ worker[w].pc # "idle"
    BY DEF IInv, Pending
  <1>2. i = ClientOf(w) /\ i # None /\ call[r].result = "none"
    BY <1>1, CallOf DEF ClientOf
  <1>3. \A n \in DOMAIN call[r].got : Ends(call[r].got[n].kind) = "none"
    BY <1>1 DEF IInv, Working
  <1>4. Alone(r) => call[r].got = <<>> /\ Untouched(i)
    BY <1>2 DEF IInv, Links
  <1>5. link[i].requests \in Seq(Ids) /\ link[i].frames \in Seq(Frame) /\ Chunks \in Nat
    BY <1>1, Types
  <1> QED BY <1>1, <1>2, <1>3, <1>4, <1>5

\* The request goes into the buffers: on a link to itself the call finds nothing there.
LEMMA SentStep ==
  ASSUME IInv, NEW w \in Workers, worker[w].pc \in Pending, ~link[ClientOf(w)].shut, Sent(w),
         UNCHANGED <<pool, next_agent_index, serving, agent>>
  PROVE  IInv'
  <1>2. PICK r \in Ids : r = worker[w].call
    BY CallOf DEF Pending
  <1>3. PICK i \in Clients : i = call[r].client
    BY <1>2, CallOf DEF ClientOf, Pending
  <1>4. /\ TypeOK /\ worker[w].pc # "idle" /\ i = ClientOf(w) /\ i # None
        /\ call[r].result = "none" /\ Chunks \in Nat
        /\ \A n \in DOMAIN call[r].got : Ends(call[r].got[n].kind) = "none"
        /\ Alone(r) => call[r].got = <<>> /\ Untouched(i)
        /\ link[i].requests \in Seq(Ids) /\ link[i].frames \in Seq(Frame)
    BY <1>2, <1>3, BeforeSend
  <1>5. /\ pool' = pool /\ next_agent_index' = next_agent_index /\ serving' = serving
        /\ agent' = agent /\ call' = call /\ ~link[i].shut
        /\ link' = [link EXCEPT ![i].requests = Append(@, r)]
        /\ worker' = [worker EXCEPT ![w].pc = "recv"]
    BY <1>2, <1>4 DEF Sent
  <1>6. /\ link'[i].requests = Append(link[i].requests, r) /\ link'[i].frames = link[i].frames
        /\ link'[i].shut = link[i].shut /\ link'[i].broken = link[i].broken
        /\ \A j \in Clients \ {i} : link'[j] = link[j]
    BY <1>5 DEF IInv, TypeOK
  <1>7. TypeOK'
    <2>1. link' \in [Clients -> [requests : Seq(Ids), frames : Seq(Frame), shut : BOOLEAN,
                                 broken : BOOLEAN]]
      <3>1. Append(link[i].requests, r) \in Seq(Ids)
        BY <1>4
      <3>2. link' = [link EXCEPT ![i].requests = Append(link[i].requests, r)]
        BY <1>5 DEF IInv, TypeOK
      <3> QED BY <3>1, <3>2 DEF IInv, TypeOK
    <2> QED BY <1>4, <1>5, <2>1, Receiving DEF TypeOK
  <1>8. AtCall(w, r, i)
    BY <1>2, <1>3, <1>4, <1>5, <1>6, Receiving DEF AtCall, Pending
  <1>9. ASSUME Alone(r) PROVE Own(r)'
    <2>1. /\ link'[i].requests = <<r>> /\ link'[i].frames = <<>> /\ call'[r].got = <<>>
          /\ serving'.client # i /\ ~link'[i].shut
          /\ call'[r].client = i /\ call'[r].result = "none"
      <3>1. Append(<<>>, r) = <<r>>
        OBVIOUS
      <3> QED BY <1>3, <1>4, <1>5, <1>6, <1>9, <3>1 DEF Untouched
    <2>2. Regular(r)'
      BY <1>4, <2>1 DEF Regular
    <2> QED BY <2>1, <2>2 DEF Own
  <1> QED BY <1>7, <1>8, <1>9, WorkerStepParts DEF IInv

\* A request that is larger than the buffers: nothing is known to have changed.
LEMMA SendBlocksStep ==
  ASSUME IInv, NEW w \in Workers, SendBlocks(w)
  PROVE  IInv'
  <1>1. /\ worker[w].pc = "send" /\ worker' = [worker EXCEPT ![w].pc = "sending"]
        /\ pool' = pool /\ next_agent_index' = next_agent_index /\ call' = call
        /\ link' = link /\ serving' = serving /\ agent' = agent
    BY DEF SendBlocks
  <1>2. /\ worker' \in [Workers -> [pc : {"idle", "send", "sending", "recv"}, call : Ids \cup {None}]]
        /\ \A v \in Workers : /\ worker'[v].call = worker[v].call
                              /\ worker'[v].pc # "idle" <=> worker[v].pc # "idle"
                              /\ worker'[v].pc \in Pending <=> worker[v].pc \in Pending
    BY <1>1 DEF IInv, TypeOK, Pending
  <1>3. TypeOK'
    BY <1>1, <1>2 DEF IInv, TypeOK
  <1>4. Assigned' /\ Serving'
    BY <1>1 DEF IInv, Assigned, Serving
  <1>5. Working'
    BY <1>1, <1>2 DEF IInv, Working
  <1>6. Links'
    <2>1. /\ \A i : Untouched(i)' <=> Untouched(i)
          /\ \A r : (Alone(r)' <=> Alone(r)) /\ (Own(r)' <=> Own(r))
      BY <1>1 DEF Untouched, Alone, Own, Regular, Refused
    <2>2. \A v \in Workers : ClientOf(v)' = ClientOf(v)
      BY <1>1, <1>2 DEF ClientOf
    <2>3. ASSUME NEW v \in Workers, worker'[v].pc \in Pending, Alone(worker[v].call)'
          PROVE  call'[worker'[v].call].got = <<>> /\ Untouched(ClientOf(v))'
      <3>1. call[worker[v].call].got = <<>> /\ Untouched(ClientOf(v))
        BY <1>2, <2>1, <2>3 DEF IInv, Links
      <3> QED BY <1>1, <1>2, <2>2, <3>1 DEF Untouched
    <2> QED BY <1>1, <2>1, <2>3 DEF IInv, Links
  <1> QED BY <1>3, <1>4, <1>5, <1>6 DEF IInv

\* send_packet on a connection that the agent has closed.
LEMMA SendToClosedStep ==
  ASSUME IInv, NEW w \in Workers, SendToClosed(w)
  PROVE  IInv'
  <1>1. worker[w].pc \in Pending
    BY DEF SendToClosed, Pending
  <1>2. PICK r \in Ids : r = worker[w].call
    BY <1>1, CallOf DEF Pending
  <1>3. PICK i \in Clients : i = call[r].client
    BY <1>1, <1>2, CallOf DEF ClientOf, Pending
  <1>4. /\ TypeOK /\ worker[w].pc # "idle" /\ i = ClientOf(w) /\ i # None
        /\ call[r].result = "none" /\ Chunks \in Nat
        /\ \A n \in DOMAIN call[r].got : Ends(call[r].got[n].kind) = "none"
        /\ Alone(r) => call[r].got = <<>> /\ Untouched(i)
        /\ link[i].requests \in Seq(Ids) /\ link[i].frames \in Seq(Frame)
    BY <1>1, <1>2, <1>3, BeforeSend
  <1>5. /\ pool' = pool /\ next_agent_index' = next_agent_index /\ serving' = serving
        /\ agent' = agent /\ link[i].shut
    BY <1>4 DEF SendToClosed
  <1>10. CASE /\ \E frames \in Lost(link[i].frames) : link' = [link EXCEPT ![i].frames = frames]
              /\ worker' = [worker EXCEPT ![w].pc = "recv"]
              /\ call' = call
    <2>1. PICK frames \in {link[i].frames, <<>>} : link' = [link EXCEPT ![i].frames = frames]
      BY <1>10 DEF Lost
    <2>2. /\ link'[i].requests = link[i].requests /\ link'[i].frames = frames
          /\ link'[i].shut = link[i].shut /\ link'[i].broken = link[i].broken
          /\ \A j \in Clients \ {i} : link'[j] = link[j]
      BY <2>1 DEF IInv, TypeOK
    <2>3. TypeOK'
      <3>1. frames \in Seq(Frame)
        <4>1. <<>> \in Seq(Frame)
          OBVIOUS
        <4> QED BY <1>4, <4>1
      <3>2. link' \in [Clients -> [requests : Seq(Ids), frames : Seq(Frame), shut : BOOLEAN,
                                   broken : BOOLEAN]]
        BY <2>1, <3>1 DEF IInv, TypeOK
      <3> QED BY <1>4, <1>5, <1>10, <3>2, Receiving DEF TypeOK
    <2>4. AtCall(w, r, i)
      BY <1>2, <1>3, <1>4, <1>5, <1>10, <2>2, Receiving DEF AtCall, Pending
    <2>5. ASSUME Alone(r) PROVE Own(r)'
      <3>1. /\ link'[i].requests = <<>> /\ link'[i].frames = <<>> /\ call'[r].got = <<>>
            /\ serving'.client # i /\ link'[i].broken
            /\ call'[r].client = i /\ call'[r].result = "none"
        BY <1>3, <1>4, <1>5, <1>10, <2>2, <2>5 DEF Untouched
      <3>2. Regular(r)'
        BY <1>4, <3>1 DEF Regular
      <3> QED BY <3>1, <3>2 DEF Own
    <2> QED BY <2>3, <2>4, <2>5, WorkerStepParts DEF IInv
  <1>11. CASE /\ Finish(w, [call[r] EXCEPT !.result = "unsent"])
              /\ link' = link
    <2>1. Return(w) /\ call' = [call EXCEPT ![r] = [call[r] EXCEPT !.result = "unsent"]]
      BY <1>2, <1>11 DEF Finish
    <2>2. /\ call'[r].client = i /\ call'[r].got = call[r].got /\ call'[r].result = "unsent"
          /\ \A q \in Ids \ {r} : call'[q] = call[q]
      BY <1>3, <2>1 DEF IInv, TypeOK
    <2>3. TypeOK'
      <3>1. call' \in [Ids -> [client : Clients \cup {None}, got : Seq(Frame), result : Results]]
        BY ZenonT(30), <2>1 DEF IInv, TypeOK, Results
      <3> QED BY <1>4, <1>5, <1>11, <2>1, <3>1, Returned DEF TypeOK
    <2>4. AtCall(w, r, i)
      BY <1>2, <1>3, <1>4, <1>5, <1>11, <2>1, <2>2, Returned DEF AtCall, Pending
    <2>5. ASSUME Alone(r) PROVE Own(r)'
      <3>1. /\ link'[i].requests = <<>> /\ link'[i].frames = <<>> /\ call'[r].got = <<>>
            /\ serving'.client # i /\ link'[i].broken
            /\ call'[r].client = i /\ call'[r].result = "unsent"
        BY <1>4, <1>5, <1>11, <2>2, <2>5 DEF Untouched
      <3>2. Regular(r)'
        BY <1>4, <3>1 DEF Regular
      <3> QED BY <3>1, <3>2 DEF Own
    <2> QED BY <2>3, <2>4, <2>5, WorkerStepParts DEF IInv
  <1> QED BY <1>2, <1>4, <1>10, <1>11 DEF SendToClosed

\* A frame goes from one sequence to the end of the other.
LEMMA MovesOver ==
  ASSUME NEW S, NEW s \in Seq(S), NEW t \in Seq(S), t # <<>>, NEW h, h = Head(t), NEW u, u = Append(s, h)
  PROVE  /\ u \in Seq(S) /\ Tail(t) \in Seq(S) /\ h \in S /\ h = t[1]
         /\ Len(u) = Len(s) + 1 /\ Len(Tail(t)) = Len(t) - 1 /\ Len(t) > 0
         /\ \A n \in DOMAIN u : (n \in DOMAIN s \/ n = Len(s) + 1) /\ (n \in DOMAIN s => u[n] = s[n])
         /\ u[Len(s) + 1] = h
         /\ \A n \in DOMAIN Tail(t) : n + 1 \in DOMAIN t /\ n \in Nat /\ Tail(t)[n] = t[n + 1]
         /\ 1 \in DOMAIN t
  OBVIOUS

\* Arithmetic: a frame of f goes over to the g that were taken.
LEMMA Lengths ==
  ASSUME NEW g \in Nat, NEW f \in Nat, NEW c \in Nat, f > 0
  PROVE  /\ (g + 1) + (f - 1) = g + f /\ g + f # 0
         /\ g > c /\ g + f <= c + 2 => g + 1 = c + 2
         /\ \A n \in Nat : g + (n + 1) = (g + 1) + n
  OBVIOUS

\* What a frame makes of a call, by its place in the answer.
LEMMA EndsIs ==
  ASSUME NEW n \in Nat, Chunks \in Nat
  PROVE  /\ Ends(KindOf(n)) \in {"none", "ok"}
         /\ Ends(KindOf(n)) = "ok" <=> n > Chunks
         /\ Ends("error") = "error"
         /\ \A kind : Ends(kind) \in {"none", "ok", "error"}
  BY DEF Ends, KindOf

\* recv_packet: a frame of the answer is taken in its turn.
LEMMA RecvStep ==
  ASSUME IInv, NEW w \in Workers, Recv(w)
  PROVE  IInv'
  <1>1. worker[w].pc = "recv" /\ TypeOK
    BY DEF Recv, IInv
  <1>2. PICK r \in Ids : r = worker[w].call
    BY <1>1, CallOf
  <1>3. PICK i \in Clients : i = call[r].client
    BY <1>1, <1>2, CallOf DEF ClientOf
  <1>4. i = ClientOf(w) /\ call[r].result = "none" /\ i # None
    BY <1>1, <1>2, <1>3, CallOf DEF ClientOf
  <1>5. PICK f : f = Head(link[i].frames)
    OBVIOUS
  <1>6. PICK got : got = Append(call[r].got, f)
    OBVIOUS
  <1>7. PICK result : result = Ends(f.kind)
    OBVIOUS
  <1>8. /\ pool' = pool /\ next_agent_index' = next_agent_index /\ serving' = serving
        /\ agent' = agent /\ link[i].frames # <<>>
        /\ link' = [link EXCEPT ![i].frames = Tail(@)]
    BY <1>4 DEF Recv
  <1>9. /\ call' = [call EXCEPT ![r] = [call[r] EXCEPT !.got = got, !.result = result]]
        /\ IF result = "none" THEN worker' = worker ELSE Return(w)
    <2>1. [call[r] EXCEPT !.got = Append(@, f), !.result = Ends(f.kind)] =
            [call[r] EXCEPT !.got = got, !.result = result]
      BY <1>6, <1>7, Types DEF IInv
    <2> QED BY <1>2, <1>4, <1>5, <1>7, <2>1 DEF Recv, Finish
  <1>10. /\ call[r].got \in Seq(Frame) /\ link[i].frames \in Seq(Frame) /\ Chunks \in Nat
    BY Types DEF IInv
  <1>11. /\ got \in Seq(Frame) /\ Tail(link[i].frames) \in Seq(Frame) /\ f \in Frame
         /\ f = link[i].frames[1] /\ Len(got) = Len(call[r].got) + 1
         /\ Len(Tail(link[i].frames)) = Len(link[i].frames) - 1 /\ Len(link[i].frames) > 0
         /\ \A n \in DOMAIN got : (n \in DOMAIN call[r].got \/ n = Len(call[r].got) + 1)
                                  /\ (n \in DOMAIN call[r].got => got[n] = call[r].got[n])
         /\ got[Len(call[r].got) + 1] = f
         /\ \A n \in DOMAIN Tail(link[i].frames) :
              /\ n + 1 \in DOMAIN link[i].frames /\ n \in Nat
              /\ Tail(link[i].frames)[n] = link[i].frames[n + 1]
         /\ 1 \in DOMAIN link[i].frames
    BY SMTT(20), <1>5, <1>6, <1>8, <1>10, MovesOver
  <1>L. /\ Len(call[r].got) \in Nat /\ Len(link[i].frames) \in Nat /\ Len(link[i].frames) > 0
        /\ Chunks \in Nat /\ Len(got) = Len(call[r].got) + 1
        /\ Len(Tail(link[i].frames)) = Len(link[i].frames) - 1
    BY <1>10, <1>11
  <1>M. \A n \in Nat : Len(call[r].got) + (n + 1) = Len(got) + n
    <2>1. \A g, n \in Nat : g + (n + 1) = (g + 1) + n
      OBVIOUS
    <2> QED BY <1>L, <2>1
  <1>12. result \in {"none", "ok", "error"} /\ result \in Results
    BY <1>7, <1>10, EndsIs DEF Results
  <1>13. /\ link'[i].requests = link[i].requests /\ link'[i].frames = Tail(link[i].frames)
         /\ link'[i].shut = link[i].shut /\ link'[i].broken = link[i].broken
         /\ \A j \in Clients \ {i} : link'[j] = link[j]
    BY <1>8 DEF IInv, TypeOK
  <1>14. /\ call'[r].client = i /\ call'[r].got = got /\ call'[r].result = result
         /\ \A q \in Ids \ {r} : call'[q] = call[q]
    BY <1>3, <1>9 DEF IInv, TypeOK
  <1>15. TypeOK'
    <2>1. link' \in [Clients -> [requests : Seq(Ids), frames : Seq(Frame), shut : BOOLEAN,
                                 broken : BOOLEAN]]
      <3>1. link' = [link EXCEPT ![i].frames = Tail(link[i].frames)]
        BY <1>8 DEF IInv, TypeOK
      <3> QED BY <1>11, <3>1 DEF IInv, TypeOK
    <2>2. call' \in [Ids -> [client : Clients \cup {None}, got : Seq(Frame), result : Results]]
      <3>1. call[r] \in [client : Clients \cup {None}, got : Seq(Frame), result : Results]
        BY Types DEF IInv
      <3>2. [call[r] EXCEPT !.got = got, !.result = result]
              \in [client : Clients \cup {None}, got : Seq(Frame), result : Results]
        BY <1>11, <1>12, <3>1
      <3> QED BY <1>9, <3>2 DEF IInv, TypeOK
    <2>3. worker' \in [Workers -> [pc : {"idle", "send", "sending", "recv"}, call : Ids \cup {None}]]
      BY <1>1, <1>9, Returned DEF TypeOK
    <2> QED BY <1>1, <1>8, <2>1, <2>2, <2>3 DEF TypeOK
  <1>16. AtCall(w, r, i)
    <2>1. \A n \in DOMAIN call[r].got : Ends(call[r].got[n].kind) = "none"
      BY <1>1, <1>2 DEF IInv, Working
    <2>2. result = "none" => \A n \in DOMAIN got : Ends(got[n].kind) = "none"
      BY <1>7, <1>11, <2>1
    <2>3. /\ worker'[w].pc \notin Pending /\ \A v \in Workers \ {w} : worker'[v] = worker[v]
          /\ worker'[w].pc # "idle" => result = "none" /\ worker'[w].call = worker[w].call
      BY <1>1, <1>9, Returned DEF Pending
    <2> QED BY <1>1, <1>2, <1>3, <1>8, <1>13, <1>14, <2>2, <2>3 DEF AtCall
  <1>17. ASSUME Alone(r) PROVE Own(r)'
    <2>1. Own(r)
      BY <1>3, <1>4, <1>17 DEF IInv, Links
    <2>2. Len(got) + Len(Tail(link[i].frames)) = Len(call[r].got) + Len(link[i].frames)
      <3> DEFINE g == Len(call[r].got)
                 l == Len(link[i].frames)
      <3>1. (g + 1) + (l - 1) = g + l
        <4> HIDE DEF g, l
        <4> QED BY <1>L, Lengths DEF g, l
      <3> QED BY <1>L, <3>1
    <2>3. ASSUME Regular(r)
          PROVE  Regular(r)' /\ (result = "ok" => Len(got) = Chunks + 2 /\ \A n \in DOMAIN got : got[n] = Answer(r, n))
      <3>1. /\ Len(call[r].got) + Len(link[i].frames) <= Chunks + 2
            /\ \A n \in DOMAIN call[r].got : call[r].got[n] = Answer(r, n)
            /\ \A n \in DOMAIN link[i].frames : link[i].frames[n] = Answer(r, Len(call[r].got) + n)
        BY <1>3, <2>3 DEF Regular
      <3>2. f = Answer(r, Len(call[r].got) + 1)
        BY <1>11, <3>1
      <3>3. \A n \in DOMAIN got : got[n] = Answer(r, n)
        BY <1>11, <3>1, <3>2
      <3>4. ASSUME NEW n \in DOMAIN Tail(link[i].frames)
            PROVE  Tail(link[i].frames)[n] = Answer(r, Len(got) + n)
        <4>1. Tail(link[i].frames)[n] = Answer(r, Len(call[r].got) + (n + 1))
          BY <1>11, <3>1
        <4>2. Len(call[r].got) + (n + 1) = Len(got) + n
          BY <1>11, <1>M
        <4> QED BY <4>1, <4>2
      <3>5. Regular(r)'
        BY <1>13, <1>14, <2>2, <3>1, <3>3, <3>4 DEF Regular, Answer
      <3>6. ASSUME result = "ok" PROVE Len(got) = Chunks + 2
        <4>1. f.kind = KindOf(Len(call[r].got)) /\ Len(call[r].got) \in Nat
          BY <1>10, <3>2 DEF Answer
        <4>2. Len(call[r].got) > Chunks
          BY <1>7, <1>10, <3>6, <4>1, EndsIs
        <4> QED BY <1>L, <3>1, <4>2, Lengths
      <3> QED BY <3>3, <3>5, <3>6
    <2>4. ASSUME Refused(r)
          PROVE  Refused(r)' /\ result # "ok"
      <3>1. /\ serving.client # i
            /\ Len(call[r].got) + Len(link[i].frames) = 1
            /\ \A n \in DOMAIN call[r].got : call[r].got[n] = Refusal(r)
            /\ \A n \in DOMAIN link[i].frames : link[i].frames[n] = Refusal(r)
        BY <1>3, <2>4 DEF Refused
      <3>2. f = Refusal(r) /\ \A n \in DOMAIN got : got[n] = Refusal(r)
        BY <1>11, <3>1
      <3>3. \A n \in DOMAIN Tail(link[i].frames) : Tail(link[i].frames)[n] = Refusal(r)
        BY <1>11, <3>1
      <3>4. result = "error"
        BY <1>7, <1>10, <3>2, EndsIs DEF Refusal
      <3>5. Refused(r)'
        BY ZenonT(30), <1>8, <1>13, <1>14, <2>2, <3>1, <3>2, <3>3 DEF Refused
      <3> QED BY <3>4, <3>5
    <2>5. link[i].requests = <<>>
      <3>1. Len(call[r].got) + Len(link[i].frames) # 0
        BY <1>L, Lengths
      <3> QED BY <1>3, <2>1, <3>1 DEF Own
    <2>7. /\ serving.client = i =>
               /\ serving.req = r /\ ~link[i].shut
               /\ serving.sent = Len(got) + Len(Tail(link[i].frames))
          /\ link[i].shut /\ ~link[i].broken =>
               Refused(r) \/ Len(got) + Len(Tail(link[i].frames)) = Chunks + 2
          /\ Regular(r) \/ Refused(r)
      BY <1>3, <2>1, <2>2 DEF Own
    <2> QED BY <1>8, <1>12, <1>13, <1>14, <2>3, <2>4, <2>5, <2>7 DEF Own, Answer
  <1> QED BY <1>15, <1>16, <1>17, WorkerStepParts DEF IInv

\* recv_packet fails: the call ends, cut short only when the agent failed.
LEMMA RecvFailsStep ==
  ASSUME IInv, NEW w \in Workers, RecvFails(w)
  PROVE  IInv'
  <1>1. worker[w].pc = "recv" /\ TypeOK
    BY DEF RecvFails, IInv
  <1>2. PICK r \in Ids : r = worker[w].call
    BY <1>1, CallOf
  <1>3. PICK i \in Clients : i = call[r].client
    BY <1>1, <1>2, CallOf DEF ClientOf
  <1>4. i = ClientOf(w) /\ call[r].result = "none" /\ i # None
    BY <1>1, <1>2, <1>3, CallOf DEF ClientOf
  <1>5. PICK result \in {"cut", "timeout"} :
          result = IF link[i].frames = <<>> /\ link[i].shut THEN "cut" ELSE "timeout"
    OBVIOUS
  <1>6. /\ pool' = pool /\ next_agent_index' = next_agent_index /\ serving' = serving
        /\ agent' = agent /\ link' = link /\ Return(w)
        /\ call' = [call EXCEPT ![r] = [call[r] EXCEPT !.result = result]]
    BY <1>2, <1>4, <1>5 DEF RecvFails, Finish
  <1>7. /\ call'[r].client = i /\ call'[r].got = call[r].got /\ call'[r].result = result
        /\ \A q \in Ids \ {r} : call'[q] = call[q]
    BY <1>3, <1>6 DEF IInv, TypeOK
  <1>8. TypeOK'
    <2>1. call' \in [Ids -> [client : Clients \cup {None}, got : Seq(Frame), result : Results]]
      <3>1. result \in Results
        BY <1>5 DEF Results
      <3> QED BY <1>6, <3>1 DEF IInv, TypeOK
    <2> QED BY <1>1, <1>6, <2>1, Returned DEF TypeOK
  <1>9. AtCall(w, r, i)
    BY <1>1, <1>2, <1>3, <1>6, <1>7, Returned DEF AtCall, Pending
  <1>10. ASSUME Alone(r) PROVE Own(r)'
    <2>1. Own(r)
      BY <1>3, <1>4, <1>10 DEF IInv, Links
    <2>2. ASSUME link[i].frames = <<>>, link[i].shut, ~link[i].broken PROVE FALSE
      <3>1. \A n \in DOMAIN call[r].got : Ends(call[r].got[n].kind) = "none"
        BY <1>1, <1>2 DEF IInv, Working
      <3>2. call[r].got \in Seq(Frame) /\ Chunks \in Nat /\ Len(link[i].frames) = 0
        BY <2>2, Types DEF IInv
      <3>3. CASE Refused(r)
        <4>1. 1 \in DOMAIN call[r].got /\ call[r].got[1] = Refusal(r)
          BY <1>3, <3>2, <3>3 DEF Refused
        <4> QED BY <3>1, <3>2, <4>1, EndsIs DEF Refusal
      <3>4. CASE Regular(r) /\ Len(call[r].got) + Len(link[i].frames) = Chunks + 2
        <4>1. Chunks + 2 \in DOMAIN call[r].got /\ Chunks + 2 - 1 \in Nat /\ Chunks + 2 - 1 > Chunks
          BY <3>2, <3>4
        <4>2. call[r].got[Chunks + 2] = Answer(r, Chunks + 2)
          BY <3>4, <4>1 DEF Regular
        <4>3. call[r].got[Chunks + 2].kind = KindOf(Chunks + 2 - 1)
          BY <3>2, <4>2 DEF Answer
        <4> QED BY <3>1, <3>2, <4>1, <4>3, EndsIs
      <3> QED BY <1>3, <2>1, <2>2, <3>3, <3>4 DEF Own
    <2>3. result # "ok" /\ (result \in {"cut", "unsent"} => link[i].broken)
      BY <1>5, <2>2
    <2>4. (Regular(r) => Regular(r)') /\ (Refused(r) => Refused(r)')
      BY <1>3, <1>6, <1>7 DEF Regular, Refused
    <2> QED BY <1>3, <1>6, <1>7, <2>1, <2>3, <2>4 DEF Own
  <1> QED BY <1>8, <1>9, <1>10, WorkerStepParts DEF IInv

\* A step of the agent at link i.
AtLink(i) ==
  /\ worker' = worker /\ call' = call /\ pool' = pool /\ next_agent_index' = next_agent_index
  /\ \A j \in Clients \ {i} : SameLink(j)

\* It matters to a call only if that has the client to itself.
LEMMA AgentStepParts ==
  ASSUME IInv, NEW i \in Clients, AtLink(i), ~Untouched(i),
         \A r \in Ids : call[r].client = i /\ Own(r) => Own(r)'
  PROVE  Assigned' /\ Working' /\ Links'
  <1>1. Assigned' /\ Working'
    BY DEF AtLink, IInv, Assigned, Working
  <1>2. \A r \in Ids : call[r].client = i /\ Alone(r) => Own(r)'
    BY Types DEF IInv, Links
  <1>3. ASSUME NEW w \in Workers, worker'[w].pc \in Pending, ClientOf(w) = i, Alone(worker[w].call)
        PROVE  FALSE
    BY <1>3 DEF AtLink, IInv, Links
  <1>4. ~\A r \in Ids : call[r].client # i
    BY DEF IInv, Links
  <1>5. Links'
    BY <1>2, <1>3, <1>4, OneLink DEF AtLink
  <1> QED BY <1>1, <1>5

\* The agent is at a link.
LEMMA ServingType ==
  ASSUME IInv, serving.client # None
  PROVE  /\ serving.client \in Clients /\ serving.req \in Ids /\ serving.sent \in Nat
         /\ serving \in [client : Clients \cup {None}, req : Ids \cup {None}, sent : 0..(Chunks + 2)]
         /\ serving.sent <= Chunks + 2
         /\ ~Untouched(serving.client)
  <1>1. serving \in [client : Clients \cup {None}, req : Ids \cup {None}, sent : 0..(Chunks + 2)]
    BY DEF IInv, TypeOK
  <1>2. serving.sent \in 0..(Chunks + 2) /\ Chunks \in Nat
    BY <1>1, AgentLinkAssumption
  <1>3. serving.sent \in Nat /\ serving.sent <= Chunks + 2
    BY <1>2
  <1> QED BY <1>1, <1>3 DEF IInv, Serving, Untouched

\* handle_client_data: a call that has the client to itself is the one that is read.
LEMMA ReadsStep ==
  ASSUME IInv, NEW i \in Clients, AgentReads(i)
  PROVE  IInv'
  <1>1. /\ serving.client = None /\ ~link[i].shut /\ link[i].requests # <<>>
        /\ serving' = [client |-> i, req |-> Head(link[i].requests), sent |-> 0]
        /\ link' = [link EXCEPT ![i].requests = Tail(link[i].requests)]
        /\ pool' = pool /\ next_agent_index' = next_agent_index /\ worker' = worker
        /\ call' = call /\ agent' = agent
    BY DEF AgentReads, IInv, TypeOK
  <1>2. i # None /\ Chunks \in Nat /\ None \notin Clients
    BY Types DEF IInv
  <1>3. Head(link[i].requests) \in Ids /\ Tail(link[i].requests) \in Seq(Ids)
    BY <1>1, Types DEF IInv
  <1>4. /\ link'[i].requests = Tail(link[i].requests) /\ link'[i].frames = link[i].frames
        /\ link'[i].shut = link[i].shut /\ link'[i].broken = link[i].broken
        /\ \A j \in Clients \ {i} : link'[j] = link[j]
    BY <1>1 DEF IInv, TypeOK
  <1>5. TypeOK'
    <2>1. link' \in [Clients -> [requests : Seq(Ids), frames : Seq(Frame), shut : BOOLEAN,
                                 broken : BOOLEAN]]
      BY <1>1, <1>3 DEF IInv, TypeOK
    <2>2. serving' \in [client : Clients \cup {None}, req : Ids \cup {None}, sent : 0..(Chunks + 2)]
      BY <1>1, <1>2, <1>3
    <2> QED BY <1>1, <2>1, <2>2 DEF IInv, TypeOK
  <1>6. Serving'
    BY <1>1, <1>3 DEF Serving
  <1>7. AtLink(i) /\ ~Untouched(i)
    BY <1>1, <1>2, <1>4 DEF AtLink, SameLink, Untouched
  <1>8. ASSUME NEW r \in Ids, call[r].client = i, Own(r)
        PROVE  Own(r)'
    <2>1. link[i].requests = <<r>> /\ Len(call[r].got) + Len(link[i].frames) = 0
      BY <1>1, <1>8 DEF Own
    <2>2. Head(<<r>>) = r /\ Tail(<<r>>) = <<>>
      OBVIOUS
    <2>3. Regular(r) /\ Regular(r)'
      <3>1. ~Refused(r)
        <4>1. Len(call[r].got) + Len(link[i].frames) # 1
          <5>1. 0 # 1
            OBVIOUS
          <5> QED BY <2>1, <5>1, Zenon
        <4> QED BY <1>8, <4>1 DEF Refused
      <3>2. Regular(r)
        BY <1>8, <3>1 DEF Own
      <3> QED BY <1>1, <1>4, <1>8, <3>2 DEF Regular
    <2>4. /\ serving'.req = r /\ serving'.sent = 0 /\ serving'.client = i
          /\ link'[i].requests = <<>> /\ ~link'[i].shut
      BY <1>1, <1>4, <2>1, <2>2
    <2> QED BY <1>1, <1>4, <1>8, <2>1, <2>3, <2>4 DEF Own
  <1> QED BY <1>5, <1>6, <1>7, <1>8, AgentStepParts DEF IInv

\* The next frame of an answer.
LEMMA SendsStep ==
  ASSUME IInv, AgentSends
  PROVE  IInv'
  <1>1. /\ serving.client \in Clients /\ serving.req \in Ids /\ serving.sent \in Nat
        /\ serving \in [client : Clients \cup {None}, req : Ids \cup {None}, sent : 0..(Chunks + 2)]
        /\ ~Untouched(serving.client) /\ serving.sent <= Chunks + 1
    BY ServingType DEF AgentSends
  <1>2. PICK i \in Clients : i = serving.client
    BY <1>1
  <1>3. PICK f : f = [req |-> serving.req, kind |-> KindOf(serving.sent)]
    OBVIOUS
  <1>4. /\ link' = [link EXCEPT ![i].frames = Append(link[i].frames, f)]
        /\ serving' = [serving EXCEPT !.sent = serving.sent + 1]
        /\ pool' = pool /\ next_agent_index' = next_agent_index /\ worker' = worker
        /\ call' = call /\ agent' = agent
    BY <1>2, <1>3 DEF AgentSends, IInv, TypeOK
  <1>5. f \in Frame /\ link[i].frames \in Seq(Frame) /\ Chunks \in Nat
    BY <1>1, <1>3, Types DEF IInv, Frame, Kinds, KindOf
  <1>6. /\ Append(link[i].frames, f) \in Seq(Frame)
        /\ Len(Append(link[i].frames, f)) = Len(link[i].frames) + 1
        /\ Append(link[i].frames, f)[Len(link[i].frames) + 1] = f
        /\ \A n \in DOMAIN Append(link[i].frames, f) :
             /\ n \in DOMAIN link[i].frames \/ n = Len(link[i].frames) + 1
             /\ n \in DOMAIN link[i].frames => Append(link[i].frames, f)[n] = link[i].frames[n]
    BY <1>5
  <1>7. /\ link'[i].requests = link[i].requests /\ link'[i].frames = Append(link[i].frames, f)
        /\ link'[i].shut = link[i].shut /\ link'[i].broken = link[i].broken
        /\ \A j \in Clients \ {i} : link'[j] = link[j]
    BY <1>4 DEF IInv, TypeOK
  <1>8. /\ serving'.client = i /\ serving'.req = serving.req /\ serving'.sent = serving.sent + 1
        /\ serving.sent + 1 \in 0..(Chunks + 2)
    BY <1>1, <1>2, <1>4, <1>5
  <1>9. TypeOK'
    <2>1. link' \in [Clients -> [requests : Seq(Ids), frames : Seq(Frame), shut : BOOLEAN,
                                 broken : BOOLEAN]]
      BY <1>4, <1>6 DEF IInv, TypeOK
    <2>2. serving' \in [client : Clients \cup {None}, req : Ids \cup {None}, sent : 0..(Chunks + 2)]
      BY <1>1, <1>4, <1>8
    <2> QED BY <1>4, <2>1, <2>2 DEF IInv, TypeOK
  <1>10. Serving'
    BY <1>1, <1>8 DEF Serving
  <1>11. AtLink(i) /\ ~Untouched(i)
    BY <1>1, <1>2, <1>4, <1>7, <1>8 DEF AtLink, SameLink
  <1>12. ASSUME NEW r \in Ids, call[r].client = i, Own(r)
         PROVE  Own(r)'
    <2>1. /\ serving.req = r /\ serving.sent = Len(call[r].got) + Len(link[i].frames)
          /\ ~link[i].shut /\ link[i].requests = <<>> /\ Regular(r)
      BY <1>2, <1>12 DEF Own, Refused
    <2>2. PICK g \in Nat : g = Len(call[r].got)
      BY Types DEF IInv
    <2>3. PICK l \in Nat : l = Len(link[i].frames)
      BY <1>5
    <2>4. PICK m \in Nat : m = l + 1
      OBVIOUS
    <2>5. PICK total \in Nat : total = g + m
      OBVIOUS
    <2>6. total - 1 = g + l
      BY <2>4, <2>5
    <2>7. total = serving.sent + 1 /\ total - 1 = serving.sent /\ total <= Chunks + 2
      <3>1. serving.sent = g + l
        BY <2>1, <2>2, <2>3, <1>12
      <3>2. total = (g + l) + 1
        BY <2>4, <2>5
      <3> QED BY <1>1, <1>5, <3>1, <3>2
    <2>8. f = Answer(r, total)
      BY <1>3, <2>1, <2>7 DEF Answer
    <2>9. /\ link'[i].frames = Append(link[i].frames, f) /\ Len(link'[i].frames) = m
          /\ call'[r].got = call[r].got /\ call'[r].client = i
      BY <1>4, <1>6, <1>7, <1>12, <2>3, <2>4
    <2>10. \A n \in DOMAIN Append(link[i].frames, f) :
              Append(link[i].frames, f)[n] = Answer(r, g + n)
      <3>1. \A n \in DOMAIN link[i].frames : link[i].frames[n] = Answer(r, g + n)
        BY <1>12, <2>1, <2>2 DEF Regular
      <3>2. Append(link[i].frames, f)[m] = Answer(r, g + m)
        BY <1>6, <2>3, <2>4, <2>5, <2>8
      <3> QED BY <1>6, <2>3, <2>4, <3>1, <3>2
    <2>11. Regular(r)'
      <3>1. \A n \in DOMAIN call'[r].got : call'[r].got[n] = Answer(r, n)
        BY <1>12, <2>1, <2>9 DEF Regular
      <3>2. Len(call'[r].got) + Len(link'[i].frames) <= Chunks + 2
        BY <2>2, <2>5, <2>7, <2>9
      <3>3. \A n \in DOMAIN link'[i].frames : link'[i].frames[n] = Answer(r, Len(call'[r].got) + n)
        BY <2>2, <2>9, <2>10
      <3> QED BY <2>9, <3>1, <3>2, <3>3 DEF Regular, Answer
    <2>12. serving'.sent = Len(call'[r].got) + Len(link'[i].frames)
      BY <1>8, <2>2, <2>5, <2>7, <2>9
    <2>13. /\ call'[r] = call[r] /\ link'[i].requests = <<>> /\ ~link'[i].shut
           /\ serving'.req = r
           /\ call[r].result = "ok" =>
                Len(call[r].got) = Chunks + 2 /\ \A n \in DOMAIN call[r].got : call[r].got[n] = Answer(r, n)
           /\ call[r].result \notin {"cut", "unsent"} \/ link'[i].broken
      BY <1>4, <1>7, <1>8, <1>12, <2>1 DEF Own
    <2> QED BY <1>12, <2>1, <2>9, <2>11, <2>12, <2>13 DEF Own, Answer
  <1> QED BY <1>9, <1>10, <1>11, <1>12, AgentStepParts DEF IInv

\* The agent closes its end of the link it serves: what a call that has the client to
\* itself still gets is the whole answer, or its refusal, unless the agent failed.
LEMMA ShutStep ==
  ASSUME IInv, NEW i \in Clients, serving.client = i, NEW sent \in Seq(Frame),
         NEW broken \in BOOLEAN, Shut(i, sent, broken), Done,
         pool' = pool, next_agent_index' = next_agent_index, worker' = worker, call' = call,
         agent' = agent,
         \A r \in Ids :
           call[r].client = i /\ Own(r) /\ link'[i].frames = sent /\ serving'.client # i =>
             \/ Refused(r)'
             \/ Regular(r)' /\ (broken \/ Len(call[r].got) + Len(sent) = Chunks + 2)
  PROVE  IInv'
  <1>1. PICK frames \in {sent, <<>>} :
          /\ link' = [link EXCEPT ![i] = [requests |-> <<>>, frames |-> frames, shut |-> TRUE,
                                          broken |-> link[i].broken \/ broken]]
          /\ link[i].requests = <<>> => frames = sent
    <2>1. PICK frames \in IF link[i].requests = <<>> THEN {sent} ELSE Lost(sent) :
            link' = [link EXCEPT ![i] = [requests |-> <<>>, frames |-> frames, shut |-> TRUE,
                                         broken |-> @.broken \/ broken]]
      BY DEF Shut
    <2>2. frames \in {sent, <<>>} /\ (link[i].requests = <<>> => frames = sent)
      BY <2>1 DEF Lost
    <2>3. link' = [link EXCEPT ![i] = [requests |-> <<>>, frames |-> frames, shut |-> TRUE,
                                       broken |-> link[i].broken \/ broken]]
      BY <2>1 DEF IInv, TypeOK
    <2> QED BY <2>2, <2>3
  <1>2. frames \in Seq(Frame) /\ <<>> \in Seq(Ids) /\ (link[i].broken \/ broken) \in BOOLEAN
    <2>1. <<>> \in Seq(Frame) /\ <<>> \in Seq(Ids)
      OBVIOUS
    <2> QED BY <1>1, <2>1, Types DEF IInv
  <1>3. /\ link'[i].requests = <<>> /\ link'[i].frames = frames /\ link'[i].shut = TRUE
        /\ link'[i].broken = (link[i].broken \/ broken)
        /\ \A j \in Clients \ {i} : link'[j] = link[j]
    BY <1>1 DEF IInv, TypeOK
  <1>4. serving' = [client |-> None, req |-> None, sent |-> 0] /\ i # None
        /\ Chunks \in Nat
    BY Types DEF Done, IInv
  <1>5. TypeOK'
    <2>1. link' \in [Clients -> [requests : Seq(Ids), frames : Seq(Frame), shut : BOOLEAN,
                                 broken : BOOLEAN]]
      BY <1>1, <1>2 DEF IInv, TypeOK
    <2>2. serving' \in [client : Clients \cup {None}, req : Ids \cup {None}, sent : 0..(Chunks + 2)]
      BY <1>4
    <2> QED BY <2>1, <2>2 DEF IInv, TypeOK
  <1>6. Serving'
    BY <1>4 DEF Serving
  <1>7. AtLink(i) /\ ~Untouched(i)
    BY <1>3, <1>4, Types DEF AtLink, SameLink, Untouched, IInv
  <1>8. ASSUME NEW r \in Ids, call[r].client = i, Own(r)
        PROVE  Own(r)'
    <2>1. link[i].requests = <<>> /\ link'[i].frames = sent /\ serving'.client # i
      BY <1>1, <1>3, <1>4, <1>8 DEF Own
    <2>2. \/ Refused(r)'
          \/ Regular(r)' /\ (broken \/ Len(call[r].got) + Len(sent) = Chunks + 2)
      BY <1>8, <2>1
    <2>3. /\ call'[r] = call[r]
          /\ call[r].result = "ok" =>
               Len(call[r].got) = Chunks + 2 /\ \A n \in DOMAIN call[r].got : call[r].got[n] = Answer(r, n)
          /\ call[r].result \notin {"cut", "unsent"} \/ link[i].broken
      BY <1>8 DEF Own
    <2> QED BY <1>3, <1>8, <2>1, <2>2, <2>3 DEF Own, Answer
  <1> QED BY <1>5, <1>6, <1>7, <1>8, AgentStepParts DEF IInv

\* cleanup_client after the end frame: the answer is whole.
LEMMA ClosesStep ==
  ASSUME IInv, AgentCloses
  PROVE  IInv'
  <1>1. PICK i \in Clients : i = serving.client
    BY ServingType DEF AgentCloses, AnswerSent
  <1>2. /\ serving.sent = Chunks + 2 /\ Shut(i, link[i].frames, FALSE) /\ Done
        /\ pool' = pool /\ next_agent_index' = next_agent_index /\ worker' = worker
        /\ call' = call /\ agent' = agent /\ link[i].frames \in Seq(Frame)
    BY <1>1, Types DEF AgentCloses, AnswerSent, IInv
  <1>3. ASSUME NEW r \in Ids, call[r].client = i, Own(r), link'[i].frames = link[i].frames
        PROVE  Regular(r)' /\ Len(call[r].got) + Len(link[i].frames) = Chunks + 2
    BY <1>1, <1>2, <1>3 DEF Own, Regular, Refused
  <1>4. \A r \in Ids :
           call[r].client = i /\ Own(r) /\ link'[i].frames = link[i].frames /\ serving'.client # i =>
             \/ Refused(r)'
             \/ Regular(r)' /\ (FALSE \/ Len(call[r].got) + Len(link[i].frames) = Chunks + 2)
    BY <1>3
  <1> QED BY <1>1, <1>2, <1>4, ShutStep

\* A send fails: the connection is lost in the middle of an answer.
LEMMA SendFailsStep ==
  ASSUME IInv, AgentSendFails
  PROVE  IInv'
  <1>1. PICK i \in Clients : i = serving.client
    BY ServingType DEF AgentSendFails
  <1>2. /\ Shut(i, link[i].frames, TRUE) /\ Done
        /\ pool' = pool /\ next_agent_index' = next_agent_index /\ worker' = worker
        /\ call' = call /\ agent' = agent /\ link[i].frames \in Seq(Frame)
    BY <1>1, Types DEF AgentSendFails, IInv
  <1>3. ASSUME NEW r \in Ids, call[r].client = i, Own(r), link'[i].frames = link[i].frames
        PROVE  Regular(r)'
    BY <1>1, <1>2, <1>3 DEF Own, Regular, Refused
  <1> QED BY <1>1, <1>2, <1>3, ShutStep

\* The handler throws: the error frame is the whole answer.
LEMMA ThrowsStep ==
  ASSUME IInv, AgentThrows
  PROVE  IInv'
  <1>1. PICK i \in Clients : i = serving.client
    BY ServingType DEF AgentThrows
  <1>2. PICK f : f = Refusal(serving.req)
    OBVIOUS
  <1>3. /\ Shut(i, Append(link[i].frames, f), FALSE) /\ Done /\ serving.sent = 0
        /\ pool' = pool /\ next_agent_index' = next_agent_index /\ worker' = worker
        /\ call' = call /\ agent' = agent
    BY <1>1, <1>2 DEF AgentThrows, Refusal
  <1>4. f \in Frame
    BY <1>1, <1>2, ServingType, Types DEF Frame, Refusal, Kinds, IInv
  <1>5. link[i].frames \in Seq(Frame) /\ Append(link[i].frames, f) \in Seq(Frame)
    BY <1>4, Types DEF IInv
  <1>6. ASSUME NEW r \in Ids, call[r].client = i, Own(r),
               link'[i].frames = Append(link[i].frames, f), serving'.client # i
        PROVE  Refused(r)'
    <2>1. f = Refusal(r) /\ Len(call[r].got) + Len(link[i].frames) = 0
      BY <1>1, <1>2, <1>3, <1>6 DEF Own
    <2>2. Len(call[r].got) = 0 /\ Len(link[i].frames) = 0 /\ call[r].got \in Seq(Frame)
      <3>1. Len(call[r].got) \in Nat /\ Len(link[i].frames) \in Nat
        BY <1>5, Types DEF IInv
      <3>2. \A m, n \in Nat : m + n = 0 => m = 0 /\ n = 0
        OBVIOUS
      <3> QED BY <2>1, <3>1, <3>2, Types DEF IInv
    <2>3. call[r].got = <<>> /\ link[i].frames = <<>>
      BY <1>5, <2>2
    <2>4. /\ Len(<<>>) = 0 /\ DOMAIN <<>> = {} /\ Append(<<>>, f) = <<f>> /\ Len(<<f>>) = 1
          /\ \A n \in DOMAIN <<f>> : <<f>>[n] = f
      OBVIOUS
    <2>5. /\ call'[r].got = <<>> /\ link'[i].frames = <<f>> /\ call'[r].client = i
      BY <1>3, <1>6, <2>3, <2>4
    <2> QED BY <1>6, <2>1, <2>4, <2>5 DEF Refused, Refusal
  <1> QED BY <1>1, <1>3, <1>5, <1>6, ShutStep

\* The agent dies: every link it had not closed is broken.
LEMMA DiesStep ==
  ASSUME IInv, AgentDies
  PROVE  IInv'
  <1>1. /\ link' = [i \in Clients |-> [link[i] EXCEPT !.requests = <<>>, !.shut = TRUE,
                                         !.broken = link[i].broken \/ ~link[i].shut]]
        /\ serving' = [client |-> None, req |-> None, sent |-> 0] /\ agent' = "dead"
        /\ pool' = pool /\ next_agent_index' = next_agent_index /\ worker' = worker
        /\ call' = call
    BY DEF AgentDies, Done, IInv, TypeOK
  <1>2. None \notin Clients /\ Chunks \in Nat /\ <<>> \in Seq(Ids)
    BY Types DEF IInv
  <1>3. \A i \in Clients : /\ link'[i].requests = <<>> /\ link'[i].frames = link[i].frames
                           /\ link'[i].shut = TRUE
                           /\ link'[i].broken = (link[i].broken \/ ~link[i].shut)
    BY <1>1, Types DEF IInv
  <1>4. TypeOK'
    <2>1. link' \in [Clients -> [requests : Seq(Ids), frames : Seq(Frame), shut : BOOLEAN,
                                 broken : BOOLEAN]]
      <3>1. ASSUME NEW i \in Clients
            PROVE  [link[i] EXCEPT !.requests = <<>>, !.shut = TRUE,
                                   !.broken = link[i].broken \/ ~link[i].shut]
                     \in [requests : Seq(Ids), frames : Seq(Frame), shut : BOOLEAN, broken : BOOLEAN]
        BY <1>2, Types DEF IInv
      <3> QED BY <1>1, <3>1
    <2>2. serving' \in [client : Clients \cup {None}, req : Ids \cup {None}, sent : 0..(Chunks + 2)]
      <3>1. 0 \in 0..(Chunks + 2)
        BY <1>2
      <3>2. serving' = [client |-> None, req |-> None, sent |-> 0]
        BY <1>1
      <3> QED BY <3>1, <3>2
    <2> QED BY <1>1, <2>1, <2>2 DEF IInv, TypeOK
  <1>5. Assigned' /\ Working' /\ Serving'
    BY <1>1 DEF IInv, Assigned, Working, Serving
  <1>6. ASSUME NEW i \in Clients, Untouched(i) PROVE Untouched(i)'
    BY <1>1, <1>2, <1>3, <1>6 DEF Untouched
  <1>7. ASSUME NEW r \in Ids, call[r].client \in Clients, Own(r) PROVE Own(r)'
    <2>1. PICK i \in Clients : i = call[r].client
      BY <1>7
    <2>2. /\ link'[i].requests = <<>> /\ link'[i].frames = link[i].frames /\ link'[i].shut = TRUE
          /\ link'[i].broken = (link[i].broken \/ ~link[i].shut) /\ serving'.client # i
          /\ call'[r] = call[r]
      BY <1>1, <1>2, <1>3
    <2>3. (Regular(r) => Regular(r)') /\ (Refused(r) => Refused(r)')
      BY <2>1, <2>2 DEF Regular, Refused
    <2>4. /\ Regular(r) \/ Refused(r)
          /\ link[i].shut /\ ~link[i].broken =>
               Refused(r) \/ Len(call[r].got) + Len(link[i].frames) = Chunks + 2
          /\ call[r].result = "ok" =>
               Len(call[r].got) = Chunks + 2 /\ \A n \in DOMAIN call[r].got : call[r].got[n] = Answer(r, n)
          /\ call[r].result \notin {"cut", "unsent"} \/ link[i].broken
      BY <1>7, <2>1 DEF Own
    <2> QED BY <2>1, <2>2, <2>3, <2>4 DEF Own, Answer
  <1>8. Links'
    <2>1. \A r \in Ids : Alone(r)' <=> Alone(r)
      BY <1>1 DEF Alone
    <2>2. ASSUME NEW w \in Workers, worker'[w].pc \in Pending, Alone(worker[w].call)'
          PROVE  call'[worker'[w].call].got = <<>> /\ Untouched(ClientOf(w))'
      <3>1. worker[w].call \in Ids /\ ClientOf(w) \in Clients
        BY <1>1, <2>2, CallOf DEF Pending
      <3>2. PICK i \in Clients : i = ClientOf(w)
        BY <3>1
      <3>3. call[worker[w].call].got = <<>> /\ Untouched(i)
        BY <1>1, <2>1, <2>2, <3>1, <3>2 DEF IInv, Links
      <3>4. Untouched(i)' /\ ClientOf(w)' = i
        BY <1>1, <1>6, <3>2, <3>3 DEF ClientOf
      <3> QED BY <1>1, <3>3, <3>4 DEF Untouched
    <2> QED BY <1>1, <1>6, <1>7, <2>1, <2>2, Types DEF IInv, Links
  <1> QED BY <1>4, <1>5, <1>8 DEF IInv

\* Every step keeps the invariant.
LEMMA Inductive == IInv /\ [Next]_vars => IInv'
  <1> SUFFICES ASSUME IInv, [Next]_vars PROVE IInv'
    OBVIOUS
  <1>1. ASSUME NEW w \in Workers, WorkerStep(w) PROVE IInv'
    <2>1. Send(w) => IInv'
      BY SentStep DEF Send, Pending
    <2> QED BY <1>1, <2>1, AcquireStep, SendBlocksStep, SendToClosedStep, RecvStep, RecvFailsStep
            DEF WorkerStep
  <1>2. CASE AgentStep
    <2>1. \A w \in Workers : AgentTakes(w) => IInv'
      BY SentStep DEF AgentTakes, Pending
    <2> QED BY <1>2, <2>1, ReadsStep, SendsStep, ClosesStep, SendFailsStep, ThrowsStep DEF AgentStep
  <1>3. CASE AgentDies
    BY <1>3, DiesStep
  <1>4. CASE UNCHANGED vars
    <2>1. TypeOK' /\ Assigned' /\ Working' /\ Serving'
      BY <1>4 DEF vars, IInv, TypeOK, Assigned, Working, Serving
    <2>2. Links'
      BY ZenonT(30), <1>4 DEF vars, IInv, Links, Untouched, Own, Regular, Refused, Alone, ClientOf
    <2> QED BY <2>1, <2>2 DEF IInv
  <1> QED BY <1>1, <1>2, <1>3, <1>4 DEF Next

-----------------------------------------------------------------------------
(* What follows                                                            *)

\* The first calls have the clients one by one.
LEMMA SpreadFollows == IInv => Spread
  <1> SUFFICES ASSUME IInv, next_agent_index <= pool, NEW r \in Ids, call[r].client # None,
                      NEW q \in Ids \ {r}
               PROVE  call[q].client # call[r].client
    BY DEF Spread, Alone
  <1>1. /\ pool \in Nat /\ next_agent_index \in Nat /\ r \in Nat /\ q \in Nat /\ r > 0 /\ q > 0
        /\ \A s \in Ids : s <= next_agent_index \/ ~(s <= next_agent_index)
    BY Types DEF IInv, Ids
  <1>2. r <= next_agent_index /\ call[r].client = (r - 1) % pool
    BY DEF IInv, Assigned
  <1>3. r - 1 \in Nat /\ pool > 0 /\ r - 1 < pool
    BY <1>1, <1>2
  <1>4. call[r].client = r - 1
    BY <1>1, <1>2, <1>3, Remainder
  <1>5. CASE q <= next_agent_index
    <2>1. q - 1 \in Nat /\ q - 1 < pool /\ q - 1 # r - 1
      BY <1>1, <1>5
    <2>2. call[q].client = q - 1
      BY <1>1, <1>3, <1>5, <2>1, Remainder DEF IInv, Assigned
    <2> QED BY <1>4, <2>1, <2>2
  <1>6. CASE ~(q <= next_agent_index)
    BY <1>6 DEF IInv, Assigned
  <1> QED BY <1>5, <1>6

\* A call that ended well ended with the end frame, which is the last of its own answer.
LEMMA IntactFollows == IInv => AnswerIntact
  <1> SUFFICES ASSUME IInv, NEW r \in Ids, Alone(r), call[r].result = "ok"
               PROVE  call[r].got = [n \in 1..(Chunks + 2) |-> [req |-> r, kind |-> KindOf(n - 1)]]
    BY DEF AnswerIntact
  <1>1. call[r].client # None
    <2>1. ~(r <= next_agent_index) => call[r].result = "none"
      BY DEF IInv, Assigned
    <2>2. r <= next_agent_index
      BY <2>1
    <2>3. /\ call[r].client = (r - 1) % pool /\ pool \in Nat /\ next_agent_index \in Nat
          /\ r \in Nat /\ r > 0
      BY <2>2, Types DEF IInv, Assigned, Ids
    <2>4. pool > 0 /\ r - 1 \in Nat
      BY <2>2, <2>3 DEF IInv, Assigned
    <2>5. call[r].client \in Nat
      BY <2>3, <2>4, Remainder
    <2> QED BY <2>5, AgentLinkAssumption
  <1>2. Len(call[r].got) = Chunks + 2 /\ \A n \in DOMAIN call[r].got : call[r].got[n] = Answer(r, n)
    BY <1>1 DEF IInv, Links, Own
  <1>3. call[r].got \in Seq(Frame)
    BY Types DEF IInv
  <1>4. DOMAIN call[r].got = 1..(Chunks + 2) /\ call[r].got = [n \in DOMAIN call[r].got |-> call[r].got[n]]
    BY <1>2, <1>3
  <1> QED BY <1>2, <1>4 DEF Answer

\* A call cut short has its link broken, by the invariant.
LEMMA NotCutShortFollows == IInv => NotCutShort
  BY DEF IInv, Links, Own, NotCutShort

\* Every variable keeps its type, for any number of workers, clients and calls.
THEOREM TypeCorrect == Spec => []TypeOK
  <1>1. IInv => TypeOK
    BY DEF IInv
  <1> QED BY Initial, Inductive, <1>1, PTL DEF Spec

\* Router::acquire_agent_client takes the clients of the pool in turn: no two of the
\* first calls share one, whatever the number of workers that make them.
THEOREM SpreadHolds == Spec => []Spread
  BY Initial, Inductive, SpreadFollows, PTL DEF Spec

\* A call that has its client to itself and ends well has got all of its own answer, in
\* order, whatever fails meanwhile: a lost connection, a dead agent, a timeout.
THEOREM AnswerIntactHolds == Spec => []AnswerIntact
  BY Initial, Inductive, IntactFollows, PTL DEF Spec

\* The agent closes a connection only after the end frame, or because it failed.
THEOREM NotCutShortHolds == Spec => []NotCutShort
  BY Initial, Inductive, NotCutShortFollows, PTL DEF Spec
=============================================================================
