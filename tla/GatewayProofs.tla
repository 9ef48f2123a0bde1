---------------------------- MODULE GatewayProofs ----------------------------
(***************************************************************************)
(* Theorems about Gateway, and about ServerLife that runs it from start()  *)
(* to stop(), for every number of workers, handles, buffers and            *)
(* connections, with or without failing calls.  Three inductive            *)
(* invariants, each resting on the one before: ActivityInv (every          *)
(* connection has one operation or one worker), OwnInv (what a closing     *)
(* connection still owns: only while EagerReuse is FALSE) and LifeInv (what *)
(* a rested worker owes its accepts, in the life of the process).          *)
(***************************************************************************)
EXTENDS ServerLife, TLAPS, FiniteSetTheorems

\* Where a worker is inside a handler of a connection.
Busy == Pcs \ {"wait", "next", "repost", "exited"}

\* A handler has a connection, and so has every recv and send.
HasConnection ==
  /\ \A w \in Workers : worker[w].pc \in Busy => worker[w].conn \in Conns
  /\ \A x \in Queued : x.op # "ACCEPT" => x.conn \in Conns

\* An operation has its result exactly when it has left the kernel.
ResultsComplete ==
  /\ \A x \in posted : x.res = "pending"
  /\ \A x \in completed : x.res # "pending"
  /\ \A w \in Workers : \A x \in worker[w].batch : x.res # "pending"

\* A completion of a connection is in one place: the port or one batch.
TakenOnce ==
  \A w \in Workers : \A x \in worker[w].batch : x.conn # None =>
    /\ x \notin completed
    /\ \A v \in Workers \ {w} : x \notin worker[v].batch

\* A worker asks for a batch, or leaves its loop, when its last batch is done.
IdleHasNoBatch ==
  \A w \in Workers : worker[w].pc \in {"wait", "exited"} => worker[w].batch = {}

\* The inductive invariant behind OneActivity.
ActivityInv ==
  TypeOK /\ HasConnection /\ ResultsComplete /\ TakenOnce /\ IdleHasNoBatch /\ OneActivity

-----------------------------------------------------------------------------
(* The steps shared by several actions.                                    *)

\* What a step that posts or closes leaves well typed.
HandlerTyped ==
  /\ obj' \in [Conns -> Connection]
  /\ open' \subseteq Fds
  /\ posted' \subseteq Op
  /\ worker' \in [Workers -> Worker]

\* The places a handler goes to.
LEMMA Places ==
  /\ {"next", "read", "expired", "bad", "handle", "agent", "idle", "shut", "sent",
      "receiving", "closing", "tail", "repost", "wait", "exited"} \subseteq Pcs
  /\ "return" \in Rests /\ "release_recv" \in Rests /\ "repost" \in Rests
BY DEF Pcs, Rests

\* Every field a step of a worker writes keeps its type.
LEMMA GotoType ==
  ASSUME TypeOK, NEW w \in Workers, NEW pc \in Pcs, NEW rest \in Rests, Goto(w, pc, rest)
  PROVE  worker' \in [Workers -> Worker]
BY DEF TypeOK, Goto, Worker

LEMMA ReturnType ==
  ASSUME TypeOK, NEW w \in Workers, Return(w)
  PROVE  worker' \in [Workers -> Worker]
<1>. DEFINE after == [pc |-> "next", batch |-> worker[w].batch, conn |-> None, rest |-> "return"]
<1>1. worker \in [Workers -> Worker]
  BY DEF TypeOK
<1>2. after \in Worker
  BY <1>1, Places DEF Worker
<1>3. worker' = [worker EXCEPT ![w] = after]
  BY DEF Return
<1>. HIDE DEF after
<1>4. QED
  BY <1>1, <1>2, <1>3

LEMMA EnterType ==
  ASSUME TypeOK, NEW w \in Workers, NEW x, NEW c \in Conns, NEW pc \in Pcs,
         NEW rest \in Rests, Enter(w, x, c, pc, rest)
  PROVE  worker' \in [Workers -> Worker]
<1>. DEFINE after == [pc |-> pc, batch |-> worker[w].batch \ {x}, conn |-> c, rest |-> rest]
<1>1. worker \in [Workers -> Worker]
  BY DEF TypeOK
<1>2. after \in Worker
  BY <1>1 DEF Worker
<1>3. worker' = [worker EXCEPT ![w] = after]
  BY DEF Enter
<1>. HIDE DEF after
<1>4. QED
  BY <1>1, <1>2, <1>3

LEMMA CloseType ==
  ASSUME TypeOK, NEW w \in Workers, NEW c \in Conns, NEW o \in Connection,
         NEW rest \in Rests, Close(w, c, o, rest), UNCHANGED posted
  PROVE  HandlerTyped
<1>1. CASE Goto(w, "tail", rest) /\ obj' = [obj EXCEPT ![c] = o] /\ UNCHANGED open
  BY <1>1, GotoType, Places DEF TypeOK, HandlerTyped
<1>2. CASE /\ obj' = [obj EXCEPT ![c] = [o EXCEPT !.state = "CLOSING"]]
           /\ open' = open \ Owned(o.fd)
           /\ Goto(w, "closing", rest)
  <2>1. [o EXCEPT !.state = "CLOSING"] \in Connection
    BY DEF Connection, States
  <2>2. QED
    BY <1>2, <2>1, GotoType, Places DEF TypeOK, HandlerTyped
<1>3. QED
  BY <1>1, <1>2 DEF Close

LEMMA PostedType ==
  ASSUME TypeOK, NEW w \in Workers, NEW c \in Conns, NEW o \in Connection,
         NEW kind \in {"RECV", "SEND"}, NEW b \in Bufs, NEW pc \in Pcs,
         NEW rest \in Rests, Posted(w, c, o, kind, b, pc, rest)
  PROVE  HandlerTyped
<1>1. IoOp(kind, c, o.fd, b) \in Op
  BY DEF Posted, TypeOK, Op, IoOp
<1>2. QED
  BY <1>1, GotoType DEF Posted, TypeOK, HandlerTyped

LEMMA SendType ==
  ASSUME TypeOK, NEW w \in Workers, NEW c \in Conns, NEW o \in Connection,
         NEW rest \in Rests, Send(w, c, o, rest)
  PROVE  TypeOK'
<1>1. ASSUME NEW b \in Bufs \cup {None}
      PROVE  [o EXCEPT !.send_buffer = b] \in Connection
  BY DEF Connection
<1>2. free_list' \subseteq Bufs
  BY DEF Send, TypeOK, Owned, Connection
<1>3. HandlerTyped
  <2>1. CASE free_list = {}
    BY <2>1, <1>1, CloseType DEF Send, TypeOK
  <2>2. ASSUME NEW b \in free_list,
               Posted(w, c, [o EXCEPT !.send_buffer = b], "SEND", b, "sent", rest)
        PROVE  HandlerTyped
    BY <2>2, <1>1, PostedType, Places DEF TypeOK
  <2>3. ASSUME NEW b \in free_list, UNCHANGED posted,
               Close(w, c, [o EXCEPT !.send_buffer = b], rest)
        PROVE  HandlerTyped
    BY <2>3, <1>1, CloseType DEF TypeOK
  <2>4. QED
    BY <2>1, <2>2, <2>3 DEF Send
<1>4. QED
  BY <1>2, <1>3 DEF Send, TypeOK, HandlerTyped

-----------------------------------------------------------------------------
(* Types.                                                                  *)

LEMMA InitType == Init => TypeOK
<1> SUFFICES ASSUME Init PROVE TypeOK
  OBVIOUS
<1>1. NoConnection \in Connection
  BY DEF NoConnection, NewConnection, Connection, States
<1>2. posted \subseteq Op /\ open \subseteq Fds
  <2>1. ASSUME NEW f \in Fds
        PROVE  AcceptOp(f) \in Op
    BY DEF AcceptOp, Op
  <2>2. QED
    BY <2>1 DEF Init
<1>3. worker \in [Workers -> Worker]
  BY Places DEF Init, Worker
<1>4. QED
  BY <1>1, <1>2, <1>3 DEF Init, TypeOK, Stages

\* Each step of a worker preserves the types.
LEMMA WorkerType ==
  ASSUME TypeOK, HasConnection, NEW w \in Workers, WorkerStep(w)
  PROVE  TypeOK'
<1> DEFINE c == worker[w].conn
           rest == worker[w].rest
<1>a. rest \in Rests /\ (worker[w].pc \in Busy => c \in Conns)
  BY DEF TypeOK, HasConnection, Worker
<1>b. ASSUME worker[w].pc \in Busy
      PROVE  c \in Conns /\ obj[c] \in Connection
  BY <1>a, <1>b DEF TypeOK
<1>c. {"read", "expired", "bad", "handle", "agent", "idle", "shut", "sent",
       "receiving", "closing", "tail"} \subseteq Busy
  BY DEF Busy, Pcs
<1>d. "exited" \in Pcs /\ "wait" \in Pcs /\ "next" \in Pcs
  BY Places
<1>e. ASSUME NEW u \in Worker, NEW pc \in Pcs, NEW batch \in SUBSET Op
      PROVE  /\ [u EXCEPT !.pc = pc] \in Worker
             /\ [u EXCEPT !.pc = pc, !.batch = batch] \in Worker
  BY DEF Worker
<1>1. CASE TakeBatch(w)
  <2>1. PICK batch \in SUBSET completed \ {{}} :
          /\ completed' = completed \ batch
          /\ worker' = [worker EXCEPT ![w] = [@ EXCEPT !.pc = "next", !.batch = batch]]
    BY <1>1 DEF TakeBatch
  <2>2. worker' \in [Workers -> Worker]
    BY <2>1, <1>d, <1>e DEF TypeOK
  <2>3. QED
    BY <1>1, <2>1, <2>2 DEF TakeBatch, TypeOK
<1>2. CASE WaitTimeout(w)
  <2>1. worker' \in [Workers -> Worker]
    BY <1>2, <1>d, <1>e DEF WaitTimeout, TypeOK
  <2>2. QED
    BY <1>2, <2>1 DEF WaitTimeout, TypeOK
<1>3. CASE EndBatch(w)
  <2>1. worker' \in [Workers -> Worker]
    BY <1>3, <1>d, <1>e DEF EndBatch, TypeOK
  <2>2. QED
    BY <1>3, <2>1 DEF EndBatch, TypeOK
<1>4. CASE worker[w].pc = "next" /\ \E x \in worker[w].batch : Dispatch(w, x)
  <2> PICK x \in worker[w].batch : Dispatch(w, x)
    BY <1>4
  <2>a. x \in Op /\ x \in Queued
    BY DEF TypeOK, Worker, Queued
  <2>b. x.op # "ACCEPT" => x.conn \in Conns /\ obj[x.conn] \in Connection
    BY <2>a DEF HasConnection, TypeOK
  <2>1. CASE AcceptComplete(w, x)
    <3>1. x.fd \in Fds
      BY <2>a DEF Op
    <3>2. ASSUME NEW d \in Conns
          PROVE  [NewConnection(x.fd) EXCEPT !.state = "READING_REQUEST"] \in Connection
                 /\ NoConnection \in Connection
      BY <3>1 DEF NewConnection, NoConnection, Connection, States
    <3>3. obj' \in [Conns -> Connection]
      BY <2>1, <3>2 DEF AcceptComplete, TypeOK
    <3>4. worker' \in [Workers -> Worker] /\ connections' \in [Fds -> Conns \cup {None}]
      BY <2>1, EnterType, Places DEF AcceptComplete, TypeOK
    <3>5. free_list' \subseteq Bufs /\ open' \subseteq Fds
      <4> DEFINE old == connections[x.fd]
      <4>1. CASE old = None
        BY <2>1, <4>1 DEF AcceptComplete, TypeOK
      <4>2. CASE old # None
        <5>1. old \in Conns
          BY <4>2, <3>1 DEF TypeOK
        <5>2. obj[old] \in Connection
          BY <5>1 DEF TypeOK
        <5>3. QED
          BY <2>1, <4>2, <5>2 DEF AcceptComplete, TypeOK, Owned, Connection
      <4>3. QED
        BY <4>1, <4>2
    <3>6. QED
      BY <2>1, <3>3, <3>4, <3>5 DEF AcceptComplete, TypeOK
  <2>2. CASE RecvClosed(w, x)
    BY <2>2, <2>b, EnterType, Places DEF RecvClosed, TypeOK
  <2>3. CASE RecvMore(w, x)
    <3>1. obj' \in [Conns -> Connection]
      BY <2>3, <2>b DEF RecvMore, TypeOK, Connection
    <3>2. QED
      BY <2>3, <2>b, <3>1, EnterType, Places DEF RecvMore, TypeOK
  <2>4. CASE RecvRequest(w, x)
    <3>1. obj' \in [Conns -> Connection]
      BY <2>4, <2>b DEF RecvRequest, TypeOK, Connection
    <3>2. free_list' \subseteq Bufs
      BY <2>4, <2>b DEF RecvRequest, TypeOK, Connection, Owned
    <3>3. QED
      BY <2>4, <2>b, <3>1, <3>2, EnterType, Places DEF RecvRequest, TypeOK
  <2>5. CASE RecvError(w, x)
    BY <2>5, <2>b, EnterType, Places DEF RecvError, TypeOK
  <2>6. CASE SendDone(w, x)
    <3>1. obj' \in [Conns -> Connection]
      BY <2>6, <2>b DEF SendDone, TypeOK, Connection
    <3>2. free_list' \subseteq Bufs
      BY <2>6, <2>b DEF SendDone, TypeOK, Connection, Owned
    <3>3. QED
      BY <2>6, <2>b, <3>1, <3>2, EnterType, Places DEF SendDone, TypeOK
  <2>7. QED
    BY <2>1, <2>2, <2>3, <2>4, <2>5, <2>6 DEF Dispatch
<1>5. CASE StartReading(w)
  <2>1. c \in Conns /\ obj[c] \in Connection
    BY <1>5, <1>b, <1>c DEF StartReading
  <2>2. ASSUME NEW b \in Bufs \cup {None}
        PROVE  [obj[c] EXCEPT !.recv_buffer = b] \in Connection
    BY <2>1 DEF Connection
  <2>3. free_list' \subseteq Bufs
    BY <1>5, <2>1 DEF StartReading, TypeOK, Owned, Connection
  <2>4. HandlerTyped
    <3>1. CASE free_list = {}
      BY <1>5, <3>1, <2>1, <2>2, <1>a, CloseType DEF StartReading, TypeOK
    <3>2. ASSUME NEW b \in free_list,
                 Posted(w, c, [obj[c] EXCEPT !.recv_buffer = b], "RECV", b, "receiving", rest)
          PROVE  HandlerTyped
      BY <3>2, <2>1, <2>2, <1>a, PostedType, Places DEF TypeOK
    <3>3. ASSUME NEW b \in free_list, UNCHANGED posted,
                 Close(w, c, [obj[c] EXCEPT !.recv_buffer = b], rest)
          PROVE  HandlerTyped
      BY <3>3, <2>1, <2>2, <1>a, CloseType DEF TypeOK
    <3>4. QED
      BY <1>5, <3>1, <3>2, <3>3 DEF StartReading
  <2>5. QED
    BY <1>5, <2>3, <2>4 DEF StartReading, TypeOK, HandlerTyped
<1>6. ASSUME NEW o \in Connection
      PROVE  [o EXCEPT !.keep_alive = FALSE] \in Connection
  BY DEF Connection
<1>7. CASE BodyTimeout(w)
  BY <1>7, <1>b, <1>c, <1>6, SendType, Places DEF BodyTimeout, SendError
<1>8. CASE BadRequest(w)
  BY <1>8, <1>a, <1>b, <1>c, <1>6, SendType DEF BadRequest, SendError
<1>9. CASE Respond(w)
  BY <1>9, <1>b, <1>c, <1>6, SendType, Places DEF Respond, SendError
<1>10. CASE CallAgent(w)
  BY <1>10, GotoType, Places DEF CallAgent, TypeOK
<1>11. CASE AgentReturns(w)
  BY <1>11, <1>b, <1>c, <1>6, SendType, Places DEF AgentReturns, SendError
<1>12. CASE CloseNow(w)
  BY <1>12, <1>b, <1>c, CloseType, Places DEF CloseNow, TypeOK, HandlerTyped
<1>13. CASE ToIdle(w)
  <2> DEFINE idle == [obj[c] EXCEPT !.state = "IDLE", !.pending = FALSE]
  <2>1. c \in Conns /\ obj[c] \in Connection
    BY <1>13, <1>b, <1>c DEF ToIdle
  <2>2. idle \in Connection
    BY <2>1 DEF Connection, States
  <2>3. CASE SendError(w, c, idle, "return")
    BY <2>1, <2>2, <2>3, <1>6, SendType, Places DEF SendError
  <2>4. ASSUME NEW keep \in BOOLEAN,
               obj' = [obj EXCEPT ![c] = [idle EXCEPT !.keep_alive = keep, !.request_count = @ + 1]]
        PROVE  obj' \in [Conns -> Connection]
    <3> HIDE DEF idle
    <3>1. idle.request_count + 1 \in Nat
      BY <2>2 DEF Connection
    <3>a. [idle EXCEPT !.keep_alive = keep, !.request_count = @ + 1] \in Connection
      BY <2>2, <3>1 DEF Connection
    <3>2. QED
      BY <3>a, <2>4 DEF TypeOK
  <2>5. ASSUME NEW b \in {FALSE, obj[c].pending},
               obj' = [obj EXCEPT ![c] = [idle EXCEPT !.body_timer = b]]
        PROVE  obj' \in [Conns -> Connection]
    <3>1. [idle EXCEPT !.body_timer = b] \in Connection
      BY <2>1, <2>2 DEF Connection
    <3>2. QED
      BY <3>1, <2>5 DEF TypeOK
  <2>6. CASE /\ UNCHANGED <<stage, free_list, posted, completed, connections, open>>
             /\ Goto(w, "handle", "return") \/ Goto(w, "read", "return")
             /\ obj' \in [Conns -> Connection]
    BY <2>6, GotoType, Places DEF TypeOK
  <2>7. QED
    BY <1>13, <2>3, <2>4, <2>5, <2>6 DEF ToIdle
<1>14. CASE AfterPost(w)
  <2>1. obj' \in [Conns -> Connection]
    BY <1>14, <1>b, <1>c DEF AfterPost, TypeOK, Connection, States
  <2>2. worker' \in [Workers -> Worker]
    BY <1>14, <1>a, GotoType, Places DEF AfterPost
  <2>3. QED
    BY <1>14, <2>1, <2>2 DEF AfterPost, TypeOK
<1>15. CASE AfterCloseSocket(w)
  <2>1. obj' \in [Conns -> Connection]
    BY <1>15, <1>b, <1>c DEF AfterCloseSocket, Closed, TypeOK, Connection, States
  <2>2. worker' \in [Workers -> Worker]
    BY <1>15, <1>a, GotoType, Places DEF AfterCloseSocket
  <2>3. QED
    BY <1>15, <2>1, <2>2 DEF AfterCloseSocket, TypeOK
<1>16. CASE Tail(w)
  <2>1. c \in Conns /\ obj[c] \in Connection
    BY <1>16, <1>b, <1>c DEF Tail
  <2>2. free_list' \subseteq Bufs /\ obj' \in [Conns -> Connection]
    BY <1>16, <2>1 DEF Tail, TypeOK, Connection, Owned
  <2>3. worker' \in [Workers -> Worker]
    BY <1>16, ReturnType, Places DEF Tail, TypeOK, Worker
  <2>4. QED
    BY <1>16, <2>2, <2>3 DEF Tail, TypeOK
<1>17. CASE Repost(w)
  <2>1. ASSUME NEW f \in Fds
        PROVE  AcceptOp(f) \in Op
    BY DEF AcceptOp, Op
  <2>2. QED
    BY <1>17, <2>1, ReturnType DEF Repost, Issuable, TypeOK
<1>18. QED
  BY <1>1, <1>2, <1>3, <1>4, <1>5, <1>7, <1>8, <1>9, <1>10, <1>11, <1>12, <1>13,
     <1>14, <1>15, <1>16, <1>17 DEF WorkerStep

LEMMA NextType == TypeOK /\ HasConnection /\ [Next]_vars => TypeOK'
<1> SUFFICES ASSUME TypeOK, HasConnection, [Next]_vars PROVE TypeOK'
  OBVIOUS
<1>1. CASE \E w \in Workers : WorkerStep(w)
  BY <1>1, WorkerType
<1>2. ASSUME NEW x \in posted, Complete(x)
      PROVE  TypeOK'
  <2>1. ASSUME NEW r \in {"ok", "eof"}
        PROVE  [x EXCEPT !.res = r] \in Op
    BY DEF TypeOK, Op
  <2>2. QED
    BY <1>2, <2>1 DEF Complete, TypeOK
<1>3. CASE Shutdown \/ StopAccepting
  BY <1>3 DEF Shutdown, StopAccepting, TypeOK, Stages
<1>4. CASE CloseAll
  <2>1. NoConnection \in Connection
    BY DEF NoConnection, NewConnection, Connection, States
  <2>2. free_list' \subseteq Bufs
    BY <1>4 DEF CloseAll, TypeOK, Connection, Owned
  <2>3. QED
    BY <1>4, <2>1, <2>2 DEF CloseAll, TypeOK, Stages
<1>5. CASE UNCHANGED vars
  BY <1>5 DEF vars, TypeOK
<1>6. QED
  BY <1>1, <1>2, <1>3, <1>4, <1>5 DEF Next

-----------------------------------------------------------------------------
(* One activity per connection.                                            *)

LEMMA InitActivity == Init => ActivityInv
<1> SUFFICES ASSUME Init PROVE ActivityInv
  OBVIOUS
<1>1. TypeOK
  BY InitType
<1>2. \A x \in Queued : x.op = "ACCEPT" /\ x.conn = None /\ x.res = "pending"
  BY DEF Init, Queued, AcceptOp
<1>3. \A w \in Workers : worker[w].pc = "wait" /\ worker[w].batch = {}
  BY DEF Init
<1>4. HasConnection /\ ResultsComplete /\ TakenOnce /\ IdleHasNoBatch
  BY <1>2, <1>3 DEF HasConnection, ResultsComplete, TakenOnce, IdleHasNoBatch, Busy, Queued, Init
<1>5. OneActivity
  BY <1>2, <1>3 DEF OneActivity, Owns, Owning
<1>6. QED
  BY <1>1, <1>4, <1>5 DEF ActivityInv

\* What the types of the operations and the separation of the queues give.
LEMMA QueuedType ==
  ASSUME TypeOK
  PROVE  /\ posted \subseteq Queued /\ completed \subseteq Queued
         /\ \A w \in Workers : worker[w].batch \subseteq Queued
         /\ Queued \subseteq Op
BY DEF TypeOK, Queued, Worker

\* A step that adds no operation and no owner.
LEMMA ShrinkActivity ==
  ASSUME ActivityInv, TypeOK',
         \A x \in posted' : x \notin posted =>
            x.op = "ACCEPT" /\ x.conn = None /\ x.res = "pending",
         completed' \subseteq completed,
         \A v \in Workers : worker'[v].batch \subseteq worker[v].batch,
         \A v \in Workers : worker'[v].pc \in Busy => worker'[v].conn \in Conns,
         \A v \in Workers : worker'[v].pc \in {"wait", "exited"} => worker'[v].batch = {},
         \A v \in Workers, c \in Conns : Owns(v, c)' => Owns(v, c)
  PROVE  ActivityInv'
<1>1. \A x \in Queued' : x \in Queued \/ (x.op = "ACCEPT" /\ x.conn = None)
  BY DEF Queued
<1>2. HasConnection'
  BY <1>1 DEF ActivityInv, HasConnection
<1>3. ResultsComplete'
  BY DEF ActivityInv, ResultsComplete
<1>4. TakenOnce' /\ IdleHasNoBatch'
  BY DEF ActivityInv, TakenOnce, IdleHasNoBatch
<1>5. OneActivity'
  <2>0. OneActivity /\ None \notin Conns
    BY GatewayAssumption DEF ActivityInv
  <2>1. ASSUME NEW x \in Queued', NEW y \in Queued', x.conn # None, x.conn = y.conn
        PROVE  x = y
    BY <2>0, <2>1, <1>1 DEF OneActivity
  <2>2. ASSUME NEW v \in Workers, NEW c \in Conns, Owns(v, c)'
        PROVE  /\ \A x \in Queued' : x.conn # c
               /\ \A u \in Workers \ {v} : ~Owns(u, c)'
    <3>1. Owns(v, c)
      BY <2>2
    <3>2. /\ \A x \in Queued : x.conn # c
          /\ \A u \in Workers \ {v} : ~Owns(u, c)
      BY <3>1, <2>0 DEF OneActivity
    <3>3. QED
      BY <3>2, <2>0, <1>1
  <2>3. QED
    BY <2>1, <2>2 DEF OneActivity
<1>6. QED
  BY <1>2, <1>3, <1>4, <1>5 DEF ActivityInv

\* A step in which the owner of c posts an operation of c and stops owning c.
LEMMA PostActivity ==
  ASSUME ActivityInv, TypeOK', NEW w \in Workers, NEW c \in Conns, NEW y,
         Owns(w, c), y.conn = c, y.res = "pending",
         posted' = posted \cup {y}, completed' = completed,
         \A v \in Workers : worker'[v].batch = worker[v].batch,
         \A v \in Workers : worker'[v].pc \in Busy => worker'[v].conn \in Conns,
         \A v \in Workers : worker'[v].pc \in {"wait", "exited"} => worker'[v].batch = {},
         \A v \in Workers, d \in Conns : Owns(v, d)' => Owns(v, d) /\ v # w
  PROVE  ActivityInv'
<1>0. OneActivity /\ None \notin Conns
  BY GatewayAssumption DEF ActivityInv
<1>1. Queued' = Queued \cup {y}
  BY DEF Queued
<1>2. \A x \in Queued : x.conn # c
  BY <1>0 DEF OneActivity
<1>3. HasConnection'
  BY <1>1 DEF ActivityInv, HasConnection
<1>4. ResultsComplete'
  BY DEF ActivityInv, ResultsComplete
<1>5. TakenOnce' /\ IdleHasNoBatch'
  BY DEF ActivityInv, TakenOnce, IdleHasNoBatch
<1>6. OneActivity'
  <2>1. ASSUME NEW x \in Queued', NEW z \in Queued', x.conn # None, x.conn = z.conn
        PROVE  x = z
    BY <2>1, <1>0, <1>1, <1>2 DEF OneActivity
  <2>2. ASSUME NEW v \in Workers, NEW d \in Conns, Owns(v, d)'
        PROVE  /\ \A x \in Queued' : x.conn # d
               /\ \A u \in Workers \ {v} : ~Owns(u, d)'
    <3>1. Owns(v, d) /\ v # w
      BY <2>2
    <3>2. /\ \A x \in Queued : x.conn # d
          /\ \A u \in Workers \ {v} : ~Owns(u, d)
      BY <3>1, <1>0 DEF OneActivity
    <3>3. d # c
      BY <3>1, <3>2
    <3>4. QED
      BY <3>2, <3>3, <1>1
  <2>3. QED
    BY <2>1, <2>2 DEF OneActivity
<1>7. QED
  BY <1>3, <1>4, <1>5, <1>6 DEF ActivityInv

\* A step in which worker w takes up a connection c that nothing else refers to.
LEMMA EnterActivity ==
  ASSUME ActivityInv, TypeOK', NEW w \in Workers, NEW c \in Conns,
         NEW x, NEW pc \in Busy, NEW rest \in Rests,
         Enter(w, x, c, pc, rest), posted' = posted, completed' = completed,
         \A y \in Queued' : y.conn # c,
         \A v \in Workers \ {w} : ~Owns(v, c)
  PROVE  ActivityInv'
<1>0. OneActivity /\ None \notin Conns /\ worker \in [Workers -> Worker]
  BY GatewayAssumption DEF ActivityInv, TypeOK
<1>1. /\ \A v \in Workers \ {w} : worker'[v] = worker[v]
      /\ worker'[w].conn = c /\ worker'[w].batch \subseteq worker[w].batch
      /\ worker'[w].pc = pc
  BY <1>0 DEF Enter, Worker
<1>2. Queued' \subseteq Queued
  BY <1>1 DEF Queued
<1>3. HasConnection'
  BY <1>1, <1>2 DEF ActivityInv, HasConnection
<1>4. ResultsComplete'
  BY <1>1 DEF ActivityInv, ResultsComplete
<1>5. TakenOnce' /\ IdleHasNoBatch'
  BY <1>1 DEF ActivityInv, TakenOnce, IdleHasNoBatch, Busy
<1>6. OneActivity'
  <2>1. ASSUME NEW y \in Queued', NEW z \in Queued', y.conn # None, y.conn = z.conn
        PROVE  y = z
    BY <2>1, <1>0, <1>2 DEF OneActivity
  <2>2. ASSUME NEW v \in Workers, NEW d \in Conns, Owns(v, d)'
        PROVE  /\ \A y \in Queued' : y.conn # d
               /\ \A u \in Workers \ {v} : ~Owns(u, d)'
    <3>1. CASE v = w
      <4>1. d = c
        BY <3>1, <2>2, <1>1 DEF Owns
      <4>2. QED
        BY <3>1, <4>1, <1>1 DEF Owns
    <3>2. CASE v # w
      <4>1. Owns(v, d)
        BY <3>2, <2>2, <1>1 DEF Owns
      <4>2. /\ \A y \in Queued : y.conn # d
            /\ \A u \in Workers \ {v} : ~Owns(u, d)
        BY <4>1, <1>0 DEF OneActivity
      <4>3. d # c
        BY <4>1, <3>2
      <4>4. ASSUME NEW u \in Workers \ {v}
            PROVE  ~Owns(u, d)'
        BY <4>2, <4>3, <1>1 DEF Owns
      <4>5. QED
        BY <4>2, <4>4, <1>2
    <3>3. QED
      BY <3>1, <3>2
  <2>3. QED
    BY <2>1, <2>2 DEF OneActivity
<1>7. QED
  BY <1>3, <1>4, <1>5, <1>6 DEF ActivityInv

\* A completion of a connection that a worker has turned to is nowhere else.
LEMMA DispatchFrees ==
  ASSUME ActivityInv, NEW w \in Workers, NEW x \in worker[w].batch, x.conn \in Conns,
         NEW c, NEW pc, NEW rest,
         Enter(w, x, c, pc, rest), posted' = posted, completed' = completed
  PROVE  /\ \A y \in Queued' : y.conn # x.conn
         /\ \A v \in Workers : ~Owns(v, x.conn)
<1>0. /\ OneActivity /\ None \notin Conns /\ worker \in [Workers -> Worker]
      /\ x \in Queued
  BY GatewayAssumption DEF ActivityInv, TypeOK, Queued
<1>1. /\ \A v \in Workers \ {w} : worker'[v] = worker[v]
      /\ worker'[w].batch = worker[w].batch \ {x}
  BY <1>0 DEF Enter, Worker
<1>2. x \notin posted /\ x \notin completed /\ \A v \in Workers \ {w} : x \notin worker[v].batch
  BY <1>0 DEF ActivityInv, TakenOnce, ResultsComplete
<1>3. Queued' \subseteq Queued /\ x \notin Queued'
  BY <1>1, <1>2 DEF Queued
<1>4. ASSUME NEW y \in Queued'
      PROVE  y.conn # x.conn
  BY <1>0, <1>3 DEF OneActivity
<1>5. ASSUME NEW v \in Workers
      PROVE  ~Owns(v, x.conn)
  BY <1>0 DEF OneActivity
<1>6. QED
  BY <1>4, <1>5

\* The kernel completes an operation.
LEMMA CompleteActivity ==
  ASSUME ActivityInv, TypeOK', NEW x \in posted, Complete(x)
  PROVE  ActivityInv'
<1>0. OneActivity /\ None \notin Conns /\ x \in Queued /\ x \in Op
  BY GatewayAssumption DEF ActivityInv, TypeOK, Queued
<1>1. PICK r \in {"ok", "eof"} : completed' = completed \cup {[x EXCEPT !.res = r]}
  BY DEF Complete
<1> DEFINE y == [x EXCEPT !.res = r]
<1>2. /\ y.conn = x.conn /\ y.op = x.op /\ y.res # "pending" /\ x.res = "pending"
      /\ posted' = posted \ {x} /\ completed' = completed \cup {y} /\ worker' = worker
  BY <1>0, <1>1 DEF Complete, Op, ActivityInv, ResultsComplete
<1> HIDE DEF y
<1>3. \A z \in Queued' : z = y \/ z \in Queued
  BY <1>2 DEF Queued
<1>4. x.conn # None => x \notin Queued'
  <2>1. x # y /\ x \notin completed /\ \A v \in Workers : x \notin worker[v].batch
    BY <1>2 DEF ActivityInv, ResultsComplete
  <2>2. QED
    BY <2>1, <1>2 DEF Queued
<1>5. HasConnection'
  BY <1>0, <1>2, <1>3 DEF ActivityInv, HasConnection
<1>6. ResultsComplete'
  BY <1>2 DEF ActivityInv, ResultsComplete
<1>7. TakenOnce'
  <2>1. ASSUME NEW v \in Workers, NEW z \in worker[v].batch, z.conn # None
        PROVE  z # y
    <3>1. z \in Queued /\ z # x
      BY <1>2 DEF Queued, ActivityInv, ResultsComplete
    <3>2. z.conn # x.conn
      BY <1>0, <2>1, <3>1 DEF OneActivity
    <3>3. QED
      BY <3>2, <1>2
  <2>2. QED
    BY <2>1, <1>2 DEF ActivityInv, TakenOnce
<1>a. IdleHasNoBatch'
  BY <1>2 DEF ActivityInv, IdleHasNoBatch
<1>8. OneActivity'
  <2>1. ASSUME NEW z \in Queued', NEW u \in Queued', z.conn # None, z.conn = u.conn
        PROVE  z = u
    BY <2>1, <1>0, <1>2, <1>3, <1>4 DEF OneActivity
  <2>2. ASSUME NEW v \in Workers, NEW d \in Conns, Owns(v, d)'
        PROVE  /\ \A z \in Queued' : z.conn # d
               /\ \A u \in Workers \ {v} : ~Owns(u, d)'
    <3>1. Owns(v, d) /\ \A u \in Workers : Owns(u, d)' = Owns(u, d)
      BY <2>2, <1>2 DEF Owns
    <3>2. QED
      BY <3>1, <1>0, <1>2, <1>3 DEF OneActivity
  <2>3. QED
    BY <2>1, <2>2 DEF OneActivity
<1>9. QED
  BY <1>5, <1>6, <1>7, <1>a, <1>8 DEF ActivityInv

\* A worker takes a batch from the port.
LEMMA TakeBatchActivity ==
  ASSUME ActivityInv, TypeOK', NEW w \in Workers, TakeBatch(w)
  PROVE  ActivityInv'
<1>0. OneActivity /\ None \notin Conns /\ worker \in [Workers -> Worker]
  BY GatewayAssumption DEF ActivityInv, TypeOK
<1>1. PICK batch \in SUBSET completed :
        /\ completed' = completed \ batch
        /\ worker' = [worker EXCEPT ![w].pc = "next", ![w].batch = batch]
  BY DEF TakeBatch
<1>2. /\ \A v \in Workers \ {w} : worker'[v] = worker[v]
      /\ worker'[w].batch = batch /\ worker'[w].pc = "next" /\ posted' = posted
  BY <1>0, <1>1 DEF Worker, TakeBatch
<1>3. Queued' \subseteq Queued
  BY <1>1, <1>2 DEF Queued
<1>4. HasConnection'
  BY <1>2, <1>3 DEF ActivityInv, HasConnection, Busy
<1>5. ResultsComplete'
  BY <1>1, <1>2 DEF ActivityInv, ResultsComplete
<1>6. TakenOnce' /\ IdleHasNoBatch'
  BY <1>1, <1>2 DEF ActivityInv, TakenOnce, IdleHasNoBatch
<1>7. \A v \in Workers, d \in Conns : Owns(v, d)' => Owns(v, d)
  BY <1>2 DEF Owns, Owning
<1>8. OneActivity'
  BY <1>0, <1>3, <1>7 DEF OneActivity
<1>9. QED
  BY <1>4, <1>5, <1>6, <1>8 DEF ActivityInv

\* A step of worker w that neither enters a connection nor posts for one.
LEMMA MoveActivity ==
  ASSUME ActivityInv, TypeOK', NEW w \in Workers,
         \A x \in posted' : x \notin posted =>
            x.op = "ACCEPT" /\ x.conn = None /\ x.res = "pending",
         completed' = completed,
         \A v \in Workers \ {w} : worker'[v] = worker[v],
         worker'[w].batch = worker[w].batch,
         worker'[w].pc \in Busy => worker[w].pc \in Busy /\ worker'[w].conn = worker[w].conn,
         worker'[w].pc \in Owning => worker[w].pc \in Owning,
         worker'[w].pc \in {"wait", "exited"} => worker[w].batch = {}
  PROVE  ActivityInv'
<1>1. \A v \in Workers : worker'[v].pc \in Busy => worker'[v].conn \in Conns
  BY DEF ActivityInv, HasConnection
<1>2. \A v \in Workers : worker'[v].pc \in {"wait", "exited"} => worker'[v].batch = {}
  BY DEF ActivityInv, IdleHasNoBatch
<1>3. Owning \subseteq Busy
  BY DEF Owning, Busy, Pcs
<1>4. \A v \in Workers, c \in Conns : Owns(v, c)' => Owns(v, c)
  BY <1>3 DEF Owns
<1>5. QED
  BY <1>1, <1>2, <1>4, ShrinkActivity

\* Goto changes nothing of the worker but pc and rest.
LEMMA GotoWorker ==
  ASSUME TypeOK, NEW w \in Workers, NEW pc, NEW rest, Goto(w, pc, rest)
  PROVE  /\ \A v \in Workers \ {w} : worker'[v] = worker[v]
         /\ worker'[w].batch = worker[w].batch
         /\ worker'[w].conn = worker[w].conn
         /\ worker'[w].pc = pc
BY DEF TypeOK, Goto, Worker

\* A step of an owner to a place where it still has its connection.
LEMMA GotoActivity ==
  ASSUME ActivityInv, TypeOK', NEW w \in Workers, worker[w].pc \in Owning,
         NEW pc \in Busy, NEW rest, Goto(w, pc, rest),
         posted' = posted, completed' = completed
  PROVE  ActivityInv'
<1>1. Owning \subseteq Busy /\ pc \notin {"wait", "exited"}
  BY DEF Owning, Busy, Pcs
<1>2. QED
  BY <1>1, GotoWorker, MoveActivity DEF ActivityInv

\* The owner closes its connection.
LEMMA CloseActivity ==
  ASSUME ActivityInv, TypeOK', NEW w \in Workers, worker[w].pc \in Owning,
         NEW c, NEW o, NEW rest, Close(w, c, o, rest),
         posted' = posted, completed' = completed
  PROVE  ActivityInv'
<1>1. "tail" \in Busy /\ "closing" \in Busy
  BY DEF Busy, Pcs
<1>2. QED
  BY <1>1, GotoActivity DEF Close

\* The owner posts an operation of its connection.
LEMMA PostedActivity ==
  ASSUME ActivityInv, TypeOK', NEW w \in Workers, NEW c \in Conns,
         Owns(w, c), NEW o, NEW kind, NEW b, NEW pc \in {"sent", "receiving"}, NEW rest,
         Posted(w, c, o, kind, b, pc, rest), completed' = completed
  PROVE  ActivityInv'
<1>1. pc \in Busy /\ pc \notin Owning /\ Owning \subseteq Busy /\ pc \notin {"wait", "exited"}
  BY DEF Busy, Pcs, Owning
<1>2. /\ \A v \in Workers \ {w} : worker'[v] = worker[v]
      /\ worker'[w].batch = worker[w].batch
      /\ worker'[w].conn = c /\ worker'[w].pc = pc
  BY GotoWorker DEF Posted, ActivityInv, Owns
<1> DEFINE y == IoOp(kind, c, o.fd, b)
<1>3. y.conn = c /\ y.res = "pending" /\ posted' = posted \cup {y}
  BY DEF Posted, IoOp
<1> HIDE DEF y
<1>4. /\ \A v \in Workers : worker'[v].batch = worker[v].batch
      /\ \A v \in Workers : worker'[v].pc \in Busy => worker'[v].conn \in Conns
      /\ \A v \in Workers : worker'[v].pc \in {"wait", "exited"} => worker'[v].batch = {}
  BY <1>1, <1>2 DEF ActivityInv, HasConnection, IdleHasNoBatch
<1>5. \A v \in Workers, d \in Conns : Owns(v, d)' => Owns(v, d) /\ v # w
  BY <1>1, <1>2 DEF Owns
<1>6. QED
  BY <1>3, <1>4, <1>5, PostActivity

\* send_response and send_error, called by the owner.
LEMMA SendActivity ==
  ASSUME ActivityInv, TypeOK', NEW w \in Workers, NEW c \in Conns,
         Owns(w, c), NEW o, NEW rest, Send(w, c, o, rest)
  PROVE  ActivityInv'
<1>1. worker[w].pc \in Owning /\ completed' = completed
  BY DEF Owns, Send
<1>2. ASSUME NEW b, Posted(w, c, [o EXCEPT !.send_buffer = b], "SEND", b, "sent", rest)
      PROVE  ActivityInv'
  BY <1>1, <1>2, PostedActivity
<1>3. ASSUME NEW b, Close(w, c, [o EXCEPT !.send_buffer = b], rest), posted' = posted
      PROVE  ActivityInv'
  BY <1>1, <1>3, CloseActivity
<1>4. QED
  BY <1>2, <1>3 DEF Send

\* A worker turns to a completion of its batch.
LEMMA DispatchActivity ==
  ASSUME ActivityInv, TypeOK', NEW w \in Workers, worker[w].pc = "next",
         NEW x \in worker[w].batch, Dispatch(w, x)
  PROVE  ActivityInv'
<1>1. x \in Queued /\ (x.op # "ACCEPT" => x.conn \in Conns) /\ TypeOK
  BY DEF ActivityInv, HasConnection, Queued
<1>2. {"read", "expired", "bad", "handle", "idle", "shut"} \subseteq Busy
  BY DEF Busy, Pcs
<1>3. CASE AcceptComplete(w, x)
  <2>1. PICK c \in Conns :
          /\ \A v \in Workers : worker[v].conn # c
          /\ \A y \in Queued : y.conn # c
          /\ Enter(w, x, c, "read", "repost")
    BY <1>3 DEF AcceptComplete
  <2>2. /\ posted' = posted /\ completed' = completed
        /\ \A v \in Workers : worker'[v].batch \subseteq worker[v].batch
    BY <1>1, <1>3, <2>1 DEF AcceptComplete, Enter, TypeOK, Worker
  <2>3. \A y \in Queued' : y.conn # c
    BY <2>1, <2>2 DEF Queued
  <2>4. \A v \in Workers \ {w} : ~Owns(v, c)
    BY <2>1 DEF Owns
  <2>5. QED
    BY <1>2, <2>1, <2>2, <2>3, <2>4, EnterActivity, Places
<1>4. ASSUME x.op # "ACCEPT", NEW pc \in Busy, NEW rest \in Rests,
             Enter(w, x, x.conn, pc, rest), posted' = posted, completed' = completed
      PROVE  ActivityInv'
  <2>1. x.conn \in Conns
    BY <1>1, <1>4
  <2>2. /\ \A y \in Queued' : y.conn # x.conn
        /\ \A v \in Workers : ~Owns(v, x.conn)
    BY <1>4, <2>1, DispatchFrees
  <2>3. QED
    BY <1>4, <2>1, <2>2, EnterActivity
<1>5. CASE RecvClosed(w, x)
  BY <1>2, <1>4, <1>5, Places DEF RecvClosed
<1>6. CASE RecvMore(w, x)
  BY <1>2, <1>4, <1>6, Places DEF RecvMore
<1>7. CASE RecvRequest(w, x)
  BY <1>2, <1>4, <1>7, Places DEF RecvRequest
<1>8. CASE RecvError(w, x)
  BY <1>2, <1>4, <1>8, Places DEF RecvError
<1>9. CASE SendDone(w, x)
  BY <1>2, <1>4, <1>9, Places DEF SendDone
<1>10. QED
  BY <1>3, <1>5, <1>6, <1>7, <1>8, <1>9 DEF Dispatch

\* Every step of a worker keeps one activity per connection.
LEMMA WorkerActivity ==
  ASSUME ActivityInv, TypeOK', NEW w \in Workers, WorkerStep(w)
  PROVE  ActivityInv'
<1> DEFINE c == worker[w].conn
<1>a. TypeOK /\ HasConnection
  BY DEF ActivityInv
<1>b. Owning \subseteq Busy /\ {"sent", "receiving", "closing", "tail"} \subseteq Busy \ Owning
  BY DEF Owning, Busy, Pcs
<1>c. ASSUME worker[w].pc \in Owning
      PROVE  c \in Conns /\ Owns(w, c)
  BY <1>a, <1>b, <1>c DEF HasConnection, Owns
<1>1. CASE TakeBatch(w)
  BY <1>1, TakeBatchActivity
<1>2. CASE WaitTimeout(w) \/ EndBatch(w)
  <2>1. /\ \A v \in Workers \ {w} : worker'[v] = worker[v]
        /\ worker'[w].batch = worker[w].batch
        /\ worker'[w].pc \in {"wait", "exited"} /\ worker[w].batch = {}
    BY <1>2, <1>a DEF WaitTimeout, EndBatch, TypeOK, Worker, ActivityInv, IdleHasNoBatch
  <2>2. worker'[w].pc \notin Busy /\ worker'[w].pc \notin Owning
    BY <2>1 DEF Busy, Owning
  <2>3. QED
    BY <1>2, <2>1, <2>2, MoveActivity DEF WaitTimeout, EndBatch
<1>3. CASE worker[w].pc = "next" /\ \E x \in worker[w].batch : Dispatch(w, x)
  BY <1>3, DispatchActivity
<1>4. CASE StartReading(w)
  <2>1. worker[w].pc \in Owning /\ completed' = completed
    BY <1>4 DEF StartReading, Owning
  <2>2. ASSUME NEW o, NEW b, NEW rest, Posted(w, c, o, "RECV", b, "receiving", rest)
        PROVE  ActivityInv'
    BY <2>1, <2>2, <1>c, PostedActivity
  <2>3. ASSUME NEW o, NEW rest, Close(w, c, o, rest), posted' = posted
        PROVE  ActivityInv'
    BY <2>1, <2>3, CloseActivity
  <2>4. QED
    BY <1>4, <2>2, <2>3 DEF StartReading
<1>5. ASSUME worker[w].pc \in Owning, NEW o, NEW rest,
             Send(w, c, o, rest) \/ SendError(w, c, o, rest)
      PROVE  ActivityInv'
  BY <1>5, <1>c, SendActivity DEF SendError
<1>6. CASE BodyTimeout(w) \/ BadRequest(w) \/ Respond(w) \/ AgentReturns(w)
  <2>1. worker[w].pc \in Owning
    BY <1>6 DEF BodyTimeout, BadRequest, Respond, AgentReturns, Owning
  <2>2. QED
    BY <1>5, <1>6, <2>1 DEF BodyTimeout, BadRequest, Respond, AgentReturns
<1>7. CASE CallAgent(w)
  <2>1. worker[w].pc \in Owning /\ "agent" \in Busy
    BY <1>7 DEF CallAgent, Owning, Busy, Pcs
  <2>2. QED
    BY <1>7, <2>1, GotoActivity DEF CallAgent
<1>8. CASE CloseNow(w)
  <2>1. worker[w].pc \in Owning
    BY <1>8 DEF CloseNow, Owning
  <2>2. QED
    BY <1>8, <2>1, CloseActivity DEF CloseNow
<1>9. CASE ToIdle(w)
  <2>1. worker[w].pc \in Owning /\ "handle" \in Busy /\ "read" \in Busy
    BY <1>9 DEF ToIdle, Owning, Busy, Pcs
  <2>2. ASSUME NEW pc \in {"handle", "read"}, Goto(w, pc, "return"),
               posted' = posted, completed' = completed
        PROVE  ActivityInv'
    BY <2>1, <2>2, GotoActivity
  <2>3. QED
    BY <1>5, <1>9, <2>1, <2>2 DEF ToIdle
<1>10. CASE AfterPost(w) \/ AfterCloseSocket(w)
  <2>1. /\ worker[w].pc \in Busy
        /\ Goto(w, "tail", worker[w].rest) /\ posted' = posted /\ completed' = completed
    BY <1>b, <1>10 DEF AfterPost, AfterCloseSocket
  <2>2. /\ \A v \in Workers \ {w} : worker'[v] = worker[v]
        /\ worker'[w].batch = worker[w].batch
        /\ worker'[w].conn = worker[w].conn /\ worker'[w].pc = "tail"
    BY <1>a, <2>1, GotoWorker
  <2>3. QED
    BY <1>b, <2>1, <2>2, MoveActivity
<1>11. CASE Tail(w) \/ Repost(w)
  <2>1. /\ \A v \in Workers \ {w} : worker'[v] = worker[v]
        /\ worker'[w].batch = worker[w].batch
        /\ worker'[w].pc \in {"next", "repost"}
    BY <1>a, <1>11 DEF Tail, Repost, Return, TypeOK, Worker
  <2>2. worker'[w].pc \notin Busy /\ worker'[w].pc \notin Owning
    BY <2>1 DEF Busy, Owning
  <2>3. /\ completed' = completed
        /\ \A x \in posted' : x \notin posted =>
             x.op = "ACCEPT" /\ x.conn = None /\ x.res = "pending"
    BY <1>11 DEF Tail, Repost, AcceptOp
  <2>4. QED
    BY <2>1, <2>2, <2>3, MoveActivity
<1>12. QED
  BY <1>1, <1>2, <1>3, <1>4, <1>6, <1>7, <1>8, <1>9, <1>10, <1>11 DEF WorkerStep

LEMMA NextActivity == ActivityInv /\ [Next]_vars => ActivityInv'
<1> SUFFICES ASSUME ActivityInv, [Next]_vars PROVE ActivityInv'
  OBVIOUS
<1>1. TypeOK'
  BY NextType DEF ActivityInv
<1>2. CASE \E w \in Workers : WorkerStep(w)
  BY <1>1, <1>2, WorkerActivity
<1>3. CASE \E x \in posted : Complete(x)
  BY <1>1, <1>3, CompleteActivity
<1>4. CASE Shutdown \/ StopAccepting \/ CloseAll \/ UNCHANGED vars
  <2>1. worker' = worker /\ posted' \subseteq posted /\ completed' \subseteq completed
    BY <1>4 DEF Shutdown, StopAccepting, CloseAll, vars
  <2>2. /\ \A v \in Workers : worker'[v].pc \in Busy => worker'[v].conn \in Conns
        /\ \A v \in Workers : worker'[v].pc \in {"wait", "exited"} => worker'[v].batch = {}
        /\ \A v \in Workers, c \in Conns : Owns(v, c)' => Owns(v, c)
    BY <2>1 DEF ActivityInv, HasConnection, IdleHasNoBatch, Owns
  <2>3. QED
    BY <1>1, <2>1, <2>2, ShrinkActivity
<1>5. QED
  BY <1>2, <1>3, <1>4 DEF Next

-----------------------------------------------------------------------------
(* The theorems.                                                           *)

\* In every reachable state every variable of the gateway has its type: no
\* handler leaves a connection, a handle or a worker in an undefined state.
THEOREM TypeCorrect == Spec => []TypeOK
<1>1. Init => ActivityInv
  BY InitActivity
<1>2. ActivityInv /\ [Next]_vars => ActivityInv'
  BY NextActivity
<1>3. ActivityInv => TypeOK
  BY DEF ActivityInv
<1>4. QED
  BY <1>1, <1>2, <1>3, PTL DEF Spec

\* Two worker threads never run the handlers of one connection at a time while
\* it is still to be handed over, and a connection never has two operations in
\* flight: the discipline that stands in for a lock on Connection.
THEOREM OneActivityHolds == Spec => []OneActivity
<1>1. Init => ActivityInv
  BY InitActivity
<1>2. ActivityInv /\ [Next]_vars => ActivityInv'
  BY NextActivity
<1>3. ActivityInv => OneActivity
  BY DEF ActivityInv
<1>4. QED
  BY <1>1, <1>2, <1>3, PTL DEF Spec

-----------------------------------------------------------------------------
(* The steps of a worker, as far as the invariants below tell them apart.  *)

\* Where a worker has no connection.
Outside == {"wait", "next", "repost", "exited"}
Kinds == {"recv", "send"}
KindOf(op) == IF op = "RECV" THEN "recv" ELSE "send"

\* Only object c may change, and it keeps its life.
OnlyObject(c) ==
  /\ obj'[c].life = obj[c].life
  /\ \A d \in Conns \ {c} : obj'[d] = obj[d]

\* At most one buffer handle of c is assigned: a free buffer, or none.
BufferStep(c) ==
  \/ /\ free_list' = free_list
     /\ \A h \in Kinds : BufferOf(c, h)' = BufferOf(c, h)
  \/ \E h \in Kinds :
       /\ \A g \in Kinds \ {h} : BufferOf(c, g)' = BufferOf(c, g)
       /\ \/ /\ BufferOf(c, h)' \in free_list
             /\ free_list' = (free_list \ {BufferOf(c, h)'}) \cup Owned(BufferOf(c, h))
          \/ /\ BufferOf(c, h)' = None
             /\ free_list' = free_list \cup Owned(BufferOf(c, h))

\* Only worker w moves, and its batch stays.
OnlyWorker(w) ==
  /\ \A v \in Workers \ {w} : worker'[v] = worker[v]
  /\ worker'[w].batch = worker[w].batch

\* The four ways in which the step of an owner may end.
GoesOn(w, c) ==
  /\ worker[w].pc \in {"handle", "idle"}
  /\ worker'[w].pc \in {"agent", "handle", "read"} /\ worker'[w].rest = "return"
  /\ worker'[w].pc = "read" => worker[w].pc = "idle"
  /\ IsClosing(obj'[c]) => IsClosing(obj[c])
  /\ posted' = posted /\ open' = open

HandsOver(w, c) ==
  /\ worker[w].pc # "shut" /\ worker'[w].pc \in {"sent", "receiving"}
  /\ \E op \in {"RECV", "SEND"} :
       /\ posted' = posted \cup {IoOp(op, c, obj[c].fd, BufferOf(c, KindOf(op))')}
       /\ op = "RECV" => worker[w].pc = "read"
       /\ BufferOf(c, KindOf(op))' \in Bufs
  /\ IsClosing(obj'[c]) => IsClosing(obj[c])
  /\ open' = open

ClosesSocket(w, c) ==
  /\ worker'[w].pc = "closing"
  /\ posted' = posted /\ open' = open \ Owned(obj[c].fd)

FindsClosed(w, c) ==
  /\ IsClosing(obj[c])
  /\ worker'[w].pc = "tail"
  /\ posted' = posted /\ open' = open

\* A step of the worker that owns c.
OwnerStep(w, c) ==
  /\ OnlyObject(c) /\ BufferStep(c) /\ OnlyWorker(w)
  /\ completed' = completed /\ connections' = connections
  /\ obj'[c].fd = obj[c].fd
  /\ worker'[w].conn = c /\ worker'[w].rest \in {worker[w].rest, "return"}
  /\ worker[w].pc = "bad" => ~obj'[c].keep_alive
  /\ worker[w].pc = "shut" => obj'[c].keep_alive = obj[c].keep_alive
  /\ \/ obj'[c].request_count = obj[c].request_count
     \/ /\ worker[w].pc = "idle" /\ worker'[w].pc = "handle"
        /\ obj'[c].request_count = obj[c].request_count + 1
  /\ GoesOn(w, c) \/ HandsOver(w, c) \/ ClosesSocket(w, c) \/ FindsClosed(w, c)

\* What a step after the post, or after closesocket(), does to c.
LateStep(w, c) ==
  /\ OnlyObject(c) /\ BufferStep(c) /\ OnlyWorker(w)
  /\ posted' = posted /\ completed' = completed
  /\ connections' = connections /\ open' = open
  /\ obj'[c].keep_alive = obj[c].keep_alive
  /\ obj'[c].request_count = obj[c].request_count
  /\ BufferOf(c, "send")' = BufferOf(c, "send")
  /\ worker[w].rest # "release_recv" => BufferOf(c, "recv")' = BufferOf(c, "recv")
  /\ \/ /\ worker[w].pc \in {"sent", "receiving"}
        /\ obj'[c].fd = obj[c].fd /\ ~IsClosing(obj'[c])
        /\ worker'[w].pc = "tail" /\ worker'[w].conn = c /\ worker'[w].rest = worker[w].rest
     \/ /\ worker[w].pc = "closing"
        /\ obj'[c].fd = None
        /\ worker'[w].pc = "tail" /\ worker'[w].conn = c /\ worker'[w].rest = worker[w].rest
     \/ /\ worker[w].pc = "tail"
        /\ obj'[c].fd = obj[c].fd /\ obj'[c].state = obj[c].state
        /\ worker'[w].pc \in {"next", "repost"} /\ worker'[w].conn = None
        /\ worker'[w].rest = "return"

\* A worker turns to the completion x of connection c.
EntersStep(w, x, c) ==
  /\ OnlyObject(c) /\ BufferStep(c)
  /\ posted' = posted /\ completed' = completed
  /\ connections' = connections /\ open' = open
  /\ obj'[c].fd = obj[c].fd /\ obj'[c].state = obj[c].state
  /\ \A v \in Workers \ {w} : worker'[v] = worker[v]
  /\ worker'[w].batch = worker[w].batch \ {x} /\ worker'[w].conn = c
  /\ worker'[w].pc \in {"read", "expired", "bad", "handle", "idle", "shut"}
  /\ worker'[w].rest = "release_recv" => worker'[w].pc = "bad"
  /\ x.op = "RECV" => worker'[w].pc # "idle"
  /\ x.op = "SEND" =>
       /\ worker'[w].pc = IF MayReuse(obj'[c]) THEN "idle" ELSE "shut"
       /\ obj'[c].keep_alive = obj[c].keep_alive
       /\ obj'[c].request_count = obj[c].request_count
  /\ \/ obj'[c].request_count = obj[c].request_count
     \/ /\ x.op = "RECV" /\ worker'[w].pc = "handle"
        /\ obj'[c].request_count = obj[c].request_count + 1

LEMMA OwnerPlaces == Owning \cap Outside = {} /\ Owning \subseteq Busy /\ Outside \subseteq Pcs
BY DEF Owning, Outside, Busy, Pcs

\* Close, called with o in place of object c.
LEMMA CloseStep ==
  ASSUME TypeOK, NEW w \in Workers, NEW c \in Conns, worker[w].conn = c,
         NEW o \in Connection, NEW rest, Close(w, c, o, rest),
         o.life = obj[c].life, o.fd = obj[c].fd, IsClosing(o) => IsClosing(obj[c]),
         posted' = posted
  PROVE  /\ OnlyObject(c) /\ OnlyWorker(w)
         /\ obj'[c].fd = obj[c].fd /\ obj'[c].keep_alive = o.keep_alive
         /\ obj'[c].request_count = o.request_count
         /\ obj'[c].recv_buffer = o.recv_buffer /\ obj'[c].send_buffer = o.send_buffer
         /\ worker'[w].conn = c /\ worker'[w].rest = rest
         /\ ClosesSocket(w, c) \/ FindsClosed(w, c)
<1>1. obj \in [Conns -> Connection] /\ worker \in [Workers -> Worker]
  BY DEF TypeOK
<1>2. ASSUME NEW pc, Goto(w, pc, rest)
      PROVE  OnlyWorker(w) /\ worker'[w].conn = c /\ worker'[w].rest = rest /\ worker'[w].pc = pc
  BY <1>1, <1>2 DEF Goto, Worker, OnlyWorker
<1>3. CASE /\ IsClosing(o)
           /\ obj' = [obj EXCEPT ![c] = o]
           /\ Goto(w, "tail", rest)
           /\ UNCHANGED open
  BY <1>1, <1>2, <1>3 DEF OnlyObject, FindsClosed
<1>4. CASE /\ ~IsClosing(o)
           /\ obj' = [obj EXCEPT ![c] = [o EXCEPT !.state = "CLOSING"]]
           /\ open' = open \ Owned(o.fd)
           /\ Goto(w, "closing", rest)
  <2>1. obj'[c] = [o EXCEPT !.state = "CLOSING"]
    BY <1>1, <1>4
  <2>2. /\ obj'[c].fd = o.fd /\ obj'[c].life = o.life /\ obj'[c].keep_alive = o.keep_alive
        /\ obj'[c].request_count = o.request_count
        /\ obj'[c].recv_buffer = o.recv_buffer /\ obj'[c].send_buffer = o.send_buffer
    BY <2>1 DEF Connection
  <2>3. OnlyObject(c)
    BY <1>1, <1>4, <2>2 DEF OnlyObject
  <2> QED BY <1>2, <1>4, <2>2, <2>3 DEF ClosesSocket
<1> QED BY <1>3, <1>4 DEF Close

\* Posted, called with o in place of object c.
LEMMA PostedStep ==
  ASSUME TypeOK, NEW w \in Workers, NEW c \in Conns, worker[w].conn = c,
         NEW o \in Connection, NEW op \in {"RECV", "SEND"}, NEW b \in Bufs,
         NEW pc \in {"sent", "receiving"}, NEW rest,
         Posted(w, c, o, op, b, pc, rest),
         op = "RECV" => worker[w].pc = "read" /\ o.recv_buffer = b,
         op = "SEND" => o.send_buffer = b,
         worker[w].pc # "shut",
         o.life = obj[c].life, o.fd = obj[c].fd, IsClosing(o) => IsClosing(obj[c])
  PROVE  /\ OnlyObject(c) /\ OnlyWorker(w)
         /\ obj'[c] = o
         /\ worker'[w].conn = c /\ worker'[w].rest = rest
         /\ HandsOver(w, c)
<1>1. obj \in [Conns -> Connection] /\ worker \in [Workers -> Worker]
  BY DEF TypeOK
<1>2. OnlyWorker(w) /\ worker'[w].conn = c /\ worker'[w].rest = rest /\ worker'[w].pc = pc
  BY <1>1 DEF Posted, Goto, Worker, OnlyWorker
<1>3. obj'[c] = o /\ OnlyObject(c)
  BY <1>1 DEF Posted, OnlyObject
<1>4. BufferOf(c, KindOf(op))' = b
  BY <1>3 DEF BufferOf, KindOf
<1>5. posted' = posted \cup {IoOp(op, c, obj[c].fd, BufferOf(c, KindOf(op))')} /\ open' = open
  BY <1>4 DEF Posted
<1> QED BY <1>2, <1>3, <1>4, <1>5 DEF HandsOver

\* start_reading posts the recv.
LEMMA RecvStep ==
  ASSUME TypeOK, NEW w \in Workers, NEW c \in Conns, worker[w].conn = c,
         NEW o \in Connection, NEW b \in Bufs, NEW rest,
         Posted(w, c, o, "RECV", b, "receiving", rest),
         worker[w].pc = "read", o.recv_buffer = b,
         o.life = obj[c].life, o.fd = obj[c].fd, IsClosing(o) => IsClosing(obj[c])
  PROVE  /\ OnlyObject(c) /\ OnlyWorker(w)
         /\ obj'[c] = o
         /\ worker'[w].conn = c /\ worker'[w].rest = rest
         /\ HandsOver(w, c)
<1>1. PICK op \in {"RECV", "SEND"} : op = "RECV"
  OBVIOUS
<1>2. PICK pc \in {"sent", "receiving"} : pc = "receiving"
  OBVIOUS
<1>3. Posted(w, c, o, op, b, pc, rest)
  BY <1>1, <1>2
<1>4. op # "SEND" /\ worker[w].pc # "shut"
  BY <1>1
<1> QED BY <1>1, <1>3, <1>4, PostedStep

\* send_response and send_error, called with o in place of object c.
LEMMA SendStep ==
  ASSUME ActivityInv, NEW w \in Workers, NEW c \in Conns, Owns(w, c),
         worker[w].pc # "shut",
         NEW o \in Connection, NEW rest \in {worker[w].rest, "return"}, Send(w, c, o, rest),
         o.life = obj[c].life, o.fd = obj[c].fd, IsClosing(o) => IsClosing(obj[c]),
         o.recv_buffer = obj[c].recv_buffer, o.send_buffer = obj[c].send_buffer,
         o.request_count = obj[c].request_count,
         worker[w].pc = "bad" => ~o.keep_alive
  PROVE  OwnerStep(w, c)
<1>0. TypeOK /\ worker[w].conn = c /\ obj[c] \in Connection
  BY DEF ActivityInv, TypeOK, Owns
<1> DEFINE with(b) == [o EXCEPT !.send_buffer = b]
<1>1. ASSUME NEW b \in Bufs \cup {None}
      PROVE  /\ with(b) \in Connection
             /\ with(b).life = o.life /\ with(b).fd = o.fd /\ with(b).state = o.state
             /\ with(b).keep_alive = o.keep_alive /\ with(b).request_count = o.request_count
             /\ with(b).recv_buffer = o.recv_buffer /\ with(b).send_buffer = b
  BY DEF Connection
<1>2. ASSUME NEW b \in Bufs \cup {None} PROVE IsClosing(with(b)) => IsClosing(obj[c])
  BY <1>1 DEF IsClosing
<1>3. ASSUME NEW b \in Bufs \cup {None},
             obj'[c].recv_buffer = obj[c].recv_buffer, obj'[c].send_buffer = b,
             \/ b \in free_list /\ free_list' = (free_list \ {b}) \cup Owned(o.send_buffer)
             \/ b = None /\ free_list' = free_list \cup Owned(o.send_buffer)
      PROVE  BufferStep(c)
  <2>1. /\ BufferOf(c, "recv")' = BufferOf(c, "recv") /\ BufferOf(c, "send")' = b
        /\ BufferOf(c, "send") = o.send_buffer
    BY <1>3 DEF BufferOf
  <2> QED BY <1>3, <2>1 DEF BufferStep, Kinds
<1>4. /\ completed' = completed /\ connections' = connections
      /\ free_list \subseteq Bufs /\ None \notin Bufs
  BY <1>0, GatewayAssumption DEF Send, TypeOK
<1>5. ASSUME NEW b \in Bufs \cup {None}, Close(w, c, with(b), rest), posted' = posted,
             \/ b \in free_list /\ free_list' = (free_list \ {b}) \cup Owned(o.send_buffer)
             \/ b = None /\ free_list' = free_list \cup Owned(o.send_buffer)
      PROVE  OwnerStep(w, c)
  <2>0. PICK p \in Connection : p = with(b)
    BY <1>1
  <2>a. /\ Close(w, c, p, rest) /\ p.life = obj[c].life /\ p.fd = obj[c].fd
        /\ IsClosing(p) => IsClosing(obj[c])
        /\ p.keep_alive = o.keep_alive /\ p.request_count = o.request_count
        /\ p.recv_buffer = o.recv_buffer /\ p.send_buffer = b
    BY <1>1, <1>2, <1>5, <2>0
  <2> HIDE DEF with
  <2>1. /\ OnlyObject(c) /\ OnlyWorker(w)
        /\ obj'[c].fd = obj[c].fd /\ obj'[c].keep_alive = o.keep_alive
        /\ obj'[c].request_count = o.request_count
        /\ obj'[c].recv_buffer = o.recv_buffer /\ obj'[c].send_buffer = b
        /\ worker'[w].conn = c /\ worker'[w].rest = rest
        /\ ClosesSocket(w, c) \/ FindsClosed(w, c)
    BY <1>0, <1>5, <2>a, CloseStep
  <2>2. BufferStep(c)
    BY <1>3, <1>5, <2>1
  <2> QED BY <1>4, <2>1, <2>2 DEF OwnerStep
<1>6. ASSUME NEW b \in free_list, Posted(w, c, with(b), "SEND", b, "sent", rest),
             free_list' = (free_list \ {b}) \cup Owned(o.send_buffer)
      PROVE  OwnerStep(w, c)
  <2>0. b \in Bufs
    BY <1>4
  <2>a. PICK p \in Connection : p = with(b)
    BY <1>1, <2>0
  <2>b. /\ Posted(w, c, p, "SEND", b, "sent", rest) /\ p.life = obj[c].life /\ p.fd = obj[c].fd
        /\ IsClosing(p) => IsClosing(obj[c])
        /\ p.send_buffer = b
    BY <1>1, <1>2, <1>6, <2>0, <2>a
  <2> HIDE DEF with
  <2>1. /\ OnlyObject(c) /\ OnlyWorker(w)
        /\ obj'[c] = p
        /\ worker'[w].conn = c /\ worker'[w].rest = rest
        /\ HandsOver(w, c)
    BY <2>0, <1>0, <2>b, PostedStep
  <2>2. BufferStep(c)
    BY <2>0, <2>a, <1>1, <1>3, <1>6, <2>1
  <2> QED BY <2>0, <2>a, <1>1, <1>4, <2>1, <2>2 DEF OwnerStep
<1>7. CASE \E b \in free_list :
          /\ free_list' = (free_list \ {b}) \cup Owned(o.send_buffer)
          /\ \/ Posted(w, c, with(b), "SEND", b, "sent", rest)
             \/ Close(w, c, with(b), rest) /\ posted' = posted
  BY <1>4, <1>5, <1>6, <1>7
<1>8. CASE /\ free_list = {} /\ free_list' = Owned(o.send_buffer)
           /\ Close(w, c, with(None), rest) /\ posted' = posted
  BY <1>5, <1>8
<1> QED BY <1>7, <1>8 DEF Send

\* Every action of a worker that owns a connection.
LEMMA OwnerSteps ==
  ASSUME ActivityInv, NEW w \in Workers, NEW c \in Conns, Owns(w, c), WorkerStep(w),
         NEW o \in Connection, obj[c] = o
  PROVE  OwnerStep(w, c)
<1>0. TypeOK /\ worker[w].conn = c /\ worker[w].pc \in Owning
  BY DEF ActivityInv, Owns
<1>1. /\ free_list \subseteq Bufs /\ None \notin Bufs
      /\ obj \in [Conns -> Connection] /\ worker \in [Workers -> Worker]
  BY <1>0, GatewayAssumption DEF TypeOK
<1> DEFINE silent == [o EXCEPT !.keep_alive = FALSE]
<1>2. /\ silent \in Connection /\ silent.life = o.life /\ silent.fd = o.fd
      /\ silent.state = o.state /\ silent.keep_alive = FALSE
      /\ silent.recv_buffer = o.recv_buffer /\ silent.send_buffer = o.send_buffer
      /\ silent.request_count = o.request_count
  BY <1>0 DEF Connection
<1>3. IsClosing(silent) => IsClosing(o)
  BY <1>2 DEF IsClosing
<1>4. ASSUME NEW rest \in {worker[w].rest, "return"}, SendError(w, c, o, rest),
             worker[w].pc # "shut"
      PROVE  OwnerStep(w, c)
  <2>1. Send(w, c, silent, rest)
    BY <1>4 DEF SendError
  <2> HIDE DEF silent
  <2> QED BY <2>1, <1>0, <1>2, <1>3, <1>4, SendStep
<1>5. CASE StartReading(w)
  <2>0. PICK rest : rest = worker[w].rest
    OBVIOUS
  <2> DEFINE with(b) == [o EXCEPT !.recv_buffer = b]
  <2>1. ASSUME NEW b \in Bufs \cup {None}
        PROVE  /\ with(b) \in Connection
               /\ with(b).life = o.life /\ with(b).fd = o.fd /\ with(b).state = o.state
               /\ with(b).keep_alive = o.keep_alive
               /\ with(b).request_count = o.request_count
               /\ with(b).recv_buffer = b /\ with(b).send_buffer = o.send_buffer
    BY <1>0 DEF Connection
  <2>2. ASSUME NEW b \in Bufs \cup {None} PROVE IsClosing(with(b)) => IsClosing(o)
    BY <2>1 DEF IsClosing
  <2>3. ASSUME NEW b \in Bufs \cup {None},
               obj'[c].recv_buffer = b, obj'[c].send_buffer = o.send_buffer,
               \/ b \in free_list /\ free_list' = (free_list \ {b}) \cup Owned(o.recv_buffer)
               \/ b = None /\ free_list' = free_list \cup Owned(o.recv_buffer)
        PROVE  BufferStep(c)
    <3>1. /\ BufferOf(c, "send")' = BufferOf(c, "send") /\ BufferOf(c, "recv")' = b
          /\ BufferOf(c, "recv") = o.recv_buffer
      BY <2>3 DEF BufferOf
    <3> QED BY <2>3, <3>1 DEF BufferStep, Kinds
  <2>4. /\ completed' = completed /\ connections' = connections
        /\ worker[w].pc = "read"
    BY <1>5 DEF StartReading
  <2>5. ASSUME NEW b \in Bufs \cup {None}, Close(w, c, with(b), rest), posted' = posted,
               \/ b \in free_list /\ free_list' = (free_list \ {b}) \cup Owned(o.recv_buffer)
               \/ b = None /\ free_list' = free_list \cup Owned(o.recv_buffer)
        PROVE  OwnerStep(w, c)
    <3>0. PICK p \in Connection : p = with(b)
      BY <2>1
    <3>a. /\ Close(w, c, p, rest) /\ p.life = o.life /\ p.fd = o.fd
          /\ IsClosing(p) => IsClosing(o)
          /\ p.keep_alive = o.keep_alive /\ p.request_count = o.request_count
          /\ p.recv_buffer = b /\ p.send_buffer = o.send_buffer
      BY <2>1, <2>2, <2>5, <3>0
    <3> HIDE DEF with
    <3>1. /\ OnlyObject(c) /\ OnlyWorker(w)
          /\ obj'[c].fd = o.fd
          /\ obj'[c].request_count = o.request_count
          /\ obj'[c].recv_buffer = b /\ obj'[c].send_buffer = o.send_buffer
          /\ worker'[w].conn = c /\ worker'[w].rest = rest
          /\ ClosesSocket(w, c) \/ FindsClosed(w, c)
      BY <1>0, <2>5, <3>a, CloseStep
    <3>2. BufferStep(c)
      BY <2>3, <2>5, <3>1
    <3> QED BY <2>0, <2>4, <3>1, <3>2 DEF OwnerStep
  <2>6. ASSUME NEW b \in free_list, Posted(w, c, with(b), "RECV", b, "receiving", rest),
               free_list' = (free_list \ {b}) \cup Owned(o.recv_buffer)
        PROVE  OwnerStep(w, c)
    <3>0. b \in Bufs
      BY <1>1
    <3>a. PICK p \in Connection : p = with(b)
      BY <2>1, <3>0
    <3>b. /\ Posted(w, c, p, "RECV", b, "receiving", rest) /\ p.life = o.life /\ p.fd = o.fd
          /\ IsClosing(p) => IsClosing(o)
          /\ p.request_count = o.request_count
          /\ p.recv_buffer = b /\ p.send_buffer = o.send_buffer
      BY <2>1, <2>2, <2>6, <3>0, <3>a
    <3> HIDE DEF with
    <3>1. /\ OnlyObject(c) /\ OnlyWorker(w)
          /\ obj'[c] = p
          /\ worker'[w].conn = c /\ worker'[w].rest = rest
          /\ HandsOver(w, c)
      <4> SUFFICES ASSUME TypeOK, worker[w].conn = c, b \in Bufs,
                          Posted(w, c, p, "RECV", b, "receiving", rest),
                          worker[w].pc = "read", p.recv_buffer = b,
                          p.life = obj[c].life, p.fd = obj[c].fd,
                          IsClosing(p) => IsClosing(obj[c])
                   PROVE  /\ OnlyObject(c) /\ OnlyWorker(w) /\ obj'[c] = p
                          /\ worker'[w].conn = c /\ worker'[w].rest = rest /\ HandsOver(w, c)
        BY <3>0, <1>0, <2>4, <3>b
      <4> QED BY RecvStep
    <3>2. BufferStep(c)
      BY <3>0, <2>3, <2>6, <3>1, <3>b
    <3> QED BY <3>0, <2>0, <2>4, <3>1, <3>2, <3>b DEF OwnerStep
  <2>a. \/ \E b \in free_list :
              /\ free_list' = (free_list \ {b}) \cup Owned(o.recv_buffer)
              /\ \/ Posted(w, c, with(b), "RECV", b, "receiving", rest)
                 \/ Close(w, c, with(b), rest) /\ posted' = posted
        \/ /\ free_list = {} /\ free_list' = Owned(o.recv_buffer)
           /\ Close(w, c, with(None), rest) /\ posted' = posted
    BY <1>0, <1>5, <2>0 DEF StartReading
  <2>7. CASE \E b \in free_list :
            /\ free_list' = (free_list \ {b}) \cup Owned(o.recv_buffer)
            /\ \/ Posted(w, c, with(b), "RECV", b, "receiving", rest)
               \/ Close(w, c, with(b), rest) /\ posted' = posted
    BY <1>1, <2>5, <2>6, <2>7
  <2>8. CASE /\ free_list = {} /\ free_list' = Owned(o.recv_buffer)
             /\ Close(w, c, with(None), rest) /\ posted' = posted
    BY <2>5, <2>8
  <2> QED BY <2>a, <2>7, <2>8
<1>6. CASE BodyTimeout(w) \/ BadRequest(w) \/ AgentReturns(w)
  BY <1>0, <1>4, <1>6 DEF BodyTimeout, BadRequest, AgentReturns
<1>7. CASE Respond(w)
  <2>1. worker[w].pc = "handle"
    BY <1>7 DEF Respond
  <2>2. ASSUME Send(w, c, o, "return") PROVE OwnerStep(w, c)
    BY <2>1, <2>2, <1>0, SendStep
  <2> QED BY <1>0, <1>4, <1>7, <2>1, <2>2 DEF Respond
<1>8. ASSUME NEW p \in Connection, NEW pc \in {"agent", "handle", "read"}, Goto(w, pc, "return"),
             obj' = [obj EXCEPT ![c] = p], worker[w].pc \in {"handle", "idle"},
             pc = "read" => worker[w].pc = "idle",
             UNCHANGED <<stage, free_list, posted, completed, connections, open>>,
             p.life = o.life, p.fd = o.fd, IsClosing(p) => IsClosing(o),
             p.recv_buffer = o.recv_buffer, p.send_buffer = o.send_buffer,
             \/ p.request_count = o.request_count
             \/ /\ worker[w].pc = "idle" /\ pc = "handle"
                /\ p.request_count = o.request_count + 1
      PROVE  OwnerStep(w, c)
  <2>1. obj'[c] = p /\ OnlyObject(c)
    BY <1>0, <1>1, <1>8 DEF OnlyObject
  <2>2. /\ OnlyWorker(w) /\ worker'[w].conn = c /\ worker'[w].pc = pc /\ worker'[w].rest = "return"
    BY <1>0, <1>1, <1>8 DEF OnlyWorker, Goto, Worker
  <2>3. BufferStep(c)
    BY <1>8, <2>1 DEF BufferStep, BufferOf
  <2>4. GoesOn(w, c)
    BY <1>8, <2>1, <2>2 DEF GoesOn
  <2> QED BY <1>8, <2>1, <2>2, <2>3, <2>4 DEF OwnerStep
<1>9. CASE CallAgent(w)
  <2>1. obj' = [obj EXCEPT ![c] = o]
    BY <1>0, <1>1, <1>9 DEF CallAgent
  <2> QED BY <2>1, <1>0, <1>8, <1>9 DEF CallAgent
<1>10. CASE CloseNow(w)
  <2>1. /\ Close(w, c, o, "return") /\ worker[w].pc = "shut"
        /\ UNCHANGED <<stage, free_list, posted, completed, connections>>
    BY <1>0, <1>10 DEF CloseNow
  <2>2. /\ OnlyObject(c) /\ OnlyWorker(w)
        /\ obj'[c].fd = o.fd /\ obj'[c].keep_alive = o.keep_alive
        /\ obj'[c].request_count = o.request_count
        /\ obj'[c].recv_buffer = o.recv_buffer /\ obj'[c].send_buffer = o.send_buffer
        /\ worker'[w].conn = c /\ worker'[w].rest = "return"
        /\ ClosesSocket(w, c) \/ FindsClosed(w, c)
    BY <2>1, <1>0, CloseStep
  <2>3. BufferStep(c)
    BY <2>1, <2>2 DEF BufferStep, BufferOf
  <2> QED BY <2>1, <2>2, <2>3 DEF OwnerStep
<1>11. CASE ToIdle(w)
  <2> DEFINE idle == [o EXCEPT !.state = "IDLE", !.pending = FALSE]
  <2>0. worker[w].pc = "idle"
    BY <1>11 DEF ToIdle
  <2>1. /\ idle \in Connection /\ idle.life = o.life /\ idle.fd = o.fd
        /\ idle.state = "IDLE" /\ idle.keep_alive = o.keep_alive
        /\ idle.recv_buffer = o.recv_buffer /\ idle.send_buffer = o.send_buffer
        /\ idle.request_count = o.request_count /\ o.request_count \in Nat
    BY <1>0 DEF Connection, States
  <2> HIDE DEF idle
  <2>2. ASSUME NEW keep \in BOOLEAN, Goto(w, "handle", "return"),
               obj' = [obj EXCEPT ![c] = [idle EXCEPT !.keep_alive = keep,
                                                      !.request_count = @ + 1]],
               UNCHANGED <<stage, free_list, posted, completed, connections, open>>
        PROVE  OwnerStep(w, c)
    <3> DEFINE p == [idle EXCEPT !.keep_alive = keep, !.request_count = @ + 1]
    <3>1. /\ p \in Connection /\ p.life = o.life /\ p.fd = o.fd /\ p.state = "IDLE"
          /\ p.recv_buffer = o.recv_buffer /\ p.send_buffer = o.send_buffer
          /\ p.request_count = o.request_count + 1
      <4>1. PICK i \in Connection : i = idle
        BY <2>1
      <4>2. PICK n \in Nat : n = i.request_count + 1
        BY <4>1 DEF Connection
      <4>3. p = [[i EXCEPT !.keep_alive = keep] EXCEPT !.request_count = n]
        BY <4>1, <4>2
      <4>4. PICK j \in Connection : j = [i EXCEPT !.keep_alive = keep]
        BY DEF Connection
      <4>5. /\ j.life = o.life /\ j.fd = o.fd /\ j.state = "IDLE"
            /\ j.recv_buffer = o.recv_buffer /\ j.send_buffer = o.send_buffer
        BY <2>1, <4>1, <4>4 DEF Connection
      <4>6. n = o.request_count + 1
        BY <2>1, <4>1, <4>2
      <4> HIDE DEF p
      <4> QED BY <4>3, <4>4, <4>5, <4>6 DEF Connection
    <3>2. ~IsClosing(p)
      BY <3>1 DEF IsClosing
    <3>3. obj' = [obj EXCEPT ![c] = p]
      BY <2>2
    <3> HIDE DEF p
    <3> QED BY <1>8, <2>0, <2>2, <3>1, <3>2, <3>3
  <2>3. ASSUME SendError(w, c, idle, "return") PROVE OwnerStep(w, c)
    <3> DEFINE p == [idle EXCEPT !.keep_alive = FALSE]
    <3>1. /\ p \in Connection /\ p.life = o.life /\ p.fd = o.fd /\ p.state = "IDLE"
          /\ p.recv_buffer = o.recv_buffer /\ p.send_buffer = o.send_buffer
          /\ p.request_count = o.request_count
      BY <2>1 DEF Connection
    <3>2. ~IsClosing(p)
      BY <3>1 DEF IsClosing
    <3>3. Send(w, c, p, "return")
      BY <2>3 DEF SendError
    <3> HIDE DEF p
    <3> QED BY <1>0, <2>0, <3>1, <3>2, <3>3, SendStep
  <2>4. ASSUME NEW in_body \in BOOLEAN, Goto(w, "read", "return"),
               obj' = [obj EXCEPT ![c] = [idle EXCEPT !.body_timer = in_body]],
               UNCHANGED <<stage, free_list, posted, completed, connections, open>>
        PROVE  OwnerStep(w, c)
    <3> DEFINE p == [idle EXCEPT !.body_timer = in_body]
    <3>1. /\ p \in Connection /\ p.life = o.life /\ p.fd = o.fd /\ p.state = "IDLE"
          /\ p.recv_buffer = o.recv_buffer /\ p.send_buffer = o.send_buffer
          /\ p.request_count = o.request_count
      BY <2>1 DEF Connection
    <3>2. ~IsClosing(p)
      BY <3>1 DEF IsClosing
    <3>3. obj' = [obj EXCEPT ![c] = p]
      BY <2>4
    <3> HIDE DEF p
    <3> QED BY <1>8, <2>0, <2>4, <3>1, <3>2, <3>3
  <2>5. {FALSE, o.pending} \subseteq BOOLEAN
    BY <1>0 DEF Connection
  <2>6. \/ /\ \E keep \in BOOLEAN :
                  obj' = [obj EXCEPT ![c] = [idle EXCEPT !.keep_alive = keep,
                                                         !.request_count = @ + 1]]
           /\ Goto(w, "handle", "return")
           /\ UNCHANGED <<stage, free_list, posted, completed, connections, open>>
        \/ SendError(w, c, idle, "return")
        \/ /\ \E in_body \in {FALSE, o.pending} :
                  obj' = [obj EXCEPT ![c] = [idle EXCEPT !.body_timer = in_body]]
           /\ Goto(w, "read", "return")
           /\ UNCHANGED <<stage, free_list, posted, completed, connections, open>>
    BY <1>0, <1>11 DEF ToIdle, idle
  <2> QED BY <2>2, <2>3, <2>4, <2>5, <2>6
<1>12. ~(TakeBatch(w) \/ WaitTimeout(w) \/ EndBatch(w) \/ worker[w].pc = "next"
         \/ AfterPost(w) \/ AfterCloseSocket(w) \/ Tail(w) \/ Repost(w))
  BY <1>0 DEF Owning, TakeBatch, WaitTimeout, EndBatch, AfterPost, AfterCloseSocket, Tail, Repost
<1> QED BY <1>0, <1>5, <1>6, <1>7, <1>9, <1>10, <1>11, <1>12 DEF WorkerStep

\* The statement after a post, the rest of close(), and the rest of the handler.
LEMMA LateSteps ==
  ASSUME ActivityInv, NEW w \in Workers, NEW c \in Conns, worker[w].conn = c,
         AfterPost(w) \/ AfterCloseSocket(w) \/ Tail(w)
  PROVE  LateStep(w, c)
<1>0. /\ obj \in [Conns -> Connection] /\ worker \in [Workers -> Worker]
      /\ obj[c] \in Connection /\ free_list \subseteq Bufs
  BY DEF ActivityInv, TypeOK
<1>1. CASE AfterPost(w)
  <2> DEFINE state == IF worker[w].pc = "sent" THEN "SENDING_RESPONSE" ELSE "READING_REQUEST"
  <2>1. PICK o \in Connection : o = [obj[c] EXCEPT !.state = state]
    BY <1>0 DEF Connection, States
  <2>2. /\ o.state = state /\ o.life = obj[c].life /\ o.fd = obj[c].fd
        /\ o.keep_alive = obj[c].keep_alive /\ o.request_count = obj[c].request_count
        /\ o.recv_buffer = obj[c].recv_buffer /\ o.send_buffer = obj[c].send_buffer
    BY <1>0, <2>1 DEF Connection
  <2>3. /\ obj' = [obj EXCEPT ![c] = o]
        /\ worker[w].pc \in {"sent", "receiving"} /\ Goto(w, "tail", worker[w].rest)
        /\ UNCHANGED <<stage, free_list, posted, completed, connections, open>>
    BY <1>0, <1>1, <2>1 DEF AfterPost
  <2>4. obj'[c] = o /\ \A d \in Conns \ {c} : obj'[d] = obj[d]
    BY <1>0, <2>3
  <2>5. OnlyWorker(w) /\ worker'[w].pc = "tail" /\ worker'[w].conn = c
        /\ worker'[w].rest = worker[w].rest
    BY <1>0, <2>3 DEF Goto, Worker, OnlyWorker
  <2>6. ~IsClosing(obj'[c])
    BY <2>2, <2>4 DEF IsClosing
  <2>7. OnlyObject(c) /\ BufferStep(c)
        /\ BufferOf(c, "send")' = BufferOf(c, "send") /\ BufferOf(c, "recv")' = BufferOf(c, "recv")
    BY <2>2, <2>3, <2>4 DEF OnlyObject, BufferStep, BufferOf
  <2> QED BY <2>2, <2>3, <2>4, <2>5, <2>6, <2>7 DEF LateStep
<1>2. CASE AfterCloseSocket(w)
  <2>1. PICK o \in Connection : o = [obj[c] EXCEPT !.fd = None, !.state = "CLOSED"]
    BY <1>0 DEF Connection, States
  <2>2. /\ o.life = obj[c].life /\ o.fd = None
        /\ o.keep_alive = obj[c].keep_alive /\ o.request_count = obj[c].request_count
        /\ o.recv_buffer = obj[c].recv_buffer /\ o.send_buffer = obj[c].send_buffer
    BY <1>0, <2>1 DEF Connection
  <2>3. /\ obj' = [obj EXCEPT ![c] = o]
        /\ worker[w].pc = "closing" /\ Goto(w, "tail", worker[w].rest)
        /\ UNCHANGED <<stage, free_list, posted, completed, connections, open>>
    BY <1>0, <1>2, <2>1 DEF AfterCloseSocket, Closed
  <2>4. obj'[c] = o /\ \A d \in Conns \ {c} : obj'[d] = obj[d]
    BY <1>0, <2>3
  <2>5. OnlyWorker(w) /\ worker'[w].pc = "tail" /\ worker'[w].conn = c
        /\ worker'[w].rest = worker[w].rest
    BY <1>0, <2>3 DEF Goto, Worker, OnlyWorker
  <2>7. OnlyObject(c) /\ BufferStep(c)
        /\ BufferOf(c, "send")' = BufferOf(c, "send") /\ BufferOf(c, "recv")' = BufferOf(c, "recv")
    BY <2>2, <2>3, <2>4 DEF OnlyObject, BufferStep, BufferOf
  <2> QED BY <2>2, <2>3, <2>4, <2>5, <2>7 DEF LateStep
<1>3. CASE Tail(w)
  <2>1. PICK o \in Connection :
          /\ o.life = obj[c].life /\ o.fd = obj[c].fd /\ o.state = obj[c].state
          /\ o.keep_alive = obj[c].keep_alive /\ o.request_count = obj[c].request_count
          /\ o.send_buffer = obj[c].send_buffer
          /\ obj' = [obj EXCEPT ![c] = o]
          /\ IF worker[w].rest = "release_recv"
               THEN /\ o.recv_buffer = None
                    /\ free_list' = free_list \cup Owned(obj[c].recv_buffer)
               ELSE o.recv_buffer = obj[c].recv_buffer /\ free_list' = free_list
    <3>1. CASE worker[w].rest = "release_recv"
      <4>1. PICK o \in Connection : o = [obj[c] EXCEPT !.recv_buffer = None]
        BY <1>0 DEF Connection
      <4>2. /\ o.life = obj[c].life /\ o.fd = obj[c].fd /\ o.state = obj[c].state
            /\ o.keep_alive = obj[c].keep_alive /\ o.request_count = obj[c].request_count
            /\ o.send_buffer = obj[c].send_buffer /\ o.recv_buffer = None
        BY <1>0, <4>1 DEF Connection
      <4>3. /\ obj' = [obj EXCEPT ![c] = o]
            /\ free_list' = free_list \cup Owned(obj[c].recv_buffer)
        BY <1>0, <1>3, <3>1, <4>1 DEF Tail
      <4> QED BY <3>1, <4>2, <4>3
    <3>2. CASE worker[w].rest # "release_recv"
      <4>1. free_list' = free_list /\ obj' = [obj EXCEPT ![c] = obj[c]]
        BY <1>0, <1>3, <3>2 DEF Tail
      <4> QED BY <1>0, <3>2, <4>1
    <3> QED BY <3>1, <3>2
  <2>2. obj'[c] = o /\ \A d \in Conns \ {c} : obj'[d] = obj[d]
    BY <1>0, <2>1
  <2>3. /\ OnlyWorker(w) /\ worker'[w].pc \in {"next", "repost"} /\ worker'[w].conn = None
        /\ worker'[w].rest = "return"
        /\ worker[w].pc = "tail" /\ UNCHANGED <<stage, posted, completed, connections, open>>
    BY <1>0, <1>3 DEF Tail, Return, Worker, OnlyWorker
  <2>4. /\ BufferOf(c, "send")' = BufferOf(c, "send")
        /\ BufferOf(c, "recv") = obj[c].recv_buffer /\ BufferOf(c, "recv")' = o.recv_buffer
    BY <2>1, <2>2 DEF BufferOf
  <2>5. BufferStep(c)
    <3>1. CASE worker[w].rest = "release_recv"
      BY <2>1, <2>4, <3>1 DEF BufferStep, Kinds
    <3>2. CASE worker[w].rest # "release_recv"
      BY <2>1, <2>4, <3>2 DEF BufferStep, Kinds
    <3> QED BY <3>1, <3>2
  <2>6. OnlyObject(c)
    BY <2>1, <2>2 DEF OnlyObject
  <2> QED BY <2>1, <2>2, <2>3, <2>4, <2>5, <2>6 DEF LateStep
<1> QED BY <1>1, <1>2, <1>3

\* A worker turns to a completion other than an accept.
LEMMA EntersSteps ==
  ASSUME ActivityInv, NEW w \in Workers, NEW x \in worker[w].batch, NEW c \in Conns,
         x.conn = c, Dispatch(w, x), ~AcceptComplete(w, x)
  PROVE  x.op # "ACCEPT" /\ EntersStep(w, x, c)
<1>0. /\ obj \in [Conns -> Connection] /\ worker \in [Workers -> Worker]
      /\ obj[c] \in Connection /\ free_list \subseteq Bufs
  BY DEF ActivityInv, TypeOK
<1>1. ASSUME NEW o \in Connection, NEW pc \in {"read", "expired", "bad", "handle", "idle", "shut"},
             NEW rest \in {"return", "release_recv"},
             obj' = [obj EXCEPT ![c] = o], Enter(w, x, c, pc, rest),
             o.life = obj[c].life, o.fd = obj[c].fd, o.state = obj[c].state,
             rest = "release_recv" => pc = "bad",
             x.op = "RECV" => pc # "idle",
             x.op = "SEND" => /\ pc = IF MayReuse(o) THEN "idle" ELSE "shut"
                              /\ o.keep_alive = obj[c].keep_alive
                              /\ o.request_count = obj[c].request_count,
             \/ o.request_count = obj[c].request_count
             \/ /\ x.op = "RECV" /\ pc = "handle"
                /\ o.request_count = obj[c].request_count + 1,
             \/ /\ free_list' = free_list
                /\ o.recv_buffer = obj[c].recv_buffer /\ o.send_buffer = obj[c].send_buffer
             \/ /\ o.recv_buffer = None /\ free_list' = free_list \cup Owned(obj[c].recv_buffer)
                /\ o.send_buffer = obj[c].send_buffer
             \/ /\ o.send_buffer = None /\ free_list' = free_list \cup Owned(obj[c].send_buffer)
                /\ o.recv_buffer = obj[c].recv_buffer,
             UNCHANGED <<stage, posted, completed, connections, open>>
      PROVE  EntersStep(w, x, c)
  <2>1. obj'[c] = o /\ \A d \in Conns \ {c} : obj'[d] = obj[d]
    BY <1>0, <1>1
  <2>2. /\ \A v \in Workers \ {w} : worker'[v] = worker[v]
        /\ worker'[w].batch = worker[w].batch \ {x} /\ worker'[w].conn = c
        /\ worker'[w].pc = pc /\ worker'[w].rest = rest
    BY <1>0, <1>1 DEF Enter, Worker
  <2>3. /\ BufferOf(c, "send") = obj[c].send_buffer /\ BufferOf(c, "recv") = obj[c].recv_buffer
        /\ BufferOf(c, "send")' = o.send_buffer /\ BufferOf(c, "recv")' = o.recv_buffer
    BY <2>1 DEF BufferOf
  <2>4. BufferStep(c)
    BY <1>1, <2>3 DEF BufferStep, Kinds
  <2>5. OnlyObject(c)
    BY <1>1, <2>1 DEF OnlyObject
  <2> QED BY <1>1, <2>1, <2>2, <2>4, <2>5 DEF EntersStep
<1>2. CASE RecvClosed(w, x) \/ RecvError(w, x)
  <2>1. obj' = [obj EXCEPT ![c] = obj[c]]
    BY <1>0, <1>2 DEF RecvClosed, RecvError
  <2> QED BY <1>0, <1>1, <1>2, <2>1 DEF RecvClosed, RecvError
<1>3. CASE RecvMore(w, x)
  <2>1. PICK in_body \in BOOLEAN, pc \in {"read", "expired"} :
          /\ obj' = [obj EXCEPT ![c].body_timer = in_body]
          /\ Enter(w, x, c, pc, "return")
    BY <1>3 DEF RecvMore
  <2>2. PICK o \in Connection : o = [obj[c] EXCEPT !.body_timer = in_body]
    BY <1>0 DEF Connection
  <2>3. /\ o.life = obj[c].life /\ o.fd = obj[c].fd /\ o.state = obj[c].state
        /\ o.request_count = obj[c].request_count
        /\ o.recv_buffer = obj[c].recv_buffer /\ o.send_buffer = obj[c].send_buffer
    BY <1>0, <2>2 DEF Connection
  <2>4. obj' = [obj EXCEPT ![c] = o]
    BY <1>0, <2>1, <2>2
  <2>5. x.op = "RECV" /\ UNCHANGED <<stage, free_list, posted, completed, connections, open>>
    BY <1>3 DEF RecvMore
  <2> QED BY ZenonT(30), <1>1, <2>1, <2>3, <2>4, <2>5
<1>4. CASE RecvRequest(w, x)
  <2>1. PICK keep \in BOOLEAN, more \in BOOLEAN :
          obj' = [obj EXCEPT ![c].recv_buffer = None, ![c].keep_alive = keep,
                             ![c].request_count = @ + 1,
                             ![c].pending = @ \/ more, ![c].body_timer = FALSE]
    BY <1>4 DEF RecvRequest
  <2>2. PICK n \in Nat, p \in BOOLEAN :
          n = obj[c].request_count + 1 /\ p = (obj[c].pending \/ more)
    BY <1>0 DEF Connection
  <2> DEFINE o == [obj[c] EXCEPT !.recv_buffer = None, !.keep_alive = keep,
                                 !.request_count = n, !.pending = p, !.body_timer = FALSE]
  <2>3. /\ o \in Connection
        /\ o.life = obj[c].life /\ o.fd = obj[c].fd /\ o.state = obj[c].state
        /\ o.request_count = n
        /\ o.recv_buffer = None /\ o.send_buffer = obj[c].send_buffer
    BY <1>0 DEF Connection
  <2>4. obj' = [obj EXCEPT ![c] = o]
    BY <1>0, <2>1, <2>2
  <2> HIDE DEF o
  <2>5. /\ x.op = "RECV" /\ Enter(w, x, c, "handle", "return")
        /\ free_list' = free_list \cup Owned(obj[c].recv_buffer)
        /\ UNCHANGED <<stage, posted, completed, connections, open>>
    BY <1>4 DEF RecvRequest
  <2> QED BY <1>1, <2>2, <2>3, <2>4, <2>5
<1>5. CASE SendDone(w, x)
  <2>1. PICK o \in Connection : o = [obj[c] EXCEPT !.send_buffer = None]
    BY <1>0 DEF Connection
  <2>2. /\ o.life = obj[c].life /\ o.fd = obj[c].fd /\ o.state = obj[c].state
        /\ o.request_count = obj[c].request_count /\ o.keep_alive = obj[c].keep_alive
        /\ o.recv_buffer = obj[c].recv_buffer /\ o.send_buffer = None
    BY <1>0, <2>1 DEF Connection
  <2>3. /\ x.op = "SEND" /\ Enter(w, x, c, IF MayReuse(o) THEN "idle" ELSE "shut", "return")
        /\ obj' = [obj EXCEPT ![c] = o]
        /\ free_list' = free_list \cup Owned(obj[c].send_buffer)
        /\ UNCHANGED <<stage, posted, completed, connections, open>>
    BY <1>5, <2>1 DEF SendDone
  <2> QED BY <1>1, <2>2, <2>3
<1>6. x.op # "ACCEPT"
  BY <1>2, <1>3, <1>4, <1>5 DEF Dispatch, RecvClosed, RecvMore, RecvRequest, RecvError, SendDone
<1> QED BY <1>2, <1>3, <1>4, <1>5, <1>6 DEF Dispatch

\* The steps of the gateway, by what they do to connections.
Waits(w) == TakeBatch(w) \/ WaitTimeout(w) \/ EndBatch(w)

\* A step of worker w.
LEMMA WorkerCases ==
  ASSUME ActivityInv, NEW w \in Workers, WorkerStep(w)
  PROVE  \/ \E c \in Conns : Owns(w, c) /\ OwnerStep(w, c)
         \/ \E c \in Conns : worker[w].conn = c /\ LateStep(w, c)
         \/ \E c \in Conns : \E x \in worker[w].batch :
              worker[w].pc = "next" /\ x.conn = c /\ x.op # "ACCEPT" /\ EntersStep(w, x, c)
         \/ \E x \in worker[w].batch : worker[w].pc = "next" /\ AcceptComplete(w, x)
         \/ Waits(w) \/ Repost(w)
<1>0. TypeOK /\ HasConnection
  BY DEF ActivityInv
<1>1. CASE worker[w].pc \in Owning
  <2>1. PICK c \in Conns : c = worker[w].conn
    BY <1>0, <1>1, OwnerPlaces DEF HasConnection
  <2>2. Owns(w, c) /\ obj[c] \in Connection
    BY <1>0, <1>1, <2>1 DEF Owns, TypeOK
  <2>3. OwnerStep(w, c)
    BY <2>2, OwnerSteps
  <2> QED BY <2>2, <2>3
<1>2. CASE AfterPost(w) \/ AfterCloseSocket(w) \/ Tail(w)
  <2>1. worker[w].pc \in Busy
    BY <1>2 DEF AfterPost, AfterCloseSocket, Tail, Busy, Pcs
  <2>2. PICK c \in Conns : c = worker[w].conn
    BY <1>0, <2>1 DEF HasConnection
  <2> QED BY <1>2, <2>2, LateSteps
<1>3. CASE worker[w].pc = "next" /\ \E x \in worker[w].batch : Dispatch(w, x)
  <2>1. PICK x \in worker[w].batch : Dispatch(w, x)
    BY <1>3
  <2>2. CASE AcceptComplete(w, x)
    BY <1>3, <2>2
  <2>3. CASE ~AcceptComplete(w, x)
    <3>1. x.op # "ACCEPT"
      BY <2>1, <2>3 DEF Dispatch, RecvClosed, RecvMore, RecvRequest, RecvError, SendDone
    <3>2. PICK c \in Conns : c = x.conn
      BY <1>0, <3>1 DEF HasConnection, Queued
    <3>3. EntersStep(w, x, c)
      BY <2>1, <2>3, <3>2, EntersSteps
    <3> QED BY <1>3, <3>1, <3>2, <3>3
  <2> QED BY <2>2, <2>3
<1>4. CASE StartReading(w) \/ BodyTimeout(w) \/ BadRequest(w) \/ Respond(w) \/ CallAgent(w)
           \/ AgentReturns(w) \/ CloseNow(w) \/ ToIdle(w)
  <2>1. worker[w].pc \in Owning
    BY <1>4 DEF StartReading, BodyTimeout, BadRequest, Respond, CallAgent, AgentReturns,
                CloseNow, ToIdle, Owning
  <2> QED BY <1>1, <2>1
<1> QED BY <1>2, <1>3, <1>4 DEF WorkerStep, Waits

LEMMA NextCases ==
  ASSUME ActivityInv, [Next]_vars
  PROVE  \/ \E w \in Workers, c \in Conns : Owns(w, c) /\ OwnerStep(w, c)
         \/ \E w \in Workers, c \in Conns : worker[w].conn = c /\ LateStep(w, c)
         \/ \E w \in Workers, c \in Conns : \E x \in worker[w].batch :
              worker[w].pc = "next" /\ x.conn = c /\ x.op # "ACCEPT" /\ EntersStep(w, x, c)
         \/ \E w \in Workers : \E x \in worker[w].batch :
              worker[w].pc = "next" /\ AcceptComplete(w, x)
         \/ \E w \in Workers : Waits(w) \/ Repost(w)
         \/ \E x \in posted : Complete(x)
         \/ Shutdown \/ StopAccepting \/ CloseAll \/ UNCHANGED vars
<1>1. CASE \E w \in Workers : WorkerStep(w)
  BY <1>1, WorkerCases
<1> QED BY <1>1 DEF Next

\* What a step of one worker leaves queued.
LEMMA QueuedAfter ==
  ASSUME NEW w \in Workers, OnlyWorker(w), completed' = completed,
         NEW P, posted' = posted \cup P
  PROVE  Queued' = Queued \cup P
<1>1. \A v \in Workers : worker'[v].batch = worker[v].batch
  BY DEF OnlyWorker
<1> QED BY <1>1 DEF Queued

LEMMA QueuedSame ==
  ASSUME NEW w \in Workers, OnlyWorker(w), completed' = completed, posted' = posted
  PROVE  Queued' = Queued
<1>1. \A v \in Workers : worker'[v].batch = worker[v].batch
  BY DEF OnlyWorker
<1> QED BY <1>1 DEF Queued

\* What one owner of c, or one operation of it, excludes.
LEMMA Alone ==
  ASSUME ActivityInv, NEW w \in Workers, NEW c \in Conns, Owns(w, c)
  PROVE  /\ \A x \in Queued : x.conn # c
         /\ \A v \in Workers \ {w} : ~Owns(v, c)
BY DEF ActivityInv, OneActivity

LEMMA OwnerQueued ==
  ASSUME NEW w \in Workers, NEW c \in Conns, OwnerStep(w, c)
  PROVE  \/ GoesOn(w, c) /\ Queued' = Queued
         \/ ClosesSocket(w, c) /\ Queued' = Queued
         \/ FindsClosed(w, c) /\ Queued' = Queued
         \/ /\ HandsOver(w, c)
            /\ \E y : /\ Queued' = Queued \cup {y} /\ posted' = posted \cup {y}
                      /\ y.op \in {"RECV", "SEND"} /\ y.conn = c
                      /\ y.buf = BufferOf(c, KindOf(y.op))'
                      /\ y.op = "RECV" => worker[w].pc = "read"
<1>1. OnlyWorker(w) /\ completed' = completed
  BY DEF OwnerStep
<1>2. CASE GoesOn(w, c) \/ ClosesSocket(w, c) \/ FindsClosed(w, c)
  <2>1. posted' = posted
    BY <1>2 DEF GoesOn, ClosesSocket, FindsClosed
  <2> QED BY <1>1, <1>2, <2>1, QueuedSame
<1>3. CASE HandsOver(w, c)
  <2>1. PICK op \in {"RECV", "SEND"} :
          /\ posted' = posted \cup {IoOp(op, c, obj[c].fd, BufferOf(c, KindOf(op))')}
          /\ op = "RECV" => worker[w].pc = "read"
    BY <1>3 DEF HandsOver
  <2>2. PICK y : y = IoOp(op, c, obj[c].fd, BufferOf(c, KindOf(op))')
    OBVIOUS
  <2>3. y.op = op /\ y.conn = c /\ y.buf = BufferOf(c, KindOf(op))'
    BY <2>2 DEF IoOp
  <2>4. Queued' = Queued \cup {y} /\ posted' = posted \cup {y}
    BY <1>1, <2>1, <2>2, QueuedAfter
  <2> QED BY <1>3, <2>1, <2>3, <2>4
<1> QED BY <1>2, <1>3 DEF OwnerStep

\* Operations that wait, complete or are taken stay what they are, but for their
\* result.
SameButResult(y, x) == y.op = x.op /\ y.conn = x.conn /\ y.fd = x.fd /\ y.buf = x.buf

LEMMA WaitsQueued ==
  ASSUME ActivityInv, NEW w \in Workers, Waits(w)
  PROVE  /\ Queued' = Queued /\ posted' = posted
         /\ UNCHANGED <<free_list, obj, connections, open>>
         /\ \A v \in Workers : /\ worker'[v].conn = worker[v].conn
                               /\ worker'[v].rest = worker[v].rest
                               /\ \/ worker'[v].pc = worker[v].pc
                                  \/ worker[v].pc \in Outside /\ worker'[v].pc \in Outside
<1>0. worker \in [Workers -> Worker]
  BY DEF ActivityInv, TypeOK
<1>1. UNCHANGED <<posted, free_list, obj, connections, open>>
  BY DEF Waits, TakeBatch, WaitTimeout, EndBatch
<1>2. CASE TakeBatch(w)
  <2>1. PICK batch \in SUBSET completed :
          /\ completed' = completed \ batch
          /\ worker' = [worker EXCEPT ![w].pc = "next", ![w].batch = batch]
    BY <1>2 DEF TakeBatch
  <2>2. /\ \A v \in Workers \ {w} : worker'[v] = worker[v]
        /\ worker'[w].batch = batch /\ worker'[w].pc = "next"
        /\ worker'[w].conn = worker[w].conn /\ worker'[w].rest = worker[w].rest
    BY <1>0, <2>1 DEF Worker
  <2>3. worker[w].pc = "wait" /\ worker[w].batch = {}
    BY <1>2 DEF TakeBatch, ActivityInv, IdleHasNoBatch
  <2>4. Queued' = Queued
    <3>1. ASSUME NEW z, z \in Queued PROVE z \in Queued'
      <4>1. CASE z \in batch
        BY <2>2, <4>1 DEF Queued
      <4>2. CASE z \in posted \cup completed /\ z \notin batch
        BY <1>1, <2>1, <4>2 DEF Queued
      <4>3. ASSUME NEW v \in Workers, z \in worker[v].batch PROVE z \in worker'[v].batch
        BY <2>2, <2>3, <4>3
      <4> QED BY <3>1, <4>1, <4>2, <4>3 DEF Queued
    <3>2. ASSUME NEW z, z \in Queued' PROVE z \in Queued
      <4>1. ASSUME NEW v \in Workers, z \in worker'[v].batch
            PROVE  z \in worker[v].batch \/ z \in completed
        BY <2>1, <2>2, <4>1
      <4> QED BY <1>1, <2>1, <3>2, <4>1 DEF Queued
    <3> QED BY <3>1, <3>2
  <2> QED BY <1>1, <2>2, <2>3, <2>4 DEF Outside
<1>3. CASE WaitTimeout(w) \/ EndBatch(w)
  <2>1. /\ OnlyWorker(w) /\ completed' = completed
        /\ worker'[w].conn = worker[w].conn /\ worker'[w].rest = worker[w].rest
        /\ worker[w].pc \in Outside /\ worker'[w].pc \in Outside
    BY <1>0, <1>3 DEF WaitTimeout, EndBatch, Worker, OnlyWorker, Outside
  <2> QED BY <1>1, <2>1, QueuedSame DEF OnlyWorker
<1> QED BY <1>2, <1>3 DEF Waits

LEMMA RepostQueued ==
  ASSUME ActivityInv, NEW w \in Workers, Repost(w)
  PROVE  /\ UNCHANGED <<stage, free_list, completed, obj, connections>>
         /\ OnlyWorker(w)
         /\ worker[w].pc \in Outside
         /\ worker'[w].pc = "next" /\ worker'[w].conn = None /\ worker'[w].rest = "return"
         /\ \/ Queued' = Queued /\ posted' = posted /\ open' = open
            \/ \E f \in Issuable : \E y :
                 /\ Queued' = Queued \cup {y} /\ posted' = posted \cup {y}
                 /\ y.op = "ACCEPT" /\ y.conn = None /\ y.fd = f
                 /\ open' = open \cup {f}
         /\ \A y \in Queued' : y \in Queued \/ y.op = "ACCEPT"
<1>1. /\ UNCHANGED <<stage, free_list, completed, obj, connections>>
      /\ OnlyWorker(w)
      /\ worker[w].pc \in Outside
      /\ worker'[w].pc = "next" /\ worker'[w].conn = None /\ worker'[w].rest = "return"
  BY DEF Repost, Return, ActivityInv, TypeOK, Worker, OnlyWorker, Outside
<1>2. CASE posted' = posted /\ open' = open
  <2>1. Queued' = Queued
    BY <1>1, <1>2, QueuedSame
  <2> QED BY <1>1, <1>2, <2>1
<1>3. CASE \E f \in Issuable : open' = open \cup {f} /\ posted' = posted \cup {AcceptOp(f)}
  <2>1. PICK f \in Issuable : open' = open \cup {f} /\ posted' = posted \cup {AcceptOp(f)}
    BY <1>3
  <2>2. PICK y : y = AcceptOp(f)
    OBVIOUS
  <2>3. y.op = "ACCEPT" /\ y.conn = None /\ y.fd = f
    BY <2>2 DEF AcceptOp
  <2>4. Queued' = Queued \cup {y} /\ posted' = posted \cup {y}
    BY <1>1, <2>1, <2>2, QueuedAfter
  <2> QED BY <1>1, <2>1, <2>3, <2>4
<1> QED BY <1>2, <1>3 DEF Repost

LEMMA CompleteQueued ==
  ASSUME ActivityInv, NEW x \in posted, Complete(x)
  PROVE  /\ UNCHANGED <<free_list, obj, connections, open, worker>>
         /\ x \in Queued /\ posted' = posted \ {x}
         /\ \E y : /\ SameButResult(y, x) /\ y.res # "pending"
                   /\ completed' = completed \cup {y}
                   /\ y \in Queued' /\ Queued' = (Queued \ {x}) \cup {y}
<1>0. x \in Op /\ x \in Queued /\ x.res = "pending"
  BY DEF ActivityInv, TypeOK, Queued, ResultsComplete
<1>1. PICK res \in {"ok", "eof"} : completed' = completed \cup {[x EXCEPT !.res = res]}
  BY DEF Complete
<1>2. PICK y : y = [x EXCEPT !.res = res]
  OBVIOUS
<1>3. SameButResult(y, x) /\ y.res # "pending"
  BY <1>0, <1>2 DEF Op, SameButResult
<1>4. posted' = posted \ {x} /\ UNCHANGED <<free_list, obj, connections, open, worker>>
  BY DEF Complete
<1>5. x \notin completed /\ \A w \in Workers : x \notin worker[w].batch
  BY <1>0 DEF ActivityInv, ResultsComplete
<1>6. y \in Queued' /\ Queued' = (Queued \ {x}) \cup {y}
  BY <1>1, <1>2, <1>4, <1>5 DEF Queued
<1> QED BY <1>0, <1>1, <1>2, <1>3, <1>4, <1>6

-----------------------------------------------------------------------------
(* How many requests a connection serves.                                  *)

Most == IF MaxRequests = 0 THEN 1 ELSE MaxRequests

\* A connection that reads on, or whose answer lets it go on, has a request left.
CountInv ==
  /\ \A c \in Conns : obj[c].request_count <= Most
  /\ \A x \in Queued : x.op = "RECV" => obj[x.conn].request_count < Most
  /\ \A w \in Workers : worker[w].pc \in {"read", "idle"} =>
       obj[worker[w].conn].request_count < Most

LEMMA CountType ==
  ASSUME ActivityInv
  PROVE  /\ Most \in Nat /\ 0 < Most /\ MaxRequests \in Nat /\ MaxRequests <= Most
         /\ \A c \in Conns : obj[c].request_count \in Nat
         /\ \A x \in Queued : x.op = "RECV" => x.conn \in Conns
         /\ \A w \in Workers : worker[w].pc \in {"read", "idle"} =>
              worker[w].conn \in Conns /\ Owns(w, worker[w].conn)
<1>1. \A c \in Conns : obj[c].request_count \in Nat
  BY DEF ActivityInv, TypeOK, Connection
<1>2. Most \in Nat /\ 0 < Most /\ MaxRequests \in Nat /\ MaxRequests <= Most
  BY GatewayAssumption DEF Most
<1>3. \A w \in Workers : worker[w].pc \in {"read", "idle"} =>
        worker[w].conn \in Conns /\ Owns(w, worker[w].conn)
  BY DEF ActivityInv, HasConnection, Busy, Pcs, Owns, Owning
<1>4. \A x \in Queued : x.op = "RECV" => x.conn \in Conns
  BY DEF ActivityInv, HasConnection
<1> QED BY <1>1, <1>2, <1>3, <1>4

LEMMA OwnerCount ==
  ASSUME ActivityInv, CountInv, NEW w \in Workers, NEW c \in Conns, Owns(w, c), OwnerStep(w, c)
  PROVE  CountInv'
<1>1. /\ \A d \in Conns \ {c} : obj'[d] = obj[d]
      /\ \A v \in Workers \ {w} : worker'[v] = worker[v]
      /\ worker[w].conn = c /\ worker'[w].conn = c
      /\ \/ obj'[c].request_count = obj[c].request_count
         \/ /\ worker[w].pc = "idle" /\ worker'[w].pc = "handle"
            /\ obj'[c].request_count = obj[c].request_count + 1
  BY DEF OwnerStep, OnlyObject, OnlyWorker, Owns
<1>2. \A d \in Conns : obj'[d].request_count <= Most
  BY <1>1, CountType DEF CountInv
<1>3. \A x \in Queued' : x.op = "RECV" => obj'[x.conn].request_count < Most
  <2>1. ASSUME NEW x \in Queued, x.op = "RECV" PROVE obj'[x.conn].request_count < Most
    <3>1. x.conn \in Conns \ {c}
      BY <2>1, CountType, Alone
    <3> QED BY <1>1, <2>1, <3>1 DEF CountInv
  <2>2. ASSUME NEW y, y.conn = c, y.op = "RECV" => worker[w].pc = "read", y.op = "RECV"
        PROVE  obj'[y.conn].request_count < Most
    BY <1>1, <2>2 DEF CountInv
  <2>3. \/ Queued' = Queued
        \/ \E y : Queued' = Queued \cup {y} /\ y.conn = c /\ (y.op = "RECV" => worker[w].pc = "read")
    BY OwnerQueued
  <2> QED BY <2>1, <2>2, <2>3
<1>4. ASSUME NEW v \in Workers, worker'[v].pc \in {"read", "idle"}
      PROVE  obj'[worker'[v].conn].request_count < Most
  <2>1. CASE v = w
    <3>1. worker'[w].pc = "read" /\ worker[w].pc = "idle"
      BY <1>4, <2>1 DEF OwnerStep, GoesOn, HandsOver, ClosesSocket, FindsClosed
    <3> QED BY <1>1, <2>1, <3>1 DEF CountInv
  <2>2. CASE v # w
    <3>1. worker[v].conn \in Conns \ {c}
      BY <1>1, <1>4, <2>2, CountType, Alone
    <3> QED BY <1>1, <1>4, <2>2, <3>1 DEF CountInv
  <2> QED BY <2>1, <2>2
<1> QED BY <1>2, <1>3, <1>4 DEF CountInv

LEMMA LateCount ==
  ASSUME ActivityInv, CountInv, NEW w \in Workers, NEW c \in Conns, worker[w].conn = c,
         LateStep(w, c)
  PROVE  CountInv'
<1>1. /\ \A d \in Conns : obj'[d].request_count = obj[d].request_count
      /\ \A v \in Workers \ {w} : worker'[v] = worker[v]
      /\ worker'[w].pc \notin {"read", "idle"}
      /\ Queued' = Queued
  BY QueuedSame DEF LateStep, OnlyObject, OnlyWorker
<1> QED BY <1>1, CountType DEF CountInv

LEMMA EntersCount ==
  ASSUME ActivityInv, ActivityInv', CountInv, NEW w \in Workers, NEW x \in worker[w].batch,
         NEW c \in Conns, x.conn = c, x.op # "ACCEPT", EntersStep(w, x, c)
  PROVE  CountInv'
<1>1. /\ \A d \in Conns \ {c} : obj'[d] = obj[d]
      /\ \A v \in Workers \ {w} : worker'[v] = worker[v]
      /\ worker'[w].conn = c /\ worker'[w].batch = worker[w].batch \ {x}
      /\ posted' = posted /\ completed' = completed
  BY DEF EntersStep, OnlyObject
<1>2. Queued' \subseteq Queued
  BY <1>1 DEF Queued
<1>3. x \in Queued /\ x.op \in {"RECV", "SEND"}
  BY DEF Queued, ActivityInv, TypeOK, Worker, Op
<1>a. worker'[w].pc \in Owning
  BY DEF EntersStep, Owning
<1>4. Owns(w, c)'
  BY <1>1, <1>a DEF Owns
<1>5. /\ \A y \in Queued' : y.conn # c
      /\ \A v \in Workers \ {w} : ~Owns(v, c)'
  BY <1>4 DEF ActivityInv, OneActivity
<1>6. \A d \in Conns : obj'[d].request_count <= Most
  BY <1>1, <1>3, CountType DEF CountInv, EntersStep
<1>7. \A y \in Queued' : y.op = "RECV" => obj'[y.conn].request_count < Most
  BY <1>1, <1>2, <1>5, CountType DEF CountInv
<1>8. ASSUME worker'[w].pc \in {"read", "idle"}
      PROVE  obj'[c].request_count < Most
  <2>1. CASE x.op = "RECV"
    BY <1>3, <1>8, <2>1 DEF CountInv, EntersStep
  <2>2. CASE x.op = "SEND"
    <3>1. MayReuse(obj'[c])
      BY <1>8, <2>2 DEF EntersStep
    <3> QED BY <1>1, <2>2, <3>1, CountType DEF MayReuse, EntersStep
  <2> QED BY <1>3, <2>1, <2>2
<1>9. ASSUME NEW v \in Workers, worker'[v].pc \in {"read", "idle"}
      PROVE  obj'[worker'[v].conn].request_count < Most
  <2>1. CASE v = w
    BY <1>1, <1>8, <1>9, <2>1
  <2>2. CASE v # w
    <3>1. worker[v].conn \in Conns /\ worker[v].pc \in Owning
      BY <1>1, <1>9, <2>2, CountType DEF Owns
    <3>2. worker[v].conn # c
      BY <1>1, <1>5, <2>2, <3>1 DEF Owns
    <3> QED BY <1>1, <1>9, <2>2, <3>1, <3>2 DEF CountInv
  <2> QED BY <2>1, <2>2
<1> QED BY <1>6, <1>7, <1>9 DEF CountInv

LEMMA NextCount == ASSUME ActivityInv, CountInv, [Next]_vars PROVE CountInv'
<1>0. ActivityInv'
  BY NextActivity
<1>1. ASSUME NEW w \in Workers, NEW x \in worker[w].batch, AcceptComplete(w, x)
      PROVE  CountInv'
  <2>1. PICK c \in Conns :
          /\ \A v \in Workers : worker[v].conn # c
          /\ \A y \in Queued : y.conn # c
          /\ obj' = [d \in Conns |->
                       IF d = c THEN [NewConnection(x.fd) EXCEPT !.state = "READING_REQUEST"]
                       ELSE IF d = connections[x.fd] THEN NoConnection ELSE obj[d]]
          /\ Enter(w, x, c, "read", "repost")
    BY <1>1 DEF AcceptComplete
  <2>2. /\ \A d \in Conns : obj'[d].request_count \in {0, obj[d].request_count}
        /\ obj'[c].request_count = 0
    BY <2>1 DEF NewConnection, NoConnection
  <2>3. /\ \A v \in Workers \ {w} : worker'[v] = worker[v]
        /\ worker'[w].batch \subseteq worker[w].batch /\ worker'[w].conn = c
    BY <2>1 DEF ActivityInv, TypeOK, Enter, Worker
  <2>4. Queued' \subseteq Queued
    BY <1>1, <2>3 DEF AcceptComplete, Queued
  <2>5. \A d \in Conns : obj'[d].request_count <= Most
    BY <2>2, CountType DEF CountInv
  <2>6. \A y \in Queued' : y.op = "RECV" => obj'[y.conn].request_count < Most
    BY <2>2, <2>4, CountType DEF CountInv
  <2>7. \A v \in Workers : worker'[v].pc \in {"read", "idle"} =>
          obj'[worker'[v].conn].request_count < Most
    BY <2>2, <2>3, CountType DEF CountInv
  <2> QED BY <2>5, <2>6, <2>7 DEF CountInv
<1>2. ASSUME NEW w \in Workers, Waits(w) PROVE CountInv'
  <2>1. /\ Queued' = Queued /\ obj' = obj
        /\ \A v \in Workers : worker'[v].pc \in {"read", "idle"} =>
             worker'[v].conn = worker[v].conn /\ worker[v].pc = worker'[v].pc
    BY <1>2, WaitsQueued DEF Outside
  <2> QED BY <2>1 DEF CountInv
<1>3. ASSUME NEW w \in Workers, Repost(w) PROVE CountInv'
  <2>1. /\ \A y \in Queued' : y \in Queued \/ y.op = "ACCEPT"
        /\ obj' = obj /\ OnlyWorker(w) /\ worker'[w].pc = "next"
    BY <1>3, RepostQueued
  <2> QED BY <2>1 DEF CountInv, OnlyWorker
<1>4. ASSUME NEW x \in posted, Complete(x) PROVE CountInv'
  <2>1. /\ \A y \in Queued' : \E z \in Queued : SameButResult(y, z)
        /\ obj' = obj /\ worker' = worker
    BY <1>4, CompleteQueued DEF SameButResult
  <2> QED BY <2>1 DEF CountInv, SameButResult
<1>5. CASE Shutdown \/ StopAccepting \/ UNCHANGED vars
  BY <1>5 DEF Shutdown, StopAccepting, vars, CountInv, Queued
<1>6. CASE CloseAll
  <2>1. /\ worker' = worker /\ Queued' \subseteq Queued
        /\ obj' = [c \in Conns |-> NoConnection]
    BY <1>6 DEF CloseAll, Queued
  <2>2. \A c \in Conns : obj'[c].request_count = 0
    BY <2>1 DEF NoConnection, NewConnection
  <2> QED BY <2>1, <2>2, CountType DEF CountInv
<1> QED BY <1>0, <1>1, <1>2, <1>3, <1>4, <1>5, <1>6, NextCases, OwnerCount, LateCount, EntersCount

\* No connection ever serves more requests than MAX_KEEPALIVE_REQUESTS (and one,
\* if that is zero), pipelined requests included.
THEOREM KeepAliveBoundHolds == Spec => []KeepAliveBound
<1>1. Init => ActivityInv
  BY InitActivity
<1>2. Init => CountInv
  <2> SUFFICES ASSUME Init PROVE CountInv
    OBVIOUS
  <2>1. Most \in Nat /\ 0 < Most
    BY <1>1, CountType
  <2>2. \A c \in Conns : obj[c].request_count = 0
    BY DEF Init, NoConnection, NewConnection
  <2>3. \A x \in Queued : x.op = "ACCEPT"
    BY DEF Init, Queued, AcceptOp
  <2>4. \A w \in Workers : worker[w].pc = "wait"
    BY DEF Init
  <2> QED BY <2>1, <2>2, <2>3, <2>4 DEF CountInv
<1>3. ActivityInv /\ CountInv /\ [Next]_vars => ActivityInv' /\ CountInv'
  BY NextActivity, NextCount
<1>4. CountInv => KeepAliveBound
  BY DEF CountInv, KeepAliveBound, Most
<1> QED BY <1>1, <1>2, <1>3, <1>4, PTL DEF Spec

-----------------------------------------------------------------------------
(* Who refers to a connection, and who owns its handle.  From here on the  *)
(* OS does not issue a handle while a worker is in its last connection.    *)

\* A connection is worked on: an operation of it is queued, or a worker owns it.
Working(c) == (\E x \in Queued : x.conn = c) \/ \E w \in Workers : Owns(w, c)

\* A worker is between closesocket() and the assignment of fd_.
ClosingBy(w, c) == worker[w].pc = "closing" /\ worker[w].conn = c

\* connections_ and fd_ agree, and what a worker or the map refers to is live.
MapInv ==
  /\ \A f \in Fds : connections[f] # None => obj[connections[f]].life = "live"
  /\ \A f, g \in Fds : connections[f] # None /\ connections[f] = connections[g] => f = g
  /\ \A c \in Conns : obj[c].fd # None => connections[obj[c].fd] = c
  /\ \A w \in Workers : worker[w].pc \in Outside => worker[w].conn = None
  /\ \A w \in Workers : worker[w].conn # None => obj[worker[w].conn].life = "live"

\* A connection that is worked on has its handle open.  One that has a handle is
\* worked on, unless its worker has just closed the handle.
WorkInv ==
  /\ \A c \in Conns : Working(c) =>
       obj[c].life = "live" /\ obj[c].fd \in open /\ ~IsClosing(obj[c])
  /\ \A w \in Workers, c \in Conns : ClosingBy(w, c) => ~Working(c) /\ obj[c].fd \notin open
  /\ \A c \in Conns : obj[c].fd # None => Working(c) \/ \E w \in Workers : ClosingBy(w, c)

\* A handle waits in one accept, open, and nobody refers to its last connection.
AcceptInv ==
  \A x \in Queued : x.op = "ACCEPT" =>
    /\ x.fd \in open /\ x.conn = None
    /\ \A y \in Queued : y.op = "ACCEPT" /\ y.fd = x.fd => y = x
    /\ connections[x.fd] # None =>
         /\ obj[connections[x.fd]].fd = None
         /\ \A w \in Workers : worker[w].conn # connections[x.fd]

\* An accepted handle is in one place: the port or one batch.
AcceptOnce ==
  \A w \in Workers : \A x \in worker[w].batch : x.op = "ACCEPT" =>
    /\ x \notin completed
    /\ \A v \in Workers \ {w} : x \notin worker[v].batch

OwnInv == MapInv /\ WorkInv /\ AcceptInv /\ AcceptOnce

LEMMA Kinds3 ==
  ASSUME ActivityInv
  PROVE  /\ None \notin Conns /\ None \notin Fds /\ None \notin Bufs
         /\ \A c \in Conns : obj[c].fd \in Fds \cup {None}
         /\ \A f \in Fds : connections[f] \in Conns \cup {None}
         /\ \A w \in Workers : worker[w].conn \in Conns \cup {None}
         /\ \A x \in Queued : x.fd \in Fds /\ x.conn \in Conns \cup {None}
         /\ open \subseteq Fds
<1>1. /\ None \notin Conns /\ None \notin Fds /\ None \notin Bufs
      /\ open \subseteq Fds /\ connections \in [Fds -> Conns \cup {None}]
  BY GatewayAssumption DEF ActivityInv, TypeOK
<1>2. \A c \in Conns : obj[c].fd \in Fds \cup {None}
  BY DEF ActivityInv, TypeOK, Connection
<1>3. \A w \in Workers : worker[w].conn \in Conns \cup {None}
  BY DEF ActivityInv, TypeOK, Worker
<1>4. \A x \in Queued : x.fd \in Fds /\ x.conn \in Conns \cup {None}
  BY QueuedType DEF ActivityInv, Op
<1> QED BY <1>1, <1>2, <1>3, <1>4

LEMMA OwnerOwned ==
  ASSUME ActivityInv, OwnInv, NEW w \in Workers, NEW c \in Conns, Owns(w, c), OwnerStep(w, c)
  PROVE  OwnInv'
<1>0. /\ worker[w].conn = c /\ worker'[w].conn = c
      /\ obj'[c].life = obj[c].life /\ obj'[c].fd = obj[c].fd
      /\ \A d \in Conns \ {c} : obj'[d] = obj[d]
      /\ \A v \in Workers \ {w} : worker'[v] = worker[v]
      /\ worker'[w].batch = worker[w].batch
      /\ completed' = completed /\ connections' = connections
  BY DEF OwnerStep, OnlyObject, OnlyWorker, Owns
<1>1. Working(c) /\ obj[c].fd \in open /\ ~IsClosing(obj[c]) /\ obj[c].life = "live"
  BY DEF Working, OwnInv, WorkInv
<1>2. \/ GoesOn(w, c) /\ Queued' = Queued
      \/ ClosesSocket(w, c) /\ Queued' = Queued
      \/ HandsOver(w, c) /\ \E y : /\ Queued' = Queued \cup {y}
                                   /\ y.op # "ACCEPT" /\ y.conn = c
  BY <1>1, OwnerQueued DEF FindsClosed
<1>3. worker[w].pc \in Owning /\ worker'[w].pc \notin Outside
  BY <1>2 DEF Owns, GoesOn, HandsOver, ClosesSocket, Outside
<1>4. ASSUME NEW d \in Conns \ {c}
      PROVE  Working(d)' <=> Working(d)
  <2>1. \A v \in Workers : Owns(v, d)' <=> Owns(v, d)
    BY <1>0 DEF Owns
  <2>2. (\E x \in Queued' : x.conn = d) <=> (\E x \in Queued : x.conn = d)
    BY <1>2
  <2> QED BY <2>1, <2>2 DEF Working
<1>5. open' = open \/ open' = open \ {obj[c].fd}
  BY <1>1, <1>2, Kinds3 DEF GoesOn, HandsOver, ClosesSocket, Owned
<1>6. \A d \in Conns \ {c} : obj[d].fd \in open => obj[d].fd \in open'
  BY <1>1, <1>5, Kinds3 DEF OwnInv, MapInv
<1>7. MapInv'
  <2>1. \A d \in Conns : obj'[d].life = obj[d].life /\ obj'[d].fd = obj[d].fd
    BY <1>0
  <2>2. \A v \in Workers : /\ worker'[v].conn = worker[v].conn
                           /\ worker'[v].pc \in Outside => worker[v].pc \in Outside
    BY <1>0, <1>3
  <2> QED BY <1>0, <2>1, <2>2, Kinds3 DEF OwnInv, MapInv
<1>8. WorkInv'
  <2>1. CASE worker'[w].pc = "closing"
    <3>1. ClosesSocket(w, c) /\ Queued' = Queued /\ open' = open \ {obj[c].fd}
      BY <1>1, <1>2, <2>1, Kinds3 DEF GoesOn, HandsOver, ClosesSocket, Owned
    <3>2. ~Working(c)'
      <4>1. \A x \in Queued' : x.conn # c
        BY <3>1, Alone
      <4>2. \A v \in Workers : ~Owns(v, c)'
        BY <1>0, <2>1, Alone DEF Owns, Owning
      <4> QED BY <4>1, <4>2 DEF Working
    <3>3. ClosingBy(w, c)'
      BY <1>0, <2>1 DEF ClosingBy
    <3>4. ASSUME NEW v \in Workers, NEW d \in Conns, ClosingBy(v, d)', v # w
          PROVE  ClosingBy(v, d) /\ d # c
      <4>1. ClosingBy(v, d)
        BY <1>0, <3>4 DEF ClosingBy
      <4> QED BY <1>1, <4>1 DEF OwnInv, WorkInv
    <3>5. \A v \in Workers, d \in Conns : ClosingBy(v, d) => ClosingBy(v, d)'
      BY <1>0, <1>3 DEF ClosingBy, Owning
    <3>6. \A v \in Workers, d \in Conns : ClosingBy(v, d)' => ~Working(d)' /\ obj'[d].fd \notin open'
      BY <1>0, <1>4, <3>1, <3>2, <3>4 DEF ClosingBy, OwnInv, WorkInv
    <3>7. \A d \in Conns : Working(d)' =>
            obj'[d].life = "live" /\ obj'[d].fd \in open' /\ ~IsClosing(obj'[d])
      BY <1>0, <1>4, <1>6, <3>2 DEF OwnInv, WorkInv
    <3>8. \A d \in Conns : obj'[d].fd # None => Working(d)' \/ \E v \in Workers : ClosingBy(v, d)'
      BY <1>0, <1>4, <3>3, <3>5 DEF OwnInv, WorkInv
    <3> QED BY <3>6, <3>7, <3>8 DEF WorkInv
  <2>2. CASE worker'[w].pc # "closing"
    <3>1. /\ GoesOn(w, c) \/ HandsOver(w, c)
          /\ open' = open /\ ~IsClosing(obj'[c])
      BY <1>1, <1>2, <2>2 DEF GoesOn, HandsOver, ClosesSocket
    <3>2. Working(c)'
      <4>1. CASE GoesOn(w, c)
        BY <1>0, <4>1 DEF GoesOn, Working, Owns, Owning
      <4>2. CASE ~GoesOn(w, c)
        BY <1>2, <2>2, <4>2 DEF ClosesSocket, Working
      <4> QED BY <4>1, <4>2
    <3>3. \A v \in Workers, d \in Conns : ClosingBy(v, d)' => ClosingBy(v, d) /\ d # c
      BY <1>0, <1>1, <2>2 DEF ClosingBy, OwnInv, WorkInv
    <3>4. \A v \in Workers, d \in Conns : ClosingBy(v, d) => ClosingBy(v, d)'
      BY <1>0, <1>3 DEF ClosingBy, Owning
    <3>5. \A v \in Workers, d \in Conns : ClosingBy(v, d)' => ~Working(d)' /\ obj'[d].fd \notin open'
      BY <1>0, <1>4, <3>1, <3>3 DEF OwnInv, WorkInv
    <3>6. \A d \in Conns : Working(d)' =>
            obj'[d].life = "live" /\ obj'[d].fd \in open' /\ ~IsClosing(obj'[d])
      BY <1>0, <1>1, <1>4, <3>1 DEF OwnInv, WorkInv
    <3>7. \A d \in Conns : obj'[d].fd # None => Working(d)' \/ \E v \in Workers : ClosingBy(v, d)'
      BY <1>0, <1>4, <3>2, <3>4 DEF OwnInv, WorkInv
    <3> QED BY <3>5, <3>6, <3>7 DEF WorkInv
  <2> QED BY <2>1, <2>2
<1>9. AcceptInv'
  <2>1. \A x \in Queued' : x.op = "ACCEPT" => x \in Queued
    BY <1>2
  <2>2. \A x \in Queued : x.op = "ACCEPT" => x.fd \in open'
    <3> SUFFICES ASSUME NEW x \in Queued, x.op = "ACCEPT" PROVE x.fd # obj[c].fd
      BY <1>5 DEF OwnInv, AcceptInv
    <3> QED BY <1>1, Kinds3 DEF OwnInv, AcceptInv, MapInv
  <2>3. \A v \in Workers : worker'[v].conn = worker[v].conn
    BY <1>0
  <2>4. \A d \in Conns : obj'[d].fd = obj[d].fd
    BY <1>0
  <2> QED BY <1>0, <2>1, <2>2, <2>3, <2>4, Kinds3 DEF OwnInv, AcceptInv
<1>10. AcceptOnce'
  BY <1>0 DEF OwnInv, AcceptOnce
<1> QED BY <1>7, <1>8, <1>9, <1>10 DEF OwnInv

LEMMA LateOwned ==
  ASSUME ActivityInv, OwnInv, NEW w \in Workers, NEW c \in Conns, worker[w].conn = c,
         LateStep(w, c)
  PROVE  OwnInv'
<1>0. /\ obj'[c].life = obj[c].life
      /\ \A d \in Conns \ {c} : obj'[d] = obj[d]
      /\ \A v \in Workers \ {w} : worker'[v] = worker[v]
      /\ worker'[w].batch = worker[w].batch
      /\ posted' = posted /\ completed' = completed
      /\ connections' = connections /\ open' = open
  BY DEF LateStep, OnlyObject, OnlyWorker
<1>1. Queued' = Queued
  BY <1>0, QueuedSame DEF LateStep
<1>2. /\ worker[w].pc \in {"sent", "receiving", "closing", "tail"}
      /\ worker'[w].pc \in {"tail", "next", "repost"}
      /\ worker'[w].conn \in {c, None}
      /\ worker'[w].pc \in Outside => worker'[w].conn = None
      /\ obj'[c].fd = IF worker[w].pc = "closing" THEN None ELSE obj[c].fd
      /\ worker[w].pc = "closing" \/ (IsClosing(obj'[c]) => IsClosing(obj[c]))
  BY DEF LateStep, Outside, IsClosing
<1>3. \A v \in Workers, d \in Conns : Owns(v, d)' <=> Owns(v, d)
  BY <1>0, <1>2 DEF Owns, Owning
<1>4. \A d \in Conns : Working(d)' <=> Working(d)
  BY <1>1, <1>3 DEF Working
<1>5. ASSUME NEW v \in Workers, NEW d \in Conns, ClosingBy(v, d)'
      PROVE  ClosingBy(v, d) /\ v # w
  BY <1>0, <1>2, <1>5 DEF ClosingBy
<1>6. ASSUME NEW v \in Workers, NEW d \in Conns, ClosingBy(v, d), obj'[d].fd # None
      PROVE  ClosingBy(v, d)'
  BY <1>0, <1>2, <1>6 DEF ClosingBy
<1>7. MapInv'
  <2>1. \A d \in Conns : obj'[d].life = obj[d].life /\ obj'[d].fd \in {obj[d].fd, None}
    BY <1>0, <1>2
  <2>2. \A v \in Workers : /\ worker'[v].conn \in {worker[v].conn, None}
                           /\ worker'[v].pc \in Outside => worker'[v].conn = None
    BY <1>0, <1>2 DEF OwnInv, MapInv
  <2> QED BY <1>0, <2>1, <2>2, Kinds3 DEF OwnInv, MapInv
<1>8. WorkInv'
  <2>1. worker[w].pc = "closing" => ~Working(c)
    BY DEF ClosingBy, OwnInv, WorkInv
  <2>2. \A d \in Conns : Working(d)' =>
          obj'[d].life = "live" /\ obj'[d].fd \in open' /\ ~IsClosing(obj'[d])
    BY <1>0, <1>2, <1>4, <2>1 DEF OwnInv, WorkInv
  <2>3. \A v \in Workers, d \in Conns : ClosingBy(v, d)' => ~Working(d)' /\ obj'[d].fd \notin open'
    <3> SUFFICES ASSUME NEW v \in Workers, NEW d \in Conns, ClosingBy(v, d)'
                 PROVE  ~Working(d)' /\ obj'[d].fd \notin open'
      OBVIOUS
    <3>1. ~Working(d)' /\ obj[d].fd \notin open
      BY <1>4, <1>5 DEF OwnInv, WorkInv
    <3> QED BY <1>0, <1>2, <3>1, Kinds3
  <2>4. \A d \in Conns : obj'[d].fd # None => Working(d)' \/ \E v \in Workers : ClosingBy(v, d)'
    <3> SUFFICES ASSUME NEW d \in Conns, obj'[d].fd # None
                 PROVE  Working(d)' \/ \E v \in Workers : ClosingBy(v, d)'
      OBVIOUS
    <3>1. obj[d].fd # None
      BY <1>0, <1>2
    <3> QED BY <1>4, <1>6, <3>1 DEF OwnInv, WorkInv
  <2> QED BY <2>2, <2>3, <2>4 DEF WorkInv
<1>9. AcceptInv'
  <2>1. \A v \in Workers : worker'[v].conn \in {worker[v].conn, None}
    BY <1>0, <1>2
  <2>2. \A d \in Conns : obj'[d].fd \in {obj[d].fd, None}
    BY <1>0, <1>2
  <2> QED BY <1>0, <1>1, <2>1, <2>2, Kinds3 DEF OwnInv, AcceptInv
<1>10. AcceptOnce'
  BY <1>0 DEF OwnInv, AcceptOnce
<1> QED BY <1>7, <1>8, <1>9, <1>10 DEF OwnInv

LEMMA EntersOwned ==
  ASSUME ActivityInv, OwnInv, NEW w \in Workers, NEW x \in worker[w].batch,
         NEW c \in Conns, worker[w].pc = "next", x.conn = c, EntersStep(w, x, c)
  PROVE  OwnInv'
<1>0. /\ obj'[c].life = obj[c].life /\ obj'[c].fd = obj[c].fd /\ obj'[c].state = obj[c].state
      /\ \A d \in Conns \ {c} : obj'[d] = obj[d]
      /\ \A v \in Workers \ {w} : worker'[v] = worker[v]
      /\ worker'[w].batch = worker[w].batch \ {x} /\ worker'[w].conn = c
      /\ worker'[w].pc \in Owning \ (Outside \cup {"closing"})
      /\ posted' = posted /\ completed' = completed
      /\ connections' = connections /\ open' = open
  BY DEF EntersStep, OnlyObject, Owning, Outside
<1>1. Queued' \subseteq Queued /\ x \in Queued
  BY <1>0 DEF Queued
<1>2. \A y \in Queued : y # x => y \in Queued'
  BY <1>0 DEF Queued
<1>3. Working(c) /\ Working(c)' /\ worker[w].conn = None /\ ~IsClosing(obj'[c])
  BY <1>0, <1>1 DEF Working, Owns, OwnInv, WorkInv, MapInv, Outside, IsClosing
<1>4. obj[c].fd \in open /\ obj[c].life = "live"
  BY <1>3 DEF OwnInv, WorkInv
<1>5. ASSUME NEW d \in Conns \ {c}
      PROVE  Working(d)' <=> Working(d)
  <2>1. \A v \in Workers : Owns(v, d)' <=> Owns(v, d)
    BY <1>0, <1>3, Kinds3 DEF Owns
  <2>2. (\E y \in Queued' : y.conn = d) <=> (\E y \in Queued : y.conn = d)
    BY <1>1, <1>2
  <2> QED BY <2>1, <2>2 DEF Working
<1>6. \A v \in Workers, d \in Conns : ClosingBy(v, d)' <=> ClosingBy(v, d)
  BY <1>0 DEF ClosingBy
<1>7. MapInv'
  <2>1. \A d \in Conns : obj'[d].life = obj[d].life /\ obj'[d].fd = obj[d].fd
    BY <1>0
  <2>2. \A v \in Workers : \/ worker'[v] = worker[v]
                           \/ worker'[v].conn = c /\ worker'[v].pc \notin Outside
    BY <1>0
  <2> QED BY <1>0, <1>4, <2>1, <2>2, Kinds3 DEF OwnInv, MapInv
<1>8. WorkInv'
  <2>1. \A d \in Conns : Working(d)' =>
          obj'[d].life = "live" /\ obj'[d].fd \in open' /\ ~IsClosing(obj'[d])
    BY <1>0, <1>3, <1>4, <1>5 DEF OwnInv, WorkInv
  <2>2. \A v \in Workers, d \in Conns : ClosingBy(v, d)' => ~Working(d)' /\ obj'[d].fd \notin open'
    BY <1>0, <1>3, <1>5, <1>6 DEF OwnInv, WorkInv
  <2>3. \A d \in Conns : obj'[d].fd # None => Working(d)' \/ \E v \in Workers : ClosingBy(v, d)'
    BY <1>0, <1>3, <1>5, <1>6 DEF OwnInv, WorkInv
  <2> QED BY <2>1, <2>2, <2>3 DEF WorkInv
<1>9. AcceptInv'
  <2>1. \A d \in Conns : obj'[d].fd = obj[d].fd
    BY <1>0
  <2>2. \A v \in Workers : worker'[v].conn \in {worker[v].conn, c}
    BY <1>0
  <2>3. \A y \in Queued : y.op = "ACCEPT" => connections[y.fd] # c
    BY <1>4, Kinds3 DEF OwnInv, AcceptInv
  <2> QED BY <1>0, <1>1, <2>1, <2>2, <2>3, Kinds3 DEF OwnInv, AcceptInv
<1>10. AcceptOnce'
  BY <1>0 DEF OwnInv, AcceptOnce
<1> QED BY <1>7, <1>8, <1>9, <1>10 DEF OwnInv

LEMMA AcceptOwned ==
  ASSUME ActivityInv, OwnInv, NEW w \in Workers, NEW x \in worker[w].batch,
         worker[w].pc = "next", AcceptComplete(w, x)
  PROVE  OwnInv'
<1> DEFINE f == x.fd
           old == connections[f]
<1>a. /\ x \in Queued /\ f \in Fds /\ x.op = "ACCEPT" /\ x.conn = None /\ x.res # "pending"
      /\ worker[w].conn = None /\ None \notin Conns /\ None \notin Fds
  BY Kinds3 DEF Queued, AcceptComplete, ActivityInv, ResultsComplete, OwnInv, AcceptInv, MapInv,
                Outside
<1>b. /\ f \in open
      /\ \A y \in Queued : y.op = "ACCEPT" /\ y.fd = f => y = x
      /\ old # None => obj[old].fd = None /\ \A v \in Workers : worker[v].conn # old
      /\ old \in Conns \cup {None}
  BY <1>a, Kinds3 DEF OwnInv, AcceptInv
<1>c. PICK c \in Conns :
        /\ obj[c].life # "live"
        /\ \A v \in Workers : worker[v].conn # c
        /\ \A y \in Queued : y.conn # c
        /\ obj' = [d \in Conns |->
                     IF d = c THEN [NewConnection(f) EXCEPT !.state = "READING_REQUEST"]
                     ELSE IF d = old THEN NoConnection ELSE obj[d]]
        /\ connections' = [connections EXCEPT ![f] = c]
        /\ Enter(w, x, c, "read", "repost")
  BY DEF AcceptComplete
<1>d. ASSUME NEW g \in Fds PROVE connections[g] # c
  <2>1. connections[g] # None => obj[connections[g]].life = "live"
    BY DEF OwnInv, MapInv
  <2> QED BY <1>a, <1>c, <2>1
<1> HIDE DEF f, old
<1>1. /\ obj'[c].life = "live" /\ obj'[c].fd = f /\ obj'[c].state = "READING_REQUEST"
      /\ ~IsClosing(obj'[c])
  BY <1>c DEF NewConnection, IsClosing
<1>2. /\ \A d \in Conns \ {c, old} : obj'[d] = obj[d]
      /\ old # c
      /\ old # None => obj'[old].fd = None
  BY <1>a, <1>b, <1>c, <1>d DEF NewConnection, NoConnection, old
<1>3. connections'[f] = c /\ \A g \in Fds \ {f} : connections'[g] = connections[g]
  BY <1>a, <1>c DEF ActivityInv, TypeOK
<1>4. /\ \A v \in Workers \ {w} : worker'[v] = worker[v]
      /\ worker'[w].batch = worker[w].batch \ {x} /\ worker'[w].conn = c
      /\ worker'[w].pc = "read"
  BY <1>c DEF ActivityInv, TypeOK, Enter, Worker
<1>5. posted' = posted /\ completed' = completed /\ open' = open
  <2>1. old # None => open' = open \ Owned(obj[old].fd)
    BY DEF AcceptComplete, old, f
  <2>2. old = None => open' = open
    BY DEF AcceptComplete, old, f
  <2>3. posted' = posted /\ completed' = completed
    BY DEF AcceptComplete
  <2> QED BY <1>b, <2>1, <2>2, <2>3 DEF Owned
<1>6. Queued' = Queued \ {x}
  <2>1. x \notin posted /\ x \notin completed /\ \A v \in Workers \ {w} : x \notin worker[v].batch
    BY <1>a DEF OwnInv, AcceptOnce, ActivityInv, ResultsComplete
  <2>2. ASSUME NEW z, z \in Queued' PROVE z \in Queued \ {x}
    <3>1. ASSUME NEW v \in Workers, z \in worker'[v].batch
          PROVE  z \in worker[v].batch /\ z # x
      BY <1>4, <2>1, <3>1
    <3> QED BY <1>5, <2>1, <2>2, <3>1 DEF Queued
  <2>3. ASSUME NEW z, z \in Queued \ {x} PROVE z \in Queued'
    <3>1. ASSUME NEW v \in Workers, z \in worker[v].batch
          PROVE  z \in worker'[v].batch
      BY <1>4, <2>3, <3>1
    <3> QED BY <1>5, <2>3, <3>1 DEF Queued
  <2> QED BY <2>2, <2>3
<1>7. ASSUME NEW d \in Conns \ {c}
      PROVE  Working(d)' <=> Working(d)
  <2>1. \A v \in Workers : Owns(v, d)' <=> Owns(v, d)
    BY <1>4, <1>a DEF Owns
  <2>2. (\E y \in Queued' : y.conn = d) <=> (\E y \in Queued : y.conn = d)
    BY <1>6, <1>a
  <2> QED BY <2>1, <2>2 DEF Working
<1>8. Working(c)' /\ \A d \in Conns \ {c} : d = old => ~Working(d)'
  <2>1. Working(c)'
    BY <1>4 DEF Working, Owns, Owning
  <2>2. ASSUME NEW d \in Conns \ {c}, d = old PROVE ~Working(d)'
    <3>1. obj[d].fd \notin open
      BY <1>a, <1>b, <2>2, Kinds3
    <3>2. ~Working(d)
      BY <3>1 DEF OwnInv, WorkInv
    <3> QED BY <1>7, <3>2
  <2> QED BY <2>1, <2>2
<1>9. ASSUME NEW v \in Workers, NEW d \in Conns
      PROVE  /\ ClosingBy(v, d)' <=> ClosingBy(v, d)
             /\ ClosingBy(v, d) => d # c /\ d # old
  BY <1>4, <1>a, <1>b, <1>c DEF ClosingBy
<1>10. MapInv'
  <2>1. \A g \in Fds \ {f} : connections[g] # None => connections[g] \in Conns \ {c, old}
    BY <1>d, <1>a, Kinds3 DEF OwnInv, MapInv, old
  <2>2. \A g \in Fds : connections'[g] # None => obj'[connections'[g]].life = "live"
    BY <1>1, <1>2, <1>3, <2>1 DEF OwnInv, MapInv
  <2>3. \A g, h \in Fds : connections'[g] # None /\ connections'[g] = connections'[h] => g = h
    BY <1>3, <2>1 DEF OwnInv, MapInv
  <2>4. ASSUME NEW d \in Conns, obj'[d].fd # None PROVE connections'[obj'[d].fd] = d
    <3>1. CASE d = c
      BY <1>1, <1>3, <3>1
    <3>2. CASE d # c
      <4>1. d # old /\ obj'[d] = obj[d]
        BY <1>2, <1>a, <2>4, <3>2
      <4>2. connections[obj[d].fd] = d /\ obj[d].fd \in Fds
        BY <2>4, <4>1, Kinds3 DEF OwnInv, MapInv
      <4>3. obj[d].fd # f
        BY <4>1, <4>2 DEF old
      <4> QED BY <1>3, <4>1, <4>2, <4>3
    <3> QED BY <3>1, <3>2
  <2>5. \A v \in Workers : worker'[v].pc \in Outside => worker'[v].conn = None
    BY <1>4 DEF OwnInv, MapInv, Outside
  <2>6. ASSUME NEW v \in Workers, worker'[v].conn # None
        PROVE  obj'[worker'[v].conn].life = "live"
    <3>1. CASE v = w
      BY <1>1, <1>4, <3>1
    <3>2. CASE v # w
      <4>1. worker'[v] = worker[v] /\ worker[v].conn \in Conns \ {c, old}
        BY <1>4, <1>b, <1>c, <2>6, <3>2, Kinds3
      <4> QED BY <1>2, <2>6, <4>1 DEF OwnInv, MapInv
    <3> QED BY <3>1, <3>2
  <2> QED BY <2>2, <2>3, <2>4, <2>5, <2>6 DEF MapInv
<1>11. WorkInv'
  <2>1. ASSUME NEW d \in Conns, Working(d)'
        PROVE  obj'[d].life = "live" /\ obj'[d].fd \in open' /\ ~IsClosing(obj'[d])
    <3>1. CASE d = c
      BY <1>1, <1>5, <1>b, <3>1
    <3>2. CASE d # c
      <4>1. d # old
        BY <1>8, <2>1, <3>2
      <4>2. obj'[d] = obj[d] /\ Working(d)
        BY <1>2, <1>7, <2>1, <3>2, <4>1
      <4> QED BY <1>5, <4>2 DEF OwnInv, WorkInv
    <3> QED BY <3>1, <3>2
  <2>2. \A v \in Workers, d \in Conns : ClosingBy(v, d)' => ~Working(d)' /\ obj'[d].fd \notin open'
    BY <1>2, <1>5, <1>7, <1>9 DEF OwnInv, WorkInv
  <2>3. \A d \in Conns : obj'[d].fd # None => Working(d)' \/ \E v \in Workers : ClosingBy(v, d)'
    <3> SUFFICES ASSUME NEW d \in Conns, obj'[d].fd # None
                 PROVE  Working(d)' \/ \E v \in Workers : ClosingBy(v, d)'
      OBVIOUS
    <3>1. CASE d = c
      BY <1>8, <3>1
    <3>2. CASE d # c
      <4>1. obj'[d] = obj[d]
        BY <1>2, <1>a, <3>2
      <4> QED BY <1>7, <1>9, <3>2, <4>1 DEF OwnInv, WorkInv
    <3> QED BY <3>1, <3>2
  <2> QED BY <2>1, <2>2, <2>3 DEF WorkInv
<1>12. AcceptInv'
  <2> SUFFICES ASSUME NEW y \in Queued', y.op = "ACCEPT"
               PROVE  /\ y.fd \in open' /\ y.conn = None
                      /\ \A z \in Queued' : z.op = "ACCEPT" /\ z.fd = y.fd => z = y
                      /\ connections'[y.fd] # None =>
                           /\ obj'[connections'[y.fd]].fd = None
                           /\ \A v \in Workers : worker'[v].conn # connections'[y.fd]
    BY DEF AcceptInv
  <2>1. y \in Queued /\ y.fd \in Fds /\ y.fd # f
    BY <1>6, <1>b, Kinds3
  <2>2. /\ y.fd \in open' /\ y.conn = None
        /\ \A z \in Queued' : z.op = "ACCEPT" /\ z.fd = y.fd => z = y
    BY <1>5, <1>6, <2>1 DEF OwnInv, AcceptInv
  <2>3. ASSUME connections'[y.fd] # None
        PROVE  /\ obj'[connections'[y.fd]].fd = None
               /\ \A v \in Workers : worker'[v].conn # connections'[y.fd]
    <3>1. connections'[y.fd] = connections[y.fd]
      BY <1>3, <2>1
    <3>2. connections[y.fd] \in Conns \ {c, old}
      BY <1>d, <1>a, <2>1, <2>3, <3>1, Kinds3 DEF OwnInv, MapInv, old
    <3> QED BY <1>2, <1>4, <2>1, <2>3, <3>1, <3>2 DEF OwnInv, AcceptInv
  <2> QED BY <2>2, <2>3
<1>13. AcceptOnce'
  BY <1>4, <1>5 DEF OwnInv, AcceptOnce
<1> QED BY <1>10, <1>11, <1>12, <1>13 DEF OwnInv

\* What a step keeps of the objects, the map and the places of the workers.
SameOwners ==
  /\ obj' = obj /\ connections' = connections
  /\ \A v \in Workers : /\ worker'[v].conn = worker[v].conn
                        /\ \/ worker'[v].pc = worker[v].pc
                           \/ worker[v].pc \in Outside /\ worker'[v].pc \in Outside

LEMMA SameOwned ==
  ASSUME SameOwners
  PROVE  /\ \A v \in Workers, d \in Conns : Owns(v, d)' <=> Owns(v, d)
         /\ \A v \in Workers, d \in Conns : ClosingBy(v, d)' <=> ClosingBy(v, d)
         /\ MapInv => MapInv'
<1>1. \A v \in Workers, d \in Conns : Owns(v, d)' <=> Owns(v, d)
  BY OwnerPlaces DEF SameOwners, Owns
<1>2. \A v \in Workers, d \in Conns : ClosingBy(v, d)' <=> ClosingBy(v, d)
  BY DEF SameOwners, ClosingBy, Outside
<1>3. \A v \in Workers : worker'[v].pc \in Outside <=> worker[v].pc \in Outside
  BY DEF SameOwners
<1>4. MapInv => MapInv'
  BY <1>3 DEF SameOwners, MapInv
<1> QED BY <1>1, <1>2, <1>4

LEMMA WaitsOwned ==
  ASSUME ActivityInv, OwnInv, NEW w \in Workers, Waits(w)
  PROVE  OwnInv'
<1>0. /\ Queued' = Queued /\ open' = open /\ connections' = connections /\ obj' = obj
      /\ SameOwners /\ \A v \in Workers : worker'[v].conn = worker[v].conn
  BY WaitsQueued DEF SameOwners
<1>1. MapInv' /\ \A d \in Conns : Working(d)' <=> Working(d)
  BY <1>0, SameOwned DEF OwnInv, Working
<1>2. WorkInv'
  BY <1>0, <1>1, SameOwned DEF OwnInv, WorkInv
<1>3. AcceptInv'
  BY <1>0 DEF OwnInv, AcceptInv
<1>4. AcceptOnce'
  <2>1. CASE TakeBatch(w)
    <3>1. PICK batch \in SUBSET completed :
            /\ completed' = completed \ batch
            /\ worker' = [worker EXCEPT ![w].pc = "next", ![w].batch = batch]
      BY <2>1 DEF TakeBatch
    <3>2. /\ \A v \in Workers \ {w} : worker'[v] = worker[v]
          /\ worker'[w].batch = batch
      BY <3>1 DEF ActivityInv, TypeOK, Worker
    <3> QED BY <3>1, <3>2 DEF OwnInv, AcceptOnce
  <2>2. CASE WaitTimeout(w) \/ EndBatch(w)
    <3>1. completed' = completed /\ \A v \in Workers : worker'[v].batch = worker[v].batch
      BY <2>2 DEF WaitTimeout, EndBatch, ActivityInv, TypeOK, Worker
    <3> QED BY <3>1 DEF OwnInv, AcceptOnce
  <2> QED BY <2>1, <2>2 DEF Waits
<1> QED BY <1>1, <1>2, <1>3, <1>4 DEF OwnInv

\* The next accept: its handle is not open, and no worker is in its last
\* connection.
LEMMA RepostOwned ==
  ASSUME EagerReuse = FALSE, ActivityInv, OwnInv, NEW w \in Workers, Repost(w)
  PROVE  OwnInv'
<1>0. /\ UNCHANGED <<completed, obj, connections>>
      /\ \A v \in Workers \ {w} : worker'[v] = worker[v]
      /\ worker'[w].batch = worker[w].batch
      /\ worker[w].pc \in Outside /\ worker'[w].pc \in Outside
      /\ worker[w].conn = None /\ worker'[w].conn = None
  BY RepostQueued DEF OnlyWorker, Outside, OwnInv, MapInv
<1>1. SameOwners /\ \A v \in Workers : worker'[v].conn = worker[v].conn
  BY <1>0 DEF SameOwners
<1>2. CASE Queued' = Queued /\ open' = open
  <2>1. MapInv' /\ \A d \in Conns : Working(d)' <=> Working(d)
    BY <1>1, <1>2, SameOwned DEF OwnInv, Working
  <2>2. WorkInv'
    BY <1>0, <1>1, <1>2, <2>1, SameOwned DEF OwnInv, WorkInv
  <2>3. AcceptInv'
    BY <1>0, <1>1, <1>2 DEF OwnInv, AcceptInv
  <2>4. AcceptOnce'
    BY <1>0 DEF OwnInv, AcceptOnce
  <2> QED BY <2>1, <2>2, <2>3, <2>4 DEF OwnInv
<1>3. ASSUME NEW f \in Issuable, NEW y, Queued' = Queued \cup {y}, open' = open \cup {f},
             y.op = "ACCEPT", y.conn = None, y.fd = f
      PROVE  OwnInv'
  <2>1. /\ f \in Fds /\ f \notin open
        /\ \A v \in Workers : worker[v].conn # None => worker[v].conn # connections[f]
    BY <1>3 DEF Issuable
  <2>2. MapInv' /\ \A d \in Conns : Working(d)' <=> Working(d)
    BY <1>1, <1>3, SameOwned, Kinds3 DEF OwnInv, Working
  <2>3. \A v \in Workers, d \in Conns : ClosingBy(v, d) => obj[d].fd # f
    <3> SUFFICES ASSUME NEW v \in Workers, NEW d \in Conns, ClosingBy(v, d), obj[d].fd = f
                 PROVE  FALSE
      OBVIOUS
    <3>1. connections[f] = d /\ worker[v].conn = d /\ d # None
      BY <2>1, Kinds3 DEF OwnInv, MapInv, ClosingBy
    <3> QED BY <2>1, <3>1
  <2>4. WorkInv'
    BY <1>0, <1>1, <1>3, <2>2, <2>3, SameOwned DEF OwnInv, WorkInv
  <2>5. connections[f] # None =>
          /\ obj[connections[f]].fd = None
          /\ \A v \in Workers : worker[v].conn # connections[f]
    <3> SUFFICES ASSUME connections[f] # None
                 PROVE  /\ obj[connections[f]].fd = None
                        /\ \A v \in Workers : worker[v].conn # connections[f]
      OBVIOUS
    <3>1. PICK d \in Conns : d = connections[f]
      BY <2>1, Kinds3
    <3>2. \A v \in Workers : worker[v].conn # d
      BY <2>1, <3>1
    <3>3. obj[d].fd = None
      <4> SUFFICES ASSUME obj[d].fd # None PROVE FALSE
        OBVIOUS
      <4>1. obj[d].fd = f
        BY <2>1, <3>1, Kinds3 DEF OwnInv, MapInv
      <4>2. ~Working(d)
        BY <2>1, <4>1 DEF OwnInv, WorkInv
      <4>3. \A v \in Workers : ~ClosingBy(v, d)
        BY <3>2 DEF ClosingBy
      <4> QED BY <4>2, <4>3 DEF OwnInv, WorkInv
    <3> QED BY <3>1, <3>2, <3>3
  <2>6. \A x \in Queued : x.op = "ACCEPT" => x.fd # f
    BY <2>1 DEF OwnInv, AcceptInv
  <2>7. AcceptInv'
    BY <1>0, <1>1, <1>3, <2>5, <2>6 DEF OwnInv, AcceptInv
  <2>8. AcceptOnce'
    BY <1>0 DEF OwnInv, AcceptOnce
  <2> QED BY <2>2, <2>4, <2>7, <2>8 DEF OwnInv
<1> QED BY <1>2, <1>3, RepostQueued

LEMMA CompleteOwned ==
  ASSUME ActivityInv, OwnInv, NEW x \in posted, Complete(x)
  PROVE  OwnInv'
<1>0. UNCHANGED <<obj, connections, open, worker>> /\ x \in Queued /\ SameOwners
  BY CompleteQueued DEF SameOwners
<1>1. PICK y : /\ SameButResult(y, x) /\ y.res # "pending"
               /\ completed' = completed \cup {y}
               /\ Queued' = (Queued \ {x}) \cup {y}
  BY CompleteQueued
<1>2. \A d \in Conns : Working(d)' <=> Working(d)
  <2>1. \A d \in Conns : (\E z \in Queued' : z.conn = d) <=> (\E z \in Queued : z.conn = d)
    BY <1>0, <1>1 DEF SameButResult
  <2> QED BY <1>0, <2>1, SameOwned DEF Working
<1>3. MapInv'
  BY <1>0, SameOwned DEF OwnInv
<1>4. WorkInv'
  BY <1>0, <1>2, SameOwned DEF OwnInv, WorkInv
<1>5. AcceptInv'
  <2>1. ASSUME NEW z \in Queued' PROVE \E q \in Queued : SameButResult(z, q) /\ (z = q \/ q = x)
    BY <1>0, <1>1 DEF SameButResult
  <2>2. ASSUME NEW z \in Queued', NEW q \in Queued', z.op = "ACCEPT", q.op = "ACCEPT", q.fd = z.fd
        PROVE  q = z
    BY <1>0, <1>1, <2>2 DEF SameButResult, OwnInv, AcceptInv
  <2>3. ASSUME NEW z \in Queued', z.op = "ACCEPT"
        PROVE  /\ z.fd \in open' /\ z.conn = None
               /\ connections'[z.fd] # None =>
                    /\ obj'[connections'[z.fd]].fd = None
                    /\ \A v \in Workers : worker'[v].conn # connections'[z.fd]
    BY <1>0, <2>1, <2>3 DEF SameButResult, OwnInv, AcceptInv
  <2> QED BY <2>2, <2>3 DEF AcceptInv
<1>6. AcceptOnce'
  <2>1. ASSUME NEW v \in Workers, NEW z \in worker[v].batch, z.op = "ACCEPT" PROVE z # y
    <3>1. z \in Queued /\ z.res # "pending" /\ x.res = "pending"
      BY DEF Queued, ActivityInv, ResultsComplete
    <3> QED BY <1>0, <1>1, <2>1, <3>1 DEF SameButResult, OwnInv, AcceptInv
  <2> QED BY <1>0, <1>1, <2>1 DEF OwnInv, AcceptOnce
<1> QED BY <1>3, <1>4, <1>5, <1>6 DEF OwnInv

LEMMA InitOwned == Init => OwnInv
<1> SUFFICES ASSUME Init PROVE OwnInv
  OBVIOUS
<1>1. None \notin Conns
  BY GatewayAssumption
<1>2. PICK accepting \in SUBSET Fds : open = accepting /\ posted = {AcceptOp(f) : f \in accepting}
  BY DEF Init
<1>3. Queued = {AcceptOp(f) : f \in accepting}
  BY <1>2 DEF Init, Queued
<1>4. \A f \in accepting : AcceptOp(f).fd = f /\ AcceptOp(f).conn = None
  BY DEF AcceptOp
<1>5. AcceptInv
  BY <1>2, <1>3, <1>4 DEF AcceptInv, Init
<1>6. \A c \in Conns : obj[c].fd = None
  BY DEF Init, NoConnection, NewConnection
<1>7. \A w \in Workers : worker[w].pc = "wait" /\ worker[w].conn = None /\ worker[w].batch = {}
  BY DEF Init
<1>8. \A c \in Conns : ~Working(c)
  BY <1>1, <1>3, <1>4, <1>7 DEF Working, Owns
<1>9. MapInv /\ AcceptOnce
  BY <1>6, <1>7 DEF MapInv, AcceptOnce, Init
<1>10. WorkInv
  BY <1>6, <1>7, <1>8 DEF WorkInv, ClosingBy
<1> QED BY <1>5, <1>9, <1>10 DEF OwnInv

LEMMA CloseAllOwned ==
  ASSUME ActivityInv, OwnInv, CloseAll
  PROVE  OwnInv'
<1>1. /\ \A c \in Conns : obj'[c] = NoConnection
      /\ \A f \in Fds : connections'[f] = None
      /\ posted' = {} /\ completed' = {} /\ worker' = worker
      /\ \A w \in Workers : worker[w].pc = "exited"
  BY DEF CloseAll
<1>2. \A w \in Workers : worker[w].conn = None /\ worker[w].batch = {}
  BY <1>1 DEF OwnInv, MapInv, Outside, ActivityInv, IdleHasNoBatch
<1>3. Queued' = {}
  BY <1>1, <1>2 DEF Queued
<1>4. \A c \in Conns : obj'[c].fd = None
  BY <1>1 DEF NoConnection, NewConnection
<1>5. \A c \in Conns, w \in Workers : ~Owns(w, c)' /\ ~ClosingBy(w, c)'
  BY <1>1 DEF Owns, ClosingBy, Owning
<1>6. \A c \in Conns : ~Working(c)'
  BY <1>3, <1>5 DEF Working
<1>7. MapInv'
  BY <1>1, <1>2, <1>4 DEF MapInv
<1>8. WorkInv'
  BY <1>4, <1>5, <1>6 DEF WorkInv
<1>9. AcceptInv' /\ AcceptOnce'
  BY <1>1, <1>2, <1>3 DEF AcceptInv, AcceptOnce
<1> QED BY <1>7, <1>8, <1>9 DEF OwnInv

LEMMA NextOwned ==
  ASSUME EagerReuse = FALSE, ActivityInv, OwnInv, [Next]_vars
  PROVE  OwnInv'
<1>1. CASE UNCHANGED <<posted, completed, obj, connections, open, worker>>
  <2>1. Queued' = Queued
    BY <1>1 DEF Queued
  <2>2. SameOwners
    BY <1>1 DEF SameOwners
  <2>3. \A d \in Conns : Working(d)' <=> Working(d)
    BY <2>1, <2>2, SameOwned DEF Working
  <2> QED BY <1>1, <2>1, <2>2, <2>3, SameOwned DEF OwnInv, WorkInv, AcceptInv, AcceptOnce
<1>2. CASE Shutdown \/ StopAccepting \/ UNCHANGED vars
  BY <1>1, <1>2 DEF Shutdown, StopAccepting, vars
<1> QED BY <1>2, NextCases, OwnerOwned, LateOwned, EntersOwned, AcceptOwned, WaitsOwned,
           RepostOwned, CompleteOwned, CloseAllOwned

LEMMA OwnedInvariant == EagerReuse = FALSE => (Spec => [](ActivityInv /\ OwnInv))
<1> SUFFICES ASSUME EagerReuse = FALSE PROVE Spec => [](ActivityInv /\ OwnInv)
  OBVIOUS
<1>1. Init => ActivityInv /\ OwnInv
  BY InitActivity, InitOwned
<1>2. ActivityInv /\ OwnInv /\ [Next]_vars => ActivityInv' /\ OwnInv'
  BY NextActivity, NextOwned
<1> QED BY <1>1, <1>2, PTL DEF Spec

\* What the invariant means for handles and connections.
LEMMA OwnedMeans == ActivityInv /\ OwnInv => NotStranded /\ NoUseAfterDestroy /\ SocketOwnedOnce
<1> SUFFICES ASSUME ActivityInv, OwnInv PROVE NotStranded /\ NoUseAfterDestroy /\ SocketOwnedOnce
  OBVIOUS
<1>1. NotStranded
  <2> SUFFICES ASSUME NEW c \in Conns, obj[c].fd # None
               PROVE  (\E x \in Queued : x.conn = c) \/ \E w \in Workers : worker[w].conn = c
    BY DEF NotStranded
  <2>1. Working(c) \/ \E w \in Workers : ClosingBy(w, c)
    BY DEF OwnInv, WorkInv
  <2> QED BY <2>1 DEF Working, Owns, ClosingBy
<1>2. NoUseAfterDestroy
  <2>1. \A w \in Workers : worker[w].conn # None => obj[worker[w].conn].life = "live"
    BY DEF OwnInv, MapInv
  <2>2. \A x \in Queued : x.conn # None => obj[x.conn].life = "live"
    BY Kinds3 DEF OwnInv, WorkInv, Working
  <2> QED BY <2>1, <2>2 DEF NoUseAfterDestroy
<1>3. SocketOwnedOnce
  <2> SUFFICES ASSUME NEW c \in Conns, obj[c].fd # None
               PROVE  /\ \A d \in Conns \ {c} : obj[d].fd # obj[c].fd
                      /\ \A x \in Queued : x.op = "ACCEPT" => x.fd # obj[c].fd
    BY DEF SocketOwnedOnce
  <2>1. connections[obj[c].fd] = c
    BY DEF OwnInv, MapInv
  <2>2. \A d \in Conns \ {c} : obj[d].fd # obj[c].fd
    BY <2>1 DEF OwnInv, MapInv
  <2>3. ASSUME NEW x \in Queued, x.op = "ACCEPT", x.fd = obj[c].fd PROVE FALSE
    <3>1. c # None
      BY GatewayAssumption
    <3> QED BY <2>1, <2>3, <3>1 DEF OwnInv, AcceptInv
  <2> QED BY <2>2, <2>3
<1> QED BY <1>1, <1>2, <1>3

\* A connection whose socket is open is never forgotten by every worker and by
\* every operation, whatever fails.
THEOREM NotStrandedHolds == EagerReuse = FALSE => (Spec => []NotStranded)
BY OwnedInvariant, OwnedMeans, PTL

\* No worker and no operation refers to a connection that add_connection has
\* destroyed.
THEOREM NoUseAfterDestroyHolds == EagerReuse = FALSE => (Spec => []NoUseAfterDestroy)
BY OwnedInvariant, OwnedMeans, PTL

\* A socket handle is in fd_ of at most one connection, and of none while it
\* waits in an accept.
THEOREM SocketOwnedOnceHolds == EagerReuse = FALSE => (Spec => []SocketOwnedOnce)
BY OwnedInvariant, OwnedMeans, PTL

-----------------------------------------------------------------------------
(* The buffers.                                                            *)

\* A buffer is free or in exactly one handle; a destroyed object holds none.
HeldInv ==
  /\ \A c \in Conns, h \in Kinds : BufferOf(c, h) # None =>
       obj[c].life = "live" /\ BufferOf(c, h) \notin free_list
  /\ \A c, d \in Conns : \A g, h \in Kinds :
       BufferOf(c, g) # None /\ BufferOf(c, g) = BufferOf(d, h) => c = d /\ g = h
  /\ \A b \in Bufs : b \notin free_list => \E c \in Conns, h \in Kinds : BufferOf(c, h) = b

\* The operation the kernel holds uses the buffer of its connection's handle.
PinnedInv ==
  \A x \in posted : x.op # "ACCEPT" => x.buf \in Bufs /\ x.buf = BufferOf(x.conn, KindOf(x.op))

\* A handler that is still to release the receive buffer has sent an error, or
\* closed: from there only the send's completion comes, and it closes.
ReleaseInv ==
  \A w \in Workers : worker[w].rest = "release_recv" =>
    /\ worker[w].pc \in {"bad", "sent", "receiving", "closing", "tail"}
    /\ worker[w].pc # "bad" =>
         /\ ~obj[worker[w].conn].keep_alive
         /\ \A x \in Queued : x.conn = worker[w].conn => x.op = "SEND"
         /\ \A v \in Workers : Owns(v, worker[w].conn) => worker[v].pc = "shut"

BufferInv == HeldInv /\ PinnedInv /\ ReleaseInv

LEMMA BufferType ==
  ASSUME TypeOK
  PROVE  /\ \A c \in Conns, h \in Kinds : BufferOf(c, h) \in Bufs \cup {None}
         /\ free_list \subseteq Bufs /\ None \notin Bufs
<1>1. \A c \in Conns : obj[c] \in Connection
  BY DEF TypeOK
<1>2. \A c \in Conns : obj[c].recv_buffer \in Bufs \cup {None} /\ obj[c].send_buffer \in Bufs \cup {None}
  BY <1>1 DEF Connection
<1> QED BY <1>2, GatewayAssumption DEF TypeOK, BufferOf

LEMMA OtherBuffers ==
  ASSUME NEW c \in Conns, OnlyObject(c)
  PROVE  \A d \in Conns \ {c}, h \in Kinds : BufferOf(d, h)' = BufferOf(d, h)
BY DEF OnlyObject, BufferOf

\* One assignment to a handle of a live connection keeps every buffer in one place.
LEMMA BufferStepHeld ==
  ASSUME TypeOK, TypeOK', HeldInv, NEW c \in Conns, obj[c].life = "live",
         OnlyObject(c), BufferStep(c)
  PROVE  HeldInv'
<1>1. /\ \A d \in Conns \ {c}, h \in Kinds : BufferOf(d, h)' = BufferOf(d, h)
      /\ \A d \in Conns : obj'[d].life = obj[d].life
  BY OtherBuffers DEF OnlyObject
<1>2. CASE free_list' = free_list /\ \A h \in Kinds : BufferOf(c, h)' = BufferOf(c, h)
  <2>1. \A d \in Conns, h \in Kinds : BufferOf(d, h)' = BufferOf(d, h)
    BY <1>1, <1>2
  <2> QED BY <1>1, <1>2, <2>1 DEF HeldInv
<1>3. ASSUME NEW h \in Kinds, \A g \in Kinds \ {h} : BufferOf(c, g)' = BufferOf(c, g),
             \/ /\ BufferOf(c, h)' \in free_list
                /\ free_list' = (free_list \ {BufferOf(c, h)'}) \cup Owned(BufferOf(c, h))
             \/ /\ BufferOf(c, h)' = None
                /\ free_list' = free_list \cup Owned(BufferOf(c, h))
      PROVE  HeldInv'
  <2> DEFINE Same(d, g) == d # c \/ g # h
  <2>1. \A d \in Conns, g \in Kinds : Same(d, g) => BufferOf(d, g)' = BufferOf(d, g)
    BY <1>1, <1>3
  <2>2. \A b : b \in free_list' <=> \/ b \in free_list /\ b # BufferOf(c, h)'
                                    \/ b = BufferOf(c, h) /\ b # None
    BY <1>3, BufferType DEF Owned
  <2>3. BufferOf(c, h)' # None => /\ BufferOf(c, h)' \in free_list
                                  /\ BufferOf(c, h)' # BufferOf(c, h)
    BY <1>3, BufferType DEF HeldInv
  <2>4. ASSUME NEW d \in Conns, NEW g \in Kinds, BufferOf(d, g)' # None
        PROVE  obj'[d].life = "live" /\ BufferOf(d, g)' \notin free_list'
    <3>1. CASE Same(d, g)
      BY <1>1, <2>1, <2>2, <2>3, <2>4, <3>1 DEF HeldInv
    <3>2. CASE ~Same(d, g)
      BY <1>1, <2>2, <2>3, <2>4, <3>2
    <3> QED BY <3>1, <3>2
  <2>5. ASSUME NEW d \in Conns, NEW e \in Conns, NEW g \in Kinds, NEW k \in Kinds,
               BufferOf(d, g)' # None, BufferOf(d, g)' = BufferOf(e, k)'
        PROVE  d = e /\ g = k
    <3>1. CASE Same(d, g) /\ Same(e, k)
      BY <2>1, <2>5, <3>1 DEF HeldInv
    <3>2. CASE ~Same(d, g) /\ Same(e, k)
      BY <2>1, <2>3, <2>5, <3>2 DEF HeldInv
    <3>3. CASE Same(d, g) /\ ~Same(e, k)
      BY <2>1, <2>3, <2>5, <3>3 DEF HeldInv
    <3> QED BY <3>1, <3>2, <3>3
  <2>6. ASSUME NEW b \in Bufs, b \notin free_list'
        PROVE  \E d \in Conns, g \in Kinds : BufferOf(d, g)' = b
    <3>1. CASE b = BufferOf(c, h)'
      BY <3>1
    <3>2. CASE b # BufferOf(c, h)'
      <4>1. b \notin free_list /\ b # BufferOf(c, h)
        BY <2>2, <2>6, <3>2, BufferType
      <4>2. PICK d \in Conns, g \in Kinds : BufferOf(d, g) = b
        BY <4>1 DEF HeldInv
      <4> QED BY <2>1, <4>1, <4>2
    <3> QED BY <3>1, <3>2
  <2> QED BY <2>4, <2>5, <2>6 DEF HeldInv
<1> QED BY <1>2, <1>3 DEF BufferStep

LEMMA OwnerBuffers ==
  ASSUME ActivityInv, TypeOK', OwnInv, BufferInv,
         NEW w \in Workers, NEW c \in Conns, Owns(w, c), OwnerStep(w, c)
  PROVE  BufferInv'
<1>0. /\ worker[w].conn = c /\ worker'[w].conn = c /\ worker[w].pc \in Owning
      /\ \A v \in Workers \ {w} : worker'[v] = worker[v]
      /\ OnlyObject(c) /\ \A d \in Conns \ {c} : obj'[d] = obj[d]
  BY DEF OwnerStep, OnlyWorker, OnlyObject, Owns
<1>1. TypeOK /\ HasConnection /\ obj[c].life = "live" /\ ~IsClosing(obj[c])
  BY DEF ActivityInv, OwnInv, WorkInv, Working
<1>2. HeldInv'
  BY <1>0, <1>1, BufferStepHeld DEF BufferInv, OwnerStep
<1>3. \/ /\ Queued' = Queued /\ posted' = posted
      \/ \E y : /\ Queued' = Queued \cup {y} /\ posted' = posted \cup {y}
                /\ y.op \in {"RECV", "SEND"} /\ y.conn = c
                /\ y.buf = BufferOf(c, KindOf(y.op))'
                /\ y.op = "RECV" => worker[w].pc = "read"
                /\ HandsOver(w, c)
  BY OwnerQueued DEF GoesOn, ClosesSocket, FindsClosed
<1>4. \A x \in Queued : x.conn # c
  BY Alone
<1>5. PinnedInv'
  <2>1. ASSUME NEW x \in posted, x.op # "ACCEPT"
        PROVE  x.buf \in Bufs /\ x.buf = BufferOf(x.conn, KindOf(x.op))'
    <3>1. x \in Queued /\ x.conn \in Conns \ {c}
      BY <1>1, <1>4, <2>1 DEF HasConnection, Queued
    <3>2. KindOf(x.op) \in Kinds
      BY DEF KindOf, Kinds
    <3>3. \A h \in Kinds : BufferOf(x.conn, h)' = BufferOf(x.conn, h)
      BY <1>0, <3>1, OtherBuffers
    <3> QED BY <2>1, <3>2, <3>3 DEF BufferInv, PinnedInv
  <2>2. ASSUME NEW y, y.op \in {"RECV", "SEND"}, y.conn = c, HandsOver(w, c),
               y.buf = BufferOf(c, KindOf(y.op))', posted' = posted \cup {y}
        PROVE  y.buf \in Bufs
    <3>1. PICK op \in {"RECV", "SEND"} :
            /\ posted' = posted \cup {IoOp(op, c, obj[c].fd, BufferOf(c, KindOf(op))')}
            /\ BufferOf(c, KindOf(op))' \in Bufs
      BY <2>2 DEF HandsOver
    <3>2. \A x \in posted : x.conn # c
      BY <1>4 DEF Queued
    <3>3. y = IoOp(op, c, obj[c].fd, BufferOf(c, KindOf(op))')
      BY <2>2, <3>1, <3>2
    <3> QED BY <3>1, <3>3 DEF IoOp
  <2> QED BY <1>3, <2>1, <2>2 DEF PinnedInv
<1>6. ReleaseInv'
  <2> SUFFICES ASSUME NEW v \in Workers, worker'[v].rest = "release_recv"
               PROVE  /\ worker'[v].pc \in {"bad", "sent", "receiving", "closing", "tail"}
                      /\ worker'[v].pc # "bad" =>
                           /\ ~obj'[worker'[v].conn].keep_alive
                           /\ \A x \in Queued' : x.conn = worker'[v].conn => x.op = "SEND"
                           /\ \A u \in Workers : Owns(u, worker[v].conn)' => worker'[u].pc = "shut"
    BY DEF ReleaseInv
  <2>1. CASE v = w
    <3>1. worker[w].rest = "release_recv"
      BY <2>1 DEF OwnerStep
    <3>2. worker[w].pc = "bad" /\ ~obj'[c].keep_alive
      BY <1>0, <3>1 DEF BufferInv, ReleaseInv, Owning, OwnerStep
    <3>3. worker'[w].pc \in {"sent", "receiving", "closing", "tail"}
      BY <3>2 DEF OwnerStep, GoesOn, HandsOver, ClosesSocket, FindsClosed
    <3>4. \A x \in Queued' : x.conn = c => x.op = "SEND"
      BY <1>3, <1>4, <3>2
    <3>5. \A u \in Workers : ~Owns(u, c)'
      BY <1>0, <3>3, Alone DEF Owns, Owning
    <3> QED BY <1>0, <2>1, <3>2, <3>3, <3>4, <3>5 DEF Owns
  <2>2. CASE v # w /\ worker[v].conn = c
    <3>1. worker'[v] = worker[v] /\ worker[v].pc # "bad"
      BY <1>0, <2>2, Alone DEF Owns, Owning
    <3>2. /\ worker[v].pc \in {"bad", "sent", "receiving", "closing", "tail"}
          /\ ~obj[c].keep_alive /\ worker[w].pc = "shut"
      BY <2>2, <3>1 DEF BufferInv, ReleaseInv
    <3>3. ~obj'[c].keep_alive /\ Queued' = Queued /\ worker'[w].pc \notin Owning
      BY <1>1, <1>3, <3>2 DEF OwnerStep, GoesOn, HandsOver, ClosesSocket, FindsClosed, Owning
    <3>4. \A u \in Workers : ~Owns(u, c)'
      BY <1>0, <3>3, Alone DEF Owns
    <3> QED BY <1>4, <2>2, <3>1, <3>2, <3>3, <3>4 DEF Owns
  <2>3. CASE v # w /\ worker[v].conn # c
    <3>1. worker'[v] = worker[v]
      BY <1>0, <2>3
    <3>2. worker[v].pc \in {"bad", "sent", "receiving", "closing", "tail"}
      BY <3>1 DEF BufferInv, ReleaseInv
    <3>3. PICK d \in Conns \ {c} : d = worker[v].conn
      BY <1>1, <2>3, <3>2 DEF HasConnection, Busy, Pcs
    <3>4. \A x \in Queued' : x.conn = d => x \in Queued
      BY <1>3
    <3>5. \A u \in Workers : Owns(u, d)' => Owns(u, d) /\ worker'[u] = worker[u]
      BY <1>0 DEF Owns
    <3>6. obj'[d] = obj[d]
      BY <1>0
    <3> QED BY <3>1, <3>2, <3>3, <3>4, <3>5, <3>6 DEF BufferInv, ReleaseInv, Owns
  <2> QED BY <2>1, <2>2, <2>3
<1> QED BY <1>2, <1>5, <1>6 DEF BufferInv

\* What keeps ReleaseInv for a worker v that stays where it is, in another
\* connection than c.
LEMMA ReleaseElsewhere ==
  ASSUME HasConnection, ReleaseInv, NEW w \in Workers, NEW v \in Workers, NEW c \in Conns \cup {None},
         v # w, worker[v].rest = "release_recv", worker[v].conn # c,
         \A u \in Workers \ {w} : worker'[u] = worker[u],
         worker'[w].conn \in {worker[w].conn, c},
         worker'[w].conn = c \/ (worker'[w].pc \in Owning => worker'[w].pc = worker[w].pc),
         obj'[worker[v].conn] = obj[worker[v].conn],
         \A x \in Queued' : x.conn = worker[v].conn => x \in Queued
  PROVE  /\ worker'[v].rest = "release_recv"
         /\ worker'[v].pc \in {"bad", "sent", "receiving", "closing", "tail"}
         /\ worker'[v].pc # "bad" =>
              /\ ~obj'[worker'[v].conn].keep_alive
              /\ \A x \in Queued' : x.conn = worker'[v].conn => x.op = "SEND"
              /\ \A u \in Workers : Owns(u, worker[v].conn)' => worker'[u].pc = "shut"
<1>1. worker'[v] = worker[v]
  OBVIOUS
<1>2. \A u \in Workers : Owns(u, worker[v].conn)' => Owns(u, worker[v].conn) /\ worker'[u].pc = worker[u].pc
  BY <1>1 DEF Owns
<1> QED BY <1>1, <1>2 DEF ReleaseInv

LEMMA LateBuffers ==
  ASSUME ActivityInv, TypeOK', OwnInv, BufferInv,
         NEW w \in Workers, NEW c \in Conns, worker[w].conn = c, LateStep(w, c)
  PROVE  BufferInv'
<1>0. /\ OnlyObject(c) /\ BufferStep(c)
      /\ \A d \in Conns \ {c} : obj'[d] = obj[d]
      /\ obj'[c].keep_alive = obj[c].keep_alive
      /\ \A v \in Workers \ {w} : worker'[v] = worker[v]
      /\ posted' = posted /\ completed' = completed
  BY DEF LateStep, OnlyObject, OnlyWorker
<1>1. Queued' = Queued
  BY <1>0, QueuedSame DEF LateStep
<1>2. /\ worker[w].pc \in {"sent", "receiving", "closing", "tail"}
      /\ \/ worker'[w].pc = "tail" /\ worker'[w].conn = c /\ worker'[w].rest = worker[w].rest
         \/ worker'[w].pc \in {"next", "repost"} /\ worker'[w].rest = "return"
  BY DEF LateStep
<1>3. TypeOK /\ HasConnection /\ obj[c].life = "live"
  <2>1. c # None
    BY GatewayAssumption
  <2> QED BY <2>1 DEF ActivityInv, OwnInv, MapInv
<1>4. HeldInv'
  BY <1>0, <1>3, BufferStepHeld DEF BufferInv
<1>5. PinnedInv'
  <2> SUFFICES ASSUME NEW x \in posted, x.op # "ACCEPT"
               PROVE  x.buf \in Bufs /\ x.buf = BufferOf(x.conn, KindOf(x.op))'
    BY <1>0 DEF PinnedInv
  <2>1. x.conn \in Conns /\ x \in Queued /\ x.buf \in Bufs /\ x.buf = BufferOf(x.conn, KindOf(x.op))
    BY <1>3 DEF HasConnection, Queued, BufferInv, PinnedInv
  <2>2. CASE x.conn # c
    <3>1. KindOf(x.op) \in Kinds
      BY DEF KindOf, Kinds
    <3>2. BufferOf(x.conn, KindOf(x.op))' = BufferOf(x.conn, KindOf(x.op))
      BY <1>0, <2>1, <2>2, <3>1, OtherBuffers
    <3> QED BY <2>1, <3>2
  <2>3. CASE x.conn = c /\ worker[w].rest = "release_recv"
    <3>1. x.op = "SEND"
      BY <1>2, <2>1, <2>3 DEF BufferInv, ReleaseInv
    <3>2. KindOf(x.op) = "send"
      BY <3>1 DEF KindOf
    <3> QED BY <2>1, <2>3, <3>2 DEF LateStep
  <2>4. CASE x.conn = c /\ worker[w].rest # "release_recv"
    BY <2>1, <2>4 DEF LateStep, KindOf
  <2> QED BY <2>2, <2>3, <2>4
<1>6. ReleaseInv'
  <2>1. \A d : \A u \in Workers : Owns(u, d)' => Owns(u, d) /\ worker'[u].pc = worker[u].pc
    BY <1>0, <1>2 DEF Owns, Owning
  <2> SUFFICES ASSUME NEW v \in Workers, worker'[v].rest = "release_recv"
               PROVE  /\ worker'[v].pc \in {"bad", "sent", "receiving", "closing", "tail"}
                      /\ worker'[v].pc # "bad" =>
                           /\ ~obj'[worker'[v].conn].keep_alive
                           /\ \A x \in Queued' : x.conn = worker'[v].conn => x.op = "SEND"
                           /\ \A u \in Workers : Owns(u, worker[v].conn)' => worker'[u].pc = "shut"
    BY DEF ReleaseInv
  <2>2. /\ worker[v].rest = "release_recv" /\ worker'[v].conn = worker[v].conn
        /\ worker'[v].pc = worker[v].pc \/ (worker[v].pc # "bad" /\ worker'[v].pc = "tail")
    BY <1>0, <1>2
  <2>3. PICK d \in Conns : d = worker[v].conn
    BY <1>3, <2>2 DEF BufferInv, ReleaseInv, HasConnection, Busy, Pcs
  <2>4. obj'[d].keep_alive = obj[d].keep_alive
    BY <1>0
  <2>5. \A u \in Workers : Owns(u, d)' => Owns(u, d) /\ worker'[u].pc = worker[u].pc
    BY <2>1
  <2>6. \A u \in Workers : Owns(u, worker[v].conn)' <=> Owns(u, d)'
    BY <2>2, <2>3 DEF Owns
  <2> QED BY <1>1, <2>2, <2>3, <2>4, <2>5, <2>6 DEF BufferInv, ReleaseInv
<1> QED BY <1>4, <1>5, <1>6 DEF BufferInv

LEMMA EntersBuffers ==
  ASSUME ActivityInv, TypeOK', OwnInv, BufferInv,
         NEW w \in Workers, NEW x \in worker[w].batch, NEW c \in Conns,
         worker[w].pc = "next", x.conn = c, x.op # "ACCEPT", EntersStep(w, x, c)
  PROVE  BufferInv'
<1>0. /\ OnlyObject(c) /\ BufferStep(c)
      /\ \A d \in Conns \ {c} : obj'[d] = obj[d]
      /\ \A v \in Workers \ {w} : worker'[v] = worker[v]
      /\ worker'[w].batch = worker[w].batch \ {x} /\ worker'[w].conn = c
      /\ posted' = posted /\ completed' = completed
      /\ worker'[w].rest = "release_recv" => worker'[w].pc = "bad"
  BY DEF EntersStep, OnlyObject
<1>1. Queued' \subseteq Queued /\ x \in Queued
  BY <1>0 DEF Queued
<1>2. TypeOK /\ HasConnection /\ obj[c].life = "live" /\ None \notin Conns
  BY <1>1, GatewayAssumption DEF ActivityInv, OwnInv, WorkInv, Working
<1>3. HeldInv'
  BY <1>0, <1>2, BufferStepHeld DEF BufferInv
<1>4. \A y \in Queued : y.conn = c => y = x
  BY <1>1, <1>2 DEF ActivityInv, OneActivity
<1>5. PinnedInv'
  <2> SUFFICES ASSUME NEW y \in posted, y.op # "ACCEPT"
               PROVE  y.buf \in Bufs /\ y.buf = BufferOf(y.conn, KindOf(y.op))'
    BY <1>0 DEF PinnedInv
  <2>1. y \in Queued /\ y # x /\ y.conn \in Conns
    BY <1>2 DEF Queued, ActivityInv, ResultsComplete, HasConnection
  <2>2. y.conn # c /\ KindOf(y.op) \in Kinds
    BY <1>4, <2>1 DEF KindOf, Kinds
  <2>3. BufferOf(y.conn, KindOf(y.op))' = BufferOf(y.conn, KindOf(y.op))
    BY <1>0, <2>1, <2>2, OtherBuffers
  <2> QED BY <2>3 DEF BufferInv, PinnedInv
<1>6. ReleaseInv'
  <2> SUFFICES ASSUME NEW v \in Workers, worker'[v].rest = "release_recv"
               PROVE  /\ worker'[v].pc \in {"bad", "sent", "receiving", "closing", "tail"}
                      /\ worker'[v].pc # "bad" =>
                           /\ ~obj'[worker'[v].conn].keep_alive
                           /\ \A y \in Queued' : y.conn = worker'[v].conn => y.op = "SEND"
                           /\ \A u \in Workers : Owns(u, worker[v].conn)' => worker'[u].pc = "shut"
    BY DEF ReleaseInv
  <2>1. CASE v = w
    BY <1>0, <2>1
  <2>2. CASE v # w /\ worker[v].conn = c
    <3>1. worker'[v] = worker[v] /\ worker[v].pc # "bad" /\ \A u \in Workers : ~Owns(u, c)
      BY <1>0, <1>1, <2>2, Alone DEF Owns, Owning
    <3>2. /\ worker[v].pc \in {"bad", "sent", "receiving", "closing", "tail"}
          /\ ~obj[c].keep_alive /\ x.op = "SEND"
      BY <1>1, <2>2, <3>1 DEF BufferInv, ReleaseInv
    <3>3. ~obj'[c].keep_alive /\ worker'[w].pc = "shut"
      BY <3>2 DEF EntersStep, MayReuse
    <3>4. \A u \in Workers : Owns(u, c)' => u = w
      BY <1>0, <3>1 DEF Owns
    <3>5. \A y \in Queued' : y.conn = c => y.op = "SEND"
      BY <1>1, <1>4, <3>2
    <3> QED BY <2>2, <3>1, <3>2, <3>3, <3>4, <3>5 DEF Owns
  <2>3. CASE v # w /\ worker[v].conn # c
    <3>1. worker'[v] = worker[v] /\ worker[v].rest = "release_recv"
      BY <1>0, <2>3
    <3>2. obj'[worker[v].conn] = obj[worker[v].conn]
      BY <1>0, <1>2, <2>3, <3>1 DEF BufferInv, ReleaseInv, HasConnection, Busy, Pcs
    <3> QED BY <1>0, <1>1, <1>2, <2>3, <3>1, <3>2, ReleaseElsewhere DEF BufferInv
  <2> QED BY <2>1, <2>2, <2>3
<1> QED BY <1>3, <1>5, <1>6 DEF BufferInv

\* The handler of an accept: the object of the last connection gives its buffers
\* back, the new object has none.
LEMMA AcceptHeld ==
  ASSUME TypeOK, HeldInv, NEW c \in Conns, NEW old \in Conns \cup {None}, old # c,
         obj[c].life # "live",
         \A h \in Kinds : BufferOf(c, h)' = None,
         \A d \in Conns \ {c, old} : obj'[d] = obj[d],
         old # None => /\ \A h \in Kinds : BufferOf(old, h)' = None
                       /\ free_list' = free_list \cup Owned(obj[old].recv_buffer)
                                                 \cup Owned(obj[old].send_buffer),
         old = None => free_list' = free_list
  PROVE  HeldInv'
<1>1. \A d \in Conns \ {c, old}, h \in Kinds : BufferOf(d, h)' = BufferOf(d, h)
  BY DEF BufferOf
<1>2. \A h \in Kinds : BufferOf(c, h) = None
  BY DEF HeldInv
<1>3. \A d \in Conns, h \in Kinds : BufferOf(d, h)' # None =>
        d \notin {c, old} /\ BufferOf(d, h)' = BufferOf(d, h)
  <2> SUFFICES ASSUME NEW d \in Conns, NEW h \in Kinds, BufferOf(d, h)' # None
               PROVE  d \notin {c, old} /\ BufferOf(d, h)' = BufferOf(d, h)
    OBVIOUS
  <2>1. d # c
    OBVIOUS
  <2>2. d # old
    BY GatewayAssumption
  <2> QED BY <1>1, <2>1, <2>2
<1>4. \A b \in free_list' : \/ b \in free_list
                            \/ old # None /\ b # None /\ \E h \in Kinds : b = BufferOf(old, h)
  BY DEF Owned, Kinds, BufferOf
<1>5. \A b : b \in free_list \/ (old # None /\ b # None /\ \E h \in Kinds : b = BufferOf(old, h))
             => b \in free_list'
  BY DEF Owned, Kinds, BufferOf
<1>6. ASSUME NEW d \in Conns, NEW h \in Kinds, BufferOf(d, h)' # None
      PROVE  obj'[d].life = "live" /\ BufferOf(d, h)' \notin free_list'
  <2>1. d \notin {c, old} /\ BufferOf(d, h)' = BufferOf(d, h)
    BY <1>3, <1>6
  <2>2. obj'[d].life = "live" /\ BufferOf(d, h) \notin free_list
    BY <1>6, <2>1 DEF HeldInv
  <2>3. \A g \in Kinds : old # None => BufferOf(d, h) # BufferOf(old, g)
    BY <1>6, <2>1 DEF HeldInv
  <2> QED BY <1>4, <2>1, <2>2, <2>3
<1>7. ASSUME NEW d \in Conns, NEW e \in Conns, NEW g \in Kinds, NEW h \in Kinds,
             BufferOf(d, g)' # None, BufferOf(d, g)' = BufferOf(e, h)'
      PROVE  d = e /\ g = h
  <2>1. BufferOf(d, g)' = BufferOf(d, g) /\ BufferOf(e, h)' = BufferOf(e, h)
    BY <1>3, <1>7
  <2>2. BufferOf(d, g) # None /\ BufferOf(d, g) = BufferOf(e, h)
    BY <1>7, <2>1
  <2>3. \A i, j \in Kinds : BufferOf(d, i) # None /\ BufferOf(d, i) = BufferOf(e, j) => d = e /\ i = j
    BY DEF HeldInv
  <2> QED BY <2>2, <2>3
<1>8. ASSUME NEW b \in Bufs, b \notin free_list'
      PROVE  \E d \in Conns, h \in Kinds : BufferOf(d, h)' = b
  <2>1. b \notin free_list /\ b # None
    BY <1>5, <1>8, BufferType
  <2>2. PICK d \in Conns, h \in Kinds : BufferOf(d, h) = b
    BY <2>1 DEF HeldInv
  <2>3. d \notin {c, old}
    BY <1>2, <1>5, <1>8, <2>1, <2>2, GatewayAssumption
  <2> QED BY <1>1, <2>2, <2>3
<1> QED BY <1>6, <1>7, <1>8 DEF HeldInv

LEMMA AcceptBuffers ==
  ASSUME ActivityInv, OwnInv, BufferInv, NEW w \in Workers, NEW x \in worker[w].batch,
         worker[w].pc = "next", AcceptComplete(w, x)
  PROVE  BufferInv'
<1> DEFINE f == x.fd
<1>a. /\ x \in Queued /\ f \in Fds /\ x.op = "ACCEPT" /\ worker[w].conn = None
      /\ TypeOK /\ HasConnection /\ None \notin Conns
  BY Kinds3 DEF Queued, AcceptComplete, ActivityInv, OwnInv, MapInv, Outside
<1>0. PICK old : old = connections[f]
  OBVIOUS
<1>b. /\ old \in Conns \cup {None}
      /\ old # None => obj[old].fd = None /\ \A v \in Workers : worker[v].conn # old
  BY <1>a, <1>0, Kinds3 DEF OwnInv, AcceptInv
<1>c. PICK c \in Conns :
        /\ obj[c].life # "live"
        /\ \A v \in Workers : worker[v].conn # c
        /\ \A y \in Queued : y.conn # c
        /\ obj' = [d \in Conns |->
                     IF d = c THEN [NewConnection(f) EXCEPT !.state = "READING_REQUEST"]
                     ELSE IF d = old THEN NoConnection ELSE obj[d]]
        /\ Enter(w, x, c, "read", "repost")
  BY <1>0 DEF AcceptComplete
<1>d. old # c
  BY <1>a, <1>0, <1>c DEF OwnInv, MapInv
<1>1. /\ \A h \in Kinds : BufferOf(c, h)' = None
      /\ old # None => \A h \in Kinds : BufferOf(old, h)' = None
      /\ \A d \in Conns \ {c, old} : obj'[d] = obj[d]
  BY <1>b, <1>c, <1>d DEF BufferOf, NewConnection, NoConnection
<1>2. /\ old # None => free_list' = free_list \cup Owned(obj[old].recv_buffer)
                                              \cup Owned(obj[old].send_buffer)
      /\ old = None => free_list' = free_list
      /\ posted' = posted /\ completed' = completed
  BY <1>0 DEF AcceptComplete
<1>3. HeldInv'
  BY <1>a, <1>b, <1>c, <1>d, <1>1, <1>2, AcceptHeld DEF BufferInv
<1>4. /\ \A v \in Workers \ {w} : worker'[v] = worker[v]
      /\ worker'[w].batch = worker[w].batch \ {x} /\ worker'[w].conn = c
      /\ worker'[w].rest = "repost"
  BY <1>c DEF ActivityInv, TypeOK, Enter, Worker
<1>5. Queued' \subseteq Queued
  BY <1>2, <1>4 DEF Queued
<1>6. old # None => \A y \in Queued : y.conn # old
  <2> SUFFICES ASSUME old # None, NEW y \in Queued, y.conn = old PROVE FALSE
    OBVIOUS
  <2>1. PICK d \in Conns : d = old
    BY <1>b
  <2>2. obj[d].fd \in open
    BY <2>1 DEF OwnInv, WorkInv, Working
  <2> QED BY <1>b, <2>1, <2>2, Kinds3
<1>7. PinnedInv'
  <2> SUFFICES ASSUME NEW y \in posted, y.op # "ACCEPT"
               PROVE  y.buf \in Bufs /\ y.buf = BufferOf(y.conn, KindOf(y.op))'
    BY <1>2 DEF PinnedInv
  <2>1. y.conn \in Conns \ {c, old}
    BY <1>a, <1>c, <1>6 DEF Queued, HasConnection
  <2>2. BufferOf(y.conn, KindOf(y.op))' = BufferOf(y.conn, KindOf(y.op))
    BY <1>1, <2>1 DEF BufferOf
  <2> QED BY <2>2 DEF BufferInv, PinnedInv
<1>8. ReleaseInv'
  <2> SUFFICES ASSUME NEW v \in Workers, worker'[v].rest = "release_recv"
               PROVE  /\ worker'[v].pc \in {"bad", "sent", "receiving", "closing", "tail"}
                      /\ worker'[v].pc # "bad" =>
                           /\ ~obj'[worker'[v].conn].keep_alive
                           /\ \A y \in Queued' : y.conn = worker'[v].conn => y.op = "SEND"
                           /\ \A u \in Workers : Owns(u, worker[v].conn)' => worker'[u].pc = "shut"
    BY DEF ReleaseInv
  <2>1. v # w /\ worker'[v] = worker[v] /\ worker[v].rest = "release_recv"
    BY <1>4
  <2>2. worker[v].conn \in Conns \ {c, old}
    BY <1>a, <1>b, <1>c, <2>1 DEF BufferInv, ReleaseInv, HasConnection, Busy, Pcs
  <2>3. obj'[worker[v].conn] = obj[worker[v].conn]
    BY <1>1, <2>2
  <2> QED BY <1>a, <1>4, <1>5, <2>1, <2>2, <2>3, ReleaseElsewhere DEF BufferInv
<1> QED BY <1>3, <1>7, <1>8 DEF BufferInv

\* Steps that touch no object and no buffer.
LEMMA SameBuffers ==
  ASSUME ActivityInv, BufferInv, free_list' = free_list, obj' = obj,
         \A x \in posted' : x.op # "ACCEPT" => x \in posted,
         \A x \in Queued' : x.op # "ACCEPT" => \E y \in Queued : SameButResult(x, y),
         \A x \in Queued' : x.op = "ACCEPT" => x.conn = None,
         \A v \in Workers :
           /\ worker'[v].conn = worker[v].conn
           /\ worker'[v].rest \in {worker[v].rest, "return"}
           /\ \/ worker'[v].pc = worker[v].pc
              \/ worker[v].pc \in Outside /\ worker'[v].pc \in Outside
  PROVE  BufferInv'
<1>1. \A c \in Conns, h \in Kinds : BufferOf(c, h)' = BufferOf(c, h)
  BY DEF BufferOf
<1>2. HeldInv'
  BY <1>1 DEF BufferInv, HeldInv
<1>3. PinnedInv'
  BY DEF BufferInv, PinnedInv, BufferOf
<1>4. ReleaseInv'
  <2> SUFFICES ASSUME NEW v \in Workers, worker'[v].rest = "release_recv"
               PROVE  /\ worker'[v].pc \in {"bad", "sent", "receiving", "closing", "tail"}
                      /\ worker'[v].pc # "bad" =>
                           /\ ~obj'[worker'[v].conn].keep_alive
                           /\ \A x \in Queued' : x.conn = worker'[v].conn => x.op = "SEND"
                           /\ \A u \in Workers : Owns(u, worker[v].conn)' => worker'[u].pc = "shut"
    BY DEF ReleaseInv
  <2>1. worker[v].rest = "release_recv" /\ worker'[v].conn = worker[v].conn
    OBVIOUS
  <2>2. worker'[v].pc = worker[v].pc
    BY <2>1 DEF BufferInv, ReleaseInv, Outside
  <2>3. worker[v].conn \in Conns /\ None \notin Conns
    BY <2>1, GatewayAssumption DEF BufferInv, ReleaseInv, ActivityInv, HasConnection, Busy, Pcs
  <2>4. \A u \in Workers : Owns(u, worker[v].conn)' =>
          Owns(u, worker[v].conn) /\ worker'[u].pc = worker[u].pc
    BY OwnerPlaces DEF Owns
  <2>5. worker[v].pc # "bad" => \A x \in Queued' : x.conn = worker[v].conn => x.op = "SEND"
    BY <2>1, <2>3 DEF BufferInv, ReleaseInv, SameButResult
  <2> QED BY <2>1, <2>2, <2>4, <2>5 DEF BufferInv, ReleaseInv
<1> QED BY <1>2, <1>3, <1>4 DEF BufferInv

LEMMA CloseAllBuffers ==
  ASSUME ActivityInv, BufferInv, CloseAll
  PROVE  BufferInv'
<1>0. TypeOK /\ None \notin Bufs
  BY GatewayAssumption DEF ActivityInv
<1>1. /\ posted' = {} /\ worker' = worker
      /\ \A w \in Workers : worker[w].pc = "exited"
      /\ \A c \in Conns : obj'[c] = NoConnection
      /\ \A c \in Conns : obj[c].life = "live" =>
           Owned(obj[c].recv_buffer) \cup Owned(obj[c].send_buffer) \subseteq free_list'
      /\ free_list \subseteq free_list'
  BY DEF CloseAll
<1>2. \A c \in Conns, h \in Kinds : BufferOf(c, h)' = None
  BY <1>1 DEF BufferOf, NoConnection, NewConnection
<1>3. ASSUME NEW b \in Bufs PROVE b \in free_list'
  <2>1. CASE b \in free_list
    BY <1>1, <2>1
  <2>2. CASE b \notin free_list
    <3>1. PICK c \in Conns, h \in Kinds : BufferOf(c, h) = b
      BY <2>2 DEF BufferInv, HeldInv
    <3>2. obj[c].life = "live"
      BY <1>0, <3>1 DEF BufferInv, HeldInv
    <3>3. b \in Owned(obj[c].recv_buffer) \cup Owned(obj[c].send_buffer)
      BY <1>0, <3>1 DEF Owned, BufferOf, Kinds
    <3> QED BY <1>1, <3>2, <3>3
  <2> QED BY <2>1, <2>2
<1>4. HeldInv'
  BY <1>2, <1>3 DEF HeldInv
<1>5. PinnedInv'
  BY <1>1 DEF PinnedInv
<1>6. ReleaseInv'
  <2>1. \A w \in Workers : worker[w].rest # "release_recv"
    BY <1>1 DEF BufferInv, ReleaseInv
  <2> QED BY <1>1, <2>1 DEF ReleaseInv
<1> QED BY <1>4, <1>5, <1>6 DEF BufferInv

LEMMA InitBuffers == Init => BufferInv
<1> SUFFICES ASSUME Init PROVE BufferInv
  OBVIOUS
<1>1. \A c \in Conns, h \in Kinds : BufferOf(c, h) = None
  BY DEF Init, BufferOf, NoConnection, NewConnection
<1>2. HeldInv
  BY <1>1 DEF HeldInv, Init
<1>3. PinnedInv
  BY DEF PinnedInv, Init, AcceptOp
<1>4. ReleaseInv
  BY DEF ReleaseInv, Init
<1> QED BY <1>2, <1>3, <1>4 DEF BufferInv

LEMMA NextBuffers ==
  ASSUME ActivityInv, OwnInv, BufferInv, [Next]_vars
  PROVE  BufferInv'
<1>0. TypeOK'
  BY NextType DEF ActivityInv
<1>1. \A x \in Queued : x.op = "ACCEPT" => x.conn = None
  BY DEF OwnInv, AcceptInv
<1>2. \A x \in Queued : SameButResult(x, x)
  BY DEF SameButResult
<1>3. ASSUME NEW w \in Workers, Waits(w) PROVE BufferInv'
  BY <1>1, <1>2, <1>3, WaitsQueued, SameBuffers
<1>4. ASSUME NEW w \in Workers, Repost(w) PROVE BufferInv'
  <2>1. /\ free_list' = free_list /\ obj' = obj
        /\ \A v \in Workers \ {w} : worker'[v] = worker[v]
        /\ worker[w].pc \in Outside /\ worker'[w].pc \in Outside
        /\ worker'[w].conn = None /\ worker[w].conn = None /\ worker'[w].rest = "return"
    BY <1>4, RepostQueued DEF OnlyWorker, Outside, OwnInv, MapInv
  <2>2. /\ \A x \in posted' : x.op # "ACCEPT" => x \in posted
        /\ \A x \in Queued' : x \in Queued \/ (x.op = "ACCEPT" /\ x.conn = None)
    BY <1>4, RepostQueued
  <2>3. \A v \in Workers : /\ worker'[v].conn = worker[v].conn
                           /\ worker'[v].rest \in {worker[v].rest, "return"}
                           /\ \/ worker'[v].pc = worker[v].pc
                              \/ worker[v].pc \in Outside /\ worker'[v].pc \in Outside
    BY <2>1
  <2> QED BY <1>1, <1>2, <2>1, <2>2, <2>3, SameBuffers
<1>5. ASSUME NEW x \in posted, Complete(x) PROVE BufferInv'
  <2>1. /\ UNCHANGED <<free_list, obj, worker>> /\ x \in Queued /\ posted' = posted \ {x}
    BY <1>5, CompleteQueued
  <2>2. PICK y : SameButResult(y, x) /\ Queued' = (Queued \ {x}) \cup {y}
    BY <1>5, CompleteQueued
  <2>3. \A z \in Queued' : \E q \in Queued : SameButResult(z, q)
    BY <1>2, <2>1, <2>2
  <2>4. \A z \in Queued' : z.op = "ACCEPT" => z.conn = None
    BY <1>1, <2>3 DEF SameButResult
  <2> QED BY <2>1, <2>3, <2>4, SameBuffers
<1>6. CASE Shutdown \/ StopAccepting \/ UNCHANGED vars
  <2>1. UNCHANGED <<free_list, posted, completed, obj, worker>>
    BY <1>6 DEF Shutdown, StopAccepting, vars
  <2>2. Queued' = Queued
    BY <2>1 DEF Queued
  <2> QED BY <1>1, <1>2, <2>1, <2>2, SameBuffers
<1> QED BY <1>0, <1>3, <1>4, <1>5, <1>6, NextCases, OwnerBuffers, LateBuffers, EntersBuffers,
           AcceptBuffers, CloseAllBuffers

LEMMA BufferInvariant == EagerReuse = FALSE => (Spec => [](ActivityInv /\ OwnInv /\ BufferInv))
<1> SUFFICES ASSUME EagerReuse = FALSE PROVE Spec => [](ActivityInv /\ OwnInv /\ BufferInv)
  OBVIOUS
<1>1. Init => ActivityInv /\ OwnInv /\ BufferInv
  BY InitActivity, InitOwned, InitBuffers
<1>2. ActivityInv /\ OwnInv /\ BufferInv /\ [Next]_vars => (ActivityInv /\ OwnInv /\ BufferInv)'
  BY NextActivity, NextOwned, NextBuffers
<1> QED BY <1>1, <1>2, PTL DEF Spec

\* What the invariant means for buffers.
LEMMA BufferMeans == ActivityInv /\ OwnInv /\ BufferInv => BufferPinned /\ BufferConserved
<1>1. ActivityInv /\ OwnInv /\ BufferInv => BufferPinned
  <2> SUFFICES ASSUME ActivityInv, OwnInv, BufferInv, NEW x \in posted, x.op # "ACCEPT"
               PROVE  /\ x.buf \notin free_list
                      /\ obj[x.conn].life = "live"
                      /\ x.buf = BufferOf(x.conn, IF x.op = "RECV" THEN "recv" ELSE "send")
    BY DEF BufferPinned
  <2>1. x \in Queued /\ x.conn \in Conns /\ KindOf(x.op) \in Kinds
    BY DEF Queued, ActivityInv, HasConnection, KindOf, Kinds
  <2>2. obj[x.conn].life = "live"
    BY <2>1 DEF OwnInv, WorkInv, Working
  <2>3. x.buf # None /\ x.buf = BufferOf(x.conn, KindOf(x.op))
    BY GatewayAssumption DEF BufferInv, PinnedInv
  <2>4. x.buf \notin free_list
    BY <2>1, <2>3 DEF BufferInv, HeldInv
  <2> QED BY <2>2, <2>3, <2>4 DEF KindOf
<1>2. BufferInv => BufferConserved
  <2> SUFFICES ASSUME BufferInv, NEW b \in Bufs
               PROVE  Cardinality(Holders(b)) = IF b \in free_list THEN 0 ELSE 1
    BY DEF BufferConserved
  <2>0. b # None
    BY GatewayAssumption
  <2>1. CASE b \in free_list
    <3>1. Holders(b) = {}
      BY <2>0, <2>1 DEF BufferInv, HeldInv, Holders, Kinds
    <3> QED BY <2>1, <3>1, FS_EmptySet
  <2>2. CASE b \notin free_list
    <3>1. PICK c \in Conns, h \in Kinds : BufferOf(c, h) = b
      BY <2>2 DEF BufferInv, HeldInv
    <3>2. obj[c].life = "live" /\ <<c, h>> \in Conns \X {"recv", "send"}
      BY <2>0, <3>1 DEF BufferInv, HeldInv, Kinds
    <3>3. <<c, h>> \in Holders(b)
      BY <3>1, <3>2 DEF Holders
    <3>4. ASSUME NEW p \in Holders(b) PROVE p = <<c, h>>
      <4>1. PICK d \in Conns, g \in Kinds : p = <<d, g>>
        BY DEF Holders, Kinds
      <4>2. BufferOf(d, g) = b
        BY <4>1 DEF Holders
      <4> QED BY <2>0, <3>1, <4>1, <4>2 DEF BufferInv, HeldInv
    <3>5. Holders(b) = {<<c, h>>}
      BY <3>3, <3>4
    <3> QED BY <2>2, <3>5, FS_Singleton
  <2> QED BY <2>1, <2>2
<1> QED BY <1>1, <1>2

\* The buffer of an operation the kernel holds is not free and stays in the
\* handle of the live connection that posted it, although the handlers assign to
\* their handles after posting.
THEOREM BufferPinnedHolds == EagerReuse = FALSE => (Spec => []BufferPinned)
BY BufferInvariant, BufferMeans, PTL

\* No buffer is lost and none is in two places: each is free or in exactly one
\* handle of one live connection.
THEOREM BufferConservedHolds == EagerReuse = FALSE => (Spec => []BufferConserved)
BY BufferInvariant, BufferMeans, PTL

-----------------------------------------------------------------------------
(* The process: start(), and Ctrl+C at any time.  Before the workers run   *)
(* there is nothing but accepts, from which every invariant above follows; *)
(* from then on the steps are those of the gateway.                        *)

\* No worker has begun: the only operations are accepts, each of a handle of its own.
Quiet ==
  /\ TypeOK
  /\ free_list = Bufs
  /\ obj = [c \in Conns |-> NoConnection]
  /\ connections = [f \in Fds |-> None]
  /\ worker = [w \in Workers |-> [pc |-> "wait", batch |-> {}, conn |-> None, rest |-> "return"]]
  /\ \A x \in posted : x.res = "pending"
  /\ \A x \in completed : x.res # "pending"
  /\ \A x \in posted \cup completed : x.op = "ACCEPT" /\ x.conn = None /\ x.fd \in open
  /\ \A x, y \in posted \cup completed : x.fd = y.fd => x = y

\* A worker has its next accept still to post only in the handler of an accept, and keeps nothing
\* of a handler it has left.
Rested(r) ==
  /\ r.pc \in Outside => r.rest = "return"
  /\ r.rest = "repost" => r.pc \in {"read", "sent", "receiving", "closing", "tail"}
RestInv == \A w \in Workers : Rested(worker[w])

LifeInv ==
  /\ main \in {"engine", "listen", "accepts", "serving", "failed", "exited"}
  /\ main # "serving" => Quiet
  /\ ActivityInv /\ CountInv /\ RestInv
  /\ EagerReuse = FALSE => OwnInv /\ BufferInv

\* What holds before the workers run.
LEMMA QuietInvs == Quiet => ActivityInv /\ CountInv /\ RestInv /\ OwnInv /\ BufferInv
<1> SUFFICES ASSUME Quiet PROVE ActivityInv /\ CountInv /\ RestInv /\ OwnInv /\ BufferInv
  OBVIOUS
<1>1. \A w \in Workers : /\ worker[w].pc = "wait" /\ worker[w].batch = {}
                         /\ worker[w].conn = None /\ worker[w].rest = "return"
  BY DEF Quiet
<1>2. Queued = posted \cup completed
  BY <1>1 DEF Queued
<1>3. \A x \in Queued : x.op = "ACCEPT" /\ x.conn = None /\ x.fd \in open
  BY <1>2 DEF Quiet
<1>4. \A c \in Conns : obj[c].fd = None /\ obj[c].request_count = 0
  BY DEF Quiet, NoConnection, NewConnection
<1>5. ActivityInv
  <2>1. HasConnection /\ ResultsComplete /\ TakenOnce /\ IdleHasNoBatch
    BY <1>1, <1>3 DEF HasConnection, ResultsComplete, TakenOnce, IdleHasNoBatch, Busy, Quiet
  <2>2. OneActivity
    BY <1>1, <1>3 DEF OneActivity, Owns, Owning
  <2> QED BY <2>1, <2>2 DEF ActivityInv, Quiet
<1>6. CountInv
  <2>1. Most \in Nat /\ 0 < Most
    BY <1>5, CountType
  <2> QED BY <1>1, <1>3, <1>4, <2>1 DEF CountInv
<1>7. RestInv
  BY <1>1 DEF RestInv, Rested
<1>8. OwnInv
  <2>0. None \notin Conns /\ \A f \in Fds : connections[f] = None
    BY GatewayAssumption DEF Quiet
  <2>1. \A x \in Queued : x.fd \in Fds
    BY <1>5, Kinds3
  <2>2. AcceptInv
    BY <1>2, <1>3, <2>0, <2>1 DEF AcceptInv, Quiet
  <2>3. \A c \in Conns : ~Working(c)
    BY <1>1, <1>3, <2>0 DEF Working, Owns, Owning
  <2>4. MapInv /\ AcceptOnce
    BY <1>1, <1>4, <2>0 DEF MapInv, AcceptOnce
  <2>5. WorkInv
    BY <1>1, <1>4, <2>3 DEF WorkInv, ClosingBy
  <2> QED BY <2>2, <2>4, <2>5 DEF OwnInv
<1>9. BufferInv
  <2>1. \A c \in Conns, h \in Kinds : BufferOf(c, h) = None
    BY DEF Quiet, BufferOf, NoConnection, NewConnection
  <2>2. HeldInv
    BY <2>1 DEF HeldInv, Quiet
  <2>3. PinnedInv
    BY <1>2, <1>3 DEF PinnedInv
  <2>4. ReleaseInv
    BY <1>1 DEF ReleaseInv
  <2> QED BY <2>2, <2>3, <2>4 DEF BufferInv
<1> QED BY <1>5, <1>6, <1>7, <1>8, <1>9

\* Where a step of a handler leaves its worker.
LEMMA GoesTo ==
  ASSUME TypeOK, NEW w \in Workers, NEW pc, NEW rest, Goto(w, pc, rest)
  PROVE  /\ worker'[w].pc = pc /\ worker'[w].rest = rest
         /\ \A v \in Workers \ {w} : worker'[v] = worker[v]
BY DEF TypeOK, Worker, Goto

LEMMA CloseGoes ==
  ASSUME NEW w, NEW c, NEW o, NEW rest, Close(w, c, o, rest)
  PROVE  \E pc \in {"tail", "closing"} : Goto(w, pc, rest)
BY DEF Close

LEMMA SendGoes ==
  ASSUME NEW w, NEW c, NEW o, NEW rest, Send(w, c, o, rest)
  PROVE  \E pc \in {"sent", "tail", "closing"} : Goto(w, pc, rest)
<1>1. \/ \E p : Goto(w, "sent", rest) \/ Close(w, c, p, rest)
      \/ \E p : Close(w, c, p, rest)
  BY DEF Send, Posted
<1> QED BY <1>1, CloseGoes

\* The handler of an accept, until it has come to its next accept.
Accepter(r) == r.pc = "repost" \/ r.rest = "repost"

\* But where an accept is taken or posted, no worker gets or loses an accept to post.
LEMMA WorkerRests ==
  ASSUME ActivityInv, RestInv, NEW w \in Workers, WorkerStep(w)
  PROVE  /\ Rested(worker'[w]) /\ \A v \in Workers \ {w} : worker'[v] = worker[v]
         /\ \/ Accepter(worker'[w]) <=> Accepter(worker[w])
            \/ worker[w].pc = "next" /\ \E x \in worker[w].batch : AcceptComplete(w, x)
            \/ Repost(w)
<1>0. TypeOK /\ worker \in [Workers -> Worker] /\ Rested(worker[w])
  BY DEF ActivityInv, TypeOK, RestInv
<1> DEFINE Shown == /\ Rested(worker'[w]) /\ \A v \in Workers \ {w} : worker'[v] = worker[v]
                    /\ Accepter(worker'[w]) <=> Accepter(worker[w])
<1>1. ASSUME NEW rest, NEW pc, Goto(w, pc, rest), worker[w].pc \in Owning, pc \notin Outside,
             rest = "repost" => pc \in {"read", "sent", "receiving", "closing", "tail"},
             rest = "repost" <=> worker[w].rest = "repost"
      PROVE  Shown
  BY <1>0, <1>1, GoesTo DEF Rested, Accepter, Owning, Outside
<1>2. CASE TakeBatch(w) \/ WaitTimeout(w) \/ EndBatch(w)
  <2>1. /\ worker'[w].rest = worker[w].rest /\ worker'[w].pc \in {"next", "wait", "exited"}
        /\ worker[w].pc \in {"next", "wait"} /\ \A v \in Workers \ {w} : worker'[v] = worker[v]
    BY <1>0, <1>2 DEF TakeBatch, WaitTimeout, EndBatch, Worker
  <2> QED BY <1>0, <2>1 DEF Rested, Accepter, Outside
<1>3. ASSUME NEW x \in worker[w].batch, Dispatch(w, x), worker[w].pc = "next", ~AcceptComplete(w, x)
      PROVE  Shown
  <2>1. \/ Enter(w, x, x.conn, "shut", "return") \/ Enter(w, x, x.conn, "bad", "release_recv")
        \/ \E pc \in {"read", "expired", "handle", "idle"} : Enter(w, x, x.conn, pc, "return")
    <3>1. RecvClosed(w, x) \/ RecvMore(w, x) \/ RecvRequest(w, x) \/ RecvError(w, x) \/ SendDone(w, x)
      BY <1>3 DEF Dispatch
    <3>2. CASE SendDone(w, x)
      <4>1. \E o : Enter(w, x, x.conn, IF MayReuse(o) THEN "idle" ELSE "shut", "return")
        BY <3>2 DEF SendDone
      <4> QED BY <4>1
    <3>3. CASE RecvClosed(w, x) \/ RecvMore(w, x) \/ RecvRequest(w, x) \/ RecvError(w, x)
      BY <3>3 DEF RecvClosed, RecvMore, RecvRequest, RecvError
    <3> QED BY <3>1, <3>2, <3>3
  <2>2. /\ worker'[w].rest \in {"return", "release_recv"}
        /\ worker'[w].pc \in {"shut", "read", "expired", "handle", "bad", "idle"}
        /\ \A v \in Workers \ {w} : worker'[v] = worker[v]
    BY <1>0, <2>1 DEF Enter, Worker
  <2> QED BY <1>0, <1>3, <2>2 DEF Rested, Accepter, Outside
<1>4. ASSUME NEW x \in worker[w].batch, AcceptComplete(w, x)
      PROVE  Rested(worker'[w]) /\ \A v \in Workers \ {w} : worker'[v] = worker[v]
  <2>1. PICK c : Enter(w, x, c, "read", "repost")
    BY <1>4 DEF AcceptComplete
  <2> QED BY <1>0, <2>1 DEF Enter, Worker, Rested, Outside
<1>5. CASE StartReading(w)
  <2>1. /\ worker[w].pc = "read"
        /\ \E pc \in {"receiving", "tail", "closing"} : Goto(w, pc, worker[w].rest)
    <3>1. \/ \E p : Goto(w, "receiving", worker[w].rest) \/ Close(w, worker[w].conn, p, worker[w].rest)
          \/ \E p : Close(w, worker[w].conn, p, worker[w].rest)
      BY <1>5 DEF StartReading, Posted
    <3> QED BY <1>5, <3>1, CloseGoes DEF StartReading
  <2>2. PICK pc \in {"receiving", "tail", "closing"} : Goto(w, pc, worker[w].rest)
    BY <2>1
  <2>3. pc \notin Outside /\ worker[w].pc \in Owning
    BY <2>1 DEF Outside, Owning
  <2> QED BY <1>1, <2>2, <2>3
<1>6. CASE BodyTimeout(w) \/ BadRequest(w) \/ Respond(w) \/ AgentReturns(w)
  <2>1. /\ worker[w].pc \in {"expired", "bad", "handle", "agent"}
        /\ \E o : Send(w, worker[w].conn, o, "return") \/ Send(w, worker[w].conn, o, worker[w].rest)
    <3>1. CASE BodyTimeout(w)
      BY <3>1 DEF BodyTimeout, SendError
    <3>2. CASE BadRequest(w)
      BY <3>2 DEF BadRequest, SendError
    <3>3. CASE Respond(w)
      BY <3>3 DEF Respond, SendError
    <3>4. CASE AgentReturns(w)
      BY <3>4 DEF AgentReturns, SendError
    <3> QED BY <1>6, <3>1, <3>2, <3>3, <3>4
  <2>2. worker[w].pc \in Owning /\ worker[w].rest # "repost"
    BY <1>0, <2>1 DEF Owning, Rested
  <2>3. ASSUME NEW o, NEW rest, Send(w, worker[w].conn, o, rest), rest # "repost" PROVE Shown
    <3>1. PICK pc \in {"sent", "tail", "closing"} : Goto(w, pc, rest)
      BY <2>3, SendGoes
    <3>2. pc \notin Outside
      BY DEF Outside
    <3> QED BY <1>1, <2>2, <2>3, <3>1, <3>2
  <2> QED BY <2>1, <2>2, <2>3
<1>7. CASE CallAgent(w) \/ CloseNow(w) \/ ToIdle(w)
  <2>1. /\ worker[w].pc \in {"handle", "shut", "idle"}
        /\ \E pc \in {"agent", "handle", "read", "sent", "tail", "closing"} : Goto(w, pc, "return")
    <3>1. \/ worker[w].pc = "handle" /\ Goto(w, "agent", "return")
          \/ worker[w].pc = "shut" /\ \E o : Close(w, worker[w].conn, o, "return")
          \/ /\ worker[w].pc = "idle"
             /\ \/ Goto(w, "handle", "return") \/ Goto(w, "read", "return")
                \/ \E o : Send(w, worker[w].conn, o, "return")
      BY <1>7 DEF CallAgent, CloseNow, ToIdle, SendError
    <3> QED BY <3>1, CloseGoes, SendGoes
  <2>2. PICK pc \in {"agent", "handle", "read", "sent", "tail", "closing"} : Goto(w, pc, "return")
    BY <2>1
  <2>3. pc \notin Outside /\ worker[w].pc \in Owning /\ worker[w].rest # "repost"
    BY <1>0, <2>1 DEF Outside, Owning, Rested
  <2> QED BY <1>1, <2>2, <2>3
<1>8. CASE AfterPost(w) \/ AfterCloseSocket(w)
  <2>1. worker[w].pc \in {"sent", "receiving", "closing"} /\ Goto(w, "tail", worker[w].rest)
    BY <1>8 DEF AfterPost, AfterCloseSocket
  <2> QED BY <1>0, <2>1, GoesTo DEF Rested, Accepter, Outside
<1>9. CASE Tail(w)
  <2>1. /\ worker[w].pc = "tail" /\ \A v \in Workers \ {w} : worker'[v] = worker[v]
        /\ worker'[w].rest = "return"
        /\ worker'[w].pc = IF worker[w].rest = "repost" THEN "repost" ELSE "next"
    BY <1>0, <1>9 DEF Tail, Return, Worker
  <2> QED BY <1>0, <2>1 DEF Rested, Accepter, Outside
<1>10. CASE Repost(w)
  <2>1. /\ \A v \in Workers \ {w} : worker'[v] = worker[v]
        /\ worker'[w].rest = "return" /\ worker'[w].pc = "next"
    BY <1>0, <1>10 DEF Repost, Return, Worker
  <2> QED BY <1>10, <2>1 DEF Rested
<1> QED BY <1>2, <1>3, <1>4, <1>5, <1>6, <1>7, <1>8, <1>9, <1>10 DEF WorkerStep

\* The workers run: a step of the gateway.
LEMMA NextRests ==
  ASSUME ActivityInv, RestInv, [Next]_vars PROVE RestInv'
<1>1. ASSUME NEW w \in Workers, WorkerStep(w) PROVE RestInv'
  BY <1>1, WorkerRests DEF RestInv
<1>2. CASE (\E x \in posted : Complete(x)) \/ Shutdown \/ StopAccepting \/ CloseAll \/ UNCHANGED vars
  <2>1. worker' = worker
    BY <1>2 DEF Complete, Shutdown, StopAccepting, CloseAll, vars
  <2> QED BY <2>1 DEF RestInv, Rested
<1> QED BY <1>1, <1>2 DEF Next

LEMMA ServingKeeps ==
  ASSUME LifeInv, [Next]_vars, main = "serving", main' = main PROVE LifeInv'
<1>1. ActivityInv' /\ CountInv' /\ RestInv'
  BY NextActivity, NextCount, NextRests DEF LifeInv
<1>2. EagerReuse = FALSE => OwnInv' /\ BufferInv'
  BY NextOwned, NextBuffers DEF LifeInv
<1> QED BY <1>1, <1>2 DEF LifeInv

\* Before that, accepts are posted, complete, or go with the engine.
LEMMA QuietKeeps ==
  ASSUME Quiet, UNCHANGED <<free_list, obj, connections, worker>>, stage' \in Stages, open' \subseteq Fds,
         \/ posted' \subseteq posted /\ completed' \subseteq completed /\ open' = open
         \/ \E x \in posted : Complete(x)
         \/ /\ completed' = completed
            /\ \E f \in Fds \ open : posted' = posted \cup {AcceptOp(f)} /\ open' = open \cup {f}
  PROVE  Quiet'
<1>0. TypeOK /\ posted \subseteq Op /\ completed \subseteq Op
  BY DEF Quiet, TypeOK
<1>1. CASE posted' \subseteq posted /\ completed' \subseteq completed /\ open' = open
  <2>1. TypeOK'
    BY <1>0, <1>1 DEF TypeOK
  <2> QED BY <1>1, <2>1 DEF Quiet
<1>2. ASSUME NEW x \in posted, Complete(x) PROVE Quiet'
  <2>1. PICK res \in {"ok", "eof"} : completed' = completed \cup {[x EXCEPT !.res = res]}
    BY <1>2 DEF Complete
  <2>2. PICK y \in Op : y = [x EXCEPT !.res = res] /\ y.op = x.op /\ y.conn = x.conn /\ y.fd = x.fd /\ y.res = res
    <3>1. x \in Op /\ res \in {"pending", "ok", "eof"}
      BY <1>0
    <3>2. [x EXCEPT !.res = res] \in Op
      BY <3>1 DEF Op
    <3>3. PICK y : y = [x EXCEPT !.res = res]
      OBVIOUS
    <3>4. y.op = x.op /\ y.conn = x.conn /\ y.fd = x.fd /\ y.res = res
      BY <3>1, <3>3 DEF Op
    <3> QED BY <3>2, <3>3, <3>4
  <2>3. posted' = posted \ {x} /\ completed' = completed \cup {y} /\ open' = open
    BY <1>2, <2>1, <2>2 DEF Complete
  <2>4. TypeOK'
    BY <1>0, <2>3 DEF TypeOK
  <2>5. x \notin completed
    BY DEF Quiet
  <2>6. \A z \in posted' \cup completed' : z.op = "ACCEPT" /\ z.conn = None /\ z.fd \in open'
    BY <2>2, <2>3 DEF Quiet
  <2>7. ASSUME NEW u \in posted' \cup completed', NEW v \in posted' \cup completed', u.fd = v.fd PROVE u = v
    <3>1. \A z \in (posted \ {x}) \cup completed : z.fd # y.fd
      BY <2>2, <2>5 DEF Quiet
    <3>2. /\ u = y \/ u \in (posted \ {x}) \cup completed
          /\ v = y \/ v \in (posted \ {x}) \cup completed
      BY <2>3, <2>7
    <3> QED BY <2>7, <3>1, <3>2 DEF Quiet
  <2>8. /\ \A z \in posted' : z.res = "pending" /\ z \in posted
        /\ \A z \in completed' : z.res # "pending"
    BY <2>2, <2>3 DEF Quiet
  <2> QED BY <2>4, <2>6, <2>7, <2>8 DEF Quiet
<1>3. ASSUME NEW f \in Fds \ open, completed' = completed, posted' = posted \cup {AcceptOp(f)}, open' = open \cup {f}
      PROVE  Quiet'
  <2>1. PICK y \in Op : y = AcceptOp(f) /\ y.op = "ACCEPT" /\ y.conn = None /\ y.fd = f /\ y.res = "pending"
    <3>1. f \in Fds
      OBVIOUS
    <3>2. AcceptOp(f) \in Op
      BY <3>1 DEF AcceptOp, Op
    <3>3. PICK y : y = AcceptOp(f)
      OBVIOUS
    <3>4. y.op = "ACCEPT" /\ y.conn = None /\ y.fd = f /\ y.res = "pending"
      BY <3>3 DEF AcceptOp
    <3> QED BY <3>2, <3>3, <3>4
  <2>2. TypeOK'
    BY <1>0, <1>3, <2>1 DEF TypeOK
  <2>3. \A z \in posted' \cup completed' : z.op = "ACCEPT" /\ z.conn = None /\ z.fd \in open'
    BY <1>3, <2>1 DEF Quiet
  <2>4. ASSUME NEW u \in posted' \cup completed', NEW v \in posted' \cup completed', u.fd = v.fd PROVE u = v
    <3>1. \A z \in posted \cup completed : z.fd # y.fd
      BY <1>3, <2>1 DEF Quiet
    <3> QED BY <1>3, <2>1, <2>4, <3>1 DEF Quiet
  <2>5. \A z \in posted' : z.res = "pending"
    BY <1>3, <2>1 DEF Quiet
  <2> QED BY <1>3, <2>2, <2>3, <2>4, <2>5 DEF Quiet
<1> QED BY <1>1, <1>2, <1>3

LEMMA LifeInitial == LifeInit => LifeInv
<1> SUFFICES ASSUME LifeInit PROVE LifeInv
  OBVIOUS
<1>1. TypeOK
  <2>1. NoConnection \in Connection
    BY DEF NoConnection, NewConnection, Connection, States
  <2>2. worker \in [Workers -> Worker]
    BY Places DEF LifeInit, Worker
  <2> QED BY <2>1, <2>2 DEF LifeInit, TypeOK, Stages
<1>2. Quiet
  BY <1>1 DEF Quiet, LifeInit
<1> QED BY <1>2, QuietInvs DEF LifeInv, LifeInit

LEMMA LifeKeeps == LifeInv /\ [LifeNext]_lifeVars => LifeInv'
<1> SUFFICES ASSUME LifeInv, [LifeNext]_lifeVars PROVE LifeInv'
  OBVIOUS
<1>1. (Quiet => ActivityInv /\ CountInv /\ RestInv /\ OwnInv /\ BufferInv)'
  BY QuietInvs, PTL
<1>2. ASSUME Quiet', main' \in {"engine", "listen", "accepts", "serving", "failed", "exited"} PROVE LifeInv'
  BY <1>1, <1>2 DEF LifeInv
<1>3. stage \in Stages /\ open \subseteq Fds
  BY DEF LifeInv, ActivityInv, TypeOK
<1>4. CASE StartStep
  <2>1. main \in {"engine", "listen", "accepts"} /\ Quiet
    BY <1>4 DEF StartStep, CreateEngine, CreateListenSocket, PostInitialAccept, StartWorkers, LifeInv
  <2>2. CASE CreateEngine \/ CreateListenSocket
    <3>1. UNCHANGED vars /\ main' \in {"listen", "accepts", "failed"}
      BY <2>2 DEF CreateEngine, CreateListenSocket, StartFails
    <3> QED BY <1>2, <1>3, <2>1, <3>1, QuietKeeps DEF vars
  <2>3. CASE PostInitialAccept
    <3>1. CASE StartFails
      <4>1. UNCHANGED vars /\ main' = "failed"
        BY <3>1 DEF StartFails
      <4> QED BY <1>2, <1>3, <2>1, <4>1, QuietKeeps DEF vars
    <3>2. CASE ~StartFails
      <4>1. PICK f \in Issuable :
              /\ open' = open \cup {f} /\ posted' = posted \cup {AcceptOp(f)}
              /\ UNCHANGED <<stage, free_list, completed, obj, connections, worker, main>>
        BY <2>3, <3>2 DEF PostInitialAccept
      <4>2. f \in Fds \ open
        BY DEF Issuable
      <4> QED BY <1>2, <1>3, <2>1, <4>1, <4>2, QuietKeeps
    <3> QED BY <3>1, <3>2
  <2>4. CASE StartWorkers
    BY <1>2, <1>3, <2>1, <2>4, QuietKeeps DEF StartWorkers, Stages
  <2> QED BY <1>4, <2>2, <2>3, <2>4 DEF StartStep
<1>5. CASE CtrlC \/ \E x \in posted : Complete(x) /\ UNCHANGED main
  <2>1. CASE main = "serving"
    BY <1>5, <2>1, ServingKeeps DEF CtrlC, Next
  <2>2. CASE main # "serving"
    <3>1. Quiet /\ main' = main /\ UNCHANGED <<free_list, obj, connections, worker, open>> /\ stage' \in Stages
      BY <1>3, <1>5, <2>2 DEF CtrlC, Shutdown, Complete, LifeInv, Stages
    <3>2. (posted' = posted /\ completed' = completed) \/ \E x \in posted : Complete(x)
      BY <1>5 DEF CtrlC, Shutdown
    <3>3. Quiet'
      BY <1>3, <3>1, <3>2, QuietKeeps
    <3> QED BY <1>2, <3>1, <3>3 DEF LifeInv
  <2> QED BY <2>1, <2>2
<1>6. CASE Stop \/ \E w \in Workers : main = "serving" /\ WorkerStep(w) /\ UNCHANGED main
  BY <1>6, ServingKeeps DEF Stop, Next
<1>7. CASE Exit
  <2>1. /\ Quiet /\ main' = "exited" /\ posted' = {} /\ completed' = {}
        /\ UNCHANGED <<stage, free_list, obj, connections, open, worker>>
    BY <1>7 DEF Exit, LifeInv
  <2> QED BY <1>2, <1>3, <2>1, QuietKeeps
<1>8. CASE UNCHANGED lifeVars
  <2>1. UNCHANGED vars /\ main' = main
    BY <1>8 DEF lifeVars
  <2>2. CASE main = "serving"
    BY <2>1, <2>2, ServingKeeps
  <2>3. CASE main # "serving"
    <3>1. Quiet
      BY <2>3 DEF LifeInv
    <3> QED BY <1>2, <1>3, <2>1, <3>1, QuietKeeps DEF vars, LifeInv
  <2> QED BY <2>2, <2>3
<1> QED BY <1>4, <1>5, <1>6, <1>7, <1>8 DEF LifeNext

\* Every variable of the process has its type, whatever of start() fails and whenever Ctrl+C comes,
\* and nothing but accepts exists before the workers run.
THEOREM LifeTypeCorrect == LifeSpec => []LifeTypeOK
<1>1. LifeInv => LifeTypeOK
  <2> SUFFICES ASSUME LifeInv PROVE LifeTypeOK
    OBVIOUS
  <2>1. ASSUME Quiet PROVE \A x \in Queued : x.op = "ACCEPT"
    BY <2>1 DEF Quiet, Queued
  <2> QED BY <2>1 DEF LifeInv, LifeTypeOK, ActivityInv
<1> QED BY LifeInitial, LifeKeeps, <1>1, PTL DEF LifeSpec

\* What the gateway promises holds in the process that starts, serves and stops it, too: also when
\* start() fails halfway, and when Ctrl+C comes before the workers do.
THEOREM LifeSafe ==
  LifeSpec => [](/\ OneActivity /\ KeepAliveBound
                 /\ EagerReuse = FALSE =>
                      /\ NotStranded /\ NoUseAfterDestroy /\ SocketOwnedOnce
                      /\ BufferPinned /\ BufferConserved)
<1>1. LifeInv => /\ OneActivity /\ KeepAliveBound
                 /\ EagerReuse = FALSE =>
                      /\ NotStranded /\ NoUseAfterDestroy /\ SocketOwnedOnce
                      /\ BufferPinned /\ BufferConserved
  <2>1. ActivityInv => OneActivity
    BY DEF ActivityInv
  <2>2. CountInv => KeepAliveBound
    BY DEF CountInv, KeepAliveBound, Most
  <2> QED BY <2>1, <2>2, OwnedMeans, BufferMeans DEF LifeInv
<1> QED BY LifeInitial, LifeKeeps, <1>1, PTL DEF LifeSpec

-----------------------------------------------------------------------------
(* The accepts of the server.                                              *)

AcceptOps == {x \in Queued : x.op = "ACCEPT"}
Accepters == {w \in Workers : Accepter(worker[w])}

\* One by one: an accept is taken by a handler, posted by one, completed, or lost by one.
LEMMA CountAccepts ==
  ASSUME NEW A, NEW R, IsFiniteSet(A), IsFiniteSet(R), NEW B, NEW Q
  PROVE  /\ B = A /\ Q = R => Cardinality(B) + Cardinality(Q) = Cardinality(A) + Cardinality(R)
         /\ \A x, w : x \in A /\ w \notin R /\ B = A \ {x} /\ Q = R \cup {w} =>
              Cardinality(B) + Cardinality(Q) = Cardinality(A) + Cardinality(R)
         /\ \A y, w : w \in R /\ y \notin A /\ B = A \cup {y} /\ Q = R \ {w} =>
              Cardinality(B) + Cardinality(Q) = Cardinality(A) + Cardinality(R)
         /\ \A x, y : x \in A /\ y \notin A \ {x} /\ B = (A \ {x}) \cup {y} /\ Q = R =>
              Cardinality(B) + Cardinality(Q) = Cardinality(A) + Cardinality(R)
         /\ \A w : w \in R /\ B = A /\ Q = R \ {w} =>
              Cardinality(B) + Cardinality(Q) = (Cardinality(A) + Cardinality(R)) - 1
<1>1. Cardinality(A) \in Nat /\ Cardinality(R) \in Nat
  BY FS_CardinalityType
<1>2. \A w : /\ w \notin R => Cardinality(R \cup {w}) = Cardinality(R) + 1
             /\ w \in R => Cardinality(R \ {w}) = Cardinality(R) - 1
  BY FS_AddElement, FS_RemoveElement
<1>3. \A x : /\ x \notin A => Cardinality(A \cup {x}) = Cardinality(A) + 1
             /\ x \in A => Cardinality(A \ {x}) = Cardinality(A) - 1
  BY FS_AddElement, FS_RemoveElement
<1>4. ASSUME NEW x \in A, NEW y, y \notin A \ {x}
      PROVE  Cardinality((A \ {x}) \cup {y}) = Cardinality(A)
  <2>1. IsFiniteSet(A \ {x}) /\ Cardinality(A \ {x}) = Cardinality(A) - 1
    BY FS_RemoveElement
  <2>2. Cardinality((A \ {x}) \cup {y}) = Cardinality(A \ {x}) + 1
    BY <1>4, <2>1, FS_AddElement
  <2> QED BY <1>1, <2>1, <2>2
<1>5. \A x, w : x \in A /\ w \notin R /\ B = A \ {x} /\ Q = R \cup {w} =>
        Cardinality(B) + Cardinality(Q) = Cardinality(A) + Cardinality(R)
  BY <1>1, <1>2, <1>3
<1>6. \A y, w : w \in R /\ y \notin A /\ B = A \cup {y} /\ Q = R \ {w} =>
        Cardinality(B) + Cardinality(Q) = Cardinality(A) + Cardinality(R)
  BY <1>1, <1>2, <1>3
<1>7. \A x, y : x \in A /\ y \notin A \ {x} /\ B = (A \ {x}) \cup {y} /\ Q = R =>
        Cardinality(B) + Cardinality(Q) = Cardinality(A) + Cardinality(R)
  BY <1>4
<1>8. \A w : w \in R /\ B = A /\ Q = R \ {w} =>
        Cardinality(B) + Cardinality(Q) = (Cardinality(A) + Cardinality(R)) - 1
  BY <1>1, <1>2
<1> QED BY <1>5, <1>6, <1>7, <1>8

\* Each accept has a handle of its own, so there are finitely many.
LEMMA AcceptsFinite ==
  ASSUME ActivityInv, OwnInv
  PROVE  IsFiniteSet(AcceptOps) /\ IsFiniteSet(Accepters)
<1>1. \A x \in AcceptOps : x.fd \in Fds
  BY Kinds3 DEF AcceptOps
<1>2. \A x, y \in AcceptOps : x.fd = y.fd => x = y
  BY DEF AcceptOps, OwnInv, AcceptInv
<1>3. PICK h : h = [x \in AcceptOps |-> x.fd]
  OBVIOUS
<1>4. h \in [AcceptOps -> Fds] /\ \A x \in AcceptOps : h[x] = x.fd
  BY <1>1, <1>3
<1>5. h \in Injection(AcceptOps, Fds)
  BY <1>2, <1>4 DEF Injection, IsInjective
<1>6. IsFiniteSet(AcceptOps)
  BY <1>5, FS_Injection, GatewayAssumption
<1>7. IsFiniteSet(Accepters)
  BY FS_Subset, LifeAssumption DEF Accepters
<1> QED BY <1>6, <1>7

\* The operations queued after a step of w that neither completes nor posts an accept.
LEMMA SameAccepts ==
  ASSUME ActivityInv, NEW w \in Workers, WorkerStep(w), ~Repost(w),
         ~(worker[w].pc = "next" /\ \E x \in worker[w].batch : AcceptComplete(w, x))
  PROVE  AcceptOps' = AcceptOps
<1>1. ASSUME NEW c \in Conns, OwnerStep(w, c) PROVE AcceptOps' = AcceptOps
  BY <1>1, OwnerQueued DEF AcceptOps
<1>2. ASSUME NEW c \in Conns, LateStep(w, c) PROVE AcceptOps' = AcceptOps
  BY <1>2, QueuedSame DEF LateStep, AcceptOps
<1>3. ASSUME NEW c \in Conns, NEW x \in worker[w].batch, x.op # "ACCEPT", EntersStep(w, x, c)
      PROVE  AcceptOps' = AcceptOps
  <2>1. posted' = posted /\ completed' = completed
        /\ worker'[w].batch = worker[w].batch \ {x}
        /\ \A v \in Workers \ {w} : worker'[v] = worker[v]
    BY <1>3 DEF EntersStep
  <2>2. Queued' \subseteq Queued /\ \A z \in Queued : z \in Queued' \/ z = x
    BY <2>1 DEF Queued
  <2> QED BY <1>3, <2>2 DEF AcceptOps
<1>4. CASE Waits(w)
  BY <1>4, WaitsQueued DEF AcceptOps
<1> QED BY <1>1, <1>2, <1>3, <1>4, WorkerCases

\* An accept that a handler takes leaves the queue.
LEMMA TakenAccept ==
  ASSUME ActivityInv, OwnInv, NEW w \in Workers, NEW x \in worker[w].batch, AcceptComplete(w, x)
  PROVE  AcceptOps' = AcceptOps \ {x} /\ x \in AcceptOps
<1>1. PICK c \in Conns : Enter(w, x, c, "read", "repost")
  BY DEF AcceptComplete
<1>2. x.op = "ACCEPT" /\ posted' = posted /\ completed' = completed
  BY DEF AcceptComplete
<1>3. worker'[w].batch = worker[w].batch \ {x} /\ \A v \in Workers \ {w} : worker'[v] = worker[v]
  BY <1>1 DEF ActivityInv, TypeOK, Enter, Worker
<1>4. x \notin posted /\ x \notin completed /\ \A v \in Workers \ {w} : x \notin worker[v].batch
  BY <1>2 DEF ActivityInv, ResultsComplete, OwnInv, AcceptOnce
<1>5. Queued' = Queued \ {x} /\ x \in Queued
  BY <1>2, <1>3, <1>4 DEF Queued
<1> QED BY <1>2, <1>5 DEF AcceptOps

LEMMA AcceptsStep ==
  ASSUME EagerReuse = FALSE, LifeInv, [LifeNext]_lifeVars, main = "serving", stage' # "stopped"
  PROVE  \/ Accepts' = Accepts
         \/ /\ Accepts' = Accepts - 1 /\ posted' = posted
            /\ \E w \in Workers : worker[w].pc = "repost" /\ worker'[w].pc = "next"
<1>0. ActivityInv /\ RestInv /\ OwnInv
  BY DEF LifeInv
<1>1. IsFiniteSet(AcceptOps) /\ IsFiniteSet(Accepters)
  BY <1>0, AcceptsFinite
<1>2. Accepts = Cardinality(AcceptOps) + Cardinality(Accepters)
  BY DEF Accepts, AcceptOps, Accepters, Accepter
<1>3. Accepts' = Cardinality(AcceptOps') + Cardinality(Accepters')
  BY DEF Accepts, AcceptOps, Accepters, Accepter
<1>4. ASSUME NEW w \in Workers, WorkerStep(w)
      PROVE  \/ Accepts' = Accepts
             \/ /\ Accepts' = Accepts - 1 /\ posted' = posted
                /\ \E v \in Workers : worker[v].pc = "repost" /\ worker'[v].pc = "next"
  <2>0. /\ Rested(worker'[w]) /\ \A v \in Workers \ {w} : worker'[v] = worker[v]
        /\ \/ Accepter(worker'[w]) <=> Accepter(worker[w])
           \/ worker[w].pc = "next" /\ \E x \in worker[w].batch : AcceptComplete(w, x)
           \/ Repost(w)
    BY <1>0, <1>4, WorkerRests
  <2>1. CASE /\ ~Repost(w)
             /\ ~(worker[w].pc = "next" /\ \E x \in worker[w].batch : AcceptComplete(w, x))
    <3>1. AcceptOps' = AcceptOps
      BY <1>0, <1>4, <2>1, SameAccepts
    <3>2. Accepters' = Accepters
      BY <2>0, <2>1 DEF Accepters, Accepter
    <3> QED BY <1>1, <1>2, <1>3, <3>1, <3>2, CountAccepts
  <2>2. ASSUME NEW x \in worker[w].batch, AcceptComplete(w, x), worker[w].pc = "next"
        PROVE  Accepts' = Accepts
    <3>1. AcceptOps' = AcceptOps \ {x} /\ x \in AcceptOps
      BY <1>0, <2>2, TakenAccept
    <3>2. worker'[w].rest = "repost"
      BY <1>0, <2>2 DEF AcceptComplete, Enter, ActivityInv, TypeOK, Worker
    <3>3. worker[w].rest = "return"
      BY <1>0, <2>2 DEF RestInv, Rested, Outside
    <3>4. Accepters' = Accepters \cup {w} /\ w \notin Accepters
      BY <2>0, <2>2, <3>2, <3>3 DEF Accepters, Accepter
    <3> QED BY <1>1, <1>2, <1>3, <3>1, <3>4, CountAccepts
  <2>3. CASE Repost(w)
    <3>1. /\ worker'[w].pc = "next" /\ worker'[w].rest = "return" /\ worker[w].pc = "repost"
          /\ \/ Queued' = Queued /\ posted' = posted
             \/ \E f \in Issuable : \E y : /\ Queued' = Queued \cup {y} /\ y.op = "ACCEPT" /\ y.fd = f
      BY <1>0, <2>3, RepostQueued DEF Repost
    <3>2. Accepters' = Accepters \ {w} /\ w \in Accepters
      BY <2>0, <3>1 DEF Accepters, Accepter
    <3>3. CASE Queued' = Queued /\ posted' = posted
      <4>1. AcceptOps' = AcceptOps
        BY <3>3 DEF AcceptOps
      <4>2. Accepts' = Accepts - 1
        BY <1>1, <1>2, <1>3, <3>2, <4>1, CountAccepts
      <4> QED BY <3>1, <3>3, <4>2
    <3>4. ASSUME NEW f \in Issuable, NEW y, Queued' = Queued \cup {y}, y.op = "ACCEPT", y.fd = f
          PROVE  Accepts' = Accepts
      <4>1. AcceptOps' = AcceptOps \cup {y}
        BY <3>4 DEF AcceptOps
      <4>2. y \notin AcceptOps
        BY <1>0, <3>4 DEF AcceptOps, OwnInv, AcceptInv, Issuable
      <4> QED BY <1>1, <1>2, <1>3, <3>2, <4>1, <4>2, CountAccepts
    <3> QED BY <3>1, <3>3, <3>4
  <2> QED BY <2>1, <2>2, <2>3
<1>5. ASSUME NEW x \in posted, Complete(x) PROVE Accepts' = Accepts
  <2>1. worker' = worker /\ x \in Queued
    BY <1>0, <1>5, CompleteQueued
  <2>2. PICK y : SameButResult(y, x) /\ Queued' = (Queued \ {x}) \cup {y}
    BY <1>0, <1>5, CompleteQueued
  <2>3. Accepters' = Accepters
    BY <2>1 DEF Accepters, Accepter
  <2>4. CASE x.op = "ACCEPT"
    <3>1. AcceptOps' = (AcceptOps \ {x}) \cup {y} /\ x \in AcceptOps
      BY <2>1, <2>2, <2>4 DEF AcceptOps, SameButResult
    <3>2. y \notin AcceptOps \ {x}
      BY <1>0, <2>1, <2>2, <2>4 DEF AcceptOps, SameButResult, OwnInv, AcceptInv
    <3> QED BY <1>1, <1>2, <1>3, <2>3, <3>1, <3>2, CountAccepts
  <2>5. CASE x.op # "ACCEPT"
    <3>1. AcceptOps' = AcceptOps
      BY <2>1, <2>2, <2>5 DEF AcceptOps, SameButResult
    <3> QED BY <1>1, <1>2, <1>3, <2>3, <3>1, CountAccepts
  <2> QED BY <2>4, <2>5
<1>6. CASE Shutdown \/ StopAccepting \/ UNCHANGED vars
  <2>1. UNCHANGED <<posted, completed, worker>>
    BY <1>6 DEF Shutdown, StopAccepting, vars
  <2>2. AcceptOps' = AcceptOps /\ Accepters' = Accepters
    BY <2>1 DEF AcceptOps, Accepters, Accepter, Queued
  <2> QED BY <1>1, <1>2, <1>3, <2>2, CountAccepts
<1>7. CASE StartStep \/ Exit
  BY <1>7 DEF StartStep, CreateEngine, CreateListenSocket, PostInitialAccept, StartWorkers, Exit
<1>8. CASE CtrlC \/ Stop
  BY <1>6, <1>8 DEF CtrlC, Stop, CloseAll
<1>9. CASE UNCHANGED lifeVars
  BY <1>6, <1>9 DEF lifeVars
<1> QED BY <1>4, <1>5, <1>7, <1>8, <1>9 DEF LifeNext

\* While the server runs, the number of accepts that are posted, completed or about to follow one is
\* kept, whatever happens to the connections; only a failing post_accept loses one (server.cpp:328).
THEOREM AcceptsKeptHolds == EagerReuse = FALSE => (LifeSpec => AcceptsKept)
<1> SUFFICES ASSUME EagerReuse = FALSE PROVE LifeSpec => AcceptsKept
  OBVIOUS
<1>1. LifeInv /\ [LifeNext]_lifeVars =>
        [main = "serving" /\ stage' # "stopped" =>
           \/ Accepts' = Accepts
           \/ /\ Accepts' = Accepts - 1 /\ posted' = posted
              /\ \E w \in Workers : worker[w].pc = "repost" /\ worker'[w].pc = "next"]_lifeVars
  BY AcceptsStep
<1> QED BY LifeInitial, LifeKeeps, <1>1, PTL DEF LifeSpec, AcceptsKept

=============================================================================
