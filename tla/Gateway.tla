------------------------------- MODULE Gateway -------------------------------
(***************************************************************************)
(* The gateway's core: Server (server.cpp), Connection (connection.cpp),   *)
(* the IOCP engine (io_engine_iocp.cpp) and the buffer pool, run by a pool *)
(* of worker threads.                                                      *)
(*                                                                         *)
(* A worker takes a batch of completions and runs one handler per          *)
(* completion.  A handler is cut into steps exactly where another thread   *)
(* can observe it: after an operation has been posted (its completion can  *)
(* be handled by another worker while the poster is still in its           *)
(* function), after closesocket() (the handle can be issued again), around *)
(* the blocking agent call, and between two calls on the buffer pool.      *)
(* Everything else a handler does is private to its connection.            *)
(*                                                                         *)
(* What a completion carries is abstracted to the branch it makes the      *)
(* handler take (end of stream, parse error, complete request, more bytes  *)
(* needed); the byte stream itself is the subject of module Connection.    *)
(* An IOCPContext is the record of the operation it was acquired for, in   *)
(* posted, in completed or in a worker's batch.  acquire_context()         *)
(* allocates when its pool is empty, so it never fails; release_context()  *)
(* is the end of the record and leaves nothing else to model.              *)
(***************************************************************************)
EXTENDS Naturals, FiniteSets

CONSTANTS
  Workers,      \* worker threads
  Conns,        \* memory for Connection objects
  Fds,          \* socket handles the OS can issue
  Bufs,         \* buffers of the BufferPool
  AcceptSlots,  \* accepts posted by Server::start (worker_count * 2)
  MaxRequests,  \* MAX_KEEPALIVE_REQUESTS
  MaxBatch,     \* MAX_COMPLETIONS
  PostMayFail,  \* TRUE: socket(), AcceptEx, WSARecv and WSASend may fail
  EagerReuse,   \* TRUE: the OS may issue a handle again as soon as it is closed
  None          \* INVALID_SOCKET_VAL, the empty BufferHandle, nullptr

ASSUME GatewayAssumption ==
  /\ IsFiniteSet(Fds) /\ AcceptSlots \in 0..Cardinality(Fds)
  /\ MaxRequests \in Nat /\ MaxBatch \in Nat \ {0}
  /\ PostMayFail \in BOOLEAN /\ EagerReuse \in BOOLEAN
  /\ None \notin Conns \cup Fds \cup Bufs

VARIABLES
  stage,        \* g_running and the progress of Server::stop
  free_list,    \* BufferPool::free_list_
  posted,       \* operations the kernel holds
  completed,    \* the completion port's queue
  obj,          \* the Connection objects
  connections,  \* Server::connections_
  open,         \* socket handles that are open
  worker        \* the worker threads

vars == <<stage, free_list, posted, completed, obj, connections, open, worker>>

Stages == {"serving", "stopping", "unlistened", "stopped"}
States == {"ACCEPTED", "READING_REQUEST", "SENDING_RESPONSE", "IDLE", "CLOSING", "CLOSED"}
\* Where a worker is.  "wait": in wait_completions; "next": between two
\* completions of its batch; "read": about to enter start_reading; "expired":
\* start_reading found the body timeout; "bad": the parser reported an error;
\* "handle": about to enter handle_request; "agent": blocked in the agent call;
\* "idle": about to enter transition_to_idle; "shut": about to close; "sent",
\* "receiving": a send or a recv is posted, state_ not yet written; "closing":
\* the socket is closed, fd_ and state_ not yet written;
\* "tail": back in the caller of the function that posted or closed;
\* "repost": about to post the next accept.
Pcs == {"wait", "next", "read", "expired", "bad", "handle", "agent", "idle", "shut",
        "sent", "receiving", "closing", "tail", "repost", "exited"}
\* What the caller still does after the call that posted or closed returns.
Rests == {"return", "release_recv", "repost"}

Op == [op : {"ACCEPT", "RECV", "SEND"}, conn : Conns \cup {None},
       fd : Fds, buf : Bufs \cup {None}, res : {"pending", "ok", "eof"}]

Connection == [life : {"none", "live"}, state : States,
               fd : Fds \cup {None}, recv_buffer : Bufs \cup {None},
               send_buffer : Bufs \cup {None}, keep_alive : BOOLEAN,
               request_count : Nat, pending : BOOLEAN, body_timer : BOOLEAN]

Worker == [pc : Pcs, batch : SUBSET Op, conn : Conns \cup {None},
           rest : Rests]

NewConnection(f) ==
  [life |-> "live", state |-> "ACCEPTED", fd |-> f, recv_buffer |-> None,
   send_buffer |-> None, keep_alive |-> TRUE, request_count |-> 0,
   pending |-> FALSE, body_timer |-> FALSE]

NoConnection == [NewConnection(None) EXCEPT !.life = "none"]

AcceptOp(f) == [op |-> "ACCEPT", conn |-> None, fd |-> f, buf |-> None, res |-> "pending"]
IoOp(kind, c, f, b) == [op |-> kind, conn |-> c, fd |-> f, buf |-> b, res |-> "pending"]

\* Mutant: workers do not see g_running cleared.
running_Unseen == stage # "stopped"

running == stage = "serving"

\* Operations whose completion no worker has started to handle.
Queued == posted \cup completed \cup UNION {worker[w].batch : w \in Workers}

Init ==
  /\ stage = "serving"
  /\ free_list = Bufs
  /\ \E accepting \in SUBSET Fds :
       /\ Cardinality(accepting) = AcceptSlots
       /\ open = accepting
       /\ posted = {AcceptOp(f) : f \in accepting}
  /\ completed = {}
  /\ obj = [c \in Conns |-> NoConnection]
  /\ connections = [f \in Fds |-> None]
  /\ worker = [w \in Workers |->
                 [pc |-> "wait", batch |-> {}, conn |-> None, rest |-> "return"]]

-----------------------------------------------------------------------------
(* The buffer handles and the socket handles.                              *)

\* Mutants: an empty handle is released too; a handle does not release.
Owned_Unguarded(b) == {b}
Owned_Leaked(b) == {}

\* Assigning to a BufferHandle gives its old buffer back to the pool.
Owned(b) == {b} \ {None}

\* The handles socket() may return.  Without EagerReuse the OS is assumed not
\* to issue a handle while a worker is inside a handler of its last connection.
Issuable ==
  {f \in Fds \ open :
     EagerReuse \/ \A w \in Workers : worker[w].conn # None => worker[w].conn # connections[f]}

-----------------------------------------------------------------------------
(* Steps of a worker through a handler.                                    *)

Goto(w, pc, rest) ==
  worker' = [worker EXCEPT ![w].pc = pc, ![w].rest = rest]

\* The handler is over: the worker takes the next completion of its batch.
Return(w) ==
  worker' = [worker EXCEPT ![w] =
               [pc |-> "next", batch |-> @.batch, conn |-> None, rest |-> "return"]]

\* Mutant: close() also returns early while a response is being sent.
IsClosing_OrSending(o) == o.state \in {"CLOSING", "CLOSED", "SENDING_RESPONSE"}

\* close() has been called before.
IsClosing(o) == o.state \in {"CLOSING", "CLOSED"}

\* Connection::close, up to and including closesocket(): o is the object as
\* the caller left it.  A second close() returns at once.
Close(w, c, o, rest) ==
  \/ /\ IsClosing(o)
     /\ obj' = [obj EXCEPT ![c] = o]
     /\ Goto(w, "tail", rest)
     /\ UNCHANGED open
  \/ /\ ~IsClosing(o)
     /\ obj' = [obj EXCEPT ![c] = [o EXCEPT !.state = "CLOSING"]]
     /\ open' = open \ Owned(o.fd)
     /\ Goto(w, "closing", rest)

\* Mutant: the next recv is posted without waiting for the send to complete.
Posted_ReadsOn(w, c, o, kind, b, pc, rest) ==
  /\ o.fd \in open
  /\ obj' = [obj EXCEPT ![c] = o]
  /\ posted' = posted \cup {IoOp(kind, c, o.fd, b)}
  /\ Goto(w, IF kind = "SEND" THEN "read" ELSE pc, rest)
  /\ UNCHANGED open

\* Posting an I/O of the connection; state_ is written only when it returns.
Posted(w, c, o, kind, b, pc, rest) ==
  /\ o.fd \in open
  /\ obj' = [obj EXCEPT ![c] = o]
  /\ posted' = posted \cup {IoOp(kind, c, o.fd, b)}
  /\ Goto(w, pc, rest)
  /\ UNCHANGED open

\* send_response, send_sse_response and, with keep_alive_ cleared, send_error:
\* take a send buffer and post the send, or close when the pool is exhausted,
\* the response does not fit the buffer, or WSASend fails.
Send(w, c, o, rest) ==
  /\ \/ \E b \in free_list :
          LET sending == [o EXCEPT !.send_buffer = b]
          IN  /\ free_list' = (free_list \ {b}) \cup Owned(o.send_buffer)
              /\ \/ Posted(w, c, sending, "SEND", b, "sent", rest)
                 \/ /\ PostMayFail \/ o.fd \notin open
                    /\ Close(w, c, sending, rest)
                    /\ UNCHANGED posted
     \/ /\ free_list = {}
        /\ free_list' = Owned(o.send_buffer)
        /\ Close(w, c, [o EXCEPT !.send_buffer = None], rest)
        /\ UNCHANGED posted
  /\ UNCHANGED <<stage, completed, connections>>

\* Mutant: an error response leaves keep_alive_ as it is.
SendError_KeepsAlive(w, c, o, rest) == Send(w, c, o, rest)

SendError(w, c, o, rest) == Send(w, c, [o EXCEPT !.keep_alive = FALSE], rest)

\* start_reading, past the body timeout: the new buffer is acquired before
\* the old one goes back.
StartReading(w) ==
  LET c == worker[w].conn
      o == obj[c]
      rest == worker[w].rest
  IN  /\ worker[w].pc = "read"
      /\ \/ \E b \in free_list :
              LET reading == [o EXCEPT !.recv_buffer = b]
              IN  /\ free_list' = (free_list \ {b}) \cup Owned(o.recv_buffer)
                  /\ \/ Posted(w, c, reading, "RECV", b, "receiving", rest)
                     \/ /\ PostMayFail \/ o.fd \notin open
                        /\ Close(w, c, reading, rest)
                        /\ UNCHANGED posted
         \/ /\ free_list = {}
            /\ free_list' = Owned(o.recv_buffer)
            /\ Close(w, c, [o EXCEPT !.recv_buffer = None], rest)
            /\ UNCHANGED posted
      /\ UNCHANGED <<stage, completed, connections>>

\* start_reading: the body has been incomplete for BODY_READ_TIMEOUT_MS.
BodyTimeout(w) ==
  /\ worker[w].pc = "expired"
  /\ SendError(w, worker[w].conn, obj[worker[w].conn], "return")

\* The statement after a post: state_ is assigned although the operation may
\* already have completed and been handled by another worker.
AfterPost(w) ==
  LET c == worker[w].conn
  IN  /\ worker[w].pc \in {"sent", "receiving"}
      /\ obj' = [obj EXCEPT ![c].state = IF worker[w].pc = "sent"
                                           THEN "SENDING_RESPONSE" ELSE "READING_REQUEST"]
      /\ Goto(w, "tail", worker[w].rest)
      /\ UNCHANGED <<stage, free_list, posted, completed, connections, open>>

\* Mutants: closing destroys the object; closing leaves fd_ as it is.
Closed_Destroyed(o) == NoConnection
Closed_KeepsFd(o) == [o EXCEPT !.state = "CLOSED"]

\* The rest of close(): fd_ and state_.
Closed(o) == [o EXCEPT !.fd = None, !.state = "CLOSED"]

AfterCloseSocket(w) ==
  LET c == worker[w].conn
  IN  /\ worker[w].pc = "closing"
      /\ obj' = [obj EXCEPT ![c] = Closed(@)]
      /\ Goto(w, "tail", worker[w].rest)
      /\ UNCHANGED <<stage, free_list, posted, completed, connections, open>>

\* Mutant: no accept follows when the new connection was closed at once.
Tail_OnlyIfOpen(w) ==
  LET c == worker[w].conn
  IN  /\ worker[w].pc = "tail"
      /\ IF worker[w].rest = "repost" /\ obj[c].fd # None
           THEN worker' = [worker EXCEPT ![w].pc = "repost", ![w].conn = None,
                                         ![w].rest = "return"]
           ELSE Return(w)
      /\ UNCHANGED <<stage, free_list, posted, completed, obj, connections, open>>

\* The rest of the handler: after a parse error, release the receive buffer;
\* an accept handler goes on to post the next accept.
Tail(w) ==
  LET c == worker[w].conn
  IN  /\ worker[w].pc = "tail"
      /\ IF worker[w].rest = "release_recv"
           THEN /\ free_list' = free_list \cup Owned(obj[c].recv_buffer)
                /\ obj' = [obj EXCEPT ![c].recv_buffer = None]
           ELSE UNCHANGED <<free_list, obj>>
      /\ IF worker[w].rest = "repost"
           THEN worker' = [worker EXCEPT ![w].pc = "repost", ![w].conn = None,
                                         ![w].rest = "return"]
           ELSE Return(w)
      /\ UNCHANGED <<stage, posted, completed, connections, open>>

-----------------------------------------------------------------------------
(* Server::worker_loop                                                     *)

\* wait_completions returns part of the queue, at most MaxBatch of it.
TakeBatch(w) ==
  /\ worker[w].pc = "wait"
  /\ \E batch \in SUBSET completed \ {{}} :
       /\ Cardinality(batch) <= MaxBatch
       /\ completed' = completed \ batch
       /\ worker' = [worker EXCEPT ![w].pc = "next", ![w].batch = batch]
  /\ UNCHANGED <<stage, free_list, posted, obj, connections, open>>

\* wait_completions returns nothing (timeout or wakeup): g_running is tested.
WaitTimeout(w) ==
  /\ worker[w].pc = "wait" /\ ~running
  /\ worker' = [worker EXCEPT ![w].pc = "exited"]
  /\ UNCHANGED <<stage, free_list, posted, completed, obj, connections, open>>

EndBatch(w) ==
  /\ worker[w].pc = "next" /\ worker[w].batch = {}
  /\ worker' = [worker EXCEPT ![w].pc = IF running THEN "wait" ELSE "exited"]
  /\ UNCHANGED <<stage, free_list, posted, completed, obj, connections, open>>

\* The worker turns to the completion x of its batch, for connection c.
Enter(w, x, c, pc, rest) ==
  worker' = [worker EXCEPT ![w] =
               [pc |-> pc, batch |-> @.batch \ {x}, conn |-> c, rest |-> rest]]

-----------------------------------------------------------------------------
(* Server::on_accept_complete and post_accept                              *)

\* The Connection object is built and stored in connections_, which destroys
\* the object stored there before: its buffers go back to the pool, and it
\* closes the handle it has in fd_, if any.  (The engine reports no error for
\* an accept, so the branch for a failed one is never taken.)
AcceptComplete(w, x) ==
  LET f == x.fd
      old == connections[f]
  IN  /\ x.op = "ACCEPT"
      /\ \E c \in {d \in Conns : /\ obj[d].life # "live"
                                 /\ \A v \in Workers : worker[v].conn # d
                                 /\ \A y \in Queued : y.conn # d} :
           /\ obj' = [d \in Conns |->
                        IF d = c THEN [NewConnection(f) EXCEPT !.state = "READING_REQUEST"]
                        ELSE IF d = old THEN NoConnection ELSE obj[d]]
           /\ connections' = [connections EXCEPT ![f] = c]
           /\ Enter(w, x, c, "read", "repost")
      /\ IF old = None
           THEN UNCHANGED <<free_list, open>>
           ELSE /\ free_list' = free_list \cup Owned(obj[old].recv_buffer)
                                          \cup Owned(obj[old].send_buffer)
                /\ open' = open \ Owned(obj[old].fd)
      /\ UNCHANGED <<stage, posted, completed>>

\* post_accept, in the handler of an accept: a new socket is created for the
\* next connection.  If socket() or AcceptEx fails, nothing is posted.
Repost(w) ==
  /\ worker[w].pc = "repost"
  /\ \/ \E f \in Issuable :
          /\ stage \in {"serving", "stopping"}
          /\ open' = open \cup {f}
          /\ posted' = posted \cup {AcceptOp(f)}
     \/ /\ PostMayFail \/ stage = "unlistened" \/ Issuable = {}
        /\ UNCHANGED <<posted, open>>
  /\ Return(w)
  /\ UNCHANGED <<stage, free_list, completed, obj, connections>>

-----------------------------------------------------------------------------
(* Connection::on_recv_complete                                            *)

RecvClosed(w, x) ==
  /\ x.op = "RECV" /\ x.res = "eof"
  /\ Enter(w, x, x.conn, "shut", "return")
  /\ UNCHANGED <<stage, free_list, posted, completed, obj, connections, open>>

\* close() called by a handler: the peer has gone, or the response was the last.
CloseNow(w) ==
  LET c == worker[w].conn
  IN  /\ worker[w].pc = "shut"
      /\ Close(w, c, obj[c], "return")
      /\ UNCHANGED <<stage, free_list, posted, completed, connections>>

\* The parser needs more data: the next recv is posted.  While the parser is
\* in the body, start_reading starts body_read_start_ the first time and finds
\* the body late from the second time on.
RecvMore(w, x) ==
  /\ x.op = "RECV" /\ x.res = "ok"
  /\ \E in_body \in BOOLEAN, pc \in {"read", "expired"} :
       /\ pc = "expired" => in_body /\ obj[x.conn].body_timer
       /\ obj' = [obj EXCEPT ![x.conn].body_timer = in_body]
       /\ Enter(w, x, x.conn, pc, "return")
  /\ UNCHANGED <<stage, free_list, posted, completed, connections, open>>

\* A request is complete; what is left of the buffer is kept as pending_data_.
RecvRequest(w, x) ==
  LET c == x.conn
  IN  /\ x.op = "RECV" /\ x.res = "ok"
      /\ \E keep \in BOOLEAN, more \in BOOLEAN :
           obj' = [obj EXCEPT ![c].recv_buffer = None, ![c].keep_alive = keep,
                              ![c].request_count = @ + 1,
                              ![c].pending = @ \/ more, ![c].body_timer = FALSE]
      /\ free_list' = free_list \cup Owned(obj[c].recv_buffer)
      /\ Enter(w, x, c, "handle", "return")
      /\ UNCHANGED <<stage, posted, completed, connections, open>>

\* The parser reports an error: send_error runs first, the receive buffer is
\* released by Tail.
RecvError(w, x) ==
  /\ x.op = "RECV" /\ x.res = "ok"
  /\ Enter(w, x, x.conn, "bad", "release_recv")
  /\ UNCHANGED <<stage, free_list, posted, completed, obj, connections, open>>

BadRequest(w) ==
  /\ worker[w].pc = "bad"
  /\ SendError(w, worker[w].conn, obj[worker[w].conn], worker[w].rest)

-----------------------------------------------------------------------------
(* Connection::handle_request                                              *)

\* A route answered locally (send_response) or with an error: rate limit, 404,
\* no agent available.
Respond(w) ==
  LET c == worker[w].conn
  IN  /\ worker[w].pc = "handle"
      /\ Send(w, c, obj[c], "return") \/ SendError(w, c, obj[c], "return")

CallAgent(w) ==
  /\ worker[w].pc = "handle"
  /\ Goto(w, "agent", "return")
  /\ UNCHANGED <<stage, free_list, posted, completed, obj, connections, open>>

\* handle_chat_completion ends by sending the collected events, or an error.
AgentReturns(w) ==
  /\ worker[w].pc = "agent"
  /\ SendError(w, worker[w].conn, obj[worker[w].conn], "return")

-----------------------------------------------------------------------------
(* Connection::on_send_complete and transition_to_idle                     *)

\* Mutant: one request too many.
MayReuse_OffByOne(o) == o.keep_alive /\ o.request_count <= MaxRequests

MayReuse(o) == o.keep_alive /\ o.request_count < MaxRequests

SendDone(w, x) ==
  LET c == x.conn
      o == [obj[c] EXCEPT !.send_buffer = None]
  IN  /\ x.op = "SEND"
      /\ free_list' = free_list \cup Owned(obj[c].send_buffer)
      /\ obj' = [obj EXCEPT ![c] = o]
      /\ Enter(w, x, c, IF MayReuse(o) THEN "idle" ELSE "shut", "return")
      /\ UNCHANGED <<stage, posted, completed, connections, open>>

\* Pending bytes are parsed first: they hold a complete request, an error, or
\* a prefix (the parser consumes all of it); the rest, if any, is dropped.
ToIdle(w) ==
  LET c == worker[w].conn
      idle == [obj[c] EXCEPT !.state = "IDLE", !.pending = FALSE]
  IN  /\ worker[w].pc = "idle"
      /\ \/ /\ obj[c].pending
            /\ \E keep \in BOOLEAN :
                 obj' = [obj EXCEPT ![c] = [idle EXCEPT !.keep_alive = keep,
                                                        !.request_count = @ + 1]]
            /\ Goto(w, "handle", "return")
            /\ UNCHANGED <<stage, free_list, posted, completed, connections, open>>
         \/ /\ obj[c].pending
            /\ SendError(w, c, idle, "return")
         \/ /\ \E in_body \in {FALSE, obj[c].pending} :
                 obj' = [obj EXCEPT ![c] = [idle EXCEPT !.body_timer = in_body]]
            /\ Goto(w, "read", "return")
            /\ UNCHANGED <<stage, free_list, posted, completed, connections, open>>

-----------------------------------------------------------------------------
(* The kernel                                                              *)

\* An operation completes.  A recv ends with data or, also when its socket is
\* gone, with zero bytes; an aborted send or accept is not told from a
\* successful one (the engine always reports error 0).
Complete(x) ==
  /\ posted' = posted \ {x}
  /\ \E res \in {"ok", "eof"} :
       /\ res = "ok" => x.op # "RECV" \/ x.fd \in open
       /\ res = "eof" => x.op = "RECV"
       /\ completed' = completed \cup {[x EXCEPT !.res = res]}
  /\ UNCHANGED <<stage, free_list, obj, connections, open, worker>>

-----------------------------------------------------------------------------
(* Server::stop                                                            *)

\* Ctrl+C, or stop() itself, clears g_running.
Shutdown ==
  /\ stage = "serving"
  /\ stage' = "stopping"
  /\ UNCHANGED <<free_list, posted, completed, obj, connections, open, worker>>

\* The listening socket is closed.
StopAccepting ==
  /\ stage = "stopping"
  /\ stage' = "unlistened"
  /\ UNCHANGED <<free_list, posted, completed, obj, connections, open, worker>>

\* The workers have been joined: every connection is closed and destroyed.
\* The operations still posted are aborted with the engine.
CloseAll ==
  LET live == {c \in Conns : obj[c].life = "live"}
  IN  /\ stage = "unlistened"
      /\ \A w \in Workers : worker[w].pc = "exited"
      /\ stage' = "stopped"
      /\ open' = open \ {obj[c].fd : c \in live}
      /\ free_list' = free_list \cup UNION {Owned(obj[c].recv_buffer)
                                            \cup Owned(obj[c].send_buffer) : c \in live}
      /\ obj' = [c \in Conns |-> NoConnection]
      /\ connections' = [f \in Fds |-> None]
      /\ posted' = {} /\ completed' = {}
      /\ UNCHANGED worker

-----------------------------------------------------------------------------
Dispatch(w, x) ==
  \/ AcceptComplete(w, x)
  \/ RecvClosed(w, x) \/ RecvMore(w, x) \/ RecvRequest(w, x) \/ RecvError(w, x)
  \/ SendDone(w, x)

WorkerStep(w) ==
  \/ TakeBatch(w) \/ WaitTimeout(w) \/ EndBatch(w)
  \/ worker[w].pc = "next" /\ \E x \in worker[w].batch : Dispatch(w, x)
  \/ StartReading(w) \/ BodyTimeout(w) \/ BadRequest(w)
  \/ Respond(w) \/ CallAgent(w) \/ AgentReturns(w)
  \/ CloseNow(w) \/ ToIdle(w)
  \/ AfterPost(w) \/ AfterCloseSocket(w) \/ Tail(w) \/ Repost(w)

Next ==
  \/ \E w \in Workers : WorkerStep(w)
  \/ \E x \in posted : Complete(x)
  \/ Shutdown \/ StopAccepting \/ CloseAll

Spec == Init /\ [][Next]_vars

-----------------------------------------------------------------------------
(* Properties                                                              *)

\* Every variable has its type.
TypeOK ==
  /\ stage \in Stages
  /\ free_list \subseteq Bufs
  /\ posted \subseteq Op /\ completed \subseteq Op
  /\ obj \in [Conns -> Connection]
  /\ connections \in [Fds -> Conns \cup {None}]
  /\ open \subseteq Fds
  /\ worker \in [Workers -> Worker]

\* The worker is inside a handler of c and still owns c: it has not yet posted
\* the operation that hands c over to the next completion, nor closed c.
Owning == {"read", "expired", "bad", "handle", "agent", "idle", "shut"}
Owns(w, c) == worker[w].conn = c /\ worker[w].pc \in Owning

\* A connection is never worked on twice at a time: it has at most one queued
\* operation, and none while a worker owns it, and at most one owner.  No lock
\* protects a Connection; its handlers rely on this alone.
OneActivity ==
  /\ \A x, y \in Queued : x.conn # None /\ x.conn = y.conn => x = y
  /\ \A w \in Workers, c \in Conns : Owns(w, c) =>
       /\ \A x \in Queued : x.conn # c
       /\ \A v \in Workers \ {w} : ~Owns(v, c)

\* The buffer in one of the two handles of c.
BufferOf(c, handle) ==
  IF handle = "recv" THEN obj[c].recv_buffer ELSE obj[c].send_buffer

\* The buffer the kernel reads or fills is not in the pool's free list and
\* stays in the handle of the connection that posted the operation, although
\* handlers assign to both handles after posting (connection.cpp:134).
BufferPinned ==
  \A x \in posted : x.op # "ACCEPT" =>
    /\ x.buf \notin free_list
    /\ obj[x.conn].life = "live"
    /\ x.buf = BufferOf(x.conn, IF x.op = "RECV" THEN "recv" ELSE "send")

\* No buffer is lost and none is in two places: each is free or in exactly one
\* handle of one live connection, through closes, failures and destruction.
Holders(b) ==
  {p \in Conns \X {"recv", "send"} : obj[p[1]].life = "live" /\ BufferOf(p[1], p[2]) = b}
BufferConserved ==
  \A b \in Bufs : Cardinality(Holders(b)) = IF b \in free_list THEN 0 ELSE 1

\* A connection whose socket is open is never forgotten: an operation is queued
\* for it, or a worker is inside its handler.
NotStranded ==
  \A c \in Conns : obj[c].life = "live" /\ obj[c].fd # None =>
    \/ \E x \in Queued : x.conn = c
    \/ \E w \in Workers : worker[w].conn = c

\* A connection that add_connection destroys is referenced by no worker and by
\* no operation.
NoUseAfterDestroy ==
  /\ \A w \in Workers : worker[w].conn # None => obj[worker[w].conn].life = "live"
  /\ \A x \in Queued : x.conn # None => obj[x.conn].life = "live"

\* connection.hpp:65, "socket ownership is unique": no handle is in fd_ of two
\* live connections, or in fd_ of one and waiting in a posted accept.
SocketOwnedOnce ==
  \A c \in Conns : obj[c].life = "live" /\ obj[c].fd # None =>
    /\ \A d \in Conns \ {c} : obj[d].life = "live" => obj[d].fd # obj[c].fd
    /\ \A x \in Queued : x.op = "ACCEPT" => x.fd # obj[c].fd

\* The limit on requests per connection counts pipelined requests too.
KeepAliveBound ==
  \A c \in Conns : obj[c].request_count <= IF MaxRequests = 0 THEN 1 ELSE MaxRequests
=============================================================================
