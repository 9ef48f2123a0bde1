------------------------------- MODULE AgentLink -------------------------------
(***************************************************************************)
(* The path from a gateway worker to the agent and back: the pool of       *)
(* AgentClients in the Router (router.cpp:84), the blocking calls of       *)
(* AgentClient (agent_client.cpp), and the agent's event loop answering on *)
(* the other end of each TCP connection (agent_server.cpp:285).            *)
(*                                                                         *)
(* A call is one run of Router::handle_chat_completion; calls are numbered *)
(* in the order in which they acquire a client.  Frames are whole: what    *)
(* two threads reading one socket can do to a single frame is left out,    *)
(* answers are already mixed without it; and the agent sends none shorter  *)
(* than a header (SSERelay has those).  The request id of every frame      *)
(* is 1 and is not looked at by the gateway (router.cpp:217), so a frame   *)
(* is told by its kind only; req records, for the properties, which call   *)
(* it answers.                                                             *)
(***************************************************************************)
EXTENDS Integers, Sequences, FiniteSets

CONSTANTS
  Workers,   \* the gateway's worker threads
  PoolSize,  \* agent_pool_size_
  Calls,     \* bound: calls to the agent
  Chunks,    \* data frames of a complete answer
  None       \* no call

ASSUME AgentLinkAssumption ==
  /\ PoolSize \in Nat /\ Calls \in Nat /\ Chunks \in Nat
  /\ None \notin Nat

VARIABLES
  pool,              \* how many clients connected in Router::init
  next_agent_index,  \* also the number of calls that have acquired a client
  worker,            \* what each worker is doing
  call,              \* the calls and what became of them
  link,              \* the TCP connection of each client
  serving,           \* what the agent's event loop is answering
  agent              \* "up" or "dead": the agent process

vars == <<pool, next_agent_index, worker, call, link, serving, agent>>

Clients == 0..(PoolSize - 1)
Ids == 1..Calls
Kinds == {"headers", "data", "end", "error"}
Frame == [req : Ids, kind : Kinds]

\* "ok": an end frame was received; "error": an error frame; "cut": the
\* connection was lost; "timeout"; "unsent": send_packet failed.
Results == {"none", "ok", "error", "cut", "timeout", "unsent"}

\* requests: sent and not yet read by the agent; frames: sent and not yet read
\* by the gateway; shut: the agent has closed its end; broken: it did so before
\* the end of an answer.
NoLink == [requests |-> <<>>, frames |-> <<>>, shut |-> FALSE, broken |-> FALSE]

Init ==
  /\ pool \in 0..PoolSize
  /\ next_agent_index = 0
  /\ worker = [w \in Workers |-> [pc |-> "idle", call |-> None]]
  /\ call = [r \in Ids |-> [client |-> None, got |-> <<>>, result |-> "none"]]
  /\ link = [i \in Clients |-> NoLink]
  /\ serving = [client |-> None, req |-> None, sent |-> 0]
  /\ agent = "up"

-----------------------------------------------------------------------------
(* Router and AgentClient                                                  *)

\* Mutants: the index stays, every call gets the first client; the pool is
\* counted from 1.
NextIndex_Stuck == next_agent_index % 1
NextIndex_OffByOne == (next_agent_index % pool) + 1

NextIndex == next_agent_index % pool

\* acquire_agent_client.  is_connected() tests fd_, which nothing clears after
\* init, so the first client tried is taken and the reconnect is never reached.
\* With an empty pool the request is answered with 503 and nothing changes here.
Acquire(w) ==
  /\ worker[w].pc = "idle"
  /\ pool > 0 /\ next_agent_index < Calls
  /\ next_agent_index' = next_agent_index + 1
  /\ call' = [call EXCEPT ![next_agent_index + 1].client = NextIndex]
  /\ worker' = [worker EXCEPT ![w] = [pc |-> "send", call |-> next_agent_index + 1]]
  /\ UNCHANGED <<pool, link, serving, agent>>

\* The client of the call of worker w, and what its link is.
ClientOf(w) == call[worker[w].call].client

Return(w) == worker' = [worker EXCEPT ![w] = [pc |-> "idle", call |-> None]]

\* The answer is over: the worker sends what it has got to its connection.
Finish(w, c) ==
  /\ call' = [call EXCEPT ![worker[w].call] = c]
  /\ Return(w)

Lost(frames) == {frames, <<>>}

\* The request is in the buffers of the connection.
Sent(w) ==
  /\ link' = [link EXCEPT ![ClientOf(w)].requests = Append(@, worker[w].call)]
  /\ worker' = [worker EXCEPT ![w].pc = "recv"]
  /\ UNCHANGED call

\* send_packet, a blocking send: it returns when the buffers have the request, at
\* once or (SendBlocks) when the agent has read enough of it.
Send(w) ==
  /\ worker[w].pc = "send" /\ ~link[ClientOf(w)].shut
  /\ Sent(w)
  /\ UNCHANGED <<pool, next_agent_index, serving, agent>>

\* The request is larger than the buffers, and the send has no timeout.
SendBlocks(w) ==
  /\ worker[w].pc = "send" /\ ~link[ClientOf(w)].shut
  /\ worker' = [worker EXCEPT ![w].pc = "sending"]
  /\ UNCHANGED <<pool, next_agent_index, call, link, serving, agent>>

\* On a connection the agent has closed a send succeeds, and the reset it
\* provokes may discard what was not yet read; or the send fails.
SendToClosed(w) ==
  LET i == ClientOf(w)
      c == call[worker[w].call]
  IN  /\ worker[w].pc \in {"send", "sending"} /\ link[i].shut
      /\ \/ /\ \E frames \in Lost(link[i].frames) : link' = [link EXCEPT ![i].frames = frames]
            /\ worker' = [worker EXCEPT ![w].pc = "recv"]
            /\ UNCHANGED call
         \/ /\ Finish(w, [c EXCEPT !.result = "unsent"])
            /\ UNCHANGED link
      /\ UNCHANGED <<pool, next_agent_index, serving, agent>>

\* Mutant: the loop takes the headers for the whole answer.
Ends_AtHeaders(kind) ==
  CASE kind = "headers" -> "ok" [] kind = "end" -> "ok" [] kind = "error" -> "error"
    [] OTHER -> "none"

\* What a frame makes of the call: "none" when the loop goes on.
Ends(kind) ==
  CASE kind = "end" -> "ok" [] kind = "error" -> "error" [] OTHER -> "none"

\* recv_packet returns a frame.
Recv(w) ==
  LET i == ClientOf(w)
      f == Head(link[i].frames)
      c == call[worker[w].call]
  IN  /\ worker[w].pc = "recv" /\ link[i].frames # <<>>
      /\ link' = [link EXCEPT ![i].frames = Tail(@)]
      /\ LET after == [c EXCEPT !.got = Append(@, f), !.result = Ends(f.kind)]
         IN  IF Ends(f.kind) = "none"
               THEN call' = [call EXCEPT ![worker[w].call] = after] /\ UNCHANGED worker
               ELSE Finish(w, after)
      /\ UNCHANGED <<pool, next_agent_index, serving, agent>>

\* Mutant: recv_packet waits without a timeout.
RecvFails_NoTimeout(w) ==
  LET i == ClientOf(w)
      c == call[worker[w].call]
  IN  /\ worker[w].pc = "recv" /\ link[i].frames = <<>> /\ link[i].shut
      /\ Finish(w, [c EXCEPT !.result = "cut"])
      /\ UNCHANGED <<pool, next_agent_index, link, serving, agent>>

\* recv_packet fails: the agent has closed, or nothing came for 30 s; or, after
\* a frame, check_timeout finds that the relay has lasted too long.
RecvFails(w) ==
  LET i == ClientOf(w)
      c == call[worker[w].call]
      cut == link[i].frames = <<>> /\ link[i].shut
  IN  /\ worker[w].pc = "recv"
      /\ link[i].frames = <<>> \/ c.got # <<>>
      /\ Finish(w, [c EXCEPT !.result = IF cut THEN "cut" ELSE "timeout"])
      /\ UNCHANGED <<pool, next_agent_index, link, serving, agent>>

-----------------------------------------------------------------------------
(* AgentServer: one thread, one request at a time.  The client's entry in  *)
(* clients_, and with it the decoder, is erased while the decoder is in    *)
(* feed(): requests it still held are dropped, and AgentDies stands for    *)
(* the crash this may be.  Router routes only URIs the agent has a handler *)
(* for, so its answer to an unknown URI does not occur.                    *)

\* The agent closes its end of i after its last frames, which leaves sent on
\* their way.  If requests were still unread the close is a reset, which may
\* discard them.
Shut(i, sent, broken) ==
  \E frames \in IF link[i].requests = <<>> THEN {sent} ELSE Lost(sent) :
    link' = [link EXCEPT ![i] = [requests |-> <<>>, frames |-> frames, shut |-> TRUE,
                                 broken |-> @.broken \/ broken]]

Done == serving' = [client |-> None, req |-> None, sent |-> 0]

\* handle_client_data: a request frame is complete and its handler is called.
AgentReads(i) ==
  /\ agent = "up" /\ serving.client = None
  /\ ~link[i].shut /\ link[i].requests # <<>>
  /\ serving' = [client |-> i, req |-> Head(link[i].requests), sent |-> 0]
  /\ link' = [link EXCEPT ![i].requests = Tail(@)]
  /\ UNCHANGED <<pool, next_agent_index, worker, call, agent>>

\* recv() of the event loop takes so much of a request that the rest fits into
\* the buffers: the send that was blocked returns.
AgentTakes(w) ==
  /\ agent = "up" /\ serving.client = None
  /\ worker[w].pc = "sending" /\ ~link[ClientOf(w)].shut
  /\ Sent(w)
  /\ UNCHANGED <<pool, next_agent_index, serving, agent>>

\* The frames of an answer, in the order in which they are sent.  Router forwards only
\* URIs whose handler streams (chat_handler.hpp): the branch for an answer in one piece
\* (agent_server.cpp:420), where the result of two sends is ignored, is not reached.
KindOf(n) == IF n = 0 THEN "headers" ELSE IF n <= Chunks THEN "data" ELSE "end"

AgentSends ==
  LET i == serving.client
  IN  /\ i # None /\ serving.sent <= Chunks + 1
      /\ link' = [link EXCEPT ![i].frames =
                    Append(@, [req |-> serving.req, kind |-> KindOf(serving.sent)])]
      /\ serving' = [serving EXCEPT !.sent = @ + 1]
      /\ UNCHANGED <<pool, next_agent_index, worker, call, agent>>

\* Mutant: the connection is closed before the end frame is sent.
AnswerSent_Early == serving.client # None /\ serving.sent = Chunks + 1

AnswerSent == serving.client # None /\ serving.sent = Chunks + 2

\* cleanup_client, after the end frame.
AgentCloses ==
  /\ AnswerSent
  /\ Shut(serving.client, link[serving.client].frames, FALSE)
  /\ Done
  /\ UNCHANGED <<pool, next_agent_index, worker, call, agent>>

\* A send fails: cleanup_client in the middle of an answer.
AgentSendFails ==
  /\ serving.client # None /\ serving.sent <= Chunks + 1
  /\ Shut(serving.client, link[serving.client].frames, TRUE)
  /\ Done
  /\ UNCHANGED <<pool, next_agent_index, worker, call, agent>>

\* The handler throws: an error frame, then the connection is closed.
AgentThrows ==
  LET i == serving.client
  IN  /\ i # None /\ serving.sent = 0
      /\ Shut(i, Append(link[i].frames, [req |-> serving.req, kind |-> "error"]), FALSE)
      /\ Done
      /\ UNCHANGED <<pool, next_agent_index, worker, call, agent>>

\* The agent process ends: the kernel closes its connections.
AgentDies ==
  /\ agent = "up"
  /\ agent' = "dead"
  /\ link' = [i \in Clients |-> [link[i] EXCEPT !.requests = <<>>, !.shut = TRUE,
                                   !.broken = @ \/ ~link[i].shut]]
  /\ Done
  /\ UNCHANGED <<pool, next_agent_index, worker, call>>

-----------------------------------------------------------------------------
WorkerStep(w) ==
  Acquire(w) \/ Send(w) \/ SendBlocks(w) \/ SendToClosed(w) \/ Recv(w) \/ RecvFails(w)

AgentStep ==
  \/ \E i \in Clients : AgentReads(i)
  \/ \E w \in Workers : AgentTakes(w)
  \/ AgentSends \/ AgentCloses \/ AgentSendFails \/ AgentThrows

Next == (\E w \in Workers : WorkerStep(w)) \/ AgentStep \/ AgentDies

Spec == Init /\ [][Next]_vars

\* Worker threads run, and recv_packet gives up after its timeout.  Nothing is
\* assumed of the agent, nor that a send which is blocked returns.
FairSpec == Spec /\ \A w \in Workers : WF_vars(WorkerStep(w))

-----------------------------------------------------------------------------
(* Properties                                                              *)

\* Every variable has its type.
TypeOK ==
  /\ pool \in 0..PoolSize /\ next_agent_index \in 0..Calls
  /\ worker \in [Workers -> [pc : {"idle", "send", "sending", "recv"}, call : Ids \cup {None}]]
  /\ call \in [Ids -> [client : Clients \cup {None}, got : Seq(Frame), result : Results]]
  /\ link \in [Clients -> [requests : Seq(Ids), frames : Seq(Frame),
                           shut : BOOLEAN, broken : BOOLEAN]]
  /\ serving \in [client : Clients \cup {None}, req : Ids \cup {None}, sent : 0..(Chunks + 2)]
  /\ agent \in {"up", "dead"}

\* No other call has been given the client of call r.
Alone(r) == \A q \in Ids \ {r} : call[q].client # call[r].client

\* A call that has its client to itself and ends well has got its own answer,
\* all of it and in order, whatever the agent and the other calls do.
AnswerIntact ==
  \A r \in Ids : Alone(r) /\ call[r].result = "ok" =>
    call[r].got = [n \in 1..(Chunks + 2) |-> [req |-> r, kind |-> KindOf(n - 1)]]

\* agent_server.cpp:450, the fix that closes a connection only after all frames
\* and the end frame: a call that has its client to itself is cut short only
\* when the agent failed.
NotCutShort ==
  \A r \in Ids : call[r].client # None /\ Alone(r) /\ call[r].result \in {"cut", "unsent"} =>
    link[call[r].client].broken

\* The load is spread: as long as there were no more calls than clients, every
\* call has a client of its own.
Spread ==
  next_agent_index <= pool => \A r \in Ids : call[r].client # None => Alone(r)

\* A worker waits for the agent to read its request: send_packet has no timeout.
Blocked(w) == worker[w].pc = "sending" /\ ~link[ClientOf(w)].shut

\* Every call ends, also when the agent dies, hangs or answers another call, unless
\* its request is larger than the buffers and the agent, without closing the
\* connection, never reads it: that worker is lost.
CallReturns ==
  \A w \in Workers : <>[]Blocked(w) \/ (worker[w].pc # "idle" ~> worker[w].pc = "idle")
=============================================================================
