# Cyrus-GW: TLA+ models, model checking and proofs

Cyrus-GW is an HTTP gateway for Windows (`cyrus_gateway`) in front of an agent
process (`cyrus_agent`).  Clients speak HTTP/1.1 to the gateway; the gateway
forwards chat requests in a length-prefixed binary protocol to the agent on
localhost and returns the agent's answer as Server-Sent Events.

This directory models the parts of the two programs in which several threads,
peers and clocks meet, checks the models with TLC, and proves the central
facts about all of them with TLAPS.  `PROJECT.json` has the index: components,
runs, mutants, the map from every definition to the lines it models, the
findings, the hazards and the theorems.

To check: `tlc -workers 2 -config MCGateway.cfg MCGateway` (and so on, one line
per run below), `tlapm GatewayProofs.tla` and so on for the modules named `...Proofs`.

## 1. The system

| component | code | state | operations |
|---|---|---|---|
| Server | `cyrus_gateway/src/server.cpp` | listening socket, worker threads, `connections_` by handle, `g_running` | `start`, `worker_loop`, `on_accept_complete`, `post_accept`, `add_connection`, `stop` |
| IOCP engine | `io_engine_iocp.cpp` | operations the kernel holds, completion queue, pool of `IOCPContext` | `post_accept/recv/send`, `wait_completions`, `post_wakeup`, `shutdown` |
| Connection | `connection.cpp` | `state_`, `fd_`, receive and send buffer, parser, `pending_data_`, request count, keep-alive, body timer | completion handlers, `handle_request`, `send_response`, `send_error`, `transition_to_idle`, `close` |
| HTTP parser | `http_parser.cpp` | parse state, current header, request | `parse`, `reset` |
| Router | `router.cpp` | routes, pool of agent clients, round-robin index | `route`, `handle_chat_completion`, `acquire_agent_client` |
| Agent client | `agent_client.cpp` | one TCP connection | `connect`, `send_packet`, `recv_packet` (both blocking) |
| SSE relay | `sse_handler.hpp` | relay state, three clocks | `build_sse_header`, `on_agent_data`, `on_stream_complete`, `on_agent_error`, `check_timeout` |
| Agent server | `cyrus_agent/src/agent_server.cpp` | `running_`, client map with decoders, its mutex | `event_loop`, `handle_client_data`, `process_request_on_connection`, `stop` |
| Buffer pool | `buffer_pool.hpp` | free list; a `BufferHandle` per buffer given out | `acquire`, `release`, moves and destruction of handles |
| Token bucket, rate limiter | `token_bucket.hpp` | tokens and time of the last refill, a global bucket and one per address | `check`, `try_consume`, `refill`, `set_rate` |
| Binary protocol | `protocol.hpp`, `protocol.cpp` | decoder buffer | `feed`, encoders |
| Process | `main.cpp`, `platform_win32.cpp` | `g_running` | `start`, Ctrl+C, `wait_for_shutdown` |
| Chunked decoder | `chunked_decoder.hpp` | state, bytes not yet used, size and progress of the chunk | `feed`, `reset`; only a test calls it |
| SSEHandler | `sse_handler.cpp` | | no caller in the two programs |
| io_uring and coroutine engine | `io_engine_uring.*`, `coro_engine.hpp` | | stubs outside Linux |

How they interact.  A worker thread takes a batch of completions from the port
and runs one handler of a `Connection` per completion.  Connections have no
lock: they rely on having one operation in flight.  A handler ends by posting
the next operation; from that moment another worker may run the next handler
of the same connection while the first is still returning.  A chat request
blocks its worker: the handler takes an agent client, sends one frame and
reads frames until the answer ends, feeding an `SSERelayHandler` whose output
is collected and sent as one response.  The agent is a single thread with
`select()`; it answers a request with several blocking-looking sends and then
closes the connection.

What is hard here: the interleaving of handlers after an operation is posted
(Connection, Server); handles and buffers that return to the OS or the pool
while somebody still refers to them; failing calls in the middle of a
handler; the byte stream cut anywhere by `recv`, with pipelined requests;
timeouts that are compared only at certain points; the agent closing, hanging
or dying at any step of an answer; shutdown against all of this.

What makes each component correct:

* **Connection + Server + engine**: one activity per connection; a buffer the
  kernel uses stays where it is; no buffer is lost; an open connection is
  never forgotten; a handle has one owner; an object is not destroyed in use;
  `stop()` ends.
* **Connection as a session**: requests are answered in order, each once,
  until the connection closes; no byte is lost between requests; a request
  that arrived whole is answered or the connection ends.  (The code does this for a
  client with at most two requests outstanding, and may answer a leftover line of a
  chunked request as a request.)
* **Relay**: it adds at most one final event, and nothing after it; deadlines hold; a lost
  agent is told to the client; the request completes.
* **Agent link**: a call gets its own answer, whole and in order; it ends
  unless the agent never reads a request its blocking `send` waits to deliver; the pool spreads the load over its clients.
* **Agent server**: the client map and the open handles agree; nobody closes a
  handle the event loop is working on; no wait of `stop()` lasts but for a mutex locked twice by one thread.
* **Process**: Ctrl+C ends it, unless an agent call never returns; the queue of accepts stays full.
* **Rate limiter**: no bucket lets more pass than its capacity and its rate allow.
* **Buffer pool**: a buffer is free or owned by one handle, however handles move.
* **Chunked decoder**: the body of a message is what the parser makes of it, wherever
  the `recv`s cut it.

## 2. Modules

| module | models | composes |
|---|---|---|
| `Gateway` | Server, engine, buffer pool and the control of Connection, with worker threads | these four in one state machine |
| `ServerLife` | the life of the process: `start` call by call, Ctrl+C, `stop` and the way out | extends `Gateway` |
| `MCGateway` | instances of `Gateway` for TLC (symmetry) | |
| `GatewayProofs` | theorems about `Gateway`: who works on a connection, what it owns and who refers to it; and about `ServerLife` | |
| `Session` | abstract specification: what one connection promises its client | |
| `Connection` | one connection in detail: bytes, parser results, pipelining, chunked requests, keep-alive, body timer | implements `Session` |
| `ConnectionProofs` | theorems about `Connection`, the refinement among them | |
| `SSERelay` | the relay and the receive loop that drives it | |
| `SSERelayProofs` | theorems about `SSERelay` | |
| `AgentLink` | the client pool, the blocking calls and the agent's answer | Router, AgentClient, AgentServer |
| `AgentLinkProofs` | theorems about `AgentLink` | |
| `AgentServer` | the agent's event loop, map, mutex and shutdown | |
| `AgentServerProofs` | theorems about `AgentServer` | |
| `HttpParser` | the HTTP parser byte by byte against the grammar | |
| `ChunkedDecoder` | the chunked decoder on the same `recv`s | extends `HttpParser` |
| `HttpParserProofs` | theorems about `HttpParser`, alone and beside the decoder, and about `ChunkedDecoder` | |
| `RateLimiter` | the rate limiter and its token buckets, one step per access to an atomic | |
| `RateLimiterProofs` | theorems about `RateLimiter` | |
| `BufferPool` | buffer handles and the free list | |
| `AgentProtocol`, `MCAgentProtocol` | the binary protocol byte by byte, both directions | ProtocolCodec, ProtocolDecoder, AgentClient, AgentServer |
| `CommonProofs` | theorems about `AgentProtocol` and `BufferPool`, both of `cyrus_common` | |

**Gateway.**  `worker[w]` is the program counter of a worker with the connection
it is in and the rest of its batch.  `posted` and `completed` are the
operations the kernel holds and the port's queue; `obj` are the Connection
objects, `connections` is the server's map, `open` the handles that are open.
A handler is cut into steps where another thread can look: after an
operation is posted (`AfterPost` assigns `state_`, as connection.cpp:102 and 289
do after posting), between `closesocket` and `fd_ = INVALID` (`Close`,
`AfterCloseSocket`), at the blocking call of the agent (`CallAgent`,
`AgentReturns`), and between calls on the pool.  What a completion carries is
the branch it makes the handler take.

**ServerLife.**  `main` is where the main thread is: in one of the calls of `start()`, past it,
or out of it after a failure.  The workers of `Gateway` run from `StartWorkers` on.  `g_running` is
true from the beginning (platform_win32.cpp:20), so a Ctrl+C may come before `StartWorkers` sets it again.

**Connection.**  `sent` is the client's stream as a sequence of requests of known
length, cut anywhere into `recv` results; `conn` has the fields of the class.
`ParseResults` are the results `HttpParser::parse` may give its caller: it takes a request up to
its end, but a chunked one only up to the line of its last chunk (`EndOf`), refuses what begins no
request, and may refuse a request that comes in pieces at any of them (a CR at the end of a `recv`, a request too
large).  What a chunked request leaves over is pending when its answer has gone out, and
`transition_to_idle` parses it as a request: an answer to no request (`req = None`), which ends the connection.
`Window` is how many requests the client sends before it has their answers.
`Session` sees only which requests were answered and whether the connection is open: answers come in
order, one by one for a client with at most two outstanding, and after a chunked request there may be one
answer to no request (`Stray`).  `Refinement` is `Session!Spec` under that mapping; without `Stray` it does not hold.

**SSERelay.**  `relay` is `state_` and what went to `on_send`; the three ages are
the clocks of `elapsed_ms`.  One step is one turn of the loop (router.cpp:249);
`recv_packet` is two calls of `recv` and may take twice `RecvTimeout` (`PacketTime`).  A frame is of one of nine kinds:
`last` is the data frame with which the agent's provider ends, and which carries a `[DONE]` of its own (chat_handler.hpp:63),
`empty` one without data, `short` one shorter than a header, with which the loop goes on unchecked, as often as one comes: `short`
counts them up to `MaxShort` and then stays there.  `HeaderFirst` chooses who
calls `build_sse_header` when: before the loop, as the class comment and
`tests/test_sse_error.cpp` do, or after it, as the router does.

**AgentLink.**  A call acquires a client (`Acquire`, round robin), sends and
receives (`Recv`, `RecvFails`).  `send_packet` is a blocking `send` without a timeout: it returns at once
when the buffers of the connection take the request (`Send`), or else waits (`SendBlocks`) until the agent has read
enough of it (`AgentTakes`) or the connection has ended (`SendToClosed`).  The agent reads a request (`AgentReads`), sends
header, data and end frames (`AgentSends`) and closes (`AgentCloses`), or a
send fails, the handler throws, the process dies.  `link[i]` is the TCP
connection of client i with what is under way in both directions.

**AgentServer.**  `loop` is the event loop with its descriptor set and the ready
handles, `lock` is `clients_mutex_` with its owner and depth.  The event loop takes the mutex for all the
handlers of a round (agent_server.cpp:181; the comment at 189 says that they run outside of it), and the handlers lock it again.
This is undefined for `std::mutex`, and `Relock` has what may come of it: the thread waits for itself (`RelockWaits`), `lock()` throws, as in
the library of Visual Studio, and the process ends (`RelockThrows`), or it goes on as the code takes for granted.

**HttpParser.**  A byte is one of a few kinds, and a method, a field name or a value is one
byte, so that a whole request is some ten to twenty.  `parser` has the fields of the
class; the two flags `look` and `skip` say that a handler stands after a CR or inside
the loop over an extension, the two places where it matters that a `recv` ends (`cut`).
`received` counts the bytes of the request for the limit on its whole size (`RequestTooLarge`), and a chunk size
is a number modulo `Word`, as the code's `size_t` is.
`client` walks through the grammar of a request (or, with `Garbled`, leaves it), and
so knows what the parser ought to make of it.

**ChunkedDecoder.**  The module adds `decoder`, with the fields of the class, to the parser and
the client of `HttpParser`.  The bytes of a `recv` are fed together when it ends; `ProcessBuffer`
is the loop, which stops when a turn takes no byte.  `FedAlone` goes on where the parser has given up.

**RateLimiter.**  `thread` is the program counter of a worker in `check`, with its local
variables; every load, store and compare-and-swap of `refill` and `try_consume` is a step.  Tokens are
counted in parts, since a refill adds fractions.  `admitted` and `undone` are history variables.

**BufferPool.**  `handle` is the memory of `BufferHandle` objects: constructed or not, `pool_`,
`buffer_index_` and `data_`.  A move copies all of them and clears `pool_` of the source.

**AgentProtocol.**  `up` and `down` are the bytes on the connection.  A byte has `Base` values
and a `uint16` is two of them, so widths wrap as they do in the code, only sooner.
`HandleClientData` is one `recv` and `feed`; `NeedMore` and `OnFrame` are the two results of `try_decode`;
`AgentSends` is one `send`, which may take a part of a frame; `RecvLength` and
`RecvPayload` are the two `recv` calls of `recv_packet`.

## 3. Runs

| run | what it checks | size, bounds |
|---|---|---|
| `gateway` | `TypeOK`, `OneActivity`, `BufferPinned`, `BufferConserved`, `NotStranded`, `NoUseAfterDestroy`, `SocketOwnedOnce`, `KeepAliveBound` | 2 workers, 2 handles, 3 objects, 2 buffers, 1 accept slot, every post may fail; the slowest run, about two minutes |
| `gateway_stop` | `LifeTypeOK`, `CtrlCStops`, `AcceptsKept` of `ServerLife` | 1 worker with batches of 2; every call of `start()` may fail; Ctrl+C at any time; one minute |
| `gateway_reuse` | `SocketOwnedOnce` **violated** when the OS issues a closed handle at once | no failing posts needed |
| `connection` | `TypeOK`, `NoByteLost`, `Refinement`, `EveryRequestAnswered` | four requests of six kinds, three units each, two outstanding, all of both in a recv |
| `connection_pipeline` | `AnswersMatch` **violated** by a third pipelined request | three requests outstanding, and three in one recv |
| `parser` | `TypeOK`, `NotRefused`, `EndsWithMessage`, `RequestIntact`, and `SameBody` of `ChunkedDecoder` | limits of one or two, and a client that goes one beyond each; length 0 to 3, chunk size 0 to 2 and one beyond; up to 9 bytes of a body in a `recv` |
| `relay` | `TypeOK`, `FinalEvents`, `Deadline`, `ErrorAfterHeader`, `Completes` | all nine frame kinds, any number of frames, header first and last |
| `relay_lost` | `LostAgentReported` **violated** with the header last | |
| `agent_link` | `TypeOK`, `AnswerIntact`, `NotCutShort`, `Spread`, `CallReturns` | more calls than clients, 0 to 2 clients connected, any send may block |
| `agent_server` | `TypeOK`, `MapMatchesHandles`, `ReadyIsOpen`, `StopTerminates` | 2 handles, reused; all three outcomes of locking the mutex again |
| `limiter` | `TypeOK`, `WithinRate` | 2 workers, one client address and the empty one, two rates, two ticks |
| `agent_protocol` | `TypeOK`, `RequestIntact`, `AnswerIntact`, `NotLeftWaiting` | 2 requests with bodies below, at and above the width of their length; chunks up to and above the longest payload; one torn send in an answer |

Why the bounds are enough.  Two workers are what a race between a handler and
the handler of the completion it posted takes; a third would only repeat a
role.  Two handles and two buffers make both run out; three objects let a
handle be issued again while the object that had it is still referred to.
One accept slot with two handles leaves one for a connection while the other
is accepted.  In `Connection` four requests go beyond the keep-alive limit of
three, three units to a request give it a beginning, a middle and an end, and a recv of up to six of them ends inside, at and after
a request and may hold all that two requests have; two outstanding are the most for which the session is in order, as `connection_pipeline` shows.  In
`AgentLink` two clients and three calls give both a call with a client of its
own and calls that share one.  In `SSERelay` the timeouts (2 for the first byte, 3 between two frames, 8 in all) and the recv
timeout (2, so 4 for a packet) are chosen so that each can be the first to fire; ages stop at a
horizon beyond all of them and the count of short frames at two, so neither bounds the number of frames.  In `HttpParser` two fields, one byte of target, two of body and two
chunks bring every counter to its limit and beyond; no handler looks back further than
that.  Nine bytes hold a chunk of one byte and the last size line, so that `ChunkedDecoder` gets several of its states in one `recv`,
single bytes and anything between; the limit on a whole request is below what the longest proper messages have.  In `RateLimiter` two workers are what the gap between the load and
the store of a refill takes, and both may create the bucket of the client; two ticks make two refills overlap, and
a capacity of three parts with a cost of two leaves a remainder.  In `ServerLife` one worker with a batch of two
shows everything `stop()` waits for: join takes the workers one after another.  In `AgentProtocol` six values of a byte are the fewest that hold the message
types; a body of 35, 36 and 37 bytes then stands for one of 65535, 65536 and 65537.

Each property of a passing run has a mutant: a plausible slip in one mapped
definition (a dropped guard, an off-by-one, a missed return of a buffer), with
which TLC finds the property violated.  The mutated forms stand before the
definitions they change, marked `Mutant:`.

`CHECK_DEADLOCK FALSE` is set where the system may stop: the server has been
stopped, the client has left, the bound on calls or requests is reached.

### Fairness

Safety needs none.  `ServerLife!LifeFairSpec` assumes that worker threads run (`wait_completions` has a
timeout) and that the main thread goes through `start()` and `stop()`; nothing is assumed of clients or of the kernel, nor that Ctrl+C
comes, nor that a call of the agent returns (`Calling`): `CtrlCStops` says that such a call is all that can keep `stop()` from ending.
`Connection!FairSpec` assumes that the kernel delivers what has arrived and finishes what
was posted, that handlers run and that time passes; clients need not send or leave.  `SSERelay!FairSpec` assumes the loop turns, because
each of the two `recv` calls of `recv_packet` has a 30 s timeout; that does not end a relay whose frames are all shorter than a header, and
`Completes` excepts it.  `AgentLink!FairSpec` is fair to the workers, for the same reason, and assumes nothing of the agent, nor of a
`send` that is blocked (no timeout is set for it): `CallReturns` says that this is the only wait that may last.  `AgentServer!FairSpec` assumes
that both threads run; `select()` returns after a second.  A thread that waits for a mutex it holds itself has no step, and `StopTerminates` excepts it.

## 4. What the violations show

1. `gateway_reuse`: `close()` clears `fd_` after `closesocket()`; a new accept may
   be given the handle in between, and `add_connection` then destroys a
   Connection whose `close()` is running.  With a handle issued again only later
   (`EagerReuse = FALSE`) the property holds.
2. `connection_pipeline`: `transition_to_idle` clears all of `pending_data_`.
3. `relay_lost`: the router builds the SSE header after its loop, so the relay is
   in `INIT` while the stream arrives.  `ErrorAfterHeader`, checked in `relay`, says
   that the relay is right once it has sent its header.

Also seen while modelling, present in the models or noted under "hazards", and
without a run of their own: an agent client is given to two workers at a time when there are more calls
than clients, where agent_client.hpp:12 says serially (`AnswerIntact` of `AgentLink` is therefore stated of calls that
have their client to themselves); a client that has connected once counts as connected for ever, so the reconnects of
`acquire_agent_client` and `health_check`, which router.cpp:119 promises, are never reached; a Ctrl+C during `start()` is
overwritten (`CtrlCStops` is about later ones); nothing calls `on_timeout`, so idle connections stay;
an agent closes after every answer and its client does not notice, so a pooled connection
serves one request; `CLOSED` can be overwritten by a late assignment of
`state_`; a failed `post_accept` loses an accept slot; closed connections keep
their buffers until their handle is issued again; `stop()` does not drain; a
stalled body is never timed out; an agent client accepted during `stop()` is
never closed; the empty line after a chunked request is read as a request and answered with 400 (`Stray`); a
CR at the end of a `recv` is answered with 400; the error for too many headers
is overwritten; of a body of 64 KiB and more the agent reads the remainder; the agent does not
look at how much of a frame `send` took; the handlers of the agent lock `clients_mutex_` again in the thread that has it (agent_server.cpp:255, 263, 376, 457,
under 181); the client may read two final events, the provider's `[DONE]` and the relay's (`FinalEvents` says that there is no third);
a worker whose `send` to the agent blocks is lost until the agent reads or closes; frames shorter than a header keep a
worker for as long as they come; `refill` gives
back the tokens of requests admitted between its load and its store (`WithinRate` bounds it); a request the client's own
bucket refuses has used up a global token; a moved-from `BufferHandle` stays `valid()`, which
tests/test_buffer.cpp:120 checks not to be.

## 5. Proofs

`GatewayProofs` proves, for any number of workers, connections, handles, buffers
and any bounds allowed by `GatewayAssumption`:

* `TypeCorrect`: `Spec => []TypeOK`.
* `OneActivityHolds`: `Spec => []OneActivity`, the fact that makes the lock-free handlers
  right: no connection is worked on by two handlers at a time, or by a handler
  while an operation is in flight.

`OneActivity` is not inductive.  A completion leaves the queue and enters a
worker's batch before its handler starts, so operations in batches must be counted
with those in the queues.  The inductive invariant is

    ActivityInv == TypeOK /\ HasConnection /\ ResultsComplete /\ TakenOnce
                     /\ IdleHasNoBatch /\ OneActivity

`HasConnection`: an operation other than an accept names a connection, and a
worker inside a handler has one.  `ResultsComplete`: an operation has its result
exactly when it has left the kernel, so one in `posted` is none of the others.
`TakenOnce`: a completion is in the port's queue or in one batch.
`IdleHasNoBatch`: a worker that asks for completions, or has left its loop, has
none left.  The proof goes through the actions one by
one.  What several actions share is a lemma: a step that only takes operations away
(`ShrinkActivity`), that posts one (`PostActivity`), that enters a handler with a completion
(`EnterActivity`), that closes, completes, or takes a batch.

Assumed: only `GatewayAssumption` (a finite set of handles, no more accept slots than
handles, natural bounds, `None` is no connection, handle or buffer).  The proofs hold
with and without failing calls and eager reuse of handles.

The module goes on to the other invariants of the run `gateway`, again for any
number of everything and with or without failing calls:

* `KeepAliveBoundHolds`, from `ActivityInv` and `CountInv`: a connection about to read, or with a
  `recv` queued, is below the limit, because it is new or `SendDone` has tested it.
* `NotStrandedHolds`, `NoUseAfterDestroyHolds` and `SocketOwnedOnceHolds`, from `OwnInv`.
* `BufferPinnedHolds` and `BufferConservedHolds`, from `OwnInv` and `BufferInv`.

`OwnInv` has four parts.  `MapInv`: `connections_` is injective, agrees with `fd_`, and
what it or a worker refers to is live.  `WorkInv`: a connection that is worked on (an operation is queued, or a
worker owns it) has its handle open; one that has a handle is worked on, or its worker is between
`closesocket()` and `fd_ = INVALID`.  `AcceptInv`: a handle waits in one accept, and no worker is in its last
connection, whose `fd_` is empty.  `AcceptOnce`: a completed accept is in one place.
`BufferInv` has three.  `HeldInv`: a buffer is free or in one handle.  `PinnedInv`: an operation in the
kernel uses the buffer in its connection's handle.  `ReleaseInv` is why a handler may release
the receive buffer after `send_error()` has returned and the connection is another worker's: `keep_alive_` is
cleared, so the send's completion closes, and no `recv` is posted into that handle before.

The five theorems from `OwnInv` assume `EagerReuse = FALSE`: the OS does not issue a handle again while a worker is in
a handler of its last connection.  It is used in one place, the step `Repost`, and it is not a matter of
the proof: the run `gateway_reuse` shows `SocketOwnedOnce` violated without it.

These proofs do not go through the actions one by one.  `OwnerStep`, `LateStep` and `EntersStep` say what a step
of the owner of a connection, one after a post or a `closesocket()`, and one that takes a completion may do to
objects, buffers and operations; `NextCases` shows that every action is one of these or one of the few others, and
each invariant is proved for each shape.

Last, the module proves about `ServerLife`, the process that starts, serves and stops:

* `LifeTypeCorrect`: `LifeSpec => []LifeTypeOK`.
* `LifeSafe`: all the safety above holds in the life of the process, too, also when `start()` fails
  halfway and when Ctrl+C comes before the workers do.
* `AcceptsKeptHolds`: `LifeSpec => AcceptsKept`, when `EagerReuse = FALSE`.

`Spec` begins with the workers running and the accepts posted; `LifeSpec` does not, so its invariant `LifeInv` says that
the state is `Quiet` until they run (accepts only, each with a handle of its own, and nobody at work).  `Quiet` implies every
invariant of the gateway (`QuietInvs`), and from then on a step is a step of the gateway.  `AcceptsKept` counts accepts
in the queues, in batches and in workers that have still to post the next one.  `RestInv` (where a worker may
have the successor of an accept to post) and `AcceptOnce` (an accept is in one place) let the
proof follow a single accept from place to place, so that the two cardinalities change together; in one step the count may fall,
`Repost` with a failed `post_accept`.  Assumed besides `GatewayAssumption`: the workers are finitely many
(`LifeAssumption`), without which they could not be counted.

`ConnectionProofs` proves, for any number, length and kinds of requests, any size of a `recv` and any body timeout:

* `TypeCorrect`: `Spec => []TypeOK`.
* `NoByteLostHolds`: `Spec => []NoByteLost`, for a client with at most two requests outstanding.
* `ConnectionImplementsSession`: `Spec => Refinement`, for any number of them outstanding.

Assumed is `ConnectionAssumption`, and `Window <= 2` where it is stated.  That hypothesis is about the client and not about `recv`: the kernel
may deliver everything at once.  It is the finding itself: with three outstanding, `transition_to_idle` drops what follows the second request,
and the run `connection_pipeline` shows it.  `Session` has the same condition on the requests answered one by one; beyond it the order alone is promised.
The inductive invariant `IInv` says that the connection is in one of four
situations: `AtRead` (a `recv` is posted, nothing is pending, and the parser holds the request of the next unit or none),
`AtReply(r)` (the answer to request r is under way), `AtRefuse` (an answer to no request is), or `Over`.
In `AtReply` what is pending is `Rest`: it follows the last unit the parser took of r (`Fits`), and with at most two outstanding reaches no further than
request r + 1 (`Owed`).  As long as the client is there, its answers are `InOrder`, before r (`Passed`), and with at most two outstanding they are all
those before r (`Caught`); none has announced the end.  A request is `Parts` units, so the first lemmas do the
division.  `Parses` and `Follows` say what each result of the parser leaves over, `TurnIInv` that a completion leads from one situation to another.
A step of the connection is an `Arrive`, an `Answered`, a `Stray`, an `End` or a stutter of `Session`.

`SSERelayProofs` proves, for any timeouts and any kinds of frames the agent may send:

* `TypeCorrect`, `FinalEventsHold`, `DeadlineHolds` and `ErrorAfterHeaderHolds`: all invariants of the run `relay`.

The invariant relates the handler's state to the events sent (`RelayInv`: a final event of the relay is
there exactly in a final state, and is last; the agent's own is last but for it), the loop's two variables to the state (`LoopInv`), and says
that a turn which goes on was checked, or was short (`TimeInv`): `Deadline` alone says nothing of the next turn, nor of one in which the count of short frames has saturated.
Assumed: `RelayAssumption`.  Nothing is assumed of which timeout is the longest.

`AgentLinkProofs` proves, for any number of workers, clients, calls and data frames:

* `TypeCorrect`, `SpreadHolds`, `AnswerIntactHolds` and `NotCutShortHolds`: all invariants of the run `agent_link`.

`AnswerIntact` says nothing of a call that is still under way, and nothing of the link.  The invariant does: the calls that
have begun have the clients in turn (`Assigned`); a worker has a call of its own, which is not over (`Working`); and of a call
that has its client to itself, what it has got and the frames on its link make a prefix of the one right answer, or are the
one frame that refuses it (`Own`, with `Regular` and `Refused`).  The link of a client that no call has is `Untouched`, and so is that of a call about
to be sent.  That a call keeps `Own` while others fail, are retried or
lose their links follows from `Alone`: none of their steps touches its link.  Assumed: `AgentLinkAssumption`.

`HttpParserProofs` proves, for any limits, any request of the grammar and any way `recv` cuts it:

* `ParserTypeOK`, `ParserNotRefused`, `ParserEndsWithMessage` and `ParserRequestIntact`: all invariants of the run
  `parser` that are about the parser.
* `BesideDecoder`: the four again, of `DecoderSpec`, which is what that run checks.

The client and the parser are two machines that read the same bytes, so the invariant relates them: while the message is proper and
no `recv` has ended at a bad place, the parser is where the client is in the grammar (`StateAt`), with the fields, sizes and
flags that follow from what was sent (`Tracks`).  `EndsWithMessage` is an equivalence: the parser is complete with the last byte of a
message, but of a chunked one with the line of the last chunk, before the empty line that it leaves over.  Chunk sizes of the grammar are below `Word` (`WithinWord`), so
reading them modulo `Word` changes none; a message is proper only up to `MaxTotal` bytes.  When the message is no longer proper only the type holds.
A lookup in the fields is a `CHOOSE` of the first index, so it takes that a nonempty set of naturals has a
least element (`LeastNumber`, from the well-foundedness of `<`).  Assumed: `ParserAssumption` (natural limits).

* `DecoderSameBody`: `DecoderSpec => []SameBody`, the remaining invariant of the run `parser`, for any limits, any chunked
  body and any way `recv` cuts it.

The decoder lags behind the client: what it cannot use yet stays in its buffer, so the place where it stands says little by itself.
`DecoderInv` says that it is `Behind` the client: the bytes in the buffer lead from the place where the decoder stands (`StandsAt`)
to the place where the client is (`Moves`, `Walks`, `Leads`), unless a chunk was too large.  After a `recv` it can do no more with
them (`Waits`); a decoder that waits and is behind has given on all the data there are, which is `SameBody`.  The parser is not always where the
client is, since a cut may have lost it: `CutInv` says that it follows the client (`Tracks`) or is `Lost`, has given up or forgotten the extension
it was in.  Each state of the decoder consumes a stretch of such a walk: the proof takes a size line,
a piece of data and a line end one by one, and then the loop.

`RateLimiterProofs` proves, for any number of threads and addresses, any rates with a largest one, and any capacities:

* `TypeCorrect` and `WithinRateHolds`: both invariants of the run `limiter`.

`WithinRate` bounds what a bucket has admitted plus what it holds.  It is not inductive: a thread that has won
the compare-and-swap on `last_refill` has yet to add the tokens of its period, and another may be doing the same for a later one.
Each tick of time is claimed by one thread at most (`PeriodInv`: periods under way are apart and
before the last refill), so the sum over the refills under way is the cardinality of a set of ticks, `Pending(b)`.
`BucketInv` is `WithinRate` with these ticks paid in advance, and, for a thread between its load and its store, the same for the
value it has loaded: that is the bound that survives the store which gives tokens back.  Assumed: `RateLimiterAssumption`.

`AgentServerProofs` proves, for any finite set of handles and any outcomes of locking the mutex again:

* `TypeCorrect`, `MapMatches` and `ReadyStaysOpen`: all invariants of the run `agent_server`.

`ReadyIsOpen` holds because `Clear` of `stop()` waits for the mutex the event loop has while it works on
ready handles.  So the invariant ties the mutex to the place of the event loop (`LockInv`),
and the place to the difference between map and open handles (`MapInv`); `ReadyInv` adds
that a handle being closed has left the ready ones.  A loop that waits for itself keeps the mutex, and `stop()` out.  Assumed: `AgentServerAssumption`.

`CommonProofs` proves, for any base of a byte above five, any width of the length, any requests and answers and any cut of both streams:

* `TypeCorrect`, `RequestIntactHolds`, `AnswerIntactHolds` and `NotLeftWaitingHolds`: all invariants of the run `agent_protocol`.

The invariant is `TypeOK /\ AgentInv /\ Shape(frames) /\ ReaderInv`.  `AgentInv`: as long as the agent is receiving, what its decoder holds and
what is on its way to it begin with the frame of the first request; what a handler was called with is that request.  `Shape`: an
answer is one error frame, or headers, data and an end.  `ReaderInv`: the reader is at the beginning of a frame, or past
its length, with every frame from there `InPlace` in the bytes on their way (`Stream`); once it has passed a torn frame it is `Astray`, and
what it reads then is nobody's answer.  Before this come the lemmas about the encoding: a number that fits is read back as it was written
(`NumberAt`, `Written`), and the strings and header fields of a request as they were encoded.
Assumed: `ProtocolAssumption`; `RequestAssumption`, the parts of a request fit the two bytes of their lengths, which the limits of
http_parser.cpp:28, 132, 268 and 288 see to (nothing is assumed of the body, of which the agent reads the remainder when it is too long); and
`AnswerAssumption`, a frame fits its length.

About `BufferPool` the module proves:

* `BufferInOnePlace`, for any handles and buffers: a buffer is in the free list
  once, or is owned by one handle, never both and never neither.  Assumed: `NoBuffer` is no buffer.

Induction over data, which decoding and the decoder's loop need, is done with sets and functions in place of operator parameters:
`Induction` (a set that has 0 and with n also n + 1 has every natural up to a bound) follows from `LeastNumber`, and `Recursion` (there is
a function with a given first value and a given step from each value to the next) from `Induction`.

Every invariant and every `[][...]` property of a passing run is proved, and so is the refinement of `Session`.  Only model-checked are

* the liveness properties `CtrlCStops`, `EveryRequestAnswered`, `Completes`, `CallReturns`, `StopTerminates`:
  fairness is stated with `WF`, so with `ENABLED`, which is beyond TLAPS here.

No module uses `RECURSIVE`.

## 6. Not modelled

* The texts: names and values of fields are kinds in `HttpParser`, events are kinds in
  `SSERelay`.  The limits of the parser on one token (256 bytes of a name, 16 of a method or a version).
* `Connection` takes the parser as the set `ParseResults`, not as the module `HttpParser`, and a request as
  units, not bytes: a second request that begins inside a unit does not occur.
* The agent's branch for an answer in one piece (agent_server.cpp:420-448), where the result of the data and the end
  `send` is ignored: the router forwards only URIs whose handler streams.
* Memory: `reserve()` of a chunk's size (http_parser.cpp:408) is taken to succeed.
* The context pool of the engine: a context is the operation it stands for.
* `on_timeout`, `remove_connection`, `SSEHandler`: no caller.  `health_check` finds every client
  connected, whatever became of it, and does nothing.
* A torn frame together with several workers on one connection: frames are whole in
  `AgentLink`, and there is one reader in `AgentProtocol`.
* The use of a decoder after it was destroyed by its own callback: undefined
  behaviour inside one call.
* io_uring and coroutines (not in the build), configuration, logging, benchmark, tests.

## 7. Plan

Done: the gateway and its life from `start()` to `stop()`, the session refinement, the relay, the
agent link, the agent server, the parser and the chunked decoder, the binary protocol, the rate limiter, the buffer pool;
the theorems of section 5.

To model, in this order:

1. `Connection` over `HttpParser` instead of `ParseResults`.
2. The context pool of the engine with `shutdown()` freeing what the kernel still uses.

To prove: the invariants of what is modelled next.  The liveness properties stay with TLC.
