------------------------------- MODULE SSERelay -------------------------------
(***************************************************************************)
(* The relay of one streamed answer: SSERelayHandler (sse_handler.hpp) and *)
(* the loop of Router::handle_chat_completion (router.cpp:249) that feeds  *)
(* it the agent's frames, under the three timeouts of SSERelayTimeout.     *)
(*                                                                         *)
(* One step is one turn of the loop: recv_packet blocks until the next     *)
(* frame, the frame is handled, check_timeout runs.  Time passes only in   *)
(* recv_packet, at least one tick per frame, and every age saturates, so   *)
(* the number of frames is not bounded.  The last data frame of the agent  *)
(* carries the provider's own final event, [DONE] (chat_handler.hpp:63).   *)
(***************************************************************************)
EXTENDS Integers, Sequences, Functions

CONSTANTS
  Frames,            \* kinds of frames the agent sends
  FirstByteTimeout,  \* the three timeouts, and that of recv_packet, in ticks
  TotalTimeout,
  IdleTimeout,
  RecvTimeout,
  MaxShort,          \* where the count of frames shorter than a header saturates
  HeaderFirst        \* TRUE: build_sse_header before the loop, as its comment and
                     \* tests/test_sse_error.cpp do; FALSE: after it, as the router

ASSUME RelayAssumption ==
  /\ Frames \subseteq {"headers", "error_headers", "empty", "data", "last", "end", "error",
                      "other", "short"}
  /\ FirstByteTimeout \in Nat /\ TotalTimeout \in Nat /\ IdleTimeout \in Nat
  /\ RecvTimeout \in Nat \ {0} /\ MaxShort \in Nat \ {0}
  /\ HeaderFirst \subseteq BOOLEAN

VARIABLES
  relay,      \* the handler's state_ and the events given to on_send
  receiving,  \* the loop is still running
  stream_ok,
  short,      \* frames shorter than a header since the last turn that was checked
  odd,        \* changes with every such frame, which tells two of them apart
  session,    \* ticks since session_start_
  first_byte, \* ticks since first_byte_timer_
  data_age    \* ticks since last_data_time_

vars == <<relay, receiving, stream_ok, short, odd, session, first_byte, data_age>>

RelayStates == {"INIT", "WAITING_FIRST_BYTE", "STREAMING", "ERROR_SENT", "DONE"}
\* recv_packet calls recv for the length and again for the frame, and each may
\* wait for the whole timeout.
PacketTime == 2 * RecvTimeout

\* Where ages saturate.
Horizon == TotalTimeout + (MaxShort + 1) * PacketTime + 1

Init ==
  /\ \E header_sent \in HeaderFirst :
       relay = [state |-> IF header_sent THEN "WAITING_FIRST_BYTE" ELSE "INIT", sent |-> <<>>]
  /\ receiving = TRUE /\ stream_ok = FALSE /\ short = 0 /\ odd = FALSE
  /\ session = 0 /\ first_byte = 0 /\ data_age = Horizon

-----------------------------------------------------------------------------
(* SSERelayHandler                                                         *)

Closed(r) == r.state \in {"DONE", "ERROR_SENT"}

SendErrorEvent(r) ==
  IF Closed(r) THEN r ELSE [state |-> "ERROR_SENT", sent |-> Append(r.sent, "error")]

OnStreamComplete(r) ==
  IF Closed(r) THEN r ELSE [state |-> "DONE", sent |-> Append(r.sent, "done")]

\* The chunk goes to the client as it is, whether or not it is a final event; an
\* empty one sends nothing.  Equal data events in a row are kept once.
OnAgentData(r, chunk) ==
  [state |-> IF r.state = "WAITING_FIRST_BYTE" THEN "STREAMING" ELSE r.state,
   sent |-> IF chunk = "empty" \/ (r.sent # <<>> /\ r.sent[Len(r.sent)] = chunk) THEN r.sent
            ELSE Append(r.sent, chunk)]

\* Mutant: only the gap between two frames is watched.
TimedOut_IdleOnly(r, total, first, idle) == r.state = "STREAMING" /\ idle > IdleTimeout

TimedOut(r, total, first, idle) ==
  \/ r.state = "WAITING_FIRST_BYTE" /\ first > FirstByteTimeout
  \/ total > TotalTimeout
  \/ r.state = "STREAMING" /\ idle > IdleTimeout

\* Mutant: is_active is true only while waiting for the first byte.
IsActive_UntilFirstByte(r) == r.state = "WAITING_FIRST_BYTE"

IsActive(r) == r.state \in {"WAITING_FIRST_BYTE", "STREAMING"}

-----------------------------------------------------------------------------
(* The loop                                                                *)

\* Mutant: the operands of the difference of two times are swapped.
After_Backwards(age, wait) == age - wait

After(age, wait) == IF age + wait > Horizon THEN Horizon ELSE age + wait

\* recv_packet returns a frame of one of kinds after a wait.
Received(kinds, wait) ==
  /\ receiving /\ kinds \cap Frames # {}
  /\ wait \in 1..PacketTime
  /\ session' = After(session, wait) /\ first_byte' = After(first_byte, wait)

\* The frame ends the loop; the relay is now r.
Leave(r) == receiving' = FALSE /\ relay' = r /\ UNCHANGED <<short, odd>>

\* Mutant: the loop goes on after check_timeout has given up.
CheckTimeout_Ignored(r) ==
  /\ relay' = IF TimedOut(r, session', first_byte', data_age') THEN SendErrorEvent(r) ELSE r
  /\ short' = 0
  /\ UNCHANGED <<receiving, odd>>

\* The end of a turn: check_timeout, which may have sent an error event.
CheckTimeout(r) ==
  IF Closed(r) THEN Leave(r)
  ELSE IF TimedOut(r, session', first_byte', data_age') THEN Leave(SendErrorEvent(r))
  ELSE relay' = r /\ short' = 0 /\ UNCHANGED <<receiving, odd>>

\* Headers, or a frame of a type the loop does not know.
RecvOther(wait) ==
  /\ Received({"headers", "other"}, wait)
  /\ data_age' = After(data_age, wait)
  /\ CheckTimeout(relay)
  /\ UNCHANGED stream_ok

\* The agent sends no data after its own final event.
RecvData(wait, chunk) ==
  /\ Received({chunk}, wait)
  /\ "last" \notin Range(relay.sent)
  /\ data_age' = 0
  /\ CheckTimeout(OnAgentData(relay, chunk))
  /\ UNCHANGED stream_ok

RecvEnd(wait) ==
  /\ Received({"end"}, wait)
  /\ data_age' = After(data_age, wait)
  /\ Leave(OnStreamComplete(relay))
  /\ stream_ok' = TRUE

\* An error frame, or headers with FLAG_ERROR.
RecvError(wait) ==
  /\ Received({"error", "error_headers"}, wait)
  /\ data_age' = After(data_age, wait)
  /\ Leave(SendErrorEvent(relay))
  /\ UNCHANGED stream_ok

\* A frame shorter than a header: the loop goes on without check_timeout, as often
\* as such a frame comes.
RecvShort(wait) ==
  /\ Received({"short"}, wait)
  /\ short' = IF short = MaxShort THEN MaxShort ELSE short + 1
  /\ odd' = ~odd
  /\ data_age' = After(data_age, wait)
  /\ UNCHANGED <<relay, receiving, stream_ok>>

\* recv_packet gives up: a timeout or a lost connection (router.cpp:302).
RecvFails ==
  /\ receiving
  /\ \E wait \in 0..PacketTime :
       /\ session' = After(session, wait) /\ first_byte' = After(first_byte, wait)
       /\ data_age' = After(data_age, wait)
  /\ Leave(IF IsActive(relay) THEN SendErrorEvent(relay) ELSE relay)
  /\ UNCHANGED stream_ok

Turn ==
  \/ \E wait \in 1..PacketTime :
       \/ RecvOther(wait) \/ RecvEnd(wait) \/ RecvError(wait) \/ RecvShort(wait)
       \/ \E chunk \in {"empty", "data", "last"} : RecvData(wait, chunk)
  \/ RecvFails

Spec == Init /\ [][Turn]_vars

\* The worker thread runs, and recv_packet returns within its timeout.
FairSpec == Spec /\ WF_vars(Turn)

-----------------------------------------------------------------------------
(* Properties                                                              *)

Events == {"data", "last", "done", "error"}

\* Every variable has its type.
TypeOK ==
  /\ short \in 0..MaxShort /\ odd \in BOOLEAN
  /\ relay \in [state : RelayStates, sent : Seq(Events)]
  /\ receiving \in BOOLEAN /\ stream_ok \in BOOLEAN
  /\ session \in 0..Horizon /\ first_byte \in 0..Horizon /\ data_age \in 0..Horizon

\* The relay adds at most one final event, an error or the end of the stream, and
\* nothing after it; the end just when the agent sent its end frame.  It does not
\* know the final event that the agent has put into its data, so the client may
\* read two, [DONE] twice or [DONE] and an error, but never a third or data between.
FinalEvents ==
  /\ \A i \in DOMAIN relay.sent :
       /\ relay.sent[i] \in {"done", "error"} => i = Len(relay.sent)
       /\ relay.sent[i] = "last" => i \in {Len(relay.sent) - 1, Len(relay.sent)}
  /\ stream_ok <=> (relay.sent # <<>> /\ relay.sent[Len(relay.sent)] = "done")

\* The whole relay is over within the total timeout and one recv_packet, plus
\* one recv_packet for every frame shorter than a header that came last: those are
\* not checked (the count says how many as long as it has not saturated).
Deadline == short < MaxShort => session <= TotalTimeout + (short + 1) * PacketTime

\* sse_handler.hpp:100, "after the SSE header, downstream errors are passed on by
\* event: error": an answer the agent did not finish ends with an error event.
LostAgentReported ==
  ~receiving /\ ~stream_ok => relay.sent # <<>> /\ relay.sent[Len(relay.sent)] = "error"

\* The same for the handler once its header is out: whatever goes wrong later
\* ends with an error event.
ErrorAfterHeader == relay.state # "INIT" => LostAgentReported

\* A relay ends however long the agent goes on sending, and the worker thread that
\* is blocked in it becomes free again, unless from some time on every frame is
\* shorter than a header: then the loop goes on for ever (router.cpp:250).
Completes == <>~receiving \/ <>[](short > 0)
=============================================================================
