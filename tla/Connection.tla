------------------------------ MODULE Connection ------------------------------
(***************************************************************************)
(* One Connection (connection.cpp) and the client at the other end: how    *)
(* the byte stream becomes requests and requests become answers.           *)
(*                                                                         *)
(* Module Gateway shows that the handlers of a connection never overlap,   *)
(* so here each completion handler is one action.  The client's stream is  *)
(* a sequence of units, Parts of them to a request: the first holds the    *)
(* request line and headers.  A recv returns any prefix of what has        *)
(* arrived, up to RecvUnits (the size of a buffer).  Units are numbered    *)
(* from 1, and a piece of the stream is the interval of its numbers.       *)
(*                                                                         *)
(* A request's kind stands for everything the handlers branch on:          *)
(*   get, post   answered, keep-alive; the rest of a post is its body      *)
(*   close       answered, asks for "Connection: close"                    *)
(*   chunked     as a post, but its body ends in an empty line, its last    *)
(*               unit, that the parser leaves over                         *)
(*   malformed   the parser reports an error on its first unit             *)
(*   large       its response does not fit a send buffer                   *)
(***************************************************************************)
EXTENDS Naturals, Sequences

CONSTANTS
  Requests,     \* requests the client may send
  Parts,        \* units of a request
  RecvUnits,    \* units one recv may return
  Kinds,        \* kinds of requests the client sends
  Window,       \* requests the client sends before it has their answers
  MaxRequests,  \* MAX_KEEPALIVE_REQUESTS
  BodyTimeout,  \* BODY_READ_TIMEOUT_MS, in ticks of the clock
  None          \* no request, no timer

ASSUME ConnectionAssumption ==
  /\ Requests \in Nat /\ Parts \in Nat \ {0} /\ RecvUnits \in Nat \ {0}
  /\ MaxRequests \in Nat \ {0} /\ BodyTimeout \in Nat /\ Window \in Nat \ {0}
  /\ Kinds \subseteq {"get", "post", "chunked", "close", "malformed", "large"}
  /\ "chunked" \in Kinds => Parts > 1
  /\ None \notin Nat

VARIABLES
  kind,      \* the kind of each request
  sent,      \* units the client has sent
  client,    \* "open", or "gone" once it has closed its end
  received,  \* units the server has received
  answers,   \* answers the client has received
  conn       \* the Connection object

vars == <<kind, sent, client, received, answers, conn>>

Units == 1..(Requests * Parts)
RequestOf(u) == (u - 1) \div Parts + 1
Begins(u) == u % Parts = 1 \/ Parts = 1

\* The answer to bytes that begin no request is to None.
Answers == [req : (1..Requests) \cup {None}, close : BOOLEAN]

\* state, op (the operation in flight), parser (the request it is in the middle
\* of, or None), pending_data_ as an interval of units, keep_alive_,
\* request_count_, body_read_start_ as an age, the answer in send_buffer_.
ConnectionRecord ==
  [state : {"READING_REQUEST", "SENDING_RESPONSE", "IDLE", "CLOSED"},
   op : {"recv", "send", "none"}, parser : (1..Requests) \cup {None},
   pending : SUBSET Units, keep_alive : BOOLEAN, request_count : Nat,
   body_age : (0..(BodyTimeout + 1)) \cup {None},
   sending : Answers \cup {None}]

Init ==
  /\ kind \in [1..Requests -> Kinds]
  /\ sent = 0 /\ received = 0 /\ client = "open" /\ answers = <<>>
  /\ conn = [state |-> "READING_REQUEST", op |-> "recv", parser |-> None,
             pending |-> {}, keep_alive |-> TRUE, request_count |-> 0,
             body_age |-> None, sending |-> None]

-----------------------------------------------------------------------------
(* HttpParser, on the units from..to: what it makes of them.               *)

\* The last unit the parser takes of request r: it completes a chunked one at the
\* line of its last chunk.
EndOf(r) == IF kind[r] = "chunked" THEN r * Parts - 1 ELSE r * Parts

\* Mutant: what is left over reaches one unit beyond what was received.
ParseResults_OffByOne(parser, from, to) ==
  LET r == RequestOf(from)
  IN  {IF parser = None /\ (~Begins(from) \/ kind[r] = "malformed")
         THEN [result |-> "error", request |-> r, rest |-> from..to]
       ELSE IF EndOf(r) > to
         THEN [result |-> "incomplete", request |-> r, rest |-> {}]
       ELSE [result |-> "complete", request |-> r, rest |-> (EndOf(r) + 1)..(to + 1)]}

\* parser is None at a request line; there the parser refuses anything but the
\* beginning of a well-formed request.  A request that comes in several pieces may
\* be refused at any of them: where a recv ends between a CR and its LF or in a
\* chunk extension, or once the request is too large.
ParseResults(parser, from, to) ==
  LET r == RequestOf(from)
      refused(q) == [result |-> "error", request |-> q, rest |-> from..to]
      complete == [result |-> "complete", request |-> r, rest |-> (EndOf(r) + 1)..to]
      incomplete == [result |-> "incomplete", request |-> r, rest |-> {}]
  IN  IF parser = None /\ ~Begins(from) THEN {refused(None)}
      ELSE IF parser = None /\ kind[r] = "malformed" THEN {refused(r)}
      ELSE IF EndOf(r) > to THEN {incomplete, refused(r)}
      ELSE IF parser # None THEN {complete, refused(r)}
      ELSE {complete}

-----------------------------------------------------------------------------
(* The methods of Connection, as functions of the object.                  *)

Close(c) == [c EXCEPT !.state = "CLOSED", !.op = "none", !.sending = None]

SendResponse(c, r) ==
  [c EXCEPT !.state = "SENDING_RESPONSE", !.op = "send",
            !.sending = [req |-> r, close |-> ~c.keep_alive]]

\* Mutant: error responses keep the connection alive.
SendError_KeepsAlive(c, r) == SendResponse(c, r)

SendError(c, r) == SendResponse([c EXCEPT !.keep_alive = FALSE], r)

\* handle_request: a response, an error (rate limit, unknown route, agent
\* failure), or a close when the response is larger than the buffer.
HandleRequest(c, r) ==
  {SendError(c, r)} \cup
    {IF kind[r] = "large" THEN Close(c) ELSE SendResponse(c, r)}

PostRecv(c) == [c EXCEPT !.state = "READING_REQUEST", !.op = "recv"]

StartReading(c) ==
  IF c.parser = None \/ kind[c.parser] \notin {"post", "chunked"}
    THEN PostRecv([c EXCEPT !.body_age = None])
  ELSE IF c.body_age = None
    THEN PostRecv([c EXCEPT !.body_age = 0])
  ELSE IF c.body_age > BodyTimeout
    THEN SendError(c, c.parser)
  ELSE PostRecv(c)

\* current_request_, request_count_ and keep_alive_, when a request is complete.
TakeRequest(c, r) ==
  [c EXCEPT !.parser = None, !.request_count = @ + 1, !.keep_alive = kind[r] # "close"]

\* Mutant: what is left of the buffer after a request is dropped.
Parsed_Drops(c, p) ==
  CASE p.result = "error" -> {SendError(c, p.request)}
    [] p.result = "complete" ->
         HandleRequest(TakeRequest([c EXCEPT !.body_age = None], p.request), p.request)
    [] p.result = "incomplete" -> {StartReading([c EXCEPT !.parser = p.request])}

Parsed(c, p) ==
  CASE p.result = "error" -> {SendError(c, p.request)}
    [] p.result = "complete" ->
         HandleRequest(TakeRequest([c EXCEPT !.body_age = None, !.pending = p.rest], p.request),
                       p.request)
    [] p.result = "incomplete" -> {StartReading([c EXCEPT !.parser = p.request])}

OnRecvComplete(c, from, to) == UNION {Parsed(c, p) : p \in ParseResults(c.parser, from, to)}

Lowest(S) == CHOOSE u \in S : \A v \in S : u <= v
Highest(S) == CHOOSE u \in S : \A v \in S : v <= u

\* Mutant: the pending bytes stay unparsed until the next recv.
TransitionToIdle_Waits(c) == {StartReading([c EXCEPT !.pending = {}])}

\* When the pending bytes hold a complete request, whatever follows it is cleared
\* with them.
Pipelined(idle, p) ==
  CASE p.result = "error" -> {SendError(idle, p.request)}
    [] p.result = "complete" -> HandleRequest(TakeRequest(idle, p.request), p.request)
    [] p.result = "incomplete" -> {StartReading([idle EXCEPT !.parser = p.request])}

\* Pending bytes are parsed before the next recv is posted.
TransitionToIdle(c) ==
  LET idle == [c EXCEPT !.state = "IDLE", !.parser = None, !.pending = {}]
  IN  IF c.pending = {} THEN {StartReading(idle)}
      ELSE UNION {Pipelined(idle, p) :
                    p \in ParseResults(None, Lowest(c.pending), Highest(c.pending))}

OnSendComplete(c) ==
  LET done == [c EXCEPT !.sending = None]
  IN  IF c.keep_alive /\ c.request_count < MaxRequests
        THEN TransitionToIdle(done) ELSE {Close(done)}

-----------------------------------------------------------------------------
(* The client, the kernel and the clock.                                   *)

ClientSends ==
  /\ client = "open" /\ sent < Requests * Parts
  /\ RequestOf(sent + 1) <= Len(answers) + Window
  /\ sent' = sent + 1
  /\ UNCHANGED <<kind, client, received, answers, conn>>

ClientLeaves ==
  /\ client = "open"
  /\ client' = "gone"
  /\ UNCHANGED <<kind, sent, received, answers, conn>>

\* A recv completes with data.
RecvData ==
  /\ conn.op = "recv"
  /\ \E n \in 1..RecvUnits :
       /\ received + n <= sent
       /\ received' = received + n
       /\ conn' \in OnRecvComplete(conn, received + 1, received + n)
  /\ UNCHANGED <<kind, sent, client, answers>>

\* A recv completes with zero bytes; a client that resets the connection also
\* discards what it had sent.
RecvEnd ==
  /\ conn.op = "recv" /\ client = "gone"
  /\ conn' = Close(conn)
  /\ UNCHANGED <<kind, sent, client, received, answers>>

\* A send completes; if the client has gone its bytes are lost.
SendCompletes ==
  /\ conn.op = "send"
  /\ answers' = IF client = "open" THEN Append(answers, conn.sending) ELSE answers
  /\ conn' \in OnSendComplete(conn)
  /\ UNCHANGED <<kind, sent, client, received>>

\* Time passes while an operation is in flight.
Tick ==
  /\ conn.op # "none"
  /\ conn' = [conn EXCEPT !.body_age = IF @ = None \/ @ > BodyTimeout THEN @ ELSE @ + 1]
  /\ conn' # conn
  /\ UNCHANGED <<kind, sent, client, received, answers>>

Next == ClientSends \/ ClientLeaves \/ RecvData \/ RecvEnd \/ SendCompletes \/ Tick

Spec == Init /\ [][Next]_vars

\* The kernel delivers what has arrived and finishes what was posted, worker
\* threads run handlers, and time passes.  Clients need not send or leave.
FairSpec == Spec /\ WF_vars(RecvData \/ RecvEnd) /\ WF_vars(SendCompletes) /\ WF_vars(Tick)

-----------------------------------------------------------------------------
(* Properties                                                              *)

\* Every variable has its type.
TypeOK ==
  /\ kind \in [1..Requests -> Kinds]
  /\ sent \in 0..(Requests * Parts) /\ received \in 0..sent
  /\ client \in {"open", "gone"}
  /\ answers \in Seq(Answers)
  /\ conn \in ConnectionRecord

\* connection.hpp:128, "bytes that may begin the next request must not be
\* dropped": the n-th answer on a connection answers the n-th request, also
\* when requests are pipelined.
AnswersMatch == \A n \in DOMAIN answers : answers[n].req = n

\* As long as the client has no more than two requests outstanding, no byte is lost
\* between requests: while the connection is to be kept alive, the first unit not
\* yet parsed, in pending_data_ or still to be received, belongs to the request the
\* parser is in, or begins the next one, or is the line a chunked request leaves
\* over.
NoByteLost ==
  LET next == IF conn.pending # {} THEN Lowest(conn.pending) ELSE received + 1
  IN  /\ conn.op = "recv" /\ conn.parser # None => RequestOf(next) = conn.parser
      /\ conn.op = "recv" /\ conn.parser = None =>
           Begins(next) \/ next = EndOf(RequestOf(next)) + 1
      /\ conn.op = "send" /\ conn.keep_alive =>
           next \in (EndOf(conn.sending.req) + 1)..(conn.sending.req * Parts + 1)

\* Connection implements a session.
S == INSTANCE Session WITH
       arrived <- (received + Parts - 1) \div Parts,
       chunked <- {r \in 1..Requests : kind[r] = "chunked"},
       over <- conn.state = "CLOSED"
Refinement == S!Spec

\* A request that has arrived completely is answered, or the connection ends.
EveryRequestAnswered ==
  \A r \in 1..Requests :
    received >= EndOf(r) ~> Len(answers) >= r \/ conn.state = "CLOSED" \/ client = "gone"
=============================================================================
