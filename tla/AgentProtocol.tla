----------------------------- MODULE AgentProtocol -----------------------------
(***************************************************************************)
(* The binary protocol on one connection, byte by byte: the gateway        *)
(* encodes a request (ProtocolCodec) and sends it, the agent's decoder     *)
(* (ProtocolDecoder) is fed what each recv returns and its handler parses  *)
(* the request, the agent encodes an answer and sends it frame by frame on *)
(* a non-blocking socket, the gateway's recv_packet reads it back.         *)
(*                                                                         *)
(* Numbers keep their width: a byte has Base values (256 in the code), a   *)
(* uint16 is two bytes and wraps.  A MessageHeader is one byte, its type;  *)
(* its request id is always 1 and no flag is ever looked at but FLAG_ERROR *)
(* on headers, which no encoder sets.  AgentLink takes frames whole and    *)
(* has the workers that share a connection; here they are cut, and the     *)
(* gateway's reader is one worker.                                         *)
(***************************************************************************)
EXTENDS Naturals, Sequences

CONSTANTS
  Base,         \* values of a byte
  LengthBytes,  \* bytes of the length before a frame (4 in the code)
  MaxPayload,   \* the longest payload recv_packet takes (10 MB in the code)
  RecvBytes,    \* bytes the agent's recv returns at most
  Requests,     \* what the gateway may ask
  Answers,      \* what a handler may return: sequences of chunks
  Calls,        \* bound: requests sent on the connection
  None          \* no frame

ASSUME ProtocolAssumption ==
  /\ Base \in Nat /\ Base > 5 /\ LengthBytes \in Nat \ {0} /\ MaxPayload \in Nat
  /\ RecvBytes \in Nat \ {0} /\ Calls \in Nat /\ None \notin Nat

VARIABLES
  sent,     \* the requests sent
  up,       \* bytes on their way to the agent
  agent,    \* where the agent is with this connection; its decoder's buffer_
  handled,  \* the requests handlers were called with
  frames,   \* the frames of the answer
  out,      \* how many of them were sent
  torn,     \* the frame of which only a part was sent, or None
  down,     \* bytes on their way to the gateway
  shut,     \* the agent has closed its end
  reader    \* recv_packet and the loop around it

vars == <<sent, up, agent, handled, frames, out, torn, down, shut, reader>>

Bytes == Seq(0..(Base - 1))
Types == [request |-> 1, headers |-> 2, data |-> 3, end |-> 4, error |-> 5]
HeaderSize == 1

Taken(s, n) == SubSeq(s, 1, n)
Dropped(s, n) == SubSeq(s, n + 1, Len(s))

-----------------------------------------------------------------------------
(* ProtocolCodec                                                           *)

\* v without its n low bytes.
Shifted(v, n) ==
  LET left[i \in 0..n] == IF i = 0 THEN v ELSE left[i - 1] \div Base
  IN  left[n]

\* write_u16, write_u32: v as n bytes, high byte first; what does not fit is lost.
Written(v, n) == [i \in 1..n |-> Shifted(v, n - i) % Base]

\* ntohs, ntohl of the first n bytes.
NumberAt(bytes, n) ==
  LET value[i \in 0..n] == IF i = 0 THEN 0 ELSE value[i - 1] * Base + bytes[i]
  IN  value[n]

WriteString(s) == Written(Len(s), 2) \o s

BuildFrame(type, payload) ==
  Written(HeaderSize + Len(payload), LengthBytes) \o <<type>> \o payload

WriteHeader(h) == WriteString(h.name) \o WriteString(h.value)

WriteHeaders(headers) ==
  LET text[i \in 0..Len(headers)] ==
        IF i = 0 THEN <<>> ELSE text[i - 1] \o WriteHeader(headers[i])
  IN  Written(Len(headers), 2) \o text[Len(headers)]

RequestPayload(r) ==
  WriteString(r.method) \o WriteString(r.uri) \o WriteHeaders(r.headers) \o WriteString(r.body)

EncodeRequest(r) == BuildFrame(Types.request, RequestPayload(r))
EncodeResponseHeaders(status) == BuildFrame(Types.headers, Written(status, 2) \o WriteHeaders(<<>>))
EncodeResponseData(chunk) == BuildFrame(Types.data, chunk)
EncodeResponseEnd == BuildFrame(Types.end, <<>>)
ErrorPayload(code, message) == Written(code, 2) \o WriteString(message)
EncodeError(code, message) == BuildFrame(Types.error, ErrorPayload(code, message))

\* The length of a frame fits the bytes it is given.
Fits(payload) == Shifted(HeaderSize + Len(payload), LengthBytes) = 0

\* So do the lengths in a request, but for that of its body: http_parser.cpp:28, 132, 268
\* and 288 let none pass that is longer.
Short(s) == Len(s) < Base * Base
ASSUME RequestAssumption ==
  /\ Requests \subseteq [method : Bytes, uri : Bytes, headers : Seq([name : Bytes, value : Bytes]),
                         body : Bytes]
  /\ \A r \in Requests :
       /\ Short(r.method) /\ Short(r.uri) /\ Short(r.headers) /\ Fits(RequestPayload(r))
       /\ \A i \in DOMAIN r.headers : Short(r.headers[i].name) /\ Short(r.headers[i].value)
ASSUME AnswerAssumption ==
  /\ Answers \subseteq [throws : BOOLEAN, chunks : Seq(Bytes)]
  /\ \A a \in Answers :
       /\ a.throws => a.chunks # <<>> /\ Fits(ErrorPayload(1, a.chunks[1]))
       /\ \A i \in DOMAIN a.chunks : Fits(a.chunks[i])

-----------------------------------------------------------------------------
(* The agent's reading of a request                                        *)

\* read_string: the string at the front of rest; empty when rest is too short.
ReadString(rest) ==
  LET after == Dropped(rest, 2)
      n == NumberAt(rest, 2)
  IN  CASE Len(rest) < 2 -> [value |-> <<>>, rest |-> rest]
        [] Len(rest) >= 2 /\ n > Len(after) -> [value |-> <<>>, rest |-> after]
        [] OTHER -> [value |-> Taken(after, n), rest |-> Dropped(after, n)]

\* Mutant: the values of the header fields are not skipped.
SkipHeader_NameOnly(rest) == IF rest = <<>> THEN rest ELSE ReadString(rest).rest

SkipHeader(rest) == IF rest = <<>> THEN rest ELSE ReadString(ReadString(rest).rest).rest

SkipHeaders(rest, count) ==
  LET after[i \in 0..count] == IF i = 0 THEN rest ELSE SkipHeader(after[i - 1])
  IN  after[count]

ParseRequest(payload) ==
  LET method == ReadString(payload)
      uri == ReadString(method.rest)
      fields == SkipHeaders(Dropped(uri.rest, 2), NumberAt(uri.rest, 2))
  IN  [method |-> method.value, uri |-> uri.value, body |-> ReadString(fields).value]

-----------------------------------------------------------------------------
Init ==
  /\ sent = <<>> /\ up = <<>> /\ agent = [at |-> "select", buffer |-> <<>>] /\ handled = <<>>
  /\ frames = <<>> /\ out = 0 /\ torn = None /\ down = <<>> /\ shut = FALSE
  /\ reader = [len |-> None, got |-> <<>>, result |-> "none"]

\* encode_request and send_packet, which blocks until the socket has taken it all.
SendPacket(r) ==
  /\ Len(sent) < Calls /\ ~shut
  /\ sent' = Append(sent, r)
  /\ up' = up \o EncodeRequest(r)
  /\ UNCHANGED <<agent, handled, frames, out, torn, down, shut, reader>>

\* handle_client_data: recv returns n bytes, and feed begins.
HandleClientData(n) ==
  /\ agent.at = "select" /\ n <= Len(up)
  /\ agent' = [at |-> "feed", buffer |-> agent.buffer \o Taken(up, n)]
  /\ up' = Dropped(up, n)
  /\ UNCHANGED <<sent, handled, frames, out, torn, down, shut, reader>>

\* Mutant: a frame is taken for complete only when more bytes follow it.
Complete_Late(buffer) ==
  /\ Len(buffer) >= LengthBytes
  /\ Len(buffer) > LengthBytes + NumberAt(buffer, LengthBytes)

Complete(buffer) ==
  /\ Len(buffer) >= LengthBytes
  /\ Len(buffer) >= LengthBytes + NumberAt(buffer, LengthBytes)

\* try_decode needs more bytes.
NeedMore ==
  /\ agent.at = "feed" /\ ~Complete(agent.buffer)
  /\ agent' = [agent EXCEPT !.at = "select"]
  /\ UNCHANGED <<sent, up, handled, frames, out, torn, down, shut, reader>>

\* A frame is complete, and its handler returns or throws.  Answering a request
\* erases the client and with it the decoder, so what follows in the buffer is
\* lost.  The gateway sends no other type of frame and no URI without a handler.
OnFrame(a) ==
  LET frame == Taken(agent.buffer, LengthBytes + NumberAt(agent.buffer, LengthBytes))
  IN  /\ agent.at = "feed" /\ Complete(agent.buffer)
      /\ handled' = Append(handled, ParseRequest(Dropped(frame, LengthBytes + HeaderSize)))
      /\ frames' = IF a.throws THEN <<EncodeError(1, a.chunks[1])>>
                   ELSE <<EncodeResponseHeaders(2)>>
                          \o [i \in DOMAIN a.chunks |-> EncodeResponseData(a.chunks[i])]
                          \o <<EncodeResponseEnd>>
      /\ agent' = [at |-> "answer", buffer |-> <<>>]
      /\ UNCHANGED <<sent, up, out, torn, down, shut, reader>>

\* send of the next frame on the non-blocking socket.  It may take a part of the
\* frame, and nothing looks at how much.  Bound: once in an answer.  Every handler that
\* the gateway's URIs reach streams: the other branch (agent_server.cpp:420) is left out.
AgentSends ==
  /\ agent.at = "answer" /\ out < Len(frames)
  /\ \E n \in 1..Len(frames[out + 1]) :
       /\ n < Len(frames[out + 1]) => torn = None
       /\ torn' = IF n < Len(frames[out + 1]) THEN out + 1 ELSE torn
       /\ down' = down \o Taken(frames[out + 1], n)
  /\ out' = out + 1
  /\ UNCHANGED <<sent, up, agent, handled, frames, shut, reader>>

\* Everything was sent, or the next send fails: the client is closed.  If
\* requests are still unread the close is a reset, which may discard the answer.
AgentCloses ==
  /\ agent.at = "answer"
  /\ agent' = [agent EXCEPT !.at = "closed"]
  /\ shut' = TRUE /\ up' = <<>>
  /\ down' \in {down} \cup (IF up = <<>> THEN {} ELSE {<<>>})
  /\ UNCHANGED <<sent, handled, frames, out, torn, reader>>

-----------------------------------------------------------------------------
(* recv_packet, and what the router makes of a frame                       *)

\* Mutant: any length is taken.
RecvLength_Unchecked ==
  /\ reader.result = "none" /\ reader.len = None /\ sent # <<>> /\ Len(down) >= LengthBytes
  /\ reader' = [reader EXCEPT !.len = NumberAt(down, LengthBytes)]
  /\ down' = Dropped(down, LengthBytes)
  /\ UNCHANGED <<sent, up, agent, handled, frames, out, torn, shut>>

RecvLength ==
  LET len == NumberAt(down, LengthBytes)
  IN  /\ reader.result = "none" /\ reader.len = None /\ sent # <<>> /\ Len(down) >= LengthBytes
      /\ reader' = IF len > MaxPayload THEN [reader EXCEPT !.result = "failed"]
                   ELSE [reader EXCEPT !.len = len]
      /\ down' = Dropped(down, LengthBytes)
      /\ UNCHANGED <<sent, up, agent, handled, frames, out, torn, shut>>

\* Mutant: the header is passed on with the chunk.
ChunkOf_WithHeader(payload) == payload

\* The chunk in the payload of a data frame.
ChunkOf(payload) == Dropped(payload, HeaderSize)

RecvPayload ==
  LET payload == Taken(down, reader.len)
      type == IF reader.len < HeaderSize THEN 0 ELSE payload[1]
      next == [reader EXCEPT !.len = None]
  IN  /\ reader.result = "none" /\ reader.len # None /\ Len(down) >= reader.len
      /\ down' = Dropped(down, reader.len)
      /\ reader' = CASE type = Types.data ->
                          [next EXCEPT !.got = Append(@, ChunkOf(payload))]
                     [] type = Types.end -> [next EXCEPT !.result = "ok"]
                     [] type = Types.error -> [next EXCEPT !.result = "error"]
                     [] OTHER -> next
      /\ UNCHANGED <<sent, up, agent, handled, frames, out, torn, shut>>

\* The agent has closed, or 30 s are over, before a length or a payload is complete.
RecvFails ==
  /\ reader.result = "none" /\ sent # <<>>
  /\ Len(down) < IF reader.len = None THEN LengthBytes ELSE reader.len
  /\ reader' = [reader EXCEPT !.len = None, !.result = "failed"]
  /\ UNCHANGED <<sent, up, agent, handled, frames, out, torn, down, shut>>

-----------------------------------------------------------------------------
Next ==
  \/ \E r \in Requests : SendPacket(r)
  \/ \E n \in 1..RecvBytes : HandleClientData(n)
  \/ NeedMore
  \/ \E a \in Answers : OnFrame(a)
  \/ AgentSends \/ AgentCloses
  \/ RecvLength \/ RecvPayload \/ RecvFails

Spec == Init /\ [][Next]_vars

-----------------------------------------------------------------------------
(* Properties                                                              *)

\* Every variable has its type; no payload longer than the limit is waited for.
TypeOK ==
  /\ sent \in Seq(Requests) /\ up \in Bytes
  /\ agent \in [at : {"select", "feed", "answer", "closed"}, buffer : Bytes]
  /\ handled \in Seq([method : Bytes, uri : Bytes, body : Bytes])
  /\ frames \in Seq(Bytes) /\ out \in 0..Len(frames) /\ torn \in (1..Len(frames)) \cup {None}
  /\ down \in Bytes /\ shut \in BOOLEAN
  /\ reader \in [len : (0..MaxPayload) \cup {None}, got : Seq(Bytes),
                 result : {"none", "ok", "error", "failed"}]

\* Wherever recv cuts the stream, a handler is called with the method and the URI
\* that were sent, and with the body if its length fits the 16 bits it is given;
\* of a longer one it gets the remainder.
RequestIntact ==
  \A i \in DOMAIN handled :
    handled[i] = [method |-> sent[i].method, uri |-> sent[i].uri,
                  body |-> Taken(sent[i].body, Len(sent[i].body) % (Base * Base))]

\* A handler's chunks reach the router whole and in order up to the frame that
\* a send has torn; an answer that ends without one is complete.
DataFrames == SubSeq(frames, 2, Len(frames) - 1)
AnswerIntact ==
  /\ \A i \in DOMAIN reader.got : torn = None \/ i + 1 < torn =>
       EncodeResponseData(reader.got[i]) = DataFrames[i]
  /\ torn = None /\ reader.result = "ok" => Len(reader.got) = Len(DataFrames)

\* A request that has arrived whole is not left in the decoder's buffer while
\* the agent waits for more, however recv cut it.
NotLeftWaiting ==
  agent.at = "select" /\ sent # <<>> => Len(agent.buffer) < Len(EncodeRequest(sent[1]))
=============================================================================
