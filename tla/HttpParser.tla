------------------------------ MODULE HttpParser ------------------------------
(***************************************************************************)
(* HttpParser (http_parser.cpp), byte by byte, against a client that       *)
(* follows the grammar of a request, or leaves it at any byte.             *)
(*                                                                         *)
(* A byte is a record: its kind, and for a number its value.  A method, a  *)
(* field name or a field value is one byte of this alphabet.  parse() runs *)
(* over what one recv returned; cut says that a byte is the last of its    *)
(* recv, which matters where a handler looks at the byte after a CR or     *)
(* loops over an extension.  The limits on a method, a name and a version  *)
(* line are left out, and reserve() is taken to find its memory.           *)
(***************************************************************************)
EXTENDS Naturals, Sequences

CONSTANTS
  MaxHeaderSize, MaxUri, MaxHeaders, MaxBody,  \* MAX_HEADER_SIZE and so on, in bytes of the alphabet
  MaxTotal,  \* MAX_HEADER_SIZE + MAX_BODY_SIZE, which a whole request may have
  Word,      \* 2^64: a chunk size is a size_t
  MaxLength  \* bound: the largest Content-Length and chunk size

ASSUME ParserAssumption ==
  /\ MaxHeaderSize \in Nat /\ MaxUri \in Nat /\ MaxHeaders \in Nat /\ MaxBody \in Nat
  /\ MaxTotal \in Nat /\ MaxLength \in Nat
  /\ Word \in Nat /\ MaxLength < Word

VARIABLES
  parser,  \* the HttpParser
  client,  \* what the client has sent, and where in the grammar it is
  broken,  \* a recv ended after the CR of a line, or inside an extension
  received  \* the bytes of the request that have arrived

vars == <<parser, client, broken, received>>

\* "old" is the version HTTP/1.0, "word" any other token, "semi" the semicolon that
\* begins an extension, "bad" any byte that is no token character and has no meaning
\* of its own.
Names == {"content-length", "transfer-encoding", "connection", "word"}
Tokens == Names \cup {"number", "chunked", "close", "old"}
Kinds == Tokens \cup {"sp", ":", "semi", "CR", "LF", "bad"}
Bytes == [kind : Kinds, n : {0}] \cup [kind : {"number"}, n : 0..MaxLength]
Absent == [kind |-> "absent", n |-> 0]
Field == [name : Kinds \cup {"absent"}, value : Bytes \cup {Absent}]

\* look: a CR has been consumed and the next byte must be LF; skip: inside the
\* loop over a chunk extension.
Fresh ==
  [state |-> "METHOD", look |-> FALSE, skip |-> FALSE, uri |-> 0, version |-> "absent",
   name |-> "absent", value |-> Absent, headers |-> <<>>, header_size |-> 0,
   content_length |-> 0, chunk_size |-> 0, chunk_read |-> 0, body |-> 0, keep_alive |-> TRUE]

-----------------------------------------------------------------------------
(* The handlers: what a byte makes of the parser                           *)

Failed(p) == [p EXCEPT !.state = "ERROR"]

ParseMethod(p, c) ==
  IF c.kind = "sp" THEN [p EXCEPT !.state = "PATH"]
  ELSE IF c.kind \in Tokens THEN p ELSE Failed(p)

\* Mutant: one byte too many.
ParsePath_OffByOne(p, c) ==
  CASE c.kind = "sp" -> [p EXCEPT !.state = "VERSION"]
    [] c.kind \in {"CR", "LF"} -> Failed(p)
    [] OTHER -> IF p.uri <= MaxUri THEN [p EXCEPT !.uri = @ + 1] ELSE Failed(p)

ParsePath(p, c) ==
  CASE c.kind = "sp" -> [p EXCEPT !.state = "VERSION"]
    [] c.kind \in {"CR", "LF"} -> Failed(p)
    [] OTHER -> IF p.uri < MaxUri THEN [p EXCEPT !.uri = @ + 1] ELSE Failed(p)

\* What begins like a version is one, whatever follows; a CR at its end is removed.
ParseVersion(p, c) ==
  CASE c.kind = "LF" -> IF p.version \in {"word", "old"} THEN [p EXCEPT !.state = "HEADER_NAME"]
                                                         ELSE Failed(p)
    [] c.kind = "CR" -> [p EXCEPT !.version = IF @ = "absent" THEN "bad" ELSE @]
    [] OTHER -> [p EXCEPT !.version = IF @ = "absent" THEN c.kind
                                      ELSE IF @ = "old" THEN "word" ELSE @]

\* CR at the end of a line: the LF must be in the same recv.
LineEnd(p, cut, done) ==
  IF p.look THEN [done EXCEPT !.look = FALSE]
  ELSE IF cut THEN Failed(p) ELSE [p EXCEPT !.look = TRUE]

\* Whether c is part of the end of a line.
EndsLine(p, c) == IF p.look THEN c.kind = "LF" ELSE c.kind = "CR"

\* header(name): the value of the first field of that name.
Header(headers, name) ==
  IF \A i \in DOMAIN headers : headers[i].name # name THEN Absent
  ELSE headers[CHOOSE i \in DOMAIN headers :
                 headers[i].name = name /\ \A j \in 1..(i - 1) : headers[j].name # name].value

\* finalize_request
FinalizeRequest(p) ==
  [p EXCEPT !.state = "COMPLETE",
            !.keep_alive = @ /\ (p.version = "old" => Header(p.headers, "connection") # Absent)]

\* on_headers_done
OnHeadersDone(p) ==
  LET length == Header(p.headers, "content-length")
      chunked == Header(p.headers, "transfer-encoding").kind = "chunked"
      q == [p EXCEPT !.content_length = length.n,
                     !.keep_alive = Header(p.headers, "connection").kind # "close"]
  IN  IF length.kind \notin {"absent", "number"} THEN Failed(p)
      ELSE IF chunked THEN [q EXCEPT !.state = "CHUNK_SIZE", !.chunk_size = 0, !.chunk_read = 0]
      ELSE IF length.n > 0 THEN [q EXCEPT !.state = "BODY"]
      ELSE FinalizeRequest(q)

\* One more byte of a name or a value is counted.
Counted(p) == IF p.header_size < MaxHeaderSize THEN [p EXCEPT !.header_size = @ + 1] ELSE Failed(p)

ParseHeaderName(p, c, cut) ==
  IF EndsLine(p, c) THEN LineEnd(p, cut, OnHeadersDone(p))
  ELSE IF p.look THEN Failed(p)
  ELSE CASE c.kind = "sp" -> IF p.name = "absent" THEN Failed(p) ELSE p
         [] c.kind = ":" -> [p EXCEPT !.state = "HEADER_VALUE"]
         [] c.kind \in Tokens -> Counted([p EXCEPT !.name = IF @ = "absent" THEN c.kind ELSE "word"])
         [] OTHER -> Failed(p)

\* on_header_complete.  The error of too many headers is overwritten by the
\* caller's assignment to state_; the name and the value then stay.
OnHeaderComplete(p) ==
  LET cleared == [p EXCEPT !.name = "absent", !.value = Absent, !.state = "HEADER_NAME"]
  IN  CASE p.name = "absent" -> cleared
        [] p.name # "absent" /\ Len(p.headers) < MaxHeaders ->
             [cleared EXCEPT !.headers = Append(@, [name |-> p.name, value |-> p.value])]
        [] OTHER -> [p EXCEPT !.state = "HEADER_NAME"]

\* Leading and trailing space is no part of the value.
ParseHeaderValue(p, c, cut) ==
  IF EndsLine(p, c) THEN LineEnd(p, cut, OnHeaderComplete(p))
  ELSE IF p.look THEN Failed(p)
  ELSE IF c.kind = "sp" THEN IF p.value = Absent THEN p ELSE Counted(p)
  ELSE Counted([p EXCEPT !.value = IF @ = Absent THEN c ELSE [kind |-> "word", n |-> 0]])

\* Mutant: one byte too many.
ParseBody_OffByOne(p) ==
  LET q == [p EXCEPT !.body = @ + 1]
  IN  IF q.body > p.content_length THEN FinalizeRequest(q) ELSE q

ParseBody(p) ==
  LET q == [p EXCEPT !.body = @ + 1]
  IN  IF q.body = p.content_length THEN FinalizeRequest(q) ELSE q

\* The end of a size line.  After the last chunk the request is complete: the
\* trailer and the empty line that follow are not consumed.
SizeLineDone(p) ==
  IF p.chunk_size = 0 THEN FinalizeRequest(p)
  ELSE [p EXCEPT !.state = "CHUNK_DATA", !.chunk_read = 0]

ParseChunkSize(p, c, cut) ==
  IF EndsLine(p, c) THEN LineEnd(p, cut, SizeLineDone([p EXCEPT !.skip = FALSE]))
  ELSE IF p.look THEN Failed(p)
  ELSE IF p.skip THEN p
  ELSE CASE c.kind = "semi" -> [p EXCEPT !.skip = TRUE]
         [] c.kind = "number" -> [p EXCEPT !.chunk_size = (@ * 16 + c.n) % Word]
         [] c.kind = "sp" -> p
         [] OTHER -> Failed(p)

\* Mutant: the size of the chunk before is kept.
ParseChunkData_KeepsSize(p, c, cut) ==
  CASE p.chunk_read < p.chunk_size ->
         IF p.body < MaxBody THEN [p EXCEPT !.body = @ + 1, !.chunk_read = @ + 1] ELSE Failed(p)
    [] p.chunk_read = p.chunk_size /\ EndsLine(p, c) ->
         LineEnd(p, cut, [p EXCEPT !.state = "CHUNK_SIZE"])
    [] OTHER -> Failed(p)

ParseChunkData(p, c, cut) ==
  CASE p.chunk_read < p.chunk_size ->
         IF p.body < MaxBody THEN [p EXCEPT !.body = @ + 1, !.chunk_read = @ + 1] ELSE Failed(p)
    [] p.chunk_read = p.chunk_size /\ EndsLine(p, c) ->
         LineEnd(p, cut, [p EXCEPT !.state = "CHUNK_SIZE", !.chunk_size = 0])
    [] OTHER -> Failed(p)

\* parse
Parse(p, c, cut) ==
  CASE p.state = "METHOD" -> ParseMethod(p, c)
    [] p.state = "PATH" -> ParsePath(p, c)
    [] p.state = "VERSION" -> ParseVersion(p, c)
    [] p.state = "HEADER_NAME" -> ParseHeaderName(p, c, cut)
    [] p.state = "HEADER_VALUE" -> ParseHeaderValue(p, c, cut)
    [] p.state = "BODY" -> ParseBody(p)
    [] p.state = "CHUNK_SIZE" -> ParseChunkSize(p, c, cut)
    [] p.state = "CHUNK_DATA" -> ParseChunkData(p, c, cut)

-----------------------------------------------------------------------------
(* The client: the grammar of a request                                    *)

NewMessage ==
  [at |-> "start", cr |-> FALSE, uri |-> 0, version |-> "absent", fields |-> <<>>,
   left |-> 0, body |-> 0]

\* The body a message announces.
IsChunked(m) == Header(m.fields, "transfer-encoding").kind = "chunked"
BodyLength(m) == Header(m.fields, "content-length").n

\* What follows a line.
AfterLine(m) ==
  CASE m.at \in {"version_end", "value_end"} -> "field"
    [] m.at = "field" -> IF IsChunked(m) THEN "size"
                         ELSE IF BodyLength(m) > 0 THEN "body" ELSE "end"
    [] m.at = "size_end" -> IF m.left = 0 THEN "trailer" ELSE "data"
    [] m.at = "data_end" -> "size"
    [] m.at = "trailer" -> "end"

LineEnds == {"version_end", "field", "value_end", "size_end", "data_end", "trailer"}

\* The value a field may have.
Values(name) ==
  CASE name = "content-length" -> {"number"}
    [] name = "transfer-encoding" -> {"chunked"}
    [] name = "connection" -> {"close", "word"}
    [] name = "word" -> {"word"}

Goes(at, kinds, c, to) == client.at = at /\ c.kind \in kinds /\ client' = [client EXCEPT !.at = to]

SendsRequestLine(c) ==
  \/ Goes("start", {"word"}, c, "method")
  \/ Goes("method", {"sp"}, c, "target")
  \/ /\ client.at = "target" /\ c.kind = "word" /\ client.uri <= MaxUri
     /\ client' = [client EXCEPT !.uri = @ + 1]
  \/ client.uri > 0 /\ Goes("target", {"sp"}, c, "version")
  \/ /\ client.at = "version" /\ c.kind \in {"word", "old"}
     /\ client' = [client EXCEPT !.version = c.kind, !.at = "version_end"]

\* No field but "word" comes twice.
SendsField(c) ==
  \/ /\ client.at = "field" /\ ~client.cr
     /\ c.kind \in Names /\ Len(client.fields) <= MaxHeaders
     /\ c.kind # "word" => \A i \in DOMAIN client.fields : client.fields[i].name # c.kind
     /\ client' = [client EXCEPT !.at = "colon",
                                 !.fields = Append(@, [name |-> c.kind, value |-> Absent])]
  \/ Goes("colon", {":"}, c, "value")
  \/ Goes("value", {"sp"}, c, "bare_value")
  \/ /\ client.at \in {"value", "bare_value"}
     /\ c.kind \in Values(client.fields[Len(client.fields)].name)
     /\ client' = [client EXCEPT !.at = "value_end", !.fields[Len(client.fields)].value = c]

SendsLineEnd(c) ==
  \/ /\ client.at \in LineEnds /\ ~client.cr /\ c.kind = "CR"
     /\ client' = [client EXCEPT !.cr = TRUE]
  \/ /\ client.cr /\ c.kind = "LF"
     /\ client' = [client EXCEPT !.cr = FALSE, !.at = AfterLine(client),
                                 !.left = IF AfterLine(client) = "body" THEN BodyLength(client) ELSE @]

\* A byte of a body may be a CR.
SendsBody(c) ==
  \/ /\ client.at = "body" /\ c.kind \in {"word", "CR"}
     /\ client' = [client EXCEPT !.left = @ - 1, !.body = @ + 1,
                                 !.at = IF client.left = 1 THEN "end" ELSE @]
  \/ /\ client.at = "size" /\ c.kind = "number" /\ client.body + c.n <= MaxBody + 1
     /\ client' = [client EXCEPT !.left = c.n, !.at = "size_end"]
  \/ client.at = "size_end" /\ ~client.cr /\ Goes("size_end", {"semi"}, c, "extension")
  \/ Goes("extension", {"word"}, c, "size_end")
  \/ /\ client.at = "data" /\ c.kind \in {"word", "CR"}
     /\ client' = [client EXCEPT !.left = @ - 1, !.body = @ + 1,
                                 !.at = IF client.left = 1 THEN "data_end" ELSE @]

Sends(c) == SendsRequestLine(c) \/ SendsField(c) \/ SendsLineEnd(c) \/ SendsBody(c)

\* A recv that ends after this byte cuts a line from its LF, or an extension.
Cuts(c) == c.kind = "semi" \/ (c.kind = "CR" /\ client.at \in LineEnds \ {"version_end"})

-----------------------------------------------------------------------------
Init == parser = Fresh /\ client = NewMessage /\ broken = FALSE /\ received = 0

\* Mutant: the parser is used again as it is.
Reset_KeepsResult ==
  /\ parser.state = "COMPLETE" /\ client.at = "end"
  /\ parser' = [Fresh EXCEPT !.body = parser.body] /\ client' = NewMessage /\ received' = 0
  /\ UNCHANGED broken

\* reset(): the next request, on a connection that is kept.
Reset ==
  /\ parser.state = "COMPLETE" /\ client.at = "end"
  /\ parser' = Fresh /\ client' = NewMessage /\ received' = 0
  /\ UNCHANGED broken

\* parse() on one byte; the loop over an extension ends with the recv.
Reads(c, cut) ==
  /\ parser.state \notin {"COMPLETE", "ERROR"}
  /\ parser' = [Parse(parser, c, cut) EXCEPT !.skip = @ /\ ~cut]
  /\ received' = received + 1

\* The check before each step of the loop, which overtakes a request that is complete
\* too.  What it counts are the bytes of the steps that reported progress: never more
\* than have arrived, so how long after them it fails is left open.
RequestTooLarge ==
  /\ parser.state # "ERROR" /\ received > MaxTotal
  /\ parser' = Failed(parser)
  /\ UNCHANGED <<client, broken, received>>

\* The next byte of a message that keeps to the grammar.
Receive(c, cut) ==
  /\ Reads(c, cut) /\ Sends(c)
  /\ broken' = (broken \/ (cut /\ Cuts(c)))

\* Any byte, after which the client sends no more.
Garbled(c, cut) ==
  /\ Reads(c, cut) /\ client.at # "garbled"
  /\ client' = [client EXCEPT !.at = "garbled", !.cr = FALSE]
  /\ UNCHANGED broken

Next ==
  \/ Reset \/ RequestTooLarge
  \/ \E c \in Bytes, cut \in BOOLEAN : Receive(c, cut) \/ Garbled(c, cut)

Spec == Init /\ [][Next]_vars

-----------------------------------------------------------------------------
(* Properties                                                              *)

\* Every variable has its type, and the counters stay within their limits.
TypeOK ==
  /\ parser \in
       [state : {"METHOD", "PATH", "VERSION", "HEADER_NAME", "HEADER_VALUE", "BODY",
                 "CHUNK_SIZE", "CHUNK_DATA", "COMPLETE", "ERROR"},
        look : BOOLEAN, skip : BOOLEAN, uri : 0..MaxUri, version : Kinds \cup {"absent"},
        name : Kinds \cup {"absent"}, value : Bytes \cup {Absent}, headers : Seq(Field),
        header_size : 0..MaxHeaderSize, content_length : 0..MaxLength,
        chunk_size : Nat, chunk_read : Nat, body : Nat, keep_alive : BOOLEAN]
  /\ Len(parser.headers) <= MaxHeaders
  /\ parser.state = "CHUNK_DATA" => parser.chunk_read <= parser.chunk_size

\* The message so far stays within the limits of the parser.
WithinLimits ==
  /\ client.uri <= MaxUri /\ Len(client.fields) <= MaxHeaders
  /\ 2 * Len(client.fields) <= MaxHeaderSize
  /\ IsChunked(client) => client.body <= MaxBody
  /\ received <= MaxTotal

\* The message so far is a request the parser should take.
Proper == client.at # "garbled" /\ WithinLimits

\* http_parser.hpp:137-139, 0 is returned without an error when more data is needed:
\* a proper message is never refused, wherever recv cuts it.
NeverRefused == Proper => parser.state # "ERROR"

\* A proper message is not refused, unless it was cut between CR and LF or
\* inside an extension.
NotRefused == ~broken => NeverRefused

\* Wherever recv cuts it, a request with a length or without a body is complete
\* exactly with its last byte: what follows is the next request.  A chunked one is
\* complete exactly with the size line of its last chunk (http_parser.cpp:403): the
\* empty line that ends the message is never part of it, and is left to what comes next.
EndsWithMessage ==
  Proper /\ ~broken =>
    (parser.state = "COMPLETE" <=> client.at = IF IsChunked(client) THEN "trailer" ELSE "end")

\* The complete request is the one that was sent: all its fields in order, all
\* its body, and whether the client wants the connection kept.
KeepAlive(m) ==
  LET connection == Header(m.fields, "connection").kind
  IN  IF m.version = "old" THEN connection = "word" ELSE connection # "close"
RequestIntact ==
  Proper /\ ~broken /\ parser.state = "COMPLETE" =>
    /\ parser.headers = client.fields /\ parser.body = client.body
    /\ parser.keep_alive = KeepAlive(client)
=============================================================================
