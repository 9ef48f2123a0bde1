---------------------------- MODULE ChunkedDecoder ----------------------------
(***************************************************************************)
(* ChunkedDecoder (chunked_decoder.hpp) beside HttpParser: both take the   *)
(* chunked body of one message from the same recvs.  The parser looks at   *)
(* each byte as it comes; the decoder keeps what it cannot use yet and     *)
(* looks at whole lines.  The client is that of HttpParser and goes on     *)
(* when the parser has given up at a cut, which the decoder should         *)
(* survive.  No program calls the decoder yet, only its test does.         *)
(***************************************************************************)
EXTENDS HttpParser

CONSTANTS
  MaxChunkSize,  \* MAX_CHUNK_SIZE
  MaxRecv        \* bound: the bytes that wait for the end of their recv

VARIABLE decoder  \* the ChunkedDecoder

decoderVars == <<vars, decoder>>

\* out: what on_data was given; whole: the recv under way has ended and was fed.
FreshDecoder ==
  [state |-> "READ_SIZE", buffer |-> <<>>, size |-> 0, read |-> 0, out |-> 0, whole |-> TRUE]

Least(m, n) == IF m < n THEN m ELSE n

-----------------------------------------------------------------------------
(* The states of the decoder                                               *)

\* find_crlf: where the pairs of CR and LF begin.
CrLfs(b) == {i \in 1..(Len(b) - 1) : b[i].kind = "CR" /\ b[i + 1].kind = "LF"}

\* The bytes of a size line, which an extension ends.
Digits(line) ==
  LET semicolons == {i \in DOMAIN line : line[i].kind = "semi"}
      upto == IF semicolons = {} THEN Len(line)
              ELSE (CHOOSE i \in semicolons : \A j \in semicolons : i <= j) - 1
  IN  SubSeq(line, 1, upto)

\* hex_value of digit after digit; space among them is passed over.
HexValue(digits) ==
  LET value[i \in 0..Len(digits)] ==
        IF i = 0 THEN 0
        ELSE IF digits[i].kind = "sp" THEN value[i - 1] ELSE 16 * value[i - 1] + digits[i].n
  IN  value[Len(digits)]

\* process_read_size: nothing until the line is whole; an error leaves it in the buffer.
ReadSize(d) ==
  LET crlf == CHOOSE i \in CrLfs(d.buffer) : \A j \in CrLfs(d.buffer) : i <= j
      digits == Digits(SubSeq(d.buffer, 1, crlf - 1))
      size == HexValue(digits)
      invalid == \E i \in DOMAIN digits : digits[i].kind \notin {"number", "sp"}
  IN  IF CrLfs(d.buffer) = {} THEN d
      ELSE IF invalid THEN [d EXCEPT !.state = "ERROR"]
      ELSE IF size > MaxChunkSize THEN [d EXCEPT !.state = "ERROR", !.size = size]
      ELSE [d EXCEPT !.buffer = SubSeq(@, crlf + 2, Len(@)), !.size = size, !.read = 0,
                     !.state = IF size = 0 THEN "DONE" ELSE "READ_DATA"]

\* process_read_data
ReadData(d) ==
  LET taken == Least(Len(d.buffer), d.size - d.read)
  IN  [d EXCEPT !.buffer = SubSeq(@, taken + 1, Len(@)), !.read = @ + taken, !.out = @ + taken,
                !.state = IF d.read + taken = d.size THEN "READ_TRAILER" ELSE @]

\* Mutant: does not wait for the second byte.
ReadTrailer_OneByte(d) ==
  IF 1 \in CrLfs(d.buffer)
    THEN [d EXCEPT !.buffer = SubSeq(@, 3, Len(@)), !.state = "READ_SIZE"]
    ELSE [d EXCEPT !.state = "READ_SIZE"]

\* process_read_trailer: two other bytes than CR and LF are taken for the next size line.
ReadTrailer(d) ==
  CASE Len(d.buffer) < 2 -> d
    [] 1 \in CrLfs(d.buffer) -> [d EXCEPT !.buffer = SubSeq(@, 3, Len(@)), !.state = "READ_SIZE"]
    [] OTHER -> [d EXCEPT !.state = "READ_SIZE"]

Processed(d) ==
  CASE d.state = "READ_SIZE" -> ReadSize(d)
    [] d.state = "READ_DATA" -> ReadData(d)
    [] d.state = "READ_TRAILER" -> ReadTrailer(d)
    [] OTHER -> d

\* process_buffer: as long as a turn consumes something.  A turn that only
\* changes the state ends the loop, until more is fed.
ProcessBuffer(d) ==
  LET turn[n \in 0..Len(d.buffer)] ==
        IF n = 0 THEN [decoder |-> d, progress |-> TRUE]
        ELSE LET before == turn[n - 1]
                 after == Processed(before.decoder)
             IN  IF before.progress /\ before.decoder.buffer # <<>>
                   THEN [decoder |-> after,
                         progress |-> Len(after.buffer) < Len(before.decoder.buffer)]
                   ELSE before
  IN  turn[Len(d.buffer)].decoder

\* feed: one byte more of the recv, which is fed when it ends.
Fed(d, c, cut) ==
  LET more == [d EXCEPT !.buffer = Append(@, c), !.whole = cut]
  IN  IF cut THEN ProcessBuffer(more) ELSE more

-----------------------------------------------------------------------------
DecoderInit == Init /\ decoder = FreshDecoder

\* The next byte belongs to a chunked body.
InChunks == client.at \in {"size", "size_end", "extension", "data", "data_end"}

\* Bounds: a recv ends when MaxRecv bytes wait in the buffer; a size line has one
\* extension; no more is sent of a body once the request is too large.
Bounded(c, cut) ==
  /\ received <= MaxTotal
  /\ Len(decoder.buffer) + 1 >= MaxRecv => cut
  /\ c.kind = "semi" => \A i \in DOMAIN decoder.buffer : decoder.buffer[i].kind # "semi"

FedTogether(c, cut) ==
  /\ InChunks => Bounded(c, cut)
  /\ Receive(c, cut) \/ Garbled(c, cut)
  /\ decoder' = IF InChunks THEN Fed(decoder, c, cut) ELSE decoder

\* The parser has given up.
FedAlone(c, cut) ==
  /\ parser.state = "ERROR" /\ InChunks /\ Bounded(c, cut) /\ Sends(c)
  /\ decoder' = Fed(decoder, c, cut) /\ received' = received + 1
  /\ UNCHANGED <<parser, broken>>

\* Both are reset for the next message.
ResetBoth == Reset /\ decoder' = FreshDecoder

DecoderNext ==
  \/ ResetBoth
  \/ RequestTooLarge /\ UNCHANGED decoder
  \/ \E c \in Bytes, cut \in BOOLEAN : FedTogether(c, cut) \/ FedAlone(c, cut)

DecoderSpec == DecoderInit /\ [][DecoderNext]_decoderVars

-----------------------------------------------------------------------------
(* Properties                                                              *)

\* chunked_decoder.hpp:16, the transfer coding is stripped off and nothing else:
\* wherever the recvs cut a proper body, when one has been fed the decoder has
\* given on all the data in it, is done exactly when the body has ended, and
\* gives the same body as the parser, if that has not given up at a cut.  Only a
\* chunk that is too large is refused.
SameBody ==
  Proper /\ IsChunked(client) /\ decoder.whole =>
    IF decoder.state = "ERROR" THEN decoder.size > MaxChunkSize
    ELSE /\ decoder.out = client.body
         /\ decoder.state = "DONE" <=> client.at = "trailer"
         /\ parser.state = "COMPLETE" => decoder.state = "DONE" /\ parser.body = decoder.out
=============================================================================
