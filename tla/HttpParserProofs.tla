--------------------------- MODULE HttpParserProofs ---------------------------
(***************************************************************************)
(* Proofs about HttpParser, for all limits: while the client sends a       *)
(* proper request and no recv cuts a line end or an extension, the parser  *)
(* is where the client is in the grammar, and has what was sent.  They     *)
(* hold of the parser alone and of the parser beside the decoder.  The     *)
(* decoder gives on the same body, wherever the recvs cut it.              *)
(***************************************************************************)
EXTENDS ChunkedDecoder, Integers, TLAPS, WellFoundedInduction

-----------------------------------------------------------------------------
(* The inductive invariant                                                 *)

ParserType ==
  [state : {"METHOD", "PATH", "VERSION", "HEADER_NAME", "HEADER_VALUE", "BODY",
            "CHUNK_SIZE", "CHUNK_DATA", "COMPLETE", "ERROR"},
   look : BOOLEAN, skip : BOOLEAN, uri : 0..MaxUri, version : Kinds \cup {"absent"},
   name : Kinds \cup {"absent"}, value : Bytes \cup {Absent}, headers : Seq(Field),
   header_size : 0..MaxHeaderSize, content_length : 0..MaxLength,
   chunk_size : Nat, chunk_read : Nat, body : Nat, keep_alive : BOOLEAN]

\* What TypeOK says of one parser.
Sound(p) ==
  /\ p \in ParserType
  /\ Len(p.headers) <= MaxHeaders
  /\ p.state = "CHUNK_DATA" => p.chunk_read <= p.chunk_size

InHead == {"start", "method", "target", "version", "version_end"}
InField == {"colon", "value", "bare_value", "value_end"}
Unvalued == {"colon", "value", "bare_value"}
InChunk == {"size", "size_end", "extension", "data", "data_end"}
Positions == InHead \cup InField \cup InChunk \cup {"field", "body", "end", "trailer", "garbled"}

MessageField == [name : Names, value : Bytes \cup {Absent}]
Message ==
  [at : Positions, cr : BOOLEAN, uri : Nat, version : {"absent", "word", "old"},
   fields : Seq(MessageField), left : Nat, body : Nat]

\* Where the client can be: a field has its value once the client is past it, and a
\* body has begun only where a body may be.
Grammar(m) ==
  /\ m.cr => m.at \in LineEnds
  /\ m.at \in InHead \cup InField \cup {"field"} => m.body = 0
  /\ m.at \in InField => Len(m.fields) > 0
  /\ m.at \in {"body", "data"} => m.left > 0
  /\ m.at # "garbled" =>
       \A i \in DOMAIN m.fields :
         IF m.at \in Unvalued /\ i = Len(m.fields)
           THEN m.fields[i].value = Absent
           ELSE m.fields[i].value.kind \in Values(m.fields[i].name)

\* The state the parser is in at each point of the grammar.
StateAt(at) ==
  CASE at \in {"start", "method"} -> "METHOD"
    [] at = "target" -> "PATH"
    [] at \in {"version", "version_end"} -> "VERSION"
    [] at \in {"field", "colon"} -> "HEADER_NAME"
    [] at \in {"value", "bare_value", "value_end"} -> "HEADER_VALUE"
    [] at = "body" -> "BODY"
    [] at \in {"size", "size_end", "extension"} -> "CHUNK_SIZE"
    [] at \in {"data", "data_end"} -> "CHUNK_DATA"
    [] OTHER -> "COMPLETE"

\* The fields that are complete, and the one under way.
FieldsTrack(p, m) ==
  IF m.at \in InField
    THEN /\ Len(m.fields) = Len(p.headers) + 1
         /\ \A i \in DOMAIN p.headers : p.headers[i] = m.fields[i]
         /\ p.name = m.fields[Len(m.fields)].name
         /\ p.value = m.fields[Len(m.fields)].value
    ELSE p.headers = m.fields /\ p.name = "absent" /\ p.value = Absent

\* A name and a value count one byte each; what is left of a body or a chunk.
SizesTrack(p, m) ==
  /\ p.header_size + (IF m.at \in Unvalued THEN 1 ELSE 0) = 2 * Len(m.fields)
  /\ m.at = "body" => p.body + m.left = p.content_length
  /\ m.at = "size" => p.chunk_size = 0
  /\ m.at \in {"size_end", "extension"} => p.chunk_size = m.left
  /\ m.at = "data" => p.chunk_read + m.left = p.chunk_size
  /\ m.at = "data_end" => p.chunk_read = p.chunk_size

\* A message the parser takes to its end ends as it is coded: a chunked one with its
\* last size line, before the empty line.
Coded(m) ==
  /\ m.at \in InChunk \cup {"trailer"} => IsChunked(m)
  /\ m.at \in {"body", "end"} => ~IsChunked(m)

\* The parser is where the client is, with what was sent.
Tracks(p, m) ==
  /\ p.state = StateAt(m.at)
  /\ p.look = (m.cr /\ m.at # "version_end")
  /\ p.skip => m.at \in {"size_end", "extension"}
  /\ m.at = "extension" => p.skip
  /\ p.uri = m.uri /\ p.version = m.version /\ p.body = m.body
  /\ m.at \in InHead => (m.version = "absent" <=> m.at # "version_end")
  /\ FieldsTrack(p, m)
  /\ SizesTrack(p, m)
  /\ m.at \in InChunk \cup {"body"} =>
       p.keep_alive = (Header(m.fields, "connection").kind # "close")
  /\ Coded(m)
  /\ m.at \in {"end", "trailer"} => p.keep_alive = KeepAlive(m)

IInv ==
  /\ TypeOK /\ client \in Message /\ broken \in BOOLEAN /\ received \in Nat
  /\ Grammar(client)
  /\ Proper /\ ~broken => Tracks(parser, client)

-----------------------------------------------------------------------------
(* The type of the parser, which what the client does cannot break         *)

\* A nonempty set of naturals has a least element.
LEMMA LeastNumber ==
  ASSUME NEW S \in SUBSET Nat, S # {}
  PROVE  \E n \in S : \A m \in S : n <= m
  <1>1. PICK n \in S : \A m \in S : ~(<<m, n>> \in OpToRel(<, Nat))
    BY NatLessThanWellFounded, WFMin
  <1>2. ASSUME NEW m \in S PROVE n <= m
    <2>1. m \in Nat /\ n \in Nat
      OBVIOUS
    <2>2. ~(m < n)
      BY <1>1, <2>1 DEF OpToRel
    <2> QED BY <2>1, <2>2
  <1> QED BY <1>2

\* What is left of a number in a word, and what is not larger stays as it is.
LEMMA WithinWord ==
  /\ \A n \in Nat : n % Word \in Nat
  /\ \A n \in 0..MaxLength : n % Word = n
  <1>1. Word \in Nat /\ MaxLength \in Nat /\ MaxLength < Word /\ Word > 0
    BY ParserAssumption
  <1>2. \A n, w \in Nat : w > 0 => n % w \in Nat /\ (n < w => n % w = n)
    OBVIOUS
  <1> QED BY <1>1, <1>2

\* header(name) is the value of a field of that name, when there is one.
LEMMA HeaderIs ==
  ASSUME NEW F, NEW headers \in Seq(F), NEW name
  PROVE  \/ Header(headers, name) = Absent /\ \A i \in DOMAIN headers : headers[i].name # name
         \/ \E i \in DOMAIN headers :
              headers[i].name = name /\ Header(headers, name) = headers[i].value
  <1> DEFINE S == {i \in DOMAIN headers : headers[i].name = name}
             First(i) == headers[i].name = name /\ \A j \in 1..(i - 1) : headers[j].name # name
  <1>1. CASE S = {}
    BY <1>1 DEF Header
  <1>2. CASE S # {}
    <2>1. PICK i \in S : \A j \in S : i <= j
      <3>1. S \in SUBSET Nat
        OBVIOUS
      <3> QED BY <1>2, <3>1, LeastNumber
    <2>2. i \in DOMAIN headers /\ First(i)
      <3>1. \A j \in 1..(i - 1) : j \in DOMAIN headers /\ ~(i <= j)
        OBVIOUS
      <3> QED BY <2>1, <3>1
    <2>3. /\ (CHOOSE k \in DOMAIN headers : First(k)) \in DOMAIN headers
          /\ First(CHOOSE k \in DOMAIN headers : First(k))
      BY <2>2
    <2>4. Header(headers, name) = headers[CHOOSE k \in DOMAIN headers : First(k)].value
      BY <1>2 DEF Header
    <2> QED BY <2>3, <2>4
  <1> QED BY <1>1, <1>2

\* A byte of the alphabet is never the absent value.
LEMMA ByteType ==
  ASSUME NEW c \in Bytes
  PROVE  /\ c.kind \in Kinds /\ c.n \in 0..MaxLength /\ c # Absent /\ c.kind # "absent"
         /\ [kind |-> "word", n |-> 0] \in Bytes
  <1>1. CASE c \in [kind : Kinds, n : {0}]
    <2>1. c.kind \in Kinds /\ c.n = 0
      BY <1>1
    <2>2. "absent" \notin Kinds /\ "word" \in Kinds
      BY DEF Kinds, Tokens, Names
    <2> QED BY <2>1, <2>2, ParserAssumption DEF Bytes, Absent
  <1>2. CASE c \in [kind : {"number"}, n : 0..MaxLength]
    <2>1. c.kind = "number" /\ c.n \in 0..MaxLength
      BY <1>2
    <2>2. {"number", "word"} \subseteq Kinds
      BY DEF Kinds, Tokens, Names
    <2> QED BY <2>1, <2>2 DEF Bytes, Absent
  <1> QED BY <1>1, <1>2 DEF Bytes

\* The value of a field of the parser is a byte, or absent.
LEMMA HeaderType ==
  ASSUME NEW headers \in Seq(Field), NEW name
  PROVE  Header(headers, name) \in Bytes \cup {Absent}
  <1>1. ASSUME NEW i \in DOMAIN headers PROVE headers[i].value \in Bytes \cup {Absent}
    <2>1. headers[i] \in Field
      OBVIOUS
    <2> QED BY <2>1 DEF Field
  <1>2. \/ Header(headers, name) = Absent
        \/ \E i \in DOMAIN headers : Header(headers, name) = headers[i].value
    BY HeaderIs
  <1> QED BY <1>1, <1>2

\* A parser that was reset is sound.
LEMMA FreshType == Sound(Fresh)
  <1>1. <<>> \in Seq(Field) /\ Len(<<>>) = 0
    OBVIOUS
  <1> QED BY <1>1, ParserAssumption DEF Sound, Fresh, ParserType, Kinds, Absent

\* So is one that has given up.
LEMMA FailedType ==
  ASSUME NEW p, Sound(p)
  PROVE  Sound(Failed(p))
  BY DEF Sound, Failed, ParserType

\* The end of a line leaves a parser sound when what it leads to is.
LEMMA LineEndType ==
  ASSUME NEW p, Sound(p), NEW cut, NEW done, Sound(done)
  PROVE  Sound(LineEnd(p, cut, done))
  BY ZenonT(30), FailedType DEF Sound, LineEnd, ParserType

\* One more byte is counted only within the limit.
LEMMA CountedType ==
  ASSUME NEW p, Sound(p)
  PROVE  Sound(Counted(p))
  BY SMTT(20), FailedType, ParserAssumption DEF Sound, Counted, ParserType

\* finalize_request changes the state and keep_alive only.
LEMMA FinalizeType ==
  ASSUME NEW p, Sound(p)
  PROVE  Sound(FinalizeRequest(p))
  BY DEF Sound, FinalizeRequest, ParserType

\* on_headers_done takes the length from a field of the right type.
LEMMA HeadersDoneType ==
  ASSUME NEW p, Sound(p)
  PROVE  Sound(OnHeadersDone(p))
  <1> DEFINE length == Header(p.headers, "content-length")
             chunked == Header(p.headers, "transfer-encoding").kind = "chunked"
             q == [p EXCEPT !.content_length = length.n,
                            !.keep_alive = Header(p.headers, "connection").kind # "close"]
             r == [q EXCEPT !.state = "CHUNK_SIZE", !.chunk_size = 0, !.chunk_read = 0]
             s == [q EXCEPT !.state = "BODY"]
  <1>1. length.n \in 0..MaxLength
    <2>1. p.headers \in Seq(Field)
      BY DEF Sound, ParserType
    <2>2. length \in Bytes \cup {Absent}
      BY <2>1, HeaderType
    <2> QED BY <2>2, ByteType, ParserAssumption DEF Absent
  <1> HIDE DEF length, chunked
  <1>2. Sound(q) /\ Sound(r) /\ Sound(s)
    BY ZenonT(30), <1>1 DEF Sound, ParserType
  <1>3. Sound(Failed(p)) /\ Sound(FinalizeRequest(q))
    BY <1>2, FailedType, FinalizeType
  <1> HIDE DEF q, r, s
  <1>4. OnHeadersDone(p) = IF length.kind \notin {"absent", "number"} THEN Failed(p)
                           ELSE IF chunked THEN r ELSE IF length.n > 0 THEN s ELSE FinalizeRequest(q)
    BY DEF OnHeadersDone, length, chunked, q, r, s
  <1>5. OnHeadersDone(p) \in {Failed(p), r, s, FinalizeRequest(q)}
    BY <1>4
  <1> QED BY <1>2, <1>3, <1>5

\* on_header_complete adds a field only within the limit.
LEMMA HeaderCompleteType ==
  ASSUME NEW p, Sound(p)
  PROVE  Sound(OnHeaderComplete(p))
  <1> DEFINE cleared == [p EXCEPT !.name = "absent", !.value = Absent, !.state = "HEADER_NAME"]
             field == [name |-> p.name, value |-> p.value]
             added == [cleared EXCEPT !.headers = Append(@, field)]
             kept == [p EXCEPT !.state = "HEADER_NAME"]
  <1>1. Sound(cleared) /\ Sound(kept)
    BY DEF Sound, ParserType
  <1>2. ASSUME Len(p.headers) < MaxHeaders PROVE Sound(added)
    <2>1. field \in Field /\ p.headers \in Seq(Field) /\ cleared.headers = p.headers
      BY DEF Sound, ParserType, Field
    <2> HIDE DEF field
    <2>2. Append(p.headers, field) \in Seq(Field) /\ Len(Append(p.headers, field)) <= MaxHeaders
      BY <1>2, <2>1, ParserAssumption
    <2>3. added = [cleared EXCEPT !.headers = Append(p.headers, field)]
      BY <2>1
    <2> HIDE DEF cleared, added
    <2>4. \A h \in Seq(Field) : Len(h) <= MaxHeaders => Sound([cleared EXCEPT !.headers = h])
      BY <1>1 DEF Sound, ParserType
    <2> QED BY <2>2, <2>3, <2>4
  <1> HIDE DEF cleared, kept, field, added
  <1>3. OnHeaderComplete(p) = CASE p.name = "absent" -> cleared
                               [] p.name # "absent" /\ Len(p.headers) < MaxHeaders -> added
                               [] OTHER -> kept
    BY DEF OnHeaderComplete, cleared, kept, field, added
  <1>4. \/ OnHeaderComplete(p) \in {cleared, kept}
        \/ OnHeaderComplete(p) = added /\ Len(p.headers) < MaxHeaders
    BY <1>3
  <1> QED BY <1>1, <1>2, <1>4

\* The handlers of the request line.
LEMMA HeadType ==
  ASSUME NEW p, Sound(p), NEW c \in Bytes
  PROVE  /\ p.state = "METHOD" => Sound(ParseMethod(p, c))
         /\ p.state = "PATH" => Sound(ParsePath(p, c))
         /\ p.state = "VERSION" => Sound(ParseVersion(p, c))
  <1>1. p.state = "METHOD" => Sound(ParseMethod(p, c))
    BY FailedType DEF ParseMethod, Sound, ParserType
  <1>2. p.state = "PATH" => Sound(ParsePath(p, c))
    <2> DEFINE longer == [p EXCEPT !.uri = @ + 1]
               version == [p EXCEPT !.state = "VERSION"]
    <2>1. p.uri < MaxUri => Sound(longer)
      BY SMTT(20), ParserAssumption DEF Sound, ParserType
    <2>2. Sound(version)
      BY DEF Sound, ParserType
    <2> HIDE DEF longer, version
    <2>3. \/ ParsePath(p, c) \in {version, Failed(p)}
          \/ ParsePath(p, c) = longer /\ p.uri < MaxUri
      BY DEF ParsePath, longer, version
    <2> QED BY <2>1, <2>2, <2>3, FailedType
  <1>3. ASSUME p.state = "VERSION" PROVE Sound(ParseVersion(p, c))
    <2>1. c.kind \in Kinds /\ {"word", "bad"} \subseteq Kinds
      BY ByteType DEF Kinds, Tokens, Names
    <2>2. CASE c.kind = "LF"
      BY <1>3, <2>2, FailedType DEF ParseVersion, Sound, ParserType
    <2>3. CASE c.kind = "CR"
      <3> DEFINE w == IF p.version = "absent" THEN "bad" ELSE p.version
      <3>1. ParseVersion(p, c) = [p EXCEPT !.version = w]
        BY <2>3 DEF ParseVersion
      <3>2. w \in Kinds \cup {"absent"}
        BY <2>1 DEF Sound, ParserType
      <3> QED BY <3>1, <3>2 DEF Sound, ParserType
    <2>4. CASE c.kind \notin {"LF", "CR"}
      <3> DEFINE w == IF p.version = "absent" THEN c.kind
                      ELSE IF p.version = "old" THEN "word" ELSE p.version
      <3>1. ParseVersion(p, c) = [p EXCEPT !.version = w]
        BY <2>4 DEF ParseVersion
      <3>2. w \in Kinds \cup {"absent"}
        BY <2>1 DEF Sound, ParserType
      <3> QED BY <3>1, <3>2 DEF Sound, ParserType
    <2> QED BY <2>2, <2>3, <2>4
  <1> QED BY <1>1, <1>2, <1>3

\* The handlers of a field.
LEMMA FieldType ==
  ASSUME NEW p, Sound(p), NEW c \in Bytes, NEW cut
  PROVE  Sound(ParseHeaderName(p, c, cut)) /\ Sound(ParseHeaderValue(p, c, cut))
  <1>1. /\ c.kind \in Kinds /\ "word" \in Kinds /\ [kind |-> "word", n |-> 0] \in Bytes
        /\ "absent" \notin Tokens
    BY ByteType DEF Kinds, Tokens, Names
  <1>2. /\ Sound(LineEnd(p, cut, OnHeadersDone(p))) /\ Sound(LineEnd(p, cut, OnHeaderComplete(p)))
        /\ Sound(Failed(p)) /\ Sound(Counted(p))
    BY LineEndType, HeadersDoneType, HeaderCompleteType, FailedType, CountedType
  <1>3. Sound([p EXCEPT !.state = "HEADER_VALUE"])
    BY DEF Sound, ParserType
  <1>4. \A kind \in Kinds \cup {"absent"} : Sound(Counted([p EXCEPT !.name = kind]))
    <2>1. \A kind \in Kinds \cup {"absent"} : Sound([p EXCEPT !.name = kind])
      BY DEF Sound, ParserType
    <2> QED BY <2>1, CountedType
  <1>5. \A value \in Bytes : Sound(Counted([p EXCEPT !.value = value]))
    <2>1. \A value \in Bytes : Sound([p EXCEPT !.value = value])
      BY DEF Sound, ParserType
    <2> QED BY <2>1, CountedType
  <1>6. Sound(ParseHeaderName(p, c, cut))
    <2> DEFINE kind == IF p.name = "absent" THEN c.kind ELSE "word"
               named == Counted([p EXCEPT !.name = kind])
    <2>1. Sound(named)
      BY <1>1, <1>4
    <2>2. ParseHeaderName(p, c, cut) \in
            {LineEnd(p, cut, OnHeadersDone(p)), Failed(p), p, [p EXCEPT !.state = "HEADER_VALUE"],
             named}
      BY DEF ParseHeaderName
    <2> QED BY <1>2, <1>3, <2>1, <2>2
  <1>7. Sound(ParseHeaderValue(p, c, cut))
    <2> DEFINE value == IF p.value = Absent THEN c ELSE [kind |-> "word", n |-> 0]
               valued == Counted([p EXCEPT !.value = value])
    <2>1. Sound(valued)
      BY <1>1, <1>5
    <2>2. ParseHeaderValue(p, c, cut) \in
            {LineEnd(p, cut, OnHeaderComplete(p)), Failed(p), p, Counted(p), valued}
      BY DEF ParseHeaderValue
    <2> QED BY <1>2, <2>1, <2>2
  <1> QED BY <1>6, <1>7

\* The handler of a body of known length.
LEMMA BodyType ==
  ASSUME NEW p, Sound(p), p.state = "BODY"
  PROVE  Sound(ParseBody(p))
  <1> DEFINE q == [p EXCEPT !.body = @ + 1]
  <1>1. Sound(q)
    BY DEF Sound, ParserType
  <1> HIDE DEF q
  <1>2. ParseBody(p) = IF q.body = p.content_length THEN FinalizeRequest(q) ELSE q
    BY DEF ParseBody, q
  <1> QED BY <1>1, <1>2, FinalizeType

\* The handlers of a chunked body never count more of a chunk than its size.
LEMMA ChunkType ==
  ASSUME NEW p, Sound(p), NEW c \in Bytes, NEW cut
  PROVE  /\ p.state = "CHUNK_SIZE" => Sound(ParseChunkSize(p, c, cut))
         /\ p.state = "CHUNK_DATA" => Sound(ParseChunkData(p, c, cut))
  <1>0. c.n \in Nat /\ Sound(Failed(p))
    BY ByteType, FailedType, ParserAssumption
  <1>1. ASSUME p.state = "CHUNK_SIZE" PROVE Sound(ParseChunkSize(p, c, cut))
    <2> DEFINE unskipped == [p EXCEPT !.skip = FALSE]
               digit == [p EXCEPT !.chunk_size = (@ * 16 + c.n) % Word]
               skipping == [p EXCEPT !.skip = TRUE]
               data == [unskipped EXCEPT !.state = "CHUNK_DATA", !.chunk_read = 0]
    <2>1. Sound(unskipped) /\ Sound(skipping)
      BY <1>1 DEF Sound, ParserType
    <2>2. Sound(digit)
      <3>1. p.chunk_size * 16 + c.n \in Nat
        BY SMTT(20), <1>0 DEF Sound, ParserType
      <3>2. (p.chunk_size * 16 + c.n) % Word \in Nat
        BY <3>1, WithinWord
      <3> HIDE DEF digit
      <3>3. digit = [p EXCEPT !.chunk_size = (p.chunk_size * 16 + c.n) % Word]
        BY DEF digit
      <3>4. Sound([p EXCEPT !.chunk_size = (p.chunk_size * 16 + c.n) % Word])
        <4> DEFINE n == (p.chunk_size * 16 + c.n) % Word
        <4>1. n \in Nat
          BY <3>2
        <4> HIDE DEF n
        <4>2. Sound([p EXCEPT !.chunk_size = n])
          BY <1>1, <4>1 DEF Sound, ParserType
        <4> QED BY <4>2 DEF n
      <3> QED BY <3>3, <3>4
    <2>3. Sound(data)
      <3>1. unskipped \in ParserType /\ Len(unskipped.headers) <= MaxHeaders
        BY <2>1 DEF Sound
      <3>2. data \in ParserType /\ Len(data.headers) <= MaxHeaders
        BY <3>1 DEF ParserType
      <3>3. data.chunk_read = 0 /\ data.chunk_size \in Nat
        BY <3>1, <3>2 DEF ParserType
      <3> QED BY <3>2, <3>3 DEF Sound
    <2>4. Sound(FinalizeRequest(unskipped))
      BY <2>1, FinalizeType
    <2> HIDE DEF data, digit, skipping, unskipped
    <2>5. SizeLineDone(unskipped) \in {FinalizeRequest(unskipped), data}
      BY DEF SizeLineDone, data
    <2>6. Sound(LineEnd(p, cut, SizeLineDone(unskipped)))
      BY <2>3, <2>4, <2>5, LineEndType
    <2>7. ParseChunkSize(p, c, cut) \in
            {LineEnd(p, cut, SizeLineDone(unskipped)), Failed(p), skipping, digit, p}
      BY DEF ParseChunkSize, unskipped, digit, skipping
    <2> QED BY <1>0, <2>1, <2>2, <2>6, <2>7
  <1>2. ASSUME p.state = "CHUNK_DATA" PROVE Sound(ParseChunkData(p, c, cut))
    <2> DEFINE taken == [p EXCEPT !.body = @ + 1, !.chunk_read = @ + 1]
               next == [p EXCEPT !.state = "CHUNK_SIZE", !.chunk_size = 0]
    <2>1. ASSUME p.chunk_read < p.chunk_size PROVE Sound(taken)
      <3>1. /\ p.body + 1 \in Nat /\ p.chunk_read + 1 \in Nat
            /\ p.chunk_read + 1 <= p.chunk_size
        BY <2>1 DEF Sound, ParserType
      <3>2. taken = [p EXCEPT !.body = p.body + 1, !.chunk_read = p.chunk_read + 1]
        BY DEF Sound, ParserType
      <3>3. \A m, n \in Nat : n <= p.chunk_size =>
               Sound([p EXCEPT !.body = m, !.chunk_read = n])
        BY DEF Sound, ParserType
      <3> QED BY <3>1, <3>2, <3>3
    <2>2. Sound(next)
      BY DEF Sound, ParserType
    <2> HIDE DEF taken, next
    <2>3. Sound(LineEnd(p, cut, next))
      BY <2>2, LineEndType
    <2>4. \/ ParseChunkData(p, c, cut) \in {LineEnd(p, cut, next), Failed(p)}
          \/ ParseChunkData(p, c, cut) = taken /\ p.chunk_read < p.chunk_size
      BY DEF ParseChunkData, taken, next
    <2> QED BY <1>0, <2>1, <2>3, <2>4
  <1> QED BY <1>1, <1>2

\* parse() on a byte leaves the parser sound, and so does the end of a recv.
LEMMA ParseType ==
  ASSUME NEW p, Sound(p), p.state \notin {"COMPLETE", "ERROR"}, NEW c \in Bytes, NEW cut \in BOOLEAN
  PROVE  /\ Sound(Parse(p, c, cut))
         /\ Sound([Parse(p, c, cut) EXCEPT !.skip = @ /\ ~cut])
  <1>1. p.state \in {"METHOD", "PATH", "VERSION", "HEADER_NAME", "HEADER_VALUE", "BODY",
                     "CHUNK_SIZE", "CHUNK_DATA"}
    BY DEF Sound, ParserType
  <1>2. Sound(Parse(p, c, cut))
    <2>1. CASE p.state \in {"METHOD", "PATH", "VERSION"}
      BY <2>1, HeadType DEF Parse
    <2>2. CASE p.state \in {"HEADER_NAME", "HEADER_VALUE"}
      BY <2>2, FieldType DEF Parse
    <2>3. CASE p.state = "BODY"
      BY <2>3, BodyType DEF Parse
    <2>4. CASE p.state \in {"CHUNK_SIZE", "CHUNK_DATA"}
      BY <2>4, ChunkType DEF Parse
    <2> QED BY <1>1, <2>1, <2>2, <2>3, <2>4
  <1>3. ASSUME NEW q, Sound(q) PROVE Sound([q EXCEPT !.skip = @ /\ ~cut])
    <2> DEFINE skip == q.skip /\ ~cut
    <2>1. skip \in BOOLEAN
      OBVIOUS
    <2> HIDE DEF skip
    <2>2. Sound([q EXCEPT !.skip = skip])
      BY SMTT(20), <1>3, <2>1 DEF Sound, ParserType
    <2> QED BY <2>2 DEF skip
  <1> QED BY <1>2, <1>3

-----------------------------------------------------------------------------
(* The client                                                              *)

\* A message of which nothing has been sent is within the grammar.
LEMMA NewMessageType == NewMessage \in Message /\ Grammar(NewMessage)
  <1>1. <<>> \in Seq(MessageField) /\ Len(<<>>) = 0 /\ DOMAIN <<>> = {}
    OBVIOUS
  <1> QED BY <1>1 DEF NewMessage, Message, Grammar, Positions, InHead, InField, Unvalued

\* A byte that only moves the client on.
LEMMA GoesOn ==
  ASSUME client \in Message, NEW at, NEW kinds, NEW c, NEW to \in Positions, Goes(at, kinds, c, to)
  PROVE  /\ client.at = at /\ c.kind \in kinds /\ client' \in Message /\ client'.at = to
         /\ client'.cr = client.cr /\ client'.uri = client.uri /\ client'.version = client.version
         /\ client'.fields = client.fields /\ client'.left = client.left
         /\ client'.body = client.body
  <1>1. client' = [client EXCEPT !.at = to]
    BY DEF Goes
  <1> QED BY <1>1 DEF Goes, Message

\* The same, said of the record.
LEMMA MovesTo ==
  ASSUME client \in Message, NEW to \in Positions, client' = [client EXCEPT !.at = to]
  PROVE  /\ client' \in Message /\ client'.at = to
         /\ client'.cr = client.cr /\ client'.uri = client.uri /\ client'.version = client.version
         /\ client'.fields = client.fields /\ client'.left = client.left
         /\ client'.body = client.body
  BY DEF Message

\* What follows each line.
LEMMA AfterLineIs ==
  ASSUME NEW m
  PROVE  /\ m.at \in {"version_end", "value_end"} => AfterLine(m) = "field"
         /\ m.at = "field" => AfterLine(m) = IF IsChunked(m) THEN "size"
                                            ELSE IF BodyLength(m) > 0 THEN "body" ELSE "end"
         /\ m.at = "size_end" => AfterLine(m) = IF m.left = 0 THEN "trailer" ELSE "data"
         /\ m.at = "data_end" => AfterLine(m) = "size"
         /\ m.at = "trailer" => AfterLine(m) = "end"
  BY Zenon DEF AfterLine

\* The fields keep their values where none is under way.
LEMMA ValuesKept ==
  ASSUME NEW m, NEW n, Grammar(m), m.at \notin Unvalued, m.at # "garbled", n.at \notin Unvalued,
         n.fields = m.fields
  PROVE  \A i \in DOMAIN n.fields :
           IF n.at \in Unvalued /\ i = Len(n.fields)
             THEN n.fields[i].value = Absent
             ELSE n.fields[i].value.kind \in Values(n.fields[i].name)
  BY DEF Grammar

\* One byte before the fields, or the end of a line: the fields stay as they are.
LEMMA ClientLine ==
  ASSUME client \in Message, Grammar(client), NEW c \in Bytes,
         SendsRequestLine(c) \/ SendsLineEnd(c)
  PROVE  /\ client' \in Message /\ Grammar(client') /\ client.at # "garbled"
         /\ client'.fields = client.fields /\ client'.body = client.body
         /\ client'.uri >= client.uri
  <1> USE DEF Message
  <1>1. ASSUME SendsRequestLine(c)
        PROVE  /\ client' \in Message /\ client'.fields = client.fields
               /\ client'.body = client.body /\ client'.uri >= client.uri
               /\ client'.cr = client.cr /\ client'.left = client.left
               /\ client.at \in InHead \ {"version_end"} /\ client'.at \in InHead
    <2>0. /\ InHead \subseteq Positions /\ \A n \in Nat : n + 1 >= n /\ n >= n
          /\ client.uri \in Nat
      BY DEF Positions
    <2>1. ASSUME NEW at \in InHead \ {"version_end"}, NEW kinds, NEW to \in InHead, Goes(at, kinds, c, to)
          PROVE  /\ client' \in Message /\ client'.fields = client.fields
                 /\ client'.body = client.body /\ client'.uri >= client.uri
                 /\ client'.cr = client.cr /\ client'.left = client.left
                 /\ client.at \in InHead \ {"version_end"} /\ client'.at \in InHead
      <3>1. to \in Positions
        BY <2>0
      <3> HIDE DEF Message
      <3> QED BY <2>0, <2>1, <3>1, GoesOn
    <2>2. {"start", "method", "target", "version"} \subseteq InHead \ {"version_end"}
      BY DEF InHead
    <2>3. CASE \/ Goes("start", {"word"}, c, "method") \/ Goes("method", {"sp"}, c, "target")
               \/ Goes("target", {"sp"}, c, "version")
      BY <2>1, <2>2, <2>3
    <2>4. CASE client.at = "target" /\ client' = [client EXCEPT !.uri = @ + 1]
      <3>1. client' = [client EXCEPT !.uri = client.uri + 1]
        BY <2>4
      <3>2. client.uri + 1 \in Nat
        OBVIOUS
      <3> QED BY <2>0, <2>2, <2>4, <3>1, <3>2
    <2>5. CASE /\ client.at = "version" /\ c.kind \in {"word", "old"}
               /\ client' = [client EXCEPT !.version = c.kind, !.at = "version_end"]
      <3>1. "version_end" \in InHead
        BY DEF InHead
      <3> QED BY <2>0, <2>2, <2>5, <3>1
    <2> QED BY <1>1, <2>3, <2>4, <2>5 DEF SendsRequestLine
  <1>2. ASSUME SendsLineEnd(c)
        PROVE  /\ client' \in Message /\ client'.fields = client.fields
               /\ client'.body = client.body /\ client'.uri = client.uri
               /\ client.at \in LineEnds
               /\ \/ ~client.cr /\ client'.cr /\ client'.at = client.at
                  \/ client.cr /\ ~client'.cr /\ client'.at = AfterLine(client)
               /\ client'.left = IF client.cr /\ AfterLine(client) = "body"
                                   THEN BodyLength(client) ELSE client.left
    <2>1. CASE ~client.cr /\ client.at \in LineEnds /\ client' = [client EXCEPT !.cr = TRUE]
      BY <2>1
    <2>2. CASE /\ client.cr
               /\ client' = [client EXCEPT !.cr = FALSE, !.at = AfterLine(client),
                     !.left = IF AfterLine(client) = "body" THEN BodyLength(client) ELSE @]
      <3>1. client.at \in LineEnds
        BY <2>2 DEF Grammar
      <3>2. AfterLine(client) \in {"field", "size", "body", "end", "trailer", "data"}
        BY <3>1 DEF AfterLine, LineEnds
      <3>3. BodyLength(client) \in Nat
        <4>1. \/ BodyLength(client) = 0
              \/ \E i \in DOMAIN client.fields : BodyLength(client) = client.fields[i].value.n
          BY HeaderIs DEF BodyLength, Absent
        <4>2. ASSUME NEW i \in DOMAIN client.fields PROVE client.fields[i].value.n \in Nat
          <5>1. client.fields[i] \in MessageField
            OBVIOUS
          <5> QED BY <5>1, ByteType DEF MessageField, Absent
        <4> QED BY <4>1, <4>2
      <3> QED BY <2>2, <3>1, <3>2, <3>3 DEF Positions, InChunk
    <2> QED BY <1>2, <2>1, <2>2 DEF SendsLineEnd
  <1>3. CASE SendsRequestLine(c)
    <2>1. /\ client.at \in InHead \ {"version_end"} /\ client'.at \in InHead
          /\ client.at \notin Unvalued /\ client'.at \notin Unvalued /\ client.at # "garbled"
          /\ client'.at \notin InField \cup {"body", "data"} /\ client.at \notin LineEnds
      BY <1>1, <1>3 DEF InHead, InField, Unvalued, LineEnds
    <2>2. ~client.cr /\ client.body = 0
      BY <2>1 DEF Grammar
    <2>3. Grammar(client')
      BY <1>1, <1>3, <2>1, <2>2, ValuesKept DEF Grammar
    <2> QED BY <1>1, <1>3, <2>1, <2>3
  <1>4. CASE SendsLineEnd(c)
    <2>1. /\ client.at \in LineEnds /\ client.at # "garbled" /\ client.at \notin Unvalued
          /\ client.at \notin {"body", "data"}
      BY <1>2, <1>4 DEF LineEnds, Unvalued
    <2>2. CASE ~client.cr
      <3>1. Grammar(client')
        BY <1>2, <1>4, <2>1, <2>2, ValuesKept DEF Grammar
      <3> QED BY <1>2, <1>4, <2>1, <3>1
    <2>3. CASE client.cr
      <3> DEFINE after == AfterLine(client)
      <3>0. /\ client.left \in Nat
            /\ client.at \in {"version_end", "value_end"} => after = "field"
            /\ client.at = "field" => after \in {"size", "end"} \/ (after = "body" /\ BodyLength(client) > 0)
            /\ client.at = "size_end" => after = "trailer" \/ (after = "data" /\ client.left # 0)
            /\ client.at = "data_end" => after = "size"
            /\ client.at = "trailer" => after = "end"
        BY AfterLineIs
      <3> HIDE DEF after
      <3>1. /\ after \notin InHead \cup InField /\ after \notin Unvalued
            /\ after = "field" => client.at \in InHead \cup InField
            /\ after = "body" => BodyLength(client) > 0
            /\ after = "data" => client.left > 0
        <4>1. /\ client.at \in {"version_end", "field", "value_end", "size_end", "data_end", "trailer"}
              /\ {"version_end", "value_end"} \subseteq InHead \cup InField
              /\ {"field", "size", "body", "end", "trailer", "data"}
                   \cap (InHead \cup InField \cup Unvalued) = {}
          BY <2>1 DEF LineEnds, InHead, InField, Unvalued
        <4>2. after \in {"field", "size", "body", "end", "trailer", "data"}
          BY <3>0, <4>1
        <4>3. after = "field" => client.at \in {"version_end", "value_end"}
          BY <3>0, <4>1
        <4>4. after = "body" => BodyLength(client) > 0
          BY <3>0, <4>1
        <4>5. ASSUME after = "data" PROVE client.left > 0
          <5>1. client.at = "size_end"
            BY <3>0, <4>1, <4>5
          <5>2. client.left # 0 /\ client.left \in Nat
            BY <3>0, <4>5, <5>1
          <5> HIDE DEF Message
          <5> QED BY <5>2
        <4> QED BY <4>1, <4>2, <4>3, <4>4, <4>5
      <3> USE DEF after
      <3>2. Grammar(client')
        BY <1>2, <1>4, <2>1, <2>3, <3>1, ValuesKept DEF Grammar
      <3> QED BY <1>2, <1>4, <2>1, <3>2
    <2> QED BY <2>2, <2>3
  <1> QED BY <1>3, <1>4

\* A byte of a field: only the last field changes, and it gets its value last.
LEMMA ClientField ==
  ASSUME client \in Message, Grammar(client), NEW c \in Bytes, SendsField(c)
  PROVE  /\ client' \in Message /\ Grammar(client') /\ client.at # "garbled"
         /\ client'.body = client.body /\ client.body = 0 /\ client'.uri = client.uri
         /\ Len(client'.fields) >= Len(client.fields)
  <1> DEFINE n == Len(client.fields)
  <1>0. /\ n \in Nat /\ client.fields \in Seq(MessageField) /\ DOMAIN client.fields = 1..n
        /\ client.body \in Nat /\ client.uri \in Nat
    BY DEF Message
  <1>1. /\ client.at = "field" => client.at \notin Unvalued \cup InField
        /\ client.at \in InField => client.at \notin LineEnds \/ client.at = "value_end"
        /\ InField \cup {"field"} \subseteq Positions
        /\ {"colon", "value", "bare_value"} \subseteq Unvalued
        /\ Unvalued \subseteq InField /\ "value_end" \in InField \ Unvalued
        /\ Unvalued \cap LineEnds = {}
        /\ (InField \cup {"field"}) \cap {"garbled", "body", "data"} = {}
    BY DEF InField, Unvalued, LineEnds, Positions
  <1>2. CASE /\ client.at = "field" /\ ~client.cr /\ c.kind \in Names
             /\ client' = [client EXCEPT !.at = "colon",
                             !.fields = Append(@, [name |-> c.kind, value |-> Absent])]
    <2> DEFINE field == [name |-> c.kind, value |-> Absent]
               fields == Append(client.fields, field)
    <2>1. field \in MessageField /\ field.value = Absent
      BY <1>2 DEF MessageField
    <2>2. /\ client' = [client EXCEPT !.at = "colon", !.fields = fields]
          /\ client.at # "garbled"
      BY <1>2
    <2> HIDE DEF field
    <2>3. /\ fields \in Seq(MessageField) /\ Len(fields) = n + 1 /\ fields[n + 1] = field
          /\ \A i \in 1..n : fields[i] = client.fields[i]
      BY <1>0, <2>1
    <2> HIDE DEF fields
    <2>4. /\ client' \in Message /\ client'.at = "colon" /\ client'.fields = fields
          /\ client'.cr = client.cr /\ client'.body = client.body /\ client'.uri = client.uri
      BY <1>1, <2>2, <2>3 DEF Message
    <2>5. client.body = 0
      BY <1>2 DEF Grammar
    <2> HIDE DEF n
    <2>6. ASSUME NEW i \in DOMAIN client'.fields
          PROVE  IF client'.at \in Unvalued /\ i = Len(client'.fields)
                   THEN client'.fields[i].value = Absent
                   ELSE client'.fields[i].value.kind \in Values(client'.fields[i].name)
      <3>1. i \in 1..(n + 1)
        BY <1>0, <2>3, <2>4
      <3>2. CASE i = n + 1
        BY <1>1, <2>1, <2>3, <2>4, <3>2
      <3>3. CASE i # n + 1
        <4>1. i \in 1..n /\ fields[i] = client.fields[i]
          BY <1>0, <2>3, <3>1, <3>3
        <4>2. client.fields[i].value.kind \in Values(client.fields[i].name)
          BY <1>0, <1>1, <1>2, <2>2, <4>1 DEF Grammar
        <4> QED BY <2>3, <2>4, <3>3, <4>1, <4>2
      <3> QED BY <3>2, <3>3
    <2>7. Grammar(client')
      <3>1. /\ "colon" \in InField /\ "colon" \notin {"body", "data"} /\ ~client'.cr
            /\ Len(client'.fields) > 0
        <4>1. "colon" \in InField /\ "colon" \notin {"body", "data"}
          BY <1>1
        <4>2. Len(client'.fields) = n + 1 /\ ~client'.cr
          BY <1>2, <2>3, <2>4
        <4>3. n + 1 > 0
          BY <1>0
        <4> QED BY <4>1, <4>2, <4>3
      <3> QED BY <2>4, <2>5, <2>6, <3>1 DEF Grammar
    <2> QED BY <1>0, <2>2, <2>3, <2>4, <2>5, <2>7 DEF n
  <1>3. ASSUME NEW at \in Unvalued, NEW kinds, NEW to \in Unvalued, Goes(at, kinds, c, to)
        PROVE  /\ client' \in Message /\ Grammar(client') /\ client.at # "garbled"
               /\ client'.body = client.body /\ client.body = 0 /\ client'.uri = client.uri
               /\ Len(client'.fields) >= Len(client.fields)
    <2>1. to \in Positions
      BY <1>1
    <2>2. /\ client.at = at /\ client' \in Message /\ client'.at = to
          /\ client'.cr = client.cr /\ client'.uri = client.uri
          /\ client'.fields = client.fields /\ client'.left = client.left
          /\ client'.body = client.body
      BY <1>3, <2>1, GoesOn
    <2>3. client.at \in InField /\ client.at \in Unvalued /\ client.at # "garbled" /\ ~client.cr
      BY <1>1, <2>2 DEF Grammar
    <2>4. client.body = 0
      BY <2>3 DEF Grammar
    <2>5. Grammar(client')
      BY <1>1, <2>2, <2>3, <2>4 DEF Grammar
    <2> QED BY <1>0, <2>2, <2>3, <2>4, <2>5
  <1>4. CASE /\ client.at \in {"value", "bare_value"}
             /\ c.kind \in Values(client.fields[Len(client.fields)].name)
             /\ client' = [client EXCEPT !.at = "value_end", !.fields[Len(client.fields)].value = c]
    <2> DEFINE last == [client.fields[n] EXCEPT !.value = c]
               fields == [client.fields EXCEPT ![n] = last]
    <2>1. /\ client.at \in InField /\ client.at \in Unvalued /\ client.at # "garbled" /\ n > 0
          /\ client.body = 0 /\ ~client.cr
      BY <1>1, <1>4 DEF Grammar
    <2>2. client.fields[n] \in MessageField
      BY <1>0, <2>1
    <2>3. last \in MessageField /\ last.name = client.fields[n].name /\ last.value = c
      BY <2>2 DEF MessageField
    <2>4. client' = [client EXCEPT !.at = "value_end", !.fields = fields]
      BY <1>4
    <2> HIDE DEF last
    <2>5. /\ fields \in Seq(MessageField) /\ Len(fields) = n /\ fields[n] = last
          /\ \A i \in 1..n : i # n => fields[i] = client.fields[i]
          /\ DOMAIN fields = 1..n
      BY <1>0, <2>1, <2>3
    <2> HIDE DEF fields
    <2>6. /\ client' \in Message /\ client'.at = "value_end" /\ client'.fields = fields
          /\ client'.cr = client.cr /\ client'.body = client.body /\ client'.uri = client.uri
      BY <1>1, <2>4, <2>5 DEF Message
    <2> HIDE DEF n
    <2>7. ASSUME NEW i \in DOMAIN client'.fields
          PROVE  client'.fields[i].value.kind \in Values(client'.fields[i].name)
      <3>1. i \in 1..n
        BY <1>0, <2>5, <2>6
      <3>2. CASE i = n
        BY <1>4, <2>3, <2>5, <2>6, <3>2 DEF n
      <3>3. CASE i # n
        <4>1. fields[i] = client.fields[i]
          BY <2>5, <3>1, <3>3
        <4>2. client.fields[i].value.kind \in Values(client.fields[i].name)
          BY <1>0, <2>1, <3>1, <3>3 DEF Grammar, n
        <4> QED BY <2>6, <4>1, <4>2
      <3> QED BY <3>2, <3>3
    <2>8. Grammar(client')
      BY <1>0, <1>1, <2>1, <2>5, <2>6, <2>7 DEF Grammar
    <2>9. Len(client'.fields) >= Len(client.fields)
      <3>1. Len(client'.fields) = n
        BY <2>5, <2>6
      <3>2. \A k \in Nat : k >= k
        OBVIOUS
      <3> QED BY <1>0, <3>1, <3>2 DEF n
    <2> QED BY <2>1, <2>6, <2>8, <2>9
  <1>5. /\ Goes("colon", {":"}, c, "value") => client.at \in Unvalued
        /\ Goes("value", {"sp"}, c, "bare_value") => client.at \in Unvalued
    BY <1>1 DEF Goes
  <1> QED BY <1>1, <1>2, <1>3, <1>4 DEF SendsField

\* Arithmetic.
LEMMA OneLess ==
  ASSUME NEW n \in Nat, n > 0
  PROVE  n - 1 \in Nat /\ (n # 1 => n - 1 > 0)
  OBVIOUS

\* Arithmetic.
LEMMA OneMore == \A n \in Nat : n + 1 \in Nat /\ n + 1 >= n /\ n >= n
  OBVIOUS

\* A byte of the body counts; the head of the message stays as it is.
LEMMA ClientBody ==
  ASSUME client \in Message, Grammar(client), NEW c \in Bytes, SendsBody(c)
  PROVE  /\ client' \in Message /\ Grammar(client') /\ client.at # "garbled"
         /\ client'.fields = client.fields /\ client'.uri = client.uri
         /\ client'.body >= client.body
  <1>0. /\ client.body \in Nat /\ client.left \in Nat /\ c.n \in Nat
        /\ \A n \in Nat : n + 1 >= n /\ n >= n
    BY ByteType, ParserAssumption DEF Message
  <1>1. /\ (InChunk \cup {"body", "end"}) \cap (Unvalued \cup InHead \cup InField \cup {"field", "garbled"}) = {}
        /\ {"body", "data", "size", "extension", "end"} \cap LineEnds = {}
        /\ InChunk \cup {"body", "end"} \subseteq Positions
        /\ {"size", "size_end", "extension", "data", "data_end"} = InChunk
        /\ {"size_end", "data_end"} \subseteq LineEnds
    BY DEF InHead, InField, Unvalued, LineEnds, Positions, InChunk
  <1>2. ASSUME /\ client.at \in InChunk \cup {"body"} /\ ~client.cr
               /\ client'.at \in InChunk \cup {"body", "end"}
               /\ client'.at \in {"body", "data"} => client'.left > 0
               /\ client' \in Message /\ client'.fields = client.fields /\ client'.cr = client.cr
               /\ client'.uri = client.uri /\ client'.body >= client.body
        PROVE  /\ client' \in Message /\ Grammar(client') /\ client.at # "garbled"
               /\ client'.fields = client.fields /\ client'.uri = client.uri
               /\ client'.body >= client.body
    <2>1. /\ client.at \notin Unvalued /\ client.at # "garbled" /\ client'.at \notin Unvalued
          /\ client'.at \notin InHead \cup InField \cup {"field"}
      BY <1>1, <1>2
    <2>2. Grammar(client')
      BY <1>2, <2>1, ValuesKept DEF Grammar
    <2> QED BY <1>2, <2>1, <2>2
  <1>3. ASSUME NEW here \in {"body", "data"}, NEW past \in {"end", "data_end"}, client.at = here,
               client' = [client EXCEPT !.left = @ - 1, !.body = @ + 1,
                                        !.at = IF client.left = 1 THEN past ELSE @]
        PROVE  /\ client' \in Message /\ Grammar(client') /\ client.at # "garbled"
               /\ client'.fields = client.fields /\ client'.uri = client.uri
               /\ client'.body >= client.body
    <2>1. client.left > 0 /\ ~client.cr
      BY <1>1, <1>3 DEF Grammar
    <2> DEFINE left == client.left - 1
               body == client.body + 1
               at == IF client.left = 1 THEN past ELSE here
    <2>2. left \in Nat /\ body \in Nat /\ (at \in {"body", "data"} => left > 0)
      <3>1. left \in Nat /\ body \in Nat /\ (client.left # 1 => left > 0)
        <4>1. client.left \in Nat /\ client.left > 0 /\ client.body \in Nat
          BY <1>0, <2>1
        <4> QED BY <4>1, OneLess, OneMore
      <3>2. client.left = 1 => at \notin {"body", "data"}
        OBVIOUS
      <3> QED BY <3>1, <3>2
    <2>3. at \in InChunk \cup {"body", "end"} /\ at \in Positions
      BY <1>1
    <2>4. client' = [client EXCEPT !.left = left, !.body = body, !.at = at]
      BY <1>3
    <2> HIDE DEF left, at
    <2>5. /\ client' \in Message /\ client'.fields = client.fields /\ client'.cr = client.cr
          /\ client'.uri = client.uri /\ client'.body = body /\ client'.left = left
          /\ client'.at = at
      BY <2>2, <2>3, <2>4 DEF Message
    <2>6. client.at \in InChunk \cup {"body"}
      BY <1>1, <1>3
    <2> QED BY <1>0, <1>2, <2>1, <2>2, <2>3, <2>5, <2>6
  <1>4. CASE /\ client.at = "size"
             /\ client' = [client EXCEPT !.left = c.n, !.at = "size_end"]
    <2>1. /\ client' \in Message /\ client'.fields = client.fields /\ client'.cr = client.cr
          /\ client'.uri = client.uri /\ client'.body = client.body /\ client'.at = "size_end"
      BY <1>0, <1>1, <1>4 DEF Message
    <2>2. ~client.cr
      BY <1>1, <1>4 DEF Grammar
    <2>3. /\ client.at \in InChunk \cup {"body"} /\ "size_end" \in InChunk
          /\ client'.at \notin {"body", "data"} /\ client'.body >= client.body
      BY <1>0, <1>1, <1>4, <2>1
    <2> QED BY <1>2, <2>1, <2>2, <2>3
  <1>5. ASSUME NEW at \in InChunk, NEW kinds, NEW to \in InChunk \ {"data"}, Goes(at, kinds, c, to), ~client.cr
        PROVE  /\ client' \in Message /\ Grammar(client') /\ client.at # "garbled"
               /\ client'.fields = client.fields /\ client'.uri = client.uri
               /\ client'.body >= client.body
    <2>1. to \in Positions
      BY <1>1
    <2>2. /\ client.at = at /\ client' \in Message /\ client'.at = to
          /\ client'.cr = client.cr /\ client'.uri = client.uri
          /\ client'.fields = client.fields /\ client'.body = client.body
      BY <1>5, <2>1, GoesOn
    <2>3. to # "body"
      BY <1>1 DEF InChunk
    <2> QED BY <1>0, <1>2, <1>5, <2>2, <2>3
  <1>6. ASSUME Goes("extension", {"word"}, c, "size_end") PROVE ~client.cr
    BY <1>1, <1>6 DEF Goes, Grammar
  <1>7. {"size_end", "extension"} \subseteq InChunk \ {"data"}
    BY DEF InChunk
  <1> QED BY <1>3, <1>4, <1>5, <1>6, <1>7 DEF SendsBody

\* What a step of the client does to it, and that the limits have only been kept if
\* they were before.
LEMMA ClientStep ==
  ASSUME client \in Message, Grammar(client), NEW c \in Bytes, Sends(c)
  PROVE  /\ client' \in Message /\ Grammar(client') /\ client.at # "garbled"
         /\ received \in Nat /\ received' = received + 1 /\ WithinLimits' => WithinLimits
  <1>0. /\ client.uri \in Nat /\ client.body \in Nat /\ Len(client.fields) \in Nat
        /\ \A m \in Message : m.uri \in Nat /\ m.body \in Nat /\ Len(m.fields) \in Nat
    BY DEF Message
  <1>1. \A a, b, x \in Nat : /\ b >= a /\ b <= x => a <= x
                             /\ b >= a /\ 2 * b <= x => 2 * a <= x
                             /\ 0 <= x
    OBVIOUS
  <1>2. /\ MaxUri \in Nat /\ MaxHeaders \in Nat /\ MaxHeaderSize \in Nat /\ MaxBody \in Nat
    BY ParserAssumption
  <1>6. received \in Nat /\ received' = received + 1 /\ received' <= MaxTotal => received <= MaxTotal
    BY ParserAssumption
  <1>3. CASE SendsRequestLine(c) \/ SendsLineEnd(c)
    <2>1. /\ client' \in Message /\ Grammar(client') /\ client.at # "garbled"
          /\ client'.fields = client.fields /\ client'.body = client.body
          /\ client'.uri >= client.uri
      BY <1>3, ClientLine
    <2>2. received \in Nat /\ received' = received + 1 /\ WithinLimits' => WithinLimits
      BY <1>0, <1>1, <1>2, <1>6, <2>1 DEF WithinLimits, IsChunked
    <2> QED BY <2>1, <2>2
  <1>4. CASE SendsField(c)
    <2>1. /\ client' \in Message /\ Grammar(client') /\ client.at # "garbled"
          /\ client.body = 0 /\ client'.uri = client.uri
          /\ Len(client'.fields) >= Len(client.fields)
      BY <1>4, ClientField
    <2>2. received \in Nat /\ received' = received + 1 /\ WithinLimits' => WithinLimits
      BY <1>0, <1>1, <1>2, <1>6, <2>1 DEF WithinLimits
    <2> QED BY <2>1, <2>2
  <1>5. CASE SendsBody(c)
    <2>1. /\ client' \in Message /\ Grammar(client') /\ client.at # "garbled"
          /\ client'.fields = client.fields /\ client'.uri = client.uri
          /\ client'.body >= client.body
      BY <1>5, ClientBody
    <2>2. received \in Nat /\ received' = received + 1 /\ WithinLimits' => WithinLimits
      BY <1>0, <1>1, <1>2, <1>6, <2>1 DEF WithinLimits, IsChunked
    <2> QED BY <2>1, <2>2
  <1> QED BY <1>3, <1>4, <1>5 DEF Sends

-----------------------------------------------------------------------------
(* The parser follows the client                                           *)

\* The state at each point, one by one.
LEMMA StateAtIs ==
  /\ StateAt("start") = "METHOD" /\ StateAt("method") = "METHOD" /\ StateAt("target") = "PATH"
  /\ StateAt("version") = "VERSION" /\ StateAt("version_end") = "VERSION"
  /\ StateAt("field") = "HEADER_NAME" /\ StateAt("colon") = "HEADER_NAME"
  /\ StateAt("value") = "HEADER_VALUE" /\ StateAt("bare_value") = "HEADER_VALUE"
  /\ StateAt("value_end") = "HEADER_VALUE" /\ StateAt("body") = "BODY"
  /\ StateAt("size") = "CHUNK_SIZE" /\ StateAt("size_end") = "CHUNK_SIZE"
  /\ StateAt("extension") = "CHUNK_SIZE"
  /\ StateAt("data") = "CHUNK_DATA" /\ StateAt("data_end") = "CHUNK_DATA"
  /\ StateAt("end") = "COMPLETE" /\ StateAt("trailer") = "COMPLETE"
  BY DEF StateAt

\* The handler that parse() calls in each state.
LEMMA ParseIs ==
  ASSUME NEW p, NEW c, NEW cut
  PROVE  /\ p.state = "METHOD" => Parse(p, c, cut) = ParseMethod(p, c)
         /\ p.state = "PATH" => Parse(p, c, cut) = ParsePath(p, c)
         /\ p.state = "VERSION" => Parse(p, c, cut) = ParseVersion(p, c)
         /\ p.state = "HEADER_NAME" => Parse(p, c, cut) = ParseHeaderName(p, c, cut)
         /\ p.state = "HEADER_VALUE" => Parse(p, c, cut) = ParseHeaderValue(p, c, cut)
         /\ p.state = "BODY" => Parse(p, c, cut) = ParseBody(p)
         /\ p.state = "CHUNK_SIZE" => Parse(p, c, cut) = ParseChunkSize(p, c, cut)
         /\ p.state = "CHUNK_DATA" => Parse(p, c, cut) = ParseChunkData(p, c, cut)
  BY Zenon DEF Parse

\* The fields of a parser do not matter to the end of its recv, except within an extension.
LEMMA RecvEnd ==
  ASSUME NEW p, Sound(p), NEW m, Tracks(p, m), NEW cut \in BOOLEAN, cut => m.at # "extension"
  PROVE  Tracks([p EXCEPT !.skip = @ /\ ~cut], m)
  <1> DEFINE skip == p.skip /\ ~cut
  <1>1. skip \in BOOLEAN /\ (skip => p.skip) /\ (m.at = "extension" => skip)
    BY DEF Tracks
  <1> HIDE DEF skip
  <1> DEFINE q == [p EXCEPT !.skip = skip]
  <1>2. /\ q.skip = skip /\ q.state = p.state /\ q.look = p.look /\ q.uri = p.uri
        /\ q.version = p.version /\ q.name = p.name /\ q.value = p.value /\ q.headers = p.headers
        /\ q.header_size = p.header_size /\ q.content_length = p.content_length
        /\ q.chunk_size = p.chunk_size /\ q.chunk_read = p.chunk_read /\ q.body = p.body
        /\ q.keep_alive = p.keep_alive
    BY DEF Sound, ParserType
  <1> HIDE DEF q
  <1>3. Tracks(q, m)
    BY <1>1, <1>2 DEF Tracks, FieldsTrack, SizesTrack
  <1> QED BY <1>3 DEF q, skip

\* From p and m to q and n: the fields are left alone, within one or outside of all.
KeepsFields(p, m, q, n) ==
  /\ n.fields = m.fields
  /\ q.headers = p.headers /\ q.name = p.name /\ q.value = p.value
  /\ q.header_size = p.header_size
  /\ n.at \in InField <=> m.at \in InField
  /\ n.at \in Unvalued <=> m.at \in Unvalued

\* Of such a step the fields still match.
LEMMA SameFields ==
  ASSUME NEW p, NEW m, Tracks(p, m), NEW q, NEW n, KeepsFields(p, m, q, n)
  PROVE  /\ FieldsTrack(q, n)
         /\ q.header_size + (IF n.at \in Unvalued THEN 1 ELSE 0) = 2 * Len(n.fields)
  BY DEF Tracks, FieldsTrack, SizesTrack, KeepsFields

\* Before the fields there are no sizes to compare.
KeepsHead(p, m, q, n) ==
  /\ m.at \in InHead /\ n.at \in InHead /\ n.fields = m.fields
  /\ q.headers = p.headers /\ q.name = p.name /\ q.value = p.value
  /\ q.header_size = p.header_size
  /\ q.state = StateAt(n.at) /\ ~q.look /\ ~q.skip /\ (n.cr => n.at = "version_end")
  /\ q.uri = n.uri /\ q.version = n.version /\ q.body = n.body
  /\ n.version = "absent" <=> n.at # "version_end"

\* Before the fields only the request line is to be followed.
LEMMA HeadTracks ==
  ASSUME NEW p, NEW m, Tracks(p, m), NEW q, q.look \in BOOLEAN, NEW n, KeepsHead(p, m, q, n)
  PROVE  Tracks(q, n)
  <1>1. /\ InHead \cap (InField \cup Unvalued) = {}
        /\ n.at \notin InChunk \cup {"body", "end", "trailer"}
        /\ n.at \notin {"size", "size_end", "extension", "data", "data_end"}
    BY DEF InHead, InField, Unvalued, InChunk, KeepsHead
  <1>2. KeepsFields(p, m, q, n)
    BY <1>1 DEF KeepsFields, KeepsHead
  <1>3. /\ FieldsTrack(q, n)
        /\ q.header_size + (IF n.at \in Unvalued THEN 1 ELSE 0) = 2 * Len(n.fields)
    BY <1>2, SameFields
  <1>4. SizesTrack(q, n)
    BY <1>1, <1>3 DEF SizesTrack
  <1>5. Coded(n)
    BY <1>1 DEF Coded, InChunk
  <1> QED BY <1>1, <1>3, <1>4, <1>5 DEF Tracks, KeepsHead

\* A byte of the request line.
LEMMA RequestLineTracks ==
  ASSUME NEW p, Sound(p), client \in Message, Grammar(client), Tracks(p, client), NEW c \in Bytes,
         NEW cut, SendsRequestLine(c), WithinLimits'
  PROVE  Tracks(Parse(p, c, cut), client')
  <1> DEFINE q == Parse(p, c, cut)
  <1>0. /\ {"start", "method", "target", "version", "version_end"} = InHead
        /\ InHead \subseteq Positions
        /\ InHead \cap LineEnds = {"version_end"}
        /\ {"word", "old"} \subseteq Tokens /\ {"word", "old"} \cap {"sp", "CR", "LF"} = {}
    BY DEF InHead, Positions, LineEnds, Tokens, Names
  <1>1. /\ p.state = StateAt(client.at) /\ p.look = (client.cr /\ client.at # "version_end")
        /\ p.skip => client.at \in {"size_end", "extension"}
        /\ p.uri = client.uri /\ p.version = client.version /\ p.body = client.body
        /\ client.at \in InHead \ {"version_end"} => client.version = "absent"
    BY DEF Tracks
  <1>2. ASSUME client.at \in InHead \ {"version_end"}
        PROVE  ~client.cr /\ ~p.look /\ ~p.skip
    <2>1. client.at \notin LineEnds /\ client.at \notin {"size_end", "extension"}
      BY <1>0, <1>2
    <2> QED BY <1>1, <2>1 DEF Grammar
  <1>3. p.look \in BOOLEAN /\ p.uri \in Nat /\ client.uri \in Nat /\ MaxUri \in Nat
    BY ParserAssumption DEF Message, Sound, ParserType
  <1>4. CASE Goes("start", {"word"}, c, "method")
    <2>1. /\ client.at = "start" /\ c.kind = "word" /\ client'.at = "method"
          /\ client'.cr = client.cr /\ client'.uri = client.uri /\ client'.version = client.version
          /\ client'.fields = client.fields /\ client'.body = client.body
      <3>1. "method" \in Positions /\ client' = [client EXCEPT !.at = "method"]
        BY <1>0, <1>4 DEF Goes
      <3> QED BY <1>4, <3>1, MovesTo DEF Goes
    <2>2. q = p /\ p.state = StateAt("method")
      <3>1. p.state = "METHOD"
        BY <1>1, <2>1, StateAtIs
      <3>2. q = ParseMethod(p, c)
        BY <3>1, ParseIs
      <3> QED BY <1>0, <1>1, <2>1, <3>1, <3>2, StateAtIs DEF ParseMethod
    <2> HIDE DEF q
    <2>3. KeepsHead(p, client, q, client')
      BY <1>0, <1>1, <1>2, <2>1, <2>2 DEF KeepsHead
    <2> QED BY <1>3, <2>2, <2>3, HeadTracks DEF q
  <1>5. CASE Goes("method", {"sp"}, c, "target")
    <2>1. /\ client.at = "method" /\ c.kind = "sp" /\ client'.at = "target"
          /\ client'.cr = client.cr /\ client'.uri = client.uri /\ client'.version = client.version
          /\ client'.fields = client.fields /\ client'.body = client.body
      <3>1. "target" \in Positions /\ client' = [client EXCEPT !.at = "target"]
        BY <1>0, <1>5 DEF Goes
      <3> QED BY <1>5, <3>1, MovesTo DEF Goes
    <2>2. q = [p EXCEPT !.state = StateAt("target")]
      <3>1. p.state = "METHOD" /\ StateAt("target") = "PATH"
        BY <1>1, <2>1, StateAtIs
      <3>2. q = ParseMethod(p, c)
        BY <3>1, ParseIs
      <3> QED BY <2>1, <3>1, <3>2 DEF ParseMethod
    <2> HIDE DEF q
    <2>3. /\ q.state = StateAt("target") /\ q.look = p.look /\ q.skip = p.skip /\ q.uri = p.uri
          /\ q.version = p.version /\ q.name = p.name /\ q.value = p.value
          /\ q.headers = p.headers /\ q.header_size = p.header_size /\ q.body = p.body
      BY <2>2 DEF Sound, ParserType
    <2>4. KeepsHead(p, client, q, client')
      BY <1>0, <1>1, <1>2, <2>1, <2>3 DEF KeepsHead
    <2> QED BY <1>3, <2>3, <2>4, HeadTracks DEF q
  <1>6. CASE /\ client.at = "target" /\ c.kind = "word" /\ client.uri <= MaxUri
             /\ client' = [client EXCEPT !.uri = @ + 1]
    <2>1. /\ client'.at = "target" /\ client'.uri = client.uri + 1
          /\ client'.cr = client.cr /\ client'.version = client.version
          /\ client'.fields = client.fields /\ client'.body = client.body
      BY <1>6 DEF Message
    <2>2. p.uri < MaxUri
      <3>1. client.uri + 1 <= MaxUri
        BY <2>1 DEF WithinLimits
      <3>2. \A a, b \in Nat : a + 1 <= b => a < b
        OBVIOUS
      <3> QED BY <1>1, <1>3, <3>1, <3>2
    <2>3. q = [p EXCEPT !.uri = p.uri + 1]
      <3>1. q = ParsePath(p, c) /\ c.kind \notin {"sp", "CR", "LF"}
        BY <1>0, <1>1, <1>6, StateAtIs, ParseIs
      <3> QED BY <2>2, <3>1 DEF ParsePath
    <2> HIDE DEF q
    <2>4. /\ q.state = p.state /\ q.look = p.look /\ q.skip = p.skip /\ q.uri = p.uri + 1
          /\ q.version = p.version /\ q.name = p.name /\ q.value = p.value
          /\ q.headers = p.headers /\ q.header_size = p.header_size /\ q.body = p.body
      BY <2>3 DEF Sound, ParserType
    <2>5. KeepsHead(p, client, q, client')
      <3>1. client.at \in InHead \ {"version_end"} /\ client'.at \in InHead
        <4>1. "target" \in InHead \ {"version_end"}
          BY DEF InHead
        <4>2. client.at = "target" /\ client'.at = "target"
          BY <1>6, <2>1
        <4> QED BY <4>1, <4>2
      <3>2. ~client.cr /\ ~p.look /\ ~p.skip
        BY <1>2, <3>1
      <3> QED BY <1>1, <1>6, <2>1, <2>4, <3>1, <3>2 DEF KeepsHead
    <2> QED BY <1>3, <2>4, <2>5, HeadTracks DEF q
  <1>7. CASE Goes("target", {"sp"}, c, "version")
    <2>1. /\ client.at = "target" /\ c.kind = "sp" /\ client'.at = "version"
          /\ client'.cr = client.cr /\ client'.uri = client.uri /\ client'.version = client.version
          /\ client'.fields = client.fields /\ client'.body = client.body
      <3>1. "version" \in Positions /\ client' = [client EXCEPT !.at = "version"]
        BY <1>0, <1>7 DEF Goes
      <3> QED BY <1>7, <3>1, MovesTo DEF Goes
    <2>2. q = [p EXCEPT !.state = StateAt("version")]
      <3>1. p.state = "PATH" /\ StateAt("version") = "VERSION"
        BY <1>1, <2>1, StateAtIs
      <3>2. q = ParsePath(p, c)
        BY <3>1, ParseIs
      <3> QED BY <2>1, <3>1, <3>2 DEF ParsePath
    <2> HIDE DEF q
    <2>3. /\ q.state = StateAt("version") /\ q.look = p.look /\ q.skip = p.skip /\ q.uri = p.uri
          /\ q.version = p.version /\ q.name = p.name /\ q.value = p.value
          /\ q.headers = p.headers /\ q.header_size = p.header_size /\ q.body = p.body
      BY <2>2 DEF Sound, ParserType
    <2>4. KeepsHead(p, client, q, client')
      BY <1>0, <1>1, <1>2, <2>1, <2>3 DEF KeepsHead
    <2> QED BY <1>3, <2>3, <2>4, HeadTracks DEF q
  <1>8. CASE /\ client.at = "version" /\ c.kind \in {"word", "old"}
             /\ client' = [client EXCEPT !.version = c.kind, !.at = "version_end"]
    <2>1. /\ client'.at = "version_end" /\ client'.uri = client.uri
          /\ client'.cr = client.cr /\ client'.version = c.kind
          /\ client'.fields = client.fields /\ client'.body = client.body
      BY <1>8 DEF Message
    <2>2. client.version = "absent"
      BY <1>0, <1>1, <1>8
    <2>3. q = [p EXCEPT !.version = c.kind]
      <3>1. q = ParseVersion(p, c) /\ c.kind \notin {"CR", "LF"} /\ p.version = "absent"
        <4>1. p.state = "VERSION"
          BY <1>1, <1>8, StateAtIs
        <4>2. q = ParseVersion(p, c)
          BY <4>1, ParseIs
        <4> QED BY <1>0, <1>1, <1>8, <2>2, <4>2
      <3> QED BY <3>1 DEF ParseVersion
    <2> HIDE DEF q
    <2>4. /\ q.state = p.state /\ q.look = p.look /\ q.skip = p.skip /\ q.uri = p.uri
          /\ q.version = c.kind /\ q.name = p.name /\ q.value = p.value
          /\ q.headers = p.headers /\ q.header_size = p.header_size /\ q.body = p.body
      BY <2>3 DEF Sound, ParserType
    <2>5. KeepsHead(p, client, q, client')
      <3>1. client.at \in InHead \ {"version_end"} /\ client'.at \in InHead
        BY <1>0, <1>8, <2>1
      <3>2. ~client.cr /\ ~p.look /\ ~p.skip
        BY <1>2, <3>1
      <3>3. q.state = StateAt(client'.at)
        BY <1>1, <1>8, <2>1, <2>4, StateAtIs
      <3>4. client'.version # "absent"
        BY <1>8, <2>1
      <3> QED BY <1>1, <1>8, <2>1, <2>4, <3>1, <3>2, <3>3, <3>4 DEF KeepsHead
    <2> QED BY <1>3, <2>4, <2>5, HeadTracks DEF q
  <1> QED BY <1>4, <1>5, <1>6, <1>7, <1>8 DEF SendsRequestLine

\* What is the same at every point of the message.
Basics(q, n) ==
  /\ q.state = StateAt(n.at) /\ q.look = (n.cr /\ n.at # "version_end")
  /\ q.uri = n.uri /\ q.version = n.version /\ q.body = n.body

\* Within the fields there is nothing else to compare.
LEMMA FieldPartTracks ==
  ASSUME NEW q, NEW n, n.at \in InField \cup {"field"}, Basics(q, n), ~q.skip, FieldsTrack(q, n),
         q.header_size + (IF n.at \in Unvalued THEN 1 ELSE 0) = 2 * Len(n.fields)
  PROVE  Tracks(q, n)
  <1>1. /\ n.at \notin InChunk \cup {"body"} /\ n.at \notin {"end", "trailer"}
        /\ n.at \notin {"size", "size_end", "extension", "data", "data_end", "body"}
        /\ n.at \notin InHead
    BY DEF InHead, InField, InChunk
  <1>2. SizesTrack(q, n)
    BY <1>1 DEF SizesTrack
  <1> QED BY <1>1, <1>2 DEF Tracks, Basics, Coded

\* A byte of a field.
LEMMA FieldTracks ==
  ASSUME NEW p, Sound(p), client \in Message, Grammar(client), Tracks(p, client), NEW c \in Bytes,
         NEW cut, SendsField(c), WithinLimits'
  PROVE  Tracks(Parse(p, c, cut), client')
  <1> DEFINE q == Parse(p, c, cut)
             k == Len(client.fields)
  <1>0. /\ Names \subseteq Tokens /\ Names \cap {"CR", "LF", "sp", ":"} = {}
        /\ {"colon", "value", "bare_value", "value_end", "field"} \subseteq Positions
        /\ {"colon", "value", "bare_value", "value_end"} = InField
        /\ {"colon", "value", "bare_value"} = Unvalued
        /\ (InField \cup {"field"}) \cap {"version_end", "size_end", "extension"} = {}
        /\ Unvalued \cap LineEnds = {} /\ "field" \notin InField /\ "field" \notin Unvalued
    BY DEF Names, Tokens, Positions, InField, Unvalued, LineEnds
  <1>1. /\ p.state = StateAt(client.at) /\ p.look = (client.cr /\ client.at # "version_end")
        /\ p.skip => client.at \in {"size_end", "extension"}
        /\ p.uri = client.uri /\ p.version = client.version /\ p.body = client.body
        /\ FieldsTrack(p, client)
        /\ p.header_size + (IF client.at \in Unvalued THEN 1 ELSE 0) = 2 * k
    BY DEF Tracks, SizesTrack
  <1>2. /\ k \in Nat /\ client.fields \in Seq(MessageField) /\ p.header_size \in Nat
        /\ MaxHeaderSize \in Nat /\ DOMAIN client.fields = 1..k
    BY ParserAssumption DEF Message, Sound, ParserType
  <1>3. ASSUME client.at \in InField \cup {"field"} PROVE ~p.skip
    BY <1>0, <1>1, <1>3
  <1>4. ASSUME client.at \in Unvalued PROVE ~client.cr /\ ~p.look
    BY <1>0, <1>1, <1>4 DEF Grammar
  <1> HIDE DEF k
  <1>5. CASE /\ client.at = "field" /\ ~client.cr /\ c.kind \in Names
             /\ client' = [client EXCEPT !.at = "colon",
                             !.fields = Append(@, [name |-> c.kind, value |-> Absent])]
    <2> DEFINE field == [name |-> c.kind, value |-> Absent]
               fields == Append(client.fields, field)
    <2>1. field \in MessageField /\ field.value = Absent /\ field.name = c.kind
      BY <1>5 DEF MessageField
    <2>2. client' = [client EXCEPT !.at = "colon", !.fields = fields]
      BY <1>5
    <2> HIDE DEF field
    <2>3. /\ fields \in Seq(MessageField) /\ Len(fields) = k + 1 /\ fields[k + 1] = field
          /\ \A i \in 1..k : fields[i] = client.fields[i]
      BY <1>2, <2>1 DEF k
    <2> HIDE DEF fields
    <2>4. /\ client'.at = "colon" /\ client'.fields = fields
          /\ client'.cr = client.cr /\ client'.body = client.body /\ client'.uri = client.uri
          /\ client'.version = client.version
      BY <2>2, <2>3 DEF Message
    <2>5. /\ p.state = "HEADER_NAME" /\ ~p.look /\ ~p.skip /\ p.name = "absent"
          /\ p.value = Absent /\ p.headers = client.fields /\ p.header_size = 2 * k
      <3>1. p.header_size + 0 = 2 * k
        BY <1>0, <1>1, <1>5
      <3>2. p.header_size = 2 * k
        BY <1>2, <3>1
      <3> QED BY <1>0, <1>1, <1>3, <1>5, <3>2, StateAtIs DEF FieldsTrack
    <2>6. p.header_size < MaxHeaderSize
      <3>1. 2 * (k + 1) <= MaxHeaderSize
        BY <2>3, <2>4 DEF WithinLimits
      <3> QED BY <1>2, <2>5, <3>1
    <2>7. q = [p EXCEPT !.name = c.kind, !.header_size = p.header_size + 1]
      <3> DEFINE named == [p EXCEPT !.name = c.kind]
      <3>1. q = ParseHeaderName(p, c, cut)
        BY <2>5, ParseIs
      <3>2. ParseHeaderName(p, c, cut) = Counted(named)
        BY <1>0, <1>5, <2>5, Zenon DEF ParseHeaderName, EndsLine
      <3>3. named.header_size = p.header_size
        BY DEF Sound, ParserType
      <3> QED BY <2>6, <3>1, <3>2, <3>3 DEF Counted
    <2> HIDE DEF q
    <2>8. /\ q.state = p.state /\ q.look = p.look /\ q.skip = p.skip /\ q.uri = p.uri
          /\ q.version = p.version /\ q.name = c.kind /\ q.value = p.value /\ q.body = p.body
          /\ q.headers = p.headers /\ q.header_size = p.header_size + 1
      BY <2>7 DEF Sound, ParserType
    <2>9. Basics(q, client')
      BY <1>1, <1>5, <2>4, <2>5, <2>8, StateAtIs DEF Basics
    <2>10. FieldsTrack(q, client')
      <3>1. /\ Len(q.headers) = k /\ DOMAIN q.headers = 1..k /\ Len(client'.fields) = k + 1
            /\ client'.at \in InField
        BY <1>0, <1>2, <2>3, <2>4, <2>5, <2>8 DEF k
      <3>2. \A i \in DOMAIN q.headers : q.headers[i] = client'.fields[i]
        BY <2>3, <2>4, <2>5, <2>8, <3>1
      <3> QED BY <2>1, <2>3, <2>4, <2>5, <2>8, <3>1, <3>2 DEF FieldsTrack
    <2>11. q.header_size + (IF client'.at \in Unvalued THEN 1 ELSE 0) = 2 * Len(client'.fields)
      <3>1. client'.at \in Unvalued /\ Len(client'.fields) = k + 1
        BY <1>0, <2>3, <2>4
      <3>2. q.header_size + 1 = 2 * (k + 1)
        BY <1>2, <2>5, <2>8
      <3> QED BY <3>1, <3>2
    <2>12. client'.at \in InField \cup {"field"} /\ ~q.skip
      BY <1>0, <2>4, <2>5, <2>8
    <2> QED BY <2>9, <2>10, <2>11, <2>12, FieldPartTracks DEF q
  <1>6. ASSUME NEW at \in {"value", "bare_value"}, client.at \in {"colon", "value"},
               client' = [client EXCEPT !.at = at],
               q = [p EXCEPT !.state = "HEADER_VALUE"]
        PROVE  Tracks(q, client')
    <2>1. /\ client'.at = at /\ client'.cr = client.cr /\ client'.uri = client.uri
          /\ client'.version = client.version /\ client'.fields = client.fields
          /\ client'.body = client.body
      BY <1>0, <1>6, MovesTo
    <2> HIDE DEF q
    <2>2. /\ q.state = "HEADER_VALUE" /\ q.look = p.look /\ q.skip = p.skip /\ q.uri = p.uri
          /\ q.version = p.version /\ q.name = p.name /\ q.value = p.value /\ q.body = p.body
          /\ q.headers = p.headers /\ q.header_size = p.header_size
      BY <1>6 DEF Sound, ParserType
    <2>3. /\ client.at \in InField /\ client.at \in Unvalued
          /\ client'.at \in InField /\ client'.at \in Unvalued
      BY <1>6, <2>1 DEF InField, Unvalued
    <2>4. ~client.cr /\ ~p.look /\ ~p.skip
      BY <1>3, <1>4, <2>3
    <2>5. StateAt(client'.at) = "HEADER_VALUE"
      BY <1>6, <2>1, StateAtIs
    <2>6. Basics(q, client')
      BY <1>1, <2>1, <2>2, <2>4, <2>5 DEF Basics
    <2>7. KeepsFields(p, client, q, client')
      BY <2>1, <2>2, <2>3 DEF KeepsFields
    <2>8. /\ FieldsTrack(q, client')
          /\ q.header_size + (IF client'.at \in Unvalued THEN 1 ELSE 0) = 2 * Len(client'.fields)
      BY <2>7, SameFields
    <2> QED BY <2>2, <2>3, <2>4, <2>6, <2>8, FieldPartTracks
  <1>7. CASE Goes("colon", {":"}, c, "value")
    <2>1. client.at = "colon" /\ c.kind = ":" /\ client' = [client EXCEPT !.at = "value"]
      BY <1>7 DEF Goes
    <2>2. p.state = "HEADER_NAME" /\ ~p.look
      <3>1. client.at \in Unvalued
        BY <2>1 DEF Unvalued
      <3> QED BY <1>1, <1>4, <2>1, <3>1, StateAtIs
    <2>3. q = [p EXCEPT !.state = "HEADER_VALUE"]
      <3>1. q = ParseHeaderName(p, c, cut)
        BY <2>2, ParseIs
      <3>2. ~EndsLine(p, c) /\ c.kind # "sp" /\ c.kind = ":" /\ ~p.look /\ c.kind \notin Tokens
        BY <2>1, <2>2 DEF EndsLine, Tokens, Names
      <3>3. ParseHeaderName(p, c, cut) = [p EXCEPT !.state = "HEADER_VALUE"]
        BY <3>2, Zenon DEF ParseHeaderName
      <3> QED BY <3>1, <3>3
    <2> QED BY <1>6, <2>1, <2>3
  <1>8. CASE Goes("value", {"sp"}, c, "bare_value")
    <2>1. client.at = "value" /\ c.kind = "sp" /\ client' = [client EXCEPT !.at = "bare_value"]
      BY <1>8 DEF Goes
    <2>2. /\ p.state = "HEADER_VALUE" /\ ~p.look /\ client.at \in InField /\ client.at \in Unvalued
      <3>1. client.at \in Unvalued /\ client.at \in InField
        BY <2>1 DEF Unvalued, InField
      <3> QED BY <1>1, <1>4, <2>1, <3>1, StateAtIs
    <2>3. p.value = Absent
      <3>1. k > 0 /\ p.value = client.fields[k].value /\ client.at # "garbled"
        BY <1>1, <2>1, <2>2 DEF FieldsTrack, Grammar, k
      <3>2. k \in DOMAIN client.fields
        BY <1>2, <3>1
      <3> QED BY <2>2, <3>1, <3>2 DEF Grammar, k
    <2>4. q = p
      <3>1. q = ParseHeaderValue(p, c, cut)
        BY <2>2, ParseIs
      <3> QED BY <2>1, <2>2, <2>3, <3>1 DEF ParseHeaderValue, EndsLine
    <2>5. p = [p EXCEPT !.state = "HEADER_VALUE"]
      BY <2>2 DEF Sound, ParserType
    <2> QED BY <1>6, <2>1, <2>4, <2>5
  <1>9. CASE /\ client.at \in {"value", "bare_value"}
             /\ c.kind \in Values(client.fields[Len(client.fields)].name)
             /\ client' = [client EXCEPT !.at = "value_end", !.fields[Len(client.fields)].value = c]
    <2> DEFINE last == [client.fields[k] EXCEPT !.value = c]
               fields == [client.fields EXCEPT ![k] = last]
    <2>1. /\ client.at \in InField /\ client.at \in Unvalued /\ client.at # "garbled" /\ k > 0
          /\ ~client.cr /\ ~p.look /\ ~p.skip /\ p.state = "HEADER_VALUE"
      BY <1>0, <1>1, <1>3, <1>4, <1>9, StateAtIs DEF Grammar, k
    <2>2. client.fields[k] \in MessageField /\ k \in DOMAIN client.fields
      BY <1>2, <2>1
    <2>3. last.name = client.fields[k].name /\ last.value = c
      BY <2>2 DEF MessageField
    <2>4. client' = [client EXCEPT !.at = "value_end", !.fields = fields]
      BY <1>9 DEF k
    <2> HIDE DEF last
    <2>5. /\ Len(fields) = k /\ fields[k] = last
          /\ \A i \in 1..k : i # k => fields[i] = client.fields[i]
      BY <1>2, <2>1 DEF k
    <2> HIDE DEF fields
    <2>6. /\ client'.at = "value_end" /\ client'.fields = fields
          /\ client'.cr = client.cr /\ client'.body = client.body /\ client'.uri = client.uri
          /\ client'.version = client.version
      BY <2>4 DEF Message
    <2>7. /\ Len(p.headers) + 1 = k /\ p.name = client.fields[k].name /\ p.value = Absent
          /\ \A i \in DOMAIN p.headers : p.headers[i] = client.fields[i]
      <3>1. /\ k = Len(p.headers) + 1 /\ p.name = client.fields[k].name
            /\ p.value = client.fields[k].value
            /\ \A i \in DOMAIN p.headers : p.headers[i] = client.fields[i]
        BY <1>1, <2>1 DEF FieldsTrack, k
      <3>2. client.fields[k].value = Absent
        BY <2>1, <2>2 DEF Grammar, k
      <3> QED BY <3>1, <3>2
    <2>8. p.header_size + 1 = 2 * k /\ 2 * k <= MaxHeaderSize
      BY <1>1, <2>1, <2>5, <2>6 DEF WithinLimits
    <2>9. p.header_size < MaxHeaderSize
      BY <1>2, <2>8
    <2>10. c.kind \notin {"CR", "LF", "sp"} /\ c # Absent
      <3>1. client.fields[k].name \in Names
        BY <2>2 DEF MessageField
      <3>2. Values(client.fields[k].name) \subseteq {"number", "chunked", "close", "word"}
        BY <3>1 DEF Values, Names
      <3> QED BY <1>9, <3>2, ByteType DEF k
    <2>11. q = [p EXCEPT !.value = c, !.header_size = p.header_size + 1]
      <3> DEFINE valued == [p EXCEPT !.value = c]
      <3>1. q = ParseHeaderValue(p, c, cut)
        BY <2>1, ParseIs
      <3>2. ParseHeaderValue(p, c, cut) = Counted(valued)
        BY <2>1, <2>7, <2>10 DEF ParseHeaderValue, EndsLine
      <3>3. valued.header_size = p.header_size
        BY DEF Sound, ParserType
      <3> QED BY <2>9, <3>1, <3>2, <3>3 DEF Counted
    <2> HIDE DEF q
    <2>12. /\ q.state = p.state /\ q.look = p.look /\ q.skip = p.skip /\ q.uri = p.uri
           /\ q.version = p.version /\ q.name = p.name /\ q.value = c /\ q.body = p.body
           /\ q.headers = p.headers /\ q.header_size = p.header_size + 1
      BY <2>11 DEF Sound, ParserType
    <2>13. Basics(q, client')
      BY <1>1, <2>1, <2>6, <2>12, StateAtIs DEF Basics
    <2>14. client'.at \in InField /\ client'.at \notin Unvalued /\ ~q.skip
      BY <1>0, <2>1, <2>6, <2>12
    <2>15. FieldsTrack(q, client')
      <3>1. Len(client'.fields) = Len(q.headers) + 1 /\ Len(q.headers) \in Nat
            /\ DOMAIN q.headers = 1..Len(q.headers)
        <4>1. q.headers \in Seq(Field) /\ q.headers = p.headers
          BY <2>12 DEF Sound, ParserType
        <4>2. Len(client'.fields) = k /\ k = Len(p.headers) + 1
          BY <2>5, <2>6, <2>7
        <4> QED BY <4>1, <4>2
      <3>2. \A i \in DOMAIN q.headers : i \in 1..k /\ i # k
        BY <1>2, <2>7, <2>12, <3>1
      <3>3. \A i \in DOMAIN q.headers : q.headers[i] = client'.fields[i]
        BY <2>5, <2>6, <2>7, <2>12, <3>2
      <3> QED BY <2>3, <2>5, <2>6, <2>7, <2>12, <2>14, <3>1, <3>3 DEF FieldsTrack
    <2>16. q.header_size + (IF client'.at \in Unvalued THEN 1 ELSE 0) = 2 * Len(client'.fields)
      <3>1. q.header_size = 2 * k /\ q.header_size \in Nat
        BY <1>2, <2>8, <2>12
      <3>2. q.header_size + 0 = q.header_size
        BY <3>1
      <3> QED BY <2>5, <2>6, <2>14, <3>1, <3>2
    <2> QED BY <2>13, <2>14, <2>15, <2>16, FieldPartTracks DEF q
  <1> QED BY <1>5, <1>7, <1>8, <1>9 DEF SendsField

\* Past the request line only the sizes and the wish to keep the connection are left.
LEMMA PartTracks ==
  ASSUME NEW q, NEW n, n.at \notin InHead, Basics(q, n),
         q.skip => n.at \in {"size_end", "extension"}, n.at = "extension" => q.skip,
         FieldsTrack(q, n), SizesTrack(q, n),
         n.at \in InChunk \cup {"body"} =>
           q.keep_alive = (Header(n.fields, "connection").kind # "close"),
         Coded(n),
         n.at \in {"end", "trailer"} => q.keep_alive = KeepAlive(n)
  PROVE  Tracks(q, n)
  BY DEF Tracks, Basics

\* The fields of a message have the values their names allow.
LEMMA FieldValues ==
  ASSUME NEW m \in Message, Grammar(m), m.at \notin Unvalued, m.at # "garbled"
  PROVE  /\ Header(m.fields, "content-length").kind \in {"absent", "number"}
         /\ \/ Header(m.fields, "connection") = Absent
            \/ Header(m.fields, "connection").kind \in {"close", "word"}
  <1>1. m.fields \in Seq(MessageField)
    BY DEF Message
  <1>2. \A i \in DOMAIN m.fields : m.fields[i].value.kind \in Values(m.fields[i].name)
    BY DEF Grammar
  <1>3. Header(m.fields, "content-length").kind \in {"absent", "number"}
    <2>1. CASE Header(m.fields, "content-length") = Absent
      BY <2>1 DEF Absent
    <2>2. ASSUME NEW i \in DOMAIN m.fields, m.fields[i].name = "content-length",
                 Header(m.fields, "content-length") = m.fields[i].value
          PROVE  Header(m.fields, "content-length").kind = "number"
      <3>1. m.fields[i].value.kind \in Values("content-length")
        BY <1>2, <2>2
      <3>2. Values("content-length") = {"number"}
        BY DEF Values
      <3> QED BY <2>2, <3>1, <3>2
    <2> QED BY <1>1, <2>1, <2>2, HeaderIs
  <1>4. \/ Header(m.fields, "connection") = Absent
        \/ Header(m.fields, "connection").kind \in {"close", "word"}
    <2>1. ASSUME NEW i \in DOMAIN m.fields, m.fields[i].name = "connection",
                 Header(m.fields, "connection") = m.fields[i].value
          PROVE  Header(m.fields, "connection").kind \in {"close", "word"}
      <3>1. m.fields[i].value.kind \in Values("connection")
        BY <1>2, <2>1
      <3>2. Values("connection") = {"close", "word"}
        BY DEF Values
      <3> QED BY <2>1, <3>1, <3>2
    <2> QED BY <1>1, <2>1, HeaderIs
  <1> QED BY <1>3, <1>4

\* finalize_request takes what the client wants of the connection.
LEMMA FinalizeTracks ==
  ASSUME NEW p \in ParserType, NEW m, p.version = m.version, p.headers = m.fields,
         p.keep_alive = (Header(m.fields, "connection").kind # "close"),
         \/ Header(m.fields, "connection") = Absent
         \/ Header(m.fields, "connection").kind \in {"close", "word"}
  PROVE  LET q == FinalizeRequest(p)
         IN  /\ q.keep_alive = KeepAlive(m) /\ q.state = "COMPLETE"
             /\ q.look = p.look /\ q.skip = p.skip /\ q.uri = p.uri /\ q.version = p.version
             /\ q.name = p.name /\ q.value = p.value /\ q.headers = p.headers
             /\ q.header_size = p.header_size /\ q.body = p.body
  <1> DEFINE connection == Header(m.fields, "connection")
             keep == p.keep_alive /\ (p.version = "old" => Header(p.headers, "connection") # Absent)
             q == FinalizeRequest(p)
  <1>1. /\ q.keep_alive = keep /\ q.state = "COMPLETE"
        /\ q.look = p.look /\ q.skip = p.skip /\ q.uri = p.uri /\ q.version = p.version
        /\ q.name = p.name /\ q.value = p.value /\ q.headers = p.headers
        /\ q.header_size = p.header_size /\ q.body = p.body
    BY DEF FinalizeRequest, ParserType
  <1>2. Absent.kind = "absent"
    BY DEF Absent
  <1>3. keep = KeepAlive(m)
    <2>1. CASE connection = Absent
      BY <1>2, <2>1 DEF KeepAlive
    <2>2. CASE connection.kind = "close"
      BY <2>2 DEF KeepAlive
    <2>3. CASE connection.kind = "word"
      <3>1. connection # Absent
        BY <1>2, <2>3
      <3> QED BY <2>3, <3>1 DEF KeepAlive
    <2> QED BY <2>1, <2>2, <2>3
  <1> QED BY <1>1, <1>3

\* The end of a line is seen by every handler that expects one.
LEMMA LineEndParsed ==
  ASSUME NEW p, NEW c, NEW cut, EndsLine(p, c)
  PROVE  /\ p.state = "HEADER_NAME" => Parse(p, c, cut) = LineEnd(p, cut, OnHeadersDone(p))
         /\ p.state = "HEADER_VALUE" => Parse(p, c, cut) = LineEnd(p, cut, OnHeaderComplete(p))
         /\ p.state = "CHUNK_SIZE" =>
              Parse(p, c, cut) = LineEnd(p, cut, SizeLineDone([p EXCEPT !.skip = FALSE]))
         /\ p.state = "CHUNK_DATA" /\ p.chunk_read = p.chunk_size /\ p.chunk_size \in Nat =>
              Parse(p, c, cut) = LineEnd(p, cut, [p EXCEPT !.state = "CHUNK_SIZE", !.chunk_size = 0])
  <1>1. ParseHeaderName(p, c, cut) = LineEnd(p, cut, OnHeadersDone(p))
    BY Zenon DEF ParseHeaderName
  <1>2. ParseHeaderValue(p, c, cut) = LineEnd(p, cut, OnHeaderComplete(p))
    BY Zenon DEF ParseHeaderValue
  <1>3. ParseChunkSize(p, c, cut) = LineEnd(p, cut, SizeLineDone([p EXCEPT !.skip = FALSE]))
    BY Zenon DEF ParseChunkSize
  <1>4. ASSUME p.chunk_read = p.chunk_size, p.chunk_size \in Nat
        PROVE  ParseChunkData(p, c, cut)
                 = LineEnd(p, cut, [p EXCEPT !.state = "CHUNK_SIZE", !.chunk_size = 0])
    <2>1. ~(p.chunk_read < p.chunk_size)
      BY <1>4
    <2> QED BY <1>4, <2>1, Zenon DEF ParseChunkData
  <1> QED BY <1>1, <1>2, <1>3, <1>4, ParseIs

\* The CR of a line: the parser waits for the LF.
LEMMA CRTracks ==
  ASSUME NEW p, Sound(p), client \in Message, Grammar(client), Tracks(p, client), NEW c \in Bytes,
         NEW cut \in BOOLEAN, cut => ~Cuts(c), p.state # "COMPLETE",
         client.at \in LineEnds, ~client.cr, c.kind = "CR", client' = [client EXCEPT !.cr = TRUE]
  PROVE  Tracks(Parse(p, c, cut), client')
  <1> DEFINE q == Parse(p, c, cut)
  <1>1. /\ p.state = StateAt(client.at) /\ p.look = (client.cr /\ client.at # "version_end")
        /\ p.skip => client.at \in {"size_end", "extension"}
        /\ client.at = "extension" => p.skip
        /\ p.uri = client.uri /\ p.version = client.version /\ p.body = client.body
        /\ client.at \in InHead => (client.version = "absent" <=> client.at # "version_end")
        /\ FieldsTrack(p, client) /\ SizesTrack(p, client)
        /\ client.at \in InChunk \cup {"body"} =>
             p.keep_alive = (Header(client.fields, "connection").kind # "close")
        /\ Coded(client)
        /\ client.at \in {"end", "trailer"} => p.keep_alive = KeepAlive(client)
    BY DEF Tracks
  <1>2. /\ client'.at = client.at /\ client'.cr /\ client'.uri = client.uri
        /\ client'.version = client.version /\ client'.fields = client.fields
        /\ client'.left = client.left /\ client'.body = client.body
    BY DEF Message
  <1>3. ~p.look
    BY <1>1
  <1>4. CASE client.at = "version_end"
    <2>1. p.version # "absent" /\ p.state = "VERSION"
      <3>1. "version_end" \in InHead
        BY DEF InHead
      <3> QED BY <1>1, <1>4, <3>1, StateAtIs
    <2>2. q = ParseVersion(p, c)
      BY <2>1, ParseIs
    <2>3. q = [p EXCEPT !.version = p.version]
      BY <2>1, <2>2 DEF ParseVersion
    <2>4. q = p
      BY <2>3 DEF Sound, ParserType
    <2> HIDE DEF q
    <2>5. KeepsHead(p, client, q, client')
      <3>1. client.at \in InHead /\ client'.at \in InHead /\ ~p.skip
        BY <1>1, <1>2, <1>4 DEF InHead
      <3>2. client'.version # "absent"
        BY <1>1, <1>2, <2>1
      <3> QED BY <1>1, <1>2, <1>3, <1>4, <2>4, <3>1, <3>2 DEF KeepsHead
    <2>6. q.look \in BOOLEAN
      BY <2>4 DEF Sound, ParserType
    <2> QED BY <2>5, <2>6, HeadTracks DEF q
  <1>5. CASE client.at # "version_end"
    <2>1. ~cut
      BY <1>5 DEF Cuts
    <2>2. \A d : LineEnd(p, cut, d) = [p EXCEPT !.look = TRUE]
      BY <1>3, <2>1 DEF LineEnd
    <2>3. /\ p.state \in {"HEADER_NAME", "HEADER_VALUE", "CHUNK_SIZE", "CHUNK_DATA"}
          /\ p.state = "CHUNK_DATA" => client.at = "data_end"
      BY <1>1, <1>5, StateAtIs DEF LineEnds
    <2>4. EndsLine(p, c)
      BY <1>3 DEF EndsLine
    <2>5. p.state = "CHUNK_DATA" => p.chunk_read = p.chunk_size /\ p.chunk_size \in Nat
      BY <1>1, <2>3 DEF SizesTrack, Sound, ParserType
    <2>6. q = [p EXCEPT !.look = TRUE]
      <3>1. CASE p.state = "HEADER_NAME"
        <4>1. q = LineEnd(p, cut, OnHeadersDone(p))
          BY <2>4, <3>1, LineEndParsed
        <4> HIDE DEF q
        <4> QED BY <2>2, <4>1
      <3>2. CASE p.state = "HEADER_VALUE"
        <4>1. q = LineEnd(p, cut, OnHeaderComplete(p))
          BY <2>4, <3>2, LineEndParsed
        <4> HIDE DEF q
        <4> QED BY <2>2, <4>1
      <3>3. CASE p.state = "CHUNK_SIZE"
        <4>1. q = LineEnd(p, cut, SizeLineDone([p EXCEPT !.skip = FALSE]))
          BY <2>4, <3>3, LineEndParsed
        <4> HIDE DEF q
        <4> QED BY <2>2, <4>1
      <3>4. CASE p.state = "CHUNK_DATA"
        <4>1. q = LineEnd(p, cut, [p EXCEPT !.state = "CHUNK_SIZE", !.chunk_size = 0])
          BY <2>4, <2>5, <3>4, LineEndParsed
        <4> HIDE DEF q
        <4> QED BY <2>2, <4>1
      <3> QED BY <2>3, <3>1, <3>2, <3>3, <3>4
    <2> HIDE DEF q
    <2>7. /\ q.state = p.state /\ q.look = TRUE /\ q.skip = p.skip /\ q.uri = p.uri
          /\ q.version = p.version /\ q.name = p.name /\ q.value = p.value /\ q.body = p.body
          /\ q.headers = p.headers /\ q.header_size = p.header_size
          /\ q.content_length = p.content_length /\ q.chunk_size = p.chunk_size
          /\ q.chunk_read = p.chunk_read /\ q.keep_alive = p.keep_alive
      BY <2>6 DEF Sound, ParserType
    <2>8. Basics(q, client')
      BY <1>1, <1>2, <1>5, <2>7 DEF Basics
    <2>9. FieldsTrack(q, client') /\ SizesTrack(q, client')
      <3>1. KeepsFields(p, client, q, client')
        BY <1>2, <2>7 DEF KeepsFields
      <3>2. /\ FieldsTrack(q, client')
            /\ q.header_size + (IF client'.at \in Unvalued THEN 1 ELSE 0) = 2 * Len(client'.fields)
        BY <3>1, SameFields
      <3>3. SizesTrack(q, client')
        BY <1>1, <1>2, <2>7, <3>2 DEF SizesTrack
      <3> QED BY <3>2, <3>3
    <2>10. client'.at \notin InHead
      BY <1>2, <1>5 DEF LineEnds, InHead
    <2>11. KeepAlive(client') = KeepAlive(client) /\ Coded(client')
      BY <1>1, <1>2 DEF KeepAlive, IsChunked, Coded
    <2> QED BY ZenonT(30), <1>1, <1>2, <2>7, <2>8, <2>9, <2>10, <2>11, PartTracks DEF q
  <1> QED BY <1>4, <1>5

\* What the LF of a line does to the client.
LFSent ==
  /\ client.cr /\ client'.cr = FALSE /\ client'.at = AfterLine(client)
  /\ client'.uri = client.uri /\ client'.version = client.version
  /\ client'.fields = client.fields /\ client'.body = client.body
  /\ client'.left = IF AfterLine(client) = "body" THEN BodyLength(client) ELSE client.left

\* Arithmetic.
LEMMA LessThanNext == \A m, n \in Nat : m + 1 <= n => m < n
  OBVIOUS

\* A sequence of one element more is the shorter one with its last element appended.
LEMMA LastAppended ==
  ASSUME NEW S, NEW T, NEW h \in Seq(S), NEW f \in Seq(T), Len(f) = Len(h) + 1,
         \A i \in DOMAIN h : h[i] = f[i]
  PROVE  f[Len(f)] \in T /\ Append(h, f[Len(f)]) = f
  <1>1. Len(f) \in DOMAIN f /\ f[Len(f)] \in T
    OBVIOUS
  <1> DEFINE g == Append(h, f[Len(f)])
  <1>2. h \in Seq(S \cup T) /\ f \in Seq(S \cup T)
    OBVIOUS
  <1>3. g \in Seq(S \cup T) /\ Len(g) = Len(f) /\ \A i \in 1..Len(f) : g[i] = f[i]
    BY <1>1, <1>2
  <1> HIDE DEF g
  <1>4. g = f
    BY <1>2, <1>3
  <1> QED BY <1>1, <1>4 DEF g

\* The LF after the request line or after a field.
LEMMA LFOfField ==
  ASSUME NEW p, Sound(p), client \in Message, Grammar(client), Tracks(p, client), NEW c, NEW cut,
         client.at \in {"version_end", "value_end"}, c.kind = "LF", LFSent, WithinLimits'
  PROVE  Tracks(Parse(p, c, cut), client')
  <1> DEFINE q == Parse(p, c, cut)
             k == Len(client.fields)
  <1>1. /\ p.state = StateAt(client.at) /\ p.look = (client.cr /\ client.at # "version_end")
        /\ p.skip => client.at \in {"size_end", "extension"}
        /\ p.uri = client.uri /\ p.version = client.version /\ p.body = client.body
        /\ client.at \in InHead => (client.version = "absent" <=> client.at # "version_end")
        /\ FieldsTrack(p, client)
        /\ p.header_size + (IF client.at \in Unvalued THEN 1 ELSE 0) = 2 * k
    BY DEF Tracks, SizesTrack
  <1>2. /\ client'.at = "field" /\ client'.cr = FALSE /\ client'.uri = client.uri
        /\ client'.version = client.version /\ client'.fields = client.fields
        /\ client'.body = client.body
    BY AfterLineIs DEF LFSent
  <1>3. /\ "field" \in InField \cup {"field"} /\ "field" \notin InField /\ "field" \notin Unvalued
        /\ client.at \notin Unvalued /\ ~p.skip
    BY <1>1 DEF InField, Unvalued
  <1>4. CASE client.at = "version_end"
    <2>1. p.state = "VERSION" /\ p.version \in {"word", "old"} /\ ~p.look
      <3>1. "version_end" \in InHead /\ client.version \in {"absent", "word", "old"}
        BY DEF InHead, Message
      <3> QED BY <1>1, <1>4, <3>1, StateAtIs
    <2>2. q = ParseVersion(p, c)
      BY <2>1, ParseIs
    <2>3. q = [p EXCEPT !.state = "HEADER_NAME"]
      BY <2>1, <2>2 DEF ParseVersion
    <2> HIDE DEF q
    <2>4. /\ q.state = "HEADER_NAME" /\ q.look = p.look /\ q.skip = p.skip /\ q.uri = p.uri
          /\ q.version = p.version /\ q.name = p.name /\ q.value = p.value /\ q.body = p.body
          /\ q.headers = p.headers /\ q.header_size = p.header_size
      BY <2>3 DEF Sound, ParserType
    <2>5. Basics(q, client')
      BY <1>1, <1>2, <2>1, <2>4, StateAtIs DEF Basics
    <2>6. KeepsFields(p, client, q, client')
      <3>1. client.at \notin InField
        BY <1>4 DEF InField
      <3> QED BY <1>2, <1>3, <2>4, <3>1 DEF KeepsFields
    <2>7. /\ FieldsTrack(q, client')
          /\ q.header_size + (IF client'.at \in Unvalued THEN 1 ELSE 0) = 2 * Len(client'.fields)
      BY <2>6, SameFields
    <2> QED BY <1>2, <1>3, <2>4, <2>5, <2>7, FieldPartTracks DEF q
  <1>5. CASE client.at = "value_end"
    <2> DEFINE field == [name |-> p.name, value |-> p.value]
    <2>1. /\ p.state = "HEADER_VALUE" /\ p.look /\ client.at \in InField
      BY <1>1, <1>5, StateAtIs DEF LFSent, InField
    <2>2. /\ k = Len(p.headers) + 1 /\ p.headers \in Seq(Field) /\ client.fields \in Seq(MessageField)
          /\ \A i \in DOMAIN p.headers : p.headers[i] = client.fields[i]
          /\ p.name = client.fields[k].name /\ p.value = client.fields[k].value
      BY <1>1, <2>1 DEF FieldsTrack, Sound, ParserType, Message
    <2>3. /\ client.fields[k] \in MessageField /\ Append(p.headers, client.fields[k]) = client.fields
          /\ Len(p.headers) \in Nat
      <3> DEFINE h == p.headers
                 f == client.fields
      <3>1. /\ h \in Seq(Field) /\ f \in Seq(MessageField) /\ Len(f) = Len(h) + 1
            /\ \A i \in DOMAIN h : h[i] = f[i]
        BY <2>2
      <3> HIDE DEF h, f
      <3>2. f[Len(f)] \in MessageField /\ Append(h, f[Len(f)]) = f
        BY <3>1, LastAppended
      <3>3. Len(h) \in Nat
        BY <3>1
      <3> QED BY <3>2, <3>3 DEF h, f
    <2>4. field = client.fields[k] /\ p.name # "absent"
      BY <2>2, <2>3 DEF MessageField, Names
    <2>5. Append(p.headers, field) = client.fields
      BY <2>3, <2>4
    <2> HIDE DEF k
    <2>7. Len(p.headers) < MaxHeaders
      <3>1. k <= MaxHeaders
        BY <1>2 DEF WithinLimits, k
      <3> QED BY <2>2, <2>3, <3>1, LessThanNext, ParserAssumption
    <2>8. OnHeaderComplete(p) = [p EXCEPT !.name = "absent", !.value = Absent,
                                          !.state = "HEADER_NAME", !.headers = client.fields]
      <3> DEFINE cleared == [p EXCEPT !.name = "absent", !.value = Absent, !.state = "HEADER_NAME"]
      <3>1. cleared.headers = p.headers
        BY DEF Sound, ParserType
      <3>2. OnHeaderComplete(p) = [cleared EXCEPT !.headers = Append(@, field)]
        BY <2>4, <2>7 DEF OnHeaderComplete
      <3>3. OnHeaderComplete(p) = [cleared EXCEPT !.headers = client.fields]
        BY <2>5, <3>1, <3>2
      <3> QED BY <3>3 DEF Sound, ParserType
    <2>9. q = [OnHeaderComplete(p) EXCEPT !.look = FALSE]
      <3>1. q = LineEnd(p, cut, OnHeaderComplete(p))
        <4>1. EndsLine(p, c)
          BY <2>1 DEF EndsLine
        <4> QED BY <2>1, <4>1, LineEndParsed
      <3> QED BY <2>1, <3>1 DEF LineEnd
    <2> HIDE DEF q
    <2>10. /\ q.state = "HEADER_NAME" /\ q.look = FALSE /\ q.skip = p.skip /\ q.uri = p.uri
           /\ q.version = p.version /\ q.name = "absent" /\ q.value = Absent /\ q.body = p.body
           /\ q.headers = client.fields /\ q.header_size = p.header_size
      BY <2>8, <2>9 DEF Sound, ParserType
    <2>11. Basics(q, client')
      BY <1>1, <1>2, <2>10, StateAtIs DEF Basics
    <2>12. FieldsTrack(q, client')
      BY <1>2, <1>3, <2>10 DEF FieldsTrack
    <2>13. q.header_size + (IF client'.at \in Unvalued THEN 1 ELSE 0) = 2 * Len(client'.fields)
      BY <1>1, <1>2, <1>3, <2>10 DEF k
    <2> QED BY <1>2, <1>3, <2>10, <2>11, <2>12, <2>13, FieldPartTracks DEF q
  <1> QED BY <1>4, <1>5

\* The LF of the empty line: on_headers_done finds how the body is delimited.
LEMMA LFOfHeaders ==
  ASSUME NEW p, Sound(p), client \in Message, Grammar(client), Tracks(p, client), NEW c, NEW cut,
         client.at = "field", c.kind = "LF", LFSent, client' \in Message, Grammar(client')
  PROVE  Tracks(Parse(p, c, cut), client')
  <1> DEFINE q == Parse(p, c, cut)
             length == Header(client.fields, "content-length")
             chunked == Header(client.fields, "transfer-encoding").kind = "chunked"
             keep == Header(client.fields, "connection").kind # "close"
             d == [p EXCEPT !.content_length = length.n, !.keep_alive = keep]
  <1>1. /\ p.state = "HEADER_NAME" /\ p.look /\ ~p.skip
        /\ p.uri = client.uri /\ p.version = client.version /\ p.body = client.body
        /\ p.headers = client.fields /\ p.name = "absent" /\ p.value = Absent
        /\ p.header_size = 2 * Len(client.fields)
    <2>1. p.header_size + 0 = 2 * Len(client.fields) /\ p.header_size \in Nat
      BY ParserAssumption DEF Tracks, SizesTrack, Unvalued, Sound, ParserType
    <2>2. p.header_size = 2 * Len(client.fields)
      BY <2>1
    <2> QED BY <2>2, StateAtIs DEF Tracks, FieldsTrack, InField, LFSent
  <1>2. /\ client'.cr = FALSE /\ client'.uri = client.uri /\ client'.version = client.version
        /\ client'.fields = client.fields /\ client'.body = client.body /\ client.body = 0
        /\ client'.at = IF chunked THEN "size" ELSE IF length.n > 0 THEN "body" ELSE "end"
        /\ client'.at = "body" => client'.left = length.n
    BY AfterLineIs DEF LFSent, IsChunked, BodyLength, Grammar
  <1>3. /\ client'.at \in {"size", "body", "end"} /\ client'.at \notin InHead
        /\ client'.at \notin InField /\ client'.at \notin Unvalued /\ client'.at # "garbled"
    BY <1>2 DEF InHead, InField, Unvalued
  <1>4. /\ length.kind \in {"absent", "number"}
        /\ \/ Header(client.fields, "connection") = Absent
           \/ Header(client.fields, "connection").kind \in {"close", "word"}
    BY <1>2, <1>3, FieldValues
  <1>5. length.n \in 0..MaxLength
    <2>1. p.headers \in Seq(Field)
      BY DEF Sound, ParserType
    <2>2. length \in Bytes \cup {Absent}
      BY <1>1, <2>1, HeaderType
    <2> QED BY <2>2, ByteType, ParserAssumption DEF Absent
  <1>6. q = [OnHeadersDone(p) EXCEPT !.look = FALSE]
    <2>1. EndsLine(p, c)
      BY <1>1 DEF EndsLine
    <2>2. q = LineEnd(p, cut, OnHeadersDone(p))
      BY <1>1, <2>1, LineEndParsed
    <2> QED BY <1>1, <2>2 DEF LineEnd
  <1>7. OnHeadersDone(p) =
          IF chunked THEN [d EXCEPT !.state = "CHUNK_SIZE", !.chunk_size = 0, !.chunk_read = 0]
          ELSE IF length.n > 0 THEN [d EXCEPT !.state = "BODY"] ELSE FinalizeRequest(d)
    BY <1>1, <1>4 DEF OnHeadersDone
  <1> HIDE DEF q, length, keep
  <1>8. keep \in BOOLEAN
    BY DEF keep
  <1>9. /\ d \in ParserType /\ d.content_length = length.n /\ d.keep_alive = keep
        /\ d.look = p.look /\ d.skip = p.skip /\ d.uri = p.uri /\ d.version = p.version
        /\ d.name = p.name /\ d.value = p.value /\ d.body = p.body /\ d.headers = p.headers
        /\ d.header_size = p.header_size /\ d.state = p.state
    BY <1>5, <1>8 DEF Sound, ParserType
  <1> HIDE DEF d, chunked
  <1>10. CASE chunked
    <2>1. q = [d EXCEPT !.state = "CHUNK_SIZE", !.chunk_size = 0, !.chunk_read = 0, !.look = FALSE]
      BY <1>6, <1>7, <1>9, <1>10 DEF ParserType
    <2>2. /\ q.state = "CHUNK_SIZE" /\ q.look = FALSE /\ q.skip = p.skip /\ q.uri = p.uri
          /\ q.version = p.version /\ q.name = p.name /\ q.value = p.value /\ q.body = p.body
          /\ q.headers = p.headers /\ q.header_size = p.header_size /\ q.chunk_size = 0
          /\ q.keep_alive = keep
      BY <1>9, <2>1 DEF ParserType
    <2>3. client'.at = "size"
      BY <1>2, <1>10
    <2>4. Basics(q, client')
      BY <1>1, <1>2, <2>2, <2>3, StateAtIs DEF Basics
    <2>5. FieldsTrack(q, client')
      BY <1>1, <1>2, <1>3, <2>2 DEF FieldsTrack
    <2>6. SizesTrack(q, client')
      <3>1. q.header_size + 0 = 2 * Len(client'.fields)
        BY <1>1, <1>2, <2>2 DEF Message
      <3> QED BY <1>3, <2>2, <2>3, <3>1 DEF SizesTrack
    <2>7. Coded(client')
      BY <1>2, <1>10, <2>3 DEF IsChunked, chunked, Coded
    <2> QED BY <1>1, <1>2, <1>3, <2>2, <2>3, <2>4, <2>5, <2>6, <2>7, PartTracks DEF q, keep
  <1>11. CASE ~chunked /\ length.n > 0
    <2>1. q = [d EXCEPT !.state = "BODY", !.look = FALSE]
      BY <1>6, <1>7, <1>9, <1>11 DEF ParserType
    <2>2. /\ q.state = "BODY" /\ q.look = FALSE /\ q.skip = p.skip /\ q.uri = p.uri
          /\ q.version = p.version /\ q.name = p.name /\ q.value = p.value /\ q.body = p.body
          /\ q.headers = p.headers /\ q.header_size = p.header_size
          /\ q.content_length = length.n /\ q.keep_alive = keep
      BY <1>9, <2>1 DEF ParserType
    <2>3. client'.at = "body" /\ client'.left = length.n
      BY <1>2, <1>11
    <2>4. Basics(q, client')
      BY <1>1, <1>2, <2>2, <2>3, StateAtIs DEF Basics
    <2>5. FieldsTrack(q, client')
      BY <1>1, <1>2, <1>3, <2>2 DEF FieldsTrack
    <2>6. SizesTrack(q, client')
      <3>1. q.header_size + 0 = 2 * Len(client'.fields)
        BY <1>1, <1>2, <2>2 DEF Message
      <3>2. q.body + client'.left = q.content_length
        BY <1>1, <1>2, <1>5, <2>2, <2>3, ParserAssumption
      <3> QED BY <1>3, <2>2, <2>3, <3>1, <3>2 DEF SizesTrack
    <2>7. client'.at \notin InChunk /\ Coded(client')
      BY <1>2, <1>11, <2>3 DEF InChunk, IsChunked, chunked, Coded
    <2> QED BY <1>1, <1>2, <1>3, <2>2, <2>3, <2>4, <2>5, <2>6, <2>7, PartTracks DEF q, keep
  <1>12. CASE ~chunked /\ ~(length.n > 0)
    <2>0. LET f == FinalizeRequest(d)
          IN  /\ f.keep_alive = KeepAlive(client) /\ f.state = "COMPLETE"
              /\ f.look = d.look /\ f.skip = d.skip /\ f.uri = d.uri /\ f.version = d.version
              /\ f.name = d.name /\ f.value = d.value /\ f.headers = d.headers
              /\ f.header_size = d.header_size /\ f.body = d.body
      <3>1. /\ d \in ParserType /\ d.version = client.version /\ d.headers = client.fields
            /\ d.keep_alive = (Header(client.fields, "connection").kind # "close")
        BY <1>1, <1>9 DEF keep
      <3> QED BY <1>4, <3>1, FinalizeTracks
    <2>1. q = [FinalizeRequest(d) EXCEPT !.look = FALSE] /\ FinalizeRequest(d) \in ParserType
      BY <1>6, <1>7, <1>9, <1>12 DEF FinalizeRequest, ParserType
    <2>2. /\ q.state = "COMPLETE" /\ q.look = FALSE /\ q.skip = p.skip /\ q.uri = p.uri
          /\ q.version = p.version /\ q.name = p.name /\ q.value = p.value /\ q.body = p.body
          /\ q.headers = p.headers /\ q.header_size = p.header_size
          /\ q.keep_alive = KeepAlive(client)
      BY <1>9, <2>0, <2>1 DEF ParserType
    <2>3. client'.at = "end"
      BY <1>2, <1>12
    <2>4. Basics(q, client')
      BY <1>1, <1>2, <2>2, <2>3, StateAtIs DEF Basics
    <2>5. FieldsTrack(q, client')
      BY <1>1, <1>2, <1>3, <2>2 DEF FieldsTrack
    <2>6. SizesTrack(q, client')
      <3>1. q.header_size + 0 = 2 * Len(client'.fields)
        BY <1>1, <1>2, <2>2 DEF Message
      <3> QED BY <1>3, <2>2, <2>3, <3>1 DEF SizesTrack
    <2>7. /\ KeepAlive(client') = KeepAlive(client) /\ client'.at \notin InChunk \cup {"body"}
          /\ Coded(client')
      BY <1>2, <1>12, <2>3 DEF KeepAlive, InChunk, IsChunked, chunked, Coded
    <2> QED BY <1>1, <1>2, <1>3, <2>2, <2>3, <2>4, <2>5, <2>6, <2>7, PartTracks DEF q
  <1> QED BY <1>10, <1>11, <1>12

\* The LF after a chunk size, or after the data of a chunk.
LEMMA LFOfChunk ==
  ASSUME NEW p, Sound(p), client \in Message, Grammar(client), Tracks(p, client), NEW c, NEW cut,
         client.at \in {"size_end", "data_end"}, c.kind = "LF", LFSent
  PROVE  Tracks(Parse(p, c, cut), client')
  <1> DEFINE q == Parse(p, c, cut)
             keep == Header(client.fields, "connection").kind # "close"
             d == [p EXCEPT !.skip = FALSE]
  <1>1. /\ p.state = StateAt(client.at) /\ p.look
        /\ p.uri = client.uri /\ p.version = client.version /\ p.body = client.body
        /\ p.headers = client.fields /\ p.name = "absent" /\ p.value = Absent
        /\ p.header_size + 0 = 2 * Len(client.fields)
        /\ client.at = "size_end" => p.chunk_size = client.left
        /\ client.at = "data_end" => p.chunk_read = p.chunk_size /\ ~p.skip
        /\ p.keep_alive = keep /\ IsChunked(client)
    BY DEF Tracks, SizesTrack, FieldsTrack, InField, Unvalued, InChunk, LFSent, Coded
  <1>2. p.chunk_size \in Nat /\ p.state = "CHUNK_SIZE" <=> client.at = "size_end"
    BY <1>1, StateAtIs DEF Sound, ParserType
  <1>3. EndsLine(p, c)
    BY <1>1 DEF EndsLine
  <1>4. /\ client'.cr = FALSE /\ client'.uri = client.uri /\ client'.version = client.version
        /\ client'.fields = client.fields /\ client'.body = client.body
        /\ client.at = "size_end" => /\ client'.at = IF client.left = 0 THEN "trailer" ELSE "data"
                                     /\ client'.left = client.left
        /\ client.at = "data_end" => client'.at = "size"
    BY AfterLineIs DEF LFSent
  <1>5. /\ client'.at \in {"trailer", "data", "size"} /\ client'.at \notin InHead
        /\ client'.at \notin InField /\ client'.at \notin Unvalued
    BY <1>4 DEF InHead, InField, Unvalued
  <1>6. /\ \/ Header(client.fields, "connection") = Absent
           \/ Header(client.fields, "connection").kind \in {"close", "word"}
        /\ Coded(client')
    BY <1>1, <1>4, <1>5, FieldValues DEF Unvalued, IsChunked, Coded
  <1> HIDE DEF keep, q
  <1>7. /\ d \in ParserType /\ d.skip = FALSE /\ d.look = p.look /\ d.uri = p.uri
        /\ d.version = p.version /\ d.name = p.name /\ d.value = p.value /\ d.body = p.body
        /\ d.headers = p.headers /\ d.header_size = p.header_size /\ d.chunk_size = p.chunk_size
        /\ d.keep_alive = keep
    BY <1>1 DEF Sound, ParserType
  <1> HIDE DEF d
  <1>8. CASE client.at = "data_end"
    <2>1. q = [p EXCEPT !.state = "CHUNK_SIZE", !.chunk_size = 0, !.look = FALSE]
      <3>1. p.state = "CHUNK_DATA" /\ p.chunk_size \in Nat
        BY <1>1, <1>8, StateAtIs DEF Sound, ParserType
      <3>2. q = LineEnd(p, cut, [p EXCEPT !.state = "CHUNK_SIZE", !.chunk_size = 0])
        BY <1>1, <1>3, <1>8, <3>1, LineEndParsed DEF q
      <3> QED BY <1>1, <3>2 DEF LineEnd, Sound, ParserType
    <2>2. /\ q.state = "CHUNK_SIZE" /\ q.look = FALSE /\ q.skip = p.skip /\ q.uri = p.uri
          /\ q.version = p.version /\ q.name = p.name /\ q.value = p.value /\ q.body = p.body
          /\ q.headers = p.headers /\ q.header_size = p.header_size /\ q.chunk_size = 0
          /\ q.keep_alive = keep
      BY <1>1, <2>1 DEF Sound, ParserType
    <2>3. client'.at = "size"
      BY <1>4, <1>8
    <2>4. Basics(q, client')
      BY <1>1, <1>4, <2>2, <2>3, StateAtIs DEF Basics
    <2>5. FieldsTrack(q, client')
      BY <1>1, <1>4, <1>5, <2>2 DEF FieldsTrack
    <2>6. SizesTrack(q, client')
      BY <1>1, <1>4, <1>5, <2>2, <2>3 DEF SizesTrack
    <2> QED BY <1>1, <1>4, <1>5, <1>8, <2>2, <2>3, <2>4, <2>5, <2>6, <1>6, PartTracks DEF q, keep
  <1>9. CASE client.at = "size_end" /\ client.left # 0
    <2>1. q = [d EXCEPT !.state = "CHUNK_DATA", !.chunk_read = 0, !.look = FALSE]
      <3>1. q = LineEnd(p, cut, SizeLineDone(d))
        BY <1>2, <1>3, <1>9, LineEndParsed DEF q, d
      <3>2. SizeLineDone(d) = [d EXCEPT !.state = "CHUNK_DATA", !.chunk_read = 0]
        BY <1>1, <1>7, <1>9 DEF SizeLineDone
      <3> QED BY <1>1, <1>7, <3>1, <3>2 DEF LineEnd, ParserType
    <2>2. /\ q.state = "CHUNK_DATA" /\ q.look = FALSE /\ q.skip = FALSE /\ q.uri = p.uri
          /\ q.version = p.version /\ q.name = p.name /\ q.value = p.value /\ q.body = p.body
          /\ q.headers = p.headers /\ q.header_size = p.header_size
          /\ q.chunk_size = p.chunk_size /\ q.chunk_read = 0 /\ q.keep_alive = keep
      BY <1>7, <2>1 DEF ParserType
    <2>3. client'.at = "data" /\ client'.left = client.left
      BY <1>4, <1>9
    <2>4. Basics(q, client')
      BY <1>1, <1>4, <2>2, <2>3, StateAtIs DEF Basics
    <2>5. FieldsTrack(q, client')
      BY <1>1, <1>4, <1>5, <2>2 DEF FieldsTrack
    <2>6. SizesTrack(q, client')
      <3>1. q.chunk_read + client'.left = q.chunk_size
        BY <1>1, <1>2, <1>9, <2>2, <2>3
      <3> QED BY <1>1, <1>4, <1>5, <2>2, <2>3, <3>1 DEF SizesTrack
    <2> QED BY <1>1, <1>4, <1>5, <2>2, <2>3, <2>4, <2>5, <2>6, <1>6, PartTracks DEF q, keep
  <1>10. CASE client.at = "size_end" /\ client.left = 0
    <2>0. LET f == FinalizeRequest(d)
          IN  /\ f.keep_alive = KeepAlive(client) /\ f.state = "COMPLETE"
              /\ f.look = d.look /\ f.skip = d.skip /\ f.uri = d.uri /\ f.version = d.version
              /\ f.name = d.name /\ f.value = d.value /\ f.headers = d.headers
              /\ f.header_size = d.header_size /\ f.body = d.body
      <3>1. /\ d \in ParserType /\ d.version = client.version /\ d.headers = client.fields
            /\ d.keep_alive = (Header(client.fields, "connection").kind # "close")
        BY <1>1, <1>7 DEF keep
      <3> QED BY <1>6, <3>1, FinalizeTracks
    <2>1. q = [FinalizeRequest(d) EXCEPT !.look = FALSE] /\ FinalizeRequest(d) \in ParserType
      <3>1. q = LineEnd(p, cut, SizeLineDone(d))
        BY <1>2, <1>3, <1>10, LineEndParsed DEF q, d
      <3>2. SizeLineDone(d) = FinalizeRequest(d)
        BY <1>1, <1>7, <1>10 DEF SizeLineDone
      <3>3. FinalizeRequest(d) \in ParserType
        BY <1>7 DEF FinalizeRequest, ParserType
      <3> QED BY <1>1, <1>7, <3>1, <3>2, <3>3 DEF LineEnd
    <2>2. /\ q.state = "COMPLETE" /\ q.look = FALSE /\ q.skip = FALSE /\ q.uri = p.uri
          /\ q.version = p.version /\ q.name = p.name /\ q.value = p.value /\ q.body = p.body
          /\ q.headers = p.headers /\ q.header_size = p.header_size
          /\ q.keep_alive = KeepAlive(client)
      BY <1>7, <2>0, <2>1 DEF ParserType
    <2>3. client'.at = "trailer"
      BY <1>4, <1>10
    <2>4. Basics(q, client')
      BY <1>1, <1>4, <2>2, <2>3, StateAtIs DEF Basics
    <2>5. FieldsTrack(q, client')
      BY <1>1, <1>4, <1>5, <2>2 DEF FieldsTrack
    <2>6. SizesTrack(q, client')
      BY <1>1, <1>4, <1>5, <2>2, <2>3 DEF SizesTrack
    <2>7. KeepAlive(client') = KeepAlive(client) /\ client'.at \notin InChunk \cup {"body"}
      BY <1>4, <2>3 DEF KeepAlive, InChunk
    <2> QED BY <1>1, <1>4, <1>5, <1>6, <2>2, <2>3, <2>4, <2>5, <2>6, <2>7, PartTracks DEF q
  <1> QED BY <1>8, <1>9, <1>10

\* Both bytes of the end of a line.
LEMMA LineEndTracks ==
  ASSUME NEW p, Sound(p), client \in Message, Grammar(client), Tracks(p, client), NEW c \in Bytes,
         NEW cut \in BOOLEAN, cut => ~Cuts(c), p.state # "COMPLETE", SendsLineEnd(c),
         WithinLimits', client' \in Message, Grammar(client')
  PROVE  Tracks(Parse(p, c, cut), client')
  <1>1. CASE /\ client.at \in LineEnds /\ ~client.cr /\ c.kind = "CR"
             /\ client' = [client EXCEPT !.cr = TRUE]
    BY <1>1, CRTracks
  <1>2. CASE /\ client.cr /\ c.kind = "LF"
             /\ client' = [client EXCEPT !.cr = FALSE, !.at = AfterLine(client),
                    !.left = IF AfterLine(client) = "body" THEN BodyLength(client) ELSE @]
    <2>1. LFSent
      <3> DEFINE at == AfterLine(client)
                 left == IF at = "body" THEN BodyLength(client) ELSE client.left
      <3>1. client' = [client EXCEPT !.cr = FALSE, !.at = at, !.left = left]
        BY <1>2
      <3> HIDE DEF at, left
      <3>2. /\ client'.cr = FALSE /\ client'.at = at /\ client'.uri = client.uri
            /\ client'.version = client.version /\ client'.fields = client.fields
            /\ client'.body = client.body /\ client'.left = left
        BY <3>1 DEF Message
      <3> QED BY <1>2, <3>2 DEF LFSent, at, left
    <2>2. client.at \in LineEnds
      BY <1>2 DEF Grammar
    <2>3. client.at # "trailer"
      BY StateAtIs DEF Tracks
    <2>4. client.at \in {"version_end", "field", "value_end", "size_end", "data_end"}
      BY <2>2, <2>3 DEF LineEnds
    <2>5. CASE client.at \in {"version_end", "value_end"}
      BY <1>2, <2>1, <2>5, LFOfField
    <2>6. CASE client.at = "field"
      BY <1>2, <2>1, <2>6, LFOfHeaders
    <2>7. CASE client.at \in {"size_end", "data_end"}
      BY <1>2, <2>1, <2>7, LFOfChunk
    <2> QED BY <2>4, <2>5, <2>6, <2>7
  <1> QED BY <1>1, <1>2 DEF SendsLineEnd

\* A byte of the body, or of a line of a chunk.
LEMMA BodyTracks ==
  ASSUME NEW p, Sound(p), client \in Message, Grammar(client), Tracks(p, client), NEW c \in Bytes,
         NEW cut, SendsBody(c), WithinLimits', client' \in Message, Grammar(client')
  PROVE  Tracks(Parse(p, c, cut), client')
  <1> DEFINE q == Parse(p, c, cut)
             keep == Header(client.fields, "connection").kind # "close"
  <1>1. /\ client.at \in InChunk \cup {"body"} /\ client.at \notin InHead
        /\ client.at \notin InField /\ client.at \notin Unvalued
        /\ ~client.cr
    <2>1. client.at \in {"body", "size", "extension", "data"} => client.at \notin LineEnds
      BY DEF LineEnds
    <2>2. \/ client.at \in {"body", "size", "extension", "data"}
          \/ client.at = "size_end" /\ ~client.cr
      BY DEF SendsBody, Goes
    <2> QED BY <2>1, <2>2 DEF InChunk, InHead, InField, Unvalued, Grammar
  <1>2. /\ p.state = StateAt(client.at) /\ p.look = FALSE
        /\ p.uri = client.uri /\ p.version = client.version /\ p.body = client.body
        /\ p.headers = client.fields /\ p.name = "absent" /\ p.value = Absent
        /\ p.header_size + 0 = 2 * Len(client.fields)
        /\ p.skip => client.at \in {"size_end", "extension"}
        /\ client.at = "extension" => p.skip
        /\ client.at = "body" => p.body + client.left = p.content_length
        /\ client.at = "size" => p.chunk_size = 0
        /\ client.at \in {"size_end", "extension"} => p.chunk_size = client.left
        /\ client.at = "data" => p.chunk_read + client.left = p.chunk_size
        /\ p.keep_alive = keep
        /\ Coded(client)
    BY <1>1 DEF Tracks, SizesTrack, FieldsTrack
  <1>3. /\ p.body \in Nat /\ p.chunk_size \in Nat /\ p.chunk_read \in Nat
        /\ p.content_length \in Nat /\ client.left \in Nat /\ client.body \in Nat /\ c.n \in Nat
        /\ p.header_size \in Nat /\ p.skip \in BOOLEAN
    BY SMTT(20), ByteType, ParserAssumption DEF Sound, ParserType, Message
  <1>4. \/ Header(client.fields, "connection") = Absent
        \/ Header(client.fields, "connection").kind \in {"close", "word"}
    <2>1. client.at # "garbled"
      BY <1>1 DEF InChunk
    <2> QED BY <1>1, <2>1, FieldValues
  <1> HIDE DEF q, keep
  \* What a step has to show here.
  <1>5. ASSUME q.look = FALSE, q.uri = p.uri, q.version = p.version, q.name = p.name,
               q.value = p.value, q.headers = p.headers, q.header_size = p.header_size,
               client'.cr = client.cr, client'.uri = client.uri, client'.version = client.version,
               client'.fields = client.fields,
               q.state = StateAt(client'.at), q.body = client'.body,
               client'.at \in InChunk \cup {"body", "end"},
               client'.at \in InChunk => client.at \in InChunk,
               client'.at \in {"body", "end"} => client.at = "body",
               q.skip => client'.at \in {"size_end", "extension"}, client'.at = "extension" => q.skip,
               client'.at = "body" => q.body + client'.left = q.content_length,
               client'.at = "size" => q.chunk_size = 0,
               client'.at \in {"size_end", "extension"} => q.chunk_size = client'.left,
               client'.at = "data" => q.chunk_read + client'.left = q.chunk_size,
               client'.at = "data_end" => q.chunk_read = q.chunk_size,
               q.keep_alive = IF client'.at = "end" THEN KeepAlive(client) ELSE keep
        PROVE  Tracks(q, client')
    <2>1. /\ client'.at \notin InHead /\ client'.at \notin InField /\ client'.at \notin Unvalued
          /\ client'.at # "trailer" /\ "end" \notin InChunk
      BY <1>5 DEF InChunk, InHead, InField, Unvalued
    <2>2. Basics(q, client')
      BY <1>1, <1>2, <1>5 DEF Basics
    <2>3. FieldsTrack(q, client')
      BY <1>2, <1>5, <2>1 DEF FieldsTrack
    <2>4. SizesTrack(q, client')
      BY <1>2, <1>5, <2>1 DEF SizesTrack
    <2>5. KeepAlive(client') = KeepAlive(client) /\ Coded(client')
      BY <1>1, <1>2, <1>5, <2>1 DEF KeepAlive, IsChunked, Coded
    <2> QED BY <1>2, <1>5, <2>1, <2>2, <2>3, <2>4, <2>5, PartTracks DEF keep
  <1>6. CASE /\ client.at = "body"
             /\ client' = [client EXCEPT !.left = @ - 1, !.body = @ + 1,
                                         !.at = IF client.left = 1 THEN "end" ELSE @]
    <2> DEFINE d == [p EXCEPT !.body = p.body + 1]
    <2>0. client'.at \in {"body", "end"} => client.at = "body"
      BY <1>6
    <2>1. client.left > 0
      BY <1>6 DEF Grammar
    <2>2. /\ client'.cr = client.cr /\ client'.uri = client.uri /\ client'.version = client.version
          /\ client'.fields = client.fields /\ client'.body = client.body + 1
          /\ client'.left = client.left - 1
          /\ client'.at = IF client.left = 1 THEN "end" ELSE "body"
      BY <1>6 DEF Message
    <2>3. /\ d \in ParserType /\ d.body = p.body + 1 /\ d.look = p.look /\ d.skip = p.skip
          /\ d.uri = p.uri /\ d.version = p.version /\ d.name = p.name /\ d.value = p.value
          /\ d.headers = p.headers /\ d.header_size = p.header_size /\ d.state = p.state
          /\ d.content_length = p.content_length /\ d.keep_alive = p.keep_alive
      <3>1. p.body + 1 \in Nat
        BY <1>3
      <3>2. p \in ParserType
        BY DEF Sound
      <3> HIDE <1>3
      <3> QED BY <3>1, <3>2 DEF ParserType
    <2>4. q = IF d.body = d.content_length THEN FinalizeRequest(d) ELSE d
      <3>1. p.state = "BODY"
        BY <1>2, <1>6, StateAtIs
      <3>2. q = ParseBody(p)
        BY <3>1, ParseIs DEF q
      <3>3. d = [p EXCEPT !.body = @ + 1]
        BY <2>3 DEF Sound, ParserType
      <3> QED BY <2>3, <3>2, <3>3 DEF ParseBody
    <2> HIDE DEF d
    <2>5. d.body = d.content_length <=> client.left = 1
      BY <1>2, <1>3, <1>6, <2>1, <2>3
    <2>6. CASE client.left = 1
      <3>1. LET f == FinalizeRequest(d)
            IN  /\ f.keep_alive = KeepAlive(client) /\ f.state = "COMPLETE"
                /\ f.look = d.look /\ f.skip = d.skip /\ f.uri = d.uri /\ f.version = d.version
                /\ f.name = d.name /\ f.value = d.value /\ f.headers = d.headers
                /\ f.header_size = d.header_size /\ f.body = d.body
        <4>1. /\ d \in ParserType /\ d.version = client.version /\ d.headers = client.fields
              /\ d.keep_alive = (Header(client.fields, "connection").kind # "close")
          BY <1>2, <2>3 DEF keep
        <4> QED BY <1>4, <4>1, FinalizeTracks
      <3>2. q = FinalizeRequest(d) /\ client'.at = "end"
        BY <2>2, <2>4, <2>5, <2>6
      <3>3. ~p.skip /\ "end" \notin InChunk
        BY <1>2, <1>6 DEF InChunk
      <3> QED BY ZenonT(30), <1>2, <1>5, <2>0, <2>2, <2>3, <3>1, <3>2, <3>3, StateAtIs DEF q
    <2>7. CASE client.left # 1
      <3>1. q = d /\ client'.at = "body"
        BY <2>2, <2>4, <2>5, <2>7
      <3>2. q.body + client'.left = q.content_length
        BY <1>2, <1>3, <1>6, <2>1, <2>2, <2>3, <3>1
      <3>3. ~p.skip /\ "body" \notin InChunk /\ q.state = StateAt("body")
        BY <1>2, <1>6, <2>3, <3>1 DEF InChunk
      <3> QED BY ZenonT(30), <1>2, <1>5, <2>0, <2>2, <2>3, <3>1, <3>2, <3>3 DEF q
    <2> QED BY <2>6, <2>7
  <1>7. CASE /\ client.at = "size" /\ c.kind = "number"
             /\ client' = [client EXCEPT !.left = c.n, !.at = "size_end"]
    <2>1. /\ client'.cr = client.cr /\ client'.uri = client.uri /\ client'.version = client.version
          /\ client'.fields = client.fields /\ client'.body = client.body
          /\ client'.left = c.n /\ client'.at = "size_end"
      BY <1>7 DEF Message
    <2>2. p.state = "CHUNK_SIZE" /\ ~p.skip
      BY <1>2, <1>7, StateAtIs
    <2>3. q = [p EXCEPT !.chunk_size = c.n]
      <3>1. q = ParseChunkSize(p, c, cut)
        BY <2>2, ParseIs DEF q
      <3>2. q = [p EXCEPT !.chunk_size = (p.chunk_size * 16 + c.n) % Word]
        BY <1>2, <1>7, <2>2, <3>1 DEF ParseChunkSize, EndsLine
      <3>3. p.chunk_size * 16 + c.n = c.n
        BY <1>2, <1>3, <1>7
      <3>4. c.n % Word = c.n
        BY ByteType, ParserAssumption, WithinWord
      <3> QED BY <3>2, <3>3, <3>4
    <2>4. /\ q.state = p.state /\ q.look = p.look /\ q.skip = p.skip /\ q.uri = p.uri
          /\ q.version = p.version /\ q.name = p.name /\ q.value = p.value /\ q.body = p.body
          /\ q.headers = p.headers /\ q.header_size = p.header_size /\ q.chunk_size = c.n
          /\ q.keep_alive = p.keep_alive
      BY <2>3 DEF Sound, ParserType
    <2>5. client'.at \in InChunk /\ client.at \in InChunk
      BY <1>7, <2>1 DEF InChunk
    <2> QED BY <1>2, <1>5, <1>7, <2>1, <2>2, <2>4, <2>5, StateAtIs DEF q
  <1>8. CASE client.at = "size_end" /\ ~client.cr /\ Goes("size_end", {"semi"}, c, "extension")
    <2>1. /\ client'.cr = client.cr /\ client'.uri = client.uri /\ client'.version = client.version
          /\ client'.fields = client.fields /\ client'.body = client.body
          /\ client'.left = client.left /\ client'.at = "extension"
      BY <1>8 DEF Goes, Message
    <2>2. p.state = "CHUNK_SIZE"
      BY <1>2, <1>8, StateAtIs
    <2>3. q = [p EXCEPT !.skip = TRUE]
      <3>1. q = ParseChunkSize(p, c, cut) /\ c.kind = "semi"
        BY <1>8, <2>2, ParseIs DEF q, Goes
      <3>2. q = IF p.skip THEN p ELSE [p EXCEPT !.skip = TRUE]
        BY <1>2, <3>1 DEF ParseChunkSize, EndsLine
      <3> QED BY <1>3, <3>2 DEF Sound, ParserType
    <2>4. /\ q.state = p.state /\ q.look = p.look /\ q.skip = TRUE /\ q.uri = p.uri
          /\ q.version = p.version /\ q.name = p.name /\ q.value = p.value /\ q.body = p.body
          /\ q.headers = p.headers /\ q.header_size = p.header_size /\ q.chunk_size = p.chunk_size
          /\ q.keep_alive = p.keep_alive
      BY <2>3 DEF Sound, ParserType
    <2>5. client'.at \in InChunk /\ client.at \in InChunk
      BY <1>8, <2>1 DEF InChunk
    <2> QED BY <1>2, <1>5, <1>8, <2>1, <2>2, <2>4, <2>5, StateAtIs DEF q
  <1>9. CASE Goes("extension", {"word"}, c, "size_end")
    <2>1. /\ client'.cr = client.cr /\ client'.uri = client.uri /\ client'.version = client.version
          /\ client'.fields = client.fields /\ client'.body = client.body
          /\ client'.left = client.left /\ client'.at = "size_end" /\ client.at = "extension"
      BY <1>9 DEF Goes, Message
    <2>2. p.state = "CHUNK_SIZE" /\ p.skip
      BY <1>2, <2>1, StateAtIs
    <2>3. q = p
      <3>1. q = ParseChunkSize(p, c, cut) /\ c.kind = "word"
        BY <1>9, <2>2, ParseIs DEF q, Goes
      <3> QED BY <1>2, <2>2, <3>1 DEF ParseChunkSize, EndsLine
    <2>5. client'.at \in InChunk /\ client.at \in InChunk
      BY <2>1 DEF InChunk
    <2> QED BY <1>2, <1>5, <2>1, <2>2, <2>3, <2>5, StateAtIs DEF q
  <1>10. CASE /\ client.at = "data"
              /\ client' = [client EXCEPT !.left = @ - 1, !.body = @ + 1,
                                          !.at = IF client.left = 1 THEN "data_end" ELSE @]
    <2>1. client.left > 0
      BY <1>10 DEF Grammar
    <2>2. /\ client'.cr = client.cr /\ client'.uri = client.uri /\ client'.version = client.version
          /\ client'.fields = client.fields /\ client'.body = client.body + 1
          /\ client'.left = client.left - 1
          /\ client'.at = IF client.left = 1 THEN "data_end" ELSE "data"
      BY <1>10 DEF Message
    <2>3. client.at \in InChunk /\ client'.at \in InChunk
      BY <1>10, <2>2 DEF InChunk
    <2>4. p.state = "CHUNK_DATA" /\ ~p.skip /\ p.chunk_read < p.chunk_size
      BY <1>2, <1>3, <1>10, <2>1, StateAtIs
    <2>5. p.body < MaxBody
      <3>1. IsChunked(client')
        BY <1>2, <2>2, <2>3 DEF IsChunked, Coded
      <3>2. client.body + 1 <= MaxBody
        BY <2>2, <3>1 DEF WithinLimits
      <3> QED BY <1>2, <1>3, <3>2, ParserAssumption
    <2>6. q = [p EXCEPT !.body = p.body + 1, !.chunk_read = p.chunk_read + 1]
      <3>1. q = ParseChunkData(p, c, cut)
        BY <2>4, ParseIs DEF q
      <3>2. q = [p EXCEPT !.body = @ + 1, !.chunk_read = @ + 1]
        BY <1>3, <2>4, <2>5, <3>1 DEF ParseChunkData
      <3> QED BY <3>2 DEF Sound, ParserType
    <2>7. /\ q.state = p.state /\ q.look = p.look /\ q.skip = p.skip /\ q.uri = p.uri
          /\ q.version = p.version /\ q.name = p.name /\ q.value = p.value
          /\ q.headers = p.headers /\ q.header_size = p.header_size
          /\ q.body = p.body + 1 /\ q.chunk_read = p.chunk_read + 1
          /\ q.chunk_size = p.chunk_size /\ q.keep_alive = p.keep_alive
      BY <2>6 DEF Sound, ParserType
    <2>8. /\ client'.at = "data" => q.chunk_read + client'.left = q.chunk_size
          /\ client'.at = "data_end" => q.chunk_read = q.chunk_size
      BY SMTT(20), <1>2, <1>3, <1>10, <2>1, <2>2, <2>7
    <2>9. q.state = StateAt(client'.at)
      BY <2>2, <2>4, <2>7, StateAtIs
    <2> QED BY <1>2, <1>5, <2>2, <2>3, <2>4, <2>7, <2>8, <2>9 DEF q
  <1> QED BY <1>6, <1>7, <1>8, <1>9, <1>10 DEF SendsBody

-----------------------------------------------------------------------------
(* The steps                                                               *)

\* TypeOK says of the parser that it is sound.
LEMMA TypeIsSound == (TypeOK <=> Sound(parser)) /\ (TypeOK' <=> Sound(parser'))
  BY DEF TypeOK, Sound, ParserType

\* A new message has sent nothing, and a parser that was reset expects it.
LEMMA FreshTracks ==
  /\ NewMessage \in Message /\ Grammar(NewMessage) /\ Tracks(Fresh, NewMessage)
  <1>1. /\ NewMessage.at = "start" /\ NewMessage.cr = FALSE /\ NewMessage.uri = 0
        /\ NewMessage.version = "absent" /\ NewMessage.fields = <<>> /\ NewMessage.left = 0
        /\ NewMessage.body = 0
    BY DEF NewMessage
  <1>2. Len(<<>>) = 0
    OBVIOUS
  <1>3. /\ "start" \in InHead /\ "start" \notin InField /\ "start" \notin Unvalued
        /\ "start" \notin InChunk
    BY DEF InHead, InField, Unvalued, InChunk
  <1>6. FieldsTrack(Fresh, NewMessage) /\ SizesTrack(Fresh, NewMessage)
    BY <1>1, <1>2, <1>3 DEF FieldsTrack, SizesTrack, Fresh
  <1>7. Coded(NewMessage)
    BY <1>1, <1>3 DEF Coded
  <1>8. Tracks(Fresh, NewMessage)
    BY <1>1, <1>3, <1>6, <1>7, StateAtIs DEF Tracks, Fresh
  <1> QED BY <1>8, NewMessageType

\* The invariant holds of a new connection.
LEMMA Initial == Init => IInv
  <1> SUFFICES ASSUME Init PROVE IInv
    OBVIOUS
  <1>1. parser = Fresh /\ client = NewMessage /\ broken = FALSE /\ received \in Nat
    BY DEF Init
  <1>2. TypeOK
    BY <1>1, FreshType, TypeIsSound
  <1> QED BY <1>1, <1>2, FreshTracks DEF IInv

\* reset() starts both over.
LEMMA ResetStep ==
  ASSUME IInv, Reset
  PROVE  IInv'
  <1>1. parser' = Fresh /\ client' = NewMessage /\ broken' = broken /\ received' \in Nat
    BY DEF Reset
  <1>2. TypeOK'
    BY <1>1, FreshType, TypeIsSound
  <1> QED BY <1>1, <1>2, FreshTracks DEF IInv

\* A byte that begins an extension is one that must not end a recv.
LEMMA IntoExtension ==
  ASSUME client \in Message, Grammar(client), NEW c \in Bytes, Sends(c), client'.at = "extension"
  PROVE  Cuts(c)
  <1>1. ASSUME SendsRequestLine(c) PROVE FALSE
    <2>1. client'.at \in {"method", "target", "version", "version_end"}
      BY <1>1 DEF SendsRequestLine, Goes, Message
    <2> QED BY <2>1
  <1>2. ASSUME SendsField(c) PROVE FALSE
    <2>1. client'.at \in {"colon", "value", "bare_value", "value_end"}
      BY <1>2 DEF SendsField, Goes, Message
    <2> QED BY <2>1
  <1>3. ASSUME SendsLineEnd(c) PROVE FALSE
    <2>1. CASE /\ client.at \in LineEnds /\ ~client.cr /\ c.kind = "CR"
               /\ client' = [client EXCEPT !.cr = TRUE]
      <3>1. client'.at = client.at
        BY <2>1 DEF Message
      <3> QED BY <2>1, <3>1 DEF LineEnds
    <2>2. CASE /\ client.cr /\ c.kind = "LF"
               /\ client' = [client EXCEPT !.cr = FALSE, !.at = AfterLine(client),
                                 !.left = IF AfterLine(client) = "body" THEN BodyLength(client) ELSE @]
      <3>1. client'.at = AfterLine(client) /\ client.at \in LineEnds
        BY <2>2 DEF Message, Grammar
      <3>2. AfterLine(client) # "extension"
        BY <3>1 DEF AfterLine, LineEnds
      <3> QED BY <3>1, <3>2
    <2> QED BY <1>3, <2>1, <2>2 DEF SendsLineEnd
  <1>4. ASSUME SendsBody(c) PROVE c.kind = "semi"
    <2>1. \/ client'.at \in {"end", "body", "size_end", "data_end", "data"}
          \/ c.kind = "semi"
      BY <1>4 DEF SendsBody, Goes, Message
    <2> QED BY <2>1
  <1> QED BY <1>1, <1>2, <1>3, <1>4 DEF Sends, Cuts

\* A byte of the message: the parser follows.
LEMMA ReceiveStep ==
  ASSUME IInv, NEW c \in Bytes, NEW cut \in BOOLEAN, Receive(c, cut)
  PROVE  IInv'
  <1> DEFINE q == Parse(parser, c, cut)
  <1>1. /\ Sound(parser) /\ client \in Message /\ Grammar(client) /\ broken \in BOOLEAN
        /\ parser.state \notin {"COMPLETE", "ERROR"} /\ Sends(c)
        /\ parser' = [q EXCEPT !.skip = @ /\ ~cut]
        /\ broken' = (broken \/ (cut /\ Cuts(c)))
        /\ received \in Nat /\ received' = received + 1
    BY TypeIsSound DEF IInv, Receive, Reads
  <1>2. /\ client' \in Message /\ Grammar(client') /\ client.at # "garbled"
        /\ WithinLimits' => WithinLimits
    BY <1>1, ClientStep
  <1>3. Sound(q) /\ Sound(parser')
    BY <1>1, ParseType
  <1>4. TypeOK' /\ broken' \in BOOLEAN /\ received' \in Nat
    BY <1>1, <1>3, TypeIsSound
  <1>5. ASSUME Proper', ~broken' PROVE Tracks(parser', client')
    <2>1. WithinLimits' /\ ~broken /\ (cut => ~Cuts(c))
      BY <1>1, <1>5 DEF Proper
    <2>2. Tracks(parser, client)
      BY <1>2, <2>1 DEF IInv, Proper
    <2>3. Tracks(q, client')
      BY <1>1, <1>2, <2>1, <2>2, RequestLineTracks, FieldTracks, LineEndTracks, BodyTracks DEF Sends
    <2>4. cut => client'.at # "extension"
      BY <1>1, <2>1, IntoExtension
    <2> HIDE DEF q
    <2> QED BY <1>1, <1>3, <2>3, <2>4, RecvEnd
  <1> QED BY <1>2, <1>4, <1>5 DEF IInv

\* Any other byte: only the type is left to keep.
LEMMA GarbledStep ==
  ASSUME IInv, NEW c \in Bytes, NEW cut \in BOOLEAN, Garbled(c, cut)
  PROVE  IInv'
  <1>1. /\ Sound(parser) /\ client \in Message /\ Grammar(client) /\ broken' = broken
        /\ parser.state \notin {"COMPLETE", "ERROR"}
        /\ parser' = [Parse(parser, c, cut) EXCEPT !.skip = @ /\ ~cut]
        /\ client' = [client EXCEPT !.at = "garbled", !.cr = FALSE]
        /\ received' \in Nat
    BY TypeIsSound DEF IInv, Garbled, Reads
  <1>2. TypeOK'
    BY <1>1, ParseType, TypeIsSound
  <1>3. /\ client' \in Message /\ client'.at = "garbled" /\ client'.cr = FALSE
        /\ client'.fields = client.fields
    BY <1>1 DEF Message, Positions
  <1>4. Grammar(client')
    BY <1>3 DEF Grammar, InHead, InField
  <1>5. ~Proper'
    BY <1>3 DEF Proper
  <1> QED BY <1>1, <1>2, <1>3, <1>4, <1>5 DEF IInv

\* While the invariant holds of a proper message that was not cut, the parser has not given up.
LEMMA NoError ==
  ASSUME IInv, Proper, ~broken
  PROVE  parser.state # "ERROR"
  <1>1. parser.state = StateAt(client.at)
    BY DEF IInv, Tracks
  <1>2. StateAt(client.at) # "ERROR"
    BY DEF StateAt
  <1> QED BY <1>1, <1>2

\* The client goes on without the parser only when that had to give up.
LEMMA AloneStep ==
  ASSUME IInv, NEW c \in Bytes, NEW cut \in BOOLEAN, FedAlone(c, cut)
  PROVE  IInv'
  <1>1. /\ client \in Message /\ Grammar(client) /\ Sends(c) /\ parser.state = "ERROR"
        /\ parser' = parser /\ broken' = broken
        /\ received \in Nat /\ received' = received + 1
    BY DEF IInv, FedAlone
  <1>2. /\ client' \in Message /\ Grammar(client') /\ client.at # "garbled"
        /\ WithinLimits' => WithinLimits
    BY <1>1, ClientStep
  <1>3. ~(Proper' /\ ~broken')
    BY <1>1, <1>2, NoError DEF Proper
  <1>4. TypeOK' /\ broken' \in BOOLEAN /\ received' \in Nat
    BY <1>1 DEF IInv, TypeOK
  <1> QED BY <1>2, <1>3, <1>4 DEF IInv

\* A request that is too large is no longer a proper one.
LEMMA TooLargeStep ==
  ASSUME IInv, RequestTooLarge
  PROVE  IInv' /\ ~Proper'
  <1>1. /\ Sound(parser) /\ parser' = Failed(parser) /\ received > MaxTotal
        /\ client' = client /\ broken' = broken /\ received' = received /\ received \in Nat
    BY TypeIsSound DEF IInv, RequestTooLarge
  <1>2. ~Proper'
    BY <1>1, ParserAssumption DEF Proper, WithinLimits
  <1>3. TypeOK'
    BY <1>1, FailedType, TypeIsSound
  <1> QED BY <1>1, <1>2, <1>3 DEF IInv

\* A step that changes neither.
LEMMA StutterStep ==
  ASSUME IInv, UNCHANGED vars
  PROVE  IInv'
  BY DEF vars, IInv, TypeOK, Proper, WithinLimits, IsChunked

\* Every step of the parser keeps the invariant.
LEMMA Inductive == IInv /\ [Next]_vars => IInv'
  <1> SUFFICES ASSUME IInv, [Next]_vars PROVE IInv'
    OBVIOUS
  <1> QED BY ResetStep, TooLargeStep, ReceiveStep, GarbledStep, StutterStep DEF Next

\* The decoder is beside the parser: only FedAlone is a step of its own.
LEMMA DecoderInductive == IInv /\ [DecoderNext]_decoderVars => IInv'
  <1> SUFFICES ASSUME IInv, [DecoderNext]_decoderVars PROVE IInv'
    OBVIOUS
  <1>1. CASE ResetBoth
    BY <1>1, ResetStep DEF ResetBoth
  <1>2. ASSUME NEW c \in Bytes, NEW cut \in BOOLEAN, FedTogether(c, cut) PROVE IInv'
    BY <1>2, ReceiveStep, GarbledStep DEF FedTogether
  <1>3. ASSUME NEW c \in Bytes, NEW cut \in BOOLEAN, FedAlone(c, cut) PROVE IInv'
    BY <1>3, AloneStep
  <1>4. CASE UNCHANGED decoderVars
    BY <1>4, StutterStep DEF decoderVars
  <1> QED BY <1>1, <1>2, <1>3, <1>4, TooLargeStep DEF DecoderNext

-----------------------------------------------------------------------------
(* What follows                                                            *)

\* The parser completes where the message ends.
LEMMA CompleteIs ==
  ASSUME IInv, Proper, ~broken
  PROVE  /\ parser.state = "COMPLETE" <=> client.at \in {"end", "trailer"}
         /\ client.at = "trailer" => IsChunked(client)
         /\ client.at = "end" => ~IsChunked(client)
  <1>1. /\ parser.state = StateAt(client.at) /\ client.at \in Positions /\ client.at # "garbled"
    BY DEF IInv, Tracks, Message, Proper
  <1>2. StateAt(client.at) = "COMPLETE" <=> client.at \in {"end", "trailer"}
    BY <1>1 DEF StateAt, Positions, InHead, InField, InChunk
  <1> QED BY <1>1, <1>2 DEF IInv, Tracks, Coded

\* What the invariant says of the runs' properties.
LEMMA Consequences == IInv => TypeOK /\ NotRefused /\ EndsWithMessage /\ RequestIntact
  <1> SUFFICES ASSUME IInv PROVE TypeOK /\ NotRefused /\ EndsWithMessage /\ RequestIntact
    OBVIOUS
  <1>1. TypeOK
    BY DEF IInv
  <1>2. NotRefused
    BY NoError DEF NotRefused, NeverRefused
  <1>3. EndsWithMessage
    BY CompleteIs DEF EndsWithMessage
  <1>4. RequestIntact
    <2>1. SUFFICES ASSUME Proper, ~broken, parser.state = "COMPLETE"
                   PROVE  /\ parser.headers = client.fields /\ parser.body = client.body
                          /\ parser.keep_alive = KeepAlive(client)
      BY DEF RequestIntact
    <2>2. client.at \in {"end", "trailer"} /\ Tracks(parser, client)
      BY <2>1, CompleteIs DEF IInv
    <2>3. client.at \notin InField
      BY <2>2 DEF InField
    <2> QED BY <2>2, <2>3 DEF Tracks, FieldsTrack
  <1> QED BY <1>1, <1>2, <1>3, <1>4

\* The parser keeps to its type and to its limits, whatever bytes arrive and however
\* recv cuts them: no more fields, no longer path and no more counted bytes of fields
\* than it allows (http_parser.cpp:132, 229, 268, 288), and never more of a chunk than its size.
THEOREM ParserTypeOK == Spec => []TypeOK
  <1>1. Init => IInv
    BY Initial
  <1>2. IInv /\ [Next]_vars => IInv'
    BY Inductive
  <1>3. IInv => TypeOK
    BY Consequences
  <1> QED BY <1>1, <1>2, <1>3, PTL DEF Spec

\* A proper request is refused only where a recv ends between the CR and the LF of a
\* line or inside a chunk extension.
THEOREM ParserNotRefused == Spec => []NotRefused
  <1>1. Init => IInv
    BY Initial
  <1>2. IInv /\ [Next]_vars => IInv'
    BY Inductive
  <1>3. IInv => NotRefused
    BY Consequences
  <1> QED BY <1>1, <1>2, <1>3, PTL DEF Spec

\* parse() completes a request with a length or without a body with its last byte and not
\* before: the next request of the connection begins where this one ends.  A chunked one it
\* completes with the size line of the last chunk, before the message ends: the empty line
\* is left over, and whoever parses on finds it first.
THEOREM ParserEndsWithMessage == Spec => []EndsWithMessage
  <1>1. Init => IInv
    BY Initial
  <1>2. IInv /\ [Next]_vars => IInv'
    BY Inductive
  <1>3. IInv => EndsWithMessage
    BY Consequences
  <1> QED BY <1>1, <1>2, <1>3, PTL DEF Spec

\* The complete request has the fields, the body and the wish to keep the connection
\* that the client sent.
THEOREM ParserRequestIntact == Spec => []RequestIntact
  <1>1. Init => IInv
    BY Initial
  <1>2. IInv /\ [Next]_vars => IInv'
    BY Inductive
  <1>3. IInv => RequestIntact
    BY Consequences
  <1> QED BY <1>1, <1>2, <1>3, PTL DEF Spec

\* All of it holds of the parser beside the decoder, which the runs check.
THEOREM BesideDecoder == DecoderSpec => [](TypeOK /\ NotRefused /\ EndsWithMessage /\ RequestIntact)
  <1>1. DecoderInit => IInv
    BY Initial DEF DecoderInit
  <1>2. IInv /\ [DecoderNext]_decoderVars => IInv'
    BY DecoderInductive
  <1>3. IInv => TypeOK /\ NotRefused /\ EndsWithMessage /\ RequestIntact
    BY Consequences
  <1> QED BY <1>1, <1>2, <1>3, PTL DEF DecoderSpec

-----------------------------------------------------------------------------
(* Induction and recursion, with sets and functions for the operators the  *)
(* provers cannot instantiate                                              *)

\* What holds of 0 and with n of n + 1 holds of every natural up to m.
LEMMA Induction ==
  ASSUME NEW m \in Nat, NEW S, 0 \in S, \A n \in 0..(m - 1) : n \in S => n + 1 \in S
  PROVE  \A n \in 0..m : n \in S
  <1> DEFINE Others == {n \in 0..m : n \notin S}
  <1>1. ASSUME Others # {} PROVE FALSE
    <2>0. Others \in SUBSET Nat
      OBVIOUS
    <2>1. PICK n \in Others : \A k \in Others : n <= k
      <3> HIDE DEF Others
      <3> QED BY <1>1, <2>0, LeastNumber
    <2>2. n \in 0..m /\ n # 0 /\ n \notin S
      BY <2>1
    <2>3. n - 1 \in 0..(m - 1) /\ (n - 1) + 1 = n /\ ~(n <= n - 1)
      BY <2>2
    <2>4. n - 1 \in S
      BY <2>1, <2>3
    <2> QED BY <2>2, <2>3, <2>4
  <1> QED BY <1>1

Steps(m, S) == [1..m -> [S -> S]]
Chains(m, S, base, step) ==
  {f \in [0..m -> S] : f[0] = base /\ \A i \in 1..m : f[i] = step[i][f[i - 1]]}

\* There is a function with a given first value and a given step from each value to the next.
LEMMA Recursion ==
  ASSUME NEW m \in Nat, NEW S, NEW base \in S, NEW step \in Steps(m, S)
  PROVE  Chains(m, S, base, step) # {}
  <1> USE DEF Steps
  <1> DEFINE Step(f, i) == IF i = 0 THEN base ELSE step[i][f[i - 1]]
             Upto(n) == {f \in [0..n -> S] : \A i \in 0..n : f[i] = Step(f, i)}
             Reached == {n \in 0..m : Upto(n) # {}}
  <1>1. 0 \in Reached
    <2>1. [i \in 0..0 |-> base] \in Upto(0)
      OBVIOUS
    <2> QED BY <2>1
  <1>2. ASSUME NEW n \in 0..(m - 1), n \in Reached PROVE n + 1 \in Reached
    <2>1. PICK f \in [0..n -> S] : \A i \in 0..n : f[i] = Step(f, i)
      BY <1>2
    <2>2. n + 1 \in 1..m /\ n + 1 \in 0..m /\ n \in 0..n /\ n + 1 # 0 /\ (n + 1) - 1 = n
      OBVIOUS
    <2>3. step[n + 1][f[n]] \in S
      BY <2>1, <2>2
    <2> DEFINE g == [i \in 0..(n + 1) |-> IF i = n + 1 THEN step[n + 1][f[n]] ELSE f[i]]
    <2>4. g \in [0..(n + 1) -> S]
      BY <2>3
    <2>5. ASSUME NEW i \in 0..(n + 1) PROVE g[i] = Step(g, i)
      <3>1. CASE i = n + 1
        <4>1. g[n] = f[n] /\ g[n + 1] = step[n + 1][f[n]]
          BY <2>2
        <4> QED BY <3>1, <4>1, <2>2
      <3>2. CASE i \in 0..n
        <4>1. g[i] = f[i] /\ (i # 0 => i - 1 \in 0..n /\ g[i - 1] = f[i - 1])
          BY <3>2
        <4> QED BY <2>1, <3>2, <4>1
      <3> QED BY <3>1, <3>2
    <2> QED BY <2>2, <2>4, <2>5
  <1>3. \A n \in 0..m : n \in Reached
    <2> HIDE DEF Reached
    <2> QED BY <1>1, <1>2, Induction
  <1>4. PICK f \in [0..m -> S] : \A i \in 0..m : f[i] = Step(f, i)
    BY <1>3
  <1>5. 0 \in 0..m /\ \A i \in 1..m : i \in 0..m /\ i # 0
    OBVIOUS
  <1>6. f[0] = base /\ \A i \in 1..m : f[i] = step[i][f[i - 1]]
    BY <1>4, <1>5
  <1> QED BY <1>6 DEF Chains

-----------------------------------------------------------------------------
(* The decoder: what waits in its buffer leads from where it stands to     *)
(* where the client is                                                     *)

DecoderType ==
  [state : {"READ_SIZE", "READ_DATA", "READ_TRAILER", "DONE", "ERROR"}, buffer : Seq(Bytes),
   size : Nat, read : Nat, out : Nat, whole : BOOLEAN]

\* A place in a chunked body.
Place == [at : InChunk \cup {"trailer"}, cr : BOOLEAN, left : Nat, body : Nat]
PlaceAt(at, cr, left, body) == [at |-> at, cr |-> cr, left |-> left, body |-> body]
PlaceOf(m) == PlaceAt(m.at, m.cr, m.left, m.body)

\* The byte c leads from the place p to the place q.
Moves(p, c, q) ==
  \/ p.at = "size" /\ c.kind = "number" /\ q = PlaceAt("size_end", p.cr, c.n, p.body)
  \/ p.at = "size_end" /\ ~p.cr /\ c.kind = "semi" /\ q = PlaceAt("extension", p.cr, p.left, p.body)
  \/ p.at = "extension" /\ c.kind = "word" /\ q = PlaceAt("size_end", p.cr, p.left, p.body)
  \/ /\ p.at \in {"size_end", "data_end"} /\ ~p.cr /\ c.kind = "CR"
     /\ q = PlaceAt(p.at, TRUE, p.left, p.body)
  \/ p.at = "data_end" /\ p.cr /\ c.kind = "LF" /\ q = PlaceAt("size", FALSE, p.left, p.body)
  \/ /\ p.at = "size_end" /\ p.cr /\ c.kind = "LF"
     /\ q = PlaceAt(IF p.left = 0 THEN "trailer" ELSE "data", FALSE, p.left, p.body)
  \/ /\ p.at = "data" /\ p.left > 0 /\ c.kind \in {"word", "CR"}
     /\ q = PlaceAt(IF p.left = 1 THEN "data_end" ELSE "data", p.cr, p.left - 1, p.body + 1)

\* The places that the bytes b lead to from p, one after the other.
Walks(p, b) ==
  {w \in [0..Len(b) -> Place] : w[0] = p /\ \A i \in 1..Len(b) : Moves(w[i - 1], b[i], w[i])}

\* The bytes b lead from p to q.
Leads(p, b, q) == \E w \in Walks(p, b) : w[Len(b)] = q

\* The decoder has taken the body up to p.
StandsAt(d, p) ==
  /\ p.body = d.out /\ ~p.cr
  /\ \/ d.state = "READ_SIZE" /\ p.at = "size"
     \/ d.state = "READ_DATA" /\ p.at = "data" /\ d.read < d.size /\ p.left = d.size - d.read
     \/ d.state = "READ_TRAILER" /\ p.at = "data_end"
     \/ d.state = "DONE" /\ p.at = "trailer"

TooLarge(d) == d.state = "ERROR" /\ d.size > MaxChunkSize

\* The decoder d stands where its buffer leads to q, unless a chunk was too large.
Behind(d, q) == d \in DecoderType /\ (TooLarge(d) \/ \E p \in Place : StandsAt(d, p) /\ Leads(p, d.buffer, q))

\* The decoder can do nothing with what it has.
Waits(d) ==
  \/ d.state = "ERROR"
  \/ d.buffer = <<>>
  \/ d.state = "READ_SIZE" /\ CrLfs(d.buffer) = {}
  \/ d.state = "READ_TRAILER" /\ Len(d.buffer) < 2

\* Nowhere to go.
LEMMA NoBytes ==
  ASSUME NEW p \in Place
  PROVE  Leads(p, <<>>, p)
  <1> DEFINE w == [i \in 0..0 |-> p]
  <1>1. Len(<<>>) = 0 /\ w \in [0..0 -> Place] /\ w[0] = p
    OBVIOUS
  <1>2. w \in Walks(p, <<>>)
    BY <1>1 DEF Walks
  <1> QED BY <1>1, <1>2 DEF Leads

\* One byte more.
LEMMA OneByteMore ==
  ASSUME NEW p \in Place, NEW b \in Seq(Bytes), NEW q, Leads(p, b, q), NEW c \in Bytes,
         NEW r \in Place, Moves(q, c, r)
  PROVE  Append(b, c) \in Seq(Bytes) /\ Leads(p, Append(b, c), r)
  <1> DEFINE n == Len(b)
             e == Append(b, c)
  <1>1. PICK w \in Walks(p, b) : w[n] = q
    BY DEF Leads
  <1>2. w \in [0..n -> Place] /\ w[0] = p /\ \A i \in 1..n : Moves(w[i - 1], b[i], w[i])
    BY DEF Walks
  <1>3. /\ e \in Seq(Bytes) /\ Len(e) = n + 1 /\ e[n + 1] = c
        /\ \A i \in 1..n : e[i] = b[i]
    OBVIOUS
  <1>4. n \in Nat
    OBVIOUS
  <1> HIDE DEF n, e
  <1> DEFINE v == [i \in 0..(n + 1) |-> IF i = n + 1 THEN r ELSE w[i]]
  <1>5. v \in [0..(n + 1) -> Place] /\ v[n + 1] = r /\ \A i \in 0..n : v[i] = w[i]
    BY <1>2, <1>4
  <1> HIDE DEF v
  <1>6. v[0] = p
    BY <1>2, <1>4, <1>5
  <1>7. ASSUME NEW i \in 1..(n + 1) PROVE Moves(v[i - 1], e[i], v[i])
    <2>1. CASE i = n + 1
      <3>1. v[i - 1] = q /\ v[i] = r /\ e[i] = c
        BY <1>1, <1>3, <1>4, <1>5, <2>1
      <3> QED BY <3>1
    <2>2. CASE i \in 1..n
      <3>1. v[i - 1] = w[i - 1] /\ v[i] = w[i] /\ e[i] = b[i]
        BY <1>3, <1>4, <1>5, <2>2
      <3> QED BY <1>2, <2>2, <3>1
    <2> QED BY <1>4, <2>1, <2>2
  <1>8. v \in Walks(p, e)
    BY <1>3, <1>5, <1>6, <1>7 DEF Walks
  <1> QED BY <1>3, <1>5, <1>8 DEF Leads, e

\* What is left after the first k bytes leads on from where these have led.
LEMMA BytesLess ==
  ASSUME NEW b \in Seq(Bytes), NEW p, NEW w \in Walks(p, b), NEW k \in 0..Len(b)
  PROVE  /\ SubSeq(b, k + 1, Len(b)) \in Seq(Bytes)
         /\ Len(SubSeq(b, k + 1, Len(b))) = Len(b) - k
         /\ w[k] \in Place /\ Leads(w[k], SubSeq(b, k + 1, Len(b)), w[Len(b)])
  <1> DEFINE n == Len(b)
             e == SubSeq(b, k + 1, n)
  <1>1. w \in [0..n -> Place] /\ \A i \in 1..n : Moves(w[i - 1], b[i], w[i])
    BY DEF Walks
  <1>2. n \in Nat /\ k \in 0..n
    OBVIOUS
  <1>3. e \in Seq(Bytes) /\ Len(e) = n - k /\ \A i \in 1..(n - k) : e[i] = b[k + i]
    OBVIOUS
  <1> HIDE DEF n, e
  <1> DEFINE v == [i \in 0..(n - k) |-> w[k + i]]
  <1>4. v \in [0..(n - k) -> Place] /\ \A i \in 0..(n - k) : v[i] = w[k + i]
    BY <1>1, <1>2
  <1> HIDE DEF v
  <1>5. v[0] = w[k] /\ v[n - k] = w[n]
    BY <1>2, <1>4
  <1>6. ASSUME NEW i \in 1..(n - k) PROVE Moves(v[i - 1], e[i], v[i])
    <2>1. k + i \in 1..n /\ (k + i) - 1 = k + (i - 1) /\ i - 1 \in 0..(n - k) /\ i \in 0..(n - k)
      BY <1>2
    <2>2. v[i - 1] = w[(k + i) - 1] /\ v[i] = w[k + i] /\ e[i] = b[k + i]
      BY <1>3, <1>4, <2>1
    <2> QED BY <1>1, <2>1, <2>2
  <1>7. v \in Walks(w[k], e)
    BY <1>3, <1>4, <1>5, <1>6 DEF Walks
  <1>8. Leads(w[k], e, w[n])
    BY <1>3, <1>5, <1>7 DEF Leads
  <1>9. w[k] \in Place
    BY <1>1, <1>2
  <1> QED BY <1>3, <1>8, <1>9 DEF e, n

-----------------------------------------------------------------------------
(* The handlers of the decoder                                             *)

\* The pairs of CR and LF, as numbers.
LEMMA PairsAre ==
  ASSUME NEW b \in Seq(Bytes)
  PROVE  /\ CrLfs(b) \in SUBSET Nat
         /\ \A i \in 1..(Len(b) - 1) : i \in CrLfs(b) <=> b[i].kind = "CR" /\ b[i + 1].kind = "LF"
         /\ \A i \in CrLfs(b) : i \in 1..(Len(b) - 1)
  BY DEF CrLfs

\* Within a size line, whose size is its first byte.
InSizeLine(p, b, w, i) ==
  /\ w[i].at \in {"size_end", "extension"} /\ w[i].left = b[1].n /\ w[i].body = p.body
  /\ w[i].cr <=> b[i].kind = "CR"
  /\ w[i].cr => w[i].at = "size_end"

\* The first byte of a size line is the size.
LEMMA FirstOfSizeLine ==
  ASSUME NEW b \in Seq(Bytes), NEW p \in Place, p.at = "size", ~p.cr, NEW w \in Walks(p, b),
         Len(b) > 0
  PROVE  b[1].kind = "number" /\ ~w[1].cr /\ w[1].at = "size_end" /\ InSizeLine(p, b, w, 1)
  <1>1. 1 \in 1..Len(b) /\ 1 - 1 = 0
    OBVIOUS
  <1>2. Moves(p, b[1], w[1])
    BY <1>1 DEF Walks
  <1>3. b[1].kind = "number" /\ w[1] = PlaceAt("size_end", p.cr, b[1].n, p.body)
    BY <1>2 DEF Moves
  <1>4. w[1].at = "size_end" /\ w[1].left = b[1].n /\ w[1].body = p.body /\ w[1].cr = p.cr
    BY <1>3 DEF PlaceAt
  <1> QED BY <1>3, <1>4 DEF InSizeLine

\* From one byte of the line to the next.
LEMMA NextOfSizeLine ==
  ASSUME NEW b \in Seq(Bytes), NEW p \in Place, NEW w \in Walks(p, b),
         NEW n \in 1..(Len(b) - 1), n \notin CrLfs(b), InSizeLine(p, b, w, n)
  PROVE  /\ InSizeLine(p, b, w, n + 1)
         /\ ~w[n].cr /\ w[n].at = "size_end" => b[n + 1].kind \in {"semi", "CR"}
  <1>1. n \in 0..Len(b) /\ n + 1 \in 1..Len(b) /\ (n + 1) - 1 = n
    OBVIOUS
  <1>2. w[n] \in Place /\ Moves(w[n], b[n + 1], w[n + 1])
    BY <1>1 DEF Walks
  <1> DEFINE q == w[n]
             r == w[n + 1]
             c == b[n + 1]
             left == b[1].n
  <1>3. ~(q.cr /\ c.kind = "LF")
    BY PairsAre DEF InSizeLine
  <1>4. /\ q \in Place /\ q.at \in {"size_end", "extension"} /\ q.left = left /\ q.body = p.body
        /\ q.cr => q.at = "size_end"
    BY <1>2 DEF InSizeLine
  <1>5. \/ q.at = "size_end" /\ ~q.cr /\ c.kind = "semi" /\ r = PlaceAt("extension", q.cr, q.left, q.body)
        \/ q.at = "extension" /\ c.kind = "word" /\ r = PlaceAt("size_end", q.cr, q.left, q.body)
        \/ q.at = "size_end" /\ ~q.cr /\ c.kind = "CR" /\ r = PlaceAt(q.at, TRUE, q.left, q.body)
    BY <1>2, <1>3, <1>4 DEF Moves
  <1> HIDE DEF q, r, c, left
  <1>6. /\ r.at \in {"size_end", "extension"} /\ r.left = left /\ r.body = p.body
        /\ r.cr <=> c.kind = "CR"
        /\ r.cr => r.at = "size_end"
    BY <1>4, <1>5 DEF PlaceAt
  <1> QED BY <1>4, <1>5, <1>6 DEF InSizeLine, q, r, c, left

\* Up to the end of the line.
LEMMA SizeLine ==
  ASSUME NEW b \in Seq(Bytes), NEW p \in Place, p.at = "size", ~p.cr, NEW w \in Walks(p, b),
         NEW k \in 1..Len(b), \A j \in CrLfs(b) : k <= j
  PROVE  \A i \in 1..k : InSizeLine(p, b, w, i)
  <1> DEFINE S == {i \in 0..k : i = 0 \/ InSizeLine(p, b, w, i)}
  <1>0. k \in Nat /\ Len(b) \in Nat /\ Len(b) > 0
    OBVIOUS
  <1>1. 0 \in S
    OBVIOUS
  <1>2. ASSUME NEW n \in 0..(k - 1), n \in S PROVE n + 1 \in S
    <2>1. CASE n = 0
      BY <1>0, <2>1, FirstOfSizeLine
    <2>2. CASE n # 0
      <3>1. n \in 1..(Len(b) - 1) /\ ~(k <= n) /\ n + 1 \in 0..k
        BY <2>2
      <3>2. InSizeLine(p, b, w, n) /\ n \notin CrLfs(b)
        BY <1>2, <2>2, <3>1
      <3>3. InSizeLine(p, b, w, n + 1)
        BY <3>1, <3>2, NextOfSizeLine
      <3> QED BY <3>1, <3>3
    <2> QED BY <2>1, <2>2
  <1> HIDE DEF S
  <1>3. \A i \in 0..k : i \in S
    BY <1>0, <1>1, <1>2, Induction
  <1> QED BY <1>3 DEF S

\* Where the line ends, and what its bytes are.
LEMMA SizeLineEnds ==
  ASSUME NEW b \in Seq(Bytes), NEW p \in Place, p.at = "size", ~p.cr, NEW w \in Walks(p, b),
         NEW k \in CrLfs(b), \A j \in CrLfs(b) : k <= j
  PROVE  /\ k \in 2..(Len(b) - 1) /\ b[1].kind = "number" /\ (k > 2 => b[2].kind = "semi")
         /\ ~w[k + 1].cr /\ w[k + 1].body = p.body /\ w[k + 1].left = b[1].n
         /\ w[k + 1].at = IF b[1].n = 0 THEN "trailer" ELSE "data"
  <1>1. /\ k \in 1..(Len(b) - 1) /\ k \in 1..Len(b) /\ b[k].kind = "CR" /\ b[k + 1].kind = "LF"
        /\ Len(b) > 0
    BY PairsAre
  <1>2. \A i \in 1..k : InSizeLine(p, b, w, i)
    BY <1>1, SizeLine
  <1>3. b[1].kind = "number" /\ ~w[1].cr /\ w[1].at = "size_end"
    BY <1>1, FirstOfSizeLine
  <1>4. k # 1
    BY <1>1, <1>3
  <1>5. ASSUME k > 2 PROVE b[2].kind = "semi"
    <2>1. /\ 1 \in 1..(Len(b) - 1) /\ 2 \in 1..(Len(b) - 1) /\ 1 \in 1..k /\ 2 \in 1..k
          /\ ~(k <= 1) /\ ~(k <= 2) /\ 1 + 1 = 2 /\ 2 + 1 \in 1..Len(b) /\ (2 + 1) - 1 = 2
          /\ 2 \in 0..Len(b)
      BY <1>1, <1>5
    <2>2. 1 \notin CrLfs(b) /\ 2 \notin CrLfs(b)
      BY <2>1
    <2>3. b[2].kind \in {"semi", "CR"}
      BY <1>2, <1>3, <2>1, <2>2, NextOfSizeLine
    <2>4. ASSUME b[2].kind = "CR" PROVE FALSE
      <3>1. w[2].cr /\ w[2].at = "size_end"
        BY <1>2, <2>1, <2>4 DEF InSizeLine
      <3>2. Moves(w[2], b[2 + 1], w[2 + 1])
        BY <2>1 DEF Walks
      <3>3. b[2 + 1].kind = "LF"
        BY <3>1, <3>2 DEF Moves
      <3> QED BY <2>1, <2>2, <2>4, <3>3, PairsAre
    <2> QED BY <2>3, <2>4
  <1>6. w[k].cr /\ w[k].at = "size_end" /\ w[k].left = b[1].n /\ w[k].body = p.body
    <2>1. InSizeLine(p, b, w, k)
      BY <1>1, <1>2
    <2> QED BY <1>1, <2>1 DEF InSizeLine
  <1>7. w[k] \in Place /\ Moves(w[k], b[k + 1], w[k + 1])
    <2>1. k \in 0..Len(b) /\ k + 1 \in 1..Len(b) /\ (k + 1) - 1 = k
      BY <1>1
    <2> QED BY <2>1 DEF Walks
  <1> DEFINE q == w[k]
             r == w[k + 1]
             left == b[1].n
  <1>8. r = PlaceAt(IF q.left = 0 THEN "trailer" ELSE "data", FALSE, q.left, q.body)
    BY <1>1, <1>6, <1>7 DEF Moves
  <1>9. q \in Place /\ q.left = left /\ q.body = p.body
    BY <1>6, <1>7
  <1> HIDE DEF q, r, left
  <1>10. ~r.cr /\ r.body = p.body /\ r.left = left /\ r.at = IF left = 0 THEN "trailer" ELSE "data"
    BY <1>8, <1>9 DEF PlaceAt
  <1> QED BY <1>1, <1>3, <1>4, <1>5, <1>10 DEF q, r, left

\* A size line of a proper body has one digit, whatever extension follows.
LEMMA OneDigit ==
  ASSUME NEW line \in Seq(Bytes), Len(line) > 0, line[1].kind = "number",
         Len(line) > 1 => line[2].kind = "semi"
  PROVE  /\ Digits(line) \in Seq(Bytes) /\ Len(Digits(line)) = 1
         /\ Digits(line)[1] = line[1]
  <1> DEFINE S == {i \in DOMAIN line : line[i].kind = "semi"}
             upto == IF S = {} THEN Len(line) ELSE (CHOOSE i \in S : \A j \in S : i <= j) - 1
  <1>1. upto = 1
    <2>1. \A i \in S : i \in DOMAIN line /\ i \in 1..Len(line) /\ i # 1
      OBVIOUS
    <2>2. CASE Len(line) > 1
      <3>1. 2 \in S /\ \A j \in S : 2 <= j
        BY <2>1, <2>2
      <3> HIDE DEF S
      <3>2. \A i \in S : (\A j \in S : i <= j) => i = 2
        <4>1. ASSUME NEW i \in S, \A j \in S : i <= j PROVE i = 2
          <5>1. i \in Nat /\ i <= 2 /\ 2 <= i
            BY <2>1, <3>1, <4>1
          <5> QED BY <5>1
        <4> QED BY <4>1
      <3>3. (CHOOSE i \in S : \A j \in S : i <= j) = 2
        BY <3>1, <3>2
      <3> QED BY <3>1, <3>3
    <2>3. CASE ~(Len(line) > 1)
      <3>1. Len(line) = 1 /\ S = {}
        BY <2>1, <2>3
      <3> QED BY <3>1
    <2> QED BY <2>2, <2>3
  <1>2. Digits(line) = SubSeq(line, 1, upto)
    BY DEF Digits
  <1> HIDE DEF upto
  <1>3. Digits(line) = SubSeq(line, 1, 1)
    BY <1>1, <1>2
  <1> QED BY <1>3

\* Its value is the size.
LEMMA ValueOfOne ==
  ASSUME NEW digits \in Seq(Bytes), Len(digits) = 1, digits[1].kind = "number"
  PROVE  HexValue(digits) = digits[1].n
  <1> DEFINE size == digits[1].n
             Value(f) == [i \in 0..Len(digits) |->
                            IF i = 0 THEN 0
                            ELSE IF digits[i].kind = "sp" THEN f[i - 1] ELSE 16 * f[i - 1] + digits[i].n]
             value == CHOOSE f : f = Value(f)
             g == [i \in 0..1 |-> IF i = 0 THEN 0 ELSE size]
  <1>1. size \in Nat
    <2>1. digits[1] \in Bytes
      OBVIOUS
    <2> QED BY <2>1, ByteType, ParserAssumption
  <1>2. 0..Len(digits) = 0..1 /\ \A i \in 0..1 : i = 0 \/ i = 1
    OBVIOUS
  <1>3. \A f : f[0] = 0 => Value(f) = g
    <2>1. ASSUME NEW f, f[0] = 0, NEW i \in 0..1 PROVE Value(f)[i] = g[i]
      <3>1. CASE i = 0
        BY <3>1
      <3>2. CASE i = 1
        BY <1>1, <2>1, <3>2
      <3> QED BY <1>2, <3>1, <3>2
    <2> QED BY <1>2, <2>1
  <1>4. g[0] = 0 /\ g[1] = size
    OBVIOUS
  <1>5. value = Value(value)
    <2>1. g = Value(g)
      BY <1>3, <1>4
    <2> HIDE DEF Value, g
    <2> QED BY <2>1
  <1>6. value[0] = 0
    <2> HIDE DEF value
    <2>1. \A f : Value(f)[0] = 0
      BY <1>2
    <2> HIDE DEF Value
    <2> QED BY <1>5, <2>1
  <1>7. value = g
    <2> HIDE DEF value, Value, g
    <2> QED BY <1>3, <1>5, <1>6
  <1>8. HexValue(digits) = value[1]
    BY DEF HexValue
  <1> HIDE DEF value
  <1> QED BY <1>4, <1>7, <1>8

\* The decoder after the end of a size line.
LEMMA ReadSizeKeeps ==
  ASSUME NEW d, NEW q, d \in DecoderType, d.state = "READ_SIZE", NEW p \in Place, StandsAt(d, p),
         Leads(p, d.buffer, q), CrLfs(d.buffer) # {}
  PROVE  /\ Behind(ReadSize(d), q) /\ ReadSize(d).whole = d.whole
         /\ Len(ReadSize(d).buffer) < Len(d.buffer) \/ Waits(ReadSize(d))
  <1> DEFINE b == d.buffer
             K == CrLfs(b)
             k == CHOOSE i \in K : \A j \in K : i <= j
             line == SubSeq(b, 1, k - 1)
             size == HexValue(Digits(line))
             rest == SubSeq(b, k + 2, Len(b))
             large == [d EXCEPT !.state = "ERROR", !.size = size]
             next == [d EXCEPT !.buffer = rest, !.size = size, !.read = 0,
                               !.state = IF size = 0 THEN "DONE" ELSE "READ_DATA"]
  <1>1. b \in Seq(Bytes)
    BY DEF DecoderType
  <1>2. k \in K /\ \A j \in K : k <= j
    <2>1. K \in SUBSET Nat /\ K # {}
      BY <1>1, PairsAre
    <2> HIDE DEF K
    <2>2. \E i \in K : \A j \in K : i <= j
      BY <2>1, LeastNumber
    <2> QED BY <2>2
  <1> HIDE DEF k
  <1>3. PICK w \in Walks(p, b) : w[Len(b)] = q
    BY DEF Leads
  <1>4. p.at = "size" /\ ~p.cr /\ p.body = d.out
    BY DEF StandsAt
  <1>5. /\ k \in 2..(Len(b) - 1) /\ b[1].kind = "number" /\ (k > 2 => b[2].kind = "semi")
        /\ ~w[k + 1].cr /\ w[k + 1].body = p.body /\ w[k + 1].left = b[1].n
        /\ w[k + 1].at = IF b[1].n = 0 THEN "trailer" ELSE "data"
    <2> HIDE DEF b
    <2> QED BY <1>1, <1>2, <1>4, SizeLineEnds
  <1> HIDE DEF b, K
  <1>6. /\ line \in Seq(Bytes) /\ Len(line) = k - 1 /\ Len(line) > 0 /\ line[1] = b[1]
        /\ Len(line) > 1 => line[2] = b[2] /\ k > 2
    BY <1>1, <1>5
  <1> HIDE DEF line
  <1> DEFINE digits == Digits(line)
  <1>7. digits \in Seq(Bytes) /\ Len(digits) = 1 /\ digits[1] = b[1]
    BY <1>5, <1>6, OneDigit
  <1>8. size = b[1].n
    BY <1>5, <1>7, ValueOfOne
  <1>9. ~\E i \in DOMAIN digits : digits[i].kind \notin {"number", "sp"}
    <2> HIDE DEF digits
    <2>1. \A i \in DOMAIN digits : i = 1
      BY <1>7
    <2> QED BY <1>5, <1>7, <2>1
  <1>10. ReadSize(d) = IF size > MaxChunkSize THEN large ELSE next
    <2>1. /\ CrLfs(d.buffer) # {} /\ k = CHOOSE i \in CrLfs(d.buffer) : \A j \in CrLfs(d.buffer) : i <= j
          /\ digits = Digits(SubSeq(d.buffer, 1, k - 1)) /\ size = HexValue(digits)
      BY DEF b, K, k, line
    <2> HIDE DEF digits, large, next
    <2>2. ReadSize(d) = IF \E i \in DOMAIN digits : digits[i].kind \notin {"number", "sp"}
                          THEN [d EXCEPT !.state = "ERROR"]
                          ELSE IF size > MaxChunkSize THEN [d EXCEPT !.state = "ERROR", !.size = size]
                          ELSE [d EXCEPT !.buffer = SubSeq(@, k + 2, Len(@)), !.size = size, !.read = 0,
                                         !.state = IF size = 0 THEN "DONE" ELSE "READ_DATA"]
      BY <2>1 DEF ReadSize, k, K, b, digits, line
    <2> QED BY <1>9, <2>2 DEF large, next, rest, b
  <1>11. size \in Nat
    <2>1. b[1] \in Bytes
      BY <1>1, <1>5
    <2> QED BY <1>8, <2>1, ByteType, ParserAssumption
  <1>12. /\ rest \in Seq(Bytes) /\ Len(rest) < Len(b) /\ w[k + 1] \in Place
         /\ Leads(w[k + 1], rest, q)
    <2>1. k + 1 \in 0..Len(b) /\ (k + 1) + 1 = k + 2 /\ Len(b) - (k + 1) < Len(b)
      BY <1>5
    <2> HIDE DEF rest
    <2>2. rest = SubSeq(b, (k + 1) + 1, Len(b))
      BY <2>1 DEF rest
    <2> QED BY <1>1, <1>3, <2>1, <2>2, BytesLess
  <1> HIDE DEF size, rest
  <1>13. ASSUME size > MaxChunkSize
         PROVE  Behind(large, q) /\ large.whole = d.whole /\ Waits(large)
    <2>1. /\ large.state = "ERROR" /\ large.size = size /\ large.whole = d.whole
          /\ large \in DecoderType
      BY <1>11 DEF DecoderType
    <2> HIDE DEF large
    <2> QED BY <1>13, <2>1 DEF Behind, TooLarge, Waits
  <1>14. Behind(next, q) /\ next.whole = d.whole /\ Len(next.buffer) < Len(b)
    <2>1. /\ next.state = IF size = 0 THEN "DONE" ELSE "READ_DATA"
          /\ next.size = size /\ next.read = 0 /\ next.out = d.out /\ next.whole = d.whole
          /\ next.buffer = rest /\ next \in DecoderType
      BY <1>11, <1>12 DEF DecoderType
    <2> HIDE DEF next
    <2>2. StandsAt(next, w[k + 1])
      <3>1. size # 0 => 0 < size /\ size = size - 0
        BY <1>11
      <3> QED BY <1>4, <1>5, <1>8, <2>1, <3>1 DEF StandsAt
    <2> QED BY <1>12, <2>1, <2>2 DEF Behind
  <1> HIDE DEF large, next
  <1> QED BY <1>10, <1>13, <1>14 DEF b

\* Within the data of a chunk.
LEMMA DataBytes ==
  ASSUME NEW b \in Seq(Bytes), NEW p \in Place, p.at = "data", ~p.cr, p.left > 0,
         NEW w \in Walks(p, b), NEW k \in 0..Len(b), k <= p.left
  PROVE  /\ ~w[k].cr /\ w[k].body = p.body + k /\ w[k].left = p.left - k
         /\ w[k].at = IF k = p.left THEN "data_end" ELSE "data"
  <1> DEFINE left == p.left
             body == p.body
             In(i) == /\ ~w[i].cr /\ w[i].body = body + i /\ w[i].left = left - i
                      /\ w[i].at = IF i = left THEN "data_end" ELSE "data"
             S == {i \in 0..k : In(i)}
  <1>1. k \in Nat /\ left \in Nat /\ body \in Nat /\ left > 0 /\ k <= left
    BY DEF Place
  <1>2. 0 \in S
    <2>1. w[0] = p
      BY DEF Walks
    <2> QED BY <1>1, <2>1
  <1>3. ASSUME NEW n \in 0..(k - 1), n \in S PROVE n + 1 \in S
    <2>1. n \in 0..Len(b) /\ n + 1 \in 1..Len(b) /\ (n + 1) - 1 = n /\ n + 1 \in 0..k
      OBVIOUS
    <2>2. w[n] \in Place /\ Moves(w[n], b[n + 1], w[n + 1])
      BY <2>1 DEF Walks
    <2> DEFINE q == w[n]
               r == w[n + 1]
    <2>3. n < left
      BY <1>1
    <2>4. q \in Place /\ q.at = "data" /\ ~q.cr /\ q.body = body + n /\ q.left = left - n
      BY <1>3, <2>2, <2>3
    <2>5. r = PlaceAt(IF q.left = 1 THEN "data_end" ELSE "data", q.cr, q.left - 1, q.body + 1)
      BY <2>2, <2>4 DEF Moves
    <2> HIDE DEF q, r
    <2>6. /\ ~r.cr /\ r.body = q.body + 1 /\ r.left = q.left - 1
          /\ r.at = IF q.left = 1 THEN "data_end" ELSE "data"
      BY <2>4, <2>5 DEF PlaceAt
    <2>7. /\ (body + n) + 1 = body + (n + 1) /\ (left - n) - 1 = left - (n + 1)
          /\ left - n = 1 <=> n + 1 = left
      BY <1>1
    <2>8. /\ ~r.cr /\ r.body = body + (n + 1) /\ r.left = left - (n + 1)
          /\ r.at = IF n + 1 = left THEN "data_end" ELSE "data"
      BY <2>4, <2>6, <2>7
    <2> QED BY <2>1, <2>8 DEF r
  <1> HIDE DEF S
  <1>4. \A i \in 0..k : i \in S
    BY <1>1, <1>2, <1>3, Induction
  <1>5. k \in 0..k
    BY <1>1
  <1> QED BY <1>4, <1>5 DEF S

\* The decoder after as much of a chunk as there is.
LEMMA ReadDataKeeps ==
  ASSUME NEW d, NEW q, d \in DecoderType, d.state = "READ_DATA", NEW p \in Place, StandsAt(d, p),
         Leads(p, d.buffer, q), d.buffer # <<>>
  PROVE  /\ Behind(ReadData(d), q) /\ ReadData(d).whole = d.whole
         /\ Len(ReadData(d).buffer) < Len(d.buffer)
  <1> DEFINE b == d.buffer
             left == d.size - d.read
             k == Least(Len(b), left)
             rest == SubSeq(b, k + 1, Len(b))
             next == [d EXCEPT !.buffer = rest, !.read = @ + k, !.out = @ + k,
                               !.state = IF d.read + k = d.size THEN "READ_TRAILER" ELSE @]
  <1>1. b \in Seq(Bytes) /\ Len(b) > 0
    BY DEF DecoderType
  <1>2. /\ p.at = "data" /\ ~p.cr /\ p.body = d.out /\ p.left = left /\ d.read < d.size
        /\ d.read \in Nat /\ d.size \in Nat /\ d.out \in Nat
    BY DEF StandsAt, DecoderType
  <1>3. PICK w \in Walks(p, b) : w[Len(b)] = q
    BY DEF Leads
  <1>4. left \in Nat /\ left > 0
    BY <1>2
  <1>5. ReadData(d) = next
    BY DEF ReadData
  <1> HIDE DEF left, b
  <1>6. k \in 0..Len(b) /\ 0 < k /\ k <= left /\ k \in Nat
    BY <1>1, <1>4 DEF Least
  <1> HIDE DEF k
  <1>7. /\ ~w[k].cr /\ w[k].body = d.out + k /\ w[k].left = left - k
        /\ w[k].at = IF k = left THEN "data_end" ELSE "data"
    BY <1>1, <1>2, <1>3, <1>4, <1>6, DataBytes
  <1>8. /\ rest \in Seq(Bytes) /\ Len(rest) < Len(b) /\ w[k] \in Place /\ Leads(w[k], rest, q)
    <2>1. Len(b) - k < Len(b)
      BY <1>1, <1>6
    <2> QED BY <1>1, <1>3, <1>6, <2>1, BytesLess
  <1> HIDE DEF rest
  <1>9. /\ next.state = IF d.read + k = d.size THEN "READ_TRAILER" ELSE "READ_DATA"
        /\ next.size = d.size /\ next.read = d.read + k /\ next.out = d.out + k
        /\ next.whole = d.whole /\ next.buffer = rest /\ next \in DecoderType
    <2> DEFINE read == d.read + k
               out == d.out + k
               state == IF read = d.size THEN "READ_TRAILER" ELSE "READ_DATA"
    <2>1. read \in Nat /\ out \in Nat /\ state \in {"READ_TRAILER", "READ_DATA"}
      BY <1>2, <1>6
    <2>2. next = [d EXCEPT !.buffer = rest, !.read = read, !.out = out, !.state = state]
      BY ZenonT(20)
    <2> HIDE DEF read, out, state, next
    <2>3. /\ next.state = state /\ next.size = d.size /\ next.read = read /\ next.out = out
          /\ next.whole = d.whole /\ next.buffer = rest /\ next \in DecoderType
      BY <1>8, <2>1, <2>2 DEF DecoderType
    <2> QED BY <2>3 DEF read, out, state
  <1> HIDE DEF next
  <1>10. StandsAt(next, w[k])
    <2>1. /\ d.read + k = d.size <=> k = left
          /\ k # left => d.read + k < d.size /\ left - k = d.size - (d.read + k)
      BY <1>2, <1>6 DEF left
    <2>2. CASE k = left
      BY <1>7, <1>9, <2>1, <2>2 DEF StandsAt
    <2>3. CASE k # left
      BY <1>7, <1>9, <2>1, <2>3 DEF StandsAt
    <2> QED BY <2>2, <2>3
  <1> QED BY <1>5, <1>8, <1>9, <1>10 DEF Behind, b

\* The decoder after the end of a chunk.
LEMMA ReadTrailerKeeps ==
  ASSUME NEW d, NEW q, d \in DecoderType, d.state = "READ_TRAILER", NEW p \in Place, StandsAt(d, p),
         Leads(p, d.buffer, q), Len(d.buffer) >= 2
  PROVE  /\ Behind(ReadTrailer(d), q) /\ ReadTrailer(d).whole = d.whole
         /\ Len(ReadTrailer(d).buffer) < Len(d.buffer)
  <1> DEFINE b == d.buffer
             rest == SubSeq(b, 3, Len(b))
             next == [d EXCEPT !.buffer = rest, !.state = "READ_SIZE"]
  <1>1. b \in Seq(Bytes) /\ Len(b) >= 2
    BY DEF DecoderType
  <1>2. p.at = "data_end" /\ ~p.cr /\ p.body = d.out
    BY DEF StandsAt
  <1>3. PICK w \in Walks(p, b) : w[Len(b)] = q
    BY DEF Leads
  <1> HIDE DEF b
  <1>4. Moves(p, b[1], w[1]) /\ Moves(w[1], b[2], w[2]) /\ w[1] \in Place
    <2>1. 1 \in 1..Len(b) /\ 2 \in 1..Len(b) /\ 1 - 1 = 0 /\ 2 - 1 = 1 /\ 1 \in 0..Len(b)
      BY <1>1
    <2> QED BY <2>1 DEF Walks
  <1> DEFINE r == w[1]
             s == w[2]
  <1>5. b[1].kind = "CR" /\ r = PlaceAt("data_end", TRUE, p.left, p.body)
    BY <1>2, <1>4 DEF Moves
  <1>6. r \in Place /\ r.cr /\ r.at = "data_end" /\ r.body = p.body
    BY <1>2, <1>4, <1>5 DEF PlaceAt
  <1>7. b[2].kind = "LF" /\ s = PlaceAt("size", FALSE, r.left, r.body)
    BY <1>4, <1>6 DEF Moves
  <1> HIDE DEF r, s
  <1>8. ~s.cr /\ s.at = "size" /\ s.body = d.out
    BY <1>2, <1>6, <1>7 DEF PlaceAt
  <1>9. 1 \in CrLfs(b)
    <2>1. 1 \in 1..(Len(b) - 1) /\ 1 + 1 = 2
      BY <1>1
    <2> QED BY <1>1, <1>5, <1>7, <2>1, PairsAre
  <1>10. ReadTrailer(d) = next
    <2>1. ~(Len(d.buffer) < 2) /\ 1 \in CrLfs(d.buffer)
      BY <1>1, <1>9 DEF b
    <2> QED BY Zenon, <2>1 DEF ReadTrailer, next, rest, b
  <1>11. rest \in Seq(Bytes) /\ Len(rest) < Len(b) /\ s \in Place /\ Leads(s, rest, q)
    <2>1. 2 \in 0..Len(b) /\ 2 + 1 = 3 /\ Len(b) - 2 < Len(b)
      BY <1>1
    <2> HIDE DEF rest
    <2>2. rest = SubSeq(b, 2 + 1, Len(b))
      BY <2>1 DEF rest
    <2> QED BY <1>1, <1>3, <2>1, <2>2, BytesLess DEF s
  <1> HIDE DEF rest
  <1>12. /\ next.state = "READ_SIZE" /\ next.out = d.out /\ next.whole = d.whole
         /\ next.buffer = rest /\ next \in DecoderType
    BY <1>11 DEF DecoderType
  <1> HIDE DEF next
  <1>13. StandsAt(next, s)
    BY <1>8, <1>12 DEF StandsAt
  <1> QED BY <1>10, <1>11, <1>12, <1>13 DEF Behind, b

\* Nothing follows the last chunk.
LEMMA NothingFollows ==
  ASSUME NEW p \in Place, p.at = "trailer", NEW b \in Seq(Bytes), NEW q, Leads(p, b, q)
  PROVE  b = <<>>
  <1> SUFFICES ASSUME b # <<>> PROVE FALSE
    OBVIOUS
  <1>1. 1 \in 1..Len(b) /\ 1 - 1 = 0
    OBVIOUS
  <1>2. PICK w \in Walks(p, b) : TRUE
    BY DEF Leads
  <1>3. Moves(p, b[1], w[1])
    BY <1>1 DEF Walks
  <1> QED BY <1>3 DEF Moves

\* A turn of the loop: the decoder has consumed something or can do no more.
LEMMA TurnKeeps ==
  ASSUME NEW d, NEW q, Behind(d, q), d.buffer # <<>>
  PROVE  /\ Behind(Processed(d), q) /\ Processed(d).whole = d.whole
         /\ Len(Processed(d).buffer) < Len(d.buffer) \/ Waits(Processed(d))
  <1>1. CASE TooLarge(d)
    <2>1. d.state = "ERROR"
      BY <1>1 DEF TooLarge
    <2>2. Processed(d) = d
      BY <2>1 DEF Processed
    <2> QED BY <2>1, <2>2 DEF Waits
  <1>2. ASSUME NEW p \in Place, StandsAt(d, p), Leads(p, d.buffer, q)
        PROVE  /\ Behind(Processed(d), q) /\ Processed(d).whole = d.whole
               /\ Len(Processed(d).buffer) < Len(d.buffer) \/ Waits(Processed(d))
    <2>0. d \in DecoderType /\ d.buffer \in Seq(Bytes)
      BY DEF Behind, DecoderType
    <2>1. CASE d.state = "READ_SIZE"
      <3>1. Processed(d) = ReadSize(d)
        BY <2>1 DEF Processed
      <3>2. CASE CrLfs(d.buffer) = {}
        <4>1. ReadSize(d) = d
          BY <3>2 DEF ReadSize
        <4> QED BY <2>1, <3>1, <3>2, <4>1 DEF Waits
      <3>3. CASE CrLfs(d.buffer) # {}
        BY <1>2, <2>0, <2>1, <3>1, <3>3, ReadSizeKeeps
      <3> QED BY <3>2, <3>3
    <2>2. CASE d.state = "READ_DATA"
      <3>1. Processed(d) = ReadData(d)
        BY <2>2 DEF Processed
      <3> QED BY <1>2, <2>0, <2>2, <3>1, ReadDataKeeps
    <2>3. CASE d.state = "READ_TRAILER"
      <3>1. Processed(d) = ReadTrailer(d)
        BY <2>3 DEF Processed
      <3>2. CASE Len(d.buffer) < 2
        <4>1. 1 \notin CrLfs(d.buffer)
          BY <2>0, <3>2, PairsAre
        <4>2. ReadTrailer(d) = d
          BY Zenon, <3>2, <4>1 DEF ReadTrailer
        <4> QED BY <2>3, <3>1, <3>2, <4>2 DEF Waits
      <3>3. CASE Len(d.buffer) >= 2
        BY <1>2, <2>0, <2>3, <3>1, <3>3, ReadTrailerKeeps
      <3> QED BY <2>0, <3>2, <3>3
    <2>4. CASE d.state = "DONE"
      <3>1. p.at = "trailer"
        BY <1>2, <2>4 DEF StandsAt
      <3>2. d.buffer = <<>>
        BY <1>2, <2>0, <3>1, NothingFollows
      <3> QED BY <3>2
    <2> QED BY <1>2, <2>1, <2>2, <2>3, <2>4 DEF StandsAt
  <1> QED BY <1>1, <1>2 DEF Behind

\* What process_buffer is in after each turn, and what a turn makes of it.
TurnStates(q, whole) ==
  {x \in [decoder : DecoderType, progress : BOOLEAN] :
     Behind(x.decoder, q) /\ x.decoder.whole = whole /\ (x.progress \/ Waits(x.decoder))}

Turn(x) ==
  IF x.progress /\ x.decoder.buffer # <<>>
    THEN [decoder |-> Processed(x.decoder),
          progress |-> Len(Processed(x.decoder).buffer) < Len(x.decoder.buffer)]
    ELSE x

\* A turn leads to such a state, and shortens the buffer as long as the loop goes on.
LEMMA TurnIs ==
  ASSUME NEW q, NEW whole, NEW x \in TurnStates(q, whole)
  PROVE  /\ Turn(x) \in TurnStates(q, whole)
         /\ x.progress /\ x.decoder.buffer # <<>> /\ Turn(x).progress =>
              Len(Turn(x).decoder.buffer) < Len(x.decoder.buffer)
         /\ ~(x.progress /\ x.decoder.buffer # <<>>) => Turn(x) = x
  <1> DEFINE d == x.decoder
             e == Processed(d)
             less == Len(e.buffer) < Len(d.buffer)
  <1>1. /\ x \in [decoder : DecoderType, progress : BOOLEAN] /\ Behind(d, q) /\ d.whole = whole
        /\ x.progress \/ Waits(d)
    BY DEF TurnStates
  <1>2. CASE x.progress /\ d.buffer # <<>>
    <2>1. Behind(e, q) /\ e.whole = whole /\ (less \/ Waits(e))
      BY <1>1, <1>2, TurnKeeps
    <2>2. e \in DecoderType
      BY <2>1 DEF Behind
    <2>3. Turn(x) = [decoder |-> e, progress |-> less]
      BY <1>2 DEF Turn
    <2> HIDE DEF e
    <2>4. less \in BOOLEAN
      OBVIOUS
    <2>5. Turn(x).decoder = e /\ Turn(x).progress = less
      BY <2>3
    <2> HIDE DEF less
    <2>6. Turn(x) \in [decoder : DecoderType, progress : BOOLEAN]
      BY <2>2, <2>3, <2>4
    <2>7. Turn(x) \in TurnStates(q, whole)
      BY <2>1, <2>5, <2>6 DEF TurnStates
    <2> QED BY <1>2, <2>5, <2>7 DEF less
  <1>3. CASE ~(x.progress /\ d.buffer # <<>>)
    <2>1. Turn(x) = x
      BY <1>3 DEF Turn
    <2> QED BY <1>3, <2>1
  <1> QED BY <1>2, <1>3

\* process_buffer leaves a decoder that can do no more, behind where its buffer leads.
LEMMA Processing ==
  ASSUME NEW d, NEW q, Behind(d, q)
  PROVE  /\ Behind(ProcessBuffer(d), q) /\ ProcessBuffer(d).whole = d.whole
         /\ Waits(ProcessBuffer(d))
  <1> DEFINE m == Len(d.buffer)
             S == TurnStates(q, d.whole)
             base == [decoder |-> d, progress |-> TRUE]
             step == [i \in 1..m |-> [x \in S |-> Turn(x)]]
             Value(f) == [n \in 0..m |->
                            IF n = 0 THEN base
                            ELSE IF f[n - 1].progress /\ f[n - 1].decoder.buffer # <<>>
                                   THEN [decoder |-> Processed(f[n - 1].decoder),
                                         progress |-> Len(Processed(f[n - 1].decoder).buffer)
                                                        < Len(f[n - 1].decoder.buffer)]
                                   ELSE f[n - 1]]
             turn == CHOOSE f : f = Value(f)
  <1>1. d \in DecoderType /\ d.buffer \in Seq(Bytes) /\ m \in Nat
    BY DEF Behind, DecoderType
  <1>2. base \in S /\ base.decoder = d /\ base.progress
    BY <1>1 DEF TurnStates
  <1>3. \A f : Value(f) = [n \in 0..m |-> IF n = 0 THEN base ELSE Turn(f[n - 1])]
    BY Zenon DEF Turn
  <1>4. ProcessBuffer(d) = turn[m].decoder
    BY DEF ProcessBuffer
  <1> HIDE DEF m, S, base, Value
  <1>5. \A x \in S : Turn(x) \in S
    BY TurnIs DEF S
  <1>6. PICK f \in [0..m -> S] : f[0] = base /\ \A i \in 1..m : f[i] = step[i][f[i - 1]]
    <2>1. step \in [1..m -> [S -> S]]
      BY <1>5
    <2> HIDE DEF step
    <2>2. Chains(m, S, base, step) # {}
      BY <1>1, <1>2, <2>1, Recursion DEF Steps
    <2> QED BY <2>2 DEF Chains
  <1>7. f = Value(f)
    <2>1. ASSUME NEW i \in 1..m PROVE f[i] = Turn(f[i - 1])
      <3>1. i - 1 \in 0..m /\ f[i - 1] \in S
        BY <1>1
      <3> QED BY <1>6, <3>1
    <2>2. \A i \in 0..m : f[i] = IF i = 0 THEN base ELSE Turn(f[i - 1])
      <3>1. \A i \in 0..m : i = 0 \/ i \in 1..m
        BY <1>1
      <3>2. \A i \in 1..m : i # 0
        OBVIOUS
      <3> QED BY <1>6, <2>1, <3>1, <3>2
    <2>3. f = [i \in 0..m |-> f[i]]
      OBVIOUS
    <2> QED BY <1>3, <2>2, <2>3
  <1>8. turn = Value(turn)
    BY <1>7
  <1> HIDE DEF turn, step
  <1>9. turn[0] = base /\ \A i \in 1..m : turn[i] = Turn(turn[i - 1])
    <2>1. turn = [n \in 0..m |-> IF n = 0 THEN base ELSE Turn(turn[n - 1])]
      BY <1>3, <1>8
    <2>2. 0 \in 0..m /\ \A i \in 1..m : i \in 0..m /\ i # 0
      BY <1>1
    <2>3. \A i \in 0..m : turn[i] = IF i = 0 THEN base ELSE Turn(turn[i - 1])
      BY Zenon, <2>1
    <2> QED BY <2>2, <2>3
  <1> DEFINE Reached == {n \in 0..m : /\ turn[n] \in S
                                      /\ turn[n].progress => Len(turn[n].decoder.buffer) <= m - n}
  <1>10. 0 \in Reached
    <2>1. Len(base.decoder.buffer) <= m - 0
      BY <1>1, <1>2 DEF m
    <2> QED BY <1>1, <1>2, <1>9, <2>1
  <1>11. ASSUME NEW n \in 0..(m - 1), n \in Reached PROVE n + 1 \in Reached
    <2> DEFINE x == turn[n]
    <2>1. n + 1 \in 1..m /\ (n + 1) - 1 = n /\ n + 1 \in 0..m /\ n \in Nat
      BY <1>1
    <2>2. turn[n + 1] = Turn(x)
      BY <1>9, <2>1
    <2>3. x \in S /\ (x.progress => Len(x.decoder.buffer) <= m - n)
      BY <1>11
    <2> HIDE DEF x, Reached
    <2>4. /\ Turn(x) \in S
          /\ x.progress /\ x.decoder.buffer # <<>> /\ Turn(x).progress =>
               Len(Turn(x).decoder.buffer) < Len(x.decoder.buffer)
          /\ ~(x.progress /\ x.decoder.buffer # <<>>) => Turn(x) = x
      BY <2>3, TurnIs DEF S
    <2>5. Len(x.decoder.buffer) \in Nat /\ Len(Turn(x).decoder.buffer) \in Nat
      <3>1. \A y \in S : y.decoder \in DecoderType
        BY DEF S, TurnStates
      <3>2. \A y \in S : Len(y.decoder.buffer) \in Nat
        BY <3>1 DEF DecoderType
      <3> QED BY <2>3, <2>4, <3>2
    <2>6. ASSUME Turn(x).progress PROVE Len(Turn(x).decoder.buffer) <= m - (n + 1)
      <3>1. CASE x.progress /\ x.decoder.buffer # <<>>
        <4>1. /\ Len(x.decoder.buffer) <= m - n
              /\ Len(Turn(x).decoder.buffer) < Len(x.decoder.buffer)
          BY <2>3, <2>4, <2>6, <3>1
        <4> QED BY <1>1, <2>1, <2>5, <4>1
      <3>2. CASE ~(x.progress /\ x.decoder.buffer # <<>>)
        <4>1. Turn(x) = x /\ x.decoder.buffer = <<>>
          BY <2>4, <2>6, <3>2
        <4>2. Len(Turn(x).decoder.buffer) = 0
          BY <4>1
        <4> QED BY <1>1, <2>1, <4>2
      <3> QED BY <3>1, <3>2
    <2> QED BY <2>1, <2>2, <2>4, <2>6 DEF Reached
  <1> HIDE DEF Reached
  <1>12. m \in Reached
    <2>1. \A n \in 0..m : n \in Reached
      BY <1>1, <1>10, <1>11, Induction
    <2> QED BY <1>1, <2>1
  <1> DEFINE x == turn[m]
  <1>13. x \in S /\ (x.progress => Len(x.decoder.buffer) <= m - m)
    BY <1>12 DEF Reached
  <1> HIDE DEF x
  <1>14. x.decoder \in DecoderType /\ Behind(x.decoder, q) /\ x.decoder.whole = d.whole
         /\ (x.progress \/ Waits(x.decoder))
    BY <1>13 DEF S, TurnStates
  <1>15. ASSUME x.progress PROVE Waits(x.decoder)
    <2>1. x.decoder.buffer \in Seq(Bytes)
      BY <1>14 DEF DecoderType
    <2>2. Len(x.decoder.buffer) <= 0
      BY <1>1, <1>13, <1>15
    <2>3. x.decoder.buffer = <<>>
      BY <2>1, <2>2
    <2> QED BY <2>3 DEF Waits
  <1> QED BY <1>4, <1>14, <1>15 DEF x

\* A byte of the body that arrives.
LEMMA FedKeeps ==
  ASSUME NEW d, NEW q, Behind(d, q), NEW c \in Bytes, NEW cut \in BOOLEAN, NEW r \in Place,
         Moves(q, c, r)
  PROVE  Behind(Fed(d, c, cut), r) /\ (Fed(d, c, cut).whole => Waits(Fed(d, c, cut)))
  <1> DEFINE buffer == Append(d.buffer, c)
             more == [d EXCEPT !.buffer = buffer, !.whole = cut]
  <1>1. d \in DecoderType /\ d.buffer \in Seq(Bytes)
    BY DEF Behind, DecoderType
  <1>2. buffer \in Seq(Bytes)
    BY <1>1
  <1>3. \A p \in Place : Leads(p, d.buffer, q) => Leads(p, buffer, r)
    BY <1>1, OneByteMore
  <1>4. Fed(d, c, cut) = IF cut THEN ProcessBuffer(more) ELSE more
    BY DEF Fed
  <1> HIDE DEF buffer
  <1>5. /\ more \in DecoderType /\ more.buffer = buffer /\ more.whole = cut
        /\ more.state = d.state /\ more.size = d.size /\ more.read = d.read
        /\ more.out = d.out
    BY <1>1, <1>2 DEF DecoderType
  <1> HIDE DEF more
  <1>6. Behind(more, r)
    BY <1>3, <1>5 DEF Behind, TooLarge, StandsAt
  <1>7. cut => Behind(ProcessBuffer(more), r) /\ Waits(ProcessBuffer(more))
    BY <1>6, Processing
  <1> QED BY <1>4, <1>5, <1>6, <1>7

-----------------------------------------------------------------------------
(* The parser at a cut, and the two side by side                           *)

\* A cut has lost the parser: it has given up, or has forgotten the extension it was
\* in and will give up at the next byte.
Lost(p, m) ==
  \/ p.state = "ERROR"
  \/ m.at = "extension" /\ p.state = "CHUNK_SIZE" /\ ~p.look /\ ~p.skip

\* Wherever the recvs cut a proper message the parser follows it or is lost; a
\* chunked message has no other body.
CutInv ==
  Proper => /\ Tracks(parser, client) \/ Lost(parser, client)
            /\ IsChunked(client) => client.at \notin {"body", "end"}

\* In a chunked body the decoder stands behind the client, and after a recv it has
\* done what it can; before and after one it is as it was made.
DecoderInv ==
  Proper => IF client.at \in InChunk \cup {"trailer"}
              THEN Behind(decoder, PlaceOf(client)) /\ (decoder.whole => Waits(decoder))
              ELSE decoder = FreshDecoder

\* A byte that may end no recv is the semicolon of a size line, or the CR of a line.
LEMMA CutsIs ==
  ASSUME client \in Message, Grammar(client), NEW c \in Bytes, Sends(c), Cuts(c)
  PROVE  \/ c.kind = "semi" /\ client.at = "size_end" /\ ~client.cr /\ client'.at = "extension"
         \/ c.kind = "CR" /\ client.at \in LineEnds \ {"version_end"} /\ ~client.cr
  <1>1. ASSUME SendsRequestLine(c) PROVE FALSE
    <2>1. c.kind \notin {"semi", "CR"}
      BY <1>1 DEF SendsRequestLine, Goes
    <2> QED BY <2>1 DEF Cuts
  <1>2. ASSUME SendsField(c) PROVE FALSE
    <2>2. CASE c.kind \in Names \cup {":", "sp"}
      BY <2>2 DEF Cuts, Names
    <2>3. CASE c.kind \notin Names \cup {":", "sp"}
      <3>1. /\ client.at \in {"value", "bare_value"}
            /\ c.kind \in Values(client.fields[Len(client.fields)].name)
        BY <1>2, <2>3 DEF SendsField, Goes
      <3>2. Len(client.fields) \in DOMAIN client.fields
        <4>1. client.fields \in Seq(MessageField) /\ Len(client.fields) > 0
          BY <3>1 DEF Message, Grammar, InField
        <4> QED BY <4>1
      <3>3. client.fields[Len(client.fields)].name \in Names
        <4>1. client.fields[Len(client.fields)] \in MessageField
          BY <3>2 DEF Message
        <4> QED BY <4>1 DEF MessageField
      <3>4. c.kind \in {"number", "chunked", "close", "word"}
        BY <3>1, <3>3 DEF Values, Names
      <3> QED BY <3>4 DEF Cuts
    <2> QED BY <2>2, <2>3
  <1>3. ASSUME SendsLineEnd(c)
        PROVE  c.kind = "CR" /\ client.at \in LineEnds \ {"version_end"} /\ ~client.cr
    BY <1>3 DEF SendsLineEnd, Cuts
  <1>4. ASSUME SendsBody(c)
        PROVE  c.kind = "semi" /\ client.at = "size_end" /\ ~client.cr /\ client'.at = "extension"
    BY <1>4 DEF SendsBody, Goes, Cuts, LineEnds, Message
  <1> QED BY <1>1, <1>2, <1>3, <1>4 DEF Sends

\* After such a cut the parser is lost.
LEMMA CutLoses ==
  ASSUME NEW p, Sound(p), client \in Message, Grammar(client), Tracks(p, client), NEW c \in Bytes,
         Sends(c), Cuts(c), p.state # "COMPLETE"
  PROVE  Lost([Parse(p, c, TRUE) EXCEPT !.skip = @ /\ ~TRUE], client')
  <1> DEFINE q == Parse(p, c, TRUE)
             r == [q EXCEPT !.skip = @ /\ ~TRUE]
  <1>1. p.state = StateAt(client.at) /\ p.look = (client.cr /\ client.at # "version_end")
    BY DEF Tracks
  <1>2. ASSUME c.kind = "semi", client.at = "size_end", ~client.cr, client'.at = "extension"
        PROVE  Lost(r, client')
    <2>1. p.state = "CHUNK_SIZE" /\ ~p.look
      BY <1>1, <1>2, StateAtIs
    <2>2. q = IF p.skip THEN p ELSE [p EXCEPT !.skip = TRUE]
      <3>1. q = ParseChunkSize(p, c, TRUE)
        BY <2>1, ParseIs
      <3> QED BY <1>2, <2>1, <3>1 DEF ParseChunkSize, EndsLine
    <2>3. q \in ParserType /\ q.state = "CHUNK_SIZE" /\ q.look = p.look
      <3>1. CASE p.skip
        BY <2>1, <2>2, <3>1 DEF Sound
      <3>2. CASE ~p.skip
        <4>1. q = [p EXCEPT !.skip = TRUE]
          BY <2>2, <3>2
        <4> HIDE DEF q
        <4> QED BY <2>1, <4>1 DEF Sound, ParserType
      <3> QED BY <3>1, <3>2
    <2> HIDE DEF q
    <2>4. r.state = "CHUNK_SIZE" /\ r.look = p.look /\ r.skip = FALSE
      BY <2>3 DEF ParserType
    <2> QED BY <1>2, <2>1, <2>4 DEF Lost
  <1>3. ASSUME c.kind = "CR", client.at \in LineEnds \ {"version_end"}, ~client.cr
        PROVE  Lost(r, client')
    <2>1. ~p.look /\ EndsLine(p, c)
      BY <1>1, <1>3 DEF EndsLine
    <2>2. \A done : LineEnd(p, TRUE, done) = Failed(p)
      BY <2>1 DEF LineEnd
    <2>3. client.at \in {"field", "value_end", "size_end", "data_end"}
      BY <1>1, <1>3, StateAtIs DEF LineEnds
    <2>4. q = Failed(p)
      <3>1. \/ p.state \in {"HEADER_NAME", "HEADER_VALUE", "CHUNK_SIZE"}
            \/ p.state = "CHUNK_DATA" /\ p.chunk_read = p.chunk_size
        <4>1. client.at = "data_end" => p.chunk_read = p.chunk_size
          BY DEF Tracks, SizesTrack
        <4> QED BY <1>1, <2>3, <4>1, StateAtIs
      <3>2. p.chunk_size \in Nat
        BY DEF Sound, ParserType
      <3>3. CASE p.state = "HEADER_NAME"
        <4>1. q = LineEnd(p, TRUE, OnHeadersDone(p))
          BY <2>1, <3>3, LineEndParsed
        <4> QED BY <2>2, <4>1
      <3>4. CASE p.state = "HEADER_VALUE"
        <4>1. q = LineEnd(p, TRUE, OnHeaderComplete(p))
          BY <2>1, <3>4, LineEndParsed
        <4> QED BY <2>2, <4>1
      <3>5. CASE p.state = "CHUNK_SIZE"
        <4>1. q = LineEnd(p, TRUE, SizeLineDone([p EXCEPT !.skip = FALSE]))
          BY <2>1, <3>5, LineEndParsed
        <4> QED BY <2>2, <4>1
      <3>6. CASE p.state = "CHUNK_DATA" /\ p.chunk_read = p.chunk_size
        <4>1. q = LineEnd(p, TRUE, [p EXCEPT !.state = "CHUNK_SIZE", !.chunk_size = 0])
          BY <2>1, <3>2, <3>6, LineEndParsed
        <4> QED BY <2>2, <4>1
      <3> QED BY <3>1, <3>3, <3>4, <3>5, <3>6
    <2>5. q \in ParserType /\ q.state = "ERROR"
      BY <2>4 DEF Sound, Failed, ParserType
    <2> HIDE DEF q
    <2>6. r.state = "ERROR"
      BY <2>5 DEF ParserType
    <2> QED BY <2>6 DEF Lost
  <1> QED BY <1>2, <1>3, CutsIs

\* A parser that is lost within an extension gives up at the next byte of it.
LEMMA StaysLost ==
  ASSUME NEW p, Sound(p), client \in Message, Grammar(client), Lost(p, client), NEW c \in Bytes,
         NEW cut \in BOOLEAN, Sends(c), p.state # "ERROR"
  PROVE  Lost([Parse(p, c, cut) EXCEPT !.skip = @ /\ ~cut], client')
  <1> DEFINE q == Parse(p, c, cut)
             r == [q EXCEPT !.skip = @ /\ ~cut]
  <1>1. client.at = "extension" /\ p.state = "CHUNK_SIZE" /\ ~p.look /\ ~p.skip
    BY DEF Lost
  <1>2. c.kind = "word"
    <2>1. ~client.cr
      BY <1>1 DEF Grammar, LineEnds
    <2> QED BY <1>1, <2>1 DEF Sends, SendsRequestLine, SendsField, SendsLineEnd, SendsBody, Goes, LineEnds
  <1>3. q = Failed(p)
    <2>1. q = ParseChunkSize(p, c, cut)
      BY <1>1, ParseIs
    <2> QED BY Zenon, <1>1, <1>2, <2>1 DEF ParseChunkSize, EndsLine
  <1>4. q \in ParserType /\ q.state = "ERROR"
    BY <1>3 DEF Sound, Failed, ParserType
  <1> HIDE DEF q
  <1>5. Lost(r, client')
    BY <1>4 DEF ParserType, Lost
  <1> QED BY <1>5 DEF q

\* Out of a chunked body a byte leads into one only at its first size line, and to
\* another body or the end only from one or a message that is not chunked.
LEMMA OutOfChunks ==
  ASSUME client \in Message, Grammar(client), NEW c \in Bytes, Sends(c),
         client.at \notin InChunk \cup {"trailer"}
  PROVE  /\ client'.at \in InChunk \cup {"trailer"} =>
              client'.at = "size" /\ ~client'.cr /\ client'.body = 0
         /\ client'.at \in {"body", "end"} /\ IsChunked(client') =>
              client.at = "body" /\ IsChunked(client)
  <1>1. ASSUME SendsRequestLine(c)
        PROVE  client'.at \notin InChunk \cup {"trailer", "body", "end"}
    <2>1. client'.at \in {"method", "target", "version", "version_end"}
      BY <1>1 DEF SendsRequestLine, Goes, Message
    <2> QED BY <2>1 DEF InChunk
  <1>2. ASSUME SendsField(c)
        PROVE  client'.at \notin InChunk \cup {"trailer", "body", "end"}
    <2>1. client'.at \in {"colon", "value", "bare_value", "value_end"}
      BY <1>2 DEF SendsField, Goes, Message
    <2> QED BY <2>1 DEF InChunk
  <1>3. CASE SendsLineEnd(c)
    <2>1. CASE /\ client.at \in LineEnds /\ ~client.cr /\ c.kind = "CR"
               /\ client' = [client EXCEPT !.cr = TRUE]
      <3>1. client'.at = client.at
        BY <2>1 DEF Message
      <3> QED BY <2>1, <3>1 DEF LineEnds
    <2>2. CASE /\ client.cr /\ c.kind = "LF"
               /\ client' = [client EXCEPT !.cr = FALSE, !.at = AfterLine(client),
                                 !.left = IF AfterLine(client) = "body" THEN BodyLength(client) ELSE @]
      <3>1. /\ client'.at = AfterLine(client) /\ client.at \in LineEnds /\ ~client'.cr
            /\ client'.body = client.body /\ client'.fields = client.fields
        BY <2>2 DEF Message, Grammar
      <3>2. client.at \in {"version_end", "value_end", "field"}
        BY <3>1 DEF LineEnds, InChunk
      <3>3. client.body = 0
        BY <3>2 DEF Grammar, InHead, InField
      <3>4. CASE client.at \in {"version_end", "value_end"}
        BY <3>1, <3>4, AfterLineIs DEF InChunk
      <3>5. CASE client.at = "field"
        <4>1. IsChunked(client') = IsChunked(client)
          BY <3>1 DEF IsChunked
        <4>2. client'.at = IF IsChunked(client) THEN "size"
                           ELSE IF BodyLength(client) > 0 THEN "body" ELSE "end"
          BY <3>1, <3>5, AfterLineIs
        <4> QED BY <3>1, <3>3, <4>1, <4>2 DEF InChunk
      <3> QED BY <3>2, <3>4, <3>5
    <2> QED BY <1>3, <2>1, <2>2 DEF SendsLineEnd
  <1>4. CASE SendsBody(c)
    <2>1. /\ client.at = "body"
          /\ client' = [client EXCEPT !.left = @ - 1, !.body = @ + 1,
                                      !.at = IF client.left = 1 THEN "end" ELSE @]
      BY <1>4 DEF SendsBody, Goes, InChunk
    <2>2. client'.at \in {"body", "end"} /\ client'.fields = client.fields
      BY <2>1 DEF Message
    <2> QED BY <2>1, <2>2 DEF InChunk, IsChunked
  <1> QED BY <1>1, <1>2, <1>3, <1>4 DEF Sends

\* A byte of a chunked body is a move from place to place.
LEMMA InChunksMoves ==
  ASSUME client \in Message, Grammar(client), NEW c \in Bytes, Sends(c), client.at \in InChunk
  PROVE  /\ client'.at \in InChunk \cup {"trailer"} /\ client'.fields = client.fields
         /\ PlaceOf(client') \in Place
         /\ Moves(PlaceOf(client), c, PlaceOf(client'))
  <1> DEFINE p == PlaceOf(client)
             q == PlaceOf(client')
  <1>1. client' \in Message
    BY ClientStep
  <1>2. p.at = client.at /\ p.cr = client.cr /\ p.left = client.left /\ p.body = client.body
    BY DEF PlaceOf, PlaceAt
  <1>3. q = PlaceAt(client'.at, client'.cr, client'.left, client'.body)
    BY DEF PlaceOf
  <1> HIDE DEF p, q
  <1>4. SUFFICES /\ client'.at \in InChunk \cup {"trailer"} /\ client'.fields = client.fields
                 /\ Moves(p, c, q)
    BY <1>1, <1>3 DEF p, q, PlaceAt, Place, Message
  <1>5. ~SendsRequestLine(c) /\ ~SendsField(c)
    BY DEF SendsRequestLine, SendsField, Goes, InChunk
  <1>6. CASE SendsLineEnd(c)
    <2>1. client.at \in {"size_end", "data_end"}
      BY <1>6 DEF SendsLineEnd, Grammar, LineEnds, InChunk
    <2>2. CASE /\ ~client.cr /\ c.kind = "CR" /\ client' = [client EXCEPT !.cr = TRUE]
      <3>1. /\ client'.at = client.at /\ client'.fields = client.fields /\ client'.cr = TRUE
            /\ client'.left = client.left /\ client'.body = client.body
        BY <2>2 DEF Message
      <3> QED BY <1>2, <1>3, <2>1, <2>2, <3>1 DEF Moves
    <2>3. CASE /\ client.cr /\ c.kind = "LF"
               /\ client' = [client EXCEPT !.cr = FALSE, !.at = AfterLine(client),
                                 !.left = IF AfterLine(client) = "body" THEN BodyLength(client) ELSE @]
      <3> DEFINE at == AfterLine(client)
      <3>1. /\ client.at = "data_end" => at = "size"
            /\ client.at = "size_end" => at = IF client.left = 0 THEN "trailer" ELSE "data"
        BY AfterLineIs
      <3> HIDE DEF at
      <3>2. at # "body" /\ at \in InChunk \cup {"trailer"}
        BY <2>1, <3>1 DEF InChunk
      <3>3. client' = [client EXCEPT !.cr = FALSE, !.at = at, !.left = client.left]
        BY <2>3, <3>2 DEF at
      <3>4. /\ client'.cr = FALSE /\ client'.at = at /\ client'.fields = client.fields
            /\ client'.left = client.left /\ client'.body = client.body
        BY <3>3 DEF Message
      <3> QED BY <1>2, <1>3, <2>1, <2>3, <3>1, <3>2, <3>4 DEF Moves
    <2> QED BY <1>6, <2>2, <2>3 DEF SendsLineEnd
  <1>7. CASE SendsBody(c)
    <2>0. {"size_end", "extension", "data", "data_end"} \subseteq InChunk
      BY DEF InChunk
    <2>1. CASE /\ client.at = "size" /\ c.kind = "number"
               /\ client' = [client EXCEPT !.left = c.n, !.at = "size_end"]
      <3>1. /\ client'.at = "size_end" /\ client'.fields = client.fields /\ client'.cr = client.cr
            /\ client'.left = c.n /\ client'.body = client.body
        BY <2>1 DEF Message
      <3> QED BY <1>2, <1>3, <2>0, <2>1, <3>1 DEF Moves
    <2>2. CASE client.at = "size_end" /\ ~client.cr /\ Goes("size_end", {"semi"}, c, "extension")
      <3>1. /\ client'.at = "extension" /\ client'.fields = client.fields /\ client'.cr = client.cr
            /\ client'.left = client.left /\ client'.body = client.body /\ c.kind = "semi"
        BY <2>2 DEF Message, Goes
      <3> QED BY <1>2, <1>3, <2>0, <2>2, <3>1 DEF Moves
    <2>3. CASE Goes("extension", {"word"}, c, "size_end")
      <3>1. /\ client'.at = "size_end" /\ client'.fields = client.fields /\ client'.cr = client.cr
            /\ client'.left = client.left /\ client'.body = client.body /\ c.kind = "word"
            /\ client.at = "extension"
        BY <2>3 DEF Message, Goes
      <3> QED BY <1>2, <1>3, <2>0, <3>1 DEF Moves
    <2>4. CASE /\ client.at = "data" /\ c.kind \in {"word", "CR"}
               /\ client' = [client EXCEPT !.left = @ - 1, !.body = @ + 1,
                                           !.at = IF client.left = 1 THEN "data_end" ELSE @]
      <3>1. client.left > 0
        BY <2>4 DEF Grammar
      <3>2. /\ client'.at = IF client.left = 1 THEN "data_end" ELSE "data"
            /\ client'.fields = client.fields /\ client'.cr = client.cr
            /\ client'.left = client.left - 1 /\ client'.body = client.body + 1
        BY <2>4 DEF Message
      <3> QED BY <1>2, <1>3, <2>0, <2>4, <3>1, <3>2 DEF Moves
    <2> QED BY <1>7, <2>1, <2>2, <2>3, <2>4 DEF SendsBody, InChunk
  <1> QED BY <1>5, <1>6, <1>7 DEF Sends

\* Every step keeps it.
LEMMA CutStep ==
  ASSUME IInv, CutInv, [DecoderNext]_decoderVars
  PROVE  CutInv'
  <1>0. Sound(parser) /\ client \in Message /\ Grammar(client) /\ received \in Nat
    BY TypeIsSound DEF IInv
  <1>1. CASE Reset
    <2>1. parser' = Fresh /\ client' = NewMessage /\ client'.at = "start"
      BY <1>1 DEF Reset, NewMessage
    <2> QED BY <2>1, FreshTracks DEF CutInv
  <1>2. ASSUME NEW c \in Bytes, NEW cut \in BOOLEAN, Receive(c, cut), Proper'
        PROVE  Tracks(parser', client') \/ Lost(parser', client')
    <2> DEFINE q == Parse(parser, c, cut)
    <2>1. /\ parser.state \notin {"COMPLETE", "ERROR"} /\ Sends(c)
          /\ parser' = [q EXCEPT !.skip = @ /\ ~cut] /\ received' = received + 1
      BY <1>2 DEF Receive, Reads
    <2>2. /\ client' \in Message /\ Grammar(client') /\ client.at # "garbled" /\ WithinLimits'
          /\ WithinLimits
      BY <1>0, <1>2, <2>1, ClientStep DEF Proper
    <2>3. Tracks(parser, client) \/ Lost(parser, client)
      BY <2>2 DEF CutInv, Proper
    <2>4. CASE Tracks(parser, client) /\ (cut => ~Cuts(c))
      <3>1. Tracks(q, client')
        BY <1>0, <2>1, <2>2, <2>4, RequestLineTracks, FieldTracks, LineEndTracks, BodyTracks DEF Sends
      <3>2. cut => client'.at # "extension"
        BY <1>0, <2>1, <2>4, IntoExtension
      <3>3. Sound(q)
        BY <1>0, <2>1, ParseType
      <3> HIDE DEF q
      <3> QED BY <2>1, <3>1, <3>2, <3>3, RecvEnd
    <2>5. CASE Tracks(parser, client) /\ cut /\ Cuts(c)
      <3>1. cut = TRUE
        BY <2>5
      <3> QED BY <1>0, <2>1, <2>5, <3>1, CutLoses
    <2>6. CASE Lost(parser, client)
      BY <1>0, <2>1, <2>6, StaysLost
    <2> QED BY <2>3, <2>4, <2>5, <2>6
  <1>3. ASSUME Proper', IsChunked(client'), client'.at \in {"body", "end"},
               NEW c \in Bytes, Sends(c), received' = received + 1, client.at # "trailer"
        PROVE  FALSE
    <2>1. client.at # "garbled" /\ WithinLimits
      BY <1>0, <1>3, ClientStep DEF Proper
    <2>2. CASE client.at \in InChunk
      <3>1. client'.at \in InChunk \cup {"trailer"}
        BY <1>0, <1>3, <2>2, InChunksMoves
      <3> QED BY <1>3, <3>1 DEF InChunk
    <2>3. CASE client.at \notin InChunk
      <3>1. client.at = "body" /\ IsChunked(client)
        BY <1>0, <1>3, <2>3, OutOfChunks
      <3> QED BY <2>1, <3>1 DEF CutInv, Proper
    <2> QED BY <2>2, <2>3
  <1>4. ASSUME NEW c \in Bytes, NEW cut \in BOOLEAN, Receive(c, cut) PROVE CutInv'
    <2>1. SUFFICES ASSUME Proper' PROVE IsChunked(client') => client'.at \notin {"body", "end"}
      BY <1>2, <1>4 DEF CutInv
    <2>2. /\ Sends(c) /\ parser.state \notin {"COMPLETE", "ERROR"}
          /\ received' = received + 1
      BY <1>4 DEF Receive, Reads
    <2>3. Proper
      BY <1>0, <2>1, <2>2, ClientStep DEF Proper
    <2>4. client.at # "trailer"
      BY <2>2, <2>3, StateAtIs DEF CutInv, Tracks, Lost
    <2> QED BY <1>3, <2>1, <2>2, <2>4
  <1>5. ASSUME NEW c \in Bytes, NEW cut \in BOOLEAN, Garbled(c, cut) PROVE CutInv'
    <2>1. client'.at = "garbled"
      BY <1>0, <1>5 DEF Garbled, Message
    <2> QED BY <2>1 DEF CutInv, Proper
  <1>6. ASSUME NEW c \in Bytes, NEW cut \in BOOLEAN, FedAlone(c, cut) PROVE CutInv'
    <2>1. /\ parser' = parser /\ parser.state = "ERROR" /\ Sends(c) /\ client.at \in InChunk
      BY <1>6 DEF FedAlone, InChunks, InChunk
    <2>2. client'.at \in InChunk \cup {"trailer"}
      BY <1>0, <2>1, InChunksMoves
    <2> QED BY <2>1, <2>2 DEF CutInv, Lost, InChunk
  <1>7. CASE UNCHANGED decoderVars
    <2>1. parser' = parser /\ client' = client /\ received' = received
      BY <1>7 DEF decoderVars, vars
    <2> QED BY <2>1 DEF CutInv, Proper, WithinLimits, IsChunked
  <1>8. CASE RequestTooLarge
    BY <1>8, TooLargeStep DEF CutInv
  <1> QED BY <1>1, <1>4, <1>5, <1>6, <1>7, <1>8 DEF DecoderNext, ResetBoth, FedTogether

\* A decoder that was reset stands at the first size line.
LEMMA FreshBehind ==
  ASSUME NEW m, PlaceOf(m) \in Place, m.at = "size", ~m.cr, m.body = 0
  PROVE  Behind(FreshDecoder, PlaceOf(m)) /\ Waits(FreshDecoder)
  <1> DEFINE p == PlaceOf(m)
             d == FreshDecoder
  <1>1. p.at = "size" /\ ~p.cr /\ p.body = 0
    BY DEF PlaceOf, PlaceAt
  <1>2. <<>> \in Seq(Bytes)
    OBVIOUS
  <1>3. /\ d \in DecoderType /\ d.state = "READ_SIZE" /\ d.buffer = <<>> /\ d.out = 0
    BY <1>2 DEF FreshDecoder, DecoderType
  <1> HIDE DEF p, d
  <1>4. p \in Place /\ StandsAt(d, p) /\ Leads(p, d.buffer, p)
    BY <1>1, <1>3, NoBytes DEF StandsAt, p
  <1>5. Behind(d, p) /\ Waits(d)
    BY <1>3, <1>4 DEF Behind, Waits
  <1> QED BY <1>5 DEF p, d

\* Every step keeps it.
LEMMA DecoderStep ==
  ASSUME IInv, CutInv, DecoderInv, [DecoderNext]_decoderVars
  PROVE  DecoderInv'
  <1>0. client \in Message /\ Grammar(client) /\ received \in Nat
    BY DEF IInv
  <1>1. CASE ResetBoth
    <2>1. client'.at = "start" /\ decoder' = FreshDecoder
      BY <1>1 DEF ResetBoth, Reset, NewMessage
    <2>2. client'.at \notin InChunk \cup {"trailer"}
      BY <2>1 DEF InChunk
    <2> QED BY <2>1, <2>2 DEF DecoderInv
  <1>2. ASSUME NEW c \in Bytes, NEW cut \in BOOLEAN, Sends(c), Proper', client.at \in InChunk,
               received' = received + 1, decoder' = Fed(decoder, c, cut)
        PROVE  /\ client'.at \in InChunk \cup {"trailer"}
               /\ Behind(decoder', PlaceOf(client')) /\ (decoder'.whole => Waits(decoder'))
    <2>1. Proper
      BY <1>0, <1>2, ClientStep DEF Proper
    <2>2. Behind(decoder, PlaceOf(client))
      BY <1>2, <2>1 DEF DecoderInv
    <2>3. /\ client'.at \in InChunk \cup {"trailer"} /\ PlaceOf(client') \in Place
          /\ Moves(PlaceOf(client), c, PlaceOf(client'))
      BY <1>0, <1>2, InChunksMoves
    <2> DEFINE q == PlaceOf(client)
               r == PlaceOf(client')
               e == Fed(decoder, c, cut)
    <2>4. r \in Place /\ Moves(q, c, r) /\ Behind(decoder, q)
      BY <2>2, <2>3
    <2> HIDE DEF q, r
    <2>5. Behind(e, r) /\ (e.whole => Waits(e))
      BY <2>4, FedKeeps
    <2> HIDE DEF e
    <2>6. decoder' = e
      BY <1>2 DEF e
    <2>7. Behind(decoder', r) /\ (decoder'.whole => Waits(decoder'))
      BY <2>5, <2>6
    <2> QED BY <2>3, <2>7 DEF r
  <1>3. ASSUME NEW c \in Bytes, NEW cut \in BOOLEAN, Receive(c, cut), Proper',
               client.at \notin InChunk, decoder' = decoder
        PROVE  IF client'.at \in InChunk \cup {"trailer"}
                 THEN Behind(decoder', PlaceOf(client')) /\ (decoder'.whole => Waits(decoder'))
                 ELSE decoder' = FreshDecoder
    <2>1. /\ Sends(c) /\ parser.state \notin {"COMPLETE", "ERROR"}
          /\ received' = received + 1
      BY <1>3 DEF Receive, Reads
    <2>2. client' \in Message /\ Proper
      BY <1>0, <1>3, <2>1, ClientStep DEF Proper
    <2>3. client.at # "trailer"
      BY <2>1, <2>2, StateAtIs DEF CutInv, Tracks, Lost
    <2>4. decoder' = FreshDecoder
      BY <1>3, <2>2, <2>3 DEF DecoderInv
    <2>5. ASSUME client'.at \in InChunk \cup {"trailer"}
          PROVE  Behind(FreshDecoder, PlaceOf(client')) /\ Waits(FreshDecoder)
      <3>1. client'.at = "size" /\ ~client'.cr /\ client'.body = 0
        BY <1>0, <1>3, <2>1, <2>3, <2>5, OutOfChunks
      <3>2. PlaceOf(client') \in Place
        BY <2>2, <2>5 DEF PlaceOf, PlaceAt, Place, Message
      <3> QED BY <3>1, <3>2, FreshBehind
    <2> QED BY <2>4, <2>5
  <1>4. ASSUME NEW c \in Bytes, NEW cut \in BOOLEAN, FedTogether(c, cut), Receive(c, cut), Proper'
        PROVE  DecoderInv'
    <2>1. decoder' = IF client.at \in InChunk THEN Fed(decoder, c, cut) ELSE decoder
      BY <1>4 DEF FedTogether, InChunks, InChunk
    <2>2. Sends(c) /\ received' = received + 1
      BY <1>4 DEF Receive, Reads
    <2>3. CASE client.at \in InChunk
      <3>1. decoder' = Fed(decoder, c, cut)
        BY <2>1, <2>3
      <3> QED BY <1>2, <1>4, <2>2, <2>3, <3>1 DEF DecoderInv
    <2>4. CASE client.at \notin InChunk
      <3>1. decoder' = decoder
        BY <2>1, <2>4
      <3> QED BY <1>3, <1>4, <2>4, <3>1 DEF DecoderInv
    <2> QED BY <2>3, <2>4
  <1>5. ASSUME NEW c \in Bytes, NEW cut \in BOOLEAN, Garbled(c, cut) PROVE DecoderInv'
    <2>1. client'.at = "garbled"
      BY <1>0, <1>5 DEF Garbled, Message
    <2> QED BY <2>1 DEF DecoderInv, Proper
  <1>6. ASSUME NEW c \in Bytes, NEW cut \in BOOLEAN, FedAlone(c, cut), Proper' PROVE DecoderInv'
    <2>1. /\ Sends(c) /\ client.at \in InChunk /\ decoder' = Fed(decoder, c, cut)
          /\ received' = received + 1
      BY <1>6 DEF FedAlone, InChunks, InChunk
    <2> QED BY <1>2, <1>6, <2>1 DEF DecoderInv
  <1>7. CASE UNCHANGED decoderVars
    <2>1. /\ parser' = parser /\ client' = client /\ decoder' = decoder
          /\ received' = received
      BY <1>7 DEF decoderVars, vars
    <2> QED BY <2>1 DEF DecoderInv, Proper, WithinLimits, IsChunked
  <1>8. ASSUME NEW c \in Bytes, NEW cut \in BOOLEAN, FedTogether(c, cut) PROVE DecoderInv'
    <2>1. ~Proper' => DecoderInv'
      BY DEF DecoderInv
    <2> QED BY <1>4, <1>5, <1>8, <2>1 DEF FedTogether
  <1>9. ASSUME NEW c \in Bytes, NEW cut \in BOOLEAN, FedAlone(c, cut) PROVE DecoderInv'
    <2>1. ~Proper' => DecoderInv'
      BY DEF DecoderInv
    <2> QED BY <1>6, <1>9, <2>1
  <1>10. CASE RequestTooLarge
    BY <1>10, TooLargeStep DEF DecoderInv
  <1> QED BY <1>1, <1>7, <1>8, <1>9, <1>10 DEF DecoderNext

\* A decoder that can do no more has given on all there is, and is done where the body ends.
LEMMA AllGivenOn ==
  ASSUME NEW d \in DecoderType, NEW p \in Place, NEW q, StandsAt(d, p), Leads(p, d.buffer, q), Waits(d)
  PROVE  d.out = q.body /\ (d.state = "DONE" <=> q.at = "trailer")
  <1> DEFINE b == d.buffer
  <1>1. b \in Seq(Bytes) /\ p.body = d.out /\ ~p.cr
    BY DEF DecoderType, StandsAt
  <1>2. PICK w \in Walks(p, b) : w[Len(b)] = q
    BY DEF Leads
  <1>3. CASE b = <<>>
    <2>1. w[0] = p /\ Len(b) = 0
      BY <1>3 DEF Walks
    <2> QED BY <1>1, <1>2, <2>1 DEF StandsAt
  <1>4. CASE d.state = "READ_SIZE" /\ CrLfs(b) = {} /\ b # <<>>
    <2>1. p.at = "size" /\ Len(b) \in 1..Len(b)
      BY <1>1, <1>4 DEF StandsAt
    <2> HIDE DEF b
    <2>2. InSizeLine(p, b, w, Len(b))
      BY <1>1, <1>4, <2>1, SizeLine
    <2>3. q.at \in {"size_end", "extension"} /\ q.body = p.body
      BY <1>2, <2>2 DEF InSizeLine
    <2> QED BY <1>1, <1>4, <2>3
  <1>5. CASE d.state = "READ_TRAILER" /\ Len(b) < 2 /\ b # <<>>
    <2>0. p.at = "data_end"
      BY <1>5 DEF StandsAt
    <2> HIDE DEF b
    <2>1. Len(b) = 1 /\ 1 \in 1..Len(b) /\ 1 - 1 = 0
      <3>1. b \in Seq(Bytes) /\ b # <<>> /\ Len(b) < 2
        BY <1>1, <1>5
      <3>2. Len(b) \in Nat /\ Len(b) # 0
        BY <3>1
      <3>3. \A n \in Nat : n # 0 /\ n < 2 => n = 1
        OBVIOUS
      <3>4. Len(b) = 1
        BY <3>1, <3>2, <3>3, Zenon
      <3> QED BY <3>4
    <2>2. Moves(p, b[1], w[1])
      BY <2>1 DEF Walks
    <2>3. q = PlaceAt("data_end", TRUE, p.left, p.body)
      BY <1>1, <1>2, <2>0, <2>1, <2>2 DEF Moves
    <2> QED BY <1>1, <1>5, <2>3 DEF PlaceAt
  <1>6. d.state # "ERROR"
    BY DEF StandsAt
  <1> QED BY <1>3, <1>4, <1>5, <1>6 DEF Waits

\* What the invariants say of the body.
LEMMA SameBodyFollows ==
  ASSUME IInv, CutInv, DecoderInv
  PROVE  SameBody
  <1> SUFFICES ASSUME Proper, IsChunked(client), decoder.whole
               PROVE  IF decoder.state = "ERROR" THEN decoder.size > MaxChunkSize
                      ELSE /\ decoder.out = client.body
                           /\ decoder.state = "DONE" <=> client.at = "trailer"
                           /\ parser.state = "COMPLETE" => decoder.state = "DONE" /\ parser.body = decoder.out
    BY DEF SameBody
  <1>1. /\ client \in Message /\ Grammar(client) /\ client.at \notin {"body", "end", "garbled"}
    BY DEF IInv, CutInv, Proper
  <1>2. ASSUME parser.state = "COMPLETE" PROVE client.at = "trailer" /\ parser.body = client.body
    <2>1. Tracks(parser, client)
      BY <1>2 DEF CutInv, Lost
    <2>2. StateAt(client.at) = "COMPLETE" /\ parser.body = client.body
      BY <1>2, <2>1 DEF Tracks
    <2>3. client.at \in Positions
      BY <1>1 DEF Message
    <2> QED BY <1>1, <2>2, <2>3 DEF StateAt, Positions, InHead, InField, InChunk
  <1>3. CASE client.at \in InChunk \cup {"trailer"}
    <2> DEFINE q == PlaceOf(client)
    <2>1. Behind(decoder, q) /\ Waits(decoder)
      BY <1>3 DEF DecoderInv
    <2>2. q.at = client.at /\ q.body = client.body
      BY DEF PlaceOf, PlaceAt
    <2> HIDE DEF q
    <2>3. CASE TooLarge(decoder)
      BY <2>3 DEF TooLarge
    <2>4. ASSUME NEW p \in Place, StandsAt(decoder, p), Leads(p, decoder.buffer, q)
          PROVE  /\ decoder.state # "ERROR" /\ decoder.out = client.body
                 /\ decoder.state = "DONE" <=> client.at = "trailer"
      <3>1. decoder \in DecoderType
        BY <2>1 DEF Behind
      <3>2. decoder.state # "ERROR"
        BY <2>4 DEF StandsAt
      <3>3. decoder.out = q.body /\ (decoder.state = "DONE" <=> q.at = "trailer")
        BY <2>1, <2>4, <3>1, AllGivenOn
      <3> QED BY <2>2, <3>2, <3>3
    <2>5. CASE ~TooLarge(decoder)
      <3>1. /\ decoder.state # "ERROR" /\ decoder.out = client.body
            /\ decoder.state = "DONE" <=> client.at = "trailer"
        BY <2>1, <2>4, <2>5 DEF Behind
      <3> QED BY <1>2, <3>1
    <2> QED BY <2>3, <2>5
  <1>4. CASE client.at \notin InChunk \cup {"trailer"}
    <2>1. decoder = FreshDecoder
      BY <1>4 DEF DecoderInv
    <2>2. decoder.state = "READ_SIZE" /\ decoder.out = 0
      BY <2>1 DEF FreshDecoder
    <2>3. client.at \in InHead \cup InField \cup {"field"}
      BY <1>1, <1>4 DEF Message, Positions
    <2>4. client.body = 0
      BY <1>1, <2>3 DEF Grammar
    <2> QED BY <1>2, <1>4, <2>2, <2>4
  <1> QED BY <1>3, <1>4

\* However the recvs cut a proper chunked body, the decoder has given on all the data in
\* it after each of them, is done exactly when the body has ended, and gives the same body
\* as the parser; only a chunk that is too large is refused.
THEOREM DecoderSameBody == DecoderSpec => []SameBody
  <1>1. DecoderInit => IInv /\ CutInv /\ DecoderInv
    <2> SUFFICES ASSUME DecoderInit PROVE IInv /\ CutInv /\ DecoderInv
      OBVIOUS
    <2>1. parser = Fresh /\ client = NewMessage /\ decoder = FreshDecoder /\ client.at = "start"
      BY DEF DecoderInit, Init, NewMessage
    <2>2. client.at \notin InChunk \cup {"trailer", "body", "end"}
      BY <2>1 DEF InChunk
    <2>3. IInv
      BY Initial DEF DecoderInit
    <2> QED BY <2>1, <2>2, <2>3, FreshTracks DEF CutInv, DecoderInv
  <1>2. IInv /\ CutInv /\ DecoderInv /\ [DecoderNext]_decoderVars => (IInv /\ CutInv /\ DecoderInv)'
    BY DecoderInductive, CutStep, DecoderStep
  <1>3. IInv /\ CutInv /\ DecoderInv => SameBody
    BY SameBodyFollows
  <1> QED BY <1>1, <1>2, <1>3, PTL DEF DecoderSpec
=============================================================================
