--------------------------- MODULE ConnectionProofs ---------------------------
(***************************************************************************)
(* Theorems about Connection, for any number, length and kind of requests  *)
(* and any size of a recv: the connection implements Session, and no byte  *)
(* is lost as long as the client has at most two requests outstanding.     *)
(* (With more it may be, see connection.cpp:405 and the run                *)
(* connection_pipeline.)                                                   *)
(***************************************************************************)
EXTENDS Connection, TLAPS

-----------------------------------------------------------------------------
(* Units and requests: request r is made of the units (r-1)*Parts+1 to     *)
(* r*Parts.                                                                *)

LEMMA Products ==
  ASSUME NEW r \in Nat
  PROVE  /\ r * Parts \in Nat /\ Parts \in Nat \ {0}
         /\ (r + 1) * Parts = r * Parts + Parts
         /\ (r - 1) * Parts = r * Parts - Parts
  <1>1. Parts \in Nat \ {0}
    BY ConnectionAssumption
  <1> QED BY <1>1

LEMMA ProductOrder ==
  ASSUME NEW q \in Nat, NEW r \in Nat, q < r
  PROVE  q * Parts + Parts <= r * Parts
  <1>1. Parts \in Nat \ {0}
    BY ConnectionAssumption
  <1>2. PICK d \in Nat : r = q + 1 + d
    <2>1. r - q - 1 \in Nat /\ r = q + 1 + (r - q - 1)
      OBVIOUS
    <2> QED BY <2>1
  <1>3. r * Parts = q * Parts + Parts + d * Parts
    BY <1>1, <1>2
  <1>4. d * Parts \in Nat /\ q * Parts \in Nat /\ r * Parts \in Nat
    BY <1>1
  <1> QED BY <1>1, <1>3, <1>4

LEMMA Remainder ==
  ASSUME NEW a \in Nat, NEW q \in Nat, NEW m \in 0..(Parts - 1), a = q * Parts + m
  PROVE  a % Parts = m
  <1> DEFINE p == a \div Parts
             n == a % Parts
  <1>1. Parts \in Nat \ {0}
    BY ConnectionAssumption
  <1>2. p \in Nat /\ n \in 0..(Parts - 1) /\ a = Parts * p + n /\ Parts * p = p * Parts
    BY <1>1
  <1> HIDE DEF p, n
  <1>3. p * Parts \in Nat /\ q * Parts \in Nat
    BY <1>2, Products
  <1>4. ~(p < q) /\ ~(q < p)
    BY <1>1, <1>2, <1>3, ProductOrder
  <1>5. p = q
    BY <1>2, <1>4
  <1>6. n = m
    BY <1>1, <1>2, <1>3, <1>5
  <1> QED BY <1>6 DEF n

LEMMA RequestOfUnit ==
  ASSUME NEW u \in Nat \ {0}
  PROVE  /\ RequestOf(u) \in Nat \ {0}
         /\ RequestOf(u) * Parts - Parts < u /\ u <= RequestOf(u) * Parts
         /\ Begins(u) <=> u = RequestOf(u) * Parts - Parts + 1
  <1> DEFINE q == (u - 1) \div Parts
             m == (u - 1) % Parts
  <1>1. Parts \in Nat \ {0} /\ u - 1 \in Nat
    BY ConnectionAssumption
  <1>2. q \in Nat /\ m \in 0..(Parts - 1) /\ u - 1 = Parts * q + m
    BY <1>1
  <1>3. RequestOf(u) = q + 1
    BY DEF RequestOf
  <1>4. (q + 1) * Parts = q * Parts + Parts /\ q * Parts = Parts * q /\ q * Parts \in Nat
    BY <1>1, <1>2, Products
  <1>5. Begins(u) <=> m = 0
    <2>1. CASE Parts = 1
      BY <2>1, <1>2 DEF Begins
    <2>2. CASE Parts # 1
      <3>1. u % Parts = IF m = Parts - 1 THEN 0 ELSE m + 1
        <4>1. CASE m = Parts - 1
          <5>1. u = (q + 1) * Parts + 0 /\ q + 1 \in Nat /\ 0 \in 0..(Parts - 1)
            BY <4>1, <1>1, <1>2, <1>4
          <5> QED BY <5>1, <4>1, Remainder
        <4>2. CASE m # Parts - 1
          <5>1. u = q * Parts + (m + 1) /\ m + 1 \in 0..(Parts - 1)
            BY <4>2, <1>1, <1>2, <1>4
          <5> QED BY <5>1, <4>2, <1>2, Remainder
        <4> QED BY <4>1, <4>2
      <3> QED BY <3>1, <2>2, <1>1, <1>2 DEF Begins
    <2> QED BY <2>1, <2>2
  <1> HIDE DEF q, m
  <1> QED BY <1>1, <1>2, <1>3, <1>4, <1>5

\* The request of a unit is the only one it lies in.
LEMMA RequestUnique ==
  ASSUME NEW u \in Nat \ {0}, NEW r \in Nat \ {0}, r * Parts - Parts < u, u <= r * Parts
  PROVE  RequestOf(u) = r
  <1>1. /\ RequestOf(u) \in Nat \ {0} /\ Parts \in Nat \ {0}
        /\ RequestOf(u) * Parts - Parts < u /\ u <= RequestOf(u) * Parts
        /\ r * Parts \in Nat /\ RequestOf(u) * Parts \in Nat
    BY RequestOfUnit, Products
  <1>2. ~(RequestOf(u) < r)
    BY <1>1, ProductOrder
  <1>3. ~(r < RequestOf(u))
    BY <1>1, ProductOrder
  <1> QED BY <1>1, <1>2, <1>3

\* What a Session counts as arrived.
LEMMA ArrivedOf ==
  ASSUME NEW n \in Nat
  PROVE  (n + Parts - 1) \div Parts = IF n = 0 THEN 0 ELSE RequestOf(n)
  <1>1. Parts \in Nat \ {0}
    BY ConnectionAssumption
  <1>2. CASE n = 0
    <2>1. Parts - 1 = Parts * 0 + (Parts - 1) /\ Parts - 1 \in 0..(Parts - 1)
      BY <1>1
    <2>2. (Parts - 1) \div Parts = 0
      BY <1>1, <2>1
    <2> QED BY <1>1, <1>2, <2>2
  <1>3. CASE n # 0
    <2> DEFINE q == (n - 1) \div Parts
               m == (n - 1) % Parts
    <2>1. q \in Nat /\ m \in 0..(Parts - 1) /\ n - 1 = Parts * q + m
      BY <1>1, <1>3
    <2>2. n + Parts - 1 = Parts * (q + 1) + m
      BY <1>1, <2>1
    <2>3. (n + Parts - 1) \div Parts = q + 1
      BY <1>1, <2>1, <2>2
    <2> QED BY <1>3, <2>3 DEF RequestOf
  <1> QED BY <1>2, <1>3

LEMMA Ends ==
  ASSUME NEW a \in Nat, NEW b \in Nat, a <= b
  PROVE  Lowest(a..b) = a /\ Highest(a..b) = b
  <1>1. a \in a..b /\ \A v \in a..b : a <= v
    OBVIOUS
  <1>2. Lowest(a..b) = a
    <2>1. \A u \in a..b : (\A v \in a..b : u <= v) => u = a
      BY <1>1
    <2> QED BY <1>1, <2>1 DEF Lowest
  <1>3. b \in a..b /\ \A v \in a..b : v <= b
    OBVIOUS
  <1>4. \A u \in a..b : (\A v \in a..b : v <= u) => u = b
    BY <1>3
  <1> QED BY <1>2, <1>3, <1>4 DEF Highest

LEMMA EndFacts ==
  ASSUME kind \in [1..Requests -> Kinds], NEW r \in 1..Requests
  PROVE  /\ EndOf(r) \in Nat /\ r * Parts \in Nat
         /\ r * Parts - Parts < EndOf(r) /\ EndOf(r) <= r * Parts
         /\ EndOf(r) = r * Parts \/ (kind[r] = "chunked" /\ EndOf(r) + 1 = r * Parts)
  <1>1. r \in Nat \ {0} /\ Parts \in Nat \ {0} /\ r * Parts \in Nat /\ 0 * Parts + Parts <= r * Parts
    BY Products, ProductOrder, ConnectionAssumption
  <1>2. kind[r] = "chunked" => Parts > 1
    BY ConnectionAssumption
  <1> QED BY <1>1, <1>2 DEF EndOf

-----------------------------------------------------------------------------
(* A connection at rest, between two handlers.  n is what it has received. *)

\* The k-th request has been taken, with or without the line it leaves over.
Handled(k, n) == n = k * Parts \/ (k \in 1..Requests /\ n = EndOf(k))

\* The parser is at the unit after n: in the middle of a request, or between two.
Fits(c, n) ==
  /\ c.parser # None => c.parser * Parts - Parts < n /\ n < EndOf(c.parser)
  /\ Window <= 2 => IF c.parser = None THEN Handled(c.request_count, n)
                    ELSE c.parser = c.request_count + 1

\* It waits for more.
Reading(c, n) ==
  /\ c.op = "recv" /\ c.state = "READING_REQUEST" /\ c.pending = {} /\ c.sending = None
  /\ Fits(c, n)

\* What was received after request r is pending.
Rest(c, n, r) ==
  \E f \in 1..(n + 1) :
    /\ c.pending = f..n /\ EndOf(r) < f
    /\ Window <= 2 => r = c.request_count /\ Handled(r, f - 1)

\* It sends the answer to request r.
Replying(c, n, r) ==
  /\ c.op = "send" /\ c.state = "SENDING_RESPONSE"
  /\ c.sending = [req |-> r, close |-> ~c.keep_alive]
  /\ r * Parts - Parts < n
  /\ c.keep_alive => c.parser = None /\ Rest(c, n, r)

\* It refuses bytes that begin no request.
Refusing(c) ==
  /\ c.op = "send" /\ c.state = "SENDING_RESPONSE"
  /\ c.sending = [req |-> None, close |-> TRUE] /\ c.keep_alive = FALSE

Over(c) == c.op = "none" /\ c.state = "CLOSED"

\* What comes of parsing request r, after k others.
Turn(c, n, r, k) ==
  \/ Reading(c, n) /\ c.parser = r /\ c.request_count = k
  \/ Replying(c, n, r) /\ (c.keep_alive => c.request_count = k + 1)
  \/ Over(c)

LEMMA Sends ==
  ASSUME NEW c \in ConnectionRecord, NEW r \in 1..Requests, NEW n \in Nat,
         r * Parts - Parts < n, c.keep_alive => c.parser = None /\ Rest(c, n, r)
  PROVE  /\ SendResponse(c, r) \in ConnectionRecord /\ Replying(SendResponse(c, r), n, r)
         /\ SendResponse(c, r).request_count = c.request_count
  <1>1. [req |-> r, close |-> ~c.keep_alive] \in Answers
    BY DEF Answers, ConnectionRecord
  <1>2. SendResponse(c, r) \in ConnectionRecord
    BY <1>1 DEF SendResponse, ConnectionRecord
  <1> DEFINE d == SendResponse(c, r)
  <1>3. /\ d.op = "send" /\ d.state = "SENDING_RESPONSE" /\ d.keep_alive = c.keep_alive
        /\ d.sending = [req |-> r, close |-> ~c.keep_alive] /\ d.parser = c.parser
        /\ d.pending = c.pending /\ d.request_count = c.request_count
    BY DEF SendResponse, ConnectionRecord
  <1> HIDE DEF d
  <1>4. Replying(d, n, r)
    BY <1>3 DEF Replying, Rest
  <1> QED BY <1>2, <1>3, <1>4 DEF d

LEMMA Refuses ==
  ASSUME NEW c \in ConnectionRecord, NEW q \in (1..Requests) \cup {None}
  PROVE  /\ SendError(c, q) \in ConnectionRecord
         /\ \A n \in Nat : q \in Nat /\ q * Parts - Parts < n =>
              Replying(SendError(c, q), n, q) /\ SendError(c, q).keep_alive = FALSE
         /\ q = None => Refusing(SendError(c, q))
  <1>1. SendError(c, q) = [c EXCEPT !.keep_alive = FALSE, !.state = "SENDING_RESPONSE", !.op = "send",
                                    !.sending = [req |-> q, close |-> TRUE]]
    BY DEF SendError, SendResponse, ConnectionRecord
  <1>2. [req |-> q, close |-> TRUE] \in Answers
    BY DEF Answers
  <1>3. SendError(c, q) \in ConnectionRecord
    BY <1>1, <1>2 DEF ConnectionRecord
  <1> DEFINE d == SendError(c, q)
  <1>4. /\ d.op = "send" /\ d.state = "SENDING_RESPONSE" /\ d.keep_alive = FALSE
        /\ d.sending = [req |-> q, close |-> TRUE]
    BY <1>1 DEF ConnectionRecord
  <1> HIDE DEF d
  <1> QED BY <1>3, <1>4 DEF Replying, Refusing, d

LEMMA Closes ==
  ASSUME NEW c \in ConnectionRecord
  PROVE  Close(c) \in ConnectionRecord /\ Over(Close(c))
  BY DEF Close, Over, ConnectionRecord

\* A complete request is handled, and what is received beyond it is pending.
LEMMA Handles ==
  ASSUME NEW c \in ConnectionRecord, NEW r \in 1..Requests, NEW n \in Nat, NEW f \in 1..(n + 1),
         r * Parts - Parts < n, c.pending = f..n, EndOf(r) < f,
         Window <= 2 => r = c.request_count + 1 /\ Handled(r, f - 1),
         NEW d \in HandleRequest(TakeRequest(c, r), r)
  PROVE  d \in ConnectionRecord /\ Turn(d, n, r, c.request_count)
  <1> DEFINE e == TakeRequest(c, r)
  <1>1. e \in ConnectionRecord
    <2>1. (kind[r] # "close") \in BOOLEAN /\ c.request_count + 1 \in Nat
      BY DEF ConnectionRecord
    <2> QED BY <2>1 DEF TakeRequest, ConnectionRecord
  <1>2. e.parser = None /\ e.pending = c.pending /\ e.request_count = c.request_count + 1
    BY DEF TakeRequest, ConnectionRecord
  <1>3. d \in {SendError(e, r), SendResponse(e, r), Close(e)}
    BY DEF HandleRequest
  <1> HIDE DEF e
  <1>4. Rest(e, n, r)
    BY <1>2 DEF Rest
  <1>5. CASE d = SendError(e, r)
    <2>1. r \in Nat
      OBVIOUS
    <2> QED BY <2>1, <1>5, <1>1, Refuses DEF Turn
  <1>6. CASE d = SendResponse(e, r)
    BY <1>6, <1>1, <1>2, <1>4, Sends DEF Turn
  <1>7. CASE d = Close(e)
    BY <1>7, <1>1, Closes DEF Turn
  <1> QED BY <1>3, <1>5, <1>6, <1>7

\* start_reading posts a recv, unless the body of the request takes too long.
LEMMA StartsReading ==
  ASSUME NEW c \in ConnectionRecord, NEW n \in Nat, c.pending = {}, c.sending = None, Fits(c, n)
  PROVE  /\ StartReading(c) \in ConnectionRecord
         /\ \/ /\ Reading(StartReading(c), n)
               /\ StartReading(c).parser = c.parser
               /\ StartReading(c).request_count = c.request_count
            \/ /\ c.parser # None /\ Replying(StartReading(c), n, c.parser)
               /\ StartReading(c).keep_alive = FALSE
  <1>1. None \notin Nat /\ BodyTimeout \in Nat
    BY ConnectionAssumption
  <1>2. ASSUME NEW d \in ConnectionRecord, d.pending = {}, d.sending = None,
               d.parser = c.parser, d.request_count = c.request_count
        PROVE  /\ PostRecv(d) \in ConnectionRecord /\ Reading(PostRecv(d), n)
               /\ PostRecv(d).parser = c.parser /\ PostRecv(d).request_count = c.request_count
    <2>1. PostRecv(d) \in ConnectionRecord
      BY DEF PostRecv, ConnectionRecord
    <2>2. /\ PostRecv(d).op = "recv" /\ PostRecv(d).state = "READING_REQUEST"
          /\ PostRecv(d).pending = {} /\ PostRecv(d).sending = None
          /\ PostRecv(d).parser = c.parser /\ PostRecv(d).request_count = c.request_count
      BY <1>2 DEF PostRecv, ConnectionRecord
    <2> QED BY <2>1, <2>2 DEF Reading, Fits
  <1>3. ASSUME NEW age \in (0..(BodyTimeout + 1)) \cup {None}
        PROVE  /\ [c EXCEPT !.body_age = age] \in ConnectionRecord
               /\ [c EXCEPT !.body_age = age].pending = {}
               /\ [c EXCEPT !.body_age = age].sending = None
               /\ [c EXCEPT !.body_age = age].parser = c.parser
               /\ [c EXCEPT !.body_age = age].request_count = c.request_count
    BY DEF ConnectionRecord
  <1>4. ASSUME c.parser # None
        PROVE  /\ SendError(c, c.parser) \in ConnectionRecord
               /\ Replying(SendError(c, c.parser), n, c.parser)
               /\ SendError(c, c.parser).keep_alive = FALSE
    <2>1. c.parser \in 1..Requests /\ c.parser \in Nat /\ c.parser * Parts - Parts < n
      BY <1>4 DEF ConnectionRecord, Fits
    <2> QED BY <2>1, Refuses
  <1>5. 0 \in (0..(BodyTimeout + 1)) \cup {None} /\ None \in (0..(BodyTimeout + 1)) \cup {None}
    BY <1>1
  <1>6. \/ StartReading(c) = PostRecv([c EXCEPT !.body_age = None])
        \/ StartReading(c) = PostRecv([c EXCEPT !.body_age = 0])
        \/ StartReading(c) = PostRecv(c)
        \/ c.parser # None /\ StartReading(c) = SendError(c, c.parser)
    BY DEF StartReading
  <1>7. CASE StartReading(c) = PostRecv([c EXCEPT !.body_age = None])
    BY <1>7, <1>2, <1>3, <1>5
  <1>8. CASE StartReading(c) = PostRecv([c EXCEPT !.body_age = 0])
    BY <1>8, <1>2, <1>3, <1>5
  <1>9. CASE StartReading(c) = PostRecv(c)
    BY <1>9, <1>2
  <1> QED BY <1>4, <1>6, <1>7, <1>8, <1>9

\* An incomplete request is waited for.
LEMMA Waits ==
  ASSUME NEW c \in ConnectionRecord, NEW r \in 1..Requests, NEW n \in Nat,
         c.pending = {}, c.sending = None, r * Parts - Parts < n, n < EndOf(r),
         Window <= 2 => r = c.request_count + 1
  PROVE  /\ StartReading([c EXCEPT !.parser = r]) \in ConnectionRecord
         /\ Turn(StartReading([c EXCEPT !.parser = r]), n, r, c.request_count)
  <1> DEFINE e == [c EXCEPT !.parser = r]
  <1>1. e \in ConnectionRecord
    BY DEF ConnectionRecord
  <1>2. /\ e.pending = {} /\ e.sending = None /\ e.parser = r
        /\ e.request_count = c.request_count /\ r # None
    BY ConnectionAssumption DEF ConnectionRecord
  <1> HIDE DEF e
  <1>3. Fits(e, n)
    BY <1>2 DEF Fits
  <1>4. StartReading(e) \in ConnectionRecord /\ Turn(StartReading(e), n, r, c.request_count)
    BY <1>1, <1>2, <1>3, StartsReading DEF Turn
  <1> QED BY <1>4 DEF e

-----------------------------------------------------------------------------
\* p is an outcome of parsing the units from..to: bytes that begin no request are
\* refused, and a request is refused, complete or incomplete.
Outcome(parser, from, to, p) ==
  \/ parser = None /\ ~Begins(from) /\ p.result = "error" /\ p.request = None
  \/ \E r \in 1..Requests :
       /\ r * Parts - Parts < from
       /\ IF parser = None THEN from = r * Parts - Parts + 1 ELSE r = parser
       /\ p.request = r
       /\ \/ p.result = "error"
          \/ p.result = "complete" /\ EndOf(r) <= to /\ p.rest = (EndOf(r) + 1)..to
          \/ p.result = "incomplete" /\ to < EndOf(r)

LEMMA Parses ==
  ASSUME kind \in [1..Requests -> Kinds],
         NEW parser \in (1..Requests) \cup {None}, NEW from \in Nat \ {0}, NEW to \in Nat,
         from <= to, to <= Requests * Parts,
         parser # None => parser * Parts - Parts < from - 1 /\ from - 1 < EndOf(parser),
         NEW p \in ParseResults(parser, from, to)
  PROVE  Outcome(parser, from, to, p)
  <1> DEFINE r == RequestOf(from)
  <1>1. /\ r \in Nat \ {0} /\ r * Parts - Parts < from /\ from <= r * Parts
        /\ Begins(from) <=> from = r * Parts - Parts + 1
    BY RequestOfUnit
  <1>2. Requests \in Nat /\ Parts \in Nat \ {0} /\ r * Parts \in Nat /\ Requests * Parts \in Nat
    BY <1>1, Products, ConnectionAssumption
  <1>3. r \in 1..Requests
    <2>1. ~(Requests < r)
      BY <1>1, <1>2, ProductOrder, Products
    <2> QED BY <2>1, <1>1, <1>2
  <1>4. parser # None => r = parser
    <2> SUFFICES ASSUME parser # None PROVE r = parser
      OBVIOUS
    <2>1. parser \in 1..Requests /\ EndOf(parser) \in Nat /\ EndOf(parser) <= parser * Parts
          /\ parser * Parts \in Nat
      BY EndFacts
    <2>2. parser * Parts - Parts < from /\ from <= parser * Parts
      BY <2>1, <1>2
    <2> QED BY <2>1, <2>2, RequestUnique
  <1>5. EndOf(r) \in Nat
    BY <1>3, EndFacts
  <1>6. CASE parser = None /\ ~Begins(from)
    BY <1>6 DEF ParseResults, Outcome
  <1>7. CASE ~(parser = None /\ ~Begins(from))
    <2>1. IF parser = None THEN from = r * Parts - Parts + 1 ELSE r = parser
      BY <1>1, <1>4, <1>7
    <2>2. p.request = r
      BY <1>7 DEF ParseResults, r
    <2>3. \/ p.result = "error"
          \/ p.result = "complete" /\ ~(EndOf(r) > to) /\ p.rest = (EndOf(r) + 1)..to
          \/ p.result = "incomplete" /\ EndOf(r) > to
      BY <1>7 DEF ParseResults, r
    <2> HIDE DEF r
    <2>4. \/ p.result = "error"
          \/ p.result = "complete" /\ EndOf(r) <= to /\ p.rest = (EndOf(r) + 1)..to
          \/ p.result = "incomplete" /\ to < EndOf(r)
      BY <2>3, <1>5
    <2> QED BY <2>1, <2>2, <2>4, <1>1, <1>3 DEF Outcome
  <1> QED BY <1>6, <1>7

\* After k requests, the next to begin is the next one.
LEMMA Follows ==
  ASSUME kind \in [1..Requests -> Kinds], NEW k \in Nat, NEW n \in Nat, Handled(k, n)
  PROVE  /\ ~Begins(n + 1) => k \in 1..Requests /\ kind[k] = "chunked" /\ n = EndOf(k)
         /\ \A r \in 1..Requests : n + 1 = r * Parts - Parts + 1 => r = k + 1
  <1>1. Parts \in Nat \ {0} /\ k * Parts \in Nat /\ (k + 1) * Parts = k * Parts + Parts /\ k + 1 \in Nat \ {0}
        /\ (k + 1) * Parts \in Nat
    BY Products, ConnectionAssumption
  <1>2. CASE n = k * Parts
    <2>1. n + 1 \in Nat \ {0} /\ (k + 1) * Parts - Parts < n + 1 /\ n + 1 <= (k + 1) * Parts
      BY <1>1, <1>2
    <2>2. RequestOf(n + 1) = k + 1
      BY <2>1, <1>1, RequestUnique
    <2>3. Begins(n + 1)
      BY <2>1, <2>2, <1>1, <1>2, RequestOfUnit
    <2>4. ASSUME NEW r \in 1..Requests, n + 1 = r * Parts - Parts + 1 PROVE r = k + 1
      <3>1. r * Parts \in Nat /\ r \in Nat \ {0}
        BY Products
      <3>2. r * Parts - Parts < n + 1 /\ n + 1 <= r * Parts
        BY <2>4, <3>1, <1>1
      <3> QED BY <2>1, <2>2, <3>1, <3>2, RequestUnique
    <2> QED BY <2>3, <2>4
  <1>3. CASE n # k * Parts
    <2>1. k \in 1..Requests /\ n = EndOf(k)
      BY <1>3 DEF Handled
    <2>2. kind[k] = "chunked" /\ n + 1 = k * Parts /\ k * Parts - Parts < n
      BY <2>1, <1>3, EndFacts
    <2>3. n + 1 \in Nat \ {0} /\ k * Parts - Parts < n + 1 /\ n + 1 <= k * Parts /\ k \in Nat \ {0}
      BY <2>1, <2>2, <1>1
    <2>4. RequestOf(n + 1) = k
      BY <2>3, RequestUnique
    <2>5. ASSUME NEW r \in 1..Requests, n + 1 = r * Parts - Parts + 1 PROVE FALSE
      <3>1. r * Parts \in Nat /\ r \in Nat \ {0}
        BY Products
      <3>2. r * Parts - Parts < n + 1 /\ n + 1 <= r * Parts
        BY <2>5, <3>1, <1>1
      <3>3. r = k
        BY <2>3, <2>4, <3>1, <3>2, RequestUnique
      <3> QED BY <2>5, <3>3, <2>2, <1>1
    <2> QED BY <2>1, <2>2, <2>5
  <1> QED BY <1>2, <1>3

\* on_recv_complete, when the units n+1..to have come.
LEMMA Receives ==
  ASSUME kind \in [1..Requests -> Kinds],
         NEW c \in ConnectionRecord, NEW n \in Nat, NEW to \in Nat,
         n < to, to <= Requests * Parts, Reading(c, n), NEW d \in OnRecvComplete(c, n + 1, to)
  PROVE  /\ d \in ConnectionRecord
         /\ \/ c.parser = None /\ ~Begins(n + 1) /\ Refusing(d)
            \/ \E r \in 1..Requests :
                 /\ IF c.parser = None THEN n = r * Parts - Parts ELSE r = c.parser
                 /\ Window <= 2 => r = c.request_count + 1
                 /\ Turn(d, to, r, c.request_count)
  <1>1. /\ c.pending = {} /\ c.sending = None /\ Fits(c, n)
        /\ c.parser \in (1..Requests) \cup {None} /\ c.request_count \in Nat
    BY DEF Reading, ConnectionRecord
  <1>2. PICK p \in ParseResults(c.parser, n + 1, to) : d \in Parsed(c, p)
    BY DEF OnRecvComplete
  <1>3. Parts \in Nat \ {0} /\ Requests * Parts \in Nat
    BY Products, ConnectionAssumption
  <1>0. PICK from \in Nat \ {0} : from = n + 1
    OBVIOUS
  <1>4. Outcome(c.parser, from, to, p)
    <2>1. c.parser # None => c.parser * Parts - Parts < from - 1 /\ from - 1 < EndOf(c.parser)
      BY <1>0, <1>1 DEF Fits
    <2>2. p \in ParseResults(c.parser, from, to) /\ from <= to
      BY <1>0, <1>2
    <2> QED BY <2>1, <2>2, <1>1, Parses
  <1>5. CASE c.parser = None /\ ~Begins(from) /\ p.result = "error" /\ p.request = None
    <2>1. d = SendError(c, None)
      BY <1>2, <1>5 DEF Parsed
    <2> QED BY <2>1, <1>0, <1>5, Refuses
  <1>6. ASSUME NEW r \in 1..Requests,
               r * Parts - Parts < from,
               IF c.parser = None THEN from = r * Parts - Parts + 1 ELSE r = c.parser,
               p.request = r
        PROVE  /\ r \in Nat /\ r * Parts \in Nat /\ EndOf(r) \in Nat
               /\ r * Parts - Parts < to
               /\ IF c.parser = None THEN n = r * Parts - Parts ELSE r = c.parser
               /\ Window <= 2 => r = c.request_count + 1
    <2>1. r \in Nat /\ r * Parts \in Nat /\ EndOf(r) \in Nat
      BY EndFacts
    <2>2. r * Parts - Parts < to
      BY <1>0, <1>3, <1>6, <2>1
    <2>3. IF c.parser = None THEN n = r * Parts - Parts ELSE r = c.parser
      BY <1>0, <1>3, <1>6, <2>1
    <2>4. Window <= 2 => r = c.request_count + 1
      <3>1. CASE c.parser = None
        <4>1. Window <= 2 => Handled(c.request_count, n)
          BY <3>1, <1>1 DEF Fits
        <4>2. n + 1 = r * Parts - Parts + 1
          BY <3>1, <2>1, <2>3, <1>3
        <4> QED BY <4>1, <4>2, <1>1, Follows
      <3>2. CASE c.parser # None
        BY <3>2, <1>1, <2>3 DEF Fits
      <3> QED BY <3>1, <3>2
    <2> QED BY <2>1, <2>2, <2>3, <2>4
  <1>7. ASSUME NEW r \in 1..Requests,
               r * Parts - Parts < from,
               IF c.parser = None THEN from = r * Parts - Parts + 1 ELSE r = c.parser,
               p.request = r,
               \/ p.result = "error"
               \/ p.result = "complete" /\ EndOf(r) <= to /\ p.rest = (EndOf(r) + 1)..to
               \/ p.result = "incomplete" /\ to < EndOf(r)
        PROVE  d \in ConnectionRecord /\ Turn(d, to, r, c.request_count)
    <2>1. r \in Nat /\ EndOf(r) \in Nat /\ r * Parts - Parts < to
          /\ (Window <= 2 => r = c.request_count + 1)
      BY <1>6, <1>7
    <2>2. CASE p.result = "error"
      <3>1. d = SendError(c, r)
        BY <1>2, <1>7, <2>2 DEF Parsed
      <3> QED BY <3>1, <2>1, Refuses DEF Turn
    <2>3. CASE p.result = "complete" /\ EndOf(r) <= to /\ p.rest = (EndOf(r) + 1)..to
      <3> DEFINE e == [c EXCEPT !.body_age = None, !.pending = p.rest]
      <3>1. d \in HandleRequest(TakeRequest(e, r), r)
        BY <1>2, <1>7, <2>3 DEF Parsed
      <3>2. p.rest \in SUBSET Units
        BY <2>1, <2>3, <1>3 DEF Units
      <3>3. e \in ConnectionRecord
        BY <3>2 DEF ConnectionRecord
      <3>4. e.pending = (EndOf(r) + 1)..to /\ e.request_count = c.request_count
        BY <2>3 DEF ConnectionRecord
      <3>5. EndOf(r) + 1 \in 1..(to + 1) /\ EndOf(r) < EndOf(r) + 1 /\ Handled(r, EndOf(r) + 1 - 1)
        BY <2>1, <2>3 DEF Handled
      <3> HIDE DEF e
      <3> QED BY <3>1, <3>3, <3>4, <3>5, <2>1, Handles
    <2>4. CASE p.result = "incomplete" /\ to < EndOf(r)
      <3>1. d = StartReading([c EXCEPT !.parser = r])
        BY <1>2, <1>7, <2>4 DEF Parsed
      <3> QED BY <3>1, <2>1, <2>4, <1>1, Waits
    <2> QED BY <1>7, <2>2, <2>3, <2>4
  <1> QED BY <1>4, <1>5, <1>6, <1>7 DEF Outcome

\* on_send_complete, when request r has been answered.
LEMMA Proceeds ==
  ASSUME kind \in [1..Requests -> Kinds],
         NEW c \in ConnectionRecord, NEW n \in Nat, n <= Requests * Parts,
         NEW r \in 1..Requests, Replying(c, n, r),
         Window <= 2 /\ c.keep_alive => n <= (r + 1) * Parts,
         NEW d \in OnSendComplete(c)
  PROVE  /\ d \in ConnectionRecord
         /\ \/ Over(d)
            \/ /\ c.keep_alive
               /\ \/ /\ Reading(d, n) /\ d.parser = None /\ EndOf(r) <= n
                     /\ d.request_count = c.request_count
                  \/ Refusing(d) /\ (Window <= 2 => kind[r] = "chunked")
                  \/ \E q \in 1..Requests : /\ r < q /\ (Window <= 2 => q = r + 1)
                                            /\ Turn(d, n, q, c.request_count)
               /\ Window <= 2 => r = c.request_count
  <1> DEFINE done == [c EXCEPT !.sending = None]
             idle == [done EXCEPT !.state = "IDLE", !.parser = None, !.pending = {}]
  <1>1. /\ done \in ConnectionRecord /\ done.pending = c.pending
        /\ done.keep_alive = c.keep_alive
    BY DEF ConnectionRecord
  <1>2. /\ idle \in ConnectionRecord /\ idle.parser = None /\ idle.pending = {}
        /\ idle.sending = None /\ idle.request_count = c.request_count
    BY DEF ConnectionRecord
  <1>3. d = Close(done) \/ (c.keep_alive /\ d \in TransitionToIdle(done))
    BY DEF OnSendComplete
  <1>4. CASE d = Close(done)
    BY <1>1, <1>4, Closes
  <1>5. CASE c.keep_alive /\ d \in TransitionToIdle(done)
    <2>1. PICK f \in 1..(n + 1) :
            /\ c.pending = f..n /\ EndOf(r) < f
            /\ Window <= 2 => r = c.request_count /\ Handled(r, f - 1)
      BY <1>5 DEF Replying, Rest
    <2>2. /\ r \in Nat /\ Parts \in Nat \ {0} /\ r * Parts \in Nat /\ EndOf(r) \in Nat
          /\ r * Parts - Parts < EndOf(r) /\ Requests * Parts \in Nat
          /\ (r + 1) * Parts = r * Parts + Parts
      BY Products, EndFacts, ConnectionAssumption
    <2>3. CASE f = n + 1
      <3>1. c.pending = {}
        BY <2>1, <2>3
      <3>2. d = StartReading(idle)
        BY <3>1, <1>1, <1>5 DEF TransitionToIdle
      <3> HIDE DEF idle, done
      <3>3. Window <= 2 => Handled(c.request_count, n)
        BY <2>1, <2>3
      <3>4. Fits(idle, n)
        BY <3>3, <1>2 DEF Fits
      <3>5. /\ d \in ConnectionRecord /\ Reading(d, n) /\ d.parser = None
            /\ d.request_count = c.request_count
        BY <3>2, <3>4, <1>2, StartsReading
      <3> QED BY <3>5, <2>1, <2>2, <2>3, <1>5
    <2>4. CASE f # n + 1
      <3>1. f \in Nat \ {0} /\ f <= n /\ f \in c.pending
        BY <2>1, <2>4
      <3>2. c.pending # {} /\ Lowest(c.pending) = f /\ Highest(c.pending) = n
        BY <3>1, <2>1, Ends
      <3>3. PICK p \in ParseResults(None, f, n) : d \in Pipelined(idle, p)
        BY <3>2, <1>1, <1>5 DEF TransitionToIdle
      <3>4. \/ ~Begins(f) /\ p.result = "error" /\ p.request = None
            \/ \E q \in 1..Requests :
                 /\ q * Parts - Parts < f /\ f = q * Parts - Parts + 1 /\ p.request = q
                 /\ \/ p.result = "error"
                    \/ p.result = "complete" /\ EndOf(q) <= n
                    \/ p.result = "incomplete" /\ n < EndOf(q)
        BY <3>1, <3>3, Parses DEF Outcome
      <3> HIDE DEF idle, done
      <3>5. CASE ~Begins(f) /\ p.result = "error" /\ p.request = None
        <4>1. d = SendError(idle, None)
          BY <3>3, <3>5 DEF Pipelined
        <4>2. Window <= 2 => kind[r] = "chunked"
          <5> SUFFICES ASSUME Window <= 2 PROVE kind[r] = "chunked"
            OBVIOUS
          <5>1. PICK m \in Nat : m = f - 1 /\ m + 1 = f
            BY <3>1
          <5>2. Handled(r, m) /\ ~Begins(m + 1)
            BY <5>1, <2>1, <3>5
          <5> QED BY <5>2, <2>2, Follows
        <4> QED BY <4>1, <4>2, <1>2, <1>5, <2>1, Refuses
      <3>6. ASSUME NEW q \in 1..Requests, q * Parts - Parts < f, f = q * Parts - Parts + 1,
                   p.request = q,
                   \/ p.result = "error"
                   \/ p.result = "complete" /\ EndOf(q) <= n
                   \/ p.result = "incomplete" /\ n < EndOf(q)
            PROVE  /\ d \in ConnectionRecord
                   /\ r < q /\ (Window <= 2 => q = r + 1) /\ Turn(d, n, q, c.request_count)
        <4>1. q \in Nat /\ q * Parts \in Nat /\ EndOf(q) \in Nat /\ q * Parts - Parts < n
          <5>1. q \in Nat /\ q * Parts \in Nat /\ EndOf(q) \in Nat
            BY EndFacts
          <5> QED BY <5>1, <2>2, <3>1, <3>6
        <4>2. r < q
          <5>1. q < r => q * Parts + Parts <= r * Parts
            BY <2>2, <4>1, ProductOrder
          <5> QED BY <5>1, <2>1, <2>2, <3>6, <4>1
        <4>3. Window <= 2 => q = r + 1
          <5> SUFFICES ASSUME Window <= 2 PROVE q = r + 1
            OBVIOUS
          <5>1. PICK m \in Nat : m = f - 1 /\ m + 1 = f
            BY <3>1
          <5>2. Handled(r, m) /\ m + 1 = q * Parts - Parts + 1
            BY <5>1, <2>1, <3>6
          <5> QED BY <5>2, <2>2, Follows
        <4>4. CASE p.result = "error"
          <5>1. d = SendError(idle, q)
            BY <3>3, <3>6, <4>4 DEF Pipelined
          <5> QED BY <5>1, <4>1, <4>2, <4>3, <1>2, Refuses DEF Turn
        <4>5. CASE p.result = "complete" /\ EndOf(q) <= n
          <5>1. d \in HandleRequest(TakeRequest(idle, q), q)
            BY <3>3, <3>6, <4>5 DEF Pipelined
          <5>2. n + 1 \in 1..(n + 1) /\ idle.pending = (n + 1)..n /\ EndOf(q) < n + 1
            BY <4>1, <4>5, <1>2
          <5>3. Window <= 2 => q = idle.request_count + 1 /\ Handled(q, n + 1 - 1)
            <6> SUFFICES ASSUME Window <= 2
                         PROVE  q = idle.request_count + 1 /\ Handled(q, n + 1 - 1)
              OBVIOUS
            <6>1. q = r + 1 /\ r = c.request_count /\ n <= q * Parts
              BY <4>3, <2>1, <1>5
            <6>2. n = EndOf(q) \/ n = q * Parts
              BY <6>1, <4>1, <4>5, EndFacts
            <6> QED BY <6>1, <6>2, <1>2 DEF Handled
          <5>4. d \in ConnectionRecord /\ Turn(d, n, q, c.request_count)
            BY <5>1, <5>2, <5>3, <4>1, <1>2, Handles
          <5> QED BY <5>4, <4>2, <4>3
        <4>6. CASE p.result = "incomplete" /\ n < EndOf(q)
          <5>1. d = StartReading([idle EXCEPT !.parser = q])
            BY <3>3, <3>6, <4>6 DEF Pipelined
          <5>2. Window <= 2 => q = idle.request_count + 1
            BY <4>3, <2>1, <1>2
          <5>3. d \in ConnectionRecord /\ Turn(d, n, q, c.request_count)
            BY <5>1, <5>2, <4>1, <4>6, <1>2, Waits
          <5> QED BY <5>3, <4>2, <4>3
        <4> QED BY <3>6, <4>4, <4>5, <4>6
      <3> QED BY <3>4, <3>5, <3>6, <2>1, <1>5
    <2> QED BY <2>3, <2>4
  <1> QED BY <1>3, <1>4, <1>5

-----------------------------------------------------------------------------
(* The state of the connection and what the client has seen of it.         *)

\* Every answer so far was to a request before r, or to one that began before the
\* unit after n.
Before(r) == \A m \in DOMAIN answers : answers[m].req \in 1..Requests /\ answers[m].req < r
Passed(n) ==
  \A m \in DOMAIN answers : answers[m].req \in 1..Requests /\ answers[m].req * Parts - Parts < n

InOrder == \A m \in DOMAIN answers : answers[m].req = m

\* The client, if it is still there, has the answers to all of the k requests taken.
Caught(k) == Len(answers) <= k /\ (client = "open" => Len(answers) = k)

AtRead ==
  /\ Reading(conn, received)
  /\ IF conn.parser = None THEN Passed(received) ELSE Before(conn.parser)
  /\ Window <= 2 => InOrder /\ Caught(conn.request_count)

AtReply(r) ==
  /\ Replying(conn, received, r)
  /\ Before(r)
  /\ Window <= 2 => /\ InOrder
                    /\ conn.keep_alive => Len(answers) < conn.request_count
                    /\ client = "open" => r = Len(answers) + 1

AtRefuse ==
  /\ Refusing(conn)
  /\ Window <= 2 /\ client = "open" =>
       \E r \in 1..Requests : /\ answers # <<>> /\ answers[Len(answers)].req = r
                              /\ kind[r] = "chunked"

\* The client has not sent more than its window allows.
Owed == sent <= (Len(answers) + Window) * Parts

IInv ==
  /\ TypeOK /\ Owed
  /\ AtRead \/ (\E r \in 1..Requests : AtReply(r)) \/ AtRefuse \/ Over(conn)

LEMMA Types ==
  ASSUME TypeOK
  PROVE  /\ kind \in [1..Requests -> Kinds] /\ conn \in ConnectionRecord
         /\ sent \in Nat /\ received \in Nat /\ received <= sent /\ sent <= Requests * Parts
         /\ answers \in Seq(Answers) /\ Len(answers) \in Nat /\ conn.request_count \in Nat
         /\ Requests \in Nat /\ Parts \in Nat \ {0} /\ Window \in Nat /\ Requests * Parts \in Nat
         /\ received <= Requests * Parts
  <1>1. Requests \in Nat /\ Parts \in Nat \ {0} /\ Window \in Nat /\ Requests * Parts \in Nat
    BY Products, ConnectionAssumption
  <1> QED BY <1>1 DEF TypeOK, ConnectionRecord

LEMMA ProductGrows ==
  ASSUME NEW q \in Nat, NEW r \in Nat, q <= r
  PROVE  q * Parts <= r * Parts
  <1>1. q = r \/ q < r
    OBVIOUS
  <1>2. q * Parts \in Nat /\ r * Parts \in Nat /\ Parts \in Nat
    BY Products, ConnectionAssumption
  <1> QED BY <1>1, <1>2, ProductOrder

\* What began before request r was a request before it.
LEMMA PassedBefore ==
  ASSUME NEW r \in 1..Requests, Passed(r * Parts - Parts)
  PROVE  Before(r)
  <1> SUFFICES ASSUME NEW m \in DOMAIN answers
               PROVE  answers[m].req \in 1..Requests /\ answers[m].req < r
    BY DEF Before
  <1> DEFINE q == answers[m].req
  <1>1. q \in 1..Requests /\ q * Parts - Parts < r * Parts - Parts
    BY DEF Passed
  <1> HIDE DEF q
  <1>2. q \in Nat /\ r \in Nat /\ q * Parts \in Nat /\ r * Parts \in Nat /\ Parts \in Nat
    BY <1>1, Products, ConnectionAssumption
  <1>3. r <= q => r * Parts <= q * Parts
    BY <1>2, ProductGrows
  <1>4. q < r
    BY <1>1, <1>2, <1>3
  <1> QED BY <1>1, <1>4 DEF q

LEMMA InitIInv == Init => IInv
  <1> SUFFICES ASSUME Init PROVE IInv
    OBVIOUS
  <1>1. /\ None \notin Nat /\ Requests \in Nat /\ BodyTimeout \in Nat
        /\ Requests * Parts \in Nat /\ Window \in Nat /\ Parts \in Nat
    BY Products, ConnectionAssumption
  <1>2. conn \in ConnectionRecord
    BY <1>1 DEF Init, ConnectionRecord
  <1>3. TypeOK
    BY <1>1, <1>2 DEF Init, TypeOK
  <1>4. Owed
    <2>1. Len(answers) + Window \in Nat
      BY <1>1 DEF Init
    <2>2. (Len(answers) + Window) * Parts \in Nat
      BY <2>1, Products
    <2> QED BY <2>2 DEF Init, Owed
  <1>5. AtRead
    <2>1. Handled(0, 0)
      BY <1>1 DEF Handled
    <2> QED BY <2>1 DEF Init, AtRead, Reading, Fits, Passed, InOrder, Caught
  <1> QED BY <1>3, <1>4, <1>5 DEF IInv

\* A step that leaves the connection and the client's answers alone.
LEMMA Elsewhere ==
  ASSUME IInv, TypeOK', Owed', UNCHANGED <<kind, received, answers, conn>>,
         client' = "open" => client = "open"
  PROVE  IInv'
  <1>1. CASE AtRead
    <2>1. AtRead'
      BY <1>1 DEF AtRead, Reading, Fits, Handled, EndOf, Passed, Before, InOrder, Caught
    <2> QED BY <2>1 DEF IInv
  <1>2. ASSUME NEW r \in 1..Requests, AtReply(r) PROVE IInv'
    <2>1. AtReply(r)'
      BY <1>2 DEF AtReply, Replying, Rest, Handled, EndOf, Before, InOrder
    <2> QED BY <2>1 DEF IInv
  <1>3. CASE AtRefuse
    <2>1. AtRefuse'
      BY <1>3 DEF AtRefuse, Refusing
    <2> QED BY <2>1 DEF IInv
  <1>4. CASE Over(conn)
    BY <1>4 DEF IInv
  <1> QED BY <1>1, <1>2, <1>3, <1>4 DEF IInv

\* After a turn of the parser, whatever came of it.
LEMMA TurnIInv ==
  ASSUME TypeOK', Owed', kind' = kind, NEW r \in 1..Requests, NEW k \in Nat,
         NEW n \in Nat, received' = n, Turn(conn', n, r, k), Before(r)',
         Window <= 2 => (InOrder /\ Caught(k))' /\ r = k + 1
  PROVE  IInv'
  <1>1. CASE Reading(conn', n) /\ conn'.parser = r /\ conn'.request_count = k
    <2>1. r # None
      BY ConnectionAssumption
    <2>2. Reading(conn, received)'
      BY <1>1 DEF Reading, Fits, Handled, EndOf
    <2>3. AtRead'
      BY <1>1, <2>1, <2>2 DEF AtRead, Caught
    <2> QED BY <2>3 DEF IInv
  <1>2. CASE Replying(conn', n, r) /\ (conn'.keep_alive => conn'.request_count = k + 1)
    <2>1. Replying(conn, received, r)'
      BY <1>2 DEF Replying, Rest, Handled, EndOf
    <2>2. Len(answers') \in Nat
      BY DEF TypeOK
    <2>3. AtReply(r)'
      BY <1>2, <2>1, <2>2 DEF AtReply, Caught
    <2> QED BY <2>3 DEF IInv
  <1>3. CASE Over(conn')
    BY <1>3 DEF IInv
  <1> QED BY <1>1, <1>2, <1>3 DEF Turn

LEMMA DataIInv == ASSUME IInv, RecvData PROVE IInv'
  <1>1. PICK i \in 1..RecvUnits :
          /\ conn.op = "recv" /\ received + i <= sent /\ received' = received + i
          /\ conn' \in OnRecvComplete(conn, received + 1, received + i)
          /\ UNCHANGED <<kind, sent, client, answers>>
    BY DEF RecvData
  <1>2. TypeOK /\ RecvUnits \in Nat
    BY ConnectionAssumption DEF IInv
  <1>3. AtRead
    BY <1>1 DEF IInv, AtReply, AtRefuse, Replying, Refusing, Over
  <1>4. PICK n \in Nat, to \in Nat, k \in Nat :
          n = received /\ to = received' /\ k = conn.request_count
    BY <1>1, <1>2, Types
  <1>5. n < to /\ to <= Requests * Parts /\ Reading(conn, n) /\ conn' \in OnRecvComplete(conn, n + 1, to)
    BY <1>1, <1>2, <1>3, <1>4, Types DEF AtRead
  <1>6. /\ conn' \in ConnectionRecord
        /\ \/ conn.parser = None /\ ~Begins(n + 1) /\ Refusing(conn')
           \/ \E r \in 1..Requests :
                /\ IF conn.parser = None THEN n = r * Parts - Parts ELSE r = conn.parser
                /\ Window <= 2 => r = k + 1
                /\ Turn(conn', to, r, k)
    BY <1>2, <1>4, <1>5, Types, Receives
  <1>7. TypeOK' /\ Owed'
    <2>1. received' \in 0..sent
      BY <1>1, <1>2, Types
    <2> QED BY <1>1, <1>6, <2>1 DEF IInv, TypeOK, Owed
  <1>8. CASE conn.parser = None /\ ~Begins(n + 1) /\ Refusing(conn')
    <2>1. ASSUME Window <= 2, client' = "open"
          PROVE  \E r \in 1..Requests : /\ answers # <<>> /\ answers[Len(answers)].req = r
                                        /\ kind[r] = "chunked"
      <3>1. Handled(k, n) /\ InOrder /\ Len(answers) = k
        BY <1>1, <1>3, <1>4, <1>5, <1>8, <2>1 DEF AtRead, Reading, Fits, Caught
      <3>2. k \in 1..Requests /\ kind[k] = "chunked"
        BY <3>1, <1>2, <1>8, Types, Follows
      <3>3. k \in DOMAIN answers /\ answers # <<>>
        BY <3>1, <3>2, <1>2, Types
      <3> QED BY <3>1, <3>2, <3>3 DEF InOrder
    <2>2. AtRefuse'
      BY <1>1, <1>8, <2>1 DEF AtRefuse
    <2> QED BY <1>7, <2>2 DEF IInv
  <1>9. ASSUME NEW r \in 1..Requests,
               IF conn.parser = None THEN n = r * Parts - Parts ELSE r = conn.parser,
               Window <= 2 => r = k + 1,
               Turn(conn', to, r, k)
        PROVE  IInv'
    <2>1. Before(r)
      <3>1. CASE conn.parser = None
        <4>1. Passed(r * Parts - Parts)
          BY <3>1, <1>3, <1>4, <1>9 DEF AtRead
        <4> QED BY <4>1, PassedBefore
      <3>2. CASE conn.parser # None
        BY <3>2, <1>3, <1>9 DEF AtRead
      <3> QED BY <3>1, <3>2
    <2>2. Before(r)'
      BY <1>1, <2>1 DEF Before
    <2>3. Window <= 2 => (InOrder /\ Caught(k))'
      BY <1>1, <1>3, <1>4 DEF AtRead, InOrder, Caught
    <2> QED BY <1>1, <1>4, <1>7, <1>9, <2>2, <2>3, TurnIInv
  <1> QED BY <1>6, <1>8, <1>9

\* What the client has, once the answer to request r is sent.
LEMMA AnsweredTo ==
  ASSUME TypeOK, NEW r \in 1..Requests, AtReply(r),
         answers' = IF client = "open" THEN Append(answers, conn.sending) ELSE answers,
         UNCHANGED <<kind, sent, client, received>>
  PROVE  /\ answers' \in Seq(Answers) /\ Len(answers) <= Len(answers')
         /\ \A m \in DOMAIN answers' : answers'[m].req \in 1..Requests /\ answers'[m].req <= r
         /\ Window <= 2 => InOrder'
         /\ client = "open" => answers' # <<>> /\ answers'[Len(answers')].req = r
  <1>1. conn.sending.req = r /\ conn.sending \in Answers
    <2>1. conn.sending = [req |-> r, close |-> ~conn.keep_alive]
      BY DEF AtReply, Replying
    <2>2. (~conn.keep_alive) \in BOOLEAN
      BY Types DEF ConnectionRecord
    <2> QED BY <2>1, <2>2 DEF Answers
  <1>2. CASE client = "open"
    <2>1. answers' = Append(answers, conn.sending) /\ answers \in Seq(Answers) /\ Len(answers) \in Nat
      BY <1>2, Types
    <2>2. /\ answers' \in Seq(Answers) /\ Len(answers') = Len(answers) + 1
          /\ \A m \in 1..Len(answers) : answers'[m] = answers[m]
          /\ answers'[Len(answers) + 1] = conn.sending
          /\ DOMAIN answers' = 1..(Len(answers) + 1) /\ DOMAIN answers = 1..Len(answers)
      BY <1>1, <2>1
    <2>3. ASSUME NEW m \in DOMAIN answers'
          PROVE  answers'[m].req \in 1..Requests /\ answers'[m].req <= r
      <3>1. CASE m = Len(answers) + 1
        BY <3>1, <1>1, <2>2
      <3>2. CASE m # Len(answers) + 1
        <4>1. m \in DOMAIN answers /\ answers'[m] = answers[m]
          BY <3>2, <2>1, <2>2
        <4> QED BY <4>1 DEF AtReply, Before
      <3> QED BY <3>1, <3>2
    <2>4. ASSUME Window <= 2, NEW m \in DOMAIN answers' PROVE answers'[m].req = m
      <3>1. CASE m = Len(answers) + 1
        BY <3>1, <1>1, <1>2, <2>2, <2>4 DEF AtReply
      <3>2. CASE m # Len(answers) + 1
        <4>1. m \in DOMAIN answers /\ answers'[m] = answers[m]
          BY <3>2, <2>1, <2>2
        <4> QED BY <4>1, <2>4 DEF AtReply, InOrder
      <3> QED BY <3>1, <3>2
    <2>5. answers' # <<>> /\ answers'[Len(answers')].req = r
      BY <1>1, <2>1, <2>2
    <2> QED BY <2>1, <2>2, <2>3, <2>4, <2>5 DEF InOrder
  <1>3. CASE client # "open"
    <2>1. answers' = answers
      BY <1>3
    <2>2. Window <= 2 => InOrder'
      BY <2>1 DEF AtReply, InOrder
    <2>3. ASSUME NEW m \in DOMAIN answers
          PROVE  answers[m].req \in 1..Requests /\ answers[m].req <= r
      BY DEF AtReply, Before
    <2> QED BY <1>3, <2>1, <2>2, <2>3, Types
  <1> QED BY <1>2, <1>3

LEMMA CompletesIInv == ASSUME IInv, SendCompletes PROVE IInv'
  <1>1. /\ conn.op = "send"
        /\ answers' = IF client = "open" THEN Append(answers, conn.sending) ELSE answers
        /\ conn' \in OnSendComplete(conn)
        /\ UNCHANGED <<kind, sent, client, received>>
    BY DEF SendCompletes
  <1>2. TypeOK /\ Owed
    BY DEF IInv
  <1>3. ASSUME answers' \in Seq(Answers), Len(answers) <= Len(answers'), conn' \in ConnectionRecord
        PROVE  TypeOK' /\ Owed'
    <2>1. TypeOK'
      BY <1>1, <1>2, <1>3 DEF TypeOK
    <2>2. Len(answers) + Window \in Nat /\ Len(answers') + Window \in Nat
          /\ Len(answers) + Window <= Len(answers') + Window
      BY <1>2, <1>3, Types
    <2>3. (Len(answers) + Window) * Parts <= (Len(answers') + Window) * Parts
      BY <2>2, ProductGrows
    <2>4. (Len(answers) + Window) * Parts \in Nat /\ (Len(answers') + Window) * Parts \in Nat
      BY <2>2, Products
    <2>5. Owed'
      BY <1>1, <1>2, <2>3, <2>4, Types DEF Owed
    <2> QED BY <2>1, <2>5
  <1>4. CASE AtRefuse
    <2>1. conn' \in ConnectionRecord /\ Over(conn')
      <3> DEFINE done == [conn EXCEPT !.sending = None]
      <3>1. done \in ConnectionRecord
        BY <1>2, Types DEF ConnectionRecord
      <3>2. conn' = Close(done)
        BY <1>1, <1>4 DEF OnSendComplete, AtRefuse, Refusing
      <3> HIDE DEF done
      <3> QED BY <3>1, <3>2, Closes
    <2>2. conn.sending \in Answers
      BY <1>4 DEF AtRefuse, Refusing, Answers
    <2>3. answers' \in Seq(Answers) /\ Len(answers) <= Len(answers')
      BY <1>1, <1>2, <2>2, Types
    <2> QED BY <2>1, <2>3, <1>3 DEF IInv
  <1>5. ASSUME NEW r \in 1..Requests, AtReply(r) PROVE IInv'
    <2>1. /\ answers' \in Seq(Answers) /\ Len(answers) <= Len(answers')
          /\ \A m \in DOMAIN answers' : answers'[m].req \in 1..Requests /\ answers'[m].req <= r
          /\ Window <= 2 => InOrder'
          /\ client = "open" => answers' # <<>> /\ answers'[Len(answers')].req = r
      BY <1>1, <1>2, <1>5, AnsweredTo
    <2>2. PICK n \in Nat, k \in Nat : n = received /\ k = conn.request_count
      BY <1>2, Types
    <2>3. Replying(conn, n, r) /\ n <= Requests * Parts
      BY <1>2, <1>5, <2>2, Types DEF AtReply
    <2>4. ASSUME Window <= 2, conn.keep_alive PROVE r = k /\ Len(answers) < r
      <3>1. r = k
        BY <2>2, <2>3, <2>4 DEF Replying, Rest
      <3> QED BY <3>1, <1>5, <2>2, <2>4 DEF AtReply
    <2>5. Window <= 2 /\ conn.keep_alive => n <= (r + 1) * Parts
      <3> SUFFICES ASSUME Window <= 2, conn.keep_alive PROVE n <= (r + 1) * Parts
        OBVIOUS
      <3>1. Len(answers) + Window \in Nat /\ r + 1 \in Nat /\ Len(answers) + Window <= r + 1
        BY <2>4, <1>2, Types
      <3>2. (Len(answers) + Window) * Parts <= (r + 1) * Parts
        BY <3>1, ProductGrows
      <3>3. (Len(answers) + Window) * Parts \in Nat /\ (r + 1) * Parts \in Nat
        BY <3>1, Products
      <3> QED BY <3>2, <3>3, <1>2, <2>2, Types DEF Owed
    <2>6. /\ conn' \in ConnectionRecord
          /\ \/ Over(conn')
             \/ /\ conn.keep_alive
                /\ \/ /\ Reading(conn', n) /\ conn'.parser = None /\ EndOf(r) <= n
                      /\ conn'.request_count = k
                   \/ Refusing(conn') /\ (Window <= 2 => kind[r] = "chunked")
                   \/ \E q \in 1..Requests : /\ r < q /\ (Window <= 2 => q = r + 1)
                                             /\ Turn(conn', n, q, k)
                /\ Window <= 2 => r = k
      BY <1>1, <1>2, <2>2, <2>3, <2>5, Types, Proceeds
    <2>7. TypeOK' /\ Owed' /\ received' = n
      BY <1>1, <1>3, <2>1, <2>2, <2>6
    <2>8. Window <= 2 /\ conn.keep_alive => Caught(k)'
      <3> SUFFICES ASSUME Window <= 2, conn.keep_alive PROVE Caught(k)'
        OBVIOUS
      <3>1. CASE client = "open"
        <4>1. Len(answers') = Len(answers) + 1 /\ r = Len(answers) + 1
          BY <3>1, <1>1, <1>2, <1>5, Types DEF AtReply
        <4> QED BY <4>1, <2>4, <1>2, Types DEF Caught
      <3>2. CASE client # "open"
        <4>1. answers' = answers /\ client' = client
          BY <3>2, <1>1
        <4> QED BY <4>1, <3>2, <2>4, <1>2, Types DEF Caught
      <3> QED BY <3>1, <3>2
    <2>9. CASE Over(conn')
      BY <2>7, <2>9 DEF IInv
    <2>10. CASE /\ conn.keep_alive
                /\ Reading(conn', n) /\ conn'.parser = None /\ EndOf(r) <= n
                /\ conn'.request_count = k
      <3>1. Passed(received)'
        <4> SUFFICES ASSUME NEW m \in DOMAIN answers'
                     PROVE  /\ answers'[m].req \in 1..Requests
                            /\ answers'[m].req * Parts - Parts < n
          BY <2>7 DEF Passed
        <4> DEFINE q == answers'[m].req
        <4>1. q \in 1..Requests /\ q <= r
          BY <2>1
        <4> HIDE DEF q
        <4>2. /\ q * Parts \in Nat /\ r * Parts \in Nat /\ Parts \in Nat /\ EndOf(r) \in Nat
              /\ r * Parts - Parts < EndOf(r) /\ q * Parts <= r * Parts
          <5>1. q \in Nat /\ r \in Nat
            BY <4>1
          <5>2. /\ r * Parts \in Nat /\ EndOf(r) \in Nat /\ r * Parts - Parts < EndOf(r)
            BY <1>2, Types, EndFacts
          <5> QED BY <5>1, <5>2, <4>1, <1>2, Types, Products, ProductGrows
        <4>3. q * Parts - Parts < n
          BY <4>2, <2>10
        <4> QED BY <4>1, <4>3 DEF q
      <3>2. Reading(conn, received)'
        BY <1>1, <2>7, <2>10 DEF Reading, Fits, Handled, EndOf
      <3>3. AtRead'
        BY <3>1, <3>2, <2>1, <2>8, <2>10 DEF AtRead
      <3> QED BY <3>3, <2>7 DEF IInv
    <2>11. CASE Refusing(conn') /\ (Window <= 2 => kind[r] = "chunked")
      <3>1. AtRefuse'
        BY <1>1, <2>1, <2>11 DEF AtRefuse
      <3> QED BY <3>1, <2>7 DEF IInv
    <2>12. ASSUME conn.keep_alive, Window <= 2 => r = k,
                  NEW q \in 1..Requests, r < q, Window <= 2 => q = r + 1, Turn(conn', n, q, k)
           PROVE  IInv'
      <3>1. Before(q)'
        <4> SUFFICES ASSUME NEW m \in DOMAIN answers'
                     PROVE  answers'[m].req \in 1..Requests /\ answers'[m].req < q
          BY DEF Before
        <4>1. answers'[m].req \in 1..Requests /\ answers'[m].req <= r
          BY <2>1
        <4> QED BY <4>1, <2>12
      <3>2. Window <= 2 => (InOrder /\ Caught(k))' /\ q = k + 1
        BY <2>1, <2>8, <2>12
      <3> QED BY <1>1, <2>7, <2>12, <3>1, <3>2, TurnIInv
    <2> QED BY <2>6, <2>9, <2>10, <2>11, <2>12
  <1> QED BY <1>1, <1>4, <1>5 DEF IInv, AtRead, Reading, Over

\* Time changes nothing but the age of a body.
LEMMA TickIInv == ASSUME IInv, Tick PROVE IInv' /\ conn'.state = conn.state
  <1>1. BodyTimeout \in Nat /\ None \notin Nat
    BY ConnectionAssumption
  <1>2. conn \in ConnectionRecord /\ TypeOK /\ Owed
    BY DEF IInv, TypeOK
  <1> DEFINE age == IF conn.body_age = None \/ conn.body_age > BodyTimeout THEN conn.body_age
                    ELSE conn.body_age + 1
  <1>3. age \in (0..(BodyTimeout + 1)) \cup {None}
    BY <1>1, <1>2 DEF ConnectionRecord
  <1>4. conn' = [conn EXCEPT !.body_age = age] /\ UNCHANGED <<kind, sent, client, received, answers>>
    BY <1>2 DEF Tick, ConnectionRecord
  <1> HIDE DEF age
  <1>5. conn' \in ConnectionRecord
    BY <1>2, <1>3, <1>4 DEF ConnectionRecord
  <1>6. /\ conn'.op = conn.op /\ conn'.state = conn.state /\ conn'.pending = conn.pending
        /\ conn'.sending = conn.sending /\ conn'.parser = conn.parser
        /\ conn'.keep_alive = conn.keep_alive /\ conn'.request_count = conn.request_count
    BY <1>2, <1>4 DEF ConnectionRecord
  <1>7. TypeOK' /\ Owed'
    BY <1>2, <1>4, <1>5 DEF TypeOK, Owed
  <1>8. ASSUME AtRead PROVE IInv'
    <2>1. AtRead'
      BY <1>4, <1>6, <1>8
         DEF AtRead, Reading, Fits, Handled, EndOf, Passed, Before, InOrder, Caught
    <2> QED BY <2>1, <1>7 DEF IInv
  <1>9. ASSUME NEW r \in 1..Requests, AtReply(r) PROVE IInv'
    <2>1. AtReply(r)'
      BY <1>4, <1>6, <1>9 DEF AtReply, Replying, Rest, Handled, EndOf, Before, InOrder
    <2> QED BY <2>1, <1>7 DEF IInv
  <1>10. ASSUME AtRefuse PROVE IInv'
    <2>1. AtRefuse'
      BY <1>4, <1>6, <1>10 DEF AtRefuse, Refusing
    <2> QED BY <2>1, <1>7 DEF IInv
  <1>11. ASSUME Over(conn) PROVE IInv'
    BY <1>6, <1>7, <1>11 DEF IInv, Over
  <1>12. AtRead \/ (\E r \in 1..Requests : AtReply(r)) \/ AtRefuse \/ Over(conn)
    BY DEF IInv
  <1>13. IInv'
    BY <1>8, <1>9, <1>10, <1>11, <1>12
  <1> QED BY <1>6, <1>13

LEMMA NextIInv == ASSUME IInv, [Next]_vars PROVE IInv'
  <1>0. TypeOK /\ Owed
    BY DEF IInv
  <1>1. CASE ClientSends
    <2>1. sent \in Nat /\ received \in 0..sent /\ Requests * Parts \in Nat
      BY <1>0, Types
    <2>2. sent' = sent + 1 /\ sent' \in 0..(Requests * Parts) /\ received \in 0..sent'
      BY <1>1, <2>1 DEF ClientSends
    <2>3. TypeOK'
      BY <1>0, <1>1, <2>2 DEF ClientSends, TypeOK
    <2>4. Owed'
      <3> DEFINE q == RequestOf(sent + 1)
      <3>1. q \in Nat /\ sent + 1 <= q * Parts
        BY <2>1, RequestOfUnit
      <3>2. q <= Len(answers) + Window /\ Len(answers) + Window \in Nat
        BY <1>0, <1>1, Types DEF ClientSends
      <3> HIDE DEF q
      <3>3. q * Parts <= (Len(answers) + Window) * Parts /\ q * Parts \in Nat
            /\ (Len(answers) + Window) * Parts \in Nat
        BY <3>1, <3>2, ProductGrows, Products
      <3>4. sent + 1 <= (Len(answers) + Window) * Parts
        BY <3>1, <3>3, <2>1
      <3> QED BY <3>4, <2>2, <1>1 DEF ClientSends, Owed
    <2> QED BY <1>1, <2>3, <2>4, Elsewhere DEF ClientSends
  <1>2. CASE ClientLeaves
    <2>1. TypeOK' /\ Owed'
      BY <1>0, <1>2 DEF ClientLeaves, TypeOK, Owed
    <2> QED BY <1>2, <2>1, Elsewhere DEF ClientLeaves
  <1>3. CASE RecvData
    BY <1>3, DataIInv
  <1>4. CASE RecvEnd
    <2>1. conn' \in ConnectionRecord /\ Over(conn')
      BY <1>0, <1>4, Closes, Types DEF RecvEnd
    <2>2. TypeOK' /\ Owed'
      BY <1>0, <1>4, <2>1 DEF RecvEnd, TypeOK, Owed
    <2> QED BY <2>1, <2>2 DEF IInv
  <1>5. CASE SendCompletes
    BY <1>5, CompletesIInv
  <1>6. CASE Tick
    BY <1>6, TickIInv
  <1>7. CASE UNCHANGED vars
    <2>1. TypeOK' /\ Owed'
      BY <1>0, <1>7 DEF vars, TypeOK, Owed
    <2> QED BY <1>7, <2>1, Elsewhere DEF vars
  <1> QED BY <1>1, <1>2, <1>3, <1>4, <1>5, <1>6, <1>7 DEF Next

LEMMA Inductive == Spec => []IInv
  <1>1. Init => IInv
    BY InitIInv
  <1>2. IInv /\ [Next]_vars => IInv'
    BY NextIInv
  <1> QED BY <1>1, <1>2, PTL DEF Spec

-----------------------------------------------------------------------------
\* Every variable has its type (connection.hpp:113, the members of a Connection).
THEOREM TypeCorrect == Spec => []TypeOK
  <1>1. IInv => TypeOK
    BY DEF IInv
  <1> QED BY <1>1, Inductive, PTL

\* No byte is lost between requests (connection.hpp:128), for requests of any
\* number, length and kind and a recv of any size, however it cuts them, as long as
\* the client has at most two requests outstanding.
THEOREM NoByteLostHolds == ASSUME Window <= 2 PROVE Spec => []NoByteLost
  <1>1. IInv => NoByteLost
    <2> SUFFICES ASSUME IInv PROVE NoByteLost
      OBVIOUS
    <2>1. TypeOK
      BY DEF IInv
    <2>2. CASE AtRead
      <3>1. Reading(conn, received) /\ conn.pending = {} /\ conn.op = "recv" /\ Fits(conn, received)
        BY <2>2 DEF AtRead, Reading
      <3>2. ASSUME conn.parser # None PROVE RequestOf(received + 1) = conn.parser
        <4>1. conn.parser \in 1..Requests
          BY <3>2, <2>1, Types DEF ConnectionRecord
        <4>2. PICK r \in 1..Requests : r = conn.parser
          BY <4>1
        <4>3. r * Parts - Parts < received /\ received < EndOf(r) /\ EndOf(r) <= r * Parts
              /\ EndOf(r) \in Nat /\ r * Parts \in Nat /\ r \in Nat \ {0} /\ received + 1 \in Nat \ {0}
          <5>1. EndOf(r) <= r * Parts /\ EndOf(r) \in Nat /\ r * Parts \in Nat
            BY <2>1, Types, EndFacts
          <5>2. r * Parts - Parts < received /\ received < EndOf(r)
            BY <3>1, <3>2, <4>2 DEF Fits
          <5> QED BY <5>1, <5>2, <2>1, Types
        <4>4. r * Parts - Parts < received + 1 /\ received + 1 <= r * Parts
          BY <4>3, <2>1, Types
        <4> QED BY <4>2, <4>3, <4>4, RequestUnique
      <3>3. ASSUME conn.parser = None
            PROVE  Begins(received + 1) \/ received + 1 = EndOf(RequestOf(received + 1)) + 1
        <4>1. PICK k \in Nat, n \in Nat : k = conn.request_count /\ n = received
          BY <2>1, Types
        <4>2. Handled(k, n)
          BY <3>1, <3>3, <4>1 DEF Fits
        <4> SUFFICES ASSUME ~Begins(n + 1) PROVE n + 1 = EndOf(RequestOf(n + 1)) + 1
          BY <4>1
        <4>3. k \in 1..Requests /\ kind[k] = "chunked" /\ n = EndOf(k)
          BY <4>2, <2>1, Types, Follows
        <4>4. n + 1 = k * Parts /\ k * Parts \in Nat /\ k \in Nat \ {0} /\ n + 1 \in Nat \ {0}
          <5>1. EndOf(k) = k * Parts - 1
            BY <4>3 DEF EndOf
          <5>2. k * Parts \in Nat
            BY <4>3, <2>1, Types, EndFacts
          <5> QED BY <5>1, <5>2, <4>3
        <4>5. RequestOf(n + 1) = k
          BY <4>4, <2>1, Types, RequestUnique
        <4> QED BY <4>3, <4>5
      <3> QED BY <3>1, <3>2, <3>3 DEF NoByteLost
    <2>3. ASSUME NEW r \in 1..Requests, AtReply(r) PROVE NoByteLost
      <3>1. conn.op = "send" /\ conn.sending.req = r
        BY <2>3 DEF AtReply, Replying
      <3>2. ASSUME conn.keep_alive
            PROVE  (IF conn.pending # {} THEN Lowest(conn.pending) ELSE received + 1)
                     \in (EndOf(r) + 1)..(r * Parts + 1)
        <4>1. PICK n \in Nat : n = received
          BY <2>1, Types
        <4>2. PICK f \in 1..(n + 1) :
                /\ conn.pending = f..n /\ EndOf(r) < f /\ Handled(r, f - 1)
          BY <2>3, <3>2, <4>1 DEF AtReply, Replying, Rest
        <4>3. EndOf(r) \in Nat /\ EndOf(r) <= r * Parts /\ r * Parts \in Nat
          BY <2>1, Types, EndFacts
        <4>4. f \in (EndOf(r) + 1)..(r * Parts + 1)
          BY <4>2, <4>3 DEF Handled
        <4>5. CASE f = n + 1
          <5>1. conn.pending = {}
            BY <4>2, <4>5
          <5> QED BY <5>1, <4>1, <4>4, <4>5
        <4>6. CASE f # n + 1
          <5>1. f \in Nat /\ f <= n /\ f \in conn.pending
            BY <4>2, <4>6
          <5>2. Lowest(conn.pending) = f
            BY <5>1, <4>2, Ends
          <5> QED BY <5>1, <5>2, <4>4
        <4> QED BY <4>5, <4>6
      <3> QED BY <3>1, <3>2 DEF NoByteLost
    <2>4. CASE AtRefuse \/ Over(conn)
      BY <2>4 DEF AtRefuse, Refusing, Over, NoByteLost
    <2> QED BY <2>2, <2>3, <2>4 DEF IInv
  <1> QED BY <1>1, Inductive, PTL

-----------------------------------------------------------------------------
(* The refinement                                                          *)

Arrived == (received + Parts - 1) \div Parts

LEMMA ArrivedType ==
  ASSUME TypeOK
  PROVE  /\ Arrived \in 0..Requests
         /\ \A r \in 1..Requests : r * Parts - Parts < received => r <= Arrived
  <1>1. received \in Nat /\ received <= Requests * Parts /\ Requests \in Nat /\ Parts \in Nat \ {0}
    BY Types
  <1>2. CASE received = 0
    <2>1. Arrived = 0
      BY <1>1, <1>2, ArrivedOf DEF Arrived
    <2>2. \A r \in 1..Requests : ~(r * Parts - Parts < received)
      <3> SUFFICES ASSUME NEW r \in 1..Requests PROVE ~(r * Parts - Parts < 0)
        BY <1>2
      <3>1. 0 * Parts + Parts <= r * Parts
        BY <1>1, ProductOrder
      <3> QED BY <3>1, <1>1, Products
    <2> QED BY <2>1, <2>2, <1>1
  <1>3. CASE received # 0
    <2> DEFINE q == RequestOf(received)
    <2>1. Arrived = q
      BY <1>1, <1>3, ArrivedOf DEF Arrived
    <2>2. q \in Nat \ {0} /\ q * Parts - Parts < received /\ received <= q * Parts /\ q * Parts \in Nat
      BY <1>1, <1>3, RequestOfUnit, Products
    <2> HIDE DEF q
    <2>3. ~(Requests < q)
      BY <1>1, <2>2, ProductOrder, Products
    <2>4. ASSUME NEW r \in 1..Requests, r * Parts - Parts < received PROVE ~(q < r)
      BY <1>1, <2>2, <2>4, ProductOrder, Products
    <2> QED BY <1>1, <2>1, <2>2, <2>3, <2>4
  <1> QED BY <1>2, <1>3

LEMMA ArrivedRange == TypeOK => Arrived \in 0..Requests
  BY ArrivedType

\* More units, more requests.
LEMMA ArrivedGrows ==
  ASSUME NEW n \in Nat, NEW m \in Nat, n <= m
  PROVE  (n + Parts - 1) \div Parts <= (m + Parts - 1) \div Parts
  <1>1. Parts \in Nat \ {0}
    BY ConnectionAssumption
  <1>2. CASE n = 0
    <2>1. m = 0 \/ RequestOf(m) \in Nat
      BY RequestOfUnit
    <2> QED BY <1>2, <2>1, ArrivedOf
  <1>3. CASE n # 0
    <2>0. n \in Nat \ {0} /\ m \in Nat \ {0}
      BY <1>3
    <2>1. /\ RequestOf(n) \in Nat /\ RequestOf(m) \in Nat
          /\ RequestOf(n) * Parts - Parts < n /\ m <= RequestOf(m) * Parts
          /\ RequestOf(n) * Parts \in Nat /\ RequestOf(m) * Parts \in Nat
      BY <2>0, RequestOfUnit, Products
    <2>2. ~(RequestOf(m) < RequestOf(n))
      BY <1>1, <2>1, ProductOrder
    <2> QED BY <2>0, <2>1, <2>2, ArrivedOf
  <1> QED BY <1>2, <1>3

LEMMA InitImplements == Init => S!Init
  <1>1. (0 + Parts - 1) \div Parts = 0
    BY ArrivedOf
  <1> QED BY <1>1 DEF Init, S!Init

LEMMA StepImplements ==
  ASSUME IInv, IInv', [Next]_vars
  PROVE  [S!Next]_(S!sessionVars)
  <1> DEFINE over == conn.state = "CLOSED"
  <1>0. TypeOK /\ TypeOK' /\ kind' = kind
    BY DEF IInv, Next, vars, ClientSends, ClientLeaves, RecvData, RecvEnd, SendCompletes, Tick
  <1>1. CASE ClientSends \/ ClientLeaves \/ Tick \/ UNCHANGED vars
    <2>1. UNCHANGED <<received, answers>> /\ conn'.state = conn.state
      BY <1>1, TickIInv DEF ClientSends, ClientLeaves, Tick, vars
    <2> QED BY <2>1, <1>0 DEF S!sessionVars
  <1>2. CASE RecvData
    <2>1. conn.op = "recv" /\ received <= received' /\ UNCHANGED answers
      <3>1. received \in Nat
        BY <1>0, Types
      <3> QED BY <1>2, <3>1 DEF RecvData
    <2>2. ~over
      BY <2>1 DEF IInv, AtRead, AtReply, AtRefuse, Reading, Replying, Refusing, Over
    <2>3. Arrived \in 0..Requests /\ Arrived' \in 0..Requests /\ Arrived <= Arrived'
      <3>1. received \in Nat /\ received' \in Nat
        BY <1>0, ConnectionAssumption DEF TypeOK
      <3>2. Arrived <= Arrived'
        BY <2>1, <3>1, ArrivedGrows DEF Arrived
      <3>3. (Arrived \in 0..Requests)'
        BY <1>0, ArrivedRange, PTL
      <3> QED BY <1>0, <3>2, <3>3, ArrivedType
    <2>4. CASE Arrived' = Arrived
      BY <2>1, <2>2, <2>4, <1>0 DEF S!Next, S!End, S!sessionVars, Arrived
    <2>5. CASE Arrived' # Arrived
      <3>1. Arrived' \in (Arrived + 1)..Requests
        BY <2>3, <2>5
      <3> QED BY <2>1, <2>2, <3>1, <1>0 DEF S!Next, S!Arrive, S!sessionVars, Arrived
    <2> QED BY <2>4, <2>5
  <1>3. CASE RecvEnd
    <2>1. ~over /\ over' /\ UNCHANGED <<received, answers>>
      BY <1>0, <1>3, Types, Closes
         DEF RecvEnd, IInv, AtRead, AtReply, AtRefuse, Reading, Replying, Refusing, Over
    <2> QED BY <2>1, <1>0 DEF S!Next, S!End
  <1>4. CASE SendCompletes
    <2>1. conn.op = "send" /\ UNCHANGED <<received, client>>
      BY <1>4 DEF SendCompletes
    <2>2. AtRefuse \/ \E r \in 1..Requests : AtReply(r)
      BY <2>1 DEF IInv, AtRead, Reading, Over
    <2>3. ~over
      BY <2>2 DEF AtRefuse, Refusing, AtReply, Replying
    <2>4. ~conn.keep_alive => over'
      <3> SUFFICES ASSUME ~conn.keep_alive PROVE over'
        OBVIOUS
      <3>1. [conn EXCEPT !.sending = None] \in ConnectionRecord
        BY <1>0, Types DEF ConnectionRecord
      <3>2. conn' = Close([conn EXCEPT !.sending = None])
        BY <1>4 DEF SendCompletes, OnSendComplete
      <3> QED BY <3>1, <3>2, Closes DEF Over
    <2>5. CASE client # "open"
      <3>1. answers' = answers
        BY <1>4, <2>5 DEF SendCompletes
      <3> QED BY <2>1, <2>3, <3>1, <1>0 DEF S!Next, S!End, S!sessionVars
    <2>6. ASSUME client = "open", NEW r \in 1..Requests, AtReply(r) PROVE S!Answered
      <3>1. /\ answers' = Append(answers, [req |-> r, close |-> ~conn.keep_alive])
            /\ \A n \in DOMAIN answers : answers[n].req < r
            /\ Window <= 2 => r = Len(answers) + 1
        BY <1>4, <2>6 DEF SendCompletes, AtReply, Replying, Before
      <3>2. r \in 1..Arrived
        <4>1. r <= Arrived /\ Arrived \in Nat
          BY <1>0, <2>6, ArrivedType, ConnectionAssumption DEF AtReply, Replying
        <4> QED BY <4>1
      <3>3. (~conn.keep_alive) \in BOOLEAN /\ over' \in BOOLEAN
        BY <1>0, Types DEF ConnectionRecord
      <3> QED BY <2>1, <2>3, <2>4, <3>1, <3>2, <3>3, <1>0 DEF S!Answered, Arrived
    <2>7. CASE client = "open" /\ AtRefuse
      <3>1. over' /\ answers' = Append(answers, [req |-> None, close |-> TRUE])
        BY <1>4, <2>4, <2>7 DEF SendCompletes, AtRefuse, Refusing
      <3>2. Window <= 2 =>
              /\ answers # <<>>
              /\ answers[Len(answers)].req \in {r \in 1..Requests : kind[r] = "chunked"}
        BY <2>7 DEF AtRefuse
      <3> QED BY <2>1, <2>3, <3>1, <3>2, <1>0 DEF S!Next, S!Stray
    <2> QED BY <2>2, <2>5, <2>6, <2>7 DEF S!Next
  <1> QED BY <1>1, <1>2, <1>3, <1>4 DEF Next

\* Pipelined requests, cut anywhere by recvs of any size, are answered in their order
\* and an answer that announces the end is the last; a client with at most two
\* requests outstanding has them answered one by one, up to the refusal of what a
\* chunked request leaves over: the connection implements a session
\* (connection.cpp:174, on_send_complete; http_parser.cpp:404).
THEOREM ConnectionImplementsSession == Spec => Refinement
  <1>1. Init => S!Init
    BY InitImplements
  <1>2. IInv /\ IInv' /\ [Next]_vars => [S!Next]_(S!sessionVars)
    BY StepImplements
  <1> QED BY <1>1, <1>2, Inductive, PTL DEF Spec, Refinement, S!Spec
=============================================================================
