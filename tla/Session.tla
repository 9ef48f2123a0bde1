-------------------------------- MODULE Session --------------------------------
(***************************************************************************)
(* What a client may count on over one HTTP/1.1 connection: answers come   *)
(* in the order of their requests, an answer that announces "Connection:   *)
(* close" is the last, and the server may end the session at any time.     *)
(* A client with no more than two requests outstanding has them answered   *)
(* one by one, but after a chunked request the last answer may be one to   *)
(* no request.                                                             *)
(***************************************************************************)
EXTENDS Naturals, Sequences

CONSTANTS
  Requests,  \* how many requests the client may send
  Window,    \* how many of them it sends before it has their answers
  None       \* what the answer to no request answers

VARIABLES
  arrived,  \* requests whose first bytes the server has received
  chunked,  \* requests whose body is sent in chunks
  answers,  \* answers the client has received
  over      \* the server has closed the session

sessionVars == <<arrived, chunked, answers, over>>

Init == arrived = 0 /\ chunked \subseteq 1..Requests /\ answers = <<>> /\ over = FALSE

\* Bytes of any number of further requests arrive.
Arrive ==
  /\ ~over
  /\ arrived' \in (arrived + 1)..Requests
  /\ UNCHANGED <<chunked, answers>>
  /\ over' \in BOOLEAN

\* A request is answered: the oldest, if at most two are outstanding.
Answered ==
  /\ ~over
  /\ \E r \in 1..arrived, close \in BOOLEAN :
       /\ \A n \in DOMAIN answers : answers[n].req < r
       /\ Window <= 2 => r = Len(answers) + 1
       /\ answers' = Append(answers, [req |-> r, close |-> close])
       /\ over' \in BOOLEAN /\ (close => over')
  /\ UNCHANGED <<arrived, chunked>>

\* What is left over of the last request is refused, as if it were a request.
Stray ==
  /\ ~over
  /\ Window <= 2 => answers # <<>> /\ answers[Len(answers)].req \in chunked
  /\ answers' = Append(answers, [req |-> None, close |-> TRUE])
  /\ over' = TRUE
  /\ UNCHANGED <<arrived, chunked>>

End ==
  /\ ~over
  /\ over' = TRUE
  /\ UNCHANGED <<arrived, chunked, answers>>

Next == Arrive \/ Answered \/ Stray \/ End

Spec == Init /\ [][Next]_sessionVars
=============================================================================
