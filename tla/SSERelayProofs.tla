---------------------------- MODULE SSERelayProofs ----------------------------
(***************************************************************************)
(* Theorems about SSERelay, for any timeouts and any kinds of frames the   *)
(* agent may send: what the client sees of one answer, and how long the    *)
(* worker can be blocked in it.                                            *)
(***************************************************************************)
EXTENDS SSERelay, TLAPS

\* What the state of the handler says of the events given to on_send.
RelayInv(r) ==
  /\ r.state \notin {"DONE", "ERROR_SENT"} =>
       \A i \in DOMAIN r.sent : r.sent[i] = "data" \/ (r.sent[i] = "last" /\ i = Len(r.sent))
  /\ r.state = "DONE" => r.sent # <<>> /\ r.sent[Len(r.sent)] = "done"
  /\ r.state = "ERROR_SENT" => r.sent # <<>> /\ r.sent[Len(r.sent)] = "error"
  /\ \A i \in DOMAIN r.sent :
       /\ r.sent[i] \in {"done", "error"} => i = Len(r.sent)
       /\ r.sent[i] = "last" => i \in {Len(r.sent) - 1, Len(r.sent)}

\* The end of the stream is what stream_ok says; the loop goes on only while the
\* relay is open, and leaves an open relay only if it never began.
LoopInv ==
  /\ stream_ok <=> relay.state = "DONE"
  /\ receiving => ~Closed(relay)
  /\ ~receiving => Closed(relay) \/ relay.state = "INIT"

\* After a turn that goes on, no more time has passed than the total timeout and
\* the turns that were not checked, as long as they are counted.
TimeInv ==
  /\ receiving /\ short < MaxShort => session <= TotalTimeout + short * PacketTime
  /\ Deadline

IInv == TypeOK /\ RelayInv(relay) /\ LoopInv /\ TimeInv

-----------------------------------------------------------------------------
\* What a frame shorter than a header adds to the deadline.
LEMMA Times ==
  ASSUME NEW n \in Nat
  PROVE  /\ PacketTime \in Nat /\ n * PacketTime \in Nat
         /\ (n + 1) * PacketTime = n * PacketTime + PacketTime
  <1>1. PacketTime \in Nat
    BY RelayAssumption DEF PacketTime
  <1> QED BY <1>1

LEMMA HorizonType == Horizon \in Nat /\ Horizon > TotalTimeout
  <1>1. MaxShort \in Nat /\ TotalTimeout \in Nat
    BY RelayAssumption
  <1>2. (MaxShort + 1) * PacketTime \in Nat
    BY <1>1, Times
  <1> QED BY <1>1, <1>2 DEF Horizon

\* A wait adds to an age, which saturates.
LEMMA Ages ==
  ASSUME NEW age \in 0..Horizon, NEW wait \in 0..PacketTime
  PROVE  /\ After(age, wait) \in 0..Horizon /\ After(age, wait) <= age + wait
         /\ After(age, wait) <= age + PacketTime
  <1>1. Horizon \in Nat /\ PacketTime \in Nat
    BY HorizonType, Times
  <1> QED BY <1>1 DEF After

LEMMA Appended ==
  ASSUME NEW s \in Seq(Events), NEW e \in Events
  PROVE  /\ Append(s, e) \in Seq(Events) /\ Append(s, e) # <<>>
         /\ DOMAIN Append(s, e) = 1..(Len(s) + 1) /\ Len(Append(s, e)) = Len(s) + 1
         /\ DOMAIN s = 1..Len(s) /\ Len(s) \in Nat
         /\ \A i \in 1..Len(s) : Append(s, e)[i] = s[i]
         /\ Append(s, e)[Len(s) + 1] = e
  OBVIOUS

\* The relay after an operation of the handler.
Relay == [state : RelayStates, sent : Seq(Events)]

LEMMA ErrorEvent ==
  ASSUME NEW r \in Relay, RelayInv(r), ~Closed(r)
  PROVE  /\ SendErrorEvent(r) \in Relay /\ RelayInv(SendErrorEvent(r))
         /\ SendErrorEvent(r).state = "ERROR_SENT"
  <1>1. /\ r.sent \in Seq(Events)
        /\ \A i \in DOMAIN r.sent : r.sent[i] = "data" \/ (r.sent[i] = "last" /\ i = Len(r.sent))
    BY DEF Relay, RelayInv, Closed
  <1>2. SendErrorEvent(r) = [state |-> "ERROR_SENT", sent |-> Append(r.sent, "error")]
    BY DEF SendErrorEvent
  <1>3. "error" \in Events
    BY DEF Events
  <1>4. SendErrorEvent(r) \in Relay
    BY <1>1, <1>2, <1>3, Appended DEF Relay, RelayStates
  <1> QED BY <1>1, <1>2, <1>3, <1>4, Appended DEF RelayInv

LEMMA StreamComplete ==
  ASSUME NEW r \in Relay, RelayInv(r), ~Closed(r)
  PROVE  /\ OnStreamComplete(r) \in Relay /\ RelayInv(OnStreamComplete(r))
         /\ OnStreamComplete(r).state = "DONE"
  <1>1. /\ r.sent \in Seq(Events)
        /\ \A i \in DOMAIN r.sent : r.sent[i] = "data" \/ (r.sent[i] = "last" /\ i = Len(r.sent))
    BY DEF Relay, RelayInv, Closed
  <1>2. OnStreamComplete(r) = [state |-> "DONE", sent |-> Append(r.sent, "done")]
    BY DEF OnStreamComplete
  <1>3. "done" \in Events
    BY DEF Events
  <1>4. OnStreamComplete(r) \in Relay
    BY <1>1, <1>2, <1>3, Appended DEF Relay, RelayStates
  <1> QED BY <1>1, <1>2, <1>3, <1>4, Appended DEF RelayInv

LEMMA AgentData ==
  ASSUME NEW r \in Relay, RelayInv(r), ~Closed(r), "last" \notin Range(r.sent),
         NEW chunk \in {"empty", "data", "last"}
  PROVE  /\ OnAgentData(r, chunk) \in Relay /\ RelayInv(OnAgentData(r, chunk))
         /\ ~Closed(OnAgentData(r, chunk))
  <1> DEFINE sent == IF chunk = "empty" \/ (r.sent # <<>> /\ r.sent[Len(r.sent)] = chunk) THEN r.sent
                     ELSE Append(r.sent, chunk)
             state == IF r.state = "WAITING_FIRST_BYTE" THEN "STREAMING" ELSE r.state
  <1>1. r.sent \in Seq(Events) /\ \A i \in DOMAIN r.sent : r.sent[i] = "data"
    BY DEF Relay, RelayInv, Closed, Range
  <1>2. chunk # "empty" => chunk \in Events
    BY DEF Events
  <1>3. /\ sent \in Seq(Events)
        /\ \A i \in DOMAIN sent : sent[i] = "data" \/ (sent[i] = "last" /\ i = Len(sent))
    <2>1. CASE sent = r.sent
      BY <1>1, <2>1
    <2>2. CASE sent # r.sent
      <3>1. sent = Append(r.sent, chunk) /\ chunk \in {"data", "last"} /\ chunk \in Events
        BY <2>2, <1>2
      <3> HIDE DEF sent
      <3> QED BY <3>1, <1>1, Appended
    <2> QED BY <2>1, <2>2
  <1>4. state \in RelayStates /\ state \notin {"DONE", "ERROR_SENT"}
    BY DEF Relay, RelayStates, Closed
  <1>5. OnAgentData(r, chunk) = [state |-> state, sent |-> sent]
    BY DEF OnAgentData
  <1> HIDE DEF sent, state
  <1> QED BY <1>3, <1>4, <1>5 DEF Relay, RelayInv, Closed

-----------------------------------------------------------------------------
LEMMA InitIInv == Init => IInv
  <1> SUFFICES ASSUME Init PROVE IInv
    OBVIOUS
  <1>1. Horizon \in Nat /\ MaxShort \in Nat /\ TotalTimeout \in Nat /\ PacketTime \in Nat
    BY HorizonType, Times, RelayAssumption
  <1>2. /\ relay.state \in {"INIT", "WAITING_FIRST_BYTE"} /\ relay.sent = <<>>
        /\ relay \in [state : RelayStates, sent : Seq(Events)]
    BY DEF Init, RelayStates
  <1>3. TypeOK
    <2>1. short \in 0..MaxShort /\ session \in 0..Horizon /\ first_byte \in 0..Horizon
      BY <1>1 DEF Init
    <2>2. receiving \in BOOLEAN /\ stream_ok \in BOOLEAN /\ odd \in BOOLEAN
      BY DEF Init
    <2>3. data_age \in 0..Horizon
      BY <1>1 DEF Init
    <2> QED BY <1>2, <2>1, <2>2, <2>3 DEF TypeOK
  <1>4. RelayInv(relay) /\ LoopInv
    BY <1>2 DEF Init, RelayInv, LoopInv, Closed
  <1>5. TimeInv
    BY <1>1, Times DEF Init, TimeInv, Deadline
  <1> QED BY <1>3, <1>4, <1>5 DEF IInv

\* What the end of a turn makes of an open relay r.
LEMMA Checked ==
  ASSUME NEW r \in Relay, RelayInv(r), ~Closed(r), CheckTimeout(r), receiving,
         TotalTimeout \in Nat, session' \in Nat
  PROVE  /\ relay' \in Relay /\ RelayInv(relay)' /\ receiving' \in BOOLEAN
         /\ relay'.state # "DONE" /\ (receiving' <=> ~Closed(relay')) /\ odd' = odd
         /\ short' = (IF receiving' THEN 0 ELSE short)
         /\ receiving' => session' <= TotalTimeout
  <1>1. CASE TimedOut(r, session', first_byte', data_age')
    BY <1>1, ErrorEvent DEF CheckTimeout, Leave, Closed
  <1>2. CASE ~TimedOut(r, session', first_byte', data_age')
    <2>1. relay' = r /\ receiving' = TRUE /\ short' = 0 /\ odd' = odd
      BY <1>2 DEF CheckTimeout
    <2>2. session' <= TotalTimeout
      BY <1>2 DEF TimedOut
    <2> QED BY <2>1, <2>2 DEF Closed
  <1> QED BY <1>1, <1>2

\* Every turn but a short frame keeps the deadline, given what it does to the relay.
LEMMA TurnKeepsDeadline ==
  ASSUME IInv, receiving, receiving' \in BOOLEAN, short' = (IF receiving' THEN 0 ELSE short),
         NEW wait \in 0..PacketTime,
         session' = After(session, wait), receiving' => session' <= TotalTimeout
  PROVE  TimeInv' /\ short' \in 0..MaxShort
  <1>1. /\ short \in 0..MaxShort /\ MaxShort \in Nat /\ TotalTimeout \in Nat /\ PacketTime \in Nat
        /\ session \in 0..Horizon /\ Horizon \in Nat
    BY RelayAssumption, HorizonType, Times DEF IInv, TypeOK
  <1>2. short * PacketTime \in Nat /\ (short + 1) * PacketTime = short * PacketTime + PacketTime
    BY <1>1, Times
  <1>3. session' <= session + PacketTime /\ session' \in Nat /\ session \in Nat
    BY <1>1, Ages
  <1>4. CASE receiving'
    <2>1. short' = 0 /\ session' <= TotalTimeout
      BY <1>4
    <2>2. 0 * PacketTime = 0 /\ (0 + 1) * PacketTime = PacketTime
      BY <1>1
    <2> QED BY <1>1, <1>3, <2>1, <2>2 DEF TimeInv, Deadline
  <1>5. CASE ~receiving'
    <2>1. short' = short
      BY <1>5
    <2>2. short < MaxShort => session <= TotalTimeout + short * PacketTime
      BY DEF IInv, TimeInv
    <2>3. short < MaxShort => session' <= TotalTimeout + (short + 1) * PacketTime
      BY <1>1, <1>2, <1>3, <2>2
    <2> QED BY <1>1, <1>5, <2>1, <2>3 DEF TimeInv, Deadline
  <1> QED BY <1>4, <1>5

\* The ages after a wait.
LEMMA TurnAges ==
  ASSUME IInv, NEW wait \in 0..PacketTime
  PROVE  /\ After(session, wait) \in 0..Horizon /\ After(first_byte, wait) \in 0..Horizon
         /\ After(data_age, wait) \in 0..Horizon /\ 0 \in 0..Horizon
  <1>1. session \in 0..Horizon /\ first_byte \in 0..Horizon /\ data_age \in 0..Horizon
    BY DEF IInv, TypeOK
  <1>2. 0 \in 0..Horizon
    BY HorizonType
  <1> QED BY <1>1, <1>2, Ages

LEMMA NextIInv == IInv /\ [Turn]_vars => IInv'
  <1> SUFFICES ASSUME IInv, [Turn]_vars PROVE IInv'
    OBVIOUS
  <1>0. /\ relay \in Relay /\ RelayInv(relay) /\ PacketTime \in Nat /\ TotalTimeout \in Nat
        /\ (receiving => ~Closed(relay)) /\ \A w \in 1..PacketTime : w \in 0..PacketTime
    <2>1. PacketTime \in Nat /\ TotalTimeout \in Nat
      BY RelayAssumption DEF PacketTime
    <2>2. \A w \in 1..PacketTime : w \in 0..PacketTime
      BY <2>1
    <2> QED BY <2>1, <2>2 DEF IInv, TypeOK, LoopInv, Relay
  <1>1. ASSUME NEW wait \in 1..PacketTime, RecvOther(wait) PROVE IInv'
    <2>1. /\ receiving /\ session' = After(session, wait) /\ first_byte' = After(first_byte, wait)
          /\ data_age' = After(data_age, wait) /\ CheckTimeout(relay)
          /\ UNCHANGED stream_ok
      BY <1>1 DEF RecvOther, Received
    <2>2. session' \in 0..Horizon /\ first_byte' \in 0..Horizon /\ data_age' \in 0..Horizon
      BY <2>1, <1>0, TurnAges
    <2>3. /\ relay' \in Relay /\ RelayInv(relay)' /\ receiving' \in BOOLEAN
          /\ relay'.state # "DONE" /\ (receiving' <=> ~Closed(relay')) /\ odd' = odd
          /\ short' = (IF receiving' THEN 0 ELSE short)
          /\ receiving' => session' <= TotalTimeout
      BY <2>1, <2>2, <1>0, Checked, HorizonType
    <2>4. TimeInv' /\ short' \in 0..MaxShort
      BY <2>1, <2>3, <1>0, TurnKeepsDeadline
    <2>5. ~stream_ok
      BY <2>1, <1>0 DEF IInv, LoopInv, Closed
    <2> QED BY <2>1, <2>2, <2>3, <2>4, <2>5 DEF IInv, TypeOK, LoopInv, Relay
  <1>2. ASSUME NEW wait \in 1..PacketTime, NEW chunk \in {"empty", "data", "last"},
               RecvData(wait, chunk)
        PROVE  IInv'
    <2>1. /\ receiving /\ session' = After(session, wait) /\ first_byte' = After(first_byte, wait)
          /\ data_age' = 0 /\ CheckTimeout(OnAgentData(relay, chunk))
          /\ "last" \notin Range(relay.sent) /\ UNCHANGED stream_ok
      BY <1>2 DEF RecvData, Received
    <2>2. session' \in 0..Horizon /\ first_byte' \in 0..Horizon /\ data_age' \in 0..Horizon
      BY <2>1, <1>0, TurnAges
    <2>3. /\ OnAgentData(relay, chunk) \in Relay /\ RelayInv(OnAgentData(relay, chunk))
          /\ ~Closed(OnAgentData(relay, chunk))
      BY <2>1, <1>0, AgentData
    <2>4. /\ relay' \in Relay /\ RelayInv(relay)' /\ receiving' \in BOOLEAN
          /\ relay'.state # "DONE" /\ (receiving' <=> ~Closed(relay')) /\ odd' = odd
          /\ short' = (IF receiving' THEN 0 ELSE short)
          /\ receiving' => session' <= TotalTimeout
      BY <2>1, <2>2, <2>3, <1>0, Checked, HorizonType
    <2>5. TimeInv' /\ short' \in 0..MaxShort
      BY <2>1, <2>4, <1>0, TurnKeepsDeadline
    <2>6. ~stream_ok
      BY <2>1, <1>0 DEF IInv, LoopInv, Closed
    <2> QED BY <2>1, <2>2, <2>4, <2>5, <2>6 DEF IInv, TypeOK, LoopInv, Relay
  <1>3. ASSUME NEW wait \in 1..PacketTime, RecvEnd(wait) PROVE IInv'
    <2>1. /\ receiving /\ session' = After(session, wait) /\ first_byte' = After(first_byte, wait)
          /\ data_age' = After(data_age, wait) /\ relay' = OnStreamComplete(relay)
          /\ receiving' = FALSE /\ stream_ok' = TRUE /\ UNCHANGED <<short, odd>>
      BY <1>3 DEF RecvEnd, Received, Leave
    <2>2. session' \in 0..Horizon /\ first_byte' \in 0..Horizon /\ data_age' \in 0..Horizon
      BY <2>1, <1>0, TurnAges
    <2>3. relay' \in Relay /\ RelayInv(relay)' /\ relay'.state = "DONE"
      BY <2>1, <1>0, StreamComplete
    <2>4. TimeInv' /\ short' \in 0..MaxShort
      BY <2>1, <1>0, TurnKeepsDeadline
    <2> QED BY <2>1, <2>2, <2>3, <2>4 DEF IInv, TypeOK, LoopInv, Closed, Relay
  <1>4. ASSUME NEW wait \in 1..PacketTime, RecvError(wait) PROVE IInv'
    <2>1. /\ receiving /\ session' = After(session, wait) /\ first_byte' = After(first_byte, wait)
          /\ data_age' = After(data_age, wait) /\ relay' = SendErrorEvent(relay)
          /\ receiving' = FALSE /\ UNCHANGED <<stream_ok, short, odd>>
      BY <1>4 DEF RecvError, Received, Leave
    <2>2. session' \in 0..Horizon /\ first_byte' \in 0..Horizon /\ data_age' \in 0..Horizon
      BY <2>1, <1>0, TurnAges
    <2>3. relay' \in Relay /\ RelayInv(relay)' /\ relay'.state = "ERROR_SENT"
      BY <2>1, <1>0, ErrorEvent
    <2>4. TimeInv' /\ short' \in 0..MaxShort
      BY <2>1, <1>0, TurnKeepsDeadline
    <2>5. ~stream_ok
      BY <2>1, <1>0 DEF IInv, LoopInv, Closed
    <2> QED BY <2>1, <2>2, <2>3, <2>4, <2>5 DEF IInv, TypeOK, LoopInv, Closed, Relay
  <1>5. ASSUME NEW wait \in 1..PacketTime, RecvShort(wait) PROVE IInv'
    <2>1. /\ receiving /\ session' = After(session, wait) /\ first_byte' = After(first_byte, wait)
          /\ data_age' = After(data_age, wait)
          /\ short' = (IF short = MaxShort THEN MaxShort ELSE short + 1) /\ odd' = ~odd
          /\ UNCHANGED <<relay, receiving, stream_ok>>
      BY <1>5 DEF RecvShort, Received
    <2>2. session' \in 0..Horizon /\ first_byte' \in 0..Horizon /\ data_age' \in 0..Horizon
      BY <2>1, <1>0, TurnAges
    <2>3. short \in Nat /\ short' \in 0..MaxShort /\ short' \in Nat /\ MaxShort \in Nat
      BY <2>1, RelayAssumption DEF IInv, TypeOK
    <2>4. TimeInv'
      <3> SUFFICES ASSUME short' < MaxShort
                   PROVE  /\ session' <= TotalTimeout + short' * PacketTime
                          /\ session' <= TotalTimeout + (short' + 1) * PacketTime
        BY DEF TimeInv, Deadline
      <3>1. session' <= session + PacketTime /\ session \in Nat /\ session' \in Nat
        BY <2>1, <1>0, Ages, HorizonType DEF IInv, TypeOK
      <3>2. short' = short + 1 /\ short < MaxShort
        BY <2>1, <2>3
      <3>3. session <= TotalTimeout + short * PacketTime
        BY <2>1, <3>2 DEF IInv, TimeInv
      <3>4. /\ short' * PacketTime = short * PacketTime + PacketTime
            /\ (short' + 1) * PacketTime = short' * PacketTime + PacketTime
            /\ short * PacketTime \in Nat
        BY <2>3, <3>2, Times
      <3> QED BY <3>1, <3>3, <3>4, <1>0
    <2> QED BY <2>1, <2>2, <2>3, <2>4 DEF IInv, TypeOK, LoopInv, Closed, RelayInv
  <1>6. ASSUME RecvFails PROVE IInv'
    <2>1. PICK wait \in 0..PacketTime :
            /\ session' = After(session, wait) /\ first_byte' = After(first_byte, wait)
            /\ data_age' = After(data_age, wait)
      BY <1>6 DEF RecvFails
    <2>2. /\ receiving /\ receiving' = FALSE /\ UNCHANGED <<stream_ok, short, odd>>
          /\ relay' = IF IsActive(relay) THEN SendErrorEvent(relay) ELSE relay
      BY <1>6 DEF RecvFails, Leave
    <2>3. session' \in 0..Horizon /\ first_byte' \in 0..Horizon /\ data_age' \in 0..Horizon
      BY <2>1, TurnAges
    <2>4. relay' \in Relay /\ RelayInv(relay)' /\ relay'.state \in {"INIT", "ERROR_SENT"}
      <3>1. CASE IsActive(relay)
        BY <3>1, <2>2, <1>0, ErrorEvent
      <3>2. CASE ~IsActive(relay)
        BY <3>2, <2>2, <1>0 DEF IsActive, Closed, Relay, RelayStates
      <3> QED BY <3>1, <3>2
    <2>5. TimeInv' /\ short' \in 0..MaxShort
      BY <2>1, <2>2, <1>0, TurnKeepsDeadline
    <2>6. ~stream_ok
      BY <2>2, <1>0 DEF IInv, LoopInv, Closed
    <2> QED BY <2>2, <2>3, <2>4, <2>5, <2>6 DEF IInv, TypeOK, LoopInv, Closed, Relay
  <1>7. CASE UNCHANGED vars
    BY <1>7 DEF vars, IInv, TypeOK, RelayInv, LoopInv, Closed, TimeInv, Deadline
  <1> QED BY <1>1, <1>2, <1>3, <1>4, <1>5, <1>6, <1>7 DEF Turn

LEMMA Inductive == Spec => []IInv
  BY InitIInv, NextIInv, PTL DEF Spec

-----------------------------------------------------------------------------
\* Every variable has its type (sse_handler.hpp:269, the members of the handler).
THEOREM TypeCorrect == Spec => []TypeOK
  <1>1. IInv => TypeOK
    BY DEF IInv
  <1> QED BY <1>1, Inductive, PTL

\* The relay's own final event comes at most once and last, and directly after the one the
\* agent has put into its data, if that is there (sse_handler.hpp:163 and 234, chat_handler.hpp:63):
\* on_stream_complete and send_error_event exclude each other.
THEOREM FinalEventsHold == Spec => []FinalEvents
  <1>1. IInv => FinalEvents
    <2> SUFFICES ASSUME IInv PROVE FinalEvents
      OBVIOUS
    <2>1. relay.sent \in Seq(Events) /\ RelayInv(relay)
      BY DEF IInv, TypeOK
    <2>2. ASSUME relay.sent # <<>> PROVE Len(relay.sent) \in DOMAIN relay.sent
      BY <2>1, <2>2
    <2> QED BY <2>1, <2>2 DEF IInv, RelayInv, LoopInv, FinalEvents
  <1> QED BY <1>1, Inductive, PTL

\* The worker is free again within the total timeout, one recv_packet, and one more
\* for every frame at the end that check_timeout does not see (router.cpp:250).
THEOREM DeadlineHolds == Spec => []Deadline
  <1>1. IInv => Deadline
    BY DEF IInv, TimeInv
  <1> QED BY <1>1, Inductive, PTL

\* Once the SSE header is out, whatever goes wrong ends with an error event
\* (sse_handler.hpp:100).
THEOREM ErrorAfterHeaderHolds == Spec => []ErrorAfterHeader
  <1>1. IInv => ErrorAfterHeader
    BY DEF IInv, LoopInv, RelayInv, Closed, ErrorAfterHeader, LostAgentReported
  <1> QED BY <1>1, Inductive, PTL
=============================================================================
