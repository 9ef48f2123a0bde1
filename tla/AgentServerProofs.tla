--------------------------- MODULE AgentServerProofs ---------------------------
(***************************************************************************)
(* Theorems about AgentServer, for any set of handles and any outcomes of  *)
(* relocking the mutex: the map of clients and the open handles agree, and *)
(* stop() closes no handle the event loop still works on.                  *)
(***************************************************************************)
EXTENDS AgentServer, TLAPS

\* Where the event loop has the mutex, and how often: the main thread takes it
\* for the one step Clear only.
Held ==
  CASE loop.pc \in {"handle", "closed", "stuck"} -> 1 [] loop.pc = "erased" -> 2 [] OTHER -> 0
LockInv == lock = [owner |-> IF Held = 0 THEN None ELSE "loop", depth |-> Held]

\* The map and the open handles, at every place of the event loop.
MapInv ==
  /\ loop.pc \notin {"insert", "erased", "closed", "stuck"} => clients = open
  /\ loop.pc \in {"insert", "erased"} => loop.fd \in open /\ clients = open \ {loop.fd}
  /\ loop.pc = "closed" => loop.fd \in clients /\ open = clients \ {loop.fd}
  /\ loop.pc = "stuck" => clients = open \/ (loop.fd \in clients /\ open = clients \ {loop.fd})

\* The handle that is being closed is no longer among the ready ones.
ReadyInv ==
  /\ loop.pc \in {"handle", "erased", "closed", "stuck"} => loop.ready \subseteq clients \cap open
  /\ loop.pc \in {"erased", "closed"} => loop.fd \notin loop.ready

\* The inductive invariant: the mutex keeps Clear out while handles are ready.
IInv == TypeOK /\ LockInv /\ MapInv /\ ReadyInv

LEMMA InitIInv == Init => IInv
  <1> SUFFICES ASSUME Init PROVE IInv
    OBVIOUS
  <1>1. TypeOK
    <2>1. loop \in Loop
      BY DEF Init, Loop
    <2>2. lock \in [owner : Threads \cup {None}, depth : 0..2] /\ (lock.owner = None <=> lock.depth = 0)
      BY DEF Init
    <2>3. input \in [Fds -> {"nothing", "data", "end"}]
      BY DEF Init
    <2> QED BY <2>1, <2>2, <2>3 DEF Init, TypeOK
  <1>2. LockInv
    BY DEF Init, LockInv, Held
  <1>3. MapInv /\ ReadyInv
    BY DEF Init, MapInv, ReadyInv
  <1> QED BY <1>1, <1>2, <1>3 DEF IInv

-----------------------------------------------------------------------------
\* Steps that touch neither the mutex, the map nor the open handles, and leave
\* the event loop where it has the same of each.
Outside == {"top", "watch", "select", "accept", "dispatch", "exited"}

LEMMA Elsewhere ==
  ASSUME IInv, TypeOK', UNCHANGED <<lock, clients, open>>,
         \/ UNCHANGED loop
         \/ loop.pc \in Outside /\ loop'.pc \in Outside
  PROVE  IInv'
  <1>1. CASE UNCHANGED loop
    BY <1>1 DEF IInv, LockInv, Held, MapInv, ReadyInv
  <1>2. CASE loop.pc \in Outside /\ loop'.pc \in Outside
    <2>1. Held = 0 /\ Held' = 0
      BY <1>2 DEF Outside, Held
    <2>2. LockInv'
      BY <2>1 DEF IInv, LockInv
    <2>3. MapInv' /\ ReadyInv'
      BY <1>2 DEF IInv, MapInv, ReadyInv, Outside
    <2> QED BY <2>2, <2>3 DEF IInv
  <1> QED BY <1>1, <1>2

LEMMA NextType == IInv /\ [Next]_vars => TypeOK'
  <1> SUFFICES ASSUME IInv, [Next]_vars PROVE TypeOK'
    OBVIOUS
  <1>0. /\ TypeOK /\ loop \in Loop /\ loop.fd \in Fds \cup {None} /\ loop.ready \subseteq Fds
        /\ lock \in [owner : Threads \cup {None}, depth : 0..2] /\ (lock.owner = None <=> lock.depth = 0)
    BY DEF IInv, TypeOK, Loop
  <1>1. CASE Top \/ Watch \/ SelectNothing \/ Select
    <2>1. ASSUME Top \/ SelectNothing PROVE loop' \in Loop
      BY <1>0, <2>1 DEF Top, SelectNothing, Goto, Loop
    <2>2. ASSUME Watch PROVE loop' \in Loop
      BY <1>0, <2>2 DEF Watch, Loop, TypeOK
    <2>3. ASSUME Select PROVE loop' \in Loop
      <3>1. Readable \subseteq Fds
        BY <1>0 DEF Readable, Loop
      <3> QED BY <1>0, <2>3, <3>1 DEF Select, Loop
    <2>4. loop' \in Loop
      BY <1>1, <2>1, <2>2, <2>3
    <2> QED BY <1>0, <1>1, <2>4 DEF Top, Watch, SelectNothing, Select, TypeOK
  <1>2. CASE Accept
    <2>1. ASSUME \E f \in Fds \ open : loop' = [loop EXCEPT !.pc = "insert", !.fd = f]
          PROVE  loop' \in Loop
      BY <1>0, <2>1 DEF Loop
    <2>2. ASSUME loop' = [loop EXCEPT !.pc = IF loop.ready = {} THEN "top" ELSE "dispatch"]
          PROVE  loop' \in Loop
      BY <1>0, <2>2 DEF Loop
    <2>3. loop' \in Loop
      BY <1>2, <2>1, <2>2 DEF Accept, Goto
    <2> QED BY <1>0, <1>2, <2>3 DEF Accept, TypeOK
  <1>3. CASE Insert
    <2>1. loop' \in Loop /\ loop.fd \in Fds
      BY <1>0, <1>3 DEF Insert, Loop, IInv, MapInv, TypeOK
    <2> QED BY <1>0, <1>3, <2>1 DEF Insert, TypeOK
  <1>4. CASE Dispatch
    <2>1. loop' \in Loop
      BY <1>0, <1>4 DEF Dispatch, ReadyClients, Loop
    <2>2. lock.depth = 0
      BY <1>4 DEF Dispatch, IInv, LockInv, Held
    <2>3. lock' = [owner |-> "loop", depth |-> 1]
      BY <1>4, <2>2 DEF Dispatch, Lock
    <2> QED BY <1>0, <1>4, <2>1, <2>3, AgentServerAssumption DEF Dispatch, TypeOK, Threads
  <1>5. ASSUME NEW f \in Fds, HandleAndKeep(f) PROVE TypeOK'
    <2>1. loop' \in Loop
      BY <1>0, <1>5 DEF HandleAndKeep, Loop
    <2> QED BY <1>0, <1>5, <2>1 DEF HandleAndKeep, TypeOK
  <1>6. ASSUME NEW f \in Fds, Erase(f) PROVE TypeOK'
    <2>1. loop' \in Loop
      BY <1>0, <1>6 DEF Erase, Loop
    <2>2. lock.depth = 1
      BY <1>6 DEF Erase, IInv, LockInv, Held
    <2>3. lock' = [owner |-> "loop", depth |-> 2]
      BY <1>6, <2>2 DEF Erase, Lock
    <2> QED BY <1>0, <1>6, <2>1, <2>3, AgentServerAssumption DEF Erase, TypeOK, Threads
  <1>7. ASSUME NEW f \in Fds, HandleEnd(f) PROVE TypeOK'
    <2>1. loop' \in Loop
      BY <1>0, <1>7 DEF HandleEnd, Loop
    <2> QED BY <1>0, <1>7, <2>1 DEF HandleEnd, TypeOK
  <1>8. CASE CloseErased
    <2>1. loop' \in Loop
      BY <1>0, <1>8 DEF CloseErased, Loop
    <2>2. lock = [owner |-> "loop", depth |-> 2]
      BY <1>8 DEF CloseErased, IInv, LockInv, Held
    <2>3. lock' = [owner |-> "loop", depth |-> 1]
      BY <1>8, <2>2 DEF CloseErased, Unlock, Unlocked
    <2> QED BY <1>0, <1>8, <2>1, <2>3, AgentServerAssumption DEF CloseErased, TypeOK, Threads
  <1>9. CASE EndDispatch
    <2>1. loop' \in Loop
      BY <1>0, <1>9 DEF EndDispatch, Goto, Loop
    <2>2. lock.depth = 1
      BY <1>9 DEF EndDispatch, IInv, LockInv, Held
    <2>3. lock' = [owner |-> None, depth |-> 0]
      BY <1>9, <2>2 DEF EndDispatch, Unlock, Unlocked
    <2> QED BY <1>0, <1>9, <2>1, <2>3 DEF EndDispatch, TypeOK
  <1>10. CASE EraseClosed
    <2>1. loop' \in Loop
      BY <1>0, <1>10 DEF EraseClosed, Loop
    <2> QED BY <1>0, <1>10, <2>1 DEF EraseClosed, TypeOK
  <1>14. CASE RelockWaits
    <2>1. loop' \in Loop
      BY <1>0, <1>14 DEF RelockWaits, Goto, Loop
    <2> QED BY <1>0, <1>14, <2>1 DEF RelockWaits, TypeOK
  <1>15. CASE RelockThrows
    <2>1. loop' \in Loop
      BY <1>0, <1>15 DEF RelockThrows, Goto, Loop
    <2>2. lock' \in [owner : Threads \cup {None}, depth : 0..2] /\ (lock'.owner = None <=> lock'.depth = 0)
      BY <1>15 DEF RelockThrows
    <2>3. main' = "killed" /\ listen' = FALSE /\ backlog' = FALSE /\ clients' = {} /\ open' = {}
      BY <1>15 DEF RelockThrows
    <2>4. UNCHANGED <<running, input>>
      BY <1>15 DEF RelockThrows
    <2> QED BY <1>0, <2>1, <2>2, <2>3, <2>4 DEF TypeOK
  <1>11. CASE MainStep
    BY <1>0, <1>11 DEF MainStep, Stop, Unlisten, Clear, Join, TypeOK
  <1>12. CASE Gateway
    BY <1>0, <1>12 DEF Gateway, Connects, Arrives, TypeOK
  <1>13. CASE UNCHANGED vars
    BY <1>0, <1>13 DEF vars, TypeOK
  <1> QED BY <1>1, <1>2, <1>3, <1>4, <1>5, <1>6, <1>7, <1>8, <1>9, <1>10, <1>11, <1>12, <1>13,
             <1>14, <1>15
          DEF Next, LoopStep

\* Every step preserves the invariant.
LEMMA NextIInv == IInv /\ [Next]_vars => IInv'
  <1> SUFFICES ASSUME IInv, [Next]_vars PROVE IInv'
    OBVIOUS
  <1>0. TypeOK'
    BY NextType
  <1>13. loop \in Loop
    BY DEF IInv, TypeOK
  <1>1. CASE Top \/ Watch \/ SelectNothing \/ Select
    <2>1. loop.pc \in Outside /\ loop'.pc \in Outside /\ UNCHANGED <<lock, clients, open>>
      BY <1>1, <1>13 DEF Top, Watch, SelectNothing, Select, Goto, Outside, Loop
    <2> QED BY <1>0, <2>1, Elsewhere
  <1>2. CASE Accept
    <2>1. CASE UNCHANGED open
      <3>1. loop.pc \in Outside /\ loop'.pc \in Outside /\ UNCHANGED <<lock, clients, open>>
        BY <1>2, <2>1, <1>13 DEF Accept, Goto, Outside, Loop
      <3> QED BY <1>0, <3>1, Elsewhere
    <2>2. CASE ~UNCHANGED open
      <3>1. PICK f \in Fds \ open :
              /\ open' = open \cup {f} /\ loop' = [loop EXCEPT !.pc = "insert", !.fd = f]
              /\ loop.pc = "accept" /\ UNCHANGED <<lock, clients>>
        BY <1>2, <2>2 DEF Accept
      <3>2. loop'.pc = "insert" /\ loop'.fd = f
        BY <3>1 DEF IInv, TypeOK
      <3>3. LockInv'
        BY <3>1, <3>2 DEF IInv, LockInv, Held
      <3>4. MapInv' /\ ReadyInv'
        BY <3>1, <3>2 DEF IInv, MapInv, ReadyInv
      <3> QED BY <1>0, <3>3, <3>4 DEF IInv
    <2> QED BY <2>1, <2>2
  <1>3. CASE Insert
    <2>1. /\ loop.pc = "insert" /\ loop'.pc \in {"top", "dispatch"}
          /\ clients' = clients \cup {loop.fd} /\ UNCHANGED <<lock, open>>
      BY <1>3 DEF Insert, IInv, TypeOK
    <2>2. LockInv'
      BY <2>1 DEF IInv, LockInv, Held
    <2>3. MapInv' /\ ReadyInv'
      BY <2>1 DEF IInv, MapInv, ReadyInv
    <2> QED BY <1>0, <2>2, <2>3 DEF IInv
  <1>4. CASE Dispatch
    <2>1. /\ loop.pc = "dispatch" /\ loop'.pc = "handle" /\ loop'.ready = loop.ready \cap clients
          /\ UNCHANGED <<clients, open>>
      BY <1>4 DEF Dispatch, ReadyClients, IInv, TypeOK
    <2>2. LockInv'
      BY <1>4, <2>1 DEF Dispatch, Lock, IInv, LockInv, Held
    <2>3. MapInv' /\ ReadyInv'
      BY <2>1 DEF IInv, MapInv, ReadyInv
    <2> QED BY <1>0, <2>2, <2>3 DEF IInv
  <1>5. ASSUME NEW f \in Fds, HandleAndKeep(f) PROVE IInv'
    <2>1. /\ loop.pc = "handle" /\ loop'.pc = "handle" /\ loop'.ready \subseteq loop.ready
          /\ UNCHANGED <<lock, clients, open>>
      BY <1>5 DEF HandleAndKeep, IInv, TypeOK
    <2>2. LockInv'
      BY <2>1 DEF IInv, LockInv, Held
    <2>3. MapInv' /\ ReadyInv'
      BY <2>1 DEF IInv, MapInv, ReadyInv
    <2> QED BY <1>0, <2>2, <2>3 DEF IInv
  <1>6. ASSUME NEW f \in Fds, Erase(f) PROVE IInv'
    <2>1. /\ loop.pc = "handle" /\ f \in loop.ready
          /\ loop'.pc = "erased" /\ loop'.fd = f /\ loop'.ready = loop.ready \ {f}
          /\ clients' = clients \ {f} /\ UNCHANGED open
      BY <1>6 DEF Erase, IInv, TypeOK
    <2>2. LockInv'
      BY <1>6, <2>1 DEF Erase, Lock, IInv, LockInv, Held
    <2>3. MapInv' /\ ReadyInv'
      BY <2>1 DEF IInv, MapInv, ReadyInv
    <2> QED BY <1>0, <2>2, <2>3 DEF IInv
  <1>7. ASSUME NEW f \in Fds, HandleEnd(f) PROVE IInv'
    <2>1. /\ loop.pc = "handle" /\ f \in loop.ready
          /\ loop'.pc = "closed" /\ loop'.fd = f /\ loop'.ready = loop.ready \ {f}
          /\ open' = open \ {f} /\ UNCHANGED <<lock, clients>>
      BY <1>7 DEF HandleEnd, IInv, TypeOK
    <2>2. LockInv'
      BY <2>1 DEF IInv, LockInv, Held
    <2>3. MapInv' /\ ReadyInv'
      BY <2>1 DEF IInv, MapInv, ReadyInv
    <2> QED BY <1>0, <2>2, <2>3 DEF IInv
  <1>8. CASE CloseErased
    <2>1. /\ loop.pc = "erased" /\ loop'.pc = "handle" /\ loop'.ready = loop.ready
          /\ open' = open \ {loop.fd} /\ UNCHANGED clients
      BY <1>8 DEF CloseErased, IInv, TypeOK
    <2>2. LockInv'
      BY <1>8, <2>1 DEF CloseErased, Unlock, Unlocked, IInv, LockInv, Held
    <2>3. MapInv' /\ ReadyInv'
      BY <2>1 DEF IInv, MapInv, ReadyInv
    <2> QED BY <1>0, <2>2, <2>3 DEF IInv
  <1>9. CASE EraseClosed
    <2>1. /\ loop.pc = "closed" /\ loop'.pc = "handle" /\ loop'.ready = loop.ready
          /\ clients' = clients \ {loop.fd} /\ UNCHANGED <<lock, open>>
      BY <1>9 DEF EraseClosed, IInv, TypeOK
    <2>2. LockInv'
      BY <2>1 DEF IInv, LockInv, Held
    <2>3. MapInv' /\ ReadyInv'
      BY <2>1 DEF IInv, MapInv, ReadyInv
    <2> QED BY <1>0, <2>2, <2>3 DEF IInv
  <1>10. CASE EndDispatch
    <2>1. loop.pc = "handle" /\ loop'.pc = "top" /\ UNCHANGED <<clients, open>>
      BY <1>10 DEF EndDispatch, Goto, IInv, TypeOK
    <2>2. LockInv'
      BY <1>10, <2>1 DEF EndDispatch, Unlock, Unlocked, IInv, LockInv, Held
    <2>3. MapInv' /\ ReadyInv'
      BY <2>1 DEF IInv, MapInv, ReadyInv
    <2> QED BY <1>0, <2>2, <2>3 DEF IInv
  <1>14. CASE RelockWaits
    <2>1. /\ loop.pc \in {"handle", "closed"} /\ loop'.pc = "stuck"
          /\ loop'.ready = loop.ready /\ loop'.fd = loop.fd
          /\ UNCHANGED <<lock, clients, open>>
      BY <1>13, <1>14 DEF RelockWaits, Relocks, Goto, Loop
    <2>2. LockInv'
      BY <2>1 DEF IInv, LockInv, Held
    <2>3. MapInv' /\ ReadyInv'
      BY <2>1 DEF IInv, MapInv, ReadyInv
    <2> QED BY <1>0, <2>2, <2>3 DEF IInv
  <1>15. CASE RelockThrows
    <2>1. /\ loop'.pc = "dead" /\ clients' = {} /\ open' = {}
          /\ lock' = [owner |-> None, depth |-> 0]
      BY <1>13, <1>15 DEF RelockThrows, Goto, Loop
    <2>2. LockInv'
      BY <2>1 DEF LockInv, Held
    <2>3. MapInv' /\ ReadyInv'
      BY <2>1 DEF MapInv, ReadyInv
    <2> QED BY <1>0, <2>2, <2>3 DEF IInv
  <1>11. CASE Clear
    <2>1. Held = 0
      BY <1>11, AgentServerAssumption DEF Clear, MayLock, IInv, LockInv
    <2>2. loop.pc \notin {"handle", "closed", "erased", "stuck"}
      BY <2>1 DEF Held
    <2>3. open' = open \ clients /\ clients' = {} /\ UNCHANGED <<loop, lock>>
      BY <1>11 DEF Clear
    <2>4. LockInv'
      BY <2>3 DEF IInv, LockInv, Held
    <2>5. MapInv' /\ ReadyInv'
      BY <2>2, <2>3 DEF IInv, MapInv, ReadyInv
    <2> QED BY <1>0, <2>4, <2>5 DEF IInv
  <1>12. CASE Stop \/ Unlisten \/ Join \/ Gateway \/ UNCHANGED vars
    <2>1. UNCHANGED <<loop, lock, clients, open>>
      BY <1>12 DEF Stop, Unlisten, Join, Gateway, Connects, Arrives, vars
    <2> QED BY <1>0, <2>1, Elsewhere
  <1> QED BY <1>1, <1>2, <1>3, <1>4, <1>5, <1>6, <1>7, <1>8, <1>9, <1>10, <1>11, <1>12,
             <1>14, <1>15
          DEF Next, LoopStep, MainStep

LEMMA Inductive == Spec => []IInv
  BY InitIInv, NextIInv, PTL DEF Spec

-----------------------------------------------------------------------------
\* Every variable keeps its type; clients_mutex_ has an owner exactly while it is held.
THEOREM TypeCorrect == Spec => []TypeOK
  <1>1. IInv => TypeOK
    BY DEF IInv
  <1> QED BY <1>1, Inductive, PTL

\* agent_server.cpp:112-130 and 224-263: whenever stop() comes, the map and the open
\* handles differ by at most the handle the event loop has in hand.
THEOREM MapMatches == Spec => []MapMatchesHandles
  <1>1. IInv => MapMatchesHandles
    BY DEF IInv, TypeOK, MapInv, MapMatchesHandles
  <1> QED BY <1>1, Inductive, PTL

\* agent_server.cpp:181: stop() closes no handle that the event loop has yet to read.
THEOREM ReadyStaysOpen == Spec => []ReadyIsOpen
  <1>1. IInv => ReadyIsOpen
    BY DEF IInv, ReadyInv, ReadyIsOpen
  <1> QED BY <1>1, Inductive, PTL
=============================================================================
