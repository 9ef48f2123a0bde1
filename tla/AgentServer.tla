------------------------------ MODULE AgentServer ------------------------------
(***************************************************************************)
(* The agent process (agent_server.cpp): the event loop thread with its    *)
(* select(), the map clients_ and its mutex, and the main thread in        *)
(* wait_for_shutdown() and stop().  What a request holds and the frames of *)
(* its answer are the subject of module AgentLink; here a request is       *)
(* answered and its connection closed, or answered and left open.          *)
(*                                                                         *)
(* clients_mutex_ is a std::mutex that the event loop takes for all the    *)
(* handlers of a round (agent_server.cpp:181; the comment at 189 says they *)
(* run outside of it) and that each handler locks again (255, 263, 376,    *)
(* 457).  This is undefined, and Relock says what it may do: wait for      *)
(* ever, throw an exception that nothing catches (as the library of Visual *)
(* Studio does), or go on, as the code takes for granted.                  *)
(***************************************************************************)
EXTENDS Naturals, FiniteSets

CONSTANTS
  Fds,     \* handles accept() can return
  None,    \* no thread, no handle
  Relock   \* what comes of locking a mutex that the thread holds

ASSUME AgentServerAssumption ==
  /\ IsFiniteSet(Fds) /\ None \notin Fds /\ "loop" # None
  /\ Relock \subseteq {"waits", "throws", "counts"}

VARIABLES
  running,  \* running_
  main,     \* where the main thread is in stop()
  loop,     \* where the event loop is, and its sets
  lock,     \* clients_mutex_: its owner and how often it holds it
  listen,   \* the listening socket is open
  backlog,  \* a connection waits to be accepted
  input,    \* what waits at each handle: nothing, data or the end
  clients,  \* the keys of clients_
  open      \* handles of accepted connections that are open

vars == <<running, main, loop, lock, listen, backlog, input, clients, open>>

Threads == {"loop", "main"}
Loop == [pc : {"top", "watch", "select", "accept", "insert", "dispatch", "handle",
               "erased", "closed", "exited", "stuck", "dead"},
         watched : SUBSET Fds, listening : BOOLEAN, ready : SUBSET Fds, fd : Fds \cup {None}]

Init ==
  /\ running = TRUE /\ main = "serving"
  /\ loop = [pc |-> "top", watched |-> {}, listening |-> FALSE, ready |-> {}, fd |-> None]
  /\ lock = [owner |-> None, depth |-> 0]
  /\ listen = TRUE /\ backlog = FALSE
  /\ input = [f \in Fds |-> "nothing"]
  /\ clients = {} /\ open = {}

-----------------------------------------------------------------------------
(* clients_mutex_                                                          *)

\* The mutex is free, or the thread has it and locks it again with success.
MayLock(t) == lock.owner = None \/ (lock.owner = t /\ "counts" \in Relock)
Lock(t) == lock' = [owner |-> t, depth |-> lock.depth + 1]

\* Mutant: the owner stays when the last scope ends.
Unlocked_KeepsOwner == [lock EXCEPT !.depth = @ - 1]

\* Mutant: a scope that ends releases the mutex although an outer one holds it.
Unlocked_Whole == [owner |-> None, depth |-> 0]

Unlocked ==
  IF lock.depth = 1 THEN [owner |-> None, depth |-> 0] ELSE [lock EXCEPT !.depth = @ - 1]

Unlock == lock' = Unlocked

Goto(pc) == loop' = [loop EXCEPT !.pc = pc]

-----------------------------------------------------------------------------
(* event_loop                                                              *)

\* Mutant: running_ is read once.
Top_Hoisted ==
  /\ loop.pc = "top"
  /\ Goto("watch")
  /\ UNCHANGED <<running, main, lock, listen, backlog, input, clients, open>>

\* The loop condition.
Top ==
  /\ loop.pc = "top"
  /\ Goto(IF running THEN "watch" ELSE "exited")
  /\ UNCHANGED <<running, main, lock, listen, backlog, input, clients, open>>

\* FD_SET of the listening socket and, under the mutex, of all clients.
Watch ==
  /\ loop.pc = "watch" /\ MayLock("loop")
  /\ loop' = [loop EXCEPT !.pc = "select", !.watched = clients, !.listening = listen]
  /\ UNCHANGED <<running, main, lock, listen, backlog, input, clients, open>>

\* Handles in the set that select() would report.
Readable == {f \in loop.watched : input[f] # "nothing"}

\* select() fails, because a handle in the set has been closed, or times out.
SelectNothing ==
  /\ loop.pc = "select"
  /\ Goto("top")
  /\ UNCHANGED <<running, main, lock, listen, backlog, input, clients, open>>

\* select() reports handles.  A new connection is accepted first.
Select ==
  /\ loop.pc = "select"
  /\ loop.watched \subseteq open /\ loop.listening = listen
  /\ (loop.listening /\ backlog) \/ Readable # {}
  /\ loop' = [loop EXCEPT !.ready = Readable,
                          !.pc = IF loop.listening /\ backlog THEN "accept" ELSE "dispatch"]
  /\ UNCHANGED <<running, main, lock, listen, backlog, input, clients, open>>

\* handle_new_connection: accept(), or its failure when stop() has closed the
\* listening socket.
Accept ==
  /\ loop.pc = "accept"
  /\ \/ /\ listen /\ backlog
        /\ \E f \in Fds \ open :
             /\ open' = open \cup {f}
             /\ input' = [input EXCEPT ![f] = "nothing"]
             /\ loop' = [loop EXCEPT !.pc = "insert", !.fd = f]
        /\ backlog' = FALSE
     \/ /\ ~listen \/ Fds = open
        /\ Goto(IF loop.ready = {} THEN "top" ELSE "dispatch")
        /\ UNCHANGED <<backlog, input, open>>
  /\ UNCHANGED <<running, main, lock, listen, clients>>

\* The new client goes into the map.
Insert ==
  /\ loop.pc = "insert" /\ MayLock("loop")
  /\ clients' = clients \cup {loop.fd}
  /\ loop' = [loop EXCEPT !.pc = IF loop.ready = {} THEN "top" ELSE "dispatch", !.fd = None]
  /\ UNCHANGED <<running, main, lock, listen, backlog, input, open>>

\* Mutant: the reported handles are handled, also those no longer in the map.
ReadyClients_Unchecked == loop.ready

\* The reported handles that are still in the map.
ReadyClients == loop.ready \cap clients

\* The mutex is taken, for all the handlers that follow.
Dispatch ==
  /\ loop.pc = "dispatch" /\ MayLock("loop")
  /\ Lock("loop")
  /\ loop' = [loop EXCEPT !.pc = "handle", !.ready = ReadyClients]
  /\ UNCHANGED <<running, main, listen, backlog, input, clients, open>>

\* handle_client_data: recv() returns data, the client is found under the mutex,
\* and the data completes no frame or is answered without closing (the agent has
\* no such handler, or a message that is no request).
HandleAndKeep(f) ==
  /\ loop.pc = "handle" /\ f \in loop.ready /\ input[f] = "data"
  /\ MayLock("loop")
  /\ input' = [input EXCEPT ![f] = "nothing"]
  /\ loop' = [loop EXCEPT !.ready = @ \ {f}]
  /\ UNCHANGED <<running, main, lock, listen, backlog, clients, open>>

\* process_request_on_connection: the answer has been sent (or a send failed, or
\* the handler threw): the mutex is locked again and the entry erased, ...
Erase(f) ==
  /\ loop.pc = "handle" /\ f \in loop.ready /\ input[f] = "data"
  /\ MayLock("loop") /\ Lock("loop")
  /\ clients' = clients \ {f}
  /\ loop' = [loop EXCEPT !.pc = "erased", !.ready = @ \ {f}, !.fd = f]
  /\ UNCHANGED <<running, main, listen, backlog, input, open>>

\* Mutant: a path of the cleanup leaves the handle open.
CloseErased_Forgets ==
  /\ loop.pc = "erased"
  /\ Unlock
  /\ loop' = [loop EXCEPT !.pc = "handle", !.fd = None]
  /\ UNCHANGED <<running, main, listen, backlog, input, clients, open>>

\* ... and the handle is closed.
CloseErased ==
  /\ loop.pc = "erased"
  /\ Unlock
  /\ open' = open \ {loop.fd}
  /\ loop' = [loop EXCEPT !.pc = "handle", !.fd = None]
  /\ UNCHANGED <<running, main, listen, backlog, input, clients>>

\* handle_client_data: the gateway has closed its end.  The handle is closed, ...
HandleEnd(f) ==
  /\ loop.pc = "handle" /\ f \in loop.ready /\ input[f] = "end"
  /\ open' = open \ {f}
  /\ loop' = [loop EXCEPT !.pc = "closed", !.ready = @ \ {f}, !.fd = f]
  /\ UNCHANGED <<running, main, lock, listen, backlog, input, clients>>

\* ... and the entry erased.
EraseClosed ==
  /\ loop.pc = "closed" /\ MayLock("loop")
  /\ clients' = clients \ {loop.fd}
  /\ loop' = [loop EXCEPT !.pc = "handle", !.fd = None]
  /\ UNCHANGED <<running, main, lock, listen, backlog, input, open>>

\* The event loop is about to lock the mutex it has: to find the client whose
\* data it has read or to erase it, or to erase one it has closed.
Relocks ==
  \/ (loop.pc = "handle" /\ \E f \in loop.ready : input[f] = "data")
  \/ loop.pc = "closed"

\* It waits for itself, with the mutex held.
RelockWaits ==
  /\ Relocks /\ "waits" \in Relock
  /\ Goto("stuck")
  /\ UNCHANGED <<running, main, lock, listen, backlog, input, clients, open>>

\* Or lock() throws: no handler of the thread catches it, and the process ends.
RelockThrows ==
  /\ Relocks /\ "throws" \in Relock
  /\ Goto("dead")
  /\ main' = "killed"
  /\ lock' = [owner |-> None, depth |-> 0]
  /\ listen' = FALSE /\ backlog' = FALSE
  /\ clients' = {} /\ open' = {}
  /\ UNCHANGED <<running, input>>

\* All ready handles are done.
EndDispatch ==
  /\ loop.pc = "handle" /\ loop.ready = {}
  /\ Unlock
  /\ Goto("top")
  /\ UNCHANGED <<running, main, listen, backlog, input, clients, open>>

-----------------------------------------------------------------------------
(* wait_for_shutdown and stop                                              *)

\* Ctrl+C has cleared g_running: stop() clears running_.
Stop ==
  /\ main = "serving"
  /\ running' = FALSE
  /\ main' = "unlisten"
  /\ UNCHANGED <<loop, lock, listen, backlog, input, clients, open>>

Unlisten ==
  /\ main = "unlisten"
  /\ listen' = FALSE
  /\ main' = "clear"
  /\ UNCHANGED <<running, loop, lock, backlog, input, clients, open>>

\* Every client is closed and the map cleared, under the mutex.
Clear ==
  /\ main = "clear" /\ MayLock("main")
  /\ open' = open \ clients
  /\ clients' = {}
  /\ main' = "join"
  /\ UNCHANGED <<running, loop, lock, listen, backlog, input>>

Join ==
  /\ main = "join" /\ loop.pc = "exited"
  /\ main' = "stopped"
  /\ UNCHANGED <<running, loop, lock, listen, backlog, input, clients, open>>

-----------------------------------------------------------------------------
(* The gateway                                                             *)

Connects ==
  /\ listen /\ ~backlog
  /\ backlog' = TRUE
  /\ UNCHANGED <<running, main, loop, lock, listen, input, clients, open>>

\* A request, or a part of one, arrives; or the gateway closes its end.
Arrives(f, what) ==
  /\ f \in open /\ input[f] = "nothing"
  /\ input' = [input EXCEPT ![f] = what]
  /\ UNCHANGED <<running, main, loop, lock, listen, backlog, clients, open>>

-----------------------------------------------------------------------------
LoopStep ==
  \/ Top \/ Watch \/ SelectNothing \/ Select \/ Accept \/ Insert \/ Dispatch
  \/ \E f \in Fds : HandleAndKeep(f) \/ Erase(f) \/ HandleEnd(f)
  \/ CloseErased \/ EraseClosed \/ RelockWaits \/ RelockThrows \/ EndDispatch

MainStep == Stop \/ Unlisten \/ Clear \/ Join

Gateway == Connects \/ \E f \in Fds, what \in {"data", "end"} : Arrives(f, what)

Next == LoopStep \/ MainStep \/ Gateway

Spec == Init /\ [][Next]_vars

\* Both threads run.  Nothing is assumed of the gateway, nor that stop() is
\* called.
FairSpec ==
  /\ Spec
  /\ WF_vars(LoopStep)
  /\ WF_vars(Unlisten) /\ WF_vars(Clear) /\ WF_vars(Join)

-----------------------------------------------------------------------------
(* Properties                                                              *)

\* Every variable has its type, and the mutex is held exactly while it has an
\* owner.
TypeOK ==
  /\ running \in BOOLEAN /\ listen \in BOOLEAN /\ backlog \in BOOLEAN
  /\ main \in {"serving", "unlisten", "clear", "join", "stopped", "killed"}
  /\ loop \in Loop
  /\ lock \in [owner : Threads \cup {None}, depth : 0..2]
  /\ lock.owner = None <=> lock.depth = 0
  /\ input \in [Fds -> {"nothing", "data", "end"}]
  /\ clients \subseteq Fds /\ open \subseteq Fds

\* The map and the open handles agree, but for the one the event loop is
\* accepting, erasing or closing: no handle is forgotten, none in the map is
\* closed (select() would fail for ever after).
MapMatchesHandles ==
  /\ clients \ open \subseteq {loop.fd} /\ open \ clients \subseteq {loop.fd}
  /\ loop.pc \notin {"insert", "erased", "closed", "stuck"} => clients = open

\* While the event loop works through the ready handles, every one of them is
\* an open client: stop() cannot close them under its hands.
ReadyIsOpen ==
  loop.pc \in {"handle", "erased", "closed", "stuck"} => loop.ready \subseteq clients \cap open

\* stop() ends, whatever the event loop was doing, unless locking the mutex it
\* has makes it wait for ever, and stop() with it, or has ended the process: no
\* other wait of the two threads lasts.
StopTerminates ==
  main = "unlisten" ~> main = "stopped" \/ loop.pc = "stuck" \/ main = "killed"
=============================================================================
