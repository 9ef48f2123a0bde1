------------------------------- MODULE ServerLife -------------------------------
(***************************************************************************)
(* The life of the gateway process around module Gateway: main() has       *)
(* registered its Ctrl+C handler (main.cpp:65) and calls Server::start,    *)
(* whose steps may fail one by one; wait_for_shutdown polls g_running and  *)
(* calls stop().  Ctrl+C may come at any time, also while start() is still *)
(* at work.  The workers, the connections and the kernel are those of      *)
(* Gateway; they run from the moment start() has created the threads.      *)
(***************************************************************************)
EXTENDS Gateway

ASSUME LifeAssumption == IsFiniteSet(Workers)

VARIABLE main  \* where the main thread is: in start(), past it, or back in main()

lifeVars == <<vars, main>>

LifeInit ==
  /\ main = "engine"
  /\ stage = "serving"  \* g_running is true from the beginning
  /\ free_list = Bufs /\ posted = {} /\ completed = {} /\ open = {}
  /\ obj = [c \in Conns |-> NoConnection]
  /\ connections = [f \in Fds |-> None]
  /\ worker = [w \in Workers |-> [pc |-> "wait", batch |-> {}, conn |-> None, rest |-> "return"]]

-----------------------------------------------------------------------------
(* Server::start                                                           *)

StartFails ==
  /\ main' = "failed"
  /\ UNCHANGED vars

\* The engine, the pool, the limiter and the router are created; IOEngineIocp::init
\* may fail, and Router::init may find no agent, which stops nothing.
CreateEngine ==
  /\ main = "engine"
  /\ \/ main' = "listen" /\ UNCHANGED vars
     \/ StartFails

\* create_listen_socket: socket(), bind() and listen().
CreateListenSocket ==
  /\ main = "listen"
  /\ \/ main' = "accepts" /\ UNCHANGED vars
     \/ StartFails

\* Every operation so far is an initial accept.
InitialAccepts == Cardinality(posted \cup completed)

\* One turn of the loop over post_accept.  When it fails, start() returns and
\* leaves the listening socket and the accepts posted before.
PostInitialAccept ==
  /\ main = "accepts" /\ InitialAccepts < AcceptSlots
  /\ \/ \E f \in Issuable :
          /\ open' = open \cup {f}
          /\ posted' = posted \cup {AcceptOp(f)}
          /\ UNCHANGED <<stage, free_list, completed, obj, connections, worker, main>>
     \/ PostMayFail /\ StartFails

\* g_running is set, whatever has become of it since main() began, and the
\* workers are started.
StartWorkers ==
  /\ main = "accepts" /\ InitialAccepts = AcceptSlots
  /\ stage' = "serving"
  /\ main' = "serving"
  /\ UNCHANGED <<free_list, posted, completed, obj, connections, open, worker>>

-----------------------------------------------------------------------------
(* console_ctrl_handler, wait_for_shutdown and stop                        *)

\* The handler runs in a thread of its own.
CtrlC == Shutdown /\ UNCHANGED main

\* stop(), entered from wait_for_shutdown when g_running is found cleared.
Stop == main = "serving" /\ (StopAccepting \/ CloseAll) /\ UNCHANGED main

\* start() has failed: ~Server finds started_ unset, and the engine is
\* destroyed with the operations it still has.
Exit ==
  /\ main = "failed"
  /\ main' = "exited"
  /\ posted' = {} /\ completed' = {}
  /\ UNCHANGED <<stage, free_list, obj, connections, open, worker>>

-----------------------------------------------------------------------------
StartStep == CreateEngine \/ CreateListenSocket \/ PostInitialAccept \/ StartWorkers

LifeNext ==
  \/ StartStep \/ CtrlC \/ Stop \/ Exit
  \/ \E w \in Workers : main = "serving" /\ WorkerStep(w) /\ UNCHANGED main
  \/ \E x \in posted : Complete(x) /\ UNCHANGED main

LifeSpec == LifeInit /\ [][LifeNext]_lifeVars

\* A worker is in a call of the agent, whose send may block for ever (module AgentLink).
Calling(w) == worker[w].pc = "agent"

\* The main thread and the workers run.  Nothing is assumed of clients, of the kernel,
\* nor that a call of the agent returns or that Ctrl+C comes.
LifeFairSpec ==
  /\ LifeSpec
  /\ WF_lifeVars(StartStep) /\ WF_lifeVars(Stop) /\ WF_lifeVars(Exit)
  /\ \A w \in Workers :
       WF_lifeVars(main = "serving" /\ ~Calling(w) /\ WorkerStep(w) /\ UNCHANGED main)

-----------------------------------------------------------------------------
(* Properties                                                              *)

\* Every variable has its type, and nothing but accepts exists before the workers.
LifeTypeOK ==
  /\ TypeOK
  /\ main \in {"engine", "listen", "accepts", "serving", "failed", "exited"}
  /\ main # "serving" => \A x \in Queued : x.op = "ACCEPT"

\* A Ctrl+C that comes when start() has returned ends the process: stop() goes
\* through, whatever the workers were doing, unless one of them is in a call of the
\* agent that never returns: stop() joins it.  (A Ctrl+C that comes earlier is
\* overwritten by server.cpp:91.)
CtrlCStops ==
  \/ \E w \in Workers : <>[]Calling(w)
  \/ main = "serving" /\ stage = "stopping" ~> stage = "stopped"

\* The accepts of the server: posted, completed, or in a handler that has still to
\* post its successor.
Accepts ==
  Cardinality({x \in Queued : x.op = "ACCEPT"})
    + Cardinality({w \in Workers : worker[w].pc = "repost" \/ worker[w].rest = "repost"})

\* server.cpp:328, several accepts are kept in the queue: one is lost only
\* where post_accept fails in on_accept_complete (329), however the new
\* connection fares.
AcceptsKept ==
  [][main = "serving" /\ stage' # "stopped" =>
       \/ Accepts' = Accepts
       \/ /\ Accepts' = Accepts - 1 /\ posted' = posted
          /\ \E w \in Workers : worker[w].pc = "repost" /\ worker'[w].pc = "next"]_lifeVars
=============================================================================
