-------------------------- MODULE LifecycleProofs --------------------------
(***************************************************************************)
(* Proofs about the life cycles of the two programs (module Lifecycle), for*)
(* every number of workers, of threads of fuse and of signals.             *)
(***************************************************************************)
EXTENDS Lifecycle, TLAPS

-----------------------------------------------------------------------------
(* The numbers of threads and sockets, and the labels.                     *)

\* The main thread, the workers and the ZAP thread have different numbers, and so
\* have the sockets.
LEMMA ThreadNumbers ==
    /\ NWorkers \in Nat /\ NWorkers > 0
    /\ Main \in Threads /\ Auth \in Threads /\ Main # Auth
    /\ Workers \subseteq Threads /\ Main \notin Workers /\ Auth \notin Workers
    /\ Threads = Workers \cup {Main, Auth}
    /\ 1 \in 1 .. NWorkers + 1
    /\ InSocket \in Sockets /\ WorkerSocket \in Sockets
    /\ Workers \subseteq Sockets /\ Auth \in Sockets
    /\ \A t \in Threads : t # InSocket /\ t # WorkerSocket
    /\ InSocket # WorkerSocket
  BY WorkersAssumption
  DEF Main, Auth, Workers, Threads, InSocket, WorkerSocket, Sockets

Labels == StartupLabels \cup ShutdownLabels \cup ThreadLabels
Happenings == SUBSET {"early", "again", "no_thread", "late_auth", "failed"}

\* A thread goes only to labels of its process, and what happens is one of five things.
LEMMA LabelFacts ==
    /\ {"main", "context", "auth", "auth_wait", "in_socket", "in_store", "bind",
        "worker_socket", "worker_store", "workers", "create", "device",
        "error"} \subseteq Labels
    /\ {"close_in", "null_in", "close_worker", "null_worker", "term", "terminating",
        "null_context", "join", "free", "join_auth", "exit"} \subseteq Labels
    /\ {"none", "begin", "socket", "connect", "serve", "close", "ended"} \subseteq Labels
    /\ \A h \in Happenings :
         \A e \in {"early", "again", "no_thread", "late_auth", "failed"} :
           h \cup {e} \in Happenings
  BY DEF Labels, StartupLabels, ShutdownLabels, ThreadLabels, Happenings

\* the type of the server with its larger sets named
TypedProcess ==
    [auth : BOOLEAN, pc : [Threads -> Labels], mask : [Threads -> SUBSET Signals],
     at : [Threads -> 1 .. NWorkers + 1], context : BOOLEAN,
     ctx : {"none", "open", "terminating", "freed"}, open : SUBSET Sockets,
     stored : SUBSET {InSocket, WorkerSocket}, unsent : BOOLEAN,
     workers : {"null", "allocated", "freed"},
     ready : BOOLEAN, joined : SUBSET Threads, exit_code : {"success", "failure"},
     status : {"none", "running", "success", "failure", "crash"}, handlers : BOOLEAN,
     sent : 0 .. MaxSignals, happened : Happenings, undefined : BOOLEAN]

LEMMA ProcessIs == Process = TypedProcess
  BY DEF Process, TypedProcess, Labels, Happenings

-----------------------------------------------------------------------------
(* The server.  Without a mishap shutdown runs once, on the main thread,   *)
(* when every worker that was created has its socket or has ended; so      *)
(* where the main thread is tells what is left of everything else.         *)

Early   == {"main", "context"}
Booting == {"auth", "auth_wait", "in_socket", "in_store", "bind", "worker_socket",
            "worker_store", "workers"}
Closing == {"error", "close_in", "null_in", "close_worker", "null_worker", "term"}
After   == {"join", "free", "join_auth", "exit"}

\* no thread but the main one is in shutdown
Places ==
    /\ srv.pc[Main] \in Early \cup Booting \cup {"create", "device"} \cup Closing
                          \cup {"terminating", "null_context"} \cup After
    /\ \A w \in Workers : srv.pc[w] \in ThreadLabels
    /\ srv.pc[Auth] \in {"none", "begin", "connect", "serve", "ended"}
    /\ srv.mask[Main] # {} => srv.pc[Main] \in ShutdownLabels

\* the static variable and the context itself
ContextPhase ==
    /\ srv.pc[Main] \in Early => srv.ctx = "none"
    /\ srv.pc[Main] \in Booting \cup {"create", "device"} => srv.ctx = "open"
    /\ srv.pc[Main] \in Closing => srv.ctx \in {"none", "open"}
    /\ srv.pc[Main] = "terminating" => srv.ctx = "terminating"
    /\ srv.pc[Main] = "null_context" => srv.ctx = "freed"
    /\ srv.pc[Main] \in After => srv.ctx \in {"none", "freed"}
    /\ srv.context <=>
         srv.ctx \in {"open", "terminating"} \/ srv.pc[Main] = "null_context"

\* an open socket and an unsent reply have a context, and a thread in its loop its
\* socket
SocketPhase ==
    /\ \A t \in Workers \cup {Auth} :
         t \in srv.open <=> srv.pc[t] \in {"connect", "serve", "close"}
    /\ InSocket \in srv.stored => InSocket \in srv.open \/ srv.pc[Main] = "null_in"
    /\ WorkerSocket \in srv.stored =>
         WorkerSocket \in srv.open \/ srv.pc[Main] = "null_worker"
    /\ srv.pc[Main] = "in_store" => InSocket \in srv.open
    /\ srv.pc[Main] = "worker_store" => WorkerSocket \in srv.open
    /\ srv.ctx \in {"none", "freed"} => srv.open = {} /\ ~ srv.unsent

\* the workers are created one by one, and joined in the same order
WorkerPhase ==
    /\ srv.pc[Main] \in Early \cup Booting => srv.workers = "null"
    /\ srv.pc[Main] \in {"create", "device"} => srv.workers = "allocated"
    /\ srv.workers = "freed" => srv.pc[Main] \in {"join_auth", "exit"}
    /\ srv.pc[Main] = "free" => srv.workers # "null"
    /\ \A w \in Workers :
         /\ srv.workers = "null" => srv.pc[w] = "none"
         /\ srv.workers # "null" /\ (srv.pc[Main] = "create" => w < srv.at[Main])
              => srv.pc[w] # "none"
         /\ srv.pc[Main] = "create" /\ srv.at[Main] <= w => srv.pc[w] = "none"
         /\ srv.pc[Main] \notin {"create", "device"} =>
              srv.pc[w] \in {"none", "serve", "close", "ended"}
         /\ w \in srv.joined <=> srv.pc[Main] \in After /\ w < srv.at[Main]
    /\ srv.pc[Main] \notin After \cup {"create", "device"} => srv.at[Main] = 1
    /\ srv.pc[Main] \in {"free", "join_auth", "exit"} /\ srv.workers # "null" =>
         srv.at[Main] = NWorkers + 1

\* the ZAP thread is ready, or was never started, when start-up goes on
AuthPhase ==
    /\ srv.pc[Main] \in Early \cup {"auth"} => srv.pc[Auth] = "none"
    /\ srv.pc[Main] \notin Early \cup {"auth", "auth_wait"} =>
         srv.pc[Auth] \in {"none", "serve", "ended"}
    /\ srv.ready => srv.pc[Auth] \in {"serve", "ended"}
    /\ Auth \in srv.joined => srv.pc[Main] = "exit"
    /\ srv.pc[Main] = "exit" => srv.pc[Auth] = "none" \/ Auth \in srv.joined

Orderly ==
    ~ srv.undefined /\ Places /\ ContextPhase /\ SocketPhase /\ WorkerPhase /\ AuthPhase

\* what holds whatever happened
Statuses ==
    /\ "failed" \in srv.happened => srv.exit_code = "failure"
    /\ srv.status = "success" => srv.exit_code = "success"
    /\ srv.pc[Auth] # "none" => srv.auth
    /\ srv.status = "crash" => srv.auth

ServerInv == srv \in TypedProcess /\ Statuses /\ (~ Mishap => Orderly)

\* main goes on to startup or leaves, through shutdown or at once.
LEMMA MainKept ==
    ASSUME ServerInv, main
    PROVE  ServerInv'
  <1>t. srv \in TypedProcess /\ Statuses /\ (~ Mishap => Orderly) BY DEF ServerInv
  <1>g. ~ srv.undefined /\ srv.status = "running" /\ srv.pc[Main] = "main"
    BY DEF main, At, Alive
  <1>1. CASE srv' = [srv EXCEPT !.pc[Main] = "context"]
    <2>1. srv' \in TypedProcess
      BY <1>t, <1>1, ThreadNumbers, LabelFacts DEF TypedProcess
    <2>2. Statuses'
      BY <1>t, <1>g, <1>1, ThreadNumbers DEF TypedProcess, Statuses
    <2>3. ~ Mishap' => Orderly'
      BY <1>t, <1>g, <1>1, ThreadNumbers
      DEF TypedProcess, Mishap, Orderly, Places, ContextPhase, SocketPhase, WorkerPhase,
          AuthPhase, Early, Booting, Closing, After, ShutdownLabels, ThreadLabels,
          Workers
    <2> QED BY <2>1, <2>2, <2>3 DEF ServerInv
  <1>2. CASE srv' = [srv EXCEPT !.pc[Main] = "close_in"]
    <2>1. srv' \in TypedProcess
      BY <1>t, <1>2, ThreadNumbers, LabelFacts DEF TypedProcess
    <2>2. Statuses'
      BY <1>t, <1>g, <1>2, ThreadNumbers DEF TypedProcess, Statuses
    <2>3. ~ Mishap' => Orderly'
      BY <1>t, <1>g, <1>2, ThreadNumbers
      DEF TypedProcess, Mishap, Orderly, Places, ContextPhase, SocketPhase, WorkerPhase,
          AuthPhase, Early, Booting, Closing, After, ShutdownLabels, ThreadLabels,
          Workers
    <2> QED BY <2>1, <2>2, <2>3 DEF ServerInv
  <1>3. CASE srv' = [srv EXCEPT !.status = "failure"]
    <2>1. srv' \in TypedProcess
      BY <1>t, <1>3, ThreadNumbers, LabelFacts DEF TypedProcess
    <2>2. Statuses'
      BY <1>t, <1>g, <1>3, ThreadNumbers DEF TypedProcess, Statuses
    <2>3. ~ Mishap' => Orderly'
      BY <1>t, <1>g, <1>3, ThreadNumbers
      DEF TypedProcess, Mishap, Orderly, Places, ContextPhase, SocketPhase, WorkerPhase,
          AuthPhase, Early, Booting, Closing, After, ShutdownLabels, ThreadLabels,
          Workers
    <2> QED BY <2>1, <2>2, <2>3 DEF ServerInv
  <1>4. CASE srv' = [srv EXCEPT !.exit_code = "failure", !.pc[Main] = "close_in"]
    <2>1. srv' \in TypedProcess
      BY <1>t, <1>4, ThreadNumbers, LabelFacts DEF TypedProcess
    <2>2. Statuses'
      BY <1>t, <1>g, <1>4, ThreadNumbers DEF TypedProcess, Statuses
    <2>3. ~ Mishap' => Orderly'
      BY <1>t, <1>g, <1>4, ThreadNumbers
      DEF TypedProcess, Mishap, Orderly, Places, ContextPhase, SocketPhase, WorkerPhase,
          AuthPhase, Early, Booting, Closing, After, ShutdownLabels, ThreadLabels,
          Workers
    <2> QED BY <2>1, <2>2, <2>3 DEF ServerInv
  <1> QED BY <1>g, <1>1, <1>2, <1>3, <1>4 DEF main, Goto

\* zmq_ctx_new fails, or opens the context and the handlers are installed.
LEMMA CreateContextKept ==
    ASSUME ServerInv, CreateContext
    PROVE  ServerInv'
  <1>t. srv \in TypedProcess /\ Statuses /\ (~ Mishap => Orderly) BY DEF ServerInv
  <1>g. ~ srv.undefined /\ srv.status = "running" /\ srv.pc[Main] = "context"
    BY DEF CreateContext, At, Alive
  <1>1. CASE srv' = [srv EXCEPT !.pc[Main] = "error"]
    <2>1. srv' \in TypedProcess
      BY <1>t, <1>1, ThreadNumbers, LabelFacts DEF TypedProcess
    <2>2. Statuses'
      BY <1>t, <1>g, <1>1, ThreadNumbers DEF TypedProcess, Statuses
    <2>3. ~ Mishap' => Orderly'
      BY <1>t, <1>g, <1>1, ThreadNumbers
      DEF TypedProcess, Mishap, Orderly, Places, ContextPhase, SocketPhase, WorkerPhase,
          AuthPhase, Early, Booting, Closing, After, ShutdownLabels, ThreadLabels,
          Workers
    <2> QED BY <2>1, <2>2, <2>3 DEF ServerInv
  <1>2. CASE srv' = [srv EXCEPT !.context = TRUE, !.ctx = "open", !.handlers = TRUE,
                                !.pc[Main] = "auth"]
    <2>1. srv' \in TypedProcess
      BY <1>t, <1>2, ThreadNumbers, LabelFacts DEF TypedProcess
    <2>2. Statuses'
      BY <1>t, <1>g, <1>2, ThreadNumbers DEF TypedProcess, Statuses
    <2>3. ~ Mishap' => Orderly'
      BY <1>t, <1>g, <1>2, ThreadNumbers
      DEF TypedProcess, Mishap, Orderly, Places, ContextPhase, SocketPhase, WorkerPhase,
          AuthPhase, Early, Booting, Closing, After, ShutdownLabels, ThreadLabels,
          Workers
    <2> QED BY <2>1, <2>2, <2>3 DEF ServerInv
  <1> QED BY <1>g, <1>1, <1>2 DEF CreateContext, Goto, Fails, Undefined

\* The ZAP thread is started if keys are to be checked; a failure is a mishap.
LEMMA StartAuthKept ==
    ASSUME ServerInv, StartAuth
    PROVE  ServerInv'
  <1>t. srv \in TypedProcess /\ Statuses /\ (~ Mishap => Orderly) BY DEF ServerInv
  <1>g. ~ srv.undefined /\ srv.status = "running" /\ srv.pc[Main] = "auth"
    BY DEF StartAuth, At, Alive
  <1>1. CASE srv' = [srv EXCEPT !.pc[Main] = "in_socket"]
    <2>1. srv' \in TypedProcess
      BY <1>t, <1>1, ThreadNumbers, LabelFacts DEF TypedProcess
    <2>2. Statuses'
      BY <1>t, <1>g, <1>1, ThreadNumbers DEF TypedProcess, Statuses
    <2>3. ~ Mishap' => Orderly'
      BY <1>t, <1>g, <1>1, ThreadNumbers
      DEF TypedProcess, Mishap, Orderly, Places, ContextPhase, SocketPhase, WorkerPhase,
          AuthPhase, Early, Booting, Closing, After, ShutdownLabels, ThreadLabels,
          Workers
    <2> QED BY <2>1, <2>2, <2>3 DEF ServerInv
  <1>2. CASE /\ srv.auth
             /\ srv' = [srv EXCEPT !.pc[Main] = "auth_wait", !.pc[Auth] = "begin"]
    <2>1. srv' \in TypedProcess
      BY <1>t, <1>2, ThreadNumbers, LabelFacts DEF TypedProcess
    <2>2. Statuses'
      BY <1>t, <1>g, <1>2, ThreadNumbers DEF TypedProcess, Statuses
    <2>3. ~ Mishap' => Orderly'
      BY <1>t, <1>g, <1>2, ThreadNumbers
      DEF TypedProcess, Mishap, Orderly, Places, ContextPhase, SocketPhase, WorkerPhase,
          AuthPhase, Early, Booting, Closing, After, ShutdownLabels, ThreadLabels,
          Workers
    <2> QED BY <2>1, <2>2, <2>3 DEF ServerInv
  <1>3. CASE srv' = [srv EXCEPT !.pc[Main] = "auth_wait",
                                !.happened = @ \cup {"no_thread"}]
    <2>1. srv' \in TypedProcess
      BY <1>t, <1>3, ThreadNumbers, LabelFacts DEF TypedProcess
    <2>2. Statuses'
      BY <1>t, <1>g, <1>3, ThreadNumbers DEF TypedProcess, Statuses
    <2>3. ~ Mishap' => Orderly'
      BY <1>t, <1>g, <1>3, ThreadNumbers
      DEF TypedProcess, Mishap, Orderly, Places, ContextPhase, SocketPhase, WorkerPhase,
          AuthPhase, Early, Booting, Closing, After, ShutdownLabels, ThreadLabels,
          Workers
    <2> QED BY <2>1, <2>2, <2>3 DEF ServerInv
  <1> QED BY <1>g, <1>1, <1>2, <1>3 DEF StartAuth, Goto, Fails, Undefined

\* start-up goes on when the ZAP thread is ready; one that comes later is a mishap.
LEMMA AwaitAuthKept ==
    ASSUME ServerInv, AwaitAuth
    PROVE  ServerInv'
  <1>t. srv \in TypedProcess /\ Statuses /\ (~ Mishap => Orderly) BY DEF ServerInv
  <1>g. ~ srv.undefined /\ srv.status = "running" /\ srv.pc[Main] = "auth_wait"
    BY DEF AwaitAuth, At, Alive
  <1>1. CASE srv.ready /\ srv' = [srv EXCEPT !.pc[Main] = "in_socket"]
    <2>1. srv' \in TypedProcess
      BY <1>t, <1>1, ThreadNumbers, LabelFacts DEF TypedProcess
    <2>2. Statuses'
      BY <1>t, <1>g, <1>1, ThreadNumbers DEF TypedProcess, Statuses
    <2>3. ~ Mishap' => Orderly'
      BY <1>t, <1>g, <1>1, ThreadNumbers
      DEF TypedProcess, Mishap, Orderly, Places, ContextPhase, SocketPhase, WorkerPhase,
          AuthPhase, Early, Booting, Closing, After, ShutdownLabels, ThreadLabels,
          Workers
    <2> QED BY <2>1, <2>2, <2>3 DEF ServerInv
  <1>2. CASE /\ srv.pc[Auth] \in {"none", "ended"}
             /\ srv' = [srv EXCEPT !.pc[Main] = "error"]
    <2>1. srv' \in TypedProcess
      BY <1>t, <1>2, ThreadNumbers, LabelFacts DEF TypedProcess
    <2>2. Statuses'
      BY <1>t, <1>g, <1>2, ThreadNumbers DEF TypedProcess, Statuses
    <2>3. ~ Mishap' => Orderly'
      BY <1>t, <1>g, <1>2, ThreadNumbers
      DEF TypedProcess, Mishap, Orderly, Places, ContextPhase, SocketPhase, WorkerPhase,
          AuthPhase, Early, Booting, Closing, After, ShutdownLabels, ThreadLabels,
          Workers
    <2> QED BY <2>1, <2>2, <2>3 DEF ServerInv
  <1>3. CASE srv' = [srv EXCEPT !.pc[Main] = "error",
                                !.happened = @ \cup {"late_auth"}]
    <2>1. srv' \in TypedProcess
      BY <1>t, <1>3, ThreadNumbers, LabelFacts DEF TypedProcess
    <2>2. Statuses'
      BY <1>t, <1>g, <1>3, ThreadNumbers DEF TypedProcess, Statuses
    <2>3. ~ Mishap' => Orderly'
      BY <1>t, <1>g, <1>3, ThreadNumbers
      DEF TypedProcess, Mishap, Orderly, Places, ContextPhase, SocketPhase, WorkerPhase,
          AuthPhase, Early, Booting, Closing, After, ShutdownLabels, ThreadLabels,
          Workers
    <2> QED BY <2>1, <2>2, <2>3 DEF ServerInv
  <1> QED BY <1>g, <1>1, <1>2, <1>3 DEF AwaitAuth, Goto, Fails, Undefined

\* zmq_socket for the clients: the socket is open and not yet stored.
LEMMA CreateInSocketKept ==
    ASSUME ServerInv, CreateSocket("in_socket", InSocket, "in_store")
    PROVE  ServerInv'
  <1>t. srv \in TypedProcess /\ Statuses /\ (~ Mishap => Orderly) BY DEF ServerInv
  <1>g. ~ srv.undefined /\ srv.status = "running" /\ srv.pc[Main] = "in_socket"
    BY DEF CreateSocket, At, Alive
  <1>1. CASE srv' = [srv EXCEPT !.pc[Main] = "error"]
    <2>1. srv' \in TypedProcess
      BY <1>t, <1>1, ThreadNumbers, LabelFacts DEF TypedProcess
    <2>2. Statuses'
      BY <1>t, <1>g, <1>1, ThreadNumbers DEF TypedProcess, Statuses
    <2>3. ~ Mishap' => Orderly'
      BY <1>t, <1>g, <1>1, ThreadNumbers
      DEF TypedProcess, Mishap, Orderly, Places, ContextPhase, SocketPhase, WorkerPhase,
          AuthPhase, Early, Booting, Closing, After, ShutdownLabels, ThreadLabels,
          Workers
    <2> QED BY <2>1, <2>2, <2>3 DEF ServerInv
  <1>2. CASE srv' = [srv EXCEPT !.open = @ \cup {InSocket}, !.pc[Main] = "in_store"]
    <2>1. srv' \in TypedProcess
      BY <1>t, <1>2, ThreadNumbers, LabelFacts DEF TypedProcess
    <2>2. Statuses'
      BY <1>t, <1>g, <1>2, ThreadNumbers DEF TypedProcess, Statuses
    <2>3. ~ Mishap' => Orderly'
      BY <1>t, <1>g, <1>2, ThreadNumbers
      DEF TypedProcess, Mishap, Orderly, Places, ContextPhase, SocketPhase, WorkerPhase,
          AuthPhase, Early, Booting, Closing, After, ShutdownLabels, ThreadLabels,
          Workers
    <2> QED BY <2>1, <2>2, <2>3 DEF ServerInv
  <1> QED BY <1>g, <1>1, <1>2 DEF CreateSocket, Goto, Fails, Undefined

\* zmq_socket for the workers.
LEMMA CreateWorkerSocketKept ==
    ASSUME ServerInv, CreateSocket("worker_socket", WorkerSocket, "worker_store")
    PROVE  ServerInv'
  <1>t. srv \in TypedProcess /\ Statuses /\ (~ Mishap => Orderly) BY DEF ServerInv
  <1>g. ~ srv.undefined /\ srv.status = "running" /\ srv.pc[Main] = "worker_socket"
    BY DEF CreateSocket, At, Alive
  <1>1. CASE srv' = [srv EXCEPT !.pc[Main] = "error"]
    <2>1. srv' \in TypedProcess
      BY <1>t, <1>1, ThreadNumbers, LabelFacts DEF TypedProcess
    <2>2. Statuses'
      BY <1>t, <1>g, <1>1, ThreadNumbers DEF TypedProcess, Statuses
    <2>3. ~ Mishap' => Orderly'
      BY <1>t, <1>g, <1>1, ThreadNumbers
      DEF TypedProcess, Mishap, Orderly, Places, ContextPhase, SocketPhase, WorkerPhase,
          AuthPhase, Early, Booting, Closing, After, ShutdownLabels, ThreadLabels,
          Workers
    <2> QED BY <2>1, <2>2, <2>3 DEF ServerInv
  <1>2. CASE srv' = [srv EXCEPT !.open = @ \cup {WorkerSocket},
                                !.pc[Main] = "worker_store"]
    <2>1. srv' \in TypedProcess
      BY <1>t, <1>2, ThreadNumbers, LabelFacts DEF TypedProcess
    <2>2. Statuses'
      BY <1>t, <1>g, <1>2, ThreadNumbers DEF TypedProcess, Statuses
    <2>3. ~ Mishap' => Orderly'
      BY <1>t, <1>g, <1>2, ThreadNumbers
      DEF TypedProcess, Mishap, Orderly, Places, ContextPhase, SocketPhase, WorkerPhase,
          AuthPhase, Early, Booting, Closing, After, ShutdownLabels, ThreadLabels,
          Workers
    <2> QED BY <2>1, <2>2, <2>3 DEF ServerInv
  <1> QED BY <1>g, <1>1, <1>2 DEF CreateSocket, Goto, Fails, Undefined

\* The static variable gets a socket that is open.
LEMMA StoreInSocketKept ==
    ASSUME ServerInv, StoreSocket("in_store", InSocket, "bind")
    PROVE  ServerInv'
  <1>t. srv \in TypedProcess /\ Statuses /\ (~ Mishap => Orderly) BY DEF ServerInv
  <1>g. ~ srv.undefined /\ srv.status = "running" /\ srv.pc[Main] = "in_store"
    BY DEF StoreSocket, At, Alive
  <1>1. CASE srv' = [srv EXCEPT !.stored = @ \cup {InSocket}, !.pc[Main] = "bind"]
    <2>1. srv' \in TypedProcess
      BY <1>t, <1>1, ThreadNumbers, LabelFacts DEF TypedProcess
    <2>2. Statuses'
      BY <1>t, <1>g, <1>1, ThreadNumbers DEF TypedProcess, Statuses
    <2>3. ~ Mishap' => Orderly'
      BY <1>t, <1>g, <1>1, ThreadNumbers
      DEF TypedProcess, Mishap, Orderly, Places, ContextPhase, SocketPhase, WorkerPhase,
          AuthPhase, Early, Booting, Closing, After, ShutdownLabels, ThreadLabels,
          Workers
    <2> QED BY <2>1, <2>2, <2>3 DEF ServerInv
  <1> QED BY <1>g, <1>1 DEF StoreSocket, Goto, Fails, Undefined

\* So does the one of the socket to the workers.
LEMMA StoreWorkerSocketKept ==
    ASSUME ServerInv, StoreSocket("worker_store", WorkerSocket, "workers")
    PROVE  ServerInv'
  <1>t. srv \in TypedProcess /\ Statuses /\ (~ Mishap => Orderly) BY DEF ServerInv
  <1>g. ~ srv.undefined /\ srv.status = "running" /\ srv.pc[Main] = "worker_store"
    BY DEF StoreSocket, At, Alive
  <1>1. CASE srv' = [srv EXCEPT !.stored = @ \cup {WorkerSocket},
                                !.pc[Main] = "workers"]
    <2>1. srv' \in TypedProcess
      BY <1>t, <1>1, ThreadNumbers, LabelFacts DEF TypedProcess
    <2>2. Statuses'
      BY <1>t, <1>g, <1>1, ThreadNumbers DEF TypedProcess, Statuses
    <2>3. ~ Mishap' => Orderly'
      BY <1>t, <1>g, <1>1, ThreadNumbers
      DEF TypedProcess, Mishap, Orderly, Places, ContextPhase, SocketPhase, WorkerPhase,
          AuthPhase, Early, Booting, Closing, After, ShutdownLabels, ThreadLabels,
          Workers
    <2> QED BY <2>1, <2>2, <2>3 DEF ServerInv
  <1> QED BY <1>g, <1>1 DEF StoreSocket, Goto, Fails, Undefined

\* zmq_bind to the address of the command line.
LEMMA BindKept ==
    ASSUME ServerInv, Bind
    PROVE  ServerInv'
  <1>t. srv \in TypedProcess /\ Statuses /\ (~ Mishap => Orderly) BY DEF ServerInv
  <1>g. ~ srv.undefined /\ srv.status = "running" /\ srv.pc[Main] = "bind"
    BY DEF Bind, At, Alive
  <1>1. CASE srv' = [srv EXCEPT !.pc[Main] = "error"]
    <2>1. srv' \in TypedProcess
      BY <1>t, <1>1, ThreadNumbers, LabelFacts DEF TypedProcess
    <2>2. Statuses'
      BY <1>t, <1>g, <1>1, ThreadNumbers DEF TypedProcess, Statuses
    <2>3. ~ Mishap' => Orderly'
      BY <1>t, <1>g, <1>1, ThreadNumbers
      DEF TypedProcess, Mishap, Orderly, Places, ContextPhase, SocketPhase, WorkerPhase,
          AuthPhase, Early, Booting, Closing, After, ShutdownLabels, ThreadLabels,
          Workers
    <2> QED BY <2>1, <2>2, <2>3 DEF ServerInv
  <1>2. CASE srv' = [srv EXCEPT !.pc[Main] = "worker_socket"]
    <2>1. srv' \in TypedProcess
      BY <1>t, <1>2, ThreadNumbers, LabelFacts DEF TypedProcess
    <2>2. Statuses'
      BY <1>t, <1>g, <1>2, ThreadNumbers DEF TypedProcess, Statuses
    <2>3. ~ Mishap' => Orderly'
      BY <1>t, <1>g, <1>2, ThreadNumbers
      DEF TypedProcess, Mishap, Orderly, Places, ContextPhase, SocketPhase, WorkerPhase,
          AuthPhase, Early, Booting, Closing, After, ShutdownLabels, ThreadLabels,
          Workers
    <2> QED BY <2>1, <2>2, <2>3 DEF ServerInv
  <1> QED BY <1>g, <1>1, <1>2 DEF Bind, Goto, Fails, Undefined

\* The array of threads is allocated before the first worker is created.
LEMMA AllocateWorkersKept ==
    ASSUME ServerInv, AllocateWorkers
    PROVE  ServerInv'
  <1>t. srv \in TypedProcess /\ Statuses /\ (~ Mishap => Orderly) BY DEF ServerInv
  <1>g. ~ srv.undefined /\ srv.status = "running" /\ srv.pc[Main] = "workers"
    BY DEF AllocateWorkers, At, Alive
  <1>1. CASE srv' = [srv EXCEPT !.pc[Main] = "error"]
    <2>1. srv' \in TypedProcess
      BY <1>t, <1>1, ThreadNumbers, LabelFacts DEF TypedProcess
    <2>2. Statuses'
      BY <1>t, <1>g, <1>1, ThreadNumbers DEF TypedProcess, Statuses
    <2>3. ~ Mishap' => Orderly'
      BY <1>t, <1>g, <1>1, ThreadNumbers
      DEF TypedProcess, Mishap, Orderly, Places, ContextPhase, SocketPhase, WorkerPhase,
          AuthPhase, Early, Booting, Closing, After, ShutdownLabels, ThreadLabels,
          Workers
    <2> QED BY <2>1, <2>2, <2>3 DEF ServerInv
  <1>2. CASE srv' = [srv EXCEPT !.workers = "allocated", !.pc[Main] = "create"]
    <2>1. srv' \in TypedProcess
      BY <1>t, <1>2, ThreadNumbers, LabelFacts DEF TypedProcess
    <2>2. Statuses'
      BY <1>t, <1>g, <1>2, ThreadNumbers DEF TypedProcess, Statuses
    <2>3. ~ Mishap' => Orderly'
      BY <1>t, <1>g, <1>2, ThreadNumbers
      DEF TypedProcess, Mishap, Orderly, Places, ContextPhase, SocketPhase, WorkerPhase,
          AuthPhase, Early, Booting, Closing, After, ShutdownLabels, ThreadLabels,
          Workers
    <2> QED BY <2>1, <2>2, <2>3 DEF ServerInv
  <1> QED BY <1>g, <1>1, <1>2 DEF AllocateWorkers, Goto, Fails, Undefined

\* The workers are created in the order of the array; a failure is a mishap.
LEMMA CreateWorkerKept ==
    ASSUME ServerInv, CreateWorker
    PROVE  ServerInv'
  <1>t. srv \in TypedProcess /\ Statuses /\ (~ Mishap => Orderly) BY DEF ServerInv
  <1>g. ~ srv.undefined /\ srv.status = "running" /\ srv.pc[Main] = "create"
    BY DEF CreateWorker, At, Alive
  <1>p. PICK t \in 1 .. NWorkers + 1 : t = srv.at[Main]
    BY <1>t, ThreadNumbers DEF TypedProcess
  <1>r. t > NWorkers \/ (t \in Workers /\ t + 1 \in 1 .. NWorkers + 1)
    BY ThreadNumbers DEF Workers
  <1>1. CASE t > NWorkers /\ srv' = [srv EXCEPT !.pc[Main] = "device"]
    <2>1. srv' \in TypedProcess
      BY <1>t, <1>p, <1>r, <1>1, ThreadNumbers, LabelFacts DEF TypedProcess
    <2>2. Statuses'
      BY <1>t, <1>g, <1>p, <1>r, <1>1, ThreadNumbers DEF TypedProcess, Statuses
    <2>3. ~ Mishap' => Orderly'
      BY <1>t, <1>g, <1>p, <1>r, <1>1, ThreadNumbers
      DEF TypedProcess, Mishap, Orderly, Places, ContextPhase, SocketPhase, WorkerPhase,
          AuthPhase, Early, Booting, Closing, After, ShutdownLabels, ThreadLabels,
          Workers
    <2> QED BY <2>1, <2>2, <2>3 DEF ServerInv
  <1>2. CASE /\ t \in Workers /\ t + 1 \in 1 .. NWorkers + 1
             /\ srv' = [srv EXCEPT !.at[Main] = t + 1, !.pc[t] = "begin"]
    <2>1. srv' \in TypedProcess
      BY <1>t, <1>p, <1>r, <1>2, ThreadNumbers, LabelFacts DEF TypedProcess
    <2>2. Statuses'
      BY <1>t, <1>g, <1>p, <1>r, <1>2, ThreadNumbers DEF TypedProcess, Statuses
    <2>3. ASSUME ~ Mishap' PROVE Orderly'
      <3>1. Orderly BY <1>t, <1>2, <2>3 DEF TypedProcess, Mishap
      <3>2. Places'
        BY <1>t, <1>g, <1>p, <1>r, <1>2, <3>1, ThreadNumbers
        DEF TypedProcess, Orderly, Places, ShutdownLabels, ThreadLabels
      <3>3. ContextPhase'
        BY <1>t, <1>g, <1>p, <1>r, <1>2, <3>1, ThreadNumbers
        DEF TypedProcess, Orderly, ContextPhase, Early, Booting, Closing, After
      <3>7. srv.pc[t] = "none"
        BY <1>t, <1>g, <1>p, <1>2, <3>1, ThreadNumbers
        DEF TypedProcess, Orderly, WorkerPhase
      <3>4. SocketPhase'
        BY <1>t, <1>g, <1>p, <1>r, <1>2, <3>1, ThreadNumbers, <3>7
        DEF TypedProcess, Orderly, SocketPhase
      <3>5. WorkerPhase'
        BY <1>t, <1>g, <1>p, <1>r, <1>2, <3>1, ThreadNumbers, <3>7
        DEF TypedProcess, Orderly, WorkerPhase, Early, Booting, After, Workers
      <3>6. AuthPhase'
        BY <1>t, <1>g, <1>p, <1>r, <1>2, <3>1, ThreadNumbers, <3>7
        DEF TypedProcess, Orderly, AuthPhase, Early
      <3> QED
        BY <1>t, <1>g, <1>2, <3>2, <3>3, <3>4, <3>5, <3>6 DEF TypedProcess, Orderly
    <2> QED BY <2>1, <2>2, <2>3 DEF ServerInv
  <1>3. CASE /\ t \in Workers /\ t + 1 \in 1 .. NWorkers + 1
             /\ srv' = [srv EXCEPT !.at[Main] = t + 1, !.happened = @ \cup {"no_thread"}]
    <2>1. srv' \in TypedProcess
      BY <1>t, <1>p, <1>r, <1>3, ThreadNumbers, LabelFacts DEF TypedProcess
    <2>2. Statuses'
      BY <1>t, <1>g, <1>p, <1>r, <1>3, ThreadNumbers DEF TypedProcess, Statuses
    <2>3. ~ Mishap' => Orderly'
      BY <1>t, <1>g, <1>p, <1>r, <1>3, ThreadNumbers
      DEF TypedProcess, Mishap, Orderly, Places, ContextPhase, SocketPhase, WorkerPhase,
          AuthPhase, Early, Booting, Closing, After, ShutdownLabels, ThreadLabels,
          Workers
    <2> QED BY <2>1, <2>2, <2>3 DEF ServerInv
  <1> QED
    BY <1>g, <1>p, <1>r, <1>1, <1>2, <1>3
    DEF CreateWorker, Goto, Fails, Undefined, Workers

\* The queue ends by itself: a mishap, unless every worker is in its loop.
LEMMA DeviceKept ==
    ASSUME ServerInv, Device
    PROVE  ServerInv'
  <1>t. srv \in TypedProcess /\ Statuses /\ (~ Mishap => Orderly) BY DEF ServerInv
  <1>g. ~ srv.undefined /\ srv.status = "running" /\ srv.pc[Main] = "device"
    BY DEF Device, At, Alive
  <1>1. CASE InService /\ srv' = [srv EXCEPT !.pc[Main] = "error", !.at[Main] = 1]
    <2>1. srv' \in TypedProcess
      BY <1>t, <1>1, ThreadNumbers, LabelFacts DEF TypedProcess
    <2>2. Statuses'
      BY <1>t, <1>g, <1>1, ThreadNumbers DEF TypedProcess, Statuses
    <2>3. ~ Mishap' => Orderly'
      BY <1>t, <1>g, <1>1, ThreadNumbers
      DEF TypedProcess, Mishap, Orderly, Places, ContextPhase, SocketPhase, WorkerPhase,
          AuthPhase, Early, Booting, Closing, After, ShutdownLabels, ThreadLabels,
          Workers, InService
    <2> QED BY <2>1, <2>2, <2>3 DEF ServerInv
  <1>2. CASE srv' = [srv EXCEPT !.pc[Main] = "error", !.at[Main] = 1,
                                !.happened = @ \cup {"early"}]
    <2>1. srv' \in TypedProcess
      BY <1>t, <1>2, ThreadNumbers, LabelFacts DEF TypedProcess
    <2>2. Statuses'
      BY <1>t, <1>g, <1>2, ThreadNumbers DEF TypedProcess, Statuses
    <2>3. ~ Mishap' => Orderly'
      BY <1>t, <1>g, <1>2, ThreadNumbers
      DEF TypedProcess, Mishap, Orderly, Places, ContextPhase, SocketPhase, WorkerPhase,
          AuthPhase, Early, Booting, Closing, After, ShutdownLabels, ThreadLabels,
          Workers
    <2> QED BY <2>1, <2>2, <2>3 DEF ServerInv
  <1>3. CASE InService /\ srv' = [srv EXCEPT !.pc[Main] = "close_in", !.at[Main] = 1]
    <2>1. srv' \in TypedProcess
      BY <1>t, <1>3, ThreadNumbers, LabelFacts DEF TypedProcess
    <2>2. Statuses'
      BY <1>t, <1>g, <1>3, ThreadNumbers DEF TypedProcess, Statuses
    <2>3. ~ Mishap' => Orderly'
      BY <1>t, <1>g, <1>3, ThreadNumbers
      DEF TypedProcess, Mishap, Orderly, Places, ContextPhase, SocketPhase, WorkerPhase,
          AuthPhase, Early, Booting, Closing, After, ShutdownLabels, ThreadLabels,
          Workers, InService
    <2> QED BY <2>1, <2>2, <2>3 DEF ServerInv
  <1>4. CASE srv' = [srv EXCEPT !.pc[Main] = "close_in", !.at[Main] = 1,
                                !.happened = @ \cup {"early"}]
    <2>1. srv' \in TypedProcess
      BY <1>t, <1>4, ThreadNumbers, LabelFacts DEF TypedProcess
    <2>2. Statuses'
      BY <1>t, <1>g, <1>4, ThreadNumbers DEF TypedProcess, Statuses
    <2>3. ~ Mishap' => Orderly'
      BY <1>t, <1>g, <1>4, ThreadNumbers
      DEF TypedProcess, Mishap, Orderly, Places, ContextPhase, SocketPhase, WorkerPhase,
          AuthPhase, Early, Booting, Closing, After, ShutdownLabels, ThreadLabels,
          Workers
    <2> QED BY <2>1, <2>2, <2>3 DEF ServerInv
  <1> QED BY <1>g, <1>1, <1>2, <1>3, <1>4 DEF Device, Goto, Fails, Undefined

\* The error label of startup sets the status of the process.
LEMMA ErrorKept ==
    ASSUME ServerInv, Error
    PROVE  ServerInv'
  <1>t. srv \in TypedProcess /\ Statuses /\ (~ Mishap => Orderly) BY DEF ServerInv
  <1>g. ~ srv.undefined /\ srv.status = "running" /\ srv.pc[Main] = "error"
    BY DEF Error, At, Alive
  <1>1. CASE srv' = [srv EXCEPT !.exit_code = "failure", !.happened = @ \cup {"failed"},
                                !.pc[Main] = "close_in"]
    <2>1. srv' \in TypedProcess
      BY <1>t, <1>1, ThreadNumbers, LabelFacts DEF TypedProcess
    <2>2. Statuses'
      BY <1>t, <1>g, <1>1, ThreadNumbers DEF TypedProcess, Statuses
    <2>3. ~ Mishap' => Orderly'
      BY <1>t, <1>g, <1>1, ThreadNumbers
      DEF TypedProcess, Mishap, Orderly, Places, ContextPhase, SocketPhase, WorkerPhase,
          AuthPhase, Early, Booting, Closing, After, ShutdownLabels, ThreadLabels,
          Workers
    <2> QED BY <2>1, <2>2, <2>3 DEF ServerInv
  <1> QED BY <1>g, <1>1 DEF Error, Goto, Fails, Undefined

\* shutdown closes the socket to the clients, which is open if it is stored.
LEMMA CloseInSocketKept ==
    ASSUME ServerInv, NEW t \in Threads,
           CloseStored(t, "close_in", InSocket, "null_in", "close_worker")
    PROVE  ServerInv'
  <1>t. srv \in TypedProcess /\ Statuses /\ (~ Mishap => Orderly) BY DEF ServerInv
  <1>g. ~ srv.undefined /\ srv.status = "running" /\ srv.pc[t] = "close_in"
    BY DEF CloseStored, At, Alive
  <1>m. Mishap \/ t = Main
    BY <1>t, <1>g, ThreadNumbers DEF Orderly, Places, ThreadLabels
  <1>1. CASE InSocket \notin srv.stored /\ srv' = [srv EXCEPT !.pc[t] = "close_worker"]
    <2>1. srv' \in TypedProcess
      BY <1>t, <1>m, <1>1, ThreadNumbers, LabelFacts DEF TypedProcess
    <2>2. Statuses'
      BY <1>t, <1>g, <1>m, <1>1, ThreadNumbers DEF TypedProcess, Statuses
    <2>3. ~ Mishap' => Orderly'
      BY <1>t, <1>g, <1>m, <1>1, ThreadNumbers
      DEF TypedProcess, Mishap, Orderly, Places, ContextPhase, SocketPhase, WorkerPhase,
          AuthPhase, Early, Booting, Closing, After, ShutdownLabels, ThreadLabels,
          Workers
    <2> QED BY <2>1, <2>2, <2>3 DEF ServerInv
  <1>2. CASE /\ InSocket \in srv.stored /\ InSocket \notin srv.open
             /\ srv' = [srv EXCEPT !.undefined = TRUE]
    <2>1. srv' \in TypedProcess
      BY <1>t, <1>m, <1>2, ThreadNumbers, LabelFacts DEF TypedProcess
    <2>2. Statuses'
      BY <1>t, <1>g, <1>m, <1>2, ThreadNumbers DEF TypedProcess, Statuses
    <2>3. ~ Mishap' => Orderly'
      BY <1>t, <1>g, <1>m, <1>2, ThreadNumbers
      DEF TypedProcess, Mishap, Orderly, Places, ContextPhase, SocketPhase, WorkerPhase,
          AuthPhase, Early, Booting, Closing, After, ShutdownLabels, ThreadLabels,
          Workers
    <2> QED BY <2>1, <2>2, <2>3 DEF ServerInv
  <1>3. CASE /\ InSocket \in srv.stored
             /\ srv' = [srv EXCEPT !.open = @ \ {InSocket}, !.pc[t] = "null_in"]
    <2>1. srv' \in TypedProcess
      BY <1>t, <1>m, <1>3, ThreadNumbers, LabelFacts DEF TypedProcess
    <2>2. Statuses'
      BY <1>t, <1>g, <1>m, <1>3, ThreadNumbers DEF TypedProcess, Statuses
    <2>3. ~ Mishap' => Orderly'
      BY <1>t, <1>g, <1>m, <1>3, ThreadNumbers
      DEF TypedProcess, Mishap, Orderly, Places, ContextPhase, SocketPhase, WorkerPhase,
          AuthPhase, Early, Booting, Closing, After, ShutdownLabels, ThreadLabels,
          Workers
    <2> QED BY <2>1, <2>2, <2>3 DEF ServerInv
  <1> QED BY <1>g, <1>m, <1>1, <1>2, <1>3 DEF CloseStored, Goto, Fails, Undefined

\* It then forgets the socket.
LEMMA ResetInSocketKept ==
    ASSUME ServerInv, NEW t \in Threads,
           ResetStored(t, "null_in", InSocket, "close_worker")
    PROVE  ServerInv'
  <1>t. srv \in TypedProcess /\ Statuses /\ (~ Mishap => Orderly) BY DEF ServerInv
  <1>g. ~ srv.undefined /\ srv.status = "running" /\ srv.pc[t] = "null_in"
    BY DEF ResetStored, At, Alive
  <1>m. Mishap \/ t = Main
    BY <1>t, <1>g, ThreadNumbers DEF Orderly, Places, ThreadLabels
  <1>1. CASE srv' = [srv EXCEPT !.stored = @ \ {InSocket}, !.pc[t] = "close_worker"]
    <2>1. srv' \in TypedProcess
      BY <1>t, <1>m, <1>1, ThreadNumbers, LabelFacts DEF TypedProcess
    <2>2. Statuses'
      BY <1>t, <1>g, <1>m, <1>1, ThreadNumbers DEF TypedProcess, Statuses
    <2>3. ~ Mishap' => Orderly'
      BY <1>t, <1>g, <1>m, <1>1, ThreadNumbers
      DEF TypedProcess, Mishap, Orderly, Places, ContextPhase, SocketPhase, WorkerPhase,
          AuthPhase, Early, Booting, Closing, After, ShutdownLabels, ThreadLabels,
          Workers
    <2> QED BY <2>1, <2>2, <2>3 DEF ServerInv
  <1> QED BY <1>g, <1>m, <1>1 DEF ResetStored, Goto, Fails, Undefined

\* shutdown closes the socket to the workers, which is open if it is stored.
LEMMA CloseWorkerSocketKept ==
    ASSUME ServerInv, NEW t \in Threads,
           CloseStored(t, "close_worker", WorkerSocket, "null_worker", "term")
    PROVE  ServerInv'
  <1>t. srv \in TypedProcess /\ Statuses /\ (~ Mishap => Orderly) BY DEF ServerInv
  <1>g. ~ srv.undefined /\ srv.status = "running" /\ srv.pc[t] = "close_worker"
    BY DEF CloseStored, At, Alive
  <1>m. Mishap \/ t = Main
    BY <1>t, <1>g, ThreadNumbers DEF Orderly, Places, ThreadLabels
  <1>1. CASE WorkerSocket \notin srv.stored /\ srv' = [srv EXCEPT !.pc[t] = "term"]
    <2>1. srv' \in TypedProcess
      BY <1>t, <1>m, <1>1, ThreadNumbers, LabelFacts DEF TypedProcess
    <2>2. Statuses'
      BY <1>t, <1>g, <1>m, <1>1, ThreadNumbers DEF TypedProcess, Statuses
    <2>3. ~ Mishap' => Orderly'
      BY <1>t, <1>g, <1>m, <1>1, ThreadNumbers
      DEF TypedProcess, Mishap, Orderly, Places, ContextPhase, SocketPhase, WorkerPhase,
          AuthPhase, Early, Booting, Closing, After, ShutdownLabels, ThreadLabels,
          Workers
    <2> QED BY <2>1, <2>2, <2>3 DEF ServerInv
  <1>2. CASE /\ WorkerSocket \in srv.stored /\ WorkerSocket \notin srv.open
             /\ srv' = [srv EXCEPT !.undefined = TRUE]
    <2>1. srv' \in TypedProcess
      BY <1>t, <1>m, <1>2, ThreadNumbers, LabelFacts DEF TypedProcess
    <2>2. Statuses'
      BY <1>t, <1>g, <1>m, <1>2, ThreadNumbers DEF TypedProcess, Statuses
    <2>3. ~ Mishap' => Orderly'
      BY <1>t, <1>g, <1>m, <1>2, ThreadNumbers
      DEF TypedProcess, Mishap, Orderly, Places, ContextPhase, SocketPhase, WorkerPhase,
          AuthPhase, Early, Booting, Closing, After, ShutdownLabels, ThreadLabels,
          Workers
    <2> QED BY <2>1, <2>2, <2>3 DEF ServerInv
  <1>3. CASE /\ WorkerSocket \in srv.stored
             /\ srv' = [srv EXCEPT !.open = @ \ {WorkerSocket}, !.pc[t] = "null_worker"]
    <2>1. srv' \in TypedProcess
      BY <1>t, <1>m, <1>3, ThreadNumbers, LabelFacts DEF TypedProcess
    <2>2. Statuses'
      BY <1>t, <1>g, <1>m, <1>3, ThreadNumbers DEF TypedProcess, Statuses
    <2>3. ~ Mishap' => Orderly'
      BY <1>t, <1>g, <1>m, <1>3, ThreadNumbers
      DEF TypedProcess, Mishap, Orderly, Places, ContextPhase, SocketPhase, WorkerPhase,
          AuthPhase, Early, Booting, Closing, After, ShutdownLabels, ThreadLabels,
          Workers
    <2> QED BY <2>1, <2>2, <2>3 DEF ServerInv
  <1> QED BY <1>g, <1>m, <1>1, <1>2, <1>3 DEF CloseStored, Goto, Fails, Undefined

\* It then forgets that socket too.
LEMMA ResetWorkerSocketKept ==
    ASSUME ServerInv, NEW t \in Threads,
           ResetStored(t, "null_worker", WorkerSocket, "term")
    PROVE  ServerInv'
  <1>t. srv \in TypedProcess /\ Statuses /\ (~ Mishap => Orderly) BY DEF ServerInv
  <1>g. ~ srv.undefined /\ srv.status = "running" /\ srv.pc[t] = "null_worker"
    BY DEF ResetStored, At, Alive
  <1>m. Mishap \/ t = Main
    BY <1>t, <1>g, ThreadNumbers DEF Orderly, Places, ThreadLabels
  <1>1. CASE srv' = [srv EXCEPT !.stored = @ \ {WorkerSocket}, !.pc[t] = "term"]
    <2>1. srv' \in TypedProcess
      BY <1>t, <1>m, <1>1, ThreadNumbers, LabelFacts DEF TypedProcess
    <2>2. Statuses'
      BY <1>t, <1>g, <1>m, <1>1, ThreadNumbers DEF TypedProcess, Statuses
    <2>3. ~ Mishap' => Orderly'
      BY <1>t, <1>g, <1>m, <1>1, ThreadNumbers
      DEF TypedProcess, Mishap, Orderly, Places, ContextPhase, SocketPhase, WorkerPhase,
          AuthPhase, Early, Booting, Closing, After, ShutdownLabels, ThreadLabels,
          Workers
    <2> QED BY <2>1, <2>2, <2>3 DEF ServerInv
  <1> QED BY <1>g, <1>m, <1>1 DEF ResetStored, Goto, Fails, Undefined

\* zmq_term is called for a context that has not been freed.
LEMMA TermKept ==
    ASSUME ServerInv, NEW t \in Threads, Term(t)
    PROVE  ServerInv'
  <1>t. srv \in TypedProcess /\ Statuses /\ (~ Mishap => Orderly) BY DEF ServerInv
  <1>g. ~ srv.undefined /\ srv.status = "running" /\ srv.pc[t] = "term"
    BY DEF Term, At, Alive
  <1>m. Mishap \/ t = Main
    BY <1>t, <1>g, ThreadNumbers DEF Orderly, Places, ThreadLabels
  <1>1. CASE ~ srv.context /\ srv' = [srv EXCEPT !.pc[t] = "join"]
    <2>1. srv' \in TypedProcess
      BY <1>t, <1>m, <1>1, ThreadNumbers, LabelFacts DEF TypedProcess
    <2>2. Statuses'
      BY <1>t, <1>g, <1>m, <1>1, ThreadNumbers DEF TypedProcess, Statuses
    <2>3. ~ Mishap' => Orderly'
      BY <1>t, <1>g, <1>m, <1>1, ThreadNumbers
      DEF TypedProcess, Mishap, Orderly, Places, ContextPhase, SocketPhase, WorkerPhase,
          AuthPhase, Early, Booting, Closing, After, ShutdownLabels, ThreadLabels,
          Workers
    <2> QED BY <2>1, <2>2, <2>3 DEF ServerInv
  <1>2. CASE srv.context /\ srv.ctx = "freed" /\ srv' = [srv EXCEPT !.undefined = TRUE]
    <2>1. srv' \in TypedProcess
      BY <1>t, <1>m, <1>2, ThreadNumbers, LabelFacts DEF TypedProcess
    <2>2. Statuses'
      BY <1>t, <1>g, <1>m, <1>2, ThreadNumbers DEF TypedProcess, Statuses
    <2>3. ~ Mishap' => Orderly'
      BY <1>t, <1>g, <1>m, <1>2, ThreadNumbers
      DEF TypedProcess, Mishap, Orderly, Places, ContextPhase, SocketPhase, WorkerPhase,
          AuthPhase, Early, Booting, Closing, After, ShutdownLabels, ThreadLabels,
          Workers
    <2> QED BY <2>1, <2>2, <2>3 DEF ServerInv
  <1>3. CASE /\ srv.context
             /\ srv' = [srv EXCEPT !.ctx = "terminating", !.pc[t] = "terminating"]
    <2>1. srv' \in TypedProcess
      BY <1>t, <1>m, <1>3, ThreadNumbers, LabelFacts DEF TypedProcess
    <2>2. Statuses'
      BY <1>t, <1>g, <1>m, <1>3, ThreadNumbers DEF TypedProcess, Statuses
    <2>3. ~ Mishap' => Orderly'
      BY <1>t, <1>g, <1>m, <1>3, ThreadNumbers
      DEF TypedProcess, Mishap, Orderly, Places, ContextPhase, SocketPhase, WorkerPhase,
          AuthPhase, Early, Booting, Closing, After, ShutdownLabels, ThreadLabels,
          Workers
    <2> QED BY <2>1, <2>2, <2>3 DEF ServerInv
  <1> QED BY <1>g, <1>m, <1>1, <1>2, <1>3 DEF Term, Goto, Fails, Undefined

\* zmq_term returns when every socket is closed and every reply sent; nobody else is
\* in it.
LEMMA TermReturnsKept ==
    ASSUME ServerInv, NEW t \in Threads, TermReturns(t)
    PROVE  ServerInv'
  <1>t. srv \in TypedProcess /\ Statuses /\ (~ Mishap => Orderly) BY DEF ServerInv
  <1>g. ~ srv.undefined /\ srv.status = "running" /\ srv.pc[t] = "terminating"
    BY DEF TermReturns, At, Alive
  <1>m. Mishap \/ t = Main
    BY <1>t, <1>g, ThreadNumbers DEF Orderly, Places, ThreadLabels
  <1>1. CASE /\ (\E u \in Threads \ {t} : srv.pc[u] = "terminating")
             /\ srv' = [srv EXCEPT !.undefined = TRUE]
    <2>1. srv' \in TypedProcess
      BY <1>t, <1>m, <1>1, ThreadNumbers, LabelFacts DEF TypedProcess
    <2>2. Statuses'
      BY <1>t, <1>g, <1>m, <1>1, ThreadNumbers DEF TypedProcess, Statuses
    <2>3. ~ Mishap' => Orderly'
      BY <1>t, <1>g, <1>m, <1>1, ThreadNumbers
      DEF TypedProcess, Mishap, Orderly, Places, ContextPhase, SocketPhase, WorkerPhase,
          AuthPhase, Early, Booting, Closing, After, ShutdownLabels, ThreadLabels,
          Workers
    <2> QED BY <2>1, <2>2, <2>3 DEF ServerInv
  <1>2. CASE /\ srv.open = {} /\ ~ srv.unsent
             /\ srv' = [srv EXCEPT !.ctx = "freed", !.pc[t] = "null_context"]
    <2>1. srv' \in TypedProcess
      BY <1>t, <1>m, <1>2, ThreadNumbers, LabelFacts DEF TypedProcess
    <2>2. Statuses'
      BY <1>t, <1>g, <1>m, <1>2, ThreadNumbers DEF TypedProcess, Statuses
    <2>3. ~ Mishap' => Orderly'
      BY <1>t, <1>g, <1>m, <1>2, ThreadNumbers
      DEF TypedProcess, Mishap, Orderly, Places, ContextPhase, SocketPhase, WorkerPhase,
          AuthPhase, Early, Booting, Closing, After, ShutdownLabels, ThreadLabels,
          Workers
    <2> QED BY <2>1, <2>2, <2>3 DEF ServerInv
  <1> QED BY <1>g, <1>m, <1>1, <1>2 DEF TermReturns, Goto, Fails, Undefined

\* shutdown forgets the context that is gone.
LEMMA ResetContextKept ==
    ASSUME ServerInv, NEW t \in Threads, ResetContext(t)
    PROVE  ServerInv'
  <1>t. srv \in TypedProcess /\ Statuses /\ (~ Mishap => Orderly) BY DEF ServerInv
  <1>g. ~ srv.undefined /\ srv.status = "running" /\ srv.pc[t] = "null_context"
    BY DEF ResetContext, At, Alive
  <1>m. Mishap \/ t = Main
    BY <1>t, <1>g, ThreadNumbers DEF Orderly, Places, ThreadLabels
  <1>1. CASE srv' = [srv EXCEPT !.context = FALSE, !.pc[t] = "join"]
    <2>1. srv' \in TypedProcess
      BY <1>t, <1>m, <1>1, ThreadNumbers, LabelFacts DEF TypedProcess
    <2>2. Statuses'
      BY <1>t, <1>g, <1>m, <1>1, ThreadNumbers DEF TypedProcess, Statuses
    <2>3. ~ Mishap' => Orderly'
      BY <1>t, <1>g, <1>m, <1>1, ThreadNumbers
      DEF TypedProcess, Mishap, Orderly, Places, ContextPhase, SocketPhase, WorkerPhase,
          AuthPhase, Early, Booting, Closing, After, ShutdownLabels, ThreadLabels,
          Workers
    <2> QED BY <2>1, <2>2, <2>3 DEF ServerInv
  <1> QED BY <1>g, <1>m, <1>1 DEF ResetContext, Goto, Fails, Undefined

\* pthread_join is called once for every worker, all of which were created.
LEMMA JoinKept ==
    ASSUME ServerInv, NEW t \in Threads, Join(t)
    PROVE  ServerInv'
  <1>t. srv \in TypedProcess /\ Statuses /\ (~ Mishap => Orderly) BY DEF ServerInv
  <1>g. ~ srv.undefined /\ srv.status = "running" /\ srv.pc[t] = "join"
    BY DEF Join, At, Alive
  <1>m. Mishap \/ t = Main
    BY <1>t, <1>g, ThreadNumbers DEF Orderly, Places, ThreadLabels
  <1>p. PICK w \in 1 .. NWorkers + 1 : w = srv.at[t]
    BY <1>t, ThreadNumbers DEF TypedProcess
  <1>r. w > NWorkers \/ (w \in Workers /\ w + 1 \in 1 .. NWorkers + 1)
    BY ThreadNumbers DEF Workers
  <1>1. CASE srv.workers = "null" /\ srv' = [srv EXCEPT !.pc[t] = "join_auth"]
    <2>1. srv' \in TypedProcess
      BY <1>t, <1>m, <1>p, <1>r, <1>1, ThreadNumbers, LabelFacts DEF TypedProcess
    <2>2. Statuses'
      BY <1>t, <1>g, <1>m, <1>p, <1>r, <1>1, ThreadNumbers DEF TypedProcess, Statuses
    <2>3. ~ Mishap' => Orderly'
      BY <1>t, <1>g, <1>m, <1>p, <1>r, <1>1, ThreadNumbers
      DEF TypedProcess, Mishap, Orderly, Places, ContextPhase, SocketPhase, WorkerPhase,
          AuthPhase, Early, Booting, Closing, After, ShutdownLabels, ThreadLabels,
          Workers
    <2> QED BY <2>1, <2>2, <2>3 DEF ServerInv
  <1>2. CASE /\ srv.workers # "null" /\ w > NWorkers
             /\ srv' = [srv EXCEPT !.pc[t] = "free"]
    <2>1. srv' \in TypedProcess
      BY <1>t, <1>m, <1>p, <1>r, <1>2, ThreadNumbers, LabelFacts DEF TypedProcess
    <2>2. Statuses'
      BY <1>t, <1>g, <1>m, <1>p, <1>r, <1>2, ThreadNumbers DEF TypedProcess, Statuses
    <2>3. ~ Mishap' => Orderly'
      BY <1>t, <1>g, <1>m, <1>p, <1>r, <1>2, ThreadNumbers
      DEF TypedProcess, Mishap, Orderly, Places, ContextPhase, SocketPhase, WorkerPhase,
          AuthPhase, Early, Booting, Closing, After, ShutdownLabels, ThreadLabels,
          Workers
    <2> QED BY <2>1, <2>2, <2>3 DEF ServerInv
  <1>3. CASE /\ srv.workers # "null" /\ w \in Workers
             /\ (srv.pc[w] = "none" \/ w \in srv.joined)
             /\ srv' = [srv EXCEPT !.undefined = TRUE]
    <2>1. srv' \in TypedProcess
      BY <1>t, <1>m, <1>p, <1>r, <1>3, ThreadNumbers, LabelFacts DEF TypedProcess
    <2>2. Statuses'
      BY <1>t, <1>g, <1>m, <1>p, <1>r, <1>3, ThreadNumbers DEF TypedProcess, Statuses
    <2>3. ~ Mishap' => Orderly'
      BY <1>t, <1>g, <1>m, <1>p, <1>r, <1>3, ThreadNumbers
      DEF TypedProcess, Mishap, Orderly, Places, ContextPhase, SocketPhase, WorkerPhase,
          AuthPhase, Early, Booting, Closing, After, ShutdownLabels, ThreadLabels,
          Workers
    <2> QED BY <2>1, <2>2, <2>3 DEF ServerInv
  <1>4. CASE /\ w = t /\ w \in Workers /\ w + 1 \in 1 .. NWorkers + 1
             /\ srv' = [srv EXCEPT !.joined = @, !.at[t] = w + 1]
    <2>1. srv' \in TypedProcess
      BY <1>t, <1>m, <1>p, <1>r, <1>4, ThreadNumbers, LabelFacts DEF TypedProcess
    <2>2. Statuses'
      BY <1>t, <1>g, <1>m, <1>p, <1>r, <1>4, ThreadNumbers DEF TypedProcess, Statuses
    <2>3. ~ Mishap' => Orderly'
      BY <1>t, <1>g, <1>m, <1>p, <1>r, <1>4, ThreadNumbers
      DEF TypedProcess, Mishap, Orderly, Places, ContextPhase, SocketPhase, WorkerPhase,
          AuthPhase, Early, Booting, Closing, After, ShutdownLabels, ThreadLabels,
          Workers
    <2> QED BY <2>1, <2>2, <2>3 DEF ServerInv
  <1>5. CASE /\ srv.workers # "null" /\ srv.pc[w] = "ended" /\ w \in Workers
             /\ w + 1 \in 1 .. NWorkers + 1
             /\ srv' = [srv EXCEPT !.joined = @ \cup {w}, !.at[t] = w + 1]
    <2>1. srv' \in TypedProcess
      BY <1>t, <1>m, <1>p, <1>r, <1>5, ThreadNumbers, LabelFacts DEF TypedProcess
    <2>2. Statuses'
      BY <1>t, <1>g, <1>m, <1>p, <1>r, <1>5, ThreadNumbers DEF TypedProcess, Statuses
    <2>3. ASSUME ~ Mishap' PROVE Orderly'
      <3>1. Orderly BY <1>t, <1>5, <2>3 DEF TypedProcess, Mishap
      <3>2. Places'
        BY <1>t, <1>g, <1>m, <1>p, <1>r, <1>5, <3>1, ThreadNumbers
        DEF TypedProcess, Orderly, Places, ShutdownLabels, ThreadLabels
      <3>3. ContextPhase'
        BY <1>t, <1>g, <1>m, <1>p, <1>r, <1>5, <3>1, ThreadNumbers
        DEF TypedProcess, Orderly, ContextPhase, Early, Booting, Closing, After
      <3>4. SocketPhase'
        BY <1>t, <1>g, <1>m, <1>p, <1>r, <1>5, <3>1, ThreadNumbers
        DEF TypedProcess, Orderly, SocketPhase
      <3>7. t = Main /\ \A v \in Workers : v < w + 1 <=> v < w \/ v = w
        BY <1>m, <1>t, <1>5, <2>3, <3>1, ThreadNumbers DEF TypedProcess, Mishap, Workers
      <3>5. WorkerPhase'
        BY <1>t, <1>g, <1>p, <1>5, <3>1, ThreadNumbers, <3>7
        DEF TypedProcess, Orderly, WorkerPhase, Early, Booting, After, Workers
      <3>6. AuthPhase'
        BY <1>t, <1>g, <1>p, <1>5, <3>1, ThreadNumbers, <3>7
        DEF TypedProcess, Orderly, AuthPhase, Early
      <3> QED
        BY <1>t, <1>g, <1>5, <3>2, <3>3, <3>4, <3>5, <3>6 DEF TypedProcess, Orderly
    <2> QED BY <2>1, <2>2, <2>3 DEF ServerInv
  <1> QED
    BY <1>g, <1>m, <1>p, <1>r, <1>1, <1>2, <1>3, <1>4, <1>5
    DEF Join, Goto, Fails, Undefined, Workers

\* The array of threads is freed once.
LEMMA FreeWorkersKept ==
    ASSUME ServerInv, NEW t \in Threads, FreeWorkers(t)
    PROVE  ServerInv'
  <1>t. srv \in TypedProcess /\ Statuses /\ (~ Mishap => Orderly) BY DEF ServerInv
  <1>g. ~ srv.undefined /\ srv.status = "running" /\ srv.pc[t] = "free"
    BY DEF FreeWorkers, At, Alive
  <1>m. Mishap \/ t = Main
    BY <1>t, <1>g, ThreadNumbers DEF Orderly, Places, ThreadLabels
  <1>1. CASE srv.workers = "freed" /\ srv' = [srv EXCEPT !.undefined = TRUE]
    <2>1. srv' \in TypedProcess
      BY <1>t, <1>m, <1>1, ThreadNumbers, LabelFacts DEF TypedProcess
    <2>2. Statuses'
      BY <1>t, <1>g, <1>m, <1>1, ThreadNumbers DEF TypedProcess, Statuses
    <2>3. ~ Mishap' => Orderly'
      BY <1>t, <1>g, <1>m, <1>1, ThreadNumbers
      DEF TypedProcess, Mishap, Orderly, Places, ContextPhase, SocketPhase, WorkerPhase,
          AuthPhase, Early, Booting, Closing, After, ShutdownLabels, ThreadLabels,
          Workers
    <2> QED BY <2>1, <2>2, <2>3 DEF ServerInv
  <1>2. CASE srv' = [srv EXCEPT !.workers = "freed", !.pc[t] = "join_auth"]
    <2>1. srv' \in TypedProcess
      BY <1>t, <1>m, <1>2, ThreadNumbers, LabelFacts DEF TypedProcess
    <2>2. Statuses'
      BY <1>t, <1>g, <1>m, <1>2, ThreadNumbers DEF TypedProcess, Statuses
    <2>3. ~ Mishap' => Orderly'
      BY <1>t, <1>g, <1>m, <1>2, ThreadNumbers
      DEF TypedProcess, Mishap, Orderly, Places, ContextPhase, SocketPhase, WorkerPhase,
          AuthPhase, Early, Booting, Closing, After, ShutdownLabels, ThreadLabels,
          Workers
    <2> QED BY <2>1, <2>2, <2>3 DEF ServerInv
  <1> QED BY <1>g, <1>m, <1>1, <1>2 DEF FreeWorkers, Goto, Fails, Undefined

\* The ZAP thread is joined once, if it was created.
LEMMA JoinAuthKept ==
    ASSUME ServerInv, NEW t \in Threads, JoinAuth(t)
    PROVE  ServerInv'
  <1>t. srv \in TypedProcess /\ Statuses /\ (~ Mishap => Orderly) BY DEF ServerInv
  <1>g. ~ srv.undefined /\ srv.status = "running" /\ srv.pc[t] = "join_auth"
    BY DEF JoinAuth, At, Alive
  <1>m. Mishap \/ t = Main
    BY <1>t, <1>g, ThreadNumbers DEF Orderly, Places, ThreadLabels
  <1>1. CASE srv.pc[Auth] = "none" /\ srv' = [srv EXCEPT !.pc[t] = "exit"]
    <2>1. srv' \in TypedProcess
      BY <1>t, <1>m, <1>1, ThreadNumbers, LabelFacts DEF TypedProcess
    <2>2. Statuses'
      BY <1>t, <1>g, <1>m, <1>1, ThreadNumbers DEF TypedProcess, Statuses
    <2>3. ~ Mishap' => Orderly'
      BY <1>t, <1>g, <1>m, <1>1, ThreadNumbers
      DEF TypedProcess, Mishap, Orderly, Places, ContextPhase, SocketPhase, WorkerPhase,
          AuthPhase, Early, Booting, Closing, After, ShutdownLabels, ThreadLabels,
          Workers
    <2> QED BY <2>1, <2>2, <2>3 DEF ServerInv
  <1>2. CASE "no_thread" \in srv.happened /\ srv' = [srv EXCEPT !.undefined = TRUE]
    <2>1. srv' \in TypedProcess
      BY <1>t, <1>m, <1>2, ThreadNumbers, LabelFacts DEF TypedProcess
    <2>2. Statuses'
      BY <1>t, <1>g, <1>m, <1>2, ThreadNumbers DEF TypedProcess, Statuses
    <2>3. ~ Mishap' => Orderly'
      BY <1>t, <1>g, <1>m, <1>2, ThreadNumbers
      DEF TypedProcess, Mishap, Orderly, Places, ContextPhase, SocketPhase, WorkerPhase,
          AuthPhase, Early, Booting, Closing, After, ShutdownLabels, ThreadLabels,
          Workers
    <2> QED BY <2>1, <2>2, <2>3 DEF ServerInv
  <1>3. CASE Auth \in srv.joined /\ srv' = [srv EXCEPT !.undefined = TRUE]
    <2>1. srv' \in TypedProcess
      BY <1>t, <1>m, <1>3, ThreadNumbers, LabelFacts DEF TypedProcess
    <2>2. Statuses'
      BY <1>t, <1>g, <1>m, <1>3, ThreadNumbers DEF TypedProcess, Statuses
    <2>3. ~ Mishap' => Orderly'
      BY <1>t, <1>g, <1>m, <1>3, ThreadNumbers
      DEF TypedProcess, Mishap, Orderly, Places, ContextPhase, SocketPhase, WorkerPhase,
          AuthPhase, Early, Booting, Closing, After, ShutdownLabels, ThreadLabels,
          Workers
    <2> QED BY <2>1, <2>2, <2>3 DEF ServerInv
  <1>4. CASE t = Auth /\ srv' = [srv EXCEPT !.joined = @, !.pc[t] = "exit"]
    <2>1. srv' \in TypedProcess
      BY <1>t, <1>m, <1>4, ThreadNumbers, LabelFacts DEF TypedProcess
    <2>2. Statuses'
      BY <1>t, <1>g, <1>m, <1>4, ThreadNumbers DEF TypedProcess, Statuses
    <2>3. ~ Mishap' => Orderly'
      BY <1>t, <1>g, <1>m, <1>4, ThreadNumbers
      DEF TypedProcess, Mishap, Orderly, Places, ContextPhase, SocketPhase, WorkerPhase,
          AuthPhase, Early, Booting, Closing, After, ShutdownLabels, ThreadLabels,
          Workers
    <2> QED BY <2>1, <2>2, <2>3 DEF ServerInv
  <1>5. CASE /\ srv.pc[Auth] = "ended"
             /\ srv' = [srv EXCEPT !.joined = @ \cup {Auth}, !.pc[t] = "exit"]
    <2>1. srv' \in TypedProcess
      BY <1>t, <1>m, <1>5, ThreadNumbers, LabelFacts DEF TypedProcess
    <2>2. Statuses'
      BY <1>t, <1>g, <1>m, <1>5, ThreadNumbers DEF TypedProcess, Statuses
    <2>3. ~ Mishap' => Orderly'
      BY <1>t, <1>g, <1>m, <1>5, ThreadNumbers
      DEF TypedProcess, Mishap, Orderly, Places, ContextPhase, SocketPhase, WorkerPhase,
          AuthPhase, Early, Booting, Closing, After, ShutdownLabels, ThreadLabels,
          Workers
    <2> QED BY <2>1, <2>2, <2>3 DEF ServerInv
  <1> QED
    BY <1>g, <1>m, <1>1, <1>2, <1>3, <1>4, <1>5 DEF JoinAuth, Goto, Fails, Undefined

\* The process ends with exit_code.
LEMMA ExitKept ==
    ASSUME ServerInv, NEW t \in Threads, Exit(t)
    PROVE  ServerInv'
  <1>t. srv \in TypedProcess /\ Statuses /\ (~ Mishap => Orderly) BY DEF ServerInv
  <1>g. ~ srv.undefined /\ srv.status = "running" /\ srv.pc[t] = "exit"
    BY DEF Exit, At, Alive
  <1>m. Mishap \/ t = Main
    BY <1>t, <1>g, ThreadNumbers DEF Orderly, Places, ThreadLabels
  <1>1. CASE srv' = [srv EXCEPT !.status = srv.exit_code]
    <2>1. srv' \in TypedProcess
      BY <1>t, <1>m, <1>1, ThreadNumbers, LabelFacts DEF TypedProcess
    <2>2. Statuses'
      BY <1>t, <1>g, <1>m, <1>1, ThreadNumbers DEF TypedProcess, Statuses
    <2>3. ~ Mishap' => Orderly'
      BY <1>t, <1>g, <1>m, <1>1, ThreadNumbers
      DEF TypedProcess, Mishap, Orderly, Places, ContextPhase, SocketPhase, WorkerPhase,
          AuthPhase, Early, Booting, Closing, After, ShutdownLabels, ThreadLabels,
          Workers
    <2> QED BY <2>1, <2>2, <2>3 DEF ServerInv
  <1> QED BY <1>g, <1>m, <1>1 DEF Exit, Goto, Fails, Undefined

\* A worker has its directory, or ends.
LEMMA ServeDir_createKept ==
    ASSUME ServerInv, NEW t \in Workers, ServeDir_create(t)
    PROVE  ServerInv'
  <1>t. srv \in TypedProcess /\ Statuses /\ (~ Mishap => Orderly) BY DEF ServerInv
  <1>g. ~ srv.undefined /\ srv.status = "running" /\ srv.pc[t] = "begin"
    BY DEF ServeDir_create, At, Alive
  <1>w. t \in Threads /\ t \in Sockets /\ t # Auth /\ t # Main BY ThreadNumbers
  <1>1. CASE srv.context /\ srv' = [srv EXCEPT !.pc[t] = "socket"]
    <2>1. srv' \in TypedProcess
      BY <1>t, <1>w, <1>1, ThreadNumbers, LabelFacts DEF TypedProcess
    <2>2. Statuses'
      BY <1>t, <1>g, <1>w, <1>1, ThreadNumbers DEF TypedProcess, Statuses
    <2>3. ~ Mishap' => Orderly'
      BY <1>t, <1>g, <1>w, <1>1, ThreadNumbers
      DEF TypedProcess, Mishap, Orderly, Places, ContextPhase, SocketPhase, WorkerPhase,
          AuthPhase, Early, Booting, Closing, After, ShutdownLabels, ThreadLabels,
          Workers
    <2> QED BY <2>1, <2>2, <2>3 DEF ServerInv
  <1>2. CASE srv' = [srv EXCEPT !.pc[t] = "ended"]
    <2>1. srv' \in TypedProcess
      BY <1>t, <1>w, <1>2, ThreadNumbers, LabelFacts DEF TypedProcess
    <2>2. Statuses'
      BY <1>t, <1>g, <1>w, <1>2, ThreadNumbers DEF TypedProcess, Statuses
    <2>3. ~ Mishap' => Orderly'
      BY <1>t, <1>g, <1>w, <1>2, ThreadNumbers
      DEF TypedProcess, Mishap, Orderly, Places, ContextPhase, SocketPhase, WorkerPhase,
          AuthPhase, Early, Booting, Closing, After, ShutdownLabels, ThreadLabels,
          Workers
    <2> QED BY <2>1, <2>2, <2>3 DEF ServerInv
  <1> QED BY <1>g, <1>w, <1>1, <1>2 DEF ServeDir_create, Goto, Fails, Undefined

\* A worker opens its socket while the context is open: shutdown waits for it.
LEMMA OpenSocketKept ==
    ASSUME ServerInv, NEW t \in Workers, OpenSocket(t, "socket")
    PROVE  ServerInv'
  <1>t. srv \in TypedProcess /\ Statuses /\ (~ Mishap => Orderly) BY DEF ServerInv
  <1>g. ~ srv.undefined /\ srv.status = "running" /\ srv.pc[t] = "socket"
    BY DEF OpenSocket, At, Alive
  <1>w. t \in Threads /\ t \in Sockets /\ t # Auth /\ t # Main BY ThreadNumbers
  <1>1. CASE srv.ctx = "freed" /\ srv' = [srv EXCEPT !.undefined = TRUE]
    <2>1. srv' \in TypedProcess
      BY <1>t, <1>w, <1>1, ThreadNumbers, LabelFacts DEF TypedProcess
    <2>2. Statuses'
      BY <1>t, <1>g, <1>w, <1>1, ThreadNumbers DEF TypedProcess, Statuses
    <2>3. ~ Mishap' => Orderly'
      BY <1>t, <1>g, <1>w, <1>1, ThreadNumbers
      DEF TypedProcess, Mishap, Orderly, Places, ContextPhase, SocketPhase, WorkerPhase,
          AuthPhase, Early, Booting, Closing, After, ShutdownLabels, ThreadLabels,
          Workers
    <2> QED BY <2>1, <2>2, <2>3 DEF ServerInv
  <1>2. CASE srv' = [srv EXCEPT !.pc[t] = "ended"]
    <2>1. srv' \in TypedProcess
      BY <1>t, <1>w, <1>2, ThreadNumbers, LabelFacts DEF TypedProcess
    <2>2. Statuses'
      BY <1>t, <1>g, <1>w, <1>2, ThreadNumbers DEF TypedProcess, Statuses
    <2>3. ~ Mishap' => Orderly'
      BY <1>t, <1>g, <1>w, <1>2, ThreadNumbers
      DEF TypedProcess, Mishap, Orderly, Places, ContextPhase, SocketPhase, WorkerPhase,
          AuthPhase, Early, Booting, Closing, After, ShutdownLabels, ThreadLabels,
          Workers
    <2> QED BY <2>1, <2>2, <2>3 DEF ServerInv
  <1>3. CASE /\ srv.ctx = "open"
             /\ srv' = [srv EXCEPT !.open = @ \cup {t}, !.pc[t] = "connect"]
    <2>1. srv' \in TypedProcess
      BY <1>t, <1>w, <1>3, ThreadNumbers, LabelFacts DEF TypedProcess
    <2>2. Statuses'
      BY <1>t, <1>g, <1>w, <1>3, ThreadNumbers DEF TypedProcess, Statuses
    <2>3. ~ Mishap' => Orderly'
      BY <1>t, <1>g, <1>w, <1>3, ThreadNumbers
      DEF TypedProcess, Mishap, Orderly, Places, ContextPhase, SocketPhase, WorkerPhase,
          AuthPhase, Early, Booting, Closing, After, ShutdownLabels, ThreadLabels,
          Workers
    <2> QED BY <2>1, <2>2, <2>3 DEF ServerInv
  <1> QED BY <1>g, <1>w, <1>1, <1>2, <1>3 DEF OpenSocket, Goto, Fails, Undefined

\* So does the ZAP thread.
LEMMA AuthSocketKept ==
    ASSUME ServerInv, OpenSocket(Auth, "begin")
    PROVE  ServerInv'
  <1>t. srv \in TypedProcess /\ Statuses /\ (~ Mishap => Orderly) BY DEF ServerInv
  <1>g. ~ srv.undefined /\ srv.status = "running" /\ srv.pc[Auth] = "begin"
    BY DEF OpenSocket, At, Alive
  <1>1. CASE srv.ctx = "freed" /\ srv' = [srv EXCEPT !.undefined = TRUE]
    <2>1. srv' \in TypedProcess
      BY <1>t, <1>1, ThreadNumbers, LabelFacts DEF TypedProcess
    <2>2. Statuses'
      BY <1>t, <1>g, <1>1, ThreadNumbers DEF TypedProcess, Statuses
    <2>3. ~ Mishap' => Orderly'
      BY <1>t, <1>g, <1>1, ThreadNumbers
      DEF TypedProcess, Mishap, Orderly, Places, ContextPhase, SocketPhase, WorkerPhase,
          AuthPhase, Early, Booting, Closing, After, ShutdownLabels, ThreadLabels,
          Workers
    <2> QED BY <2>1, <2>2, <2>3 DEF ServerInv
  <1>2. CASE srv' = [srv EXCEPT !.pc[Auth] = "ended"]
    <2>1. srv' \in TypedProcess
      BY <1>t, <1>2, ThreadNumbers, LabelFacts DEF TypedProcess
    <2>2. Statuses'
      BY <1>t, <1>g, <1>2, ThreadNumbers DEF TypedProcess, Statuses
    <2>3. ~ Mishap' => Orderly'
      BY <1>t, <1>g, <1>2, ThreadNumbers
      DEF TypedProcess, Mishap, Orderly, Places, ContextPhase, SocketPhase, WorkerPhase,
          AuthPhase, Early, Booting, Closing, After, ShutdownLabels, ThreadLabels,
          Workers
    <2> QED BY <2>1, <2>2, <2>3 DEF ServerInv
  <1>3. CASE /\ srv.ctx = "open"
             /\ srv' = [srv EXCEPT !.open = @ \cup {Auth}, !.pc[Auth] = "connect"]
    <2>1. srv' \in TypedProcess
      BY <1>t, <1>3, ThreadNumbers, LabelFacts DEF TypedProcess
    <2>2. Statuses'
      BY <1>t, <1>g, <1>3, ThreadNumbers DEF TypedProcess, Statuses
    <2>3. ~ Mishap' => Orderly'
      BY <1>t, <1>g, <1>3, ThreadNumbers
      DEF TypedProcess, Mishap, Orderly, Places, ContextPhase, SocketPhase, WorkerPhase,
          AuthPhase, Early, Booting, Closing, After, ShutdownLabels, ThreadLabels,
          Workers
    <2> QED BY <2>1, <2>2, <2>3 DEF ServerInv
  <1> QED BY <1>g, <1>1, <1>2, <1>3 DEF OpenSocket, Goto, Fails, Undefined

\* A worker connects, or closes its socket and ends.
LEMMA ConnectKept ==
    ASSUME ServerInv, NEW t \in Workers, Connect(t)
    PROVE  ServerInv'
  <1>t. srv \in TypedProcess /\ Statuses /\ (~ Mishap => Orderly) BY DEF ServerInv
  <1>g. ~ srv.undefined /\ srv.status = "running" /\ srv.pc[t] = "connect"
    BY DEF Connect, At, Alive
  <1>w. t \in Threads /\ t \in Sockets /\ t # Auth /\ t # Main BY ThreadNumbers
  <1>r. (srv.ready \/ t = Auth) = srv.ready BY <1>t, <1>w DEF TypedProcess
  <1>1. CASE srv' = [srv EXCEPT !.open = @ \ {t}, !.pc[t] = "ended"]
    <2>1. srv' \in TypedProcess
      BY <1>t, <1>w, <1>r, <1>1, ThreadNumbers, LabelFacts DEF TypedProcess
    <2>2. Statuses'
      BY <1>t, <1>g, <1>w, <1>r, <1>1, ThreadNumbers DEF TypedProcess, Statuses
    <2>3. ~ Mishap' => Orderly'
      BY <1>t, <1>g, <1>w, <1>r, <1>1, ThreadNumbers
      DEF TypedProcess, Mishap, Orderly, Places, ContextPhase, SocketPhase, WorkerPhase,
          AuthPhase, Early, Booting, Closing, After, ShutdownLabels, ThreadLabels,
          Workers
    <2> QED BY <2>1, <2>2, <2>3 DEF ServerInv
  <1>2. CASE srv.ctx = "open" /\ srv' = [srv EXCEPT !.pc[t] = "serve", !.ready = @]
    <2>1. srv' \in TypedProcess
      BY <1>t, <1>w, <1>r, <1>2, ThreadNumbers, LabelFacts DEF TypedProcess
    <2>2. Statuses'
      BY <1>t, <1>g, <1>w, <1>r, <1>2, ThreadNumbers DEF TypedProcess, Statuses
    <2>3. ~ Mishap' => Orderly'
      BY <1>t, <1>g, <1>w, <1>r, <1>2, ThreadNumbers
      DEF TypedProcess, Mishap, Orderly, Places, ContextPhase, SocketPhase, WorkerPhase,
          AuthPhase, Early, Booting, Closing, After, ShutdownLabels, ThreadLabels,
          Workers
    <2> QED BY <2>1, <2>2, <2>3 DEF ServerInv
  <1> QED BY <1>g, <1>w, <1>r, <1>1, <1>2 DEF Connect, Goto, Fails, Undefined

\* The ZAP thread binds its socket and is ready, or ends.
LEMMA AuthConnectKept ==
    ASSUME ServerInv, Connect(Auth)
    PROVE  ServerInv'
  <1>t. srv \in TypedProcess /\ Statuses /\ (~ Mishap => Orderly) BY DEF ServerInv
  <1>g. ~ srv.undefined /\ srv.status = "running" /\ srv.pc[Auth] = "connect"
    BY DEF Connect, At, Alive
  <1>1. CASE srv' = [srv EXCEPT !.open = @ \ {Auth}, !.pc[Auth] = "ended"]
    <2>1. srv' \in TypedProcess
      BY <1>t, <1>1, ThreadNumbers, LabelFacts DEF TypedProcess
    <2>2. Statuses'
      BY <1>t, <1>g, <1>1, ThreadNumbers DEF TypedProcess, Statuses
    <2>3. ~ Mishap' => Orderly'
      BY <1>t, <1>g, <1>1, ThreadNumbers
      DEF TypedProcess, Mishap, Orderly, Places, ContextPhase, SocketPhase, WorkerPhase,
          AuthPhase, Early, Booting, Closing, After, ShutdownLabels, ThreadLabels,
          Workers
    <2> QED BY <2>1, <2>2, <2>3 DEF ServerInv
  <1>2. CASE /\ srv.ctx = "open"
             /\ srv' = [srv EXCEPT !.pc[Auth] = "serve", !.ready = TRUE]
    <2>1. srv' \in TypedProcess
      BY <1>t, <1>2, ThreadNumbers, LabelFacts DEF TypedProcess
    <2>2. Statuses'
      BY <1>t, <1>g, <1>2, ThreadNumbers DEF TypedProcess, Statuses
    <2>3. ~ Mishap' => Orderly'
      BY <1>t, <1>g, <1>2, ThreadNumbers
      DEF TypedProcess, Mishap, Orderly, Places, ContextPhase, SocketPhase, WorkerPhase,
          AuthPhase, Early, Booting, Closing, After, ShutdownLabels, ThreadLabels,
          Workers
    <2> QED BY <2>1, <2>2, <2>3 DEF ServerInv
  <1> QED BY <1>g, <1>1, <1>2 DEF Connect, Goto, Fails, Undefined

\* A worker whose context is terminated leaves its loop with its socket open.
LEMMA LeaveLoopKept ==
    ASSUME ServerInv, NEW t \in Workers, LeaveLoop(t)
    PROVE  ServerInv'
  <1>t. srv \in TypedProcess /\ Statuses /\ (~ Mishap => Orderly) BY DEF ServerInv
  <1>g. ~ srv.undefined /\ srv.status = "running" /\ srv.pc[t] = "serve"
    BY DEF LeaveLoop, At, Alive
  <1>w. t \in Threads /\ t \in Sockets /\ t # Auth /\ t # Main BY ThreadNumbers
  <1>1. CASE srv.ctx = "freed" /\ srv' = [srv EXCEPT !.undefined = TRUE]
    <2>1. srv' \in TypedProcess
      BY <1>t, <1>w, <1>1, ThreadNumbers, LabelFacts DEF TypedProcess
    <2>2. Statuses'
      BY <1>t, <1>g, <1>w, <1>1, ThreadNumbers DEF TypedProcess, Statuses
    <2>3. ~ Mishap' => Orderly'
      BY <1>t, <1>g, <1>w, <1>1, ThreadNumbers
      DEF TypedProcess, Mishap, Orderly, Places, ContextPhase, SocketPhase, WorkerPhase,
          AuthPhase, Early, Booting, Closing, After, ShutdownLabels, ThreadLabels,
          Workers
    <2> QED BY <2>1, <2>2, <2>3 DEF ServerInv
  <1>2. CASE srv' = [srv EXCEPT !.pc[t] = "close"]
    <2>1. srv' \in TypedProcess
      BY <1>t, <1>w, <1>2, ThreadNumbers, LabelFacts DEF TypedProcess
    <2>2. Statuses'
      BY <1>t, <1>g, <1>w, <1>2, ThreadNumbers DEF TypedProcess, Statuses
    <2>3. ~ Mishap' => Orderly'
      BY <1>t, <1>g, <1>w, <1>2, ThreadNumbers
      DEF TypedProcess, Mishap, Orderly, Places, ContextPhase, SocketPhase, WorkerPhase,
          AuthPhase, Early, Booting, Closing, After, ShutdownLabels, ThreadLabels,
          Workers
    <2> QED BY <2>1, <2>2, <2>3 DEF ServerInv
  <1> QED BY <1>g, <1>w, <1>1, <1>2 DEF LeaveLoop, Goto, Fails, Undefined

\* So does one after an error.
LEMMA FaultKept ==
    ASSUME ServerInv, NEW t \in Workers, Fault(t)
    PROVE  ServerInv'
  <1>t. srv \in TypedProcess /\ Statuses /\ (~ Mishap => Orderly) BY DEF ServerInv
  <1>g. ~ srv.undefined /\ srv.status = "running" /\ srv.pc[t] = "serve"
    BY DEF Fault, At, Alive
  <1>w. t \in Threads /\ t \in Sockets /\ t # Auth /\ t # Main BY ThreadNumbers
  <1>1. CASE srv' = [srv EXCEPT !.pc[t] = "close"]
    <2>1. srv' \in TypedProcess
      BY <1>t, <1>w, <1>1, ThreadNumbers, LabelFacts DEF TypedProcess
    <2>2. Statuses'
      BY <1>t, <1>g, <1>w, <1>1, ThreadNumbers DEF TypedProcess, Statuses
    <2>3. ~ Mishap' => Orderly'
      BY <1>t, <1>g, <1>w, <1>1, ThreadNumbers
      DEF TypedProcess, Mishap, Orderly, Places, ContextPhase, SocketPhase, WorkerPhase,
          AuthPhase, Early, Booting, Closing, After, ShutdownLabels, ThreadLabels,
          Workers
    <2> QED BY <2>1, <2>2, <2>3 DEF ServerInv
  <1> QED BY <1>g, <1>w, <1>1 DEF Fault, Goto, Fails, Undefined

\* While the queue runs the context is there for a reply that gets stuck, and one that
\* is taken needs none.
LEMMA RepliesKept ==
    ASSUME ServerInv, ReplyStuck \/ ReplyTaken
    PROVE  ServerInv'
  <1>t. srv \in TypedProcess /\ Statuses /\ (~ Mishap => Orderly) BY DEF ServerInv
  <1>1. PICK b \in BOOLEAN :
           srv' = [srv EXCEPT !.unsent = b] /\ (b => srv.pc[Main] = "device")
    BY DEF ReplyStuck, ReplyTaken, At
  <1>2. srv' \in TypedProcess
    BY <1>t, <1>1 DEF TypedProcess
  <1>3. Statuses'
    BY <1>t, <1>1 DEF TypedProcess, Statuses
  <1>4. ~ Mishap' => Orderly'
    BY <1>t, <1>1, ThreadNumbers
    DEF TypedProcess, Mishap, Orderly, Places, ContextPhase, SocketPhase, WorkerPhase,
        AuthPhase, Early, Booting, Closing, After, ShutdownLabels, ThreadLabels,
        Workers
  <1> QED BY <1>2, <1>3, <1>4 DEF ServerInv

\* A worker closes its socket, and the context is still there.
LEMMA ServeDir_destroyKept ==
    ASSUME ServerInv, NEW t \in Workers, ServeDir_destroy(t)
    PROVE  ServerInv'
  <1>t. srv \in TypedProcess /\ Statuses /\ (~ Mishap => Orderly) BY DEF ServerInv
  <1>g. ~ srv.undefined /\ srv.status = "running" /\ srv.pc[t] = "close"
    BY DEF ServeDir_destroy, At, Alive
  <1>w. t \in Threads /\ t \in Sockets /\ t # Auth /\ t # Main BY ThreadNumbers
  <1>1. CASE srv.ctx = "freed" /\ srv' = [srv EXCEPT !.undefined = TRUE]
    <2>1. srv' \in TypedProcess
      BY <1>t, <1>w, <1>1, ThreadNumbers, LabelFacts DEF TypedProcess
    <2>2. Statuses'
      BY <1>t, <1>g, <1>w, <1>1, ThreadNumbers DEF TypedProcess, Statuses
    <2>3. ~ Mishap' => Orderly'
      BY <1>t, <1>g, <1>w, <1>1, ThreadNumbers
      DEF TypedProcess, Mishap, Orderly, Places, ContextPhase, SocketPhase, WorkerPhase,
          AuthPhase, Early, Booting, Closing, After, ShutdownLabels, ThreadLabels,
          Workers
    <2> QED BY <2>1, <2>2, <2>3 DEF ServerInv
  <1>2. CASE srv' = [srv EXCEPT !.open = @ \ {t}, !.pc[t] = "ended"]
    <2>1. srv' \in TypedProcess
      BY <1>t, <1>w, <1>2, ThreadNumbers, LabelFacts DEF TypedProcess
    <2>2. Statuses'
      BY <1>t, <1>g, <1>w, <1>2, ThreadNumbers DEF TypedProcess, Statuses
    <2>3. ~ Mishap' => Orderly'
      BY <1>t, <1>g, <1>w, <1>2, ThreadNumbers
      DEF TypedProcess, Mishap, Orderly, Places, ContextPhase, SocketPhase, WorkerPhase,
          AuthPhase, Early, Booting, Closing, After, ShutdownLabels, ThreadLabels,
          Workers
    <2> QED BY <2>1, <2>2, <2>3 DEF ServerInv
  <1> QED BY <1>g, <1>w, <1>1, <1>2 DEF ServeDir_destroy, Goto, Fails, Undefined

\* The ZAP thread, which there is only if keys are checked, crashes.
LEMMA AuthCrashesKept ==
    ASSUME ServerInv, AuthCrashes
    PROVE  ServerInv'
  <1>t. srv \in TypedProcess /\ Statuses /\ (~ Mishap => Orderly) BY DEF ServerInv
  <1>g. ~ srv.undefined /\ srv.status = "running" /\ srv.pc[Auth] = "serve"
    BY DEF AuthCrashes, At, Alive
  <1>1. CASE srv' = [srv EXCEPT !.status = "crash"]
    <2>1. srv' \in TypedProcess
      BY <1>t, <1>1, ThreadNumbers, LabelFacts DEF TypedProcess
    <2>2. Statuses'
      BY <1>t, <1>g, <1>1, ThreadNumbers DEF TypedProcess, Statuses
    <2>3. ~ Mishap' => Orderly'
      BY <1>t, <1>g, <1>1, ThreadNumbers
      DEF TypedProcess, Mishap, Orderly, Places, ContextPhase, SocketPhase, WorkerPhase,
          AuthPhase, Early, Booting, Closing, After, ShutdownLabels, ThreadLabels,
          Workers
    <2> QED BY <2>1, <2>2, <2>3 DEF ServerInv
  <1> QED BY <1>g, <1>1 DEF AuthCrashes, Goto, Fails, Undefined

\* A signal interrupts the main thread, and is a mishap unless the server is in service
\* and no shutdown runs.
LEMMA InterruptedKept ==
    ASSUME ServerInv, NEW t \in Threads, NEW sig \in Signals, Interrupted(t, sig)
    PROVE  ServerInv'
  <1>t. srv \in TypedProcess /\ Statuses /\ (~ Mishap => Orderly) BY DEF ServerInv
  <1>g. /\ ~ srv.undefined /\ srv.status = "running" /\ srv.pc[t] # "none"
        /\ t # Main => srv.mask[Main] # {} BY DEF Interrupted, Alive
  <1>k. PICK k \in 0 .. MaxSignals : k = srv.sent + 1
    BY <1>t, SignalsAssumption DEF Interrupted, TypedProcess
  <1>m. PICK m \in SUBSET Signals : m = srv.mask[t] \cup {sig} BY <1>t DEF TypedProcess
  <1>1. CASE /\ InShutdown
             /\ srv' = [srv EXCEPT !.sent = k, !.mask[t] = m,
                                   !.pc[t] = "close_in", !.at[t] = 1,
                                   !.happened = @ \cup {"again"}]
    <2>1. srv' \in TypedProcess
      BY <1>t, <1>k, <1>m, <1>1, ThreadNumbers, LabelFacts DEF TypedProcess
    <2>2. Statuses'
      BY <1>t, <1>g, <1>k, <1>m, <1>1, ThreadNumbers DEF TypedProcess, Statuses
    <2>3. ~ Mishap' => Orderly'
      BY <1>t, <1>g, <1>k, <1>m, <1>1, ThreadNumbers
      DEF TypedProcess, Mishap, Orderly, Places, ContextPhase, SocketPhase, WorkerPhase,
          AuthPhase, Early, Booting, Closing, After, ShutdownLabels, ThreadLabels,
          Workers, InShutdown
    <2> QED BY <2>1, <2>2, <2>3 DEF ServerInv
  <1>2. CASE /\ ~ InService
             /\ srv' = [srv EXCEPT !.sent = k, !.mask[t] = m,
                                   !.pc[t] = "close_in", !.at[t] = 1,
                                   !.happened = @ \cup {"early"}]
    <2>1. srv' \in TypedProcess
      BY <1>t, <1>k, <1>m, <1>2, ThreadNumbers, LabelFacts DEF TypedProcess
    <2>2. Statuses'
      BY <1>t, <1>g, <1>k, <1>m, <1>2, ThreadNumbers DEF TypedProcess, Statuses
    <2>3. ~ Mishap' => Orderly'
      BY <1>t, <1>g, <1>k, <1>m, <1>2, ThreadNumbers
      DEF TypedProcess, Mishap, Orderly, Places, ContextPhase, SocketPhase, WorkerPhase,
          AuthPhase, Early, Booting, Closing, After, ShutdownLabels, ThreadLabels,
          Workers, InService
    <2> QED BY <2>1, <2>2, <2>3 DEF ServerInv
  <1>3. CASE /\ ~ InShutdown /\ InService
             /\ srv' = [srv EXCEPT !.sent = k, !.mask[t] = m,
                                   !.pc[t] = "close_in", !.at[t] = 1, !.happened = @]
    <2>1. srv' \in TypedProcess
      BY <1>t, <1>k, <1>m, <1>3, ThreadNumbers, LabelFacts DEF TypedProcess
    <2>2. Statuses'
      BY <1>t, <1>g, <1>k, <1>m, <1>3, ThreadNumbers DEF TypedProcess, Statuses
    <2>3. ~ Mishap' => Orderly'
      BY <1>t, <1>g, <1>k, <1>m, <1>3, ThreadNumbers
      DEF TypedProcess, Mishap, Orderly, Places, ContextPhase, SocketPhase, WorkerPhase,
          AuthPhase, Early, Booting, Closing, After, ShutdownLabels, ThreadLabels,
          Workers, InService, InShutdown
    <2> QED BY <2>1, <2>2, <2>3 DEF ServerInv
  <1> QED BY <1>g, <1>k, <1>m, <1>1, <1>2, <1>3 DEF Interrupted

\* Every step of the server keeps the invariant.
LEMMA ServerStepKept ==
    ASSUME ServerInv, ServerNext
    PROVE  ServerInv'
  <1>1. ASSUME NEW t \in Threads, shutdown(t) PROVE ServerInv'
    BY <1>1, CloseInSocketKept, ResetInSocketKept, CloseWorkerSocketKept,
       ResetWorkerSocketKept, TermKept, TermReturnsKept, ResetContextKept, JoinKept,
       FreeWorkersKept, JoinAuthKept, ExitKept
    DEF shutdown
  <1>2. ASSUME NEW t \in Workers, worker_routine(t) \/ Fault(t) PROVE ServerInv'
    BY <1>2, ServeDir_createKept, OpenSocketKept, ConnectKept, LeaveLoopKept,
       ServeDir_destroyKept, FaultKept
    DEF worker_routine
  <1>3. ASSUME auth_routine PROVE ServerInv'
    BY <1>3, AuthSocketKept, AuthConnectKept, AuthCrashesKept DEF auth_routine
  <1>4. ASSUME main \/ startup PROVE ServerInv'
    BY <1>4, MainKept, CreateContextKept, StartAuthKept, AwaitAuthKept,
       CreateInSocketKept, StoreInSocketKept, BindKept, CreateWorkerSocketKept,
       StoreWorkerSocketKept, AllocateWorkersKept, CreateWorkerKept, ErrorKept
    DEF startup
  <1>5. ASSUME NEW t \in Threads, Step(t) PROVE ServerInv'
    BY <1>1, <1>2, <1>3, <1>4, <1>5 DEF Step
  <1> QED BY <1>2, <1>5, InterruptedKept, DeviceKept, RepliesKept DEF ServerNext


-----------------------------------------------------------------------------
(* The mount.  The parts of the invariant are about a process m, which may *)
(* be the one that a function makes of another.                            *)

Session == {"loop", "stopping", "destroy", "destroy_priv", "destroy_term"}
Ending  == {"main_priv", "main_term", "return"}
Initing == {"init_pool", "init_cache", "init_error", "init_term"}

\* the sockets and their contexts
MountSockets(m) ==
    /\ m.ping => m.pc = "ping"
    /\ m.pooled # {} => m.ctx[2] = "open"
    /\ m.ctx[1] = "open" => m.pc # "return"
    /\ m.ctx[2] = "open" => m.pc \in Session \cup Initing
    /\ m.pc \in {"init_pool", "init_cache"} => m.ctx[2] = "open"
    /\ m.pc = "loop" /\ "no_init" \notin m.reached => m.ctx[2] = "open"
    /\ m.pc = "init_term" => "no_init" \in m.reached
    /\ m.pc = "parse" => m.ctx[1] = "none"

\* the table is freed once, unless AttrCache_init failed
TableFreed(m) ==
    /\ m.pc \in Session \cup {"init_term"} => m.reached # {}
    /\ m.pc \notin Session \cup Ending \cup {"init_error", "init_term"} =>
         m.table = "null"
    /\ m.pc = "init_error" => m.table # "set"
    /\ m.table = "freed" =>
         \/ "no_cache" \in m.reached
         \/ m.pc \in {"destroy_priv", "destroy_term"} \cup Ending
    /\ "table" \in m.misused => "no_cache" \in m.reached

\* a mount that is refused has nothing to clean up
RefusedClean(m) ==
    m.reached = {} /\ m.ctx[2] = "none" =>
        /\ m.misused = {} /\ m.name = "null"
        /\ m.pc \in Ending /\ ~ m.asks => m.rc = "failure"

\* OrderlyUnmount, of m; settings.host_socket is freed at the end only
Returned(m) ==
    /\ m.host = "freed" => m.status # "running"
    /\ m.status \in {"success", "failure"} =>
        /\ m.pooled = {} /\ ~ m.ping
        /\ \A c \in {1, 2} : m.ctx[c] # "open"
        /\ "table" \in m.misused => "no_cache" \in m.reached
        /\ m.reached = {} /\ m.ctx[2] = "none" =>
              m.misused = {} /\ m.status = IF m.asks THEN "success" ELSE "failure"

GoodMount(m) ==
    m \in Mount /\ MountSockets(m) /\ TableFreed(m) /\ RefusedClean(m) /\ Returned(m)

\* The main thread goes only to labels of its process.
LEMMA MountFacts ==
    /\ {"parse", "priv", "keys", "check", "ping", "fuse_main", "init", "init_pool",
        "init_cache", "init_error", "init_term", "loop", "stopping", "destroy",
        "destroy_priv", "destroy_term", "main_priv", "main_term",
        "return"} \subseteq MountLabels
    /\ {"none", "open", "destroyed"} \subseteq Contexts
    /\ {"null", "set", "freed"} \subseteq Heap
  BY DEF MountLabels, Contexts, Heap

\* A process that aborts in a call has nothing left to keep.
LEMMA AbortKept ==
    ASSUME NEW m, GoodMount(m)
    PROVE  GoodMount([m EXCEPT !.status = "crash"])
  <1> DEFINE r == [m EXCEPT !.status = "crash"]
  <1>1. m \in Mount /\ r \in Mount BY DEF GoodMount, Mount
  <1>2. MountSockets(r) /\ TableFreed(r)
    BY <1>1 DEF GoodMount, MountSockets, TableFreed, Mount
  <1>3. RefusedClean(r) /\ Returned(r)
    BY <1>1 DEF GoodMount, RefusedClean, Returned, Mount
  <1> QED BY <1>1, <1>2, <1>3 DEF GoodMount

\* A call that touches the heap ends in a good process, if what it makes of the
\* process is good.
LEMMA TouchesKept ==
    ASSUME NEW m, GoodMount(m), Touches(m)
    PROVE  GoodMount(mnt')
  BY AbortKept DEF Touches

\* SocketPool_deinit frees the name, a second time if it was freed, and deletes the
\* key.
LEMMA PoolFreed ==
    ASSUME NEW m \in Mount
    PROVE  LET r == SocketPool_deinit(m) IN
           /\ r \in Mount
           /\ r.pc = m.pc /\ r.asks = m.asks /\ r.host = m.host /\ r.ctx = m.ctx
           /\ r.ping = m.ping /\ r.table = m.table /\ r.pooled = m.pooled
           /\ r.reached = m.reached /\ r.rc = m.rc /\ r.status = m.status
           /\ "table" \in r.misused <=> "table" \in m.misused
           /\ m.name = "null" => r.name = "null" /\ r.misused = m.misused
  <1> DEFINE r == SocketPool_deinit(m)
  <1>1. PICK name \in Heap : name = Freed(m.name) BY DEF Mount, Heap, Freed
  <1>2. PICK misused \in SUBSET {"host", "name", "table", "context"} :
           misused = Again(m.name, m.misused, "name")
    BY DEF Mount, Again
  <1>3. PICK key \in {"null", "zero", "set", "deleted"} :
           key = IF m.key = "set" THEN "deleted" ELSE m.key
    BY DEF Mount
  <1>4. r = [m EXCEPT !.name = name, !.misused = misused, !.key = key]
    BY <1>1, <1>2, <1>3 DEF SocketPool_deinit
  <1>5. /\ r \in Mount
        /\ r.pc = m.pc /\ r.asks = m.asks /\ r.host = m.host /\ r.ctx = m.ctx
        /\ r.ping = m.ping /\ r.table = m.table /\ r.pooled = m.pooled
        /\ r.reached = m.reached /\ r.rc = m.rc /\ r.status = m.status
        /\ r.name = name /\ r.misused = misused
    BY <1>4 DEF Mount
  <1>6. "table" \in misused <=> "table" \in m.misused BY <1>2 DEF Again
  <1>7. m.name = "null" => name = "null" /\ misused = m.misused
    BY <1>1, <1>2 DEF Freed, Again
  <1> QED BY <1>5, <1>6, <1>7

\* AttrCache_deinit frees the table, a second time if it was freed.
LEMMA CacheFreed ==
    ASSUME NEW m \in Mount
    PROVE  LET r == AttrCache_deinit(m) IN
           /\ r \in Mount
           /\ r.pc = m.pc /\ r.asks = m.asks /\ r.host = m.host /\ r.ctx = m.ctx
           /\ r.ping = m.ping /\ r.name = m.name /\ r.pooled = m.pooled
           /\ r.reached = m.reached /\ r.rc = m.rc /\ r.status = m.status
           /\ r.table \in {"null", "freed"} /\ (r.table = "null" <=> m.table = "null")
           /\ "table" \in r.misused => "table" \in m.misused \/ m.table = "freed"
           /\ m.table # "freed" => r.misused = m.misused
  <1> DEFINE r == AttrCache_deinit(m)
  <1>1. PICK table \in Heap : table = Freed(m.table) BY DEF Mount, Heap, Freed
  <1>2. PICK misused \in SUBSET {"host", "name", "table", "context"} :
           misused = Again(m.table, m.misused, "table")
    BY DEF Mount, Again
  <1>4. r = [m EXCEPT !.table = table, !.misused = misused]
    BY <1>1, <1>2 DEF AttrCache_deinit
  <1>5. /\ r \in Mount
        /\ r.pc = m.pc /\ r.asks = m.asks /\ r.host = m.host /\ r.ctx = m.ctx
        /\ r.ping = m.ping /\ r.name = m.name /\ r.pooled = m.pooled
        /\ r.reached = m.reached /\ r.rc = m.rc /\ r.status = m.status
        /\ r.table = table /\ r.misused = misused
    BY <1>4 DEF Mount
  <1>6. /\ "table" \in misused => "table" \in m.misused \/ m.table = "freed"
        /\ m.table # "freed" => misused = m.misused
    BY <1>2 DEF Again
  <1>7. table \in {"null", "freed"} /\ (table = "null" <=> m.table = "null")
    BY <1>1 DEF Freed
  <1> QED BY <1>5, <1>6, <1>7

\* A mount without a host ends at once.
LEMMA Rhizofs_runKept ==
    ASSUME GoodMount(mnt), Rhizofs_run
    PROVE  GoodMount(mnt')
  <1>t. mnt \in Mount BY DEF GoodMount
  <1>g. mnt.status = "running" /\ mnt.pc = "parse" BY DEF Rhizofs_run, MountAt
  <1>1. CASE ~ mnt.asks /\ mnt' = [mnt EXCEPT !.status = "failure"]
    <2>1. mnt' \in Mount BY <1>t, <1>1, MountFacts DEF Mount
    <2>2. MountSockets(mnt') /\ TableFreed(mnt')
      BY <1>t, <1>g, <1>1
      DEF GoodMount, Mount, MountSockets, TableFreed, Session, Initing, Ending
    <2>3. RefusedClean(mnt') /\ Returned(mnt')
      BY <1>t, <1>g, <1>1
      DEF GoodMount, Mount, MountSockets, TableFreed, RefusedClean, Returned, Session,
          Initing, Ending
    <2> QED BY <2>1, <2>2, <2>3 DEF GoodMount
  <1>2. CASE mnt' = [mnt EXCEPT !.pc = "priv"]
    <2>1. mnt' \in Mount BY <1>t, <1>2, MountFacts DEF Mount
    <2>2. MountSockets(mnt') /\ TableFreed(mnt')
      BY <1>t, <1>g, <1>2
      DEF GoodMount, Mount, MountSockets, TableFreed, Session, Initing, Ending
    <2>3. RefusedClean(mnt') /\ Returned(mnt')
      BY <1>t, <1>g, <1>2
      DEF GoodMount, Mount, MountSockets, TableFreed, RefusedClean, Returned, Session,
          Initing, Ending
    <2> QED BY <2>1, <2>2, <2>3 DEF GoodMount
  <1> QED BY <1>g, <1>1, <1>2 DEF Rhizofs_run, MountGoto

\* RhizoPriv_create in Rhizofs_fuse_main.
LEMMA PrivCreatedKept ==
    ASSUME GoodMount(mnt), RhizoPriv_create("priv", 1, "keys", "main_priv")
    PROVE  GoodMount(mnt')
  <1>t. mnt \in Mount BY DEF GoodMount
  <1>g. mnt.status = "running" /\ mnt.pc = "priv" BY DEF RhizoPriv_create, MountAt
  <1>1. CASE mnt' = [mnt EXCEPT !.ctx[1] = "open", !.pc = "keys"]
    <2>1. mnt' \in Mount BY <1>t, <1>1, MountFacts DEF Mount
    <2>2. MountSockets(mnt') /\ TableFreed(mnt')
      BY <1>t, <1>g, <1>1
      DEF GoodMount, Mount, MountSockets, TableFreed, Session, Initing, Ending
    <2>3. RefusedClean(mnt') /\ Returned(mnt')
      BY <1>t, <1>g, <1>1
      DEF GoodMount, Mount, MountSockets, TableFreed, RefusedClean, Returned, Session,
          Initing, Ending
    <2> QED BY <2>1, <2>2, <2>3 DEF GoodMount
  <1>2. CASE mnt' = [mnt EXCEPT !.rc = "failure", !.pc = "main_priv"]
    <2>1. mnt' \in Mount BY <1>t, <1>2, MountFacts DEF Mount
    <2>2. MountSockets(mnt') /\ TableFreed(mnt')
      BY <1>t, <1>g, <1>2
      DEF GoodMount, Mount, MountSockets, TableFreed, Session, Initing, Ending
    <2>3. RefusedClean(mnt') /\ Returned(mnt')
      BY <1>t, <1>g, <1>2
      DEF GoodMount, Mount, MountSockets, TableFreed, RefusedClean, Returned, Session,
          Initing, Ending
    <2> QED BY <2>1, <2>2, <2>3 DEF GoodMount
  <1> QED BY <1>g, <1>1, <1>2 DEF RhizoPriv_create, MountGoto

\* The keys are read, or the mount is refused.
LEMMA ReadKeysKept ==
    ASSUME GoodMount(mnt), ReadKeys
    PROVE  GoodMount(mnt')
  <1>t. mnt \in Mount BY DEF GoodMount
  <1>g. mnt.status = "running" /\ mnt.pc = "keys" BY DEF ReadKeys, MountAt
  <1>1. CASE mnt' = [mnt EXCEPT !.pc = "check"]
    <2>1. mnt' \in Mount BY <1>t, <1>1, MountFacts DEF Mount
    <2>2. MountSockets(mnt') /\ TableFreed(mnt')
      BY <1>t, <1>g, <1>1
      DEF GoodMount, Mount, MountSockets, TableFreed, Session, Initing, Ending
    <2>3. RefusedClean(mnt') /\ Returned(mnt')
      BY <1>t, <1>g, <1>1
      DEF GoodMount, Mount, MountSockets, TableFreed, RefusedClean, Returned, Session,
          Initing, Ending
    <2> QED BY <2>1, <2>2, <2>3 DEF GoodMount
  <1>2. CASE mnt' = [mnt EXCEPT !.rc = "failure", !.pc = "main_priv"]
    <2>1. mnt' \in Mount BY <1>t, <1>2, MountFacts DEF Mount
    <2>2. MountSockets(mnt') /\ TableFreed(mnt')
      BY <1>t, <1>g, <1>2
      DEF GoodMount, Mount, MountSockets, TableFreed, Session, Initing, Ending
    <2>3. RefusedClean(mnt') /\ Returned(mnt')
      BY <1>t, <1>g, <1>2
      DEF GoodMount, Mount, MountSockets, TableFreed, RefusedClean, Returned, Session,
          Initing, Ending
    <2> QED BY <2>1, <2>2, <2>3 DEF GoodMount
  <1> QED BY <1>g, <1>1, <1>2 DEF ReadKeys, MountGoto, FuseMainFails

\* The socket of the ping is opened, or the mount is refused.
LEMMA OpenPingKept ==
    ASSUME GoodMount(mnt), OpenPing
    PROVE  GoodMount(mnt')
  <1>t. mnt \in Mount BY DEF GoodMount
  <1>g. mnt.status = "running" /\ mnt.pc = "check" BY DEF OpenPing, MountAt
  <1>1. CASE mnt' = [mnt EXCEPT !.pc = "fuse_main"]
    <2>1. mnt' \in Mount BY <1>t, <1>1, MountFacts DEF Mount
    <2>2. MountSockets(mnt') /\ TableFreed(mnt')
      BY <1>t, <1>g, <1>1
      DEF GoodMount, Mount, MountSockets, TableFreed, Session, Initing, Ending
    <2>3. RefusedClean(mnt') /\ Returned(mnt')
      BY <1>t, <1>g, <1>1
      DEF GoodMount, Mount, MountSockets, TableFreed, RefusedClean, Returned, Session,
          Initing, Ending
    <2> QED BY <2>1, <2>2, <2>3 DEF GoodMount
  <1>2. CASE mnt' = [mnt EXCEPT !.rc = "failure", !.pc = "main_priv"]
    <2>1. mnt' \in Mount BY <1>t, <1>2, MountFacts DEF Mount
    <2>2. MountSockets(mnt') /\ TableFreed(mnt')
      BY <1>t, <1>g, <1>2
      DEF GoodMount, Mount, MountSockets, TableFreed, Session, Initing, Ending
    <2>3. RefusedClean(mnt') /\ Returned(mnt')
      BY <1>t, <1>g, <1>2
      DEF GoodMount, Mount, MountSockets, TableFreed, RefusedClean, Returned, Session,
          Initing, Ending
    <2> QED BY <2>1, <2>2, <2>3 DEF GoodMount
  <1>3. CASE mnt' = [mnt EXCEPT !.ping = TRUE, !.pc = "ping"]
    <2>1. mnt' \in Mount BY <1>t, <1>3, MountFacts DEF Mount
    <2>2. MountSockets(mnt') /\ TableFreed(mnt')
      BY <1>t, <1>g, <1>3
      DEF GoodMount, Mount, MountSockets, TableFreed, Session, Initing, Ending
    <2>3. RefusedClean(mnt') /\ Returned(mnt')
      BY <1>t, <1>g, <1>3
      DEF GoodMount, Mount, MountSockets, TableFreed, RefusedClean, Returned, Session,
          Initing, Ending
    <2> QED BY <2>1, <2>2, <2>3 DEF GoodMount
  <1> QED BY <1>g, <1>1, <1>2, <1>3 DEF OpenPing, MountGoto, FuseMainFails

\* The ping closes its socket, whatever the answer.
LEMMA PingedKept ==
    ASSUME GoodMount(mnt), Pinged
    PROVE  GoodMount(mnt')
  <1>t. mnt \in Mount BY DEF GoodMount
  <1>g. mnt.status = "running" /\ mnt.pc = "ping" BY DEF Pinged, MountAt
  <1>1. CASE mnt' = [mnt EXCEPT !.ping = FALSE, !.pc = "fuse_main"]
    <2>1. mnt' \in Mount BY <1>t, <1>1, MountFacts DEF Mount
    <2>2. MountSockets(mnt') /\ TableFreed(mnt')
      BY <1>t, <1>g, <1>1
      DEF GoodMount, Mount, MountSockets, TableFreed, Session, Initing, Ending
    <2>3. RefusedClean(mnt') /\ Returned(mnt')
      BY <1>t, <1>g, <1>1
      DEF GoodMount, Mount, MountSockets, TableFreed, RefusedClean, Returned, Session,
          Initing, Ending
    <2> QED BY <2>1, <2>2, <2>3 DEF GoodMount
  <1>2. CASE mnt' = [mnt EXCEPT !.ping = FALSE, !.rc = "failure", !.pc = "main_priv"]
    <2>1. mnt' \in Mount BY <1>t, <1>2, MountFacts DEF Mount
    <2>2. MountSockets(mnt') /\ TableFreed(mnt')
      BY <1>t, <1>g, <1>2
      DEF GoodMount, Mount, MountSockets, TableFreed, Session, Initing, Ending
    <2>3. RefusedClean(mnt') /\ Returned(mnt')
      BY <1>t, <1>g, <1>2
      DEF GoodMount, Mount, MountSockets, TableFreed, RefusedClean, Returned, Session,
          Initing, Ending
    <2> QED BY <2>1, <2>2, <2>3 DEF GoodMount
  <1> QED BY <1>g, <1>1, <1>2 DEF Pinged, MountGoto

\* fuse_main refuses the mount, or begins a session.
LEMMA fuse_mainKept ==
    ASSUME GoodMount(mnt), fuse_main
    PROVE  GoodMount(mnt')
  <1>t. mnt \in Mount BY DEF GoodMount
  <1>g. mnt.status = "running" /\ mnt.pc = "fuse_main" BY DEF fuse_main, MountAt
  <1>1. CASE mnt' = [mnt EXCEPT !.rc = "failure", !.pc = "main_priv"]
    <2>1. mnt' \in Mount BY <1>t, <1>1, MountFacts DEF Mount
    <2>2. MountSockets(mnt') /\ TableFreed(mnt')
      BY <1>t, <1>g, <1>1
      DEF GoodMount, Mount, MountSockets, TableFreed, Session, Initing, Ending
    <2>3. RefusedClean(mnt') /\ Returned(mnt')
      BY <1>t, <1>g, <1>1
      DEF GoodMount, Mount, MountSockets, TableFreed, RefusedClean, Returned, Session,
          Initing, Ending
    <2> QED BY <2>1, <2>2, <2>3 DEF GoodMount
  <1>2. CASE mnt.asks /\ mnt' = [mnt EXCEPT !.pc = "main_priv"]
    <2>1. mnt' \in Mount BY <1>t, <1>2, MountFacts DEF Mount
    <2>2. MountSockets(mnt') /\ TableFreed(mnt')
      BY <1>t, <1>g, <1>2
      DEF GoodMount, Mount, MountSockets, TableFreed, Session, Initing, Ending
    <2>3. RefusedClean(mnt') /\ Returned(mnt')
      BY <1>t, <1>g, <1>2
      DEF GoodMount, Mount, MountSockets, TableFreed, RefusedClean, Returned, Session,
          Initing, Ending
    <2> QED BY <2>1, <2>2, <2>3 DEF GoodMount
  <1>3. CASE mnt' = [mnt EXCEPT !.pc = "init"]
    <2>1. mnt' \in Mount BY <1>t, <1>3, MountFacts DEF Mount
    <2>2. MountSockets(mnt') /\ TableFreed(mnt')
      BY <1>t, <1>g, <1>3
      DEF GoodMount, Mount, MountSockets, TableFreed, Session, Initing, Ending
    <2>3. RefusedClean(mnt') /\ Returned(mnt')
      BY <1>t, <1>g, <1>3
      DEF GoodMount, Mount, MountSockets, TableFreed, RefusedClean, Returned, Session,
          Initing, Ending
    <2> QED BY <2>1, <2>2, <2>3 DEF GoodMount
  <1> QED BY <1>g, <1>1, <1>2, <1>3 DEF fuse_main, MountGoto, FuseMainFails

\* RhizoPriv_create in Rhizofs_init.
LEMMA InitCreatedKept ==
    ASSUME GoodMount(mnt), RhizoPriv_create("init", 2, "init_pool", "init_error")
    PROVE  GoodMount(mnt')
  <1>t. mnt \in Mount BY DEF GoodMount
  <1>g. mnt.status = "running" /\ mnt.pc = "init" BY DEF RhizoPriv_create, MountAt
  <1>1. CASE mnt' = [mnt EXCEPT !.ctx[2] = "open", !.pc = "init_pool"]
    <2>1. mnt' \in Mount BY <1>t, <1>1, MountFacts DEF Mount
    <2>2. MountSockets(mnt') /\ TableFreed(mnt')
      BY <1>t, <1>g, <1>1
      DEF GoodMount, Mount, MountSockets, TableFreed, Session, Initing, Ending
    <2>3. RefusedClean(mnt') /\ Returned(mnt')
      BY <1>t, <1>g, <1>1
      DEF GoodMount, Mount, MountSockets, TableFreed, RefusedClean, Returned, Session,
          Initing, Ending
    <2> QED BY <2>1, <2>2, <2>3 DEF GoodMount
  <1>2. CASE mnt' = [mnt EXCEPT !.rc = "failure", !.pc = "init_error"]
    <2>1. mnt' \in Mount BY <1>t, <1>2, MountFacts DEF Mount
    <2>2. MountSockets(mnt') /\ TableFreed(mnt')
      BY <1>t, <1>g, <1>2
      DEF GoodMount, Mount, MountSockets, TableFreed, Session, Initing, Ending
    <2>3. RefusedClean(mnt') /\ Returned(mnt')
      BY <1>t, <1>g, <1>2
      DEF GoodMount, Mount, MountSockets, TableFreed, RefusedClean, Returned, Session,
          Initing, Ending
    <2> QED BY <2>1, <2>2, <2>3 DEF GoodMount
  <1> QED BY <1>g, <1>1, <1>2 DEF RhizoPriv_create, MountGoto

\* The pool is set up, or its name is freed but kept.
LEMMA SocketPool_initKept ==
    ASSUME GoodMount(mnt), SocketPool_init
    PROVE  GoodMount(mnt')
  <1>t. mnt \in Mount BY DEF GoodMount
  <1>g. mnt.status = "running" /\ mnt.pc = "init_pool" BY DEF SocketPool_init, MountAt
  <1>p. PICK key \in {"zero", "set"}, name \in {"null", "freed"} :
           \/ mnt' = [mnt EXCEPT !.name = "set", !.key = key, !.pc = "init_cache"]
           \/ mnt' = [mnt EXCEPT !.name = name, !.pc = "init_error"]
    BY DEF SocketPool_init
  <1>1. CASE /\ key \in {"zero", "set"}
             /\ mnt' = [mnt EXCEPT !.name = "set", !.key = key, !.pc = "init_cache"]
    <2>1. mnt' \in Mount BY <1>t, <1>p, <1>1, MountFacts DEF Mount
    <2>2. MountSockets(mnt') /\ TableFreed(mnt')
      BY <1>t, <1>g, <1>p, <1>1
      DEF GoodMount, Mount, MountSockets, TableFreed, Session, Initing, Ending
    <2>3. RefusedClean(mnt') /\ Returned(mnt')
      BY <1>t, <1>g, <1>p, <1>1
      DEF GoodMount, Mount, MountSockets, TableFreed, RefusedClean, Returned, Session,
          Initing, Ending
    <2> QED BY <2>1, <2>2, <2>3 DEF GoodMount
  <1>2. CASE /\ name \in {"null", "freed"}
             /\ mnt' = [mnt EXCEPT !.name = name, !.pc = "init_error"]
    <2>1. mnt' \in Mount BY <1>t, <1>p, <1>2, MountFacts DEF Mount
    <2>2. MountSockets(mnt') /\ TableFreed(mnt')
      BY <1>t, <1>g, <1>p, <1>2
      DEF GoodMount, Mount, MountSockets, TableFreed, Session, Initing, Ending
    <2>3. RefusedClean(mnt') /\ Returned(mnt')
      BY <1>t, <1>g, <1>p, <1>2
      DEF GoodMount, Mount, MountSockets, TableFreed, RefusedClean, Returned, Session,
          Initing, Ending
    <2> QED BY <2>1, <2>2, <2>3 DEF GoodMount
  <1> QED BY <1>g, <1>p, <1>1, <1>2 DEF SocketPool_init, MountGoto

\* The cache is set up, or deinitialised again.
LEMMA AttrCache_initKept ==
    ASSUME GoodMount(mnt), AttrCache_init
    PROVE  GoodMount(mnt')
  <1>t. mnt \in Mount BY DEF GoodMount
  <1>g. mnt.status = "running" /\ mnt.pc = "init_cache" BY DEF AttrCache_init, MountAt
  <1>1. CASE mnt' = [mnt EXCEPT !.table = "set", !.reached = @ \cup {"init"},
                                !.pc = "loop"]
    <2>1. mnt' \in Mount BY <1>t, <1>1, MountFacts DEF Mount
    <2>2. MountSockets(mnt') /\ TableFreed(mnt')
      BY <1>t, <1>g, <1>1
      DEF GoodMount, Mount, MountSockets, TableFreed, Session, Initing, Ending
    <2>3. RefusedClean(mnt') /\ Returned(mnt')
      BY <1>t, <1>g, <1>1
      DEF GoodMount, Mount, MountSockets, TableFreed, RefusedClean, Returned, Session,
          Initing, Ending
    <2> QED BY <2>1, <2>2, <2>3 DEF GoodMount
  <1>2. CASE mnt' = [mnt EXCEPT !.table = "null", !.reached = @ \cup {"no_cache"},
                                !.pc = "init_error"]
    <2>1. mnt' \in Mount BY <1>t, <1>2, MountFacts DEF Mount
    <2>2. MountSockets(mnt') /\ TableFreed(mnt')
      BY <1>t, <1>g, <1>2
      DEF GoodMount, Mount, MountSockets, TableFreed, Session, Initing, Ending
    <2>3. RefusedClean(mnt') /\ Returned(mnt')
      BY <1>t, <1>g, <1>2
      DEF GoodMount, Mount, MountSockets, TableFreed, RefusedClean, Returned, Session,
          Initing, Ending
    <2> QED BY <2>1, <2>2, <2>3 DEF GoodMount
  <1>3. CASE mnt' = [mnt EXCEPT !.table = "freed", !.reached = @ \cup {"no_cache"},
                                !.pc = "init_error"]
    <2>1. mnt' \in Mount BY <1>t, <1>3, MountFacts DEF Mount
    <2>2. MountSockets(mnt') /\ TableFreed(mnt')
      BY <1>t, <1>g, <1>3
      DEF GoodMount, Mount, MountSockets, TableFreed, Session, Initing, Ending
    <2>3. RefusedClean(mnt') /\ Returned(mnt')
      BY <1>t, <1>g, <1>3
      DEF GoodMount, Mount, MountSockets, TableFreed, RefusedClean, Returned, Session,
          Initing, Ending
    <2> QED BY <2>1, <2>2, <2>3 DEF GoodMount
  <1> QED BY <1>g, <1>1, <1>2, <1>3 DEF AttrCache_init, MountGoto

\* An operation ends; its thread may have closed its socket.
LEMMA EndOperationKept ==
    ASSUME GoodMount(mnt), NEW t \in FuseThreads \cup {MountMain}, EndOperation(t)
    PROVE  GoodMount(mnt')
  <1>t. mnt \in Mount BY DEF GoodMount
  <1>g. mnt.status = "running" BY DEF EndOperation, MountAt
  <1>p. PICK busy \in SUBSET (FuseThreads \cup {MountMain}),
             pooled \in SUBSET (FuseThreads \cup {MountMain}) :
           /\ pooled \subseteq mnt.pooled
           /\ mnt' = [mnt EXCEPT !.busy = busy, !.pooled = pooled]
    <2>1. mnt.busy \ {t} \in SUBSET (FuseThreads \cup {MountMain}) BY <1>t DEF Mount
    <2>2. PICK pooled \in {mnt.pooled, mnt.pooled \ {t}} :
             mnt' = [mnt EXCEPT !.busy = @ \ {t}, !.pooled = pooled]
      BY DEF EndOperation
    <2>3. pooled \in SUBSET (FuseThreads \cup {MountMain}) /\ pooled \subseteq mnt.pooled
      BY <1>t, <2>2 DEF Mount
    <2> QED BY <2>1, <2>2, <2>3
  <1>1. CASE /\ pooled \subseteq mnt.pooled
             /\ mnt' = [mnt EXCEPT !.busy = busy, !.pooled = pooled]
    <2>1. mnt' \in Mount BY <1>t, <1>p, <1>1, MountFacts DEF Mount
    <2>2. MountSockets(mnt') /\ TableFreed(mnt')
      BY <1>t, <1>g, <1>p, <1>1
      DEF GoodMount, Mount, MountSockets, TableFreed, Session, Initing, Ending
    <2>3. RefusedClean(mnt') /\ Returned(mnt')
      BY <1>t, <1>g, <1>p, <1>1
      DEF GoodMount, Mount, MountSockets, TableFreed, RefusedClean, Returned, Session,
          Initing, Ending
    <2> QED BY <2>1, <2>2, <2>3 DEF GoodMount
  <1> QED BY <1>p, <1>1

\* An operation begins in a session, and its thread may open its socket.
LEMMA BeginsKept ==
    ASSUME GoodMount(mnt), NEW t \in FuseThreads \cup {MountMain},
           BeginOperation(t), "no_init" \notin mnt.reached
    PROVE  GoodMount(mnt')
  <1>t. mnt \in Mount BY DEF GoodMount
  <1>g. mnt.status = "running" /\ mnt.pc = "loop" BY DEF BeginOperation, MountAt
  <1>p. PICK busy \in SUBSET (FuseThreads \cup {MountMain}),
             pooled \in SUBSET (FuseThreads \cup {MountMain}) :
           mnt' = [mnt EXCEPT !.busy = busy, !.pooled = pooled]
    <2>1. mnt.busy \cup {t} \in SUBSET (FuseThreads \cup {MountMain}) BY <1>t DEF Mount
    <2>2. PICK pooled \in {mnt.pooled, mnt.pooled \cup {t}} :
             mnt' = [mnt EXCEPT !.busy = @ \cup {t}, !.pooled = pooled]
      BY DEF BeginOperation
    <2>3. pooled \in SUBSET (FuseThreads \cup {MountMain}) BY <1>t, <2>2 DEF Mount
    <2> QED BY <2>1, <2>2, <2>3
  <1>n. "no_init" \notin mnt.reached OBVIOUS
  <1>1. CASE mnt' = [mnt EXCEPT !.busy = busy, !.pooled = pooled]
    <2>1. mnt' \in Mount BY <1>t, <1>p, <1>n, <1>1, MountFacts DEF Mount
    <2>2. MountSockets(mnt') /\ TableFreed(mnt')
      BY <1>t, <1>g, <1>p, <1>n, <1>1
      DEF GoodMount, Mount, MountSockets, TableFreed, Session, Initing, Ending
    <2>3. RefusedClean(mnt') /\ Returned(mnt')
      BY <1>t, <1>g, <1>p, <1>n, <1>1
      DEF GoodMount, Mount, MountSockets, TableFreed, RefusedClean, Returned, Session,
          Initing, Ending
    <2> QED BY <2>1, <2>2, <2>3 DEF GoodMount
  <1> QED BY <1>p, <1>1

\* The session ends.
LEMMA UnmountKept ==
    ASSUME GoodMount(mnt), Unmount
    PROVE  GoodMount(mnt')
  <1>t. mnt \in Mount BY DEF GoodMount
  <1>g. mnt.status = "running" /\ mnt.pc = "loop" BY DEF Unmount, MountAt
  <1>1. CASE mnt' = [mnt EXCEPT !.rc = "success", !.pc = "stopping"]
    <2>1. mnt' \in Mount BY <1>t, <1>1, MountFacts DEF Mount
    <2>2. MountSockets(mnt') /\ TableFreed(mnt')
      BY <1>t, <1>g, <1>1
      DEF GoodMount, Mount, MountSockets, TableFreed, Session, Initing, Ending
    <2>3. RefusedClean(mnt') /\ Returned(mnt')
      BY <1>t, <1>g, <1>1
      DEF GoodMount, Mount, MountSockets, TableFreed, RefusedClean, Returned, Session,
          Initing, Ending
    <2> QED BY <2>1, <2>2, <2>3 DEF GoodMount
  <1>2. CASE mnt' = [mnt EXCEPT !.rc = "failure", !.pc = "stopping"]
    <2>1. mnt' \in Mount BY <1>t, <1>2, MountFacts DEF Mount
    <2>2. MountSockets(mnt') /\ TableFreed(mnt')
      BY <1>t, <1>g, <1>2
      DEF GoodMount, Mount, MountSockets, TableFreed, Session, Initing, Ending
    <2>3. RefusedClean(mnt') /\ Returned(mnt')
      BY <1>t, <1>g, <1>2
      DEF GoodMount, Mount, MountSockets, TableFreed, RefusedClean, Returned, Session,
          Initing, Ending
    <2> QED BY <2>1, <2>2, <2>3 DEF GoodMount
  <1> QED BY <1>g, <1>1, <1>2 DEF Unmount, MountGoto

\* A thread of fuse is cancelled, and its socket closed.
LEMMA EndThreadKept ==
    ASSUME GoodMount(mnt), NEW t \in FuseThreads \cup {MountMain}, EndThread(t)
    PROVE  GoodMount(mnt')
  <1>t. mnt \in Mount BY DEF GoodMount
  <1>g. mnt.status = "running" /\ mnt.pc = "stopping" BY DEF EndThread, MountAt
  <1>p. PICK cancelled \in SUBSET FuseThreads,
             pooled \in SUBSET (FuseThreads \cup {MountMain}) :
           /\ pooled \subseteq mnt.pooled
           /\ mnt' = [mnt EXCEPT !.cancelled = cancelled, !.pooled = pooled]
    <2>1. mnt.cancelled \cup {t} \in SUBSET FuseThreads BY <1>t DEF Mount, EndThread
    <2>2. PICK pooled \in {mnt.pooled, mnt.pooled \ {t}} :
             mnt' = [mnt EXCEPT !.cancelled = @ \cup {t}, !.pooled = pooled]
      BY DEF EndThread
    <2>3. pooled \in SUBSET (FuseThreads \cup {MountMain}) /\ pooled \subseteq mnt.pooled
      BY <1>t, <2>2 DEF Mount
    <2> QED BY <2>1, <2>2, <2>3
  <1>1. CASE mnt' = [mnt EXCEPT !.cancelled = cancelled, !.pooled = pooled]
    <2>1. mnt' \in Mount BY <1>t, <1>p, <1>1, MountFacts DEF Mount
    <2>2. MountSockets(mnt') /\ TableFreed(mnt')
      BY <1>t, <1>g, <1>p, <1>1
      DEF GoodMount, Mount, MountSockets, TableFreed, Session, Initing, Ending
    <2>3. RefusedClean(mnt') /\ Returned(mnt')
      BY <1>t, <1>g, <1>p, <1>1
      DEF GoodMount, Mount, MountSockets, TableFreed, RefusedClean, Returned, Session,
          Initing, Ending
    <2> QED BY <2>1, <2>2, <2>3 DEF GoodMount
  <1> QED BY <1>p, <1>1

\* The loop returns.
LEMMA StoppedKept ==
    ASSUME GoodMount(mnt), Stopped
    PROVE  GoodMount(mnt')
  <1>t. mnt \in Mount BY DEF GoodMount
  <1>g. mnt.status = "running" /\ mnt.pc = "stopping" BY DEF Stopped, MountAt
  <1>1. CASE mnt' = [mnt EXCEPT !.pc = "destroy"]
    <2>1. mnt' \in Mount BY <1>t, <1>1, MountFacts DEF Mount
    <2>2. MountSockets(mnt') /\ TableFreed(mnt')
      BY <1>t, <1>g, <1>1
      DEF GoodMount, Mount, MountSockets, TableFreed, Session, Initing, Ending
    <2>3. RefusedClean(mnt') /\ Returned(mnt')
      BY <1>t, <1>g, <1>1
      DEF GoodMount, Mount, MountSockets, TableFreed, RefusedClean, Returned, Session,
          Initing, Ending
    <2> QED BY <2>1, <2>2, <2>3 DEF GoodMount
  <1> QED BY <1>g, <1>1 DEF Stopped, MountGoto

\* zmq_ctx_destroy, for the context of a Rhizofs_init that failed.
LEMMA InitTermKept ==
    ASSUME GoodMount(mnt), zmq_ctx_destroy("init_term", 2, "loop")
    PROVE  GoodMount(mnt')
  <1>t. mnt \in Mount BY DEF GoodMount
  <1>g. mnt.status = "running" /\ mnt.pc = "init_term" BY DEF zmq_ctx_destroy, MountAt
  <1>p. PICK x \in Contexts : x = IF mnt.ctx[2] = "open" THEN "destroyed" ELSE mnt.ctx[2]
    BY <1>t DEF Mount, Contexts
  <1>q. x # "open" /\ (x = "none" <=> mnt.ctx[2] = "none") BY <1>p DEF Contexts
  <1>r. mnt.pooled = {} BY DEF zmq_ctx_destroy, GoodMount, MountSockets
  <1>1. CASE /\ x # "open" /\ (x = "none" <=> mnt.ctx[2] = "none") /\ mnt.pooled = {}
             /\ mnt' = [mnt EXCEPT !.ctx[2] = x, !.pc = "loop"]
    <2>1. mnt' \in Mount BY <1>t, <1>p, <1>q, <1>r, <1>1, MountFacts DEF Mount
    <2>2. MountSockets(mnt') /\ TableFreed(mnt')
      BY <1>t, <1>g, <1>p, <1>q, <1>r, <1>1
      DEF GoodMount, Mount, MountSockets, TableFreed, Session, Initing, Ending
    <2>3. RefusedClean(mnt') /\ Returned(mnt')
      BY <1>t, <1>g, <1>p, <1>q, <1>r, <1>1
      DEF GoodMount, Mount, MountSockets, TableFreed, RefusedClean, Returned, Session,
          Initing, Ending
    <2> QED BY <2>1, <2>2, <2>3 DEF GoodMount
  <1> QED BY <1>g, <1>p, <1>q, <1>r, <1>1 DEF zmq_ctx_destroy, MountGoto

\* zmq_ctx_destroy, for the context of Rhizofs_init, after the session.
LEMMA DestroyTermKept ==
    ASSUME GoodMount(mnt), zmq_ctx_destroy("destroy_term", 2, "main_priv")
    PROVE  GoodMount(mnt')
  <1>t. mnt \in Mount BY DEF GoodMount
  <1>g. mnt.status = "running" /\ mnt.pc = "destroy_term"
    BY DEF zmq_ctx_destroy, MountAt
  <1>p. PICK x \in Contexts : x = IF mnt.ctx[2] = "open" THEN "destroyed" ELSE mnt.ctx[2]
    BY <1>t DEF Mount, Contexts
  <1>q. x # "open" /\ (x = "none" <=> mnt.ctx[2] = "none") BY <1>p DEF Contexts
  <1>r. mnt.pooled = {} BY DEF zmq_ctx_destroy, GoodMount, MountSockets
  <1>1. CASE /\ x # "open" /\ (x = "none" <=> mnt.ctx[2] = "none") /\ mnt.pooled = {}
             /\ mnt' = [mnt EXCEPT !.ctx[2] = x, !.pc = "main_priv"]
    <2>1. mnt' \in Mount BY <1>t, <1>p, <1>q, <1>r, <1>1, MountFacts DEF Mount
    <2>2. MountSockets(mnt') /\ TableFreed(mnt')
      BY <1>t, <1>g, <1>p, <1>q, <1>r, <1>1
      DEF GoodMount, Mount, MountSockets, TableFreed, Session, Initing, Ending
    <2>3. RefusedClean(mnt') /\ Returned(mnt')
      BY <1>t, <1>g, <1>p, <1>q, <1>r, <1>1
      DEF GoodMount, Mount, MountSockets, TableFreed, RefusedClean, Returned, Session,
          Initing, Ending
    <2> QED BY <2>1, <2>2, <2>3 DEF GoodMount
  <1> QED BY <1>g, <1>p, <1>q, <1>r, <1>1 DEF zmq_ctx_destroy, MountGoto

\* zmq_ctx_destroy, for the context of Rhizofs_fuse_main.
LEMMA MainTermKept ==
    ASSUME GoodMount(mnt), zmq_ctx_destroy("main_term", 1, "return")
    PROVE  GoodMount(mnt')
  <1>t. mnt \in Mount BY DEF GoodMount
  <1>g. mnt.status = "running" /\ mnt.pc = "main_term" BY DEF zmq_ctx_destroy, MountAt
  <1>p. PICK x \in Contexts : x = IF mnt.ctx[1] = "open" THEN "destroyed" ELSE mnt.ctx[1]
    BY <1>t DEF Mount, Contexts
  <1>q. x # "open" /\ (x = "none" <=> mnt.ctx[1] = "none") BY <1>p DEF Contexts
  <1>1. CASE /\ x # "open" /\ (x = "none" <=> mnt.ctx[1] = "none")
             /\ mnt' = [mnt EXCEPT !.ctx[1] = x, !.pc = "return"]
    <2>1. mnt' \in Mount BY <1>t, <1>p, <1>q, <1>1, MountFacts DEF Mount
    <2>2. MountSockets(mnt') /\ TableFreed(mnt')
      BY <1>t, <1>g, <1>p, <1>q, <1>1
      DEF GoodMount, Mount, MountSockets, TableFreed, Session, Initing, Ending
    <2>3. RefusedClean(mnt') /\ Returned(mnt')
      BY <1>t, <1>g, <1>p, <1>q, <1>1
      DEF GoodMount, Mount, MountSockets, TableFreed, RefusedClean, Returned, Session,
          Initing, Ending
    <2> QED BY <2>1, <2>2, <2>3 DEF GoodMount
  <1> QED BY <1>g, <1>p, <1>q, <1>1 DEF zmq_ctx_destroy, MountGoto

\* A thread that gets a request after Rhizofs_init called fuse_exit uses what is gone,
\* but nothing is opened.
LEMMA BeginOperationKept ==
    ASSUME GoodMount(mnt), NEW t \in FuseThreads \cup {MountMain}, BeginOperation(t)
    PROVE  GoodMount(mnt')
  <1>1. CASE "no_init" \notin mnt.reached BY <1>1, BeginsKept
  <1>2. CASE "no_init" \in mnt.reached
    <2> DEFINE r == [mnt EXCEPT !.misused = @ \cup {"context"}]
    <2>1. mnt \in Mount BY DEF GoodMount
    <2>2. r \in Mount BY <2>1 DEF Mount
    <2>3. MountSockets(r) /\ TableFreed(r)
      BY <2>1 DEF GoodMount, Mount, MountSockets, TableFreed
    <2>4. RefusedClean(r) /\ Returned(r)
      BY <1>2, <2>1 DEF GoodMount, Mount, RefusedClean, Returned
    <2>5. GoodMount(r) BY <2>2, <2>3, <2>4 DEF GoodMount
    <2>6. Touches(r) BY <1>2 DEF BeginOperation
    <2> QED BY <2>5, <2>6, TouchesKept
  <1> QED BY <1>1, <1>2

\* The end of Rhizofs_run frees the host, for the first time.
LEMMA ReturnKept ==
    ASSUME GoodMount(mnt), Return
    PROVE  GoodMount(mnt')
  <1>t. mnt \in Mount BY DEF GoodMount
  <1>g. mnt.status = "running" /\ mnt.pc = "return" BY DEF Return, MountAt
  <1>1. CASE mnt.asks /\ mnt' = [mnt EXCEPT !.status = "success"]
    <2>1. mnt' \in Mount BY <1>t, <1>1 DEF Mount
    <2>2. MountSockets(mnt') /\ TableFreed(mnt')
      BY <1>t, <1>g, <1>1 DEF GoodMount, Mount, MountSockets, TableFreed
    <2>3. RefusedClean(mnt') /\ Returned(mnt')
      BY <1>t, <1>g, <1>1
      DEF GoodMount, Mount, MountSockets, TableFreed, RefusedClean, Returned, Session,
          Initing, Ending
    <2> QED BY <2>1, <2>2, <2>3 DEF GoodMount
  <1>2. CASE ~ mnt.asks
    <2>1. PICK host \in Heap : host = Freed(mnt.host) BY <1>t DEF Mount, Heap, Freed
    <2>2. Again(mnt.host, mnt.misused, "host") = mnt.misused
      BY <1>g DEF GoodMount, Returned, Again
    <2>3. PICK rc \in {"success", "failure"} : rc = mnt.rc BY <1>t DEF Mount
    <2> DEFINE r == [mnt EXCEPT !.host = host, !.misused = mnt.misused, !.status = rc]
    <2>4. Touches(r) BY <1>2, <2>1, <2>2, <2>3 DEF Return
    <2>5. r \in Mount BY <1>t, <2>1, <2>3 DEF Mount
    <2>6. MountSockets(r) /\ TableFreed(r)
      BY <1>t, <1>g DEF GoodMount, Mount, MountSockets, TableFreed
    <2>7. RefusedClean(r) /\ Returned(r)
      BY <1>t, <1>g, <1>2, <2>3
      DEF GoodMount, Mount, MountSockets, TableFreed, RefusedClean, Returned, Session,
          Initing, Ending
    <2>8. GoodMount(r) BY <2>5, <2>6, <2>7 DEF GoodMount
    <2> QED BY <2>4, <2>8, TouchesKept
  <1> QED BY <1>1, <1>2 DEF Return

\* RhizoPriv_destroy deinitialises the pool again, but a mount that is refused has no
\* name to free.
LEMMA PrivDestroyedKept ==
    ASSUME GoodMount(mnt),
           NEW label, NEW then,
           <<label, then>> \in {<<"destroy_priv", "destroy_term">>,
                                <<"main_priv", "main_term">>},
           RhizoPriv_destroy(label, then)
    PROVE  GoodMount(mnt')
  <1>t. mnt \in Mount BY DEF GoodMount
  <1>l. \/ label = "destroy_priv" /\ then = "destroy_term"
        \/ label = "main_priv" /\ then = "main_term"
    OBVIOUS
  <1>g. mnt.status = "running" /\ mnt.pc = label BY DEF RhizoPriv_destroy, MountAt
  <1>1. PICK m \in Mount : m = [mnt EXCEPT !.pc = then]
    BY <1>t, <1>l, MountFacts DEF Mount
  <1>2. /\ m.pc = then /\ m.asks = mnt.asks /\ m.host = mnt.host /\ m.ctx = mnt.ctx
        /\ m.ping = mnt.ping /\ m.table = mnt.table /\ m.pooled = mnt.pooled
        /\ m.reached = mnt.reached /\ m.rc = mnt.rc /\ m.status = mnt.status
        /\ m.name = mnt.name /\ m.misused = mnt.misused
    BY <1>t, <1>1 DEF Mount
  <1>3. PICK r : r = SocketPool_deinit(m) OBVIOUS
  <1>4. /\ r \in Mount
        /\ r.pc = then /\ r.asks = mnt.asks /\ r.host = mnt.host /\ r.ctx = mnt.ctx
        /\ r.ping = mnt.ping /\ r.table = mnt.table /\ r.pooled = mnt.pooled
        /\ r.reached = mnt.reached /\ r.rc = mnt.rc /\ r.status = mnt.status
        /\ "table" \in r.misused <=> "table" \in mnt.misused
        /\ mnt.name = "null" => r.name = "null" /\ r.misused = mnt.misused
    BY <1>2, <1>3, PoolFreed
  <1>5. MountSockets(r) /\ TableFreed(r)
    BY <1>l, <1>g, <1>4
    DEF GoodMount, MountSockets, TableFreed, Session, Initing, Ending
  <1>6. RefusedClean(r) /\ Returned(r)
    BY <1>l, <1>g, <1>4
    DEF GoodMount, TableFreed, RefusedClean, Returned, Session, Ending
  <1>7. GoodMount(r) BY <1>4, <1>5, <1>6 DEF GoodMount
  <1>8. Touches(r) BY <1>1, <1>3 DEF RhizoPriv_destroy
  <1> QED BY <1>7, <1>8, TouchesKept

\* Rhizofs_destroy frees the table of the cache: for the second time only if
\* AttrCache_init had freed it.
LEMMA Rhizofs_destroyKept ==
    ASSUME GoodMount(mnt), Rhizofs_destroy
    PROVE  GoodMount(mnt')
  <1>t. mnt \in Mount BY DEF GoodMount
  <1>g. mnt.status = "running" /\ mnt.pc = "destroy" BY DEF Rhizofs_destroy, MountAt
  <1>1. PICK m \in Mount : m = [mnt EXCEPT !.pc = "destroy_priv"]
    BY <1>t, MountFacts DEF Mount
  <1>2. /\ m.pc = "destroy_priv" /\ m.host = mnt.host /\ m.ctx = mnt.ctx
        /\ m.ping = mnt.ping /\ m.table = mnt.table /\ m.pooled = mnt.pooled
        /\ m.reached = mnt.reached /\ m.status = mnt.status /\ m.misused = mnt.misused
    BY <1>t, <1>1 DEF Mount
  <1>3. PICK n \in Mount : n = SocketPool_deinit(m) BY PoolFreed
  <1>4. PICK r : r = AttrCache_deinit(n) OBVIOUS
  <1>5. /\ n.pc = "destroy_priv" /\ n.host = mnt.host /\ n.ctx = mnt.ctx
        /\ n.ping = mnt.ping /\ n.table = mnt.table /\ n.pooled = mnt.pooled
        /\ n.reached = mnt.reached /\ n.status = mnt.status
        /\ "table" \in n.misused <=> "table" \in mnt.misused
    BY <1>2, <1>3, PoolFreed
  <1>6. /\ r \in Mount
        /\ r.pc = "destroy_priv" /\ r.host = mnt.host /\ r.ctx = mnt.ctx
        /\ r.ping = mnt.ping /\ r.pooled = mnt.pooled
        /\ r.reached = mnt.reached /\ r.status = mnt.status
        /\ "table" \in r.misused => "table" \in mnt.misused \/ mnt.table = "freed"
    BY <1>4, <1>5, CacheFreed
  <1>7. mnt.reached # {} BY <1>g DEF GoodMount, TableFreed, Session
  <1>8. MountSockets(r) /\ TableFreed(r)
    BY <1>g, <1>6, <1>7
    DEF GoodMount, MountSockets, TableFreed, Session, Initing, Ending
  <1>9. RefusedClean(r) /\ Returned(r)
    BY <1>g, <1>6, <1>7 DEF GoodMount, RefusedClean, Returned
  <1>10. GoodMount(r) BY <1>6, <1>8, <1>9 DEF GoodMount
  <1>11. Touches(r) BY <1>1, <1>3, <1>4 DEF Rhizofs_destroy
  <1> QED BY <1>10, <1>11, TouchesKept

\* The error label of Rhizofs_init deinitialises the pool twice and the cache once,
\* which AttrCache_init may have done before.
LEMMA InitFailsKept ==
    ASSUME GoodMount(mnt), InitFails
    PROVE  GoodMount(mnt')
  <1>t. mnt \in Mount BY DEF GoodMount
  <1>g. mnt.status = "running" /\ mnt.pc = "init_error" BY DEF InitFails, MountAt
  <1>1. PICK m \in Mount :
           m = [mnt EXCEPT !.reached = @ \cup {"no_init"}, !.pc = "init_term"]
    BY <1>t, MountFacts DEF Mount
  <1>2. /\ m.pc = "init_term" /\ m.host = mnt.host /\ m.ctx = mnt.ctx
        /\ m.ping = mnt.ping /\ m.table = mnt.table /\ m.pooled = mnt.pooled
        /\ m.reached = mnt.reached \cup {"no_init"} /\ m.status = mnt.status
        /\ m.misused = mnt.misused
    BY <1>t, <1>1 DEF Mount
  <1>3. PICK n \in Mount : n = SocketPool_deinit(m) BY PoolFreed
  <1>4. PICK o \in Mount : o = AttrCache_deinit(n) BY CacheFreed
  <1>5. PICK r : r = SocketPool_deinit(o) OBVIOUS
  <1>6. /\ n.pc = "init_term" /\ n.host = mnt.host /\ n.ctx = mnt.ctx
        /\ n.ping = mnt.ping /\ n.table = mnt.table /\ n.pooled = mnt.pooled
        /\ n.reached = mnt.reached \cup {"no_init"} /\ n.status = mnt.status
        /\ "table" \in n.misused <=> "table" \in mnt.misused
    BY <1>2, <1>3, PoolFreed
  <1>7. /\ o.pc = "init_term" /\ o.host = mnt.host /\ o.ctx = mnt.ctx
        /\ o.ping = mnt.ping /\ o.pooled = mnt.pooled
        /\ o.reached = mnt.reached \cup {"no_init"} /\ o.status = mnt.status
        /\ o.table \in {"null", "freed"} /\ (o.table = "null" <=> mnt.table = "null")
        /\ "table" \in o.misused => "table" \in mnt.misused \/ mnt.table = "freed"
    BY <1>4, <1>6, CacheFreed
  <1>8. /\ r \in Mount
        /\ r.pc = "init_term" /\ r.host = mnt.host /\ r.ctx = mnt.ctx
        /\ r.ping = mnt.ping /\ r.pooled = mnt.pooled /\ r.table = o.table
        /\ r.reached = mnt.reached \cup {"no_init"} /\ r.status = mnt.status
        /\ "table" \in r.misused <=> "table" \in o.misused
    BY <1>5, <1>7, PoolFreed
  <1>9. mnt.table \in {"null", "freed"}
    BY <1>t, <1>g DEF GoodMount, TableFreed, Mount, Heap
  <1>10. MountSockets(r)
    BY <1>g, <1>8 DEF GoodMount, MountSockets, Session, Initing
  <1>11. TableFreed(r)
    BY <1>g, <1>7, <1>8, <1>9 DEF GoodMount, TableFreed, Session, Ending
  <1>12. RefusedClean(r) /\ Returned(r)
    BY <1>g, <1>8 DEF GoodMount, RefusedClean, Returned
  <1>13. GoodMount(r) BY <1>8, <1>10, <1>11, <1>12 DEF GoodMount
  <1>14. Touches(r) BY <1>1, <1>3, <1>4, <1>5 DEF InitFails
  <1> QED BY <1>13, <1>14, TouchesKept

\* Every step of the mount keeps the invariant.
LEMMA MountStepKept ==
    ASSUME GoodMount(mnt), MountNext
    PROVE  GoodMount(mnt')
  <1>1. ASSUME Rhizofs_init PROVE GoodMount(mnt')
    BY <1>1, InitCreatedKept, SocketPool_initKept, AttrCache_initKept, InitFailsKept,
       InitTermKept
    DEF Rhizofs_init
  <1>2. ASSUME \/ RhizoPriv_destroy("destroy_priv", "destroy_term")
               \/ RhizoPriv_destroy("main_priv", "main_term")
        PROVE  GoodMount(mnt')
    BY <1>2, PrivDestroyedKept
  <1>3. ASSUME MountStep PROVE GoodMount(mnt')
    BY <1>1, <1>2, <1>3, Rhizofs_runKept, PrivCreatedKept, ReadKeysKept, OpenPingKept,
       PingedKept, fuse_mainKept, StoppedKept, Rhizofs_destroyKept, DestroyTermKept,
       MainTermKept, ReturnKept
    DEF MountStep
  <1> QED
    BY <1>3, UnmountKept, BeginOperationKept, EndOperationKept, EndThreadKept
    DEF MountNext, ThreadStep

-----------------------------------------------------------------------------
(* Both programs.                                                          *)

LifeInv == ServerInv /\ GoodMount(mnt)

\* A server that has just been started, or never is, satisfies the invariant.
LEMMA ServerProcessGood ==
    ASSUME NEW auth \in BOOLEAN, NEW status \in {"none", "running"},
           srv = [ServerProcess(auth) EXCEPT !.status = status]
    PROVE  ServerInv
  <1>1. PICK pc \in [Threads -> Labels] :
           pc = [t \in Threads |-> IF t = Main THEN "main" ELSE "none"]
    BY LabelFacts
  <1>2. PICK mask \in [Threads -> SUBSET Signals] : mask = [t \in Threads |-> {}]
    OBVIOUS
  <1>3. PICK at \in [Threads -> 1 .. NWorkers + 1] : at = [t \in Threads |-> 1]
    BY ThreadNumbers
  <1>4. srv = [auth |-> auth, pc |-> pc, mask |-> mask, at |-> at,
               context |-> FALSE, ctx |-> "none", open |-> {}, stored |-> {},
               unsent |-> FALSE, workers |-> "null", ready |-> FALSE, joined |-> {},
               exit_code |-> "success", status |-> status, handlers |-> FALSE,
               sent |-> 0, happened |-> {}, undefined |-> FALSE]
    BY <1>1, <1>2, <1>3 DEF ServerProcess
  <1>5. {} \in Happenings /\ 0 \in 0 .. MaxSignals BY SignalsAssumption DEF Happenings
  <1>s. status \in {"none", "running", "success", "failure", "crash"} OBVIOUS
  <1>6. srv \in TypedProcess
    <2>1. [auth |-> auth, pc |-> pc, mask |-> mask, at |-> at,
           context |-> FALSE, ctx |-> "none", open |-> {}, stored |-> {},
           unsent |-> FALSE, workers |-> "null", ready |-> FALSE, joined |-> {},
           exit_code |-> "success", status |-> status, handlers |-> FALSE,
           sent |-> 0, happened |-> {}, undefined |-> FALSE] \in TypedProcess
      BY <1>5, <1>s DEF TypedProcess
    <2> QED BY <1>4, <2>1
  <1>7. /\ srv.pc[Main] = "main" /\ \A t \in Workers \cup {Auth} : srv.pc[t] = "none"
        /\ srv.mask[Main] = {} /\ srv.at[Main] = 1
    BY <1>1, <1>2, <1>3, <1>4, ThreadNumbers
  <1>8. Statuses BY <1>4, <1>7 DEF Statuses
  <1>9. Places /\ ContextPhase /\ AuthPhase
    BY <1>4, <1>7
    DEF Places, ContextPhase, AuthPhase, Early, Booting, Closing, After, ThreadLabels
  <1>10. SocketPhase BY <1>4, <1>7 DEF SocketPhase
  <1>11. WorkerPhase BY <1>4, <1>7 DEF WorkerPhase, Early, Booting, After
  <1> QED BY <1>4, <1>6, <1>8, <1>9, <1>10, <1>11 DEF ServerInv, Orderly

\* So does a mount.
LEMMA MountProcessGood ==
    ASSUME NEW asks \in BOOLEAN, NEW single \in BOOLEAN, NEW host \in {"null", "set"},
           \/ mnt = MountProcess(asks, single, host)
           \/ mnt = [MountProcess(asks, single, host) EXCEPT !.status = "none"]
    PROVE  GoodMount(mnt)
  <1>1. PICK ctx \in [{1, 2} -> Contexts] : ctx = [c \in {1, 2} |-> "none"]
    BY MountFacts
  <1>2. PICK status \in {"none", "running"} :
           mnt = [pc |-> "parse", asks |-> asks, single |-> single, host |-> host,
                  ctx |-> ctx, ping |-> FALSE, name |-> "null", key |-> "null",
                  table |-> "null", busy |-> {}, pooled |-> {}, cancelled |-> {},
                  reached |-> {}, misused |-> {}, rc |-> "success", status |-> status]
    <2>1. CASE mnt = MountProcess(asks, single, host)
      BY <1>1, <2>1 DEF MountProcess
    <2>2. CASE mnt = [MountProcess(asks, single, host) EXCEPT !.status = "none"]
      BY <1>1, <2>2 DEF MountProcess
    <2> QED BY <2>1, <2>2
  <1>3. mnt \in Mount
    <2>1. /\ "parse" \in MountLabels /\ host \in Heap /\ "null" \in Heap
          /\ "null" \in {"null", "zero", "set", "deleted"}
          /\ {} \in SUBSET (FuseThreads \cup {MountMain}) /\ {} \in SUBSET FuseThreads
          /\ {} \in SUBSET {"init", "no_init", "no_cache"}
          /\ {} \in SUBSET {"host", "name", "table", "context"}
          /\ "success" \in {"success", "failure"}
          /\ status \in {"none", "running", "success", "failure", "crash"}
      BY MountFacts
    <2>2. [pc |-> "parse", asks |-> asks, single |-> single, host |-> host,
           ctx |-> ctx, ping |-> FALSE, name |-> "null", key |-> "null",
           table |-> "null", busy |-> {}, pooled |-> {}, cancelled |-> {},
           reached |-> {}, misused |-> {}, rc |-> "success", status |-> status] \in Mount
      BY <2>1, Zenon DEF Mount
    <2> QED BY <1>2, <2>2
  <1>4. ctx[1] = "none" /\ ctx[2] = "none" BY <1>1
  <1>5. MountSockets(mnt) /\ TableFreed(mnt)
    BY <1>2, <1>4 DEF MountSockets, TableFreed, Session, Initing, Ending
  <1>6. RefusedClean(mnt) /\ Returned(mnt)
    BY <1>2, <1>4 DEF RefusedClean, Returned, Ending
  <1> QED BY <1>3, <1>5, <1>6 DEF GoodMount

\* The invariant of both programs holds in every state.
LEMMA LifeInductive == LifeSpec => []LifeInv
  <1>1. LifeInit => LifeInv
    <2>1. ASSUME NEW a \in BOOLEAN
          PROVE  ServerProcess(a) = [ServerProcess(a) EXCEPT !.status = "running"]
      BY DEF ServerProcess
    <2>3. ASSUME ServerInit PROVE ServerInv
      <3>1. PICK a \in BOOLEAN : srv = ServerProcess(a) BY <2>3 DEF ServerInit
      <3>2. srv = [ServerProcess(a) EXCEPT !.status = "running"] BY <2>1, <3>1
      <3> QED BY <3>2, ServerProcessGood
    <2>4. ASSUME MountInit PROVE GoodMount(mnt)
      <3>1. PICK a \in BOOLEAN, s \in BOOLEAN, h \in {"null", "set"} :
               mnt = MountProcess(a, s, h)
        BY <2>4 DEF MountInit
      <3> QED BY <3>1, MountProcessGood
    <2>5. ASSUME srv = [ServerProcess(FALSE) EXCEPT !.status = "none"] PROVE ServerInv
      BY <2>5, ServerProcessGood
    <2>6. ASSUME mnt = [MountProcess(FALSE, FALSE, "null") EXCEPT !.status = "none"]
          PROVE  GoodMount(mnt)
      BY <2>6, MountProcessGood
    <2> QED BY <2>3, <2>4, <2>5, <2>6 DEF LifeInit, LifeInv
  <1>2. LifeInv /\ [LifeNext]_<<srv, mnt>> => LifeInv'
    <2> SUFFICES ASSUME LifeInv, [LifeNext]_<<srv, mnt>> PROVE LifeInv'
      OBVIOUS
    <2>1. CASE ServerNext /\ UNCHANGED mnt
      BY <2>1, ServerStepKept DEF LifeInv
    <2>2. ASSUME UNCHANGED srv PROVE ServerInv'
      BY <2>2
      DEF LifeInv, ServerInv, Statuses, Mishap, Orderly, Places, ContextPhase,
          SocketPhase, WorkerPhase, AuthPhase
    <2>3. CASE MountNext /\ UNCHANGED srv
      BY <2>2, <2>3, MountStepKept DEF LifeInv
    <2>4. CASE UNCHANGED <<srv, mnt>>
      BY <2>2, <2>4 DEF LifeInv
    <2> QED BY <2>1, <2>3, <2>4 DEF LifeNext
  <1> QED BY <1>1, <1>2, PTL DEF LifeSpec

\* Type correctness: no loop of start-up or of shutdown (src/src/server/main.c) runs
\* past the array of the threads, whatever their number and however many signals come.
THEOREM LifeTypes == LifeSpec => []LifeTypeOK
  <1>1. LifeInv => LifeTypeOK
    BY ProcessIs DEF LifeInv, ServerInv, GoodMount, LifeTypeOK
  <1> QED BY <1>1, LifeInductive, PTL

\* Shutdown closes, terminates, joins and frees nothing twice and nothing that is not
\* there, unless one of the four mishaps came first.
THEOREM ShutdownsDefined == LifeSpec => []DefinedShutdown
  <1>1. LifeInv => DefinedShutdown
    BY DEF LifeInv, ServerInv, Orderly, DefinedShutdown
  <1> QED BY <1>1, LifeInductive, PTL

\* A server that ends without a mishap leaves no socket, no reply unsent, no context and no
\* thread that has not been joined; one whose start-up failed does not end with success, and only
\* one that checks keys crashes.
THEOREM ExitsOrderly == LifeSpec => []OrderlyExit
  <1>1. LifeInv => OrderlyExit
    <2> SUFFICES ASSUME ServerInv PROVE OrderlyExit
      BY DEF LifeInv
    <2>t. srv \in TypedProcess /\ Statuses BY DEF ServerInv
    <2>1. ASSUME srv.pc[Main] = "exit", ~ Mishap
          PROVE  /\ srv.open = {} /\ ~ srv.unsent /\ srv.ctx \in {"none", "freed"}
                 /\ \A t \in Threads \ {Main} : srv.pc[t] # "none" => t \in srv.joined
      <3>1. Orderly BY <2>1 DEF ServerInv
      <3>2. srv.ctx \in {"none", "freed"} /\ srv.open = {} /\ ~ srv.unsent
        BY <2>1, <3>1 DEF Orderly, ContextPhase, SocketPhase, After
      <3>3. srv.pc[Auth] # "none" => Auth \in srv.joined
        BY <2>1, <3>1 DEF Orderly, AuthPhase
      <3>4. ASSUME NEW w \in Workers, srv.pc[w] # "none" PROVE w \in srv.joined
        <4>1. srv.workers # "null" BY <3>1, <3>4 DEF Orderly, WorkerPhase
        <4>2. srv.at[Main] = NWorkers + 1 BY <2>1, <3>1, <4>1 DEF Orderly, WorkerPhase
        <4>3. w < NWorkers + 1 BY ThreadNumbers DEF Workers
        <4> QED BY <2>1, <3>1, <4>2, <4>3 DEF Orderly, WorkerPhase, After
      <3> QED BY <3>2, <3>3, <3>4, ThreadNumbers
    <2>2. srv.status = "success" => "failed" \notin srv.happened
      BY <2>t DEF Statuses
    <2>3. srv.status = "crash" => srv.auth BY <2>t DEF Statuses
    <2> QED BY <2>1, <2>2, <2>3 DEF OrderlyExit
  <1> QED BY <1>1, LifeInductive, PTL

\* A mount that returns leaves no context and no socket, frees the table of the cache
\* twice only if AttrCache_init failed, and frees nothing twice if it was refused.
THEOREM UnmountsOrderly == LifeSpec => []OrderlyUnmount
  <1>1. LifeInv => OrderlyUnmount
    BY DEF LifeInv, GoodMount, Returned, OrderlyUnmount
  <1> QED BY <1>1, LifeInductive, PTL
=============================================================================
