----------------------------- MODULE ServerMain -----------------------------
(***************************************************************************)
(* The life of a server process (src/src/server/main.c): start-up of the   *)
(* context, the sockets and the threads, the workers' and the ZAP thread's *)
(* routines, and shutdown, which runs as a signal handler on whatever      *)
(* thread the signal interrupts and never returns.                         *)
(*                                                                         *)
(* A step is a call of the 0mq or the thread library or an assignment to a *)
(* static variable, so that a signal comes between a call and the          *)
(* assignment of its result.  Closing, joining or freeing twice, joining a *)
(* thread that was never created and using a context that is gone are      *)
(* undefined behaviour: "undefined" records it and nothing is modelled     *)
(* afterwards.                                                             *)
(***************************************************************************)
EXTENDS Integers

CONSTANTS
    NWorkers,   \* settings.n_worker_threads
    MaxSignals  \* bound on the signals a process gets

\* -n is refused unless it is between 1 and MAX_N_WORKER_THREADS
ASSUME WorkersAssumption == NWorkers \in 1 .. 200
ASSUME SignalsAssumption == MaxSignals \in Nat

Main    == 0
Workers == 1 .. NWorkers
Auth    == NWorkers + 1
Threads == Main .. Auth

\* a worker's and the ZAP thread's socket has the number of its thread
InSocket     == -1
WorkerSocket == -2
Sockets      == {InSocket, WorkerSocket} \cup Workers \cup {Auth}

Signals == {"TERM", "INT"}

VARIABLE srv  \* the process

StartupLabels == {"main", "context", "auth", "auth_wait", "in_socket", "in_store",
                  "bind", "worker_socket", "worker_store", "workers", "create",
                  "device", "error"}
ShutdownLabels == {"close_in", "null_in", "close_worker", "null_worker", "term",
                   "terminating", "null_context", "join", "free", "join_auth", "exit"}
ThreadLabels == {"none", "begin", "socket", "connect", "serve", "close", "ended"}

Process ==
    [auth      : BOOLEAN,       \* settings.authorized_keys_file is set
     pc        : [Threads -> StartupLabels \cup ShutdownLabels \cup ThreadLabels],
     mask      : [Threads -> SUBSET Signals],        \* the signals a thread blocks
     at        : [Threads -> 1 .. NWorkers + 1],     \* t in startup and in shutdown
     context   : BOOLEAN,       \* the static variable is not NULL
     ctx       : {"none", "open", "terminating", "freed"},  \* the 0mq context itself
     open      : SUBSET Sockets,                     \* the open 0mq sockets
     stored    : SUBSET {InSocket, WorkerSocket},    \* static variables, not NULL
     unsent    : BOOLEAN,       \* in_socket has replies that a client does not take
     workers   : {"null", "allocated", "freed"},     \* the array of threads
     ready     : BOOLEAN,       \* authentication_ready_flag
     joined    : SUBSET Threads,
     exit_code : {"success", "failure"},
     status    : {"none", "running", "success", "failure", "crash"},  \* of the process
     handlers  : BOOLEAN,       \* the signal handlers are installed
     sent      : 0 .. MaxSignals,                    \* signals so far
     happened  : SUBSET {"early", "again", "no_thread", "late_auth", "failed"},
     undefined : BOOLEAN]

ServerProcess(auth) ==
    [auth |-> auth,
     pc |-> [t \in Threads |-> IF t = Main THEN "main" ELSE "none"],
     mask |-> [t \in Threads |-> {}], at |-> [t \in Threads |-> 1],
     context |-> FALSE, ctx |-> "none", open |-> {}, stored |-> {},
     unsent |-> FALSE, workers |-> "null", ready |-> FALSE, joined |-> {}, exit_code |-> "success",
     status |-> "running", handlers |-> FALSE, sent |-> 0, happened |-> {},
     undefined |-> FALSE]

ServerInit == \E auth \in BOOLEAN : srv = ServerProcess(auth)

Alive == ~ srv.undefined /\ srv.status = "running"

At(t, label) == Alive /\ srv.pc[t] = label

Goto(t, label) == srv' = [srv EXCEPT !.pc[t] = label]

Undefined == srv' = [srv EXCEPT !.undefined = TRUE]

InShutdown == \E t \in Threads : srv.pc[t] \in ShutdownLabels

\* the queue is set up, and every worker that was created has its socket or ended
InService ==
    /\ srv.pc[Main] = "device"
    /\ \A w \in Workers : srv.pc[w] \in {"none", "serve", "close", "ended"}

-----------------------------------------------------------------------------
(* main and startup, which run on the main thread.                         *)

\* main: options, keys and daemonize.  A wrong option, or one that only asks for
\* help, calls shutdown with exit_code as it is; a key file that cannot be read
\* ends the process with the variable exit_code of main, fork and setsid with the
\* static one.
main ==
    /\ At(Main, "main")
    /\ \/ Goto(Main, "context")
       \/ Goto(Main, "close_in")
       \/ srv' = [srv EXCEPT !.status = "failure"]
       \/ srv' = [srv EXCEPT !.exit_code = "failure", !.pc[Main] = "close_in"]

Fails == Goto(Main, "error")

\* zmq_ctx_new and the handlers
CreateContext ==
    /\ At(Main, "context")
    /\ \/ Fails
       \/ srv' = [srv EXCEPT !.context = TRUE, !.ctx = "open", !.handlers = TRUE,
                             !.pc[Main] = "auth"]

\* nobody looks at the result of pthread_create
StartAuth ==
    /\ At(Main, "auth")
    /\ IF ~ srv.auth THEN Goto(Main, "in_socket")
       ELSE \/ srv' = [srv EXCEPT !.pc[Main] = "auth_wait", !.pc[Auth] = "begin"]
            \/ srv' = [srv EXCEPT !.pc[Main] = "auth_wait",
                                  !.happened = @ \cup {"no_thread"}]

\* the flag is polled for a second
AwaitAuth ==
    /\ At(Main, "auth_wait")
    /\ IF srv.ready THEN Goto(Main, "in_socket")
       ELSE srv' = [srv EXCEPT !.pc[Main] = "error",
                               !.happened = IF srv.pc[Auth] \in {"none", "ended"}
                                              THEN @ ELSE @ \cup {"late_auth"}]

\* zmq_socket on the main thread; its result is not yet stored
CreateSocket(label, s, then) ==
    /\ At(Main, label)
    /\ \/ Fails
       \/ srv' = [srv EXCEPT !.open = @ \cup {s}, !.pc[Main] = then]

StoreSocket(label, s, then) ==
    /\ At(Main, label)
    /\ srv' = [srv EXCEPT !.stored = @ \cup {s}, !.pc[Main] = then]

\* zmq_bind to the address of the command line
Bind ==
    /\ At(Main, "bind")
    /\ Fails \/ Goto(Main, "worker_socket")

\* zmq_bind to WORKER_SOCKET, and calloc
AllocateWorkers ==
    /\ At(Main, "workers")
    /\ \/ Fails
       \/ srv' = [srv EXCEPT !.workers = "allocated", !.pc[Main] = "create"]

\* mutant: the loop creates one thread too many
CreateWorker_OneMore ==
    /\ At(Main, "create")
    /\ IF srv.at[Main] > NWorkers + 1 THEN Goto(Main, "device")
       ELSE srv' = [srv EXCEPT !.at[Main] = @ + 1, !.pc[srv.at[Main]] = "begin"]

\* nor here
CreateWorker ==
    /\ At(Main, "create")
    /\ LET t == srv.at[Main] IN
       IF t > NWorkers THEN Goto(Main, "device")
       ELSE \/ srv' = [srv EXCEPT !.at[Main] = t + 1, !.pc[t] = "begin"]
            \/ srv' = [srv EXCEPT !.at[Main] = t + 1, !.happened = @ \cup {"no_thread"}]

\* zmq_device returns only after an error, if at all
Device ==
    /\ At(Main, "device")
    /\ \E label \in {"error", "close_in"} :
         srv' = [srv EXCEPT !.pc[Main] = label, !.at[Main] = 1,
                            !.happened = IF InService THEN @ ELSE @ \cup {"early"}]

\* the error label of startup
Error ==
    /\ At(Main, "error")
    /\ srv' = [srv EXCEPT !.exit_code = "failure", !.happened = @ \cup {"failed"},
                          !.pc[Main] = "close_in"]

startup ==
    \/ CreateContext \/ StartAuth \/ AwaitAuth
    \/ CreateSocket("in_socket", InSocket, "in_store")
    \/ StoreSocket("in_store", InSocket, "bind")
    \/ Bind
    \/ CreateSocket("worker_socket", WorkerSocket, "worker_store")
    \/ StoreSocket("worker_store", WorkerSocket, "workers")
    \/ AllocateWorkers \/ CreateWorker \/ Error

-----------------------------------------------------------------------------
(* shutdown, on thread t.                                                  *)

\* mutant: the socket to the workers is left to zmq_term
CloseStored_OnlyIn(t, label, s, reset, otherwise) ==
    /\ At(t, label)
    /\ IF s = InSocket /\ s \in srv.stored
         THEN srv' = [srv EXCEPT !.open = @ \ {s}, !.pc[t] = reset]
         ELSE Goto(t, otherwise)

\* zmq_close of a socket in a static variable, which is then set to NULL
CloseStored(t, label, s, reset, otherwise) ==
    /\ At(t, label)
    /\ IF s \notin srv.stored THEN Goto(t, otherwise)
       ELSE IF s \notin srv.open THEN Undefined
       ELSE srv' = [srv EXCEPT !.open = @ \ {s}, !.pc[t] = reset]

ResetStored(t, label, s, then) ==
    /\ At(t, label)
    /\ srv' = [srv EXCEPT !.stored = @ \ {s}, !.pc[t] = then]

\* zmq_term is called
Term(t) ==
    /\ At(t, "term")
    /\ IF ~ srv.context THEN Goto(t, "join")
       ELSE IF srv.ctx = "freed" THEN Undefined
       ELSE srv' = [srv EXCEPT !.ctx = "terminating", !.pc[t] = "terminating"]

\* mutant: the sockets of the workers are not waited for
TermReturns_AtOnce(t) ==
    /\ At(t, "terminating")
    /\ srv.open \subseteq Workers /\ ~ srv.unsent
    /\ srv' = [srv EXCEPT !.ctx = "freed", !.pc[t] = "null_context"]

\* It returns when every socket of the context has been closed and, as in_socket
\* lingers without limit, every reply has been sent.  Two calls that wait for the
\* same context both free it.
TermReturns(t) ==
    /\ At(t, "terminating")
    /\ srv.open = {} /\ ~ srv.unsent
    /\ IF \E u \in Threads \ {t} : srv.pc[u] = "terminating" THEN Undefined
       ELSE srv' = [srv EXCEPT !.ctx = "freed", !.pc[t] = "null_context"]

ResetContext(t) ==
    /\ At(t, "null_context")
    /\ srv' = [srv EXCEPT !.context = FALSE, !.pc[t] = "join"]

\* mutant: the threads are not waited for
Join_Skip(t) ==
    /\ At(t, "join")
    /\ Goto(t, IF srv.workers = "null" THEN "join_auth" ELSE "free")

\* pthread_join returns at once with an error if it is called for the caller
Join(t) ==
    /\ At(t, "join")
    /\ LET w == srv.at[t] IN
       IF srv.workers = "null" THEN Goto(t, "join_auth")
       ELSE IF w > NWorkers THEN Goto(t, "free")
       ELSE IF srv.pc[w] = "none" \/ w \in srv.joined THEN Undefined
       ELSE /\ srv.pc[w] = "ended" \/ w = t
            /\ srv' = [srv EXCEPT !.joined = IF w = t THEN @ ELSE @ \cup {w},
                                  !.at[t] = w + 1]

\* the variable keeps the address
FreeWorkers(t) ==
    /\ At(t, "free")
    /\ IF srv.workers = "freed" THEN Undefined
       ELSE srv' = [srv EXCEPT !.workers = "freed", !.pc[t] = "join_auth"]

\* a pthread_create that failed may have stored something in auth_thread
JoinAuth(t) ==
    /\ At(t, "join_auth")
    /\ IF srv.pc[Auth] = "none"
         THEN Goto(t, "exit") \/ (srv.auth /\ "no_thread" \in srv.happened /\ Undefined)
       ELSE IF Auth \in srv.joined THEN Undefined
       ELSE /\ srv.pc[Auth] = "ended" \/ t = Auth
            /\ srv' = [srv EXCEPT !.joined = IF t = Auth THEN @ ELSE @ \cup {Auth},
                                  !.pc[t] = "exit"]

Exit(t) ==
    /\ At(t, "exit")
    /\ srv' = [srv EXCEPT !.status = srv.exit_code]

shutdown(t) ==
    \/ CloseStored(t, "close_in", InSocket, "null_in", "close_worker")
    \/ ResetStored(t, "null_in", InSocket, "close_worker")
    \/ CloseStored(t, "close_worker", WorkerSocket, "null_worker", "term")
    \/ ResetStored(t, "null_worker", WorkerSocket, "term")
    \/ Term(t) \/ TermReturns(t) \/ ResetContext(t)
    \/ Join(t) \/ FreeWorkers(t) \/ JoinAuth(t) \/ Exit(t)

-----------------------------------------------------------------------------
(* The threads' own routines.                                              *)

\* ServeDir_create of a worker: the directory, and the argument context
ServeDir_create(w) ==
    /\ At(w, "begin")
    /\ \/ srv.context /\ Goto(w, "socket")
       \/ Goto(w, "ended")

\* zmq_socket with a context that was valid when the argument was passed
OpenSocket(t, label) ==
    /\ At(t, label)
    /\ IF srv.ctx = "freed" THEN Undefined
       ELSE \/ Goto(t, "ended")
            \/ /\ srv.ctx = "open"
               /\ srv' = [srv EXCEPT !.open = @ \cup {t}, !.pc[t] = "connect"]

\* zmq_connect of a worker, zmq_bind of the ZAP thread; the context is there as
\* long as the socket is
Connect(t) ==
    /\ At(t, "connect")
    /\ \/ srv' = [srv EXCEPT !.open = @ \ {t}, !.pc[t] = "ended"]
       \/ /\ srv.ctx = "open"
          /\ srv' = [srv EXCEPT !.pc[t] = "serve", !.ready = @ \/ t = Auth]

\* ServeDir_serve returns with ETERM
LeaveLoop(w) ==
    /\ At(w, "serve")
    /\ srv.ctx # "open"
    /\ IF srv.ctx = "freed" THEN Undefined ELSE Goto(w, "close")

\* or after an error
Fault(w) ==
    /\ At(w, "serve")
    /\ Goto(w, "close")

\* ServeDir_destroy closes the worker's socket
ServeDir_destroy(w) ==
    /\ At(w, "close")
    /\ IF srv.ctx = "freed" THEN Undefined
       ELSE srv' = [srv EXCEPT !.open = @ \ {w}, !.pc[w] = "ended"]

worker_routine(w) ==
    \/ ServeDir_create(w) \/ OpenSocket(w, "socket") \/ Connect(w)
    \/ LeaveLoop(w) \/ ServeDir_destroy(w)

\* receive_string returns NULL when the context is terminated, and the string is
\* compared all the same
AuthCrashes ==
    /\ At(Auth, "serve")
    /\ srv.ctx = "terminating"
    /\ srv' = [srv EXCEPT !.status = "crash"]

auth_routine == OpenSocket(Auth, "begin") \/ Connect(Auth) \/ AuthCrashes

-----------------------------------------------------------------------------
(* The clients.  A reply that passed the queue stays in in_socket, and     *)
(* outlives its zmq_close, until the client takes it or goes away.         *)

ReplyStuck ==
    /\ At(Main, "device") /\ InSocket \in srv.open
    /\ \E w \in Workers : srv.pc[w] = "serve"
    /\ ~ srv.unsent
    /\ srv' = [srv EXCEPT !.unsent = TRUE]

\* nothing forces a client to do so
ReplyTaken ==
    /\ Alive /\ srv.unsent
    /\ srv' = [srv EXCEPT !.unsent = FALSE]

-----------------------------------------------------------------------------
(* Signals.  The kernel prefers the main thread.  A handler blocks its own *)
(* signal on its own thread, and never returns.                            *)

Interrupted(t, sig) ==
    /\ Alive /\ srv.handlers
    /\ srv.sent < MaxSignals
    /\ srv.pc[t] \notin {"none", "ended"} /\ sig \notin srv.mask[t]
    /\ t # Main => sig \in srv.mask[Main]
    /\ srv' = [srv EXCEPT !.sent = @ + 1, !.mask[t] = @ \cup {sig},
                          !.pc[t] = "close_in", !.at[t] = 1,
                          !.happened = @ \cup (IF InShutdown THEN {"again"}
                                               ELSE IF ~ InService THEN {"early"}
                                               ELSE {})]

\* what a thread does by itself: nothing forces a signal, or an error in the queue
\* or in a worker's loop
Step(t) ==
    \/ t = Main /\ (main \/ startup)
    \/ t \in Workers /\ worker_routine(t)
    \/ t = Auth /\ auth_routine
    \/ shutdown(t)

ServerNext ==
    \/ \E t \in Threads : Step(t) \/ \E sig \in Signals : Interrupted(t, sig)
    \/ Device \/ ReplyStuck \/ ReplyTaken
    \/ \E w \in Workers : Fault(w)

ServerFair == \A t \in Threads : WF_srv(Step(t))

-----------------------------------------------------------------------------
(* Properties.                                                             *)

Mishap == srv.happened \cap {"early", "again", "no_thread", "late_auth"} # {}

\* Behaviour is undefined only after a signal, or an error of the queue, before
\* every worker has started, after a signal during another shutdown, or after a
\* thread could not be created or came too late.
DefinedShutdown == srv.undefined => Mishap

\* Otherwise every shutdown ends the process, whatever the workers are doing:
\* zmq_term and the joins wait for ever only if a client that stays connected never
\* takes a reply that is queued for it.
ShutdownEnds ==
    InShutdown ~> srv.status # "running" \/ Mishap \/ []srv.unsent

\* The exit is orderly: no socket is open, no reply is left unsent, the context is
\* gone and every thread has been joined, wherever start-up failed or the signal came; a process whose
\* start-up failed says so with its status, and only the ZAP thread crashes.
OrderlyExit ==
    /\ srv.status = srv.exit_code /\ srv.pc[Main] = "exit" /\ ~ Mishap =>
          /\ srv.open = {} /\ ~ srv.unsent
          /\ srv.ctx \in {"none", "freed"}
          /\ \A t \in Threads \ {Main} : srv.pc[t] # "none" => t \in srv.joined
    /\ srv.status = "success" => "failed" \notin srv.happened
    /\ srv.status = "crash" => srv.auth
=============================================================================
