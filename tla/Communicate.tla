---------------------------- MODULE Communicate ----------------------------
(***************************************************************************)
(* The request/response exchange between the fuse client and the server:   *)
(* Rhizofs_communicate and Rhizofs_check_connection (src/src/fs/rhizofs.c), *)
(* the per-thread socket pool (src/src/fs/socketpool.c), the worker loop   *)
(* ServeDir_serve (src/src/server/servedir.c), and, as externals, the 0mq  *)
(* REQ sockets and the ROUTER/DEALER/REP path between them.                *)
(*                                                                         *)
(* A call of Rhizofs_communicate is named by the number of its request.    *)
(* A socket is named by the number of the call that created it, as a call  *)
(* creates at most one.  0 stands for NULL.                                *)
(***************************************************************************)
EXTENDS Naturals, FiniteSets

CONSTANTS
    Thread,      \* the fuse worker threads of the mounted client
    Main,        \* the thread that runs Rhizofs_check_connection
    Worker,      \* the worker threads of the server
    MaxRequest,  \* bound on the number of calls
    SendRepeat   \* failed sends after which settings.timeout has passed

ASSUME MainAssumption   == Main \notin Thread
ASSUME BoundsAssumption == MaxRequest \in Nat /\ SendRepeat \in Nat \ {0}

Caller == Thread \cup {Main}
Req    == 1 .. MaxRequest
Sock   == Req
Null   == 0

-----------------------------------------------------------------------------
(* errno values: what a system call sets, what travels, what is returned.   *)

\* Local errno values of server system calls: EINVAL (readlink of what is no
\* link, rename into the own subtree) is also what the client makes of a refused
\* request, ENOENT stands for the other rows of errno_map, ELOOP has no row.
OpErrno == {"0", "ENOENT", "EINVAL", "ELOOP"}

ProtoErrno == {"NONE", "NOENT", "INVAL", "UNKNOWN", "INVALID_REQUEST",
               "UNSERIALIZABLE"}

Errno_from_local(e) ==
    CASE e = "0"      -> "NONE"
      [] e = "ENOENT" -> "NOENT"
      [] e = "EINVAL" -> "INVAL"
      [] OTHER        -> "UNKNOWN"

ErrnoToLocalMap ==
    [NONE |-> "0", NOENT |-> "ENOENT", INVAL |-> "EINVAL", UNKNOWN |-> "EIO",
     INVALID_REQUEST |-> "EINVAL", UNSERIALIZABLE |-> "EIO"]

Errno_to_local(p) == ErrnoToLocalMap[p]

\* errno as zmq_poll leaves it when it expires or fails: whatever the last
\* library call set, 0 included
PollErrno == {"0", "EAGAIN", "EINTR"}

ClientErrno == {"0", "ENOENT", "EIO", "EINVAL", "EAGAIN", "EINTR",
                "ENOTSOCK", "ENOMEM", "EFAULT"}

-----------------------------------------------------------------------------
VARIABLES
    client,     \* "connecting" (ping), "mounted", "exited" or "crashed"
    nreq,       \* calls begun so far
    tsd,        \* tsd[t]: the socket stored under the pool's pthread key
    sockState,  \* state of each REQ socket
    pc,         \* pc[c]: where caller c is in Rhizofs_communicate
    req,        \* req[c]: the call c is executing, or executed last
    sock,       \* sock[c]: the local variable "sock"
    reps,       \* reps[c]: the local variable "repetition"
    wire,       \* requests sent and not yet received by a worker
    replies,    \* replies on their way to, or queued at, an open socket
    worker,     \* worker[w]: the state of server worker w
    handled,    \* handled[r]: times a handler executed request r
    outcome,    \* outcome[r]: what the last handler did with r
    err,        \* err[r]: *err when call r returned, "pending" before
    resp        \* resp[r]: the request whose response call r returned

clientVars == <<client, nreq, tsd, sockState, pc, req, sock, reps>>
serverVars == <<worker, handled, outcome>>
vars == <<clientVars, wire, replies, serverVars, err, resp>>

Message == [req : Req, sock : Sock]
Reply   == [req : Req, sock : Sock, errno : ProtoErrno]

IdleWorker == [st |-> "idle"]
DeadWorker == [st |-> "dead"]
BusyWorker == [st : {"received"}, req : Req, sock : Sock]
DoneWorker == [st : {"handled"}, req : Req, sock : Sock, errno : ProtoErrno]
WorkerState == {IdleWorker, DeadWorker} \cup BusyWorker \cup DoneWorker

Outcome == {"none", "done", "failed", "refused", "aborted", "unserializable"}

\* the handler came to make its system call
Executed == {"done", "failed"}

TypeOK ==
    /\ client \in {"connecting", "mounted", "exited", "crashed"}
    /\ nreq \in 0 .. MaxRequest
    /\ tsd \in [Thread -> Sock \cup {Null}]
    /\ sockState \in [Sock -> {"none", "ready", "awaiting", "closed"}]
    /\ pc \in [Caller -> {"idle", "pack", "send", "sent", "poll"}]
    /\ req \in [Caller -> Req \cup {0}]
    /\ sock \in [Caller -> Sock \cup {Null}]
    /\ reps \in [Caller -> 0 .. SendRepeat]
    /\ wire \subseteq Message
    /\ replies \subseteq Reply
    /\ worker \in [Worker -> WorkerState]
    /\ handled \in [Req -> Nat]
    /\ outcome \in [Req -> Outcome]
    /\ err \in [Req -> ClientErrno \cup {"pending"}]
    /\ resp \in [Req -> Req \cup {Null}]

\* ServeDir_create may fail when a worker thread starts
Init ==
    /\ client = "connecting"
    /\ nreq = 0
    /\ tsd = [t \in Thread |-> Null]
    /\ sockState = [s \in Sock |-> "none"]
    /\ pc = [c \in Caller |-> "idle"]
    /\ req = [c \in Caller |-> 0]
    /\ sock = [c \in Caller |-> Null]
    /\ reps = [c \in Caller |-> 0]
    /\ wire = {}
    /\ replies = {}
    /\ worker \in [Worker -> {IdleWorker, DeadWorker}]
    /\ handled = [r \in Req |-> 0]
    /\ outcome = [r \in Req |-> "none"]
    /\ err = [r \in Req |-> "pending"]
    /\ resp = [r \in Req |-> Null]

-----------------------------------------------------------------------------
(* Sockets.                                                                *)

Open(s) == sockState[s] \in {"ready", "awaiting"}

\* zmq_close with ZMQ_LINGER 0: nothing is delivered to the socket any more
Close(s) ==
    /\ sockState' = [sockState EXCEPT ![s] = "closed"]
    /\ replies' = {m \in replies : m.sock # s}

\* a new call takes the next request number
TakeNumber(c) ==
    /\ nreq < MaxRequest
    /\ nreq' = nreq + 1
    /\ req' = [req EXCEPT ![c] = nreq + 1]

\* SocketPool_get_socket found the thread's socket
GetPooledSocket(t) ==
    /\ tsd[t] # Null
    /\ sock' = [sock EXCEPT ![t] = tsd[t]]
    /\ UNCHANGED <<tsd, sockState>>

\* SocketPool_get_socket created, connected and stored a socket
GetNewSocket(t) ==
    /\ tsd[t] = Null
    /\ sockState' = [sockState EXCEPT ![nreq + 1] = "ready"]
    /\ sock' = [sock EXCEPT ![t] = nreq + 1]
    /\ tsd' = [tsd EXCEPT ![t] = nreq + 1]

\* mutant: the slot is cleared without zmq_close
SocketPool_renew_socket_NoClose(t) ==
    /\ tsd[t] # Null
    /\ tsd' = [tsd EXCEPT ![t] = Null]
    /\ UNCHANGED <<sockState, replies>>

\* SocketPool_renew_socket: close the thread's socket, clear the thread's slot
SocketPool_renew_socket(t) ==
    /\ tsd[t] # Null
    /\ Close(tsd[t])
    /\ tsd' = [tsd EXCEPT ![t] = Null]

KeepSocket == UNCHANGED <<tsd, sockState, replies>>

-----------------------------------------------------------------------------
(* Rhizofs_communicate, called by an operation on a thread of the mount,   *)
(* or by Rhizofs_check_connection on Main.                                 *)

Running(c) == client = IF c = Main THEN "connecting" ELSE "mounted"

At(c, label) == Running(c) /\ pc[c] = label

\* What the caller does with the call's end.  check_connection closes its own
\* socket on both paths; a failed ping ends the program before fuse_main.
\* "Renew" is the step of the error label on the pool's socket.
CallEnds(c, e, Renew) ==
    /\ pc' = [pc EXCEPT ![c] = "idle"]
    /\ err' = [err EXCEPT ![req[c]] = e]
    /\ IF c = Main
         THEN /\ Close(sock[c])
              /\ client' = IF e = "0" /\ resp'[req[c]] # Null
                             THEN "mounted" ELSE "exited"
              /\ UNCHANGED tsd
         ELSE Renew /\ UNCHANGED client

\* the error label, with and without renew_socket
FailRenew(c, e) ==
    /\ UNCHANGED resp
    /\ CallEnds(c, e, SocketPool_renew_socket(c))

FailKeep(c, e) ==
    /\ UNCHANGED resp
    /\ CallEnds(c, e, KeepSocket)

Begin(t) ==
    /\ At(t, "idle")
    /\ TakeNumber(t)
    /\ GetPooledSocket(t) \/ GetNewSocket(t)
    /\ pc' = [pc EXCEPT ![t] = "pack"]
    /\ UNCHANGED <<client, reps, wire, replies, serverVars, err, resp>>

\* no socket: ENOTSOCK, and the two message structs closed at the error label
\* were never initialised (see UninitialisedClose)
BeginNoSocket(t) ==
    /\ At(t, "idle")
    /\ tsd[t] = Null
    /\ TakeNumber(t)
    /\ err' = [err EXCEPT ![nreq + 1] = "ENOTSOCK"]
    /\ UNCHANGED <<client, tsd, sockState, pc, sock, reps, wire, replies,
                   serverVars, resp>>

\* Rhizofs_check_connection creates its own socket and sends a ping
BeginPing ==
    /\ At(Main, "idle")
    /\ TakeNumber(Main)
    /\ sockState' = [sockState EXCEPT ![nreq + 1] = "ready"]
    /\ sock' = [sock EXCEPT ![Main] = nreq + 1]
    /\ pc' = [pc EXCEPT ![Main] = "pack"]
    /\ UNCHANGED <<client, tsd, reps, wire, replies, serverVars, err, resp>>

\* ... or cannot, and the program ends without mounting
PingNoSocket ==
    /\ At(Main, "idle")
    /\ client' = "exited"
    /\ UNCHANGED <<nreq, tsd, sockState, pc, req, sock, reps, wire, replies,
                   serverVars, err, resp>>

Pack(c) ==
    /\ At(c, "pack")
    /\ pc' = [pc EXCEPT ![c] = "send"]
    /\ reps' = [reps EXCEPT ![c] = 0]
    /\ UNCHANGED <<client, nreq, tsd, sockState, req, sock, wire, replies,
                   serverVars, err, resp>>

\* Request_pack failed: its check macro has already reset errno to 0, which
\* only the zmq_msg_close that follows may set again
PackFails(c) ==
    /\ At(c, "pack")
    /\ \E e \in {"0", "EFAULT"} : FailKeep(c, e)
    /\ UNCHANGED <<nreq, req, sock, reps, wire, serverVars>>

\* zmq_msg_send on a REQ socket that may send
SendOk(c) ==
    /\ At(c, "send")
    /\ sockState[sock[c]] = "ready"
    /\ wire' = wire \cup {[req |-> req[c], sock |-> sock[c]]}
    /\ sockState' = [sockState EXCEPT ![sock[c]] = "awaiting"]
    /\ pc' = [pc EXCEPT ![c] = "sent"]
    /\ UNCHANGED <<client, nreq, tsd, req, sock, reps, replies, serverVars,
                   err, resp>>

\* mutant: the send loop repeats without looking at the time it has waited
SendAgain_NoTimeout(c) ==
    /\ At(c, "send")
    /\ reps' = [reps EXCEPT ![c] = reps[c] + 1]
    /\ UNCHANGED <<client, nreq, tsd, sockState, pc, req, sock, wire, replies,
                   serverVars, err, resp>>

\* EAGAIN, or EFSM from a socket whose reply is outstanding: sleep and repeat
SendAgain(c) ==
    /\ At(c, "send")
    /\ reps[c] + 1 < SendRepeat
    /\ reps' = [reps EXCEPT ![c] = reps[c] + 1]
    /\ UNCHANGED <<client, nreq, tsd, sockState, pc, req, sock, wire, replies,
                   serverVars, err, resp>>

SendTimesOut(c) ==
    /\ At(c, "send")
    /\ reps[c] + 1 >= SendRepeat
    /\ FailRenew(c, "EAGAIN")
    /\ UNCHANGED <<nreq, req, sock, reps, wire, serverVars>>

\* only with check_fuse_interrupts, which check_connection does not set
SendInterrupted(t) ==
    /\ At(t, "send")
    /\ FailRenew(t, "EINTR")
    /\ UNCHANGED <<nreq, req, sock, reps, wire, serverVars>>

\* any other errno of zmq_msg_send: renew_socket is cleared again
SendFails(c) ==
    /\ At(c, "send")
    /\ FailKeep(c, "EIO")
    /\ UNCHANGED <<nreq, req, sock, reps, wire, serverVars>>

\* The error label closes msg_resp, and before Request_pack msg_req, without
\* their having been initialised: zmq_msg_close may find a harmless value and
\* return EFAULT (the other actions), or bring the process down.
UninitialisedClose(c) ==
    /\ Running(c)
    /\ \/ pc[c] \in {"pack", "send"}
       \/ c # Main /\ pc[c] = "idle" /\ tsd[c] = Null
    /\ client' = "crashed"
    /\ UNCHANGED <<nreq, tsd, sockState, pc, req, sock, reps, wire, replies,
                   serverVars, err, resp>>

\* zmq_msg_init of msg_resp, after which the thread waits in zmq_poll
InitResp(c) ==
    /\ At(c, "sent")
    /\ pc' = [pc EXCEPT ![c] = "poll"]
    /\ UNCHANGED <<client, nreq, tsd, sockState, req, sock, reps, wire,
                   replies, serverVars, err, resp>>

\* mutant: the failure is taken for one that happened before the send
InitRespFails_Keep(c) ==
    /\ At(c, "sent")
    /\ FailKeep(c, "ENOMEM")
    /\ UNCHANGED <<nreq, req, sock, reps, wire, serverVars>>

\* zmq_msg_init of msg_resp failed
InitRespFails(c) ==
    /\ At(c, "sent")
    /\ FailRenew(c, "ENOMEM")
    /\ UNCHANGED <<nreq, req, sock, reps, wire, serverVars>>

\* zmq_poll reports a reply, zmq_msg_recv and Response_from_message succeed
PollReply(c) ==
    /\ At(c, "poll")
    /\ \E m \in replies :
         /\ m.sock = sock[c]
         /\ resp' = [resp EXCEPT ![req[c]] = m.req]
         /\ CallEnds(c, Errno_to_local(m.errno),
                     /\ replies' = replies \ {m}
                     /\ sockState' = [sockState EXCEPT ![sock[c]] = "ready"]
                     /\ UNCHANGED tsd)
    /\ UNCHANGED <<nreq, req, sock, reps, wire, serverVars>>

\* zmq_poll reports a reply that cannot be received or unpacked
RecvFails(c) ==
    /\ At(c, "poll")
    /\ \E m \in replies : m.sock = sock[c]
    /\ FailRenew(c, "EIO")
    /\ UNCHANGED <<nreq, req, sock, reps, wire, serverVars>>

\* mutant: the socket is kept after the timeout
PollExpires_Keep(c) ==
    /\ At(c, "poll")
    /\ FailKeep(c, "EIO")
    /\ UNCHANGED <<nreq, req, sock, reps, wire, serverVars>>

\* mutant: the request is sent again after the timeout
PollExpires_Resend(c) ==
    /\ At(c, "poll")
    /\ wire' = wire \cup {[req |-> req[c], sock |-> sock[c]]}
    /\ UNCHANGED <<clientVars, replies, serverVars, err, resp>>

\* mutant: zmq_poll without a timeout
PollExpires_Never(c) ==
    /\ At(c, "poll")
    /\ \E m \in replies : m.sock = sock[c]
    /\ FailRenew(c, "EIO")
    /\ UNCHANGED <<nreq, req, sock, reps, wire, serverVars>>

\* mutant: whatever errno is left over is returned, 0 too
PollExpires_AnyErrno(c) ==
    /\ At(c, "poll")
    /\ \E e \in PollErrno : FailRenew(c, e)
    /\ UNCHANGED <<nreq, req, sock, reps, wire, serverVars>>

\* zmq_poll expired or failed: the errno it left, EIO for 0; EINTR when fuse
\* reports an interrupt
PollExpires(c) ==
    /\ At(c, "poll")
    /\ \E e \in PollErrno :
         FailRenew(c, IF e = "0" THEN "EIO" ELSE e)
    /\ UNCHANGED <<nreq, req, sock, reps, wire, serverVars>>

\* libfuse ends an idle worker thread: the key's destructor closes the socket
ThreadExits(t) ==
    /\ At(t, "idle")
    /\ SocketPool_renew_socket(t)
    /\ UNCHANGED <<client, nreq, pc, req, sock, reps, wire, serverVars, err,
                   resp>>

-----------------------------------------------------------------------------
(* ServeDir_serve in a worker, behind the ROUTER/DEALER queue.             *)

WorkerReceives(w) ==
    /\ worker[w] = IdleWorker
    /\ \E m \in wire :
         /\ wire' = wire \ {m}
         /\ worker' = [worker EXCEPT ![w] =
                         [st |-> "received", req |-> m.req, sock |-> m.sock]]
    /\ UNCHANGED <<clientVars, replies, handled, outcome, err, resp>>

\* the response carries errno p, and the worker goes on to reply
Answer(w, p) ==
    worker' = [worker EXCEPT ![w] =
                 [st |-> "handled", req |-> worker[w].req,
                  sock |-> worker[w].sock, errno |-> p]]

\* the handler made its system call and reports the errno it got
OpDone(w) ==
    \E e \in OpErrno :
        /\ Answer(w, Errno_from_local(e))
        /\ handled' = [handled EXCEPT ![worker[w].req] = @ + 1]
        /\ outcome' = [outcome EXCEPT ![worker[w].req] =
                         IF e = "0" THEN "done" ELSE "failed"]

\* a missing optional field, or an unknown request type
OpRefused(w) ==
    /\ Answer(w, "INVALID_REQUEST")
    /\ outcome' = [outcome EXCEPT ![worker[w].req] = "refused"]
    /\ UNCHANGED handled

\* the handler gave up before its system call (no memory for the path, a data
\* block of the wrong size): it returns -1, which ServeDir_serve only logs, and
\* the response keeps the errno Response_create gave it
OpAborts(w) ==
    /\ Answer(w, "NONE")
    /\ outcome' = [outcome EXCEPT ![worker[w].req] = "aborted"]
    /\ UNCHANGED handled

\* mutant: the response to an unreadable request keeps its default errno
OpUnserializable_Default(w) ==
    /\ Answer(w, "NONE")
    /\ outcome' = [outcome EXCEPT ![worker[w].req] = "unserializable"]
    /\ UNCHANGED handled

\* Request_from_message returned NULL
OpUnserializable(w) ==
    /\ Answer(w, "UNSERIALIZABLE")
    /\ outcome' = [outcome EXCEPT ![worker[w].req] = "unserializable"]
    /\ UNCHANGED handled

WorkerHandles(w) ==
    /\ worker[w] \in BusyWorker
    /\ OpDone(w) \/ OpRefused(w) \/ OpAborts(w) \/ OpUnserializable(w)
    /\ UNCHANGED <<clientVars, wire, replies, err, resp>>

\* the ROUTER drops a reply whose socket is gone
WorkerReplies(w) ==
    /\ worker[w] \in DoneWorker
    /\ replies' = IF Open(worker[w].sock)
                    THEN replies \cup {[req |-> worker[w].req,
                                        sock |-> worker[w].sock,
                                        errno |-> worker[w].errno]}
                    ELSE replies
    /\ worker' = [worker EXCEPT ![w] = IdleWorker]
    /\ UNCHANGED <<clientVars, wire, handled, outcome, err, resp>>

\* The loop ends: ETERM while idle, Response_create without memory after a
\* receive, Response_pack or zmq_msg_send failing after the handler.
WorkerEnds(w) ==
    /\ worker[w] # DeadWorker
    /\ worker' = [worker EXCEPT ![w] = DeadWorker]
    /\ UNCHANGED <<clientVars, wire, replies, handled, outcome, err, resp>>

\* the server is stopped and started again
ServerRestarts ==
    /\ worker' \in [Worker -> {IdleWorker, DeadWorker}]
    /\ UNCHANGED <<clientVars, wire, replies, handled, outcome, err, resp>>

-----------------------------------------------------------------------------
(* The network.                                                            *)

LoseRequest ==
    /\ \E m \in wire : wire' = wire \ {m}
    /\ UNCHANGED <<clientVars, replies, serverVars, err, resp>>

LoseReply ==
    /\ \E m \in replies : replies' = replies \ {m}
    /\ UNCHANGED <<clientVars, wire, serverVars, err, resp>>

-----------------------------------------------------------------------------
\* the steps of a call that has begun
CallStep(c) ==
    \/ Pack(c) \/ PackFails(c)
    \/ SendOk(c) \/ SendAgain(c) \/ SendTimesOut(c) \/ SendFails(c)
    \/ InitResp(c) \/ InitRespFails(c)
    \/ PollReply(c) \/ RecvFails(c) \/ PollExpires(c)

PoolStep(t) ==
    Begin(t) \/ BeginNoSocket(t) \/ SendInterrupted(t) \/ ThreadExits(t)

PingStep == BeginPing \/ PingNoSocket

WorkerStep(w) ==
    WorkerReceives(w) \/ WorkerHandles(w) \/ WorkerReplies(w) \/ WorkerEnds(w)

Environment == ServerRestarts \/ LoseRequest \/ LoseReply

Next ==
    \/ \E c \in Caller : CallStep(c) \/ UninitialisedClose(c)
    \/ \E t \in Thread : PoolStep(t)
    \/ PingStep
    \/ \E w \in Worker : WorkerStep(w)
    \/ Environment

Spec == Init /\ [][Next]_vars

\* A thread inside a call is runnable or sleeping in usleep or zmq_poll, both
\* of which end: the scheduler lets it go on.  Nothing is assumed of the
\* server, of the network, or of new calls.
Fairness == \A c \in Caller : WF_vars(CallStep(c))

FairSpec == Spec /\ Fairness

-----------------------------------------------------------------------------
(* Properties.                                                             *)

\* request r, sent on socket s, or the reply to it is somewhere on its way
InFlight(r, s) ==
    \/ \E m \in wire : m.req = r /\ m.sock = s
    \/ \E m \in replies : m.req = r /\ m.sock = s
    \/ \E w \in Worker :
         worker[w].st \in {"received", "handled"}
           /\ worker[w].req = r /\ worker[w].sock = s

\* caller c has sent its request and not yet returned
Waiting(c) == pc[c] \in {"sent", "poll"}

\* A reply is never taken for the reply to another request: what is in flight
\* on an open socket belongs to the call that is waiting on that socket at this
\* moment, and a returned response answers the call's own request.  This is
\* what renewing the socket at the error label of Rhizofs_communicate is for.
NoStaleReply ==
    /\ \A r \in Req, s \in Sock :
         InFlight(r, s) /\ Open(s) =>
           \E c \in Caller : Waiting(c) /\ req[c] = r /\ sock[c] = s
    /\ \A r \in Req : resp[r] \in {Null, r}

\* Between its calls and until it has sent, the socket a thread keeps in the
\* pool can send: the EFSM branch of the send loop is never needed, whatever
\* error ended earlier calls.
PooledSocketReady ==
    \A t \in Thread :
        tsd[t] # Null /\ ~ Waiting(t) => sockState[tsd[t]] = "ready"

\* caller c is responsible for closing socket s
Owns(c, s) ==
    \/ c \in Thread /\ tsd[c] = s
    \/ c = Main /\ pc[c] # "idle" /\ sock[c] = s

\* No socket leaks, and none is shared: every open socket has exactly one owner
\* that will close it (renewal, thread exit, or the end of check_connection).
OneOwner ==
    \A s \in Sock : Open(s) =>
        /\ \E c \in Caller : Owns(c, s)
        /\ \A c, d \in Caller : Owns(c, s) /\ Owns(d, s) => c = d

\* Timeouts, renewals, restarts and lost messages never make the server execute
\* an operation twice: the client gives up instead of sending again.
AtMostOnce == \A r \in Req : handled[r] <= 1

\* errno e is a fair account of what became of request r
Verdict(r, e) ==
    /\ outcome[r] # "none"
    /\ e = "0" => outcome[r] \in {"done", "aborted"}
    /\ e = "ENOENT" => outcome[r] = "failed"
    /\ e = "EINVAL" => outcome[r] \in {"failed", "refused"}
    /\ e = "EIO" => outcome[r] \in {"failed", "unserializable"}

\* The errno of a response is the server's verdict on this very request.  An
\* operation whose system call failed is never reported as a success, one whose
\* system call succeeded never as an error, and a refused or unreadable request
\* is told as such and has not been executed.  0 does not mean done: a handler
\* that gave up before its system call answers 0 too (the code's behaviour, see
\* OpAborts), and EINVAL and EIO do not tell a failed call from a refused one.
VerdictIsServers ==
    \A r \in Req : resp[r] # Null =>
        /\ Verdict(r, err[r])
        /\ handled[r] = IF outcome[r] \in Executed THEN 1 ELSE 0

\* A call that failed and yet returns 0, so that its operation reports a success,
\* was never sent: its request could not be packed, and the server never acts on
\* it.  Every failure after the send is told.
SilentOnlyUnsent ==
    \A r \in Req : err[r] = "0" /\ resp[r] = Null =>
        /\ outcome[r] = "none"
        /\ \A m \in wire \cup replies : m.req # r
        /\ \A w \in Worker : worker[w].st \in {"received", "handled"} => worker[w].req # r

\* Every call of Rhizofs_communicate returns, with the server dead, restarting
\* or deaf, unless the process itself goes down.
CallReturns ==
    \A c \in Caller : pc[c] # "idle" ~> pc[c] = "idle" \/ client = "crashed"

\* The state of a call as the operation that makes it sees it.
CallStatus ==
    [r \in Req |->
        IF r > nreq THEN "unused"
        ELSE IF err[r] = "pending" THEN "active"
        ELSE IF resp[r] # Null THEN "answered"
        ELSE IF err[r] = "ENOTSOCK" THEN "refused"
        ELSE "failed"]

RC == INSTANCE RemoteCall
        WITH Call <- Req, status <- CallStatus, executions <- handled

\* The exchange implements RemoteCall: with all its sockets, timeouts and
\* restarts Rhizofs_communicate is an at-most-once remote call whose answered
\* calls are never executed afterwards.
ImplementsRemoteCall == RC!Spec

-----------------------------------------------------------------------------
(* The inductive invariant behind these properties.                        *)

Carries(w) == worker[w].st \in {"received", "handled"}

\* what has a number beyond nreq does not exist yet
Numbered ==
    /\ \A t \in Thread : tsd[t] <= nreq
    /\ \A c \in Caller : req[c] <= nreq /\ sock[c] <= nreq
    /\ \A m \in wire : m.req <= nreq /\ m.sock <= nreq
    /\ \A m \in replies : m.req <= nreq /\ m.sock <= nreq
    /\ \A w \in Worker :
         Carries(w) => worker[w].req <= nreq /\ worker[w].sock <= nreq
    /\ \A r \in Req : r > nreq =>
         /\ sockState[r] = "none"
         /\ outcome[r] = "none"
         /\ err[r] = "pending"
         /\ resp[r] = Null

\* a call has one caller
CallsDistinct ==
    \A c, d \in Caller : req[c] = req[d] => c = d \/ req[c] = 0

\* a call in progress has a socket, the pool's one for a pool thread
BusyCalls ==
    \A c \in Caller : pc[c] # "idle" =>
        /\ req[c] \in Req
        /\ sock[c] \in Sock
        /\ err[req[c]] = "pending"
        /\ resp[req[c]] = Null
        /\ c \in Thread => tsd[c] = sock[c]

\* the state of an owned socket follows from where its owner is
SocketStates ==
    \A c \in Caller, s \in Sock : Owns(c, s) =>
        sockState[s] = IF Waiting(c) THEN "awaiting" ELSE "ready"

\* a request that no handler has seen yet exists in one place
UnseenOnce ==
    /\ \A m \in wire : outcome[m.req] = "none"
    /\ \A m, n \in wire : m.req = n.req => m = n
    /\ \A w \in Worker : worker[w].st = "received" =>
         /\ outcome[worker[w].req] = "none"
         /\ \A m \in wire : m.req # worker[w].req
         /\ \A v \in Worker :
              worker[v].st = "received" /\ worker[v].req = worker[w].req
                => v = w

\* the response to a request exists in one place
AnsweredOnce ==
    /\ \A m, n \in replies : m.req = n.req => m = n
    /\ \A w \in Worker : worker[w].st = "handled" =>
         /\ \A m \in replies : m.req # worker[w].req
         /\ \A v \in Worker :
              worker[v].st = "handled" /\ worker[v].req = worker[w].req
                => v = w

\* a request that has not been sent is nowhere
Unsent ==
    \A c \in Caller : pc[c] \in {"pack", "send"} =>
        /\ outcome[req[c]] = "none"
        /\ \A m \in wire : m.req # req[c]
        /\ \A w \in Worker : Carries(w) => worker[w].req # req[c]

HandledCount ==
    \A r \in Req : handled[r] = IF outcome[r] \in Executed THEN 1 ELSE 0

Verdicts ==
    /\ \A m \in replies : Verdict(m.req, Errno_to_local(m.errno))
    /\ \A w \in Worker : worker[w].st = "handled" =>
         Verdict(worker[w].req, Errno_to_local(worker[w].errno))
    /\ \A r \in Req : resp[r] # Null => Verdict(r, err[r])

IInv ==
    /\ TypeOK
    /\ Numbered
    /\ CallsDistinct
    /\ BusyCalls
    /\ SocketStates
    /\ OneOwner
    /\ NoStaleReply
    /\ UnseenOnce
    /\ AnsweredOnce
    /\ Unsent
    /\ HandledCount
    /\ Verdicts
============================================================================
