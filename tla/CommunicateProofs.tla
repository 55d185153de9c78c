------------------------- MODULE CommunicateProofs -------------------------
(***************************************************************************)
(* Proofs about Communicate, for any number of threads, workers and calls. *)
(***************************************************************************)
EXTENDS Communicate, TLAPS

-----------------------------------------------------------------------------
(* Type correctness.                                                       *)

\* Errno_to_local yields an errno the client can return
LEMMA ErrnoToLocalType ==
    ASSUME NEW p \in ProtoErrno
    PROVE  Errno_to_local(p) \in ClientErrno
BY DEF Errno_to_local, ErrnoToLocalMap, ProtoErrno, ClientErrno

\* Errno_from_local yields an errno of the protocol
LEMMA ErrnoFromLocalType ==
    ASSUME NEW e \in OpErrno
    PROVE  Errno_from_local(e) \in ProtoErrno
BY DEF Errno_from_local, OpErrno, ProtoErrno

\* a worker that carries a request has a record with the request's fields
LEMMA WorkerFields ==
    ASSUME worker \in [Worker -> WorkerState], NEW w \in Worker
    PROVE  /\ worker[w].st = "received" <=> worker[w] \in BusyWorker
           /\ worker[w].st = "handled" <=> worker[w] \in DoneWorker
           /\ Carries(w) => worker[w].req \in Req /\ worker[w].sock \in Sock
           /\ worker[w].st = "handled" => worker[w].errno \in ProtoErrno
BY DEF WorkerState, IdleWorker, DeadWorker, BusyWorker, DoneWorker, Carries

\* Closing a socket keeps the types of the sockets and of the replies.
LEMMA CloseType ==
    ASSUME TypeOK, NEW s \in Sock, Close(s)
    PROVE  /\ sockState' \in [Sock -> {"none", "ready", "awaiting", "closed"}]
           /\ replies' \subseteq Reply
BY DEF TypeOK, Close

\* Whatever a call's end does to the socket, it keeps the types.
LEMMA FailType ==
    ASSUME TypeOK, NEW c \in Caller, NEW e \in ClientErrno,
           FailRenew(c, e) \/ FailKeep(c, e)
    PROVE  /\ client' \in {"connecting", "mounted", "exited", "crashed"}
           /\ tsd' \in [Thread -> Sock \cup {Null}]
           /\ sockState' \in [Sock -> {"none", "ready", "awaiting", "closed"}]
           /\ pc' \in [Caller -> {"idle", "pack", "send", "sent", "poll"}]
           /\ replies' \subseteq Reply
           /\ err' \in [Req -> ClientErrno \cup {"pending"}]
           /\ resp' \in [Req -> Req \cup {Null}]
<1>1. c # Main => c \in Thread
  BY DEF Caller
<1>2. CASE FailRenew(c, e)
  BY <1>1, <1>2 DEF TypeOK, FailRenew, CallEnds, SocketPool_renew_socket, Close
<1>3. CASE FailKeep(c, e)
  BY <1>1, <1>3 DEF TypeOK, FailKeep, CallEnds, KeepSocket, Close
<1> QED
  BY <1>2, <1>3

\* A call that begins gets a number that is in range and was never used.
LEMMA NewNumber ==
    ASSUME TypeOK, NEW c \in Caller, TakeNumber(c)
    PROVE  /\ nreq + 1 \in Req
           /\ nreq + 1 \in Sock
           /\ nreq + 1 # 0
           /\ nreq' = nreq + 1
           /\ nreq' \in 0 .. MaxRequest
           /\ req' \in [Caller -> Req \cup {0}]
<1>1. /\ nreq + 1 \in Req
      /\ nreq + 1 # 0
      /\ nreq + 1 \in 0 .. MaxRequest
  BY BoundsAssumption DEF TypeOK, TakeNumber, Req
<1> QED
  BY <1>1 DEF TypeOK, TakeNumber, Sock

\* No step leaves the types: a call that sends has a request and a socket.
LEMMA TypeStep == TypeOK /\ BusyCalls /\ [Next]_vars => TypeOK'
<1> SUFFICES ASSUME TypeOK, BusyCalls, [Next]_vars PROVE TypeOK'
  OBVIOUS
<1> USE BoundsAssumption, MainAssumption
<1>1. ASSUME NEW c \in Caller, CallStep(c) PROVE TypeOK'
  <2>1. CASE Pack(c)
    BY <2>1 DEF TypeOK, Pack, serverVars
  <2>2. CASE PackFails(c)
    <3>1. PICK e \in {"0", "EFAULT"} : FailKeep(c, e)
      BY <2>2 DEF PackFails
    <3>2. e \in ClientErrno
      BY DEF ClientErrno
    <3> QED
      BY <2>2, <3>1, <3>2, FailType DEF TypeOK, PackFails, serverVars
  <2>3. CASE SendOk(c)
    <3>1. req[c] \in Req /\ sock[c] \in Sock
      BY <2>3 DEF BusyCalls, SendOk, At
    <3> QED
      BY <2>3, <3>1 DEF TypeOK, SendOk, serverVars, Message
  <2>4. CASE SendAgain(c)
    BY <2>4 DEF TypeOK, SendAgain, serverVars
  <2>5. CASE SendTimesOut(c)
    BY <2>5, FailType DEF TypeOK, SendTimesOut, serverVars, ClientErrno
  <2>6. CASE SendFails(c)
    BY <2>6, FailType DEF TypeOK, SendFails, serverVars, ClientErrno
  <2>7. CASE InitResp(c)
    BY <2>7 DEF TypeOK, InitResp, serverVars
  <2>8. CASE InitRespFails(c)
    BY <2>8, FailType DEF TypeOK, InitRespFails, serverVars, ClientErrno
  <2>9. CASE PollReply(c)
    <3>1. PICK m \in replies :
            /\ resp' = [resp EXCEPT ![req[c]] = m.req]
            /\ CallEnds(c, Errno_to_local(m.errno),
                        /\ replies' = replies \ {m}
                        /\ sockState' = [sockState EXCEPT ![sock[c]] = "ready"]
                        /\ UNCHANGED tsd)
      BY <2>9 DEF PollReply
    <3>2. m.req \in Req /\ Errno_to_local(m.errno) \in ClientErrno
      BY ErrnoToLocalType DEF TypeOK, Reply
    <3>3. /\ client' \in {"connecting", "mounted", "exited", "crashed"}
          /\ tsd' = tsd
          /\ sockState' \in [Sock -> {"none", "ready", "awaiting", "closed"}]
          /\ replies' \subseteq Reply
      BY <3>1 DEF TypeOK, CallEnds, Close
    <3>4. /\ pc' \in [Caller -> {"idle", "pack", "send", "sent", "poll"}]
          /\ err' \in [Req -> ClientErrno \cup {"pending"}]
          /\ resp' \in [Req -> Req \cup {Null}]
      BY <3>1, <3>2 DEF TypeOK, CallEnds
    <3> QED
      BY <2>9, <3>3, <3>4 DEF TypeOK, PollReply, serverVars
  <2>10. CASE RecvFails(c)
    BY <2>10, FailType DEF TypeOK, RecvFails, serverVars, ClientErrno
  <2>11. CASE PollExpires(c)
    BY <2>11, FailType
    DEF TypeOK, PollExpires, PollErrno, serverVars, ClientErrno
  <2> QED
    BY <1>1, <2>1, <2>2, <2>3, <2>4, <2>5, <2>6, <2>7, <2>8, <2>9, <2>10,
       <2>11 DEF CallStep
<1>2. ASSUME NEW c \in Caller, UninitialisedClose(c) PROVE TypeOK'
  BY <1>2 DEF TypeOK, UninitialisedClose, serverVars
<1>3. ASSUME NEW t \in Thread, PoolStep(t) PROVE TypeOK'
  <2>0. t \in Caller
    BY DEF Caller
  <2>1. CASE Begin(t)
    <3>1. TakeNumber(t)
      BY <2>1 DEF Begin
    <3>2. /\ tsd' \in [Thread -> Sock \cup {Null}]
          /\ sockState' \in [Sock -> {"none", "ready", "awaiting", "closed"}]
          /\ sock' \in [Caller -> Sock \cup {Null}]
      BY <2>0, <2>1, <3>1, NewNumber
      DEF TypeOK, Begin, GetPooledSocket, GetNewSocket
    <3> QED
      BY <2>0, <2>1, <3>1, <3>2, NewNumber DEF TypeOK, Begin, serverVars
  <2>2. CASE BeginNoSocket(t)
    BY <2>0, <2>2, NewNumber
    DEF TypeOK, BeginNoSocket, serverVars, ClientErrno
  <2>3. CASE SendInterrupted(t)
    BY <2>0, <2>3, FailType DEF TypeOK, SendInterrupted, serverVars, ClientErrno
  <2>4. CASE ThreadExits(t)
    BY <2>0, <2>4
    DEF TypeOK, ThreadExits, SocketPool_renew_socket, Close, serverVars
  <2> QED
    BY <1>3, <2>1, <2>2, <2>3, <2>4 DEF PoolStep
<1>4. CASE PingStep
  <2>0. Main \in Caller
    BY DEF Caller
  <2>1. CASE BeginPing
    BY <2>0, <2>1, NewNumber DEF TypeOK, BeginPing, serverVars
  <2>2. CASE PingNoSocket
    BY <2>2 DEF TypeOK, PingNoSocket, serverVars
  <2> QED
    BY <1>4, <2>1, <2>2 DEF PingStep
<1>5. ASSUME NEW w \in Worker, WorkerStep(w) PROVE TypeOK'
  <2>1. CASE WorkerReceives(w)
    BY <2>1 DEF TypeOK, WorkerReceives, clientVars, Message, WorkerState,
      BusyWorker
  <2>2. CASE WorkerHandles(w)
    <3>1. /\ worker[w].req \in Req
          /\ worker[w].sock \in Sock
      BY <2>2, WorkerFields DEF TypeOK, WorkerHandles, Carries
    <3>2. ASSUME NEW p \in ProtoErrno, Answer(w, p)
          PROVE  worker' \in [Worker -> WorkerState]
      BY <3>1, <3>2 DEF TypeOK, Answer, WorkerState, DoneWorker
    <3>3. worker' \in [Worker -> WorkerState]
      BY <2>2, <3>2, ErrnoFromLocalType DEF WorkerHandles, OpDone, OpRefused,
        OpAborts, OpUnserializable, ProtoErrno
    <3>4. /\ handled' \in [Req -> Nat]
          /\ outcome' \in [Req -> Outcome]
      BY <2>2, <3>1 DEF TypeOK, WorkerHandles, OpDone, OpRefused, OpAborts,
        OpUnserializable, Outcome, OpErrno
    <3> QED
      BY <2>2, <3>3, <3>4 DEF TypeOK, WorkerHandles, clientVars
  <2>3. CASE WorkerReplies(w)
    <3>1. /\ worker[w].req \in Req
          /\ worker[w].sock \in Sock
          /\ worker[w].errno \in ProtoErrno
      BY <2>3, WorkerFields DEF TypeOK, WorkerReplies, Carries
    <3> QED
      BY <2>3, <3>1 DEF TypeOK, WorkerReplies, clientVars, Reply, WorkerState
  <2>4. CASE WorkerEnds(w)
    BY <2>4 DEF TypeOK, WorkerEnds, clientVars, WorkerState
  <2> QED
    BY <1>5, <2>1, <2>2, <2>3, <2>4 DEF WorkerStep
<1>6. CASE Environment
  BY <1>6 DEF TypeOK, Environment, ServerRestarts, LoseRequest, LoseReply,
    clientVars, serverVars, WorkerState
<1>7. CASE UNCHANGED vars
  BY <1>7 DEF TypeOK, vars, clientVars, serverVars
<1> QED
  BY <1>1, <1>2, <1>3, <1>4, <1>5, <1>6, <1>7 DEF Next


-----------------------------------------------------------------------------
(* A call that ends without a response.  All failing actions do one of two *)
(* things with the caller's socket; what follows needs to know no more.    *)

\* the socket is closed, by renewal or by check_connection
Dropped(c) ==
    /\ sockState' = [sockState EXCEPT ![sock[c]] = "closed"]
    /\ replies' = {m \in replies : m.sock # sock[c]}
    /\ tsd' = IF c = Main THEN tsd ELSE [tsd EXCEPT ![c] = Null]

\* nothing has been sent, and a pool thread keeps its socket
Kept(c) ==
    /\ c \in Thread
    /\ ~ Waiting(c)
    /\ UNCHANGED <<tsd, sockState, replies>>

Failed(c, e) ==
    /\ pc[c] # "idle"
    /\ pc' = [pc EXCEPT ![c] = "idle"]
    /\ err' = [err EXCEPT ![req[c]] = e]
    /\ Dropped(c) \/ Kept(c)
    /\ UNCHANGED <<nreq, req, sock, reps, wire, serverVars, resp>>

\* numbers of requests and sockets start at 1
LEMMA NumberFacts ==
    /\ Null \notin Sock
    /\ 0 \notin Req
    /\ Req \subseteq Nat
    /\ Sock = Req
BY BoundsAssumption DEF Null, Sock, Req

\* FailRenew closes the socket of the call
LEMMA FailRenewDrops ==
    ASSUME TypeOK, BusyCalls, NEW c \in Caller, NEW e, pc[c] # "idle",
           FailRenew(c, e), UNCHANGED <<nreq, req, sock, reps, wire, serverVars>>
    PROVE  Failed(c, e)
<1>1. c # Main => c \in Thread /\ tsd[c] = sock[c]
  BY DEF BusyCalls, Caller
<1>2. Dropped(c)
  BY <1>1 DEF FailRenew, CallEnds, Dropped, SocketPool_renew_socket, Close
<1> QED
  BY <1>2 DEF FailRenew, CallEnds, Failed

\* FailKeep, used before anything is sent, keeps the socket of a pool thread
LEMMA FailKeepKeeps ==
    ASSUME TypeOK, BusyCalls, NEW c \in Caller, NEW e,
           pc[c] # "idle", ~ Waiting(c),
           FailKeep(c, e), UNCHANGED <<nreq, req, sock, reps, wire, serverVars>>
    PROVE  Failed(c, e)
<1>1. CASE c = Main
  BY <1>1 DEF FailKeep, CallEnds, Failed, Dropped, Close
<1>2. CASE c # Main
  BY <1>2 DEF FailKeep, CallEnds, Failed, Kept, KeepSocket, Caller
<1> QED
  BY <1>1, <1>2

\* The actions that end a call without a response are all of this kind.
LEMMA FailingActions ==
    ASSUME TypeOK, BusyCalls, NEW c \in Caller,
           \/ PackFails(c) \/ SendTimesOut(c) \/ SendFails(c)
           \/ InitRespFails(c) \/ RecvFails(c) \/ PollExpires(c)
           \/ c \in Thread /\ SendInterrupted(c)
    PROVE  \E e \in ClientErrno \ {"ENOTSOCK"} :
             Failed(c, e) /\ (e = "0" => pc[c] = "pack")
<1>1. CASE PackFails(c)
  BY <1>1, FailKeepKeeps DEF PackFails, At, Waiting, ClientErrno
<1>2. CASE SendFails(c)
  BY <1>2, FailKeepKeeps DEF SendFails, At, Waiting, ClientErrno
<1>3. CASE SendTimesOut(c)
  BY <1>3, FailRenewDrops DEF SendTimesOut, At, ClientErrno
<1>4. CASE InitRespFails(c)
  BY <1>4, FailRenewDrops DEF InitRespFails, At, ClientErrno
<1>5. CASE RecvFails(c)
  BY <1>5, FailRenewDrops DEF RecvFails, At, ClientErrno
<1>6. CASE PollExpires(c)
  <2>1. PICK e \in PollErrno : FailRenew(c, IF e = "0" THEN "EIO" ELSE e)
    BY <1>6 DEF PollExpires
  <2>2. (IF e = "0" THEN "EIO" ELSE e) \in ClientErrno \ {"ENOTSOCK", "0"}
    BY DEF PollErrno, ClientErrno
  <2>3. Failed(c, IF e = "0" THEN "EIO" ELSE e)
    BY <1>6, <2>1, FailRenewDrops DEF PollExpires, At
  <2> QED
    BY <2>2, <2>3
<1>7. CASE SendInterrupted(c)
  BY <1>7, FailRenewDrops DEF SendInterrupted, At, ClientErrno
<1> QED
  BY <1>1, <1>2, <1>3, <1>4, <1>5, <1>6, <1>7

\* A failed call leaves the invariant intact: nothing that is still under way
\* for it can reach a later call on an open socket.
LEMMA FailedStep ==
    ASSUME IInv, TypeOK', NEW c \in Caller, NEW e \in ClientErrno, Failed(c, e)
    PROVE  IInv'
<1> USE MainAssumption
<1>1. /\ req[c] \in Req
      /\ sock[c] \in Sock
      /\ Owns(c, sock[c])
      /\ e # "pending"
  BY DEF IInv, BusyCalls, Failed, Owns, Caller, ClientErrno
<1>2. Numbered'
  <2>1. /\ nreq \in Nat
        /\ nreq' = nreq
        /\ req[c] <= nreq
        /\ sock[c] <= nreq
    BY DEF IInv, TypeOK, Numbered, Failed
  <2>2. \A t \in Thread : tsd'[t] <= nreq
    BY <2>1 DEF IInv, TypeOK, Numbered, Failed, Dropped, Kept, Null
  <2>3. ASSUME NEW r \in Req, r > nreq
        PROVE  /\ sockState'[r] = "none"
               /\ outcome'[r] = "none"
               /\ err'[r] = "pending"
               /\ resp'[r] = Null
    <3>1. r # req[c] /\ r # sock[c]
      BY <2>1, <2>3, NumberFacts
    <3> QED
      BY <1>1, <2>3, <3>1, NumberFacts
      DEF IInv, TypeOK, Numbered, Failed, Dropped, Kept, serverVars
  <2>4. \A m \in replies' : m.req <= nreq /\ m.sock <= nreq
    BY DEF IInv, Numbered, Failed, Dropped, Kept
  <2> QED
    BY <2>1, <2>2, <2>3, <2>4
    DEF IInv, Numbered, Failed, Carries, serverVars
<1>3. CallsDistinct'
  BY DEF IInv, CallsDistinct, Failed
<1>4. BusyCalls'
  BY <1>1 DEF IInv, TypeOK, BusyCalls, CallsDistinct, Failed, Dropped, Kept, Req
<1>5. ASSUME NEW d \in Caller, NEW s \in Sock
      PROVE  Owns(d, s)' <=> /\ Owns(d, s)
                             /\ Dropped(c) => s # sock[c]
  <2>1. Owns(d, s) /\ d # c => s # sock[c]
    BY <1>1 DEF IInv, OneOwner, SocketStates, Open
  <2>2. Owns(c, s) => s = sock[c]
    BY DEF IInv, BusyCalls, Failed, Owns, Caller
  <2>3. CASE Dropped(c)
    BY <1>1, <2>1, <2>2, <2>3, NumberFacts
    DEF IInv, TypeOK, Owns, Failed, Dropped, Caller
  <2>4. CASE Kept(c)
    BY <1>1, <2>1, <2>2, <2>4, NumberFacts
    DEF IInv, TypeOK, Owns, Failed, Dropped, Kept, Caller
  <2> QED
    BY <2>3, <2>4 DEF Failed
<1>5a. ASSUME NEW d \in Caller, NEW s \in Sock, Owns(d, s)'
       PROVE  sockState'[s] = IF Waiting(d)' THEN "awaiting" ELSE "ready"
  <2>1. /\ Owns(d, s)
        /\ sockState[s] = IF Waiting(d) THEN "awaiting" ELSE "ready"
    BY <1>5, <1>5a DEF IInv, SocketStates
  <2>2. sockState'[s] = sockState[s]
    BY <1>5, <1>5a DEF IInv, TypeOK, Failed, Dropped, Kept
  <2>3. Waiting(d)' <=> Waiting(d)
    <3>1. d = c => ~ Dropped(c)
      BY <1>5, <1>5a, <2>1 DEF IInv, BusyCalls, Failed, Owns, Caller
    <3> QED
      BY <3>1 DEF IInv, TypeOK, Waiting, Failed, Kept
  <2> QED
    BY <2>1, <2>2, <2>3
<1>5b. OneOwner'
  BY <1>1, <1>5 DEF IInv, TypeOK, OneOwner, Open, Failed, Dropped, Kept
<1>6. NoStaleReply'
  BY <1>1 DEF IInv, TypeOK, BusyCalls, OneOwner, NoStaleReply, InFlight, Owns, Open, Waiting, Failed, Dropped, Kept, serverVars, Caller
<1>7. UnseenOnce' /\ Unsent' /\ HandledCount'
  BY DEF IInv, TypeOK, UnseenOnce, Unsent, HandledCount, Failed, serverVars, Carries
<1>7a. AnsweredOnce'
  BY DEF IInv, AnsweredOnce, Failed, Dropped, Kept, serverVars
<1>8. Verdicts'
  BY <1>1 DEF IInv, TypeOK, BusyCalls, Verdicts, Verdict, Failed, Dropped, Kept, serverVars
<1> QED
  BY <1>2, <1>3, <1>4, <1>5a, <1>5b, <1>6, <1>7, <1>7a, <1>8
  DEF IInv, SocketStates

-----------------------------------------------------------------------------
(* The other steps of a call.                                              *)

\* Pack, SendAgain and InitResp only move the caller on.
LEMMA LocalStep ==
    ASSUME IInv, TypeOK', NEW c \in Caller,
           Pack(c) \/ SendAgain(c) \/ InitResp(c)
    PROVE  IInv'
<1>1. /\ UNCHANGED <<nreq, tsd, sockState, req, sock, wire, replies, worker,
                     handled, outcome, err, resp>>
      /\ \A d \in Caller : /\ pc'[d] = "idle" <=> pc[d] = "idle"
                           /\ Waiting(d)' <=> Waiting(d)
                           /\ pc'[d] \in {"pack", "send"} => pc[d] \in {"pack", "send"}
  BY DEF IInv, TypeOK, Pack, SendAgain, InitResp, At, Waiting, serverVars
<1>2. Numbered' /\ CallsDistinct' /\ HandledCount'
  BY <1>1 DEF IInv, Numbered, CallsDistinct, HandledCount, Carries
<1>3. BusyCalls'
  BY <1>1 DEF IInv, BusyCalls
<1>4. ASSUME NEW d \in Caller, NEW s \in Sock
      PROVE  Owns(d, s)' <=> Owns(d, s)
  BY <1>1 DEF Owns
<1>5. SocketStates' /\ OneOwner'
  BY <1>1, <1>4 DEF IInv, SocketStates, OneOwner, Open
<1>6. NoStaleReply'
  BY <1>1 DEF IInv, NoStaleReply, InFlight, Open
<1>7. UnseenOnce' /\ AnsweredOnce' /\ Verdicts'
  BY <1>1 DEF IInv, UnseenOnce, AnsweredOnce, Verdicts, Verdict
<1>8. Unsent'
  BY <1>1 DEF IInv, Unsent, Carries
<1> QED
  BY <1>2, <1>3, <1>5, <1>6, <1>7, <1>8 DEF IInv

\* An owner that is not waiting has nothing in flight on its socket.
LEMMA QuietSocket ==
    ASSUME IInv, NEW c \in Caller, pc[c] # "idle", ~ Waiting(c),
           NEW r \in Req
    PROVE  ~ InFlight(r, sock[c])
<1>1. sock[c] \in Sock /\ Owns(c, sock[c])
  BY DEF IInv, BusyCalls, Owns, Caller
<1>2. Open(sock[c])
  BY <1>1 DEF IInv, SocketStates, Open
<1>3. ASSUME InFlight(r, sock[c]) PROVE FALSE
  <2>1. PICK d \in Caller : Waiting(d) /\ sock[d] = sock[c]
    BY <1>1, <1>2, <1>3 DEF IInv, NoStaleReply
  <2>2. Owns(d, sock[c])
    BY <2>1 DEF IInv, BusyCalls, Owns, Caller, Waiting
  <2> QED
    BY <1>1, <1>2, <2>1, <2>2 DEF IInv, OneOwner
<1> QED
  BY <1>3

\* Sending puts the request in its one place, and its socket waits.
LEMMA SendOkStep ==
    ASSUME IInv, TypeOK', NEW c \in Caller, SendOk(c)
    PROVE  IInv'
<1> DEFINE msg == [req |-> req[c], sock |-> sock[c]]
<1>1. /\ pc[c] = "send"
      /\ ~ Waiting(c)
      /\ Waiting(c)'
      /\ req[c] \in Req
      /\ sock[c] \in Sock
      /\ Owns(c, sock[c])
  BY DEF IInv, TypeOK, BusyCalls, SendOk, At, Owns, Caller, Waiting
<1>2. /\ UNCHANGED <<nreq, tsd, req, sock, replies, worker, handled, outcome,
                     err, resp>>
      /\ wire' = wire \cup {msg}
      /\ sockState' = [sockState EXCEPT ![sock[c]] = "awaiting"]
      /\ pc' = [pc EXCEPT ![c] = "sent"]
  BY DEF SendOk, serverVars
<1>3. \A d \in Caller :
        /\ pc'[d] = "idle" <=> pc[d] = "idle"
        /\ d # c => (Waiting(d)' <=> Waiting(d)) /\ pc'[d] = pc[d]
  BY <1>1, <1>2 DEF IInv, TypeOK, Waiting
<1>4. Numbered'
  <2>1. sock[c] <= nreq /\ req[c] <= nreq
    BY DEF IInv, Numbered
  <2>2. \A r \in Req : r > nreq => sockState'[r] = "none"
    BY <1>1, <1>2, <2>1, NumberFacts DEF IInv, TypeOK, Numbered
  <2> QED
    BY <1>2, <2>1, <2>2 DEF IInv, Numbered, Carries
<1>5. CallsDistinct' /\ BusyCalls' /\ HandledCount'
  BY <1>2, <1>3 DEF IInv, CallsDistinct, BusyCalls, HandledCount
<1>6. ASSUME NEW d \in Caller, NEW s \in Sock
      PROVE  Owns(d, s)' <=> Owns(d, s)
  BY <1>2, <1>3 DEF Owns
<1>7. ASSUME NEW d \in Caller, NEW s \in Sock, Owns(d, s)'
      PROVE  sockState'[s] = IF Waiting(d)' THEN "awaiting" ELSE "ready"
  <2>1. d = c => s = sock[c]
    BY <1>1, <1>6, <1>7 DEF IInv, BusyCalls, Owns, Caller
  <2>2. d # c => s # sock[c]
    BY <1>1, <1>6, <1>7 DEF IInv, OneOwner, SocketStates, Open
  <2> QED
    BY <1>1, <1>2, <1>3, <1>6, <1>7, <2>1, <2>2 DEF IInv, TypeOK, SocketStates
<1>8. OneOwner'
  <2>1. \A s \in Sock : Open(s)' => Open(s)
    BY <1>1, <1>2 DEF IInv, TypeOK, Open, SocketStates
  <2> QED
    BY <1>6, <2>1 DEF IInv, OneOwner
<1>9. NoStaleReply'
  <2>1. ASSUME NEW r \in Req, NEW s \in Sock, InFlight(r, s)', Open(s)'
        PROVE  \E d \in Caller : Waiting(d)' /\ req'[d] = r /\ sock'[d] = s
    <3>1. CASE r = req[c] /\ s = sock[c]
      BY <1>1, <1>2, <3>1
    <3>2. CASE ~ (r = req[c] /\ s = sock[c])
      <4>1. InFlight(r, s)
        BY <1>2, <2>1, <3>2 DEF InFlight
      <4>2. s # sock[c]
        BY <1>1, <4>1, QuietSocket
      <4>3. Open(s)
        BY <1>2, <2>1, <4>2 DEF IInv, TypeOK, Open
      <4>4. PICK d \in Caller : Waiting(d) /\ req[d] = r /\ sock[d] = s
        BY <4>1, <4>3 DEF IInv, NoStaleReply
      <4> QED
        BY <1>1, <1>2, <1>3, <4>4
    <3> QED
      BY <3>1, <3>2
  <2> QED
    BY <1>2, <2>1 DEF IInv, NoStaleReply
<1>10. UnseenOnce'
  BY <1>1, <1>2 DEF IInv, UnseenOnce, Unsent, Carries
<1>11. AnsweredOnce' /\ Verdicts'
  BY <1>2 DEF IInv, AnsweredOnce, Verdicts, Verdict
<1>12. Unsent'
  <2>1. \A d \in Caller : d # c => req[d] # req[c]
    BY <1>1, NumberFacts DEF IInv, CallsDistinct
  <2> QED
    BY <1>2, <1>3, <2>1 DEF IInv, TypeOK, Unsent, Carries
<1> QED
  BY <1>4, <1>5, <1>7, <1>8, <1>9, <1>10, <1>11, <1>12
  DEF IInv, SocketStates

\* The reply a call receives is the reply to its own request, and the last
\* thing that was in flight for it.
LEMMA PollReplyStep ==
    ASSUME IInv, TypeOK', NEW c \in Caller, PollReply(c)
    PROVE  IInv'
<1> USE MainAssumption
<1>1. /\ Waiting(c)
      /\ pc[c] # "idle"
      /\ req[c] \in Req
      /\ sock[c] \in Sock
      /\ Owns(c, sock[c])
      /\ c # Main => c \in Thread
  BY DEF IInv, BusyCalls, PollReply, At, Owns, Caller, Waiting
<1>2. PICK m \in replies :
        /\ m.sock = sock[c]
        /\ resp' = [resp EXCEPT ![req[c]] = m.req]
        /\ CallEnds(c, Errno_to_local(m.errno),
                    /\ replies' = replies \ {m}
                    /\ sockState' = [sockState EXCEPT ![sock[c]] = "ready"]
                    /\ UNCHANGED tsd)
  BY DEF PollReply
<1>3. UNCHANGED <<nreq, tsd, req, sock, wire, worker, handled, outcome>>
  BY <1>2 DEF PollReply, CallEnds, serverVars
<1>4. /\ pc' = [pc EXCEPT ![c] = "idle"]
      /\ err' = [err EXCEPT ![req[c]] = Errno_to_local(m.errno)]
  BY <1>2 DEF CallEnds
<1>5. /\ sockState' = [sockState EXCEPT
                         ![sock[c]] = IF c = Main THEN "closed" ELSE "ready"]
      /\ replies' \subseteq replies \ {m}
  BY <1>2 DEF CallEnds, Close
<1>6. m.req \in Req /\ Errno_to_local(m.errno) \in ClientErrno
  BY ErrnoToLocalType DEF IInv, TypeOK, Reply
<1>7. m.req = req[c]
  <2>1. InFlight(m.req, sock[c])
    BY <1>2 DEF InFlight
  <2>2. Open(sock[c])
    BY <1>1 DEF IInv, SocketStates, Open
  <2>3. PICK d \in Caller :
               Waiting(d) /\ req[d] = m.req /\ sock[d] = sock[c]
    BY <1>1, <1>6, <2>1, <2>2 DEF IInv, NoStaleReply
  <2>4. Owns(d, sock[c])
    BY <2>3 DEF IInv, BusyCalls, Owns, Caller, Waiting
  <2> QED
    BY <1>1, <2>2, <2>3, <2>4 DEF IInv, OneOwner
<1>8. \A s \in Sock : ~ InFlight(req[c], s)'
  <2>1. Verdict(req[c], Errno_to_local(m.errno))
    BY <1>7 DEF IInv, Verdicts
  <2>2. \A n \in wire : n.req # req[c]
    BY <2>1 DEF IInv, UnseenOnce, Verdict
  <2>3. \A n \in replies' : n.req # req[c]
    BY <1>2, <1>5, <1>7 DEF IInv, AnsweredOnce
  <2>4. \A w \in Worker : Carries(w) => worker[w].req # req[c]
    BY <1>7, <2>1 DEF IInv, UnseenOnce, AnsweredOnce, Verdict, Carries
  <2> QED
    BY <1>3, <2>2, <2>3, <2>4 DEF InFlight, Carries
<1>9. \A d \in Caller :
        d # c => (Waiting(d)' <=> Waiting(d)) /\ pc'[d] = pc[d]
  BY <1>4 DEF IInv, TypeOK, Waiting
<1>10. Numbered'
  <2>1. req[c] <= nreq /\ sock[c] <= nreq
    BY DEF IInv, Numbered
  <2>2. \A r \in Req : r > nreq => r # req[c] /\ r # sock[c]
    BY <2>1, NumberFacts DEF IInv, TypeOK
  <2>3. \A r \in Req : r > nreq =>
          /\ sockState'[r] = "none"
          /\ err'[r] = "pending"
          /\ resp'[r] = Null
    BY <1>2, <1>4, <1>5, <2>2, NumberFacts DEF IInv, TypeOK, Numbered
  <2> QED
    BY <1>3, <1>5, <2>3 DEF IInv, Numbered, Carries
<1>11. CallsDistinct' /\ HandledCount'
  BY <1>3 DEF IInv, CallsDistinct, HandledCount
<1>12. BusyCalls'
  <2>1. \A d \in Caller : d # c => req[d] # req[c]
    BY <1>1, NumberFacts DEF IInv, CallsDistinct
  <2> QED
    BY <1>2, <1>3, <1>4, <1>9, <2>1 DEF IInv, TypeOK, BusyCalls
<1>13. ASSUME NEW d \in Caller, NEW s \in Sock
       PROVE  Owns(d, s)' <=> Owns(d, s) /\ ~ (d = c /\ c = Main)
  BY <1>3, <1>4, <1>9 DEF IInv, TypeOK, Owns
<1>14. ASSUME NEW d \in Caller, NEW s \in Sock, Owns(d, s)'
       PROVE  sockState'[s] = IF Waiting(d)' THEN "awaiting" ELSE "ready"
  <2>1. CASE d = c
    <3>1. c # Main /\ s = sock[c]
      BY <1>1, <1>13, <1>14, <2>1 DEF IInv, BusyCalls, Owns
    <3>2. ~ Waiting(c)'
      BY <1>4 DEF IInv, TypeOK, Waiting
    <3> QED
      BY <1>1, <1>5, <2>1, <3>1, <3>2 DEF IInv, TypeOK
  <2>2. CASE d # c
    <3>1. Owns(d, s) /\ s # sock[c]
      BY <1>1, <1>13, <1>14, <2>2 DEF IInv, OneOwner, SocketStates, Open
    <3> QED
      BY <1>5, <1>9, <2>2, <3>1 DEF IInv, TypeOK, SocketStates
  <2> QED
    BY <2>1, <2>2
<1>15. OneOwner'
  <2>1. ASSUME NEW s \in Sock, Open(s)'
        PROVE  /\ Open(s)
               /\ \A d \in Caller : Owns(d, s)' <=> Owns(d, s)
    <3>1. Open(s) /\ (c = Main => s # sock[c])
      BY <1>1, <1>5, <2>1 DEF IInv, TypeOK, Open, SocketStates
    <3>2. c = Main => ~ Owns(c, s)
      BY <1>1, <3>1 DEF Owns
    <3> QED
      BY <1>13, <3>1, <3>2
  <2> QED
    BY <2>1 DEF IInv, OneOwner
<1>16. NoStaleReply'
  <2>1. ASSUME NEW r \in Req, NEW s \in Sock, InFlight(r, s)', Open(s)'
        PROVE  \E d \in Caller : Waiting(d)' /\ req'[d] = r /\ sock'[d] = s
    <3>1. InFlight(r, s) /\ r # req[c]
      BY <1>3, <1>5, <1>8, <2>1 DEF InFlight
    <3>2. Open(s)
      BY <1>1, <1>5, <2>1 DEF IInv, TypeOK, Open, SocketStates
    <3>3. PICK d \in Caller : Waiting(d) /\ req[d] = r /\ sock[d] = s
      BY <3>1, <3>2 DEF IInv, NoStaleReply
    <3> QED
      BY <1>3, <1>9, <3>1, <3>3
  <2> QED
    BY <1>1, <1>2, <1>7, <2>1 DEF IInv, TypeOK, NoStaleReply
<1>17. UnseenOnce' /\ AnsweredOnce'
  BY <1>3, <1>5 DEF IInv, UnseenOnce, AnsweredOnce
<1>18. Unsent'
  <2>1. \A d \in Caller : pc'[d] \in {"pack", "send"} => pc[d] = pc'[d]
    BY <1>4 DEF IInv, TypeOK
  <2> QED
    BY <1>3, <2>1 DEF IInv, Unsent, Carries
<1>19. Verdicts'
  <2>1. Verdict(req[c], Errno_to_local(m.errno))
    BY <1>7 DEF IInv, Verdicts
  <2>2. \A r \in Req : resp'[r] # Null => Verdict(r, err'[r])
    BY <1>2, <1>4, <2>1 DEF IInv, TypeOK, Verdicts
  <2> QED
    BY <1>3, <1>5, <2>2 DEF IInv, Verdicts, Verdict
<1> QED
  BY <1>10, <1>11, <1>12, <1>14, <1>15, <1>16, <1>17, <1>18, <1>19
  DEF IInv, SocketStates

-----------------------------------------------------------------------------
(* Beginning a call.                                                       *)

\* Nothing in the system carries the number of a call that is about to begin.
LEMMA FreshNumber ==
    ASSUME IInv, NEW c \in Caller, TakeNumber(c)
    PROVE  /\ sockState[nreq + 1] = "none"
           /\ outcome[nreq + 1] = "none"
           /\ err[nreq + 1] = "pending"
           /\ resp[nreq + 1] = Null
           /\ \A t \in Thread : tsd[t] # nreq + 1
           /\ \A d \in Caller : req[d] # nreq + 1 /\ sock[d] # nreq + 1
           /\ \A m \in wire : m.req # nreq + 1 /\ m.sock # nreq + 1
           /\ \A m \in replies : m.req # nreq + 1 /\ m.sock # nreq + 1
           /\ \A w \in Worker : Carries(w) =>
                worker[w].req # nreq + 1 /\ worker[w].sock # nreq + 1
<1>1. nreq \in Nat
  BY DEF IInv, TypeOK
<1>2. nreq + 1 \in Req /\ nreq + 1 > nreq
  BY <1>1, NewNumber DEF IInv
<1>3. \A i : i <= nreq => i # nreq + 1
  BY <1>1
<1> QED
  BY <1>2, <1>3 DEF IInv, Numbered

\* What all beginnings have in common: a new number for the caller, and at
\* most a socket of the same number.
LEMMA BeginStep ==
    ASSUME IInv, TypeOK', NEW c \in Caller,
           NEW n \in Nat, n = nreq + 1,
           pc[c] = "idle",
           TakeNumber(c),
           UNCHANGED <<wire, replies, serverVars, resp>>,
           \* the socket: none, the pool's, or a new one
           \/ /\ c \in Thread
              /\ pc' = pc
              /\ err' = [err EXCEPT ![n] = "ENOTSOCK"]
              /\ UNCHANGED <<tsd, sockState, sock>>
           \/ /\ c \in Thread
              /\ pc' = [pc EXCEPT ![c] = "pack"]
              /\ GetPooledSocket(c)
              /\ UNCHANGED err
           \/ /\ pc' = [pc EXCEPT ![c] = "pack"]
              /\ sockState' = [sockState EXCEPT ![n] = "ready"]
              /\ sock' = [sock EXCEPT ![c] = n]
              /\ tsd' = IF c = Main THEN tsd ELSE [tsd EXCEPT ![c] = n]
              /\ c # Main => tsd[c] = Null
              /\ UNCHANGED err
    PROVE  IInv'
<1> USE MainAssumption
<1>1. /\ n \in Req
      /\ n \in Sock
      /\ n # 0
      /\ nreq' = n
      /\ nreq \in Nat
      /\ req' = [req EXCEPT ![c] = n]
  <2>1. TypeOK /\ nreq \in Nat
    BY DEF IInv, TypeOK
  <2>2. n \in Req /\ n \in Sock /\ n # 0
    BY <2>1, NewNumber
  <2> QED
    BY <2>1, <2>2 DEF TakeNumber
<1>2. /\ UNCHANGED <<wire, replies, worker, handled, outcome, resp>>
      /\ \A r \in Req : r # n => err'[r] = err[r] /\ sockState'[r] = sockState[r]
  BY NumberFacts DEF IInv, TypeOK, serverVars, GetPooledSocket
<1>3. \A d \in Caller :
        /\ Waiting(d)' <=> Waiting(d)
        /\ d # c => pc'[d] = pc[d] /\ sock'[d] = sock[d] /\ req'[d] = req[d]
        /\ d # c /\ d # Main => tsd'[d] = tsd[d]
  BY <1>1 DEF IInv, TypeOK, Waiting, GetPooledSocket, Caller
<1>4. ~ Waiting(c) /\ ~ Waiting(c)' /\ req'[c] = n
  BY <1>1, <1>3 DEF IInv, TypeOK, Waiting
<1>5. Numbered'
  <2>1. \A i \in Nat : i <= nreq => i <= n
    BY <1>1
  <2>2. \A r \in Req : r > n => r > nreq /\ r # n
    BY <1>1, NumberFacts
  <2>3. \A t \in Thread : tsd'[t] = tsd[t] \/ tsd'[t] = n
    BY <1>1 DEF IInv, TypeOK, GetPooledSocket
  <2>4. \A d \in Caller : \/ sock'[d] = sock[d]
                          \/ sock'[d] = n
                          \/ d \in Thread /\ sock'[d] = tsd[d]
    BY <1>1 DEF IInv, TypeOK, GetPooledSocket
  <2>5. /\ \A t \in Thread : tsd[t] \in Nat
        /\ \A d \in Caller : req[d] \in Nat /\ sock[d] \in Nat
        /\ \A m \in wire : m.req \in Nat /\ m.sock \in Nat
        /\ \A m \in replies : m.req \in Nat /\ m.sock \in Nat
        /\ \A w \in Worker :
             Carries(w) => worker[w].req \in Nat /\ worker[w].sock \in Nat
        /\ n \in Nat /\ n <= n
    <3>1. TypeOK /\ Req \subseteq Nat /\ Sock \subseteq Nat
      BY NumberFacts DEF IInv
    <3>2. \A w \in Worker :
             Carries(w) => worker[w].req \in Nat /\ worker[w].sock \in Nat
      BY <3>1, WorkerFields DEF TypeOK
    <3>3. /\ \A t \in Thread : tsd[t] \in Nat
          /\ \A d \in Caller : req[d] \in Nat /\ sock[d] \in Nat
      <4>1. /\ \A t \in Thread : tsd[t] \in Sock \cup {Null}
            /\ \A d \in Caller : /\ req[d] \in Req \cup {0}
                                 /\ sock[d] \in Sock \cup {Null}
        BY <3>1 DEF TypeOK
      <4>2. 0 \in Nat
        OBVIOUS
      <4> QED
        BY <3>1, <4>1, <4>2 DEF Null
    <3>4. /\ \A m \in wire : m.req \in Nat /\ m.sock \in Nat
          /\ \A m \in replies : m.req \in Nat /\ m.sock \in Nat
      BY <3>1 DEF TypeOK, Message, Reply
    <3>5. n \in Nat /\ n <= n
      OBVIOUS
    <3> QED
      BY <3>2, <3>3, <3>4, <3>5
  <2>6. \A r \in Req : r > n =>
          /\ sockState'[r] = "none"
          /\ outcome'[r] = "none"
          /\ err'[r] = "pending"
          /\ resp'[r] = Null
    BY <1>2, <2>2 DEF IInv, Numbered
  <2>7. /\ \A t \in Thread : tsd'[t] <= n
        /\ \A d \in Caller : sock'[d] <= n
    BY <2>1, <2>3, <2>4, <2>5 DEF IInv, Numbered
  <2>8. \A d \in Caller : req'[d] <= n
    BY <1>1, <1>3, <1>4, <2>1, <2>5 DEF IInv, Numbered
  <2> QED
    BY <1>1, <1>2, <2>1, <2>5, <2>6, <2>7, <2>8 DEF IInv, Numbered, Carries
<1>6. \A d \in Caller : req[d] # n
  BY FreshNumber
<1>7. CallsDistinct'
  BY <1>1, <1>3, <1>4, <1>6 DEF IInv, CallsDistinct
<1>8. BusyCalls'
  <2>1. ASSUME NEW d \in Caller, d # c, pc'[d] # "idle"
        PROVE  /\ req'[d] \in Req
               /\ sock'[d] \in Sock
               /\ err'[req'[d]] = "pending"
               /\ resp'[req'[d]] = Null
               /\ d \in Thread => tsd'[d] = sock'[d]
    BY <1>2, <1>3, <1>6, <2>1 DEF IInv, BusyCalls
  <2>2. ASSUME pc'[c] # "idle"
        PROVE  /\ req'[c] \in Req
               /\ sock'[c] \in Sock
               /\ err'[req'[c]] = "pending"
               /\ resp'[req'[c]] = Null
               /\ c \in Thread => tsd'[c] = sock'[c]
    BY <1>1, <1>2, <1>4, <2>2, FreshNumber, NumberFacts
    DEF IInv, TypeOK, GetPooledSocket
  <2> QED
    BY <2>1, <2>2 DEF BusyCalls
<1>9. ASSUME NEW d \in Caller, NEW s \in Sock
      PROVE  Owns(d, s)' <=> Owns(d, s) \/ (d = c /\ s = n /\ Open(n)')
  <2>1. sockState[n] = "none" /\ ~ Owns(d, n)
    BY <1>1, FreshNumber DEF IInv, SocketStates, Owns
  <2>2. CASE d # c
    BY <1>3, <2>2 DEF Owns
  <2>3. CASE d = c /\ c = Main
    BY <1>1, <2>1, <2>3 DEF IInv, TypeOK, Owns, Open
  <2>4. CASE d = c /\ c # Main
    BY <1>1, <2>1, <2>4, NumberFacts
    DEF IInv, TypeOK, Owns, Open, Caller, GetPooledSocket
  <2> QED
    BY <2>2, <2>3, <2>4
<1>10. sockState'[n] \in {"none", "ready"}
  BY <1>1, FreshNumber DEF IInv, TypeOK, GetPooledSocket
<1>11. ASSUME NEW d \in Caller, NEW s \in Sock, Owns(d, s)'
       PROVE  sockState'[s] = IF Waiting(d)' THEN "awaiting" ELSE "ready"
  <2>1. CASE s = n
    <3>1. ~ Owns(d, n)
      BY <1>1, FreshNumber DEF IInv, SocketStates
    <3> QED
      BY <1>4, <1>9, <1>10, <1>11, <2>1, <3>1 DEF Open
  <2>2. CASE s # n
    BY <1>2, <1>3, <1>9, <1>11, <2>2, NumberFacts DEF IInv, SocketStates
  <2> QED
    BY <2>1, <2>2
<1>12. OneOwner'
  <2>1. ASSUME NEW s \in Sock, s # n, Open(s)'
        PROVE  Open(s) /\ \A d \in Caller : Owns(d, s)' <=> Owns(d, s)
    BY <1>2, <1>9, <2>1, NumberFacts DEF Open
  <2>2. \A d \in Caller : ~ Owns(d, n)
    BY <1>1, FreshNumber DEF IInv, SocketStates
  <2>3. Open(n)' => \A d \in Caller : Owns(d, n)' <=> d = c
    BY <1>1, <1>9, <2>2
  <2> QED
    BY <2>1, <2>3 DEF IInv, OneOwner
<1>13. NoStaleReply'
  <2>1. ASSUME NEW r \in Req, NEW s \in Sock, InFlight(r, s)', Open(s)'
        PROVE  \E d \in Caller : Waiting(d)' /\ req'[d] = r /\ sock'[d] = s
    <3>1. InFlight(r, s)
      BY <1>2, <2>1 DEF InFlight
    <3>2. s # n
      BY <3>1, FreshNumber DEF InFlight, Carries
    <3>3. Open(s)
      BY <1>2, <2>1, <3>2, NumberFacts DEF Open
    <3>4. PICK d \in Caller : Waiting(d) /\ req[d] = r /\ sock[d] = s
      BY <3>1, <3>3 DEF IInv, NoStaleReply
    <3> QED
      BY <1>3, <1>4, <3>4
  <2> QED
    BY <1>2, <2>1 DEF IInv, NoStaleReply
<1>14. UnseenOnce' /\ AnsweredOnce' /\ HandledCount'
  BY <1>2 DEF IInv, UnseenOnce, AnsweredOnce, HandledCount
<1>15. Unsent'
  <2>1. ASSUME NEW d \in Caller, d # c, pc'[d] \in {"pack", "send"}
        PROVE  pc[d] \in {"pack", "send"} /\ req'[d] = req[d]
    BY <1>3, <2>1
  <2>2. /\ outcome[n] = "none"
        /\ \A m \in wire : m.req # n
        /\ \A w \in Worker : Carries(w) => worker[w].req # n
    BY FreshNumber
  <2> QED
    BY <1>2, <1>4, <2>1, <2>2 DEF IInv, Unsent, Carries
<1>16. Verdicts'
  <2>1. resp[n] = Null
    BY FreshNumber
  <2> QED
    BY <1>2, <2>1 DEF IInv, Verdicts, Verdict
<1> QED
  BY <1>5, <1>7, <1>8, <1>11, <1>12, <1>13, <1>14, <1>15, <1>16
  DEF IInv, SocketStates

\* A pool thread that ends closes its idle socket.
LEMMA ThreadExitsStep ==
    ASSUME IInv, TypeOK', NEW t \in Thread, ThreadExits(t)
    PROVE  IInv'
<1> USE MainAssumption
<1>1. /\ t \in Caller
      /\ pc[t] = "idle"
      /\ tsd[t] \in Sock
      /\ Owns(t, tsd[t])
  BY DEF IInv, TypeOK, ThreadExits, At, SocketPool_renew_socket, Owns, Caller
<1>2. /\ UNCHANGED <<nreq, pc, req, sock, wire, worker, handled, outcome, err,
                     resp>>
      /\ tsd' = [tsd EXCEPT ![t] = Null]
      /\ sockState' = [sockState EXCEPT ![tsd[t]] = "closed"]
      /\ replies' \subseteq replies
      /\ \A c \in Caller : Waiting(c)' <=> Waiting(c)
  BY DEF ThreadExits, SocketPool_renew_socket, Close, serverVars, Waiting
<1>3. Numbered'
  <2>1. tsd[t] <= nreq /\ 0 <= nreq
    BY DEF IInv, TypeOK, Numbered
  <2>2. \A r \in Req : r > nreq => sockState'[r] = "none"
    BY <1>1, <1>2, <2>1, NumberFacts DEF IInv, TypeOK, Numbered
  <2>3. \A u \in Thread : tsd'[u] <= nreq
    BY <1>2, <2>1 DEF IInv, TypeOK, Numbered, Null
  <2> QED
    BY <1>2, <2>2, <2>3 DEF IInv, Numbered, Carries
<1>4. CallsDistinct' /\ BusyCalls' /\ HandledCount'
  BY <1>1, <1>2 DEF IInv, TypeOK, CallsDistinct, BusyCalls, HandledCount
<1>5. ASSUME NEW d \in Caller, NEW s \in Sock
      PROVE  Owns(d, s)' <=> Owns(d, s) /\ s # tsd[t]
  <2>1. Owns(d, s) /\ d # t => s # tsd[t]
    BY <1>1 DEF IInv, OneOwner, SocketStates, Open
  <2>2. Owns(t, s) => s = tsd[t]
    BY DEF Owns
  <2> QED
    BY <1>2, <2>1, <2>2, NumberFacts DEF IInv, TypeOK, Owns
<1>6. SocketStates' /\ OneOwner'
  <2>1. \A s \in Sock : s # tsd[t] => sockState'[s] = sockState[s]
    BY <1>2 DEF IInv, TypeOK
  <2>2. SocketStates'
    BY <1>2, <1>5, <2>1 DEF IInv, SocketStates
  <2>3. \A s \in Sock : Open(s)' => s # tsd[t] /\ Open(s)
    BY <1>1, <1>2, <2>1 DEF IInv, TypeOK, Open
  <2> QED
    BY <1>5, <2>2, <2>3 DEF IInv, OneOwner
<1>7. NoStaleReply'
  <2>1. \A s \in Sock : Open(s)' => Open(s)
    BY <1>1, <1>2 DEF IInv, TypeOK, Open
  <2>2. \A r \in Req, s \in Sock : InFlight(r, s)' => InFlight(r, s)
    BY <1>2 DEF InFlight
  <2> QED
    BY <1>2, <2>1, <2>2 DEF IInv, NoStaleReply
<1>8. UnseenOnce' /\ AnsweredOnce' /\ Verdicts'
  BY <1>2 DEF IInv, UnseenOnce, AnsweredOnce, Verdicts, Verdict
<1>9. Unsent'
  BY <1>2 DEF IInv, Unsent, Carries
<1> QED
  BY <1>3, <1>4, <1>6, <1>7, <1>8, <1>9 DEF IInv

-----------------------------------------------------------------------------
(* Steps of the server and of the network.  They leave the client alone,   *)
(* so only the parts about what is in flight can be disturbed.             *)

\* only requests that exist have been handled
LEMMA UsedNumbers ==
    ASSUME IInv
    PROVE  \A r \in Req : outcome[r] = "none" \/ r <= nreq
<1>1. nreq \in Nat /\ Req \subseteq Nat
  BY NumberFacts DEF IInv, TypeOK
<1>2. \A r \in Nat : r > nreq \/ r <= nreq
  BY <1>1
<1> QED
  BY <1>1, <1>2 DEF IInv, Numbered

\* The client's part of the invariant survives every step that leaves the
\* client alone and brings no new number into play.
LEMMA ClientUntouched ==
    ASSUME IInv, UNCHANGED <<clientVars, err, resp>>,
           \A r \in Req : outcome'[r] = "none" \/ r <= nreq,
           \A m \in wire' : m \in wire,
           \A m \in replies' : m.req <= nreq /\ m.sock <= nreq,
           \A w \in Worker : Carries(w)' =>
             worker'[w].req <= nreq /\ worker'[w].sock <= nreq
    PROVE  /\ Numbered'
           /\ CallsDistinct'
           /\ BusyCalls'
           /\ SocketStates'
           /\ OneOwner'
<1>0. UNCHANGED <<nreq, tsd, sockState, pc, req, sock, err, resp>>
  BY DEF clientVars
<1>1. Numbered'
  <2>1. \A r \in Req : r > nreq => outcome'[r] = "none"
    <3>1. nreq \in Nat /\ Req \subseteq Nat
      BY NumberFacts DEF IInv, TypeOK
    <3>2. \A r \in Nat : r > nreq => ~ (r <= nreq)
      BY <3>1
    <3> QED
      BY <3>1, <3>2
  <2>2. /\ \A t \in Thread : tsd'[t] <= nreq'
        /\ \A c \in Caller : req'[c] <= nreq' /\ sock'[c] <= nreq'
        /\ \A m \in wire' : m.req <= nreq' /\ m.sock <= nreq'
        /\ \A r \in Req : r > nreq' =>
             sockState'[r] = "none" /\ err'[r] = "pending" /\ resp'[r] = Null
    BY <1>0 DEF IInv, Numbered
  <2> QED
    BY <1>0, <2>1, <2>2 DEF Numbered
<1>2. CallsDistinct' /\ BusyCalls'
  BY <1>0 DEF IInv, CallsDistinct, BusyCalls
<1>3. /\ \A c \in Caller, s \in Sock : Owns(c, s)' <=> Owns(c, s)
      /\ \A c \in Caller : Waiting(c)' <=> Waiting(c)
      /\ \A s \in Sock : Open(s)' <=> Open(s)
  BY <1>0 DEF Owns, Waiting, Open
<1>4. SocketStates' /\ OneOwner'
  BY <1>0, <1>3 DEF IInv, SocketStates, OneOwner
<1> QED
  BY <1>1, <1>2, <1>4

\* NoStaleReply survives when nothing new is in flight.
LEMMA NothingNewInFlight ==
    ASSUME IInv, UNCHANGED <<clientVars, err, resp>>,
           \A r \in Req, s \in Sock : InFlight(r, s)' /\ Open(s) => InFlight(r, s)
    PROVE  NoStaleReply'
<1>1. \A s \in Sock : Open(s)' <=> Open(s)
  BY DEF Open, clientVars
<1>2. \A c \in Caller : Waiting(c)' <=> Waiting(c)
  BY DEF Waiting, clientVars
<1> QED
  BY <1>1, <1>2 DEF IInv, NoStaleReply, clientVars

\* Messages that vanish and workers that stop leave the invariant intact.
LEMMA LossStep ==
    ASSUME IInv, TypeOK', UNCHANGED <<clientVars, handled, outcome, err, resp>>,
           wire' \subseteq wire, replies' \subseteq replies,
           \A v \in Worker : worker'[v] = worker[v] \/ ~ Carries(v)'
    PROVE  IInv'
<1>1. /\ Numbered' /\ CallsDistinct' /\ BusyCalls'
      /\ SocketStates' /\ OneOwner'
  <2>1. \A r \in Req : outcome'[r] = "none" \/ r <= nreq
    BY UsedNumbers
  <2>2. /\ \A m \in replies' : m.req <= nreq /\ m.sock <= nreq
        /\ \A w \in Worker : Carries(w)' =>
             worker'[w].req <= nreq /\ worker'[w].sock <= nreq
    BY DEF IInv, Numbered, Carries
  <2> QED
    BY <2>1, <2>2, ClientUntouched
<1>2. NoStaleReply'
  <2>1. \A r \in Req, s \in Sock : InFlight(r, s)' => InFlight(r, s)
    BY DEF InFlight, Carries
  <2> QED
    BY <2>1, NothingNewInFlight
<1>3. \A v \in Worker :
        /\ worker'[v].st = "received" => worker'[v] = worker[v]
        /\ worker'[v].st = "handled" => worker'[v] = worker[v]
  BY DEF Carries
<1>4. UnseenOnce' /\ AnsweredOnce' /\ HandledCount'
  BY <1>3 DEF IInv, UnseenOnce, AnsweredOnce, HandledCount
<1>5. Unsent'
  BY <1>3 DEF IInv, Unsent, Carries, clientVars
<1>6. Verdicts'
  BY <1>3 DEF IInv, Verdicts, Verdict
<1> QED
  BY <1>1, <1>2, <1>4, <1>5, <1>6 DEF IInv

\* A request that a worker receives leaves the wire.
LEMMA WorkerReceivesStep ==
    ASSUME IInv, TypeOK', NEW w \in Worker, WorkerReceives(w)
    PROVE  IInv'
<1>1. PICK m \in wire :
        /\ wire' = wire \ {m}
        /\ worker' = [worker EXCEPT ![w] =
                        [st |-> "received", req |-> m.req, sock |-> m.sock]]
  BY DEF WorkerReceives
<1>2. /\ UNCHANGED <<clientVars, replies, handled, outcome, err, resp>>
      /\ worker[w].st = "idle"
      /\ worker'[w] = [st |-> "received", req |-> m.req, sock |-> m.sock]
      /\ \A v \in Worker : v # w => worker'[v] = worker[v]
  BY <1>1 DEF WorkerReceives, IdleWorker, IInv, TypeOK
<1>3. m.req \in Req /\ m.sock \in Sock
  BY DEF IInv, TypeOK, Message
<1>4. /\ Numbered' /\ CallsDistinct' /\ BusyCalls'
      /\ SocketStates' /\ OneOwner'
  <2>1. \A r \in Req : outcome'[r] = "none" \/ r <= nreq
    BY <1>2, UsedNumbers
  <2>2. /\ \A n \in replies' : n.req <= nreq /\ n.sock <= nreq
        /\ \A v \in Worker : Carries(v)' =>
             worker'[v].req <= nreq /\ worker'[v].sock <= nreq
    BY <1>2 DEF IInv, Numbered, Carries
  <2> QED
    BY <1>1, <1>2, <2>1, <2>2, ClientUntouched
<1>5. NoStaleReply'
  <2>1. \A r \in Req, s \in Sock : InFlight(r, s)' => InFlight(r, s)
    BY <1>1, <1>2 DEF InFlight
  <2> QED
    BY <1>2, <2>1, NothingNewInFlight
<1>6. UnseenOnce'
  <2>1. \A n \in wire' : n.req # m.req
    BY <1>1 DEF IInv, UnseenOnce
  <2>2. \A v \in Worker : worker[v].st = "received" => worker[v].req # m.req
    BY DEF IInv, UnseenOnce
  <2>3. outcome[m.req] = "none"
    BY DEF IInv, UnseenOnce
  <2> QED
    BY <1>1, <1>2, <2>1, <2>2, <2>3 DEF IInv, UnseenOnce
<1>7. AnsweredOnce' /\ HandledCount'
  BY <1>2 DEF IInv, AnsweredOnce, HandledCount
<1>8. Unsent'
  BY <1>1, <1>2 DEF IInv, Unsent, Carries, clientVars
<1>9. Verdicts'
  BY <1>2 DEF IInv, Verdicts, Verdict
<1> QED
  BY <1>4, <1>5, <1>6, <1>7, <1>8, <1>9 DEF IInv

\* What a handler does, in terms of the verdict it leaves: the request had
\* none before, and the response's errno agrees with what was done.
LEMMA HandlerVerdict ==
    ASSUME IInv, NEW w \in Worker, WorkerHandles(w)
    PROVE  \E p \in ProtoErrno, o \in Outcome :
             /\ Answer(w, p)
             /\ outcome' = [outcome EXCEPT ![worker[w].req] = o]
             /\ handled' = IF o \in Executed
                             THEN [handled EXCEPT ![worker[w].req] = @ + 1]
                             ELSE handled
             /\ o # "none"
             /\ Errno_to_local(p) = "0" => o \in {"done", "aborted"}
             /\ Errno_to_local(p) = "ENOENT" => o = "failed"
             /\ Errno_to_local(p) = "EINVAL" => o \in {"failed", "refused"}
             /\ Errno_to_local(p) = "EIO" => o \in {"failed", "unserializable"}
<1> USE DEF Errno_to_local, ErrnoToLocalMap, ProtoErrno, Outcome, Executed
<1>1. CASE OpDone(w)
  <2>1. PICK e \in OpErrno :
          /\ Answer(w, Errno_from_local(e))
          /\ handled' = [handled EXCEPT ![worker[w].req] = @ + 1]
          /\ outcome' = [outcome EXCEPT ![worker[w].req] =
                           IF e = "0" THEN "done" ELSE "failed"]
    BY <1>1 DEF OpDone
  <2>2. /\ Errno_from_local(e) \in ProtoErrno
        /\ Errno_to_local(Errno_from_local(e)) = "0" <=> e = "0"
        /\ e # "0" => Errno_to_local(Errno_from_local(e)) \in
                        {"ENOENT", "EINVAL", "EIO"}
    BY DEF Errno_from_local, OpErrno
  <2> QED
    BY <2>1, <2>2
<1>2. CASE OpRefused(w)
  BY <1>2 DEF OpRefused
<1>3. CASE OpAborts(w)
  BY <1>3 DEF OpAborts
<1>4. CASE OpUnserializable(w)
  BY <1>4 DEF OpUnserializable
<1> QED
  BY <1>1, <1>2, <1>3, <1>4 DEF WorkerHandles

\* A handler executes a request that nothing else carries an answer to.
LEMMA WorkerHandlesStep ==
    ASSUME IInv, TypeOK', NEW w \in Worker, WorkerHandles(w)
    PROVE  IInv'
<1>1. PICK p \in ProtoErrno, o \in Outcome :
        /\ Answer(w, p)
        /\ outcome' = [outcome EXCEPT ![worker[w].req] = o]
        /\ handled' = IF o \in Executed
                        THEN [handled EXCEPT ![worker[w].req] = @ + 1]
                        ELSE handled
        /\ o # "none"
        /\ Errno_to_local(p) = "0" => o \in {"done", "aborted"}
        /\ Errno_to_local(p) = "ENOENT" => o = "failed"
        /\ Errno_to_local(p) = "EINVAL" => o \in {"failed", "refused"}
        /\ Errno_to_local(p) = "EIO" => o \in {"failed", "unserializable"}
  BY HandlerVerdict
<1>2. /\ worker[w].st = "received"
      /\ worker[w].req \in Req
      /\ worker[w].sock \in Sock
  BY WorkerFields DEF IInv, TypeOK, WorkerHandles, Carries
<1>3. PICK r \in Req : r = worker[w].req
  BY <1>2
<1>4. /\ worker'[w] = [st |-> "handled", req |-> r,
                       sock |-> worker[w].sock, errno |-> p]
      /\ \A v \in Worker : v # w => worker'[v] = worker[v]
  BY <1>1, <1>3 DEF Answer, IInv, TypeOK
<1>5. /\ outcome'[r] = o
      /\ \A q \in Req : q # r => outcome'[q] = outcome[q]
      /\ \A q \in Req : q # r => handled'[q] = handled[q]
  BY <1>1, <1>3 DEF IInv, TypeOK
<1>6. UNCHANGED <<clientVars, wire, replies, err, resp>>
  BY DEF WorkerHandles
<1>7. /\ outcome[r] = "none"
      /\ \A m \in wire : m.req # r
      /\ \A m \in replies : m.req # r
      /\ \A v \in Worker : v # w /\ Carries(v) => worker[v].req # r
      /\ \A c \in Caller : pc[c] \in {"pack", "send"} => req[c] # r
      /\ resp[r] = Null
  <2>1. /\ outcome[r] = "none"
        /\ \A m \in wire : m.req # r
        /\ \A v \in Worker : v # w /\ worker[v].st = "received"
             => worker[v].req # r
    BY <1>2, <1>3 DEF IInv, UnseenOnce
  <2>2. /\ \A m \in replies : m.req # r
        /\ \A v \in Worker : worker[v].st = "handled" => worker[v].req # r
        /\ resp[r] = Null
    BY <2>1 DEF IInv, Verdicts, Verdict
  <2>3. \A c \in Caller : pc[c] \in {"pack", "send"} => req[c] # r
    BY <1>2, <1>3 DEF IInv, Unsent, Carries
  <2> QED
    BY <2>1, <2>2, <2>3 DEF Carries
<1>8. /\ Numbered' /\ CallsDistinct' /\ BusyCalls'
      /\ SocketStates' /\ OneOwner'
  <2>1. r <= nreq
    BY <1>2, <1>3 DEF IInv, Numbered, Carries
  <2>2. \A q \in Req : outcome'[q] = "none" \/ q <= nreq
    BY <1>5, <2>1, UsedNumbers
  <2>3. /\ \A n \in replies' : n.req <= nreq /\ n.sock <= nreq
        /\ \A v \in Worker : Carries(v)' =>
             worker'[v].req <= nreq /\ worker'[v].sock <= nreq
    BY <1>2, <1>3, <1>4, <1>6 DEF IInv, Numbered, Carries
  <2> QED
    BY <1>6, <2>2, <2>3, ClientUntouched
<1>9. NoStaleReply'
  <2>1. \A q \in Req, s \in Sock : InFlight(q, s)' => InFlight(q, s)
    BY <1>2, <1>3, <1>4, <1>6 DEF InFlight
  <2> QED
    BY <1>6, <2>1, NothingNewInFlight
<1>10. UnseenOnce'
  <2>1. \A m \in wire : m.req \in Req
    BY DEF IInv, TypeOK, Message
  <2>2. \A v \in Worker : worker'[v].st = "received" =>
          /\ v # w /\ worker'[v] = worker[v]
          /\ worker[v].req \in Req /\ worker[v].req # r
    BY <1>4, <1>7, WorkerFields DEF IInv, TypeOK, Carries
  <2> QED
    BY <1>5, <1>6, <1>7, <2>1, <2>2 DEF IInv, UnseenOnce
<1>11. AnsweredOnce'
  BY <1>4, <1>6, <1>7 DEF IInv, AnsweredOnce, Carries
<1>12. Unsent'
  <2>1. \A c \in Caller : pc[c] \in {"pack", "send"} =>
          req[c] \in Req /\ req[c] # r
    BY <1>7 DEF IInv, BusyCalls
  <2>2. UNCHANGED <<pc, req, wire>>
    BY <1>6 DEF clientVars
  <2> QED
    BY <1>2, <1>3, <1>4, <1>5, <2>1, <2>2 DEF IInv, Unsent, Carries
<1>13. HandledCount'
  <2>1. handled[r] = 0
    BY <1>7 DEF IInv, HandledCount, Executed
  <2>2. handled'[r] = IF o \in Executed THEN 1 ELSE 0
    BY <1>1, <1>3, <2>1 DEF IInv, TypeOK
  <2> QED
    BY <1>5, <2>2 DEF IInv, HandledCount
<1>14. Verdicts'
  <2>1. /\ \A m \in replies : m.req \in Req
        /\ \A v \in Worker : Carries(v) => worker[v].req \in Req
    BY WorkerFields DEF IInv, TypeOK, Reply
  <2>2. \A m \in replies : Verdict(m.req, Errno_to_local(m.errno))'
    BY <1>5, <1>7, <2>1 DEF IInv, Verdicts, Verdict
  <2>3. ASSUME NEW v \in Worker, worker'[v].st = "handled"
        PROVE  Verdict(worker[v].req, Errno_to_local(worker[v].errno))'
    <3>1. CASE v = w
      BY <1>1, <1>4, <1>5, <3>1 DEF Verdict
    <3>2. CASE v # w
      BY <1>4, <1>5, <1>7, <2>1, <2>3, <3>2 DEF IInv, Verdicts, Verdict, Carries
    <3> QED
      BY <3>1, <3>2
  <2>4. \A q \in Req : (resp[q] # Null => Verdict(q, err[q]))'
    BY <1>5, <1>6, <1>7 DEF IInv, Verdicts, Verdict
  <2> QED
    BY <1>6, <2>2, <2>3, <2>4 DEF Verdicts
<1> QED
  BY <1>8, <1>9, <1>10, <1>11, <1>12, <1>13, <1>14 DEF IInv

\* A worker's reply is the only one to its request.
LEMMA WorkerRepliesStep ==
    ASSUME IInv, TypeOK', NEW w \in Worker, WorkerReplies(w)
    PROVE  IInv'
<1>1. /\ UNCHANGED <<clientVars, wire, handled, outcome, err, resp>>
      /\ ~ Carries(w)'
      /\ \A v \in Worker : v # w => worker'[v] = worker[v]
  BY DEF WorkerReplies, IInv, TypeOK, Carries, IdleWorker
<1>2. CASE ~ Open(worker[w].sock)
  <2>1. replies' = replies
    BY <1>2 DEF WorkerReplies
  <2> QED
    BY <1>1, <2>1, LossStep
<1>3. CASE Open(worker[w].sock)
  <2>1. PICK n \in Reply : n = [req |-> worker[w].req, sock |-> worker[w].sock,
                                errno |-> worker[w].errno]
    BY WorkerFields DEF IInv, TypeOK, WorkerReplies, Carries, Reply
  <2>2. /\ worker[w].st = "handled"
        /\ Carries(w)
        /\ n.req = worker[w].req
        /\ n.sock = worker[w].sock
        /\ n.errno = worker[w].errno
    BY <2>1, WorkerFields DEF IInv, TypeOK, WorkerReplies, Carries
  <2>3. replies' = replies \cup {n}
    BY <1>3, <2>1 DEF WorkerReplies
  <2>4. \A v \in Worker :
          /\ Carries(v)' => v # w /\ worker'[v] = worker[v]
          /\ worker'[v].st = "received" => v # w /\ worker'[v] = worker[v]
          /\ worker'[v].st = "handled" => v # w /\ worker'[v] = worker[v]
    BY <1>1 DEF Carries
  <2>5. /\ Numbered' /\ CallsDistinct' /\ BusyCalls'
        /\ SocketStates' /\ OneOwner'
    <3>1. /\ \A m \in replies' : m.req <= nreq /\ m.sock <= nreq
          /\ \A v \in Worker : Carries(v)' =>
               worker'[v].req <= nreq /\ worker'[v].sock <= nreq
      BY <2>2, <2>3, <2>4 DEF IInv, Numbered, Carries
    <3>2. \A r \in Req : outcome'[r] = "none" \/ r <= nreq
      BY <1>1, UsedNumbers
    <3> QED
      BY <1>1, <3>1, <3>2, ClientUntouched
  <2>6. NoStaleReply'
    <3>1. \A r \in Req, s \in Sock : InFlight(r, s)' => InFlight(r, s)
      BY <1>1, <2>2, <2>3, <2>4 DEF InFlight
    <3> QED
      BY <1>1, <3>1, NothingNewInFlight
  <2>7. UnseenOnce' /\ HandledCount'
    BY <1>1, <2>4 DEF IInv, UnseenOnce, HandledCount
  <2>8. AnsweredOnce'
    <3>1. \A m \in replies : m.req # n.req
      BY <2>2 DEF IInv, AnsweredOnce
    <3>2. \A v \in Worker : v # w /\ worker[v].st = "handled" =>
            worker[v].req # n.req
      BY <2>2 DEF IInv, AnsweredOnce
    <3> QED
      BY <2>3, <2>4, <3>1, <3>2 DEF IInv, AnsweredOnce
  <2>9. Unsent'
    BY <1>1, <2>4 DEF IInv, Unsent, Carries, clientVars
  <2>10. Verdicts'
    <3>1. Verdict(n.req, Errno_to_local(n.errno))
      BY <2>2 DEF IInv, Verdicts
    <3> QED
      BY <1>1, <2>3, <2>4, <3>1 DEF IInv, Verdicts, Verdict
  <2> QED
    BY <2>5, <2>6, <2>7, <2>8, <2>9, <2>10 DEF IInv
<1> QED
  BY <1>2, <1>3

-----------------------------------------------------------------------------
(* The invariant.                                                          *)

\* The invariant holds when the client has not been started.
LEMMA InitInv == Init => IInv
<1> SUFFICES ASSUME Init PROVE IInv
  OBVIOUS
<1> USE BoundsAssumption
<1>1. TypeOK
  <2>1. nreq \in 0 .. MaxRequest /\ reps \in [Caller -> 0 .. SendRepeat]
    BY DEF Init
  <2>2. worker \in [Worker -> WorkerState]
    BY DEF Init, WorkerState
  <2>3. handled \in [Req -> Nat] /\ outcome \in [Req -> Outcome]
    BY DEF Init, Outcome
  <2> QED
    BY <2>1, <2>2, <2>3 DEF Init, TypeOK
<1>2. \A w \in Worker : /\ ~ Carries(w)
                        /\ worker[w].st # "received"
                        /\ worker[w].st # "handled"
  BY DEF Init, IdleWorker, DeadWorker, Carries
<1>3. Numbered
  BY <1>2, NumberFacts DEF Init, Numbered, Null
<1>4. CallsDistinct /\ BusyCalls
  BY DEF Init, CallsDistinct, BusyCalls
<1>5. SocketStates /\ OneOwner
  <2>1. \A s \in Sock : ~ Open(s) /\ \A c \in Caller : ~ Owns(c, s)
    BY NumberFacts DEF Init, Open, Owns, Caller
  <2> QED
    BY <2>1 DEF SocketStates, OneOwner
<1>6. NoStaleReply
  BY DEF Init, NoStaleReply, Open
<1>7. UnseenOnce /\ AnsweredOnce /\ Unsent /\ HandledCount /\ Verdicts
  BY <1>2 DEF Init, UnseenOnce, AnsweredOnce, Unsent, HandledCount, Executed,
    Verdicts
<1> QED
  BY <1>1, <1>3, <1>4, <1>5, <1>6, <1>7 DEF IInv

\* Every step of every caller, worker and the environment preserves the
\* invariant.
LEMMA InductiveStep == IInv /\ [Next]_vars => IInv'
<1> SUFFICES ASSUME IInv, [Next]_vars PROVE IInv'
  OBVIOUS
<1>0. TypeOK'
  BY TypeStep DEF IInv
<1>1. ASSUME NEW c \in Caller, CallStep(c) PROVE IInv'
  <2>1. CASE Pack(c) \/ SendAgain(c) \/ InitResp(c)
    BY <1>0, <2>1, LocalStep
  <2>2. CASE SendOk(c)
    BY <1>0, <2>2, SendOkStep
  <2>3. CASE PollReply(c)
    BY <1>0, <2>3, PollReplyStep
  <2>4. CASE \/ PackFails(c) \/ SendTimesOut(c) \/ SendFails(c)
             \/ InitRespFails(c) \/ RecvFails(c) \/ PollExpires(c)
    BY <1>0, <2>4, FailingActions, FailedStep DEF IInv
  <2> QED
    BY <1>1, <2>1, <2>2, <2>3, <2>4 DEF CallStep
<1>2. ASSUME UNCHANGED <<nreq, tsd, sockState, pc, req, sock, reps, wire,
                         replies, serverVars, err, resp>>
      PROVE  IInv'
  <2>1. /\ UNCHANGED <<nreq, tsd, sockState, pc, req, sock, wire, replies,
                       worker, handled, outcome, err, resp>>
        /\ \A c \in Caller, s \in Sock : Owns(c, s)' <=> Owns(c, s)
        /\ \A c \in Caller : Waiting(c)' <=> Waiting(c)
        /\ \A s \in Sock : Open(s)' <=> Open(s)
        /\ \A w \in Worker : Carries(w)' <=> Carries(w)
        /\ \A r \in Req, s \in Sock : InFlight(r, s)' <=> InFlight(r, s)
    BY <1>2 DEF serverVars, Owns, Waiting, Open, Carries, InFlight
  <2>2. Numbered' /\ CallsDistinct' /\ BusyCalls'
    BY <2>1 DEF IInv, Numbered, CallsDistinct, BusyCalls
  <2>3. SocketStates' /\ OneOwner' /\ NoStaleReply'
    BY <2>1 DEF IInv, SocketStates, OneOwner, NoStaleReply
  <2>4. UnseenOnce' /\ AnsweredOnce' /\ Unsent' /\ HandledCount'
    BY <2>1 DEF IInv, UnseenOnce, AnsweredOnce, Unsent, HandledCount
  <2>5. Verdicts'
    BY <2>1 DEF IInv, Verdicts, Verdict
  <2> QED
    BY <1>0, <2>2, <2>3, <2>4, <2>5 DEF IInv
<1>3. ASSUME NEW c \in Caller, UninitialisedClose(c) PROVE IInv'
  BY <1>2, <1>3 DEF UninitialisedClose
<1>4. PICK n \in Nat : n = nreq + 1
  BY DEF IInv, TypeOK
<1>5. ASSUME NEW t \in Thread, PoolStep(t) PROVE IInv'
  <2>0. t \in Caller /\ t # Main
    BY MainAssumption DEF Caller
  <2>1. CASE Begin(t)
    <3>1. CASE GetPooledSocket(t)
      BY <1>0, <1>4, <2>0, <2>1, <3>1, BeginStep DEF Begin, At
    <3>2. CASE GetNewSocket(t)
      BY <1>0, <1>4, <2>0, <2>1, <3>2, BeginStep DEF Begin, At, GetNewSocket
    <3> QED
      BY <2>1, <3>1, <3>2 DEF Begin
  <2>2. CASE BeginNoSocket(t)
    BY <1>0, <1>4, <2>0, <2>2, BeginStep DEF BeginNoSocket, At
  <2>3. CASE SendInterrupted(t)
    BY <1>0, <2>0, <2>3, FailingActions, FailedStep DEF IInv
  <2>4. CASE ThreadExits(t)
    BY <1>0, <2>4, ThreadExitsStep
  <2> QED
    BY <1>5, <2>1, <2>2, <2>3, <2>4 DEF PoolStep
<1>6. CASE PingStep
  <2>1. CASE BeginPing
    <3>1. Main \in Caller
      BY DEF Caller
    <3> QED
      BY <1>0, <1>4, <2>1, <3>1, BeginStep DEF BeginPing, At
  <2>2. CASE PingNoSocket
    BY <1>2, <2>2 DEF PingNoSocket
  <2> QED
    BY <1>6, <2>1, <2>2 DEF PingStep
<1>7. ASSUME NEW w \in Worker, WorkerStep(w) PROVE IInv'
  <2>1. CASE WorkerReceives(w)
    BY <1>0, <2>1, WorkerReceivesStep
  <2>2. CASE WorkerHandles(w)
    BY <1>0, <2>2, WorkerHandlesStep
  <2>3. CASE WorkerReplies(w)
    BY <1>0, <2>3, WorkerRepliesStep
  <2>4. CASE WorkerEnds(w)
    <3>1. \A v \in Worker : worker'[v] = worker[v] \/ ~ Carries(v)'
      BY <2>4 DEF WorkerEnds, IInv, TypeOK, Carries, DeadWorker
    <3> QED
      BY <1>0, <2>4, <3>1, LossStep DEF WorkerEnds
  <2> QED
    BY <1>7, <2>1, <2>2, <2>3, <2>4 DEF WorkerStep
<1>8. CASE Environment
  <2>1. CASE ServerRestarts
    <3>1. \A v \in Worker : ~ Carries(v)'
      BY <2>1 DEF ServerRestarts, Carries, IdleWorker, DeadWorker
    <3> QED
      BY <1>0, <2>1, <3>1, LossStep DEF ServerRestarts
  <2>2. CASE LoseRequest \/ LoseReply
    <3>1. /\ wire' \subseteq wire
          /\ replies' \subseteq replies
          /\ UNCHANGED <<clientVars, worker, handled, outcome, err, resp>>
      BY <2>2 DEF LoseRequest, LoseReply, serverVars
    <3> QED
      BY <1>0, <3>1, LossStep
  <2> QED
    BY <1>8, <2>1, <2>2 DEF Environment
<1>9. CASE UNCHANGED vars
  BY <1>2, <1>9 DEF vars, clientVars
<1> QED
  BY <1>1, <1>3, <1>5, <1>6, <1>7, <1>8, <1>9 DEF Next

\* IInv is an invariant of the exchange.
THEOREM Invariant == Spec => []IInv
BY InitInv, InductiveStep, PTL DEF Spec

\* Every step keeps every variable in its type: the numbers of requests and
\* sockets, the states of the REQ sockets, the errnos that travel.
THEOREM TypeCorrect == Spec => []TypeOK
<1>1. IInv => TypeOK
  BY DEF IInv
<1> QED
  BY <1>1, Invariant, PTL

\* However calls fail, threads come and go and the server restarts, no call is
\* given the reply to another one.
THEOREM RepliesMatchRequests == Spec => []NoStaleReply
<1>1. IInv => NoStaleReply
  BY DEF IInv
<1> QED
  BY <1>1, Invariant, PTL

\* The socket a thread finds in the pool can always send.
THEOREM PoolHoldsReadySockets == Spec => []PooledSocketReady
<1>1. IInv => PooledSocketReady
  <2> SUFFICES ASSUME IInv, NEW t \in Thread, tsd[t] # Null, ~ Waiting(t)
               PROVE  sockState[tsd[t]] = "ready"
    BY DEF PooledSocketReady
  <2>1. tsd[t] \in Sock /\ t \in Caller /\ Owns(t, tsd[t])
    BY DEF IInv, TypeOK, Owns, Caller
  <2> QED
    BY <2>1 DEF IInv, SocketStates
<1> QED
  BY <1>1, Invariant, PTL

\* Every open socket has exactly one owner: renewal leaks none.
THEOREM SocketsOwned == Spec => []OneOwner
<1>1. IInv => OneOwner
  BY DEF IInv
<1> QED
  BY <1>1, Invariant, PTL

\* The server executes no request twice.
THEOREM ExecutedAtMostOnce == Spec => []AtMostOnce
<1>1. IInv => AtMostOnce
  BY DEF IInv, HandledCount, AtMostOnce
<1> QED
  BY <1>1, Invariant, PTL

\* The errno an answered call returns tells what the server did with it.
THEOREM ErrnoTellsOutcome == Spec => []VerdictIsServers
<1>1. IInv => VerdictIsServers
  BY DEF IInv, HandledCount, Verdicts, Verdict, VerdictIsServers
<1> QED
  BY <1>1, Invariant, PTL

-----------------------------------------------------------------------------
(* Failures that are reported as a success.                                *)

\* request r is nowhere, and no handler has seen it
Absent(r) ==
    /\ outcome[r] = "none"
    /\ \A m \in wire \cup replies : m.req # r
    /\ \A w \in Worker : Carries(w) => worker[w].req # r

\* A request that is nowhere and that nobody is about to send stays nowhere.
LEMMA AbsentStep ==
    ASSUME IInv, [Next]_vars, NEW r \in Req, Absent(r),
           \A c \in Caller : pc[c] # "idle" => req[c] # r
    PROVE  Absent(r)'
<1>0. TypeOK /\ BusyCalls
  BY DEF IInv
<1> USE DEF Absent, Carries
<1>1. ASSUME NEW c \in Caller, NEW e, Failed(c, e) PROVE Absent(r)'
  BY <1>1 DEF Failed, Dropped, Kept, serverVars
<1>2. ASSUME NEW c \in Caller, CallStep(c) PROVE Absent(r)'
  <2>1. CASE Pack(c) \/ SendAgain(c) \/ InitResp(c)
    BY <2>1 DEF Pack, SendAgain, InitResp, serverVars
  <2>2. CASE SendOk(c)
    BY <2>2 DEF SendOk, At, serverVars
  <2>3. CASE PollReply(c)
    <3>1. replies' \subseteq replies
      BY <2>3 DEF PollReply, CallEnds, Close
    <3> QED
      BY <2>3, <3>1 DEF PollReply, serverVars
  <2>4. CASE \/ PackFails(c) \/ SendTimesOut(c) \/ SendFails(c)
             \/ InitRespFails(c) \/ RecvFails(c) \/ PollExpires(c)
    BY <1>0, <1>1, <2>4, FailingActions
  <2> QED
    BY <1>2, <2>1, <2>2, <2>3, <2>4 DEF CallStep
<1>3. ASSUME NEW c \in Caller, UninitialisedClose(c) PROVE Absent(r)'
  BY <1>3 DEF UninitialisedClose, serverVars
<1>4. ASSUME NEW t \in Thread, PoolStep(t) PROVE Absent(r)'
  <2>1. CASE Begin(t) \/ BeginNoSocket(t)
    BY <2>1 DEF Begin, BeginNoSocket, serverVars
  <2>2. CASE SendInterrupted(t)
    <3>1. t \in Caller
      BY DEF Caller
    <3> QED
      BY <1>0, <1>1, <2>2, <3>1, FailingActions
  <2>3. CASE ThreadExits(t)
    BY <2>3 DEF ThreadExits, SocketPool_renew_socket, Close, serverVars
  <2> QED
    BY <1>4, <2>1, <2>2, <2>3 DEF PoolStep
<1>5. CASE PingStep
  BY <1>5 DEF PingStep, BeginPing, PingNoSocket, serverVars
<1>6. ASSUME NEW w \in Worker, WorkerStep(w) PROVE Absent(r)'
  <2>1. CASE WorkerReceives(w)
    BY <1>0, <2>1 DEF WorkerReceives, clientVars, TypeOK
  <2>2. CASE WorkerHandles(w)
    <3>1. PICK p \in ProtoErrno, o \in Outcome :
            /\ Answer(w, p)
            /\ outcome' = [outcome EXCEPT ![worker[w].req] = o]
      BY <2>2, HandlerVerdict
    <3>2. worker[w].st = "received" /\ worker[w].req \in Req /\ worker[w].req # r
      BY <1>0, <2>2, WorkerFields DEF TypeOK, WorkerHandles
    <3>3. worker'[w].req = worker[w].req /\ \A v \in Worker : v # w => worker'[v] = worker[v]
      BY <1>0, <3>1 DEF TypeOK, Answer
    <3> QED
      BY <1>0, <2>2, <3>1, <3>2, <3>3 DEF TypeOK, WorkerHandles
  <2>3. CASE WorkerReplies(w)
    <3>1. worker[w].req # r
      BY <1>0, <2>3, WorkerFields DEF TypeOK, WorkerReplies
    <3> QED
      BY <1>0, <2>3, <3>1 DEF WorkerReplies, IdleWorker, TypeOK
  <2>4. CASE WorkerEnds(w)
    BY <1>0, <2>4 DEF WorkerEnds, DeadWorker, TypeOK
  <2> QED
    BY <1>6, <2>1, <2>2, <2>3, <2>4 DEF WorkerStep
<1>7. CASE Environment
  <2>1. CASE ServerRestarts
    BY <2>1 DEF ServerRestarts, IdleWorker, DeadWorker
  <2>2. CASE LoseRequest \/ LoseReply
    BY <2>2 DEF LoseRequest, LoseReply, serverVars
  <2> QED
    BY <1>7, <2>1, <2>2 DEF Environment
<1>8. CASE UNCHANGED vars
  BY <1>8 DEF vars, serverVars
<1> QED
  BY <1>2, <1>3, <1>4, <1>5, <1>6, <1>7, <1>8 DEF Next

\* A call comes to return 0 without a response only where its request could not be
\* packed.
LEMMA SilentBegins ==
    ASSUME IInv, [Next]_vars, NEW r \in Req, err'[r] = "0", resp'[r] = Null
    PROVE  \/ err[r] = "0" /\ resp[r] = Null
           \/ \E c \in Caller : pc[c] = "pack" /\ req[c] = r /\ Failed(c, "0")
<1> DEFINE Goal == \/ err[r] = "0" /\ resp[r] = Null
                   \/ \E c \in Caller : pc[c] = "pack" /\ req[c] = r /\ Failed(c, "0")
<1> SUFFICES Goal
  OBVIOUS
<1>0. TypeOK /\ BusyCalls
  BY DEF IInv
<1>1. ASSUME UNCHANGED <<err, resp>> PROVE Goal
  BY <1>1
<1>2. ASSUME NEW c \in Caller, NEW e \in ClientErrno, Failed(c, e),
             e = "0" => pc[c] = "pack"
      PROVE  Goal
  <2>1. CASE r = req[c]
    <3>1. e = "0"
      BY <1>0, <1>2, <2>1 DEF Failed, TypeOK
    <3> QED
      BY <1>2, <2>1, <3>1
  <2>2. CASE r # req[c]
    BY <1>0, <1>2, <2>2 DEF Failed, TypeOK
  <2> QED
    BY <2>1, <2>2
<1> HIDE DEF Goal
<1>3. ASSUME NEW c \in Caller, CallStep(c) PROVE Goal
  <2>1. CASE Pack(c) \/ SendAgain(c) \/ InitResp(c) \/ SendOk(c)
    BY <1>1, <2>1 DEF Pack, SendAgain, InitResp, SendOk
  <2>2. CASE PollReply(c)
    <3>1. PICK m \in replies :
            /\ resp' = [resp EXCEPT ![req[c]] = m.req]
            /\ err' = [err EXCEPT ![req[c]] = Errno_to_local(m.errno)]
      BY <2>2 DEF PollReply, CallEnds
    <3>2. m.req # Null
      BY <1>0, NumberFacts DEF TypeOK, Reply
    <3>3. r # req[c]
      BY <1>0, <3>1, <3>2 DEF TypeOK
    <3> QED
      BY <1>0, <3>1, <3>3 DEF TypeOK, Goal
  <2>3. CASE \/ PackFails(c) \/ SendTimesOut(c) \/ SendFails(c)
             \/ InitRespFails(c) \/ RecvFails(c) \/ PollExpires(c)
    BY <1>0, <1>2, <2>3, FailingActions
  <2> QED
    BY <1>3, <2>1, <2>2, <2>3 DEF CallStep
<1>4. ASSUME NEW c \in Caller, UninitialisedClose(c) PROVE Goal
  BY <1>1, <1>4 DEF UninitialisedClose
<1>5. ASSUME NEW t \in Thread, PoolStep(t) PROVE Goal
  <2>1. CASE Begin(t) \/ ThreadExits(t)
    BY <1>1, <2>1 DEF Begin, ThreadExits
  <2>2. CASE BeginNoSocket(t)
    BY <1>0, <2>2 DEF BeginNoSocket, TypeOK, Goal
  <2>3. CASE SendInterrupted(t)
    <3>1. t \in Caller
      BY DEF Caller
    <3> QED
      BY <1>0, <1>2, <2>3, <3>1, FailingActions
  <2> QED
    BY <1>5, <2>1, <2>2, <2>3 DEF PoolStep
<1>6. CASE PingStep
  BY <1>1, <1>6 DEF PingStep, BeginPing, PingNoSocket
<1>7. ASSUME NEW w \in Worker, WorkerStep(w) PROVE Goal
  BY <1>1, <1>7 DEF WorkerStep, WorkerReceives, WorkerHandles, WorkerReplies, WorkerEnds
<1>8. CASE Environment
  BY <1>1, <1>8 DEF Environment, ServerRestarts, LoseRequest, LoseReply
<1>9. CASE UNCHANGED vars
  BY <1>1, <1>9 DEF vars
<1> QED
  BY <1>3, <1>4, <1>5, <1>6, <1>7, <1>8, <1>9 DEF Next

\* A failure that is reported as a success is one of a request that was never sent
\* and never will be: the server does not act on it.
THEOREM SilentFailuresUnsent == Spec => []SilentOnlyUnsent
<1>1. Init => SilentOnlyUnsent
  BY DEF Init, SilentOnlyUnsent
<1>2. ASSUME IInv, SilentOnlyUnsent, [Next]_vars PROVE SilentOnlyUnsent'
  <2> SUFFICES ASSUME NEW r \in Req, err'[r] = "0", resp'[r] = Null
               PROVE  Absent(r)'
    BY DEF SilentOnlyUnsent, Absent, Carries
  <2>1. CASE err[r] = "0" /\ resp[r] = Null
    <3>1. Absent(r)
      BY <1>2, <2>1 DEF SilentOnlyUnsent, Absent, Carries
    <3>2. \A c \in Caller : pc[c] # "idle" => req[c] # r
      BY <1>2, <2>1 DEF IInv, BusyCalls
    <3> QED
      BY <1>2, <3>1, <3>2, AbsentStep
  <2>2. ASSUME NEW c \in Caller, pc[c] = "pack", req[c] = r, Failed(c, "0")
        PROVE  Absent(r)'
    <3>1. /\ outcome[r] = "none"
          /\ \A m \in wire : m.req # r
          /\ \A w \in Worker : Carries(w) => worker[w].req # r
      BY <1>2, <2>2 DEF IInv, Unsent
    <3>2. \A m \in replies : m.req # r
      BY <1>2, <3>1 DEF IInv, Verdicts, Verdict
    <3> QED
      BY <2>2, <3>1, <3>2 DEF Absent, Carries, Failed, Dropped, Kept, serverVars
  <2> QED
    BY <1>2, <2>1, <2>2, SilentBegins
<1> QED
  BY <1>1, <1>2, Invariant, PTL DEF Spec
============================================================================
