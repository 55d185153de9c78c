------------------------- MODULE CommunicateRefines -------------------------
(***************************************************************************)
(* The exchange of Communicate implements the at-most-once call of         *)
(* RemoteCall: every step is a step of one call there, or changes nothing. *)
(***************************************************************************)
EXTENDS CommunicateProofs

\* A call refused for want of a socket has nothing that a worker could still
\* execute.
RefusedUnsent ==
    /\ \A m \in wire : err[m.req] # "ENOTSOCK"
    /\ \A w \in Worker :
         worker[w].st = "received" => err[worker[w].req] # "ENOTSOCK"

\* a step that touches neither the calls nor their executions
Quiet == UNCHANGED <<nreq, err, resp, handled>>

\* call r of caller c ends
Ends(c, r) ==
    /\ c \in Caller
    /\ r = req[c]
    /\ pc[c] # "idle"
    /\ \E e \in ClientErrno \ {"ENOTSOCK"} : err' = [err EXCEPT ![r] = e]
    /\ \/ resp' = resp
       \/ resp' = [resp EXCEPT ![r] = r]
    /\ UNCHANGED <<nreq, wire, worker, handled>>

\* call r begins, or is refused
Begins(c, r) ==
    /\ c \in Caller
    /\ TakeNumber(c)
    /\ r = nreq + 1
    /\ \/ err' = err
       \/ err' = [err EXCEPT ![r] = "ENOTSOCK"]
    /\ UNCHANGED <<wire, worker, handled, resp>>

\* worker w executes request r
Executes(w, r) ==
    /\ w \in Worker
    /\ worker[w].st = "received"
    /\ r = worker[w].req
    /\ handled' = [handled EXCEPT ![r] = @ + 1]
    /\ worker'[w].st = "handled"
    /\ \A v \in Worker : v # w => worker'[v] = worker[v]
    /\ UNCHANGED <<nreq, wire, err, resp>>

\* a quiet step brings no request to where it was not
NoNewRequest ==
    /\ \A m \in wire' :
         m \in wire \/ \E c \in Caller : pc[c] # "idle" /\ m.req = req[c]
    /\ \A w \in Worker : worker'[w].st = "received" =>
         worker'[w] = worker[w] \/ \E m \in wire : worker'[w].req = m.req

\* Every step of the exchange is of one of these kinds.
LEMMA StepKinds ==
    ASSUME IInv, [Next]_vars
    PROVE  \/ Quiet /\ NoNewRequest
           \/ \E c \in Caller, r \in Req : Ends(c, r) \/ Begins(c, r)
           \/ \E w \in Worker, r \in Req : Executes(w, r)
<1> DEFINE Goal == \/ Quiet /\ NoNewRequest
                   \/ \E c \in Caller, r \in Req : Ends(c, r) \/ Begins(c, r)
                   \/ \E w \in Worker, r \in Req : Executes(w, r)
<1> SUFFICES Goal
  OBVIOUS
<1> HIDE DEF Goal
<1> USE DEF NoNewRequest
<1>0. TypeOK /\ BusyCalls
  BY DEF IInv
<1>1. ASSUME NEW c \in Caller, NEW e \in ClientErrno \ {"ENOTSOCK"},
             Failed(c, e)
      PROVE  Goal
  <2>1. req[c] \in Req
    BY <1>0, <1>1 DEF BusyCalls, Failed
  <2>2. Ends(c, req[c])
    BY <1>1 DEF Ends, Failed, serverVars
  <2> QED
    BY <2>1, <2>2 DEF Goal
<1>2. ASSUME NEW c \in Caller, CallStep(c) PROVE Goal
  <2>1. CASE Pack(c) \/ SendAgain(c) \/ InitResp(c)
    BY <2>1 DEF Goal, Quiet, Pack, SendAgain, InitResp, serverVars
  <2>2. CASE SendOk(c)
    BY <2>2 DEF Goal, Quiet, SendOk, At, serverVars
  <2>3. CASE PollReply(c)
    <3>1. PICK m \in replies :
            /\ m.sock = sock[c]
            /\ resp' = [resp EXCEPT ![req[c]] = m.req]
            /\ err' = [err EXCEPT ![req[c]] = Errno_to_local(m.errno)]
      BY <2>3 DEF PollReply, CallEnds
    <3>2. req[c] \in Req /\ sock[c] \in Sock /\ pc[c] = "poll"
      BY <1>0, <2>3 DEF BusyCalls, PollReply, At
    <3>3. m.req = req[c]
      <4>1. m.req \in Req /\ InFlight(m.req, sock[c])
        BY <1>0, <3>1 DEF TypeOK, Reply, InFlight
      <4>2. Owns(c, sock[c]) /\ Open(sock[c])
        <5>1. Owns(c, sock[c])
          BY <1>0, <3>2 DEF BusyCalls, Owns, Caller
        <5> QED
          BY <3>2, <5>1 DEF IInv, SocketStates, Open, Waiting
      <4>3. PICK d \in Caller :
              Waiting(d) /\ req[d] = m.req /\ sock[d] = sock[c]
        BY <3>2, <4>1, <4>2 DEF IInv, NoStaleReply
      <4>4. Owns(d, sock[c])
        BY <1>0, <4>3 DEF BusyCalls, Owns, Caller, Waiting
      <4> QED
        BY <3>2, <4>2, <4>3, <4>4 DEF IInv, OneOwner
    <3>4. Errno_to_local(m.errno) \in ClientErrno \ {"ENOTSOCK"}
      BY <1>0 DEF TypeOK, Reply, Errno_to_local, ErrnoToLocalMap, ProtoErrno,
        ClientErrno
    <3>5. Ends(c, req[c])
      BY <2>3, <3>1, <3>2, <3>3, <3>4 DEF Ends, PollReply, serverVars
    <3> QED
      BY <3>2, <3>5 DEF Goal
  <2>4. CASE \/ PackFails(c) \/ SendTimesOut(c) \/ SendFails(c)
             \/ InitRespFails(c) \/ RecvFails(c) \/ PollExpires(c)
    BY <1>0, <1>1, <2>4, FailingActions
  <2> QED
    BY <1>2, <2>1, <2>2, <2>3, <2>4 DEF CallStep
<1>3. ASSUME NEW c \in Caller, UninitialisedClose(c) PROVE Goal
  BY <1>3 DEF Goal, Quiet, UninitialisedClose, serverVars
<1>4. ASSUME NEW c \in Caller, TakeNumber(c),
             \/ err' = err
             \/ err' = [err EXCEPT ![nreq + 1] = "ENOTSOCK"],
             UNCHANGED <<wire, worker, handled, resp>>
      PROVE  Goal
  <2>1. nreq + 1 \in Req
    BY <1>0, <1>4, NewNumber
  <2>2. Begins(c, nreq + 1)
    BY <1>4 DEF Begins
  <2> QED
    BY <2>1, <2>2 DEF Goal
<1>5. ASSUME NEW t \in Thread, PoolStep(t) PROVE Goal
  <2>0. t \in Caller
    BY DEF Caller
  <2>1. CASE Begin(t) \/ BeginNoSocket(t)
    BY <1>4, <2>0, <2>1 DEF Begin, BeginNoSocket, serverVars
  <2>2. CASE SendInterrupted(t)
    BY <1>0, <1>1, <2>0, <2>2, FailingActions
  <2>3. CASE ThreadExits(t)
    BY <2>3 DEF Goal, Quiet, ThreadExits, serverVars
  <2> QED
    BY <1>5, <2>1, <2>2, <2>3 DEF PoolStep
<1>6. CASE PingStep
  <2>1. CASE BeginPing
    <3>1. Main \in Caller
      BY DEF Caller
    <3> QED
      BY <1>4, <2>1, <3>1 DEF BeginPing, serverVars
  <2>2. CASE PingNoSocket
    BY <2>2 DEF Goal, Quiet, PingNoSocket, serverVars
  <2> QED
    BY <1>6, <2>1, <2>2 DEF PingStep
<1>7. ASSUME NEW w \in Worker, WorkerStep(w) PROVE Goal
  <2>1. CASE WorkerReceives(w)
    BY <1>0, <2>1 DEF Goal, Quiet, WorkerReceives, clientVars, TypeOK
  <2>2. CASE WorkerHandles(w)
    <3>1. PICK p \in ProtoErrno, o \in Outcome :
            /\ Answer(w, p)
            /\ handled' = IF o \in Executed
                            THEN [handled EXCEPT ![worker[w].req] = @ + 1]
                            ELSE handled
      BY <2>2, HandlerVerdict
    <3>2. worker[w].st = "received" /\ worker[w].req \in Req
      BY <1>0, <2>2, WorkerFields DEF TypeOK, WorkerHandles, Carries
    <3>3. /\ worker'[w].st = "handled"
          /\ \A v \in Worker : v # w => worker'[v] = worker[v]
          /\ UNCHANGED <<nreq, wire, err, resp>>
      BY <1>0, <2>2, <3>1 DEF TypeOK, Answer, WorkerHandles, clientVars
    <3>4. CASE o \in Executed
      <4>1. Executes(w, worker[w].req)
        BY <3>1, <3>2, <3>3, <3>4 DEF Executes
      <4> QED
        BY <3>2, <4>1 DEF Goal
    <3>5. CASE o \notin Executed
      BY <3>1, <3>3, <3>5 DEF Goal, Quiet
    <3> QED
      BY <3>4, <3>5
  <2>3. CASE WorkerReplies(w)
    BY <1>0, <2>3
    DEF Goal, Quiet, WorkerReplies, IdleWorker, clientVars, TypeOK
  <2>4. CASE WorkerEnds(w)
    BY <1>0, <2>4
    DEF Goal, Quiet, WorkerEnds, DeadWorker, clientVars, TypeOK
  <2> QED
    BY <1>7, <2>1, <2>2, <2>3, <2>4 DEF WorkerStep
<1>8. CASE Environment
  <2>1. CASE ServerRestarts
    BY <2>1 DEF Goal, Quiet, ServerRestarts, IdleWorker, DeadWorker, clientVars
  <2>2. CASE LoseRequest \/ LoseReply
    BY <2>2 DEF Goal, Quiet, LoseRequest, LoseReply, clientVars, serverVars
  <2> QED
    BY <1>8, <2>1, <2>2 DEF Environment
<1>9. CASE UNCHANGED vars
  BY <1>9 DEF Goal, Quiet, vars, clientVars, serverVars
<1> QED
  BY <1>2, <1>3, <1>5, <1>6, <1>7, <1>8, <1>9 DEF Next

\* A refused call leaves nothing behind: its number is new, and nothing is
\* sent under it.
LEMMA RefusedStep ==
    ASSUME IInv, RefusedUnsent, [Next]_vars
    PROVE  RefusedUnsent'
<1>0. /\ \A m \in wire : m.req \in Req
      /\ \A w \in Worker : worker[w].st = "received" => worker[w].req \in Req
      /\ err \in [Req -> ClientErrno \cup {"pending"}]
  BY WorkerFields DEF IInv, TypeOK, Message, Carries
<1>1. CASE Quiet /\ NoNewRequest
  <2>1. \A c \in Caller : pc[c] # "idle" => err[req[c]] # "ENOTSOCK"
    BY DEF IInv, BusyCalls
  <2> QED
    BY <1>1, <2>1 DEF Quiet, NoNewRequest, RefusedUnsent
<1>2. ASSUME NEW c \in Caller, NEW r \in Req, Ends(c, r)
      PROVE  RefusedUnsent'
  BY <1>0, <1>2 DEF Ends, RefusedUnsent
<1>3. ASSUME NEW c \in Caller, NEW r \in Req, Begins(c, r)
      PROVE  RefusedUnsent'
  <2>1. /\ \A m \in wire : m.req # r
        /\ \A w \in Worker : worker[w].st = "received" => worker[w].req # r
    BY <1>3, FreshNumber DEF Begins, Carries
  <2> QED
    BY <1>0, <1>3, <2>1 DEF Begins, RefusedUnsent
<1>4. ASSUME NEW w \in Worker, NEW r \in Req, Executes(w, r)
      PROVE  RefusedUnsent'
  BY <1>4 DEF Executes, RefusedUnsent
<1> QED
  BY <1>1, <1>2, <1>3, <1>4, StepKinds

\* The initial states map to initial states.
LEMMA RefinesInit == Init => RC!Init
<1> SUFFICES ASSUME Init PROVE RC!Init
  OBVIOUS
<1>1. \A r \in Req : r > nreq
  BY BoundsAssumption DEF Init, Req
<1>2. CallStatus = [r \in Req |-> "unused"]
  BY <1>1 DEF CallStatus
<1> QED
  BY <1>2 DEF Init, RC!Init

\* Every step maps to a step of one call or to a stutter.
LEMMA RefinesNext ==
    ASSUME IInv, IInv', RefusedUnsent, [Next]_vars
    PROVE  [RC!Next]_RC!vars
<1>0. nreq \in Nat /\ Req \subseteq Nat /\ Null \notin Req
  BY NumberFacts DEF IInv, TypeOK
<1>1. CASE Quiet
  BY <1>1 DEF Quiet, CallStatus, RC!vars
<1>2. ASSUME NEW c \in Caller, NEW r \in Req, Ends(c, r) PROVE RC!Next
  <2>1. /\ ~ (r > nreq)
        /\ err[r] = "pending"
        /\ resp[r] = Null
    <3>1. r <= nreq
      BY <1>2 DEF Ends, IInv, Numbered
    <3> QED
      BY <1>0, <1>2, <3>1 DEF Ends, IInv, BusyCalls
  <2>2. CallStatus[r] = "active"
    BY <2>1 DEF CallStatus
  <2>3. PICK e \in ClientErrno \ {"ENOTSOCK"} : err' = [err EXCEPT ![r] = e]
    BY <1>2 DEF Ends
  <2>4. e # "pending" /\ err'[r] = e
    BY <2>3 DEF ClientErrno, IInv, TypeOK
  <2>5. PICK v \in {"answered", "failed"} :
          v = IF resp'[r] # Null THEN "answered" ELSE "failed"
    OBVIOUS
  <2>6. CallStatus' = [CallStatus EXCEPT ![r] = v]
    <3>1. CallStatus'[r] = v
      BY <1>2, <2>1, <2>3, <2>4, <2>5 DEF CallStatus, Ends
    <3>2. \A q \in Req : q # r => CallStatus'[q] = CallStatus[q]
      BY <1>2, <2>3 DEF CallStatus, Ends, IInv, TypeOK
    <3> QED
      BY <3>1, <3>2 DEF CallStatus
  <2>7. RC!Return(r)
    BY <1>2, <2>2, <2>6 DEF RC!Return, Ends
  <2> QED
    BY <2>7 DEF RC!Next
<1>3. ASSUME NEW c \in Caller, NEW r \in Req, Begins(c, r) PROVE RC!Next
  <2>1. r > nreq /\ nreq' = r /\ ~ (r > nreq')
    BY <1>0, <1>3 DEF Begins, TakeNumber
  <2>2. err[r] = "pending" /\ resp[r] = Null
    BY <1>3, FreshNumber DEF Begins
  <2>3. CallStatus[r] = "unused"
    BY <2>1 DEF CallStatus
  <2>4. \A q \in Req : q # r => CallStatus'[q] = CallStatus[q]
    <3>1. \A q \in Req : q # r => (q > nreq' <=> q > nreq)
      BY <1>0, <1>3, <2>1 DEF Begins
    <3> QED
      BY <1>3, <3>1 DEF CallStatus, Begins, IInv, TypeOK
  <2>5. CASE err' = err
    <3>1. CallStatus'[r] = "active"
      BY <1>3, <2>1, <2>2, <2>5 DEF CallStatus, Begins
    <3>2. CallStatus' = [CallStatus EXCEPT ![r] = "active"]
      BY <2>4, <3>1 DEF CallStatus
    <3> QED
      BY <1>3, <2>3, <3>2 DEF RC!Next, RC!Invoke, Begins
  <2>6. CASE err' = [err EXCEPT ![r] = "ENOTSOCK"]
    <3>1. CallStatus'[r] = "refused"
      BY <1>3, <2>1, <2>2, <2>6 DEF CallStatus, Begins, IInv, TypeOK
    <3>2. CallStatus' = [CallStatus EXCEPT ![r] = "refused"]
      BY <2>4, <3>1 DEF CallStatus
    <3> QED
      BY <1>3, <2>3, <3>2 DEF RC!Next, RC!Refuse, Begins
  <2> QED
    BY <1>3, <2>5, <2>6 DEF Begins
<1>4. ASSUME NEW w \in Worker, NEW r \in Req, Executes(w, r) PROVE RC!Next
  <2>1. ~ (r > nreq)
    <3>1. r <= nreq
      BY <1>4 DEF Executes, IInv, Numbered, Carries
    <3> QED
      BY <1>0, <3>1
  <2>2. outcome[r] = "none" /\ err[r] # "ENOTSOCK"
    BY <1>4 DEF Executes, IInv, UnseenOnce, RefusedUnsent
  <2>3. resp[r] = Null /\ handled[r] = 0
    BY <2>2 DEF IInv, Verdicts, Verdict, HandledCount, Executed
  <2>4. CallStatus[r] \in {"active", "failed"}
    BY <2>1, <2>2, <2>3 DEF CallStatus
  <2>5. CallStatus' = CallStatus
    BY <1>4 DEF Executes, CallStatus
  <2>6. handled' = [handled EXCEPT ![r] = 1]
    BY <1>4, <2>3 DEF Executes, IInv, TypeOK
  <2> QED
    BY <2>3, <2>4, <2>5, <2>6 DEF RC!Next, RC!Execute
<1> QED
  BY <1>1, <1>2, <1>3, <1>4, StepKinds

\* For any number of threads, workers and calls, Rhizofs_communicate with its
\* pool and the server's workers is an at-most-once remote call.
THEOREM RefinesRemoteCall == Spec => ImplementsRemoteCall
<1>1. Init => RefusedUnsent
  BY DEF Init, RefusedUnsent, IdleWorker, DeadWorker
<1>2. Spec => []RefusedUnsent
  BY <1>1, Invariant, RefusedStep, PTL DEF Spec
<1> QED
  BY <1>2, Invariant, RefinesInit, RefinesNext, PTL
  DEF Spec, ImplementsRemoteCall, RC!Spec
=============================================================================
