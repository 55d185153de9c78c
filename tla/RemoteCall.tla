----------------------------- MODULE RemoteCall -----------------------------
(***************************************************************************)
(* What Rhizofs_communicate promises an operation of the filesystem,       *)
(* without sockets, messages or workers: a remote call is executed at most *)
(* once, and never after its caller has seen the answer; a call refused    *)
(* for want of a socket is not executed; a call that fails tells nothing,  *)
(* the server may still execute it, or never.                              *)
(***************************************************************************)
EXTENDS Naturals

CONSTANT Call      \* the calls that can be made

VARIABLES
    status,        \* status[r]: "unused", "active", "answered", "failed" or
                   \* "refused"
    executions     \* executions[r]: how often the server executed r

vars == <<status, executions>>

Init ==
    /\ status = [r \in Call |-> "unused"]
    /\ executions = [r \in Call |-> 0]

Invoke(r) ==
    /\ status[r] = "unused"
    /\ status' = [status EXCEPT ![r] = "active"]
    /\ UNCHANGED executions

\* also of a call its caller has given up
Execute(r) ==
    /\ status[r] \in {"active", "failed"}
    /\ executions[r] = 0
    /\ executions' = [executions EXCEPT ![r] = 1]
    /\ UNCHANGED status

Return(r) ==
    /\ status[r] = "active"
    /\ \E v \in {"answered", "failed"} : status' = [status EXCEPT ![r] = v]
    /\ UNCHANGED executions

\* no socket could be had: the call fails at once
Refuse(r) ==
    /\ status[r] = "unused"
    /\ status' = [status EXCEPT ![r] = "refused"]
    /\ UNCHANGED executions

Next == \E r \in Call : Invoke(r) \/ Execute(r) \/ Return(r) \/ Refuse(r)

Spec == Init /\ [][Next]_vars
=============================================================================
