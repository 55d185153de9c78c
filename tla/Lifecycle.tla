----------------------------- MODULE Lifecycle -----------------------------
(***************************************************************************)
(* A process of either program, from main to its end: of the server (module*)
(* ServerMain) or of the client (module MountMain).  The two meet only on  *)
(* the network, where each lets any outcome of an exchange happen, so each *)
(* is followed on its own; what passes between them is the subject of the  *)
(* modules Communicate, ServeDir and RhizoFS.                              *)
(***************************************************************************)
EXTENDS ServerMain, MountMain

\* the other program is not running
LifeInit ==
    \/ ServerInit /\ mnt = [MountProcess(FALSE, FALSE, "null") EXCEPT !.status = "none"]
    \/ MountInit /\ srv = [ServerProcess(FALSE) EXCEPT !.status = "none"]

LifeNext ==
    \/ ServerNext /\ UNCHANGED mnt
    \/ MountNext /\ UNCHANGED srv

LifeSpec == LifeInit /\ [][LifeNext]_<<srv, mnt>> /\ ServerFair /\ MountFair

-----------------------------------------------------------------------------

\* Type correctness of both processes: no loop of start-up or shutdown runs past the
\* array of the threads.
LifeTypeOK == srv \in Process /\ mnt \in Mount
=============================================================================
