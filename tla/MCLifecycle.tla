---------------------------- MODULE MCLifecycle ----------------------------
(* Two workers, two threads of fuse, two signals. *)
EXTENDS Lifecycle

MCFuseThreads == {1, 2}
=============================================================================
