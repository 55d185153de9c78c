----------------------------- MODULE MountMain -----------------------------
(***************************************************************************)
(* The life of a mount (src/src/fs/main.c, the start and the end of        *)
(* src/src/fs/rhizofs.c, SocketPool_init and _deinit, AttrCache_init and   *)
(* _deinit): options, keys, the ping, fuse_main with Rhizofs_init, the     *)
(* threads that serve operations, and Rhizofs_destroy.                     *)
(*                                                                         *)
(* There are two contexts, one of Rhizofs_fuse_main and one of             *)
(* Rhizofs_init, and one static socket pool, which several functions       *)
(* deinitialise.  What is freed stays in its variable.  Freeing something  *)
(* a second time, or using it then, is recorded in "misused": from then on *)
(* the process may abort in any call that touches the heap, or go on.      *)
(***************************************************************************)
EXTENDS Integers

CONSTANT FuseThreads  \* the threads of fuse_loop_mt

MountMain == 0        \* the main thread, which serves operations with -s

ASSUME FuseThreadsAssumption == MountMain \notin FuseThreads

VARIABLE mnt  \* the process

MountLabels ==
    {"parse", "priv", "keys", "check", "ping", "fuse_main", "init", "init_pool",
     "init_cache", "init_error", "init_term", "loop", "stopping", "destroy",
     "destroy_priv", "destroy_term", "main_priv", "main_term", "return"}

Contexts == {"none", "open", "destroyed"}
Heap     == {"null", "set", "freed"}

Mount ==
    [pc       : MountLabels,
     asks     : BOOLEAN,        \* ~ settings.check_socket_connection: help, version
     single   : BOOLEAN,        \* fuse's option -s
     host     : Heap,           \* settings.host_socket
     ctx      : [{1, 2} -> Contexts],  \* priv->context of fuse_main, of Rhizofs_init
     ping     : BOOLEAN,        \* the socket of Rhizofs_check_connection is open
     name     : Heap,           \* socketpool.socket_name
     key      : {"null", "zero", "set", "deleted"},  \* socketpool.key; a key can be 0
     table    : Heap,           \* attrcache.hashtable
     busy     : SUBSET (FuseThreads \cup {MountMain}),  \* threads in an operation
     pooled   : SUBSET (FuseThreads \cup {MountMain}),  \* their sockets in the pool
     cancelled : SUBSET FuseThreads,
     reached  : SUBSET {"init", "no_init", "no_cache"},
     misused  : SUBSET {"host", "name", "table", "context"},
     rc       : {"success", "failure"},              \* the result of fuse_main
     status   : {"none", "running", "success", "failure", "crash"}]

\* a process with its arguments, after Rhizofs_settings_init
MountProcess(asks, single, host) ==
    [pc |-> "parse", asks |-> asks, single |-> single, host |-> host,
     ctx |-> [c \in {1, 2} |-> "none"], ping |-> FALSE, name |-> "null",
     key |-> "null", table |-> "null", busy |-> {}, pooled |-> {}, cancelled |-> {},
     reached |-> {}, misused |-> {}, rc |-> "success", status |-> "running"]

MountInit ==
    \E asks, single \in BOOLEAN, host \in {"null", "set"} :
      mnt = MountProcess(asks, single, host)

MountAt(label) == mnt.status = "running" /\ mnt.pc = label

MountGoto(label) == mnt' = [mnt EXCEPT !.pc = label]

\* The process gets to m, in which it may have misused the heap.
Touches(m) ==
    \/ mnt' = m
    \/ m.misused # {} /\ mnt' = [m EXCEPT !.status = "crash"]

Again(what, misused, name) == IF what = "freed" THEN misused \cup {name} ELSE misused

Freed(what) == IF what = "null" THEN what ELSE "freed"

-----------------------------------------------------------------------------
(* The functions that several others call, as what they make of a process. *)

SocketPool_deinit(m) ==
    [m EXCEPT !.name = Freed(@), !.misused = Again(m.name, @, "name"),
              !.key = IF @ = "set" THEN "deleted" ELSE @]

AttrCache_deinit(m) ==
    [m EXCEPT !.table = Freed(@), !.misused = Again(m.table, @, "table")]

\* RhizoPriv_create: calloc or zmq_init may fail
RhizoPriv_create(label, c, then, otherwise) ==
    /\ MountAt(label)
    /\ \/ mnt' = [mnt EXCEPT !.ctx[c] = "open", !.pc = then]
       \/ mnt' = [mnt EXCEPT !.rc = "failure", !.pc = otherwise]

\* RhizoPriv_destroy up to zmq_ctx_destroy
RhizoPriv_destroy(label, then) ==
    /\ MountAt(label)
    /\ Touches(SocketPool_deinit([mnt EXCEPT !.pc = then]))

\* zmq_ctx_destroy, for a context that is there, waits for its sockets to be closed
zmq_ctx_destroy(label, c, then) ==
    /\ MountAt(label)
    /\ (IF c = 1 THEN ~ mnt.ping ELSE mnt.pooled = {}) \/ mnt.ctx[c] # "open"
    /\ mnt' = [mnt EXCEPT !.ctx[c] = IF @ = "open" THEN "destroyed" ELSE @, !.pc = then]

-----------------------------------------------------------------------------
(* Rhizofs_run and Rhizofs_fuse_main.                                      *)

\* A missing host ends the process with -1, unless help or the version is asked
\* for, which is handled while the options are parsed.
Rhizofs_run ==
    /\ MountAt("parse")
    /\ IF ~ mnt.asks /\ mnt.host = "null"
         THEN mnt' = [mnt EXCEPT !.status = "failure"]
         ELSE MountGoto("priv")

\* the error label of Rhizofs_fuse_main
FuseMainFails == mnt' = [mnt EXCEPT !.rc = "failure", !.pc = "main_priv"]

\* the key files, or a new pair of keys
ReadKeys ==
    /\ MountAt("keys")
    /\ MountGoto("check") \/ FuseMainFails

\* Rhizofs_check_connection up to the ping
OpenPing ==
    /\ MountAt("check")
    /\ IF mnt.asks THEN MountGoto("fuse_main")
       ELSE FuseMainFails \/ mnt' = [mnt EXCEPT !.ping = TRUE, !.pc = "ping"]

\* the server answers, or it does not
Pinged ==
    /\ MountAt("ping")
    /\ \/ mnt' = [mnt EXCEPT !.ping = FALSE, !.pc = "fuse_main"]
       \/ mnt' = [mnt EXCEPT !.ping = FALSE, !.rc = "failure", !.pc = "main_priv"]

\* fuse_main ends without a filesystem if it was asked for help or cannot mount
fuse_main ==
    /\ MountAt("fuse_main")
    /\ \/ FuseMainFails
       \/ mnt.asks /\ MountGoto("main_priv")
       \/ ~ mnt.asks /\ MountGoto("init")

\* the rest of Rhizofs_run, or exit(0) in Rhizofs_opt_proc
Return ==
    /\ MountAt("return")
    /\ IF mnt.asks THEN mnt' = [mnt EXCEPT !.status = "success"]
       ELSE Touches([mnt EXCEPT !.host = Freed(@),
                                !.misused = Again(mnt.host, @, "host"),
                                !.status = mnt.rc])

-----------------------------------------------------------------------------
(* Rhizofs_init.                                                           *)

\* mutant: the pool keeps the sockets of threads that end
SocketPool_init_NoDestructor ==
    /\ MountAt("init_pool")
    /\ \/ mnt' = [mnt EXCEPT !.name = "set", !.key = "deleted", !.pc = "init_cache"]
       \/ MountGoto("init_error")

\* strdup or pthread_key_create may fail; the name is then freed, but kept
SocketPool_init ==
    /\ MountAt("init_pool")
    /\ \/ \E key \in {"zero", "set"} :
             mnt' = [mnt EXCEPT !.name = "set", !.key = key, !.pc = "init_cache"]
       \/ \E name \in {"null", "freed"} :
             mnt' = [mnt EXCEPT !.name = name, !.pc = "init_error"]

\* hash_create or the mutex may fail; AttrCache_init then deinitialises the cache
AttrCache_init ==
    /\ MountAt("init_cache")
    /\ \/ mnt' = [mnt EXCEPT !.table = "set", !.reached = @ \cup {"init"},
                             !.pc = "loop"]
       \/ \E table \in {"null", "freed"} :
             mnt' = [mnt EXCEPT !.table = table, !.reached = @ \cup {"no_cache"},
                                !.pc = "init_error"]

\* the error label, up to RhizoPriv_destroy's zmq_ctx_destroy
InitFails ==
    /\ MountAt("init_error")
    /\ Touches(SocketPool_deinit(AttrCache_deinit(SocketPool_deinit(
           [mnt EXCEPT !.reached = @ \cup {"no_init"}, !.pc = "init_term"]))))

Rhizofs_init ==
    \/ RhizoPriv_create("init", 2, "init_pool", "init_error")
    \/ SocketPool_init \/ AttrCache_init \/ InitFails
    \/ zmq_ctx_destroy("init_term", 2, "loop")  \* and fuse_exit

-----------------------------------------------------------------------------
(* The session.  An operation takes its thread's socket from the pool, or  *)
(* opens it, and may close it to renew it (module Communicate).            *)

Serving == IF mnt.single THEN {MountMain} ELSE FuseThreads \ mnt.cancelled

\* A thread that was waiting for a request when Rhizofs_init called fuse_exit may
\* still get one, and uses the pool that is gone.
BeginOperation(t) ==
    /\ MountAt("loop")
    /\ t \in Serving \ mnt.busy
    /\ IF "no_init" \in mnt.reached
         THEN Touches([mnt EXCEPT !.misused = @ \cup {"context"}])
         ELSE \E pooled \in {mnt.pooled, mnt.pooled \cup {t}} :
                mnt' = [mnt EXCEPT !.busy = @ \cup {t}, !.pooled = pooled]

EndOperation(t) ==
    /\ mnt.status = "running"
    /\ t \in mnt.busy
    /\ \E pooled \in {mnt.pooled, mnt.pooled \ {t}} :
         mnt' = [mnt EXCEPT !.busy = @ \ {t}, !.pooled = pooled]

\* the filesystem is unmounted, a signal asks fuse to exit, or fuse_exit did
Unmount ==
    /\ MountAt("loop")
    /\ \E rc \in {"success", "failure"} : mnt' = [mnt EXCEPT !.rc = rc, !.pc = "stopping"]

\* fuse_loop_mt cancels its threads, outside of an operation; the destructor of the
\* key closes the socket of the thread
EndThread(t) ==
    /\ MountAt("stopping")
    /\ ~ mnt.single
    /\ t \in FuseThreads \ (mnt.cancelled \cup mnt.busy)
    /\ mnt' = [mnt EXCEPT !.cancelled = @ \cup {t},
                          !.pooled = IF mnt.key \in {"zero", "set"} THEN @ \ {t} ELSE @]

Stopped ==
    /\ MountAt("stopping")
    /\ IF mnt.single THEN mnt.busy = {} ELSE mnt.cancelled = FuseThreads
    /\ MountGoto("destroy")

\* mutant: the context of Rhizofs_init is left to the end of the process
Rhizofs_destroy_KeepPriv ==
    /\ MountAt("destroy")
    /\ Touches(AttrCache_deinit(SocketPool_deinit([mnt EXCEPT !.pc = "main_priv"])))

\* fuse calls it if it called Rhizofs_init; RhizoPriv_destroy follows, with what
\* Rhizofs_init returned
Rhizofs_destroy ==
    /\ MountAt("destroy")
    /\ Touches(AttrCache_deinit(SocketPool_deinit([mnt EXCEPT !.pc = "destroy_priv"])))

-----------------------------------------------------------------------------

MountStep ==
    \/ Rhizofs_run
    \/ RhizoPriv_create("priv", 1, "keys", "main_priv") \/ ReadKeys
    \/ OpenPing \/ Pinged \/ fuse_main
    \/ Rhizofs_init
    \/ Stopped \/ Rhizofs_destroy
    \/ RhizoPriv_destroy("destroy_priv", "destroy_term")
    \/ zmq_ctx_destroy("destroy_term", 2, "main_priv")
    \/ RhizoPriv_destroy("main_priv", "main_term")
    \/ zmq_ctx_destroy("main_term", 1, "return")
    \/ Return

ThreadStep(t) == EndOperation(t) \/ EndThread(t)

MountNext ==
    \/ MountStep \/ Unmount
    \/ \E t \in FuseThreads \cup {MountMain} : BeginOperation(t) \/ ThreadStep(t)

\* Nothing forces an operation or an unmount, but a session that fuse_exit ended
\* stops, and what has begun goes on: an operation of module Communicate always ends.
MountFair ==
    /\ WF_mnt(MountStep)
    /\ WF_mnt("no_init" \in mnt.reached /\ Unmount)
    /\ \A t \in FuseThreads \cup {MountMain} : WF_mnt(ThreadStep(t))

-----------------------------------------------------------------------------
(* Properties.                                                             *)

\* A mount that returns has destroyed both contexts, no thread has left a socket
\* behind, and the attribute cache was freed a second time only if AttrCache_init
\* failed, even though Rhizofs_init, Rhizofs_destroy and RhizoPriv_destroy all clean
\* up.  One that is refused before there is a filesystem (no host, no keys, no answer
\* to the ping, fuse_main fails) frees nothing twice, closes its socket and never
\* ends with the status of a success.
OrderlyUnmount ==
    mnt.status \in {"success", "failure"} =>
        /\ mnt.pooled = {} /\ ~ mnt.ping
        /\ \A c \in {1, 2} : mnt.ctx[c] # "open"
        /\ "table" \in mnt.misused => "no_cache" \in mnt.reached
        /\ mnt.reached = {} /\ mnt.ctx[2] = "none" =>
              mnt.misused = {} /\ mnt.status = IF mnt.asks THEN "success" ELSE "failure"

InSession == mnt.pc = "loop" /\ "no_init" \notin mnt.reached

\* Every mount comes to its end once the session does, and one that is refused or
\* whose Rhizofs_init fails comes there by itself, unless the main thread served
\* operations (-s): nothing closes the socket that it leaves in the pool, and
\* zmq_ctx_destroy waits for it.
UnmountEnds ==
    ~ InSession ~> mnt.status # "running" \/ InSession \/ MountMain \in mnt.pooled
=============================================================================
