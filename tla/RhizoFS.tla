------------------------------ MODULE RhizoFS -------------------------------
(***************************************************************************)
(* The filesystem operations of the client, src/fs/rhizofs.c, together     *)
(* with its attribute cache and the server's handlers (ServeDir).  A       *)
(* thread is in at most one operation.  An operation sends its request,    *)
(* the server works on it step by step, and the thread either receives the *)
(* answer and updates the cache, or gives up while its request stays on    *)
(* its way and may be executed later: this is what RemoteCall leaves of    *)
(* the exchange.  The cache is the map from paths to attributes that       *)
(* AttrCache implements; how many entries it holds, and what its threads   *)
(* do to each other's nodes, is the matter of that module.                 *)
(***************************************************************************)
EXTENDS ServeDir, Integers

CONSTANTS Threads,   \* the threads of the fuse loop
          MaxAge,    \* max_age_sec of the cache
          CallTime,  \* how long an operation may take: send timeout and poll
          MaxTime    \* bound of the clock

ASSUME RhizoFSAssumption ==
  MaxAge \in Nat /\ CallTime \in Nat /\ MaxTime \in Nat

VARIABLES now,    \* the client's clock, in seconds
          call,   \* the request each thread waits for, or 0
          begun,  \* when each request was sent
          cache,  \* the attribute cache
          ret,    \* what the last operation of each thread has returned
          held,   \* when a path last had certain attributes on the server
          touched, \* the paths that the request of each thread has changed
          since,  \* what a path has had since its last acknowledged change
          kept    \* the entry of a path was kept by a change it overlooked

client == <<now, call, begun, cache, ret>>

records == <<held, touched, since, kept>>

allvars == <<vars, client, records>>

CacheEntry == [attr : Attr, ts : Nat]

(***************************************************************************)
(* PENDING: the operation has not returned yet.                            *)
(***************************************************************************)
Result == LocalErrno \cup {"NOTSUP", "NOTSOCK", "AGAIN", "INTR", "FAULT", "PENDING"}

FsInit ==
  /\ Init
  /\ now = 0
  /\ call = [t \in Threads |-> 0]
  /\ begun = [r \in Requests |-> 0]
  /\ cache = [p \in Paths |-> None]
  /\ ret = [t \in Threads |-> "NONE"]
  /\ held = [p \in Paths |-> [x \in Attr |-> IF Lstat(tree, p) = x THEN 0 ELSE -1]]
  /\ touched = [t \in Threads |-> {}]
  /\ since = [p \in Paths |-> Attr \cup {None}]
  /\ kept = [p \in Paths |-> FALSE]

-----------------------------------------------------------------------------

(***************************************************************************)
(* The cache as the operations use it.                                     *)
(***************************************************************************)
\* mutant: an entry is kept one second too long
Deprecated_Late(e) == e.ts + MaxAge + 1 < now

Deprecated(e) == e.ts + MaxAge < now

Servable(p) == cache[p] # None /\ ~Deprecated(cache[p])

(***************************************************************************)
(* Entries put in from the attributes new, a function on some paths.  Any  *)
(* others may be dropped: a full cache makes room, and an entry that could *)
(* not be inserted has lost its predecessor.                               *)
(***************************************************************************)
Filled(new, dropped) ==
  [p \in Paths |->
     IF p \in DOMAIN new THEN [attr |-> new[p], ts |-> now]
     ELSE IF p \in dropped THEN None ELSE cache[p]]

Occupied == {p \in Paths : cache[p] # None}

AttrCache_set(new) ==
  \E dropped \in SUBSET (Occupied \ DOMAIN new) : cache' = Filled(new, dropped)

\* mutant: the entry stays
AttrCache_remove_Nothing(p) == UNCHANGED cache

AttrCache_remove(p) == cache' = [cache EXCEPT ![p] = None]

-----------------------------------------------------------------------------

(***************************************************************************)
(* OP_INIT and the sending half of OP_COMMUNICATE.                         *)
(***************************************************************************)
NextRequest == CHOOSE r \in Requests : /\ job[r].pc = "none"
                                       /\ \A s \in 1 .. r - 1 : job[s].pc # "none"

MayAsk(t, op) ==
  /\ call[t] = 0 /\ \E r \in Requests : job[r].pc = "none"
  /\ op \in Ops[NextRequest]

Return(t, e) == ret' = [ret EXCEPT ![t] = e]

Send(t, op, p, q, f) ==
  /\ MayAsk(t, op)
  /\ LET r == NextRequest IN
       /\ call' = [call EXCEPT ![t] = r]
       /\ begun' = [begun EXCEPT ![r] = now]
       /\ job' = [job EXCEPT ![r].op = op, ![r].path = p, ![r].to = q,
                             ![r].flags = f, ![r].pc = "queued"]
  /\ Return(t, "PENDING")
  /\ UNCHANGED <<tree, fds, undefined, now>>

(***************************************************************************)
(* Nothing is sent: no memory for the request (ENOMEM), no socket          *)
(* (ENOTSOCK), a request that cannot be packed (EFAULT, or 0 when errno is *)
(* not set), an interrupt (EINTR) or the timeout (EAGAIN) while zmq is     *)
(* asked again, or another error of zmq (EIO).                             *)
(***************************************************************************)
NotSent(t, op) ==
  /\ MayAsk(t, op)
  /\ \E e \in {"NOMEM", "NOTSOCK", "FAULT", "NONE", "INTR", "AGAIN", "IO"} :
       Return(t, e)
  /\ UNCHANGED <<tree, job, fds, undefined, now, call, begun>>

Start(t, op) ==
  /\ MayAsk(t, op)
  /\ \/ NotSent(t, op)
     \/ \E p, q \in Paths, f \in Flags :
          Request(op, p, q, f, TRUE) /\ Send(t, op, p, q, f)
  /\ UNCHANGED cache

(***************************************************************************)
(* The table of mapping.c from the protocol's errno to the local one.      *)
(***************************************************************************)
Errno_to_local(e) ==
  IF e = "UNKNOWN" THEN "IO" ELSE IF e = "INVALID_REQUEST" THEN "INVAL" ELSE e

(***************************************************************************)
(* The answer to the operation op of thread t is there.                    *)
(***************************************************************************)
Reply(t) == job[call[t]]

Answered(t, op) ==
  /\ call[t] # 0 /\ Reply(t).op = op /\ Reply(t).pc = "answered"
  /\ call' = [call EXCEPT ![t] = 0]
  /\ UNCHANGED <<tree, job, fds, now, begun>>

(***************************************************************************)
(* The server reported an error: the operation returns it.                 *)
(***************************************************************************)
Reported(t, op) ==
  /\ Answered(t, op) /\ Reply(t).err # "NONE"
  /\ Return(t, Errno_to_local(Reply(t).err))
  /\ UNCHANGED <<cache, undefined>>

Acknowledged(t, op) == Answered(t, op) /\ Reply(t).err = "NONE"

(***************************************************************************)
(* Operations that only return.  Where the answer lacks what the operation *)
(* asks for, the check after OP_COMMUNICATE fails; the error label returns *)
(* returned_err, which is 0 by then.                                       *)
(***************************************************************************)
Plain(t, op) ==
  \/ Start(t, op)
  \/ Reported(t, op)
  \/ /\ Acknowledged(t, op)
     /\ Return(t, "NONE")
     /\ UNCHANGED <<cache, undefined>>

(***************************************************************************)
(* Operations that remove the path from the cache before they return.      *)
(***************************************************************************)
Changing(t, op) ==
  \/ Start(t, op)
  \/ Reported(t, op)
  \/ /\ Acknowledged(t, op)
     /\ AttrCache_remove(Reply(t).path)
     /\ Return(t, "NONE")
     /\ UNCHANGED undefined

Rhizofs_rmdir(t)    == Changing(t, "RMDIR")
Rhizofs_mkdir(t)    == Plain(t, "MKDIR")
Rhizofs_unlink(t)   == Changing(t, "UNLINK")
Rhizofs_access(t)   == Plain(t, "ACCESS")
Rhizofs_open(t)     == Plain(t, "OPEN")
Rhizofs_create(t)   == Plain(t, "CREATE")
Rhizofs_read(t)     == Plain(t, "READ")
Rhizofs_write(t)    == Changing(t, "WRITE")
Rhizofs_truncate(t) == Changing(t, "TRUNCATE")
Rhizofs_chmod(t)    == Changing(t, "CHMOD")
Rhizofs_utimens(t)  == Changing(t, "UTIMENS")
Rhizofs_link(t)     == Plain(t, "LINK")
Rhizofs_rename(t)   == Changing(t, "RENAME")
Rhizofs_readlink(t) == Plain(t, "READLINK")
Rhizofs_symlink(t)  == Plain(t, "SYMLINK")
Rhizofs_statfs(t)   == Plain(t, "STATFS")

(***************************************************************************)
(* Files other than regular ones are refused without a request.            *)
(***************************************************************************)
Rhizofs_mknod(t) ==
  \/ Plain(t, "MKNOD")
  \/ /\ call[t] = 0
     /\ Return(t, "PERM")
     /\ UNCHANGED <<tree, job, fds, undefined, now, call, begun, cache>>

Rhizofs_chown(t) ==
  /\ call[t] = 0
  /\ Return(t, "NOTSUP")
  /\ UNCHANGED <<tree, job, fds, undefined, now, call, begun, cache>>

(***************************************************************************)
(* Attributes from the cache, otherwise from the server.  An entry that is *)
(* too old is deleted on the way.  The attributes are cached with the time *)
(* at which the answer was there; for want of memory they are not, which   *)
(* may leave the path without an entry.                                    *)
(***************************************************************************)
Rhizofs_getattr(t) ==
  /\ call[t] = 0
  /\ \E p \in Paths :
       \/ /\ Servable(p)
          /\ Return(t, "NONE")
          /\ UNCHANGED <<tree, job, fds, undefined, now, call, begun, cache>>
       \/ /\ ~Servable(p)
          /\ Send(t, "GETATTR", p, <<>>, {}) \/ NotSent(t, "GETATTR")
          /\ AttrCache_remove(p)

\* mutant: the answer is cached without a check that it has attributes
Rhizofs_getattr_remote_Unchecked(t) ==
  \/ Reported(t, "GETATTR")
  \/ /\ Acknowledged(t, "GETATTR")
     /\ Return(t, "NONE")
     /\ AttrCache_set([p \in {Reply(t).path} |-> Reply(t).attrs])
     /\ UNCHANGED undefined

Rhizofs_getattr_remote(t) ==
  \/ Reported(t, "GETATTR")
  \/ /\ Acknowledged(t, "GETATTR")
     /\ Return(t, "NONE")
     /\ \/ UNCHANGED cache
        \/ /\ Reply(t).attrs # None
           /\ \E S \in SUBSET {Reply(t).path} :
                AttrCache_set([p \in S |-> Reply(t).attrs])
     /\ UNCHANGED undefined

(***************************************************************************)
(* The entries of a listing are cached with the time of the answer.  The   *)
(* kernel's buffer may be full before the last one.  When memory runs out  *)
(* after an entry was cached, the error label frees this entry.            *)
(***************************************************************************)
Rhizofs_readdir(t) ==
  \/ Start(t, "READDIR")
  \/ Reported(t, "READDIR")
  \/ /\ Acknowledged(t, "READDIR")
     /\ \E S \in SUBSET DOMAIN Reply(t).entries :
          /\ AttrCache_set([p \in {Append(Reply(t).path, n) : n \in S} |->
                                  Reply(t).entries[p[Len(p)]]])
          /\ \/ undefined' = undefined
             \/ undefined' = TRUE /\ S # {}
     /\ Return(t, "NONE")

-----------------------------------------------------------------------------

(***************************************************************************)
(* Rhizofs_communicate fails after the request was sent: no answer in time *)
(* (the errno that zmq_poll has left, or EIO), an interrupt (EINTR), no    *)
(* memory (ENOMEM), an answer that cannot be received or unpacked (EIO).   *)
(* The request is not taken back.                                          *)
(***************************************************************************)
GiveUp(t) ==
  /\ call[t] # 0
  /\ call' = [call EXCEPT ![t] = 0]
  /\ \E e \in {"NOMEM", "IO", "AGAIN", "INTR"} : Return(t, e)
  /\ UNCHANGED <<tree, job, fds, undefined, now, begun, cache>>

(***************************************************************************)
(* A worker receives a request that has reached the server.                *)
(***************************************************************************)
Deliver(r) ==
  /\ job[r].pc = "queued" /\ Idle
  /\ job' = [job EXCEPT ![r].pc = "begin"]
  /\ UNCHANGED <<tree, fds, undefined, client>>

Serve(r) == Running(r) /\ Handler(r) /\ UNCHANGED client

(***************************************************************************)
(* Time passes.  A thread does not stay longer than CallTime in a call.    *)
(***************************************************************************)
Tick ==
  /\ now < MaxTime
  /\ \A t \in Threads : call[t] # 0 => now - begun[call[t]] < CallTime
  /\ now' = now + 1
  /\ UNCHANGED <<tree, job, fds, undefined, call, begun, cache, ret>>

Operation(t) ==
  \/ Rhizofs_readdir(t)  \/ Rhizofs_getattr(t)  \/ Rhizofs_getattr_remote(t)
  \/ Rhizofs_rmdir(t)    \/ Rhizofs_mkdir(t)    \/ Rhizofs_unlink(t)
  \/ Rhizofs_access(t)   \/ Rhizofs_open(t)     \/ Rhizofs_create(t)
  \/ Rhizofs_read(t)     \/ Rhizofs_write(t)    \/ Rhizofs_truncate(t)
  \/ Rhizofs_chmod(t)    \/ Rhizofs_utimens(t)  \/ Rhizofs_link(t)
  \/ Rhizofs_rename(t)   \/ Rhizofs_readlink(t) \/ Rhizofs_symlink(t)
  \/ Rhizofs_mknod(t)    \/ Rhizofs_chown(t)    \/ Rhizofs_statfs(t)
  \/ GiveUp(t)

(***************************************************************************)
(* The records for the properties.  touched: what lstat says of a path     *)
(* becomes another in a step that the handler of a request makes, whatever *)
(* path the request names.  The change is acknowledged when the operation  *)
(* that sent the request returns 0.                                        *)
(***************************************************************************)
Altered == {p \in Paths : Lstat(tree', p) # Lstat(tree, p)}

Acknowledges(t, p) ==
  call[t] # 0 /\ call'[t] = 0 /\ ret'[t] = "NONE" /\ p \in touched[t]

(***************************************************************************)
(* The changes that rhizofs.c removes nothing from the cache for: those of *)
(* operations that make or open a file, and those of any other path than   *)
(* the first one an operation is called with, such as the target of rename *)
(* and what is below it, or another link to the file.                      *)
(***************************************************************************)
Opening == {"CREATE", "OPEN", "MKDIR", "MKNOD", "SYMLINK", "LINK"}

Overlooks(t, p) ==
  Acknowledges(t, p) /\ (Reply(t).op \in Opening \/ p # Reply(t).path)

Record ==
  /\ held' = [p \in Paths |->
       IF Lstat(tree', p) \in Attr THEN [held[p] EXCEPT ![Lstat(tree', p)] = now']
       ELSE held[p]]
  /\ touched' = [t \in Threads |->
       IF call'[t] = 0 THEN {}
       ELSE IF job'[call'[t]] = job[call'[t]] THEN touched[t]
       ELSE touched[t] \cup Altered]
  /\ since' = [p \in Paths |->
       (IF \E t \in Threads : Acknowledges(t, p) THEN {} ELSE since[p])
          \cup {Lstat(tree', p)}]
  /\ kept' = [p \in Paths |->
       /\ cache'[p] # None /\ cache'[p] = cache[p]
       /\ kept[p] \/ \E t \in Threads : Overlooks(t, p)]
  /\ UNCHANGED stay

FsNext ==
  /\ ~undefined
  /\ \/ \E t \in Threads : Operation(t)
     \/ \E r \in Requests : Deliver(r) \/ Serve(r)
     \/ Tick
  /\ Record

FsSpec == FsInit /\ [][FsNext]_allvars

-----------------------------------------------------------------------------

(***************************************************************************)
(* Every variable of the client has its type, and a cached entry is never  *)
(* from the future.                                                        *)
(***************************************************************************)
FsTypeOK ==
  /\ now \in 0 .. MaxTime
  /\ call \in [Threads -> {0} \cup Requests]
  /\ begun \in [Requests -> 0 .. now]
  /\ cache \in [Paths -> CacheEntry \cup {None}]
  /\ \A p \in Paths : cache[p] # None => cache[p].ts <= now
  /\ ret \in [Threads -> Result]

(***************************************************************************)
(* Attributes that Rhizofs_getattr would serve from the cache are ones the *)
(* path has had on the server within the last max_age_sec seconds, plus    *)
(* the time an operation takes, whatever other clients, lost answers and   *)
(* late executions have done to the file.                                  *)
(***************************************************************************)
ServedFresh ==
  \A p \in Paths :
    Servable(p) => held[p][cache[p].attr] + MaxAge + CallTime >= now

(***************************************************************************)
(* After an operation has returned 0, Rhizofs_getattr does not serve what  *)
(* was before for any path the operation has changed on the server.        *)
(***************************************************************************)
OwnChangesSeen ==
  \A p \in Paths : Servable(p) => cache[p].attr \in since[p]

(***************************************************************************)
(* A client with one thread: what Rhizofs_getattr serves from before an    *)
(* acknowledged change of its own was in the cache when an operation       *)
(* returned that overlooks this path (Overlooks), and has been there since *)
(* then.  In particular truncate, chmod, utimens, write, unlink, rmdir and *)
(* the old path of rename are never served as they were, although requests *)
(* that were given up may be executed at any time.                         *)
(***************************************************************************)
StaleOnlyOverlooked ==
  \A p \in Paths : Servable(p) => cache[p].attr \in since[p] \/ kept[p]
=============================================================================
