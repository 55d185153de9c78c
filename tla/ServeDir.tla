------------------------------ MODULE ServeDir ------------------------------
(***************************************************************************)
(* The operation handlers of the server, src/server/servedir.c.  Several   *)
(* workers run handlers at the same time on the same exported directory    *)
(* and in one process, so they share its file descriptors.  A step is one  *)
(* system call; between two of them anything may happen to the directory.  *)
(*                                                                         *)
(* Every system call may also be refused (ACCES), readdir(3) may fail, and *)
(* so may every check of a handler, an allocation or a conversion.  How    *)
(* requests and replies travel is the matter of Communicate.               *)
(***************************************************************************)
EXTENDS ExportedTree

CONSTANTS Ops,      \* the types that each request may have
          Flags,    \* the sets of open flags a request may have
          Complete, \* {TRUE}, or BOOLEAN when requests may lack a field
          Workers,  \* the number of worker threads
          Exports   \* the directory trees the server may be started on

ASSUME ServeDirAssumption ==
  /\ Workers \in Nat
  /\ Complete \subseteq BOOLEAN
  /\ \A t \in Exports : /\ WellFormed(t)
                        /\ \A p \in Paths : t.at[p] \in Files \cup {None}
                        /\ \A i \in Inodes : t.attr[i].by = 0

VARIABLES tree,       \* the exported directory
          job,        \* every request with the locals and the response of its handler
          fds,        \* the process's descriptors: the request that opened it, or 0
          stay,       \* the names a directory has had since its readdir opened it
          undefined   \* the process has written past an allocation

vars == <<tree, job, fds, stay, undefined>>

(***************************************************************************)
(* The requests.  complete says that the optional fields the handler asks  *)
(* for are present.                                                        *)
(***************************************************************************)
OnPath == {"READDIR", "RMDIR", "UNLINK", "READLINK", "GETATTR", "STATFS"}

WithParameter == {"ACCESS", "MKDIR", "OPEN", "READ", "WRITE", "CREATE",
                  "TRUNCATE", "CHMOD", "UTIMENS", "MKNOD"}

OnTwoPaths == {"RENAME", "LINK", "SYMLINK"}

AllOps == {"PING", "INVALID"} \cup OnPath \cup WithParameter \cup OnTwoPaths

OpenFlags == {"creat", "excl", "trunc", "write"}

ASSUME OpsAssumption ==
  /\ Ops \in [Requests -> SUBSET AllOps]
  /\ Flags \subseteq SUBSET OpenFlags

LocalErrno == {"NONE", "PERM", "NOENT", "NOMEM", "ACCES", "EXIST", "NOTDIR",
               "ISDIR", "INVAL", "NOSPC", "NOTEMPTY", "BADF", "IO"}

Errno == (LocalErrno \ {"NOTEMPTY", "BADF", "IO"})
           \cup {"UNKNOWN", "INVALID_REQUEST"}

(***************************************************************************)
(* The table of mapping.c has no entry for ENOTEMPTY and EBADF.  EIO is    *)
(* found in the row of UNKNOWN.                                            *)
(***************************************************************************)
Errno_from_local(e) == IF e \in Errno THEN e ELSE "UNKNOWN"

(***************************************************************************)
(* Why a handler may give up, and which handlers may: the path is missing  *)
(* or cannot be joined, permissions or flags cannot be converted, there is *)
(* no memory for the result or for the data, the data block is of no use   *)
(* or of another size than the request says, getgroups fails.              *)
(***************************************************************************)
MayGiveUp ==
  [path       |-> AllOps \ {"PING", "INVALID"},
   conversion |-> {"ACCESS", "MKDIR", "OPEN", "CREATE", "CHMOD", "MKNOD"},
   memory     |-> {"READDIR", "READLINK", "GETATTR", "READ", "WRITE", "STATFS"},
   data       |-> {"WRITE"},
   groups     |-> {"READDIR", "GETATTR"}]

Reasons == {"path", "conversion", "memory", "data", "groups"}

(***************************************************************************)
(* The stages of a handler.                                                *)
(***************************************************************************)
Stages == {"none", "queued", "begin", "answered",
           "count", "rewind", "fill", "open", "used", "closed", "reclose"}

Running(r) == job[r].pc \notin {"none", "queued", "answered"}

Entries == UNION {[S -> Attr] : S \in SUBSET Names}

FDs == 1 .. MaxRequest

Job == [op : AllOps, path : Paths, to : Paths, flags : SUBSET OpenFlags,
        complete : BOOLEAN, pc : Stages,
        fd : {0} \cup FDs,                       \* the open descriptor or DIR
        ino : Inodes \cup {Outside},             \* the inode it refers to
        count : Nat, used : Nat,                 \* slots allocated and used
        left : SUBSET Names,                     \* entries not yet returned
        err : Errno, done : BOOLEAN,             \* the response
        attrs : Attr \cup {None}, entries : Entries,
        cutshort : BOOLEAN,                      \* a pass of readdir failed
        gaveup : Reasons \cup {"no"},            \* the check that failed
        badclose : BOOLEAN]                      \* the close of a write failed

NoJob == [op |-> "INVALID", path |-> <<>>, to |-> <<>>, flags |-> {},
          complete |-> TRUE, pc |-> "none", fd |-> 0, ino |-> Outside,
          count |-> 0, used |-> 0, left |-> {}, err |-> "NONE",
          done |-> FALSE, attrs |-> None, entries |-> <<>>,
          cutshort |-> FALSE, gaveup |-> "no", badclose |-> FALSE]

Init == /\ tree \in Exports
        /\ job = [r \in Requests |-> NoJob]
        /\ fds = [n \in FDs |-> 0]
        /\ stay = [r \in Requests |-> {}]
        /\ undefined = FALSE

-----------------------------------------------------------------------------

(***************************************************************************)
(* A worker that is not busy takes a request: the receive and the dispatch *)
(* of ServeDir_serve.  The requests are the ones the client's operations   *)
(* send and ones that lack a field; the kernel does not pass the mount     *)
(* point itself to an operation that would create, remove or replace it.   *)
(***************************************************************************)
Request(op, p, q, f, c) ==
  /\ (op \in OnTwoPaths) = (q # <<>>)
  /\ op \in {"PING", "INVALID"} => p = <<>>
  /\ op \in OnTwoPaths \cup {"RMDIR", "UNLINK", "MKDIR", "CREATE", "MKNOD"}
       => p # <<>>
  /\ op # "OPEN" => f = {}
  /\ op \in OnPath \cup {"PING", "INVALID"} => c

Idle == Cardinality({s \in Requests : Running(s)}) < Workers

Receive(r) ==
  /\ job[r].pc = "none" /\ Idle
  /\ \A s \in 1 .. r - 1 : job[s].pc # "none"
  /\ \E op \in Ops[r], p, q \in Paths, f \in Flags, c \in Complete :
       /\ Request(op, p, q, f, c)
       /\ job' = [job EXCEPT ![r].op = op, ![r].path = p, ![r].to = q,
                             ![r].flags = f, ![r].complete = c,
                             ![r].pc = "begin"]
  /\ UNCHANGED <<tree, fds, undefined>>

(***************************************************************************)
(* Answers.  Answer sets the errno of a finished handler.  Abort is the    *)
(* error label of a check that fails for reason why: the response keeps    *)
(* the errno it has, NONE.                                                 *)
(***************************************************************************)
Serving(r, op) == job[r].pc = "begin" /\ job[r].op = op

\* mutant: the local errno is sent as it is
Answer_Unmapped(r, e) ==
  job' = [job EXCEPT ![r].pc = "answered", ![r].err = e,
                     ![r].done = (e = "NONE")]

Answer(r, e) ==
  job' = [job EXCEPT ![r].pc = "answered",
                     ![r].err = Errno_from_local(e),
                     ![r].done = (e = "NONE")]

Abort(r, why) ==
  /\ job[r].op \in MayGiveUp[why]
  /\ job' = [job EXCEPT ![r].pc = "answered", ![r].gaveup = why]

Refused(t) == Fails("ACCES", t)

(***************************************************************************)
(* A handler that consists of one system call with the outcomes S.         *)
(***************************************************************************)
Syscall(r, S) ==
  /\ \E o \in S \cup Refused(tree) : tree' = o.tree /\ Answer(r, o.err)
  /\ UNCHANGED <<fds, undefined>>

(***************************************************************************)
(* REQ_HAS_OPTIONAL and REQ_HAS_OPTIONAL_PTR of all handlers, and the      *)
(* check for a data block in ServeDir_op_write.                            *)
(***************************************************************************)
MissingParameter(r) ==
  /\ job[r].pc = "begin" /\ ~job[r].complete
  /\ job' = [job EXCEPT ![r].pc = "answered", ![r].err = "INVALID_REQUEST"]
  /\ UNCHANGED <<tree, fds, undefined>>

(***************************************************************************)
(* ServeDir_fullpath without a path or without memory, in all handlers     *)
(* that have a path, and the conversion of permissions or flags.           *)
(***************************************************************************)
ServeDir_fullpath_fails(r) ==
  /\ job[r].pc = "begin" /\ job[r].complete
  /\ Abort(r, "path")
  /\ UNCHANGED <<tree, fds, undefined>>

ConversionFails(r) ==
  /\ job[r].pc = "begin" /\ job[r].complete
  /\ Abort(r, "conversion")
  /\ UNCHANGED <<tree, fds, undefined>>

ServeDir_op_ping(r) ==
  /\ Serving(r, "PING")
  /\ Answer(r, "NONE")
  /\ UNCHANGED <<tree, fds, undefined>>

ServeDir_op_invalid(r) ==
  /\ Serving(r, "INVALID")
  /\ job' = [job EXCEPT ![r].pc = "answered", ![r].err = "INVALID_REQUEST"]
  /\ UNCHANGED <<tree, fds, undefined>>

ServeDir_op_rmdir(r) ==
  Serving(r, "RMDIR") /\ Syscall(r, Rmdir(tree, job[r].path))

ServeDir_op_unlink(r) ==
  Serving(r, "UNLINK") /\ Syscall(r, Unlink(tree, job[r].path))

ServeDir_op_access(r) ==
  /\ Serving(r, "ACCESS") /\ job[r].complete
  /\ Syscall(r, LookThrough(tree, job[r].path))

ServeDir_op_rename(r) ==
  /\ Serving(r, "RENAME") /\ job[r].complete
  /\ Syscall(r, Rename(tree, job[r].path, job[r].to))

ServeDir_op_link(r) ==
  /\ Serving(r, "LINK") /\ job[r].complete
  /\ Syscall(r, Link(tree, job[r].path, job[r].to))

(***************************************************************************)
(* The link is created at the path of the request; path_to is its text.    *)
(***************************************************************************)
ServeDir_op_symlink(r) ==
  /\ Serving(r, "SYMLINK") /\ job[r].complete
  /\ Syscall(r, Make(tree, job[r].path, "lnk", r))

ServeDir_op_readlink(r) ==
  /\ Serving(r, "READLINK")
  /\ \/ Syscall(r, Found(tree, job[r].path,
                     IF Kind(tree, job[r].path) = "lnk" THEN Succeeds(tree)
                     ELSE Fails("INVAL", tree)))
     \/ /\ Exists(tree, job[r].path) /\ Kind(tree, job[r].path) = "lnk"
        /\ Abort(r, "memory")
        /\ UNCHANGED <<tree, fds, undefined>>

ServeDir_op_mkdir(r) ==
  /\ Serving(r, "MKDIR") /\ job[r].complete
  /\ Syscall(r, Make(tree, job[r].path, "dir", r))

(***************************************************************************)
(* lstat; without memory for the attributes or without the groups of the   *)
(* process the error label is reached.                                     *)
(***************************************************************************)
ServeDir_op_getattr(r) ==
  /\ Serving(r, "GETATTR")
  /\ \/ \E o \in Look(tree, job[r].path) \cup Refused(tree) :
          job' = [job EXCEPT ![r].pc = "answered",
                             ![r].err = Errno_from_local(o.err),
                             ![r].done = (o.err = "NONE"),
                             ![r].attrs = IF o.err = "NONE"
                                          THEN Lstat(tree, job[r].path)
                                          ELSE None]
     \/ /\ Lstat(tree, job[r].path) # None
        /\ \E why \in {"memory", "groups"} : Abort(r, why)
  /\ UNCHANGED <<tree, fds, undefined>>

ServeDir_op_truncate(r) ==
  /\ Serving(r, "TRUNCATE") /\ job[r].complete
  /\ Syscall(r, Truncate(tree, job[r].path, r))

ServeDir_op_chmod(r) ==
  /\ Serving(r, "CHMOD") /\ job[r].complete
  /\ Syscall(r, Update(tree, job[r].path, r))

ServeDir_op_utimens(r) ==
  /\ Serving(r, "UTIMENS") /\ job[r].complete
  /\ Syscall(r, Update(tree, job[r].path, r))

(***************************************************************************)
(* Only regular files, any other type is EPERM without a system call, one  *)
(* of the outcomes below.                                                  *)
(***************************************************************************)
ServeDir_op_mknod(r) ==
  /\ Serving(r, "MKNOD") /\ job[r].complete
  /\ Syscall(r, Make(tree, job[r].path, "reg", r) \cup Fails("PERM", tree))

ServeDir_op_statfs(r) ==
  /\ Serving(r, "STATFS")
  /\ \/ Syscall(r, LookThrough(tree, job[r].path))
     \/ /\ Walk(tree, job[r].path) = "NONE" /\ Exists(tree, job[r].path)
        /\ Abort(r, "memory")
        /\ UNCHANGED <<tree, fds, undefined>>

-----------------------------------------------------------------------------

(***************************************************************************)
(* Descriptors.  The kernel hands out the lowest free number; a closed     *)
(* number is free at once, even when close reports an error.               *)
(***************************************************************************)
FreeFd == CHOOSE n \in FDs : fds[n] = 0 /\ \A m \in 1 .. n - 1 : fds[m] # 0

(***************************************************************************)
(* The file that the descriptor of a handler refers to by now.             *)
(***************************************************************************)
File(r) == IF fds[job[r].fd] = 0 THEN None ELSE job[fds[job[r].fd]].ino

Closed(r) == [fds EXCEPT ![job[r].fd] = 0]

(***************************************************************************)
(* open with these flags; the handler goes on at stage next or answers the *)
(* errno.                                                                  *)
(***************************************************************************)
OpenFile(r, flags, next) ==
  /\ \E o \in Open(tree, job[r].path, flags, r) \cup Refused(tree) :
       /\ tree' = o.tree
       /\ \/ /\ o.err # "NONE"
             /\ Answer(r, o.err)
             /\ UNCHANGED fds
          \/ /\ o.err = "NONE"
             /\ job' = [job EXCEPT ![r].pc = next, ![r].fd = FreeFd,
                                   ![r].ino = OpenedInode(o.tree, job[r].path)]
             /\ fds' = [fds EXCEPT ![FreeFd] = r]
  /\ UNCHANGED undefined

(***************************************************************************)
(* close(fd), its result ignored.                                          *)
(***************************************************************************)
CloseAndAnswer(r) ==
  /\ fds' = Closed(r)
  /\ job' = [job EXCEPT ![r].pc = "answered", ![r].fd = 0, ![r].done = TRUE]
  /\ UNCHANGED <<tree, undefined>>

\* mutant: the error label closes nothing
CloseAndAbort_Leak(r, why) ==
  /\ job[r].op \in MayGiveUp[why]
  /\ job' = [job EXCEPT ![r].pc = "answered", ![r].fd = 0, ![r].gaveup = why]
  /\ UNCHANGED <<tree, fds, undefined>>

\* mutant: closes and goes on
CloseAndAbort_GoesOn(r, why) ==
  /\ job[r].op \in MayGiveUp[why]
  /\ fds' = Closed(r)
  /\ job' = [job EXCEPT ![r].pc = "used", ![r].gaveup = why]
  /\ UNCHANGED <<tree, undefined>>

CloseAndAbort(r, why) ==
  /\ job[r].op \in MayGiveUp[why]
  /\ fds' = Closed(r)
  /\ job' = [job EXCEPT ![r].pc = "answered", ![r].fd = 0, ![r].gaveup = why]
  /\ UNCHANGED <<tree, undefined>>

ServeDir_op_open(r) ==
  \/ Serving(r, "OPEN") /\ job[r].complete /\ OpenFile(r, job[r].flags, "open")
  \/ job[r].op = "OPEN" /\ job[r].pc = "open" /\ CloseAndAnswer(r)

ServeDir_op_create(r) ==
  \/ /\ Serving(r, "CREATE") /\ job[r].complete
     /\ OpenFile(r, {"creat", "trunc", "write"}, "open")
  \/ job[r].op = "CREATE" /\ job[r].pc = "open" /\ CloseAndAnswer(r)

(***************************************************************************)
(* open, read, close.  A directory can be opened but not read.             *)
(***************************************************************************)
ServeDir_op_read(r) ==
  \/ Serving(r, "READ") /\ job[r].complete /\ OpenFile(r, {}, "open")
  \/ /\ job[r].op = "READ" /\ job[r].pc = "open"
     /\ \/ CloseAndAbort(r, "memory")
        \/ /\ job' = [job EXCEPT
             ![r].pc = "used",
             ![r].err = IF File(r) = None THEN Errno_from_local("BADF")
                        ELSE IF File(r) # Outside /\ tree.attr[File(r)].kind = "dir"
                             THEN "ISDIR" ELSE "NONE"]
           /\ UNCHANGED <<tree, fds, undefined>>
  \/ /\ job[r].op = "READ" /\ job[r].pc = "used"
     /\ fds' = Closed(r)
     /\ job' = [job EXCEPT ![r].pc = "answered", ![r].fd = 0,
                           ![r].done = (job[r].err = "NONE")]
     /\ UNCHANGED <<tree, undefined>>

\* mutant: the result of pwrite is not looked at
Pwrite_Unchecked(r) ==
  /\ tree' = tree
  /\ job' = [job EXCEPT ![r].pc = "used"]

(***************************************************************************)
(* open with O_CREAT, unpack the data (the checks in between may end the   *)
(* handler), pwrite to the descriptor, close it, set the times of whatever *)
(* is at the path by then.  A close that fails tells that what was written *)
(* may be lost; the error label closes the number again, and the response  *)
(* keeps the errno of pwrite.                                              *)
(***************************************************************************)
Pwrite(r) ==
  \/ /\ File(r) \notin {None, Outside} /\ tree.attr[File(r)].kind = "reg"
     /\ tree' = Changed(tree, File(r), r)
     /\ job' = [job EXCEPT ![r].pc = "used", ![r].done = TRUE]
  \/ /\ File(r) = Outside
     /\ tree' = tree
     /\ job' = [job EXCEPT ![r].pc = "used", ![r].done = TRUE]
  \/ /\ tree' = tree
     /\ job' = [job EXCEPT ![r].pc = "used",
                           ![r].err = IF File(r) = None
                                      THEN Errno_from_local("BADF") ELSE "NOSPC"]

ServeDir_op_write(r) ==
  \/ Serving(r, "WRITE") /\ job[r].complete /\ OpenFile(r, {"creat", "write"}, "open")
  \/ /\ job[r].op = "WRITE" /\ job[r].pc = "open"
     /\ \/ \E why \in {"memory", "data"} : CloseAndAbort(r, why)
        \/ Pwrite(r) /\ UNCHANGED <<fds, undefined>>
  \/ /\ job[r].op = "WRITE" /\ job[r].pc = "used"
     /\ fds' = Closed(r)
     /\ job' \in {[job EXCEPT ![r].pc = "closed", ![r].fd = 0],
                  [job EXCEPT ![r].pc = "reclose", ![r].badclose = TRUE,
                              ![r].done = FALSE]}
     /\ UNCHANGED <<tree, undefined>>
  \/ /\ job[r].op = "WRITE" /\ job[r].pc = "reclose"
     /\ fds' = Closed(r)
     /\ job' = [job EXCEPT ![r].pc = "answered", ![r].fd = 0]
     /\ UNCHANGED <<tree, undefined>>
  \/ /\ job[r].op = "WRITE" /\ job[r].pc = "closed"
     /\ \E o \in Update(tree, job[r].path, r) \cup Refused(tree) : tree' = o.tree
     /\ job' = [job EXCEPT ![r].pc = "answered"]
     /\ UNCHANGED <<fds, undefined>>

-----------------------------------------------------------------------------

(***************************************************************************)
(* readdir(3) reads a small directory with one system call, when it is     *)
(* first asked for an entry: once for the count and once after rewinddir.  *)
(* The entries for the directory itself and its parent come with every     *)
(* listing; they are looked up through the path like the others.  When the *)
(* call fails, or the directory is gone, readdir returns NULL at once, and *)
(* both loops take that for the end of the directory.                      *)
(***************************************************************************)
Opendir(r) ==
  /\ Serving(r, "READDIR")
  /\ \E o \in Found(tree, job[r].path,
                IF IsDir(tree, job[r].path) THEN Succeeds(tree)
                ELSE Fails("NOTDIR", tree)) \cup Refused(tree) :
       \/ /\ o.err # "NONE"
          /\ Answer(r, o.err)
          /\ UNCHANGED fds
       \/ /\ o.err = "NONE"
          /\ job' = [job EXCEPT ![r].pc = "count", ![r].fd = FreeFd,
                                ![r].ino = tree.at[job[r].path]]
          /\ fds' = [fds EXCEPT ![FreeFd] = r]
  /\ UNCHANGED <<tree, undefined>>

(***************************************************************************)
(* The names behind the descriptor, and whether it is that of a directory  *)
(* that still exists.                                                      *)
(***************************************************************************)
Listed(r) == IF File(r) \in {None, Outside} THEN {} ELSE NamesIn(tree, File(r))

Readable(r) == \E p \in Paths : IsDir(tree, p) /\ tree.at[p] = File(r)

CountEntries(r) ==
  /\ job[r].op = "READDIR" /\ job[r].pc = "count"
  /\ \/ /\ Readable(r)
        /\ job' = [job EXCEPT ![r].pc = "rewind",
                              ![r].count = Cardinality(Listed(r)) + 2]
        /\ UNCHANGED fds
     \/ /\ job' = [job EXCEPT ![r].pc = "rewind", ![r].cutshort = TRUE]
        /\ UNCHANGED fds
     \/ /\ job' = [job EXCEPT ![r].pc = "answered", ![r].fd = 0,
                              ![r].err = "NOMEM", ![r].gaveup = "memory"]
        /\ fds' = Closed(r)
  /\ UNCHANGED <<tree, undefined>>

Rewinddir(r) ==
  LET dots == IF IsDir(tree, job[r].path) THEN 2 ELSE 0 IN
  /\ job[r].op = "READDIR" /\ job[r].pc = "rewind"
  /\ \/ /\ Readable(r)
        /\ job' = [job EXCEPT
             ![r].pc = "fill",
             ![r].left = Listed(r),
             ![r].used = dots,
             ![r].err = IF IsDir(tree, job[r].path) THEN "NONE"
                        ELSE IF Exists(tree, job[r].path) THEN "NOTDIR"
                        ELSE "NOENT"]
        /\ undefined' = (dots > job[r].count)
        /\ UNCHANGED <<tree, fds>>
     \/ /\ job' = [job EXCEPT ![r].pc = "fill", ![r].cutshort = TRUE]
        /\ UNCHANGED <<tree, fds, undefined>>
     \/ Readable(r) /\ \E why \in {"memory", "groups"} : CloseAndAbort(r, why)

(***************************************************************************)
(* One turn of the loop: lstat by path, and the next slot of the array.    *)
(* When lstat fails its errno becomes the errno of the listing.            *)
(***************************************************************************)
FillEntry(r, n) ==
  LET p == Append(job[r].path, n) IN
  /\ job[r].op = "READDIR" /\ job[r].pc = "fill" /\ n \in job[r].left
  /\ \E o \in Look(tree, p) \cup Refused(tree) :
       \/ /\ o.err = "NONE"
          /\ job' = [job EXCEPT ![r].left = @ \ {n},
                                ![r].used = @ + 1,
                                ![r].entries = [m \in DOMAIN @ \cup {n} |->
                                   IF m = n THEN Lstat(tree, p) ELSE @[m]]]
          /\ undefined' = (job[r].used >= job[r].count)
       \/ /\ o.err # "NONE"
          /\ job' = [job EXCEPT ![r].left = @ \ {n},
                                ![r].err = Errno_from_local(o.err)]
          /\ UNCHANGED undefined
  /\ UNCHANGED <<tree, fds>>

(***************************************************************************)
(* Without memory for a path or for attributes, or without the groups.     *)
(* The error label frees the entries and leaves their number in the        *)
(* response, which is packed next.  It is not reached without an entry.    *)
(***************************************************************************)
FillFails(r) ==
  /\ job[r].op = "READDIR" /\ job[r].pc = "fill" /\ job[r].left # {}
  /\ fds' = Closed(r)
  /\ \E why \in {"memory", "groups"} :
       job' = [job EXCEPT ![r].pc = "answered", ![r].fd = 0, ![r].gaveup = why]
  /\ undefined' = (job[r].used # 0)
  /\ UNCHANGED tree

\* mutant: the loop ends when the array is full
EndListing_Full(r) ==
  /\ job[r].op = "READDIR" /\ job[r].pc = "fill"
  /\ job[r].left = {} \/ job[r].used = job[r].count
  /\ fds' = Closed(r)
  /\ job' = [job EXCEPT ![r].pc = "answered", ![r].fd = 0, ![r].done = TRUE]
  /\ UNCHANGED <<tree, undefined>>

EndListing(r) ==
  /\ job[r].op = "READDIR" /\ job[r].pc = "fill" /\ job[r].left = {}
  /\ fds' = Closed(r)
  /\ job' = [job EXCEPT ![r].pc = "answered", ![r].fd = 0, ![r].done = TRUE]
  /\ UNCHANGED <<tree, undefined>>

ServeDir_op_readdir(r) ==
  \/ Opendir(r)
  \/ CountEntries(r)
  \/ Rewinddir(r)
  \/ \E n \in Names : FillEntry(r, n)
  \/ FillFails(r)
  \/ EndListing(r)

-----------------------------------------------------------------------------

Handler(r) ==
  \/ MissingParameter(r)     \/ ServeDir_fullpath_fails(r)
  \/ ConversionFails(r)
  \/ ServeDir_op_ping(r)     \/ ServeDir_op_invalid(r)
  \/ ServeDir_op_readdir(r)  \/ ServeDir_op_rmdir(r)
  \/ ServeDir_op_unlink(r)   \/ ServeDir_op_access(r)
  \/ ServeDir_op_rename(r)   \/ ServeDir_op_link(r)
  \/ ServeDir_op_symlink(r)  \/ ServeDir_op_readlink(r)
  \/ ServeDir_op_mkdir(r)    \/ ServeDir_op_getattr(r)
  \/ ServeDir_op_open(r)     \/ ServeDir_op_read(r)
  \/ ServeDir_op_write(r)    \/ ServeDir_op_create(r)
  \/ ServeDir_op_truncate(r) \/ ServeDir_op_chmod(r)
  \/ ServeDir_op_utimens(r)  \/ ServeDir_op_mknod(r)
  \/ ServeDir_op_statfs(r)

(***************************************************************************)
(* stay is a record for the properties: the names a directory had when its *)
(* listing began and has never lost since.                                 *)
(***************************************************************************)
Watch ==
  stay' = [r \in Requests |->
    IF job'[r].op # "READDIR" \/ ~Running(r)' THEN stay[r]
    ELSE IF job[r].pc = "begin" THEN NamesIn(tree', job'[r].ino)
    ELSE stay[r] \cap NamesIn(tree', job'[r].ino)]

Next ==
  /\ ~undefined
  /\ \E r \in Requests : Receive(r) \/ Handler(r)
  /\ Watch

Spec == Init /\ [][Next]_vars

-----------------------------------------------------------------------------

(***************************************************************************)
(* Every variable has its type, and the directory is a well-formed tree.   *)
(***************************************************************************)
TypeOK ==
  /\ WellFormed(tree)
  /\ job \in [Requests -> Job]
  /\ fds \in [FDs -> {0} \cup Requests]
  /\ stay \in [Requests -> SUBSET Names]
  /\ undefined \in BOOLEAN

(***************************************************************************)
(* ServeDir_op_readdir: a listing that is answered without an error holds  *)
(* every name that was in the directory during the whole handler, whatever *)
(* other workers have done to the directory, its entries and its own name. *)
(* It need not hold when readdir(3) has failed in one of the two passes,   *)
(* which the handler takes for the end of the directory and answers short  *)
(* and without an errno; nor when a check failed (gaveup), nor when a      *)
(* worker has lost its descriptor to another one.                          *)
(***************************************************************************)
ListingComplete ==
  \A r \in Requests :
    /\ job[r].op = "READDIR" /\ job[r].pc = "answered"
    /\ job[r].err = "NONE" /\ job[r].gaveup = "no" /\ ~job[r].cutshort
    /\ \A s \in Requests : ~job[s].badclose
    => stay[r] \subseteq DOMAIN job[r].entries

(***************************************************************************)
(* ServeDir_op_readdir allocates as many slots as the first pass counted,  *)
(* and the second pass fills no more, when neither pass has failed.        *)
(***************************************************************************)
ListingFits ==
  \A r \in Requests :
    job[r].pc = "fill" /\ ~job[r].cutshort => job[r].used <= job[r].count

(***************************************************************************)
(* A worker reads, writes and closes only the descriptor it has opened     *)
(* itself, as long as no close has failed in ServeDir_op_write, whose      *)
(* error label closes the same number a second time.                       *)
(***************************************************************************)
DescriptorOwned ==
  (\A s \in Requests : ~job[s].badclose) =>
    \A r \in Requests : job[r].fd # 0 => fds[job[r].fd] = r

(***************************************************************************)
(* No way through a handler leaves a descriptor or a DIR open: an open one *)
(* belongs to a handler that is still running and knows it.                *)
(***************************************************************************)
DescriptorClosed ==
  \A n \in FDs : fds[n] # 0 => Running(fds[n]) /\ job[fds[n]].fd = n

(***************************************************************************)
(* An answer without an errno says that what was asked for has been done,  *)
(* with exactly these exceptions: a handler that gave up for one of the    *)
(* reasons MayGiveUp lists for its operation, and a write whose data       *)
(* close(2) could not keep, answer without an errno too.  No other way     *)
(* through a handler does: not a call that is refused, not a field that is *)
(* missing, not a pwrite that fails.                                       *)
(***************************************************************************)
AckMeansDone ==
  \A r \in Requests : job[r].pc = "answered" /\ job[r].err = "NONE" =>
    \/ job[r].done
    \/ job[r].gaveup \in Reasons /\ job[r].op \in MayGiveUp[job[r].gaveup]
    \/ job[r].op = "WRITE" /\ job[r].badclose
=============================================================================
