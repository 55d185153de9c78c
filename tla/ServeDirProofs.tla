--------------------------- MODULE ServeDirProofs ---------------------------
(***************************************************************************)
(* Proofs about ServeDir, for any number of workers and requests and any   *)
(* exported directory: first its descriptors; then the exported directory  *)
(* itself under the system calls of the handlers; then answers and         *)
(* listings, which rest on both.                                           *)
(***************************************************************************)
EXTENDS ServeDir, FiniteSetTheorems, WellFoundedInduction, TLAPS

-----------------------------------------------------------------------------
(* The inductive invariant.                                                *)

(***************************************************************************)
(* job is a function on the requests, and every job has all its fields.    *)
(***************************************************************************)
Fields == DOMAIN NoJob

Shape == /\ DOMAIN job = Requests
         /\ \A r \in Requests : DOMAIN job[r] = Fields

(***************************************************************************)
(* Stages in which a handler has not yet opened, or has closed.            *)
(***************************************************************************)
Bare == {"none", "queued", "begin", "closed", "answered"}

Opened == {"count", "rewind", "fill", "open", "used"}

Numbers == /\ fds \in [FDs -> {0} \cup Requests]
           /\ \A r \in Requests : job[r].fd \in {0} \cup FDs
           /\ \A r \in Requests : job[r].pc \in Bare => job[r].fd = 0

DInv == Shape /\ Numbers /\ DescriptorClosed /\ DescriptorOwned

-----------------------------------------------------------------------------
(* The kinds of steps.                                                     *)

Keeps(r) == /\ Shape'
            /\ \A s \in Requests \ {r} : job'[s] = job[s]

(***************************************************************************)
(* A step of a handler that has no descriptor and gets none, a step that   *)
(* keeps the descriptor, an open, a close, and a close that fails.         *)
(***************************************************************************)
StaysBare(r) ==
  /\ Keeps(r) /\ fds' = fds
  /\ job[r].pc \in Bare /\ job'[r].pc \in Bare
  /\ job'[r].fd = job[r].fd /\ job'[r].badclose = job[r].badclose

StaysOpen(r) ==
  /\ Keeps(r) /\ fds' = fds
  /\ job[r].pc \in Opened /\ job'[r].pc \in Opened
  /\ job'[r].fd = job[r].fd /\ job'[r].badclose = job[r].badclose

Opens(r) ==
  /\ Keeps(r) /\ fds' = [fds EXCEPT ![FreeFd] = r]
  /\ job[r].pc = "begin" /\ job'[r].pc \in Opened
  /\ job'[r].fd = FreeFd /\ job'[r].badclose = job[r].badclose

Closes(r) ==
  /\ Keeps(r) /\ fds' = [fds EXCEPT ![job[r].fd] = 0]
  /\ job[r].pc \in Opened \cup {"reclose"} /\ job'[r].pc \in {"closed", "answered"}
  /\ job'[r].fd = 0 /\ job'[r].badclose = job[r].badclose

CloseFails(r) ==
  /\ Keeps(r) /\ fds' = [fds EXCEPT ![job[r].fd] = 0]
  /\ job[r].pc \in Opened /\ job'[r].pc = "reclose"
  /\ job'[r].fd = job[r].fd /\ job'[r].badclose = TRUE

StepOfKind(r) ==
  StaysBare(r) \/ StaysOpen(r) \/ Opens(r) \/ Closes(r) \/ CloseFails(r)

LEMMA FieldNames ==
  Fields = {"op", "path", "to", "flags", "complete", "pc", "fd", "ino", "count",
            "used", "left", "err", "done", "attrs", "entries",
            "cutshort", "gaveup", "badclose"}
BY DEF Fields, NoJob

\* an answer
LEMMA AnswerIs ==
  ASSUME Shape, NEW r \in Requests, NEW e, Answer(r, e)
  PROVE  /\ Keeps(r) /\ job'[r].pc = "answered"
         /\ job'[r].fd = job[r].fd /\ job'[r].badclose = job[r].badclose
BY FieldNames DEF Shape, Keeps, Answer

(***************************************************************************)
(* A check of the handler fails, without or with an open descriptor.       *)
(***************************************************************************)
Aborts(r) == \E why \in Reasons : Abort(r, why)

CloseAborts(r) == \E why \in Reasons : CloseAndAbort(r, why)

\* the error label of a handler without a descriptor
LEMMA AbortIs ==
  ASSUME Shape, NEW r \in Requests, Aborts(r)
  PROVE  /\ Keeps(r) /\ job'[r].pc = "answered"
         /\ job'[r].fd = job[r].fd /\ job'[r].badclose = job[r].badclose
BY FieldNames DEF Shape, Keeps, Abort, Aborts

\* a handler of one system call
LEMMA SyscallIs ==
  ASSUME Shape, NEW r \in Requests, job[r].pc = "begin", NEW S, Syscall(r, S)
  PROVE  StaysBare(r)
<1>1. PICK o \in S \cup Refused(tree) : Answer(r, o.err)
  BY DEF Syscall
<1>2. fds' = fds
  BY DEF Syscall
<1> QED
  BY <1>1, <1>2, AnswerIs DEF StaysBare, Bare

LEMMA ReceiveIs ==
  ASSUME Shape, NEW r \in Requests, Receive(r)
  PROVE  StaysBare(r)
<1>1. PICK op \in Ops[r], p, q \in Paths, f \in Flags, c \in Complete :
        /\ Request(op, p, q, f, c)
        /\ job' = [job EXCEPT ![r].op = op, ![r].path = p, ![r].to = q,
                              ![r].flags = f, ![r].complete = c,
                              ![r].pc = "begin"]
  BY Zenon DEF Receive
<1>2. job[r].pc = "none" /\ fds' = fds
  BY DEF Receive
<1>3. /\ job'[r] = [job[r] EXCEPT !.op = op, !.path = p, !.to = q, !.flags = f,
                                  !.complete = c, !.pc = "begin"]
      /\ DOMAIN job' = Requests
      /\ \A s \in Requests \ {r} : job'[s] = job[s]
  BY <1>1 DEF Shape
<1>4. /\ DOMAIN job'[r] = Fields
      /\ job'[r].pc = "begin"
      /\ job'[r].fd = job[r].fd /\ job'[r].badclose = job[r].badclose
  BY <1>3, FieldNames DEF Shape
<1> QED
  BY <1>2, <1>3, <1>4 DEF Shape, Keeps, StaysBare, Bare

\* the handlers that use no descriptor
LEMMA BareHandlers ==
  ASSUME Shape, NEW r \in Requests,
         \/ MissingParameter(r) \/ ServeDir_fullpath_fails(r) \/ ConversionFails(r)
         \/ ServeDir_op_ping(r) \/ ServeDir_op_invalid(r)
         \/ ServeDir_op_getattr(r) \/ ServeDir_op_statfs(r)
         \/ ServeDir_op_rmdir(r) \/ ServeDir_op_unlink(r)
         \/ ServeDir_op_access(r) \/ ServeDir_op_rename(r)
         \/ ServeDir_op_link(r) \/ ServeDir_op_symlink(r)
         \/ ServeDir_op_readlink(r) \/ ServeDir_op_mkdir(r)
         \/ ServeDir_op_truncate(r) \/ ServeDir_op_chmod(r)
         \/ ServeDir_op_utimens(r) \/ ServeDir_op_mknod(r)
  PROVE  StaysBare(r)
<1>1. CASE MissingParameter(r)
  BY <1>1, FieldNames DEF MissingParameter, Shape, Keeps, StaysBare, Bare
<1>2. CASE ServeDir_fullpath_fails(r) \/ ConversionFails(r)
  BY <1>2, AbortIs
  DEF ServeDir_fullpath_fails, ConversionFails, Aborts, Reasons, StaysBare, Bare
<1>3. CASE ServeDir_op_ping(r)
  BY <1>3, AnswerIs DEF ServeDir_op_ping, Serving, StaysBare, Bare
<1>4. CASE ServeDir_op_invalid(r)
  BY <1>4, FieldNames DEF ServeDir_op_invalid, Serving, Shape, Keeps, StaysBare, Bare
<1>5. CASE ServeDir_op_getattr(r)
  <2>1. job[r].pc = "begin" /\ fds' = fds
    BY <1>5 DEF ServeDir_op_getattr, Serving
  <2>2. CASE Aborts(r)
    BY <2>1, <2>2, AbortIs DEF StaysBare, Bare
  <2>3. CASE ~Aborts(r)
    <3>1. PICK o \in Look(tree, job[r].path) \cup Refused(tree) :
            job' = [job EXCEPT ![r].pc = "answered",
                               ![r].err = Errno_from_local(o.err),
                               ![r].done = (o.err = "NONE"),
                               ![r].attrs = IF o.err = "NONE"
                                            THEN Lstat(tree, job[r].path)
                                            ELSE None]
      BY <1>5, <2>3, Zenon DEF ServeDir_op_getattr, Aborts, Reasons
    <3>2. /\ job'[r] = [job[r] EXCEPT !.pc = "answered",
                                      !.err = Errno_from_local(o.err),
                                      !.done = (o.err = "NONE"),
                                      !.attrs = IF o.err = "NONE"
                                                THEN Lstat(tree, job[r].path)
                                                ELSE None]
          /\ DOMAIN job' = Requests
          /\ \A s \in Requests \ {r} : job'[s] = job[s]
      BY <3>1 DEF Shape
    <3>3. /\ DOMAIN job'[r] = Fields
          /\ job'[r].pc = "answered"
          /\ job'[r].fd = job[r].fd /\ job'[r].badclose = job[r].badclose
      BY <3>2, FieldNames DEF Shape
    <3> QED
      BY <2>1, <3>2, <3>3 DEF Shape, Keeps, StaysBare, Bare
  <2> QED
    BY <2>2, <2>3
<1>6. CASE ServeDir_op_statfs(r)
  BY <1>6, AbortIs, SyscallIs
  DEF ServeDir_op_statfs, Serving, StaysBare, Bare, Aborts, Reasons
<1>7. CASE ServeDir_op_rmdir(r)
  BY <1>7, SyscallIs DEF ServeDir_op_rmdir, Serving
<1>8. CASE ServeDir_op_unlink(r)
  BY <1>8, SyscallIs DEF ServeDir_op_unlink, Serving
<1>9. CASE ServeDir_op_access(r)
  BY <1>9, SyscallIs DEF ServeDir_op_access, Serving
<1>10. CASE ServeDir_op_rename(r)
  BY <1>10, SyscallIs DEF ServeDir_op_rename, Serving
<1>11. CASE ServeDir_op_link(r)
  BY <1>11, SyscallIs DEF ServeDir_op_link, Serving
<1>12. CASE ServeDir_op_symlink(r)
  BY <1>12, SyscallIs DEF ServeDir_op_symlink, Serving
<1>13. CASE ServeDir_op_readlink(r)
  BY <1>13, AbortIs, SyscallIs
  DEF ServeDir_op_readlink, Serving, StaysBare, Bare, Aborts, Reasons
<1>14. CASE ServeDir_op_mkdir(r)
  BY <1>14, SyscallIs DEF ServeDir_op_mkdir, Serving
<1>15. CASE ServeDir_op_truncate(r)
  BY <1>15, SyscallIs DEF ServeDir_op_truncate, Serving
<1>16. CASE ServeDir_op_chmod(r)
  BY <1>16, SyscallIs DEF ServeDir_op_chmod, Serving
<1>17. CASE ServeDir_op_utimens(r)
  BY <1>17, SyscallIs DEF ServeDir_op_utimens, Serving
<1>18. CASE ServeDir_op_mknod(r)
  BY <1>18, SyscallIs DEF ServeDir_op_mknod, Serving
<1> QED
  BY <1>1, <1>2, <1>3, <1>4, <1>5, <1>6, <1>7, <1>8, <1>9, <1>10, <1>11, <1>12, <1>13, <1>14, <1>15, <1>16, <1>17, <1>18

\* open, and its failure
LEMMA OpenFileIs ==
  ASSUME Shape, NEW r \in Requests, job[r].pc = "begin", NEW flags,
         OpenFile(r, flags, "open")
  PROVE  StaysBare(r) \/ Opens(r)
<1>1. PICK o \in Open(tree, job[r].path, flags, r) \cup Refused(tree) :
        \/ Answer(r, o.err) /\ UNCHANGED fds
        \/ /\ job' = [job EXCEPT ![r].pc = "open", ![r].fd = FreeFd,
                                 ![r].ino = OpenedInode(o.tree, job[r].path)]
           /\ fds' = [fds EXCEPT ![FreeFd] = r]
  BY DEF OpenFile
<1>2. CASE Answer(r, o.err) /\ UNCHANGED fds
  BY <1>2, AnswerIs DEF StaysBare, Bare
<1>3. CASE /\ job' = [job EXCEPT ![r].pc = "open", ![r].fd = FreeFd,
                                 ![r].ino = OpenedInode(o.tree, job[r].path)]
           /\ fds' = [fds EXCEPT ![FreeFd] = r]
  BY <1>3, FieldNames DEF Shape, Keeps, Opens, Opened
<1> QED
  BY <1>1, <1>2, <1>3

\* close before the answer
LEMMA CloseIs ==
  ASSUME Shape, NEW r \in Requests, job[r].pc \in Opened,
         CloseAndAnswer(r) \/ CloseAborts(r)
  PROVE  Closes(r)
BY FieldNames
DEF CloseAndAnswer, CloseAborts, CloseAndAbort, Closed, Shape, Keeps, Closes

\* open and create
LEMMA OpenHandlers ==
  ASSUME Shape, NEW r \in Requests, ServeDir_op_open(r) \/ ServeDir_op_create(r)
  PROVE  StaysBare(r) \/ Opens(r) \/ Closes(r)
BY OpenFileIs, CloseIs DEF ServeDir_op_open, ServeDir_op_create, Serving, Opened

\* read
LEMMA ReadHandler ==
  ASSUME Shape, NEW r \in Requests, ServeDir_op_read(r)
  PROVE  StaysBare(r) \/ Opens(r) \/ StaysOpen(r) \/ Closes(r)
<1>1. CASE Serving(r, "READ") /\ OpenFile(r, {}, "open")
  BY <1>1, OpenFileIs DEF Serving
<1>2. CASE job[r].pc = "open" /\ CloseAborts(r)
  BY <1>2, CloseIs DEF Opened
<1>3. CASE /\ job[r].pc = "open" /\ fds' = fds
           /\ \E e : job' = [job EXCEPT ![r].pc = "used", ![r].err = e]
  BY <1>3, FieldNames DEF Shape, Keeps, StaysOpen, Opened
<1>4. CASE /\ job[r].pc = "used" /\ fds' = Closed(r)
           /\ \E d : job' = [job EXCEPT ![r].pc = "answered", ![r].fd = 0,
                                        ![r].done = d]
  BY <1>4, FieldNames DEF Closed, Shape, Keeps, Closes, Opened
<1> QED
  BY <1>1, <1>2, <1>3, <1>4 DEF ServeDir_op_read, CloseAborts, Reasons

\* write, whose close may fail
LEMMA WriteHandler ==
  ASSUME Shape, NEW r \in Requests, ServeDir_op_write(r)
  PROVE  StaysBare(r) \/ Opens(r) \/ StaysOpen(r) \/ Closes(r) \/ CloseFails(r)
<1>1. CASE Serving(r, "WRITE") /\ OpenFile(r, {"creat", "write"}, "open")
  BY <1>1, OpenFileIs DEF Serving
<1>2. CASE job[r].pc = "open" /\ CloseAborts(r)
  BY <1>2, CloseIs DEF Opened
<1>3. CASE job[r].pc = "open" /\ Pwrite(r) /\ UNCHANGED <<fds, undefined>>
  <2>1. \/ job' = [job EXCEPT ![r].pc = "used", ![r].done = TRUE]
        \/ \E e : job' = [job EXCEPT ![r].pc = "used", ![r].err = e]
    BY <1>3 DEF Pwrite
  <2> QED
    BY <1>3, <2>1, FieldNames DEF Shape, Keeps, StaysOpen, Opened
<1>4. CASE /\ job[r].pc = "used" /\ fds' = Closed(r)
           /\ job' = [job EXCEPT ![r].pc = "closed", ![r].fd = 0]
  BY <1>4, FieldNames DEF Closed, Shape, Keeps, Closes, Opened
<1>5. CASE /\ job[r].pc = "used" /\ fds' = Closed(r)
           /\ job' = [job EXCEPT ![r].pc = "reclose", ![r].badclose = TRUE,
                                 ![r].done = FALSE]
  BY <1>5, FieldNames DEF Closed, Shape, Keeps, CloseFails, Opened
<1>6. CASE /\ job[r].pc = "reclose" /\ fds' = Closed(r)
           /\ job' = [job EXCEPT ![r].pc = "answered", ![r].fd = 0]
  BY <1>6, FieldNames DEF Closed, Shape, Keeps, Closes
<1>7. CASE /\ job[r].pc = "closed" /\ fds' = fds
           /\ job' = [job EXCEPT ![r].pc = "answered"]
  BY <1>7, FieldNames DEF Shape, Keeps, StaysBare, Bare
<1> QED
  BY <1>1, <1>2, <1>3, <1>4, <1>5, <1>6, <1>7
  DEF ServeDir_op_write, CloseAborts, Reasons

\* readdir
LEMMA ReaddirHandler ==
  ASSUME Shape, NEW r \in Requests, ServeDir_op_readdir(r)
  PROVE  StaysBare(r) \/ Opens(r) \/ StaysOpen(r) \/ Closes(r)
<1>1. CASE Opendir(r)
  <2>0. job[r].pc = "begin"
    BY <1>1 DEF Opendir, Serving
  <2>1. \/ \E e : Answer(r, e) /\ UNCHANGED fds
        \/ /\ job' = [job EXCEPT ![r].pc = "count", ![r].fd = FreeFd,
                                 ![r].ino = tree.at[job[r].path]]
           /\ fds' = [fds EXCEPT ![FreeFd] = r]
    BY <1>1, Zenon DEF Opendir
  <2>2. CASE \E e : Answer(r, e) /\ UNCHANGED fds
    BY <2>0, <2>2, AnswerIs DEF StaysBare, Bare
  <2>3. CASE /\ job' = [job EXCEPT ![r].pc = "count", ![r].fd = FreeFd,
                                   ![r].ino = tree.at[job[r].path]]
             /\ fds' = [fds EXCEPT ![FreeFd] = r]
    BY <2>0, <2>3, FieldNames DEF Shape, Keeps, Opens, Opened
  <2> QED
    BY <2>1, <2>2, <2>3
<1>2. CASE CountEntries(r)
  <2>1. CASE /\ job' = [job EXCEPT ![r].pc = "rewind",
                                   ![r].count = Cardinality(Listed(r)) + 2]
             /\ UNCHANGED fds
    BY <1>2, <2>1, FieldNames
    DEF CountEntries, Shape, Keeps, StaysOpen, Opened
  <2>2. CASE /\ job' = [job EXCEPT ![r].pc = "answered", ![r].fd = 0,
                                   ![r].err = "NOMEM", ![r].gaveup = "memory"]
             /\ fds' = Closed(r)
    BY <1>2, <2>2, FieldNames
    DEF CountEntries, Closed, Shape, Keeps, Closes, Opened
  <2>3. CASE /\ job' = [job EXCEPT ![r].pc = "rewind", ![r].cutshort = TRUE]
             /\ UNCHANGED fds
    BY <1>2, <2>3, FieldNames
    DEF CountEntries, Shape, Keeps, StaysOpen, Opened
  <2> QED
    BY <1>2, <2>1, <2>2, <2>3 DEF CountEntries
<1>3. CASE Rewinddir(r)
  <2>1. job[r].pc = "rewind"
    BY <1>3 DEF Rewinddir
  <2>2. CASE CloseAborts(r)
    BY <2>1, <2>2, CloseIs DEF Opened
  <2>2a. CASE /\ job' = [job EXCEPT ![r].pc = "fill", ![r].cutshort = TRUE]
              /\ fds' = fds
    BY <2>1, <2>2a, FieldNames DEF Shape, Keeps, StaysOpen, Opened
  <2>3. CASE /\ ~CloseAborts(r)
             /\ ~(/\ job' = [job EXCEPT ![r].pc = "fill", ![r].cutshort = TRUE]
                  /\ fds' = fds)
    <3> DEFINE l == Listed(r)
               u == IF IsDir(tree, job[r].path) THEN 2 ELSE 0
               e == IF IsDir(tree, job[r].path) THEN "NONE"
                    ELSE IF Exists(tree, job[r].path) THEN "NOTDIR" ELSE "NOENT"
    <3>1. fds' = fds
      BY <1>3, <2>3 DEF Rewinddir, CloseAborts, Reasons
    <3>2. job' = [job EXCEPT ![r].pc = "fill", ![r].left = l,
                             ![r].used = u, ![r].err = e]
      BY <1>3, <2>3, Zenon DEF Rewinddir, CloseAborts, Reasons
    <3> HIDE DEF l, u, e
    <3>3. /\ job'[r] = [job[r] EXCEPT !.pc = "fill", !.left = l, !.used = u,
                                      !.err = e]
          /\ DOMAIN job' = Requests
          /\ \A s \in Requests \ {r} : job'[s] = job[s]
      BY <3>2 DEF Shape
    <3>4. /\ DOMAIN job'[r] = Fields
          /\ job'[r].pc = "fill"
          /\ job'[r].fd = job[r].fd /\ job'[r].badclose = job[r].badclose
      BY <3>3, FieldNames DEF Shape
    <3> QED
      BY <2>1, <3>1, <3>3, <3>4 DEF Shape, Keeps, StaysOpen, Opened
  <2> QED
    BY <2>2, <2>2a, <2>3
<1>4. ASSUME NEW n \in Names, FillEntry(r, n)
      PROVE  StaysOpen(r)
  <2>1. job[r].pc = "fill" /\ fds' = fds
    BY <1>4 DEF FillEntry
  <2>2. CASE job' = [job EXCEPT ![r].left = @ \ {n},
                                ![r].used = @ + 1,
                                ![r].entries = [m \in DOMAIN @ \cup {n} |->
                                   IF m = n THEN Lstat(tree, Append(job[r].path, n))
                                   ELSE @[m]]]
    BY <2>1, <2>2, FieldNames DEF Shape, Keeps, StaysOpen, Opened
  <2>3. CASE \E x : job' = [job EXCEPT ![r].left = @ \ {n}, ![r].err = x]
    BY <2>1, <2>3, FieldNames DEF Shape, Keeps, StaysOpen, Opened
  <2> QED
    BY <1>4, <2>2, <2>3, Zenon DEF FillEntry
<1>5. CASE FillFails(r)
  BY <1>5, FieldNames DEF FillFails, Closed, Shape, Keeps, Closes, Opened
<1>6. CASE EndListing(r)
  BY <1>6, FieldNames DEF EndListing, Closed, Shape, Keeps, Closes, Opened
<1> QED
  BY <1>1, <1>2, <1>3, <1>4, <1>5, <1>6 DEF ServeDir_op_readdir

\* every step is of one of these kinds
LEMMA StepKinds ==
  ASSUME Shape, NEW r \in Requests, Receive(r) \/ Handler(r)
  PROVE  StepOfKind(r)
BY ReceiveIs, BareHandlers, OpenHandlers, ReadHandler, WriteHandler, ReaddirHandler
DEF Handler, StepOfKind

-----------------------------------------------------------------------------
(* The descriptor that open hands out.                                     *)

\* There is a free number: the open ones belong to different handlers, none of
\* which is the one that opens.
LEMMA SomeFree ==
  ASSUME DInv, NEW r \in Requests, job[r].pc = "begin"
  PROVE  \E n \in FDs : fds[n] = 0
<1> SUFFICES ASSUME \A n \in FDs : fds[n] # 0
             PROVE  FALSE
  OBVIOUS
<1>1. MaxRequest \in Nat
  BY TreeAssumption
<1>2. IsFiniteSet(1 .. MaxRequest) /\ Cardinality(1 .. MaxRequest) = MaxRequest
  BY <1>1, FS_Interval
<1>3. \A n \in FDs : fds[n] \in Requests /\ fds[n] # r /\ job[fds[n]].fd = n
  BY DEF DInv, Numbers, DescriptorClosed, Bare, FDs
<1> DEFINE f == [n \in FDs |-> fds[n]]
<1>4. f \in Injection(FDs, Requests \ {r})
  BY <1>3 DEF Injection, IsInjective
<1>5. /\ IsFiniteSet(Requests \ {r})
      /\ Cardinality(Requests \ {r}) = MaxRequest - 1
  BY <1>2, FS_RemoveElement DEF Requests
<1>6. Cardinality(FDs) <= Cardinality(Requests \ {r})
  <2> HIDE DEF f
  <2> QED
    BY <1>4, <1>5, FS_Injection
<1> QED
  BY <1>1, <1>2, <1>5, <1>6 DEF FDs

\* and FreeFd is one
LEMMA FreeFdIsFree ==
  ASSUME DInv, NEW r \in Requests, job[r].pc = "begin"
  PROVE  FreeFd \in FDs /\ fds[FreeFd] = 0
<1> DEFINE T == {n \in FDs : fds[n] = 0}
<1>1. T # {} /\ T \subseteq Nat
  BY SomeFree DEF FDs
<1>2. PICK n \in T : \A m \in T : ~(<<m, n>> \in OpToRel(<, Nat))
  <2> HIDE DEF T
  <2> QED
    BY <1>1, NatLessThanWellFounded, WFMin
<1>3. \A m \in T : ~(m < n)
  BY <1>1, <1>2 DEF OpToRel
<1>4. n \in FDs /\ fds[n] = 0 /\ \A m \in 1 .. n - 1 : fds[m] # 0
  BY <1>3, TreeAssumption DEF FDs
<1> QED
  BY <1>4 DEF FreeFd

-----------------------------------------------------------------------------
(* The invariant is preserved.                                             *)

LEMMA BarePreserves ==
  ASSUME DInv, NEW r \in Requests, StaysBare(r) \/ StaysOpen(r)
  PROVE  DInv'
<1>1. Shape' /\ fds' = fds /\ \A s \in Requests \ {r} : job'[s] = job[s]
  BY DEF StaysBare, StaysOpen, Keeps
<1>2. job'[r].fd = job[r].fd /\ job'[r].badclose = job[r].badclose
  BY DEF StaysBare, StaysOpen
<1>3. Numbers'
  BY <1>1, <1>2 DEF DInv, Numbers, StaysBare, StaysOpen, Bare, Opened
<1>4. DescriptorClosed'
  BY <1>1, <1>2, TreeAssumption
  DEF DInv, Numbers, DescriptorClosed, Running, StaysBare, StaysOpen, Bare, Opened, FDs
<1>5. DescriptorOwned'
  BY <1>1, <1>2 DEF DInv, DescriptorOwned
<1> QED
  BY <1>1, <1>3, <1>4, <1>5 DEF DInv

LEMMA OpensPreserves ==
  ASSUME DInv, NEW r \in Requests, Opens(r)
  PROVE  DInv'
<1>1. FreeFd \in FDs /\ fds[FreeFd] = 0
  BY FreeFdIsFree DEF Opens
<1>2. PICK n \in FDs : n = FreeFd
  BY <1>1
<1>3. /\ Shape' /\ fds' = [fds EXCEPT ![n] = r]
      /\ \A s \in Requests \ {r} : job'[s] = job[s]
      /\ job'[r].fd = n /\ job'[r].badclose = job[r].badclose
      /\ job[r].pc = "begin" /\ job'[r].pc \in Opened
      /\ fds[n] = 0 /\ 0 \notin FDs
  BY <1>1, <1>2 DEF Opens, Keeps, FDs
<1>4. Numbers'
  BY <1>3 DEF DInv, Numbers, Bare, Opened
<1>5. DescriptorClosed'
  BY <1>3 DEF DInv, Numbers, DescriptorClosed, Running, Bare, Opened
<1>6. DescriptorOwned'
  BY <1>3 DEF DInv, Numbers, DescriptorOwned, Requests
<1> QED
  BY <1>3, <1>4, <1>5, <1>6 DEF DInv

LEMMA ClosesPreserves ==
  ASSUME DInv, NEW r \in Requests, Closes(r)
  PROVE  DInv'
<1>1. /\ Shape' /\ fds' = [fds EXCEPT ![job[r].fd] = 0]
      /\ \A s \in Requests \ {r} : job'[s] = job[s]
      /\ job'[r].fd = 0 /\ job'[r].badclose = job[r].badclose
      /\ 0 \notin FDs
  BY DEF Closes, Keeps, FDs
<1>2. Numbers'
  BY <1>1 DEF DInv, Numbers
<1>3. DescriptorClosed'
  BY <1>1 DEF DInv, Numbers, DescriptorClosed, Running
<1>4. DescriptorOwned'
  BY <1>1 DEF DInv, Numbers, DescriptorOwned
<1> QED
  BY <1>1, <1>2, <1>3, <1>4 DEF DInv

LEMMA CloseFailsPreserves ==
  ASSUME DInv, NEW r \in Requests, CloseFails(r)
  PROVE  DInv'
<1>1. /\ Shape' /\ fds' = [fds EXCEPT ![job[r].fd] = 0]
      /\ \A s \in Requests \ {r} : job'[s] = job[s]
      /\ job'[r].fd = job[r].fd /\ job'[r].badclose = TRUE
      /\ job'[r].pc = "reclose"
      /\ 0 \notin FDs
  BY DEF CloseFails, Keeps, FDs
<1>2. Numbers'
  BY <1>1 DEF DInv, Numbers, Bare
<1>3. DescriptorClosed'
  BY <1>1 DEF DInv, Numbers, DescriptorClosed, Running
<1>4. DescriptorOwned'
  BY <1>1 DEF DInv, DescriptorOwned
<1> QED
  BY <1>1, <1>2, <1>3, <1>4 DEF DInv

LEMMA KindsPreserve ==
  ASSUME DInv, NEW r \in Requests, StepOfKind(r)
  PROVE  DInv'
BY BarePreserves, OpensPreserves, ClosesPreserves, CloseFailsPreserves DEF StepOfKind

LEMMA InitDInv == Init => DInv
<1> SUFFICES ASSUME Init PROVE DInv
  OBVIOUS
<1>1. Shape
  BY DEF Init, Shape, Fields
<1>2. \A r \in Requests : job[r].fd = 0
  BY DEF Init, NoJob
<1>3. fds = [n \in FDs |-> 0]
  BY DEF Init
<1> QED
  BY <1>1, <1>2, <1>3 DEF DInv, Numbers, DescriptorClosed, DescriptorOwned

LEMMA NextDInv == DInv /\ [Next]_vars => DInv'
<1> SUFFICES ASSUME DInv, [Next]_vars PROVE DInv'
  OBVIOUS
<1>1. ASSUME NEW r \in Requests, Receive(r) \/ Handler(r)
      PROVE  DInv'
  BY <1>1, StepKinds, KindsPreserve DEF DInv
<1>2. CASE UNCHANGED vars
  BY <1>2 DEF vars, DInv, Shape, Numbers, DescriptorClosed, DescriptorOwned, Running
<1> QED
  BY <1>1, <1>2 DEF Next

(***************************************************************************)
(* For any number of workers: no way through a handler of servedir.c       *)
(* leaves a descriptor or a DIR open.                                      *)
(***************************************************************************)
THEOREM AllClosed == Spec => []DescriptorClosed
<1>1. DInv => DescriptorClosed
  BY DEF DInv
<1> QED
  BY InitDInv, NextDInv, <1>1, PTL DEF Spec

(***************************************************************************)
(* For any number of workers: until a close fails in ServeDir_op_write, a  *)
(* worker reads, writes and closes only the descriptor it has opened.      *)
(***************************************************************************)
THEOREM AllOwned == Spec => []DescriptorOwned
<1>1. DInv => DescriptorOwned
  BY DEF DInv
<1> QED
  BY InitDInv, NextDInv, <1>1, PTL DEF Spec

-----------------------------------------------------------------------------
(* The exported directory and its paths.                                   *)

\* Paths are short sequences of names.
LEMMA PathsAre ==
  /\ <<>> \in Paths
  /\ \A p \in Paths : p \in Seq(Names) /\ Len(p) \in 0 .. 2
  /\ \A p \in Paths : p = <<>> <=> Len(p) = 0
  /\ \A p \in Paths, q \in Seq(Names) : Len(q) <= Len(p) => q \in Paths
<1>1. <<>> \in Paths
  BY DEF Paths
<1>2. ASSUME NEW p \in Paths
      PROVE  /\ p \in Seq(Names) /\ Len(p) \in 0 .. 2
             /\ Len(p) = 2 => Depth = 2
  <2>1. CASE p = <<>>
    BY <2>1
  <2>2. CASE \E n \in Names : p = <<n>>
    BY <2>2
  <2>3. CASE Depth = 2 /\ \E m, n \in Names : p = <<m, n>>
    BY <2>3
  <2> QED
    BY <2>1, <2>2, <2>3 DEF Paths
<1>3. \A p \in Paths : p = <<>> <=> Len(p) = 0
  BY <1>2
<1>4. ASSUME NEW p \in Paths, NEW q \in Seq(Names), Len(q) <= Len(p)
      PROVE  q \in Paths
  <2>1. CASE Len(q) = 0
    BY <1>1, <2>1
  <2>2. CASE Len(q) = 1
    <3>1. q[1] \in Names /\ q = <<q[1]>>
      BY <2>2
    <3> QED
      BY <3>1 DEF Paths
  <2>3. CASE Len(q) = 2
    <3>1. q[1] \in Names /\ q[2] \in Names
      BY <2>3
    <3>3. q = <<q[1], q[2]>>
      BY <2>3
    <3>2. Depth = 2
      BY <1>2, <1>4, <2>3
    <3> QED
      BY <3>1, <3>2, <3>3 DEF Paths
  <2>4. Len(q) \in Nat /\ Len(p) \in 0 .. 2
    BY <1>2
  <2>5. \A n \in Nat, k \in 0 .. 2 : n <= k => n = 0 \/ n = 1 \/ n = 2
    OBVIOUS
  <2> QED
    BY <1>4, <2>1, <2>2, <2>3, <2>4, <2>5, Zenon
<1> QED
  BY <1>1, <1>2, <1>3, <1>4

\* The parent of a path is a shorter path.
LEMMA ParentIs ==
  ASSUME NEW p \in Paths, p # <<>>
  PROVE  /\ Parent(p) \in Paths
         /\ Len(Parent(p)) = Len(p) - 1
         /\ \A i \in 1 .. Len(p) - 1 : Parent(p)[i] = p[i]
         /\ Parent(p) # p
<1>1. p \in Seq(Names) /\ Len(p) \in Nat \ {0}
  BY PathsAre
<1>2. /\ Parent(p) \in Seq(Names)
      /\ Len(Parent(p)) = Len(p) - 1
      /\ \A i \in 1 .. Len(p) - 1 : Parent(p)[i] = p[i]
  <2>1. PICK n \in 0 .. Len(p) : n = Len(p) - 1
    BY <1>1
  <2>2. /\ SubSeq(p, 1, n) \in Seq(Names)
        /\ Len(SubSeq(p, 1, n)) = n
        /\ \A i \in 1 .. n : SubSeq(p, 1, n)[i] = p[i]
    BY <1>1
  <2> QED
    BY <2>1, <2>2 DEF Parent
<1>3. Len(Parent(p)) <= Len(p) /\ Len(Parent(p)) # Len(p)
  BY <1>1, <1>2
<1> QED
  BY <1>2, <1>3, PathsAre

\* A path is under another if it begins with it.
LEMMA UnderIs ==
  ASSUME NEW p \in Paths, NEW q \in Paths
  PROVE  Under(p, q) <=> Len(p) >= Len(q) /\ \A i \in 1 .. Len(q) : p[i] = q[i]
<1>1. p \in Seq(Names) /\ q \in Seq(Names) /\ Len(p) \in Nat /\ Len(q) \in Nat
  BY PathsAre
<1> SUFFICES ASSUME Len(p) >= Len(q)
             PROVE  SubSeq(p, 1, Len(q)) = q <=> \A i \in 1 .. Len(q) : p[i] = q[i]
  BY DEF Under
<1>2. /\ SubSeq(p, 1, Len(q)) \in Seq(Names)
      /\ Len(SubSeq(p, 1, Len(q))) = Len(q)
      /\ \A i \in 1 .. Len(q) : SubSeq(p, 1, Len(q))[i] = p[i]
  BY <1>1
<1> QED
  BY <1>1, <1>2

\* Equal paths.
LEMMA SamePath ==
  ASSUME NEW p \in Paths, NEW q \in Paths, Len(p) = Len(q),
         \A i \in 1 .. Len(p) : p[i] = q[i]
  PROVE  p = q
BY PathsAre

\* What is under a path is so with its own children, and the path itself first.
LEMMA UnderParent ==
  ASSUME NEW x \in Paths, NEW q \in Paths, x # <<>>
  PROVE  /\ Under(Parent(x), q) => Under(x, q)
         /\ Under(x, q) /\ x # q => Under(Parent(x), q)
         /\ ~Under(Parent(q), q) \/ q = <<>>
         /\ Under(q, q)
<1>1. /\ Parent(x) \in Paths /\ Len(Parent(x)) = Len(x) - 1
      /\ \A i \in 1 .. Len(x) - 1 : Parent(x)[i] = x[i]
  BY ParentIs
<1>2. Len(x) \in Nat \ {0} /\ Len(q) \in Nat
  BY PathsAre
<1>3. /\ Under(Parent(x), q) <=> Len(x) - 1 >= Len(q) /\ \A i \in 1 .. Len(q) : Parent(x)[i] = q[i]
      /\ Under(x, q) <=> Len(x) >= Len(q) /\ \A i \in 1 .. Len(q) : x[i] = q[i]
  BY <1>1, UnderIs
<1>4. Under(Parent(x), q) => Under(x, q)
  BY <1>1, <1>2, <1>3
<1>5. ASSUME Under(x, q), x # q PROVE Under(Parent(x), q)
  <2>1. Len(x) # Len(q)
    BY <1>3, <1>5, SamePath
  <2> QED
    BY <1>1, <1>2, <1>3, <1>5, <2>1
<1>6. ASSUME q # <<>> PROVE ~Under(Parent(q), q)
  <2>1. Parent(q) \in Paths /\ Len(Parent(q)) = Len(q) - 1
    BY <1>6, ParentIs
  <2> QED
    BY <1>2, <2>1, UnderIs
<1>7. Under(q, q)
  BY <1>2, UnderIs
<1> QED
  BY <1>4, <1>5, <1>6, <1>7

\* Concatenation.
LEMMA Joined ==
  ASSUME NEW a \in Seq(Names), NEW b \in Seq(Names)
  PROVE  /\ a \o b \in Seq(Names) /\ Len(a \o b) = Len(a) + Len(b)
         /\ \A i \in 1 .. Len(a) : (a \o b)[i] = a[i]
         /\ \A j \in 1 .. Len(b) : (a \o b)[Len(a) + j] = b[j]
<1>1. a \o b \in Seq(Names)
  OBVIOUS
<1>2. Len(a \o b) = Len(a) + Len(b)
  OBVIOUS
<1>3. \A i \in 1 .. Len(a) : (a \o b)[i] = a[i]
  OBVIOUS
<1>4. \A j \in 1 .. Len(b) : (a \o b)[Len(a) + j] = b[j]
  OBVIOUS
<1> QED
  BY <1>1, <1>2, <1>3, <1>4

\* The path that x, which is under q, had before p was moved to q.
Origin(p, q, x) == p \o SubSeq(x, Len(q) + 1, Len(x))

LEMMA OriginIs ==
  ASSUME NEW p \in Paths, NEW q \in Paths, NEW x \in Paths, Under(x, q)
  PROVE  /\ Origin(p, q, x) \in Seq(Names)
         /\ Len(Origin(p, q, x)) = Len(p) + Len(x) - Len(q)
         /\ \A i \in 1 .. Len(p) : Origin(p, q, x)[i] = p[i]
         /\ \A i \in Len(q) + 1 .. Len(x) : Origin(p, q, x)[Len(p) - Len(q) + i] = x[i]
<1>1. /\ p \in Seq(Names) /\ q \in Seq(Names) /\ x \in Seq(Names)
      /\ Len(p) \in Nat /\ Len(q) \in Nat /\ Len(x) \in Nat
  BY PathsAre
<1>2. Len(x) >= Len(q)
  BY UnderIs
<1> DEFINE s == SubSeq(x, Len(q) + 1, Len(x))
<1>3. s \in Seq(Names) /\ Len(s) = Len(x) - Len(q)
  BY <1>1, <1>2
<1>4. \A i \in Len(q) + 1 .. Len(x) : i - Len(q) \in 1 .. Len(s) /\ s[i - Len(q)] = x[i]
  BY <1>1, <1>2, <1>3
<1>5. Origin(p, q, x) = p \o s
  BY DEF Origin
<1> HIDE DEF s
<1>6. /\ p \o s \in Seq(Names) /\ Len(p \o s) = Len(p) + Len(s)
      /\ \A i \in 1 .. Len(p) : (p \o s)[i] = p[i]
      /\ \A j \in 1 .. Len(s) : (p \o s)[Len(p) + j] = s[j]
  BY <1>1, <1>3, Joined, Zenon
<1>7. Len(p) + Len(s) = Len(p) + Len(x) - Len(q)
  BY <1>1, <1>3
<1>8. ASSUME NEW i \in Len(q) + 1 .. Len(x)
      PROVE  Origin(p, q, x)[Len(p) - Len(q) + i] = x[i]
  <2>1. Len(p) - Len(q) + i = Len(p) + (i - Len(q))
    BY <1>1
  <2> QED
    BY <1>4, <1>5, <1>6, <2>1
<1> QED
  BY <1>5, <1>6, <1>7, <1>8

-----------------------------------------------------------------------------
(* What the system calls make of a well-formed tree.                       *)

IsDirIn(at, attr, p) == at[p] # None /\ attr[at[p]].kind = "dir"

SoundTree(at, attr) ==
  /\ at \in [Paths -> Inodes \cup {None}]
  /\ attr \in [Inodes -> Attr]
  /\ at[<<>>] = RootInode /\ attr[RootInode].kind = "dir"
  /\ \A p \in Paths \ {<<>>} : at[p] # None => IsDirIn(at, attr, Parent(p))
  /\ \A p, q \in Paths : IsDirIn(at, attr, p) /\ at[p] = at[q] => p = q

LEMMA RootIs == RootInode \in Inodes /\ None \notin Inodes /\ RootInode # None
BY TreeAssumption DEF Inodes, Requests

LEMMA WellFormedIs ==
  ASSUME NEW t
  PROVE  WellFormed(t) <=> t \in Tree /\ SoundTree(t.at, t.attr)
<1> SUFFICES ASSUME t \in Tree PROVE WellFormed(t) <=> SoundTree(t.at, t.attr)
  BY Zenon DEF WellFormed
<1>1. t.at \in [Paths -> Inodes \cup {None}] /\ t.attr \in [Inodes -> Attr]
  BY DEF Tree
<1>2. \A p \in Paths : IsDir(t, p) <=> IsDirIn(t.at, t.attr, p)
  BY Zenon DEF IsDir, IsDirIn, Exists, Kind
<1>3. \A p \in Paths : Exists(t, p) <=> t.at[p] # None
  BY Zenon DEF Exists
<1>4. \A p \in Paths \ {<<>>} : Parent(p) \in Paths
  BY ParentIs, Zenon
<1>5. Kind(t, <<>>) = t.attr[t.at[<<>>]].kind
  BY Zenon DEF Kind
<1> HIDE DEF Tree
<1>6. (\A p \in Paths \ {<<>>} : Exists(t, p) => IsDir(t, Parent(p)))
       <=> \A p \in Paths \ {<<>>} : t.at[p] # None => IsDirIn(t.at, t.attr, Parent(p))
  BY <1>2, <1>3, <1>4, Zenon
<1>7. (\A p, q \in Paths : IsDir(t, p) /\ t.at[p] = t.at[q] => p = q)
       <=> \A p, q \in Paths : IsDirIn(t.at, t.attr, p) /\ t.at[p] = t.at[q] => p = q
  BY <1>2, Zenon
<1>8. (t.at[<<>>] = RootInode /\ Kind(t, <<>>) = "dir")
       <=> (t.at[<<>>] = RootInode /\ t.attr[RootInode].kind = "dir")
  BY <1>5, Zenon
<1> QED
  BY <1>1, <1>6, <1>7, <1>8, Zenon DEF WellFormed, SoundTree

\* Only the attributes change, and no kind.
LEMMA ChangedSound ==
  ASSUME NEW t, WellFormed(t), NEW i \in Inodes, NEW r \in Requests
  PROVE  WellFormed(Changed(t, i, r)) /\ Changed(t, i, r).at = t.at
<1> DEFINE u == Changed(t, i, r)
<1>1. t \in Tree /\ SoundTree(t.at, t.attr)
  BY WellFormedIs
<1>2. t.attr \in [Inodes -> Attr] /\ t.attr[i] \in Attr
  BY <1>1 DEF Tree
<1>3. r \in 0 .. MaxRequest
  BY DEF Requests
<1>4. u \in Tree /\ u.at = t.at /\ u.attr = [t.attr EXCEPT ![i].by = r]
  BY <1>1, <1>2, <1>3 DEF Changed, Tree, Attr
<1>5. \A j \in Inodes : u.attr[j].kind = t.attr[j].kind
  BY <1>2, <1>4 DEF Attr
<1>6. u.attr \in [Inodes -> Attr]
  BY <1>4 DEF Tree
<1> HIDE DEF u
<1>7. SoundTree(u.at, u.attr)
  BY <1>1, <1>4, <1>5, <1>6, RootIs DEF SoundTree, IsDirIn
<1> QED
  BY <1>4, <1>7, WellFormedIs DEF u

Absent(t, i) == \A p \in Paths : t.at[p] # i

\* A new inode under a free name.
LEMMA NewSound ==
  ASSUME NEW t, WellFormed(t), NEW p \in Paths, NEW kind \in Kinds,
         NEW r \in Requests, Absent(t, r),
         ~Exists(t, p), Walk(t, p) = "NONE"
  PROVE  /\ WellFormed(New(t, p, kind, r))
         /\ \A x \in Paths : New(t, p, kind, r).at[x] = (IF x = p THEN r ELSE t.at[x])
<1> DEFINE u == New(t, p, kind, r)
           a == [kind |-> kind, by |-> r]
<1>1. t \in Tree /\ SoundTree(t.at, t.attr)
  BY WellFormedIs
<1>2. r \in 0 .. MaxRequest /\ r \in Inodes
  BY DEF Requests, Inodes
<1>3. a \in Attr /\ a.kind = kind
  BY <1>2 DEF Attr
<1>4. /\ u \in Tree /\ u.at = [t.at EXCEPT ![p] = r]
      /\ u.attr = [t.attr EXCEPT ![r] = a]
  <2>1. u = [t EXCEPT !.at[p] = r, !.attr[r] = a]
    BY Zenon DEF New
  <2>2. r \in Inodes \cup {None}
    BY <1>2
  <2> HIDE DEF a, u
  <2>3. u \in Tree
    BY <1>1, <1>2, <1>3, <2>1, <2>2 DEF Tree
  <2> QED
    BY <1>1, <1>2, <1>3, <2>1, <2>2, <2>3 DEF Tree
<1> HIDE DEF a
<1>6. u.at \in [Paths -> Inodes \cup {None}] /\ u.attr \in [Inodes -> Attr]
  BY <1>4 DEF Tree
<1> HIDE DEF u
<1>8. t.at[p] = None /\ p # <<>>
  <2>1. t.at[p] = None
    BY Zenon DEF Exists
  <2> QED
    BY <1>1, <2>1, RootIs DEF SoundTree
<1>9. IsDirIn(t.at, t.attr, Parent(p)) /\ Parent(p) \in Paths
  BY <1>8, ParentIs, Zenon DEF Walk, IsDir, Exists, Kind, IsDirIn
<1>10. \A x \in Paths : /\ u.at[x] = (IF x = p THEN r ELSE t.at[x])
                        /\ t.at[x] # r
                        /\ t.at[x] \in Inodes \cup {None}
  BY <1>1, <1>4 DEF SoundTree, Absent
<1>11. \A i \in Inodes : i # r => u.attr[i] = t.attr[i]
  BY <1>1, <1>4 DEF SoundTree
<1>12. \A x \in Paths : x # p /\ IsDirIn(t.at, t.attr, x) => IsDirIn(u.at, u.attr, x)
  BY <1>10, <1>11 DEF IsDirIn
<1>13. \A x \in Paths : x # p /\ IsDirIn(u.at, u.attr, x) => IsDirIn(t.at, t.attr, x)
  BY <1>10, <1>11 DEF IsDirIn
<1>14. ASSUME NEW x \in Paths \ {<<>>}, u.at[x] # None
       PROVE  IsDirIn(u.at, u.attr, Parent(x))
  <2>1. Parent(x) \in Paths /\ Parent(x) # x
    BY ParentIs
  <2>2. IsDirIn(t.at, t.attr, Parent(x))
    BY <1>1, <1>9, <1>10, <1>14 DEF SoundTree
  <2>3. Parent(x) # p
    BY <1>8, <2>2 DEF IsDirIn
  <2> QED
    BY <1>12, <2>1, <2>2, <2>3
<1>15. ASSUME NEW x \in Paths, NEW y \in Paths, IsDirIn(u.at, u.attr, x), u.at[x] = u.at[y]
       PROVE  x = y
  <2>1. CASE x = p
    BY <1>10, <1>15, <2>1
  <2>2. CASE x # p
    <3>1. IsDirIn(t.at, t.attr, x) /\ y # p
      BY <1>10, <1>13, <1>15, <2>2
    <3> QED
      BY <1>1, <1>10, <1>15, <2>2, <3>1 DEF SoundTree
  <2> QED
    BY <2>1, <2>2
<1>16. u.at[<<>>] = RootInode /\ u.attr[RootInode].kind = "dir"
  BY <1>1, <1>8, <1>10, <1>11, RootIs, PathsAre DEF SoundTree
<1>17. SoundTree(u.at, u.attr)
  BY <1>4, <1>6, <1>14, <1>15, <1>16, Zenon DEF SoundTree
<1> QED
  BY <1>4, <1>10, <1>17, WellFormedIs, Zenon DEF u

\* An entry is removed that is no directory or an empty one.
LEMMA RemovedSound ==
  ASSUME NEW t, WellFormed(t), NEW p \in Paths, p # <<>>,
         Kind(t, p) # "dir" \/ IsEmpty(t, p)
  PROVE  /\ WellFormed([t EXCEPT !.at[p] = None])
         /\ [t EXCEPT !.at[p] = None].at = [t.at EXCEPT ![p] = None]
<1>1. t \in Tree /\ SoundTree(t.at, t.attr)
  BY WellFormedIs
<1>2. PICK u : u = [t EXCEPT !.at[p] = None]
  OBVIOUS
<1>3. u \in Tree /\ u.at = [t.at EXCEPT ![p] = None] /\ u.attr = t.attr
  <2>1. u \in Tree
    BY <1>1, <1>2 DEF Tree
  <2> QED
    BY <1>1, <1>2, <2>1 DEF Tree
<1>4. u.at \in [Paths -> Inodes \cup {None}] /\ u.attr \in [Inodes -> Attr]
  BY <1>3 DEF Tree
<1>5. \A x \in Paths : u.at[x] = (IF x = p THEN None ELSE t.at[x])
  BY <1>1, <1>3 DEF SoundTree
<1>6. \A x \in Paths : IsDirIn(u.at, u.attr, x) <=> x # p /\ IsDirIn(t.at, t.attr, x)
  BY <1>3, <1>5 DEF IsDirIn
<1>7. ASSUME NEW x \in Paths \ {<<>>}, u.at[x] # None
      PROVE  IsDirIn(u.at, u.attr, Parent(x))
  <2>1. Parent(x) \in Paths
    BY ParentIs
  <2>2. IsDirIn(t.at, t.attr, Parent(x)) /\ t.at[x] # None
    BY <1>1, <1>5, <1>7 DEF SoundTree
  <2>3. ASSUME Parent(x) = p PROVE FALSE
    <3>1. IsEmpty(t, p)
      BY <2>2, <2>3 DEF IsDirIn, Kind
    <3>2. Len(x) = Len(p) + 1 /\ Under(x, p)
      <4>1. Len(Parent(x)) = Len(x) - 1 /\ Len(x) \in Nat
        BY ParentIs, PathsAre
      <4>2. Under(Parent(x), p)
        BY <2>3, UnderParent
      <4>3. Under(x, p)
        BY <4>2, UnderParent
      <4> QED
        BY <2>3, <4>1, <4>3
    <3> QED
      BY <2>2, <3>1, <3>2 DEF IsEmpty, Children, Exists
  <2> QED
    BY <1>6, <2>1, <2>2, <2>3
<1>8. ASSUME NEW x \in Paths, NEW y \in Paths, IsDirIn(u.at, u.attr, x), u.at[x] = u.at[y]
      PROVE  x = y
  <2>1. x # p /\ IsDirIn(t.at, t.attr, x) /\ u.at[x] # None
    BY <1>6, <1>8 DEF IsDirIn
  <2>2. y # p
    BY <1>5, <1>8, <2>1
  <2> QED
    BY <1>1, <1>5, <1>8, <2>1, <2>2 DEF SoundTree
<1>9. u.at[<<>>] = RootInode /\ u.attr[RootInode].kind = "dir"
  BY <1>1, <1>3, <1>5, PathsAre DEF SoundTree
<1>10. SoundTree(u.at, u.attr)
  BY <1>4, <1>7, <1>8, <1>9, Zenon DEF SoundTree
<1> QED
  BY <1>2, <1>3, <1>10, WellFormedIs, Zenon

\* A second name for a file that is no directory.
LEMMA LinkedSound ==
  ASSUME NEW t, WellFormed(t), NEW p \in Paths, NEW q \in Paths,
         Exists(t, p), Kind(t, p) # "dir", ~Exists(t, q), Walk(t, q) = "NONE"
  PROVE  /\ WellFormed([t EXCEPT !.at[q] = t.at[p]])
         /\ [t EXCEPT !.at[q] = t.at[p]].at = [t.at EXCEPT ![q] = t.at[p]]
<1>1. t \in Tree /\ SoundTree(t.at, t.attr)
  BY WellFormedIs
<1>2. PICK v \in Inodes \cup {None} : v = t.at[p]
  BY <1>1 DEF SoundTree
<1>3. PICK u : u = [t EXCEPT !.at[q] = v]
  OBVIOUS
<1>4. u \in Tree /\ u.at = [t.at EXCEPT ![q] = v] /\ u.attr = t.attr
  <2>1. u \in Tree
    BY <1>1, <1>3 DEF Tree
  <2> QED
    BY <1>1, <1>3, <2>1 DEF Tree
<1>5. u.at \in [Paths -> Inodes \cup {None}] /\ u.attr \in [Inodes -> Attr]
  BY <1>4 DEF Tree
<1>6. \A x \in Paths : u.at[x] = (IF x = q THEN v ELSE t.at[x])
  BY <1>1, <1>4 DEF SoundTree
<1>7. v # None /\ t.attr[v].kind # "dir"
  BY <1>2, Zenon DEF Exists, Kind
<1>8. \A x \in Paths : IsDirIn(u.at, u.attr, x) <=> x # q /\ IsDirIn(t.at, t.attr, x)
  BY <1>4, <1>6, <1>7 DEF IsDirIn
<1>9. t.at[q] = None /\ q # <<>>
  <2>1. t.at[q] = None
    BY Zenon DEF Exists
  <2> QED
    BY <1>1, <2>1, RootIs DEF SoundTree
<1>10. IsDirIn(t.at, t.attr, Parent(q)) /\ Parent(q) \in Paths
  BY <1>9, ParentIs, Zenon DEF Walk, IsDir, Exists, Kind, IsDirIn
<1>11. ASSUME NEW x \in Paths \ {<<>>}, u.at[x] # None
       PROVE  IsDirIn(u.at, u.attr, Parent(x))
  <2>1. Parent(x) \in Paths
    BY ParentIs
  <2>2. IsDirIn(t.at, t.attr, Parent(x))
    BY <1>1, <1>6, <1>10, <1>11 DEF SoundTree
  <2>3. Parent(x) # q
    BY <1>9, <2>2 DEF IsDirIn
  <2> QED
    BY <1>8, <2>1, <2>2, <2>3
<1>12. ASSUME NEW x \in Paths, NEW y \in Paths, IsDirIn(u.at, u.attr, x), u.at[x] = u.at[y]
       PROVE  x = y
  <2>1. x # q /\ IsDirIn(t.at, t.attr, x)
    BY <1>8, <1>12
  <2>2. y # q
    BY <1>6, <1>7, <1>12, <2>1 DEF IsDirIn
  <2> QED
    BY <1>1, <1>6, <1>12, <2>1, <2>2 DEF SoundTree
<1>13. u.at[<<>>] = RootInode /\ u.attr[RootInode].kind = "dir"
  BY <1>1, <1>4, <1>6, <1>9, PathsAre DEF SoundTree
<1>14. SoundTree(u.at, u.attr)
  BY <1>5, <1>11, <1>12, <1>13, Zenon DEF SoundTree
<1> QED
  BY <1>2, <1>3, <1>4, <1>14, WellFormedIs, Zenon

\* Where the entry at x was before p was moved to q, for a path x that is not
\* hidden by the move.
Source(p, q, x) == IF Under(x, q) THEN Origin(p, q, x) ELSE x

\* The origin of a path is under p, is p for q, follows the parents, and differs
\* for different paths.
LEMMA Origins ==
  ASSUME NEW p \in Paths, NEW q \in Paths, q # <<>>
  PROVE  /\ Origin(p, q, q) = p
         /\ \A x \in Paths : Under(x, q) /\ Origin(p, q, x) \in Paths =>
              /\ Under(Origin(p, q, x), p)
              /\ x # q => /\ Origin(p, q, x) # <<>>
                          /\ Parent(Origin(p, q, x)) = Origin(p, q, Parent(x))
         /\ \A x, y \in Paths :
              Under(x, q) /\ Under(y, q) /\ Origin(p, q, x) = Origin(p, q, y) => x = y
<1>0. Len(p) \in Nat /\ Len(q) \in Nat \ {0}
  BY PathsAre
<1>1. Origin(p, q, q) = p
  <2>1. Under(q, q)
    BY UnderParent
  <2>2. /\ Origin(p, q, q) \in Seq(Names)
        /\ Len(Origin(p, q, q)) = Len(p) + Len(q) - Len(q)
        /\ \A i \in 1 .. Len(p) : Origin(p, q, q)[i] = p[i]
    BY <2>1, OriginIs
  <2>3. Len(Origin(p, q, q)) = Len(p)
    BY <1>0, <2>2
  <2>4. Origin(p, q, q) \in Paths
    BY <1>0, <2>2, <2>3, PathsAre
  <2> QED
    BY <2>2, <2>3, <2>4, SamePath
<1>2. ASSUME NEW x \in Paths, Under(x, q), Origin(p, q, x) \in Paths
      PROVE  Under(Origin(p, q, x), p)
  <2>1. /\ Len(Origin(p, q, x)) = Len(p) + Len(x) - Len(q)
        /\ \A i \in 1 .. Len(p) : Origin(p, q, x)[i] = p[i]
    BY <1>2, OriginIs
  <2>2. Len(x) \in Nat /\ Len(x) >= Len(q)
    BY <1>2, UnderIs, PathsAre
  <2>3. Len(Origin(p, q, x)) >= Len(p)
    BY <1>0, <2>1, <2>2
  <2> QED
    BY <1>2, <2>1, <2>3, UnderIs
<1>3. ASSUME NEW x \in Paths, Under(x, q), Origin(p, q, x) \in Paths, x # q
      PROVE  /\ Origin(p, q, x) # <<>>
             /\ Parent(Origin(p, q, x)) = Origin(p, q, Parent(x))
  <2> DEFINE y == Origin(p, q, x)
             z == Origin(p, q, Parent(x))
  <2>1. Len(x) \in Nat /\ Len(x) >= Len(q)
    BY <1>3, UnderIs, PathsAre
  <2>2. x # <<>>
    BY <1>0, <2>1, PathsAre
  <2>3. /\ Parent(x) \in Paths /\ Len(Parent(x)) = Len(x) - 1
        /\ \A i \in 1 .. Len(x) - 1 : Parent(x)[i] = x[i]
        /\ Under(Parent(x), q)
    BY <1>3, <2>2, ParentIs, UnderParent
  <2>4. Len(x) - 1 >= Len(q)
    BY <2>3, UnderIs
  <2>5. /\ Len(y) = Len(p) + Len(x) - Len(q)
        /\ \A i \in 1 .. Len(p) : y[i] = p[i]
        /\ \A i \in Len(q) + 1 .. Len(x) : y[Len(p) - Len(q) + i] = x[i]
    BY <1>3, OriginIs
  <2>6. /\ z \in Seq(Names)
        /\ Len(z) = Len(p) + Len(Parent(x)) - Len(q)
        /\ \A i \in 1 .. Len(p) : z[i] = p[i]
        /\ \A i \in Len(q) + 1 .. Len(Parent(x)) : z[Len(p) - Len(q) + i] = Parent(x)[i]
    BY <2>3, OriginIs
  <2> HIDE DEF y, z
  <2>7. y \in Paths
    BY <1>3 DEF y
  <2>8. Len(y) >= 1 /\ Len(z) = Len(y) - 1
    BY <1>0, <2>1, <2>3, <2>4, <2>5, <2>6
  <2>9. y # <<>>
    BY <2>7, <2>8, PathsAre
  <2>10. /\ Parent(y) \in Paths /\ Len(Parent(y)) = Len(y) - 1
         /\ \A i \in 1 .. Len(y) - 1 : Parent(y)[i] = y[i]
    BY <2>7, <2>9, ParentIs
  <2>11. z \in Paths
    BY <2>6, <2>8, <2>10, PathsAre
  <2>12. ASSUME NEW i \in 1 .. Len(z) PROVE z[i] = y[i]
    <3>1. CASE i <= Len(p)
      <4>1. i \in 1 .. Len(p)
        BY <1>0, <2>11, <3>1, PathsAre
      <4> QED
        BY <2>5, <2>6, <4>1
    <3>2. CASE i > Len(p)
      <4>1. PICK j \in Len(q) + 1 .. Len(Parent(x)) : i = Len(p) - Len(q) + j
        <5>1. Len(z) \in Nat /\ Len(Parent(x)) \in Nat
          BY <2>3, <2>11, PathsAre
        <5>2. i - Len(p) + Len(q) \in Len(q) + 1 .. Len(Parent(x))
          BY <1>0, <2>6, <3>2, <5>1
        <5>3. i = Len(p) - Len(q) + (i - Len(p) + Len(q))
          BY <1>0, <5>1
        <5> QED
          BY <5>2, <5>3
      <4>2. j \in Len(q) + 1 .. Len(x) /\ j \in 1 .. Len(x) - 1
        BY <1>0, <2>1, <2>3, <4>1
      <4> QED
        BY <2>3, <2>5, <2>6, <4>1, <4>2
    <3> QED
      BY <1>0, <2>11, <3>1, <3>2, PathsAre
  <2>13. Parent(y) = z
    BY <2>8, <2>10, <2>11, <2>12, SamePath
  <2> QED
    BY <2>9, <2>13 DEF y, z
<1>4. ASSUME NEW x \in Paths, NEW y \in Paths, Under(x, q), Under(y, q),
             Origin(p, q, x) = Origin(p, q, y)
      PROVE  x = y
  <2> DEFINE o == Origin(p, q, x)
  <2>1. /\ Len(o) = Len(p) + Len(x) - Len(q)
        /\ Len(o) = Len(p) + Len(y) - Len(q)
        /\ \A i \in Len(q) + 1 .. Len(x) : o[Len(p) - Len(q) + i] = x[i]
        /\ \A i \in Len(q) + 1 .. Len(y) : o[Len(p) - Len(q) + i] = y[i]
    <3>1. /\ Len(Origin(p, q, x)) = Len(p) + Len(x) - Len(q)
          /\ \A i \in Len(q) + 1 .. Len(x) : Origin(p, q, x)[Len(p) - Len(q) + i] = x[i]
      BY <1>4, OriginIs
    <3>2. /\ Len(Origin(p, q, y)) = Len(p) + Len(y) - Len(q)
          /\ \A i \in Len(q) + 1 .. Len(y) : Origin(p, q, y)[Len(p) - Len(q) + i] = y[i]
      BY <1>4, OriginIs
    <3> QED
      BY <1>4, <3>1, <3>2, Zenon
  <2>2. /\ Len(x) \in Nat /\ Len(x) >= Len(q) /\ \A i \in 1 .. Len(q) : x[i] = q[i]
        /\ Len(y) \in Nat /\ Len(y) >= Len(q) /\ \A i \in 1 .. Len(q) : y[i] = q[i]
    BY <1>4, UnderIs, PathsAre
  <2> HIDE DEF o
  <2>3. Len(x) = Len(y)
    BY <1>0, <2>1, <2>2
  <2>4. ASSUME NEW i \in 1 .. Len(x) PROVE x[i] = y[i]
    <3>1. CASE i \in 1 .. Len(q)
      BY <2>2, <3>1
    <3>2. CASE i \in Len(q) + 1 .. Len(x)
      BY <2>1, <2>3, <3>2
    <3> QED
      BY <1>0, <2>2, <3>1, <3>2
  <2> QED
    BY <2>3, <2>4, SamePath
<1> QED
  BY <1>1, <1>2, <1>3, <1>4

\* The entry at p with all below it moves to q.
LEMMA MovedSound ==
  ASSUME NEW t, WellFormed(t), NEW p \in Paths, NEW q \in Paths,
         p # <<>>, q # <<>>, ~Under(q, p), Walk(t, q) = "NONE"
  PROVE  /\ WellFormed(Moved(t, p, q))
         /\ \A x \in Paths : \/ Moved(t, p, q).at[x] = None
                             \/ \E y \in Paths : Moved(t, p, q).at[x] = t.at[y]
<1>1. t \in Tree /\ SoundTree(t.at, t.attr)
  BY WellFormedIs
<1> DEFINE at(x) == IF Under(x, q)
                    THEN IF Origin(p, q, x) \in Paths THEN t.at[Origin(p, q, x)] ELSE None
                    ELSE IF Under(x, p) THEN None ELSE t.at[x]
<1>2. PICK f : f = [x \in Paths |-> at(x)]
  OBVIOUS
<1>3. PICK u : u = [t EXCEPT !.at = f]
  OBVIOUS
<1>4. Moved(t, p, q) = u
  BY <1>2, <1>3, Zenon DEF Moved, Origin
<1>5. \A x \in Paths : t.at[x] \in Inodes \cup {None}
  BY <1>1 DEF SoundTree
<1>6. f \in [Paths -> Inodes \cup {None}]
  BY <1>2, <1>5
<1>7. u \in Tree /\ u.at = f /\ u.attr = t.attr
  <2>1. u \in Tree
    BY <1>1, <1>3, <1>6 DEF Tree
  <2> QED
    BY <1>1, <1>3, <2>1 DEF Tree
<1>8. \A x \in Paths : u.at[x] = at(x)
  BY <1>2, <1>7
<1>9. ASSUME NEW x \in Paths, u.at[x] # None
      PROVE  /\ Source(p, q, x) \in Paths
             /\ u.at[x] = t.at[Source(p, q, x)]
             /\ ~Under(x, q) => ~Under(x, p)
  <2>1. CASE Under(x, q)
    BY <1>8, <1>9, <2>1, Zenon DEF Source
  <2>2. CASE ~Under(x, q)
    BY <1>8, <1>9, <2>2, Zenon DEF Source
  <2> QED
    BY <2>1, <2>2
<1>10. ASSUME NEW x \in Paths, Under(x, q), Origin(p, q, x) \in Paths
       PROVE  u.at[x] = t.at[Origin(p, q, x)]
  BY <1>8, <1>10, Zenon
<1>11. ASSUME NEW x \in Paths, ~Under(x, q), ~Under(x, p)
       PROVE  u.at[x] = t.at[x]
  BY <1>8, <1>11, Zenon
<1> HIDE DEF at
<1>12. ASSUME NEW x \in Paths \ {<<>>}, u.at[x] # None
       PROVE  IsDirIn(u.at, u.attr, Parent(x))
  <2>0. x \in Paths /\ x # <<>> /\ Parent(x) \in Paths
    BY ParentIs
  <2> DEFINE y == Origin(p, q, x)
  <2>1. CASE x = q
    <3>1. ~Under(Parent(q), q) /\ ~Under(Parent(q), p)
      BY UnderParent
    <3>2. u.at[Parent(q)] = t.at[Parent(q)]
      BY <1>11, <2>0, <2>1, <3>1
    <3>3. IsDirIn(t.at, t.attr, Parent(q))
      BY Zenon DEF Walk, IsDir, Exists, Kind, IsDirIn
    <3> QED
      BY <1>7, <2>1, <3>2, <3>3 DEF IsDirIn
  <2>2. CASE Under(x, q) /\ x # q
    <3>1. y \in Paths /\ t.at[y] # None
      BY <1>9, <1>12, <2>2 DEF Source
    <3>2. y # <<>> /\ Parent(y) = Origin(p, q, Parent(x))
      BY <2>2, <3>1, Origins
    <3>3. Under(Parent(x), q)
      BY <2>0, <2>2, UnderParent
    <3>4. Parent(y) \in Paths
      BY <3>1, <3>2, ParentIs
    <3>5. u.at[Parent(x)] = t.at[Parent(y)]
      BY <1>10, <2>0, <3>2, <3>3, <3>4
    <3>6. IsDirIn(t.at, t.attr, Parent(y))
      BY <1>1, <3>1, <3>2 DEF SoundTree
    <3> QED
      BY <1>7, <3>5, <3>6 DEF IsDirIn
  <2>3. CASE ~Under(x, q)
    <3>1. ~Under(x, p) /\ t.at[x] # None
      BY <1>9, <1>12, <2>3 DEF Source
    <3>2. ~Under(Parent(x), q) /\ ~Under(Parent(x), p)
      BY <2>0, <2>3, <3>1, UnderParent
    <3>3. u.at[Parent(x)] = t.at[Parent(x)]
      BY <1>11, <2>0, <3>2
    <3>4. IsDirIn(t.at, t.attr, Parent(x))
      BY <1>1, <2>0, <3>1 DEF SoundTree
    <3> QED
      BY <1>7, <3>3, <3>4 DEF IsDirIn
  <2> QED
    BY <2>1, <2>2, <2>3
<1>13. ASSUME NEW x \in Paths, NEW y \in Paths, IsDirIn(u.at, u.attr, x), u.at[x] = u.at[y]
       PROVE  x = y
  <2>1. u.at[x] # None /\ u.at[y] # None
    BY <1>13 DEF IsDirIn
  <2>2. /\ Source(p, q, x) \in Paths /\ Source(p, q, y) \in Paths
        /\ u.at[x] = t.at[Source(p, q, x)] /\ u.at[y] = t.at[Source(p, q, y)]
        /\ ~Under(x, q) => ~Under(x, p)
        /\ ~Under(y, q) => ~Under(y, p)
    BY <1>9, <2>1
  <2>3. IsDirIn(t.at, t.attr, Source(p, q, x))
    BY <1>7, <1>13, <2>2 DEF IsDirIn
  <2>4. Source(p, q, x) = Source(p, q, y)
    BY <1>1, <1>13, <2>2, <2>3 DEF SoundTree
  <2>5. CASE Under(x, q) /\ Under(y, q)
    BY <2>4, <2>5, Origins DEF Source
  <2>6. CASE Under(x, q) /\ ~Under(y, q)
    BY <2>2, <2>4, <2>6, Origins DEF Source
  <2>7. CASE ~Under(x, q) /\ Under(y, q)
    BY <2>2, <2>4, <2>7, Origins DEF Source
  <2>8. CASE ~Under(x, q) /\ ~Under(y, q)
    BY <2>4, <2>8 DEF Source
  <2> QED
    BY <2>5, <2>6, <2>7, <2>8
<1>14. u.at[<<>>] = RootInode /\ u.attr[RootInode].kind = "dir"
  <2>1. ~Under(<<>>, q) /\ ~Under(<<>>, p)
    <3>1. Len(p) \in Nat \ {0} /\ Len(q) \in Nat \ {0}
      BY PathsAre
    <3> QED
      BY <3>1 DEF Under
  <2> QED
    BY <1>1, <1>7, <1>11, <2>1, PathsAre DEF SoundTree
<1>15. SoundTree(u.at, u.attr)
  <2>1. u.at \in [Paths -> Inodes \cup {None}] /\ u.attr \in [Inodes -> Attr]
    BY <1>1, <1>6, <1>7 DEF SoundTree
  <2> QED
    BY <2>1, <1>12, <1>13, <1>14, Zenon DEF SoundTree
<1>16. \A x \in Paths : u.at[x] = None \/ \E y \in Paths : u.at[x] = t.at[y]
  BY <1>9
<1> QED
  BY <1>4, <1>7, <1>15, <1>16, WellFormedIs, Zenon

-----------------------------------------------------------------------------
(* The outcomes of the system calls.                                       *)

\* The tree stays well-formed, and gets no inode but perhaps that of request r.
Follows(t, r, u) ==
  WellFormed(u) /\ \A i \in Requests \ {r} : Absent(t, i) => Absent(u, i)

\* Such are all outcomes of a call.
Tame(t, r, S) == \A o \in S : Follows(t, r, o.tree)

LEMMA NoChange ==
  ASSUME NEW t, WellFormed(t), NEW r \in Requests
  PROVE  /\ Tame(t, r, Succeeds(t))
         /\ \A e : Tame(t, r, Fails(e, t))
         /\ \A S, U : Tame(t, r, S) /\ Tame(t, r, U) => Tame(t, r, S \cup U)
<1>1. Follows(t, r, t)
  BY DEF Follows
<1> QED
  BY <1>1 DEF Tame, Succeeds, Fails

LEMMA OneChange ==
  ASSUME NEW t, NEW r \in Requests, NEW u, Follows(t, r, u)
  PROVE  Tame(t, r, Succeeds(u))
BY DEF Tame, Succeeds

LEMMA TameFound ==
  ASSUME NEW t, WellFormed(t), NEW r \in Requests, NEW p \in Paths, NEW S,
         Walk(t, p) = "NONE" /\ Exists(t, p) => Tame(t, r, S)
  PROVE  Tame(t, r, Found(t, p, S))
BY NoChange, Zenon DEF Found

LEMMA TameFollowed ==
  ASSUME NEW t, WellFormed(t), NEW r \in Requests, NEW p \in Paths, NEW S,
         Walk(t, p) = "NONE" /\ Exists(t, p) => Tame(t, r, S)
  PROVE  Tame(t, r, Followed(t, p, S))
BY NoChange, TameFound, Zenon DEF Followed

LEMMA TameTouch ==
  ASSUME NEW t, WellFormed(t), NEW r \in Requests, NEW i \in Inodes
  PROVE  Follows(t, r, Changed(t, i, r))
BY ChangedSound, Zenon DEF Follows, Absent

LEMMA InodeAt ==
  ASSUME NEW t, WellFormed(t), NEW p \in Paths, Exists(t, p)
  PROVE  t.at[p] \in Inodes
<1>1. t.at \in [Paths -> Inodes \cup {None}]
  BY WellFormedIs, Zenon DEF SoundTree
<1> QED
  BY <1>1 DEF Exists

LEMMA TameNew ==
  ASSUME NEW t, WellFormed(t), NEW r \in Requests, NEW p \in Paths, NEW kind \in Kinds,
         Absent(t, r), ~Exists(t, p), Walk(t, p) = "NONE"
  PROVE  Follows(t, r, New(t, p, kind, r))
<1>1. /\ WellFormed(New(t, p, kind, r))
      /\ \A x \in Paths : New(t, p, kind, r).at[x] = (IF x = p THEN r ELSE t.at[x])
  BY NewSound
<1>3. \A i \in Requests \ {r} : Absent(t, i) => Absent(New(t, p, kind, r), i)
  BY <1>1 DEF Absent
<1> QED
  BY <1>1, <1>3 DEF Follows

LEMMA NoneAbsent ==
  ASSUME NEW t, WellFormed(t), NEW r \in Requests, NEW u, WellFormed(u),
         \A x \in Paths : u.at[x] = None \/ \E y \in Paths : u.at[x] = t.at[y]
  PROVE  Follows(t, r, u)
<1>1. None \notin Requests
  BY TreeAssumption DEF Requests
<1> QED
  BY <1>1 DEF Follows, Absent

LEMMA TameRemoval ==
  ASSUME NEW t, WellFormed(t), NEW r \in Requests, NEW p \in Paths, p # <<>>,
         Kind(t, p) # "dir" \/ IsEmpty(t, p)
  PROVE  Follows(t, r, [t EXCEPT !.at[p] = None])
<1>1. PICK u : u = [t EXCEPT !.at[p] = None]
  OBVIOUS
<1>2. WellFormed(u) /\ u.at = [t.at EXCEPT ![p] = None]
  BY <1>1, RemovedSound
<1>3. t.at \in [Paths -> Inodes \cup {None}]
  BY WellFormedIs, Zenon DEF SoundTree
<1>4. \A x \in Paths : u.at[x] = None \/ \E y \in Paths : u.at[x] = t.at[y]
  BY <1>2, <1>3
<1> QED
  BY <1>1, <1>2, <1>4, NoneAbsent

LEMMA TameLink ==
  ASSUME NEW t, WellFormed(t), NEW r \in Requests, NEW p \in Paths, NEW q \in Paths
  PROVE  Tame(t, r, Link(t, p, q))
<1> SUFFICES ASSUME Walk(t, p) = "NONE", Exists(t, p), Kind(t, p) # "dir",
                    Walk(t, q) = "NONE", ~Exists(t, q)
             PROVE  Follows(t, r, [t EXCEPT !.at[q] = t.at[p]])
  BY NoChange, OneChange, TameFound, Zenon DEF Link
<1>1. PICK u : u = [t EXCEPT !.at[q] = t.at[p]]
  OBVIOUS
<1>2. WellFormed(u) /\ u.at = [t.at EXCEPT ![q] = t.at[p]]
  BY <1>1, LinkedSound
<1>3. t.at \in [Paths -> Inodes \cup {None}]
  BY WellFormedIs, Zenon DEF SoundTree
<1>4. \A x \in Paths : u.at[x] = None \/ \E y \in Paths : u.at[x] = t.at[y]
  BY <1>2, <1>3
<1> QED
  BY <1>1, <1>2, <1>4, NoneAbsent

LEMMA TameRename ==
  ASSUME NEW t, WellFormed(t), NEW r \in Requests, NEW p \in Paths, NEW q \in Paths,
         p # <<>>, q # <<>>
  PROVE  Tame(t, r, Rename(t, p, q))
<1> SUFFICES ASSUME Walk(t, p) = "NONE", Exists(t, p), Walk(t, q) = "NONE",
                    ~(p # q /\ Under(q, p)), t.at[p] # t.at[q]
             PROVE  Follows(t, r, Moved(t, p, q))
  BY NoChange, OneChange, TameFound, Zenon DEF Rename
<1>1. ~Under(q, p)
  OBVIOUS
<1>2. /\ WellFormed(Moved(t, p, q))
      /\ \A x \in Paths : \/ Moved(t, p, q).at[x] = None
                          \/ \E y \in Paths : Moved(t, p, q).at[x] = t.at[y]
  BY <1>1, MovedSound
<1> QED
  BY <1>2, NoneAbsent, Zenon

LEMMA TameCalls ==
  ASSUME NEW t, WellFormed(t), NEW r \in Requests, NEW p \in Paths
  PROVE  /\ Tame(t, r, Look(t, p))
         /\ Tame(t, r, LookThrough(t, p))
         /\ Tame(t, r, Update(t, p, r))
         /\ Tame(t, r, Truncate(t, p, r))
         /\ p # <<>> => Tame(t, r, Rmdir(t, p)) /\ Tame(t, r, Unlink(t, p))
<1>1. Tame(t, r, Look(t, p)) /\ Tame(t, r, LookThrough(t, p))
  BY NoChange, TameFound, TameFollowed, Zenon DEF Look, LookThrough
<1>2. Exists(t, p) => Tame(t, r, Succeeds(Touch(t, p, r)))
  BY InodeAt, TameTouch, OneChange, Zenon DEF Touch
<1>3. Tame(t, r, Update(t, p, r))
  BY <1>2, TameFollowed, Zenon DEF Update
<1>4. Tame(t, r, Truncate(t, p, r))
  BY <1>2, NoChange, TameFollowed, Zenon DEF Truncate
<1>5. ASSUME p # <<>> PROVE Tame(t, r, Rmdir(t, p))
  <2>1. IsEmpty(t, p) => Tame(t, r, Succeeds([t EXCEPT !.at[p] = None]))
    BY <1>5, TameRemoval, OneChange
  <2> QED
    BY <2>1, NoChange, TameFound, Zenon DEF Rmdir
<1>6. ASSUME p # <<>> PROVE Tame(t, r, Unlink(t, p))
  <2>1. Kind(t, p) # "dir" => Tame(t, r, Succeeds([t EXCEPT !.at[p] = None]))
    BY <1>6, TameRemoval, OneChange
  <2> QED
    BY <2>1, NoChange, TameFound, Zenon DEF Unlink
<1> QED
  BY <1>1, <1>3, <1>4, <1>5, <1>6

LEMMA TameMake ==
  ASSUME NEW t, WellFormed(t), NEW r \in Requests, NEW p \in Paths, NEW kind \in Kinds,
         Absent(t, r)
  PROVE  Tame(t, r, Make(t, p, kind, r))
BY NoChange, OneChange, TameNew, Zenon DEF Make

\* open, and the file it has opened.
LEMMA TameOpen ==
  ASSUME NEW t, WellFormed(t), NEW r \in Requests, NEW p \in Paths, NEW flags,
         Absent(t, r)
  PROVE  /\ Tame(t, r, Open(t, p, flags, r))
         /\ \A o \in Open(t, p, flags, r) :
              o.err = "NONE" => OpenedInode(o.tree, p) \in Inodes \cup {Outside}
<1>1. Tame(t, r, Open(t, p, flags, r))
  <2>1. Exists(t, p) => Tame(t, r, Succeeds(Touch(t, p, r)))
    BY InodeAt, TameTouch, OneChange, Zenon DEF Touch
  <2>2. ~Exists(t, p) /\ Walk(t, p) = "NONE" => Tame(t, r, Succeeds(New(t, p, "reg", r)))
    BY TameNew, OneChange, Zenon DEF Kinds
  <2>3. Exists(t, p) => Tame(t, r, Succeeds(IF "trunc" \in flags THEN Touch(t, p, r) ELSE t))
    BY <2>1, NoChange, Zenon
  <2> QED
    BY <2>2, <2>3, NoChange, Zenon DEF Open
<1>2. ASSUME NEW o \in Open(t, p, flags, r), o.err = "NONE"
      PROVE  Exists(o.tree, p)
  <2>1. CASE Exists(t, p)
    <3>1. o.tree \in {t, Touch(t, p, r)}
      BY <1>2, <2>1 DEF Open, Fails, Succeeds
    <3>2. Touch(t, p, r).at = t.at
      BY <2>1, InodeAt, ChangedSound, Zenon DEF Touch
    <3> QED
      BY <2>1, <3>1, <3>2 DEF Exists
  <2>2. CASE ~Exists(t, p)
    <3>1. Walk(t, p) = "NONE" \/ o.err = Walk(t, p)
      BY <1>2, <2>2 DEF Open, Fails, Succeeds
    <3>2. Walk(t, p) = "NONE"
      BY <1>2, <3>1
    <3>3. o.tree = New(t, p, "reg", r)
      BY <1>2, <2>2, <3>2 DEF Open, Fails, Succeeds
    <3>4. New(t, p, "reg", r).at[p] = r
      BY <2>2, <3>2, NewSound DEF Kinds
    <3>5. r # None
      BY TreeAssumption DEF Requests
    <3> QED
      BY <3>3, <3>4, <3>5 DEF Exists
  <2> QED
    BY <2>1, <2>2
<1>3. ASSUME NEW o \in Open(t, p, flags, r), o.err = "NONE"
      PROVE  OpenedInode(o.tree, p) \in Inodes \cup {Outside}
  <2>1. WellFormed(o.tree)
    BY <1>1 DEF Tame, Follows
  <2>2. o.tree.at[p] \in Inodes
    BY <1>2, <1>3, <2>1, InodeAt
  <2> QED
    BY <2>2 DEF OpenedInode
<1> QED
  BY <1>1, <1>3

-----------------------------------------------------------------------------
(* The types, the answers and the listings.                                *)

(***************************************************************************)
(* The operations that the kernel does not pass for the mount point.       *)
(***************************************************************************)
Named == OnTwoPaths \cup {"RMDIR", "UNLINK", "MKDIR", "CREATE", "MKNOD"}

Proper(j) == /\ j.op \in Named => j.path # <<>>
             /\ j.op \in OnTwoPaths => j.to # <<>>

(***************************************************************************)
(* A handler that answers without an errno, or that will because it has    *)
(* written, has done what was asked for, has given up, or could not close. *)
(***************************************************************************)
Excused(j) ==
  \/ j.gaveup \in Reasons /\ j.op \in MayGiveUp[j.gaveup]
  \/ j.op = "WRITE" /\ j.badclose

Honest(j) ==
  /\ j.pc = "answered" /\ j.err = "NONE" => j.done \/ Excused(j)
  /\ j.op = "WRITE" /\ j.pc \in {"used", "closed"} /\ j.err = "NONE" => j.done
  /\ j.pc = "reclose" => j.op = "WRITE" /\ j.badclose

(***************************************************************************)
(* What the listing of a job has or will have of the names S.  The names a *)
(* directory has kept are among those behind the descriptor until these    *)
(* are read, and from then on in the buffer of readdir or in the response. *)
(***************************************************************************)
Reading(j) == j.op = "READDIR" /\ j.pc \in {"count", "rewind", "fill"}

Covers(j, S) ==
  j.op = "READDIR" /\ j.err = "NONE" /\ ~j.cutshort =>
    /\ j.pc = "fill" => S \subseteq j.left \cup DOMAIN j.entries
    /\ j.pc = "answered" /\ j.gaveup = "no" => S \subseteq DOMAIN j.entries

Sane == \A s \in Requests : ~job[s].badclose

Watched(r) ==
  /\ Reading(job[r]) => job[r].ino \in Inodes
  /\ job[r].op = "READDIR" /\ job[r].pc \in {"count", "rewind"}
       => stay[r] \subseteq NamesIn(tree, job[r].ino)
  /\ Sane => Covers(job[r], stay[r])

Unborn(r) == job[r].pc \in {"none", "queued", "begin"} => Absent(tree, r)

TInv == /\ TypeOK
        /\ \A r \in Requests : /\ Unborn(r) /\ Proper(job[r]) /\ Honest(job[r])
                               /\ Watched(r)
                               /\ job[r].pc \in Opened => job[r].fd \in FDs

(***************************************************************************)
(* A step of the handler of request r, after which its job is j.           *)
(***************************************************************************)
Turn(r, j) ==
  /\ j \in Job /\ job' = [job EXCEPT ![r] = j]
  /\ Follows(tree, r, tree') /\ undefined' \in BOOLEAN
  /\ j.pc # "none"
  /\ j.pc \in {"queued", "begin"} => job[r].pc \in {"none", "queued"} /\ tree' = tree
  /\ job[r].pc # "none" => j.op = job[r].op
  /\ Proper(j) /\ Honest(j)
  /\ job[r].badclose => j.badclose
  /\ job[r].cutshort => j.cutshort
  /\ Reading(j) => j.ino \in Inodes
  /\ j.op = "READDIR" /\ j.pc \in {"count", "rewind"} /\ job[r].pc # "begin" =>
       job[r].pc \in {"count", "rewind"} /\ j.ino = job[r].ino
  /\ j.op = "READDIR" /\ j.err = "NONE" /\ ~j.cutshort =>
       /\ j.pc = "fill" => \/ job[r].pc = "rewind" /\ j.left = Listed(r) /\ j.ino = job[r].ino
                           \/ /\ job[r].pc = "fill" /\ job[r].err = "NONE"
                              /\ j.ino = job[r].ino
                              /\ job[r].left \cup DOMAIN job[r].entries
                                   \subseteq j.left \cup DOMAIN j.entries
       /\ j.pc = "answered" /\ j.gaveup = "no" =>
            /\ job[r].pc = "fill" /\ job[r].left = {} /\ job[r].err = "NONE"
            /\ j.entries = job[r].entries

LEMMA JobTyped ==
  ASSUME TypeOK, NEW r \in Requests
  PROVE  job[r] \in Job
BY DEF TypeOK

LEMMA FieldTypes ==
  ASSUME NEW j \in Job
  PROVE  /\ j.op \in AllOps /\ j.path \in Paths /\ j.to \in Paths
         /\ j.flags \in SUBSET OpenFlags /\ j.complete \in BOOLEAN
         /\ j.pc \in Stages /\ j.fd \in {0} \cup FDs /\ j.ino \in Inodes \cup {Outside}
         /\ j.count \in Nat /\ j.used \in Nat /\ j.left \in SUBSET Names
         /\ j.err \in Errno /\ j.done \in BOOLEAN /\ j.attrs \in Attr \cup {None}
         /\ j.entries \in Entries /\ j.cutshort \in BOOLEAN
         /\ j.gaveup \in Reasons \cup {"no"} /\ j.badclose \in BOOLEAN
BY DEF Job

LEMMA ErrnoIs ==
  ASSUME NEW e
  PROVE  Errno_from_local(e) \in Errno /\ (Errno_from_local(e) = "NONE" => e = "NONE")
BY DEF Errno_from_local, Errno, LocalErrno

LEMMA SameTree ==
  ASSUME TypeOK, NEW r \in Requests, UNCHANGED <<tree, undefined>>
  PROVE  Follows(tree, r, tree') /\ undefined' \in BOOLEAN
BY DEF TypeOK, Follows

\* The stages that handlers reach, and the errnos they set themselves.
LEMMA Constants ==
  /\ {"queued", "begin", "answered", "count", "rewind", "fill", "open", "used", "closed",
      "reclose"}
       \subseteq Stages
  /\ {"NONE", "NOENT", "NOMEM", "NOTDIR", "ISDIR", "NOSPC", "INVALID_REQUEST"}
       \subseteq Errno
  /\ 0 \in {0} \cup FDs /\ TRUE \in BOOLEAN /\ FALSE \in BOOLEAN
BY DEF Stages, Errno, LocalErrno

LEMMA Memory == "memory" \in Reasons /\ "memory" \in Reasons \cup {"no"}
BY DEF Reasons

\* A step that begins no listing and goes on with none.
LEMMA QuietTurn ==
  ASSUME TInv, NEW r \in Requests, NEW j \in Job, job' = [job EXCEPT ![r] = j],
         Follows(tree, r, tree'), undefined' \in BOOLEAN,
         j.op = job[r].op, j.path = job[r].path, j.to = job[r].to,
         j.pc \notin {"none", "queued", "begin"}, Honest(j), job[r].badclose => j.badclose,
         job[r].cutshort => j.cutshort,
         j.op # "READDIR" \/ (j.pc = "answered" /\ (j.err # "NONE" \/ j.gaveup # "no"))
  PROVE  Turn(r, j)
<1>1. Proper(j)
  BY Zenon DEF TInv, Proper
<1>2. ~Reading(j) /\ ~(j.op = "READDIR" /\ j.pc \in {"count", "rewind"})
  BY DEF Reading
<1>3. ~(j.op = "READDIR" /\ j.err = "NONE" /\ (j.pc = "fill" \/ (j.pc = "answered" /\ j.gaveup = "no")))
  OBVIOUS
<1> QED
  BY <1>1, <1>2, <1>3, Zenon DEF Turn

\* The answer of a handler of one system call.
LEMMA AnswerTurn ==
  ASSUME TInv, NEW r \in Requests, NEW e, Answer(r, e),
         e = "NONE" => job[r].op # "READDIR",
         Follows(tree, r, tree'), undefined' \in BOOLEAN
  PROVE  \E j : Turn(r, j)
<1>0. TypeOK
  BY DEF TInv
<1>a. PICK n \in Errno : n = Errno_from_local(e)
  BY ErrnoIs
<1>b. PICK d \in BOOLEAN : d = (e = "NONE")
  BY Zenon
<1> DEFINE j == [job[r] EXCEPT !.pc = "answered", !.err = n, !.done = d]
<1>1. job' = [job EXCEPT ![r] = j]
  BY <1>a, <1>b, Zenon DEF Answer
<1>2. j \in Job
  BY <1>0, JobTyped, Constants, Zenon DEF Job
<1>3. /\ j.op = job[r].op /\ j.path = job[r].path /\ j.to = job[r].to
      /\ j.badclose = job[r].badclose /\ j.cutshort = job[r].cutshort /\ j.pc = "answered" /\ j.err = n
      /\ j.done = d
  BY <1>0, JobTyped DEF Job
<1> HIDE DEF j
<1>4. n = "NONE" => e = "NONE"
  BY <1>a, ErrnoIs
<1>5. Honest(j)
  BY <1>b, <1>3, <1>4, Zenon DEF Honest
<1>6. j.op # "READDIR" \/ (j.pc = "answered" /\ (j.err # "NONE" \/ j.gaveup # "no"))
  BY <1>3, <1>4
<1>7. Turn(r, j)
  BY <1>1, <1>2, <1>3, <1>5, <1>6, QuietTurn
<1> QED
  BY <1>7

\* The error label of a handler without a descriptor.
LEMMA AbortTurn ==
  ASSUME TInv, NEW r \in Requests, Aborts(r), UNCHANGED <<tree, undefined>>
  PROVE  \E j : Turn(r, j)
<1>0. TypeOK
  BY DEF TInv
<1>a. PICK why \in Reasons : Abort(r, why)
  BY DEF Aborts
<1>b. why \in Reasons \cup {"no"} /\ why # "no"
  BY DEF Reasons
<1> DEFINE j == [job[r] EXCEPT !.pc = "answered", !.gaveup = why]
<1>1. job' = [job EXCEPT ![r] = j]
  BY <1>a, Zenon DEF Abort
<1>2. j \in Job
  BY <1>0, <1>b, JobTyped, Constants, Zenon DEF Job
<1>3. /\ j.op = job[r].op /\ j.path = job[r].path /\ j.to = job[r].to
      /\ j.badclose = job[r].badclose /\ j.cutshort = job[r].cutshort /\ j.pc = "answered" /\ j.gaveup = why
  BY <1>0, JobTyped DEF Job
<1> HIDE DEF j
<1>4. Honest(j)
  <2>1. j.op \in MayGiveUp[why]
    BY <1>a, <1>3 DEF Abort
  <2> QED
    BY <1>3, <2>1 DEF Honest, Excused
<1>5. Turn(r, j)
  BY <1>0, <1>b, <1>1, <1>2, <1>3, <1>4, SameTree, QuietTurn
<1> QED
  BY <1>5

\* An invalid request.
LEMMA RefuseTurn ==
  ASSUME TInv, NEW r \in Requests, UNCHANGED <<tree, undefined>>,
         job' = [job EXCEPT ![r].pc = "answered", ![r].err = "INVALID_REQUEST"]
  PROVE  \E j : Turn(r, j)
<1>0. TypeOK
  BY DEF TInv
<1> DEFINE j == [job[r] EXCEPT !.pc = "answered", !.err = "INVALID_REQUEST"]
<1>1. job' = [job EXCEPT ![r] = j]
  BY Zenon
<1>2. j \in Job
  BY <1>0, JobTyped, Constants, Zenon DEF Job
<1>3. /\ j.op = job[r].op /\ j.path = job[r].path /\ j.to = job[r].to
      /\ j.badclose = job[r].badclose /\ j.cutshort = job[r].cutshort /\ j.pc = "answered"
      /\ j.err = "INVALID_REQUEST"
  BY <1>0, JobTyped DEF Job
<1> HIDE DEF j
<1>4. Honest(j)
  BY <1>3 DEF Honest
<1>5. Turn(r, j)
  BY <1>0, <1>1, <1>2, <1>3, <1>4, SameTree, QuietTurn
<1> QED
  BY <1>5

\* A request is received.
LEMMA ReceiveTurn ==
  ASSUME TInv, NEW r \in Requests, Receive(r)
  PROVE  \E j : Turn(r, j)
<1>0. TypeOK
  BY DEF TInv
<1>a. PICK op \in Ops[r], p, q \in Paths, f \in Flags, c \in Complete :
        /\ Request(op, p, q, f, c)
        /\ job' = [job EXCEPT ![r].op = op, ![r].path = p, ![r].to = q,
                              ![r].flags = f, ![r].complete = c,
                              ![r].pc = "begin"]
  BY Zenon DEF Receive
<1>b. op \in AllOps /\ f \in SUBSET OpenFlags /\ c \in BOOLEAN
  BY OpsAssumption, ServeDirAssumption
<1>c. job[r] \in Job /\ "begin" \in Stages
  BY <1>0, JobTyped, Constants
<1> DEFINE j == [job[r] EXCEPT !.op = op, !.path = p, !.to = q, !.flags = f, !.complete = c,
                              !.pc = "begin"]
<1>1. job' = [job EXCEPT ![r] = j]
  BY <1>a, Zenon
<1>2. j \in Job
  <2>1. PICK i \in Job : i = [job[r] EXCEPT !.op = op, !.path = p, !.to = q]
    <3>1. [job[r] EXCEPT !.op = op, !.path = p, !.to = q] \in Job
      BY <1>b, <1>c, Zenon DEF Job
    <3> QED
      BY <3>1, Zenon
  <2>2. [i EXCEPT !.flags = f, !.complete = c, !.pc = "begin"] \in Job
    BY <1>b, <1>c, Zenon DEF Job
  <2> QED
    BY <2>1, <2>2, Zenon
<1>3. /\ j.badclose = job[r].badclose /\ j.cutshort = job[r].cutshort /\ j.op = op /\ j.path = p /\ j.to = q
      /\ j.pc = "begin"
  BY <1>0, JobTyped DEF Job
<1> HIDE DEF j
<1>4. job[r].pc = "none" /\ UNCHANGED <<tree, undefined>>
  BY DEF Receive
<1>5. Proper(j)
  <2>1. /\ (op \in OnTwoPaths) = (q # <<>>)
        /\ op \in Named => p # <<>>
    BY <1>a, Zenon DEF Request, Named
  <2> QED
    BY <1>3, <2>1 DEF Proper
<1>6. Honest(j)
  BY <1>3 DEF Honest
<1>7. Follows(tree, r, tree') /\ undefined' \in BOOLEAN
  BY <1>0, <1>4, SameTree
<1>8. ~Reading(j)
  BY <1>3 DEF Reading
<1>9. Turn(r, j)
  BY <1>1, <1>2, <1>3, <1>4, <1>5, <1>6, <1>7, <1>8 DEF Turn
<1> QED
  BY <1>9

\* What a handler finds.
LEMMA Ready ==
  ASSUME TInv, NEW r \in Requests
  PROVE  /\ TypeOK /\ WellFormed(tree) /\ undefined \in BOOLEAN
         /\ job[r].path \in Paths /\ job[r].to \in Paths
         /\ job[r].pc = "begin" => Absent(tree, r)
         /\ job[r].op \in Named => job[r].path # <<>>
         /\ job[r].op \in OnTwoPaths => job[r].to # <<>>
<1>1. TypeOK /\ Unborn(r) /\ Proper(job[r])
  BY DEF TInv
<1>2. WellFormed(tree) /\ undefined \in BOOLEAN /\ job[r] \in Job
  BY <1>1, JobTyped DEF TypeOK
<1>3. job[r].path \in Paths /\ job[r].to \in Paths
  BY <1>2, FieldTypes
<1> QED
  BY <1>1, <1>2, <1>3 DEF Unborn, Proper

\* A handler of one system call.
LEMMA SyscallTurn ==
  ASSUME TInv, NEW r \in Requests, NEW S, Syscall(r, S), Tame(tree, r, S),
         job[r].op # "READDIR"
  PROVE  \E j : Turn(r, j)
<1>1. PICK o \in S \cup Refused(tree) : tree' = o.tree /\ Answer(r, o.err)
  BY DEF Syscall
<1>2. Tame(tree, r, S \cup Refused(tree))
  BY Ready, NoChange, Zenon DEF Refused
<1>3. Follows(tree, r, tree')
  BY <1>1, <1>2 DEF Tame
<1>4. undefined' \in BOOLEAN
  BY Ready DEF Syscall
<1> QED
  BY <1>1, <1>3, <1>4, AnswerTurn

\* The handlers that do not open anything.
LEMMA BareTurns ==
  ASSUME TInv, NEW r \in Requests,
         \/ MissingParameter(r) \/ ServeDir_fullpath_fails(r) \/ ConversionFails(r)
         \/ ServeDir_op_ping(r) \/ ServeDir_op_invalid(r)
         \/ ServeDir_op_rmdir(r) \/ ServeDir_op_unlink(r)
         \/ ServeDir_op_access(r) \/ ServeDir_op_rename(r)
         \/ ServeDir_op_link(r) \/ ServeDir_op_symlink(r)
         \/ ServeDir_op_readlink(r) \/ ServeDir_op_mkdir(r)
         \/ ServeDir_op_truncate(r) \/ ServeDir_op_chmod(r)
         \/ ServeDir_op_utimens(r) \/ ServeDir_op_mknod(r)
         \/ ServeDir_op_statfs(r)
  PROVE  \E j : Turn(r, j)
<1> USE Ready
<1> DEFINE p == job[r].path
<1>1. CASE MissingParameter(r)
  BY <1>1, RefuseTurn DEF MissingParameter
<1>2. CASE ServeDir_fullpath_fails(r) \/ ConversionFails(r)
  BY <1>2, AbortTurn DEF ServeDir_fullpath_fails, ConversionFails, Aborts, Reasons
<1>3. CASE ServeDir_op_ping(r)
  <2>1. Answer(r, "NONE") /\ job[r].op # "READDIR" /\ UNCHANGED <<tree, undefined>>
    BY <1>3 DEF ServeDir_op_ping, Serving
  <2> QED
    BY <2>1, SameTree, AnswerTurn
<1>4. CASE ServeDir_op_invalid(r)
  BY <1>4, RefuseTurn DEF ServeDir_op_invalid
<1>5. CASE ServeDir_op_rmdir(r)
  <2>1. /\ job[r].op = "RMDIR" /\ job[r].pc = "begin"
        /\ Syscall(r, Rmdir(tree, p))
    BY <1>5, Zenon DEF ServeDir_op_rmdir, Serving
  <2>2. Tame(tree, r, Rmdir(tree, p))
    BY <2>1, TameCalls DEF Named
  <2> QED
    BY <2>1, <2>2, SyscallTurn
<1>6. CASE ServeDir_op_unlink(r)
  <2>1. /\ job[r].op = "UNLINK" /\ job[r].pc = "begin"
        /\ Syscall(r, Unlink(tree, p))
    BY <1>6, Zenon DEF ServeDir_op_unlink, Serving
  <2>2. Tame(tree, r, Unlink(tree, p))
    BY <2>1, TameCalls DEF Named
  <2> QED
    BY <2>1, <2>2, SyscallTurn
<1>7. CASE ServeDir_op_access(r)
  <2>1. /\ job[r].op = "ACCESS" /\ job[r].pc = "begin"
        /\ Syscall(r, LookThrough(tree, p))
    BY <1>7, Zenon DEF ServeDir_op_access, Serving
  <2>2. Tame(tree, r, LookThrough(tree, p))
    BY <2>1, TameCalls
  <2> QED
    BY <2>1, <2>2, SyscallTurn
<1>8. CASE ServeDir_op_rename(r)
  <2>1. /\ job[r].op = "RENAME" /\ job[r].pc = "begin"
        /\ Syscall(r, Rename(tree, p, job[r].to))
    BY <1>8, Zenon DEF ServeDir_op_rename, Serving
  <2>2. Tame(tree, r, Rename(tree, p, job[r].to))
    BY <2>1, TameRename DEF Named, OnTwoPaths
  <2> QED
    BY <2>1, <2>2, SyscallTurn
<1>9. CASE ServeDir_op_link(r)
  <2>1. /\ job[r].op = "LINK" /\ job[r].pc = "begin"
        /\ Syscall(r, Link(tree, p, job[r].to))
    BY <1>9, Zenon DEF ServeDir_op_link, Serving
  <2>2. Tame(tree, r, Link(tree, p, job[r].to))
    BY <2>1, TameLink
  <2> QED
    BY <2>1, <2>2, SyscallTurn
<1>10. CASE ServeDir_op_symlink(r)
  <2>1. /\ job[r].op = "SYMLINK" /\ job[r].pc = "begin"
        /\ Syscall(r, Make(tree, p, "lnk", r))
    BY <1>10, Zenon DEF ServeDir_op_symlink, Serving
  <2>2. Tame(tree, r, Make(tree, p, "lnk", r))
    BY <2>1, TameMake DEF Kinds
  <2> QED
    BY <2>1, <2>2, SyscallTurn
<1>11. CASE ServeDir_op_readlink(r)
  <2> DEFINE S == IF Kind(tree, p) = "lnk" THEN Succeeds(tree) ELSE Fails("INVAL", tree)
  <2>1. CASE job[r].op = "READLINK" /\ Syscall(r, Found(tree, p, S))
    <3>1. Tame(tree, r, Found(tree, p, S))
      BY NoChange, TameFound, Zenon
    <3> QED
      BY <2>1, <3>1, SyscallTurn
  <2>2. CASE Aborts(r) /\ UNCHANGED <<tree, fds, undefined>>
    BY <2>2, AbortTurn
  <2> QED
    BY <1>11, <2>1, <2>2, Zenon DEF ServeDir_op_readlink, Serving, Aborts, Reasons
<1>12. CASE ServeDir_op_mkdir(r)
  <2>1. /\ job[r].op = "MKDIR" /\ job[r].pc = "begin"
        /\ Syscall(r, Make(tree, p, "dir", r))
    BY <1>12, Zenon DEF ServeDir_op_mkdir, Serving
  <2>2. Tame(tree, r, Make(tree, p, "dir", r))
    BY <2>1, TameMake DEF Kinds
  <2> QED
    BY <2>1, <2>2, SyscallTurn
<1>13. CASE ServeDir_op_truncate(r)
  <2>1. /\ job[r].op = "TRUNCATE" /\ job[r].pc = "begin"
        /\ Syscall(r, Truncate(tree, p, r))
    BY <1>13, Zenon DEF ServeDir_op_truncate, Serving
  <2>2. Tame(tree, r, Truncate(tree, p, r))
    BY <2>1, TameCalls
  <2> QED
    BY <2>1, <2>2, SyscallTurn
<1>14. CASE ServeDir_op_chmod(r)
  <2>1. /\ job[r].op = "CHMOD" /\ job[r].pc = "begin"
        /\ Syscall(r, Update(tree, p, r))
    BY <1>14, Zenon DEF ServeDir_op_chmod, Serving
  <2>2. Tame(tree, r, Update(tree, p, r))
    BY <2>1, TameCalls
  <2> QED
    BY <2>1, <2>2, SyscallTurn
<1>15. CASE ServeDir_op_utimens(r)
  <2>1. /\ job[r].op = "UTIMENS" /\ job[r].pc = "begin"
        /\ Syscall(r, Update(tree, p, r))
    BY <1>15, Zenon DEF ServeDir_op_utimens, Serving
  <2>2. Tame(tree, r, Update(tree, p, r))
    BY <2>1, TameCalls
  <2> QED
    BY <2>1, <2>2, SyscallTurn
<1>16. CASE ServeDir_op_mknod(r)
  <2> DEFINE S == Make(tree, p, "reg", r) \cup Fails("PERM", tree)
  <2>1. job[r].op = "MKNOD" /\ job[r].pc = "begin" /\ Syscall(r, S)
    BY <1>16, Zenon DEF ServeDir_op_mknod, Serving
  <2>2. Tame(tree, r, Make(tree, p, "reg", r))
    BY <2>1, TameMake DEF Kinds
  <2>3. Tame(tree, r, S)
    BY <2>2, NoChange, Zenon
  <2> QED
    BY <2>1, <2>3, SyscallTurn
<1>17. CASE ServeDir_op_statfs(r)
  <2>1. CASE job[r].op = "STATFS" /\ Syscall(r, LookThrough(tree, p))
    BY <2>1, TameCalls, SyscallTurn
  <2>2. CASE Aborts(r) /\ UNCHANGED <<tree, fds, undefined>>
    BY <2>2, AbortTurn
  <2> QED
    BY <1>17, <2>1, <2>2, Zenon DEF ServeDir_op_statfs, Serving, Aborts, Reasons
<1> QED
  BY <1>1, <1>2, <1>3, <1>4, <1>5, <1>6, <1>7, <1>8, <1>9, <1>10, <1>11, <1>12, <1>13, <1>14, <1>15, <1>16, <1>17

\* The attributes of an entry.
LEMMA LstatIs ==
  ASSUME NEW t, WellFormed(t), NEW p
  PROVE  /\ Lstat(t, p) \in Attr \cup {None}
         /\ Walk(t, p) = "NONE" /\ Exists(t, p) => Lstat(t, p) \in Attr
<1>1. Exists(t, p) => p \in Paths /\ t.at[p] \in Inodes
  BY InodeAt DEF Exists
<1>2. t.attr \in [Inodes -> Attr]
  BY WellFormedIs, Zenon DEF SoundTree
<1>3. Exists(t, p) => t.attr[t.at[p]] \in Attr
  BY <1>1, <1>2
<1> QED
  BY <1>3 DEF Lstat

\* lstat.
LEMMA GetattrTurn ==
  ASSUME TInv, NEW r \in Requests, ServeDir_op_getattr(r)
  PROVE  \E j : Turn(r, j)
<1>0. TypeOK /\ job[r].op = "GETATTR" /\ UNCHANGED <<tree, undefined>>
  BY Ready DEF ServeDir_op_getattr, Serving
<1>a. CASE Aborts(r)
  BY <1>0, <1>a, AbortTurn
<1>b. ASSUME NEW o, o \in Look(tree, job[r].path) \cup Refused(tree),
             job' = [job EXCEPT ![r].pc = "answered",
                                ![r].err = Errno_from_local(o.err),
                                ![r].done = (o.err = "NONE"),
                                ![r].attrs = IF o.err = "NONE"
                                             THEN Lstat(tree, job[r].path)
                                             ELSE None]
      PROVE  \E j : Turn(r, j)
  <2>a. PICK n \in Errno : n = Errno_from_local(o.err)
    BY ErrnoIs
  <2>b. PICK d \in BOOLEAN : d = (o.err = "NONE")
    BY Zenon
  <2>c. PICK a \in Attr \cup {None} :
          a = IF o.err = "NONE" THEN Lstat(tree, job[r].path) ELSE None
    BY Ready, LstatIs, Zenon
  <2> DEFINE j == [job[r] EXCEPT !.pc = "answered", !.err = n, !.done = d, !.attrs = a]
  <2>1. job' = [job EXCEPT ![r] = j]
    BY <1>b, <2>a, <2>b, <2>c, Zenon
  <2>2. j \in Job
    BY <1>0, JobTyped, Constants, ZenonT(60) DEF Job
  <2>3. /\ j.op = job[r].op /\ j.path = job[r].path /\ j.to = job[r].to
        /\ j.badclose = job[r].badclose /\ j.cutshort = job[r].cutshort /\ j.pc = "answered" /\ j.err = n
        /\ j.done = d
    BY <1>0, JobTyped DEF Job
  <2> HIDE DEF j
  <2>4. n = "NONE" => o.err = "NONE"
    BY <2>a, ErrnoIs
  <2>5. Honest(j)
    BY <2>b, <2>3, <2>4, Zenon DEF Honest
  <2>6. Turn(r, j)
    BY <1>0, <2>1, <2>2, <2>3, <2>5, SameTree, QuietTurn
  <2> QED
    BY <2>6
<1> QED
  BY <1>a, <1>b, Zenon DEF ServeDir_op_getattr, Aborts, Reasons

\* A file is opened, or not.
LEMMA OpenTurn ==
  ASSUME TInv, DInv, NEW r \in Requests, job[r].pc = "begin", job[r].op # "READDIR",
         NEW flags, OpenFile(r, flags, "open")
  PROVE  \E j : Turn(r, j)
<1>0. TypeOK /\ undefined' \in BOOLEAN
  BY Ready DEF OpenFile
<1>a. PICK o \in Open(tree, job[r].path, flags, r) \cup Refused(tree) :
        /\ tree' = o.tree
        /\ \/ /\ o.err # "NONE"
              /\ Answer(r, o.err)
           \/ /\ o.err = "NONE"
              /\ job' = [job EXCEPT ![r].pc = "open", ![r].fd = FreeFd,
                                    ![r].ino = OpenedInode(o.tree, job[r].path)]
  BY Zenon DEF OpenFile
<1>b. Follows(tree, r, tree')
  <2>1. Tame(tree, r, Open(tree, job[r].path, flags, r))
    BY Ready, TameOpen
  <2>2. Tame(tree, r, Open(tree, job[r].path, flags, r) \cup Refused(tree))
    BY <2>1, Ready, NoChange, Zenon DEF Refused
  <2> QED
    BY <1>a, <2>2 DEF Tame
<1>c. CASE Answer(r, o.err)
  BY <1>0, <1>b, <1>c, AnswerTurn
<1>d. CASE /\ o.err = "NONE"
           /\ job' = [job EXCEPT ![r].pc = "open", ![r].fd = FreeFd,
                                 ![r].ino = OpenedInode(o.tree, job[r].path)]
  <2>a. o \in Open(tree, job[r].path, flags, r)
    BY <1>d DEF Refused, Fails
  <2>b. PICK i \in Inodes \cup {Outside} : i = OpenedInode(o.tree, job[r].path)
    BY <1>d, <2>a, Ready, TameOpen
  <2>c. PICK n \in {0} \cup FDs : n = FreeFd
    BY FreeFdIsFree
  <2> DEFINE j == [job[r] EXCEPT !.pc = "open", !.fd = n, !.ino = i]
  <2>1. job' = [job EXCEPT ![r] = j]
    BY <1>d, <2>b, <2>c, Zenon
  <2>2. j \in Job
    BY <1>0, JobTyped, Constants, ZenonT(60) DEF Job
  <2>3. /\ j.op = job[r].op /\ j.path = job[r].path /\ j.to = job[r].to
        /\ j.badclose = job[r].badclose /\ j.cutshort = job[r].cutshort /\ j.pc = "open"
    BY <1>0, JobTyped DEF Job
  <2> HIDE DEF j
  <2>4. Honest(j)
    BY <2>3 DEF Honest
  <2>5. Turn(r, j)
    BY <1>0, <1>b, <2>1, <2>2, <2>3, <2>4, QuietTurn
  <2> QED
    BY <2>5
<1> QED
  BY <1>a, <1>c, <1>d

\* The last step of open and create.
LEMMA CloseTurn ==
  ASSUME TInv, NEW r \in Requests, CloseAndAnswer(r), job[r].op # "READDIR"
  PROVE  \E j : Turn(r, j)
<1>0. TypeOK /\ UNCHANGED <<tree, undefined>>
  BY Ready DEF CloseAndAnswer
<1> DEFINE j == [job[r] EXCEPT !.pc = "answered", !.fd = 0, !.done = TRUE]
<1>1. job' = [job EXCEPT ![r] = j]
  BY Zenon DEF CloseAndAnswer
<1>2. j \in Job
  BY <1>0, JobTyped, Constants, Zenon DEF Job
<1>3. /\ j.op = job[r].op /\ j.path = job[r].path /\ j.to = job[r].to
      /\ j.badclose = job[r].badclose /\ j.cutshort = job[r].cutshort /\ j.pc = "answered" /\ j.done = TRUE
  BY <1>0, JobTyped DEF Job
<1> HIDE DEF j
<1>4. Honest(j)
  BY <1>3, Zenon DEF Honest
<1>5. Turn(r, j)
  BY <1>0, <1>1, <1>2, <1>3, <1>4, SameTree, QuietTurn
<1> QED
  BY <1>5

\* The error label of a handler with a descriptor.
LEMMA CloseAbortTurn ==
  ASSUME TInv, NEW r \in Requests, CloseAborts(r)
  PROVE  \E j : Turn(r, j)
<1>a. PICK why \in Reasons : CloseAndAbort(r, why)
  BY DEF CloseAborts
<1>b. why \in Reasons \cup {"no"} /\ why # "no"
  BY DEF Reasons
<1>0. TypeOK /\ UNCHANGED <<tree, undefined>>
  BY <1>a, Ready DEF CloseAndAbort
<1> DEFINE j == [job[r] EXCEPT !.pc = "answered", !.fd = 0, !.gaveup = why]
<1>1. job' = [job EXCEPT ![r] = j]
  BY <1>a, Zenon DEF CloseAndAbort
<1>2. j \in Job
  BY <1>0, <1>b, JobTyped, Constants, Zenon DEF Job
<1>3. /\ j.op = job[r].op /\ j.path = job[r].path /\ j.to = job[r].to
      /\ j.badclose = job[r].badclose /\ j.cutshort = job[r].cutshort /\ j.pc = "answered" /\ j.gaveup = why
  BY <1>0, JobTyped DEF Job
<1> HIDE DEF j
<1>4. Honest(j)
  <2>1. j.op \in MayGiveUp[why]
    BY <1>a, <1>3 DEF CloseAndAbort
  <2> QED
    BY <1>3, <2>1 DEF Honest, Excused
<1>5. Turn(r, j)
  BY <1>0, <1>b, <1>1, <1>2, <1>3, <1>4, SameTree, QuietTurn
<1> QED
  BY <1>5

\* open and create.
LEMMA OpenTurns ==
  ASSUME TInv, DInv, NEW r \in Requests, ServeDir_op_open(r) \/ ServeDir_op_create(r)
  PROVE  \E j : Turn(r, j)
BY OpenTurn, CloseTurn, Zenon DEF ServeDir_op_open, ServeDir_op_create, Serving

\* read.
LEMMA ReadTurns ==
  ASSUME TInv, DInv, NEW r \in Requests, ServeDir_op_read(r)
  PROVE  \E j : Turn(r, j)
<1>0. TypeOK /\ job[r].op = "READ"
  BY Ready DEF ServeDir_op_read, Serving
<1>a. CASE Serving(r, "READ") /\ OpenFile(r, {}, "open")
  BY <1>0, <1>a, OpenTurn DEF Serving
<1>b. CASE CloseAborts(r)
  BY <1>b, CloseAbortTurn
<1>c. CASE /\ job' = [job EXCEPT
                ![r].pc = "used",
                ![r].err = IF File(r) = None THEN Errno_from_local("BADF")
                           ELSE IF File(r) # Outside /\ tree.attr[File(r)].kind = "dir"
                                THEN "ISDIR" ELSE "NONE"]
           /\ UNCHANGED <<tree, fds, undefined>>
  <2>a. PICK n \in Errno :
          n = IF File(r) = None THEN Errno_from_local("BADF")
              ELSE IF File(r) # Outside /\ tree.attr[File(r)].kind = "dir"
                   THEN "ISDIR" ELSE "NONE"
    BY ErrnoIs, Constants
  <2> DEFINE j == [job[r] EXCEPT !.pc = "used", !.err = n]
  <2>1. job' = [job EXCEPT ![r] = j]
    BY <1>c, <2>a, Zenon
  <2>2. j \in Job
    BY <1>0, JobTyped, Constants, Zenon DEF Job
  <2>3. /\ j.op = job[r].op /\ j.path = job[r].path /\ j.to = job[r].to
        /\ j.badclose = job[r].badclose /\ j.cutshort = job[r].cutshort /\ j.pc = "used"
    BY <1>0, JobTyped DEF Job
  <2> HIDE DEF j
  <2>4. Honest(j)
    BY <1>0, <2>3 DEF Honest
  <2>5. Turn(r, j)
    BY <1>0, <1>c, <2>1, <2>2, <2>3, <2>4, SameTree, QuietTurn
  <2> QED
    BY <2>5
<1>d. CASE /\ job' = [job EXCEPT ![r].pc = "answered", ![r].fd = 0,
                                 ![r].done = (job[r].err = "NONE")]
           /\ UNCHANGED <<tree, undefined>>
  <2>a. PICK d \in BOOLEAN : d = (job[r].err = "NONE")
    BY Zenon
  <2> DEFINE j == [job[r] EXCEPT !.pc = "answered", !.fd = 0, !.done = d]
  <2>1. job' = [job EXCEPT ![r] = j]
    BY <1>d, <2>a, Zenon
  <2>2. j \in Job
    BY <1>0, JobTyped, Constants, Zenon DEF Job
  <2>3. /\ j.op = job[r].op /\ j.path = job[r].path /\ j.to = job[r].to
        /\ j.badclose = job[r].badclose /\ j.cutshort = job[r].cutshort /\ j.err = job[r].err
        /\ j.pc = "answered" /\ j.done = d
    BY <1>0, JobTyped DEF Job
  <2> HIDE DEF j
  <2>4. Honest(j)
    BY <1>0, <2>a, <2>3, Zenon DEF Honest
  <2>5. Turn(r, j)
    BY <1>0, <1>d, <2>1, <2>2, <2>3, <2>4, SameTree, QuietTurn
  <2> QED
    BY <2>5
<1> QED
  BY <1>a, <1>b, <1>c, <1>d, Zenon DEF ServeDir_op_read, CloseAborts, Reasons

\* write: pwrite.
LEMMA PwriteTurn ==
  ASSUME TInv, NEW r \in Requests, job[r].op = "WRITE",
         job[r].pc = "open", Pwrite(r), UNCHANGED undefined
  PROVE  \E j : Turn(r, j)
<1>0. TypeOK /\ undefined' \in BOOLEAN /\ WellFormed(tree)
  BY Ready
<1>a. CASE Follows(tree, r, tree') /\ job' = [job EXCEPT ![r].pc = "used", ![r].done = TRUE]
  <2> DEFINE j == [job[r] EXCEPT !.pc = "used", !.done = TRUE]
  <2>1. job' = [job EXCEPT ![r] = j]
    BY <1>a, Zenon
  <2>2. j \in Job
    BY <1>0, JobTyped, Constants, Zenon DEF Job
  <2>3. /\ j.op = job[r].op /\ j.path = job[r].path /\ j.to = job[r].to
        /\ j.badclose = job[r].badclose /\ j.cutshort = job[r].cutshort /\ j.pc = "used" /\ j.done = TRUE
    BY <1>0, JobTyped DEF Job
  <2> HIDE DEF j
  <2>4. Honest(j)
    BY <1>0, <2>3, Zenon DEF Honest
  <2>5. Turn(r, j)
    BY <1>0, <1>a, <2>1, <2>2, <2>3, <2>4, QuietTurn
  <2> QED
    BY <2>5
<1>b. CASE /\ tree' = tree
           /\ job' = [job EXCEPT ![r].pc = "used",
                                 ![r].err = IF File(r) = None
                                            THEN Errno_from_local("BADF") ELSE "NOSPC"]
  <2>a. PICK n \in Errno : /\ n = IF File(r) = None THEN Errno_from_local("BADF") ELSE "NOSPC"
                           /\ n # "NONE"
    BY ErrnoIs, Constants
  <2> DEFINE j == [job[r] EXCEPT !.pc = "used", !.err = n]
  <2>1. job' = [job EXCEPT ![r] = j]
    BY <1>b, <2>a, Zenon
  <2>2. j \in Job
    BY <1>0, JobTyped, Constants, Zenon DEF Job
  <2>3. /\ j.op = job[r].op /\ j.path = job[r].path /\ j.to = job[r].to
        /\ j.badclose = job[r].badclose /\ j.cutshort = job[r].cutshort /\ j.pc = "used" /\ j.err = n
    BY <1>0, JobTyped DEF Job
  <2> HIDE DEF j
  <2>4. Honest(j)
    BY <1>0, <2>a, <2>3 DEF Honest
  <2>5. Turn(r, j)
    BY <1>0, <1>b, <2>1, <2>2, <2>3, <2>4, SameTree, QuietTurn
  <2> QED
    BY <2>5
<1>c. ASSUME File(r) \notin {None, Outside}, tree' = Changed(tree, File(r), r)
      PROVE  Follows(tree, r, tree')
  <2>1. File(r) \in Inodes
    <3>1. fds[job[r].fd] # 0 /\ File(r) = job[fds[job[r].fd]].ino
      BY <1>c DEF File
    <3>2. job[r].fd \in FDs
      BY DEF TInv, Opened
    <3>3. fds[job[r].fd] \in Requests
      BY <1>0, <3>1, <3>2 DEF TypeOK
    <3> QED
      BY <1>0, <1>c, <3>1, <3>3, JobTyped, FieldTypes
  <2> QED
    BY <1>0, <1>c, <2>1, TameTouch
<1>d. tree' = tree => Follows(tree, r, tree')
  BY <1>0, SameTree
<1> QED
  BY <1>a, <1>b, <1>c, <1>d, Zenon DEF Pwrite

\* write.
LEMMA WriteTurns ==
  ASSUME TInv, DInv, NEW r \in Requests, ServeDir_op_write(r)
  PROVE  \E j : Turn(r, j)
<1>0. TypeOK /\ job[r].op = "WRITE" /\ undefined \in BOOLEAN /\ Honest(job[r])
  BY Ready DEF ServeDir_op_write, Serving, TInv
<1>a. CASE Serving(r, "WRITE") /\ OpenFile(r, {"creat", "write"}, "open")
  BY <1>0, <1>a, OpenTurn DEF Serving
<1>b. CASE CloseAborts(r)
  BY <1>b, CloseAbortTurn
<1>c. CASE job[r].pc = "open" /\ Pwrite(r) /\ UNCHANGED <<fds, undefined>>
  BY <1>0, <1>c, PwriteTurn
<1>d. CASE /\ job[r].pc = "used" /\ UNCHANGED <<tree, undefined>>
           /\ job' = [job EXCEPT ![r].pc = "closed", ![r].fd = 0]
  <2> DEFINE j == [job[r] EXCEPT !.pc = "closed", !.fd = 0]
  <2>1. job' = [job EXCEPT ![r] = j]
    BY <1>d, Zenon
  <2>2. j \in Job
    BY <1>0, JobTyped, Constants, Zenon DEF Job
  <2>3. /\ j.op = job[r].op /\ j.path = job[r].path /\ j.to = job[r].to
        /\ j.badclose = job[r].badclose /\ j.cutshort = job[r].cutshort /\ j.err = job[r].err
        /\ j.done = job[r].done /\ j.pc = "closed"
    BY <1>0, JobTyped DEF Job
  <2> HIDE DEF j
  <2>4. Honest(j)
    BY <1>0, <1>d, <2>3, Zenon DEF Honest
  <2>5. Turn(r, j)
    BY <1>0, <1>d, <2>1, <2>2, <2>3, <2>4, SameTree, QuietTurn
  <2> QED
    BY <2>5
<1>e. CASE /\ job[r].pc = "used" /\ UNCHANGED <<tree, undefined>>
           /\ job' = [job EXCEPT ![r].pc = "reclose", ![r].badclose = TRUE,
                                 ![r].done = FALSE]
  <2> DEFINE j == [job[r] EXCEPT !.pc = "reclose", !.badclose = TRUE, !.done = FALSE]
  <2>1. job' = [job EXCEPT ![r] = j]
    BY <1>e, Zenon
  <2>2. j \in Job
    BY <1>0, JobTyped, Constants, Zenon DEF Job
  <2>3. /\ j.op = job[r].op /\ j.path = job[r].path /\ j.to = job[r].to
        /\ j.cutshort = job[r].cutshort /\ j.pc = "reclose" /\ j.badclose = TRUE
    BY <1>0, JobTyped DEF Job
  <2> HIDE DEF j
  <2>4. Honest(j)
    BY <1>0, <1>e, <2>3, Zenon DEF Honest
  <2>5. Turn(r, j)
    BY <1>0, <1>e, <2>1, <2>2, <2>3, <2>4, SameTree, QuietTurn
  <2> QED
    BY <2>5
<1>f. CASE /\ job[r].pc = "reclose" /\ UNCHANGED <<tree, undefined>>
           /\ job' = [job EXCEPT ![r].pc = "answered", ![r].fd = 0]
  <2> DEFINE j == [job[r] EXCEPT !.pc = "answered", !.fd = 0]
  <2>1. job' = [job EXCEPT ![r] = j]
    BY <1>f, Zenon
  <2>2. j \in Job
    BY <1>0, JobTyped, Constants, Zenon DEF Job
  <2>3. /\ j.op = job[r].op /\ j.path = job[r].path /\ j.to = job[r].to
        /\ j.badclose = job[r].badclose /\ j.cutshort = job[r].cutshort /\ j.err = job[r].err
        /\ j.done = job[r].done /\ j.pc = "answered"
    BY <1>0, JobTyped DEF Job
  <2> HIDE DEF j
  <2>4. Honest(j)
    BY <1>0, <1>f, <2>3, Zenon DEF Honest, Excused
  <2>5. Turn(r, j)
    BY <1>0, <1>f, <2>1, <2>2, <2>3, <2>4, SameTree, QuietTurn
  <2> QED
    BY <2>5
<1>g. CASE /\ job[r].pc = "closed" /\ UNCHANGED undefined
           /\ \E o \in Update(tree, job[r].path, r) \cup Refused(tree) : tree' = o.tree
           /\ job' = [job EXCEPT ![r].pc = "answered"]
  <2>a. Follows(tree, r, tree')
    <3>1. Tame(tree, r, Update(tree, job[r].path, r))
      BY Ready, TameCalls
    <3>2. Tame(tree, r, Update(tree, job[r].path, r) \cup Refused(tree))
      BY <3>1, Ready, NoChange, Zenon DEF Refused
    <3> QED
      BY <1>g, <3>2 DEF Tame
  <2> DEFINE j == [job[r] EXCEPT !.pc = "answered"]
  <2>1. job' = [job EXCEPT ![r] = j]
    BY <1>g, Zenon
  <2>2. j \in Job
    BY <1>0, JobTyped, Constants, Zenon DEF Job
  <2>3. /\ j.op = job[r].op /\ j.path = job[r].path /\ j.to = job[r].to
        /\ j.badclose = job[r].badclose /\ j.cutshort = job[r].cutshort /\ j.err = job[r].err
        /\ j.done = job[r].done /\ j.pc = "answered"
    BY <1>0, JobTyped DEF Job
  <2> HIDE DEF j
  <2>4. Honest(j)
    BY <1>0, <1>g, <2>3, Zenon DEF Honest
  <2>5. Turn(r, j)
    BY <1>0, <1>g, <2>a, <2>1, <2>2, <2>3, <2>4, QuietTurn
  <2> QED
    BY <2>5
<1> QED
  BY <1>a, <1>b, <1>c, <1>d, <1>e, <1>f, <1>g, Zenon
  DEF ServeDir_op_write, CloseAborts, Reasons

\* readdir: opendir.
LEMMA OpendirTurn ==
  ASSUME TInv, DInv, NEW r \in Requests, Opendir(r)
  PROVE  \E j : Turn(r, j)
<1>0. /\ TypeOK /\ job[r].op = "READDIR" /\ job[r].pc = "begin"
      /\ UNCHANGED <<tree, undefined>>
  BY Ready DEF Opendir, Serving
<1> DEFINE S == IF IsDir(tree, job[r].path) THEN Succeeds(tree) ELSE Fails("NOTDIR", tree)
<1>a. PICK o \in Found(tree, job[r].path, S) \cup Refused(tree) :
        \/ /\ o.err # "NONE"
           /\ Answer(r, o.err)
        \/ /\ o.err = "NONE"
           /\ job' = [job EXCEPT ![r].pc = "count", ![r].fd = FreeFd,
                                 ![r].ino = tree.at[job[r].path]]
  BY Zenon DEF Opendir
<1>b. CASE o.err # "NONE" /\ Answer(r, o.err)
  BY <1>0, <1>b, SameTree, AnswerTurn
<1>c. CASE /\ o.err = "NONE"
           /\ job' = [job EXCEPT ![r].pc = "count", ![r].fd = FreeFd,
                                 ![r].ino = tree.at[job[r].path]]
  <2>a. Exists(tree, job[r].path)
    <3>1. o \in Found(tree, job[r].path, S)
      BY <1>c DEF Refused, Fails
    <3>2. ASSUME ~Exists(tree, job[r].path) PROVE FALSE
      <4>1. Walk(tree, job[r].path) # "NONE" => o.err = Walk(tree, job[r].path)
        BY <3>1 DEF Found, Fails
      <4>2. Walk(tree, job[r].path) = "NONE" => o.err = "NOENT"
        BY <3>1, <3>2 DEF Found, Fails
      <4> QED
        BY <1>c, <4>1, <4>2
    <3> QED
      BY <3>2
  <2>b. PICK i \in Inodes : i = tree.at[job[r].path]
    BY <2>a, Ready, InodeAt
  <2>c. PICK n \in {0} \cup FDs : n = FreeFd
    BY <1>0, FreeFdIsFree
  <2>d. i \in Inodes \cup {Outside}
    OBVIOUS
  <2> DEFINE j == [job[r] EXCEPT !.pc = "count", !.fd = n, !.ino = i]
  <2>1. job' = [job EXCEPT ![r] = j]
    BY <1>c, <2>b, <2>c, Zenon
  <2>2. j \in Job
    BY <1>0, <2>d, JobTyped, Constants, ZenonT(60) DEF Job
  <2>3. /\ j.op = job[r].op /\ j.path = job[r].path /\ j.to = job[r].to
        /\ j.badclose = job[r].badclose /\ j.cutshort = job[r].cutshort /\ j.pc = "count" /\ j.ino = i
    BY <1>0, JobTyped DEF Job
  <2> HIDE DEF j
  <2>4. Honest(j) /\ Proper(j)
    BY <2>3, <1>0 DEF Honest, Proper, Named, OnTwoPaths
  <2>5. Turn(r, j)
    BY <1>0, <2>1, <2>2, <2>3, <2>4, SameTree DEF Turn
  <2> QED
    BY <2>5
<1> QED
  BY <1>a, <1>b, <1>c

\* readdir: the first pass.
LEMMA CountTurn ==
  ASSUME TInv, NEW r \in Requests, CountEntries(r)
  PROVE  \E j : Turn(r, j)
<1>0. /\ TypeOK /\ job[r].op = "READDIR" /\ job[r].pc = "count"
      /\ UNCHANGED <<tree, undefined>>
  BY Ready DEF CountEntries
<1>a. CASE job' = [job EXCEPT ![r].pc = "rewind", ![r].count = Cardinality(Listed(r)) + 2]
  <2>a. PICK n \in Nat : n = Cardinality(Listed(r)) + 2
    <3>1. Listed(r) \subseteq Names
      BY DEF Listed, NamesIn
    <3>2. IsFiniteSet(Listed(r))
      BY <3>1, TreeAssumption, FS_Subset
    <3>3. Cardinality(Listed(r)) \in Nat
      BY <3>2, FS_CardinalityType
    <3> QED
      BY <3>3
  <2> DEFINE j == [job[r] EXCEPT !.pc = "rewind", !.count = n]
  <2>1. job' = [job EXCEPT ![r] = j]
    BY <1>a, <2>a, Zenon
  <2>2. j \in Job
    BY <1>0, JobTyped, Constants, Zenon DEF Job
  <2>3. /\ j.op = job[r].op /\ j.path = job[r].path /\ j.to = job[r].to
        /\ j.badclose = job[r].badclose /\ j.cutshort = job[r].cutshort /\ j.ino = job[r].ino /\ j.pc = "rewind"
    BY <1>0, JobTyped DEF Job
  <2> HIDE DEF j
  <2>4. Honest(j) /\ Proper(j)
    BY <2>3, <1>0 DEF Honest, Proper, Named, OnTwoPaths
  <2>5. j.ino \in Inodes
    BY <1>0, <2>3 DEF TInv, Watched, Reading
  <2>6. Turn(r, j)
    BY <1>0, <2>1, <2>2, <2>3, <2>4, <2>5, SameTree DEF Turn
  <2> QED
    BY <2>6
<1>b. CASE job' = [job EXCEPT ![r].pc = "answered", ![r].fd = 0, ![r].err = "NOMEM",
                              ![r].gaveup = "memory"]
  <2> DEFINE j == [job[r] EXCEPT !.pc = "answered", !.fd = 0, !.err = "NOMEM",
                                 !.gaveup = "memory"]
  <2>1. job' = [job EXCEPT ![r] = j]
    BY <1>b, Zenon
  <2>2. j \in Job
    BY <1>0, JobTyped, Constants, Memory, ZenonT(60) DEF Job
  <2>3. /\ j.op = job[r].op /\ j.path = job[r].path /\ j.to = job[r].to
        /\ j.badclose = job[r].badclose /\ j.cutshort = job[r].cutshort /\ j.pc = "answered" /\ j.err = "NOMEM"
        /\ j.gaveup = "memory"
    BY <1>0, JobTyped DEF Job
  <2> HIDE DEF j
  <2>4. Honest(j)
    BY <1>0, <2>3, Zenon DEF Honest
  <2>5. Turn(r, j)
    BY <1>0, <1>b, <2>1, <2>2, <2>3, <2>4, SameTree, QuietTurn
  <2> QED
    BY <2>5
<1>c. CASE job' = [job EXCEPT ![r].pc = "rewind", ![r].cutshort = TRUE]
  <2> DEFINE j == [job[r] EXCEPT !.pc = "rewind", !.cutshort = TRUE]
  <2>1. job' = [job EXCEPT ![r] = j]
    BY <1>c, Zenon
  <2>2. j \in Job
    BY <1>0, JobTyped, Constants, Zenon DEF Job
  <2>3. /\ j.op = job[r].op /\ j.path = job[r].path /\ j.to = job[r].to
        /\ j.badclose = job[r].badclose /\ j.ino = job[r].ino /\ j.pc = "rewind"
    BY <1>0, JobTyped DEF Job
  <2>4. j.cutshort = TRUE
    BY <1>0, JobTyped DEF Job
  <2> HIDE DEF j
  <2>5. Honest(j) /\ Proper(j)
    BY <2>3, <1>0 DEF Honest, Proper, Named, OnTwoPaths
  <2>6. j.ino \in Inodes
    BY <1>0, <2>3 DEF TInv, Watched, Reading
  <2>7. Turn(r, j)
    BY <1>0, <2>1, <2>2, <2>3, <2>4, <2>5, <2>6, SameTree DEF Turn
  <2> QED
    BY <2>7
<1> QED
  BY <1>a, <1>b, <1>c, Zenon DEF CountEntries

\* readdir: rewinddir, and the second pass is read.
LEMMA RewindTurn ==
  ASSUME TInv, NEW r \in Requests, Rewinddir(r)
  PROVE  \E j : Turn(r, j)
<1>0. TypeOK /\ job[r].op = "READDIR" /\ job[r].pc = "rewind"
  BY Ready DEF Rewinddir
<1>a. CASE CloseAborts(r)
  BY <1>a, CloseAbortTurn
<1>b. CASE /\ job' = [job EXCEPT
                ![r].pc = "fill",
                ![r].left = Listed(r),
                ![r].used = IF IsDir(tree, job[r].path) THEN 2 ELSE 0,
                ![r].err = IF IsDir(tree, job[r].path) THEN "NONE"
                           ELSE IF Exists(tree, job[r].path) THEN "NOTDIR"
                           ELSE "NOENT"]
           /\ undefined' = ((IF IsDir(tree, job[r].path) THEN 2 ELSE 0) > job[r].count)
           /\ UNCHANGED <<tree, fds>>
  <2>0. Follows(tree, r, tree') /\ undefined' \in BOOLEAN
    BY <1>0, <1>b DEF TypeOK, Follows
  <2>a. PICK L \in SUBSET Names : L = Listed(r)
    BY DEF Listed, NamesIn
  <2>b. PICK u \in Nat : u = IF IsDir(tree, job[r].path) THEN 2 ELSE 0
    OBVIOUS
  <2>c. PICK e \in Errno : e = IF IsDir(tree, job[r].path) THEN "NONE"
                               ELSE IF Exists(tree, job[r].path) THEN "NOTDIR"
                               ELSE "NOENT"
    BY Constants
  <2> DEFINE j == [job[r] EXCEPT !.pc = "fill", !.left = L, !.used = u, !.err = e]
  <2>1. job' = [job EXCEPT ![r] = j]
    BY <1>b, <2>a, <2>b, <2>c, Zenon
  <2>2. j \in Job
    BY <1>0, JobTyped, Constants, Zenon DEF Job
  <2>3. /\ j.op = job[r].op /\ j.path = job[r].path /\ j.to = job[r].to
        /\ j.badclose = job[r].badclose /\ j.cutshort = job[r].cutshort /\ j.ino = job[r].ino /\ j.pc = "fill"
        /\ j.left = L
    BY <1>0, JobTyped DEF Job
  <2> HIDE DEF j
  <2>4. Honest(j) /\ Proper(j)
    BY <2>3, <1>0 DEF Honest, Proper, Named, OnTwoPaths
  <2>5. j.ino \in Inodes
    BY <1>0, <2>3 DEF TInv, Watched, Reading
  <2>6. Turn(r, j)
    BY <1>0, <1>b, <2>0, <2>a, <2>1, <2>2, <2>3, <2>4, <2>5 DEF Turn
  <2> QED
    BY <2>6
<1>c. CASE /\ job' = [job EXCEPT ![r].pc = "fill", ![r].cutshort = TRUE]
           /\ UNCHANGED <<tree, fds, undefined>>
  <2> DEFINE j == [job[r] EXCEPT !.pc = "fill", !.cutshort = TRUE]
  <2>1. job' = [job EXCEPT ![r] = j]
    BY <1>c, Zenon
  <2>2. j \in Job
    BY <1>0, JobTyped, Constants, Zenon DEF Job
  <2>3. /\ j.op = job[r].op /\ j.path = job[r].path /\ j.to = job[r].to
        /\ j.badclose = job[r].badclose /\ j.ino = job[r].ino /\ j.pc = "fill"
    BY <1>0, JobTyped DEF Job
  <2>4. j.cutshort = TRUE
    BY <1>0, JobTyped DEF Job
  <2> HIDE DEF j
  <2>5. Honest(j) /\ Proper(j)
    BY <2>3, <1>0 DEF Honest, Proper, Named, OnTwoPaths
  <2>6. j.ino \in Inodes
    BY <1>0, <2>3 DEF TInv, Watched, Reading
  <2>7. Turn(r, j)
    BY <1>0, <1>c, <2>1, <2>2, <2>3, <2>4, <2>5, <2>6, SameTree DEF Turn
  <2> QED
    BY <2>7
<1> QED
  BY <1>a, <1>b, <1>c, Zenon DEF Rewinddir, CloseAborts, Reasons

\* readdir: one entry.
LEMMA FillTurn ==
  ASSUME TInv, NEW r \in Requests, NEW n \in Names, FillEntry(r, n)
  PROVE  \E j : Turn(r, j)
<1>0. TypeOK /\ job[r].op = "READDIR" /\ job[r].pc = "fill" /\ n \in job[r].left
  BY Ready DEF FillEntry
<1> DEFINE p == Append(job[r].path, n)
<1>a. PICK o \in Look(tree, p) \cup Refused(tree) :
        \/ /\ o.err = "NONE"
           /\ job' = [job EXCEPT ![r].left = @ \ {n},
                                 ![r].used = @ + 1,
                                 ![r].entries = [m \in DOMAIN @ \cup {n} |->
                                    IF m = n THEN Lstat(tree, p) ELSE @[m]]]
           /\ undefined' = (job[r].used >= job[r].count)
        \/ /\ o.err # "NONE"
           /\ job' = [job EXCEPT ![r].left = @ \ {n},
                                 ![r].err = Errno_from_local(o.err)]
           /\ UNCHANGED undefined
  BY Zenon DEF FillEntry
<1>b. Follows(tree, r, tree')
  BY <1>0, SameTree DEF FillEntry, TypeOK, Follows
<1>c. /\ job[r].left \in SUBSET Names /\ job[r].used \in Nat /\ job[r].entries \in Entries
      /\ job[r].ino \in Inodes
  BY <1>0, JobTyped, FieldTypes DEF TInv, Watched, Reading
<1>d. PICK L \in SUBSET Names : L = job[r].left \ {n}
  BY <1>c
<1>e. CASE /\ o.err = "NONE"
           /\ job' = [job EXCEPT ![r].left = @ \ {n},
                                 ![r].used = @ + 1,
                                 ![r].entries = [m \in DOMAIN @ \cup {n} |->
                                    IF m = n THEN Lstat(tree, p) ELSE @[m]]]
           /\ undefined' = (job[r].used >= job[r].count)
  <2>a. PICK u \in Nat : u = job[r].used + 1
    BY <1>c
  <2>b. PICK x \in Attr : x = Lstat(tree, p)
    <3>1. o \in Look(tree, p)
      BY <1>e DEF Refused, Fails
    <3>2. Walk(tree, p) # "NONE" => o.err = Walk(tree, p)
      BY <3>1 DEF Look, Found, Fails
    <3>3. Walk(tree, p) = "NONE" /\ ~Exists(tree, p) => o.err = "NOENT"
      BY <3>1 DEF Look, Found, Fails
    <3> QED
      BY <1>e, <3>2, <3>3, Ready, LstatIs
  <2>c. PICK E : E = [m \in DOMAIN job[r].entries \cup {n} |->
                        IF m = n THEN x ELSE job[r].entries[m]]
    OBVIOUS
  <2>d. E \in Entries /\ DOMAIN E = DOMAIN job[r].entries \cup {n}
    <3>1. PICK S \in SUBSET Names : job[r].entries \in [S -> Attr]
      BY <1>c DEF Entries
    <3>2. E \in [S \cup {n} -> Attr] /\ S \cup {n} \in SUBSET Names
      BY <2>c, <3>1
    <3> QED
      BY <2>c, <3>2 DEF Entries
  <2>e. job[r] \in Job /\ L \in SUBSET Names /\ u \in Nat /\ E \in Entries
    BY <1>0, <2>d, JobTyped
  <2> DEFINE j == [job[r] EXCEPT !.left = L, !.used = u, !.entries = E]
  <2>1. job' = [job EXCEPT ![r] = j]
    BY <1>d, <1>e, <2>a, <2>b, <2>c, Zenon
  <2>2. j \in Job
    BY <2>e, Zenon DEF Job
  <2>3. /\ j.op = job[r].op /\ j.path = job[r].path /\ j.to = job[r].to
        /\ j.badclose = job[r].badclose /\ j.cutshort = job[r].cutshort /\ j.pc = job[r].pc /\ j.ino = job[r].ino
        /\ j.err = job[r].err /\ j.gaveup = job[r].gaveup /\ j.done = job[r].done
        /\ j.left = L /\ j.entries = E
    BY <1>0, JobTyped DEF Job
  <2> HIDE DEF j
  <2>4. Honest(j) /\ Proper(j)
    BY <2>3, <1>0 DEF Honest, Proper, Named, OnTwoPaths
  <2>5. job[r].left \cup DOMAIN job[r].entries \subseteq j.left \cup DOMAIN j.entries
    BY <1>d, <2>d, <2>3
  <2>6. undefined' \in BOOLEAN
    BY <1>e
  <2>7. Turn(r, j)
    BY <1>0, <1>b, <1>c, <2>1, <2>2, <2>3, <2>4, <2>5, <2>6 DEF Turn
  <2> QED
    BY <2>7
<1>f. CASE /\ o.err # "NONE"
           /\ job' = [job EXCEPT ![r].left = @ \ {n},
                                 ![r].err = Errno_from_local(o.err)]
           /\ UNCHANGED undefined
  <2>a. PICK e \in Errno : e = Errno_from_local(o.err) /\ e # "NONE"
    BY <1>f, ErrnoIs
  <2>e. job[r] \in Job /\ L \in SUBSET Names /\ e \in Errno
    BY <1>0, <2>a, JobTyped
  <2> DEFINE j == [job[r] EXCEPT !.left = L, !.err = e]
  <2>1. job' = [job EXCEPT ![r] = j]
    BY <1>d, <1>f, <2>a, Zenon
  <2>2. j \in Job
    BY <2>e, Zenon DEF Job
  <2>3. /\ j.op = job[r].op /\ j.path = job[r].path /\ j.to = job[r].to
        /\ j.badclose = job[r].badclose /\ j.cutshort = job[r].cutshort /\ j.pc = job[r].pc /\ j.ino = job[r].ino
        /\ j.err = e
    BY <1>0, JobTyped DEF Job
  <2> HIDE DEF j
  <2>4. Honest(j) /\ Proper(j)
    BY <2>3, <1>0 DEF Honest, Proper, Named, OnTwoPaths
  <2>5. undefined' \in BOOLEAN
    BY <1>f, Ready
  <2>6. Turn(r, j)
    BY <1>0, <1>b, <1>c, <2>a, <2>1, <2>2, <2>3, <2>4, <2>5 DEF Turn
  <2> QED
    BY <2>6
<1> QED
  BY <1>a, <1>e, <1>f

\* readdir: the end of a listing, without memory or not.
LEMMA EndTurns ==
  ASSUME TInv, NEW r \in Requests, FillFails(r) \/ EndListing(r)
  PROVE  \E j : Turn(r, j)
<1>0. TypeOK /\ job[r].op = "READDIR" /\ job[r].pc = "fill"
  BY Ready DEF FillFails, EndListing
<1>b. Follows(tree, r, tree')
  BY <1>0 DEF FillFails, EndListing, TypeOK, Follows
<1>c. CASE FillFails(r)
  <2>a. PICK why \in {"memory", "groups"} :
          job' = [job EXCEPT ![r].pc = "answered", ![r].fd = 0, ![r].gaveup = why]
    BY <1>c, Zenon DEF FillFails
  <2>b. why \in Reasons \cup {"no"} /\ why # "no" /\ why \in Reasons
    BY DEF Reasons
  <2>c. "READDIR" \in MayGiveUp[why]
    BY DEF MayGiveUp
  <2> DEFINE j == [job[r] EXCEPT !.pc = "answered", !.fd = 0, !.gaveup = why]
  <2>1. job' = [job EXCEPT ![r] = j]
    BY <2>a, Zenon
  <2>2. j \in Job
    BY <1>0, <2>b, JobTyped, Constants, ZenonT(60) DEF Job
  <2>3. /\ j.op = job[r].op /\ j.path = job[r].path /\ j.to = job[r].to
        /\ j.badclose = job[r].badclose /\ j.cutshort = job[r].cutshort /\ j.pc = "answered" /\ j.gaveup = why
    BY <1>0, JobTyped DEF Job
  <2> HIDE DEF j
  <2>4. Honest(j)
    BY <1>0, <2>b, <2>c, <2>3 DEF Honest, Excused
  <2>5. undefined' \in BOOLEAN
    BY <1>c, Zenon DEF FillFails
  <2>6. Turn(r, j)
    BY <1>0, <1>b, <2>b, <2>1, <2>2, <2>3, <2>4, <2>5, QuietTurn
  <2> QED
    BY <2>6
<1>d. CASE EndListing(r)
  <2> DEFINE j == [job[r] EXCEPT !.pc = "answered", !.fd = 0, !.done = TRUE]
  <2>1. job' = [job EXCEPT ![r] = j]
    BY <1>d, Zenon DEF EndListing
  <2>2. j \in Job
    BY <1>0, JobTyped, Constants, Zenon DEF Job
  <2>3. /\ j.op = job[r].op /\ j.path = job[r].path /\ j.to = job[r].to
        /\ j.badclose = job[r].badclose /\ j.cutshort = job[r].cutshort /\ j.err = job[r].err
        /\ j.entries = job[r].entries /\ j.pc = "answered" /\ j.done = TRUE
    BY <1>0, JobTyped DEF Job
  <2> HIDE DEF j
  <2>4. Honest(j) /\ Proper(j)
    BY <2>3, <1>0 DEF Honest, Proper, Named, OnTwoPaths
  <2>5. undefined' \in BOOLEAN /\ job[r].left = {}
    BY <1>d, Ready DEF EndListing
  <2>6. ~Reading(j)
    BY <2>3 DEF Reading
  <2>7. Turn(r, j)
    BY <1>0, <1>b, <2>1, <2>2, <2>3, <2>4, <2>5, <2>6 DEF Turn
  <2> QED
    BY <2>7
<1> QED
  BY <1>c, <1>d

\* Every step of a handler is a turn.
LEMMA EveryTurn ==
  ASSUME TInv, DInv, NEW r \in Requests, Receive(r) \/ Handler(r)
  PROVE  \E j : Turn(r, j)
<1>1. ASSUME ServeDir_op_readdir(r) PROVE \E j : Turn(r, j)
  BY <1>1, OpendirTurn, CountTurn, RewindTurn, FillTurn, EndTurns DEF ServeDir_op_readdir
<1> QED
  BY <1>1, ReceiveTurn, BareTurns, GetattrTurn, OpenTurns, ReadTurns, WriteTurns DEF Handler

\* What a turn makes of the names that are watched.
LEMMA WatchIs ==
  ASSUME Watch, NEW s \in Requests
  PROVE  stay'[s] = IF job'[s].op # "READDIR" \/ job'[s].pc \in {"none", "queued", "answered"}
                    THEN stay[s]
                    ELSE IF job[s].pc = "begin" THEN NamesIn(tree', job'[s].ino)
                    ELSE stay[s] \cap NamesIn(tree', job'[s].ino)
BY DEF Watch, Running

\* The descriptor of a listing is that of its directory as long as no close has failed.
LEMMA OwnListing ==
  ASSUME TInv, DInv, NEW r \in Requests, Sane, Reading(job[r])
  PROVE  Listed(r) = NamesIn(tree, job[r].ino)
<1>1. job[r].fd \in FDs /\ job[r].ino \in Inodes
  BY DEF TInv, Watched, Reading, Opened
<1>2. 0 \notin FDs /\ 0 \notin Requests /\ None \notin Inodes /\ 0 \notin Inodes
  <2>1. 0 \notin FDs /\ 0 \notin Requests
    BY DEF FDs, Requests
  <2> QED
    BY <2>1, TreeAssumption DEF Inodes, Requests
<1>3. fds[job[r].fd] = r
  BY <1>1, <1>2 DEF DInv, DescriptorOwned, Sane
<1>4. File(r) = job[r].ino
  BY <1>2, <1>3 DEF File
<1> QED
  BY <1>1, <1>2, <1>4 DEF Listed, Outside

-----------------------------------------------------------------------------
(* Types, answers and listings are preserved.                              *)

\* The jobs after a turn.
LEMMA JobsAfter ==
  ASSUME TypeOK, NEW r \in Requests, NEW j, Turn(r, j)
  PROVE  /\ job' \in [Requests -> Job] /\ job'[r] = j
         /\ \A s \in Requests \ {r} : job'[s] = job[s]
<1>1. job \in [Requests -> Job]
  BY DEF TypeOK
<1>2. j \in Job /\ job' = [job EXCEPT ![r] = j]
  BY DEF Turn
<1> QED
  BY <1>1, <1>2

LEMMA NamesAreNames ==
  ASSUME NEW t, NEW i
  PROVE  NamesIn(t, i) \in SUBSET Names
BY DEF NamesIn

\* Only the close of write reports that a close has failed, and for good.
LEMMA SaneBefore ==
  ASSUME TypeOK, NEW r \in Requests, NEW j, Turn(r, j), Sane'
  PROVE  Sane
<1>1. job'[r] = j /\ \A s \in Requests \ {r} : job'[s] = job[s]
  BY JobsAfter
<1>2. job[r].badclose => j.badclose
  BY DEF Turn
<1>3. \A s \in Requests : ~job'[s].badclose
  BY DEF Sane
<1> QED
  BY <1>1, <1>2, <1>3 DEF Sane

LEMMA NamesWatched ==
  ASSUME TypeOK, Watch
  PROVE  stay' \in [Requests -> SUBSET Names]
<1>1. \A s \in Requests : stay'[s] \in SUBSET Names
  <2> TAKE s \in Requests
  <2>1. stay[s] \in SUBSET Names
    BY DEF TypeOK
  <2>2. PICK N \in SUBSET Names : N = NamesIn(tree', job'[s].ino)
    BY NamesAreNames
  <2>3. stay'[s] \in {stay[s], N, stay[s] \cap N}
    BY <2>2, WatchIs
  <2> QED
    BY <2>1, <2>3
<1> QED
  BY <1>1 DEF Watch

\* A name that a listing has to have is in the directory.
LEMMA WatchedAfter ==
  ASSUME TInv, DInv, NEW r \in Requests, NEW j, Turn(r, j), Watch,
         NEW s \in Requests
  PROVE  Watched(s)'
<1>0. TypeOK /\ Watched(s)
  BY DEF TInv
<1>1. job'[r] = j /\ \A q \in Requests \ {r} : job'[q] = job[q]
  BY <1>0, JobsAfter
<1>2. Sane' => Sane
  BY <1>0, SaneBefore
<1>3. CASE s # r
  <2>1. job'[s] = job[s]
    BY <1>1, <1>3
  <2>2. Reading(job'[s]) => job'[s].ino \in Inodes
    BY <1>0, <2>1 DEF Watched
  <2>3. job'[s].op = "READDIR" /\ job'[s].pc \in {"count", "rewind"}
          => stay'[s] \subseteq NamesIn(tree', job'[s].ino)
    BY WatchIs, <2>1
  <2>4. job[s].pc # "begin" => stay'[s] \subseteq stay[s]
    BY WatchIs, <2>1
  <2>5. Sane' => Covers(job'[s], stay'[s])
    BY <1>0, <1>2, <2>1, <2>4 DEF Watched, Covers
  <2> QED
    BY <2>2, <2>3, <2>5 DEF Watched
<1>4. CASE s = r
  <2>1. Reading(j) => j.ino \in Inodes
    BY DEF Turn
  <2>2. j.op = "READDIR" /\ j.pc \in {"count", "rewind"} => stay'[r] \subseteq NamesIn(tree', j.ino)
    BY WatchIs, <1>1
  <2>3. ASSUME Sane, j.op = "READDIR", j.err = "NONE", ~j.cutshort
        PROVE  /\ j.pc = "fill" => stay'[r] \subseteq j.left \cup DOMAIN j.entries
               /\ j.pc = "answered" /\ j.gaveup = "no" => stay'[r] \subseteq DOMAIN j.entries
    <3>1. job[r].pc # "begin" => stay'[r] \subseteq stay[r]
      BY WatchIs, Zenon
    <3>2. (job[r].pc # "none" => job[r].op = "READDIR") /\ ~job[r].cutshort
      BY <2>3 DEF Turn
    <3>3. CASE /\ job[r].pc = "rewind" /\ j.left = Listed(r) /\ j.ino = job[r].ino
               /\ j.pc = "fill"
      <4>1. stay[r] \subseteq NamesIn(tree, job[r].ino)
        BY <1>0, <1>4, <3>2, <3>3 DEF Watched
      <4>2. Listed(r) = NamesIn(tree, job[r].ino)
        BY <2>3, <3>2, <3>3, OwnListing DEF Reading
      <4> QED
        BY <3>1, <3>3, <4>1, <4>2
    <3>4. CASE job[r].pc = "fill" /\ job[r].err = "NONE"
      <4>1. stay[r] \subseteq job[r].left \cup DOMAIN job[r].entries
        BY <1>0, <1>4, <2>3, <3>2, <3>4 DEF Watched, Covers
      <4>2. stay'[r] \subseteq job[r].left \cup DOMAIN job[r].entries
        BY <3>1, <3>4, <4>1
      <4>3. /\ j.pc = "fill" => job[r].left \cup DOMAIN job[r].entries
                                  \subseteq j.left \cup DOMAIN j.entries
            /\ j.pc = "answered" /\ j.gaveup = "no"
                 => job[r].left = {} /\ j.entries = job[r].entries
        BY <2>3, <3>4 DEF Turn
      <4> QED
        BY <4>2, <4>3
    <3>5. /\ j.pc = "fill" =>
              \/ job[r].pc = "rewind" /\ j.left = Listed(r) /\ j.ino = job[r].ino
              \/ job[r].pc = "fill" /\ job[r].err = "NONE"
          /\ j.pc = "answered" /\ j.gaveup = "no" => job[r].pc = "fill" /\ job[r].err = "NONE"
      BY <2>3 DEF Turn
    <3> QED
      BY <3>3, <3>4, <3>5
  <2>4. Sane' => Covers(j, stay'[r])
    BY <1>2, <2>3 DEF Covers
  <2> QED
    BY <1>1, <1>4, <2>1, <2>2, <2>4 DEF Watched
<1> QED
  BY <1>3, <1>4

\* A handler that has opened has a descriptor.
LEMMA OpenedAfter ==
  ASSUME TInv, DInv, NEW r \in Requests, StepOfKind(r), NEW s \in Requests
  PROVE  job'[s].pc \in Opened => job'[s].fd \in FDs
<1>1. StaysBare(r) \/ StaysOpen(r) \/ Opens(r) \/ Closes(r) \/ CloseFails(r)
  BY DEF StepOfKind
<1>2. \A q \in Requests \ {r} : job'[q] = job[q]
  BY <1>1 DEF StaysBare, StaysOpen, Opens, Closes, CloseFails, Keeps
<1>3. \A q \in Requests : job[q].pc \in Opened => job[q].fd \in FDs
  BY DEF TInv
<1>4. job'[r].pc \in Opened => job'[r].fd \in FDs
  <2>1. CASE StaysOpen(r)
    BY <1>3, <2>1 DEF StaysOpen
  <2>2. CASE Opens(r)
    BY <2>2, FreeFdIsFree DEF Opens
  <2>3. CASE StaysBare(r) \/ Closes(r) \/ CloseFails(r)
    BY <2>3 DEF StaysBare, Closes, CloseFails, Bare, Opened
  <2> QED
    BY <1>1, <2>1, <2>2, <2>3
<1> QED
  BY <1>2, <1>3, <1>4

LEMMA UnbornAfter ==
  ASSUME TInv, NEW r \in Requests, NEW j, Turn(r, j), NEW s \in Requests
  PROVE  Unborn(s)'
<1>0. TypeOK /\ Unborn(s)
  BY DEF TInv
<1>1. job'[r] = j /\ \A q \in Requests \ {r} : job'[q] = job[q]
  BY <1>0, JobsAfter
<1>2. CASE s # r
  BY <1>0, <1>1, <1>2 DEF Unborn, Turn, Follows
<1>3. CASE s = r
  <2>1. /\ j.pc # "none"
        /\ j.pc \in {"queued", "begin"} => job[r].pc \in {"none", "queued"} /\ tree' = tree
    BY DEF Turn
  <2> QED
    BY <1>0, <1>1, <1>3, <2>1 DEF Unborn
<1> QED
  BY <1>2, <1>3

\* What a turn preserves, whatever is watched.
LEMMA TurnPreserves ==
  ASSUME TInv, DInv, NEW r \in Requests, StepOfKind(r), NEW j, Turn(r, j),
         stay' \in [Requests -> SUBSET Names], \A s \in Requests : Watched(s)'
  PROVE  TInv'
<1>0. TypeOK
  BY DEF TInv
<1>1. job' \in [Requests -> Job] /\ job'[r] = j /\ \A q \in Requests \ {r} : job'[q] = job[q]
  BY <1>0, JobsAfter
<1>2. TypeOK'
  <2>1. WellFormed(tree') /\ undefined' \in BOOLEAN
    BY DEF Turn, Follows
  <2>2. fds' \in [FDs -> {0} \cup Requests]
    BY KindsPreserve DEF DInv, Numbers
  <2> QED
    BY <1>1, <2>1, <2>2 DEF TypeOK
<1>3. ASSUME NEW s \in Requests
      PROVE  /\ Unborn(s)' /\ Proper(job'[s]) /\ Honest(job'[s])
             /\ job'[s].pc \in Opened => job'[s].fd \in FDs
  <2>1. Unborn(s)'
    BY UnbornAfter
  <2>2. Proper(j) /\ Honest(j) /\ Proper(job[s]) /\ Honest(job[s])
    BY DEF Turn, TInv
  <2>3. Proper(job'[s]) /\ Honest(job'[s])
    BY <1>1, <2>2
  <2>4. job'[s].pc \in Opened => job'[s].fd \in FDs
    BY OpenedAfter
  <2> QED
    BY <2>1, <2>3, <2>4
<1> QED
  BY <1>2, <1>3 DEF TInv

LEMMA InitTInv == Init => TInv
<1> SUFFICES ASSUME Init PROVE TInv
  OBVIOUS
<1>1. /\ tree \in Exports /\ WellFormed(tree)
      /\ \A p \in Paths : tree.at[p] \in Files \cup {None}
  BY ServeDirAssumption DEF Init
<1>2. \A r \in Requests : job[r] = NoJob
  BY DEF Init
<1>3. NoJob \in Job
  <2>1. <<>> \in Entries
    <3>1. <<>> \in [{} -> Attr]
      OBVIOUS
    <3> QED
      BY <3>1 DEF Entries
  <2>2. /\ "INVALID" \in AllOps /\ <<>> \in Paths /\ {} \in SUBSET OpenFlags
        /\ "none" \in Stages /\ "NONE" \in Errno /\ None \in Attr \cup {None}
        /\ 0 \in {0} \cup FDs /\ Outside \in Inodes \cup {Outside} /\ {} \in SUBSET Names
        /\ 0 \in Nat
    BY DEF AllOps, Paths, Stages, Errno, LocalErrno
  <2> QED
    BY <2>1, <2>2, Zenon DEF NoJob, Job
<1>4. TypeOK
  BY <1>1, <1>3 DEF Init, TypeOK
<1>5. \A r \in Requests : Absent(tree, r)
  <2>1. \A r \in Requests : r \notin Files \cup {None}
    BY TreeAssumption DEF Requests
  <2> QED
    BY <1>1, <2>1 DEF Absent
<1>6. NoJob.pc = "none" /\ NoJob.op = "INVALID"
  BY DEF NoJob
<1>7. /\ Proper(NoJob) /\ Honest(NoJob) /\ ~Reading(NoJob) /\ NoJob.pc \notin Opened
      /\ \A S : Covers(NoJob, S)
  BY <1>6 DEF Proper, Honest, Reading, Covers, Opened, Named, OnTwoPaths
<1> QED
  BY <1>2, <1>4, <1>5, <1>6, <1>7 DEF TInv, Unborn, Watched

LEMMA NextTInv == TInv /\ DInv /\ [Next]_vars => TInv'
<1> SUFFICES ASSUME TInv, DInv, [Next]_vars PROVE TInv'
  OBVIOUS
<1>1. ASSUME NEW r \in Requests, Receive(r) \/ Handler(r), Watch
      PROVE  TInv'
  <2>1. PICK j : Turn(r, j)
    BY <1>1, EveryTurn
  <2>2. StepOfKind(r)
    BY <1>1, StepKinds DEF DInv
  <2>3. stay' \in [Requests -> SUBSET Names]
    BY <1>1, NamesWatched DEF TInv
  <2>4. \A s \in Requests : Watched(s)'
    BY <1>1, <2>1, WatchedAfter
  <2> QED
    BY <2>1, <2>2, <2>3, <2>4, TurnPreserves
<1>2. CASE UNCHANGED vars
  BY <1>2 DEF vars, TInv, TypeOK, Unborn, Watched, Sane
<1> QED
  BY <1>1, <1>2 DEF Next

LEMMA Invariant == Spec => [](TInv /\ DInv)
<1>1. Init => TInv /\ DInv
  BY InitTInv, InitDInv
<1>2. TInv /\ DInv /\ [Next]_vars => TInv' /\ DInv'
  BY NextTInv, NextDInv
<1> QED
  BY <1>1, <1>2, PTL DEF Spec

(***************************************************************************)
(* Whatever the handlers of servedir.c do to the exported directory at the *)
(* same time, every entry of it is in a directory and no directory gets a  *)
(* second name; every descriptor, every errno of an answer and every entry *)
(* of a listing has its type.                                              *)
(***************************************************************************)
THEOREM TreeStaysWellFormed == Spec => []TypeOK
<1>1. TInv /\ DInv => TypeOK
  BY DEF TInv
<1> QED
  BY <1>1, Invariant, PTL

(***************************************************************************)
(* For any number of workers: an answer without an errno means that the    *)
(* handler has done what was asked for, has given up for one of the        *)
(* reasons that MayGiveUp lists for its operation, or is a write whose     *)
(* descriptor could not be closed.  A refused call, a missing field and a  *)
(* failing pwrite always reach the client as an errno.                     *)
(***************************************************************************)
THEOREM AnswersHonest == Spec => []AckMeansDone
<1>1. TInv /\ DInv => AckMeansDone
  BY DEF TInv, Honest, Excused, AckMeansDone
<1> QED
  BY <1>1, Invariant, PTL

(***************************************************************************)
(* For any number of workers: a name that its directory has had from the   *)
(* opendir of ServeDir_op_readdir to its answer is in the answer when that *)
(* has no errno, whatever other workers do to the directory meanwhile,     *)
(* until a close fails in ServeDir_op_write.  It may be missing when       *)
(* readdir(3) failed in one of the two passes, or when the handler gave up *)
(* for want of memory or groups.                                           *)
(***************************************************************************)
THEOREM ListingsComplete == Spec => []ListingComplete
<1>1. TInv /\ DInv => ListingComplete
  BY DEF TInv, Watched, Covers, Sane, ListingComplete
<1> QED
  BY <1>1, Invariant, PTL
=============================================================================
