---------------------------- MODULE RhizoFSProofs ----------------------------
(***************************************************************************)
(* The client and the server together, for any number of threads, workers  *)
(* and operations, any exported directory and any age: how old the         *)
(* attributes are that the client serves from its cache, that the server   *)
(* keeps what it promises alone, and when a client sees its own changes.   *)
(***************************************************************************)
EXTENDS RhizoFS, ServeDirProofs

-----------------------------------------------------------------------------
(* System calls yield trees.                                               *)

Trees(S) == \A o \in S : o.tree \in Tree

LEMMA PathsAreSequences == Paths \subseteq Seq(Names)
<1>1. <<>> \in Seq(Names)
  OBVIOUS
<1>2. \A n \in Names : <<n>> \in Seq(Names)
  OBVIOUS
<1>3. \A m, n \in Names : <<m, n>> \in Seq(Names)
  OBVIOUS
<1>4. \A p \in Paths : \/ p = <<>>
                       \/ \E n \in Names : p = <<n>>
                       \/ \E m, n \in Names : p = <<m, n>>
  BY DEF Paths
<1> QED
  BY <1>1, <1>2, <1>3, <1>4

LEMMA RefusedTree ==
  ASSUME NEW t \in Tree, NEW e
  PROVE  Trees(Fails(e, t)) /\ Trees(Succeeds(t)) /\ Trees(Refused(t))
BY DEF Trees, Fails, Succeeds, Refused

LEMMA ChangedTree ==
  ASSUME NEW t \in Tree, NEW i, NEW r \in Requests
  PROVE  Changed(t, i, r) \in Tree
<1>1. r \in 0 .. MaxRequest
  BY TreeAssumption DEF Requests
<1>2. CASE i \in Inodes
  BY <1>1, <1>2 DEF Changed, Tree, Attr
<1>3. CASE i \notin Inodes
  BY <1>3 DEF Changed, Tree
<1> QED
  BY <1>2, <1>3

LEMMA NewTree ==
  ASSUME NEW t \in Tree, NEW p \in Paths, NEW k \in Kinds, NEW r \in Requests
  PROVE  New(t, p, k, r) \in Tree
<1>1. r \in 0 .. MaxRequest /\ r \in Inodes
  BY TreeAssumption DEF Requests, Inodes
<1>2. [kind |-> k, by |-> r] \in Attr
  BY <1>1 DEF Attr
<1> QED
  BY <1>1, <1>2 DEF New, Tree

LEMMA CallTrees ==
  ASSUME NEW t \in Tree, NEW p \in Paths, NEW q \in Paths, NEW r \in Requests
  PROVE  /\ Trees(LookThrough(t, p)) /\ Trees(Update(t, p, r))
         /\ Trees(Truncate(t, p, r)) /\ Trees(Rmdir(t, p)) /\ Trees(Unlink(t, p))
         /\ Trees(Link(t, p, q)) /\ Trees(Rename(t, p, q))
         /\ \A k \in Kinds : Trees(Make(t, p, k, r))
         /\ \A f : Trees(Open(t, p, f, r))
<1>1. Trees(LookThrough(t, p))
  BY DEF LookThrough, Followed, Found, Fails, Succeeds, Trees
<1>2. Trees(Update(t, p, r))
  BY ChangedTree DEF Update, Touch, Followed, Found, Fails, Succeeds, Trees
<1>3. Trees(Truncate(t, p, r))
  BY ChangedTree DEF Truncate, Touch, Followed, Found, Fails, Succeeds, Trees
<1>4. [t EXCEPT !.at[p] = None] \in Tree
  BY DEF Tree
<1>5. Trees(Rmdir(t, p)) /\ Trees(Unlink(t, p))
  BY <1>4 DEF Rmdir, Unlink, Found, Fails, Succeeds, Trees
<1>6. t.at[p] \in Inodes \cup {None} /\ [t EXCEPT !.at[q] = t.at[p]] \in Tree
  BY DEF Tree
<1>7. Trees(Link(t, p, q))
  BY <1>6 DEF Link, Found, Fails, Succeeds, Trees
<1>8. Moved(t, p, q) \in Tree
  BY DEF Moved, Tree
<1>9. Trees(Rename(t, p, q))
  BY <1>8 DEF Rename, Found, Fails, Succeeds, Trees
<1>10. \A k \in Kinds : Trees(Make(t, p, k, r))
  BY NewTree DEF Make, Fails, Succeeds, Trees
<1>11. \A f : Trees(Open(t, p, f, r))
  BY NewTree, ChangedTree DEF Open, Touch, Fails, Succeeds, Trees, Kinds
<1> QED
  BY <1>1, <1>2, <1>3, <1>5, <1>7, <1>9, <1>10, <1>11

(***************************************************************************)
(* lstat finds attributes, of a path there is.                             *)
(***************************************************************************)
LEMMA LookFinds ==
  ASSUME NEW t \in Tree, NEW p, NEW o \in Look(t, p) \cup Refused(t), o.err = "NONE"
  PROVE  p \in Paths /\ Lstat(t, p) \in Attr
<1>1. Walk(t, p) = "NONE" /\ Exists(t, p)
  BY DEF Look, Found, Refused, Fails, Succeeds
<1>2. p \in Paths /\ t.at[p] \in Inodes
  BY <1>1 DEF Exists, Tree
<1> QED
  BY <1>1, <1>2 DEF Lstat, Tree

-----------------------------------------------------------------------------
(* The steps of the handlers: they leave what was read alone, read the     *)
(* attributes of the path, or read those of an entry.                      *)

Silent(r) ==
  /\ Keeps(r) /\ tree' \in Tree
  /\ job'[r].path = job[r].path /\ job'[r].to = job[r].to
  /\ job'[r].attrs = job[r].attrs
  /\ job'[r].entries = job[r].entries /\ job'[r].pc # "none"

ReadsAttrs(r) ==
  /\ Keeps(r) /\ tree' = tree
  /\ job'[r].path = job[r].path /\ job'[r].to = job[r].to
  /\ job'[r].attrs \in {None, Lstat(tree, job[r].path)}
  /\ job'[r].attrs = None \/ job'[r].attrs \in Attr
  /\ job'[r].entries = job[r].entries /\ job'[r].pc # "none"

ReadsEntry(r, n) ==
  /\ Keeps(r) /\ tree' = tree
  /\ job'[r].path = job[r].path /\ job'[r].to = job[r].to
  /\ job'[r].attrs = job[r].attrs
  /\ Append(job[r].path, n) \in Paths
  /\ Lstat(tree, Append(job[r].path, n)) \in Attr
  /\ job'[r].entries = [m \in DOMAIN job[r].entries \cup {n} |->
                          IF m = n THEN Lstat(tree, Append(job[r].path, n))
                          ELSE job[r].entries[m]]
  /\ job'[r].pc # "none"

\* an answer
LEMMA AnswerSilent ==
  ASSUME Shape, NEW r \in Requests, tree' \in Tree, NEW e, Answer(r, e) \/ Aborts(r)
  PROVE  Silent(r)
BY FieldNames DEF Shape, Keeps, Answer, Abort, Aborts, Silent

LEMMA SyscallSilent ==
  ASSUME Shape, tree \in Tree, NEW r \in Requests, NEW S, Trees(S), Syscall(r, S)
  PROVE  Silent(r)
<1>1. PICK o \in S \cup Refused(tree) : tree' = o.tree /\ Answer(r, o.err)
  BY DEF Syscall
<1>2. tree' \in Tree
  BY <1>1, RefusedTree DEF Trees
<1> QED
  BY <1>1, <1>2, AnswerSilent

LEMMA PlainHandlers ==
  ASSUME Shape, tree \in Tree, NEW r \in Requests,
         job[r].path \in Paths, job[r].to \in Paths,
         \/ MissingParameter(r) \/ ServeDir_fullpath_fails(r) \/ ConversionFails(r)
         \/ ServeDir_op_ping(r) \/ ServeDir_op_invalid(r) \/ ServeDir_op_statfs(r)
         \/ ServeDir_op_rmdir(r) \/ ServeDir_op_unlink(r)
         \/ ServeDir_op_access(r) \/ ServeDir_op_rename(r)
         \/ ServeDir_op_link(r) \/ ServeDir_op_symlink(r)
         \/ ServeDir_op_readlink(r) \/ ServeDir_op_mkdir(r)
         \/ ServeDir_op_truncate(r) \/ ServeDir_op_chmod(r)
         \/ ServeDir_op_utimens(r) \/ ServeDir_op_mknod(r)
  PROVE  Silent(r)
<1> DEFINE p == job[r].path
           q == job[r].to
<1>0. /\ Trees(LookThrough(tree, p)) /\ Trees(Update(tree, p, r))
      /\ Trees(Truncate(tree, p, r)) /\ Trees(Rmdir(tree, p))
      /\ Trees(Unlink(tree, p)) /\ Trees(Link(tree, p, q))
      /\ Trees(Rename(tree, p, q))
      /\ Trees(Make(tree, p, "lnk", r)) /\ Trees(Make(tree, p, "dir", r))
      /\ Trees(Make(tree, p, "reg", r) \cup Fails("PERM", tree))
      /\ Trees(Found(tree, p, IF Kind(tree, p) = "lnk" THEN Succeeds(tree)
                              ELSE Fails("INVAL", tree)))
  <2>1. Trees(Make(tree, p, "reg", r) \cup Fails("PERM", tree))
    BY CallTrees, RefusedTree DEF Trees, Kinds
  <2>2. Trees(Found(tree, p, IF Kind(tree, p) = "lnk" THEN Succeeds(tree)
                             ELSE Fails("INVAL", tree)))
    BY DEF Found, Fails, Succeeds, Trees
  <2> QED
    BY <2>1, <2>2, CallTrees DEF Kinds
<1>1. CASE MissingParameter(r)
  BY <1>1, FieldNames DEF MissingParameter, Shape, Keeps, Silent
<1>2. CASE ServeDir_fullpath_fails(r) \/ ConversionFails(r)
  BY <1>2, AnswerSilent DEF ServeDir_fullpath_fails, ConversionFails, Aborts, Reasons
<1>3. CASE ServeDir_op_ping(r)
  BY <1>3, AnswerSilent DEF ServeDir_op_ping
<1>4. CASE ServeDir_op_invalid(r)
  BY <1>4, FieldNames DEF ServeDir_op_invalid, Shape, Keeps, Silent
<1>5. CASE ServeDir_op_statfs(r)
  BY <1>0, <1>5, AnswerSilent, SyscallSilent DEF ServeDir_op_statfs, Aborts, Reasons
<1>6. CASE ServeDir_op_rmdir(r)
  BY <1>0, <1>6, SyscallSilent DEF ServeDir_op_rmdir
<1>7. CASE ServeDir_op_unlink(r)
  BY <1>0, <1>7, SyscallSilent DEF ServeDir_op_unlink
<1>8. CASE ServeDir_op_access(r)
  BY <1>0, <1>8, SyscallSilent DEF ServeDir_op_access
<1>9. CASE ServeDir_op_rename(r)
  BY <1>0, <1>9, SyscallSilent DEF ServeDir_op_rename
<1>10. CASE ServeDir_op_link(r)
  BY <1>0, <1>10, SyscallSilent DEF ServeDir_op_link
<1>11. CASE ServeDir_op_symlink(r)
  BY <1>0, <1>11, SyscallSilent DEF ServeDir_op_symlink
<1>12. CASE ServeDir_op_readlink(r)
  BY <1>0, <1>12, AnswerSilent, SyscallSilent DEF ServeDir_op_readlink, Aborts, Reasons
<1>13. CASE ServeDir_op_mkdir(r)
  BY <1>0, <1>13, SyscallSilent DEF ServeDir_op_mkdir
<1>14. CASE ServeDir_op_truncate(r)
  BY <1>0, <1>14, SyscallSilent DEF ServeDir_op_truncate
<1>15. CASE ServeDir_op_chmod(r)
  BY <1>0, <1>15, SyscallSilent DEF ServeDir_op_chmod
<1>16. CASE ServeDir_op_utimens(r)
  BY <1>0, <1>16, SyscallSilent DEF ServeDir_op_utimens
<1>17. CASE ServeDir_op_mknod(r)
  BY <1>0, <1>17, SyscallSilent DEF ServeDir_op_mknod
<1> QED
  BY <1>1, <1>2, <1>3, <1>4, <1>5, <1>6, <1>7, <1>8, <1>9, <1>10, <1>11, <1>12, <1>13, <1>14, <1>15, <1>16, <1>17

LEMMA GetattrReads ==
  ASSUME Shape, tree \in Tree, NEW r \in Requests, ServeDir_op_getattr(r)
  PROVE  Silent(r) \/ ReadsAttrs(r)
<1>1. CASE Aborts(r)
  BY <1>1, AnswerSilent DEF ServeDir_op_getattr
<1>2. CASE ~Aborts(r)
  <2>1. PICK o \in Look(tree, job[r].path) \cup Refused(tree) :
          job' = [job EXCEPT ![r].pc = "answered",
                             ![r].err = Errno_from_local(o.err),
                             ![r].done = (o.err = "NONE"),
                             ![r].attrs = IF o.err = "NONE"
                                          THEN Lstat(tree, job[r].path)
                                          ELSE None]
    BY <1>2, Zenon DEF ServeDir_op_getattr, Aborts, Reasons
  <2>2. tree' = tree
    BY DEF ServeDir_op_getattr
  <2> DEFINE x == IF o.err = "NONE" THEN Lstat(tree, job[r].path) ELSE None
  <2>3. x \in {None, Lstat(tree, job[r].path)} /\ (x = None \/ x \in Attr)
    BY LookFinds
  <2>4. /\ job'[r] = [job[r] EXCEPT !.pc = "answered",
                                    !.err = Errno_from_local(o.err),
                                    !.done = (o.err = "NONE"), !.attrs = x]
        /\ DOMAIN job' = Requests
        /\ \A s \in Requests \ {r} : job'[s] = job[s]
    BY <2>1 DEF Shape
  <2> HIDE DEF x
  <2>5. /\ DOMAIN job'[r] = Fields /\ job'[r].pc = "answered"
        /\ job'[r].path = job[r].path /\ job'[r].to = job[r].to
        /\ job'[r].attrs = x /\ job'[r].entries = job[r].entries
    BY <2>4, FieldNames DEF Shape
  <2> QED
    BY <2>2, <2>3, <2>4, <2>5 DEF Shape, Keeps, ReadsAttrs
<1> QED
  BY <1>1, <1>2

LEMMA OpenFileSilent ==
  ASSUME Shape, tree \in Tree, NEW r \in Requests, job[r].path \in Paths,
         NEW flags, OpenFile(r, flags, "open")
  PROVE  Silent(r)
<1>1. PICK o \in Open(tree, job[r].path, flags, r) \cup Refused(tree) :
        /\ tree' = o.tree
        /\ \/ Answer(r, o.err)
           \/ job' = [job EXCEPT ![r].pc = "open", ![r].fd = FreeFd,
                                 ![r].ino = OpenedInode(o.tree, job[r].path)]
  BY DEF OpenFile
<1>2. tree' \in Tree
  BY <1>1, CallTrees, RefusedTree DEF Trees
<1>3. CASE Answer(r, o.err)
  BY <1>2, <1>3, AnswerSilent
<1>4. CASE job' = [job EXCEPT ![r].pc = "open", ![r].fd = FreeFd,
                              ![r].ino = OpenedInode(o.tree, job[r].path)]
  BY <1>2, <1>4, FieldNames DEF Shape, Keeps, Silent
<1> QED
  BY <1>1, <1>3, <1>4

LEMMA CloseSilent ==
  ASSUME Shape, tree \in Tree, NEW r \in Requests,
         CloseAndAnswer(r) \/ CloseAborts(r)
  PROVE  Silent(r)
BY FieldNames DEF CloseAndAnswer, CloseAndAbort, CloseAborts, Shape, Keeps, Silent

LEMMA FileHandlers ==
  ASSUME Shape, tree \in Tree, NEW r \in Requests, job[r].path \in Paths,
         \/ ServeDir_op_open(r) \/ ServeDir_op_create(r) \/ ServeDir_op_read(r)
  PROVE  Silent(r)
<1>1. CASE ServeDir_op_open(r) \/ ServeDir_op_create(r)
  BY <1>1, OpenFileSilent, CloseSilent DEF ServeDir_op_open, ServeDir_op_create
<1>2. CASE ServeDir_op_read(r)
  <2>1. CASE OpenFile(r, {}, "open") \/ CloseAborts(r)
    BY <2>1, OpenFileSilent, CloseSilent
  <2>2. CASE /\ tree' = tree
             /\ \E e : job' = [job EXCEPT ![r].pc = "used", ![r].err = e]
    BY <2>2, FieldNames DEF Shape, Keeps, Silent
  <2>3. CASE /\ tree' = tree
             /\ \E d : job' = [job EXCEPT ![r].pc = "answered", ![r].fd = 0,
                                          ![r].done = d]
    BY <2>3, FieldNames DEF Shape, Keeps, Silent
  <2> QED
    BY <1>2, <2>1, <2>2, <2>3 DEF ServeDir_op_read, CloseAborts, Reasons
<1> QED
  BY <1>1, <1>2

LEMMA WriteSilent ==
  ASSUME Shape, tree \in Tree, NEW r \in Requests, job[r].path \in Paths,
         ServeDir_op_write(r)
  PROVE  Silent(r)
<1>1. CASE OpenFile(r, {"creat", "write"}, "open") \/ CloseAborts(r)
  BY <1>1, OpenFileSilent, CloseSilent
<1>2. CASE Pwrite(r)
  <2>1. /\ tree' \in Tree
        /\ \/ job' = [job EXCEPT ![r].pc = "used", ![r].done = TRUE]
           \/ \E e : job' = [job EXCEPT ![r].pc = "used", ![r].err = e]
    BY <1>2, ChangedTree DEF Pwrite
  <2> QED
    BY <2>1, FieldNames DEF Shape, Keeps, Silent
<1>3. CASE /\ tree' = tree
           /\ \/ job' = [job EXCEPT ![r].pc = "closed", ![r].fd = 0]
              \/ job' = [job EXCEPT ![r].pc = "reclose", ![r].badclose = TRUE,
                                    ![r].done = FALSE]
              \/ job' = [job EXCEPT ![r].pc = "answered", ![r].fd = 0]
  BY <1>3, FieldNames DEF Shape, Keeps, Silent
<1>4. CASE /\ \E o \in Update(tree, job[r].path, r) \cup Refused(tree) : tree' = o.tree
           /\ job' = [job EXCEPT ![r].pc = "answered"]
  <2>1. tree' \in Tree
    BY <1>4, CallTrees, RefusedTree DEF Trees
  <2> QED
    BY <1>4, <2>1, FieldNames DEF Shape, Keeps, Silent
<1> QED
  BY <1>1, <1>2, <1>3, <1>4 DEF ServeDir_op_write, CloseAborts, Reasons

LEMMA ReaddirReads ==
  ASSUME Shape, tree \in Tree, NEW r \in Requests, ServeDir_op_readdir(r)
  PROVE  Silent(r) \/ \E n \in Names : ReadsEntry(r, n)
<1>1. CASE Opendir(r)
  <2>1. /\ tree' = tree
        /\ \/ \E e : Answer(r, e)
           \/ job' = [job EXCEPT ![r].pc = "count", ![r].fd = FreeFd,
                                 ![r].ino = tree.at[job[r].path]]
    BY <1>1, Zenon DEF Opendir
  <2>2. CASE \E e : Answer(r, e)
    BY <2>1, <2>2, AnswerSilent
  <2>3. CASE job' = [job EXCEPT ![r].pc = "count", ![r].fd = FreeFd,
                                ![r].ino = tree.at[job[r].path]]
    BY <2>1, <2>3, FieldNames DEF Shape, Keeps, Silent
  <2> QED
    BY <2>1, <2>2, <2>3
<1>2. CASE CountEntries(r)
  <2>1. CASE job' = [job EXCEPT ![r].pc = "rewind",
                                ![r].count = Cardinality(Listed(r)) + 2]
    BY <1>2, <2>1, FieldNames DEF CountEntries, Shape, Keeps, Silent
  <2>2. CASE job' = [job EXCEPT ![r].pc = "answered", ![r].fd = 0,
                                ![r].err = "NOMEM", ![r].gaveup = "memory"]
    BY <1>2, <2>2, FieldNames DEF CountEntries, Shape, Keeps, Silent
  <2>3. CASE job' = [job EXCEPT ![r].pc = "rewind", ![r].cutshort = TRUE]
    BY <1>2, <2>3, FieldNames DEF CountEntries, Shape, Keeps, Silent
  <2> QED
    BY <1>2, <2>1, <2>2, <2>3 DEF CountEntries
<1>3. CASE Rewinddir(r)
  <2>1. CASE CloseAborts(r)
    BY <2>1, CloseSilent
  <2>3. CASE tree' = tree /\ job' = [job EXCEPT ![r].pc = "fill", ![r].cutshort = TRUE]
    BY <2>3, FieldNames DEF Shape, Keeps, Silent
  <2>2. CASE /\ ~CloseAborts(r)
             /\ ~(tree' = tree /\ job' = [job EXCEPT ![r].pc = "fill", ![r].cutshort = TRUE])
    <3> DEFINE l == Listed(r)
               u == IF IsDir(tree, job[r].path) THEN 2 ELSE 0
               e == IF IsDir(tree, job[r].path) THEN "NONE"
                    ELSE IF Exists(tree, job[r].path) THEN "NOTDIR" ELSE "NOENT"
    <3>1. tree' = tree
      BY <1>3, <2>2 DEF Rewinddir, CloseAborts, Reasons
    <3>2. job' = [job EXCEPT ![r].pc = "fill", ![r].left = l,
                             ![r].used = u, ![r].err = e]
      BY <1>3, <2>2, <3>1, Zenon DEF Rewinddir, CloseAborts, Reasons
    <3> HIDE DEF l, u, e
    <3>3. /\ job'[r] = [job[r] EXCEPT !.pc = "fill", !.left = l, !.used = u,
                                      !.err = e]
          /\ DOMAIN job' = Requests
          /\ \A s \in Requests \ {r} : job'[s] = job[s]
      BY <3>2 DEF Shape
    <3>4. /\ DOMAIN job'[r] = Fields /\ job'[r].pc = "fill"
          /\ job'[r].path = job[r].path /\ job'[r].to = job[r].to
          /\ job'[r].attrs = job[r].attrs /\ job'[r].entries = job[r].entries
      BY <3>3, FieldNames DEF Shape
    <3> QED
      BY <3>1, <3>3, <3>4 DEF Shape, Keeps, Silent
  <2> QED
    BY <2>1, <2>2, <2>3
<1>4. ASSUME NEW n \in Names, FillEntry(r, n)
      PROVE  Silent(r) \/ ReadsEntry(r, n)
  <2>1. tree' = tree /\ job[r].pc = "fill"
    BY <1>4 DEF FillEntry
  <2> DEFINE p == Append(job[r].path, n)
  <2>2. CASE /\ \E o \in Look(tree, p) \cup Refused(tree) : o.err = "NONE"
             /\ job' = [job EXCEPT ![r].left = @ \ {n},
                                   ![r].used = @ + 1,
                                   ![r].entries = [m \in DOMAIN @ \cup {n} |->
                                      IF m = n THEN Lstat(tree, p) ELSE @[m]]]
    <3>1. p \in Paths /\ Lstat(tree, p) \in Attr
      BY <2>2, LookFinds
    <3>2. /\ DOMAIN job' = Requests
          /\ DOMAIN job'[r] = Fields
          /\ \A s \in Requests \ {r} : job'[s] = job[s]
          /\ job'[r].path = job[r].path /\ job'[r].to = job[r].to
          /\ job'[r].attrs = job[r].attrs /\ job'[r].pc = job[r].pc
      BY <2>2, FieldNames DEF Shape
    <3>3. job'[r].entries = [m \in DOMAIN job[r].entries \cup {n} |->
                               IF m = n THEN Lstat(tree, p)
                               ELSE job[r].entries[m]]
      BY <2>2, FieldNames DEF Shape
    <3> QED
      BY <2>1, <3>1, <3>2, <3>3 DEF Shape, Keeps, ReadsEntry
  <2>3. CASE \E x : job' = [job EXCEPT ![r].left = @ \ {n}, ![r].err = x]
    BY <2>1, <2>3, FieldNames DEF Shape, Keeps, Silent
  <2> QED
    BY <1>4, <2>2, <2>3, Zenon DEF FillEntry
<1>5. CASE FillFails(r)
  BY <1>5, FieldNames DEF FillFails, Shape, Keeps, Silent
<1>6. CASE EndListing(r)
  BY <1>6, FieldNames DEF EndListing, Shape, Keeps, Silent
<1> QED
  BY <1>1, <1>2, <1>3, <1>4, <1>5, <1>6 DEF ServeDir_op_readdir

\* every step of a handler is one of the three
LEMMA HandlerKinds ==
  ASSUME Shape, tree \in Tree, NEW r \in Requests,
         job[r].path \in Paths, job[r].to \in Paths, Handler(r)
  PROVE  Silent(r) \/ ReadsAttrs(r) \/ \E n \in Names : ReadsEntry(r, n)
BY PlainHandlers, GetattrReads, FileHandlers, WriteSilent, ReaddirReads DEF Handler

-----------------------------------------------------------------------------
(* The inductive invariant.                                                *)

Sound == /\ Shape /\ tree \in Tree
         /\ \A r \in Requests : job[r].path \in Paths /\ job[r].to \in Paths

(***************************************************************************)
(* A request that was never sent has read nothing.                         *)
(***************************************************************************)
Unread == \A r \in Requests :
            job[r].pc = "none" => job[r].attrs = None /\ DOMAIN job[r].entries = {}

Clock == /\ now \in Nat /\ begun \in [Requests -> Nat]
         /\ \A r \in Requests : begun[r] <= now

(***************************************************************************)
(* A call does not last longer than CallTime.                              *)
(***************************************************************************)
InTime == /\ call \in [Threads -> {0} \cup Requests]
          /\ \A t \in Threads : call[t] # 0 =>
               /\ job[call[t]].pc # "none"
               /\ now <= begun[call[t]] + CallTime

Dated == /\ held \in [Paths -> [Attr -> Int]]
         /\ \A p \in Paths, x \in Attr : held[p][x] <= now

(***************************************************************************)
(* What a handler has read was there after the request was sent.           *)
(***************************************************************************)
HeldSince(p, x, s) == p \in Paths /\ x \in Attr /\ held[p][x] >= s

ReadFresh(r) ==
  /\ job[r].attrs # None => HeldSince(job[r].path, job[r].attrs, begun[r])
  /\ \A n \in DOMAIN job[r].entries :
       /\ n \in Names
       /\ HeldSince(Append(job[r].path, n), job[r].entries[n], begun[r])

(***************************************************************************)
(* What is in the cache was there at most CallTime before its time stamp.  *)
(***************************************************************************)
CacheFresh ==
  /\ DOMAIN cache = Paths
  /\ \A p \in Paths : cache[p] # None =>
       /\ cache[p] \in CacheEntry
       /\ held[p][cache[p].attr] + CallTime >= cache[p].ts

FreshInv == /\ Sound /\ Unread /\ Clock /\ InTime /\ Dated
            /\ \A r \in Requests : ReadFresh(r)
            /\ CacheFresh

-----------------------------------------------------------------------------
(* The steps of the client: an operation sends a request, ends without     *)
(* putting anything into the cache, or ends and fills the cache.           *)

Forgets == /\ DOMAIN cache' = Paths
           /\ \A p \in Paths : cache'[p] \in {None, cache[p]}

Unaltered == tree' = tree /\ job' = job /\ now' = now /\ begun' = begun

(***************************************************************************)
(* The handler of request r has read the attributes x of the path p.       *)
(***************************************************************************)
Reads(r, p, x) ==
  \/ job[r].attrs # None /\ p = job[r].path /\ x = job[r].attrs
  \/ \E n \in DOMAIN job[r].entries : p = Append(job[r].path, n) /\ x = job[r].entries[n]

Ends(t) == /\ Unaltered /\ Forgets
           /\ call' = call \/ call' = [call EXCEPT ![t] = 0]

Fills(t) ==
  /\ Unaltered /\ call[t] # 0 /\ call' = [call EXCEPT ![t] = 0]
  /\ DOMAIN cache' = Paths
  /\ \A p \in Paths :
       \/ cache'[p] \in {None, cache[p]}
       \/ \E x : /\ cache'[p] = [attr |-> x, ts |-> now]
                 /\ HeldSince(p, x, begun[call[t]]) /\ Reads(call[t], p, x)

Sends(t, r) ==
  /\ tree' = tree /\ now' = now /\ Forgets
  /\ call[t] = 0 /\ call' = [call EXCEPT ![t] = r] /\ begun' = [begun EXCEPT ![r] = now]
  /\ job[r].pc = "none" /\ Keeps(r) /\ job'[r].pc # "none"
  /\ job'[r].path \in Paths /\ job'[r].to \in Paths
  /\ job'[r].attrs = job[r].attrs /\ job'[r].entries = job[r].entries

\* the next request is one that was not sent
LEMMA NextRequestIsNew ==
  ASSUME \E r \in Requests : job[r].pc = "none"
  PROVE  NextRequest \in Requests /\ job[NextRequest].pc = "none"
<1> DEFINE S == {r \in Requests : job[r].pc = "none"}
<1>1. S # {} /\ S \subseteq Nat
  BY TreeAssumption DEF Requests
<1>2. PICK m \in S : \A k \in S : ~(<<k, m>> \in OpToRel(<, Nat))
  <2> HIDE DEF S
  <2> QED
    BY <1>1, NatLessThanWellFounded, WFMin
<1>3. \A k \in S : ~(k < m)
  BY <1>1, <1>2 DEF OpToRel
<1>4. \E r \in Requests : /\ job[r].pc = "none"
                          /\ \A s \in 1 .. r - 1 : job[s].pc # "none"
  BY <1>3, TreeAssumption DEF Requests
<1> QED
  BY <1>4, Zenon DEF NextRequest

LEMMA SendSends ==
  ASSUME Shape, NEW t \in Threads, NEW op, NEW p \in Paths, NEW q \in Paths, NEW f,
         Send(t, op, p, q, f), Forgets
  PROVE  \E r \in Requests : Sends(t, r)
<1>1. PICK r \in Requests : r = NextRequest /\ job[r].pc = "none"
  BY NextRequestIsNew DEF Send, MayAsk
<1>2. /\ call' = [call EXCEPT ![t] = r] /\ begun' = [begun EXCEPT ![r] = now]
      /\ job' = [job EXCEPT ![r].op = op, ![r].path = p, ![r].to = q,
                            ![r].flags = f, ![r].pc = "queued"]
      /\ tree' = tree /\ now' = now /\ call[t] = 0
  BY <1>1 DEF Send, MayAsk
<1>3. job'[r] = [job[r] EXCEPT !.op = op, !.path = p, !.to = q, !.flags = f,
                               !.pc = "queued"]
  BY <1>1, <1>2 DEF Shape
<1>4. /\ DOMAIN job'[r] = Fields /\ job'[r].pc = "queued"
      /\ job'[r].path = p /\ job'[r].to = q
      /\ job'[r].attrs = job[r].attrs /\ job'[r].entries = job[r].entries
  BY <1>1, <1>3, FieldNames DEF Shape
<1>5. DOMAIN job' = Requests /\ \A s \in Requests \ {r} : job'[s] = job[s]
  BY <1>1, <1>2 DEF Shape
<1>6. Keeps(r)
  BY <1>1, <1>4, <1>5 DEF Shape, Keeps
<1>7. Sends(t, r)
  BY <1>1, <1>2, <1>4, <1>6 DEF Sends
<1> QED
  BY <1>7

LEMMA SetFills ==
  ASSUME NEW new, AttrCache_set(new)
  PROVE  /\ DOMAIN cache' = Paths
         /\ \A p \in Paths :
              \/ cache'[p] \in {None, cache[p]}
              \/ p \in DOMAIN new /\ cache'[p] = [attr |-> new[p], ts |-> now]
BY DEF AttrCache_set, Filled

LEMMA RemoveForgets ==
  ASSUME DOMAIN cache = Paths, NEW p, AttrCache_remove(p) \/ UNCHANGED cache
  PROVE  Forgets
BY DEF AttrCache_remove, Forgets

LEMMA StartKinds ==
  ASSUME Shape, DOMAIN cache = Paths, NEW t \in Threads, NEW op, Start(t, op)
  PROVE  Ends(t) \/ \E r \in Requests : Sends(t, r)
<1>1. Forgets
  BY RemoveForgets DEF Start
<1>2. CASE NotSent(t, op)
  BY <1>1, <1>2 DEF NotSent, Ends, Unaltered
<1>3. CASE \E p, q \in Paths, f \in Flags : Send(t, op, p, q, f)
  BY <1>1, <1>3, SendSends
<1> QED
  BY <1>2, <1>3 DEF Start

LEMMA PlainKinds ==
  ASSUME Shape, DOMAIN cache = Paths, NEW t \in Threads, NEW op,
         Plain(t, op) \/ Changing(t, op)
  PROVE  Ends(t) \/ \E r \in Requests : Sends(t, r)
<1>1. CASE Start(t, op)
  BY <1>1, StartKinds
<1>2. CASE Reported(t, op)
  BY <1>2, RemoveForgets DEF Reported, Answered, Ends, Unaltered
<1>3. CASE Acknowledged(t, op) /\ (AttrCache_remove(Reply(t).path) \/ UNCHANGED cache)
  BY <1>3, RemoveForgets DEF Acknowledged, Answered, Ends, Unaltered
<1> QED
  BY <1>1, <1>2, <1>3 DEF Plain, Changing

LEMMA GetattrKinds ==
  ASSUME Shape, DOMAIN cache = Paths, NEW t \in Threads, Rhizofs_getattr(t)
  PROVE  Ends(t) \/ \E r \in Requests : Sends(t, r)
<1>1. PICK p \in Paths :
       \/ /\ Servable(p)
          /\ Return(t, "NONE")
          /\ UNCHANGED <<tree, job, fds, undefined, now, call, begun, cache>>
       \/ /\ ~Servable(p)
          /\ Send(t, "GETATTR", p, <<>>, {}) \/ NotSent(t, "GETATTR")
          /\ AttrCache_remove(p)
  BY Zenon DEF Rhizofs_getattr
<1>2. Forgets
  BY <1>1, RemoveForgets
<1>3. <<>> \in Paths
  BY DEF Paths
<1>4. CASE UNCHANGED <<tree, job, fds, undefined, now, call, begun, cache>>
  BY <1>2, <1>4 DEF Ends, Unaltered
<1>5. CASE Send(t, "GETATTR", p, <<>>, {})
  BY <1>2, <1>3, <1>5, SendSends
<1>6. CASE NotSent(t, "GETATTR")
  BY <1>2, <1>6 DEF NotSent, Ends, Unaltered
<1> QED
  BY <1>1, <1>4, <1>5, <1>6

LEMMA RemoteKinds ==
  ASSUME FreshInv, NEW t \in Threads, Rhizofs_getattr_remote(t)
  PROVE  Ends(t) \/ Fills(t)
<1>0. DOMAIN cache = Paths
  BY DEF FreshInv, CacheFresh
<1>1. CASE UNCHANGED cache
  <2>1. Answered(t, "GETATTR")
    BY DEF Rhizofs_getattr_remote, Reported, Acknowledged
  <2> QED
    BY <1>0, <1>1, <2>1, RemoveForgets DEF Answered, Ends, Unaltered
<1>2. ASSUME Acknowledged(t, "GETATTR"), Reply(t).attrs # None,
             NEW S \in SUBSET {Reply(t).path},
             AttrCache_set([p \in S |-> Reply(t).attrs])
      PROVE  Fills(t)
  <2>1. PICK r \in Requests : r = call[t] /\ call[t] # 0
    BY <1>2 DEF FreshInv, InTime, Acknowledged, Answered
  <2>2. Unaltered /\ call' = [call EXCEPT ![t] = 0]
    BY <1>2 DEF Acknowledged, Answered, Unaltered
  <2>3. HeldSince(job[r].path, job[r].attrs, begun[r])
    BY <1>2, <2>1 DEF FreshInv, ReadFresh, Reply
  <2> DEFINE new == [p \in S |-> job[r].attrs]
  <2>4. /\ DOMAIN cache' = Paths
        /\ \A p \in Paths :
              \/ cache'[p] \in {None, cache[p]}
              \/ p \in DOMAIN new /\ cache'[p] = [attr |-> new[p], ts |-> now]
    <3>1. AttrCache_set(new)
      BY <1>2, <2>1 DEF Reply
    <3> HIDE DEF new
    <3> QED
      BY <3>1, SetFills
  <2>5. \A p \in DOMAIN new : HeldSince(p, new[p], begun[r]) /\ Reads(r, p, new[p])
    BY <1>2, <2>1, <2>3 DEF Reads, Reply
  <2> HIDE DEF new
  <2> QED
    BY <2>1, <2>2, <2>4, <2>5 DEF Fills
<1>3. CASE Reported(t, "GETATTR")
  BY <1>1, <1>3 DEF Reported
<1> QED
  BY <1>1, <1>2, <1>3, Zenon DEF Rhizofs_getattr_remote

LEMMA ReaddirKinds ==
  ASSUME FreshInv, NEW t \in Threads, Rhizofs_readdir(t)
  PROVE  Ends(t) \/ Fills(t) \/ \E r \in Requests : Sends(t, r)
<1>0. Shape /\ DOMAIN cache = Paths
  BY DEF FreshInv, CacheFresh, Sound
<1>1. CASE Start(t, "READDIR")
  BY <1>0, <1>1, StartKinds
<1>2. CASE Reported(t, "READDIR")
  BY <1>0, <1>2, RemoveForgets DEF Reported, Answered, Ends, Unaltered
<1>3. CASE /\ Acknowledged(t, "READDIR")
           /\ \E S \in SUBSET DOMAIN Reply(t).entries :
                AttrCache_set([p \in {Append(Reply(t).path, n) : n \in S} |->
                                    Reply(t).entries[p[Len(p)]]])
  <2>1. PICK r \in Requests : r = call[t] /\ call[t] # 0
    BY <1>3 DEF FreshInv, InTime, Acknowledged, Answered
  <2>2. Unaltered /\ call' = [call EXCEPT ![t] = 0]
    BY <1>3 DEF Acknowledged, Answered, Unaltered
  <2>3. PICK S \in SUBSET DOMAIN job[r].entries :
          AttrCache_set([p \in {Append(job[r].path, n) : n \in S} |->
                               job[r].entries[p[Len(p)]]])
    BY <1>3, <2>1 DEF Reply
  <2> DEFINE new == [p \in {Append(job[r].path, n) : n \in S} |->
                          job[r].entries[p[Len(p)]]]
  <2>4. /\ DOMAIN cache' = Paths
        /\ \A p \in Paths :
              \/ cache'[p] \in {None, cache[p]}
              \/ p \in DOMAIN new /\ cache'[p] = [attr |-> new[p], ts |-> now]
    <3>1. AttrCache_set(new)
      BY <2>3
    <3> HIDE DEF new
    <3> QED
      BY <3>1, SetFills
  <2>5. \A p \in DOMAIN new : HeldSince(p, new[p], begun[r]) /\ Reads(r, p, new[p])
    <3> SUFFICES ASSUME NEW n \in S
                 PROVE  /\ HeldSince(Append(job[r].path, n), new[Append(job[r].path, n)],
                                     begun[r])
                        /\ Reads(r, Append(job[r].path, n), new[Append(job[r].path, n)])
      OBVIOUS
    <3>1. n \in Names /\ job[r].path \in Seq(Names)
      BY PathsAreSequences DEF FreshInv, Sound, ReadFresh
    <3>2. Append(job[r].path, n)[Len(Append(job[r].path, n))] = n
      BY <3>1
    <3>3. new[Append(job[r].path, n)] = job[r].entries[n]
      BY <3>2
    <3> QED
      BY <3>3 DEF FreshInv, ReadFresh, Reads
  <2> HIDE DEF new
  <2> QED
    BY <2>1, <2>2, <2>4, <2>5 DEF Fills
<1> QED
  BY <1>1, <1>2, <1>3, Zenon DEF Rhizofs_readdir

\* every step of an operation is one of the three
LEMMA OperationKinds ==
  ASSUME FreshInv, NEW t \in Threads, Operation(t)
  PROVE  Ends(t) \/ Fills(t) \/ \E r \in Requests : Sends(t, r)
<1>0. Shape /\ DOMAIN cache = Paths
  BY DEF FreshInv, CacheFresh, Sound
<1>1. CASE \E op : Plain(t, op) \/ Changing(t, op)
  BY <1>0, <1>1, PlainKinds
<1>2. CASE Rhizofs_getattr(t) \/ Rhizofs_getattr_remote(t) \/ Rhizofs_readdir(t)
  BY <1>0, <1>2, GetattrKinds, RemoteKinds, ReaddirKinds
<1>3. CASE Rhizofs_mknod(t) \/ Rhizofs_chown(t) \/ GiveUp(t)
  BY <1>0, <1>1, <1>3, RemoveForgets
     DEF Rhizofs_mknod, Rhizofs_chown, GiveUp, Ends, Unaltered
<1> QED
  BY <1>1, <1>2, <1>3
     DEF Operation, Rhizofs_rmdir, Rhizofs_mkdir, Rhizofs_unlink, Rhizofs_access,
         Rhizofs_open, Rhizofs_create, Rhizofs_read, Rhizofs_write,
         Rhizofs_truncate, Rhizofs_chmod, Rhizofs_utimens, Rhizofs_link,
         Rhizofs_rename, Rhizofs_readlink, Rhizofs_symlink, Rhizofs_statfs

-----------------------------------------------------------------------------
(* The invariant is preserved.                                             *)

\* what was held since a time stays so, and what there is now is held
LEMMA HeldGrows ==
  ASSUME Clock, Dated, now' \in Nat, now' >= now, Record
  PROVE  /\ Dated'
         /\ \A p \in Paths, x \in Attr : held'[p][x] \in Int /\ held'[p][x] >= held[p][x]
         /\ \A p \in Paths : Lstat(tree', p) \in Attr => held'[p][Lstat(tree', p)] = now'
<1>1. \A p \in Paths : held[p] \in [Attr -> Int]
  BY DEF Dated
<1>2. ASSUME NEW p \in Paths
      PROVE  /\ held'[p] \in [Attr -> Int]
             /\ \A x \in Attr : held'[p][x] = IF Lstat(tree', p) = x THEN now' ELSE held[p][x]
  <2>1. CASE Lstat(tree', p) \in Attr
    <3>1. held'[p] = [held[p] EXCEPT ![Lstat(tree', p)] = now']
      BY <2>1 DEF Record
    <3>2. now' \in Int /\ held[p] \in [Attr -> Int]
      BY <1>1
    <3>3. \A x \in Attr : held'[p][x] = IF x = Lstat(tree', p) THEN now' ELSE held[p][x]
      BY <3>1, <3>2
    <3>4. \A x \in Attr : held'[p][x] \in Int
      BY <3>2, <3>3
    <3>5. held'[p] = [x \in Attr |-> held'[p][x]]
      BY <3>1, <3>2
    <3>6. held'[p] \in [Attr -> Int]
      BY <3>4, <3>5
    <3> QED
      BY <3>3, <3>6
  <2>2. CASE Lstat(tree', p) \notin Attr
    <3>1. held'[p] = held[p]
      BY <2>2 DEF Record
    <3> QED
      BY <1>1, <2>2, <3>1
  <2> QED
    BY <2>1, <2>2
<1>3. \A p \in Paths, x \in Attr : held[p][x] \in Int /\ held[p][x] <= now
  BY DEF Dated
<1>4. \A p \in Paths, x \in Attr : /\ held'[p][x] \in Int /\ held'[p][x] >= held[p][x]
                                   /\ held'[p][x] <= now'
  BY <1>2, <1>3 DEF Clock
<1>5. held' \in [Paths -> [Attr -> Int]]
  <2>1. held' = [p \in Paths |-> held'[p]]
    BY DEF Record
  <2> QED
    BY <1>2, <2>1
<1> QED
  BY <1>2, <1>4, <1>5 DEF Dated

\* what was read and is not touched by a step is still fresh after it
LEMMA StillFresh ==
  ASSUME FreshInv, now' \in Nat, now' >= now, Record,
         NEW r \in Requests, begun'[r] = begun[r],
         job'[r].path = job[r].path, job'[r].attrs = job[r].attrs,
         job'[r].entries = job[r].entries
  PROVE  ReadFresh(r)'
<1>1. \A p \in Paths, x \in Attr : held'[p][x] \in Int /\ held'[p][x] >= held[p][x]
  BY HeldGrows DEF FreshInv
<1>2. \A p, x : HeldSince(p, x, begun[r]) => HeldSince(p, x, begun[r])'
  BY <1>1 DEF HeldSince, FreshInv, Clock, Dated
<1> QED
  BY <1>2 DEF ReadFresh, FreshInv

\* the cache after a step that puts in nothing, or only what was held in time
LEMMA CacheStaysFresh ==
  ASSUME FreshInv, now' = now, Record, DOMAIN cache' = Paths,
         NEW s \in Nat, now <= s + CallTime,
         \A p \in Paths : \/ cache'[p] \in {None, cache[p]}
                          \/ \E x : /\ cache'[p] = [attr |-> x, ts |-> now]
                                    /\ HeldSince(p, x, s)
  PROVE  CacheFresh'
<1>0. now \in Nat /\ now' \in Nat /\ now' >= now /\ Clock /\ Dated
  BY DEF FreshInv, Clock
<1>1. \A p \in Paths, x \in Attr : /\ held'[p][x] \in Int /\ held'[p][x] >= held[p][x]
                                   /\ held[p][x] \in Int
  BY <1>0, HeldGrows DEF Dated
<1>2. ASSUME NEW p \in Paths, cache'[p] # None
      PROVE  cache'[p] \in CacheEntry /\ held'[p][cache'[p].attr] + CallTime >= cache'[p].ts
  <2>1. CASE cache'[p] = cache[p]
    <3>1. /\ cache[p] \in CacheEntry
          /\ held[p][cache[p].attr] + CallTime >= cache[p].ts
      BY <1>2, <2>1 DEF FreshInv, CacheFresh
    <3>2. cache[p].attr \in Attr /\ cache[p].ts \in Nat
      BY <3>1 DEF CacheEntry
    <3> QED
      BY <1>1, <2>1, <3>1, <3>2, RhizoFSAssumption
  <2>2. ASSUME NEW x, cache'[p] = [attr |-> x, ts |-> now], HeldSince(p, x, s)
        PROVE  /\ cache'[p] \in CacheEntry
               /\ held'[p][cache'[p].attr] + CallTime >= cache'[p].ts
    <3>1. x \in Attr /\ held[p][x] >= s
      BY <2>2 DEF HeldSince
    <3>2. held'[p][x] + CallTime >= now
      BY <1>0, <1>1, <3>1, RhizoFSAssumption
    <3> QED
      BY <1>0, <2>2, <3>1, <3>2 DEF CacheEntry
  <2> QED
    BY <1>2, <2>1, <2>2
<1> QED
  BY <1>2 DEF CacheFresh

LEMMA CacheForgets ==
  ASSUME FreshInv, now' = now, Record, Forgets
  PROVE  CacheFresh'
BY CacheStaysFresh, RhizoFSAssumption DEF Forgets, FreshInv, Clock

LEMMA EndsPreserves ==
  ASSUME FreshInv, NEW t \in Threads, Record, Ends(t) \/ Fills(t)
  PROVE  FreshInv'
<1>1. /\ tree' = tree /\ job' = job /\ now' = now /\ begun' = begun
      /\ call' = call \/ call' = [call EXCEPT ![t] = 0]
  BY DEF Ends, Fills, Unaltered
<1>2. Sound' /\ Unread' /\ Clock'
  BY <1>1 DEF FreshInv, Sound, Shape, Unread, Clock
<1>3. InTime'
  BY <1>1 DEF FreshInv, InTime
<1>4. Dated' /\ \A r \in Requests : ReadFresh(r)'
  BY <1>1, HeldGrows, StillFresh DEF FreshInv, Clock
<1>5. CASE Ends(t)
  <2>1. CacheFresh'
    BY <1>1, <1>5, CacheForgets DEF Ends
  <2> QED
    BY <1>2, <1>3, <1>4, <2>1 DEF FreshInv
<1>6. CASE Fills(t)
  <2>1. PICK s \in Nat : s = begun[call[t]] /\ now <= s + CallTime
    BY <1>6 DEF Fills, FreshInv, InTime, Clock
  <2>2. CacheFresh'
    BY <1>1, <1>6, <2>1, CacheStaysFresh DEF Fills
  <2> QED
    BY <1>2, <1>3, <1>4, <2>2 DEF FreshInv
<1> QED
  BY <1>5, <1>6

LEMMA SendsPreserves ==
  ASSUME FreshInv, NEW t \in Threads, NEW r \in Requests, Record, Sends(t, r)
  PROVE  FreshInv'
<1>1. /\ tree' = tree /\ now' = now /\ Forgets
      /\ call' = [call EXCEPT ![t] = r] /\ begun' = [begun EXCEPT ![r] = now]
      /\ job[r].pc = "none" /\ job'[r].pc # "none"
      /\ job'[r].path \in Paths /\ job'[r].to \in Paths
      /\ job'[r].attrs = job[r].attrs /\ job'[r].entries = job[r].entries
      /\ Shape' /\ \A s \in Requests \ {r} : job'[s] = job[s]
  BY DEF Sends, Keeps
<1>2. Sound'
  BY <1>1 DEF FreshInv, Sound
<1>3. Unread'
  BY <1>1 DEF FreshInv, Unread
<1>4. Clock'
  BY <1>1 DEF FreshInv, Clock
<1>5. InTime'
  BY <1>1, RhizoFSAssumption DEF FreshInv, InTime, Clock
<1>6. Dated'
  BY <1>1, HeldGrows DEF FreshInv, Clock
<1>7. \A s \in Requests \ {r} : ReadFresh(s)'
  BY <1>1, StillFresh DEF FreshInv, Clock
<1>8. ReadFresh(r)'
  BY <1>1 DEF FreshInv, Unread, ReadFresh
<1>9. CacheFresh'
  BY <1>1, CacheForgets
<1> QED
  BY <1>2, <1>3, <1>4, <1>5, <1>6, <1>7, <1>8, <1>9 DEF FreshInv

\* the steps of the server
LEMMA ServesPreserves ==
  ASSUME FreshInv, NEW r \in Requests, Record, UNCHANGED client,
         Silent(r) \/ ReadsAttrs(r) \/ \E n \in Names : ReadsEntry(r, n)
  PROVE  FreshInv'
<1>1. /\ now' = now /\ call' = call /\ begun' = begun /\ cache' = cache
      /\ Shape' /\ \A s \in Requests \ {r} : job'[s] = job[s]
      /\ job'[r].path = job[r].path /\ job'[r].to = job[r].to
      /\ job'[r].pc # "none" /\ tree' \in Tree
  BY DEF client, Silent, ReadsAttrs, ReadsEntry, Keeps, FreshInv, Sound
<1>2. Sound'
  BY <1>1 DEF FreshInv, Sound
<1>3. Unread'
  BY <1>1 DEF FreshInv, Unread
<1>4. Clock' /\ InTime'
  BY <1>1 DEF FreshInv, Clock, InTime
<1>5. /\ Dated'
      /\ \A p \in Paths, x \in Attr : held'[p][x] \in Int /\ held'[p][x] >= held[p][x]
      /\ \A p \in Paths : Lstat(tree', p) \in Attr => held'[p][Lstat(tree', p)] = now
  BY <1>1, HeldGrows DEF FreshInv, Clock
<1>6. \A s \in Requests \ {r} : ReadFresh(s)'
  BY <1>1, StillFresh DEF FreshInv, Clock
<1>7. CacheFresh'
  BY <1>1, CacheForgets DEF Forgets, FreshInv, CacheFresh
<1>8. ReadFresh(r)'
  <2> DEFINE Still(p, x) == p \in Paths /\ x \in Attr /\ held'[p][x] >= begun[r]
  <2>1. \A p, x : HeldSince(p, x, begun[r]) => Still(p, x)
    BY <1>1, <1>5 DEF HeldSince, FreshInv, Clock, Dated
  <2>2. \A p \in Paths : tree' = tree /\ Lstat(tree, p) \in Attr
                           => Still(p, Lstat(tree, p))
    BY <1>1, <1>5 DEF FreshInv, Clock
  <2>3. SUFFICES /\ job'[r].attrs # None => Still(job[r].path, job'[r].attrs)
                 /\ \A m \in DOMAIN job'[r].entries :
                      m \in Names /\ Still(Append(job[r].path, m), job'[r].entries[m])
    BY <1>1 DEF ReadFresh, HeldSince
  <2>4. /\ job[r].attrs # None => Still(job[r].path, job[r].attrs)
        /\ \A m \in DOMAIN job[r].entries :
             m \in Names /\ Still(Append(job[r].path, m), job[r].entries[m])
    BY <2>1 DEF FreshInv, ReadFresh
  <2> HIDE DEF Still
  <2>5. CASE Silent(r)
    BY <2>4, <2>5 DEF Silent
  <2>6. CASE ReadsAttrs(r)
    <3>1. /\ tree' = tree /\ job'[r].entries = job[r].entries
          /\ job'[r].attrs # None => /\ job'[r].attrs = Lstat(tree, job[r].path)
                                     /\ job'[r].attrs \in Attr
      BY <2>6 DEF ReadsAttrs
    <3> QED
      BY <2>2, <2>4, <3>1 DEF FreshInv, Sound
  <2>7. ASSUME NEW n \in Names, ReadsEntry(r, n)
        PROVE  /\ job'[r].attrs # None => Still(job[r].path, job'[r].attrs)
               /\ \A m \in DOMAIN job'[r].entries :
                    m \in Names /\ Still(Append(job[r].path, m), job'[r].entries[m])
    <3>1. /\ tree' = tree /\ job'[r].attrs = job[r].attrs
          /\ Append(job[r].path, n) \in Paths
          /\ Lstat(tree, Append(job[r].path, n)) \in Attr
          /\ job'[r].entries = [m \in DOMAIN job[r].entries \cup {n} |->
                                  IF m = n THEN Lstat(tree, Append(job[r].path, n))
                                  ELSE job[r].entries[m]]
      BY <2>7 DEF ReadsEntry
    <3>2. Still(Append(job[r].path, n), Lstat(tree, Append(job[r].path, n)))
      BY <2>2, <3>1
    <3>3. ASSUME NEW m \in DOMAIN job'[r].entries
          PROVE  m \in Names /\ Still(Append(job[r].path, m), job'[r].entries[m])
      <4>1. CASE m = n
        <5>1. job'[r].entries[m] = Lstat(tree, Append(job[r].path, n))
          BY <3>1, <4>1
        <5> QED
          BY <3>2, <4>1, <5>1
      <4>2. CASE m # n
        <5>1. m \in DOMAIN job[r].entries /\ job'[r].entries[m] = job[r].entries[m]
          BY <3>1, <4>2
        <5> QED
          BY <2>4, <5>1
      <4> QED
        BY <4>1, <4>2
    <3> QED
      BY <2>4, <3>1, <3>3
  <2> QED
    BY <2>5, <2>6, <2>7
<1> QED
  BY <1>2, <1>3, <1>4, <1>5, <1>6, <1>7, <1>8 DEF FreshInv

LEMMA DeliverSilent ==
  ASSUME Sound, NEW r \in Requests, Deliver(r)
  PROVE  Silent(r) /\ UNCHANGED client
BY FieldNames DEF Sound, Deliver, Shape, Keeps, Silent

LEMMA TickPreserves ==
  ASSUME FreshInv, Tick, Record
  PROVE  FreshInv'
<1>1. /\ tree' = tree /\ job' = job /\ call' = call /\ begun' = begun
      /\ cache' = cache /\ now' = now + 1
      /\ \A t \in Threads : call[t] # 0 => now - begun[call[t]] < CallTime
  BY DEF Tick
<1>2. now \in Nat /\ now' \in Nat /\ now' >= now
  BY <1>1 DEF FreshInv, Clock
<1>3. Sound' /\ Unread' /\ Clock'
  BY <1>1, <1>2 DEF FreshInv, Sound, Shape, Unread, Clock
<1>4. InTime'
  BY <1>1, <1>2, RhizoFSAssumption DEF FreshInv, InTime, Clock
<1>5. /\ Dated' /\ \A r \in Requests : ReadFresh(r)'
      /\ \A p \in Paths, x \in Attr : held'[p][x] \in Int /\ held'[p][x] >= held[p][x]
  BY <1>1, <1>2, HeldGrows, StillFresh DEF FreshInv
<1>6. CacheFresh'
  <2> SUFFICES ASSUME NEW p \in Paths, cache[p] # None
               PROVE  /\ cache[p] \in CacheEntry
                      /\ held'[p][cache[p].attr] + CallTime >= cache[p].ts
    BY <1>1 DEF FreshInv, CacheFresh
  <2>1. cache[p] \in CacheEntry /\ held[p][cache[p].attr] + CallTime >= cache[p].ts
    BY DEF FreshInv, CacheFresh
  <2>2. cache[p].attr \in Attr /\ cache[p].ts \in Nat /\ held[p][cache[p].attr] \in Int
    BY <2>1 DEF CacheEntry, FreshInv, Dated
  <2> QED
    BY <1>5, <2>1, <2>2, RhizoFSAssumption
<1> QED
  BY <1>3, <1>4, <1>5, <1>6 DEF FreshInv

LEMMA InitFresh == FsInit => FreshInv
<1> SUFFICES ASSUME FsInit PROVE FreshInv
  OBVIOUS
<1>1. Sound /\ Unread
  <2>1. /\ DOMAIN job = Requests
        /\ \A r \in Requests : job[r] = NoJob
        /\ tree \in Tree
    BY ServeDirAssumption DEF FsInit, Init, WellFormed
  <2>2. /\ NoJob.path \in Paths /\ NoJob.to \in Paths
        /\ NoJob.attrs = None /\ DOMAIN NoJob.entries = {}
    BY DEF NoJob, Paths
  <2> QED
    BY <2>1, <2>2 DEF Sound, Unread, Shape, Fields
<1>2. Clock /\ InTime
  BY DEF FsInit, Clock, InTime
<1>3. Dated
  BY DEF FsInit, Dated
<1>4. \A r \in Requests : ReadFresh(r)
  <2>1. \A r \in Requests : job[r].attrs = None /\ DOMAIN job[r].entries = {}
    BY DEF FsInit, Init, NoJob
  <2> QED
    BY <2>1 DEF ReadFresh
<1>5. CacheFresh
  BY DEF FsInit, CacheFresh
<1> QED
  BY <1>1, <1>2, <1>3, <1>4, <1>5 DEF FreshInv

LEMMA FreshInvStep == FreshInv /\ [FsNext]_allvars => FreshInv'
<1> SUFFICES ASSUME FreshInv, [FsNext]_allvars PROVE FreshInv'
  OBVIOUS
<1>1. CASE UNCHANGED allvars
  <2>1. /\ tree' = tree /\ job' = job /\ now' = now /\ call' = call
        /\ begun' = begun /\ cache' = cache /\ held' = held
    BY <1>1 DEF allvars, vars, client, records
  <2> QED
    BY <2>1 DEF FreshInv, Sound, Shape, Unread, Clock, InTime, Dated, ReadFresh,
                HeldSince, CacheFresh
<1>2. CASE FsNext
  <2>1. Record
    BY <1>2 DEF FsNext
  <2>2. ASSUME NEW t \in Threads, Operation(t)
        PROVE  FreshInv'
    BY <2>1, <2>2, OperationKinds, EndsPreserves, SendsPreserves
  <2>3. ASSUME NEW r \in Requests, Deliver(r) \/ Serve(r)
        PROVE  FreshInv'
    <3>1. UNCHANGED client
      BY <2>3, DeliverSilent DEF Serve, FreshInv
    <3>2. Silent(r) \/ ReadsAttrs(r) \/ \E n \in Names : ReadsEntry(r, n)
      BY <2>3, DeliverSilent, HandlerKinds DEF Serve, FreshInv, Sound
    <3> QED
      BY <2>1, <3>1, <3>2, ServesPreserves
  <2>4. CASE Tick
    BY <2>1, <2>4, TickPreserves
  <2> QED
    BY <1>2, <2>2, <2>3, <2>4 DEF FsNext
<1> QED
  BY <1>1, <1>2

LEMMA FreshInvServes == FreshInv => ServedFresh
<1> SUFFICES ASSUME FreshInv, NEW p \in Paths, Servable(p)
             PROVE  held[p][cache[p].attr] + MaxAge + CallTime >= now
  BY DEF ServedFresh
<1>1. /\ cache[p] \in CacheEntry /\ ~(cache[p].ts + MaxAge < now)
      /\ held[p][cache[p].attr] + CallTime >= cache[p].ts
  BY DEF Servable, Deprecated, FreshInv, CacheFresh
<1>2. cache[p].ts \in Nat /\ held[p][cache[p].attr] \in Int /\ now \in Nat
  BY <1>1 DEF CacheEntry, FreshInv, Dated, Clock
<1> QED
  BY <1>1, <1>2, RhizoFSAssumption

-----------------------------------------------------------------------------

(***************************************************************************)
(* Attributes that Rhizofs_getattr serves from its cache were those of the *)
(* path on the server within the last max_age_sec seconds plus the         *)
(* duration of a call.  The bound holds although answers get lost, a       *)
(* request may be executed after its thread gave up, other threads change  *)
(* the path meanwhile, and a listing is read entry by entry: an answer is  *)
(* only put into the cache by the thread that still waits for it, so what  *)
(* the handler read was there after the call began.                        *)
(***************************************************************************)
THEOREM AlwaysServedFresh == FsSpec => []ServedFresh
<1>1. FsInit => FreshInv
  BY InitFresh
<1>2. FreshInv /\ [FsNext]_allvars => FreshInv'
  BY FreshInvStep
<1>3. FreshInv => ServedFresh
  BY FreshInvServes
<1> QED
  BY <1>1, <1>2, <1>3, PTL DEF FsSpec

-----------------------------------------------------------------------------
(* The server when the client's operations send the requests: what holds   *)
(* of ServeDir alone holds here.                                           *)

ServerInv == TInv /\ DInv /\ stay = [r \in Requests |-> {}]

\* Nothing is watched, so nothing can be missing.
LEMMA NothingWatched ==
  ASSUME ServerInv, UNCHANGED stay, NEW r \in Requests, NEW j, Turn(r, j),
         NEW s \in Requests
  PROVE  Watched(s)'
<1>0. TypeOK /\ Watched(s) /\ stay'[s] = {}
  BY DEF ServerInv, TInv
<1>1. job'[r] = j /\ \A q \in Requests \ {r} : job'[q] = job[q]
  BY <1>0, JobsAfter
<1>2. Reading(j) => j.ino \in Inodes
  BY DEF Turn
<1>3. Reading(job'[s]) => job'[s].ino \in Inodes
  BY <1>0, <1>1, <1>2 DEF Watched
<1>4. Covers(job'[s], {})
  BY DEF Covers
<1> QED
  BY <1>0, <1>3, <1>4 DEF Watched

LEMMA ServerTurn ==
  ASSUME ServerInv, UNCHANGED stay, NEW r \in Requests, StepOfKind(r),
         \E j : Turn(r, j)
  PROVE  ServerInv'
<1>1. PICK j : Turn(r, j)
  OBVIOUS
<1>2. \A s \in Requests : Watched(s)'
  BY <1>1, NothingWatched
<1>3. stay' \in [Requests -> SUBSET Names]
  BY DEF ServerInv
<1> QED
  BY <1>1, <1>2, <1>3, TurnPreserves, KindsPreserve DEF ServerInv

\* The request that an operation sends.
LEMMA SendTurn ==
  ASSUME TInv, DInv, NEW t \in Threads, NEW op, NEW p \in Paths, NEW q \in Paths,
         NEW f \in SUBSET OpenFlags, Send(t, op, p, q, f),
         op \in Named => p # <<>>, op \in OnTwoPaths => q # <<>>
  PROVE  \E r \in Requests : StepOfKind(r) /\ \E j : Turn(r, j)
<1>1. PICK r \in Requests : r = NextRequest /\ job[r].pc = "none"
  BY NextRequestIsNew DEF Send, MayAsk
<1>2. /\ job' = [job EXCEPT ![r].op = op, ![r].path = p, ![r].to = q,
                            ![r].flags = f, ![r].pc = "queued"]
      /\ UNCHANGED <<tree, fds, undefined>>
  BY <1>1, Zenon DEF Send
<1>3. op \in AllOps
  BY <1>1, OpsAssumption DEF Send, MayAsk
<1>4. TypeOK /\ job[r] \in Job /\ "queued" \in Stages
  BY JobTyped, Constants DEF TInv
<1> DEFINE j == [job[r] EXCEPT !.op = op, !.path = p, !.to = q, !.flags = f, !.pc = "queued"]
<1>5. job' = [job EXCEPT ![r] = j]
  BY <1>2, Zenon
<1>6. j \in Job
  <2>1. PICK i \in Job : i = [job[r] EXCEPT !.op = op, !.path = p, !.to = q]
    <3>1. [job[r] EXCEPT !.op = op, !.path = p, !.to = q] \in Job
      BY <1>3, <1>4, Zenon DEF Job
    <3> QED
      BY <3>1, Zenon
  <2>2. [i EXCEPT !.flags = f, !.pc = "queued"] \in Job
    BY <1>4, Zenon DEF Job
  <2> QED
    BY <2>1, <2>2, Zenon
<1>7. /\ j.badclose = job[r].badclose /\ j.cutshort = job[r].cutshort
      /\ j.op = op /\ j.path = p /\ j.to = q
      /\ j.pc = "queued" /\ j.fd = job[r].fd
  BY <1>4 DEF Job
<1> HIDE DEF j
<1>8. Proper(j) /\ Honest(j) /\ ~Reading(j)
  BY <1>7 DEF Proper, Honest, Reading
<1>9. Follows(tree, r, tree') /\ undefined' \in BOOLEAN
  BY <1>2, <1>4, SameTree
<1>10. Turn(r, j)
  BY <1>1, <1>2, <1>5, <1>6, <1>7, <1>8, <1>9 DEF Turn
<1>11. StepOfKind(r)
  <2>1. job'[r] = j /\ \A s \in Requests \ {r} : job'[s] = job[s]
    BY <1>4, <1>10, JobsAfter
  <2>2. Shape'
    <3>1. DOMAIN j = Fields
      BY <1>6, FieldNames DEF Job
    <3> QED
      BY <1>5, <2>1, <3>1 DEF DInv, Shape
  <2>3. StaysBare(r)
    BY <1>1, <1>2, <1>7, <2>1, <2>2 DEF StaysBare, Keeps, Bare
  <2> QED
    BY <2>3 DEF StepOfKind
<1> QED
  BY <1>10, <1>11

LEMMA DeliverTurn ==
  ASSUME TInv, DInv, NEW r \in Requests, Deliver(r)
  PROVE  StepOfKind(r) /\ \E j : Turn(r, j)
<1>1. /\ job[r].pc = "queued" /\ job' = [job EXCEPT ![r].pc = "begin"]
      /\ UNCHANGED <<tree, fds, undefined>>
  BY DEF Deliver
<1>2. TypeOK /\ job[r] \in Job /\ "begin" \in Stages
  BY JobTyped, Constants DEF TInv
<1> DEFINE j == [job[r] EXCEPT !.pc = "begin"]
<1>3. job' = [job EXCEPT ![r] = j]
  BY <1>1, Zenon
<1>4. j \in Job
  BY <1>2, Zenon DEF Job
<1>5. /\ j.badclose = job[r].badclose /\ j.cutshort = job[r].cutshort
      /\ j.op = job[r].op /\ j.path = job[r].path
      /\ j.to = job[r].to /\ j.pc = "begin" /\ j.fd = job[r].fd
  BY <1>2 DEF Job
<1> HIDE DEF j
<1>6. Proper(j) /\ Honest(j) /\ ~Reading(j)
  <2>1. Proper(job[r])
    BY DEF TInv
  <2> QED
    BY <1>5, <2>1 DEF Proper, Honest, Reading
<1>7. Follows(tree, r, tree') /\ undefined' \in BOOLEAN
  BY <1>1, <1>2, SameTree
<1>8. Turn(r, j)
  BY <1>1, <1>3, <1>4, <1>5, <1>6, <1>7 DEF Turn
<1>9. job'[r] = j /\ \A s \in Requests \ {r} : job'[s] = job[s]
  BY <1>2, <1>8, JobsAfter
<1>10. Shape'
  <2>1. DOMAIN j = Fields
    BY <1>4, FieldNames DEF Job
  <2> QED
    BY <1>3, <1>9, <2>1 DEF DInv, Shape
<1>11. StaysBare(r)
  BY <1>1, <1>5, <1>9, <1>10 DEF StaysBare, Keeps, Bare
<1> QED
  BY <1>8, <1>11 DEF StepOfKind

(***************************************************************************)
(* An operation leaves the server alone or sends a request.                *)
(***************************************************************************)
LeavesServer == UNCHANGED <<tree, job, fds>> /\ undefined' \in BOOLEAN

Asks(t) ==
  \E op, p, q, f : /\ p \in Paths /\ q \in Paths /\ f \in SUBSET OpenFlags
                   /\ op \in Named => p # <<>>
                   /\ op \in OnTwoPaths => q # <<>>
                   /\ Send(t, op, p, q, f)

LEMMA StartAsks ==
  ASSUME undefined \in BOOLEAN, NEW t \in Threads, NEW op, Start(t, op)
  PROVE  LeavesServer \/ Asks(t)
<1>1. CASE NotSent(t, op)
  BY <1>1 DEF NotSent, LeavesServer
<1>2. ASSUME NEW p \in Paths, NEW q \in Paths, NEW f \in Flags,
             Request(op, p, q, f, TRUE), Send(t, op, p, q, f)
      PROVE  Asks(t)
  <2>1. f \in SUBSET OpenFlags
    BY OpsAssumption
  <2>2. (op \in Named => p # <<>>) /\ (op \in OnTwoPaths => q # <<>>)
    BY <1>2 DEF Request, Named
  <2> QED
    BY <1>2, <2>1, <2>2 DEF Asks
<1> QED
  BY <1>1, <1>2, Zenon DEF Start

LEMMA OperationAsks ==
  ASSUME undefined \in BOOLEAN, NEW t \in Threads, Operation(t)
  PROVE  LeavesServer \/ Asks(t)
<1>1. ASSUME NEW op, Plain(t, op) \/ Changing(t, op)
      PROVE  LeavesServer \/ Asks(t)
  BY <1>1, StartAsks DEF Plain, Changing, Reported, Acknowledged, Answered, LeavesServer
<1>2. CASE Rhizofs_getattr(t)
  <2>1. PICK p \in Paths :
          \/ UNCHANGED <<tree, job, fds, undefined, now, call, begun, cache>>
          \/ Send(t, "GETATTR", p, <<>>, {})
          \/ NotSent(t, "GETATTR")
    BY <1>2, Zenon DEF Rhizofs_getattr
  <2>2. CASE Send(t, "GETATTR", p, <<>>, {})
    BY <2>2, PathsAre DEF Asks, Named, OnTwoPaths
  <2> QED
    BY <2>1, <2>2 DEF NotSent, LeavesServer
<1>3. CASE Rhizofs_getattr_remote(t)
  BY <1>3 DEF Rhizofs_getattr_remote, Reported, Acknowledged, Answered, LeavesServer
<1>4. CASE Rhizofs_readdir(t)
  <2>1. CASE Start(t, "READDIR")
    BY <2>1, StartAsks
  <2>2. CASE Reported(t, "READDIR")
    BY <2>2 DEF Reported, Answered, LeavesServer
  <2>3. CASE Acknowledged(t, "READDIR") /\ (undefined' = undefined \/ undefined' = TRUE)
    BY <2>3 DEF Acknowledged, Answered, LeavesServer
  <2> QED
    BY <1>4, <2>1, <2>2, <2>3, Zenon DEF Rhizofs_readdir
<1>5. CASE Rhizofs_mknod(t) \/ Rhizofs_chown(t) \/ GiveUp(t)
  BY <1>1, <1>5 DEF Rhizofs_mknod, Rhizofs_chown, GiveUp, LeavesServer
<1> QED
  BY <1>1, <1>2, <1>3, <1>4, <1>5
     DEF Operation, Rhizofs_rmdir, Rhizofs_mkdir, Rhizofs_unlink, Rhizofs_access,
         Rhizofs_open, Rhizofs_create, Rhizofs_read, Rhizofs_write,
         Rhizofs_truncate, Rhizofs_chmod, Rhizofs_utimens, Rhizofs_link,
         Rhizofs_rename, Rhizofs_readlink, Rhizofs_symlink, Rhizofs_statfs

LEMMA ServerLeft ==
  ASSUME ServerInv, LeavesServer, UNCHANGED stay
  PROVE  ServerInv'
<1>1. tree' = tree /\ job' = job /\ fds' = fds /\ stay' = stay /\ undefined' \in BOOLEAN
  BY DEF LeavesServer
<1>2. TypeOK'
  BY <1>1 DEF ServerInv, TInv, TypeOK
<1>3. TInv'
  BY <1>1, <1>2 DEF ServerInv, TInv, Unborn, Watched, Sane
<1> QED
  BY <1>1, <1>3
     DEF ServerInv, DInv, Shape, Numbers, DescriptorClosed, DescriptorOwned, Running

LEMMA InitServer == FsInit => ServerInv
BY InitTInv, InitDInv DEF FsInit, Init, ServerInv

LEMMA NextServer == ServerInv /\ [FsNext]_allvars => ServerInv'
<1> SUFFICES ASSUME ServerInv, [FsNext]_allvars PROVE ServerInv'
  OBVIOUS
<1>0. undefined \in BOOLEAN /\ Shape
  BY DEF ServerInv, TInv, TypeOK, DInv
<1>1. CASE UNCHANGED allvars
  BY <1>0, <1>1, ServerLeft DEF allvars, vars, LeavesServer
<1>2. CASE FsNext
  <2>1. UNCHANGED stay
    BY <1>2 DEF FsNext, Record
  <2>2. ASSUME NEW t \in Threads, Operation(t) PROVE ServerInv'
    <3>1. CASE LeavesServer
      BY <2>1, <3>1, ServerLeft
    <3>2. CASE Asks(t)
      <4>1. \E r \in Requests : StepOfKind(r) /\ \E j : Turn(r, j)
        BY <3>2, SendTurn, Zenon DEF Asks, ServerInv
      <4> QED
        BY <2>1, <4>1, ServerTurn
    <3> QED
      BY <1>0, <2>2, <3>1, <3>2, OperationAsks
  <2>3. ASSUME NEW r \in Requests, Deliver(r) PROVE ServerInv'
    BY <2>1, <2>3, DeliverTurn, ServerTurn DEF ServerInv
  <2>4. ASSUME NEW r \in Requests, Serve(r) PROVE ServerInv'
    <3>1. Handler(r)
      BY <2>4 DEF Serve
    <3>2. StepOfKind(r) /\ \E j : Turn(r, j)
      BY <1>0, <3>1, StepKinds, EveryTurn DEF ServerInv
    <3> QED
      BY <2>1, <3>2, ServerTurn
  <2>5. CASE Tick
    BY <1>0, <2>1, <2>5, ServerLeft DEF Tick, LeavesServer
  <2> QED
    BY <1>2, <2>2, <2>3, <2>4, <2>5 DEF FsNext
<1> QED
  BY <1>1, <1>2

(***************************************************************************)
(* What the handlers of servedir.c promise, they promise the operations of *)
(* rhizofs.c too: whichever requests these send, give up and repeat, the   *)
(* exported directory stays well-formed, every descriptor is closed and    *)
(* used by its owner, and an answer without an errno means that the        *)
(* operation was done, has given up for a reason MayGiveUp lists for it,   *)
(* or is a write whose descriptor could not be closed.                     *)
(***************************************************************************)
THEOREM ServerKeepsPromises ==
  FsSpec => [](TypeOK /\ DescriptorClosed /\ DescriptorOwned /\ AckMeansDone)
<1>1. ServerInv => TypeOK /\ DescriptorClosed /\ DescriptorOwned /\ AckMeansDone
  BY DEF ServerInv, TInv, DInv, Honest, Excused, AckMeansDone
<1> QED
  BY <1>1, InitServer, NextServer, PTL DEF FsSpec

-----------------------------------------------------------------------------
(* The client's types.                                                     *)

CacheOK == /\ cache \in [Paths -> CacheEntry \cup {None}]
           /\ \A p \in Paths : cache[p] # None => cache[p].ts <= now

\* what AttrCache_set puts in
Entered(new) == DOMAIN new \subseteq Paths /\ \A p \in DOMAIN new : new[p] \in Attr

LEMMA RemoveOK ==
  ASSUME CacheOK, now \in Nat, now' = now, NEW p, AttrCache_remove(p) \/ UNCHANGED cache
  PROVE  CacheOK'
<1>1. cache' \in [Paths -> CacheEntry \cup {None}] /\ \A q \in Paths : cache'[q] \in {None, cache[q]}
  BY DEF CacheOK, AttrCache_remove
<1>2. \A q \in Paths : cache'[q] # None => cache'[q].ts <= now'
  BY <1>1 DEF CacheOK
<1> QED
  BY <1>1, <1>2 DEF CacheOK

LEMMA SetOK ==
  ASSUME CacheOK, now \in Nat, now' = now, NEW new, Entered(new), AttrCache_set(new)
  PROVE  CacheOK'
<1>1. PICK dropped \in SUBSET (Occupied \ DOMAIN new) : cache' = Filled(new, dropped)
  BY DEF AttrCache_set
<1>2. \A p \in DOMAIN new : [attr |-> new[p], ts |-> now] \in CacheEntry
  BY DEF Entered, CacheEntry
<1>3. cache' \in [Paths -> CacheEntry \cup {None}]
  BY <1>1, <1>2 DEF Filled, CacheOK
<1>4. \A p \in Paths : \/ p \in DOMAIN new /\ cache'[p] = [attr |-> new[p], ts |-> now]
                       \/ p \notin DOMAIN new /\ p \in dropped /\ cache'[p] = None
                       \/ p \notin DOMAIN new /\ p \notin dropped /\ cache'[p] = cache[p]
  BY <1>1 DEF Filled
<1>5. ASSUME NEW p \in Paths, cache'[p] # None
      PROVE  cache'[p].ts <= now'
  <2>1. CASE cache'[p] = [attr |-> new[p], ts |-> now]
    <3>1. cache'[p].ts = now
      BY <2>1
    <3> QED
      BY <3>1
  <2>2. CASE cache'[p] = cache[p]
    BY <1>5, <2>2 DEF CacheOK
  <2> QED
    BY <1>4, <1>5, <2>1, <2>2
<1> QED
  BY <1>3, <1>5 DEF CacheOK

\* An operation that has its answer: what it read.
LEMMA ReplyIs ==
  ASSUME FreshInv, ServerInv, NEW t \in Threads, NEW op, Answered(t, op)
  PROVE  /\ call[t] \in Requests /\ Reply(t) = job[call[t]]
         /\ Reply(t).err \in Errno /\ Reply(t).path \in Paths
         /\ Reply(t).attrs \in Attr \cup {None} /\ now' = now
<1>1. call[t] \in Requests /\ now' = now
  BY DEF FreshInv, InTime, Answered
<1>2. job[call[t]] \in Job
  BY <1>1, JobTyped DEF ServerInv, TInv
<1> QED
  BY <1>1, <1>2, FieldTypes DEF Reply

LEMMA CacheAfter ==
  ASSUME FreshInv, ServerInv, CacheOK, NEW t \in Threads, Operation(t)
  PROVE  CacheOK'
<1>0. now \in Nat
  BY DEF FreshInv, Clock
<1>1. ASSUME NEW p, AttrCache_remove(p) \/ UNCHANGED cache, now' = now
      PROVE  CacheOK'
  BY <1>0, <1>1, RemoveOK
<1>2. ASSUME NEW op, Start(t, op)
      PROVE  CacheOK'
  BY <1>1, <1>2, Zenon DEF Start, NotSent, Send
<1>3. ASSUME NEW op, Plain(t, op) \/ Changing(t, op)
      PROVE  CacheOK'
  BY <1>1, <1>2, <1>3 DEF Plain, Changing, Reported, Acknowledged, Answered
<1>4. CASE Rhizofs_getattr(t)
  BY <1>1, <1>4, Zenon DEF Rhizofs_getattr, Send, NotSent
<1>5. CASE Rhizofs_getattr_remote(t)
  <2>1. Answered(t, "GETATTR")
    BY <1>5 DEF Rhizofs_getattr_remote, Reported, Acknowledged
  <2>2. CASE UNCHANGED cache
    BY <1>1, <2>1, <2>2 DEF Answered
  <2>3. ASSUME Reply(t).attrs # None, NEW S \in SUBSET {Reply(t).path},
               AttrCache_set([p \in S |-> Reply(t).attrs])
        PROVE  CacheOK'
    <3> DEFINE new == [p \in S |-> Reply(t).attrs]
    <3>1. Entered(new)
      BY <2>1, <2>3, ReplyIs DEF Entered
    <3> HIDE DEF new
    <3>2. AttrCache_set(new)
      BY <2>3 DEF new
    <3> QED
      BY <1>0, <2>1, <3>1, <3>2, SetOK, ReplyIs
  <2> QED
    BY <1>5, <2>2, <2>3, Zenon DEF Rhizofs_getattr_remote, Reported
<1>6. CASE Rhizofs_readdir(t)
  <2>1. CASE Start(t, "READDIR")
    BY <1>2, <2>1
  <2>2. CASE Reported(t, "READDIR")
    BY <1>1, <2>2 DEF Reported, Answered
  <2>3. ASSUME Answered(t, "READDIR"), NEW S \in SUBSET DOMAIN Reply(t).entries,
               AttrCache_set([p \in {Append(Reply(t).path, n) : n \in S} |->
                                    Reply(t).entries[p[Len(p)]]])
        PROVE  CacheOK'
    <3> DEFINE new == [p \in {Append(Reply(t).path, n) : n \in S} |->
                            Reply(t).entries[p[Len(p)]]]
    <3>1. Entered(new)
      <4>1. PICK r \in Requests : r = call[t] /\ Reply(t) = job[r]
        BY <2>3, ReplyIs
      <4>2. SUFFICES ASSUME NEW n \in S
                     PROVE  /\ Append(job[r].path, n) \in Paths
                            /\ new[Append(job[r].path, n)] \in Attr
        BY <4>1 DEF Entered
      <4>3. n \in Names /\ job[r].path \in Seq(Names) /\ n \in DOMAIN job[r].entries
        BY <4>1, PathsAreSequences DEF FreshInv, Sound, ReadFresh
      <4>4. Append(job[r].path, n)[Len(Append(job[r].path, n))] = n
        BY <4>3
      <4>5. new[Append(job[r].path, n)] = job[r].entries[n]
        BY <4>1, <4>4
      <4> QED
        BY <4>3, <4>5 DEF FreshInv, ReadFresh, HeldSince
    <3> HIDE DEF new
    <3>2. AttrCache_set(new)
      BY <2>3 DEF new
    <3> QED
      BY <1>0, <2>3, <3>1, <3>2, SetOK, ReplyIs
  <2> QED
    BY <1>6, <2>1, <2>2, <2>3, Zenon DEF Rhizofs_readdir, Acknowledged
<1>7. CASE Rhizofs_mknod(t) \/ Rhizofs_chown(t) \/ GiveUp(t)
  BY <1>1, <1>3, <1>7 DEF Rhizofs_mknod, Rhizofs_chown, GiveUp
<1> QED
  BY <1>3, <1>4, <1>5, <1>6, <1>7
     DEF Operation, Rhizofs_rmdir, Rhizofs_mkdir, Rhizofs_unlink, Rhizofs_access,
         Rhizofs_open, Rhizofs_create, Rhizofs_read, Rhizofs_write,
         Rhizofs_truncate, Rhizofs_chmod, Rhizofs_utimens, Rhizofs_link,
         Rhizofs_rename, Rhizofs_readlink, Rhizofs_symlink, Rhizofs_statfs

\* what an operation returns
LEMMA ReturnsAfter ==
  ASSUME FreshInv, ServerInv, NEW t \in Threads, Operation(t)
  PROVE  ret' = ret \/ \E e \in Result : Return(t, e)
<1>0. {"NONE", "NOMEM", "IO", "PERM", "NOTSUP", "NOTSOCK", "AGAIN", "INTR", "FAULT",
       "PENDING"} \subseteq Result
  BY DEF Result, LocalErrno
<1>1. ASSUME NEW op, NotSent(t, op)
      PROVE  \E e \in Result : Return(t, e)
  BY <1>0, <1>1, Zenon DEF NotSent
<1>2. ASSUME NEW op, Start(t, op)
      PROVE  ret' = ret \/ \E e \in Result : Return(t, e)
  BY <1>0, <1>1, <1>2, Zenon DEF Start, Send
<1>3. ASSUME NEW op, Reported(t, op)
      PROVE  \E e \in Result : Return(t, e)
  <2>1. Reply(t).err \in Errno
    BY <1>3, ReplyIs DEF Reported
  <2>2. Errno_to_local(Reply(t).err) \in Result
    BY <2>1 DEF Errno_to_local, Errno, Result, LocalErrno
  <2> QED
    BY <1>3, <2>2 DEF Reported
<1>4. ASSUME NEW op, Plain(t, op) \/ Changing(t, op)
      PROVE  ret' = ret \/ \E e \in Result : Return(t, e)
  BY <1>0, <1>2, <1>3, <1>4, Zenon DEF Plain, Changing
<1>5. CASE Rhizofs_getattr(t)
  BY <1>0, <1>1, <1>5, Zenon DEF Rhizofs_getattr, Send
<1>6. CASE Rhizofs_getattr_remote(t) \/ Rhizofs_readdir(t)
  BY <1>0, <1>2, <1>3, <1>6, Zenon DEF Rhizofs_getattr_remote, Rhizofs_readdir
<1>7. CASE Rhizofs_mknod(t) \/ Rhizofs_chown(t) \/ GiveUp(t)
  BY <1>0, <1>4, <1>7, Zenon DEF Rhizofs_mknod, Rhizofs_chown, GiveUp
<1> QED
  BY <1>4, <1>5, <1>6, <1>7
     DEF Operation, Rhizofs_rmdir, Rhizofs_mkdir, Rhizofs_unlink, Rhizofs_access,
         Rhizofs_open, Rhizofs_create, Rhizofs_read, Rhizofs_write,
         Rhizofs_truncate, Rhizofs_chmod, Rhizofs_utimens, Rhizofs_link,
         Rhizofs_rename, Rhizofs_readlink, Rhizofs_symlink, Rhizofs_statfs

-----------------------------------------------------------------------------

FsInv == FsTypeOK /\ FreshInv /\ ServerInv

LEMMA InitFs == FsInit => FsInv
<1> SUFFICES ASSUME FsInit PROVE FsTypeOK
  BY InitFresh, InitServer DEF FsInv
<1>1. "NONE" \in Result
  BY DEF Result, LocalErrno
<1> QED
  BY <1>1, RhizoFSAssumption DEF FsInit, FsTypeOK

LEMMA NextFs == FsInv /\ [FsNext]_allvars => FsInv'
<1> SUFFICES ASSUME FsInv, [FsNext]_allvars PROVE FsTypeOK'
  BY FreshInvStep, NextServer DEF FsInv
<1>0. FreshInv /\ ServerInv /\ CacheOK /\ ret \in [Threads -> Result] /\ now \in 0 .. MaxTime
  BY DEF FsInv, FsTypeOK, CacheOK
<1>1. /\ call' \in [Threads -> {0} \cup Requests] /\ begun' \in [Requests -> Nat]
      /\ \A r \in Requests : begun'[r] <= now'
      /\ now' \in Nat
  BY <1>0, FreshInvStep DEF FreshInv, InTime, Clock
<1>2. begun' \in [Requests -> 0 .. now']
  BY <1>1
<1>3. now' \in 0 .. MaxTime /\ CacheOK' /\ ret' \in [Threads -> Result]
  <2>1. ASSUME now' = now, cache' = cache, ret' = ret
        PROVE  now' \in 0 .. MaxTime /\ CacheOK' /\ ret' \in [Threads -> Result]
    BY <1>0, <2>1 DEF CacheOK
  <2>2. ASSUME NEW t \in Threads, Operation(t)
        PROVE  now' \in 0 .. MaxTime /\ CacheOK' /\ ret' \in [Threads -> Result]
    <3>1. now' = now
      BY <1>0, <2>2, OperationKinds DEF Ends, Fills, Sends, Unaltered
    <3>2. ret' \in [Threads -> Result]
      BY <1>0, <2>2, ReturnsAfter DEF Return
    <3> QED
      BY <1>0, <2>2, <3>1, <3>2, CacheAfter
  <2>3. CASE Tick
    <3>1. now' = now + 1 /\ now < MaxTime /\ cache' = cache /\ ret' = ret
      BY <2>3 DEF Tick
    <3>2. now' \in 0 .. MaxTime
      BY <1>0, <3>1, RhizoFSAssumption
    <3>3. \A p \in Paths : cache[p] # None => cache[p].ts <= now + 1
      BY <1>0 DEF CacheOK, CacheEntry
    <3>4. CacheOK'
      BY <1>0, <3>1, <3>3 DEF CacheOK
    <3> QED
      BY <1>0, <3>1, <3>2, <3>4
  <2>4. ASSUME NEW r \in Requests, Deliver(r) \/ Serve(r)
        PROVE  now' = now /\ cache' = cache /\ ret' = ret
    BY <2>4 DEF Deliver, Serve, client
  <2>5. CASE UNCHANGED allvars
    BY <2>1, <2>5 DEF allvars, client
  <2> QED
    BY <2>1, <2>2, <2>3, <2>4, <2>5 DEF FsNext
<1> QED
  BY <1>1, <1>2, <1>3 DEF FsTypeOK, CacheOK

(***************************************************************************)
(* For any number of threads, whatever the server answers or leaves out:   *)
(* every operation of rhizofs.c returns an errno the local system knows,   *)
(* what the cache holds are attributes, also when an answer without an     *)
(* errno has none, and no entry is from the future.                        *)
(***************************************************************************)
THEOREM ClientTypes == FsSpec => []FsTypeOK
<1>1. FsInv => FsTypeOK
  BY DEF FsInv
<1> QED
  BY <1>1, InitFs, NextFs, PTL DEF FsSpec

-----------------------------------------------------------------------------
(* When a client with one thread sees its own changes.                     *)

(***************************************************************************)
(* The operations that change nothing on the server.                       *)
(***************************************************************************)
Asking == {"PING", "INVALID", "READDIR", "READLINK", "GETATTR", "STATFS", "ACCESS", "READ"}

Unmoved(t, S) == \A o \in S : o.tree = t

LEMMA CallsThatAsk ==
  ASSUME NEW t, NEW p
  PROVE  /\ Unmoved(t, LookThrough(t, p) \cup Refused(t))
         /\ Unmoved(t, Found(t, p, IF Kind(t, p) = "lnk" THEN Succeeds(t)
                                   ELSE Fails("INVAL", t)) \cup Refused(t))
         /\ \A r : Unmoved(t, Open(t, p, {}, r) \cup Refused(t))
<1>1. Unmoved(t, Refused(t))
  BY DEF Unmoved, Refused, Fails
<1>2. Unmoved(t, LookThrough(t, p))
  BY DEF Unmoved, LookThrough, Followed, Found, Fails, Succeeds
<1>3. Unmoved(t, Found(t, p, IF Kind(t, p) = "lnk" THEN Succeeds(t) ELSE Fails("INVAL", t)))
  BY DEF Unmoved, Found, Fails, Succeeds
<1>4. \A r : Unmoved(t, Open(t, p, {}, r))
  BY DEF Unmoved, Open, Fails, Succeeds
<1> QED
  BY <1>1, <1>2, <1>3, <1>4 DEF Unmoved

LEMMA SyscallAsks ==
  ASSUME NEW r, NEW S, Syscall(r, S), Unmoved(tree, S \cup Refused(tree))
  PROVE  tree' = tree
BY DEF Syscall, Unmoved

\* The handlers of these operations leave the exported directory alone.
LEMMA AskingLeavesTree ==
  ASSUME NEW r \in Requests, job[r].op \in Asking, Handler(r)
  PROVE  tree' = tree
<1>1. CASE \/ MissingParameter(r) \/ ServeDir_fullpath_fails(r) \/ ConversionFails(r)
           \/ ServeDir_op_ping(r) \/ ServeDir_op_invalid(r) \/ ServeDir_op_getattr(r)
  BY <1>1 DEF MissingParameter, ServeDir_fullpath_fails, ConversionFails,
              ServeDir_op_ping, ServeDir_op_invalid, ServeDir_op_getattr
<1>2. CASE ServeDir_op_readdir(r)
  BY <1>2 DEF ServeDir_op_readdir, Opendir, CountEntries, Rewinddir, CloseAndAbort,
              FillEntry, FillFails, EndListing
<1>3. CASE ServeDir_op_access(r) \/ ServeDir_op_statfs(r)
  BY <1>3, SyscallAsks, CallsThatAsk DEF ServeDir_op_access, ServeDir_op_statfs
<1>4. CASE ServeDir_op_readlink(r)
  BY <1>4, SyscallAsks, CallsThatAsk DEF ServeDir_op_readlink
<1>5. CASE ServeDir_op_read(r)
  <2>1. ASSUME OpenFile(r, {}, "open") PROVE tree' = tree
    BY <2>1, CallsThatAsk DEF OpenFile, Unmoved
  <2> QED
    BY <1>5, <2>1 DEF ServeDir_op_read, CloseAndAbort
<1>6. ~ServeDir_op_rmdir(r) /\ ~ServeDir_op_unlink(r) /\ ~ServeDir_op_rename(r)
  BY DEF Asking, ServeDir_op_rmdir, ServeDir_op_unlink, ServeDir_op_rename, Serving
<1>7. ~ServeDir_op_link(r) /\ ~ServeDir_op_symlink(r) /\ ~ServeDir_op_mkdir(r)
  BY DEF Asking, ServeDir_op_link, ServeDir_op_symlink, ServeDir_op_mkdir, Serving
<1>8. ~ServeDir_op_open(r) /\ ~ServeDir_op_create(r) /\ ~ServeDir_op_write(r)
  BY DEF Asking, ServeDir_op_open, ServeDir_op_create, ServeDir_op_write, Serving
<1>9. ~ServeDir_op_truncate(r) /\ ~ServeDir_op_chmod(r) /\ ~ServeDir_op_utimens(r)
      /\ ~ServeDir_op_mknod(r)
  BY DEF Asking, ServeDir_op_truncate, ServeDir_op_chmod, ServeDir_op_utimens,
         ServeDir_op_mknod, Serving
<1> QED
  BY <1>1, <1>2, <1>3, <1>4, <1>5, <1>6, <1>7, <1>8, <1>9 DEF Handler

(***************************************************************************)
(* A thread whose request has changed something waits for a request of an  *)
(* operation that does.  What is in the cache, unless it was kept when a   *)
(* change was overlooked, and what the handler of a request has read whose *)
(* thread still waits, was there after the last change that was            *)
(* acknowledged.                                                           *)
(***************************************************************************)
Touching ==
  /\ DOMAIN touched = Threads
  /\ \A t \in Threads : touched[t] # {} => call[t] # 0 /\ job[call[t]].op \notin Asking

CacheSeen == \A p \in Paths : cache[p] # None => cache[p].attr \in since[p] \/ kept[p]

ReadSeen ==
  \A t \in Threads, p \in Paths : call[t] # 0 =>
    \A x : Reads(call[t], p, x) => x \in since[p]

SeenInv == DOMAIN since = Paths /\ Touching /\ CacheSeen /\ ReadSeen

\* what Record makes of since
LEMMA SinceIs ==
  ASSUME Record, NEW p \in Paths
  PROVE  /\ Lstat(tree', p) \in since'[p]
         /\ (\A t \in Threads : ~Acknowledges(t, p)) => since[p] \subseteq since'[p]
BY DEF Record

LEMMA TouchingAfter ==
  ASSUME Touching, Record, FreshInv,
         \/ tree' = tree /\ \A t \in Threads : call'[t] # 0 =>
              IF call[t] = 0 THEN TRUE
              ELSE call'[t] = call[t] /\ job'[call[t]].op = job[call[t]].op
         \/ /\ call' = call
            /\ \E r \in Requests :
                 /\ \A s \in Requests \ {r} : job'[s] = job[s]
                 /\ job[r].pc # "none" => job'[r].op = job[r].op
                 /\ job[r].op \in Asking => tree' = tree
  PROVE  Touching'
<1>0. call \in [Threads -> {0} \cup Requests]
      /\ \A t \in Threads : call[t] # 0 => job[call[t]].pc # "none"
  BY DEF FreshInv, InTime
<1>1. DOMAIN touched' = Threads
  BY DEF Record
<1> SUFFICES ASSUME NEW t \in Threads, touched'[t] # {}
             PROVE  call'[t] # 0 /\ job'[call'[t]].op \notin Asking
  BY <1>1 DEF Touching
<1>2. /\ call'[t] # 0
      /\ touched'[t] \in {touched[t], touched[t] \cup Altered}
      /\ job'[call'[t]] = job[call'[t]] => touched'[t] = touched[t]
  BY DEF Record
<1>3. tree' = tree => Altered = {}
  BY DEF Altered
<1>4. CASE touched[t] # {}
  <2>1. call[t] # 0 /\ job[call[t]].op \notin Asking /\ job[call[t]].pc # "none"
    BY <1>0, <1>4 DEF Touching
  <2>2. call'[t] = call[t] /\ job'[call[t]].op = job[call[t]].op
    BY <1>0, <1>2, <2>1
  <2> QED
    BY <2>1, <2>2
<1>5. CASE touched[t] = {}
  <2>1. Altered # {} /\ tree' # tree /\ job'[call'[t]] # job[call'[t]]
    BY <1>2, <1>3, <1>5
  <2>2. PICK r \in Requests :
          /\ call' = call /\ \A s \in Requests \ {r} : job'[s] = job[s]
          /\ job[r].pc # "none" => job'[r].op = job[r].op
          /\ job[r].op \notin Asking
    BY <2>1
  <2>3. call[t] = r
    BY <1>0, <1>2, <2>1, <2>2
  <2> QED
    BY <1>0, <1>2, <2>2, <2>3
<1> QED
  BY <1>4, <1>5

\* An operation that acknowledges a change has removed the path from the cache,
\* or it overlooks the path and leaves its entry.
LEMMA AckForgets ==
  ASSUME FsInv, Touching, NEW t \in Threads, Operation(t),
         NEW p \in Paths, Acknowledges(t, p)
  PROVE  /\ call'[t] = 0
         /\ cache'[p] = None \/ (Overlooks(t, p) /\ cache'[p] = cache[p])
<1>0. /\ t \in DOMAIN ret /\ t \in DOMAIN call /\ 0 \notin Requests
      /\ cache \in [Paths -> CacheEntry \cup {None}]
  BY DEF FsInv, FsTypeOK, Requests
<1>1. call[t] # 0 /\ call'[t] = 0 /\ ret'[t] = "NONE" /\ Reply(t).op \notin Asking
  BY DEF Acknowledges, Touching, Reply
<1>2. ASSUME NEW e, Return(t, e)
      PROVE  e = "NONE"
  BY <1>0, <1>1, <1>2 DEF Return
<1>3. \A op : ~MayAsk(t, op)
  BY <1>1 DEF MayAsk
<1>4. \A op : ~Start(t, op)
  <2>1. \A op, q, w, f : ~NotSent(t, op) /\ ~Send(t, op, q, w, f)
    BY <1>3 DEF NotSent, Send
  <2> QED
    BY <2>1, Zenon DEF Start
<1>5. \A op : ~Reported(t, op)
  <2> SUFFICES ASSUME NEW op, Reported(t, op) PROVE FALSE
    OBVIOUS
  <2>1. Reply(t).err # "NONE" /\ Errno_to_local(Reply(t).err) = "NONE"
    BY <1>2 DEF Reported
  <2> QED
    BY <2>1 DEF Errno_to_local
<1>6. ASSUME NEW op, Plain(t, op)
      PROVE  op = Reply(t).op /\ cache' = cache
  BY <1>1, <1>4, <1>5, <1>6, Zenon DEF Plain, Acknowledged, Answered
<1>7. ASSUME NEW op, Changing(t, op)
      PROVE  cache'[p] = None \/ (Overlooks(t, p) /\ cache'[p] = cache[p])
  <2>1. AttrCache_remove(Reply(t).path)
    BY <1>1, <1>4, <1>5, <1>7, Zenon DEF Changing
  <2> QED
    BY <1>0, <2>1 DEF AttrCache_remove, Overlooks
<1>8. ~Rhizofs_getattr(t) /\ ~Rhizofs_chown(t)
  BY <1>1 DEF Rhizofs_getattr, Rhizofs_chown
<1>9. ~Rhizofs_getattr_remote(t) /\ ~Rhizofs_readdir(t)
  <2>1. \A op : Acknowledged(t, op) => op \notin Asking
    BY <1>1 DEF Acknowledged, Answered
  <2>2. ~Acknowledged(t, "GETATTR") /\ ~Acknowledged(t, "READDIR")
    BY <2>1 DEF Asking
  <2> QED
    BY <1>4, <1>5, <2>2, Zenon DEF Rhizofs_getattr_remote, Rhizofs_readdir
<1>10. ~GiveUp(t)
  BY <1>2, Zenon DEF GiveUp
<1>11. ASSUME NEW op \in {"MKDIR", "OPEN", "CREATE", "LINK", "SYMLINK", "MKNOD"}, Plain(t, op)
       PROVE  Overlooks(t, p) /\ cache'[p] = cache[p]
  BY <1>6, <1>11 DEF Overlooks, Opening
<1>12. \A op \in {"ACCESS", "READ", "READLINK", "STATFS"} : ~Plain(t, op)
  BY <1>1, <1>6 DEF Asking
<1>13. Rhizofs_mknod(t) => Plain(t, "MKNOD")
  BY <1>1 DEF Rhizofs_mknod
<1> QED
  BY <1>1, <1>7, <1>8, <1>9, <1>10, <1>11, <1>12, <1>13
     DEF Operation, Rhizofs_rmdir, Rhizofs_mkdir, Rhizofs_unlink, Rhizofs_access,
         Rhizofs_open, Rhizofs_create, Rhizofs_read, Rhizofs_write,
         Rhizofs_truncate, Rhizofs_chmod, Rhizofs_utimens, Rhizofs_link,
         Rhizofs_rename, Rhizofs_readlink, Rhizofs_symlink, Rhizofs_statfs

LEMMA SeenOperation ==
  ASSUME FsInv, SeenInv, \A s, t \in Threads : s = t, NEW t \in Threads, Operation(t), Record
  PROVE  SeenInv'
<1>0. FreshInv /\ DOMAIN cache = Paths /\ call \in [Threads -> {0} \cup Requests]
  BY DEF FsInv, FsTypeOK
<1>1. DOMAIN since' = Paths
  BY DEF Record
<1>2. \A p \in Paths : Acknowledges(t, p) =>
        /\ call'[t] = 0
        /\ cache'[p] = None \/ (Overlooks(t, p) /\ cache'[p] = cache[p])
  BY AckForgets DEF SeenInv
<1>3. \A p \in Paths : ~Acknowledges(t, p) => since[p] \subseteq since'[p]
  BY SinceIs
<1>3a. \A p \in Paths : cache'[p] # None /\ cache'[p] = cache[p]
                          /\ (kept[p] \/ Overlooks(t, p)) => kept'[p]
  BY DEF Record
<1>4. Ends(t) \/ Fills(t) \/ \E r \in Requests : Sends(t, r)
  BY <1>0, OperationKinds
<1>5. CacheSeen'
  <2> SUFFICES ASSUME NEW p \in Paths, cache'[p] # None
               PROVE  cache'[p].attr \in since'[p] \/ kept'[p]
    BY DEF CacheSeen
  <2>0. CASE Acknowledges(t, p)
    BY <1>2, <1>3a, <2>0
  <2>1. SUFFICES ASSUME since[p] \subseteq since'[p]
                 PROVE  cache'[p].attr \in since'[p] \/ kept'[p]
    BY <1>3, <2>0
  <2>2. CASE cache'[p] = cache[p]
    BY <1>3a, <2>1, <2>2 DEF SeenInv, CacheSeen
  <2>3. ASSUME NEW x, cache'[p] = [attr |-> x, ts |-> now], call[t] # 0, Reads(call[t], p, x)
        PROVE  cache'[p].attr \in since'[p]
    <3>1. x \in since[p]
      BY <2>3 DEF SeenInv, ReadSeen
    <3> QED
      BY <2>1, <2>3, <3>1
  <2> QED
    BY <1>4, <2>2, <2>3 DEF Ends, Fills, Sends, Forgets
<1>6. ReadSeen'
  <2> SUFFICES ASSUME call'[t] # 0, NEW p \in Paths, NEW x, Reads(call[t], p, x)'
               PROVE  x \in since'[p]
    BY DEF ReadSeen
  <2>1. since[p] \subseteq since'[p]
    BY <1>2, <1>3
  <2>2. CASE Ends(t) \/ Fills(t)
    <3>1. call' = call /\ job' = job
      BY <1>0, <2>2 DEF Ends, Fills, Unaltered
    <3>2. Reads(call[t], p, x)
      BY <3>1 DEF Reads
    <3> QED
      BY <2>1, <3>1, <3>2 DEF SeenInv, ReadSeen
  <2>3. ASSUME NEW r \in Requests, Sends(t, r)
        PROVE  FALSE
    <3>1. call'[t] = r
      BY <1>0, <2>3 DEF Sends
    <3>2. job'[r].attrs = None /\ DOMAIN job'[r].entries = {}
      BY <1>0, <2>3 DEF Sends, FreshInv, Unread
    <3> QED
      BY <3>1, <3>2 DEF Reads
  <2> QED
    BY <1>4, <2>2, <2>3
<1>7. Touching'
  <2>1. tree' = tree /\ \A s \in Threads : call'[s] # 0 =>
          IF call[s] = 0 THEN TRUE
          ELSE call'[s] = call[s] /\ job'[call[s]].op = job[call[s]].op
    BY <1>0, <1>4 DEF Ends, Fills, Sends, Unaltered
  <2> QED
    BY <1>0, <2>1, TouchingAfter DEF SeenInv
<1> QED
  BY <1>1, <1>5, <1>6, <1>7 DEF SeenInv

\* The steps of the server, and time.
LEMMA SeenServer ==
  ASSUME FsInv, SeenInv, call' = call, cache' = cache, Record, Touching',
         \/ job' = job
         \/ \E r \in Requests :
              Silent(r) \/ ReadsAttrs(r) \/ \E n \in Names : ReadsEntry(r, n)
  PROVE  SeenInv'
<1>0. call \in [Threads -> {0} \cup Requests]
  BY DEF FsInv, FsTypeOK
<1>1. \A p \in Paths : Lstat(tree', p) \in since'[p] /\ since[p] \subseteq since'[p]
  BY SinceIs DEF Acknowledges
<1>2. DOMAIN since' = Paths /\ CacheSeen'
  <2>1. DOMAIN since' = Paths /\ \A p \in Paths : cache[p] # None /\ kept[p] => kept'[p]
    BY DEF Record
  <2> QED
    BY <1>1, <2>1 DEF SeenInv, CacheSeen
<1>3. ReadSeen'
  <2> SUFFICES ASSUME NEW t \in Threads, call[t] # 0, NEW p \in Paths, NEW x,
                      Reads(call[t], p, x)'
               PROVE  x \in since'[p]
    BY DEF ReadSeen
  <2>0. PICK s \in Requests : s = call[t]
    BY <1>0
  <2>1. Reads(s, p, x) => x \in since'[p]
    BY <1>1, <2>0 DEF SeenInv, ReadSeen
  <2>2. Reads(s, p, x)'
    BY <2>0 DEF Reads
  <2>3. CASE job' = job
    BY <2>1, <2>2, <2>3 DEF Reads
  <2>4. ASSUME NEW r \in Requests,
               Silent(r) \/ ReadsAttrs(r) \/ \E n \in Names : ReadsEntry(r, n)
        PROVE  x \in since'[p]
    <3>1. CASE s # r
      <4>1. job'[s] = job[s]
        BY <2>4, <3>1 DEF Silent, ReadsAttrs, ReadsEntry, Keeps
      <4> QED
        BY <2>1, <2>2, <4>1 DEF Reads
    <3>2. CASE s = r /\ Silent(r)
      BY <2>1, <2>2, <3>2 DEF Silent, Reads
    <3>3. CASE s = r /\ ReadsAttrs(r)
      <4>1. /\ job'[r].path = job[r].path /\ job'[r].entries = job[r].entries /\ tree' = tree
            /\ job'[r].attrs # None => job'[r].attrs = Lstat(tree, job[r].path)
        BY <3>3 DEF ReadsAttrs
      <4> QED
        BY <1>1, <2>1, <2>2, <3>3, <4>1 DEF Reads
    <3>4. ASSUME s = r, NEW n \in Names, ReadsEntry(r, n)
          PROVE  x \in since'[p]
      <4>1. /\ job'[r].path = job[r].path /\ job'[r].attrs = job[r].attrs /\ tree' = tree
            /\ job'[r].entries = [m \in DOMAIN job[r].entries \cup {n} |->
                                    IF m = n THEN Lstat(tree, Append(job[r].path, n))
                                    ELSE job[r].entries[m]]
        BY <3>4 DEF ReadsEntry
      <4>2. CASE job'[r].attrs # None /\ p = job'[r].path /\ x = job'[r].attrs
        BY <2>1, <3>4, <4>1, <4>2 DEF Reads
      <4>3. ASSUME NEW m \in DOMAIN job'[r].entries,
                   p = Append(job'[r].path, m), x = job'[r].entries[m]
            PROVE  x \in since'[p]
        <5>1. CASE m = n
          <6>1. x = Lstat(tree, p)
            BY <4>1, <4>3, <5>1
          <6> QED
            BY <1>1, <4>1, <6>1
        <5>2. CASE m # n
          <6>1. m \in DOMAIN job[r].entries /\ x = job[r].entries[m] /\ p = Append(job[r].path, m)
            BY <4>1, <4>3, <5>2
          <6> QED
            BY <2>1, <3>4, <6>1 DEF Reads
        <5> QED
          BY <5>1, <5>2
      <4> QED
        BY <2>2, <3>4, <4>2, <4>3 DEF Reads
    <3> QED
      BY <2>4, <3>1, <3>2, <3>3, <3>4
  <2> QED
    BY <2>3, <2>4
<1> QED
  BY <1>2, <1>3 DEF SeenInv

LEMMA InitSeen == FsInit => SeenInv
BY DEF FsInit, SeenInv, CacheSeen, ReadSeen, Touching

LEMMA NextSeen ==
  ASSUME \A s, t \in Threads : s = t
  PROVE  FsInv /\ SeenInv /\ [FsNext]_allvars => SeenInv'
<1> SUFFICES ASSUME FsInv, SeenInv, [FsNext]_allvars PROVE SeenInv'
  OBVIOUS
<1>0. FreshInv
  BY DEF FsInv
<1>1. CASE UNCHANGED allvars
  <2>1. /\ cache' = cache /\ call' = call /\ since' = since /\ job' = job
        /\ kept' = kept /\ touched' = touched
    BY <1>1 DEF allvars, vars, client, records
  <2> QED
    BY <2>1 DEF SeenInv, CacheSeen, ReadSeen, Reads, Touching
<1>2. CASE FsNext
  <2>1. Record
    BY <1>2 DEF FsNext
  <2>2. ASSUME NEW t \in Threads, Operation(t) PROVE SeenInv'
    BY <2>1, <2>2, SeenOperation
  <2>3. ASSUME NEW r \in Requests, Deliver(r) \/ Serve(r) PROVE SeenInv'
    <3>1. call' = call /\ cache' = cache
      BY <2>3 DEF Deliver, Serve, client
    <3>2. Silent(r) \/ ReadsAttrs(r) \/ \E n \in Names : ReadsEntry(r, n)
      BY <1>0, <2>3, DeliverSilent, HandlerKinds DEF Serve, FreshInv, Sound
    <3>3. Touching'
      <4>1. CASE Deliver(r)
        <5>1. tree' = tree /\ \A s \in Requests : job'[s].op = job[s].op
          BY <1>0, <4>1, FieldNames DEF Deliver, FreshInv, Sound, Shape
        <5>2. \A s \in Threads : call[s] # 0 => call[s] \in Requests
          BY <1>0 DEF FreshInv, InTime
        <5> QED
          BY <1>0, <2>1, <3>1, <5>1, <5>2, TouchingAfter DEF SeenInv
      <4>2. CASE Serve(r)
        <5>1. Handler(r) /\ TInv /\ DInv
          BY <4>2 DEF Serve, FsInv, ServerInv
        <5>2. PICK j : Turn(r, j)
          BY <5>1, EveryTurn
        <5>3. /\ job'[r] = j /\ \A s \in Requests \ {r} : job'[s] = job[s]
              /\ job[r].pc # "none" => j.op = job[r].op
          BY <5>1, <5>2, JobsAfter DEF TInv, Turn
        <5>4. job[r].op \in Asking => tree' = tree
          BY <5>1, AskingLeavesTree
        <5> QED
          BY <1>0, <2>1, <3>1, <5>3, <5>4, TouchingAfter DEF SeenInv
      <4> QED
        BY <2>3, <4>1, <4>2
    <3> QED
      BY <2>1, <3>1, <3>2, <3>3, SeenServer
  <2>4. CASE Tick
    <3>1. call' = call /\ cache' = cache /\ job' = job /\ tree' = tree
      BY <2>4 DEF Tick
    <3>2. Touching'
      BY <1>0, <2>1, <3>1, TouchingAfter DEF SeenInv
    <3> QED
      BY <2>1, <3>1, <3>2, SeenServer
  <2> QED
    BY <1>2, <2>2, <2>3, <2>4 DEF FsNext
<1> QED
  BY <1>1, <1>2

(***************************************************************************)
(* A client that runs its operations one after the other (a mount with the *)
(* option -s), for any exported directory, links and directories included, *)
(* although requests it has given up may be executed at any time: when     *)
(* Rhizofs_getattr serves attributes from before a change of the client's  *)
(* own that was acknowledged, whichever operation made it and whichever    *)
(* path it changed, then the entry was in the cache when an operation      *)
(* returned that overlooks this path, and is there since then.             *)
(***************************************************************************)
THEOREM OneThreadStaleOnlyOverlooked ==
  ASSUME \A s, t \in Threads : s = t
  PROVE  FsSpec => []StaleOnlyOverlooked
<1>1. FsInit => FsInv /\ SeenInv
  BY InitFs, InitSeen
<1>2. FsInv /\ SeenInv /\ [FsNext]_allvars => FsInv' /\ SeenInv'
  BY NextFs, NextSeen
<1>3. SeenInv => StaleOnlyOverlooked
  BY DEF SeenInv, CacheSeen, StaleOnlyOverlooked, Servable
<1> QED
  BY <1>1, <1>2, <1>3, PTL DEF FsSpec
=============================================================================
