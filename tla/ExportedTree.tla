---------------------------- MODULE ExportedTree ----------------------------
(***************************************************************************)
(* The directory a server exports, and the system calls the handlers of    *)
(* servedir.c make on it.  The file system itself is not part of rhizofs:  *)
(* this module states what the handlers rely on.                           *)
(*                                                                         *)
(* A path is the sequence of its names below the exported directory, <<>>  *)
(* is the directory itself.  What is below the second level is left out.   *)
(* Contents, permissions and times of a file are abstracted to the request *)
(* that changed them last.  Symbolic links lead out of the exported        *)
(* directory: a call that follows one finds nothing or a file that is not  *)
(* modelled.                                                               *)
(*                                                                         *)
(* Every call is an operator that yields the set of its outcomes, records  *)
(* with the errno and the tree after the call.                             *)
(***************************************************************************)
EXTENDS Naturals, Sequences, FiniteSets

CONSTANTS Names,      \* the names a directory entry may have
          Depth,      \* 1: only the exported directory; 2: one level below it
          Files,      \* the inodes that exist before the server starts
          RootInode,  \* the inode of the exported directory
          MaxRequest, \* the number of requests
          None        \* no inode, no attributes

Requests == 1 .. MaxRequest

(***************************************************************************)
(* A request creates at most one inode, which is named after it.           *)
(***************************************************************************)
Inodes == Files \cup Requests

Outside == 0  \* a file that a symbolic link leads to

ASSUME TreeAssumption ==
  /\ Depth \in {1, 2}
  /\ MaxRequest \in Nat
  /\ IsFiniteSet(Names)
  /\ RootInode \in Files
  /\ None \notin Files \cup Nat
  /\ Files \cap Nat = {}

Paths == {<<>>} \cup {<<n>> : n \in Names}
                \cup (IF Depth = 2 THEN {<<m, n>> : m, n \in Names} ELSE {})

Parent(p) == SubSeq(p, 1, Len(p) - 1)

Under(p, q) == Len(p) >= Len(q) /\ SubSeq(p, 1, Len(q)) = q

Children(p) == {q \in Paths : Len(q) = Len(p) + 1 /\ Under(q, p)}

Kinds == {"dir", "reg", "lnk"}

Attr == [kind : Kinds, by : 0 .. MaxRequest]

Tree == [at   : [Paths -> Inodes \cup {None}],
         attr : [Inodes -> Attr]]

Exists(t, p) == p \in Paths /\ t.at[p] # None

Kind(t, p) == t.attr[t.at[p]].kind

IsDir(t, p) == Exists(t, p) /\ Kind(t, p) = "dir"

IsEmpty(t, p) == \A q \in Children(p) : ~Exists(t, q)

(***************************************************************************)
(* What every tree satisfies: an entry is in a directory, and a directory  *)
(* has one name.                                                           *)
(***************************************************************************)
WellFormed(t) ==
  /\ t \in Tree
  /\ t.at[<<>>] = RootInode /\ Kind(t, <<>>) = "dir"
  /\ \A p \in Paths \ {<<>>} : Exists(t, p) => IsDir(t, Parent(p))
  /\ \A p, q \in Paths :
       IsDir(t, p) /\ t.at[p] = t.at[q] => p = q

(***************************************************************************)
(* The names in the directory with inode i, none once it is removed.       *)
(***************************************************************************)
NamesIn(t, i) ==
  {n \in Names : \E p \in Paths : /\ t.at[p] = i
                                  /\ Append(p, n) \in Paths
                                  /\ Exists(t, Append(p, n))}

-----------------------------------------------------------------------------

(***************************************************************************)
(* Outcomes.  Walk is the errno of resolving everything but the last name; *)
(* Unless(e, t, S) fails with it and otherwise has the outcomes S.         *)
(***************************************************************************)
Fails(e, t) == {[err |-> e, tree |-> t]}

Succeeds(t) == {[err |-> "NONE", tree |-> t]}

Walk(t, p) ==
  IF p = <<>> \/ IsDir(t, Parent(p)) THEN "NONE"
  ELSE IF Exists(t, Parent(p)) THEN "NOTDIR" ELSE "NOENT"

Found(t, p, S) ==
  IF Walk(t, p) # "NONE" THEN Fails(Walk(t, p), t)
  ELSE IF ~Exists(t, p) THEN Fails("NOENT", t)
  ELSE S

(***************************************************************************)
(* For calls that follow a link: S when the path is no link.               *)
(***************************************************************************)
Followed(t, p, S) ==
  Found(t, p, IF Kind(t, p) = "lnk" THEN Fails("NOENT", t) \cup Succeeds(t)
              ELSE S)

Changed(t, i, r) == [t EXCEPT !.attr[i].by = r]

Touch(t, p, r) == Changed(t, t.at[p], r)

New(t, p, kind, r) ==
  [t EXCEPT !.at[p] = r, !.attr[r] = [kind |-> kind, by |-> r]]

Lstat(t, p) ==
  IF Walk(t, p) = "NONE" /\ Exists(t, p) THEN t.attr[t.at[p]] ELSE None

-----------------------------------------------------------------------------

Look(t, p) == Found(t, p, Succeeds(t))

LookThrough(t, p) == Followed(t, p, Succeeds(t))

Update(t, p, r) == Followed(t, p, Succeeds(Touch(t, p, r)))

Truncate(t, p, r) ==
  Followed(t, p, IF Kind(t, p) = "dir" THEN Fails("ISDIR", t)
                 ELSE Succeeds(Touch(t, p, r)))

Make(t, p, kind, r) ==
  IF Walk(t, p) # "NONE" THEN Fails(Walk(t, p), t)
  ELSE IF Exists(t, p) THEN Fails("EXIST", t)
  ELSE Succeeds(New(t, p, kind, r))

Rmdir(t, p) ==
  Found(t, p, IF Kind(t, p) # "dir" THEN Fails("NOTDIR", t)
              ELSE IF ~IsEmpty(t, p) THEN Fails("NOTEMPTY", t)
              ELSE Succeeds([t EXCEPT !.at[p] = None]))

Unlink(t, p) ==
  Found(t, p, IF Kind(t, p) = "dir" THEN Fails("ISDIR", t)
              ELSE Succeeds([t EXCEPT !.at[p] = None]))

Link(t, p, q) ==
  Found(t, p, IF Kind(t, p) = "dir" THEN Fails("PERM", t)
              ELSE IF Walk(t, q) # "NONE" THEN Fails(Walk(t, q), t)
              ELSE IF Exists(t, q) THEN Fails("EXIST", t)
              ELSE Succeeds([t EXCEPT !.at[q] = t.at[p]]))

(***************************************************************************)
(* The entries below p move with it; what was at q is replaced.  A move    *)
(* that would take entries below the last level modelled is refused, which *)
(* any call may be.                                                        *)
(***************************************************************************)
TooDeep(t, p, q) ==
  \E x \in Paths : /\ Under(x, p) /\ Exists(t, x)
                   /\ q \o SubSeq(x, Len(p) + 1, Len(x)) \notin Paths

Moved(t, p, q) ==
  [t EXCEPT !.at = [x \in Paths |->
     IF Under(x, q)
     THEN LET y == p \o SubSeq(x, Len(q) + 1, Len(x))
          IN  IF y \in Paths THEN t.at[y] ELSE None
     ELSE IF Under(x, p) THEN None ELSE t.at[x]]]

Rename(t, p, q) ==
  Found(t, p,
    IF Walk(t, q) # "NONE" THEN Fails(Walk(t, q), t)
    ELSE IF p # q /\ Under(q, p) THEN Fails("INVAL", t)
    ELSE IF t.at[p] = t.at[q] THEN Succeeds(t)
    ELSE IF IsDir(t, q) /\ Kind(t, p) # "dir" THEN Fails("ISDIR", t)
    ELSE IF Exists(t, q) /\ ~IsDir(t, q) /\ Kind(t, p) = "dir"
         THEN Fails("NOTDIR", t)
    ELSE IF IsDir(t, q) /\ ~IsEmpty(t, q) THEN Fails("NOTEMPTY", t)
    ELSE IF TooDeep(t, p, q) THEN Fails("ACCES", t)
    ELSE Succeeds(Moved(t, p, q)))

(***************************************************************************)
(* open(2): flags is a subset of {"creat", "excl", "trunc", "write"}.      *)
(***************************************************************************)
Open(t, p, flags, r) ==
  IF Walk(t, p) # "NONE" THEN Fails(Walk(t, p), t)
  ELSE IF ~Exists(t, p)
       THEN IF "creat" \in flags THEN Succeeds(New(t, p, "reg", r))
            ELSE Fails("NOENT", t)
  ELSE IF {"creat", "excl"} \subseteq flags THEN Fails("EXIST", t)
  ELSE IF Kind(t, p) = "lnk" THEN Fails("NOENT", t) \cup Succeeds(t)
  ELSE IF Kind(t, p) = "dir" /\ flags # {} THEN Fails("ISDIR", t)
  ELSE Succeeds(IF "trunc" \in flags THEN Touch(t, p, r) ELSE t)

(***************************************************************************)
(* The file a successful open has opened.                                  *)
(***************************************************************************)
OpenedInode(t, p) == IF Kind(t, p) = "lnk" THEN Outside ELSE t.at[p]
=============================================================================
