----------------------------- MODULE MCServeDir -----------------------------
(***************************************************************************)
(* Instances of ServeDir for model checking.                               *)
(***************************************************************************)
EXTENDS ServeDir, TLC

CONSTANTS root, f1, f2, f3, a, b

MCFiles == {root, f1, f2, f3}

MCAttr(k, l) ==
  [i \in Inodes |-> [kind |-> IF i = root THEN "dir"
                              ELSE IF i = f1 THEN k
                              ELSE IF i = f2 THEN l ELSE "reg",
                     by |-> 0]]

MCTree(k, l, where) ==
  [attr |-> MCAttr(k, l),
   at |-> [p \in Paths |-> IF p = <<>> THEN root
                           ELSE IF p \in DOMAIN where THEN where[p] ELSE None]]

(***************************************************************************)
(* A listing beside requests that change directories; a request of any     *)
(* type beside one that changes a directory or a file.                     *)
(***************************************************************************)
MCListOps == [r \in Requests |-> IF r = 1 THEN {"READDIR"}
                                 ELSE {"RENAME", "CREATE", "UNLINK"}]

MCAllOps == [r \in Requests |->
  IF r = 1 THEN AllOps
  ELSE {"RENAME", "MKDIR", "RMDIR", "CREATE", "UNLINK", "WRITE"}]

(***************************************************************************)
(* One file, beside it a name that is free.                                *)
(***************************************************************************)
MCFile == {MCTree("reg", "reg", <<a>> :> f1)}

(***************************************************************************)
(* A directory with a file in it beside an empty one; a file with two      *)
(* names; a symbolic link beside a directory with a file of two names.     *)
(***************************************************************************)
MCTrees ==
  {MCTree("dir", "dir", <<a>> :> f1 @@ <<b>> :> f2 @@ <<a, a>> :> f3),
   MCTree("reg", "reg", <<a>> :> f1 @@ <<b>> :> f1),
   MCTree("dir", "lnk", <<a>> :> f1 @@ <<b>> :> f2
                          @@ <<a, a>> :> f3 @@ <<a, b>> :> f3)}
=============================================================================
