----------------------------- MODULE MCRhizoFS ------------------------------
(***************************************************************************)
(* Instances of RhizoFS for model checking.                                *)
(***************************************************************************)
EXTENDS RhizoFS, TLC

CONSTANTS root, f1, f2, a, b, t1, t2

MCFiles == {root, f1, f2}

(***************************************************************************)
(* An exported directory with a file and a symbolic link, so that what is  *)
(* at the two names can be told apart after a rename; and one with a file  *)
(* of two names.                                                           *)
(***************************************************************************)
MCExports ==
  {[attr |-> [i \in Inodes |-> [kind |-> IF i = root THEN "dir"
                                         ELSE IF i = f2 THEN "lnk" ELSE "reg",
                                by |-> 0]],
    at |-> [p \in Paths |-> CASE p = <<>> -> root
                              [] p = <<a>> -> f1
                              [] p = <<b>> -> f
                              [] OTHER -> None]] : f \in {f1, f2}}

(***************************************************************************)
(* A request that fills the cache, or one that may be executed late; then  *)
(* any operation.                                                          *)
(***************************************************************************)
MCAllOps == [r \in Requests |-> IF r = 1 THEN {"GETATTR", "TRUNCATE"}
                                ELSE AllOps]

MCFlags == {{}, {"trunc", "write"}}

(***************************************************************************)
(* States that differ only in which result an operation has returned last: *)
(* no step depends on it.                                                  *)
(***************************************************************************)
MCView == <<vars, now, call, begun, cache, records, ret \in [Threads -> Result]>>

(***************************************************************************)
(* The first request asks, the other one changes a file.                   *)
(***************************************************************************)
MCAskOps == [r \in Requests |-> IF r = 1 THEN {"GETATTR", "READDIR"}
                                ELSE {"TRUNCATE"}]
=============================================================================
