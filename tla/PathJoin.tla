------------------------------ MODULE PathJoin ------------------------------
(***************************************************************************)
(* path_join (src/src/path.c): one path is appended to another, with a     *)
(* separator between them.  A path is its length and whether it begins and *)
(* ends with a separator.                                                  *)
(***************************************************************************)
EXTENDS Integers

Path == {p \in [len : Nat, first : BOOLEAN, last : BOOLEAN] :
            /\ p.len = 0 => ~ p.first /\ ~ p.last
            /\ p.len = 1 => p.first = p.last}

\* What realpath returns ends with a separator only if it is "/"; a path in a request
\* begins with one; the name of a directory entry has none.
Folder  == {p \in Path : p.first /\ (p.last => p.len = 1)}
Request == {p \in Path : p.first}
Name    == {p \in Path : p.len # 0 /\ ~ p.first /\ ~ p.last}

add_seperator(path1, path2) ==
    path1.len # 0 /\ ~ path1.last /\ ~ (path2.len # 0 /\ path2.first)

\* mutant: a separator in front of the second path is not looked at
lenpathjoined_NotFirst(path1, path2) ==
    path1.len + path2.len + (IF path1.len # 0 /\ ~ path1.last THEN 1 ELSE 0)

\* what calloc is asked for, less the terminating zero
lenpathjoined(path1, path2) ==
    (IF path1.len = 0 THEN 0 ELSE IF path1.last THEN path1.len ELSE path1.len + 1)
    + (IF path2.len = 0 THEN 0 ELSE IF path2.first THEN path2.len - 1 ELSE path2.len)

\* [buffer, written]: the bytes allocated, and those up to the end of the last
\* strcpy; [path]: the result; [separators]: where the two meet
path_join(path1, path2) ==
    LET add == IF add_seperator(path1, path2) THEN 1 ELSE 0 IN
    [buffer |-> lenpathjoined(path1, path2) + 1,
     written |-> path1.len + add + path2.len + 1,
     path |-> [len |-> path1.len + add + path2.len,
               first |-> IF path1.len = 0 THEN path2.first ELSE path1.first,
               last |-> IF path2.len = 0 THEN path1.last \/ add = 1 ELSE path2.last],
     separators |-> (IF path1.last THEN 1 ELSE 0) + add + (IF path2.first THEN 1 ELSE 0)]
=============================================================================
