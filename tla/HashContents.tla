---------------------------- MODULE HashContents ----------------------------
(***************************************************************************)
(* What the attribute cache expects of its hash table: a set of keys that  *)
(* changes by one key at a time.  Growing, shrinking, scanning and         *)
(* clearing the table are not to be seen here.                             *)
(***************************************************************************)
CONSTANT Key
VARIABLE keys

Init == keys = {}

Add(k) == k \notin keys /\ keys' = keys \cup {k}

Remove(k) == k \in keys /\ keys' = keys \ {k}

Next == \E k \in Key : Add(k) \/ Remove(k)

Spec == Init /\ [][Next]_keys
=============================================================================
