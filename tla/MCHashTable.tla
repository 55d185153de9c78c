---------------------------- MODULE MCHashTable ----------------------------
(* Instances of HashTable for TLC: hash values that meet in a chain until  *)
(* the table has grown, some that always meet, and some that never do.     *)
EXTENDS HashTable

HashValues == [k \in Key |-> CASE k = 1 -> 0 [] k = 2 -> 4 [] k = 3 -> 8
                               [] k = 4 -> 16 [] OTHER -> k]
============================================================================
