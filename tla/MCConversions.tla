--------------------------- MODULE MCConversions ---------------------------
(* Every mode, every combination of open flags and every error number of   *)
(* the table; times, payloads and paths at their boundaries.               *)
EXTENDS Conversions

Nanoseconds == {0, 999, 1000, 1999, 999999999}

MCTimes == {[sec |-> s, nsec |-> n] : s \in {-1, 7}, n \in Nanoseconds}

MCNow == {[sec |-> 9, nsec |-> 123456000]}

MCStats ==
    {[size |-> z, type |-> t, bits |-> b, nlink |-> 2, uid |-> u, gid |-> g,
      atime |-> a, mtime |-> m, ctime |-> a] :
        z \in {0, 5}, t \in {"S_IFREG", "S_IFLNK"}, b \in {420, 2541},
        u \in {"srv", "other"}, g \in {"srvgrp", "other"}, a, m \in MCTimes}

MCModes ==
    {[type |-> "none", bits |-> b] : b \in 0 .. 4095}
    \cup {[type |-> t, bits |-> b] : t \in FileTypes, b \in {0, 416, 2541}}

\* the access modes, with O_NONBLOCK and O_LARGEFILE among the others
MCFlags ==
    {access + creat + excl + trunc + append + other :
        access \in 0 .. 2, creat \in {0, 64}, excl \in {0, 128}, trunc \in {0, 512},
        append \in {0, 1024}, other \in {0, 2048, 32768, 34816}}

MCErrnos == {errno_map[i][2] : i \in DOMAIN errno_map} \cup {"ENOTEMPTY", "EXDEV", "ELOOP"}

MCStatVfss == [StatFsFields -> {3, 2 * SignBit - 1}]

MCPayloads ==
    LET lens == {0, 1, 14, 15, 100, 101, 104, 270, 4096, 24499, 24500, 65536, 131072}
    IN UNION {{[bytes |-> "data", len |-> n, lz4 |-> z, memory |-> m] :
                  z \in {1, n, n + 1, Literals(n)} \ {0}, m \in BOOLEAN} : n \in lens}

MCPath(n, f, l) == [len |-> n, first |-> f, last |-> l]

MCFolders  == {MCPath(1, TRUE, TRUE), MCPath(2, TRUE, FALSE), MCPath(9, TRUE, FALSE)}
MCRequests == MCFolders
MCNames    == {MCPath(1, FALSE, FALSE), MCPath(5, FALSE, FALSE)}
=============================================================================
