--------------------------- MODULE MCCommunicate ---------------------------
(* Model values for the runs of Communicate. *)
EXTENDS Communicate, TLC

CONSTANTS t1, t2, main, w1, w2

OneThread  == {t1}
TwoThreads == {t1, t2}
OneWorker  == {w1}
TwoWorkers == {w1, w2}

\* threads and workers are interchangeable in the safety runs
Symmetry == Permutations(TwoThreads) \cup Permutations(TwoWorkers)
============================================================================
