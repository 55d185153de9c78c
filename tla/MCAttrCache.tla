---------------------------- MODULE MCAttrCache ----------------------------
(* Model values for the runs of AttrCache. *)
EXTENDS AttrCache, TLC

CONSTANTS t1, t2, p1, p2, n1, n2, n3

TwoThreads == {t1, t2}
TwoPaths   == {p1, p2}
ThreeNodes == {n1, n2, n3}
============================================================================
