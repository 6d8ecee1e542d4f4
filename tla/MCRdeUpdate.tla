---------------------------- MODULE MCRdeUpdate ----------------------------
(* Instances of RdeUpdate for TLC: two writers, one volume, two topics, a  *)
(* window of two entries, a few accepted writes.                           *)
EXTENDS RdeUpdate, TLC

CONSTANTS w1, w2, p1, t1, t2
=============================================================================
