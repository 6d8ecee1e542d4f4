---------------------------- MODULE MCNodeMounts ---------------------------
(* Instances of NodeMounts for TLC: two pods on one node and one on        *)
(* another.                                                                *)
EXTENDS NodeMounts

CONSTANTS n1, n2, q1, q2, q3

OneNode == [p \in Pods |-> n1]
TwoNodes == [p \in Pods |-> IF p = q3 THEN n2 ELSE n1]
=============================================================================
