--------------------------- MODULE MCVolumeExpand --------------------------
(* An instance of VolumeExpand for TLC: v1 is written by one node at a     *)
(* time and attached at first; two processes expand it.  v2 is a block     *)
(* volume that several nodes may write.                                    *)
EXTENDS VolumeExpand

CONSTANTS v1, v2, r1, r2, n1

FirstByBoth == {<<r1, v1>>, <<r2, v1>>, <<r1, v2>>}
OneShared == [v \in Volumes |-> IF v = v2 THEN "MULTI_NODE_MULTI_WRITER"
                                          ELSE "SINGLE_NODE_WRITER"]
OneBlock == [v \in Volumes |-> IF v = v2 THEN "Block" ELSE "Filesystem"]
FirstAttached == [v \in Volumes |-> IF v = v1 THEN {n1} ELSE {}]
=============================================================================
