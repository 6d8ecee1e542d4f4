---------------------------- MODULE MCRdeUpgrade ---------------------------
(* Instances of RdeUpgrade for TLC.                                        *)
EXTENDS RdeUpgrade

CONSTANTS d1, d2, p1
=============================================================================
