--------------------------- MODULE MCCsiController --------------------------
(* Instances of CsiController for TLC: one or two volumes, two nodes, at   *)
(* most two calls in progress, as many disks as the faults can make.       *)
EXTENDS CsiController, TLC

CONSTANTS h1, h2, n1, n2, v1, v2, d1, d2, d3, o1, o2, rwo, rwx

\* Every class asks for a disk that is not shareable.
AllRwo == [n \in Names |-> rwo]

\* Every volume is created in the first OVDC.
AllFirst == [n \in Names |-> o1]

NoDisks == [d \in {} |-> None]

\* A shareable disk made by hand under the name of a volume ...
StaticRwx == d1 :> [name |-> n1, spec |-> rwx, ovdc |-> o1]

\* ... and one in an OVDC the volume would not be created in.
StaticElsewhere == d1 :> [name |-> n1, spec |-> rwo, ovdc |-> o2]

\* InitialDisks names a disk, but only Init looks at it: the steps and the
\* invariants treat all disks alike.
SymAll == Permutations(Handlers) \union Permutations(Vms) \union Permutations(Disks)
=============================================================================
