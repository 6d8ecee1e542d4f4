--------------------------- MODULE RollingWindow ---------------------------
(***************************************************************************)
(* The error and event sets of an RDE are lists with a window: a new entry *)
(* goes to the end, and the oldest makes room for it once Window are there *)
(* (vcdsdk/defined_entity.go).  Entries are removed by their topic.        *)
(***************************************************************************)
EXTENDS Naturals, Sequences, FiniteSets

CONSTANT Window  \* DefaultWindowSize: 10 in the source

ASSUME WindowIsSane == Window \in Nat \ {0}

\* Mutant of Rolled: the oldest entry goes as soon as the window is full.
RolledEarly(s, t) == LET longer == Append(s, t)
                     IN IF Len(longer) >= Window THEN Tail(longer) ELSE longer

(* Appends to a rolling window and drops its oldest entry if it was full.  *)
Rolled(s, t) == LET longer == Append(s, t)
                IN IF Len(longer) > Window THEN Tail(longer) ELSE longer

(* The entries of other topics, in their order: the k-th of them is the    *)
(* one with k of them up to its place.  (A SelectSeq gives the same; the   *)
(* provers know nothing of that operator.)                                 *)
Without(s, t) ==
    LET kept == {i \in DOMAIN s : s[i] # t}
        UpTo(i) == Cardinality({j \in kept : j <= i})
    IN  [k \in 1..Cardinality(kept) |-> s[CHOOSE i \in kept : UpTo(i) = k]]

Has(s, t) == \E i \in DOMAIN s : s[i] = t
=============================================================================
