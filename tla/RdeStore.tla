------------------------------ MODULE RdeStore -----------------------------
(***************************************************************************)
(* What an update of the RDE promises its caller (the comments of          *)
(* AddToErrorSet and its siblings, vcdsdk/defined_entity.go:199-215): it   *)
(* takes effect on the document as it is at that moment, at most once, and *)
(* nil is returned only for an update that was made or was not required -  *)
(* or, of an entity that is not native, for one that was given up after    *)
(* Tries other updates had come before it.                                 *)
(***************************************************************************)
EXTENDS RdeDocument

CONSTANTS Writers, Tries

VARIABLES doc, writes, call

storeVars == <<doc, writes, call>>

Idle == [at |-> "idle"]

StoreInit == /\ doc \in EmptyDocuments
             /\ writes = 0
             /\ call = [w \in Writers |-> Idle]

Asked(w) == call[w].at = "asked"

Answered(w, result) ==
    call' = [call EXCEPT ![w] = [at |-> "done", result |-> result]]

Written(d) == doc' = d /\ writes' = writes + 1

Ask(w, op) ==
    /\ call[w].at # "asked"
    /\ call' = [call EXCEPT ![w] = [at |-> "asked", op |-> op, since |-> writes]]
    /\ UNCHANGED <<doc, writes>>

(* The update is made.  If the reply is lost the caller is told of an      *)
(* error all the same.                                                     *)
Make(w) ==
    /\ Asked(w)
    /\ Written(Changed(call[w].op, doc))
    /\ \E result \in {"nil", "error"} : Answered(w, result)

Refuse(w) == Asked(w) /\ Answered(w, "error") /\ UNCHANGED <<doc, writes>>

Overtaken(w) == doc.kind # "native" /\ writes >= call[w].since + Tries

Skip(w) ==
    /\ Asked(w)
    /\ NotRequired(call[w].op, doc) \/ Overtaken(w)
    /\ Answered(w, "nil")
    /\ UNCHANGED <<doc, writes>>

(* Another program changes its part of the document.                       *)
OthersChange == /\ Written([doc EXCEPT !.others = @ + 1])
                /\ UNCHANGED call

(* The process ends, perhaps just after one of the updates was made.       *)
Die == /\ call' = [w \in Writers |-> Idle]
       /\ \/ UNCHANGED <<doc, writes>>
          \/ \E w \in Writers : Asked(w) /\ Written(Changed(call[w].op, doc))

StoreNext == \/ \E w \in Writers :
                    \/ \E op \in Updates : Ask(w, op)
                    \/ Make(w) \/ Refuse(w) \/ Skip(w)
             \/ OthersChange
             \/ Die

StoreSpec == StoreInit /\ [][StoreNext]_storeVars
=============================================================================
