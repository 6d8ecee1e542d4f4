---------------------------- MODULE RdeDocument ----------------------------
(***************************************************************************)
(* The part of the cluster's RDE the driver keeps, and the changes it      *)
(* makes to a copy of it in memory (vcdsdk/defined_entity.go and, for      *)
(* native clusters, disks.go with util/defined_entity_util.go).            *)
(*                                                                         *)
(* An update sends the whole document back, with the parts other programs  *)
(* keep in it: "others" stands for those.  The kind of the entity is part  *)
(* of the document.  An entry of the error or event set is its topic, that *)
(* is its name and the resource it is about.                               *)
(*                                                                         *)
(* The volumes are a list in which the same volume may come more than      *)
(* once.  Nothing looks at their order, so "pvs" says how often each is    *)
(* there.                                                                  *)
(***************************************************************************)
EXTENDS RollingWindow

CONSTANTS
    Pvs,      \* persistent volumes
    Topics,   \* what errors and events are about
    RdeKinds  \* of which kind the RDE may be: "capvcd", "native", "other"

ASSUME DocumentIsSane == RdeKinds \subseteq {"capvcd", "native", "other"}

EmptyDocuments == [kind : RdeKinds, pvs : {[p \in Pvs |-> 0]},
                   errors : {<<>>}, events : {<<>>}, others : {0}]

PvKinds == {"addPv", "removePv"}
ReportKinds == {"addError", "removeError", "addEvent"}
Updates == [kind : PvKinds, about : Pvs] \union [kind : ReportKinds, about : Topics]

(* The volume goes to the end of the list.                                 *)
AddVCDResourceToStatusMap(d, p) == [d EXCEPT !.pvs[p] = @ + 1]

(* Every entry of the volume's name goes from a CAPVCD entity's list.      *)
RemoveVCDResourceSetFromStatusMap(d, p) == [d EXCEPT !.pvs[p] = 0]

(* Only the first entry of the volume's id goes from a native one's.       *)
RemoveFirst(d, p) == [d EXCEPT !.pvs[p] = IF @ = 0 THEN 0 ELSE @ - 1]

updateComponentMapWithNewError(d, t) == [d EXCEPT !.errors = Rolled(@, t)]

updateComponentMapWithNewEvent(d, t) == [d EXCEPT !.events = Rolled(@, t)]

(* Every entry of the topic goes, not only the newest.                     *)
removeErrorsfromComponentMap(d, t) == [d EXCEPT !.errors = Without(@, t)]

(* The document an update makes of the copy it read.                       *)
Changed(op, d) ==
    CASE op.kind = "addPv"       -> AddVCDResourceToStatusMap(d, op.about)
      [] op.kind = "removePv"    -> IF d.kind = "native" THEN RemoveFirst(d, op.about)
                                    ELSE RemoveVCDResourceSetFromStatusMap(d, op.about)
      [] op.kind = "addError"    -> updateComponentMapWithNewError(d, op.about)
      [] op.kind = "removeError" -> removeErrorsfromComponentMap(d, op.about)
      [] op.kind = "addEvent"    -> updateComponentMapWithNewEvent(d, op.about)

(* The update succeeds without a request: the volume is listed already (by *)
(* a CAPVCD entity; for a native one the look compares the name with ids   *)
(* and never finds it, and the volume is listed once more) or no longer    *)
(* (only looked at for a native one), or there is no error to remove.      *)
NotRequired(op, d) ==
    \/ op.kind = "addPv" /\ d.kind = "capvcd" /\ d.pvs[op.about] > 0
    \/ op.kind = "removePv" /\ d.kind = "native" /\ d.pvs[op.about] = 0
    \/ op.kind = "removeError" /\ ~Has(d.errors, op.about)

(* Errors and events are kept in CAPVCD entities only, volumes also in     *)
(* native ones.                                                            *)
Supported(op, d) == \/ d.kind = "capvcd"
                    \/ d.kind = "native" /\ op.kind \in PvKinds
=============================================================================
