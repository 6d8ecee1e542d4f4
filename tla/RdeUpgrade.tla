----------------------------- MODULE RdeUpgrade ----------------------------
(***************************************************************************)
(* The driver's start (cmd/csi/main.go, VCDDriver.Setup in                 *)
(* pkg/csi/driver.go) and the upgrade of the cluster's RDE that is part of *)
(* it: UpgradeRDEPersistentVolumes and ConvertToLatestCSIVersionFormat     *)
(* (pkg/vcdcsiclient/disks.go, pkg/util/defined_entity_util.go).           *)
(*                                                                         *)
(* A driver that starts is to move the volumes of the list an old version  *)
(* kept to the list it keeps itself, sends its version, and only then      *)
(* serves.  Both updates read the document, work on the copy and send it   *)
(* back under the etag read.  Whatever fails ends the process, which is    *)
(* started again.  Meanwhile other programs, and in a rolling update       *)
(* another driver, write the same document.  All drivers are of the same   *)
(* version.  An update that reports an error or an event is one step here: *)
(* RdeUpdate has its rounds.                                               *)
(*                                                                         *)
(* A volume in the old list is never moved: the start gives the upgrade a  *)
(* DiskManager without an organization (cmd/csi/main.go:163-166), and the  *)
(* first lookup panics (Lookup below).  So what the code would do with the *)
(* disks it finds is not modelled.                                         *)
(***************************************************************************)
EXTENDS Naturals, Sequences, RollingWindow

CONSTANTS
    Drivers,
    Upgraders,   \* the drivers started with --upgrade-rde
    Pvs,         \* volumes
    RdeKinds,    \* of which kind the RDE may be: "capvcd", "native", "none"
    Forms,       \* out of AllForms: in which state it may be
    Secrets,     \* the credentials that may be there at first
    MaxRetries,  \* MaxRDEUpdateRetries
    MaxWrites,   \* bound: writes of other programs
    Faults,      \* out of UpgradeFaults
    MaxFaults    \* bound: faults in a run

Credentials == {"refreshToken", "username", "password"}

AllForms == { "ok",
              "noStatus", "badStatus",  \* status is missing, is no map
              "badPvs",                 \* the old list is no list of strings
              "badCsi" }                \* status.csi is no map

UpgradeFaults == { "request",     \* a request to VCD is refused
                   "connection",  \* VCD's answer to an update is lost
                   "crash" }      \* the driver's process restarts

ASSUME UpgradeIsSane ==
    /\ Upgraders \subseteq Drivers
    /\ RdeKinds \subseteq {"capvcd", "native", "none"}
    /\ Forms \subseteq AllForms
    /\ Secrets \subseteq SUBSET Credentials
    /\ MaxRetries \in Nat /\ MaxWrites \in Nat /\ MaxFaults \in Nat
    /\ Faults \subseteq UpgradeFaults

VARIABLES
    rde,   \* the document as VCD has it
    vol,   \* the cluster's volumes
    proc,  \* the drivers' processes
    creds, \* the credentials Kubernetes has mounted
    writes,
    faults  \* how many faults of each kind there were

vars == <<rde, vol, proc, creds, writes, faults>>

Topics == {"RdeUpgradeError", "RdeIncorrectFormatError"}

Documents == [kind : {"capvcd", "native", "none"}, form : AllForms,
              old : SUBSET Pvs,       \* status.persistentVolumes
              new : SUBSET Pvs,       \* status.csi.vcdResourceSet
              csi : BOOLEAN,          \* there is a status.csi
              latest : BOOLEAN,       \* its version is the driver's
              errors : Seq(Topics),   \* status.csi.errorSet
              others : Nat]           \* what other programs keep

Listed(d) == d.old \union d.new

Steps == {"down", "boot", "setup", "getPvs", "lookup", "putPvs", "report", "event", "clear",
          "getCsi", "putCsi", "lastEvent", "lastClear", "failing", "serving"}

NoFault == UNCHANGED faults
Fault(f) ==
    /\ f \in Faults
    /\ faults["request"] + faults["connection"] + faults["crash"] < MaxFaults
    /\ faults' = [faults EXCEPT ![f] = @ + 1]

(* A step that goes wrong: because it had to, or by a fault.               *)
Refused(must) == IF must THEN NoFault ELSE Fault("request")

(* "fresh": nobody has written the document since the driver read it, so   *)
(* the etag it read is the document's.                                     *)
Goto(d, s) == proc' = [proc EXCEPT ![d].pc = s]

(* The document changes, and with it its etag.  The driver that wrote it   *)
(* goes on as p.                                                           *)
Write(d, doc, p) ==
    /\ rde' = doc
    /\ proc' = [x \in Drivers |-> IF x = d THEN [p EXCEPT !.fresh = FALSE]
                                  ELSE [proc[x] EXCEPT !.fresh = FALSE]]

Init ==
    /\ \E kind \in RdeKinds, form \in Forms, csi, latest \in BOOLEAN,
          old \in SUBSET Pvs, new \in SUBSET Pvs :
          /\ old \cap new = {}
          /\ new # {} => csi /\ kind = "capvcd"
          /\ latest => csi
          /\ form # "ok" => new = {}
          /\ form \in {"noStatus", "badStatus", "badPvs"} \/ kind = "none" => old = {}
          /\ form \in {"noStatus", "badStatus"} \/ kind = "none" => ~csi
          /\ form = "badCsi" => csi
          /\ rde = [kind |-> kind, form |-> form, old |-> old, new |-> new,
                    csi |-> csi, latest |-> latest, errors |-> <<>>, others |-> 0]
          /\ vol = [p \in Pvs |-> IF p \in old \union new THEN "exists" ELSE "none"]
    /\ proc = [d \in Drivers |-> [pc |-> "boot", tries |-> 0, copy |-> rde, fresh |-> FALSE]]
    /\ creds \in Secrets
    /\ writes = 0 /\ faults = [f \in UpgradeFaults |-> 0]

---------------------------------------------------------------------------
(* Start                                                                   *)

SetAuthorization == "refreshToken" \in creds \/ {"username", "password"} \subseteq creds

(* The configuration is read; the driver waits until there is an           *)
(* authorization, and logs in to VCD.  Any other failure is a panic.       *)
Boot(d) ==
    /\ proc[d].pc = "boot" /\ SetAuthorization
    /\ \/ Goto(d, "setup") /\ NoFault
       \/ Fault("request") /\ Goto(d, "down")
    /\ UNCHANGED <<rde, vol, writes, creds>>

Setup(d) ==
    /\ proc[d].pc = "setup"
    /\ proc' = [proc EXCEPT ![d] = [@ EXCEPT
           !.pc = IF d \notin Upgraders \/ rde.kind = "none" THEN "serving"
                  ELSE IF rde.kind = "capvcd" THEN "getPvs" ELSE "getCsi",
           !.tries = 0]]
    /\ UNCHANGED <<rde, vol, writes, faults, creds>>

---------------------------------------------------------------------------
(* UpgradeRDEPersistentVolumes                                             *)

(* Mutant: one round too many.                                             *)
GetPvsOnceMore(d) ==
    /\ proc[d].pc = "getPvs"
    /\ IF proc[d].tries > MaxRetries THEN Goto(d, "failing")
       ELSE IF rde.old # {} THEN Goto(d, "lookup")
       ELSE proc' = [proc EXCEPT ![d] = [@ EXCEPT !.pc = "putPvs", !.copy = rde, !.fresh = TRUE]]
    /\ UNCHANGED <<rde, vol, writes, faults, creds>>

(* A round: the document is read.  One without a status is left alone, and *)
(* one whose parts are not what they should be is left alone and reported. *)
(* The copy to send is the document without its old list: without an entry *)
(* in it there is nothing else to do, with one its disks are looked for.   *)
GetPvs(d) ==
    /\ proc[d].pc = "getPvs"
    /\ \/ Refused(proc[d].tries = MaxRetries) /\ Goto(d, "failing")
       \/ /\ proc[d].tries < MaxRetries /\ NoFault
          /\ CASE rde.form = "noStatus" -> Goto(d, "event")
               [] rde.form \in {"badStatus", "badPvs"} -> Goto(d, "report")
               [] rde.form \in {"ok", "badCsi"} /\ rde.old # {} -> Goto(d, "lookup")
               [] OTHER ->
                      proc' = [proc EXCEPT ![d] = [@ EXCEPT
                          !.pc = "putPvs", !.copy = rde, !.fresh = TRUE]]
    /\ UNCHANGED <<rde, vol, writes, creds>>

(* GetDiskByNameOrId asks diskManager.Org for the OVDC, or first reads the *)
(* zone map when no OVDC is configured (disks.go:347, 378).  The upgrade's *)
(* DiskManager has neither: the process panics, and reports nothing.       *)
Lookup(d) ==
    /\ proc[d].pc = "lookup" /\ Goto(d, "down")
    /\ UNCHANGED <<rde, vol, writes, faults, creds>>

(* Another round, or the upgrade of the list is over.                      *)
Again(d) == [proc[d] EXCEPT !.pc = "getPvs", !.tries = @ + 1]
Over(d) == [proc[d] EXCEPT !.pc = "event"]

(* Mutant: the update does not carry the etag.                             *)
PutPvsWithoutEtag(d) ==
    /\ proc[d].pc = "putPvs"
    /\ Write(d, proc[d].copy, Over(d)) /\ NoFault
    /\ UNCHANGED <<vol, writes, creds>>

(* The update.  VCD refuses it under an old etag.  Without any answer it   *)
(* may have happened or not, and is taken for done.                        *)
PutPvs(d) ==
    /\ proc[d].pc = "putPvs"
    /\ \/ proc[d].fresh /\ Write(d, proc[d].copy, Over(d)) /\ NoFault
       \/ /\ Refused(~proc[d].fresh)
          /\ proc' = [proc EXCEPT ![d] = Again(d)]
          /\ UNCHANGED rde
       \/ /\ Fault("connection")
          /\ \/ proc[d].fresh /\ Write(d, proc[d].copy, Over(d))
             \/ proc' = [proc EXCEPT ![d] = Over(d)] /\ UNCHANGED rde
    /\ UNCHANGED <<vol, writes, creds>>

---------------------------------------------------------------------------
(* Reports                                                                 *)

(* Errors and events go to the CSI section of CAPVCD clusters.             *)
CanReport == rde.kind = "capvcd" /\ rde.form \in {"ok", "badPvs"}

AddError(t) ==
    [rde EXCEPT !.errors = Rolled(@, t), !.csi = TRUE, !.latest = @ \/ ~rde.csi]

(* Adds the RdeIncorrectFormatError; if that fails it is only logged.      *)
Report(d) ==
    /\ proc[d].pc = "report"
    /\ \/ CanReport /\ Write(d, AddError("RdeIncorrectFormatError"), Over(d)) /\ NoFault
       \/ /\ Refused(~CanReport)
          /\ proc' = [proc EXCEPT ![d] = Over(d)] /\ UNCHANGED rde
    /\ UNCHANGED <<vol, writes, creds>>

(* Adds the RdeUpgradeEvent.                                               *)
Event(d) ==
    /\ proc[d].pc \in {"event", "lastEvent"}
    /\ LET p == [proc[d] EXCEPT !.pc = IF @ = "event" THEN "clear" ELSE "lastClear"]
       IN  \/ /\ CanReport /\ NoFault
              /\ Write(d, [rde EXCEPT !.csi = TRUE, !.latest = @ \/ ~rde.csi], p)
           \/ /\ Refused(~CanReport)
              /\ proc' = [proc EXCEPT ![d] = p] /\ UNCHANGED rde
    /\ UNCHANGED <<vol, writes, creds>>

(* Mutant: the error stays.                                                *)
ClearNothing(d) ==
    /\ proc[d].pc \in {"clear", "lastClear"}
    /\ Goto(d, IF proc[d].pc = "clear" THEN "getCsi" ELSE "serving")
    /\ UNCHANGED <<rde, vol, writes, faults, creds>>

(* Removes the RdeUpgradeError, if there is one.                           *)
Clear(d) ==
    /\ proc[d].pc \in {"clear", "lastClear"}
    /\ LET p == [proc[d] EXCEPT !.pc = IF @ = "clear" THEN "getCsi" ELSE "serving"]
       IN  \/ /\ CanReport /\ Has(rde.errors, "RdeUpgradeError") /\ NoFault
              /\ Write(d, [rde EXCEPT !.errors = Without(@, "RdeUpgradeError")], p)
           \/ /\ Refused(~CanReport \/ ~Has(rde.errors, "RdeUpgradeError"))
              /\ proc' = [proc EXCEPT ![d] = p] /\ UNCHANGED rde
    /\ UNCHANGED <<vol, writes, creds>>

(* Setup fails: the error is added, and the process panics.                *)
Failing(d) ==
    /\ proc[d].pc = "failing"
    /\ LET p == [proc[d] EXCEPT !.pc = "down"]
       IN  \/ CanReport /\ Write(d, AddError("RdeUpgradeError"), p) /\ NoFault
           \/ /\ Refused(~CanReport)
              /\ proc' = [proc EXCEPT ![d] = p] /\ UNCHANGED rde
    /\ UNCHANGED <<vol, writes, creds>>

---------------------------------------------------------------------------
(* ConvertToLatestCSIVersionFormat                                         *)

(* Mutant: what is no map fails the start.                                 *)
GetCsiStrict(d) ==
    /\ proc[d].pc = "getCsi"
    /\ IF rde.form \in {"noStatus", "badStatus", "badCsi"} THEN Goto(d, "failing")
       ELSE IF ~rde.csi THEN Goto(d, "lastEvent")
       ELSE proc' = [proc EXCEPT ![d] = [@ EXCEPT
                !.pc = "putCsi", !.fresh = TRUE, !.copy = [rde EXCEPT !.latest = TRUE]]]
    /\ UNCHANGED <<rde, vol, writes, faults, creds>>

(* Without a status there is nothing to convert, which fails the start;    *)
(* without a CSI section neither, which does not.                          *)
GetCsi(d) ==
    /\ proc[d].pc = "getCsi"
    /\ \/ Fault("request") /\ Goto(d, "failing")
       \/ /\ NoFault
          /\ CASE rde.form \in {"noStatus", "badStatus"} -> Goto(d, "failing")
               [] rde.form \notin {"noStatus", "badStatus"} /\ (~rde.csi \/ rde.form = "badCsi") ->
                      Goto(d, "lastEvent")
               [] OTHER ->
                      proc' = [proc EXCEPT ![d] = [@ EXCEPT
                          !.pc = "putCsi", !.fresh = TRUE,
                          !.copy = [rde EXCEPT !.latest = TRUE]]]
    /\ UNCHANGED <<rde, vol, writes, creds>>

(* Mutant: the update does not carry the etag.                             *)
PutCsiWithoutEtag(d) ==
    /\ proc[d].pc = "putCsi"
    /\ Write(d, proc[d].copy, [proc[d] EXCEPT !.pc = "lastEvent"]) /\ NoFault
    /\ UNCHANGED <<vol, writes, creds>>

(* Mutant: an update that was refused is taken for done.                   *)
PutCsiOnce(d) ==
    /\ proc[d].pc = "putCsi"
    /\ IF proc[d].fresh THEN Write(d, proc[d].copy, [proc[d] EXCEPT !.pc = "lastEvent"])
       ELSE Goto(d, "lastEvent") /\ UNCHANGED rde
    /\ NoFault
    /\ UNCHANGED <<vol, writes, creds>>

(* The update.  Every answer but success is an error of the request, and   *)
(* an error ends the conversion: its loop never comes to a second round.   *)
PutCsi(d) ==
    /\ proc[d].pc = "putCsi"
    /\ \/ /\ proc[d].fresh /\ NoFault
          /\ Write(d, proc[d].copy, [proc[d] EXCEPT !.pc = "lastEvent"])
       \/ Refused(~proc[d].fresh) /\ Goto(d, "failing") /\ UNCHANGED rde
       \/ /\ proc[d].fresh /\ Fault("connection")
          /\ Write(d, proc[d].copy, [proc[d] EXCEPT !.pc = "failing"])
    /\ UNCHANGED <<vol, writes, creds>>

---------------------------------------------------------------------------
(* Serving                                                                 *)

(* A volume counts as created or deleted when its call answers, that is    *)
(* when it was added to the list or removed from it; CsiController has     *)
(* what happens in between.  Each disk is added once, by the call that     *)
(* made it, so that the lists are sets here.                               *)
CanList == \/ rde.kind = "none"
           \/ rde.kind = "capvcd" /\ rde.form \in {"ok", "badPvs"}
           \/ rde.kind = "native" /\ rde.form \in {"ok", "badCsi"}

CreateVolume(d, p) ==
    /\ proc[d].pc = "serving" /\ CanList
    /\ vol[p] = "none" /\ vol' = [vol EXCEPT ![p] = "exists"]
    /\ CASE rde.kind = "capvcd" ->
                Write(d, [rde EXCEPT !.csi = TRUE, !.latest = @ \/ ~rde.csi \/ rde.new = {},
                                     !.new = @ \union {p}], proc[d])
         [] rde.kind = "native" ->
                Write(d, [rde EXCEPT !.old = @ \union {p}], proc[d])
         [] OTHER -> UNCHANGED <<rde, proc>>
    /\ UNCHANGED <<writes, faults, creds>>

DeleteVolume(d, p) ==
    /\ proc[d].pc = "serving" /\ CanList
    /\ vol[p] = "exists" /\ vol' = [vol EXCEPT ![p] = "deleted"]
    /\ CASE rde.kind = "capvcd" ->
                Write(d, [rde EXCEPT !.new = @ \ {p}], proc[d])
         [] rde.kind = "native" ->
                Write(d, [rde EXCEPT !.old = @ \ {p}], proc[d])
         [] OTHER -> UNCHANGED <<rde, proc>>
    /\ UNCHANGED <<writes, faults, creds>>

---------------------------------------------------------------------------
(* Environment                                                             *)

(* Another program writes its part of the document.                        *)
OthersWrite ==
    /\ writes < MaxWrites /\ writes' = writes + 1
    /\ rde' = [rde EXCEPT !.others = @ + 1]
    /\ proc' = [d \in Drivers |-> [proc[d] EXCEPT !.fresh = FALSE]]
    /\ UNCHANGED <<vol, faults, creds>>

(* As long as there is no authorization: a further secret changes nothing. *)
SecretArrives(c) ==
    /\ ~SetAuthorization /\ c \notin creds /\ creds' = creds \union {c}
    /\ UNCHANGED <<rde, vol, proc, writes, faults>>

(* Kubernetes starts the process again.                                    *)
Restart(d) ==
    /\ proc[d].pc = "down"
    /\ proc' = [proc EXCEPT ![d] = [@ EXCEPT !.pc = "boot", !.fresh = FALSE]]
    /\ UNCHANGED <<rde, vol, writes, faults, creds>>

Crash(d) ==
    /\ proc[d].pc # "down"
    /\ Fault("crash") /\ Goto(d, "down")
    /\ UNCHANGED <<rde, vol, writes, creds>>

Start(d) ==
    \/ Boot(d) \/ Setup(d) \/ GetPvs(d) \/ Lookup(d) \/ PutPvs(d) \/ Report(d)
    \/ Event(d) \/ Clear(d) \/ GetCsi(d) \/ PutCsi(d) \/ Failing(d) \/ Restart(d)

Next ==
    \/ \E d \in Drivers : Start(d) \/ Crash(d)
    \/ \E d \in Drivers, p \in Pvs : CreateVolume(d, p) \/ DeleteVolume(d, p)
    \/ \E c \in Credentials : SecretArrives(c)
    \/ OthersWrite

Spec == Init /\ [][Next]_vars

(* A process goes on with its start, Kubernetes starts it again, and       *)
(* credentials arrive.                                                     *)
FairSpec == /\ Spec
            /\ \A d \in Drivers : WF_vars(Start(d))
            /\ \A c \in Credentials : WF_vars(SecretArrives(c))

---------------------------------------------------------------------------
(* Every variable has its type.                                            *)
TypeOK ==
    /\ rde \in Documents
    /\ vol \in [Pvs -> {"none", "exists", "deleted"}]
    /\ proc \in [Drivers -> [pc : Steps, tries : 0..MaxRetries, copy : Documents,
                             fresh : BOOLEAN]]
    /\ creds \subseteq Credentials
    /\ writes \in 0..MaxWrites
    /\ faults \in [UpgradeFaults -> 0..MaxFaults]

(* However restarts, refused updates and writes of others fall into an     *)
(* upgrade, no volume disappears from the cluster's RDE: a volume that     *)
(* exists is in the old list or in the new one.                            *)
VolumesAreListed ==
    rde.kind # "none" => \A p \in Pvs : vol[p] = "exists" => p \in Listed(rde)

(* And one that was deleted and taken off the lists does not come back.    *)
DeletedStayAway == [][\A p \in Pvs :
    vol[p] = "deleted" /\ p \notin Listed(rde) => p \notin Listed(rde')]_vars

(* What other programs write in the meantime is never undone.              *)
OthersAreKept == [][rde'.others >= rde.others]_vars

(* A driver that was to upgrade the RDE serves only once it is upgraded,   *)
(* whatever was refused, lost or overtaken on the way (driver.go:150-181): *)
(* no old list is left, and the CSI section has the driver's version.      *)
ServingIsUpgraded == \A d \in Upgraders :
    proc[d].pc = "serving" /\ rde.form = "ok" =>
        /\ rde.kind = "capvcd" => rde.old = {}
        /\ rde.csi => rde.latest

(* When all drivers serve, the RDE does not say that an upgrade failed,    *)
(* although attempts before the last may have, unless the request that     *)
(* removes the error fails.                                                *)
UpgradeErrorIsCleared ==
    faults["request"] = 0 /\ (\A d \in Upgraders : proc[d].pc = "serving") =>
        ~Has(rde.errors, "RdeUpgradeError")

(* A conflict at the conversion is met with another round                  *)
(* (disks.go:1145-1148), not with the end of the start.                    *)
ConflictsAreRetried == [][\A d \in Drivers :
    proc[d].pc = "putCsi" /\ ~proc[d].fresh => proc'[d].pc # "failing"]_vars

(* A driver that starts serves in the end, however its first attempts      *)
(* went.  The exception is the one OldListIsMoved is about: with a volume  *)
(* in the old list a driver that is to upgrade never comes to serve.       *)
DriverServes == \A d \in Drivers :
    ~(d \in Upgraders /\ rde.kind = "capvcd" /\ rde.old # {}) => <>[](proc[d].pc = "serving")

(* The start of a driver empties the old list of a CAPVCD entity: "Upgrade *)
(* PersistentVolume Section in RDE if needed" (driver.go:150), "update     *)
(* local RDE data structure where we remove persistentVolumes section"     *)
(* (disks.go:1023).                                                        *)
OldListIsMoved ==
    Upgraders # {} /\ rde.kind = "capvcd" /\ rde.form = "ok" ~> rde.old = {}
=============================================================================
