--------------------------- MODULE CsiController ---------------------------
(***************************************************************************)
(* The controller plugin of the named-disk CSI driver: the gRPC handlers   *)
(* CreateVolume, DeleteVolume, ControllerPublishVolume and                 *)
(* ControllerUnpublishVolume (pkg/csi/controller.go) over the DiskManager  *)
(* (pkg/vcdcsiclient/disks.go), against VMware Cloud Director.             *)
(*                                                                         *)
(* Every call runs in a goroutine of its own.  The handlers share nothing  *)
(* but the DiskManager's RWLock, which CreateDisk, DeleteDisk,             *)
(* AttachVolume and DetachVolume hold from entry to return; the handlers   *)
(* themselves read VCD before they take it.  VCD works asynchronously: a   *)
(* request starts a task on a disk, and the handler polls it.              *)
(*                                                                         *)
(* A change of the volumes' list in the cluster's RDE is one step here,    *)
(* RdeUpdate has its rounds; the errors and events the handlers report to  *)
(* the RDE, which no handler reads back, are in RdeUpdate alone.           *)
(***************************************************************************)
EXTENDS FiniteSets

CONSTANTS
    Handlers,        \* goroutines that may serve a gRPC call
    Names,           \* volume names (a volume id is the name of its disk)
    Vms,             \* node VMs
    Disks,           \* disk ids VCD can hand out
    Ovdcs,           \* organisation VDCs
    Specs,           \* size, bus, storage profile and sharing of a disk
    ShareableSpecs,  \* the specs of disks several VMs may attach
    SpecOf,          \* the spec the storage class of a volume asks for
    OvdcOf,          \* the OVDC of the zone a volume is created in
    InitialDisks,    \* disks made by hand: a function from some Disks
    ZoneMapped,      \* whether the driver has a non-empty zone map
    RdeKind,         \* "capvcd", "native", or "none" without an RDE
    VcdChecksSharing,\* whether VCD itself refuses to attach a disk twice
    Faults,          \* the faults that may happen, out of FaultKinds
    None, NotFound, Failed

FaultKinds ==
    { "api",        \* a VCD call fails and has no effect
      "lost",       \* a VCD request takes effect but its reply is lost
      "wait",       \* polling a running task fails
      "task",       \* a VCD task ends in error
      "abort",      \* a VCD task is aborted
      "rde",        \* an RDE update fails
      "rdeSilent",  \* the retries of an RDE update run out without an error
      "timeout",    \* the orchestrator stops waiting for a call
      "crash" }     \* the controller process restarts

ASSUME NamesAreDistinct ==
    /\ None \notin Handlers \union Vms \union Disks \union Names
    /\ {NotFound, Failed, None} \intersect Disks = {}
    /\ NotFound # Failed /\ \A V \in SUBSET Vms : V # Failed
    /\ None \notin [spec : Specs, vms : SUBSET Vms]
ASSUME ClassesAreSane ==
    /\ ShareableSpecs \subseteq Specs
    /\ SpecOf \in [Names -> Specs]
    /\ OvdcOf \in [Names -> Ovdcs]
ASSUME ModesAreSane ==
    /\ ZoneMapped \in BOOLEAN /\ VcdChecksSharing \in BOOLEAN
    /\ ~ZoneMapped => \E o \in Ovdcs : Ovdcs = {o}
    /\ RdeKind \in {"capvcd", "native", "none"}
    /\ Faults \subseteq FaultKinds
ASSUME InitialDisksAreSane ==
    /\ DOMAIN InitialDisks \subseteq Disks
    /\ \A d \in DOMAIN InitialDisks :
          InitialDisks[d] \in [name : Names, spec : Specs, ovdc : Ovdcs]
    /\ \A d, e \in DOMAIN InitialDisks :
          InitialDisks[d].name = InitialDisks[e].name => d = e

VARIABLES
    disks,  \* VCD: every disk, the VMs it is attached to, its last task
    rde,    \* VCD: the disks the cluster's RDE lists as persistent volumes
    lock,   \* the holder of the DiskManager's RWLock, or None
    h,      \* the state of every handler
    vol,    \* orchestrator: how far the life of each volume has come
    att     \* orchestrator: how far each volume is attached to each node

vars == <<disks, rde, lock, h, vol, att>>
vcdVars == <<disks, rde>>
coVars == <<vol, att>>

Ops == {"create", "delete", "publish", "unpublish"}

TaskKinds == {"create", "delete", "attach", "detach"}

NoTask == [kind |-> "none", vm |-> None, status |-> "none"]

Task == [kind : TaskKinds, vm : Vms \union {None},
         status : {"running", "success", "error", "aborted"}]

Disk == [st : {"free", "creating", "ready", "gone"},
         name : Names \union {None}, spec : Specs \union {None},
         ovdc : Ovdcs \union {None}, vms : SUBSET Vms,
         task : Task \union {NoTask}]

FreeDisk == [st |-> "free", name |-> None, spec |-> None, ovdc |-> None,
             vms |-> {}, task |-> NoTask]

Idle == [pc |-> "idle", op |-> "none", name |-> None, vm |-> None,
         disk |-> None, caller |-> "none"]

(* Program counters at which a handler runs DiskManager code that holds    *)
(* the lock.                                                               *)
Critical == {"lookup", "check", "submit", "wait", "rde"}

Handler == [pc : {"idle", "find", "peek", "lock", "ok", "fail"} \union Critical,
            op : Ops \union {"none"}, name : Names \union {None},
            vm : Vms \union {None}, disk : Disks \union {None},
            caller : {"none", "waiting", "gone"}]

TypeOK ==
    /\ disks \in [Disks -> Disk]
    /\ rde \subseteq Disks
    /\ lock \in Handlers \union {None}
    /\ h \in [Handlers -> Handler]
    /\ vol \in [Names -> {"absent", "creating", "created", "deleting", "deleted"}]
    /\ att \in [Names \X Vms -> {"detached", "attaching", "attached", "detaching"}]

-----------------------------------------------------------------------------
(* Cloud Director, as the driver uses it.                                  *)

Exists(d) == disks[d].st \in {"creating", "ready"}

Named(n) == {d \in Disks : Exists(d) /\ disks[d].name = n}

Running(d) == disks[d].task.status = "running"

Shareable(d) == disks[d].spec \in ShareableSpecs

May(fault) == fault \in Faults

\* Mutant of LookupResults: only the OVDC of the volume's zone is asked.
LookupInOwnZone(n) ==
    LET own == {d \in Named(n) : disks[d].ovdc = OvdcOf[n]}
    IN  own \union {r \in {NotFound} : own = {}}

(* GetDiskByNameOrId.  With one OVDC an error is an error and so are two   *)
(* disks of one name.  With a zone map every OVDC is tried, in any order:  *)
(* an OVDC that cannot be asked or that has several disks of the name is   *)
(* skipped, and when all were skipped the disk is reported not found.      *)
LookupResults(n) ==
    LET alone == {d \in Named(n) :
                    \A e \in Named(n) : disks[e].ovdc = disks[d].ovdc => e = d}
    IN  IF ZoneMapped
        THEN alone \union {r \in {NotFound} : alone = {} \/ May("api")}
        ELSE alone \union {r \in {NotFound} : Named(n) = {}}
                   \union {r \in {Failed} : alone # Named(n) \/ May("api")}

(* GovcdAttachedVM: the VMs attached to a disk, or an error.               *)
AttachedResults(d) ==
    {r \in {disks[d].vms} : Exists(d)}
      \union {r \in {Failed} : ~Exists(d) \/ May("api")}

(* A request starts a task on a disk; VCD refuses it while another task    *)
(* runs on that disk.                                                      *)
Accepts(d) == Exists(d) /\ ~Running(d)

Started(kind, v) == [kind |-> kind, vm |-> v, status |-> "running"]

(* What VCD requires of a task when it carries it out: a disk to delete is *)
(* not attached and, when VCD checks that, a disk to attach is shareable   *)
(* or free.                                                                *)
TaskAllowed(d) ==
    CASE disks[d].task.kind = "delete" -> disks[d].vms = {}
      [] disks[d].task.kind = "attach" ->
            VcdChecksSharing => Shareable(d) \/ disks[d].vms \subseteq {disks[d].task.vm}
      [] OTHER -> TRUE

TaskSucceeds(d) ==
    /\ Running(d) /\ TaskAllowed(d)
    /\ disks' = [disks EXCEPT
         ![d].task.status = "success",
         ![d].st = CASE disks[d].task.kind = "create" -> "ready"
                     [] disks[d].task.kind = "delete" -> "gone"
                     [] OTHER -> @,
         ![d].vms = CASE disks[d].task.kind = "attach" -> @ \union {disks[d].task.vm}
                      [] disks[d].task.kind = "detach" -> @ \ {disks[d].task.vm}
                      [] OTHER -> @]
    /\ UNCHANGED <<rde, lock, h, coVars>>

TaskFails(d) ==
    /\ Running(d)
    /\ \E end \in {"error", "aborted"} :
          /\ \/ end = "error" /\ (May("task") \/ ~TaskAllowed(d))
             \/ end = "aborted" /\ May("abort")
          /\ disks' = [disks EXCEPT
               ![d].task.status = end,
               ![d].st = IF disks[d].task.kind = "create" THEN "gone" ELSE @]
    /\ UNCHANGED <<rde, lock, h, coVars>>

-----------------------------------------------------------------------------
(* The orchestrator: the sidecars that call the driver.  They retry a call *)
(* until it succeeds, never have two calls for one volume (or for one      *)
(* volume and node) outstanding, and give up waiting for a slow one.       *)

SameTarget(op1, op2) ==
    {op1, op2} \subseteq {"create", "delete"} \/ {op1, op2} \subseteq {"publish", "unpublish"}

Outstanding(op, n, v) ==
    \E s \in Handlers : /\ h[s].caller = "waiting" /\ h[s].name = n /\ h[s].vm = v
                        /\ SameTarget(h[s].op, op)

Receive(s, op, n, v) ==
    /\ h[s] = Idle
    /\ ~Outstanding(op, n, v)
    /\ h' = [h EXCEPT ![s] = [pc |-> IF op \in {"create", "delete"} THEN "lock" ELSE "find",
                              op |-> op, name |-> n, vm |-> v, disk |-> None,
                              caller |-> "waiting"]]
    /\ UNCHANGED <<vcdVars, lock>>

CallCreateVolume(s, n) ==
    /\ vol[n] \in {"absent", "creating"}
    /\ Receive(s, "create", n, None)
    /\ vol' = [vol EXCEPT ![n] = "creating"]
    /\ UNCHANGED att

CallDeleteVolume(s, n) ==
    /\ vol[n] \in {"created", "deleting"}
    /\ Receive(s, "delete", n, None)
    /\ vol' = [vol EXCEPT ![n] = "deleting"]
    /\ UNCHANGED att

CallPublishVolume(s, n, v) ==
    /\ vol[n] = "created" /\ att[<<n, v>>] \in {"detached", "attaching"}
    /\ Receive(s, "publish", n, v)
    /\ att' = [att EXCEPT ![<<n, v>>] = "attaching"]
    /\ UNCHANGED vol

CallUnpublishVolume(s, n, v) ==
    /\ Receive(s, "unpublish", n, v)
    /\ att' = [att EXCEPT ![<<n, v>>] = "detaching"]
    /\ UNCHANGED vol

(* No handler looks at its context: a call the orchestrator gave up on     *)
(* runs on, unobserved.                                                    *)
GiveUp(s) ==
    /\ May("timeout")
    /\ h[s].caller = "waiting"
    /\ h' = [h EXCEPT ![s].caller = "gone"]
    /\ UNCHANGED <<vcdVars, lock, coVars>>

(* The response; an error leaves the orchestrator where it was.            *)
Respond(s) ==
    /\ h[s].pc \in {"ok", "fail"}
    /\ h' = [h EXCEPT ![s] = Idle]
    /\ IF h[s].pc = "ok" /\ h[s].caller = "waiting"
       THEN CASE h[s].op = "create" ->
                   vol' = [vol EXCEPT ![h[s].name] = "created"] /\ UNCHANGED att
              [] h[s].op = "delete" ->
                   vol' = [vol EXCEPT ![h[s].name] = "deleted"] /\ UNCHANGED att
              [] h[s].op = "publish" ->
                   att' = [att EXCEPT ![<<h[s].name, h[s].vm>>] = "attached"] /\ UNCHANGED vol
              [] h[s].op = "unpublish" ->
                   att' = [att EXCEPT ![<<h[s].name, h[s].vm>>] = "detached"] /\ UNCHANGED vol
       ELSE UNCHANGED coVars
    /\ UNCHANGED <<vcdVars, lock>>

(* The process restarts: goroutines and lock are gone, VCD goes on.        *)
Crash ==
    /\ May("crash")
    /\ \E s \in Handlers : h[s] # Idle
    /\ h' = [s \in Handlers |-> Idle]
    /\ lock' = None
    /\ UNCHANGED <<vcdVars, coVars>>

-----------------------------------------------------------------------------
(* Steps of a handler.                                                     *)

At(s, op, pc) == h[s].op = op /\ h[s].pc = pc

Goto(s, pc) == h' = [h EXCEPT ![s].pc = pc]

GotoWith(s, pc, d) == h' = [h EXCEPT ![s].pc = pc, ![s].disk = d]

(* Return from DiskManager code: the deferred Unlock runs.                 *)
Return(s, pc) == Goto(s, pc) /\ lock' = None

(* An error before the handler asks VCD about the disk: refreshing the     *)
(* bearer token, looking up the OVDC (create), the VM (publish), or, after *)
(* the first look at the attachments, the VM (unpublish).                  *)
EarlyError(s) ==
    /\ May("api")
    /\ \/ h[s].pc = "find"
       \/ h[s].pc = "lock" /\ h[s].op # "publish"
    /\ Goto(s, "fail")
    /\ UNCHANGED <<vcdVars, lock, coVars>>

\* Mutant of Find: the disk is used without looking at the error.
FindUnchecked(s) ==
    /\ h[s].pc = "find"
    /\ \E r \in LookupResults(h[s].name) :
          GotoWith(s, IF h[s].op = "publish" THEN "lock" ELSE "peek", r)
    /\ UNCHANGED <<vcdVars, lock, coVars>>

(* GetDiskByNameOrId outside the lock.  An unpublish of a disk that is not *)
(* found succeeds.                                                         *)
Find(s) ==
    /\ h[s].pc = "find"
    /\ \E r \in LookupResults(h[s].name) :
          \/ r \in Disks /\ GotoWith(s, IF h[s].op = "publish" THEN "lock" ELSE "peek", r)
          \/ r = NotFound /\ Goto(s, IF h[s].op = "publish" THEN "fail" ELSE "ok")
          \/ r = Failed /\ Goto(s, "fail")
    /\ UNCHANGED <<vcdVars, lock, coVars>>

\* Mutant of Peek: an error counts as "attached nowhere".
PeekIgnoringErrors(s) ==
    /\ At(s, "unpublish", "peek")
    /\ \E r \in AttachedResults(h[s].disk) :
          Goto(s, IF r \in {Failed, {}} THEN "ok" ELSE "lock")
    /\ UNCHANGED <<vcdVars, lock, coVars>>

(* ControllerUnpublishVolume: a disk attached nowhere needs no detach.     *)
Peek(s) ==
    /\ At(s, "unpublish", "peek")
    /\ \E r \in AttachedResults(h[s].disk) :
          Goto(s, CASE r = Failed -> "fail" [] r = {} -> "ok" [] OTHER -> "lock")
    /\ UNCHANGED <<vcdVars, lock, coVars>>

\* Mutant of Acquire: nobody waits for the lock.
AcquireAlways(s) ==
    /\ h[s].pc = "lock"
    /\ lock' = s
    /\ Goto(s, IF h[s].op = "publish" THEN "check" ELSE "lookup")
    /\ UNCHANGED <<vcdVars, coVars>>

(* CreateDisk and DeleteDisk begin with their lookup under the lock, as    *)
(* DetachVolume does; AttachVolume with its check.                         *)
Acquire(s) ==
    /\ h[s].pc = "lock"
    /\ lock = None
    /\ lock' = s
    /\ Goto(s, IF h[s].op = "publish" THEN "check" ELSE "lookup")
    /\ UNCHANGED <<vcdVars, coVars>>

\* Mutants of CreateLookup: no disk of the name is expected ...
CreateLookupBlind(s) ==
    /\ At(s, "create", "lookup")
    /\ Goto(s, "submit")
    /\ UNCHANGED <<vcdVars, lock, coVars>>

\* ... and whatever disk has the name will do.
CreateLookupAnySpec(s) ==
    /\ At(s, "create", "lookup")
    /\ \E r \in LookupResults(h[s].name) :
          \/ r \in Disks /\ GotoWith(s, "ok", r) /\ lock' = None
          \/ r = NotFound /\ Goto(s, "submit") /\ UNCHANGED lock
          \/ r = Failed /\ Return(s, "fail")
    /\ UNCHANGED <<vcdVars, coVars>>

(* CreateDisk: a disk of that name is the one asked for or an error.       *)
CreateLookup(s) ==
    /\ At(s, "create", "lookup")
    /\ \E r \in LookupResults(h[s].name) :
          \/ /\ r \in Disks /\ disks[r].spec = SpecOf[h[s].name]
             /\ GotoWith(s, "ok", r) /\ lock' = None
          \/ r \in Disks /\ disks[r].spec # SpecOf[h[s].name] /\ Return(s, "fail")
          \/ r = NotFound /\ Goto(s, "submit") /\ UNCHANGED lock
          \/ r = Failed /\ Return(s, "fail")
    /\ UNCHANGED <<vcdVars, coVars>>

\* Mutant of OtherLookup: a disk that is not found is looked for again.
OtherLookupAgain(s) ==
    /\ At(s, "delete", "lookup") \/ At(s, "unpublish", "lookup")
    /\ \E r \in LookupResults(h[s].name) :
          \/ r \in Disks /\ GotoWith(s, "check", r) /\ UNCHANGED lock
          \/ r = NotFound /\ UNCHANGED <<h, lock>>
          \/ r = Failed /\ Return(s, "fail")
    /\ UNCHANGED <<vcdVars, coVars>>

(* DeleteDisk and DetachVolume: a disk that is not found needs no work.    *)
OtherLookup(s) ==
    /\ At(s, "delete", "lookup") \/ At(s, "unpublish", "lookup")
    /\ \E r \in LookupResults(h[s].name) :
          \/ r \in Disks /\ GotoWith(s, "check", r) /\ UNCHANGED lock
          \/ r = NotFound /\ Return(s, "ok")
          \/ r = Failed /\ Return(s, "fail")
    /\ UNCHANGED <<vcdVars, coVars>>

DeleteCheck(s) ==
    /\ At(s, "delete", "check")
    /\ \E r \in AttachedResults(h[s].disk) :
          IF r = {} THEN Goto(s, "submit") /\ UNCHANGED lock ELSE Return(s, "fail")
    /\ UNCHANGED <<vcdVars, coVars>>

\* Mutants of AttachCheck: other users do not matter ...
AttachCheckSharing(s) ==
    /\ At(s, "publish", "check")
    /\ \E r \in AttachedResults(h[s].disk) :
          \/ r = Failed /\ Return(s, "fail")
          \/ r # Failed /\ h[s].vm \in r /\ Return(s, "ok")
          \/ r # Failed /\ h[s].vm \notin r /\ Goto(s, "submit") /\ UNCHANGED lock
    /\ UNCHANGED <<vcdVars, coVars>>

\* ... and any user will do.
AttachCheckAnyVm(s) ==
    /\ At(s, "publish", "check")
    /\ \E r \in AttachedResults(h[s].disk) :
          \/ r = Failed /\ Return(s, "fail")
          \/ r \notin {Failed, {}} /\ Return(s, "ok")
          \/ r = {} /\ Goto(s, "submit") /\ UNCHANGED lock
    /\ UNCHANGED <<vcdVars, coVars>>

(* AttachVolume: nothing to do for a disk the VM has, an error for one in  *)
(* use by others that is not shareable.                                    *)
AttachCheck(s) ==
    /\ At(s, "publish", "check")
    /\ \E r \in AttachedResults(h[s].disk) :
          \/ r = Failed /\ Return(s, "fail")
          \/ r # Failed /\ h[s].vm \in r /\ Return(s, "ok")
          \/ /\ r # Failed /\ h[s].vm \notin r
             /\ r # {} /\ ~Shareable(h[s].disk)
             /\ Return(s, "fail")
          \/ /\ r # Failed /\ h[s].vm \notin r
             /\ r = {} \/ Shareable(h[s].disk)
             /\ Goto(s, "submit") /\ UNCHANGED lock
    /\ UNCHANGED <<vcdVars, coVars>>

DetachCheck(s) ==
    /\ At(s, "unpublish", "check")
    /\ \E r \in AttachedResults(h[s].disk) :
          \/ r = Failed /\ Return(s, "fail")
          \/ r # Failed /\ h[s].vm \notin r /\ Return(s, "ok")
          \/ r # Failed /\ h[s].vm \in r /\ Goto(s, "submit") /\ UNCHANGED lock
    /\ UNCHANGED <<vcdVars, coVars>>

(* createDisk.  The disk exists once the request is accepted.              *)
NewDisk(n) ==
    [st |-> "creating", name |-> n, spec |-> SpecOf[n], ovdc |-> OvdcOf[n],
     vms |-> {}, task |-> Started("create", None)]

(* CreateDisk from the storage profile to the request.                     *)
CreateSubmit(s) ==
    /\ At(s, "create", "submit")
    /\ \/ \E d \in Disks :
            /\ disks[d].st = "free"
            /\ disks' = [disks EXCEPT ![d] = NewDisk(h[s].name)]
            /\ \/ GotoWith(s, "wait", d) /\ UNCHANGED lock
               \/ May("lost") /\ Return(s, "fail")
       \/ /\ May("api") \/ \A d \in Disks : disks[d].st # "free"
          /\ Return(s, "fail")
          /\ UNCHANGED disks
    /\ UNCHANGED <<rde, coVars>>

(* Ask VCD to start a task on the handler's disk and wait for it.          *)
Submit(s, kind) ==
    LET d == h[s].disk
    IN  \/ /\ Accepts(d)
           /\ disks' = [disks EXCEPT ![d].task = Started(kind, h[s].vm)]
           /\ \/ Goto(s, "wait") /\ UNCHANGED lock
              \/ May("lost") /\ Return(s, "fail")
        \/ /\ May("api") \/ ~Accepts(d)
           /\ Return(s, "fail")
           /\ UNCHANGED disks

(* govcdDelete looks at the attachments once more.                         *)
DeleteSubmit(s) ==
    /\ At(s, "delete", "submit")
    /\ \/ disks[h[s].disk].vms = {} /\ Submit(s, "delete")
       \/ /\ disks[h[s].disk].vms # {}
          /\ Return(s, "fail")
          /\ UNCHANGED disks
    /\ UNCHANGED <<rde, coVars>>

AttachSubmit(s) ==
    /\ At(s, "publish", "submit")
    /\ Submit(s, "attach")
    /\ UNCHANGED <<rde, coVars>>

DetachSubmit(s) ==
    /\ At(s, "unpublish", "submit")
    /\ Submit(s, "detach")
    /\ UNCHANGED <<rde, coVars>>

\* Mutants of Reported: the task is not waited for, its error is ignored.
ReportedAtOnce(d) == "success"
ReportedWell(d) == IF Running(d) THEN "running" ELSE "success"

(* What WaitTaskCompletion sees of the task that was started last.         *)
Reported(d) == disks[d].task.status

(* WaitTaskCompletion, which takes every end but "error" for a success.    *)
(* After a creation and an attach the disk is read once more; create and   *)
(* delete go on to the RDE.                                                *)
WaitTask(s) ==
    /\ h[s].pc = "wait"
    /\ LET d == h[s].disk
           done == Reported(d) \notin {"running", "error"}
           reread == h[s].op \in {"create", "publish"}
       IN  \/ /\ done /\ (reread => Exists(d))
              /\ IF h[s].op \in {"create", "delete"}
                 THEN Goto(s, "rde") /\ UNCHANGED lock
                 ELSE Return(s, "ok")
           \/ done /\ reread /\ (May("api") \/ ~Exists(d)) /\ Return(s, "fail")
           \/ Reported(d) = "error" /\ Return(s, "fail")
           \/ May("wait") /\ Return(s, "fail")
    /\ UNCHANGED <<vcdVars, coVars>>

\* Mutant of WithPv: entries are never removed from a native cluster's RDE.
WithPvKept(s) ==
    IF h[s].op = "create" THEN rde \union {h[s].disk}
    ELSE {d \in rde : RdeKind = "native" \/ disks[d].name # disks[h[s].disk].name}

(* addPvToRDE and removePvFromRDE.  On a CAPVCD cluster entries are        *)
(* removed by disk name, on a native one by disk id.  A native list would  *)
(* take a disk twice (RdeDocument), but only the call that made a disk     *)
(* adds it, so that a set does.                                            *)
WithPv(s) ==
    IF h[s].op = "create"
    THEN rde \union {h[s].disk}
    ELSE {d \in rde : IF RdeKind = "native" THEN d # h[s].disk
                      ELSE disks[d].name # disks[h[s].disk].name}

UpdateRde(s) ==
    /\ h[s].pc = "rde"
    /\ \/ RdeKind # "none" /\ rde' = WithPv(s) /\ Return(s, "ok")
       \/ RdeKind # "none" /\ May("lost") /\ rde' = WithPv(s) /\ Return(s, "fail")
       \/ RdeKind # "none" /\ May("rde") /\ UNCHANGED rde /\ Return(s, "fail")
       \/ RdeKind = "capvcd" /\ May("rdeSilent") /\ UNCHANGED rde /\ Return(s, "ok")
       \/ RdeKind = "none" /\ UNCHANGED rde /\ Return(s, "ok")
    /\ UNCHANGED <<disks, coVars>>

-----------------------------------------------------------------------------
InitDisk(d) ==
    [FreeDisk EXCEPT !.st = "ready", !.name = InitialDisks[d].name,
                     !.spec = InitialDisks[d].spec, !.ovdc = InitialDisks[d].ovdc]

(* The volumes that may have a disk made by hand (static provisioning).    *)
Static == {InitialDisks[d].name : d \in DOMAIN InitialDisks}

(* Some disks were made by hand, and the orchestrator may know of their    *)
(* volumes from the start.                                                 *)
Init ==
    /\ \E made \in SUBSET DOMAIN InitialDisks :
          /\ disks = [d \in Disks |-> IF d \in made THEN InitDisk(d) ELSE FreeDisk]
          /\ vol \in [Names -> {"absent", "created"}]
          /\ \A n \in Names : vol[n] = "created" => \E d \in made : InitialDisks[d].name = n
    /\ rde = {}
    /\ lock = None
    /\ h = [s \in Handlers |-> Idle]
    /\ att = [p \in Names \X Vms |-> "detached"]

Call(s) ==
    \E n \in Names :
        \/ CallCreateVolume(s, n)
        \/ CallDeleteVolume(s, n)
        \/ \E v \in Vms : CallPublishVolume(s, n, v) \/ CallUnpublishVolume(s, n, v)

(* The steps the driver takes by itself, but for taking the lock.          *)
Step(s) ==
    \/ Find(s) \/ Peek(s)
    \/ CreateLookup(s) \/ OtherLookup(s)
    \/ DeleteCheck(s) \/ AttachCheck(s) \/ DetachCheck(s)
    \/ CreateSubmit(s) \/ DeleteSubmit(s) \/ AttachSubmit(s) \/ DetachSubmit(s)
    \/ WaitTask(s) \/ UpdateRde(s) \/ Respond(s)

Next ==
    \/ \E s \in Handlers : Call(s) \/ GiveUp(s) \/ EarlyError(s) \/ Acquire(s) \/ Step(s)
    \/ \E d \in Disks : TaskSucceeds(d) \/ TaskFails(d)
    \/ Crash

Spec == Init /\ [][Next]_vars

(* Goroutines run, RWMutex wakes its waiters in turn, tasks come to an end. *)
Fairness ==
    /\ \A s \in Handlers : WF_vars(Step(s)) /\ SF_vars(Acquire(s))
    /\ \A d \in Disks : WF_vars(TaskSucceeds(d) \/ TaskFails(d))

FairSpec == Spec /\ Fairness

-----------------------------------------------------------------------------
(* Properties.                                                             *)

(* VCD allows disks of one name; the driver names volumes by it, so at no  *)
(* time may two disks of one name exist, whatever was retried, timed out,  *)
(* lost or crashed between CreateDisk's lookup and its request.            *)
OneDiskPerName == \A n \in Names : \A d, e \in Named(n) : d = e

(* A disk that is not shareable is never attached to two VMs, however the  *)
(* publish calls for them interleave between the reads of the attachments  *)
(* and the attach requests (AttachVolume's check at disks.go:667).         *)
SingleAttach ==
    \A d \in Disks : ~Shareable(d) => \A v, w \in disks[d].vms : v = w

(* A volume whose deletion was acknowledged has no disk left, not even one *)
(* an earlier CreateVolume is still making.                                *)
DeletedIsGone == \A n \in Names : vol[n] = "deleted" => Named(n) = {}

(* A volume acknowledged to be created has a usable disk until the         *)
(* orchestrator asks to delete it: CreateDisk returns an existing disk     *)
(* without asking whether it is finished.                                  *)
CreatedIsReady ==
    \A n \in Names : vol[n] = "created" => \E d \in Named(n) : disks[d].st = "ready"

AttachedTo(n) == UNION {disks[d].vms : d \in Named(n)}

(* A publish that was acknowledged stays in force until the orchestrator   *)
(* asks to undo it: no late or repeated call takes the disk away.          *)
PublishedStaysAttached ==
    \A n \in Names, v \in Vms : att[<<n, v>>] = "attached" => v \in AttachedTo(n)

(* An unpublish that was acknowledged stays in force: no attachment        *)
(* appears that nobody will ever undo.                                     *)
UnpublishedStaysDetached ==
    \A n \in Names, v \in Vms : att[<<n, v>>] = "detached" => v \notin AttachedTo(n)

(* The RDE lists the disk of every volume CreateVolume was acknowledged    *)
(* for (static volumes are never listed) ...                               *)
CreatedIsInRde ==
    \A n \in Names \ Static :
        vol[n] = "created" /\ RdeKind # "none" => Named(n) \subseteq rde

(* ... and no disk of a volume DeleteVolume was acknowledged for.          *)
DeletedIsNotInRde ==
    \A n \in Names : vol[n] = "deleted" => \A d \in rde : disks[d].name # n

(* The handlers' interleaved steps, retries and failures look to the      *)
(* orchestrator like the one-step operations of VolumeService: the disk of *)
(* a volume is the finished disk of its name.                              *)
Ready(n) == {d \in Named(n) : disks[d].st = "ready"}

storeBar ==
    [n \in Names |->
        IF Ready(n) = {} THEN None
        ELSE LET d == CHOOSE d \in Ready(n) : TRUE
             IN  [spec |-> disks[d].spec, vms |-> disks[d].vms]]

Abstract == INSTANCE VolumeService WITH store <- storeBar

ImplementsVolumeService == Abstract!Spec

(* Every call is answered, whatever the other handlers and VCD do.         *)
CallsAreAnswered == \A s \in Handlers : h[s].pc # "idle" ~> h[s].pc = "idle"
-----------------------------------------------------------------------------
(* Inductive invariants.                                                   *)

(* What a handler has found out by the time it comes to a step, and the VM *)
(* an attach task is about.                                                *)
DiskKnown(s) ==
    \/ h[s].pc \in {"peek", "check", "wait", "rde"}
    \/ h[s].pc = "submit" /\ h[s].op # "create"
    \/ h[s].pc = "lock" /\ h[s].op = "publish"

WellFormed ==
    /\ \A s \in Handlers :
          /\ h[s].pc # "idle" => h[s].op \in Ops /\ h[s].name \in Names
          /\ h[s].op \in {"publish", "unpublish"} => h[s].vm \in Vms
          /\ h[s].pc = "find" => h[s].op \in {"publish", "unpublish"}
          /\ h[s].pc = "rde" => h[s].op \in {"create", "delete"}
          /\ DiskKnown(s) => h[s].disk \in Disks
    /\ \A d \in Disks : disks[d].task.kind = "attach" => disks[d].task.vm \in Vms

TypeInv == TypeOK /\ WellFormed

(* DiskManager code runs only in the goroutine that holds the lock.        *)
LockHeld == \A s \in Handlers : h[s].pc \in Critical <=> lock = s

(* A task runs on a disk that exists.                                      *)
TasksHaveDisks == \A d \in Disks : Running(d) => Exists(d)

(* What CreateDisk's lookup found is still so when it asks for the disk.   *)
NoDiskYet == \A s \in Handlers : At(s, "create", "submit") => Named(h[s].name) = {}

NameInv == TypeInv /\ LockHeld /\ TasksHaveDisks /\ NoDiskYet /\ OneDiskPerName

(* Every running task has its handler waiting for it, as long as polling   *)
(* does not fail and the process does not restart.                         *)
TasksAreAwaited ==
    \A d \in Disks : Running(d) => \E s \in Handlers : h[s].pc = "wait" /\ h[s].disk = d

(* What AttachVolume's check found is still so when it asks VCD ...        *)
NoUserYet ==
    \A s \in Handlers :
        At(s, "publish", "submit") /\ ~Shareable(h[s].disk) => disks[h[s].disk].vms = {}

(* ... and until VCD has attached the disk.                                *)
NoUserMeanwhile ==
    \A d \in Disks :
        Running(d) /\ disks[d].task.kind = "attach" /\ ~Shareable(d) => disks[d].vms = {}

SharingInv ==
    TypeInv /\ LockHeld /\ TasksAreAwaited /\ NoUserYet /\ NoUserMeanwhile /\ SingleAttach
=============================================================================
