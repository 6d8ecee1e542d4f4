---------------------------- MODULE VolumeExpand ---------------------------
(***************************************************************************)
(* Volume expansion: ControllerExpandVolume (pkg/csi/controller.go),       *)
(* DiskManager.UpdateDisk (pkg/vcdcsiclient/disks.go) and NodeExpandVolume *)
(* (pkg/csi/node.go).                                                      *)
(*                                                                         *)
(* A detached disk is resized by itself (OFFLINE), an attached one through *)
(* the settings of the VM that holds it (ONLINE), and then the node grows  *)
(* the file system.  The driver takes no lock for any of it, and a resizer *)
(* runs beside every driver process, so calls for one volume, and for      *)
(* volumes of one VM, interleave with each other and with attaches.  VCD,  *)
(* the resizers and kubelet are the environment.                           *)
(***************************************************************************)
EXTENDS Integers, FiniteSets

CONSTANTS
    Volumes, Nodes,
    Resizers,     \* one for each process of the driver
    Calls,        \* pairs of a resizer and a volume it looks after
    MbToBytes,
    Initial,      \* size of the disks at first, in MB
    Requests,     \* sizes that may be asked for, in bytes
    AccessMode,   \* of every volume: "SINGLE_NODE_WRITER" or "MULTI_NODE_MULTI_WRITER"
    VolumeMode,   \* "Filesystem" or "Block"
    StartsOn,     \* the nodes its disk is attached to at first
    MaxMoves,     \* bound: attaches and detaches in a run
    Faults,       \* out of ExpandFaults
    MaxFaults     \* bound: faults in a run

ExpandFaults == { "request",  \* a request to VCD, a task or a command fails
                  "crash",    \* a process of the driver restarts
                  "timeout" } \* a resizer gives a call up; the driver goes on

NoVm == "none"

ASSUME ExpansionIsSane ==
    /\ NoVm \notin Nodes
    /\ Calls \subseteq Resizers \X Volumes
    /\ MbToBytes \in Nat \ {0}
    /\ Initial \in Nat \ {0}
    /\ Requests \subseteq Nat
    /\ AccessMode \in [Volumes -> {"SINGLE_NODE_WRITER", "MULTI_NODE_MULTI_WRITER"}]
    /\ VolumeMode \in [Volumes -> {"Filesystem", "Block"}]
    /\ StartsOn \in [Volumes -> SUBSET Nodes]
    /\ Faults \subseteq ExpandFaults
    /\ MaxMoves \in Nat /\ MaxFaults \in Nat

VARIABLES
    size,     \* of every disk, in MB, as VCD has it
    on,       \* the VMs it is attached to
    task,     \* VCD's tasks that run, by the call that started them
    call,     \* the calls of ControllerExpandVolume
    node,     \* the call of NodeExpandVolume for every volume
    mounted,  \* is the volume staged on its node
    seen,     \* the size of the device as the node's kernel knows it, in MB
    fs,       \* the size of the file system in MB, 0 before there is one
    want,     \* the claim's request, in bytes
    pv,       \* the capacity of the volume as Kubernetes records it, in bytes
    done,     \* the capacity the claim is told it has, in bytes
    moves, faults

vars == <<size, on, task, call, node, mounted, seen, fs, want, pv, done, moves, faults>>

disks == <<size, on>>
host == <<node, mounted, seen, fs>>
kube == <<want, pv, done>>
counts == <<moves, faults>>

Vms == Nodes \union {NoVm}

(* The sizes an update sends, 0 for a disk it does not name.               *)
Settings == [Volumes -> Nat]
Nothing == [v \in Volumes |-> 0]
Named(s) == {v \in Volumes : s[v] > 0}

Steps == {"look", "choose", "verify", "vm", "put", "wait", "succeeded", "failed"}

CallRecord == [step : Steps \union {"idle"},
               bytes : Nat, vm : Vms, settings : Settings, heard : BOOLEAN]

Idle == [step |-> "idle", bytes |-> 0, vm |-> NoVm,
         settings |-> Nothing, heard |-> TRUE]

NoTask == [vm |-> NoVm, settings |-> Nothing]

Larger(a, b) == IF a > b THEN a ELSE b

DisksOf(vm) == {v \in Volumes : vm \in on[v]}

(* VCD runs one task at a time on a disk, and on a VM.                     *)
Busy(v) == \E c \in Calls : v \in Named(task[c].settings)

BusyVm(vm) ==
    \/ \E c \in Calls : task[c].vm = vm
    \/ \E v \in DisksOf(vm) : Busy(v)

(* Mutant: the bytes are sent as MB.                                       *)
newSizeInBytes(c) == call[c].bytes

(* The bytes asked for in whole MB: the quotient is an integer before the  *)
(* ceiling is taken.                                                       *)
newSizeMb(c) == call[c].bytes \div MbToBytes

May(f) == f \in Faults /\ faults < MaxFaults

Goto(c, s) == call' = [call EXCEPT ![c].step = s]

Fail(c) == /\ call' = [call EXCEPT ![c] = Idle]
           /\ UNCHANGED kube

(* The answer, and what the resizer makes of it if it still waits for it:  *)
(* the volume has the capacity, and unless the node has to grow the file   *)
(* system, so has the claim.                                               *)
Answer(c, nodeExpansionRequired) ==
    LET v == c[2]
        capacity == newSizeMb(c) * MbToBytes
    IN  /\ call' = [call EXCEPT ![c] = Idle]
        /\ IF call[c].heard
           THEN /\ pv' = [pv EXCEPT ![v] = Larger(@, capacity)]
                /\ done' = IF nodeExpansionRequired THEN done
                           ELSE [done EXCEPT ![v] = Larger(@, capacity)]
           ELSE UNCHANGED <<pv, done>>
        /\ UNCHANGED want

Init ==
    /\ size = [v \in Volumes |-> Initial]
    /\ on = StartsOn
    /\ task = [c \in Calls |-> NoTask]
    /\ call = [c \in Calls |-> Idle]
    /\ node = [v \in Volumes |-> [step |-> "idle", capacity |-> 0]]
    /\ mounted = [v \in Volumes |-> FALSE]
    /\ seen = [v \in Volumes |-> 0]
    /\ fs = [v \in Volumes |-> 0]
    /\ want = [v \in Volumes |-> Initial * MbToBytes]
    /\ pv = want
    /\ done = want
    /\ moves = 0 /\ faults = 0

---------------------------------------------------------------------------
(* ControllerExpandVolume                                                  *)

(* The size asked for against the size VCD has.                            *)
Look(c) ==
    LET v == c[2]
    IN  /\ call[c].step = "look"
        /\ \/ size[v] = newSizeMb(c) /\ Answer(c, FALSE)
           \/ size[v] > newSizeMb(c) /\ Fail(c)
           \/ size[v] < newSizeMb(c) /\ Goto(c, "choose") /\ UNCHANGED kube
        /\ UNCHANGED <<disks, task, host, counts>>

(* Mutant: neither mode matters.                                           *)
OnlineForAll(v) == v \in Volumes

(* Neither a volume that several nodes write nor a block volume.           *)
OnlineAllowed(v) == AccessMode[v] # "MULTI_NODE_MULTI_WRITER" /\ VolumeMode[v] # "Block"

(* Mutant: ONLINE whenever it is allowed, attached or not.                 *)
ChooseOnline(c) ==
    /\ call[c].step = "choose"
    /\ call' = [call EXCEPT ![c].step = IF OnlineAllowed(c[2]) THEN "vm" ELSE "verify",
                            ![c].vm = IF on[c[2]] = {} THEN NoVm ELSE CHOOSE vm \in on[c[2]] : TRUE]
    /\ UNCHANGED <<disks, task, host, kube, counts>>

(* Mutant: OFFLINE only.                                                   *)
ChooseOffline(c) ==
    /\ call[c].step = "choose"
    /\ IF on[c[2]] = {} THEN Goto(c, "verify") /\ UNCHANGED kube ELSE Fail(c)
    /\ UNCHANGED <<disks, task, host, counts>>

(* How to expand, by the VMs the disk is attached to just now.             *)
ChooseMode(c) ==
    LET attachedVMs == on[c[2]]
    IN  /\ call[c].step = "choose"
        /\ \/ attachedVMs = {} /\ Goto(c, "verify") /\ UNCHANGED kube
           \/ /\ Cardinality(attachedVMs) = 1 /\ OnlineAllowed(c[2])
              /\ \E vm \in attachedVMs :
                     call' = [call EXCEPT ![c] = [@ EXCEPT !.step = "vm", !.vm = vm]]
              /\ UNCHANGED kube
           \/ /\ attachedVMs # {}
              /\ Cardinality(attachedVMs) = 1 => ~OnlineAllowed(c[2])
              /\ Fail(c)
        /\ UNCHANGED <<disks, task, host, counts>>

(* OFFLINE.  UpdateDisk looks for VMs once more, then sends the new size.  *)
Verify(c) ==
    /\ call[c].step = "verify"
    /\ IF on[c[2]] = {}
       THEN /\ call' = [call EXCEPT ![c] = [@ EXCEPT
                   !.step = "put",
                   !.settings = [Nothing EXCEPT ![c[2]] = newSizeMb(c)]]]
            /\ UNCHANGED kube
       ELSE Fail(c)
    /\ UNCHANGED <<disks, task, host, counts>>

(* ONLINE.  The settings of all disks of the VM, this one's size changed.  *)
ReadVm(c) ==
    /\ call[c].step = "vm"
    /\ IF c[2] \in DisksOf(call[c].vm)
       THEN /\ call' = [call EXCEPT ![c] = [@ EXCEPT
                   !.step = "put",
                   !.settings = [v \in Volumes |->
                                   IF v = c[2] THEN newSizeMb(c)
                                   ELSE IF v \in DisksOf(call[c].vm) THEN size[v] ELSE 0]]]
            /\ UNCHANGED kube
       ELSE Fail(c)
    /\ UNCHANGED <<disks, task, host, counts>>

(* What VCD takes: a disk never shrinks; a disk that is resized by itself  *)
(* is attached nowhere; settings of a VM name no disk it does not have.    *)
Accepts(vm, settings) ==
    /\ \A v \in Named(settings) : ~Busy(v) /\ size[v] <= settings[v]
    /\ IF vm = NoVm
       THEN \A v \in Named(settings) : on[v] = {}
       ELSE ~BusyVm(vm) /\ Named(settings) \subseteq DisksOf(vm)

Put(c) ==
    /\ call[c].step = "put"
    /\ IF Accepts(call[c].vm, call[c].settings)
       THEN /\ task' = [task EXCEPT ![c] = [vm |-> call[c].vm, settings |-> call[c].settings]]
            /\ Goto(c, "wait")
            /\ UNCHANGED kube
       ELSE Fail(c) /\ UNCHANGED task
    /\ UNCHANGED <<disks, host, counts>>

(* Mutant: success is reported once the task is accepted.                  *)
WaitNoTask(c) ==
    /\ call[c].step = "wait"
    /\ Answer(c, call[c].vm # NoVm)
    /\ UNCHANGED <<disks, task, host, counts>>

(* The task's end, and the answer.                                         *)
Wait(c) ==
    /\ \/ call[c].step = "succeeded" /\ Answer(c, call[c].vm # NoVm)
       \/ call[c].step = "failed" /\ Fail(c)
    /\ UNCHANGED <<disks, task, host, counts>>

(* A request of the call fails, and the call with it.                      *)
RequestFails(c) ==
    /\ call[c].step # "idle"
    /\ May("request") /\ faults' = faults + 1
    /\ Fail(c)
    /\ UNCHANGED <<disks, task, host, moves>>

Expand(c) ==
    Look(c) \/ ChooseMode(c) \/ Verify(c) \/ ReadVm(c) \/ Put(c) \/ Wait(c)

---------------------------------------------------------------------------
(* NodeExpandVolume, of a file system volume                               *)

(* Mutant: the file system is resized to the size the kernel remembers.    *)
NodeRescanForgotten(v) ==
    /\ node[v].step = "rescan"
    /\ mounted[v]
    /\ node' = [node EXCEPT ![v].step = "resize"]
    /\ UNCHANGED <<disks, task, call, mounted, seen, fs, kube, counts>>

(* The device behind the staging directory, its size read anew.            *)
NodeRescan(v) ==
    /\ node[v].step = "rescan"
    /\ mounted[v]
    /\ seen' = [seen EXCEPT ![v] = size[v]]
    /\ node' = [node EXCEPT ![v].step = "resize"]
    /\ UNCHANGED <<disks, task, call, mounted, fs, kube, counts>>

(* The file system takes the device's size; kubelet tells the claim.       *)
NodeResize(v) ==
    /\ node[v].step = "resize"
    /\ fs' = [fs EXCEPT ![v] = Larger(@, seen[v])]
    /\ node' = [node EXCEPT ![v].step = "idle"]
    /\ done' = [done EXCEPT ![v] = Larger(@, node[v].capacity)]
    /\ UNCHANGED <<disks, task, call, mounted, seen, want, pv, counts>>

(* The device is not found, or a command fails.                            *)
NodeFails(v) ==
    /\ node[v].step # "idle"
    /\ \/ ~mounted[v] /\ UNCHANGED faults
       \/ May("request") /\ faults' = faults + 1
    /\ node' = [node EXCEPT ![v].step = "idle"]
    /\ UNCHANGED <<disks, task, call, mounted, seen, fs, kube, moves>>

NodeExpandVolume(v) == NodeRescan(v) \/ NodeResize(v)

---------------------------------------------------------------------------
(* VCD, Kubernetes and faults                                              *)

(* A task is over; the call that waits for it hears how it ended.          *)
Ends(c, result) ==
    /\ task[c] # NoTask
    /\ task' = [task EXCEPT ![c] = NoTask]
    /\ call' = [call EXCEPT ![c].step = IF @ = "wait" THEN result ELSE @]

(* A task makes the settings true: it gives the disks their sizes, and a   *)
(* disk of the VM that the settings lack is taken from it.                 *)
TaskSucceeds(c) ==
    LET s == task[c].settings
        Lost(v) == task[c].vm \in on[v] /\ v \notin Named(s)
    IN  /\ Ends(c, "succeeded")
        /\ size' = [v \in Volumes |-> IF v \in Named(s) THEN s[v] ELSE size[v]]
        /\ on' = [v \in Volumes |-> on[v] \ (IF Lost(v) THEN {task[c].vm} ELSE {})]
        /\ mounted' = [v \in Volumes |-> mounted[v] /\ ~Lost(v)]
        /\ UNCHANGED <<node, seen, fs, kube, counts>>

TaskFails(c) ==
    /\ Ends(c, "failed")
    /\ May("request") /\ faults' = faults + 1
    /\ UNCHANGED <<disks, host, kube, moves>>

Claim(v) ==
    /\ \E b \in Requests : b > want[v] /\ want' = [want EXCEPT ![v] = b]
    /\ UNCHANGED <<disks, task, call, host, pv, done, counts>>

(* A resizer asks until the volume has what its claim requests.            *)
Resize(c) ==
    /\ call[c].step = "idle"
    /\ pv[c[2]] < want[c[2]]
    /\ call' = [call EXCEPT ![c] = [Idle EXCEPT !.step = "look", !.bytes = want[c[2]]]]
    /\ UNCHANGED <<disks, task, host, kube, counts>>

(* Kubelet asks until the claim has the volume's capacity.                 *)
KubeletResizes(v) ==
    /\ VolumeMode[v] = "Filesystem"
    /\ mounted[v] /\ node[v].step = "idle"
    /\ done[v] < pv[v]
    /\ node' = [node EXCEPT ![v] = [step |-> "rescan", capacity |-> pv[v]]]
    /\ UNCHANGED <<disks, task, call, mounted, seen, fs, kube, counts>>

Attach(v, vm) ==
    /\ moves < MaxMoves /\ moves' = moves + 1
    /\ on[v] = {} \/ AccessMode[v] = "MULTI_NODE_MULTI_WRITER"
    /\ vm \notin on[v] /\ ~Busy(v) /\ ~BusyVm(vm)
    /\ on' = [on EXCEPT ![v] = @ \union {vm}]
    /\ UNCHANGED <<size, task, call, host, kube, faults>>

(* Kubelet stages the volume, which formats it once.                       *)
Stage(v) ==
    /\ VolumeMode[v] = "Filesystem"
    /\ on[v] # {} /\ ~mounted[v] /\ node[v].step = "idle"
    /\ mounted' = [mounted EXCEPT ![v] = TRUE]
    /\ seen' = [seen EXCEPT ![v] = size[v]]
    /\ fs' = [fs EXCEPT ![v] = IF @ = 0 THEN size[v] ELSE @]
    /\ UNCHANGED <<disks, task, call, node, kube, counts>>

(* The volume is unstaged, and then detached.                              *)
Detach(v, vm) ==
    /\ moves < MaxMoves /\ moves' = moves + 1
    /\ vm \in on[v] /\ node[v].step = "idle"
    /\ ~Busy(v) /\ ~BusyVm(vm)
    /\ on' = [on EXCEPT ![v] = @ \ {vm}]
    /\ mounted' = [mounted EXCEPT ![v] = FALSE]
    /\ UNCHANGED <<size, task, call, node, seen, fs, kube, faults>>

(* A process of the driver restarts: its calls are gone, VCD's tasks are   *)
(* not.                                                                    *)
Crash(r) ==
    /\ May("crash") /\ faults' = faults + 1
    /\ \E c \in Calls : c[1] = r /\ call[c].step # "idle"
    /\ call' = [c \in Calls |-> IF c[1] = r THEN Idle ELSE call[c]]
    /\ UNCHANGED <<disks, task, host, kube, moves>>

Timeout(c) ==
    /\ call[c].step # "idle" /\ call[c].heard
    /\ May("timeout") /\ faults' = faults + 1
    /\ call' = [call EXCEPT ![c].heard = FALSE]
    /\ UNCHANGED <<disks, task, host, kube, moves>>

Next ==
    \/ \E c \in Calls : \/ Expand(c) \/ RequestFails(c) \/ Resize(c) \/ Timeout(c)
                        \/ TaskSucceeds(c) \/ TaskFails(c)
    \/ \E v \in Volumes : \/ NodeExpandVolume(v) \/ NodeFails(v)
                          \/ Claim(v) \/ KubeletResizes(v) \/ Stage(v)
    \/ \E v \in Volumes, vm \in Nodes : Attach(v, vm) \/ Detach(v, vm)
    \/ \E r \in Resizers : Crash(r)

Spec == Init /\ [][Next]_vars

(* The driver's calls go on, VCD ends its tasks, the resizers ask again.   *)
(* Nobody has to claim, attach or detach.                                  *)
Fairness == \A c \in Calls : WF_vars(Expand(c) \/ Resize(c)) /\ WF_vars(TaskSucceeds(c))

FairSpec == Spec /\ Fairness

---------------------------------------------------------------------------
(* Every variable has its type; a call that goes through a VM has one.     *)
TypeOK ==
    /\ size \in [Volumes -> Nat \ {0}]
    /\ on \in [Volumes -> SUBSET Nodes]
    /\ task \in [Calls -> [vm : Vms, settings : Settings]]
    /\ call \in [Calls -> CallRecord]
    /\ \A c \in Calls : call[c].step = "vm" => call[c].vm \in Nodes
    /\ node \in [Volumes -> [step : {"idle", "rescan", "resize"}, capacity : Nat]]
    /\ mounted \in [Volumes -> BOOLEAN]
    /\ seen \in [Volumes -> Nat] /\ fs \in [Volumes -> Nat]
    /\ want \in [Volumes -> Nat] /\ pv \in [Volumes -> Nat] /\ done \in [Volumes -> Nat]

(* What ControllerExpandVolume answers is there: however calls, restarts,  *)
(* retries and VM updates with settings read earlier interleave, neither   *)
(* the volume nor the claim is told a capacity the disk does not have.     *)
AnsweredIsThere == \A v \in Volumes : done[v] <= pv[v] /\ pv[v] <= size[v] * MbToBytes

(* No disk grows beyond its claim's request, although every update of a VM *)
(* sends sizes of its other disks too.                                     *)
NoMoreThanAsked == \A v \in Volumes : size[v] * MbToBytes <= want[v]

(* An answer covers the bytes its call required (controller.go:532).       *)
AnswerIsEnough == [][\A v \in Volumes : pv'[v] # pv[v] =>
                        \E c \in Calls : c[2] = v /\ pv'[v] >= call[c].bytes]_vars

(* A volume that several nodes write is expanded while it is attached to   *)
(* none of them: controller.go:559-572 refuses the call otherwise, and an  *)
(* attach or an update of the VM may still come in between.                *)
ExpandedOffline == [][\A v \in Volumes :
    size'[v] # size[v] /\ AccessMode[v] = "MULTI_NODE_MULTI_WRITER" => on[v] = {}]_vars

(* When NodeExpandVolume has succeeded, the file system has the space the  *)
(* claim is then told of, whatever the disk was expanded by meanwhile      *)
(* (node.go:609-639).                                                      *)
NodeGrowsFileSystem == [][\A v \in Volumes :
    node[v].step = "resize" /\ node'[v].step = "idle" /\ done'[v] # done[v]
        => fs'[v] * MbToBytes >= done'[v]]_vars

(* A request for more is met in the end, although an attach or a detach    *)
(* may come between choosing a mode and using it, unless the volume is     *)
(* attached and must not be expanded there.                                *)
ExpansionEnds == \A v \in Volumes :
    pv[v] < want[v] ~> \/ pv[v] >= want[v]
                       \/ on[v] # {} /\ ~OnlineAllowed(v)
=============================================================================
