----------------------------- MODULE NodeMounts ----------------------------
(***************************************************************************)
(* The node service (pkg/csi/node.go): one volume on the nodes it is       *)
(* attached to, mounted into the pods that use it.                         *)
(*                                                                         *)
(* A node stages the volume: it looks for the device, formats it if        *)
(* needed and mounts it on the staging directory.  For every pod it        *)
(* publishes the volume: it bind-mounts the staging directory, or for a    *)
(* block volume the device, on the pod's target.  The driver remembers     *)
(* nothing: every call decides from the directories and the mount table of *)
(* the node as it finds them, and each command it runs is a step of its    *)
(* own.  Kubelet, the attacher and the pods are the environment, as        *)
(* node.go relies on them.                                                 *)
(***************************************************************************)
EXTENDS Naturals, Sequences, SequencesExt

CONSTANTS
    Nodes, Pods,
    NodeOf,      \* the node of every pod
    VolumeMode,  \* "Filesystem" or "Block"
    Shared,      \* the disk may be attached to several nodes
    Faults,      \* out of NodeFaults
    MaxFaults    \* bound: faults of a kind

NodeFaults == { "command",  \* a command (mount, umount, lsblk, mkfs) fails
                "restart",  \* the driver's process on a node restarts
                "reboot",   \* a node restarts
                "timeout" } \* kubelet gives a call up; the driver goes on with it

ASSUME NodesAreSane ==
    /\ Nodes \cap Pods = {}
    /\ NodeOf \in [Pods -> Nodes]
    /\ VolumeMode \in {"Filesystem", "Block"}
    /\ Shared \in BOOLEAN
    /\ Faults \subseteq NodeFaults
    /\ MaxFaults \in Nat

VARIABLES
    disk,    \* what the disk holds: nothing, an empty file system, data
    device,  \* on every node: is the disk attached, and is its device there
    dir,     \* does the staging directory of a node, the target of a pod exist
    mounts,  \* what is mounted on it, the topmost last
    call,    \* the driver's calls: where each of them is
    kube,    \* what kubelet knows of the volume on the node, in the pod
    want,    \* the pods that are to run
    faults   \* how many faults of each kind there were

vars == <<disk, device, dir, mounts, call, kube, want, faults>>

files == <<dir, mounts>>

(* A node stands for its staging directory and for the calls that stage    *)
(* and unstage, a pod for its target and for the calls that publish and    *)
(* unpublish.  "late" is a call that kubelet has given up.                 *)
Places == Nodes \union Pods
Calls == Places \X {"now", "late"}

On(k) == IF k \in Nodes THEN k ELSE NodeOf[k]
PodsOn(n) == {p \in Pods : NodeOf[p] = n}

(* Bounds: MaxFaults faults of a kind, and none of another kind before or  *)
(* after a timeout.                                                        *)
Fault(f) == /\ f \in Faults /\ faults[f] < MaxFaults
            /\ \A g \in NodeFaults \ {f} : "timeout" \in {f, g} => faults[g] = 0
            /\ faults' = [faults EXCEPT ![f] = @ + 1]

(* Kubelet has given no call up: the driver makes one call at a time for a *)
(* place.                                                                  *)
Patient == faults["timeout"] = 0

Init == /\ disk = "raw"
        /\ device = [n \in Nodes |-> "out"]
        /\ dir = [k \in Places |-> FALSE]
        /\ mounts = [k \in Places |-> <<>>]
        /\ call = [c \in Calls |-> "idle"]
        /\ kube = [k \in Places |-> "none"]
        /\ want = {}
        /\ faults = [f \in NodeFaults |-> 0]

Mounted(k) == mounts[k] # <<>>

(* The disk shows in the node's mount table, at whatever place.            *)
DiskMountedOn(n) ==
    \E k \in Places : On(k) = n /\ \E i \in DOMAIN mounts[k] : mounts[k][i] = "disk"

(* What a bind mount made now for a pod on n shows: the disk, or the empty *)
(* directory of the node it would have been mounted on.                    *)
Visible(n) == IF VolumeMode = "Block" \/ Mounted(n) THEN "disk" ELSE "hollow"

Goto(c, pc) == call' = [call EXCEPT ![c] = pc]

(* A call returns.  Kubelet hears of the ones it still waits for.          *)
Ok(c, state) ==
    /\ Goto(c, "idle")
    /\ kube' = IF c[2] = "now" THEN [kube EXCEPT ![c[1]] = state] ELSE kube

Fail(c) == Goto(c, "idle") /\ UNCHANGED kube

----------------------------------------------------------------------------
(* NodeStageVolume.                                                        *)

\* Mutant of StageRescan: the bus is not scanned again.
StageRescanForgotten(c) ==
    /\ call[c] = "stageRescan"
    /\ Goto(c, "stageFind")
    /\ UNCHANGED <<disk, device, files, kube, want, faults>>

StageRescan(c) ==
    /\ call[c] = "stageRescan"
    /\ device' = [device EXCEPT ![c[1]] = IF @ = "attached" THEN "scanned" ELSE @]
    /\ Goto(c, "stageFind")
    /\ UNCHANGED <<disk, files, kube, want, faults>>

(* A disk whose device has not appeared has the empty path, and the empty  *)
(* path has no size to be rescanned.  A block volume is not mounted.       *)
StageFind(c) ==
    /\ call[c] = "stageFind"
    /\ IF device[c[1]] # "there"      THEN Fail(c)
       ELSE IF VolumeMode = "Block"   THEN Ok(c, "ready")
       ELSE Goto(c, "stageLook") /\ UNCHANGED kube
    /\ UNCHANGED <<disk, device, files, want, faults>>

\* Mutant of StageLook: a directory that exists is taken for a mounted one.
StageLookDir(c) ==
    /\ call[c] = "stageLook"
    /\ IF dir[c[1]] THEN Ok(c, "ready") /\ UNCHANGED dir
       ELSE Goto(c, "stageMount") /\ dir' = [dir EXCEPT ![c[1]] = TRUE] /\ UNCHANGED kube
    /\ UNCHANGED <<disk, device, mounts, want, faults>>

(* isVolumeMountedAsExpected: nothing is left to do when the device is     *)
(* mounted here, and nothing can be done when it is mounted elsewhere.     *)
StageLook(c) ==
    /\ call[c] = "stageLook"
    /\ \/ Mounted(c[1]) /\ Ok(c, "ready") /\ UNCHANGED dir
       \/ ~Mounted(c[1]) /\ DiskMountedOn(c[1]) /\ Fail(c) /\ UNCHANGED dir
       \/ /\ ~DiskMountedOn(c[1])
          /\ dir' = [dir EXCEPT ![c[1]] = TRUE]
          /\ Goto(c, "stageMount") /\ UNCHANGED kube
    /\ UNCHANGED <<disk, device, mounts, want, faults>>

(* A formatted disk can be mounted, but not twice on the same directory.   *)
CanMount(n) == device[n] = "there" /\ dir[n] /\ ~Mounted(n) /\ disk # "raw"

StageMount(c) ==
    /\ call[c] = "stageMount"
    /\ IF CanMount(c[1])
       THEN mounts' = [mounts EXCEPT ![c[1]] = Append(@, "disk")] /\ Ok(c, "ready")
       ELSE UNCHANGED <<mounts, kube>> /\ Goto(c, "stageProbe")
    /\ UNCHANGED <<disk, device, dir, want, faults>>

\* Mutant of StageProbe: a disk that cannot be mounted is formatted.
StageProbeNot(c) ==
    /\ call[c] = "stageProbe"
    /\ Goto(c, "stageFormat")
    /\ UNCHANGED <<disk, device, files, kube, want, faults>>

(* getDiskFormat: only a disk without a file system is formatted.          *)
StageProbe(c) ==
    /\ call[c] = "stageProbe"
    /\ IF device[c[1]] = "there" /\ disk = "raw"
       THEN Goto(c, "stageFormat") /\ UNCHANGED kube
       ELSE Fail(c)
    /\ UNCHANGED <<disk, device, files, want, faults>>

(* mkfs leaves a device alone that this node has mounted.  Its failure is  *)
(* logged only, and the next mount finds out.                              *)
StageFormat(c) ==
    /\ call[c] = "stageFormat"
    /\ disk' = IF device[c[1]] = "there" /\ ~DiskMountedOn(c[1]) THEN "empty" ELSE disk
    /\ Goto(c, "stageMountAgain")
    /\ UNCHANGED <<device, files, kube, want, faults>>

StageMountAgain(c) ==
    /\ call[c] = "stageMountAgain"
    /\ IF CanMount(c[1])
       THEN mounts' = [mounts EXCEPT ![c[1]] = Append(@, "disk")] /\ Ok(c, "ready")
       ELSE UNCHANGED mounts /\ Fail(c)
    /\ UNCHANGED <<disk, device, dir, want, faults>>

NodeStageVolume(c) ==
    \/ StageRescan(c) \/ StageFind(c) \/ StageLook(c) \/ StageMount(c)
    \/ StageProbe(c) \/ StageFormat(c) \/ StageMountAgain(c)

----------------------------------------------------------------------------
(* NodePublishVolume.                                                      *)

\* Mutant of PublishTarget: a target that exists is taken for published.
PublishTargetDir(c) ==
    LET n == On(c[1])
    IN /\ call[c] = "publishTarget"
       /\ dir' = [dir EXCEPT ![c[1]] = TRUE]
       /\ IF dir[c[1]] THEN Ok(c, "ready")
          ELSE IF dir[n] THEN Goto(c, "publishBind") /\ UNCHANGED kube
          ELSE Fail(c)
       /\ UNCHANGED <<disk, device, mounts, want, faults>>

(* The target is made; then the staging directory has to exist, or the     *)
(* device of a block volume.  The look for a mount that is there already   *)
(* (isVolumeMountedAsExpected) compares the mounts' devices with the       *)
(* staging directory, or the mount of a device file with its own path, and *)
(* so never finds one.                                                     *)
PublishTarget(c) ==
    LET n == On(c[1])
    IN /\ call[c] = "publishTarget"
       /\ dir' = [dir EXCEPT ![c[1]] = TRUE]
       /\ IF IF VolumeMode = "Block" THEN device[n] = "there" ELSE dir[n]
          THEN Goto(c, "publishBind") /\ UNCHANGED kube
          ELSE Fail(c)
       /\ UNCHANGED <<disk, device, mounts, want, faults>>

\* Mutant of PublishBind: the target is bound on the staging directory.
PublishBindSwapped(c) ==
    LET n == On(c[1])
    IN /\ call[c] = "publishBind"
       /\ IF dir[c[1]] /\ dir[n]
          THEN /\ mounts' = [mounts EXCEPT ![n] =
                        Append(@, IF Mounted(c[1]) THEN Last(mounts[c[1]]) ELSE "hollow")]
               /\ Goto(c, "publishOptions") /\ UNCHANGED kube
          ELSE UNCHANGED mounts /\ Fail(c)
       /\ UNCHANGED <<disk, device, dir, want, faults>>

(* BindMount binds first ...                                               *)
PublishBind(c) ==
    LET n == On(c[1])
    IN /\ call[c] = "publishBind"
       /\ IF dir[c[1]] /\ IF VolumeMode = "Block" THEN device[n] = "there" ELSE dir[n]
          THEN /\ mounts' = [mounts EXCEPT ![c[1]] = Append(@, Visible(n))]
               /\ Goto(c, "publishOptions") /\ UNCHANGED kube
          ELSE UNCHANGED mounts /\ Fail(c)
       /\ UNCHANGED <<disk, device, dir, want, faults>>

(* ... and then remounts with the options.                                 *)
PublishOptions(c) ==
    /\ call[c] = "publishOptions"
    /\ IF Mounted(c[1]) THEN Ok(c, "ready") ELSE Fail(c)
    /\ UNCHANGED <<disk, device, files, want, faults>>

NodePublishVolume(c) == PublishTarget(c) \/ PublishBind(c) \/ PublishOptions(c)

----------------------------------------------------------------------------
(* NodeUnpublishVolume and NodeUnstageVolume.                              *)

\* Mutant of UnpublishLook: a target that is gone is an error.
UnpublishLookStrict(c) ==
    /\ call[c] = "unpublishLook"
    /\ IF ~dir[c[1]] THEN Fail(c)
       ELSE /\ Goto(c, IF Mounted(c[1]) THEN "unpublishUmount" ELSE "unpublishRemove")
            /\ UNCHANGED kube
    /\ UNCHANGED <<disk, device, files, want, faults>>

UnpublishLook(c) ==
    /\ call[c] = "unpublishLook"
    /\ IF ~dir[c[1]] THEN Ok(c, "none")
       ELSE /\ Goto(c, IF Mounted(c[1]) THEN "unpublishUmount" ELSE "unpublishRemove")
            /\ UNCHANGED kube
    /\ UNCHANGED <<disk, device, files, want, faults>>

(* umount takes the topmost mount away.                                    *)
UnpublishUmount(c) ==
    /\ call[c] = "unpublishUmount"
    /\ IF Mounted(c[1])
       THEN /\ mounts' = [mounts EXCEPT ![c[1]] = Front(@)]
            /\ Goto(c, "unpublishRemove") /\ UNCHANGED kube
       ELSE UNCHANGED mounts /\ Fail(c)
    /\ UNCHANGED <<disk, device, dir, want, faults>>

\* Mutant of UnpublishRemove: a target that cannot be removed is left.
UnpublishRemoveIgnored(c) ==
    /\ call[c] = "unpublishRemove"
    /\ dir' = [dir EXCEPT ![c[1]] = Mounted(c[1])]
    /\ Ok(c, "none")
    /\ UNCHANGED <<disk, device, mounts, want, faults>>

(* A target with another mount on it is busy.                              *)
UnpublishRemove(c) ==
    /\ call[c] = "unpublishRemove"
    /\ IF Mounted(c[1]) THEN Fail(c) /\ UNCHANGED dir
       ELSE Ok(c, "none") /\ dir' = [dir EXCEPT ![c[1]] = FALSE]
    /\ UNCHANGED <<disk, device, mounts, want, faults>>

NodeUnpublishVolume(c) == UnpublishLook(c) \/ UnpublishUmount(c) \/ UnpublishRemove(c)

(* Kubelet removes the staging directory once it is unstaged.              *)
Unstaged(c) ==
    /\ Ok(c, "none")
    /\ dir' = [dir EXCEPT ![c[1]] = @ /\ c[2] = "late"]

\* Mutant of UnstageLook: what is left of the last run is taken for unmounted.
UnstageLookNot(c) ==
    /\ call[c] = "unstageLook"
    /\ Unstaged(c)
    /\ UNCHANGED <<disk, device, mounts, want, faults>>

UnstageLook(c) ==
    /\ call[c] = "unstageLook"
    /\ IF dir[c[1]] /\ Mounted(c[1])
       THEN Goto(c, "unstageUmount") /\ UNCHANGED <<kube, dir>>
       ELSE Unstaged(c)
    /\ UNCHANGED <<disk, device, mounts, want, faults>>

UnstageUmount(c) ==
    /\ call[c] = "unstageUmount"
    /\ IF Mounted(c[1])
       THEN mounts' = [mounts EXCEPT ![c[1]] = <<>>] /\ Unstaged(c)
       ELSE UNCHANGED <<mounts, dir>> /\ Fail(c)
    /\ UNCHANGED <<disk, device, want, faults>>

NodeUnstageVolume(c) == UnstageLook(c) \/ UnstageUmount(c)

Step(c) == NodeStageVolume(c) \/ NodePublishVolume(c)
           \/ NodeUnpublishVolume(c) \/ NodeUnstageVolume(c)

----------------------------------------------------------------------------
(* Faults.                                                                 *)

(* A command fails and the call with it, except for the first mount, which *)
(* is followed by a look at the format, and mkfs.                          *)
CommandFails(c) ==
    /\ Fault("command")
    /\ CASE call[c] = "stageMount"  -> Goto(c, "stageProbe") /\ UNCHANGED kube
         [] call[c] = "stageFormat" -> Goto(c, "stageMountAgain") /\ UNCHANGED kube
         [] call[c] \in {"stageRescan", "stageProbe", "stageMountAgain", "publishBind",
                         "publishOptions", "unpublishUmount", "unstageUmount"} -> Fail(c)
         [] OTHER -> FALSE
    /\ UNCHANGED <<disk, device, files, want>>

EndCallsOn(n) == call' = [c \in Calls |-> IF On(c[1]) = n THEN "idle" ELSE call[c]]

Restart(n) ==
    /\ Fault("restart")
    /\ EndCallsOn(n)
    /\ UNCHANGED <<disk, device, files, kube, want>>

(* The mounts are gone, the directories are not.  Kubelet knows from them  *)
(* that it has to look after the volume.                                   *)
Reboot(n) ==
    /\ Fault("reboot")
    /\ EndCallsOn(n)
    /\ mounts' = [k \in Places |-> IF On(k) = n THEN <<>> ELSE mounts[k]]
    /\ kube' = [k \in Places |-> IF On(k) = n /\ kube[k] = "ready" THEN "uncertain"
                                                                    ELSE kube[k]]
    /\ device' = [device EXCEPT ![n] = IF @ = "out" THEN @ ELSE "there"]
    /\ UNCHANGED <<disk, dir, want>>

(* No handler looks at its context: a call that timed out goes on.         *)
Timeout(k) ==
    /\ Fault("timeout")
    /\ call[<<k, "now">>] # "idle" /\ call[<<k, "late">>] = "idle"
    /\ call' = [call EXCEPT ![<<k, "late">>] = call[<<k, "now">>], ![<<k, "now">>] = "idle"]
    /\ UNCHANGED <<disk, device, files, kube, want>>

----------------------------------------------------------------------------
(* The environment: pods, the attacher and kubelet, which stages before it *)
(* publishes, unpublishes before it unstages, and repeats what failed.     *)

Wanted(n) == want \cap PodsOn(n) # {}
Quiet(k) == call[<<k, "now">>] = "idle"
AllQuiet(n) == \A k \in Places : On(k) = n => Quiet(k)

Begin(k, pc) ==
    /\ Goto(<<k, "now">>, pc)
    /\ kube' = [kube EXCEPT ![k] = "uncertain"]
    /\ UNCHANGED <<disk, device, files, want, faults>>

(* A pod that starts has a target nobody used before.                      *)
PodStarts(p) ==
    /\ p \notin want /\ kube[p] = "none" /\ ~dir[p] /\ call[<<p, "late">>] = "idle"
    /\ want' = want \union {p}
    /\ UNCHANGED <<disk, device, files, call, kube, faults>>

PodEnds(p) ==
    /\ p \in want
    /\ want' = want \ {p}
    /\ UNCHANGED <<disk, device, files, call, kube, faults>>

PodWrites(p) ==
    /\ p \in want /\ kube[p] = "ready"
    /\ Mounted(p) /\ Last(mounts[p]) = "disk"
    /\ disk' = "written"
    /\ UNCHANGED <<device, files, call, kube, want, faults>>

Attach(n) ==
    /\ device[n] = "out" /\ Wanted(n)
    /\ Shared \/ \A m \in Nodes : device[m] = "out"
    /\ device' = [device EXCEPT ![n] = "attached"]
    /\ UNCHANGED <<disk, files, call, kube, want, faults>>

(* The kernel and udev make the device once the bus was scanned.           *)
DeviceAppears(n) ==
    /\ device[n] = "scanned"
    /\ device' = [device EXCEPT ![n] = "there"]
    /\ UNCHANGED <<disk, files, call, kube, want, faults>>

Detach(n) ==
    /\ device[n] # "out" /\ ~Wanted(n)
    /\ kube[n] = "none" /\ \A p \in PodsOn(n) : kube[p] = "none"
    /\ device' = [device EXCEPT ![n] = "out"]
    /\ UNCHANGED <<disk, files, call, kube, want, faults>>

KubeStages(n) ==
    /\ device[n] # "out" /\ Wanted(n) /\ kube[n] # "ready" /\ AllQuiet(n)
    /\ Begin(n, "stageRescan")

KubePublishes(p) ==
    /\ p \in want /\ kube[NodeOf[p]] = "ready" /\ kube[p] # "ready"
    /\ Quiet(p)
    /\ Begin(p, "publishTarget")

KubeUnpublishes(p) ==
    /\ p \notin want /\ kube[p] # "none"
    /\ Quiet(p) /\ Quiet(NodeOf[p])
    /\ Begin(p, "unpublishLook")

KubeUnstages(n) ==
    /\ kube[n] # "none" /\ ~Wanted(n) /\ AllQuiet(n)
    /\ \A p \in PodsOn(n) : kube[p] = "none"
    /\ Begin(n, "unstageLook")

Kubelet == \/ \E n \in Nodes : KubeStages(n) \/ KubeUnstages(n)
           \/ \E p \in Pods : KubePublishes(p) \/ KubeUnpublishes(p)

Next == \/ \E c \in Calls : Step(c) \/ CommandFails(c)
        \/ \E n \in Nodes : Restart(n) \/ Reboot(n)
        \/ \E k \in Places : Timeout(k)
        \/ \E p \in Pods : PodStarts(p) \/ PodEnds(p) \/ PodWrites(p)
        \/ \E n \in Nodes : Attach(n) \/ DeviceAppears(n) \/ Detach(n)
        \/ Kubelet

Spec == Init /\ [][Next]_vars

(* The commands of a call that kubelet waits for end; kubelet and the      *)
(* attacher repeat what is still to be done; the kernel makes a device it  *)
(* has found.  Pods need not start, end or write.                          *)
Fairness ==
    /\ \A k \in Places : WF_vars(Step(<<k, "now">>))
    /\ \A n \in Nodes : /\ WF_vars(Attach(n) \/ DeviceAppears(n) \/ Detach(n))
                        /\ WF_vars(KubeStages(n) \/ KubeUnstages(n))
    /\ \A p \in Pods : WF_vars(KubePublishes(p) \/ KubeUnpublishes(p))

FairSpec == Spec /\ Fairness

----------------------------------------------------------------------------

StagePcs == {"stageRescan", "stageFind", "stageLook", "stageMount", "stageProbe",
             "stageFormat", "stageMountAgain"}
UnstagePcs == {"unstageLook", "unstageUmount"}
PublishPcs == {"publishTarget", "publishBind", "publishOptions"}
UnpublishPcs == {"unpublishLook", "unpublishUmount", "unpublishRemove"}

(* Every variable has its type; nothing but the disk is ever mounted on a  *)
(* staging directory, which publishing binds from and never on.            *)
TypeOK ==
    /\ disk \in {"raw", "empty", "written"}
    /\ device \in [Nodes -> {"out", "attached", "scanned", "there"}]
    /\ dir \in [Places -> BOOLEAN]
    /\ mounts \in [Places -> Seq({"disk", "hollow"})]
    /\ \A n \in Nodes : mounts[n] \in Seq({"disk"})
    /\ call \in [Calls -> {"idle"} \union StagePcs \union UnstagePcs
                                   \union PublishPcs \union UnpublishPcs]
    /\ \A c \in Calls : call[c] \in {"idle"} \union (IF c[1] \in Nodes
                                                     THEN StagePcs \union UnstagePcs
                                                     ELSE PublishPcs \union UnpublishPcs)
    /\ kube \in [Places -> {"none", "uncertain", "ready"}]
    /\ want \subseteq Pods
    /\ faults \in [NodeFaults -> 0..MaxFaults]

(* A volume kubelet was told is published is mounted on the pod's target   *)
(* and stays so until kubelet unpublishes it or the node restarts, though  *)
(* calls that were given up go on beside those that repeat them, and may   *)
(* mount and unmount the same target (node.go:466, 513-521).               *)
PublishedStaysMounted ==
    \A p \in Pods : kube[p] = "ready" => dir[p] /\ Mounted(p)

(* As long as kubelet waits for its calls the following hold.              *)

(* Staging formats a disk that holds nothing, and never again: what a pod  *)
(* has written stays (gofsutil's formatAndMount, called at node.go:229).   *)
DataIsKept == [][Patient /\ disk = "written" => disk' = "written"]_disk

(* A pod whose volume was published sees the disk, not the directory of    *)
(* the node that lies under a missing mount: NodePublishVolume looks for   *)
(* the staging directory but not for the mount on it (node.go:437-446).    *)
PodsSeeTheDisk ==
    Patient => \A p \in Pods : kube[p] = "ready" => Mounted(p) /\ Last(mounts[p]) = "disk"

(* What NodeUnpublishVolume has acknowledged has left nothing behind, one  *)
(* umount a call though there be several mounts (node.go:513-523).         *)
UnpublishedIsClean ==
    Patient => \A p \in Pods : kube[p] = "none" => ~Mounted(p) /\ ~dir[p]

(* A disk leaves a node only when it is mounted nowhere on it.             *)
DetachedIsUnmounted ==
    Patient => \A n \in Nodes : device[n] = "out" => ~DiskMountedOn(n)

(* A pod that keeps waiting for its volume gets it, however late the       *)
(* device appears and whatever a failed call left (node.go:695-759), once  *)
(* no other node holds the disk.                                           *)
PodsGetTheirVolume == \A p \in Pods :
    p \in want ~> \/ kube[p] = "ready" \/ p \notin want \/ ~Patient
                  \/ \E q \in want : NodeOf[q] # NodeOf[p]

(* A volume no pod of a node wants any longer is unmounted and detached.   *)
VolumeIsReleased == \A n \in Nodes :
    ~Wanted(n) ~> device[n] = "out" \/ Wanted(n) \/ ~Patient

(* A target that is mounted is not mounted once more: "the device is       *)
(* mounted as expected, so nothing to do" (node.go:461).                   *)
OneMountPerTarget == \A p \in Pods : Len(mounts[p]) <= 1
=============================================================================
