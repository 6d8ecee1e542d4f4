# A TLA+ model of the named-disk CSI driver for VMware Cloud Director

The driver turns the calls of Kubernetes' CSI sidecars and of kubelet into
requests to VMware Cloud Director (VCD) and commands on a node: a volume is a
*named independent disk*, its volume id is the disk's **name**, and a node is a
VM. This directory models the parts of the driver where calls, failures and
restarts interleave, checks them with TLC, and proves their safety properties
and refinements for all values of the parameters with TLAPS.

Lines are those of `src/pkg/...` and `src/cmd/...`; `defined_entity.go` is
`src/vendor/github.com/vmware/cloud-provider-for-cloud-director/pkg/vcdsdk/defined_entity.go`.

## 1. The system

| component | state | operations | talks to | module |
|---|---|---|---|---|
| Controller service, `pkg/csi/controller.go` | none of its own | CreateVolume, DeleteVolume, ControllerPublishVolume, ControllerUnpublishVolume, ControllerExpandVolume; each call is a goroutine | sidecars (gRPC), DiskManager | `CsiController`, `VolumeExpand` |
| DiskManager, `pkg/vcdcsiclient/disks.go` | the client's `RWLock`, the zone map | CreateDisk, DeleteDisk, AttachVolume, DetachVolume (under the lock); GetDiskByNameOrId, GovcdAttachedVM, UpdateDisk (without); RDE bookkeeping and upgrade | VCD (REST) | the same, `RdeUpdate`, `RdeUpgrade` |
| RDE bookkeeping, `defined_entity.go`, disks.go | in VCD: volume list, error set and event set in one document with an etag (the cluster's runtime defined entity) | read, change, conditional write, repeated on a conflict | VCD | `RollingWindow`, `RdeDocument`, `RdeUpdate` |
| Node service, `pkg/csi/node.go` | on the node: mounts, directories, devices, file systems | stage, unstage, publish, unpublish, expand | kubelet (gRPC), the node's commands | `NodeMounts`, `VolumeExpand` |
| Startup, `cmd/csi/main.go`, `pkg/csi/driver.go` | - | wait for credentials, log in, upgrade the RDE, serve | all of the above | `RdeUpgrade` |
| VCD (external) | disks, attachments, tasks, the RDE | asynchronous: a request starts a task on a disk or a VM, one at a time | - | in each module, from its use |
| Orchestrator (external): external-provisioner, -attacher, -resizer, kubelet | what it believes of every volume and attachment | repeats every call until it succeeds; gives up waiting after its `--timeout` | controller and node service | in each module, from its use |

How they interact. The controller's deployment has one replica, but a rolling
update runs an old and a new one beside each other; a process may restart at any
time; nothing is persisted but what VCD and the node hold. The four handlers
that create, delete, attach and detach share one lock; their first look at VCD
(which disk has the name, is it attached) happens *outside* the lock and is used
inside. Expansion and the reports of errors and events take no lock. No handler
looks at its context, so a call whose caller gave up runs to its end beside its
retry.

What is hard in it, and what makes each part correct:

- **Controller and DiskManager.** Two handlers between their look and their
  request; a retry beside the call it repeats; a restart or a lost reply
  between a request and its task's end; a task that fails or is aborted; errors
  in the middle of an operation that has already changed something.
  Correct: one disk per name; a disk that is not shareable has one user; what
  was acknowledged (created, deleted, attached, detached) stays true until the
  orchestrator asks for something else; every call is answered.
- **RDE bookkeeping.** Several goroutines and other programs update one
  document through read-modify-conditional-write; the rounds can run out.
  Correct: no update is lost, undone or made twice.
- **Volume expansion.** Runs without the lock; rounds sizes; updates a VM with
  settings read earlier. Correct: what is answered is there, nothing grows
  beyond its request, the file system follows, and every request is met.
- **Node service.** Retries after partial failures, stale directories, devices
  that appear late, reboots. Correct: no pod sees the node's own disk under a
  missing mount, nothing written is formatted away, what was unpublished and
  unstaged has left nothing behind, pods get their volume.
- **Startup and RDE upgrade.** Runs beside other writers of the RDE and, in a
  rolling update, beside a driver that serves; any failure ends the process.
  Correct: nothing is lost from the list and nothing comes back, a driver that
  serves has an upgraded RDE, and it serves in the end. With a volume in the
  list an old version kept it does not (finding `upgrade_old_list`).

`PROJECT.json` lists the components with their status, every hazard with its
line and the properties that cover it, and the map from definitions to source.

## 2. Modules

| module | what it is | extends / instantiates |
|---|---|---|
| `CsiController` | the four controller handlers over DiskManager, with VCD, the orchestrator and all faults | instance of `VolumeService` |
| `VolumeService` | the same four operations as the orchestrator should see them, one step each | |
| `RollingWindow` | the error and event sets: appending, dropping the oldest, removing a topic | |
| `RdeDocument` | what the driver keeps in the RDE, and the changes it makes to a copy | `RollingWindow` |
| `RdeUpdate` | the rounds of an update of the RDE by several writers | `RdeDocument`; instance of `RdeStore` |
| `RdeStore` | what an update promises its caller, one step each | `RdeDocument` |
| `NodeMounts` | stage, publish, unpublish, unstage on several nodes, command by command | |
| `VolumeExpand` | ControllerExpandVolume, UpdateDisk and NodeExpandVolume | |
| `RdeUpgrade` | the start of the driver and its upgrade of the RDE | `RollingWindow` |
| `CsiControllerProofs` | types, names and attachments of `CsiController` | `CsiController` |
| `CsiAnswersProofs` | what its answers are worth | `CsiControllerProofs` |
| `CsiRdeProofs` | what the RDE lists | `CsiAnswersProofs` |
| `CsiRefinementProofs` | that it implements `VolumeService` | `CsiAnswersProofs` |
| `RdeUpdateProofs`, `NodeMountsProofs`, `VolumeExpandProofs`, `RdeUpgradeProofs` | proofs about the module named | the module |
| `MC...` | constants for TLC | the module |

The modules meet at their abstractions. `CsiController` sees an update of the
RDE as one step whose outcomes - made, refused, made with the answer lost,
neither made nor refused because the rounds ran out - are those `RdeStore`
allows and `RdeUpdate` is shown to have. `NodeMounts` sees an attached disk as
`VolumeService` promises it: attached until it is asked to be detached.
`VolumeExpand` sees attaches and detaches as single steps, `RdeUpgrade` the
making and deleting of a volume.

Definitions marked "Mutant of" are plausible bugs, used to confirm that each
checked property notices one.

### CsiController

State: `disks` (VCD's disks with their attachments and the last task on each),
`rde` (the disks the cluster's RDE lists), `lock` (holder of `RWLock`), `h` (for
every handler its program counter, operation, arguments and the disk it found),
`vol` and `att` (what the orchestrator was told). Between two calls to VCD a
handler does nothing others can see, so every step is one VCD call with what
the code does with its result:

| program counter | the code there | next |
|---|---|---|
| `find` | GetDiskByNameOrId in ControllerPublishVolume (controller.go:328) and ControllerUnpublishVolume (:389), outside the lock | `Find` |
| `peek` | the attachments in ControllerUnpublishVolume (:397), outside the lock | `Peek` |
| `lock` | waiting for `RWLock` | `Acquire` |
| `lookup` | GetDiskByNameOrId in CreateDisk (disks.go:119), DeleteDisk (:573), DetachVolume (:707) | `CreateLookup`, `OtherLookup` |
| `check` | the attachments in DeleteDisk (:585), AttachVolume (:651), DetachVolume (:715) | `DeleteCheck`, `AttachCheck`, `DetachCheck` |
| `submit` | the request: createDisk (:175), govcdDelete with its second look (:593), AttachDisk (:677), DetachDisk (:740) | `CreateSubmit`, `DeleteSubmit`, `AttachSubmit`, `DetachSubmit` |
| `wait` | WaitTaskCompletion, and the read after it in create and attach (:188, :690) | `WaitTask` |
| `rde` | addPvToRDE, removePvFromRDE (:202, :606) | `UpdateRde` |
| `ok`, `fail` | the response | `Respond` |

`EarlyError` is an error in what the handler asks VCD before the disk: bearer
token, OVDC, VM. `Return` is an error or success that leaves a function which
holds the lock: the deferred unlock runs. Size, bus type, storage profile and
sharing of a disk are one member of `Specs`; a lookup compares it with what the
class asks for (disks.go:137-145).

External parts. VCD: a request is refused while a task runs on the disk, a disk
exists from the accepted request on, goes away if its creation fails, and is not
deleted while attached (the comment at disks.go:449-450). Whether VCD refuses to
attach a disk that is not shareable twice is a parameter, `VcdChecksSharing`;
the runs set it to FALSE, so what they show does not lean on VCD. The
orchestrator: never two calls outstanding for one volume, or one volume and
node; repeats a failed call; asks to delete only what was created and to publish
only what exists; may unpublish at any time; volume names are used once, as the
provisioner's `pvc-<uid>` are.

Faults: `api` a VCD call fails without effect; `lost` a request takes effect and
the reply is lost (for an RDE update too); `wait` polling a running task fails;
`task` a task ends in error; `abort` a task is aborted, which the client library
does not count as an error; `rde` an RDE update fails; `rdeSilent` the rounds of
a CAPVCD RDE update run out and the update returns nil; `timeout` the
orchestrator gives up on a call; `crash` the process restarts.

Simplifications. A lookup over several OVDCs is one step. Reports of errors and
events are in `RdeUpdate`: no handler reads them. Creating a disk is refused
when the pool `Disks` is used up (a quota). A panic of a handler is a restart.

### RdeDocument, RdeUpdate, RdeStore

State: `doc` (the document), `log` (the writes VCD accepted; their number is the
etag, and the properties read the past from it), `u` (every writer: the update
it makes, its round, the copy and etag it read). `Get` is the read with its
early returns (`NotRequired`, `Supported`), `Put` the accepted conditional
write, `Conflict` status 412, `PutFails` and `PutLost` the other ends. `Changed`
is what each update does to the copy: AddVCDResourceToStatusMap,
RemoveVCDResourceSetFromStatusMap, updateComponentMapWithNewError,
removeErrorsfromComponentMap, updateComponentMapWithNewEvent, and for a native
entity an append and `RemoveFirst`. CAPVCD entities
are updated by AddTo-/RemoveFromVCDResourceSet, AddToErrorSet, AddToEventSet and
RemoveErrorByNameOrIdFromErrorSet (defined_entity.go), native ones by addPvToRDE
and removePvFromRDE themselves (disks.go:766-921). The loops of the first run
`MaxRDEUpdateRetries - 1` rounds and then return nil; those of the second run
one more and then return an error, and a connection error ends the process
(:853). The volumes are a list, of which `pvs` says how often each volume is in
it (nothing looks at the order). A CAPVCD entity is not given a volume it lists;
for a native one addPvToRDE compares the disk's name with the ids of the list
(:841-850), which never match, so nothing but its callers keeps it from listing
a disk twice, and removePvFromRDE takes the first of several entries away
(:892-902). `CsiController` keeps a set, since there only the call that made a
disk adds it. An entry of the error or event set is its topic: name and resource;
details and times are left out.

### NodeMounts

One volume. State: `disk` (raw, an empty file system, data), `device` (per node:
out, attached, scanned, there), `dir` and `mounts` (per place - a node's staging
directory, a pod's target: does it exist, what is mounted on it, topmost last),
`call` (the driver's calls; `"late"` ones were given up by kubelet), `kube` (what
kubelet knows), `want` (the pods that are to run), `faults`. Every command is a
step of its own, since each may fail, or be the last before a restart:

| call | steps | code |
|---|---|---|
| NodeStageVolume | `StageRescan`, `StageFind`, `StageLook`, `StageMount`, `StageProbe`, `StageFormat`, `StageMountAgain` | node.go:59-280, getDiskPath :695-759, isVolumeMountedAsExpected :769-802; gofsutil's formatAndMount |
| NodePublishVolume | `PublishTarget`, `PublishBind`, `PublishOptions` | node.go:323-483; gofsutil's BindMount |
| NodeUnpublishVolume | `UnpublishLook`, `UnpublishUmount`, `UnpublishRemove` | node.go:485-527 |
| NodeUnstageVolume | `UnstageLook`, `UnstageUmount` | node.go:282-321 |

Kubelet stages before it publishes, unpublishes before it unstages, repeats what
failed and never has two calls outstanding for one place; the attacher attaches
where a pod is to run and detaches what kubelet no longer uses. The volume is a
file system or a block volume, on one node at a time unless `Shared`. Read-only
modes and names of devices and directories are left out.

### VolumeExpand

State: `size`, `on`, `task` (VCD), `call` (ControllerExpandVolume), `node`,
`mounted`, `seen`, `fs` (the node: NodeExpandVolume, the staged volume, the size
its kernel knows, the file system), `want`, `pv`, `done` (the claim's request,
the capacity of the volume, what the claim is told). `Look` compares sizes
(controller.go:532-545), `ChooseMode` chooses OFFLINE or ONLINE (:547-592),
`Verify` and `ReadVm` are the looks of UpdateDisk and of the ONLINE way before
the request `Put`, `Wait` is the task's end and the answer. Every driver process
has a resizer beside it (the sidecar runs without leader election), hence
`Resizers` and the pairs `Calls`. VCD is assumed to refuse a smaller size, the
update of an attached disk by itself, and settings of a VM that name a disk it
does not have; settings that lack a disk of the VM take it away.

### RdeUpgrade

State: `rde` (the document: kind, form, old list, new list, version, errors, the
part of others), `vol` (which volumes exist), `proc` (every driver: where its
start is, its copy, whether the etag it read is still the document's), `creds`,
`writes`, `faults`. `Boot` is main.go:98-161 with the wait for credentials,
`Setup` VCDDriver.Setup (driver.go), `GetPvs`, `Lookup`, `PutPvs` are
UpgradeRDEPersistentVolumes (disks.go:924-1055), `GetCsi`, `PutCsi`
ConvertToLatestCSIVersionFormat (:1058-1160), `Report`, `Event`, `Clear`,
`Failing` the errors and events around them. `CreateVolume` and `DeleteVolume`
are those of a driver that serves. Documents start in any form the upgrade has
a branch for. A report is one step here; errors are a rolling window as in
`RdeDocument`.

The start builds the DiskManager of the upgrade without `Org` and without
`ZoneMap` (main.go:163-166). UpgradeRDEPersistentVolumes looks for the disk of
every entry of the old list (disks.go:985), and GetDiskByNameOrId calls a method
of the nil organization (:378), or reads the nil zone map when no OVDC is
configured (:347). So `Lookup` is the end of the process, with nothing written
and nothing reported, and `PutPvs` is reached only without entries. What
follows a lookup that returns - collecting `DiskQueryError`s,
UpgradeStatusMapOfRdeToLatestFormat with the entries moved - cannot be reached
and is not modelled.

## 3. Runs

| run | instance | shows |
|---|---|---|
| `promises` | 1 volume, 2 VMs, 2 handlers, 2 disks; a shareable disk made by hand under the volume's name, or none; native RDE; faults api, task | `VolumeService` is implemented; a disk that is not shareable has one user (with the proof's invariant `SharingInv`); created disks are ready; published stays attached, unpublished detached; the RDE lists nothing deleted |
| `crashes` | two OVDCs with a zone map, a disk made by hand in the other one, 3 disks, CAPVCD; faults lost, wait, task, rde, rdeSilent, crash; symmetry | one disk per name, deleted is gone, published stays attached |
| `answers` | 1 volume, 1 VM, 2 disks, CAPVCD; faults task, abort, timeout; fairness | every call is answered; one disk per name (the proof's invariant `NameInv`); what was created is in the RDE |
| `rde_updates` | 2 writers, 1 volume, 2 topics, window of 2, 3 tries, 4 writes; CAPVCD and native | updates are those of `RdeStore`; the list follows the accepted updates; recent errors are kept and cleared ones gone; windows neither overflow nor lose entries |
| `node` | 2 nodes, 2 + 1 pods, file system, one node at a time; every fault once; fairness | a published volume stays mounted, even beside calls kubelet gave up; what is mounted on a staging directory is the disk; pods see the disk; what was unpublished is gone; a detached disk is mounted nowhere; data is kept; pods get their volume; the volume is released |
| `expand` | a file system volume attached at first and expanded by two resizers, a shared block volume expanded by one; 2 attaches or detaches, 1 fault; fairness | answers are true; nothing grows beyond its request; shared volumes are expanded offline; the node grows the file system; expansions end |
| `upgrade` | 2 drivers, 1 upgrades, 1 volume; every kind, three forms; window of 2, 2 writes of others, 1 fault; fairness | no volume is lost from the list or comes back; others' writes are kept; who serves has an upgraded RDE; the upgrade error is cleared; drivers serve, except one that is to upgrade an RDE whose old list names a volume |
| `rde_add_lost`, `zones_silent`, `node_mounted_twice`, `upgrade_conflict`, `upgrade_old_list` | the fault, the write or the list that does it; the last with the fairness of `upgrade` | findings, section 4 |

Invariants alone are checked under symmetry; refinement and liveness without.
Properties appear where their faults are: under other faults some of them fail,
and the tables of section 4 say which.

**Bounds.** Two handlers are enough for an operation and the one that disturbs
it (or a call and its retry): everything between `Acquire` and `Return` is
serial, so a third handler can only wait for the lock or look from outside. Two
disks are one more than a correct driver makes for one name; with a disk made by
hand in another zone it is three. Two RDE writers and other programs make every
conflict; with two rounds of a CAPVCD update (and three of a native one) both
"another round" and "out of rounds" happen, and four writes overtake an update
in all its rounds. A window of two entries overflows with the third. In `node`
one fault of each kind (several kinds in one run, a timeout alone) covers a
failure, the failure of its cleanup, a restart and a reboot; two pods on a node
share its staging directory, the third makes the disk move. In `expand` sizes
are 1 and 2 MB of 2 bytes: one expansion from below to the request. In
`upgrade` three rounds of writes of others and of the other driver meet two
tries. The theorems of section 5 have none of these bounds.

**Deadlock** is checked except where the model really may stop: when the bound
on writes, moves or faults is reached or everything asked for is done
(`rde_updates`, `node`, `expand`, `upgrade` and their findings).

**Fairness**, as the code and its surroundings justify it. `answers`: a
goroutine that can take a step does (weak fairness of `Step`), Go's RWMutex lets
a waiter in eventually (strong fairness of `Acquire`: the lock may be taken by
others in between), and every VCD task ends (without it WaitTaskCompletion polls
for ever, as the code does). `node`: the commands of a call kubelet waits for
end, kubelet and the attacher repeat what is still to be done, the kernel makes
a device once the bus was scanned. `expand`: the driver's calls go on, VCD's
tasks end, the resizer asks again. `upgrade`: a process goes on with its start,
Kubernetes starts it again, credentials arrive. Nothing is assumed of pods,
claims, other programs or faults; faults are bounded, so "in the end" means
once they have stopped.

## 4. What the code does that its texts deny, and further behaviours

The findings, each a run that TLC ends with a counterexample:

- `rde_add_lost`: a CreateVolume whose RDE update failed succeeds when it is
  retried, and the disk is never listed (disks.go:147 returns before :202;
  against the e2e and system tests).
- `zones_silent`: with a zone map an OVDC that cannot be asked counts as one
  without the disk, and DeleteVolume succeeds (disks.go:354 against :566, :576).
- `node_mounted_twice`: a publish repeated after a restart does not find its own
  mount and mounts once more (node.go:450 and :772 against :461). The unpublish
  takes one mount away per call and fails until the last, so nothing remains.
- `upgrade_conflict`: a conflict at the conversion ends the start; the branch
  for it is not reached (disks.go:1132 against :1145-1148).
- `upgrade_old_list`: a CAPVCD RDE whose old list names a volume makes every
  start with `--upgrade-rde` panic at the lookup of its disk (main.go:163 to
  disks.go:985 and :378 or :347, against driver.go:150 and disks.go:1023): the
  list is never moved, the driver never serves, and the RDE says nothing of it.
  With an organization the next obstacle is disks.go:336, which asserts a list
  of disks where a lookup by id returns one.

### Which fault breaks which property

`CsiController` with one volume, two VMs, CAPVCD, no zone map,
`VcdChecksSharing` FALSE, exactly one kind of fault; `-` the property holds, `x`
TLC finds it violated. Without faults all hold.

| | api | lost | wait | task | abort | rde | rdeSilent | timeout | crash |
|---|---|---|---|---|---|---|---|---|---|
| OneDiskPerName | - | - | - | - | - | - | - | - | - |
| SingleAttach | - | x | x | - | - | - | - | - | x |
| DeletedIsGone | - | - | - | - | x | - | - | x | - |
| CreatedIsReady | - | x | x | - | - | - | - | - | x |
| PublishedStaysAttached | - | - | - | - | x | - | - | x | - |
| UnpublishedStaysDetached | - | x | x | - | x | - | - | x | x |
| CreatedIsInRde | x | x | x | - | - | x | x | - | x |
| DeletedIsNotInRde | - | x | x | - | - | x | x | x | x |

`lost`, `wait` and `crash` leave a task running with nobody waiting for it and
the lock free: the next handler sees the state before that task (single attach
then rests on VCD's own check). `timeout` lets an old call take effect after
newer ones were answered: a create that was still waiting for the lock makes a
disk for a volume deleted in the meantime. These are limits of the driver.

### Further behaviours

Each is seen by changing a configuration as said; none has a run of its own.

- A DeleteVolume whose RDE update failed succeeds when it is retried, and the
  disk stays listed (disks.go:575 returns before :606, although
  defined_entity.go:744-745 provides for a removal that is repeated): fault
  `rde`, `DeletedIsNotInRde`.
- An aborted attach, detach or delete is acknowledged (disks.go:684): fault
  `abort`, `PublishedStaysAttached`.
- A CAPVCD update overtaken in all its rounds returns nil (defined_entity.go:300):
  `RdeStore` without `Overtaken` in `Skip`.
- A ControllerExpandVolume that is repeated after its task finished finds the
  size it asks for and answers that no node expansion is required
  (controller.go:534-545), so the claim is told of space the file system does
  not have; and an OFFLINE expansion never needs one (:603), though a later
  stage mounts the file system as it is (node.go:228): in `expand`,
  `\A v : fs[v] > 0 => done[v] <= fs[v] * MbToBytes` as an invariant.
- Sizes that are no whole number of MB are rounded down, and the answer is less
  than the bytes required (controller.go:533 against :532): `Requests = {5}` in
  `expand`, `AnswerIsEnough` as a property.
- Nothing in addPvToRDE keeps a native RDE from listing a disk twice
  (disks.go:841-850), and a removal would take one entry only: in `rde_updates`,
  `\A p \in Pvs : doc.pvs[p] <= 1` as an invariant. The driver adds a disk once,
  so it takes another program to get there.
- A volume of one writer that is attached is expanded ONLINE
  (controller.go:560), while the driver advertises offline expansion only
  (driver.go:69-71): `ExpandedOffline` without its second premise.
- A driver with `--upgrade-rde` whose RDE has no status, or none that is a map,
  ends its start every time (disks.go:1093): add `"noStatus"` to `Forms`,
  `DriverServes`.
- Two drivers that both upgrade and keep step can make each other's conversion
  fail without end: `Upgraders = {d1, d2}`, `DriverServes`.
- A driver that serves an RDE nobody upgraded takes a deleted volume only off
  the new list: a volume of the old list stays listed after its deletion
  (`DeletedStayAway` says only that none comes back).
- A node call kubelet gave up goes on beside its repetition, and a disk that is
  shared may be staged on two nodes at once: without `Patient`, or with
  `Shared`, a target may stay behind, and a disk two calls found raw may be
  formatted after the first pod has written to it. All properties of
  `NodeMounts` but `TypeOK` and `PublishedStaysMounted` therefore say `Patient`.

## 5. Proofs

All theorems are about `Spec` of their module, for all values of the constants
that satisfy the module's assumptions, without the bounds of the runs. Every
invariant and action property that a passing run checks is stated by one, and so
are both refinements.

### CsiController

| theorem | says | under | argument |
|---|---|---|---|
| `TypeCorrect` | `[]TypeOK` | - | `TypeInv` adds what a handler has found out by the time it reaches a step (`WellFormed`): without it `h[s].disk` may be `None` where a disk is updated |
| `NameInvariant`, `OneDisk` | `[]NameInv`, `[]OneDiskPerName` | `LookupsAnswer` | code under the lock runs in the lock's holder (`LockHeld`), and between CreateDisk's lookup and its request no disk has the name (`NoDiskYet`); a running task belongs to a disk that exists, so no task's end can bring a name back |
| `SharingInvariant`, `SingleVm` | `[]SharingInv`, `[]SingleAttach`, without VCD's help | `SeesTasksThrough` | every running task has its handler waiting (`TasksAreAwaited`), who holds the lock; so AttachVolume's look is true when it asks (`NoUserYet`) and until the task ends (`NoUserMeanwhile`) |
| `AcknowledgedDeletion` | `[]DeletedIsGone` | `CallsRunTheirCourse` | one call at a time is out for a volume, so while a delete is out nobody makes its disk; what DeleteDisk looked up, or its task, concerns the only disk of the name, and an answer is given once that is gone (`DeleteDone`) |
| `AcknowledgedPublish` | `[]PublishedStaysAttached` | `CallsRunTheirCourse` | a detach runs, or is about to be asked for, only while an unpublish of the same volume and VM is out; one that waits for nobody any more (a restart) still belongs to an unpublish the orchestrator has not seen answered |
| `AcknowledgedCreation` | `[]CreatedIsReady` | `SeesTasksThrough` | CreateDisk returns an existing disk without asking whether it is finished; but an unfinished one has its handler waiting under the lock (`SharingInv`), and a finished one stays until its volume is to be deleted |
| `AcknowledgedUnpublish` | `[]UnpublishedStaysDetached` | `CallsRunTheirCourse`, `SeesTasksThrough` | DetachVolume's early successes speak of the only disk of the name; no attach is left over, since every task is awaited |
| `DeletedLeavesRde` | `[]DeletedIsNotInRde`, CAPVCD and native | `RdeIsHeard`, `SeesTasksThrough`, `LookupsAnswer` | a listed disk is finished or in the hands of the delete that will take it off the list (`ListedIsThere`) |
| `CreatedEntersRde` | `[]CreatedIsInRde`, CAPVCD and native | `RdeIsWritten` | a disk the driver made is listed, to be deleted, or in the hands of the create that will list it (`ThereIsListed`); that one holds the lock, so no other create can find the disk and answer first |
| `Refinement` | `ImplementsVolumeService` | `CallsRunTheirCourse`, `SeesTasksThrough` | a volume's operation happens where the task ends (or at the step that fails); every other step is a stutter; the answers' invariants give that each answer is true when it is given |

The assumptions are sets of faults that do not happen, and each is what the
property needs: compare them with the table of section 4, whose `x` they exclude.

- `LookupsAnswer`: no zone map, or every OVDC can be asked. Otherwise "not
  found" may be wrong (finding `zones_silent`).
- `SeesTasksThrough`: no reply is lost, no poll fails, no restart. Otherwise a
  task runs with nobody waiting for it and the lock free.
- `CallsRunTheirCourse`: `LookupsAnswer`, no task is aborted (the driver takes an
  aborted task for a done one) and no caller gives up (an old call may take
  effect after newer ones were answered). Lost replies, failed polls and
  restarts are allowed.
- `RdeIsHeard`: no update of the list fails, is silently dropped or belongs to a
  caller who gave up (retries of a delete find no disk and leave the entry).
- `RdeIsWritten`: no request, poll or update fails or is lost, no restart
  (finding `rde_add_lost`). Callers may give up, and tasks may fail or be aborted.

None of the properties is inductive by itself: what was acknowledged is kept by
what the *other* handlers do next, so each invariant says, for every place a
handler may be at, what it found there and why nobody has changed it since. The
lemmas `...Stays` and `Step...` of a module say so part by part. `CallsInv`
(which calls may be out beside each other), `NameInv` and `SharingInv` are used
by all. TLC checked each invariant on small instances, as an invariant of a run,
before it was proved.
`DeletedIsNotInRde` and `CreatedIsInRde` are checked by a run with one kind of
RDE each; the theorems cover both.

### The RDE

| theorem | says | argument |
|---|---|---|
| `NoLostUpdate` | `RdeUpdate` implements `RdeStore` | a copy read under the current etag is the document (`Fresh`), so an accepted write is the change made to the document as it is; a writer in round *r* has been overtaken at least *r* - 1 times (`Overtaken`), so one that gives up was overtaken in all its rounds |
| `UpdateTypes` | `[]TypeOK` | with the windows' lengths |
| `ListFollows` | `[]ListFollowsUpdates` | every step changes the document as it is or not at all (`DocumentSteps`); so each accepted update of a native list adds or takes away one entry, and with CAPVCD, where nothing is added that is listed, the last one decides |
| `WindowsHold` | `[]WindowsAreKept` | the same; an event goes only when the window is full, that is when as many were accepted |
| `ReportsStay` | `[]RecentReportsAreListed` | `Reports` makes it inductive: an entry is no further from the end of the error set than there were reports after it, which appending, dropping the oldest entry and clearing another topic all keep |
| `UpgradeKeepsVolumes` | `RdeUpgrade`: `[]VolumesAreListed` | a copy whose etag is current lists what the document lists; a start that meets an entry in the old list panics before it has a copy to send |
| `UpgradeKeepsOthers` | `OthersAreKept` | the same: a copy that can be written is as new as the document |
| `DeletedVolumesStayAway` | `DeletedStayAway` | the converse: such a copy lists nothing the document does not |
| `UpgradedBeforeServing` | `[]ServingIsUpgraded` | a driver past a part of the upgrade has seen it done (`HasUpgraded`), and no later write undoes it; of the old list a start comes past the lookup only if it is empty, and nobody adds to it |
| `ServingClearsTheError` | `[]UpgradeErrorIsCleared` | while the error is there some driver that upgrades has still to clear it (`Retried`); only such drivers come to fail (`StageFits`) |
| `UpgradeTypes` | `[]TypeOK` | with the rounds of `StageFits` |

Two forms are chosen for the provers. `Without` (RollingWindow) is written out,
and so is the sum of the faults in `RdeUpgrade`, because the provers know nothing
of `SelectSeq` or of folds.

### The node and expansion

| theorem | says | argument |
|---|---|---|
| `PublishedIsTheDisk` | `[]PodsSeeTheDisk` | the invariant relates each place's `kube`, directory, mounts and call while no call was given up: a call at a place excludes others that depend on it (`Serial`), and what kubelet calls ready or none is so (`Tidy`) |
| `UnpublishLeavesNothing` | `[]UnpublishedIsClean` | the same invariant |
| `DetachIsSafe` | `[]DetachedIsUnmounted` | the same: detached means that kubelet has nothing on the node |
| `FormatKeepsData` | not shared: `DataIsKept` | the same, with `Alone`: a disk is on one node at a time, and when that node is about to format, the disk is raw |
| `MountTypes` | `[]TypeOK`, with calls that were given up too | only the steps of a stage mount there and they mount the device; a publish binds at a pod's target, whatever it found (`StagedFits`) |
| `PublishedIsMounted` | `[]PublishedStaysMounted`, with calls that were given up too | `PublishedInv`: a call that unpublishes, given up or not, began when the pod was not to run, and the pod is not started again before the call has ended; so where kubelet hears of a publish, nothing that unmounts is on its way |
| `ExpansionTypes` | `VolumeExpand`: `[]TypeOK` | with the settings and VMs of running calls |
| `AnswersAreTrue` | `[]AnsweredIsThere` | sizes never shrink: VCD takes no smaller one, and nothing changes a disk while a task runs on it (`TasksGrow`); so a call that heard of success finds its size on the disk, whoever's task came after (`CallsWait`), and the node is asked for no more than the volume has (`NodeIsAsked`) |
| `NothingBeyondTheRequest` | `[]NoMoreThanAsked` | `Asked`: no call, task or copy of a VM's settings has more of a disk than the disk's claim requests, and requests only grow |
| `SharedGrowsOffline` | `ExpandedOffline` | `Offline`: a call through a VM is for a disk that may be expanded so; what it sends of others is no more than they have, and VCD takes no less; a task on a single disk keeps it from being attached |
| `FileSystemGrows` | `NodeGrowsFileSystem` | `Rescanned`: between the rescan and the resize the kernel knows a size that covers what was asked |

The theorems about mounts, but for `MountTypes` and `PublishedIsMounted`, speak of executions in which
kubelet has given no call up: their invariant holds up to the first timeout
(`UntilTimeout`). The last two of `VolumeExpand` rest on a lemma that says what a
step may do to a size or a call (`StepGoesOn`).

### Only model-checked

Liveness - `CallsAreAnswered`, `PodsGetTheirVolume`, `VolumeIsReleased`,
`ExpansionEnds`, `DriverServes` - since fairness and ENABLED are outside the
provers. The findings are TLC's counterexamples.

## 6. Not modelled

Identity service (constants). Authentication and REST access of the VCD client:
the modules model the calls made through it and that they fail. The vendored
load-balancer and IPAM code, which the driver does not call. NodeGetVolumeStats,
NodeGetInfo, the capability calls and the calls that answer "not implemented":
they change nothing. Reading and validating the configuration, beyond which
credentials make an authorization (`SetAuthorization`): it has no state, and a
bad one ends every start. What the upgrade of the RDE would do with the disks of
an old list: no start gets that far (section 2, RdeUpgrade). Reading the zone map from its ConfigMap, flags, the
gRPC listener: input. Logging and formatting. The end-to-end tests, which the
findings quote.

## 7. Plan

Every safety property of the runs is proved. Worth proving next: that
`CsiController` implements `VolumeService` up to the first timeout, abort or
silent OVDC, as `UntilTimeout` does for the node, instead of without such
faults; and that every handler that holds the lock has a step
that leads to its release, the safety half of `CallsAreAnswered`. Worth
modelling next: deleting a volume while it is expanded, and the reports of
`RdeUpgrade` with the rounds of `RdeUpdate`.
