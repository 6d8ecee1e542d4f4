---------------------------- MODULE VolumeService ---------------------------
(***************************************************************************)
(* What the controller plugin promises the orchestrator, with every        *)
(* operation in one step: a volume appears and disappears, and is attached *)
(* and detached, only while the orchestrator is asking for just that; a    *)
(* disk in use is not deleted, a disk that is not shareable has one user;  *)
(* and an answer tells the truth at the moment it is given.                *)
(***************************************************************************)
CONSTANTS
    Names, Vms,
    Specs, ShareableSpecs,  \* properties of a disk, those that allow sharing
    SpecOf,                 \* the properties a volume is asked for with
    None                    \* a volume without a disk

VARIABLES
    store,  \* the disk of every volume: its spec and the VMs that use it
    vol,    \* how far the orchestrator has come with every volume
    att     \* ... and with the attachment of every volume to every node

vars == <<store, vol, att>>

Stored == [spec : Specs, vms : SUBSET Vms]

TypeOK ==
    /\ store \in [Names -> Stored \union {None}]
    /\ vol \in [Names -> {"absent", "creating", "created", "deleting", "deleted"}]
    /\ att \in [Names \X Vms -> {"detached", "attaching", "attached", "detaching"}]

\* Disks made by hand exist from the start, unused.
Init ==
    /\ store \in [Names -> [spec : Specs, vms : {{}}] \union {None}]
    /\ vol \in [Names -> {"absent", "created"}]
    /\ \A n \in Names : vol[n] = "created" => store[n] # None
    /\ att = [p \in Names \X Vms |-> "detached"]

SetVol(n, from, to) ==
    /\ vol[n] \in from
    /\ vol' = [vol EXCEPT ![n] = to]
    /\ UNCHANGED <<store, att>>

SetAtt(n, v, from, to) ==
    /\ att[<<n, v>>] \in from
    /\ att' = [att EXCEPT ![<<n, v>>] = to]
    /\ UNCHANGED <<store, vol>>

SetStore(n, disk) ==
    /\ store' = [store EXCEPT ![n] = disk]
    /\ UNCHANGED <<vol, att>>

AskCreate(n) == SetVol(n, {"absent", "creating"}, "creating")
AskDelete(n) == SetVol(n, {"created", "deleting"}, "deleting")
AskPublish(n, v) == vol[n] = "created" /\ SetAtt(n, v, {"detached", "attaching"}, "attaching")
AskUnpublish(n, v) ==
    SetAtt(n, v, {"detached", "attaching", "attached", "detaching"}, "detaching")

Create(n) ==
    /\ vol[n] = "creating" /\ store[n] = None
    /\ SetStore(n, [spec |-> SpecOf[n], vms |-> {}])

Delete(n) ==
    /\ vol[n] = "deleting" /\ store[n] # None
    /\ store[n].vms = {}
    /\ SetStore(n, None)

Attach(n, v) ==
    /\ att[<<n, v>>] = "attaching" /\ store[n] # None
    /\ store[n].spec \in ShareableSpecs \/ store[n].vms = {}
    /\ SetStore(n, [store[n] EXCEPT !.vms = @ \union {v}])

Detach(n, v) ==
    /\ att[<<n, v>>] = "detaching" /\ store[n] # None
    /\ SetStore(n, [store[n] EXCEPT !.vms = @ \ {v}])

Users(n) == IF store[n] = None THEN {} ELSE store[n].vms

AnswerCreate(n) ==
    store[n] # None /\ store[n].spec = SpecOf[n] /\ SetVol(n, {"creating"}, "created")
AnswerDelete(n) == store[n] = None /\ SetVol(n, {"deleting"}, "deleted")
AnswerPublish(n, v) == v \in Users(n) /\ SetAtt(n, v, {"attaching"}, "attached")
AnswerUnpublish(n, v) == v \notin Users(n) /\ SetAtt(n, v, {"detaching"}, "detached")

Next ==
    \E n \in Names :
        \/ AskCreate(n) \/ Create(n) \/ AnswerCreate(n)
        \/ AskDelete(n) \/ Delete(n) \/ AnswerDelete(n)
        \/ \E v \in Vms :
              \/ AskPublish(n, v) \/ Attach(n, v) \/ AnswerPublish(n, v)
              \/ AskUnpublish(n, v) \/ Detach(n, v) \/ AnswerUnpublish(n, v)

Spec == Init /\ [][Next]_vars
=============================================================================
