------------------------ MODULE VolumeExpandProofs -------------------------
(***************************************************************************)
(* Proofs about VolumeExpand, for any number of volumes, VMs and resizers  *)
(* and any bounds: types, that what the driver answers is there, and that  *)
(* no disk grows beyond its request, no shared one in use and no file      *)
(* system too little.                                                      *)
(*                                                                         *)
(* The argument: a call answers what it found, or what a task of its own   *)
(* made true.  The disk does not shrink in between, because VCD takes no   *)
(* settings that would shrink it and lets no two tasks that run have a     *)
(* disk in common, so what it checked of a task still holds at its end.    *)
(***************************************************************************)
EXTENDS VolumeExpand, TLAPS

(* No two tasks that run have a disk in common, and none shrinks one.      *)
TasksGrow ==
    \A c \in Calls :
        /\ \A v \in Named(task[c].settings) : size[v] <= task[c].settings[v]
        /\ \A d \in Calls : d # c =>
               Named(task[c].settings) \cap Named(task[d].settings) = {}

(* What a call sends gives its own disk the size it was asked for, and     *)
(* what it waits for is what it sent.                                      *)
CallsWait ==
    \A c \in Calls :
        /\ call[c].step \in {"choose", "verify", "vm", "put", "wait"} => newSizeMb(c) > 0
        /\ call[c].step \in {"put", "wait"} => call[c].settings[c[2]] = newSizeMb(c)
        /\ call[c].step = "wait" => task[c].settings = call[c].settings
        /\ call[c].step = "succeeded" => newSizeMb(c) <= size[c[2]]

(* Kubelet asks for a capacity the volume has.                             *)
NodeIsAsked == \A v \in Volumes : node[v].capacity <= pv[v]

Inv == TypeOK /\ TasksGrow /\ CallsWait /\ NodeIsAsked /\ AnsweredIsThere

---------------------------------------------------------------------------
LEMMA Monotone ==
    ASSUME NEW a \in Nat, NEW b \in Nat, a <= b
    PROVE  a * MbToBytes <= b * MbToBytes /\ a * MbToBytes \in Nat
  BY ExpansionIsSane, SMT

LEMMA Quotient ==
    ASSUME TypeOK, NEW c \in Calls
    PROVE  newSizeMb(c) \in Nat
  <1>1. call[c].bytes \in Nat
    BY DEF TypeOK, CallRecord
  <1>2. MbToBytes \in Nat /\ MbToBytes > 0
    BY ExpansionIsSane, SMT
  <1> QED
    BY <1>1, <1>2, SMT DEF newSizeMb

LEMMA CallsVolume == \A c \in Calls : c[2] \in Volumes
  BY ExpansionIsSane

LEMMA InitInv == Init => Inv
  BY ExpansionIsSane, SMT DEF Init, Inv, TypeOK, TasksGrow, CallsWait, NodeIsAsked, AnsweredIsThere, Idle, NoTask,
     CallRecord, Steps, Settings, Nothing, Named, Vms, NoVm

(***************************************************************************)
(* The steps of the driver's calls.                                        *)
(***************************************************************************)

(* A call that goes on without a task of its own changes nothing but       *)
(* itself.                                                                 *)
LEMMA CallMoves ==
    ASSUME Inv, NEW c \in Calls, UNCHANGED <<size, on, task, host, kube>>,
           NEW r \in CallRecord,
           call' = [call EXCEPT ![c] = r],
           r.step = "vm" => r.vm \in Nodes,
           r.step \in {"choose", "verify", "vm", "put", "wait"} => r.bytes \div MbToBytes > 0,
           r.step \in {"put", "wait"} => r.settings[c[2]] = r.bytes \div MbToBytes,
           r.step = "wait" => task[c].settings = r.settings,
           r.step = "succeeded" => r.bytes \div MbToBytes <= size[c[2]]
    PROVE  Inv'
  <1>1. TypeOK'
    BY SMT DEF Inv, TypeOK, host, kube
  <1>2. TasksGrow'
    BY SMT DEF Inv, TasksGrow, host, kube, Named
  <1>3. CallsWait'
    BY SMT DEF Inv, TypeOK, CallRecord, CallsWait, newSizeMb
  <1>4. AnsweredIsThere' /\ NodeIsAsked'
    BY SMT DEF Inv, AnsweredIsThere, NodeIsAsked, kube, host
  <1> QED
    BY <1>1, <1>2, <1>3, <1>4 DEF Inv

LEMMA IdleType ==
    Idle \in CallRecord
  BY DEF CallRecord, Steps, Idle, Vms, Settings, Nothing

LEMMA FailInv ==
    ASSUME Inv, NEW c \in Calls, Fail(c), UNCHANGED <<size, on, task, host>>
    PROVE  Inv'
  <1>1. Idle.step = "idle"
    BY DEF Idle
  <1> QED
    BY <1>1, IdleType, CallMoves, Zenon DEF Fail

(* What is answered is there when it is there at the time of the answer.   *)
LEMMA AnswerInv ==
    ASSUME Inv, NEW c \in Calls, NEW needed \in BOOLEAN, Answer(c, needed),
           UNCHANGED <<size, on, task, host>>,
           newSizeMb(c) <= size[c[2]]
    PROVE  Inv'
  <1> DEFINE capacity == newSizeMb(c) * MbToBytes
  <1>1. /\ c[2] \in Volumes
        /\ newSizeMb(c) \in Nat
        /\ size[c[2]] \in Nat
    BY Quotient, CallsVolume, SMT DEF Inv, TypeOK
  <1>2. capacity \in Nat /\ capacity <= size[c[2]] * MbToBytes
    BY <1>1, Monotone
  <1> HIDE DEF capacity
  <1>3. /\ pv' = pv \/ pv' = [pv EXCEPT ![c[2]] = Larger(@, capacity)]
        /\ done' = done \/ (/\ done' = [done EXCEPT ![c[2]] = Larger(@, capacity)]
                            /\ pv' = [pv EXCEPT ![c[2]] = Larger(@, capacity)])
        /\ done' = done \/ pv' # pv \/ done' # done
        /\ want' = want
    BY DEF Answer, capacity
  <1>4. call' = [call EXCEPT ![c] = Idle]
    BY DEF Answer
  <1>5. /\ pv' \in [Volumes -> Nat]
        /\ done' \in [Volumes -> Nat]
    BY <1>1, <1>2, <1>3, SMT DEF Inv, TypeOK, Larger
  <1>6. TypeOK'
    BY <1>3, <1>4, <1>5, IdleType, SMT DEF Inv, TypeOK, host, Idle
  <1>7. TasksGrow'
    BY SMT DEF Inv, TasksGrow, Named
  <1>8. CallsWait'
    BY <1>4, SMT DEF Inv, TypeOK, CallRecord, CallsWait, newSizeMb, Idle
  <1>9. AnsweredIsThere'
    BY <1>1, <1>2, <1>3, SMT DEF Inv, TypeOK, AnsweredIsThere, Larger
  <1>10. NodeIsAsked'
    BY <1>1, <1>2, <1>3, SMT DEF Inv, TypeOK, NodeIsAsked, Larger, host
  <1> QED
    BY <1>6, <1>7, <1>8, <1>9, <1>10 DEF Inv

LEMMA LookInv ==
    ASSUME Inv, NEW c \in Calls, Look(c)
    PROVE  Inv'
  <1> UNCHANGED <<size, on, task, host>>
    BY DEF Look, disks
  <1>t. /\ call[c] \in CallRecord
        /\ c[2] \in Volumes
        /\ size[c[2]] \in Nat /\ newSizeMb(c) \in Nat
    BY Quotient, CallsVolume, SMT DEF Inv, TypeOK
  <1>1. CASE size[c[2]] = newSizeMb(c) /\ Answer(c, FALSE)
    <2>1. newSizeMb(c) <= size[c[2]]
      BY <1>1, <1>t, SMT
    <2> QED
      BY <1>1, <2>1, AnswerInv, Zenon
  <1>2. CASE Fail(c)
    BY <1>2, FailInv
  <1>3. CASE size[c[2]] < newSizeMb(c) /\ Goto(c, "choose") /\ UNCHANGED kube
    <2> DEFINE r == [call[c] EXCEPT !.step = "choose"]
    <2>1. call' = [call EXCEPT ![c] = r]
      BY <1>3 DEF Goto
    <2>2. /\ r \in CallRecord
          /\ r.step = "choose" /\ r.bytes = call[c].bytes
      BY <1>t DEF CallRecord, Steps
    <2>3. r.bytes \div MbToBytes > 0
      BY <1>3, <1>t, <2>2, SMT DEF newSizeMb
    <2> HIDE DEF r
    <2> QED
      BY <1>3, <2>1, <2>2, <2>3, CallMoves, Zenon
  <1> QED
    BY <1>1, <1>2, <1>3, Zenon DEF Look

LEMMA ChooseModeInv ==
    ASSUME Inv, NEW c \in Calls, ChooseMode(c)
    PROVE  Inv'
  <1> UNCHANGED <<size, on, task, host>>
    BY DEF ChooseMode, disks
  <1>t. call[c] \in CallRecord /\ newSizeMb(c) > 0 /\ on[c[2]] \subseteq Nodes
    <2>1. call[c] \in CallRecord
      BY DEF Inv, TypeOK
    <2>2. newSizeMb(c) > 0
      BY Zenon DEF Inv, CallsWait, ChooseMode
    <2>3. on[c[2]] \subseteq Nodes
      BY CallsVolume, SMT DEF Inv, TypeOK
    <2> QED
      BY <2>1, <2>2, <2>3
  <1>1. CASE Fail(c)
    BY <1>1, FailInv
  <1>2. CASE Goto(c, "verify") /\ UNCHANGED kube
    <2> DEFINE r == [call[c] EXCEPT !.step = "verify"]
    <2>1. call' = [call EXCEPT ![c] = r]
      BY <1>2 DEF Goto
    <2>2. r \in CallRecord /\ r.step = "verify" /\ r.bytes = call[c].bytes
      BY <1>t DEF CallRecord, Steps
    <2>3. r.bytes \div MbToBytes > 0
      BY <1>t, <2>2 DEF newSizeMb
    <2> HIDE DEF r
    <2> QED
      BY <1>2, <2>1, <2>2, <2>3, CallMoves, Zenon
  <1>3. ASSUME NEW vm \in on[c[2]], UNCHANGED kube,
               call' = [call EXCEPT ![c] = [@ EXCEPT !.step = "vm", !.vm = vm]]
        PROVE  Inv'
    <2> DEFINE r == [call[c] EXCEPT !.step = "vm", !.vm = vm]
    <2>1. call' = [call EXCEPT ![c] = r]
      BY <1>3
    <2>2. r \in CallRecord /\ r.step = "vm" /\ r.bytes = call[c].bytes /\ r.vm \in Nodes
      BY <1>t DEF CallRecord, Steps, Vms
    <2>3. r.bytes \div MbToBytes > 0
      BY <1>t, <2>2 DEF newSizeMb
    <2> HIDE DEF r
    <2> QED
      BY <1>3, <2>1, <2>2, <2>3, CallMoves, Zenon
  <1> QED
    BY <1>1, <1>2, <1>3, Zenon DEF ChooseMode

(* A call that has made up what to send.                                   *)
LEMMA ToPut ==
    ASSUME Inv, NEW c \in Calls, UNCHANGED <<size, on, task, host, kube>>,
           call[c].step \in {"verify", "vm"}, NEW s \in Settings, s[c[2]] = newSizeMb(c),
           call' = [call EXCEPT ![c] = [@ EXCEPT !.step = "put", !.settings = s]]
    PROVE  Inv'
  <1>t. call[c] \in CallRecord /\ newSizeMb(c) > 0
    BY CallsVolume, SMT DEF Inv, TypeOK, CallsWait
  <1> DEFINE r == [call[c] EXCEPT !.step = "put", !.settings = s]
  <1>1. call' = [call EXCEPT ![c] = r]
    OBVIOUS
  <1>2. r \in CallRecord /\ r.step = "put" /\ r.bytes = call[c].bytes /\ r.settings = s
    BY <1>t DEF CallRecord, Steps
  <1>3. r.bytes \div MbToBytes > 0 /\ r.settings[c[2]] = r.bytes \div MbToBytes
    BY <1>t, <1>2 DEF newSizeMb
  <1> HIDE DEF r
  <1> QED
    BY <1>1, <1>2, <1>3, CallMoves, Zenon

LEMMA VerifyInv ==
    ASSUME Inv, NEW c \in Calls, Verify(c)
    PROVE  Inv'
  <1> UNCHANGED <<size, on, task, host>>
    BY DEF Verify, disks
  <1>1. CASE Fail(c)
    BY <1>1, FailInv
  <1> DEFINE s == [Nothing EXCEPT ![c[2]] = newSizeMb(c)]
  <1>2. CASE /\ call' = [call EXCEPT ![c] = [@ EXCEPT !.step = "put", !.settings = s]]
             /\ UNCHANGED kube
    <2>1. s \in Settings /\ s[c[2]] = newSizeMb(c)
      BY Quotient, CallsVolume, SMT DEF Inv, TypeOK, Nothing, Settings
    <2> HIDE DEF s
    <2> QED
      BY <1>2, <2>1, ToPut DEF Verify
  <1> QED
    BY <1>1, <1>2 DEF Verify

LEMMA ReadVmInv ==
    ASSUME Inv, NEW c \in Calls, ReadVm(c)
    PROVE  Inv'
  <1> UNCHANGED <<size, on, task, host>>
    BY DEF ReadVm, disks
  <1>1. CASE Fail(c)
    BY <1>1, FailInv
  <1> DEFINE s == [v \in Volumes |->
                      IF v = c[2] THEN newSizeMb(c)
                      ELSE IF v \in DisksOf(call[c].vm) THEN size[v] ELSE 0]
  <1>2. CASE /\ call' = [call EXCEPT ![c] = [@ EXCEPT !.step = "put", !.settings = s]]
             /\ UNCHANGED kube
    <2>1. s \in Settings /\ s[c[2]] = newSizeMb(c)
      BY Quotient, CallsVolume, SMT DEF Inv, TypeOK, Settings
    <2> HIDE DEF s
    <2> QED
      BY <1>2, <2>1, ToPut DEF ReadVm
  <1> QED
    BY <1>1, <1>2 DEF ReadVm

(* VCD takes an update: its disks are in no other task that runs, and none *)
(* shrinks.                                                                *)
LEMMA PutInv ==
    ASSUME Inv, NEW c \in Calls, Put(c)
    PROVE  Inv'
  <1> UNCHANGED <<size, on, host>>
    BY DEF Put, disks
  <1>t. call[c] \in CallRecord
    BY DEF Inv, TypeOK
  <1>1. CASE Fail(c) /\ UNCHANGED task
    BY <1>1, FailInv
  <1>2. CASE /\ Accepts(call[c].vm, call[c].settings)
             /\ task' = [task EXCEPT ![c] = [vm |-> call[c].vm, settings |-> call[c].settings]]
             /\ Goto(c, "wait")
             /\ UNCHANGED kube
    <2> DEFINE new == [vm |-> call[c].vm, settings |-> call[c].settings]
               r == [call[c] EXCEPT !.step = "wait"]
               TaskRecord == [vm : Vms, settings : Settings]
    <2>a. new \in TaskRecord /\ r \in CallRecord /\ r.step = "wait"
      BY <1>t DEF CallRecord, Steps
    <2>b. task' = [task EXCEPT ![c] = new] /\ call' = [call EXCEPT ![c] = r]
      BY <1>2 DEF Goto
    <2> HIDE DEF new, r
    <2>c. task' \in [Calls -> TaskRecord] /\ call' \in [Calls -> CallRecord]
      BY <2>a, <2>b DEF Inv, TypeOK
    <2>d. \A d \in Calls : call'[d].step = "vm" => call'[d].vm \in Nodes
      BY <2>a, <2>b, SMT DEF Inv, TypeOK
    <2>1. TypeOK'
      BY <1>2, <2>c, <2>d DEF Inv, TypeOK, host, kube
    <2>2. \A v \in Named(call[c].settings) :
              /\ size[v] <= call[c].settings[v]
              /\ \A d \in Calls : v \notin Named(task[d].settings)
      BY <1>2 DEF Accepts, Busy
    <2>3. TasksGrow'
      BY <1>2, <2>2, SMT DEF Inv, TypeOK, TasksGrow, Named
    <2>4. CallsWait'
      BY <1>2, <1>t, SMT DEF Inv, TypeOK, CallRecord, Steps, CallsWait, Goto, Put, newSizeMb
    <2>5. AnsweredIsThere' /\ NodeIsAsked'
      BY <1>2, SMT DEF Inv, AnsweredIsThere, NodeIsAsked, kube, host
    <2> QED
      BY <2>1, <2>3, <2>4, <2>5 DEF Inv
  <1> QED
    BY <1>1, <1>2 DEF Put

LEMMA WaitInv ==
    ASSUME Inv, NEW c \in Calls, Wait(c)
    PROVE  Inv'
  <1> UNCHANGED <<size, on, task, host>>
    BY DEF Wait, disks
  <1>1. CASE Fail(c)
    BY <1>1, FailInv
  <1>2. CASE call[c].step = "succeeded" /\ Answer(c, call[c].vm # NoVm)
    <2>1. newSizeMb(c) <= size[c[2]]
      BY <1>2 DEF Inv, CallsWait, Wait
    <2> QED
      BY <1>2, <2>1, AnswerInv
  <1> QED
    BY <1>1, <1>2 DEF Wait

LEMMA ResizeInv ==
    ASSUME Inv, NEW c \in Calls, Resize(c)
    PROVE  Inv'
  <1> DEFINE r == [Idle EXCEPT !.step = "look", !.bytes = want[c[2]]]
  <1>1. call' = [call EXCEPT ![c] = r]
    BY DEF Resize
  <1>2. want[c[2]] \in Nat
    BY CallsVolume, SMT DEF Inv, TypeOK
  <1>3. r \in CallRecord /\ r.step = "look"
    BY <1>2, IdleType DEF CallRecord, Steps
  <1> HIDE DEF r
  <1> QED
    BY <1>1, <1>3, CallMoves, Zenon DEF Resize, disks

LEMMA TimeoutInv ==
    ASSUME Inv, NEW c \in Calls, Timeout(c)
    PROVE  Inv'
  <1> UNCHANGED <<size, on, task, host, kube>>
    BY DEF Timeout, disks
  <1> DEFINE r == [call[c] EXCEPT !.heard = FALSE]
  <1>t. call[c] \in CallRecord
    BY DEF Inv, TypeOK
  <1>1. call' = [call EXCEPT ![c] = r]
    BY DEF Timeout
  <1>2. /\ r \in CallRecord
        /\ r.step = call[c].step /\ r.bytes = call[c].bytes
        /\ r.vm = call[c].vm /\ r.settings = call[c].settings
    BY <1>t DEF CallRecord, Steps
  <1>3. /\ r.step = "vm" => r.vm \in Nodes
        /\ r.step \in {"choose", "verify", "vm", "put", "wait"} => r.bytes \div MbToBytes > 0
        /\ r.step \in {"put", "wait"} => r.settings[c[2]] = r.bytes \div MbToBytes
        /\ r.step = "wait" => task[c].settings = r.settings
        /\ r.step = "succeeded" => r.bytes \div MbToBytes <= size[c[2]]
    BY <1>2 DEF Inv, TypeOK, CallsWait, newSizeMb
  <1> HIDE DEF r
  <1> QED
    BY <1>1, <1>2, <1>3, CallMoves, Zenon

LEMMA RequestFailsInv ==
    ASSUME Inv, NEW c \in Calls, RequestFails(c)
    PROVE  Inv'
  BY FailInv DEF RequestFails, disks

(* A restart forgets calls; their tasks go on.                             *)
LEMMA CrashInv ==
    ASSUME Inv, NEW r \in Resizers, Crash(r)
    PROVE  Inv'
  <1>0. UNCHANGED <<disks, task, host, kube>>
    BY DEF Crash
  <1>1. call' = [c \in Calls |-> IF c[1] = r THEN Idle ELSE call[c]]
    BY DEF Crash
  <1>2. TypeOK'
    BY <1>0, <1>1, IdleType, SMT DEF Inv, TypeOK, Idle, disks, host, kube
  <1>3. TasksGrow'
    BY <1>0, SMT DEF Inv, TasksGrow, Named, disks
  <1>4. CallsWait'
    BY <1>0, <1>1, SMT DEF Inv, TypeOK, CallsWait, newSizeMb, Idle, disks
  <1>5. AnsweredIsThere' /\ NodeIsAsked'
    BY <1>0, SMT DEF Inv, AnsweredIsThere, NodeIsAsked, kube, disks, host
  <1> QED
    BY <1>2, <1>3, <1>4, <1>5 DEF Inv

(***************************************************************************)
(* The steps of VCD, the node and Kubernetes.                              *)
(***************************************************************************)

(* A task that is over, with the sizes its success or failure leaves.      *)
LEMMA EndsInv ==
    ASSUME Inv, NEW c \in Calls, NEW result \in {"succeeded", "failed"}, Ends(c, result),
           UNCHANGED <<node, seen, fs, kube>>,
           on' \in [Volumes -> SUBSET Nodes], mounted' \in [Volumes -> BOOLEAN],
           size' \in [Volumes -> Nat \ {0}],
           \A v \in Volumes : size[v] <= size'[v],
           \A v \in Volumes \ Named(task[c].settings) : size'[v] = size[v],
           result = "succeeded" =>
               \A v \in Named(task[c].settings) : size'[v] = task[c].settings[v]
    PROVE  Inv'
  <1> DEFINE r == [call[c] EXCEPT !.step = IF @ = "wait" THEN result ELSE @]
  <1>1. call' = [call EXCEPT ![c] = r] /\ task' = [task EXCEPT ![c] = NoTask]
    BY DEF Ends
  <1>2. /\ call[c] \in CallRecord
        /\ NoTask \in [vm : Vms, settings : Settings] /\ Named(NoTask.settings) = {}
    BY DEF Inv, TypeOK, NoTask, Vms, Settings, Nothing, Named
  <1>3. /\ r \in CallRecord
        /\ r.bytes = call[c].bytes /\ r.settings = call[c].settings /\ r.vm = call[c].vm
        /\ r.step = IF call[c].step = "wait" THEN result ELSE call[c].step
    BY <1>2 DEF CallRecord, Steps
  <1> HIDE DEF r
  <1>4. TypeOK'
    <2>1. call' \in [Calls -> CallRecord]
      BY <1>1, <1>3 DEF Inv, TypeOK
    <2>2. task' \in [Calls -> [vm : Vms, settings : Settings]]
      BY <1>1, <1>2 DEF Inv, TypeOK
    <2>3. \A d \in Calls : call'[d].step = "vm" => call'[d].vm \in Nodes
      BY <1>1, <1>3 DEF Inv, TypeOK
    <2> QED
      BY <2>1, <2>2, <2>3 DEF Inv, TypeOK, kube
  <1>5. \A d \in Calls : d # c => /\ task'[d] = task[d] /\ call'[d] = call[d]
    BY <1>1 DEF Inv, TypeOK
  <1>6. task'[c] = NoTask /\ call'[c] = r
    BY <1>1 DEF Inv, TypeOK
  <1>7. TasksGrow'
    <2> SUFFICES ASSUME NEW d \in Calls
                 PROVE  /\ \A v \in Named(task'[d].settings) : size'[v] <= task'[d].settings[v]
                        /\ \A e \in Calls : e # d =>
                               Named(task'[d].settings) \cap Named(task'[e].settings) = {}
      BY DEF TasksGrow, Named
    <2>1. CASE d = c
      BY <1>2, <1>6, <2>1
    <2>2. CASE d # c
      <3>1. Named(task[d].settings) \cap Named(task[c].settings) = {}
        BY <2>2 DEF Inv, TasksGrow
      <3>2. \A v \in Named(task[d].settings) : size'[v] = size[v] /\ size[v] <= task[d].settings[v]
        BY <3>1 DEF Inv, TasksGrow, Named
      <3>3. \A e \in Calls : e # d =>
                Named(task[d].settings) \cap Named(task'[e].settings) = {}
        <4> SUFFICES ASSUME NEW e \in Calls, e # d
                     PROVE  Named(task[d].settings) \cap Named(task'[e].settings) = {}
          OBVIOUS
        <4>1. CASE e = c
          BY <1>2, <1>6, <4>1
        <4>2. CASE e # c
          BY <1>5, <4>2 DEF Inv, TasksGrow
        <4> QED
          BY <4>1, <4>2
      <3> QED
        BY <1>5, <2>2, <3>2, <3>3
    <2> QED
      BY <2>1, <2>2
  <1>8. CallsWait'
    <2> SUFFICES ASSUME NEW d \in Calls
                 PROVE  /\ call'[d].step \in {"choose", "verify", "vm", "put", "wait"} =>
                               newSizeMb(d)' > 0
                        /\ call'[d].step \in {"put", "wait"} =>
                               call'[d].settings[d[2]] = newSizeMb(d)'
                        /\ call'[d].step = "wait" => task'[d].settings = call'[d].settings
                        /\ call'[d].step = "succeeded" => newSizeMb(d)' <= size'[d[2]]
      BY Zenon DEF CallsWait
    <2>0. newSizeMb(d)' = newSizeMb(d)
      BY <1>3, <1>5, <1>6 DEF newSizeMb
    <2>t. /\ newSizeMb(d) \in Nat /\ d[2] \in Volumes
          /\ size[d[2]] \in Nat /\ size'[d[2]] \in Nat /\ size[d[2]] <= size'[d[2]]
      BY Quotient, CallsVolume DEF Inv, TypeOK
    <2>h. /\ call[d].step \in {"choose", "verify", "vm", "put", "wait"} => newSizeMb(d) > 0
          /\ call[d].step \in {"put", "wait"} => call[d].settings[d[2]] = newSizeMb(d)
          /\ call[d].step = "wait" => task[d].settings = call[d].settings
          /\ call[d].step = "succeeded" => newSizeMb(d) <= size[d[2]]
      BY Zenon DEF Inv, CallsWait
    <2>1. CASE d # c
      BY <1>5, <2>0, <2>t, <2>h, <2>1, SMT
    <2>2. CASE d = c /\ call[c].step # "wait"
      BY <1>3, <1>6, <2>0, <2>t, <2>h, <2>2, SMT
    <2>3. CASE d = c /\ call[c].step = "wait"
      <3>1. call'[d].step = result /\ result \in {"succeeded", "failed"}
        BY <1>3, <1>6, <2>3
      <3>2. task[c].settings[c[2]] = newSizeMb(c) /\ newSizeMb(c) > 0
        BY <2>3, <2>h
      <3>3. result = "succeeded" => size'[c[2]] = newSizeMb(c)
        BY <2>3, <2>t, <3>2 DEF Named
      <3> QED
        BY <2>0, <2>3, <2>t, <3>1, <3>3, SMT
    <2> QED
      BY <2>1, <2>2, <2>3
  <1>9. AnsweredIsThere' /\ NodeIsAsked'
    <2>1. \A v \in Volumes : /\ size[v] * MbToBytes <= size'[v] * MbToBytes
                             /\ size[v] * MbToBytes \in Nat /\ size'[v] * MbToBytes \in Nat
      <3> TAKE v \in Volumes
      <3>1. size[v] \in Nat /\ size'[v] \in Nat /\ size[v] <= size'[v]
        BY DEF Inv, TypeOK
      <3> QED
        BY <3>1, Monotone
    <2> QED
      BY <2>1, SMT DEF Inv, TypeOK, AnsweredIsThere, NodeIsAsked, kube
  <1> QED
    BY <1>4, <1>7, <1>8, <1>9 DEF Inv

(* A task that succeeds makes its disks larger, and no other running task  *)
(* names them.                                                             *)
LEMMA TaskSucceedsInv ==
    ASSUME Inv, NEW c \in Calls, TaskSucceeds(c)
    PROVE  Inv'
  <1> DEFINE s == task[c].settings
  <1>1. s \in Settings /\ \A v \in Named(s) : size[v] <= s[v]
    BY DEF Inv, TypeOK, TasksGrow
  <1>2. /\ Ends(c, "succeeded")
        /\ size' = [v \in Volumes |-> IF v \in Named(s) THEN s[v] ELSE size[v]]
        /\ UNCHANGED <<node, seen, fs, kube>>
    BY DEF TaskSucceeds
  <1>3. on' \in [Volumes -> SUBSET Nodes] /\ mounted' \in [Volumes -> BOOLEAN]
    BY SMT DEF Inv, TypeOK, TaskSucceeds
  <1>4. size \in [Volumes -> Nat \ {0}]
    BY DEF Inv, TypeOK
  <1>5. /\ size' \in [Volumes -> Nat \ {0}]
        /\ \A v \in Volumes : size[v] <= size'[v]
        /\ \A v \in Volumes \ Named(s) : size'[v] = size[v]
        /\ \A v \in Named(s) : size'[v] = s[v]
    BY <1>1, <1>2, <1>4, SMT DEF Named, Settings
  <1> QED
    BY <1>2, <1>3, <1>5, EndsInv

LEMMA TaskFailsInv ==
    ASSUME Inv, NEW c \in Calls, TaskFails(c)
    PROVE  Inv'
  <1>1. Ends(c, "failed") /\ UNCHANGED <<size, on, host, kube>>
    BY DEF TaskFails, disks
  <1>2. /\ size \in [Volumes -> Nat \ {0}] /\ \A v \in Volumes : size[v] <= size[v]
        /\ on \in [Volumes -> SUBSET Nodes] /\ mounted \in [Volumes -> BOOLEAN]
    BY DEF Inv, TypeOK
  <1> QED
    BY <1>1, <1>2, EndsInv DEF host

(* The other steps leave the disks' sizes, the calls and VCD's tasks alone.*)
LEMMA OthersInv ==
    ASSUME Inv, UNCHANGED <<size, task, call>>, TypeOK', NodeIsAsked', AnsweredIsThere'
    PROVE  Inv'
  <1>1. TasksGrow'
    BY SMT DEF Inv, TasksGrow, Named
  <1>2. CallsWait'
    BY SMT DEF Inv, CallsWait, newSizeMb
  <1> QED
    BY <1>1, <1>2 DEF Inv

LEMMA NodeInv ==
    ASSUME Inv, NEW v \in Volumes,
           NodeExpandVolume(v) \/ NodeFails(v) \/ KubeletResizes(v) \/ Stage(v) \/ Claim(v)
    PROVE  Inv'
  <1> USE DEF Inv, disks, kube, counts
  <1>1. CASE NodeRescan(v)
    BY <1>1, OthersInv, SMT DEF NodeRescan, TypeOK, NodeIsAsked, AnsweredIsThere
  <1>2. CASE NodeResize(v)
    BY <1>2, OthersInv, SMT DEF NodeResize, TypeOK, NodeIsAsked, AnsweredIsThere, Larger
  <1>3. CASE NodeFails(v)
    BY <1>3, OthersInv, SMT DEF NodeFails, TypeOK, NodeIsAsked, AnsweredIsThere
  <1>4. CASE KubeletResizes(v)
    BY <1>4, OthersInv, SMT DEF KubeletResizes, TypeOK, NodeIsAsked, AnsweredIsThere
  <1>5. CASE Stage(v)
    BY <1>5, OthersInv, SMT DEF Stage, TypeOK, NodeIsAsked, AnsweredIsThere
  <1>6. CASE Claim(v)
    BY <1>6, ExpansionIsSane, OthersInv, SMT DEF Claim, host, TypeOK, NodeIsAsked, AnsweredIsThere
  <1> QED
    BY <1>1, <1>2, <1>3, <1>4, <1>5, <1>6 DEF NodeExpandVolume

LEMMA MoveInv ==
    ASSUME Inv, NEW v \in Volumes, NEW vm \in Nodes, Attach(v, vm) \/ Detach(v, vm)
    PROVE  Inv'
  <1> USE DEF Inv, kube, host
  <1>1. CASE Attach(v, vm)
    BY <1>1, OthersInv, SMT DEF Attach, TypeOK, NodeIsAsked, AnsweredIsThere
  <1>2. CASE Detach(v, vm)
    BY <1>2, OthersInv, SMT DEF Detach, TypeOK, NodeIsAsked, AnsweredIsThere
  <1> QED
    BY <1>1, <1>2

LEMMA StepInv == Inv /\ [Next]_vars => Inv'
  <1> SUFFICES ASSUME Inv, [Next]_vars
               PROVE  Inv'
    OBVIOUS
  <1>1. ASSUME NEW c \in Calls, Expand(c)
        PROVE  Inv'
    BY <1>1, LookInv, ChooseModeInv, VerifyInv, ReadVmInv, PutInv, WaitInv DEF Expand
  <1>2. CASE UNCHANGED vars
    BY <1>2, OthersInv, SMT DEF vars, Inv, TypeOK, NodeIsAsked, AnsweredIsThere
  <1> QED
    BY <1>1, <1>2, RequestFailsInv, ResizeInv, TimeoutInv, TaskSucceedsInv, TaskFailsInv,
       NodeInv, MoveInv, CrashInv DEF Next

LEMMA Invariance == Spec => []Inv
  BY InitInv, StepInv, PTL DEF Spec

(* What ControllerExpandVolume answers is there, in every run and for any  *)
(* number of resizers that ask at once, restart or do not hear the answer. *)
THEOREM AnswersAreTrue == Spec => []AnsweredIsThere
  <1>1. Inv => AnsweredIsThere
    BY DEF Inv
  <1> QED
    BY <1>1, Invariance, PTL

(* Every variable keeps its type, and a call that goes through a VM has    *)
(* one.                                                                    *)
THEOREM ExpansionTypes == Spec => []TypeOK
  <1>1. Inv => TypeOK
    BY DEF Inv
  <1> QED
    BY <1>1, Invariance, PTL

(***************************************************************************)
(* What no step does to a call, a task and a disk.  Three more results     *)
(* rest on these.                                                          *)
(***************************************************************************)

(* A call keeps what it was asked for and sends, forgets everything, is    *)
(* made anew, or finds the VM or the sizes to send.                        *)
CallGoesOn(c) ==
    \/ /\ call'[c].bytes = call[c].bytes /\ call'[c].vm = call[c].vm
       /\ call'[c].settings = call[c].settings
    \/ call'[c].bytes \in {0, want[c[2]]} /\ call'[c].vm = NoVm /\ call'[c].settings = Nothing
    \/ /\ call'[c].bytes = call[c].bytes /\ call'[c].settings = call[c].settings
       /\ OnlineAllowed(c[2])
    \/ /\ call'[c].bytes = call[c].bytes /\ call'[c].vm = call[c].vm
       /\ call'[c].settings[c[2]] = newSizeMb(c)
       /\ \A v \in Volumes : v # c[2] => call'[c].settings[v] \in {0, size[v]}

(* A task runs on, is over, or is one that VCD takes from a call.          *)
TaskGoesOn(c) ==
    \/ task'[c] = task[c]
    \/ task'[c] = NoTask
    \/ /\ task'[c] = [vm |-> call[c].vm, settings |-> call[c].settings]
       /\ Accepts(call[c].vm, call[c].settings)
       /\ UNCHANGED disks

(* The requests grow, and only a task of the disk changes its size.        *)
DiskGoesOn(v) ==
    /\ want[v] <= want'[v]
    /\ \/ size'[v] = size[v]
       \/ \E c \in Calls : /\ v \in Named(task[c].settings)
                           /\ size'[v] = task[c].settings[v]
                           /\ task'[c] = NoTask
    /\ on'[v] \subseteq on[v] \/ ~Busy(v)

GoesOn == /\ \A c \in Calls : CallGoesOn(c) /\ TaskGoesOn(c)
          /\ \A v \in Volumes : DiskGoesOn(v)

(* A step that leaves VCD alone.                                           *)
LEMMA DisksStay ==
    ASSUME Inv, UNCHANGED <<size, on, task, want>>, \A c \in Calls : CallGoesOn(c)
    PROVE  GoesOn
  <1>1. \A v \in Volumes : want[v] \in Nat
    BY DEF Inv, TypeOK
  <1> QED
    BY <1>1, SMT DEF GoesOn, TaskGoesOn, DiskGoesOn

(* ... in which one call becomes r.                                        *)
LEMMA OneCall ==
    ASSUME Inv, NEW c \in Calls, NEW r, call' = [call EXCEPT ![c] = r]
    PROVE  call'[c] = r /\ \A d \in Calls : d # c => CallGoesOn(d)
  BY DEF Inv, TypeOK, CallGoesOn

LEMMA CallIdles ==
    ASSUME Inv, NEW c \in Calls, call' = [call EXCEPT ![c] = Idle]
    PROVE  \A d \in Calls : CallGoesOn(d)
  BY OneCall DEF CallGoesOn, Idle

LEMMA CallsStep ==
    ASSUME Inv, NEW c \in Calls,
           Look(c) \/ ChooseMode(c) \/ Verify(c) \/ ReadVm(c) \/ Wait(c)
               \/ RequestFails(c) \/ Resize(c) \/ Timeout(c)
    PROVE  GoesOn
  <1>t. call[c] \in CallRecord /\ c[2] \in Volumes
    BY CallsVolume DEF Inv, TypeOK
  <1>1. UNCHANGED <<size, on, task, want>>
    BY DEF Look, ChooseMode, Verify, ReadVm, Wait, RequestFails, Resize, Timeout, disks, kube,
           Answer, Fail
  <1>2. ASSUME Fail(c) \/ \E b \in BOOLEAN : Answer(c, b)
        PROVE  GoesOn
    BY <1>1, <1>2, CallIdles, DisksStay DEF Fail, Answer
  <1>3. ASSUME NEW r, call' = [call EXCEPT ![c] = r], r.bytes = call[c].bytes,
               r.vm = call[c].vm, r.settings = call[c].settings
        PROVE  GoesOn
    BY <1>1, <1>3, OneCall, DisksStay DEF CallGoesOn
  <1>4. ASSUME NEW s, Goto(c, s)
        PROVE  GoesOn
    BY <1>3, <1>4, <1>t DEF Goto, CallRecord
  <1>5. ASSUME NEW s \in Settings, s[c[2]] = newSizeMb(c),
               \A v \in Volumes : v # c[2] => s[v] \in {0, size[v]},
               call' = [call EXCEPT ![c] = [@ EXCEPT !.step = "put", !.settings = s]]
        PROVE  GoesOn
    <2> DEFINE r == [call[c] EXCEPT !.step = "put", !.settings = s]
    <2>1. r.bytes = call[c].bytes /\ r.vm = call[c].vm /\ r.settings = s
      BY <1>t DEF CallRecord
    <2>2. call' = [call EXCEPT ![c] = r]
      BY <1>5
    <2> HIDE DEF r
    <2> QED
      BY <1>1, <1>5, <2>1, <2>2, OneCall, DisksStay DEF CallGoesOn
  <1>6. CASE Look(c)
    BY <1>2, <1>4, <1>6 DEF Look
  <1>7. CASE ChooseMode(c)
    <2>1. ASSUME NEW vm, OnlineAllowed(c[2]),
                 call' = [call EXCEPT ![c] = [@ EXCEPT !.step = "vm", !.vm = vm]]
          PROVE  GoesOn
      <3> DEFINE r == [call[c] EXCEPT !.step = "vm", !.vm = vm]
      <3>1. r.bytes = call[c].bytes /\ r.settings = call[c].settings
        BY <1>t DEF CallRecord
      <3>2. call' = [call EXCEPT ![c] = r]
        BY <2>1
      <3> HIDE DEF r
      <3> QED
        BY <1>1, <2>1, <3>1, <3>2, OneCall, DisksStay DEF CallGoesOn
    <2> QED
      BY <1>2, <1>4, <1>7, <2>1 DEF ChooseMode
  <1>8. CASE Verify(c)
    <2> DEFINE s == [Nothing EXCEPT ![c[2]] = newSizeMb(c)]
    <2>1. s \in Settings /\ s[c[2]] = newSizeMb(c) /\ \A v \in Volumes : v # c[2] => s[v] = 0
      BY <1>t, Quotient DEF Inv, Settings, Nothing
    <2> HIDE DEF s
    <2>2. \/ Fail(c)
          \/ call' = [call EXCEPT ![c] = [@ EXCEPT !.step = "put", !.settings = s]]
      BY <1>8 DEF Verify, s
    <2> QED
      BY <1>2, <1>5, <2>1, <2>2
  <1>9. CASE ReadVm(c)
    <2> DEFINE s == [v \in Volumes |->
                        IF v = c[2] THEN newSizeMb(c)
                        ELSE IF v \in DisksOf(call[c].vm) THEN size[v] ELSE 0]
    <2>1. /\ s \in Settings /\ s[c[2]] = newSizeMb(c)
          /\ \A v \in Volumes : v # c[2] => s[v] \in {0, size[v]}
      BY <1>t, Quotient DEF Inv, TypeOK, Settings
    <2> HIDE DEF s
    <2>2. \/ Fail(c)
          \/ call' = [call EXCEPT ![c] = [@ EXCEPT !.step = "put", !.settings = s]]
      BY <1>9 DEF ReadVm, s
    <2> QED
      BY <1>2, <1>5, <2>1, <2>2
  <1>10. CASE Wait(c)
    <2>1. (call[c].vm # NoVm) \in BOOLEAN
      OBVIOUS
    <2> QED
      BY <1>2, <1>10, <2>1 DEF Wait
  <1>11. CASE RequestFails(c)
    BY <1>2, <1>11 DEF RequestFails
  <1>12. CASE Resize(c)
    <2> DEFINE r == [Idle EXCEPT !.step = "look", !.bytes = want[c[2]]]
    <2>1. r.bytes = want[c[2]] /\ r.vm = NoVm /\ r.settings = Nothing
      BY DEF Idle
    <2>2. call' = [call EXCEPT ![c] = r]
      BY <1>12 DEF Resize
    <2> HIDE DEF r
    <2> QED
      BY <1>1, <2>1, <2>2, OneCall, DisksStay DEF CallGoesOn
  <1>13. CASE Timeout(c)
    <2> DEFINE r == [call[c] EXCEPT !.heard = FALSE]
    <2>1. r.bytes = call[c].bytes /\ r.vm = call[c].vm /\ r.settings = call[c].settings
      BY <1>t DEF CallRecord
    <2>2. call' = [call EXCEPT ![c] = r]
      BY <1>13 DEF Timeout
    <2> HIDE DEF r
    <2> QED
      BY <1>3, <2>1, <2>2
  <1> QED
    BY <1>6, <1>7, <1>8, <1>9, <1>10, <1>11, <1>12, <1>13

LEMMA VcdsStep ==
    ASSUME Inv, NEW c \in Calls, Put(c) \/ TaskSucceeds(c) \/ TaskFails(c)
    PROVE  GoesOn
  <1>t. call[c] \in CallRecord /\ task[c] \in [vm : Vms, settings : Settings]
    BY DEF Inv, TypeOK
  <1>w. want' = want /\ \A v \in Volumes : want[v] \in Nat
    BY DEF Inv, TypeOK, Put, TaskSucceeds, TaskFails, kube, Fail
  <1>1. CASE Put(c)
    <2>1. CASE Fail(c) /\ UNCHANGED task
      BY <1>1, <2>1, CallIdles, DisksStay DEF Put, Fail, disks, kube
    <2>2. CASE /\ Accepts(call[c].vm, call[c].settings)
               /\ task' = [task EXCEPT ![c] = [vm |-> call[c].vm, settings |-> call[c].settings]]
               /\ Goto(c, "wait")
      <3>1. \A d \in Calls : CallGoesOn(d)
        BY <1>t, <2>2, OneCall DEF Goto, CallRecord, CallGoesOn
      <3>2. \A d \in Calls : TaskGoesOn(d)
        BY <1>1, <2>2 DEF TaskGoesOn, Put, Inv, TypeOK
      <3>3. \A v \in Volumes : DiskGoesOn(v)
        BY <1>1, <1>w, SMT DEF DiskGoesOn, Put, disks
      <3> QED
        BY <3>1, <3>2, <3>3 DEF GoesOn
    <2> QED
      BY <1>1, <2>1, <2>2 DEF Put
  <1>2. CASE TaskSucceeds(c) \/ TaskFails(c)
    <2>0. PICK result : Ends(c, result)
      BY <1>2 DEF TaskSucceeds, TaskFails
    <2>1. \A d \in Calls : CallGoesOn(d)
      BY <1>t, <2>0, OneCall DEF Ends, CallRecord, CallGoesOn
    <2>2. \A d \in Calls : TaskGoesOn(d)
      BY <2>0 DEF TaskGoesOn, Ends, Inv, TypeOK
    <2>3. task'[c] = NoTask
      BY <2>0 DEF Ends, Inv, TypeOK
    <2>4. \A v \in Volumes : on'[v] \subseteq on[v]
      BY <1>2 DEF TaskSucceeds, TaskFails, disks, Inv, TypeOK
    <2>5. \A v \in Volumes : \/ size'[v] = size[v]
                             \/ v \in Named(task[c].settings) /\ size'[v] = task[c].settings[v]
      BY <1>2 DEF TaskSucceeds, TaskFails, disks
    <2>6. \A v \in Volumes : DiskGoesOn(v)
      BY <1>w, <2>3, <2>4, <2>5, SMT DEF DiskGoesOn
    <2> QED
      BY <2>1, <2>2, <2>6 DEF GoesOn
  <1> QED
    BY <1>1, <1>2

LEMMA StepGoesOn == Inv /\ [Next]_vars => GoesOn
  <1> SUFFICES ASSUME Inv, [Next]_vars PROVE GoesOn
    OBVIOUS
  <1>w. \A v \in Volumes : want[v] \in Nat
    BY DEF Inv, TypeOK
  <1>1. ASSUME NEW v \in Volumes, NodeExpandVolume(v) \/ NodeFails(v) \/ KubeletResizes(v) \/ Stage(v)
        PROVE  GoesOn
    <2>1. UNCHANGED <<size, on, task, call, want>>
      BY <1>1 DEF NodeExpandVolume, NodeRescan, NodeResize, NodeFails, KubeletResizes, Stage,
                  disks, kube
    <2> QED
      BY <2>1, DisksStay DEF CallGoesOn
  <1>2. ASSUME NEW v \in Volumes, Claim(v)
        PROVE  GoesOn
    <2>1. UNCHANGED <<size, on, task, call>> /\ \A x \in Volumes : want[x] <= want'[x]
      BY <1>2, <1>w, ExpansionIsSane, SMT DEF Claim, disks, Inv, TypeOK
    <2> QED
      BY <2>1 DEF GoesOn, CallGoesOn, TaskGoesOn, DiskGoesOn
  <1>3. ASSUME NEW v \in Volumes, NEW vm \in Nodes, Attach(v, vm) \/ Detach(v, vm)
        PROVE  GoesOn
    <2>1. /\ UNCHANGED <<size, task, call, want>>
          /\ \A x \in Volumes : on'[x] \subseteq on[x] \/ ~Busy(x)
      BY <1>3 DEF Attach, Detach, kube, Inv, TypeOK
    <2> QED
      BY <1>w, <2>1, SMT DEF GoesOn, CallGoesOn, TaskGoesOn, DiskGoesOn
  <1>4. ASSUME NEW r \in Resizers, Crash(r)
        PROVE  GoesOn
    <2>1. \A c \in Calls : CallGoesOn(c)
      BY <1>4 DEF Crash, CallGoesOn, Idle
    <2> QED
      BY <1>4, <2>1, DisksStay DEF Crash, disks, kube
  <1>5. CASE UNCHANGED vars
    BY <1>5, DisksStay DEF vars, CallGoesOn
  <1> QED
    BY <1>1, <1>2, <1>3, <1>4, <1>5, CallsStep, VcdsStep DEF Next, Expand

(***************************************************************************)
(* No disk grows beyond its claim's request.                               *)
(***************************************************************************)

(* Neither what a call was asked for nor what it or its task sends of any  *)
(* disk is more than the disk's claim requests.                            *)
Asked ==
    /\ NoMoreThanAsked
    /\ \A c \in Calls :
           /\ call[c].bytes <= want[c[2]]
           /\ \A v \in Volumes : /\ call[c].settings[v] * MbToBytes <= want[v]
                                 /\ task[c].settings[v] * MbToBytes <= want[v]

(* Whole MB are not more than the bytes.                                   *)
LEMMA RoundedDown ==
    ASSUME NEW b \in Nat
    PROVE  b \div MbToBytes \in Nat /\ (b \div MbToBytes) * MbToBytes <= b
  BY ExpansionIsSane, SMT

LEMMA StepAsked ==
    ASSUME Inv, Asked, [Next]_vars
    PROVE  Asked'
  <1>0. GoesOn
    BY StepGoesOn
  <1>t. /\ size \in [Volumes -> Nat] /\ want \in [Volumes -> Nat] /\ want' \in [Volumes -> Nat]
        /\ \A c \in Calls : /\ c[2] \in Volumes /\ call[c].bytes \in Nat
                            /\ newSizeMb(c) \in Nat /\ newSizeMb(c) * MbToBytes <= call[c].bytes
    <2>1. TypeOK'
      BY StepInv DEF Inv
    <2> QED
      BY <2>1, CallsVolume, RoundedDown DEF Inv, TypeOK, CallRecord, newSizeMb
  <1>m. MbToBytes \in Nat
    BY ExpansionIsSane
  <1>1. \A v \in Volumes : want[v] <= want'[v]
    BY <1>0 DEF GoesOn, DiskGoesOn
  <1>2. ASSUME NEW v \in Volumes, NEW m \in Nat, m * MbToBytes <= want[v]
        PROVE  m * MbToBytes <= want'[v]
    <2>1. m * MbToBytes \in Nat
      BY <1>m, SMT
    <2> HIDE DEF Asked
    <2> QED
      BY <1>1, <1>2, <1>t, <2>1
  <1>3. \A c \in Calls : call[c].settings \in Settings /\ task[c].settings \in Settings
    BY DEF Inv, TypeOK, CallRecord
  <1>4. 0 * MbToBytes = 0
    BY <1>m, SMT
  <1>5. NoMoreThanAsked'
    <2> SUFFICES ASSUME NEW v \in Volumes PROVE size'[v] * MbToBytes <= want'[v]
      BY DEF NoMoreThanAsked
    <2>1. CASE size'[v] = size[v]
      BY <1>2, <1>t, <2>1 DEF Asked, NoMoreThanAsked
    <2>2. ASSUME NEW c \in Calls, size'[v] = task[c].settings[v]
          PROVE  size'[v] * MbToBytes <= want'[v]
      BY <1>2, <1>3, <2>2 DEF Asked, Settings
    <2> QED
      BY <1>0, <2>1, <2>2 DEF GoesOn, DiskGoesOn
  <1>6. ASSUME NEW c \in Calls PROVE call'[c].bytes <= want'[c[2]]
    <2>1. call'[c].bytes \in {0, want[c[2]], call[c].bytes}
      BY <1>0 DEF GoesOn, CallGoesOn
    <2> QED
      BY <1>1, <1>t, <2>1 DEF Asked
  <1>7. ASSUME NEW c \in Calls, NEW v \in Volumes
        PROVE  call'[c].settings[v] * MbToBytes <= want'[v]
    <2>1. \/ call'[c].settings[v] = call[c].settings[v]
          \/ call'[c].settings[v] \in {0, size[v]}
          \/ v = c[2] /\ call'[c].settings[v] = newSizeMb(c)
      BY <1>0, <1>7 DEF GoesOn, CallGoesOn, Nothing
    <2>2. CASE call'[c].settings[v] = call[c].settings[v]
      BY <1>2, <1>3, <2>2 DEF Asked, Settings
    <2>3. CASE call'[c].settings[v] = 0
      BY <1>4, <1>t, <2>3
    <2>4. CASE call'[c].settings[v] = size[v]
      BY <1>2, <1>t, <2>4 DEF Asked, NoMoreThanAsked
    <2>5. CASE v = c[2] /\ call'[c].settings[v] = newSizeMb(c)
      <3>1. newSizeMb(c) * MbToBytes \in Nat
        BY <1>m, <1>t, SMT
      <3>2. newSizeMb(c) * MbToBytes <= want[v]
        BY <1>t, <2>5, <3>1 DEF Asked
      <3> QED
        BY <1>2, <1>t, <2>5, <3>2
    <2> QED
      BY <2>1, <2>2, <2>3, <2>4, <2>5
  <1>8. ASSUME NEW c \in Calls, NEW v \in Volumes
        PROVE  task'[c].settings[v] * MbToBytes <= want'[v]
    <2>1. \/ task'[c].settings[v] = task[c].settings[v]
          \/ task'[c].settings[v] = 0
          \/ task'[c].settings[v] = call[c].settings[v]
      <3>1. NoTask.settings[v] = 0
        BY DEF NoTask, Nothing
      <3>2. CASE task'[c] = NoTask
        BY <3>1, <3>2
      <3>3. CASE task'[c] = [vm |-> call[c].vm, settings |-> call[c].settings]
        BY <3>3
      <3> QED
        BY <1>0, <1>8, <3>2, <3>3 DEF GoesOn, TaskGoesOn
    <2>2. CASE task'[c].settings[v] = task[c].settings[v]
      BY <1>2, <1>3, <2>2 DEF Asked, Settings
    <2>3. CASE task'[c].settings[v] = 0
      BY <1>4, <1>t, <2>3
    <2>4. CASE task'[c].settings[v] = call[c].settings[v]
      BY <1>2, <1>3, <2>4 DEF Asked, Settings
    <2> QED
      BY <2>1, <2>2, <2>3, <2>4
  <1> QED
    BY <1>5, <1>6, <1>7, <1>8 DEF Asked

(* No disk grows beyond what its claim requests, although every online     *)
(* expansion (UpdateInternalDisks, controller.go:657) sends the sizes of   *)
(* the VM's other disks too, as they were when it read them.               *)
THEOREM NothingBeyondTheRequest == Spec => []NoMoreThanAsked
  <1>1. Init => Asked
    <2> SUFFICES ASSUME Init PROVE Asked
      OBVIOUS
    <2>1. Initial * MbToBytes \in Nat /\ 0 * MbToBytes = 0
      BY ExpansionIsSane, SMT
    <2> QED
      BY <2>1, CallsVolume DEF Init, Asked, NoMoreThanAsked, Idle, NoTask, Nothing
  <1>2. Inv /\ Asked /\ [Next]_vars => Asked'
    BY StepAsked
  <1>3. Asked => NoMoreThanAsked
    BY DEF Asked
  <1> QED
    BY <1>1, <1>2, <1>3, Invariance, PTL DEF Spec

(***************************************************************************)
(* A volume that several nodes write grows only while it is attached       *)
(* nowhere.                                                                *)
(***************************************************************************)

(* A call that goes through a VM expands a disk that may be expanded so.   *)
(* What it sends of other disks is no more than they have, and VCD takes   *)
(* no less: its task leaves their sizes as they are.  A task on a single   *)
(* disk keeps it from being attached.                                      *)
Offline ==
    \A c \in Calls :
        /\ call[c].vm # NoVm => OnlineAllowed(c[2])
        /\ \A v \in Volumes : v # c[2] => call[c].settings[v] <= size[v]
        /\ \A v \in Named(task[c].settings) :
               \/ on[v] = {}
               \/ AccessMode[v] # "MULTI_NODE_MULTI_WRITER"
               \/ task[c].settings[v] = size[v]

LEMMA StepOffline ==
    ASSUME Inv, Offline, [Next]_vars
    PROVE  Offline'
  <1>0. GoesOn
    BY StepGoesOn
  <1>t. /\ size \in [Volumes -> Nat] /\ size' \in [Volumes -> Nat]
        /\ \A c \in Calls : /\ call[c].settings \in Settings /\ task[c].settings \in Settings
                            /\ task'[c].settings \in Settings
    <2>1. TypeOK'
      BY StepInv DEF Inv
    <2> QED
      BY <2>1 DEF Inv, TypeOK, CallRecord
  <1>1. \A v \in Volumes : size[v] <= size'[v]
    <2> TAKE v \in Volumes
    <2>1. CASE size'[v] = size[v]
      BY <1>t, <2>1
    <2>2. ASSUME NEW c \in Calls, v \in Named(task[c].settings), size'[v] = task[c].settings[v]
          PROVE  size[v] <= size'[v]
      BY <2>2 DEF Inv, TasksGrow
    <2> QED
      BY <1>0, <2>1, <2>2 DEF GoesOn, DiskGoesOn
  <1>2. ASSUME NEW c \in Calls PROVE call'[c].vm # NoVm => OnlineAllowed(c[2])
    BY <1>0 DEF GoesOn, CallGoesOn, Offline
  <1>3. ASSUME NEW c \in Calls, NEW v \in Volumes, v # c[2]
        PROVE  call'[c].settings[v] <= size'[v]
    <2>1. call'[c].settings[v] \in {call[c].settings[v], 0, size[v]}
      BY <1>0, <1>3 DEF GoesOn, CallGoesOn, Nothing
    <2> QED
      BY <1>1, <1>3, <1>t, <2>1 DEF Offline, Settings
  <1>4. ASSUME NEW c \in Calls, NEW v \in Named(task'[c].settings)
        PROVE  \/ on'[v] = {}
               \/ AccessMode[v] # "MULTI_NODE_MULTI_WRITER"
               \/ task'[c].settings[v] = size'[v]
    <2>1. CASE task'[c] = task[c]
      <3>1. v \in Named(task[c].settings)
        BY <1>4, <2>1
      <3>2. CASE on[v] = {}
        BY <1>0, <3>1, <3>2 DEF GoesOn, DiskGoesOn, Busy, Named
      <3>3. CASE task[c].settings[v] = size[v]
        <4>1. size'[v] = size[v]
          <5> SUFFICES ASSUME NEW d \in Calls, v \in Named(task[d].settings), task'[d] = NoTask
                       PROVE  FALSE
            BY <1>0, <3>1 DEF GoesOn, DiskGoesOn, Named
          <5>1. d = c
            BY <3>1 DEF Inv, TasksGrow
          <5> QED
            BY <1>4, <5>1 DEF NoTask, Nothing, Named
        <4> QED
          BY <2>1, <3>3, <4>1
      <3> QED
        BY <3>1, <3>2, <3>3 DEF Offline
    <2>2. CASE task'[c] = NoTask
      BY <1>4, <2>2 DEF NoTask, Nothing, Named
    <2>3. CASE /\ task'[c] = [vm |-> call[c].vm, settings |-> call[c].settings]
               /\ Accepts(call[c].vm, call[c].settings)
               /\ UNCHANGED disks
      <3>1. v \in Named(call[c].settings) /\ on'[v] = on[v] /\ size'[v] = size[v]
        BY <1>4, <2>3 DEF disks, Named
      <3>2. CASE call[c].vm = NoVm
        BY <2>3, <3>1, <3>2 DEF Accepts
      <3>3. CASE call[c].vm # NoVm /\ v = c[2]
        BY <3>3 DEF Offline, OnlineAllowed
      <3>4. CASE v # c[2]
        <4>1. size[v] <= call[c].settings[v] /\ call[c].settings[v] <= size[v]
          BY <2>3, <3>1, <3>4 DEF Accepts, Offline, Named
        <4> QED
          BY <1>t, <2>3, <3>1, <4>1, SMTT(30) DEF Settings, Named
      <3> QED
        BY <3>2, <3>3, <3>4
    <2> QED
      BY <1>0, <2>1, <2>2, <2>3 DEF GoesOn, TaskGoesOn
  <1> QED
    BY <1>2, <1>3, <1>4 DEF Offline, Named

(* A volume that several nodes write changes its size only while it is     *)
(* attached to none of them, although ControllerExpandVolume looks for its *)
(* VMs long before the task ends, and an attach or an update of a VM may   *)
(* come in between.                                                        *)
THEOREM SharedGrowsOffline == Spec => ExpandedOffline
  <1>1. Init => Offline
    <2> SUFFICES ASSUME Init PROVE Offline
      OBVIOUS
    <2>1. Named(Nothing) = {} /\ \A v \in Volumes : Nothing[v] <= Initial
      BY ExpansionIsSane DEF Named, Nothing
    <2>2. \A c \in Calls : /\ call[c].vm = NoVm /\ call[c].settings = Nothing
                           /\ task[c].settings = Nothing
      BY DEF Init, Idle, NoTask
    <2>3. \A v \in Volumes : size[v] = Initial
      BY DEF Init
    <2> QED
      BY <2>1, <2>2, <2>3 DEF Offline
  <1>2. Inv /\ Offline /\ [Next]_vars => Offline'
    BY StepOffline
  <1>3. Inv /\ Offline /\ [Next]_vars =>
            [\A v \in Volumes :
                size'[v] # size[v] /\ AccessMode[v] = "MULTI_NODE_MULTI_WRITER" => on[v] = {}]_vars
    <2> SUFFICES ASSUME Inv, Offline, [Next]_vars, NEW v \in Volumes,
                        size'[v] # size[v], AccessMode[v] = "MULTI_NODE_MULTI_WRITER"
                 PROVE  on[v] = {}
      OBVIOUS
    <2>1. PICK c \in Calls : v \in Named(task[c].settings) /\ size'[v] = task[c].settings[v]
      BY StepGoesOn DEF GoesOn, DiskGoesOn
    <2> QED
      BY <2>1 DEF Offline
  <1> QED
    BY <1>1, <1>2, <1>3, Invariance, PTL DEF Spec, ExpandedOffline

(***************************************************************************)
(* The file system grows to what the claim is told of.                     *)
(***************************************************************************)

(* Between the rescan and the resize, the kernel knows a size that covers  *)
(* the capacity kubelet asked for.                                         *)
Rescanned ==
    \A v \in Volumes : node[v].step = "resize" => node[v].capacity <= seen[v] * MbToBytes

LEMMA StepRescanned ==
    ASSUME Inv, Rescanned, [Next]_vars
    PROVE  Rescanned'
  <1>1. ASSUME NEW v \in Volumes, NodeRescan(v)
        PROVE  Rescanned'
    <2>t. /\ size[v] \in Nat /\ pv[v] \in Nat /\ node[v].capacity \in Nat
          /\ size[v] * MbToBytes \in Nat
      BY Monotone DEF Inv, TypeOK
    <2>1. node[v].capacity <= size[v] * MbToBytes
      BY <2>t DEF Inv, NodeIsAsked, AnsweredIsThere
    <2>2. /\ node'[v].capacity = node[v].capacity /\ seen'[v] = size[v]
          /\ \A x \in Volumes : x # v => node'[x] = node[x] /\ seen'[x] = seen[x]
      BY <1>1 DEF NodeRescan, Inv, TypeOK
    <2> QED
      BY <2>1, <2>2 DEF Rescanned
  <1>2. ASSUME NEW v \in Volumes, NodeResize(v) \/ NodeFails(v) \/ KubeletResizes(v)
        PROVE  Rescanned'
    <2>1. UNCHANGED seen /\ \A x \in Volumes : node'[x] = node[x] \/ node'[x].step # "resize"
      BY <1>2 DEF NodeResize, NodeFails, KubeletResizes, Inv, TypeOK
    <2> QED
      BY <2>1 DEF Rescanned
  <1>3. ASSUME NEW v \in Volumes, Stage(v)
        PROVE  Rescanned'
    <2>1. /\ UNCHANGED node /\ node[v].step = "idle"
          /\ \A x \in Volumes : x # v => seen'[x] = seen[x]
      BY <1>3 DEF Stage, Inv, TypeOK
    <2> QED
      BY <2>1 DEF Rescanned
  <1>4. ASSUME UNCHANGED <<node, seen>>
        PROVE  Rescanned'
    BY <1>4 DEF Rescanned
  <1>5. ASSUME NEW c \in Calls,
               \/ Expand(c) \/ RequestFails(c) \/ Resize(c) \/ Timeout(c)
               \/ TaskSucceeds(c) \/ TaskFails(c)
        PROVE  UNCHANGED <<node, seen>>
    BY <1>5 DEF Expand, Look, ChooseMode, Verify, ReadVm, Put, Wait, RequestFails, Resize,
                Timeout, TaskSucceeds, TaskFails, host
  <1>6. ASSUME NEW v \in Volumes, NEW vm \in Nodes, Claim(v) \/ Attach(v, vm) \/ Detach(v, vm)
        PROVE  UNCHANGED <<node, seen>>
    BY <1>6 DEF Claim, Attach, Detach, host
  <1>7. ASSUME NEW r \in Resizers, Crash(r)
        PROVE  UNCHANGED <<node, seen>>
    BY <1>7 DEF Crash, host
  <1>8. ASSUME NEW v \in Volumes, Claim(v)
        PROVE  UNCHANGED <<node, seen>>
    BY <1>8 DEF Claim, host
  <1> QED
    BY <1>1, <1>2, <1>3, <1>4, <1>5, <1>6, <1>7, <1>8 DEF Next, NodeExpandVolume, vars

(* When NodeExpandVolume has succeeded, the file system has the space the  *)
(* claim is then told of, whatever the disk was expanded by meanwhile      *)
(* (rescan and resize, node.go:609-639).                                   *)
THEOREM FileSystemGrows == Spec => NodeGrowsFileSystem
  <1>1. Init => Rescanned
    BY DEF Init, Rescanned
  <1>2. Inv /\ Rescanned /\ [Next]_vars => Rescanned'
    BY StepRescanned
  <1>3. Inv /\ Rescanned /\ [Next]_vars =>
            [\A v \in Volumes :
                node[v].step = "resize" /\ node'[v].step = "idle" /\ done'[v] # done[v]
                    => fs'[v] * MbToBytes >= done'[v]]_vars
    <2> SUFFICES ASSUME Inv, Rescanned, [Next]_vars, NEW v \in Volumes,
                        node[v].step = "resize", node'[v].step = "idle", done'[v] # done[v]
                 PROVE  fs'[v] * MbToBytes >= done'[v]
      OBVIOUS
    <2>1. NodeResize(v)
      <3>1. ~UNCHANGED node /\ done' # done
        OBVIOUS
      <3>2. ASSUME NEW c \in Calls,
                   \/ Expand(c) \/ RequestFails(c) \/ Resize(c) \/ Timeout(c)
                   \/ TaskSucceeds(c) \/ TaskFails(c)
            PROVE  FALSE
        BY <3>1, <3>2 DEF Expand, Look, ChooseMode, Verify, ReadVm, Put, Wait, RequestFails,
                          Resize, Timeout, TaskSucceeds, TaskFails, host
      <3>3. ASSUME NEW x \in Volumes,
                   \/ NodeRescan(x) \/ NodeFails(x) \/ Claim(x) \/ KubeletResizes(x) \/ Stage(x)
            PROVE  FALSE
        BY <3>1, <3>3 DEF NodeRescan, NodeFails, Claim, KubeletResizes, Stage, host, kube
      <3>4. ASSUME NEW x \in Volumes, NEW vm \in Nodes, Attach(x, vm) \/ Detach(x, vm)
            PROVE  FALSE
        BY <3>1, <3>4 DEF Attach, Detach, host
      <3>5. ASSUME NEW r \in Resizers, Crash(r)
            PROVE  FALSE
        BY <3>1, <3>5 DEF Crash, host
      <3>6. ASSUME NEW x \in Volumes, NodeResize(x)
            PROVE  x = v
        BY <3>6 DEF NodeResize, Inv, TypeOK
      <3> QED
        BY <3>1, <3>2, <3>3, <3>4, <3>5, <3>6 DEF Next, NodeExpandVolume, vars
    <2>2. /\ node[v].capacity \in Nat /\ seen[v] \in Nat /\ fs[v] \in Nat /\ done[v] \in Nat
          /\ node[v].capacity <= seen[v] * MbToBytes
      BY DEF Inv, TypeOK, Rescanned
    <2>3. done'[v] = node[v].capacity /\ fs'[v] \in Nat /\ seen[v] <= fs'[v]
      BY <2>1, <2>2 DEF NodeResize, Inv, TypeOK, Larger
    <2>4. /\ seen[v] * MbToBytes <= fs'[v] * MbToBytes
          /\ seen[v] * MbToBytes \in Nat /\ fs'[v] * MbToBytes \in Nat
      BY <2>2, <2>3, Monotone
    <2> QED
      BY <2>2, <2>3, <2>4
  <1> QED
    BY <1>1, <1>2, <1>3, Invariance, PTL DEF Spec, NodeGrowsFileSystem
=============================================================================
