------------------------ MODULE CsiRefinementProofs ------------------------
(***************************************************************************)
(* CsiController implements VolumeService: as long as callers wait, tasks  *)
(* are seen through and lookups answer, every step of the handlers and of  *)
(* VCD is one of the volume service's operations, or none.  The task that  *)
(* ends is what counts: a volume gets its disk when the create task        *)
(* succeeds, and an answer comes after it.                                 *)
(***************************************************************************)
EXTENDS CsiAnswersProofs

(* Every disk has a spec, from the storage class or from who made it.      *)
SpecsKnown == \A d \in Disks : Exists(d) => disks[d].spec \in Specs

RefinesInv == PromisesInv /\ SpecsKnown

LEMMA StepSpecsKnown ==
    ASSUME CallsInv, SpecsKnown, [Next]_vars
    PROVE  SpecsKnown'
<1>0. TypeInv /\ LockHeld
  BY DEF CallsInv
<1>1. CASE UNCHANGED disks
  BY <1>1 DEF SpecsKnown, Exists
<1>2. ASSUME NEW s \in Handlers, Submits(s) PROVE SpecsKnown'
  <2>1. h[s].name \in Names
    BY <1>0, <1>2, SubmitKinds DEF Submitted, TypeInv, WellFormed
  <2>2. \A d \in Disks : MadeBy(s, d) => SpecsKnown'
    BY <2>1, ClassesAreSane DEF MadeBy, NewDisk, SpecsKnown, Exists
  <2>3. \A d \in Disks, kind \in {"delete", "attach", "detach"} : StartedOn(s, d, kind) => SpecsKnown'
    BY DEF StartedOn, SpecsKnown, Exists
  <2>4. QED
    BY <1>0, <1>1, <1>2, <2>2, <2>3, SubmitKinds
<1>3. ASSUME NEW e \in Disks, TaskResult(e) PROVE SpecsKnown'
  BY <1>3, EndedLives DEF SpecsKnown
<1>4. ASSUME NEW s \in Handlers, GivesUp(s) \/ Answers(s) PROVE UNCHANGED disks
  BY <1>4 DEF GivesUp, Answers
<1>5. ASSUME NEW s \in Handlers, NEW op \in Ops, NEW n \in Names, NEW v \in Vms \union {None},
             Begins(s, op, n, v)
      PROVE  UNCHANGED disks
  BY <1>5 DEF Begins
<1>6. ASSUME NEW s \in Handlers, NEW pc \in Pcs, NEW e \in Disks \union {None}, Quiet(s, pc, e)
      PROVE  UNCHANGED disks
  BY <1>6 DEF Quiet
<1>7. UNCHANGED vars \/ Restarts => UNCHANGED disks
  BY DEF vars, Restarts
<1>8. QED
  BY <1>0, <1>1, <1>2, <1>3, <1>4, <1>5, <1>6, <1>7, StepKinds

(***************************************************************************)
(* The disk of a volume.                                                   *)
(***************************************************************************)
Stored(d) == [spec |-> disks[d].spec, vms |-> disks[d].vms]

(* The finished disk of the name, if there is one, is the volume's.        *)
LEMMA StoreIs ==
    /\ OneDiskPerName =>
           \A n \in Names : \A d \in Ready(n) : storeBar[n] = Stored(d)
    /\ \A n \in Names : Ready(n) = {} => storeBar[n] = None
<1>1. \A n \in Names : Ready(n) = {} => storeBar[n] = None
  BY DEF storeBar
<1>2. ASSUME OneDiskPerName, NEW n \in Names, NEW d \in Ready(n) PROVE storeBar[n] = Stored(d)
  <2>1. \A e \in Ready(n) : e = d
    BY <1>2 DEF Ready, OneDiskPerName
  <2>2. (CHOOSE e \in Ready(n) : TRUE) = d
    BY <2>1
  <2>3. QED
    BY <2>2 DEF storeBar, Stored
<1>3. QED
  BY <1>1, <1>2

LEMMA StoreWillBe ==
    /\ OneDiskPerName' =>
           \A n \in Names : \A d \in Ready(n)' :
               storeBar'[n] = [spec |-> disks'[d].spec, vms |-> disks'[d].vms]
    /\ \A n \in Names : Ready(n)' = {} => storeBar'[n] = None
<1>1. \A n \in Names : Ready(n)' = {} => storeBar'[n] = None
  BY DEF storeBar
<1>2. ASSUME OneDiskPerName', NEW n \in Names, NEW d \in Ready(n)'
      PROVE  storeBar'[n] = [spec |-> disks'[d].spec, vms |-> disks'[d].vms]
  <2>1. \A e \in Ready(n)' : e = d
    BY <1>2 DEF Ready, OneDiskPerName
  <2>2. (CHOOSE e \in Ready(n)' : TRUE) = d
    BY <2>1
  <2>3. QED
    BY <2>2 DEF storeBar
<1>3. QED
  BY <1>1, <1>2

(* What the volume has keeps its place while finished disks stay so.       *)
LEMMA StoreKept ==
    ASSUME OneDiskPerName, OneDiskPerName', NEW n \in Names, Ready(n)' = Ready(n),
           \A d \in Ready(n) : disks'[d].spec = disks[d].spec /\ disks'[d].vms = disks[d].vms
    PROVE  storeBar'[n] = storeBar[n]
<1>1. CASE Ready(n) = {}
  BY <1>1, StoreIs, StoreWillBe
<1>2. ASSUME NEW d \in Ready(n) PROVE storeBar'[n] = storeBar[n]
  <2>1. storeBar[n] = [spec |-> disks[d].spec, vms |-> disks[d].vms]
    BY <1>2, StoreIs DEF Stored
  <2>2. storeBar'[n] = [spec |-> disks'[d].spec, vms |-> disks'[d].vms]
    BY <1>2, StoreWillBe
  <2>3. QED
    BY <1>2, <2>1, <2>2
<1>3. QED
  BY <1>1, <1>2

LEMMA StoreSame ==
    ASSUME \A n \in Names : storeBar'[n] = storeBar[n]
    PROVE  storeBar' = storeBar
BY DEF storeBar

LEMMA StoreSet ==
    ASSUME NEW n \in Names, NEW disk, storeBar'[n] = disk,
           \A m \in Names \ {n} : storeBar'[m] = storeBar[m]
    PROVE  storeBar' = [storeBar EXCEPT ![n] = disk]
<1>1. storeBar = [m \in Names |-> storeBar[m]] /\ storeBar' = [m \in Names |-> storeBar'[m]]
  BY DEF storeBar
<1>. HIDE DEF storeBar
<1>2. QED
  BY <1>1

(* The steps that are none of the volume service's.                        *)
LEMMA SameDisksSameStore ==
    ASSUME UNCHANGED disks
    PROVE  storeBar' = storeBar
BY SameDisks DEF storeBar, Ready

LEMMA SubmitsKeepsStore ==
    ASSUME CallsInv, OneDiskPerName, OneDiskPerName', NEW s \in Handlers, Submits(s)
    PROVE  storeBar' = storeBar
<1>0. TypeInv /\ LockHeld
  BY DEF CallsInv
<1>1. CASE UNCHANGED disks
  BY <1>1, SameDisksSameStore
<1>2. ASSUME NEW d \in Disks, MadeBy(s, d), NEW n \in Names PROVE storeBar'[n] = storeBar[n]
  <2>1. /\ disks[d].st = "free" /\ disks'[d].st = "creating"
        /\ \A e \in Disks : e # d => disks'[e] = disks[e]
    BY <1>2 DEF MadeBy, NewDisk
  <2>2. Ready(n)' = Ready(n) /\ d \notin Ready(n)
    BY <2>1 DEF Ready, Named, Exists
  <2>3. QED
    BY <2>1, <2>2, StoreKept DEF Ready, Named
<1>3. ASSUME NEW d \in Disks, NEW kind \in {"delete", "attach", "detach"}, StartedOn(s, d, kind),
             NEW n \in Names
      PROVE  storeBar'[n] = storeBar[n]
  <2>1. \A e \in Disks : /\ disks'[e].st = disks[e].st /\ disks'[e].name = disks[e].name
                         /\ disks'[e].spec = disks[e].spec /\ disks'[e].vms = disks[e].vms
    BY <1>3 DEF StartedOn
  <2>2. Ready(n)' = Ready(n)
    BY <2>1 DEF Ready, Named, Exists
  <2>3. QED
    BY <2>1, <2>2, StoreKept DEF Ready, Named
<1>4. QED
  BY <1>0, <1>1, <1>2, <1>3, SubmitKinds, StoreSame

(***************************************************************************)
(* The tasks' ends.                                                        *)
(***************************************************************************)

(* Only the volume of the task's disk can change ...                       *)
LEMMA TaskMovesOne ==
    ASSUME CallsInv, OneDiskPerName, OneDiskPerName', NEW d \in Disks, TaskResult(d),
           NEW n \in Names, n = disks[d].name
    PROVE  /\ \A m \in Names \ {n} : storeBar'[m] = storeBar[m]
           /\ d \in Ready(n) <=> disks[d].st = "ready"
           /\ d \in Ready(n)' <=> disks'[d].st = "ready"
           /\ \A e \in Disks : e # d => e \notin Ready(n) /\ e \notin Ready(n)'
<1>1. /\ Running(d) /\ Lives(d) /\ Exists(d)
      /\ disks'[d].name = n /\ \A e \in Disks : e # d => disks'[e] = disks[e]
  BY EndedLives DEF TaskResult, TaskEnds, CallsInv, DisksLive, Lives
<1>2. d \in Named(n)
  BY <1>1 DEF Named
<1>3. \A e \in Disks : e # d => e \notin Named(n)
  BY <1>1, <1>2 DEF OneDiskPerName
<1>4. \A e \in Disks : e # d => e \notin Ready(n) /\ e \notin Ready(n)'
  BY <1>1, <1>3 DEF Ready, Named, Exists
<1>5. (d \in Ready(n) <=> disks[d].st = "ready") /\ (d \in Ready(n)' <=> disks'[d].st = "ready")
  BY <1>1 DEF Ready, Named, Exists
<1>6. ASSUME NEW m \in Names \ {n} PROVE storeBar'[m] = storeBar[m]
  <2>1. Ready(m)' = Ready(m) /\ d \notin Ready(m)
    BY <1>1, <1>6 DEF Ready, Named, Exists
  <2>2. QED
    BY <1>1, <2>1, StoreKept DEF Ready, Named
<1>7. QED
  BY <1>4, <1>5, <1>6

(* ... and the orchestrator waits for that change.                         *)
LEMMA TaskIsWanted ==
    ASSUME PromisesInv, NEW d \in Disks, TaskResult(d)
    PROVE  LET n    == disks[d].name
               kind == disks[d].task.kind
               vm   == disks[d].task.vm
           IN  /\ kind = "create" => vol[n] = "creating"
               /\ kind = "delete" => vol[n] = "deleting"
               /\ kind \in {"attach", "detach"} => vm \in Vms
               /\ kind = "attach" => att[<<n, vm>>] = "attaching"
               /\ kind = "detach" => att[<<n, vm>>] = "detaching"
<1>1. PICK s \in Handlers : h[s].pc = "wait" /\ h[s].disk = d
  BY DEF PromisesInv, CreatedInv, SharingInv, TasksAreAwaited, TaskResult, TaskEnds
<1>2. CallsInv /\ NobodyGone
  BY DEF PromisesInv, AnswersInv
<1>3. /\ Waiting(s) /\ h[s].name = disks[d].name
      /\ <<h[s].op, disks[d].task.kind>> \in
            {<<"create", "create">>, <<"delete", "delete">>,
             <<"publish", "attach">>, <<"unpublish", "detach">>}
      /\ h[s].op \in {"publish", "unpublish"} =>
            disks[d].task.vm = h[s].vm /\ h[s].vm \in Vms
  BY <1>1, <1>2 DEF CallsInv, OwnTask, CallersKnown, NobodyGone, Waiting, DisksKnown, DiskKnown,
                    TypeInv, WellFormed
<1>4. QED
  BY <1>2, <1>3 DEF CallsInv, Told

LEMMA TaskRefines ==
    ASSUME RefinesInv, RefinesInv', NEW d \in Disks, TaskResult(d),
           NEW n \in Names, n = disks[d].name
    PROVE  storeBar' = storeBar \/ Abstract!Next
<1>. DEFINE vm == disks[d].task.vm
            disk == [spec |-> disks[d].spec, vms |-> disks[d].vms]
            after == [spec |-> disks'[d].spec, vms |-> disks'[d].vms]
<1>0. /\ CallsInv /\ OneDiskPerName /\ OneDiskPerName' /\ UNCHANGED <<vol, att>>
      /\ Lives(d) /\ Running(d) /\ disks[d].task.kind \in TaskKinds
      /\ disks[d].vms \in SUBSET Vms
  BY DEF RefinesInv, PromisesInv, AnswersInv, NameInv, TaskResult, TaskEnds, CallsInv, DisksLive,
         Task, TypeInv, TypeOK, Disk
<1>1. /\ \A m \in Names \ {n} : storeBar'[m] = storeBar[m]
      /\ d \in Ready(n) <=> disks[d].st = "ready"
      /\ d \in Ready(n)' <=> disks'[d].st = "ready"
      /\ \A e \in Disks : e # d => e \notin Ready(n) /\ e \notin Ready(n)'
      /\ Ready(n) \subseteq Disks /\ Ready(n)' \subseteq Disks
  BY <1>0, TaskMovesOne DEF Ready, Named
<1>2. /\ disks[d].spec \in Specs /\ disks'[d].spec = disks[d].spec
      /\ disk \in [spec : Specs, vms : SUBSET Vms] /\ disk # None
  <2>1. disks[d].spec \in Specs /\ disks'[d].spec = disks[d].spec
    BY <1>0, EndedLives DEF Lives, RefinesInv, SpecsKnown
  <2>2. disk \in [spec : Specs, vms : SUBSET Vms]
    BY <1>0, <2>1
  <2>3. QED
    BY <2>1, <2>2, NamesAreDistinct
<1>3. /\ disks[d].st = "ready" => storeBar[n] = disk
      /\ disks[d].st # "ready" => storeBar[n] = None
      /\ disks'[d].st = "ready" => storeBar'[n] = after
      /\ disks'[d].st # "ready" => storeBar'[n] = None
  <2>1. disks[d].st # "ready" => Ready(n) = {}
    BY <1>1
  <2>2. disks'[d].st # "ready" => Ready(n)' = {}
    BY <1>1
  <2>3. disks[d].st = "ready" => storeBar[n] = disk
    BY <1>0, <1>1, StoreIs DEF Stored
  <2>4. disks'[d].st = "ready" => storeBar'[n] = after
    BY <1>0, <1>1, StoreWillBe
  <2>5. QED
    BY <1>1, <2>1, <2>2, <2>3, <2>4, StoreIs, StoreWillBe
<1>4. /\ disks[d].task.kind = "create" => vol[n] = "creating"
      /\ disks[d].task.kind = "delete" => vol[n] = "deleting"
      /\ disks[d].task.kind \in {"attach", "detach"} => vm \in Vms
      /\ disks[d].task.kind = "attach" => att[<<n, vm>>] = "attaching"
      /\ disks[d].task.kind = "detach" => att[<<n, vm>>] = "detaching"
  BY TaskIsWanted DEF RefinesInv
<1>5. ASSUME DoesNot(d) PROVE storeBar' = storeBar
  <2>1. disks'[d].vms = disks[d].vms
    BY <1>5 DEF DoesNot
  <2>2. disks'[d].st = "ready" <=> disks[d].st = "ready"
    BY <1>0, <1>5 DEF DoesNot, Lives, Ended, Running
  <2>3. storeBar'[n] = storeBar[n]
    BY <1>2, <1>3, <2>1, <2>2
  <2>4. QED
    BY <1>1, <2>3, StoreSame
<1>6. ASSUME Does(d), disks[d].task.kind = "create" PROVE Abstract!Create(n)
  <2>1. /\ disks[d].st = "creating" /\ disks'[d].st = "ready"
        /\ disks'[d].vms = {} /\ disks[d].spec = SpecOf[n]
    BY <1>0, <1>6 DEF Does, Lives, Ended, Running
  <2>2. storeBar[n] = None /\ storeBar'[n] = [spec |-> SpecOf[n], vms |-> {}]
    BY <1>2, <1>3, <2>1
  <2>3. storeBar' = [storeBar EXCEPT ![n] = [spec |-> SpecOf[n], vms |-> {}]]
    BY <1>1, <2>2, StoreSet
  <2>4. QED
    BY <1>0, <1>4, <1>6, <2>2, <2>3 DEF Abstract!Create, Abstract!SetStore
<1>7. ASSUME Does(d), disks[d].task.kind = "delete" PROVE Abstract!Delete(n)
  <2>1. /\ disks[d].st = "ready" /\ disks'[d].st = "gone" /\ disks[d].vms = {}
    BY <1>0, <1>7 DEF Does, Lives, Ended, Running, Exists
  <2>2. storeBar[n] = disk /\ disk.vms = {} /\ storeBar'[n] = None
    BY <1>3, <2>1
  <2>3. storeBar' = [storeBar EXCEPT ![n] = None]
    BY <1>1, <2>2, StoreSet
  <2>4. QED
    BY <1>0, <1>2, <1>4, <1>7, <2>2, <2>3 DEF Abstract!Delete, Abstract!SetStore
<1>8. ASSUME Does(d), disks[d].task.kind = "attach" PROVE Abstract!Attach(n, vm)
  <2>1. /\ disks[d].st = "ready" /\ disks'[d].st = "ready"
        /\ disks'[d].vms = disks[d].vms \union {vm}
        /\ disks[d].spec \in ShareableSpecs \/ disks[d].vms = {}
    BY <1>0, <1>8 DEF Does, Lives, Ended, Running, Exists, RefinesInv, PromisesInv, CreatedInv,
                      SharingInv, NoUserMeanwhile, Shareable
  <2>2. storeBar[n] = disk /\ storeBar'[n] = [disk EXCEPT !.vms = @ \union {vm}]
    BY <1>2, <1>3, <2>1
  <2>3. storeBar' = [storeBar EXCEPT ![n] = [storeBar[n] EXCEPT !.vms = @ \union {vm}]]
    BY <1>1, <2>2, StoreSet
  <2>4. storeBar[n].spec \in ShareableSpecs \/ storeBar[n].vms = {}
    BY <2>1, <2>2
  <2>5. QED
    BY <1>0, <1>2, <1>4, <1>8, <2>2, <2>3, <2>4 DEF Abstract!Attach, Abstract!SetStore
<1>9. ASSUME Does(d), disks[d].task.kind = "detach" PROVE Abstract!Detach(n, vm)
  <2>1. /\ disks[d].st = "ready" /\ disks'[d].st = "ready"
        /\ disks'[d].vms = disks[d].vms \ {vm}
    BY <1>0, <1>9 DEF Does, Lives, Ended, Running, Exists
  <2>2. storeBar[n] = disk /\ storeBar'[n] = [disk EXCEPT !.vms = @ \ {vm}]
    BY <1>2, <1>3, <2>1, SMTT(30)
  <2>3. storeBar' = [storeBar EXCEPT ![n] = [storeBar[n] EXCEPT !.vms = @ \ {vm}]]
    BY <1>1, <2>2, StoreSet
  <2>4. QED
    BY <1>0, <1>2, <1>4, <1>9, <2>2, <2>3 DEF Abstract!Detach, Abstract!SetStore
<1>10. ASSUME Does(d) PROVE Abstract!Next
  BY <1>0, <1>1, <1>4, <1>6, <1>7, <1>8, <1>9, <1>10 DEF Abstract!Next, TaskKinds
<1>11. QED
  BY <1>5, <1>10 DEF TaskResult


(***************************************************************************)
(* Calls and answers.                                                      *)
(***************************************************************************)
LEMMA SetsVolSets ==
    ASSUME TypeOK, TypeOK', NEW n \in Names, NEW to, SetsVol(n, to)
    PROVE  vol' = [vol EXCEPT ![n] = to] /\ UNCHANGED att
BY DEF SetsVol, TypeOK

LEMMA SetsAttSets ==
    ASSUME TypeOK, TypeOK', NEW n \in Names, NEW v \in Vms, NEW to, SetsAtt(n, v, to)
    PROVE  att' = [att EXCEPT ![<<n, v>>] = to] /\ UNCHANGED vol
<1>1. /\ DOMAIN att = Names \X Vms /\ DOMAIN att' = Names \X Vms
      /\ att = [p \in Names \X Vms |-> att[p]] /\ att' = [p \in Names \X Vms |-> att'[p]]
  BY DEF TypeOK
<1>2. \A p \in Names \X Vms : att'[p] = IF p = <<n, v>> THEN to ELSE att[p]
  <2>1. ASSUME NEW m \in Names, NEW w \in Vms
        PROVE  att'[<<m, w>>] = IF <<m, w>> = <<n, v>> THEN to ELSE att[<<m, w>>]
    BY DEF SetsAtt
  <2>2. QED
    BY <2>1
<1>3. QED
  BY <1>1, <1>2 DEF SetsAtt

LEMMA BeginsRefines ==
    ASSUME TypeOK, TypeOK', storeBar' = storeBar,
           NEW s \in Handlers, NEW op \in Ops, NEW n \in Names, NEW v \in Vms \union {None},
           Begins(s, op, n, v)
    PROVE  Abstract!Next
<1>1. CASE op = "create"
  <2>1. SetsVol(n, "creating") /\ vol[n] \in {"absent", "creating"}
    BY <1>1 DEF Begins
  <2>2. Abstract!AskCreate(n)
    BY <2>1, SetsVolSets DEF Abstract!AskCreate, Abstract!SetVol
  <2>3. QED
    BY <2>2 DEF Abstract!Next
<1>2. CASE op = "delete"
  <2>1. SetsVol(n, "deleting") /\ vol[n] \in {"created", "deleting"}
    BY <1>2 DEF Begins
  <2>2. Abstract!AskDelete(n)
    BY <2>1, SetsVolSets DEF Abstract!AskDelete, Abstract!SetVol
  <2>3. QED
    BY <2>2 DEF Abstract!Next
<1>3. CASE op = "publish"
  <2>1. /\ v \in Vms /\ vol[n] = "created" /\ att[<<n, v>>] \in {"detached", "attaching"}
        /\ SetsAtt(n, v, "attaching")
    BY <1>3 DEF Begins
  <2>2. Abstract!AskPublish(n, v)
    BY <2>1, SetsAttSets DEF Abstract!AskPublish, Abstract!SetAtt
  <2>3. QED
    BY <2>1, <2>2 DEF Abstract!Next
<1>4. CASE op = "unpublish"
  <2>1. /\ v \in Vms /\ SetsAtt(n, v, "detaching")
        /\ att[<<n, v>>] \in {"detached", "attaching", "attached", "detaching"}
    BY <1>4 DEF Begins, TypeOK
  <2>2. Abstract!AskUnpublish(n, v)
    BY <2>1, SetsAttSets DEF Abstract!AskUnpublish, Abstract!SetAtt
  <2>3. QED
    BY <2>1, <2>2 DEF Abstract!Next
<1>5. QED
  BY <1>1, <1>2, <1>3, <1>4 DEF Ops

(* The users of a volume are those of the disk of its name.                *)
LEMMA UsersAre ==
    ASSUME RefinesInv, NEW n \in Names
    PROVE  /\ Abstract!Users(n) = AttachedTo(n)
           /\ \A d \in Ready(n) : storeBar[n] = Stored(d) /\ Stored(d) # None
           /\ Named(n) = {} => storeBar[n] = None
<1>0. /\ OneDiskPerName /\ DisksLive
      /\ \A d \in Disks : disks[d].vms \in SUBSET Vms
  BY DEF RefinesInv, PromisesInv, AnswersInv, NameInv, CallsInv, TypeInv, TypeOK, Disk
<1>1. ASSUME NEW d \in Ready(n)
      PROVE  storeBar[n] = Stored(d) /\ Stored(d) # None
  <2>1. Stored(d) \in [spec : Specs, vms : SUBSET Vms]
    BY <1>0, <1>1 DEF Stored, RefinesInv, SpecsKnown, Ready, Named
  <2>2. QED
    BY <1>0, <1>1, <2>1, StoreIs, NamesAreDistinct
<1>2. Ready(n) = {} => storeBar[n] = None
  BY StoreIs
<1>3. CASE Ready(n) = {}
  <2>1. \A d \in Named(n) : disks[d].vms = {}
    BY <1>0, <1>3 DEF Ready, Named, Exists, DisksLive, Lives
  <2>2. AttachedTo(n) = {}
    BY <2>1 DEF AttachedTo
  <2>3. QED
    BY <1>2, <1>3, <2>2 DEF Abstract!Users
<1>4. ASSUME NEW d \in Ready(n) PROVE Abstract!Users(n) = AttachedTo(n)
  <2>1. Named(n) = {d}
    BY <1>0, <1>4 DEF Ready, OneDiskPerName
  <2>2. AttachedTo(n) = disks[d].vms
    BY <2>1 DEF AttachedTo
  <2>3. Abstract!Users(n) = Stored(d).vms
    BY <1>1, <1>4 DEF Abstract!Users
  <2>4. QED
    BY <2>2, <2>3 DEF Stored
<1>5. Named(n) = {} => Ready(n) = {}
  BY DEF Ready
<1>6. QED
  BY <1>1, <1>2, <1>3, <1>4, <1>5

LEMMA AnswersRefines ==
    ASSUME RefinesInv, TypeOK', storeBar' = storeBar, NEW s \in Handlers, Answers(s)
    PROVE  UNCHANGED <<storeBar, vol, att>> \/ Abstract!Next
<1>0. /\ CallsInv /\ TypeOK /\ h[s].op \in Ops /\ h[s].name \in Names
      /\ h[s].op \in {"publish", "unpublish"} => h[s].vm \in Vms
  BY DEF RefinesInv, PromisesInv, AnswersInv, CallsInv, TypeInv, WellFormed, Answers
<1>. DEFINE n == h[s].name
            v == h[s].vm
<1>1. ASSUME h[s].pc = "ok", Waiting(s), h[s].op = "create" PROVE Abstract!AnswerCreate(n)
  <2>1. SetsVol(n, "created") /\ vol[n] = "creating"
    BY <1>0, <1>1 DEF Answers, CallsInv, Told
  <2>2. h[s].disk \in Ready(n) /\ disks[h[s].disk].spec = SpecOf[n]
    BY <1>1, <2>1 DEF RefinesInv, PromisesInv, CreatedInv, CreateDone, Leaving, Ready
  <2>3. storeBar[n] # None /\ storeBar[n] = Stored(h[s].disk)
    BY <1>0, <2>2, UsersAre
  <2>4. storeBar[n].spec = SpecOf[n]
    BY <2>2, <2>3 DEF Stored
  <2>5. QED
    BY <1>0, <2>1, <2>3, <2>4, SetsVolSets DEF Abstract!AnswerCreate, Abstract!SetVol
<1>2. ASSUME h[s].pc = "ok", Waiting(s), h[s].op = "delete" PROVE Abstract!AnswerDelete(n)
  <2>1. SetsVol(n, "deleted") /\ vol[n] = "deleting"
    BY <1>0, <1>2 DEF Answers, CallsInv, Told
  <2>2. Named(n) = {}
    BY <1>2 DEF RefinesInv, PromisesInv, AnswersInv, DeleteDone
  <2>3. QED
    BY <1>0, <2>1, <2>2, SetsVolSets, UsersAre DEF Abstract!AnswerDelete, Abstract!SetVol
<1>3. ASSUME h[s].pc = "ok", Waiting(s), h[s].op = "publish" PROVE Abstract!AnswerPublish(n, v)
  <2>1. SetsAtt(n, v, "attached") /\ att[<<n, v>>] = "attaching"
    BY <1>0, <1>3 DEF Answers, CallsInv, Told
  <2>2. v \in AttachedTo(n)
    BY <1>3 DEF RefinesInv, PromisesInv, AnswersInv, PublishDone, At
  <2>3. QED
    BY <1>0, <1>3, <2>1, <2>2, SetsAttSets, UsersAre DEF Abstract!AnswerPublish, Abstract!SetAtt
<1>4. ASSUME h[s].pc = "ok", Waiting(s), h[s].op = "unpublish"
      PROVE  Abstract!AnswerUnpublish(n, v)
  <2>1. SetsAtt(n, v, "detached") /\ att[<<n, v>>] = "detaching"
    BY <1>0, <1>4 DEF Answers, CallsInv, Told
  <2>2. v \notin AttachedTo(n)
    BY <1>4 DEF RefinesInv, PromisesInv, UnpublishDone, At
  <2>3. QED
    BY <1>0, <1>4, <2>1, <2>2, SetsAttSets, UsersAre DEF Abstract!AnswerUnpublish, Abstract!SetAtt
<1>5. ~(h[s].pc = "ok" /\ Waiting(s)) => UNCHANGED <<storeBar, vol, att>>
  BY DEF Answers
<1>6. QED
  BY <1>0, <1>1, <1>2, <1>3, <1>4, <1>5 DEF Ops, Abstract!Next

(***************************************************************************)
(* The refinement.                                                         *)
(***************************************************************************)
LEMMA StepRefines ==
    ASSUME RefinesInv, RefinesInv', [Next]_vars
    PROVE  [Abstract!Next]_(Abstract!vars)
<1>0. /\ CallsInv /\ TypeInv /\ TypeOK /\ TypeOK' /\ OneDiskPerName /\ OneDiskPerName'
      /\ DisksLive
  BY DEF RefinesInv, PromisesInv, AnswersInv, NameInv, CallsInv, TypeInv
<1>. SUFFICES UNCHANGED <<storeBar, vol, att>> \/ Abstract!Next
  BY DEF Abstract!vars
<1>1. CASE UNCHANGED vars
  BY <1>1, SameDisksSameStore DEF vars
<1>2. ASSUME NEW s \in Handlers, NEW op \in Ops, NEW n \in Names, NEW v \in Vms \union {None},
             Begins(s, op, n, v)
      PROVE  Abstract!Next
  <2>1. storeBar' = storeBar
    BY <1>2, SameDisksSameStore DEF Begins
  <2>2. QED
    BY <1>0, <1>2, <2>1, BeginsRefines
<1>3. ASSUME NEW s \in Handlers, GivesUp(s) PROVE UNCHANGED <<storeBar, vol, att>>
  BY <1>3, SameDisksSameStore DEF GivesUp
<1>4. ASSUME NEW s \in Handlers, Answers(s)
      PROVE  UNCHANGED <<storeBar, vol, att>> \/ Abstract!Next
  <2>1. storeBar' = storeBar
    BY <1>4, SameDisksSameStore DEF Answers
  <2>2. QED
    BY <1>0, <1>4, <2>1, AnswersRefines
<1>5. ASSUME NEW s \in Handlers, Submits(s) PROVE UNCHANGED <<storeBar, vol, att>>
  BY <1>0, <1>5, SubmitsKeepsStore DEF Submits
<1>6. ASSUME NEW s \in Handlers, NEW pc \in Pcs, NEW d \in Disks \union {None}, Quiet(s, pc, d)
      PROVE  UNCHANGED <<storeBar, vol, att>>
  BY <1>6, SameDisksSameStore DEF Quiet
<1>7. ASSUME NEW d \in Disks, TaskResult(d)
      PROVE  UNCHANGED <<storeBar, vol, att>> \/ Abstract!Next
  <2>1. disks[d].name \in Names /\ UNCHANGED <<vol, att>>
    BY <1>0, <1>7 DEF TaskResult, TaskEnds, DisksLive, Lives
  <2>2. QED
    BY <1>7, <2>1, TaskRefines
<1>8. ASSUME Restarts PROVE UNCHANGED <<storeBar, vol, att>>
  BY <1>8, SameDisksSameStore DEF Restarts
<1>9. QED
  BY <1>0, <1>1, <1>2, <1>3, <1>4, <1>5, <1>6, <1>7, <1>8, StepKinds

LEMMA InitRefines == Init => RefinesInv /\ Abstract!Init
<1> SUFFICES ASSUME Init PROVE RefinesInv /\ Abstract!Init
  OBVIOUS
<1>1. PICK made \in SUBSET DOMAIN InitialDisks :
        /\ disks = [d \in Disks |-> IF d \in made THEN InitDisk(d) ELSE FreeDisk]
        /\ vol \in [Names -> {"absent", "created"}]
        /\ \A n \in Names : vol[n] = "created" => \E d \in made : InitialDisks[d].name = n
  BY DEF Init
<1>2. /\ \A d \in made : /\ d \in Disks /\ disks[d].st = "ready"
                         /\ disks[d].name = InitialDisks[d].name
                         /\ disks[d].spec \in Specs /\ disks[d].vms = {}
      /\ \A d \in Disks \ made : disks[d].st = "free"
  BY <1>1, InitialDisksAreSane DEF InitDisk, FreeDisk
<1>3. SpecsKnown
  BY <1>2 DEF SpecsKnown, Exists
<1>4. RefinesInv
  BY <1>3, InitPromisesInv DEF RefinesInv
<1>5. ASSUME NEW n \in Names
      PROVE  /\ storeBar[n] \in [spec : Specs, vms : {{}}] \union {None}
             /\ (\E d \in made : InitialDisks[d].name = n) => storeBar[n] # None
  <2>1. CASE Ready(n) = {}
    <3>1. ~\E d \in made : InitialDisks[d].name = n
      BY <1>2, <2>1 DEF Ready, Named, Exists
    <3>2. QED
      BY <2>1, <3>1, StoreIs
  <2>2. ASSUME NEW d \in Ready(n)
        PROVE  storeBar[n] \in [spec : Specs, vms : {{}}] /\ storeBar[n] # None
    <3>1. storeBar[n] = Stored(d) /\ Stored(d) # None
      BY <1>4, <2>2, UsersAre
    <3>2. d \in made
      BY <1>2 DEF Ready, Named
    <3>3. QED
      BY <1>2, <3>1, <3>2 DEF Stored
  <2>3. QED
    BY <2>1, <2>2
<1>6. storeBar \in [Names -> [spec : Specs, vms : {{}}] \union {None}]
  BY <1>5 DEF storeBar
<1>7. QED
  BY <1>1, <1>4, <1>5, <1>6 DEF Init, Abstract!Init

LEMMA StepRefinesInv ==
    ASSUME CallsRunTheirCourse, SeesTasksThrough, RefinesInv, [Next]_vars
    PROVE  RefinesInv'
BY StepPromisesInv, StepSpecsKnown DEF RefinesInv, PromisesInv, AnswersInv

(* As long as callers wait, no task is aborted, polling goes on and        *)
(* lookups answer, what the interleaved handlers, their retries and        *)
(* failures, and VCD's tasks do to a volume is what VolumeService allows:  *)
(* no disk appears, goes, is attached or detached unless the orchestrator  *)
(* is asking for it, and every answer is true when it is given.            *)
THEOREM Refinement ==
    ASSUME CallsRunTheirCourse, SeesTasksThrough
    PROVE  Spec => ImplementsVolumeService
<1>1. RefinesInv /\ [Next]_vars => RefinesInv'
  BY StepRefinesInv
<1>2. RefinesInv /\ RefinesInv' /\ [Next]_vars => [Abstract!Next]_(Abstract!vars)
  BY StepRefines
<1>3. QED
  BY InitRefines, <1>1, <1>2, PTL DEF Spec, ImplementsVolumeService, Abstract!Spec
=============================================================================
