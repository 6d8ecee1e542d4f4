---------------------------- MODULE CsiRdeProofs ----------------------------
(***************************************************************************)
(* Proofs about CsiController and the list of volumes in the cluster's     *)
(* RDE: when its updates do not fail, no disk of a volume that was         *)
(* acknowledged to be deleted is in the list, and the disk of one that was *)
(* acknowledged to be created is.                                          *)
(***************************************************************************)
EXTENDS CsiAnswersProofs

(* A handler that waits for its task on a disk, or goes on to the RDE.     *)
Awaited(d, op) ==
    \E s \in Handlers : h[s].op = op /\ h[s].pc \in {"wait", "rde"} /\ h[s].disk = d

(***************************************************************************)
(* Entries that must go.                                                   *)
(***************************************************************************)

(* Every update of the list is made and heard of, and by handlers that     *)
(* somebody waits for.                                                     *)
RdeIsHeard == {"rde", "rdeSilent", "timeout"} \intersect Faults = {}

CallersStay == \A s \in Handlers : h[s].caller # "gone"

NoRdeNoList == RdeKind = "none" => rde = {}

(* A disk in the list is finished, or the handler that deleted it is still *)
(* about to take it off.                                                   *)
ListedIsThere == \A d \in rde : disks[d].st = "ready" \/ Awaited(d, "delete")

DeleteUnlisted ==
    \A s \in Handlers : At(s, "delete", "ok") => \A d \in rde : disks[d].name # h[s].name

UnlistedInv ==
    /\ CreatedInv /\ NameInv /\ OnlyDisk /\ CallersStay
    /\ NoRdeNoList /\ ListedIsThere /\ DeleteUnlisted /\ DeletedIsNotInRde

(***************************************************************************)
(* Entries that must stay.                                                 *)
(***************************************************************************)

(* Whoever made a disk comes to enter it.                                  *)
RdeIsWritten ==
    {"api", "lost", "wait", "crash", "rde", "rdeSilent"} \intersect Faults = {}

(* A disk the driver made is in the list, or its volume is to be deleted,  *)
(* or the handler that made it is still about to put it there.             *)
ThereIsListed ==
    RdeKind # "none" =>
        \A d \in Disks :
            Exists(d) /\ disks[d].name \notin Static =>
                d \in rde \/ Leaving(disks[d].name) \/ Awaited(d, "create")

CreateListed ==
    RdeKind # "none" =>
        \A s \in Handlers :
            At(s, "create", "ok") /\ h[s].name \notin Static =>
                Leaving(h[s].name) \/ Named(h[s].name) \subseteq rde

ListedInv == CreatedInv /\ NameInv /\ ThereIsListed /\ CreateListed /\ CreatedIsInRde

(***************************************************************************)
(* How the list changes: at the end of CreateDisk and DeleteDisk alone.    *)
(***************************************************************************)
Adds(s) == h[s].op = "create" /\ rde' = rde \union {h[s].disk}

Removes(s) ==
    /\ h[s].op = "delete" /\ rde' \subseteq rde /\ h[s].disk \notin rde'
    /\ \A d \in rde : d \notin rde' => disks[d].name = h[s].name
    /\ RdeKind # "native" => \A d \in rde' : disks[d].name # h[s].name

LEMMA RdeMoves ==
    ASSUME CallsInv, NEW s \in Handlers, NEW pc \in Pcs, NEW d \in Disks \union {None},
           Quiet(s, pc, d)
    PROVE  \/ rde' = rde
           \/ h[s].pc = "rde" /\ (Adds(s) \/ Removes(s))
<1>1. h[s].pc # "rde" => rde' = rde
  BY DEF Quiet, Learned, TaskSeen
<1>2. h[s].pc = "rde" => rde' = rde \/ rde' = WithPv(s)
  BY DEF Quiet, Learned, TaskSeen
<1>3. h[s].pc = "rde" => /\ h[s].op \in {"create", "delete"}
                         /\ disks[h[s].disk].name = h[s].name
  BY DEF CallsInv, TypeInv, WellFormed, DisksKnown, DiskKnown
<1>4. ASSUME h[s].pc = "rde", rde' = WithPv(s), h[s].op = "delete" PROVE Removes(s)
  BY <1>3, <1>4 DEF WithPv, Removes
<1>5. QED
  BY <1>1, <1>2, <1>3, <1>4 DEF WithPv, Adds

(* When updates do not fail, the handler leaves the RDE in order.          *)
LEMMA RdeIsLeft ==
    ASSUME {"lost", "rde", "rdeSilent"} \intersect Faults = {}, CallsInv, NEW s \in Handlers,
           NEW pc \in Pcs, NEW d \in Disks \union {None}, Quiet(s, pc, d), h[s].pc = "rde"
    PROVE  /\ pc = "ok" /\ d = h[s].disk
           /\ RdeKind # "none" => Adds(s) \/ Removes(s)
<1>1. /\ pc = "ok" /\ d = h[s].disk /\ (RdeKind # "none" => rde' = WithPv(s))
  BY DEF Quiet, Learned, TaskSeen
<1>2. /\ h[s].op \in {"create", "delete"} /\ disks[h[s].disk].name = h[s].name
  BY DEF CallsInv, TypeInv, WellFormed, DisksKnown, DiskKnown
<1>3. ASSUME rde' = WithPv(s), h[s].op = "delete" PROVE Removes(s)
  BY <1>2, <1>3 DEF WithPv, Removes
<1>4. QED
  BY <1>1, <1>2, <1>3 DEF WithPv, Adds

(* A handler that waits for a task goes to the RDE, or the task failed.    *)
LEMMA AwaitedMoves ==
    ASSUME CallsInv, ~May("wait"), NEW s \in Handlers, NEW pc \in Pcs,
           NEW d \in Disks \union {None}, Quiet(s, pc, d), h[s].pc = "wait",
           h[s].op \in {"create", "delete"}
    PROVE  \/ pc = "rde" /\ d = h[s].disk
           \/ h[s].op = "create" /\ (May("api") \/ ~Exists(h[s].disk))
           \/ h[s].op = "delete" /\ disks[h[s].disk].st = "ready"
<1>1. h[s].disk \in Disks /\ Lives(h[s].disk)
      /\ <<h[s].op, disks[h[s].disk].task.kind>> \in
            {<<"create", "create">>, <<"delete", "delete">>,
             <<"publish", "attach">>, <<"unpublish", "detach">>}
  BY DEF CallsInv, TypeInv, WellFormed, DiskKnown, DisksLive, OwnTask
<1>2. CASE pc = "fail"
  BY <1>1, <1>2 DEF Quiet, Learned, TaskSeen, Lives, Ended, Exists
<1>3. CASE pc = "rde"
  BY <1>3 DEF Quiet, Learned, TaskSeen
<1>4. CASE pc = "ok"
  BY <1>4 DEF Quiet, Learned, AnswerKnown
<1>5. pc \in {"rde", "ok", "fail"}
  BY DEF Quiet, Learned, TaskSeen
<1>6. QED
  BY <1>2, <1>3, <1>4, <1>5

(***************************************************************************)
(* No disk of a deleted volume.                                            *)
(***************************************************************************)
LEMMA StepCallersStay ==
    ASSUME ~May("timeout"), CallsInv, CallersStay, [Next]_vars
    PROVE  CallersStay'
<1>0. TypeInv /\ LockHeld
  BY DEF CallsInv
<1>1. CASE UNCHANGED vars
  BY <1>1 DEF vars, CallersStay
<1>2. ASSUME NEW s \in Handlers, NEW op \in Ops, NEW n \in Names, NEW v \in Vms \union {None},
             Begins(s, op, n, v)
      PROVE  CallersStay'
  BY <1>2 DEF Begins, Others, CallersStay
<1>3. ASSUME NEW s \in Handlers, GivesUp(s) \/ Answers(s) PROVE CallersStay'
  BY <1>3 DEF GivesUp, Answers, Others, Idle, CallersStay
<1>4. ASSUME NEW s \in Handlers, Submits(s) PROVE CallersStay'
  BY <1>0, <1>4, SubmitKinds DEF Submitted, CallersStay
<1>5. ASSUME NEW s \in Handlers, NEW pc \in Pcs, NEW d \in Disks \union {None}, Quiet(s, pc, d)
      PROVE  CallersStay'
  BY <1>5 DEF Quiet, Moves, CallersStay
<1>6. ASSUME NEW d \in Disks, TaskResult(d) PROVE CallersStay'
  BY <1>6 DEF TaskResult, TaskEnds, CallersStay
<1>7. ASSUME Restarts PROVE CallersStay'
  BY <1>7 DEF Restarts, Idle, CallersStay
<1>8. QED
  BY <1>0, <1>1, <1>2, <1>3, <1>4, <1>5, <1>6, <1>7, StepKinds

LEMMA StepNoRdeNoList ==
    ASSUME CallsInv, NoRdeNoList, [Next]_vars
    PROVE  NoRdeNoList'
<1>0. TypeInv /\ LockHeld
  BY DEF CallsInv
<1>1. UNCHANGED rde => NoRdeNoList'
  BY DEF NoRdeNoList
<1>2. ASSUME NEW s \in Handlers, NEW op \in Ops, NEW n \in Names, NEW v \in Vms \union {None},
             Begins(s, op, n, v)
      PROVE  UNCHANGED rde
  BY <1>2 DEF Begins
<1>3. ASSUME NEW s \in Handlers, GivesUp(s) \/ Answers(s) \/ Submits(s) PROVE UNCHANGED rde
  BY <1>3 DEF GivesUp, Answers, Submits
<1>4. ASSUME NEW s \in Handlers, NEW pc \in Pcs, NEW d \in Disks \union {None}, Quiet(s, pc, d)
      PROVE  NoRdeNoList'
  BY <1>1, <1>4 DEF Quiet, Learned, TaskSeen, NoRdeNoList
<1>5. ASSUME NEW d \in Disks, TaskResult(d) PROVE UNCHANGED rde
  BY <1>5 DEF TaskResult, TaskEnds
<1>6. UNCHANGED vars \/ Restarts => UNCHANGED rde
  BY DEF vars, Restarts
<1>7. QED
  BY <1>0, <1>1, <1>2, <1>3, <1>4, <1>5, <1>6, StepKinds

(* While a handler that holds the lock does something else, no disk is     *)
(* waited for.                                                             *)
LEMMA NothingAwaited ==
    ASSUME LockHeld, NEW s \in Handlers, h[s].pc \in Critical \ {"wait", "rde"},
           NEW d, NEW op
    PROVE  ~Awaited(d, op)
BY DEF LockHeld, Awaited, Critical

UnlistedRest == ListedIsThere /\ DeleteUnlisted /\ DeletedIsNotInRde

(* UnlistedRest after a step, in parts.                                    *)
LEMMA UnlistedParts ==
    ASSUME \A d \in rde' : /\ disks'[d].name = disks[d].name
                           /\ disks'[d].st = "ready" \/ Awaited(d, "delete")',
           \A t \in Handlers : h'[t].op = "delete" /\ h'[t].pc = "ok" =>
               \A d \in rde' : disks[d].name # h'[t].name,
           \A n \in Names : vol'[n] = "deleted" => \A d \in rde' : disks[d].name # n
    PROVE  UnlistedRest'
BY DEF UnlistedRest, ListedIsThere, DeleteUnlisted, DeletedIsNotInRde, At

(* A handler that stays out of the way takes no wait off the others.       *)
LEMMA AwaitedStays ==
    ASSUME NEW s \in Handlers, h[s].pc \notin {"wait", "rde"},
           \A t \in Handlers : t # s => h'[t] = h[t]
    PROVE  \A d, op : Awaited(d, op) => Awaited(d, op)'
BY DEF Awaited

LEMMA SubmitsKeepsUnlisted ==
    ASSUME UnlistedInv, NEW s \in Handlers, Submits(s)
    PROVE  UnlistedRest'
<1>0. /\ CallsInv /\ TypeInv /\ LockHeld /\ rde \subseteq Disks
      /\ ListedIsThere /\ DeleteUnlisted /\ DeletedIsNotInRde
  BY DEF UnlistedInv, CreatedInv, CallsInv, TypeInv, TypeOK
<1>1. /\ h[s].pc = "submit" /\ h'[s].pc \in {"wait", "fail"} /\ UNCHANGED <<rde, vol>>
      /\ \A t \in Handlers : t # s => h'[t] = h[t]
  BY <1>0, SubmitKinds DEF Submitted
<1>2. \A d \in rde : disks[d].st = "ready"
  BY <1>0, <1>1, NothingAwaited DEF ListedIsThere, Critical
<1>3. \A d \in rde : disks'[d].name = disks[d].name /\ disks'[d].st = "ready"
  BY <1>0, <1>2, SubmitKinds DEF MadeBy, StartedOn
<1>4. QED
  BY <1>0, <1>1, <1>3, UnlistedParts DEF DeleteUnlisted, DeletedIsNotInRde, At

LEMMA TaskKeepsUnlisted ==
    ASSUME UnlistedInv, NEW d \in Disks, TaskResult(d)
    PROVE  UnlistedRest'
<1>0. /\ CallsInv /\ TypeInv /\ rde \subseteq Disks /\ UNCHANGED <<h, rde, vol>> /\ Lives(d)
      /\ ListedIsThere /\ DeleteUnlisted /\ DeletedIsNotInRde /\ TasksAreAwaited /\ Running(d)
  BY DEF UnlistedInv, CreatedInv, SharingInv, CallsInv, TypeInv, TypeOK, TaskResult, TaskEnds,
         DisksLive
<1>1. \A e \in Disks : disks'[e].name = disks[e].name /\ (e # d => disks'[e] = disks[e])
  BY <1>0, EndedLives
<1>2. \A e : Awaited(e, "delete") => Awaited(e, "delete")'
  BY <1>0 DEF Awaited
<1>3. ASSUME disks[d].st = "ready" PROVE disks'[d].st = "ready" \/ Awaited(d, "delete")
  <2>1. CASE disks[d].task.kind = "delete"
    BY <1>0, <2>1 DEF TasksAreAwaited, CallsInv, OwnTask, Awaited
  <2>2. CASE disks[d].task.kind # "delete"
    <3>1. disks[d].task.kind # "create" /\ disks[d].task.kind \in TaskKinds
      BY <1>0, <1>3 DEF Lives, Ended, Running, TaskResult, Task
    <3>2. QED
      BY <1>3, <2>2, <3>1 DEF TaskResult, Does, DoesNot, TaskKinds
  <2>3. QED
    BY <2>1, <2>2
<1>4. \A e \in rde : disks'[e].st = "ready" \/ Awaited(e, "delete")'
  BY <1>0, <1>1, <1>2, <1>3 DEF ListedIsThere
<1>5. QED
  BY <1>0, <1>1, <1>4, UnlistedParts DEF DeleteUnlisted, DeletedIsNotInRde, At

LEMMA QuietKeepsUnlisted ==
    ASSUME RdeIsHeard, SeesTasksThrough, LookupsAnswer, UnlistedInv, NEW s \in Handlers,
           NEW pc \in Pcs, NEW d \in Disks \union {None}, Quiet(s, pc, d)
    PROVE  UnlistedRest'
<1>0. /\ CallsInv /\ TypeInv /\ LockHeld /\ rde \subseteq Disks /\ rde' \subseteq Disks
      /\ ListedIsThere /\ DeleteUnlisted /\ DeletedIsNotInRde /\ NameInv
      /\ \A t \in Handlers : h[t].pc # "idle" => Waiting(t) /\ h[t].name \in Names
      /\ ~May("wait") /\ {"lost", "rde", "rdeSilent"} \intersect Faults = {}
  BY DEF UnlistedInv, CreatedInv, CallsInv, TypeInv, TypeOK, WellFormed, CallersKnown, CallersStay,
         Waiting, Quiet, RdeIsHeard, SeesTasksThrough, May
<1>1. /\ UNCHANGED <<disks, vol>> /\ \A t \in Handlers : t # s => h'[t] = h[t]
      /\ h'[s].pc = pc /\ h'[s].op = h[s].op /\ h'[s].name = h[s].name /\ h'[s].disk = d
      /\ h[s].pc # "idle"
  BY DEF Quiet, Moves
<1>2. CASE h[s].pc # "rde"
  <2>1. rde' = rde
    BY <1>2, RdeMoves, <1>0
  <2>2. ASSUME NEW e \in rde PROVE disks[e].st = "ready" \/ Awaited(e, "delete")'
    <3>1. CASE h[s].pc # "wait"
      BY <1>0, <1>1, <1>2, <3>1, AwaitedStays DEF ListedIsThere
    <3>2. CASE h[s].pc = "wait" /\ ~(h[s].op = "delete" /\ h[s].disk = e)
      BY <1>0, <1>1, <3>2 DEF ListedIsThere, Awaited
    <3>3. CASE h[s].pc = "wait" /\ h[s].op = "delete" /\ h[s].disk = e
      <4>1. (pc = "rde" /\ d = e) \/ disks[e].st = "ready"
        BY <1>0, <3>3, AwaitedMoves
      <4>2. QED
        BY <1>1, <3>3, <4>1 DEF Awaited
    <3>4. QED
      BY <3>1, <3>2, <3>3
  <2>3. ASSUME h[s].op = "delete", pc = "ok", NEW e \in rde, disks[e].name = h[s].name
        PROVE  FALSE
    <3>1. h[s].pc = "lookup" /\ NotFound \in LookupResults(h[s].name)
      BY <1>2, <2>3 DEF Quiet, Learned, AnswerKnown
    <3>2. Named(h[s].name) = {}
      BY <1>0, <1>1, <3>1, NotFoundMeansNone DEF NameInv
    <3>3. disks[e].st = "ready"
      BY <1>0, <2>3, <3>1, NothingAwaited DEF ListedIsThere, Critical
    <3>4. QED
      BY <1>0, <2>3, <3>2, <3>3 DEF Named, Exists
  <2>4. QED
    BY <1>0, <1>1, <2>1, <2>2, <2>3, UnlistedParts DEF DeleteUnlisted, DeletedIsNotInRde, At
<1>3. CASE h[s].pc = "rde"
  <2>0. /\ pc = "ok" /\ d = h[s].disk
        /\ RdeKind = "none" \/ Adds(s) \/ Removes(s)
    BY <1>0, <1>3, RdeIsLeft
  <2>1. \A e : Awaited(e, "delete") /\ ~(h[s].op = "delete" /\ h[s].disk = e) =>
                  Awaited(e, "delete")'
    BY <1>1 DEF Awaited
  <2>2. CASE RdeKind = "none"
    <3>1. rde = {} /\ rde' = {}
      BY <1>0, <1>3, <2>2 DEF UnlistedInv, NoRdeNoList, Quiet, Learned, TaskSeen
    <3>2. QED
      BY <3>1, UnlistedParts
  <2>3. CASE Adds(s)
    <3>1. vol[h[s].name] = "creating"
      BY <1>0, <1>1, <2>3 DEF Adds, CallsInv, Told
    <3>2. /\ disks[h[s].disk].st = "ready" /\ disks[h[s].disk].name = h[s].name
      BY <1>3, <2>3, <3>1 DEF Adds, UnlistedInv, CreatedInv, CreateDone, Leaving, Named
    <3>3. \A e \in rde' : disks[e].st = "ready" \/ Awaited(e, "delete")'
      BY <1>0, <2>1, <2>3, <3>2 DEF Adds, ListedIsThere
    <3>4. ASSUME NEW t \in Handlers, t # s, h[t].op = "delete", h[t].pc = "ok"
          PROVE  h[t].name # h[s].name
      BY <1>0, <1>1, <2>3, <3>4 DEF Adds, CallsInv, Serial, CallersKnown, SameTarget
    <3>5. \A t \in Handlers : h'[t].op = "delete" /\ h'[t].pc = "ok" =>
              \A e \in rde' : disks[e].name # h'[t].name
      BY <1>0, <1>1, <2>3, <3>2, <3>4 DEF Adds, DeleteUnlisted, At
    <3>6. \A n \in Names : vol'[n] = "deleted" => \A e \in rde' : disks[e].name # n
      BY <1>0, <1>1, <2>3, <3>1, <3>2 DEF Adds, DeletedIsNotInRde
    <3>7. QED
      BY <1>1, <3>3, <3>5, <3>6, UnlistedParts
  <2>4. CASE Removes(s)
    <3>1. \A e \in rde' : disks[e].st = "ready" \/ Awaited(e, "delete")'
      BY <1>0, <2>1, <2>4 DEF Removes, ListedIsThere
    <3>2. ASSUME NEW e \in rde', disks[e].name = h[s].name PROVE FALSE
      <4>1. e # h[s].disk /\ e \in rde /\ h[s].op = "delete"
        BY <2>4, <3>2 DEF Removes
      <4>2. disks[e].st = "ready"
        BY <1>0, <1>3, <4>1 DEF ListedIsThere, Awaited, LockHeld, Critical
      <4>3. e \in Named(h[s].name)
        BY <1>0, <3>2, <4>1, <4>2 DEF Named, Exists
      <4>4. QED
        BY <1>3, <4>1, <4>3 DEF UnlistedInv, OnlyDisk
    <3>3. \A t \in Handlers : h'[t].op = "delete" /\ h'[t].pc = "ok" =>
              \A e \in rde' : disks[e].name # h'[t].name
      BY <1>0, <1>1, <2>4, <3>2 DEF Removes, DeleteUnlisted, At
    <3>4. \A n \in Names : vol'[n] = "deleted" => \A e \in rde' : disks[e].name # n
      BY <1>0, <1>1, <2>4 DEF Removes, DeletedIsNotInRde
    <3>5. QED
      BY <1>1, <3>1, <3>3, <3>4, UnlistedParts
  <2>5. QED
    BY <2>0, <2>2, <2>3, <2>4
<1>4. QED
  BY <1>2, <1>3

LEMMA StepUnlistedInv ==
    ASSUME RdeIsHeard, SeesTasksThrough, LookupsAnswer, UnlistedInv, [Next]_vars
    PROVE  UnlistedInv'
<1>0. /\ CallsInv /\ TypeInv /\ LockHeld
      /\ ListedIsThere /\ DeleteUnlisted /\ DeletedIsNotInRde
      /\ ~May("timeout") /\ ~May("crash")
      /\ \A t \in Handlers : h[t].pc # "idle" => h[t].op \in Ops /\ h[t].name \in Names
  BY DEF UnlistedInv, CreatedInv, CallsInv, TypeInv, WellFormed, RdeIsHeard, SeesTasksThrough, May
<1>1. CASE UNCHANGED vars
  <2>1. UNCHANGED <<disks, rde, h, vol>>
    BY <1>1 DEF vars
  <2>2. \A d : Awaited(d, "delete") => Awaited(d, "delete")'
    BY <2>1 DEF Awaited
  <2>3. UnlistedRest'
    BY <1>0, <2>1, <2>2, UnlistedParts DEF ListedIsThere, DeleteUnlisted, DeletedIsNotInRde, At
  <2>4. QED
    BY <2>3, <1>0, StepCreatedInv, StepNameInv, StepOnlyDisk, StepCallersStay, StepNoRdeNoList
       DEF UnlistedInv, UnlistedRest
<1>2. ASSUME NEW s \in Handlers, NEW op \in Ops, NEW n \in Names, NEW v \in Vms \union {None},
             Begins(s, op, n, v)
      PROVE  UnlistedRest'
  <2>1. /\ UNCHANGED <<disks, rde>> /\ h'[s].pc \in {"lock", "find"} /\ h[s].pc = "idle"
        /\ \A t \in Handlers : t # s => h'[t] = h[t]
    BY <1>2 DEF Begins, Others, Idle
  <2>2. \A m \in Names : vol'[m] = "deleted" => vol[m] = "deleted"
    BY <1>2 DEF Begins, SetsVol, SetsAtt, Ops
  <2>3. QED
    BY <1>0, <2>1, <2>2, AwaitedStays, UnlistedParts
       DEF ListedIsThere, DeleteUnlisted, DeletedIsNotInRde, At
<1>3. ASSUME NEW s \in Handlers, Answers(s) PROVE UnlistedRest'
  <2>1. /\ UNCHANGED <<disks, rde>> /\ h'[s].op = "none" /\ h[s].pc \in {"ok", "fail"}
        /\ \A t \in Handlers : t # s => h'[t] = h[t]
    BY <1>3 DEF Answers, Others, Idle
  <2>2. \A m \in Names : vol'[m] = "deleted" /\ vol[m] # "deleted" =>
            At(s, "delete", "ok") /\ m = h[s].name
    BY <1>0, <1>3, <2>1 DEF Answers, SetsVol, SetsAtt, Ops, At
  <2>3. QED
    BY <1>0, <2>1, <2>2, AwaitedStays, UnlistedParts
       DEF ListedIsThere, DeleteUnlisted, DeletedIsNotInRde, At
<1>4. ASSUME NEW s \in Handlers, Submits(s) PROVE UnlistedRest'
  BY <1>4, SubmitsKeepsUnlisted
<1>5. ASSUME NEW s \in Handlers, NEW pc \in Pcs, NEW d \in Disks \union {None}, Quiet(s, pc, d)
      PROVE  UnlistedRest'
  BY <1>5, QuietKeepsUnlisted
<1>6. ASSUME NEW d \in Disks, TaskResult(d) PROVE UnlistedRest'
  BY <1>6, TaskKeepsUnlisted
<1>7. \A s \in Handlers : ~GivesUp(s) /\ ~Restarts
  BY <1>0 DEF GivesUp, Restarts
<1>8. UnlistedRest' \/ UNCHANGED vars
  BY <1>0, <1>2, <1>3, <1>4, <1>5, <1>6, <1>7, StepKinds DEF Restarts
<1>9. QED
  BY <1>0, <1>1, <1>8, StepCreatedInv, StepNameInv, StepOnlyDisk, StepCallersStay, StepNoRdeNoList
     DEF UnlistedInv, UnlistedRest

(* When the driver sees its tasks and updates through, its lookups answer  *)
(* and callers wait, the RDE lists no disk of a volume acknowledged to be  *)
(* deleted: on a CAPVCD cluster the entries go by name, on a native one by *)
(* the id of the only disk of the name.                                    *)
THEOREM DeletedLeavesRde ==
    ASSUME RdeIsHeard, SeesTasksThrough, LookupsAnswer
    PROVE  Spec => []DeletedIsNotInRde
<1>1. UnlistedInv /\ [Next]_vars => UnlistedInv'
  BY StepUnlistedInv
<1>2. UnlistedInv => DeletedIsNotInRde
  BY DEF UnlistedInv
<1>3. Init => UnlistedInv
  <2> SUFFICES ASSUME Init PROVE UnlistedInv
    OBVIOUS
  <2>1. \A s \in Handlers : h[s].pc = "idle" /\ h[s].op = "none" /\ h[s].caller = "none"
    BY DEF Init, Idle
  <2>2. OnlyDisk /\ CallersStay /\ DeleteUnlisted
    BY <2>1 DEF OnlyDisk, CallersStay, DeleteUnlisted, At
  <2>3. NoRdeNoList /\ ListedIsThere /\ DeletedIsNotInRde
    BY DEF Init, NoRdeNoList, ListedIsThere, DeletedIsNotInRde
  <2>4. QED
    BY <2>2, <2>3, InitCreatedInv, InitNameInv DEF UnlistedInv
<1>4. QED
  BY <1>1, <1>2, <1>3, PTL DEF Spec

(***************************************************************************)
(* The disks of created volumes.                                           *)
(***************************************************************************)
ListedRest == ThereIsListed /\ CreateListed /\ CreatedIsInRde

(* A volume whose deletion was asked for loses its claim to the list.      *)
LEMMA ListedParts ==
    ASSUME CallsInv, [Next]_vars,
           RdeKind # "none" =>
               /\ \A d \in Disks :
                     Exists(d)' /\ disks'[d].name \notin Static =>
                         \/ d \in rde' \/ Awaited(d, "create")'
                         \/ disks'[d].name \in Names /\ Leaving(disks'[d].name)
               /\ \A t \in Handlers :
                     h'[t].op = "create" /\ h'[t].pc = "ok" /\ h'[t].name \notin Static =>
                         /\ h'[t].name \in Names
                         /\ \A n \in Names : n = h'[t].name =>
                               Leaving(n) \/ Named(n)' \subseteq rde'
               /\ \A n \in Names \ Static :
                     vol'[n] = "created" => Leaving(n) \/ Named(n)' \subseteq rde'
    PROVE  ListedRest'
<1>1. \A n \in Names : Leaving(n) => Leaving(n)'
  BY LeavingStays
<1>2. \A n \in Names : Leaving(n) => vol'[n] \in {"deleting", "deleted"}
  BY <1>1 DEF Leaving
<1>3. ThereIsListed'
  BY <1>2 DEF ThereIsListed, Leaving
<1>4. CreateListed'
  <2>1. ASSUME RdeKind # "none", NEW t \in Handlers, h'[t].op = "create", h'[t].pc = "ok",
               h'[t].name \notin Static
        PROVE  \/ vol'[h'[t].name] \in {"deleting", "deleted"}
               \/ \A d \in Disks : Exists(d)' /\ disks'[d].name = h'[t].name => d \in rde'
    BY <1>2, <2>1 DEF Named
  <2>2. QED
    BY <2>1 DEF CreateListed, At, Leaving, Named
<1>5. CreatedIsInRde'
  BY <1>2 DEF CreatedIsInRde
<1>6. QED
  BY <1>3, <1>4, <1>5 DEF ListedRest

LEMMA SubmitsKeepsListed ==
    ASSUME ~May("lost"), ListedInv, NEW s \in Handlers, Submits(s), [Next]_vars
    PROVE  ListedRest'
<1>0. /\ CallsInv /\ TypeInv /\ LockHeld /\ NoDiskYet
      /\ ThereIsListed /\ CreateListed /\ CreatedIsInRde /\ DisksLive
      /\ \A t \in Handlers : h[t].pc # "idle" => h[t].name \in Names
  BY DEF ListedInv, CreatedInv, NameInv, CallsInv, TypeInv, WellFormed
<1>1. /\ h[s].pc = "submit" /\ h'[s].pc \in {"wait", "fail"} /\ UNCHANGED <<rde, vol>>
      /\ h'[s].op = h[s].op /\ h'[s].name = h[s].name
      /\ \A t \in Handlers : t # s => h'[t] = h[t]
  BY <1>0, SubmitKinds DEF Submitted
<1>2. \A d, op : ~Awaited(d, op)
  BY <1>0, <1>1, NothingAwaited DEF Critical
<1>3. ASSUME \A d \in Disks : Exists(d)' = Exists(d) /\ disks'[d].name = disks[d].name
      PROVE  ListedRest'
  <2>1. \A n \in Names : Named(n)' = Named(n)
    BY <1>3 DEF Named
  <2>2. \A d \in Disks : Exists(d) => disks[d].name \in Names
    BY <1>0 DEF DisksLive, Lives
  <2>3. QED
    BY <1>0, <1>1, <1>2, <1>3, <2>1, <2>2, ListedParts
       DEF ThereIsListed, CreateListed, CreatedIsInRde, At
<1>4. ASSUME NEW d \in Disks, MadeBy(s, d) PROVE ListedRest'
  <2>1. /\ h[s].op = "create" /\ disks'[d].name = h[s].name /\ disks[d].st = "free"
        /\ \A e \in Disks : e # d => disks'[e] = disks[e]
    BY <1>4 DEF MadeBy, NewDisk
  <2>2. h'[s].pc = "wait"
    <3>1. disks' # disks
      BY <1>4 DEF MadeBy, NewDisk
    <3>2. QED
      BY <2>1, <3>1 DEF Submits, Refused, Creates, Starts, Sent, Moves
  <2>3. Awaited(d, "create")'
    BY <1>1, <1>4, <2>1, <2>2 DEF Awaited, MadeBy
  <2>4. Named(h[s].name) = {} /\ h[s].name \in Names
    BY <1>0, <1>1, <2>1 DEF NoDiskYet, At
  <2>5. vol[h[s].name] # "created"
    BY <2>4 DEF ListedInv, CreatedInv, CreatedIsReady
  <2>6. ASSUME NEW t \in Handlers, h[t].op = "create", h[t].pc = "ok", h[t].name = h[s].name
        PROVE  Leaving(h[s].name)
    BY <2>4, <2>6 DEF ListedInv, CreatedInv, CreateDone
  <2>7. \A n \in Names : n # h[s].name => Named(n)' = Named(n)
    BY <1>0, <1>4, NamedMoves
  <2>8. \A e \in Disks : e # d => /\ Exists(e)' = Exists(e)
                                  /\ Exists(e) => disks[e].name \in Names
    BY <1>0, <2>1 DEF Exists, DisksLive, Lives
  <2>9. \A e \in Disks : Exists(e)' /\ disks'[e].name \notin Static /\ RdeKind # "none" =>
                         \/ e \in rde' \/ Awaited(e, "create")'
                         \/ disks'[e].name \in Names /\ Leaving(disks'[e].name)
    BY <1>0, <1>1, <1>2, <2>1, <2>3, <2>8 DEF ThereIsListed
  <2>10. ASSUME RdeKind # "none", NEW t \in Handlers, h'[t].op = "create", h'[t].pc = "ok",
                h'[t].name \notin Static
         PROVE  /\ h'[t].name \in Names
                /\ \A n \in Names : n = h'[t].name => Leaving(n) \/ Named(n)' \subseteq rde'
    <3>1. t # s /\ h'[t] = h[t] /\ h[t].name \in Names
      BY <1>0, <1>1, <2>10
    <3>2. CASE h[t].name = h[s].name
      BY <2>6, <2>10, <3>1, <3>2
    <3>3. CASE h[t].name # h[s].name
      BY <1>0, <1>1, <2>7, <2>10, <3>1, <3>3 DEF CreateListed, At
    <3>4. QED
      BY <3>2, <3>3
  <2>11. \A n \in Names \ Static : RdeKind # "none" /\ vol'[n] = "created" => Named(n)' \subseteq rde'
    BY <1>0, <1>1, <2>5, <2>7 DEF CreatedIsInRde
  <2>12. QED
    BY <1>0, <2>9, <2>10, <2>11, ListedParts
<1>5. ASSUME NEW d \in Disks, NEW kind \in {"delete", "attach", "detach"}, StartedOn(s, d, kind)
      PROVE  ListedRest'
  BY <1>3, <1>5 DEF StartedOn, Exists
<1>6. QED
  BY <1>0, <1>3, <1>4, <1>5, SubmitKinds DEF Exists

LEMMA TaskKeepsListed ==
    ASSUME ListedInv, NEW d \in Disks, TaskResult(d), [Next]_vars
    PROVE  ListedRest'
<1>0. /\ CallsInv /\ UNCHANGED <<h, rde, vol>>
      /\ ThereIsListed /\ CreateListed /\ CreatedIsInRde /\ DisksLive
      /\ \A t \in Handlers : h[t].pc # "idle" => h[t].name \in Names
  BY DEF ListedInv, CreatedInv, CallsInv, TypeInv, WellFormed, TaskResult, TaskEnds
<1>1. \A n \in Names : Named(n)' \subseteq Named(n)
  BY <1>0, NamedMoves
<1>2. \A e \in Disks : /\ disks'[e].name = disks[e].name
                       /\ Exists(e)' => Exists(e) /\ disks[e].name \in Names
  BY <1>0, EndedLives DEF DisksLive, Lives
<1>3. \A e, op : Awaited(e, op)' = Awaited(e, op)
  BY <1>0 DEF Awaited
<1>4. QED
  BY <1>0, <1>1, <1>2, <1>3, ListedParts DEF ThereIsListed, CreateListed, CreatedIsInRde, At

LEMMA QuietKeepsListed ==
    ASSUME RdeIsWritten, ListedInv, NEW s \in Handlers, NEW pc \in Pcs,
           NEW d \in Disks \union {None}, Quiet(s, pc, d), [Next]_vars
    PROVE  ListedRest'
<1>0. /\ CallsInv /\ TypeInv /\ LockHeld /\ DisksLive /\ OneDiskPerName
      /\ ThereIsListed /\ CreateListed /\ CreatedIsInRde /\ CreateDone
      /\ \A t \in Handlers : h[t].pc # "idle" => h[t].name \in Names
      /\ ~May("wait") /\ ~May("api") /\ {"lost", "rde", "rdeSilent"} \intersect Faults = {}
  BY DEF ListedInv, CreatedInv, NameInv, CallsInv, TypeInv, WellFormed, RdeIsWritten, May
<1>1. /\ UNCHANGED <<disks, vol>> /\ \A t \in Handlers : t # s => h'[t] = h[t]
      /\ h'[s].pc = pc /\ h'[s].op = h[s].op /\ h'[s].name = h[s].name /\ h'[s].disk = d
      /\ h[s].pc # "idle"
  BY DEF Quiet, Moves
<1>2. /\ \A n \in Names : Named(n)' = Named(n)
      /\ \A e \in Disks : /\ Exists(e)' = Exists(e)
                          /\ Exists(e) => disks[e].name \in Names
  BY <1>0, <1>1, SameDisks DEF DisksLive, Lives
<1>3. ASSUME RdeKind # "none",
             \A e \in Disks : Exists(e) /\ disks[e].name \notin Static =>
                 e \in rde' \/ Awaited(e, "create")' \/ Leaving(disks[e].name),
             h[s].op = "create" /\ pc = "ok" /\ h[s].name \notin Static =>
                 Leaving(h[s].name) \/ Named(h[s].name) \subseteq rde',
             \A e \in rde : e \in rde' \/ Leaving(disks[e].name)
      PROVE  ListedRest'
  <2>1. \A n \in Names : Named(n) \subseteq rde => Leaving(n) \/ Named(n) \subseteq rde'
    BY <1>3 DEF Named
  <2>2. \A n \in Names \ Static : vol'[n] = "created" => Leaving(n) \/ Named(n)' \subseteq rde'
    BY <1>0, <1>1, <1>2, <1>3, <2>1 DEF CreatedIsInRde
  <2>3. ASSUME NEW t \in Handlers, h'[t].op = "create", h'[t].pc = "ok", h'[t].name \notin Static
        PROVE  /\ h'[t].name \in Names
               /\ \A n \in Names : n = h'[t].name => Leaving(n) \/ Named(n)' \subseteq rde'
    <3>1. CASE t = s
      BY <1>0, <1>1, <1>2, <1>3, <2>3, <3>1
    <3>2. CASE t # s
      BY <1>0, <1>1, <1>2, <1>3, <2>1, <2>3, <3>2 DEF CreateListed, At
    <3>3. QED
      BY <3>1, <3>2
  <2>4. QED
    BY <1>0, <1>1, <1>2, <1>3, <2>2, <2>3, ListedParts
<1>4. CASE h[s].pc # "rde"
  <2>1. rde' = rde
    BY <1>0, <1>4, RdeMoves
  <2>2. ASSUME NEW e \in Disks, Exists(e), Awaited(e, "create") PROVE Awaited(e, "create")'
    <3>1. CASE h[s].pc # "wait"
      BY <1>1, <1>4, <2>2, <3>1, AwaitedStays
    <3>2. CASE h[s].pc = "wait" /\ ~(h[s].op = "create" /\ h[s].disk = e)
      BY <1>1, <2>2, <3>2 DEF Awaited
    <3>3. CASE h[s].pc = "wait" /\ h[s].op = "create" /\ h[s].disk = e
      <4>1. pc = "rde" /\ d = e
        BY <1>0, <2>2, <3>3, AwaitedMoves
      <4>2. QED
        BY <1>1, <3>3, <4>1 DEF Awaited
    <3>4. QED
      BY <3>1, <3>2, <3>3
  <2>3. ASSUME RdeKind # "none", h[s].op = "create", pc = "ok", h[s].name \notin Static,
               ~Leaving(h[s].name)
        PROVE  Named(h[s].name) \subseteq rde
    <3>1. h[s].pc = "lookup" /\ d \in Named(h[s].name)
      BY <1>4, <2>3 DEF Quiet, Learned, AnswerKnown
    <3>2. d \in rde
      BY <1>0, <2>3, <3>1, NothingAwaited DEF ThereIsListed, Named, Critical
    <3>3. QED
      BY <1>0, <1>1, <3>1, <3>2 DEF OneDiskPerName
  <2>4. QED
    <3>1. CASE RdeKind = "none"
      BY <1>0, <3>1, ListedParts
    <3>2. CASE RdeKind # "none"
      BY <1>0, <1>3, <2>1, <2>2, <2>3, <3>2 DEF ThereIsListed
    <3>3. QED
      BY <3>1, <3>2
<1>5. CASE h[s].pc = "rde" /\ RdeKind # "none"
  <2>1. pc = "ok" /\ d = h[s].disk /\ (Adds(s) \/ Removes(s))
    BY <1>0, <1>5, RdeIsLeft
  <2>2. \A e : Awaited(e, "create") /\ ~(h[s].op = "create" /\ h[s].disk = e) =>
                  Awaited(e, "create")'
    BY <1>1 DEF Awaited
  <2>3. CASE Adds(s)
    <3>1. ASSUME ~Leaving(h[s].name) PROVE Named(h[s].name) \subseteq rde'
      <4>1. h[s].disk \in Named(h[s].name) /\ h[s].disk \in rde'
        BY <1>0, <1>5, <2>3, <3>1 DEF Adds, CreateDone
      <4>2. QED
        BY <1>0, <1>1, <4>1 DEF OneDiskPerName
    <3>2. \A e \in Disks : Exists(e) /\ disks[e].name \notin Static =>
                 e \in rde' \/ Awaited(e, "create")' \/ Leaving(disks[e].name)
      BY <1>0, <1>5, <2>2, <2>3 DEF Adds, ThereIsListed
    <3>3. QED
      BY <1>3, <1>5, <2>3, <3>1, <3>2 DEF Adds
  <2>4. CASE Removes(s)
    <3>1. Leaving(h[s].name)
      BY <1>0, <2>4 DEF Removes, CallsInv, DeleteAsked
    <3>2. \A e \in rde : e \in rde' \/ Leaving(disks[e].name)
      BY <2>4, <3>1 DEF Removes
    <3>3. \A e \in Disks : Exists(e) /\ disks[e].name \notin Static =>
                 e \in rde' \/ Awaited(e, "create")' \/ Leaving(disks[e].name)
      BY <1>0, <1>5, <2>2, <2>4, <3>2 DEF Removes, ThereIsListed
    <3>4. QED
      BY <1>3, <1>5, <2>4, <3>2, <3>3 DEF Removes
  <2>5. QED
    BY <2>1, <2>3, <2>4
<1>6. CASE RdeKind = "none"
  BY <1>0, <1>6, ListedParts
<1>7. QED
  BY <1>4, <1>5, <1>6

LEMMA StepListedInv ==
    ASSUME RdeIsWritten, ListedInv, [Next]_vars
    PROVE  ListedInv'
<1>0. /\ CallsInv /\ TypeInv /\ LockHeld /\ DisksLive
      /\ ThereIsListed /\ CreateListed /\ CreatedIsInRde
      /\ ~May("lost") /\ ~May("crash") /\ SeesTasksThrough /\ LookupsAnswer
      /\ \A t \in Handlers : h[t].pc # "idle" => h[t].op \in Ops /\ h[t].name \in Names
  BY DEF ListedInv, CreatedInv, CallsInv, TypeInv, WellFormed, RdeIsWritten, SeesTasksThrough,
         LookupsAnswer, May
<1>1. CreatedInv' /\ NameInv'
  BY <1>0, StepCreatedInv, StepNameInv DEF ListedInv
<1>2. ASSUME UNCHANGED <<disks, rde>>,
             \A e : Awaited(e, "create") => Awaited(e, "create")',
             \A t \in Handlers : h'[t].op = "create" /\ h'[t].pc = "ok" =>
                 \E u \in Handlers : At(u, "create", "ok") /\ h'[t].name = h[u].name,
             \A n \in Names : vol'[n] = "created" =>
                 \/ vol[n] = "created"
                 \/ \E u \in Handlers : At(u, "create", "ok") /\ n = h[u].name
      PROVE  ListedRest'
  <2>1. /\ \A n \in Names : Named(n)' = Named(n)
        /\ \A e \in Disks : /\ Exists(e)' = Exists(e)
                            /\ Exists(e) => disks[e].name \in Names
    BY <1>0, <1>2, SameDisks DEF DisksLive, Lives
  <2>2. ASSUME RdeKind # "none", NEW t \in Handlers, h'[t].op = "create", h'[t].pc = "ok",
               h'[t].name \notin Static
        PROVE  /\ h'[t].name \in Names
               /\ \A n \in Names : n = h'[t].name => Leaving(n) \/ Named(n)' \subseteq rde'
    <3>1. PICK u \in Handlers : At(u, "create", "ok") /\ h'[t].name = h[u].name
      BY <1>2, <2>2
    <3>2. QED
      BY <1>0, <1>2, <2>1, <2>2, <3>1 DEF CreateListed, At
  <2>3. ASSUME RdeKind # "none", NEW n \in Names \ Static, vol'[n] = "created"
        PROVE  Leaving(n) \/ Named(n)' \subseteq rde'
    <3>1. CASE vol[n] = "created"
      BY <1>0, <1>2, <2>1, <2>3, <3>1 DEF CreatedIsInRde
    <3>2. ASSUME NEW u \in Handlers, At(u, "create", "ok"), n = h[u].name
          PROVE  Leaving(n) \/ Named(n)' \subseteq rde'
      BY <1>0, <1>2, <2>1, <2>3, <3>2 DEF CreateListed
    <3>3. QED
      BY <1>2, <2>3, <3>1, <3>2
  <2>4. QED
    BY <1>0, <1>2, <2>1, <2>2, <2>3, ListedParts DEF ThereIsListed
<1>3. ASSUME UNCHANGED vars PROVE ListedRest'
  <2>1. UNCHANGED <<disks, rde>> /\ h' = h /\ \A n \in Names : vol'[n] = vol[n]
    BY <1>3 DEF vars
  <2>2. \A e : Awaited(e, "create") => Awaited(e, "create")'
    BY <2>1 DEF Awaited
  <2>3. \A t \in Handlers : h'[t].op = "create" /\ h'[t].pc = "ok" =>
            At(t, "create", "ok") /\ h'[t].name = h[t].name
    BY <2>1 DEF At
  <2>4. QED
    BY <1>2, <2>1, <2>2, <2>3
<1>4. ASSUME NEW s \in Handlers, NEW op \in Ops, NEW n \in Names, NEW v \in Vms \union {None},
             Begins(s, op, n, v)
      PROVE  ListedRest'
  <2>1. /\ UNCHANGED <<disks, rde>> /\ h'[s].pc \in {"lock", "find"} /\ h[s].pc = "idle"
        /\ \A t \in Handlers : t # s => h'[t] = h[t]
    BY <1>4 DEF Begins, Others, Idle
  <2>2. \A m \in Names : vol'[m] = "created" => vol[m] = "created"
    BY <1>4 DEF Begins, SetsVol, SetsAtt, Ops
  <2>3. \A t \in Handlers : h'[t].op = "create" /\ h'[t].pc = "ok" =>
            At(t, "create", "ok") /\ h'[t].name = h[t].name
    BY <2>1 DEF At
  <2>4. QED
    BY <1>2, <2>1, <2>2, <2>3, AwaitedStays
<1>5. ASSUME NEW s \in Handlers, GivesUp(s) PROVE ListedRest'
  <2>1. /\ UNCHANGED <<disks, rde, vol>>
        /\ \A t \in Handlers : /\ h'[t].pc = h[t].pc /\ h'[t].op = h[t].op
                               /\ h'[t].disk = h[t].disk /\ h'[t].name = h[t].name
    BY <1>5 DEF GivesUp, Others
  <2>2. QED
    BY <1>2, <2>1 DEF Awaited, At
<1>6. ASSUME NEW s \in Handlers, Answers(s) PROVE ListedRest'
  <2>1. /\ UNCHANGED <<disks, rde>> /\ h'[s].op = "none" /\ h[s].pc \in {"ok", "fail"}
        /\ \A t \in Handlers : t # s => h'[t] = h[t]
    BY <1>6 DEF Answers, Others, Idle
  <2>2. \A m \in Names : vol'[m] = "created" /\ vol[m] # "created" =>
            At(s, "create", "ok") /\ m = h[s].name
    BY <1>0, <1>6, <2>1 DEF Answers, SetsVol, SetsAtt, Ops, At
  <2>3. \A t \in Handlers : h'[t].op = "create" /\ h'[t].pc = "ok" =>
            At(t, "create", "ok") /\ h'[t].name = h[t].name
    BY <2>1 DEF At
  <2>4. QED
    BY <1>2, <2>1, <2>2, <2>3, AwaitedStays
<1>7. ASSUME NEW s \in Handlers, Submits(s) PROVE ListedRest'
  BY <1>0, <1>7, SubmitsKeepsListed
<1>8. ASSUME NEW s \in Handlers, NEW pc \in Pcs, NEW d \in Disks \union {None}, Quiet(s, pc, d)
      PROVE  ListedRest'
  BY <1>8, QuietKeepsListed
<1>9. ASSUME NEW d \in Disks, TaskResult(d) PROVE ListedRest'
  BY <1>9, TaskKeepsListed
<1>10. ~Restarts
  BY <1>0 DEF Restarts
<1>11. ListedRest'
  <2>1. TypeInv
    BY <1>0
  <2>2. QED
    BY <2>1, <1>3, <1>4, <1>5, <1>6, <1>7, <1>8, <1>9, <1>10, StepKinds
<1>12. QED
  BY <1>1, <1>11 DEF ListedInv, ListedRest

(* When the driver sees its tasks and updates through and VCD answers its  *)
(* requests, the RDE lists the disk of every volume CreateVolume was       *)
(* acknowledged for and the driver made, even where callers give up: a     *)
(* CreateDisk that finds the disk adds no entry, but the one that made the *)
(* disk holds the lock until it has added it.                              *)
THEOREM CreatedEntersRde == ASSUME RdeIsWritten PROVE Spec => []CreatedIsInRde
<1>1. ListedInv /\ [Next]_vars => ListedInv'
  BY StepListedInv
<1>2. ListedInv => CreatedIsInRde
  BY DEF ListedInv
<1>3. Init => ListedInv
  <2> SUFFICES ASSUME Init PROVE ListedInv
    OBVIOUS
  <2>1. \A d \in Disks : Exists(d) => disks[d].name \in Static
    BY InitDisks DEF Exists, Static
  <2>2. \A n \in Names : vol[n] = "created" => n \in Static
    BY DEF Init, Static
  <2>3. ThereIsListed /\ CreatedIsInRde
    BY <2>1, <2>2 DEF ThereIsListed, CreatedIsInRde
  <2>4. CreateListed
    BY DEF Init, Idle, CreateListed, At
  <2>5. QED
    BY <2>3, <2>4, InitCreatedInv, InitNameInv DEF ListedInv
<1>4. QED
  BY <1>1, <1>2, <1>3, PTL DEF Spec
=============================================================================
