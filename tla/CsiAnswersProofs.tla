-------------------------- MODULE CsiAnswersProofs --------------------------
(***************************************************************************)
(* Proofs about what CsiController's answers are worth: an acknowledged    *)
(* deletion left no disk, an acknowledged publish keeps its disk, an       *)
(* acknowledged unpublish stays in force and a volume acknowledged to be   *)
(* created has a usable disk.                                              *)
(***************************************************************************)
EXTENDS CsiControllerProofs

(***************************************************************************)
(* What always holds, whatever fails.                                      *)
(***************************************************************************)
Waiting(s) == h[s].caller = "waiting"

(* A handler that runs has a caller, who waits for it or gave it up.       *)
CallersKnown ==
    \A s \in Handlers :
        /\ h[s].pc = "idle" => h[s] = Idle
        /\ h[s].pc # "idle" => h[s].caller \in {"waiting", "gone"}
        /\ h[s].op \in {"create", "delete"} => h[s].vm = None

(* The orchestrator never has two calls out for the same thing ...         *)
Serial ==
    \A s, t \in Handlers :
        /\ Waiting(s) /\ Waiting(t)
        /\ h[s].name = h[t].name /\ h[s].vm = h[t].vm
        /\ SameTarget(h[s].op, h[t].op)
        => s = t

(* ... and knows what it is waiting for.                                   *)
Told ==
    \A s \in Handlers :
        Waiting(s) =>
            /\ h[s].op = "create" => vol[h[s].name] = "creating"
            /\ h[s].op = "delete" => vol[h[s].name] = "deleting"
            /\ h[s].op = "publish" => att[<<h[s].name, h[s].vm>>] = "attaching"
            /\ h[s].op = "unpublish" => att[<<h[s].name, h[s].vm>>] = "detaching"

(* A disk handlers have found carries the volume's name; one CreateDisk    *)
(* asked for is what the storage class says.                               *)
DisksKnown ==
    \A s \in Handlers :
        /\ DiskKnown(s) => /\ disks[h[s].disk].st # "free"
                           /\ disks[h[s].disk].name = h[s].name
        /\ h[s].op = "create" /\ h[s].pc \in {"wait", "rde"} =>
              disks[h[s].disk].spec = SpecOf[h[s].name]

(* The task a handler waits for is the one it asked for: the lock keeps    *)
(* every other handler from asking for another.                            *)
OwnTask ==
    \A s \in Handlers :
        h[s].pc = "wait" =>
            /\ <<h[s].op, disks[h[s].disk].task.kind>> \in
                  {<<"create", "create">>, <<"delete", "delete">>,
                   <<"publish", "attach">>, <<"unpublish", "detach">>}
            /\ h[s].op \in {"publish", "unpublish"} => disks[h[s].disk].task.vm = h[s].vm

(* Nothing deletes a disk before the orchestrator has asked for it.        *)
Leaving(n) == vol[n] \in {"deleting", "deleted"}

DeleteAsked ==
    /\ \A s \in Handlers : h[s].op = "delete" => Leaving(h[s].name)
    /\ \A d \in Disks :
          Running(d) /\ disks[d].task.kind = "delete" => Leaving(disks[d].name)

(* What the last task of a disk says of the disk.                          *)
Ended(d, kind, ends) == disks[d].task.kind = kind /\ disks[d].task.status \in ends

Lives(d) ==
    /\ Exists(d) => disks[d].name \in Names
    /\ Running(d) => Exists(d)
    /\ disks[d].st = "free" => disks[d].vms = {}
    /\ disks[d].st = "creating" <=> Ended(d, "create", {"running"})
    /\ disks[d].st = "creating" => disks[d].vms = {} /\ disks[d].spec = SpecOf[disks[d].name]
    /\ Ended(d, "create", {"error", "aborted"}) => disks[d].st = "gone"
    /\ Ended(d, "delete", {"success"}) => disks[d].st = "gone"
    /\ Ended(d, "delete", {"error", "aborted"}) => disks[d].st = "ready"
    /\ Ended(d, "attach", {"success"}) => disks[d].task.vm \in disks[d].vms
    /\ Ended(d, "detach", {"success"}) => disks[d].task.vm \notin disks[d].vms

DisksLive == \A d \in Disks : Lives(d)

CallsInv ==
    /\ TypeInv /\ LockHeld
    /\ CallersKnown /\ Serial /\ Told
    /\ DisksKnown /\ OwnTask /\ DeleteAsked /\ DisksLive

(***************************************************************************)
(* Callers that wait, tasks that are not aborted, lookups that answer.     *)
(***************************************************************************)
CallsRunTheirCourse == LookupsAnswer /\ {"abort", "timeout"} \intersect Faults = {}

NobodyGone ==
    /\ \A s \in Handlers : h[s].caller # "gone"
    /\ \A d \in Disks : disks[d].task.status # "aborted"

(* The disk DeleteDisk or DetachVolume found stays the only one.           *)
OnlyDisk ==
    \A s \in Handlers :
        /\ h[s].op \in {"delete", "unpublish"}
        /\ h[s].pc \in {"check", "submit", "wait", "rde"}
        => Named(h[s].name) \subseteq {h[s].disk}

(* A delete that is about to succeed left no disk ...                      *)
DeleteDone ==
    \A s \in Handlers :
        h[s].op = "delete" /\ h[s].pc \in {"rde", "ok"} => Named(h[s].name) = {}

(* ... and a publish that is about to succeed attached one.                *)
PublishDone ==
    \A s \in Handlers :
        At(s, "publish", "ok") => h[s].vm \in AttachedTo(h[s].name)

(* A detach that still has something to do is asked for, and no answer     *)
(* says that it is done.                                                   *)
DetachKnown ==
    \A d \in Disks :
        Running(d) /\ disks[d].task.kind = "detach" /\ disks[d].task.vm \in disks[d].vms =>
            /\ att[<<disks[d].name, disks[d].task.vm>>] = "detaching"
            /\ \A s \in Handlers :
                  At(s, "unpublish", "ok") =>
                      <<h[s].name, h[s].vm>> # <<disks[d].name, disks[d].task.vm>>

AnswersInv ==
    /\ CallsInv /\ NameInv /\ NobodyGone /\ OnlyDisk
    /\ DeleteDone /\ DeletedIsGone
    /\ DetachKnown /\ PublishDone /\ PublishedStaysAttached

(***************************************************************************)
(* Handlers that see their tasks through.                                  *)
(***************************************************************************)

(* A create that is about to succeed has a usable disk, unless the volume  *)
(* is being deleted already.                                               *)
CreateDone ==
    \A s \in Handlers :
        h[s].op = "create" /\ h[s].pc \in {"rde", "ok"} =>
            \/ Leaving(h[s].name)
            \/ /\ h[s].disk \in Named(h[s].name) /\ disks[h[s].disk].st = "ready"
               /\ disks[h[s].disk].spec = SpecOf[h[s].name]

CreatedInv == CallsInv /\ SharingInv /\ CreateDone /\ CreatedIsReady

UnpublishDone ==
    \A s \in Handlers :
        At(s, "unpublish", "ok") => h[s].vm \notin AttachedTo(h[s].name)

PromisesInv ==
    /\ AnswersInv /\ CreatedInv
    /\ UnpublishDone /\ UnpublishedStaysDetached

(***************************************************************************)
(* The kinds of steps, with what they do to the orchestrator's view.       *)
(***************************************************************************)
Others(s) == h' \in [Handlers -> Handler] /\ \A t \in Handlers \ {s} : h'[t] = h[t]

SetsVol(n, to) ==
    vol'[n] = to /\ (\A m \in Names \ {n} : vol'[m] = vol[m]) /\ att' = att

SetsAtt(n, v, to) ==
    /\ att'[<<n, v>>] = to /\ vol' = vol
    /\ \A m \in Names, w \in Vms : m # n \/ w # v => att'[<<m, w>>] = att[<<m, w>>]

(* A call arrives ...                                                      *)
Begins(s, op, n, v) ==
    /\ UNCHANGED <<disks, rde, lock>> /\ Others(s)
    /\ h[s] = Idle /\ ~Outstanding(op, n, v)
    /\ h'[s].op = op /\ h'[s].name = n /\ h'[s].vm = v /\ h'[s].caller = "waiting"
    /\ h'[s].pc \in {"lock", "find"} /\ (op = "publish" => h'[s].pc = "find")
    /\ op = "create" => v = None /\ vol[n] \in {"absent", "creating"} /\ SetsVol(n, "creating")
    /\ op = "delete" => v = None /\ vol[n] \in {"created", "deleting"} /\ SetsVol(n, "deleting")
    /\ op = "publish" => /\ v \in Vms /\ vol[n] = "created"
                         /\ att[<<n, v>>] \in {"detached", "attaching"}
                         /\ SetsAtt(n, v, "attaching")
    /\ op = "unpublish" => v \in Vms /\ SetsAtt(n, v, "detaching")

(* ... is given up ...                                                     *)
GivesUp(s) ==
    /\ UNCHANGED <<disks, rde, lock, vol, att>> /\ Others(s) /\ May("timeout")
    /\ Waiting(s) /\ h'[s].caller = "gone"
    /\ h'[s].pc = h[s].pc /\ h'[s].op = h[s].op /\ h'[s].disk = h[s].disk
    /\ h'[s].name = h[s].name /\ h'[s].vm = h[s].vm

(* ... and answered.                                                       *)
Answers(s) ==
    /\ UNCHANGED <<disks, rde, lock>> /\ Others(s)
    /\ h[s].pc \in {"ok", "fail"} /\ h'[s] = Idle
    /\ IF h[s].pc = "ok" /\ Waiting(s)
       THEN /\ h[s].op = "create" => SetsVol(h[s].name, "created")
            /\ h[s].op = "delete" => SetsVol(h[s].name, "deleted")
            /\ h[s].op = "publish" => SetsAtt(h[s].name, h[s].vm, "attached")
            /\ h[s].op = "unpublish" => SetsAtt(h[s].name, h[s].vm, "detached")
       ELSE UNCHANGED <<vol, att>>

(* A task ends: it did what it was to do, or nothing.                      *)
Does(d) ==
    /\ disks'[d].task.status = "success"
    /\ disks'[d].st = CASE disks[d].task.kind = "create" -> "ready"
                        [] disks[d].task.kind = "delete" -> "gone"
                        [] OTHER -> disks[d].st
    /\ disks'[d].vms = CASE disks[d].task.kind = "attach" -> disks[d].vms \union {disks[d].task.vm}
                         [] disks[d].task.kind = "detach" -> disks[d].vms \ {disks[d].task.vm}
                         [] OTHER -> disks[d].vms
    /\ disks[d].task.kind = "delete" => disks[d].vms = {}

DoesNot(d) ==
    /\ disks'[d].task.status \in {"error", "aborted"}
    /\ disks'[d].task.status = "aborted" => May("abort")
    /\ disks'[d].st = IF disks[d].task.kind = "create" THEN "gone" ELSE disks[d].st
    /\ disks'[d].vms = disks[d].vms

TaskResult(d) ==
    /\ TaskEnds(d) /\ disks[d].task \in Task /\ disks' \in [Disks -> Disk]
    /\ Does(d) \/ DoesNot(d)

LEMMA TaskResults ==
    ASSUME TypeInv, NEW d \in Disks, TaskSucceeds(d) \/ TaskFails(d)
    PROVE  TaskResult(d)
<1>0. disks \in [Disks -> Disk] /\ disks[d] \in Disk
  BY DEF TypeInv, TypeOK
<1>1. disks[d].task \in Task
  BY <1>0 DEF TaskSucceeds, TaskFails, Running, Disk, NoTask
<1>2. TaskEnds(d) /\ disks' \in [Disks -> Disk]
  BY TaskSteps DEF TaskEnds
<1>3. ASSUME TaskSucceeds(d) PROVE Does(d)
  <2>1. /\ disks'[d].task = [disks[d].task EXCEPT !.status = "success"]
        /\ disks'[d].st = CASE disks[d].task.kind = "create" -> "ready"
                            [] disks[d].task.kind = "delete" -> "gone"
                            [] OTHER -> disks[d].st
        /\ disks'[d].vms = CASE disks[d].task.kind = "attach" -> disks[d].vms \union {disks[d].task.vm}
                             [] disks[d].task.kind = "detach" -> disks[d].vms \ {disks[d].task.vm}
                             [] OTHER -> disks[d].vms
    BY <1>0, <1>1, <1>3 DEF TaskSucceeds, Disk
  <2>2. disks'[d].task.status = "success"
    BY <1>1, <2>1 DEF Task
  <2>3. disks[d].task.kind = "delete" => disks[d].vms = {}
    BY <1>3 DEF TaskSucceeds, TaskAllowed
  <2>4. QED
    BY <2>1, <2>2, <2>3 DEF Does
<1>4. ASSUME TaskFails(d) PROVE DoesNot(d)
  <2>1. PICK end \in {"error", "aborted"} :
          /\ end = "aborted" => May("abort")
          /\ disks' = [disks EXCEPT
               ![d].task.status = end,
               ![d].st = IF disks[d].task.kind = "create" THEN "gone" ELSE @]
    BY <1>4 DEF TaskFails
  <2>2. /\ disks'[d].task = [disks[d].task EXCEPT !.status = end]
        /\ disks'[d].st = IF disks[d].task.kind = "create" THEN "gone" ELSE disks[d].st
        /\ disks'[d].vms = disks[d].vms
    BY <1>0, <1>1, <2>1 DEF Disk
  <2>3. disks'[d].task.status = end
    BY <1>1, <2>2 DEF Task
  <2>4. QED
    BY <2>1, <2>2, <2>3 DEF DoesNot
<1>5. QED
  BY <1>1, <1>2, <1>3, <1>4 DEF TaskResult

LEMMA CallSteps ==
    ASSUME TypeInv, NEW s \in Handlers, Call(s)
    PROVE  \E op \in Ops, n \in Names, v \in Vms \union {None} : Begins(s, op, n, v)
<1>0. /\ h \in [Handlers -> Handler]
      /\ vol \in [Names -> {"absent", "creating", "created", "deleting", "deleted"}]
      /\ att \in [Names \X Vms -> {"detached", "attaching", "attached", "detaching"}]
  BY DEF TypeInv, TypeOK
<1>1. ASSUME NEW op \in Ops, NEW n \in Names, NEW v \in Vms \union {None}, Receive(s, op, n, v)
      PROVE  /\ UNCHANGED <<disks, rde, lock>> /\ Others(s)
             /\ h[s] = Idle /\ ~Outstanding(op, n, v)
             /\ h'[s].op = op /\ h'[s].name = n /\ h'[s].vm = v /\ h'[s].caller = "waiting"
             /\ h'[s].pc \in {"lock", "find"} /\ (op = "publish" => h'[s].pc = "find")
  <2>. DEFINE r == [pc |-> IF op \in {"create", "delete"} THEN "lock" ELSE "find",
                    op |-> op, name |-> n, vm |-> v, disk |-> None, caller |-> "waiting"]
  <2>1. /\ r \in Handler /\ r.op = op /\ r.name = n /\ r.vm = v /\ r.caller = "waiting"
        /\ r.pc \in {"lock", "find"} /\ (op = "publish" => r.pc = "find")
    BY <1>1 DEF Handler, Ops
  <2>2. /\ h' = [h EXCEPT ![s] = r] /\ UNCHANGED <<disks, rde, lock>>
        /\ h[s] = Idle /\ ~Outstanding(op, n, v)
    BY <1>1 DEF Receive, vcdVars
  <2>. HIDE DEF r
  <2>3. QED
    BY <1>0, <2>1, <2>2 DEF Others
<1>2. PICK n \in Names :
         \/ CallCreateVolume(s, n) \/ CallDeleteVolume(s, n)
         \/ \E v \in Vms : CallPublishVolume(s, n, v) \/ CallUnpublishVolume(s, n, v)
  BY DEF Call
<1>3. CASE CallCreateVolume(s, n)
  <2>1. Begins(s, "create", n, None)
    BY <1>0, <1>1, <1>3 DEF CallCreateVolume, Begins, SetsVol, Ops
  <2>2. QED
    BY <2>1 DEF Ops
<1>4. CASE CallDeleteVolume(s, n)
  <2>1. Begins(s, "delete", n, None)
    BY <1>0, <1>1, <1>4 DEF CallDeleteVolume, Begins, SetsVol, Ops
  <2>2. QED
    BY <2>1 DEF Ops
<1>5. ASSUME NEW v \in Vms, att' = [att EXCEPT ![<<n, v>>] = "attaching"] PROVE
         \A m \in Names, w \in Vms : m # n \/ w # v => att'[<<m, w>>] = att[<<m, w>>]
  BY <1>0, <1>5
<1>6. ASSUME NEW v \in Vms, CallPublishVolume(s, n, v)
      PROVE  Begins(s, "publish", n, v)
  <2>1. SetsAtt(n, v, "attaching")
    BY <1>0, <1>6 DEF CallPublishVolume, SetsAtt
  <2>2. QED
    BY <1>1, <1>6, <2>1 DEF CallPublishVolume, Begins, Ops
<1>7. ASSUME NEW v \in Vms, CallUnpublishVolume(s, n, v)
      PROVE  Begins(s, "unpublish", n, v)
  <2>1. SetsAtt(n, v, "detaching")
    BY <1>0, <1>7 DEF CallUnpublishVolume, SetsAtt
  <2>2. QED
    BY <1>1, <1>7, <2>1 DEF CallUnpublishVolume, Begins, Ops
<1>8. QED
  BY <1>2, <1>3, <1>4, <1>6, <1>7 DEF Ops

LEMMA GiveUpSteps ==
    ASSUME TypeInv, NEW s \in Handlers, GiveUp(s)
    PROVE  GivesUp(s)
<1>. DEFINE r == [h[s] EXCEPT !.caller = "gone"]
<1>1. h \in [Handlers -> Handler] /\ h[s] \in Handler
  BY DEF TypeInv, TypeOK
<1>2. /\ r \in Handler /\ r.pc = h[s].pc /\ r.op = h[s].op /\ r.disk = h[s].disk
      /\ r.name = h[s].name /\ r.vm = h[s].vm /\ r.caller = "gone"
  BY <1>1 DEF Handler
<1>3. /\ h' = [h EXCEPT ![s] = r] /\ UNCHANGED <<disks, rde, lock, vol, att>>
      /\ May("timeout") /\ Waiting(s)
  BY <1>1 DEF GiveUp, vcdVars, coVars, Waiting
<1>. HIDE DEF r
<1>4. QED
  BY <1>1, <1>2, <1>3 DEF GivesUp, Others

LEMMA RespondSteps ==
    ASSUME TypeInv, NEW s \in Handlers, Respond(s)
    PROVE  Answers(s)
<1>0. /\ h \in [Handlers -> Handler] /\ Idle \in Handler /\ h[s].pc \in {"ok", "fail"}
      /\ vol \in [Names -> {"absent", "creating", "created", "deleting", "deleted"}]
      /\ att \in [Names \X Vms -> {"detached", "attaching", "attached", "detaching"}]
  BY DEF TypeInv, TypeOK, Idle, Handler, Respond
<1>1. /\ h[s].name \in Names /\ h[s].op \in Ops
      /\ h[s].op \in {"publish", "unpublish"} => h[s].vm \in Vms
  BY <1>0 DEF TypeInv, WellFormed
<1>2. UNCHANGED <<disks, rde, lock>> /\ Others(s) /\ h'[s] = Idle
  BY <1>0 DEF Respond, vcdVars, Others
<1>3. CASE ~(h[s].pc = "ok" /\ Waiting(s))
  BY <1>0, <1>2, <1>3 DEF Respond, Answers, Waiting, coVars
<1>4. ASSUME h[s].pc = "ok", Waiting(s), h[s].op \in {"create", "delete"} PROVE Answers(s)
  BY <1>0, <1>1, <1>2, <1>4 DEF Respond, Answers, Waiting, SetsVol
<1>5. ASSUME h[s].pc = "ok", Waiting(s), h[s].op = "publish" PROVE Answers(s)
  <2>1. att' = [att EXCEPT ![<<h[s].name, h[s].vm>>] = "attached"] /\ vol' = vol
    BY <1>5 DEF Respond, Waiting
  <2>2. SetsAtt(h[s].name, h[s].vm, "attached")
    BY <1>0, <1>1, <1>5, <2>1 DEF SetsAtt
  <2>3. QED
    BY <1>0, <1>2, <1>5, <2>2 DEF Answers
<1>6. ASSUME h[s].pc = "ok", Waiting(s), h[s].op = "unpublish" PROVE Answers(s)
  <2>1. att' = [att EXCEPT ![<<h[s].name, h[s].vm>>] = "detached"] /\ vol' = vol
    BY <1>6 DEF Respond, Waiting
  <2>2. SetsAtt(h[s].name, h[s].vm, "detached")
    BY <1>0, <1>1, <1>6, <2>1 DEF SetsAtt
  <2>3. QED
    BY <1>0, <1>2, <1>6, <2>2 DEF Answers
<1>7. QED
  BY <1>1, <1>3, <1>4, <1>5, <1>6 DEF Ops

(* The process restarts.                                                   *)
Restarts ==
    /\ UNCHANGED <<disks, rde, vol, att>> /\ May("crash")
    /\ lock' = None /\ h' \in [Handlers -> Handler] /\ \A s \in Handlers : h'[s] = Idle

LEMMA StepKinds ==
    ASSUME TypeInv, [Next]_vars
    PROVE  \/ UNCHANGED vars
           \/ \E s \in Handlers, op \in Ops, n \in Names, v \in Vms \union {None} :
                 Begins(s, op, n, v)
           \/ \E s \in Handlers : GivesUp(s) \/ Answers(s) \/ Submits(s)
           \/ \E s \in Handlers, pc \in Pcs, d \in Disks \union {None} : Quiet(s, pc, d)
           \/ \E d \in Disks : TaskResult(d)
           \/ Restarts
<1>1. ASSUME NEW s \in Handlers, Call(s)
      PROVE  \E op \in Ops, n \in Names, v \in Vms \union {None} : Begins(s, op, n, v)
  BY <1>1, CallSteps
<1>2. ASSUME NEW s \in Handlers, QuietAction(s)
      PROVE  \E pc \in Pcs, d \in Disks \union {None} : Quiet(s, pc, d)
  BY <1>2, QuietSteps
<1>3. ASSUME NEW s \in Handlers, SubmitAction(s)
      PROVE  Submits(s)
  BY <1>3, SubmitSteps
<1>4. ASSUME NEW s \in Handlers, Step(s)
      PROVE  QuietAction(s) \/ SubmitAction(s) \/ Respond(s)
  BY <1>4 DEF Step, QuietAction, SubmitAction
<1>5. ASSUME NEW s \in Handlers, EarlyError(s) \/ Acquire(s)
      PROVE  QuietAction(s)
  BY <1>5 DEF QuietAction
<1>6. ASSUME NEW d \in Disks, TaskSucceeds(d) \/ TaskFails(d)
      PROVE  TaskResult(d)
  BY <1>6, TaskResults
<1>7. ASSUME NEW s \in Handlers, GiveUp(s) PROVE GivesUp(s)
  BY <1>7, GiveUpSteps
<1>8. ASSUME NEW s \in Handlers, Respond(s) PROVE Answers(s)
  BY <1>8, RespondSteps
<1>9. ASSUME Crash PROVE Restarts
  BY <1>9 DEF Crash, Restarts, vcdVars, coVars, Idle, Handler
<1>10. QED
  BY <1>1, <1>2, <1>3, <1>4, <1>5, <1>6, <1>7, <1>8, <1>9 DEF Next

(***************************************************************************)
(* CallsInv is inductive.  TypeInv and LockHeld are known to be.           *)
(***************************************************************************)
CallsRest ==
    CallersKnown /\ Serial /\ Told /\ DisksKnown /\ OwnTask /\ DeleteAsked /\ DisksLive

(* While the disks stay as they are, so does what their tasks say.         *)
LEMMA SameDisks ==
    ASSUME UNCHANGED disks
    PROVE  /\ \A d \in Disks : Exists(d)' = Exists(d) /\ Running(d)' = Running(d)
           /\ \A n \in Names : Named(n)' = Named(n) /\ AttachedTo(n)' = AttachedTo(n)
           /\ DisksLive => DisksLive'
BY DEF Exists, Running, Named, AttachedTo, DisksLive, Lives, Ended

LEMMA BeginsKeepsCalls ==
    ASSUME CallsInv, TypeInv', NEW s \in Handlers, NEW op \in Ops, NEW n \in Names,
           NEW v \in Vms \union {None}, Begins(s, op, n, v)
    PROVE  CallsRest'
<1>0. /\ \A t \in Handlers : t # s => h'[t] = h[t]
      /\ h[s].pc = "idle" /\ h'[s].op = op /\ h'[s].name = n /\ h'[s].vm = v
      /\ h'[s].caller = "waiting" /\ h'[s].pc \in {"lock", "find"}
      /\ UNCHANGED disks /\ h[s].caller = "none" /\ None \notin Vms
  BY NamesAreDistinct DEF Begins, Others, Idle
<1>1. CallersKnown'
  BY <1>0 DEF CallsInv, CallersKnown, Begins, Ops
<1>2. Serial'
  <2>1. \A t \in Handlers : Waiting(t) /\ h[t].name = n /\ h[t].vm = v => ~SameTarget(h[t].op, op)
    BY DEF Begins, Outstanding, Waiting
  <2>2. ASSUME NEW t \in Handlers, NEW u \in Handlers, Waiting(t)', Waiting(u)',
               h'[t].name = h'[u].name, h'[t].vm = h'[u].vm, SameTarget(h'[t].op, h'[u].op)
        PROVE  t = u
    <3>1. SameTarget(h'[u].op, h'[t].op)
      BY <2>2 DEF SameTarget
    <3>2. CASE t # s /\ u # s
      BY <1>0, <2>2, <3>2 DEF CallsInv, Serial, Waiting
    <3>3. CASE t = s /\ u # s
      BY <1>0, <2>1, <2>2, <3>1, <3>3 DEF Waiting
    <3>4. CASE t # s /\ u = s
      BY <1>0, <2>1, <2>2, <3>4 DEF Waiting
    <3>5. QED
      BY <3>2, <3>3, <3>4
  <2>3. QED
    BY <2>2 DEF Serial
<1>3. Told'
  <2>1. ASSUME NEW t \in Handlers, t # s, Waiting(t)
        PROVE  /\ h[t].op = "create" => vol'[h[t].name] = "creating"
               /\ h[t].op = "delete" => vol'[h[t].name] = "deleting"
               /\ h[t].op = "publish" => att'[<<h[t].name, h[t].vm>>] = "attaching"
               /\ h[t].op = "unpublish" => att'[<<h[t].name, h[t].vm>>] = "detaching"
    <3>1. /\ h[t].pc # "idle" /\ h[t].op \in Ops /\ h[t].name \in Names
          /\ h[t].op \in {"publish", "unpublish"} => h[t].vm \in Vms
          /\ h[t].op \in {"create", "delete"} => h[t].vm = None
      BY <2>1 DEF CallsInv, CallersKnown, TypeInv, WellFormed, Waiting, Idle
    <3>2. ~(h[t].name = n /\ h[t].vm = v /\ SameTarget(h[t].op, op))
      BY <2>1 DEF Begins, Outstanding, Waiting
    <3>3. CASE op \in {"create", "delete"}
      <4>1. att' = att /\ (\A m \in Names \ {n} : vol'[m] = vol[m]) /\ v = None
        BY <3>3 DEF Begins, SetsVol
      <4>2. h[t].op \in {"create", "delete"} => h[t].name # n
        BY <3>1, <3>2, <3>3, <4>1 DEF SameTarget
      <4>3. QED
        BY <2>1, <3>1, <4>1, <4>2 DEF CallsInv, Told
    <3>4. CASE op \in {"publish", "unpublish"}
      <4>1. /\ vol' = vol /\ v \in Vms
            /\ \A m \in Names, w \in Vms : m # n \/ w # v => att'[<<m, w>>] = att[<<m, w>>]
        BY <3>4 DEF Begins, SetsAtt
      <4>2. h[t].op \in {"publish", "unpublish"} => h[t].name # n \/ h[t].vm # v
        BY <3>1, <3>2, <3>4 DEF SameTarget
      <4>3. QED
        BY <2>1, <3>1, <4>1, <4>2 DEF CallsInv, Told
    <3>5. QED
      BY <3>3, <3>4 DEF Ops
  <2>2. /\ op = "create" => vol'[n] = "creating"
        /\ op = "delete" => vol'[n] = "deleting"
        /\ op = "publish" => att'[<<n, v>>] = "attaching"
        /\ op = "unpublish" => att'[<<n, v>>] = "detaching"
    BY DEF Begins, SetsVol, SetsAtt
  <2>3. QED
    BY <1>0, <2>1, <2>2 DEF Told, Waiting
<1>4. DisksKnown'
  BY <1>0 DEF CallsInv, DisksKnown, DiskKnown, Begins
<1>5. OwnTask'
  BY <1>0 DEF CallsInv, OwnTask
<1>6. DeleteAsked'
  <2>1. \A m \in Names : Leaving(m) => Leaving(m)'
    BY DEF Begins, SetsVol, SetsAtt, Leaving, Ops
  <2>2. op = "delete" => Leaving(n)'
    BY DEF Begins, SetsVol, Leaving
  <2>3. \A d \in Disks : Running(d) => disks[d].name \in Names
    BY DEF CallsInv, DisksLive, Lives
  <2>4. \A t \in Handlers : h[t].op = "delete" => h[t].name \in Names
    BY DEF CallsInv, CallersKnown, TypeInv, WellFormed, Idle
  <2>5. QED
    BY <1>0, <2>1, <2>2, <2>3, <2>4, SameDisks DEF CallsInv, DeleteAsked, Leaving
<1>7. DisksLive'
  BY <1>0, SameDisks DEF CallsInv
<1>8. QED
  BY <1>1, <1>2, <1>3, <1>4, <1>5, <1>6, <1>7 DEF CallsRest

LEMMA GivesUpKeepsCalls ==
    ASSUME CallsInv, NEW s \in Handlers, GivesUp(s)
    PROVE  CallsRest'
<1>0. /\ \A t \in Handlers : t # s => h'[t] = h[t]
      /\ h'[s].caller = "gone" /\ h[s].caller = "waiting"
      /\ \A t \in Handlers : /\ h'[t].pc = h[t].pc /\ h'[t].op = h[t].op
                             /\ h'[t].disk = h[t].disk
                             /\ h'[t].name = h[t].name /\ h'[t].vm = h[t].vm
      /\ UNCHANGED <<disks, vol, att>>
  BY DEF GivesUp, Others, Waiting
<1>1. CallersKnown'
  BY <1>0 DEF CallsInv, CallersKnown, Idle
<1>2. Serial' /\ Told'
  BY <1>0 DEF CallsInv, Serial, Told, Waiting
<1>3. DisksKnown' /\ OwnTask'
  BY <1>0 DEF CallsInv, DisksKnown, DiskKnown, OwnTask
<1>4. DeleteAsked' /\ DisksLive'
  BY <1>0, SameDisks DEF CallsInv, DeleteAsked, Leaving
<1>5. QED
  BY <1>1, <1>2, <1>3, <1>4 DEF CallsRest

LEMMA AnswersKeepsCalls ==
    ASSUME CallsInv, NEW s \in Handlers, Answers(s)
    PROVE  CallsRest'
<1>0. /\ \A t \in Handlers : t # s => h'[t] = h[t]
      /\ h'[s] = Idle /\ h[s].pc \in {"ok", "fail"} /\ UNCHANGED disks
      /\ h[s].op \in Ops /\ h[s].name \in Names
      /\ h[s].op \in {"publish", "unpublish"} => h[s].vm \in Vms
      /\ h[s].op \in {"create", "delete"} => h[s].vm = None
      /\ Idle.pc = "idle" /\ Idle.op = "none" /\ Idle.caller = "none" /\ None \notin Vms
  BY NamesAreDistinct DEF Answers, Others, CallsInv, TypeInv, WellFormed, CallersKnown, Idle
<1>1. CallersKnown'
  BY <1>0 DEF CallsInv, CallersKnown
<1>2. Serial'
  BY <1>0 DEF CallsInv, Serial, Waiting
<1>3. Told'
  <2>1. ASSUME NEW t \in Handlers, t # s, Waiting(t)
        PROVE  /\ h[t].op = "create" => vol'[h[t].name] = "creating"
               /\ h[t].op = "delete" => vol'[h[t].name] = "deleting"
               /\ h[t].op = "publish" => att'[<<h[t].name, h[t].vm>>] = "attaching"
               /\ h[t].op = "unpublish" => att'[<<h[t].name, h[t].vm>>] = "detaching"
    <3>1. /\ h[t].pc # "idle" /\ h[t].op \in Ops /\ h[t].name \in Names
          /\ h[t].op \in {"publish", "unpublish"} => h[t].vm \in Vms
          /\ h[t].op \in {"create", "delete"} => h[t].vm = None
      BY <2>1 DEF CallsInv, CallersKnown, TypeInv, WellFormed, Waiting, Idle
    <3>2. CASE UNCHANGED <<vol, att>>
      BY <2>1, <3>2 DEF CallsInv, Told
    <3>3. CASE Waiting(s) /\ h[s].op \in {"create", "delete"} /\ ~UNCHANGED <<vol, att>>
      <4>1. att' = att /\ (\A m \in Names \ {h[s].name} : vol'[m] = vol[m])
        BY <3>3 DEF Answers, SetsVol
      <4>2. h[t].op \in {"create", "delete"} => h[t].name # h[s].name
        BY <1>0, <2>1, <3>1, <3>3 DEF CallsInv, Serial, SameTarget
      <4>3. QED
        BY <2>1, <3>1, <4>1, <4>2 DEF CallsInv, Told
    <3>4. CASE Waiting(s) /\ h[s].op \in {"publish", "unpublish"} /\ ~UNCHANGED <<vol, att>>
      <4>1. /\ vol' = vol
            /\ \A m \in Names, w \in Vms :
                  m # h[s].name \/ w # h[s].vm => att'[<<m, w>>] = att[<<m, w>>]
        BY <3>4 DEF Answers, SetsAtt
      <4>2. h[t].op \in {"publish", "unpublish"} => h[t].name # h[s].name \/ h[t].vm # h[s].vm
        BY <1>0, <2>1, <3>1, <3>4 DEF CallsInv, Serial, SameTarget
      <4>3. QED
        BY <2>1, <3>1, <4>1, <4>2 DEF CallsInv, Told
    <3>5. QED
      BY <1>0, <3>2, <3>3, <3>4 DEF Ops, Answers
  <2>2. QED
    BY <1>0, <2>1 DEF Told, Waiting
<1>4. DisksKnown'
  BY <1>0 DEF CallsInv, DisksKnown, DiskKnown
<1>5. OwnTask'
  BY <1>0 DEF CallsInv, OwnTask
<1>6. DeleteAsked'
  <2>1. \A m \in Names : Leaving(m) => Leaving(m)'
    \* A create that is waited for finds its volume in the making.
    BY <1>0 DEF Answers, SetsVol, SetsAtt, Leaving, Ops, CallsInv, Told
  <2>2. \A d \in Disks : Running(d) => disks[d].name \in Names
    BY DEF CallsInv, DisksLive, Lives
  <2>3. \A t \in Handlers : h[t].op = "delete" => h[t].name \in Names
    BY DEF CallsInv, CallersKnown, TypeInv, WellFormed, Idle
  <2>4. QED
    BY <1>0, <2>1, <2>2, <2>3, SameDisks DEF CallsInv, DeleteAsked, Leaving
<1>7. DisksLive'
  BY <1>0, SameDisks DEF CallsInv
<1>8. QED
  BY <1>1, <1>2, <1>3, <1>4, <1>5, <1>6, <1>7 DEF CallsRest

LEMMA QuietKeepsCalls ==
    ASSUME CallsInv, NEW s \in Handlers, NEW pc \in Pcs, NEW d \in Disks \union {None},
           Quiet(s, pc, d)
    PROVE  CallsRest'
<1>0. /\ \A t \in Handlers : t # s => h'[t] = h[t]
      /\ h'[s].pc = pc /\ h'[s].disk = d /\ h[s].pc # "idle" /\ pc \notin {"idle", "wait"}
      /\ \A t \in Handlers : /\ h'[t].op = h[t].op /\ h'[t].name = h[t].name
                             /\ h'[t].vm = h[t].vm /\ h'[t].caller = h[t].caller
      /\ UNCHANGED <<disks, vol, att>>
  BY DEF Quiet, Moves
<1>1. CallersKnown'
  BY <1>0 DEF CallsInv, CallersKnown
<1>2. Serial' /\ Told'
  BY <1>0 DEF CallsInv, Serial, Told, Waiting
<1>3. DisksKnown'
  <2>1. NeedsDisk(s, pc) => /\ disks[d].st # "free" /\ disks[d].name = h[s].name
    BY DEF Quiet, Learned, DiskFound, Named, Exists, CallsInv, DisksKnown
  <2>2. pc = "rde" => h[s].pc = "wait" /\ d = h[s].disk
    BY DEF Quiet, Learned, TaskSeen
  <2>3. DiskKnown(s)' => NeedsDisk(s, pc)
    BY <1>0 DEF DiskKnown, NeedsDisk
  <2>4. QED
    BY <1>0, <2>1, <2>2, <2>3 DEF CallsInv, DisksKnown, DiskKnown
<1>4. OwnTask'
  BY <1>0 DEF CallsInv, OwnTask
<1>5. DeleteAsked' /\ DisksLive'
  BY <1>0, SameDisks DEF CallsInv, DeleteAsked, Leaving
<1>6. QED
  BY <1>1, <1>2, <1>3, <1>4, <1>5 DEF CallsRest

(* What a handler that asks for a task, or is refused one, leaves alone.   *)
Submitted(s) ==
    /\ h[s].pc = "submit" /\ lock = s /\ h'[s].pc \in {"wait", "fail"}
    /\ \A t \in Handlers : t # s => h'[t] = h[t] /\ h[t].pc \notin Critical
    /\ \A t \in Handlers : /\ h'[t].op = h[t].op /\ h'[t].name = h[t].name
                           /\ h'[t].vm = h[t].vm /\ h'[t].caller = h[t].caller
    /\ UNCHANGED <<rde, vol, att>>
    /\ h'[s].pc = "fail" => h'[s].disk = h[s].disk

(* The task it starts.                                                     *)
StartedOn(s, d, kind) ==
    /\ disks' \in [Disks -> Disk] /\ d = h[s].disk /\ d \in Disks
    /\ Exists(d) /\ ~Running(d)
    /\ \A e \in Disks : /\ disks'[e].st = disks[e].st /\ disks'[e].name = disks[e].name
                        /\ disks'[e].spec = disks[e].spec /\ disks'[e].vms = disks[e].vms
                        /\ e # d => disks'[e] = disks[e]
    /\ disks'[d].task.kind = kind /\ disks'[d].task.vm = h[s].vm
    /\ disks'[d].task.status = "running"
    /\ <<h[s].op, kind>> \in {<<"delete", "delete">>, <<"publish", "attach">>,
                             <<"unpublish", "detach">>}
    /\ h'[s].pc = "wait" => h'[s].disk = d

(* The disk it makes.                                                      *)
MadeBy(s, d) ==
    /\ disks' \in [Disks -> Disk] /\ h[s].op = "create" /\ d \in Disks
    /\ disks[d].st = "free" /\ disks'[d] = NewDisk(h[s].name)
    /\ \A e \in Disks : e # d => disks'[e] = disks[e]
    /\ h'[s].pc = "wait" => h'[s].disk = d

LEMMA SubmitKinds ==
    ASSUME TypeInv, LockHeld, NEW s \in Handlers, Submits(s)
    PROVE  /\ Submitted(s)
           /\ \/ UNCHANGED disks /\ h'[s].pc = "fail"
              \/ \E d \in Disks : MadeBy(s, d)
              \/ \E d \in Disks, kind \in {"delete", "attach", "detach"} : StartedOn(s, d, kind)
<1>0. /\ h[s].pc = "submit" /\ UNCHANGED <<rde, vol, att>> /\ lock = s
      /\ disks \in [Disks -> Disk] /\ disks' \in [Disks -> Disk]
      /\ \A t \in Handlers : t # s => h[t].pc \notin Critical
  BY SubmitsKeepsTypes DEF Submits, LockHeld, Critical, TypeInv, TypeOK
<1>1. ASSUME NEW d, Moves(s, "wait", d) \/ Moves(s, "fail", h[s].disk)
      PROVE  Submitted(s)
  BY <1>0, <1>1 DEF Moves, Submitted
<1>2. ASSUME Refused(s) PROVE Submitted(s) /\ UNCHANGED disks /\ h'[s].pc = "fail"
  BY <1>1, <1>2 DEF Refused, Moves
<1>3. ASSUME NEW d \in Disks, Creates(s, d) PROVE Submitted(s) /\ MadeBy(s, d)
  <2>1. Submitted(s)
    BY <1>1, <1>3 DEF Creates, Sent
  <2>2. h'[s].pc = "wait" => h'[s].disk = d
    BY <1>3 DEF Creates, Sent, Moves
  <2>3. QED
    BY <1>0, <1>3, <2>1, <2>2 DEF Creates, MadeBy, At
<1>4. ASSUME NEW kind \in {"delete", "attach", "detach"}, Starts(s, kind)
      PROVE  Submitted(s) /\ h[s].disk \in Disks /\ StartedOn(s, h[s].disk, kind)
  <2>1. Submitted(s)
    BY <1>1, <1>4 DEF Starts, Sent
  <2>2. h'[s].pc = "wait" => h'[s].disk = h[s].disk
    BY <1>4 DEF Starts, Sent, Moves
  <2>3. /\ h[s].disk \in Disks /\ Exists(h[s].disk) /\ ~Running(h[s].disk)
        /\ disks' = [disks EXCEPT ![h[s].disk].task = Started(kind, h[s].vm)]
        /\ <<h[s].op, kind>> \in {<<"delete", "delete">>, <<"publish", "attach">>,
                                 <<"unpublish", "detach">>}
    BY <1>4 DEF Starts
  <2>4. \A e \in Disks : /\ disks'[e].st = disks[e].st /\ disks'[e].name = disks[e].name
                         /\ disks'[e].spec = disks[e].spec /\ disks'[e].vms = disks[e].vms
                         /\ e # h[s].disk => disks'[e] = disks[e]
    BY <1>0, <2>3 DEF Disk
  <2>5. disks'[h[s].disk].task = Started(kind, h[s].vm)
    BY <1>0, <2>3 DEF Disk
  <2>6. QED
    BY <1>0, <2>1, <2>2, <2>3, <2>4, <2>5 DEF StartedOn, Started
<1>5. QED
  BY <1>2, <1>3, <1>4 DEF Submits

LEMMA SubmitsKeepsCalls ==
    ASSUME CallsInv, NEW s \in Handlers, Submits(s)
    PROVE  CallsRest'
<1>0. TypeInv /\ LockHeld /\ h[s].op \in Ops /\ h[s].name \in Names
  BY DEF CallsInv, TypeInv, WellFormed, Submits
<1>1. /\ \A t \in Handlers : t # s => h'[t] = h[t] /\ h[t].pc \notin {"check", "submit", "wait", "rde"}
      /\ h[s].pc = "submit" /\ h'[s].pc \in {"wait", "fail"}
      /\ \A t \in Handlers : /\ h'[t].op = h[t].op /\ h'[t].name = h[t].name
                             /\ h'[t].vm = h[t].vm /\ h'[t].caller = h[t].caller
      /\ UNCHANGED <<vol, att>>
  BY <1>0, SubmitKinds DEF Submitted, Critical
<1>2. CallersKnown'
  BY <1>1 DEF CallsInv, CallersKnown
<1>3. Serial' /\ Told'
  BY <1>1 DEF CallsInv, Serial, Told, Waiting
<1>4. CASE UNCHANGED disks /\ h'[s].pc = "fail"
  <2>1. DisksKnown' /\ OwnTask'
    BY <1>1, <1>4 DEF CallsInv, DisksKnown, DiskKnown, OwnTask
  <2>2. DeleteAsked' /\ DisksLive'
    BY <1>1, <1>4, SameDisks DEF CallsInv, DeleteAsked, Leaving
  <2>3. QED
    BY <1>2, <1>3, <2>1, <2>2 DEF CallsRest
<1>5. ASSUME NEW d \in Disks, MadeBy(s, d) PROVE CallsRest'
  <2>1. /\ disks[d].st = "free" /\ h[s].op = "create"
        /\ \A e \in Disks : e # d => disks'[e] = disks[e]
        /\ disks'[d].st = "creating" /\ disks'[d].name = h[s].name
        /\ disks'[d].spec = SpecOf[h[s].name] /\ disks'[d].vms = {}
        /\ disks'[d].task.kind = "create" /\ disks'[d].task.status = "running"
        /\ h'[s].pc = "wait" => h'[s].disk = d
    BY <1>5 DEF MadeBy, NewDisk, Started
  <2>2. \A t \in Handlers : DiskKnown(t) => h[t].disk \in Disks /\ h[t].disk # d
    BY <1>0, <2>1 DEF TypeInv, WellFormed, CallsInv, DisksKnown
  <2>3. DisksKnown'
    <3>1. ASSUME NEW t \in Handlers, t # s
          PROVE  /\ DiskKnown(t)' => /\ disks'[h'[t].disk].st # "free"
                                     /\ disks'[h'[t].disk].name = h'[t].name
                 /\ h'[t].op = "create" /\ h'[t].pc \in {"wait", "rde"} =>
                       disks'[h'[t].disk].spec = SpecOf[h'[t].name]
      <4>1. h'[t] = h[t] /\ h[t].pc \notin {"wait", "rde"} /\ DiskKnown(t)' = DiskKnown(t)
        BY <1>1, <3>1 DEF DiskKnown
      <4>2. QED
        BY <2>1, <2>2, <4>1 DEF CallsInv, DisksKnown
    <3>2. /\ DiskKnown(s)' => h'[s].pc = "wait"
          /\ h'[s].pc # "rde"
      BY <1>1 DEF DiskKnown
    <3>3. QED
      BY <1>1, <2>1, <3>1, <3>2 DEF DisksKnown
  <2>4. OwnTask'
    BY <1>1, <2>1 DEF OwnTask
  <2>5. DeleteAsked'
    BY <1>1, <2>1 DEF CallsInv, DeleteAsked, Running, Leaving
  <2>6. DisksLive'
    <3>1. \A e \in Disks : e # d => (Lives(e) => Lives(e)')
      BY <2>1 DEF Lives, Ended, Exists, Running
    <3>2. Lives(d)'
      BY <1>0, <1>1, <2>1 DEF Lives, Ended, Exists, Running
    <3>3. QED
      BY <3>1, <3>2 DEF CallsInv, DisksLive
  <2>7. QED
    BY <1>2, <1>3, <2>3, <2>4, <2>5, <2>6 DEF CallsRest
<1>6. ASSUME NEW d \in Disks, NEW kind \in {"delete", "attach", "detach"}, StartedOn(s, d, kind)
      PROVE  CallsRest'
  <2>1. /\ \A e \in Disks : /\ disks'[e].st = disks[e].st /\ disks'[e].name = disks[e].name
                            /\ disks'[e].spec = disks[e].spec /\ disks'[e].vms = disks[e].vms
                            /\ e # d => disks'[e] = disks[e]
        /\ d = h[s].disk /\ Exists(d) /\ ~Running(d)
        /\ disks'[d].task.kind = kind /\ disks'[d].task.vm = h[s].vm
        /\ disks'[d].task.status = "running"
        /\ <<h[s].op, kind>> \in {<<"delete", "delete">>, <<"publish", "attach">>,
                                 <<"unpublish", "detach">>}
        /\ h'[s].pc = "wait" => h'[s].disk = d
    BY <1>6 DEF StartedOn
  <2>2. DiskKnown(s) /\ disks[d].name = h[s].name /\ h[s].op # "create"
    BY <1>1, <2>1 DEF DiskKnown, CallsInv, DisksKnown
  <2>3. DisksKnown'
    <3>1. ASSUME NEW t \in Handlers, t # s
          PROVE  /\ DiskKnown(t)' => /\ disks'[h'[t].disk].st # "free"
                                     /\ disks'[h'[t].disk].name = h'[t].name
                 /\ h'[t].op = "create" /\ h'[t].pc \in {"wait", "rde"} =>
                       disks'[h'[t].disk].spec = SpecOf[h'[t].name]
      <4>1. h'[t] = h[t] /\ h[t].pc \notin {"wait", "rde"} /\ DiskKnown(t)' = DiskKnown(t)
        BY <1>1, <3>1 DEF DiskKnown
      <4>2. DiskKnown(t) => h[t].disk \in Disks
        BY <1>0 DEF TypeInv, WellFormed
      <4>3. QED
        BY <2>1, <4>1, <4>2 DEF CallsInv, DisksKnown
    <3>2. /\ DiskKnown(s)' => h'[s].pc = "wait"
          /\ h'[s].pc # "rde"
      BY <1>1 DEF DiskKnown
    <3>3. QED
      BY <1>1, <2>1, <2>2, <3>1, <3>2 DEF DisksKnown, Exists
  <2>4. OwnTask'
    BY <1>1, <2>1 DEF OwnTask
  <2>5. DeleteAsked'
    <3>1. kind = "delete" => Leaving(disks[d].name)
      BY <2>1, <2>2 DEF CallsInv, DeleteAsked
    <3>2. QED
      BY <1>1, <2>1, <3>1 DEF CallsInv, DeleteAsked, Running, Leaving
  <2>6. DisksLive'
    <3>1. \A e \in Disks : e # d => (Lives(e) => Lives(e)')
      BY <2>1 DEF Lives, Ended, Exists, Running
    <3>2. Lives(d)'
      BY <2>1 DEF CallsInv, DisksLive, Lives, Ended, Exists, Running
    <3>3. QED
      BY <3>1, <3>2 DEF CallsInv, DisksLive
  <2>7. QED
    BY <1>2, <1>3, <2>3, <2>4, <2>5, <2>6 DEF CallsRest
<1>7. QED
  BY <1>0, <1>4, <1>5, <1>6, SubmitKinds

(* How a disk looks when its task has ended.                               *)
LEMMA EndedLives ==
    ASSUME CallsInv, NEW d \in Disks, TaskResult(d)
    PROVE  /\ Lives(d)' /\ \A e \in Disks : e # d => disks'[e] = disks[e]
           /\ \A e \in Disks : /\ disks'[e].name = disks[e].name /\ disks'[e].spec = disks[e].spec
                               /\ disks'[e].task.kind = disks[e].task.kind
                               /\ disks'[e].task.vm = disks[e].task.vm
                               /\ disks[e].st # "free" => disks'[e].st # "free"
                               /\ Exists(e)' => Exists(e)
                               /\ Running(e)' => e # d
<1>1. /\ Running(d) /\ Lives(d)
      /\ disks[d].task.kind \in TaskKinds
      /\ disks'[d].name = disks[d].name /\ disks'[d].spec = disks[d].spec
      /\ disks'[d].task.kind = disks[d].task.kind /\ disks'[d].task.vm = disks[d].task.vm
      /\ \A e \in Disks : e # d => disks'[e] = disks[e]
  BY DEF TaskResult, TaskEnds, CallsInv, DisksLive, Task
<1>2. CASE Does(d)
  BY <1>1, <1>2 DEF Does, Lives, Ended, Exists, Running, TaskKinds
<1>3. CASE DoesNot(d)
  BY <1>1, <1>3 DEF DoesNot, Lives, Ended, Exists, Running, TaskKinds
<1>4. QED
  BY <1>2, <1>3 DEF TaskResult

LEMMA TaskKeepsCalls ==
    ASSUME CallsInv, NEW d \in Disks, TaskResult(d)
    PROVE  CallsRest'
<1>0. /\ UNCHANGED <<h, vol, att>> /\ TypeInv
  BY DEF TaskResult, TaskEnds, CallsInv
<1>1. CallersKnown' /\ Serial' /\ Told'
  BY <1>0 DEF CallsInv, CallersKnown, Serial, Told, Waiting
<1>2. \A t \in Handlers : DiskKnown(t) => h[t].disk \in Disks
  BY <1>0 DEF TypeInv, WellFormed
<1>3. DisksKnown'
  BY <1>0, <1>2, EndedLives DEF CallsInv, DisksKnown, DiskKnown
<1>4. OwnTask'
  BY <1>0, <1>2, EndedLives DEF CallsInv, OwnTask, DiskKnown
<1>5. DeleteAsked'
  BY <1>0, EndedLives DEF CallsInv, DeleteAsked, Running, Leaving
<1>6. DisksLive'
  <2>1. \A e \in Disks : e # d => (Lives(e) => Lives(e)')
    BY EndedLives DEF Lives, Ended, Exists, Running
  <2>2. QED
    BY <2>1, EndedLives DEF CallsInv, DisksLive
<1>7. QED
  BY <1>1, <1>3, <1>4, <1>5, <1>6 DEF CallsRest

LEMMA StepCallsInv ==
    ASSUME CallsInv, [Next]_vars
    PROVE  CallsInv'
<1>0. TypeInv /\ LockHeld /\ TypeInv' /\ LockHeld'
  BY StepTypeInv, StepLockHeld DEF CallsInv
<1>1. ASSUME UNCHANGED vars PROVE CallsRest'
  <2>1. UNCHANGED <<disks, h, vol, att>>
    BY <1>1 DEF vars
  <2>2. CallersKnown' /\ Serial' /\ Told'
    BY <2>1 DEF CallsInv, CallersKnown, Serial, Told, Waiting
  <2>3. DisksKnown' /\ OwnTask'
    BY <2>1 DEF CallsInv, DisksKnown, OwnTask, DiskKnown
  <2>4. DeleteAsked' /\ DisksLive'
    BY <2>1, SameDisks DEF CallsInv, DeleteAsked, Leaving
  <2>5. QED
    BY <2>2, <2>3, <2>4 DEF CallsRest
<1>2. ASSUME Restarts PROVE CallsRest'
  <2>1. /\ \A s \in Handlers : /\ h'[s] = Idle /\ h'[s].pc = "idle" /\ h'[s].op = "none"
                               /\ h'[s].caller = "none"
        /\ UNCHANGED <<disks, vol, att>>
    BY <1>2 DEF Restarts, Idle
  <2>2. CallersKnown' /\ Serial' /\ Told'
    BY <2>1 DEF CallersKnown, Serial, Told, Waiting
  <2>3. DisksKnown' /\ OwnTask'
    BY <2>1 DEF DisksKnown, OwnTask, DiskKnown
  <2>4. DeleteAsked' /\ DisksLive'
    BY <2>1, SameDisks DEF CallsInv, DeleteAsked, Leaving
  <2>5. QED
    BY <2>2, <2>3, <2>4 DEF CallsRest
<1>3. CallsRest'
  BY <1>0, <1>1, <1>2, StepKinds, BeginsKeepsCalls, GivesUpKeepsCalls, AnswersKeepsCalls,
     SubmitsKeepsCalls, QuietKeepsCalls, TaskKeepsCalls
<1>4. QED
  BY <1>0, <1>3 DEF CallsInv, CallsRest

LEMMA InitCallsInv == Init => CallsInv
<1> SUFFICES ASSUME Init PROVE CallsInv
  OBVIOUS
<1>1. TypeInv /\ LockHeld
  BY InitNameInv DEF NameInv
<1>2. \A s \in Handlers : /\ h[s] = Idle /\ h[s].pc = "idle" /\ h[s].op = "none"
                          /\ h[s].caller = "none"
  BY DEF Init, Idle
<1>3. CallersKnown /\ Serial /\ Told /\ OwnTask
  BY <1>2 DEF CallersKnown, Serial, Told, OwnTask, Waiting
<1>4. DisksKnown
  BY <1>2 DEF DisksKnown, DiskKnown
<1>5. \A d \in Disks : /\ disks[d].task.status = "none" /\ disks[d].vms = {}
                       /\ disks[d].st \in {"free", "ready"}
                       /\ Exists(d) => disks[d].name \in Names
  <2>1. PICK made \in SUBSET DOMAIN InitialDisks :
          disks = [d \in Disks |-> IF d \in made THEN InitDisk(d) ELSE FreeDisk]
    BY DEF Init
  <2>2. FreeDisk.st = "free" /\ \A d \in DOMAIN InitialDisks : InitDisk(d).st = "ready"
    BY DEF FreeDisk, InitDisk
  <2>3. QED
    BY <2>1, <2>2, InitDisks, InitialDisksAreSane DEF NoTask, Exists
<1>6. DeleteAsked
  BY <1>2, <1>5 DEF DeleteAsked, Running
<1>7. DisksLive
  BY <1>5 DEF DisksLive, Lives, Ended, Running
<1>8. QED
  BY <1>1, <1>3, <1>4, <1>6, <1>7 DEF CallsInv

(***************************************************************************)
(* What lookups say while they answer.                                     *)
(***************************************************************************)

(* How a step changes which disks have a name.                             *)
LEMMA NamedMoves ==
    ASSUME CallsInv
    PROVE  /\ \A s \in Handlers, d \in Disks : MadeBy(s, d) =>
                 \A n \in Names : /\ n # h[s].name => Named(n)' = Named(n)
                                  /\ Named(n) \subseteq Named(n)'
                                  /\ Named(n)' \subseteq Named(n) \union {d}
           /\ \A s \in Handlers, d \in Disks, kind \in {"delete", "attach", "detach"} :
                 StartedOn(s, d, kind) =>
                     \A n \in Names : Named(n)' = Named(n) /\ AttachedTo(n)' = AttachedTo(n)
           /\ \A d \in Disks : TaskResult(d) =>
                 \A n \in Names : Named(n)' \subseteq Named(n)
<1>1. ASSUME NEW s \in Handlers, NEW d \in Disks, MadeBy(s, d), NEW n \in Names
      PROVE  /\ n # h[s].name => Named(n)' = Named(n)
             /\ Named(n) \subseteq Named(n)'
             /\ Named(n)' \subseteq Named(n) \union {d}
  BY <1>1 DEF MadeBy, NewDisk, Named, Exists
<1>2. ASSUME NEW s \in Handlers, NEW d \in Disks, NEW kind \in {"delete", "attach", "detach"},
             StartedOn(s, d, kind), NEW n \in Names
      PROVE  Named(n)' = Named(n) /\ AttachedTo(n)' = AttachedTo(n)
  <2>1. Named(n)' = Named(n)
    BY <1>2 DEF StartedOn, Named, Exists
  <2>2. \A e \in Named(n) : disks'[e].vms = disks[e].vms
    BY <1>2 DEF StartedOn, Named
  <2>3. QED
    BY <2>1, <2>2 DEF AttachedTo
<1>3. ASSUME NEW d \in Disks, TaskResult(d), NEW n \in Names
      PROVE  Named(n)' \subseteq Named(n)
  BY <1>3, EndedLives DEF Named
<1>4. QED
  BY <1>1, <1>2, <1>3

LEMMA StepOnlyDisk ==
    ASSUME CallsInv, NameInv, OnlyDisk, [Next]_vars
    PROVE  OnlyDisk'
<1>0. /\ TypeInv /\ LockHeld
      /\ \A t \in Handlers : h[t].op \in Ops => h[t].name \in Names
  BY DEF CallsInv, CallersKnown, TypeInv, WellFormed, Idle, Ops
<1>1. ASSUME UNCHANGED disks, NEW s \in Handlers, \A t \in Handlers : t # s => h'[t] = h[t],
             /\ h'[s].op \in {"delete", "unpublish"}
             /\ h'[s].pc \in {"check", "submit", "wait", "rde"}
             => Named(h'[s].name) \subseteq {h'[s].disk}
      PROVE  OnlyDisk'
  BY <1>1 DEF OnlyDisk, Named, Exists
<1>2. CASE UNCHANGED vars
  BY <1>2 DEF vars, OnlyDisk, Named, Exists
<1>3. ASSUME NEW s \in Handlers, NEW op \in Ops, NEW n \in Names, NEW v \in Vms \union {None},
             Begins(s, op, n, v)
      PROVE  OnlyDisk'
  BY <1>1, <1>3 DEF Begins, Others
<1>4. ASSUME NEW s \in Handlers, GivesUp(s) \/ Answers(s) PROVE OnlyDisk'
  <2>1. CASE GivesUp(s)
    BY <1>1, <2>1 DEF GivesUp, Others, OnlyDisk
  <2>2. CASE Answers(s)
    BY <1>1, <2>2 DEF Answers, Others, Idle
  <2>3. QED
    BY <1>4, <2>1, <2>2
<1>5. ASSUME NEW s \in Handlers, Submits(s) PROVE OnlyDisk'
  <2>1. /\ \A t \in Handlers : t # s => h'[t] = h[t] /\ h[t].pc \notin {"check", "submit", "wait", "rde"}
        /\ h[s].pc = "submit" /\ h'[s].pc \in {"wait", "fail"}
        /\ h'[s].op = h[s].op /\ h'[s].name = h[s].name
    BY <1>0, <1>5, SubmitKinds DEF Submitted, Critical
  <2>2. ASSUME NEW d \in Disks, NEW kind \in {"delete", "attach", "detach"}, StartedOn(s, d, kind)
        PROVE  OnlyDisk'
    <3>1. h'[s].pc = "wait" => h'[s].disk = h[s].disk
      BY <2>2 DEF StartedOn
    <3>2. \A n \in Names : Named(n)' = Named(n)
      BY <2>2, NamedMoves
    <3>3. QED
      BY <1>0, <2>1, <3>1, <3>2 DEF OnlyDisk, Ops
  <2>3. CASE h[s].op = "create" \/ h'[s].pc = "fail"
    BY <2>1, <2>3 DEF OnlyDisk
  <2>4. QED
    BY <1>0, <1>5, <2>2, <2>3, SubmitKinds DEF MadeBy
<1>6. ASSUME NEW s \in Handlers, NEW pc \in Pcs, NEW d \in Disks \union {None}, Quiet(s, pc, d)
      PROVE  OnlyDisk'
  <2>1. /\ UNCHANGED disks /\ \A t \in Handlers : t # s => h'[t] = h[t]
        /\ h'[s].pc = pc /\ h'[s].disk = d /\ h'[s].op = h[s].op /\ h'[s].name = h[s].name
        /\ pc # "wait"
    BY <1>6 DEF Quiet, Moves
  <2>2. ASSUME h[s].op \in {"delete", "unpublish"}, pc \in {"check", "submit"}
        PROVE  Named(h[s].name) \subseteq {d}
    <3>1. (h[s].pc = "lookup" /\ d \in Named(h[s].name)) \/ (h[s].pc = "check" /\ d = h[s].disk)
      BY <1>6, <2>2 DEF Quiet, Learned, DiskFound
    <3>2. h[s].name \in Names
      BY <1>0, <2>2 DEF Ops
    <3>3. QED
      BY <2>2, <3>1, <3>2 DEF OnlyDisk, NameInv, OneDiskPerName
  <2>3. ASSUME h[s].op \in {"delete", "unpublish"}, pc = "rde"
        PROVE  Named(h[s].name) \subseteq {d}
    BY <1>6, <2>3 DEF Quiet, Learned, TaskSeen, OnlyDisk
  <2>4. QED
    BY <1>1, <2>1, <2>2, <2>3
<1>7. ASSUME NEW d \in Disks, TaskResult(d) PROVE OnlyDisk'
  <2>1. UNCHANGED h /\ \A n \in Names : Named(n)' \subseteq Named(n)
    BY <1>7, NamedMoves DEF TaskResult, TaskEnds
  <2>2. QED
    BY <1>0, <2>1 DEF OnlyDisk, Ops
<1>8. ASSUME Restarts PROVE OnlyDisk'
  BY <1>8 DEF Restarts, OnlyDisk, Idle
<1>9. QED
  BY <1>0, <1>2, <1>3, <1>4, <1>5, <1>6, <1>7, <1>8, StepKinds

(***************************************************************************)
(* Acknowledged deletions and publishes.                                   *)
(***************************************************************************)
LEMMA StepNobodyGone ==
    ASSUME CallsRunTheirCourse, CallsInv, NobodyGone, [Next]_vars
    PROVE  NobodyGone'
<1>0. TypeInv /\ LockHeld /\ ~May("timeout") /\ ~May("abort")
  BY DEF CallsInv, CallsRunTheirCourse, May
<1>1. CASE UNCHANGED vars
  BY <1>1 DEF vars, NobodyGone
<1>2. ASSUME NEW s \in Handlers, NEW op \in Ops, NEW n \in Names, NEW v \in Vms \union {None},
             Begins(s, op, n, v)
      PROVE  NobodyGone'
  BY <1>2 DEF Begins, Others, NobodyGone
<1>3. ASSUME NEW s \in Handlers, GivesUp(s) \/ Answers(s) PROVE NobodyGone'
  BY <1>0, <1>3 DEF GivesUp, Answers, Others, Idle, NobodyGone
<1>4. ASSUME NEW s \in Handlers, Submits(s) PROVE NobodyGone'
  <2>1. \A t \in Handlers : h'[t].caller = h[t].caller
    BY <1>0, <1>4, SubmitKinds DEF Submitted
  <2>2. \A d \in Disks : MadeBy(s, d) => NobodyGone'
    BY <2>1 DEF MadeBy, NewDisk, Started, NobodyGone
  <2>3. \A d \in Disks, kind \in {"delete", "attach", "detach"} : StartedOn(s, d, kind) => NobodyGone'
    BY <2>1 DEF StartedOn, NobodyGone
  <2>4. UNCHANGED disks => NobodyGone'
    BY <2>1 DEF NobodyGone
  <2>5. QED
    BY <1>0, <1>4, <2>2, <2>3, <2>4, SubmitKinds
<1>5. ASSUME NEW s \in Handlers, NEW pc \in Pcs, NEW d \in Disks \union {None}, Quiet(s, pc, d)
      PROVE  NobodyGone'
  BY <1>5 DEF Quiet, Moves, NobodyGone
<1>6. ASSUME NEW d \in Disks, TaskResult(d) PROVE NobodyGone'
  BY <1>0, <1>6 DEF TaskResult, TaskEnds, Does, DoesNot, NobodyGone
<1>7. ASSUME Restarts PROVE NobodyGone'
  BY <1>7 DEF Restarts, Idle, NobodyGone
<1>8. QED
  BY <1>0, <1>1, <1>2, <1>3, <1>4, <1>5, <1>6, <1>7, StepKinds

(* As nobody gives up, two handlers at work on the same thing are one.     *)
LEMMA NoTwins ==
    ASSUME CallsInv, NobodyGone, NEW s \in Handlers, NEW t \in Handlers,
           h[s].pc # "idle", h[t].pc # "idle", h[s].name = h[t].name, h[s].vm = h[t].vm,
           SameTarget(h[s].op, h[t].op)
    PROVE  s = t
BY DEF CallsInv, CallersKnown, NobodyGone, Serial, Waiting

(* A task the handler takes for a success was one.                         *)
LEMMA CompletedWell ==
    ASSUME CallsInv, NobodyGone, NEW s \in Handlers, h[s].pc = "wait", Completed(h[s].disk)
    PROVE  LET d == h[s].disk
           IN  /\ h[s].op = "delete" => ~Exists(d)
               /\ h[s].op = "publish" => h[s].vm \in disks[d].vms
               /\ h[s].op = "unpublish" => h[s].vm \notin disks[d].vms
<1>. DEFINE d == h[s].disk
<1>1. /\ d \in Disks /\ disks[d].task \in Task \union {NoTask} /\ Lives(d)
      /\ disks[d].task.status # "aborted"
  BY DEF CallsInv, DisksLive, TypeInv, TypeOK, WellFormed, DiskKnown, Disk, NobodyGone
<1>2. /\ <<h[s].op, disks[d].task.kind>> \in
            {<<"create", "create">>, <<"delete", "delete">>,
             <<"publish", "attach">>, <<"unpublish", "detach">>}
      /\ h[s].op \in {"publish", "unpublish"} => disks[d].task.vm = h[s].vm
  BY DEF CallsInv, OwnTask
<1>3. disks[d].task.status = "success"
  BY <1>1, <1>2 DEF Completed, Task, NoTask
<1>4. QED
  BY <1>2, <1>1, <1>3 DEF Lives, Ended, Exists

LEMMA StepDeleteDone ==
    ASSUME CallsInv, NameInv, LookupsAnswer, NobodyGone, OnlyDisk, DeleteDone, DeletedIsGone,
           [Next]_vars
    PROVE  DeleteDone' /\ DeletedIsGone'
<1>0. /\ TypeInv /\ LockHeld
      /\ \A t \in Handlers : h[t].op \in Ops => h[t].pc # "idle" /\ h[t].name \in Names
      /\ \A t \in Handlers : h[t].pc # "idle" => h[t].op \in Ops /\ h[t].name \in Names
  BY DEF CallsInv, CallersKnown, TypeInv, WellFormed, Idle, Ops
<1>1. ASSUME UNCHANGED disks, \A t \in Handlers : h'[t].op = "delete" /\ h'[t].pc \in {"rde", "ok"} =>
                 Named(h'[t].name) = {},
             \A n \in Names : vol'[n] = "deleted" => Named(n) = {}
      PROVE  DeleteDone' /\ DeletedIsGone'
  BY <1>1 DEF DeleteDone, DeletedIsGone, Named, Exists
<1>2. CASE UNCHANGED vars
  BY <1>1, <1>2 DEF vars, DeleteDone, DeletedIsGone
<1>3. ASSUME NEW s \in Handlers, NEW op \in Ops, NEW n \in Names, NEW v \in Vms \union {None},
             Begins(s, op, n, v)
      PROVE  DeleteDone' /\ DeletedIsGone'
  <2>1. UNCHANGED disks /\ h'[s].pc \in {"lock", "find"} /\ \A t \in Handlers : t # s => h'[t] = h[t]
    BY <1>3 DEF Begins, Others
  <2>2. \A m \in Names : vol'[m] = "deleted" => vol[m] = "deleted"
    BY <1>3 DEF Begins, SetsVol, SetsAtt, Ops
  <2>3. QED
    BY <1>1, <2>1, <2>2 DEF DeleteDone, DeletedIsGone
<1>4. ASSUME NEW s \in Handlers, GivesUp(s) PROVE DeleteDone' /\ DeletedIsGone'
  BY <1>4 DEF GivesUp, Waiting, NobodyGone, Others, DeleteDone, DeletedIsGone, Named, Exists
<1>5. ASSUME NEW s \in Handlers, Answers(s) PROVE DeleteDone' /\ DeletedIsGone'
  <2>1. /\ UNCHANGED disks /\ h'[s].op = "none" /\ \A t \in Handlers : t # s => h'[t] = h[t]
        /\ h[s].pc \in {"ok", "fail"} /\ h[s].op \in Ops
    BY <1>0, <1>5 DEF Answers, Others, Idle
  <2>2. \A m \in Names : vol'[m] = "deleted" /\ vol[m] # "deleted" =>
            h[s].op = "delete" /\ h[s].pc = "ok" /\ m = h[s].name
    BY <1>5, <2>1 DEF Answers, SetsVol, SetsAtt, Ops
  <2>3. QED
    BY <1>1, <2>1, <2>2 DEF DeleteDone, DeletedIsGone
<1>6. ASSUME NEW s \in Handlers, Submits(s) PROVE DeleteDone' /\ DeletedIsGone'
  <2>1. /\ h[s].pc = "submit" /\ h'[s].pc \in {"wait", "fail"} /\ vol' = vol
        /\ \A t \in Handlers : t # s => h'[t] = h[t]
    BY <1>0, <1>6, SubmitKinds DEF Submitted
  <2>2. CASE UNCHANGED disks
    BY <1>1, <2>1, <2>2 DEF DeleteDone, DeletedIsGone
  <2>3. ASSUME \A n \in Names : Named(n) = {} =>
                  \/ Named(n)' = {}
                  \/ /\ vol[n] # "deleted"
                     /\ \A t \in Handlers : h[t].op = "delete" => h[t].name # n
        PROVE  DeleteDone' /\ DeletedIsGone'
    BY <1>0, <2>1, <2>3 DEF DeleteDone, DeletedIsGone, Ops
  <2>4. ASSUME NEW d \in Disks, MadeBy(s, d) PROVE DeleteDone' /\ DeletedIsGone'
    <3>1. h[s].op = "create" /\ h[s].name \in Names
      BY <1>0, <2>1, <2>4 DEF MadeBy
    <3>2. vol[h[s].name] # "deleted"
      BY <2>1, <3>1 DEF CallsInv, CallersKnown, NobodyGone, Told, Waiting
    <3>3. \A t \in Handlers : h[t].op = "delete" => h[t].name # h[s].name
      BY <1>0, <2>1, <3>1, NoTwins DEF CallsInv, CallersKnown, SameTarget, Ops
    <3>4. \A n \in Names : n # h[s].name => Named(n)' = Named(n)
      BY <2>4, NamedMoves
    <3>5. QED
      BY <2>3, <3>2, <3>3, <3>4
  <2>5. ASSUME NEW d \in Disks, NEW kind \in {"delete", "attach", "detach"}, StartedOn(s, d, kind)
        PROVE  DeleteDone' /\ DeletedIsGone'
    BY <2>3, <2>5, NamedMoves
  <2>6. QED
    BY <1>0, <1>6, <2>2, <2>4, <2>5, SubmitKinds
<1>7. ASSUME NEW s \in Handlers, NEW pc \in Pcs, NEW d \in Disks \union {None}, Quiet(s, pc, d)
      PROVE  DeleteDone' /\ DeletedIsGone'
  <2>1. /\ UNCHANGED <<disks, vol>> /\ \A t \in Handlers : t # s => h'[t] = h[t]
        /\ h'[s].pc = pc /\ h'[s].op = h[s].op /\ h'[s].name = h[s].name
    BY <1>7 DEF Quiet, Moves
  <2>2. ASSUME h[s].op = "delete", pc = "rde" PROVE Named(h[s].name) = {}
    <3>1. h[s].pc = "wait" /\ Completed(h[s].disk)
      BY <1>7, <2>2 DEF Quiet, Learned, TaskSeen
    <3>2. ~Exists(h[s].disk) /\ Named(h[s].name) \subseteq {h[s].disk}
      BY <2>2, <3>1, CompletedWell DEF OnlyDisk
    <3>3. QED
      BY <3>2 DEF Named
  <2>3. ASSUME h[s].op = "delete", pc = "ok" PROVE Named(h[s].name) = {}
    <3>1. \/ h[s].pc = "lookup" /\ NotFound \in LookupResults(h[s].name)
          \/ h[s].pc = "rde"
      BY <1>7, <2>3 DEF Quiet, Learned, AnswerKnown
    <3>2. QED
      BY <1>0, <2>3, <3>1, NotFoundMeansNone DEF DeleteDone, NameInv, Ops
  <2>4. QED
    BY <1>1, <2>1, <2>2, <2>3 DEF DeleteDone, DeletedIsGone
<1>8. ASSUME NEW d \in Disks, TaskResult(d) PROVE DeleteDone' /\ DeletedIsGone'
  <2>1. UNCHANGED <<h, vol>> /\ \A n \in Names : Named(n)' \subseteq Named(n)
    BY <1>8, NamedMoves DEF TaskResult, TaskEnds
  <2>2. QED
    BY <1>0, <2>1 DEF DeleteDone, DeletedIsGone, Ops
<1>9. ASSUME Restarts PROVE DeleteDone' /\ DeletedIsGone'
  BY <1>1, <1>9 DEF Restarts, Idle, DeletedIsGone
<1>10. QED
  BY <1>0, <1>2, <1>3, <1>4, <1>5, <1>6, <1>7, <1>8, <1>9, StepKinds

LEMMA StepDetachKnown ==
    ASSUME CallsInv, NameInv, LookupsAnswer, NobodyGone, OnlyDisk, DetachKnown, [Next]_vars
    PROVE  DetachKnown'
<1>0. /\ TypeInv /\ LockHeld
      /\ \A t \in Handlers : h[t].pc # "idle" =>
            /\ h[t].op \in Ops /\ h[t].name \in Names /\ Waiting(t)
            /\ h[t].op \in {"publish", "unpublish"} => h[t].vm \in Vms
      /\ \A d \in Disks : Running(d) /\ disks[d].task.vm \in disks[d].vms =>
            /\ Exists(d) /\ d \in Named(disks[d].name) /\ disks[d].name \in Names
            /\ disks[d].task.vm \in Vms
  BY DEF CallsInv, CallersKnown, TypeInv, TypeOK, WellFormed, NobodyGone, Waiting, DisksLive, Lives,
         Named, Disk
<1>1. ASSUME UNCHANGED disks,
             \A e \in Disks :
                 Running(e) /\ disks[e].task.kind = "detach" /\ disks[e].task.vm \in disks[e].vms =>
                     /\ att'[<<disks[e].name, disks[e].task.vm>>] = "detaching"
                     /\ \A t \in Handlers :
                           h'[t].op = "unpublish" /\ h'[t].pc = "ok" =>
                               <<h'[t].name, h'[t].vm>> # <<disks[e].name, disks[e].task.vm>>
      PROVE  DetachKnown'
  BY <1>1 DEF DetachKnown, At, Running
<1>2. CASE UNCHANGED vars
  BY <1>1, <1>2 DEF vars, DetachKnown, At
<1>3. ASSUME NEW s \in Handlers, NEW op \in Ops, NEW n \in Names, NEW v \in Vms \union {None},
             Begins(s, op, n, v)
      PROVE  DetachKnown'
  <2>1. UNCHANGED disks /\ h'[s].pc \in {"lock", "find"} /\ \A t \in Handlers : t # s => h'[t] = h[t]
    BY <1>3 DEF Begins, Others
  <2>2. \A m \in Names, w \in Vms :
            att[<<m, w>>] = "detaching" => att'[<<m, w>>] = "detaching"
    BY <1>3 DEF Begins, SetsVol, SetsAtt, Ops
  <2>3. QED
    BY <1>0, <1>1, <2>1, <2>2 DEF DetachKnown, At
<1>4. ASSUME NEW s \in Handlers, GivesUp(s) PROVE DetachKnown'
  BY <1>1, <1>4 DEF GivesUp, Others, DetachKnown, At
<1>5. ASSUME NEW s \in Handlers, Answers(s) PROVE DetachKnown'
  <2>1. /\ UNCHANGED disks /\ h'[s].op = "none" /\ \A t \in Handlers : t # s => h'[t] = h[t]
        /\ h[s].pc \in {"ok", "fail"} /\ h[s].op \in Ops
    BY <1>0, <1>5 DEF Answers, Others, Idle
  <2>2. \A m \in Names, w \in Vms :
            att[<<m, w>>] = "detaching" =>
                \/ att'[<<m, w>>] = "detaching"
                \/ At(s, "unpublish", "ok") /\ m = h[s].name /\ w = h[s].vm
    BY <1>0, <1>5, <2>1 DEF Answers, SetsVol, SetsAtt, Ops, At, CallsInv, Told
  <2>3. QED
    BY <1>0, <1>1, <2>1, <2>2 DEF DetachKnown, At
<1>6. ASSUME NEW s \in Handlers, Submits(s) PROVE DetachKnown'
  <2>1. /\ h[s].pc = "submit" /\ h'[s].pc \in {"wait", "fail"} /\ att' = att
        /\ \A t \in Handlers : t # s => h'[t] = h[t]
    BY <1>0, <1>6, SubmitKinds DEF Submitted
  <2>2. CASE UNCHANGED disks
    BY <1>1, <2>1, <2>2 DEF DetachKnown, At
  <2>3. ASSUME NEW d \in Disks, MadeBy(s, d) PROVE DetachKnown'
    <3>1. /\ disks'[d].vms = {} /\ \A e \in Disks : e # d => disks'[e] = disks[e]
      BY <2>3 DEF MadeBy, NewDisk
    <3>2. QED
      BY <2>1, <3>1 DEF DetachKnown, At, Running
  <2>4. ASSUME NEW d \in Disks, NEW kind \in {"delete", "attach", "detach"}, StartedOn(s, d, kind)
        PROVE  DetachKnown'
    <3>1. /\ \A e \in Disks : e # d => disks'[e] = disks[e]
          /\ disks'[d].name = disks[d].name /\ disks'[d].task.kind = kind
          /\ disks'[d].task.vm = h[s].vm /\ d = h[s].disk
          /\ kind = "detach" => h[s].op = "unpublish"
      BY <2>4 DEF StartedOn
    <3>2. CASE kind # "detach"
      BY <2>1, <3>1, <3>2 DEF DetachKnown, At, Running
    <3>3. CASE kind = "detach"
      <4>1. h[s].op = "unpublish" /\ disks[d].name = h[s].name
        BY <2>1, <3>1, <3>3 DEF CallsInv, DisksKnown, DiskKnown
      <4>2. att[<<h[s].name, h[s].vm>>] = "detaching"
        BY <1>0, <2>1, <4>1 DEF CallsInv, Told
      <4>3. ASSUME NEW t \in Handlers, At(t, "unpublish", "ok")
            PROVE  <<h[t].name, h[t].vm>> # <<h[s].name, h[s].vm>>
        <5>1. t # s /\ h[t].pc # "idle" /\ SameTarget(h[s].op, h[t].op)
          BY <2>1, <4>1, <4>3 DEF At, SameTarget
        <5>2. QED
          BY <2>1, <5>1, NoTwins
      <4>4. QED
        BY <2>1, <3>1, <4>1, <4>2, <4>3 DEF DetachKnown, At, Running
    <3>4. QED
      BY <3>2, <3>3
  <2>5. QED
    BY <1>0, <1>6, <2>2, <2>3, <2>4, SubmitKinds
<1>7. ASSUME NEW s \in Handlers, NEW pc \in Pcs, NEW d \in Disks \union {None}, Quiet(s, pc, d)
      PROVE  DetachKnown'
  <2>1. /\ UNCHANGED <<disks, att>> /\ \A t \in Handlers : t # s => h'[t] = h[t]
        /\ h'[s].pc = pc /\ h'[s].op = h[s].op /\ h'[s].name = h[s].name /\ h'[s].vm = h[s].vm
        /\ h[s].pc # "idle"
    BY <1>7 DEF Quiet, Moves
  <2>2. ASSUME h[s].op = "unpublish", pc = "ok", NEW e \in Disks, Running(e),
               disks[e].task.vm \in disks[e].vms, h[s].name = disks[e].name,
               h[s].vm = disks[e].task.vm
        PROVE  FALSE
    <3>1. e \in Named(h[s].name) /\ h[s].name \in Names
      BY <1>0, <2>2
    <3>2. CASE NotFound \in LookupResults(h[s].name)
      BY <3>1, <3>2, NotFoundMeansNone DEF NameInv
    <3>3. CASE /\ d = h[s].disk /\ DiskKnown(s) /\ Exists(d) /\ h[s].vm \notin disks[d].vms
      <4>1. d \in Named(h[s].name)
        BY <1>0, <3>3 DEF TypeInv, WellFormed, CallsInv, DisksKnown, Named
      <4>2. d = e
        BY <3>1, <4>1 DEF NameInv, OneDiskPerName
      <4>3. QED
        BY <2>2, <3>3, <4>2
    <3>4. CASE d = h[s].disk /\ h[s].pc = "wait" /\ Completed(d)
      <4>1. e = d
        BY <2>2, <3>1, <3>4 DEF OnlyDisk
      <4>2. QED
        BY <2>2, <3>4, <4>1 DEF Completed, Running
    <3>5. QED
      BY <1>7, <2>2, <3>2, <3>3, <3>4 DEF Quiet, Learned, AnswerKnown
  <2>3. QED
    BY <1>1, <2>1, <2>2 DEF DetachKnown, At
<1>8. ASSUME NEW d \in Disks, TaskResult(d) PROVE DetachKnown'
  <2>1. /\ UNCHANGED <<h, att>> /\ ~Running(d)'
        /\ \A e \in Disks : e # d => disks'[e] = disks[e]
    BY <1>8, EndedLives DEF TaskResult, TaskEnds
  <2>2. QED
    BY <2>1 DEF DetachKnown, At, Running
<1>9. ASSUME Restarts PROVE DetachKnown'
  BY <1>1, <1>9 DEF Restarts, Idle, DetachKnown, At
<1>10. QED
  BY <1>0, <1>2, <1>3, <1>4, <1>5, <1>6, <1>7, <1>8, <1>9, StepKinds

(* A task takes a disk away only from a VM the orchestrator wants it to.   *)
LEMMA TaskKeepsAttached ==
    ASSUME CallsInv, DetachKnown, NEW d \in Disks, TaskResult(d), NEW n \in Names, NEW v \in Vms,
           v \in AttachedTo(n), att[<<n, v>>] # "detaching"
    PROVE  v \in AttachedTo(n)'
<1>1. PICK e \in Named(n) : v \in disks[e].vms
  BY DEF AttachedTo
<1>2. CASE e # d
  <2>1. e \in Named(n)' /\ disks'[e] = disks[e]
    BY <1>2, EndedLives DEF Named, Exists
  <2>2. QED
    BY <1>1, <2>1 DEF AttachedTo
<1>3. CASE e = d
  <2>1. /\ disks[d].name = n /\ Exists(d) /\ Lives(d) /\ Running(d)
        /\ disks[d].task.kind \in TaskKinds /\ disks'[d].name = n
    BY <1>1, <1>3, EndedLives DEF Named, CallsInv, DisksLive, TaskResult, TaskEnds, Task
  <2>2. disks[d].task.kind # "create"
    BY <1>1, <1>3, <2>1 DEF Lives, Ended, Running
  <2>3. ~(disks[d].task.kind = "detach" /\ disks[d].task.vm = v)
    BY <1>1, <1>3, <2>1 DEF DetachKnown
  <2>4. v \in disks'[d].vms /\ disks'[d].st = disks[d].st
    <3>1. CASE Does(d)
      BY <1>1, <1>3, <2>1, <2>2, <2>3, <3>1 DEF Does, TaskKinds
    <3>2. CASE DoesNot(d)
      BY <1>1, <1>3, <2>2, <3>2 DEF DoesNot
    <3>3. QED
      BY <3>1, <3>2 DEF TaskResult
  <2>5. d \in Named(n)'
    BY <2>1, <2>4 DEF Named, Exists
  <2>6. QED
    BY <2>4, <2>5 DEF AttachedTo
<1>4. QED
  BY <1>2, <1>3

LEMMA StepPublishDone ==
    ASSUME CallsInv, NobodyGone, DetachKnown, PublishDone, PublishedStaysAttached, [Next]_vars
    PROVE  PublishDone' /\ PublishedStaysAttached'
<1>0. /\ TypeInv /\ LockHeld
      /\ \A t \in Handlers : h[t].pc # "idle" =>
            /\ h[t].op \in Ops /\ h[t].name \in Names /\ Waiting(t)
            /\ h[t].op \in {"publish", "unpublish"} => h[t].vm \in Vms
  BY DEF CallsInv, CallersKnown, TypeInv, WellFormed, NobodyGone, Waiting
<1>1. ASSUME \A n \in Names : AttachedTo(n) \subseteq AttachedTo(n)',
             \A t \in Handlers : h'[t].op = "publish" /\ h'[t].pc = "ok" =>
                 h'[t].name \in Names /\ h'[t].vm \in AttachedTo(h'[t].name),
             \A n \in Names, v \in Vms : att'[<<n, v>>] = "attached" => v \in AttachedTo(n)
      PROVE  PublishDone' /\ PublishedStaysAttached'
  BY <1>1 DEF PublishDone, PublishedStaysAttached, At
<1>2. ASSUME UNCHANGED disks PROVE \A n \in Names : AttachedTo(n) \subseteq AttachedTo(n)'
  BY <1>2, SameDisks
<1>3. CASE UNCHANGED vars
  BY <1>0, <1>1, <1>2, <1>3 DEF vars, PublishDone, PublishedStaysAttached, At
<1>4. ASSUME NEW s \in Handlers, NEW op \in Ops, NEW n \in Names, NEW v \in Vms \union {None},
             Begins(s, op, n, v)
      PROVE  PublishDone' /\ PublishedStaysAttached'
  <2>1. UNCHANGED disks /\ h'[s].pc \in {"lock", "find"} /\ \A t \in Handlers : t # s => h'[t] = h[t]
    BY <1>4 DEF Begins, Others
  <2>2. \A m \in Names, w \in Vms :
            att'[<<m, w>>] = "attached" => att[<<m, w>>] = "attached"
    BY <1>4 DEF Begins, SetsVol, SetsAtt, Ops
  <2>3. QED
    BY <1>0, <1>1, <1>2, <2>1, <2>2 DEF PublishDone, PublishedStaysAttached, At
<1>5. ASSUME NEW s \in Handlers, GivesUp(s) PROVE PublishDone' /\ PublishedStaysAttached'
  BY <1>0, <1>1, <1>2, <1>5 DEF GivesUp, Others, PublishDone, PublishedStaysAttached, At
<1>6. ASSUME NEW s \in Handlers, Answers(s) PROVE PublishDone' /\ PublishedStaysAttached'
  <2>1. /\ UNCHANGED disks /\ h'[s].op = "none" /\ \A t \in Handlers : t # s => h'[t] = h[t]
        /\ h[s].pc \in {"ok", "fail"} /\ h[s].op \in Ops
    BY <1>0, <1>6 DEF Answers, Others, Idle
  <2>2. \A m \in Names, w \in Vms :
            att'[<<m, w>>] = "attached" =>
                \/ att[<<m, w>>] = "attached"
                \/ At(s, "publish", "ok") /\ m = h[s].name /\ w = h[s].vm
    BY <1>6, <2>1 DEF Answers, SetsVol, SetsAtt, Ops, At
  <2>3. QED
    BY <1>0, <1>1, <1>2, <2>1, <2>2 DEF PublishDone, PublishedStaysAttached, At
<1>7. ASSUME NEW s \in Handlers, Submits(s) PROVE PublishDone' /\ PublishedStaysAttached'
  <2>1. /\ h[s].pc = "submit" /\ h'[s].pc \in {"wait", "fail"} /\ att' = att
        /\ \A t \in Handlers : t # s => h'[t] = h[t]
    BY <1>0, <1>7, SubmitKinds DEF Submitted
  <2>2. ASSUME NEW d \in Disks, MadeBy(s, d), NEW n \in Names
        PROVE  AttachedTo(n) \subseteq AttachedTo(n)'
    <3>1. \A e \in Named(n) : e \in Named(n)' /\ disks'[e] = disks[e]
      BY <2>2 DEF MadeBy, Named, Exists
    <3>2. QED
      BY <3>1 DEF AttachedTo
  <2>3. \A n \in Names : AttachedTo(n) \subseteq AttachedTo(n)'
    BY <1>0, <1>2, <1>7, <2>2, SubmitKinds, NamedMoves
  <2>4. QED
    BY <1>0, <1>1, <2>1, <2>3 DEF PublishDone, PublishedStaysAttached, At
<1>8. ASSUME NEW s \in Handlers, NEW pc \in Pcs, NEW d \in Disks \union {None}, Quiet(s, pc, d)
      PROVE  PublishDone' /\ PublishedStaysAttached'
  <2>1. /\ UNCHANGED <<disks, att>> /\ \A t \in Handlers : t # s => h'[t] = h[t]
        /\ h'[s].pc = pc /\ h'[s].op = h[s].op /\ h'[s].name = h[s].name /\ h'[s].vm = h[s].vm
        /\ h[s].pc # "idle"
    BY <1>8 DEF Quiet, Moves
  <2>2. ASSUME h[s].op = "publish", pc = "ok" PROVE h[s].vm \in AttachedTo(h[s].name)
    <3>1. /\ d = h[s].disk /\ Exists(d) /\ DiskKnown(s)
          /\ \/ h[s].vm \in disks[d].vms
             \/ h[s].pc = "wait" /\ Completed(d)
      BY <1>8, <2>2 DEF Quiet, Learned, AnswerKnown
    <3>2. h[s].vm \in disks[d].vms
      BY <2>2, <3>1, CompletedWell
    <3>3. d \in Named(h[s].name)
      BY <1>0, <3>1 DEF TypeInv, WellFormed, CallsInv, DisksKnown, Named
    <3>4. QED
      BY <3>2, <3>3 DEF AttachedTo
  <2>3. QED
    BY <1>0, <1>1, <1>2, <2>1, <2>2 DEF PublishDone, PublishedStaysAttached, At
<1>9. ASSUME NEW d \in Disks, TaskResult(d) PROVE PublishDone' /\ PublishedStaysAttached'
  <2>1. UNCHANGED <<h, att>>
    BY <1>9 DEF TaskResult, TaskEnds
  <2>2. ASSUME NEW t \in Handlers, At(t, "publish", "ok")
        PROVE  h[t].name \in Names /\ \A n \in Names : n = h[t].name => h[t].vm \in AttachedTo(n)'
    <3>1. /\ h[t].name \in Names /\ h[t].vm \in Vms
          /\ att[<<h[t].name, h[t].vm>>] = "attaching" /\ h[t].vm \in AttachedTo(h[t].name)
      BY <1>0, <2>2 DEF At, CallsInv, Told, PublishDone
    <3>2. QED
      BY <1>9, <3>1, TaskKeepsAttached
  <2>3. ASSUME NEW n \in Names, NEW v \in Vms, att[<<n, v>>] = "attached"
        PROVE  v \in AttachedTo(n)'
    BY <1>9, <2>3, TaskKeepsAttached DEF PublishedStaysAttached
  <2>4. QED
    BY <2>1, <2>2, <2>3 DEF PublishDone, PublishedStaysAttached, At
<1>10. ASSUME Restarts PROVE PublishDone' /\ PublishedStaysAttached'
  BY <1>1, <1>2, <1>10 DEF Restarts, Idle, PublishedStaysAttached
<1>11. QED
  BY <1>0, <1>3, <1>4, <1>5, <1>6, <1>7, <1>8, <1>9, <1>10, StepKinds

LEMMA StepAnswersInv ==
    ASSUME CallsRunTheirCourse, AnswersInv, [Next]_vars
    PROVE  AnswersInv'
<1>1. LookupsAnswer
  BY DEF CallsRunTheirCourse
<1>2. QED
  BY <1>1, StepCallsInv, StepNameInv, StepNobodyGone, StepOnlyDisk, StepDeleteDone,
     StepDetachKnown, StepPublishDone
     DEF AnswersInv

LEMMA InitAnswersInv == Init => AnswersInv
<1> SUFFICES ASSUME Init PROVE AnswersInv
  OBVIOUS
<1>1. CallsInv /\ NameInv
  BY InitCallsInv, InitNameInv
<1>2. \A s \in Handlers : /\ h[s].pc = "idle" /\ h[s].op = "none" /\ h[s].caller = "none"
  BY DEF Init, Idle
<1>3. \A d \in Disks : disks[d].task.status = "none"
  BY InitDisks DEF NoTask
<1>4. NobodyGone /\ OnlyDisk /\ DeleteDone /\ PublishDone /\ DetachKnown
  BY <1>2, <1>3 DEF NobodyGone, OnlyDisk, DeleteDone, PublishDone, DetachKnown, At, Running
<1>5. DeletedIsGone /\ PublishedStaysAttached
  BY DEF Init, DeletedIsGone, PublishedStaysAttached
<1>6. QED
  BY <1>1, <1>4, <1>5 DEF AnswersInv

(* As long as lookups answer, no task is aborted and callers wait, a       *)
(* deletion that was acknowledged left no disk, whatever was lost or       *)
(* failed and wherever the process restarted: DeleteDisk's lookup and its  *)
(* task speak of the only disk of the name, and none is made while the     *)
(* orchestrator asks for the deletion.                                     *)
THEOREM AcknowledgedDeletion == ASSUME CallsRunTheirCourse PROVE Spec => []DeletedIsGone
<1>1. AnswersInv /\ [Next]_vars => AnswersInv'
  BY StepAnswersInv
<1>2. AnswersInv => DeletedIsGone
  BY DEF AnswersInv
<1>3. QED
  BY InitAnswersInv, <1>1, <1>2, PTL DEF Spec

(* Under the same assumptions a publish that was acknowledged stays in     *)
(* force until the orchestrator asks to undo it: no detach is left over    *)
(* from an unpublish that was answered, and a disk in use is not deleted.  *)
THEOREM AcknowledgedPublish == ASSUME CallsRunTheirCourse PROVE Spec => []PublishedStaysAttached
<1>1. AnswersInv /\ [Next]_vars => AnswersInv'
  BY StepAnswersInv
<1>2. AnswersInv => PublishedStaysAttached
  BY DEF AnswersInv
<1>3. QED
  BY InitAnswersInv, <1>1, <1>2, PTL DEF Spec

(***************************************************************************)
(* Acknowledged creations.                                                 *)
(***************************************************************************)

(* A deletion that was asked for is not taken back.                        *)
LEMMA LeavingStays ==
    ASSUME CallsInv, [Next]_vars, NEW n \in Names, Leaving(n)
    PROVE  Leaving(n)'
<1>0. TypeInv /\ LockHeld
  BY DEF CallsInv
<1>1. ASSUME UNCHANGED vol PROVE Leaving(n)'
  BY <1>1 DEF Leaving
<1>2. ASSUME NEW s \in Handlers, NEW op \in Ops, NEW m \in Names, NEW v \in Vms \union {None},
             Begins(s, op, m, v)
      PROVE  Leaving(n)'
  BY <1>2 DEF Begins, SetsVol, SetsAtt, Leaving, Ops
<1>3. ASSUME NEW s \in Handlers, Answers(s) PROVE Leaving(n)'
  <2>1. h[s].op \in Ops /\ h[s].name \in Names
    BY <1>0, <1>3 DEF Answers, TypeInv, WellFormed
  <2>2. QED
    BY <1>3, <2>1 DEF Answers, SetsVol, SetsAtt, Leaving, Ops, CallsInv, Told
<1>4. ASSUME NEW s \in Handlers, Submits(s) \/ GivesUp(s) PROVE UNCHANGED vol
  BY <1>4 DEF Submits, GivesUp
<1>5. ASSUME NEW s \in Handlers, NEW pc \in Pcs, NEW d \in Disks \union {None}, Quiet(s, pc, d)
      PROVE  UNCHANGED vol
  BY <1>5 DEF Quiet
<1>6. ASSUME NEW d \in Disks, TaskResult(d) PROVE UNCHANGED vol
  BY <1>6 DEF TaskResult, TaskEnds
<1>7. UNCHANGED vars \/ Restarts => UNCHANGED vol
  BY DEF vars, Restarts
<1>8. QED
  BY <1>0, <1>1, <1>2, <1>3, <1>4, <1>5, <1>6, <1>7, StepKinds

(* The disk a volume was created with.                                     *)
Usable(n, d) == d \in Named(n) /\ disks[d].st = "ready" /\ disks[d].spec = SpecOf[n]

(* A finished disk stays until the volume is to be deleted.                *)
LEMMA ReadyStays ==
    ASSUME CallsInv, [Next]_vars, NEW d \in Disks, disks[d].st = "ready"
    PROVE  \/ Leaving(disks[d].name)
           \/ /\ disks'[d].st = "ready"
              /\ disks'[d].name = disks[d].name /\ disks'[d].spec = disks[d].spec
<1>0. TypeInv /\ LockHeld
  BY DEF CallsInv
<1>1. CASE UNCHANGED disks
  BY <1>1
<1>2. ASSUME NEW s \in Handlers, Submits(s)
      PROVE  /\ disks'[d].st = "ready"
             /\ disks'[d].name = disks[d].name /\ disks'[d].spec = disks[d].spec
  BY <1>0, <1>2, SubmitKinds DEF MadeBy, StartedOn
<1>3. ASSUME NEW e \in Disks, TaskResult(e), ~Leaving(disks[d].name)
      PROVE  /\ disks'[d].st = "ready"
             /\ disks'[d].name = disks[d].name /\ disks'[d].spec = disks[d].spec
  <2>1. CASE e # d
    BY <1>3, <2>1, EndedLives
  <2>2. CASE e = d
    <3>1. /\ Running(d) /\ disks[d].task.kind \in TaskKinds /\ Lives(d)
      BY <1>3, <2>2 DEF TaskResult, TaskEnds, Task, CallsInv, DisksLive
    <3>2. disks[d].task.kind # "create"
      BY <3>1 DEF Lives, Ended, Running
    <3>3. disks[d].task.kind # "delete"
      BY <1>3, <3>1 DEF CallsInv, DeleteAsked
    <3>4. disks'[d].st = "ready"
      BY <1>3, <2>2, <3>1, <3>2, <3>3 DEF TaskResult, Does, DoesNot, TaskKinds
    <3>5. QED
      BY <1>3, <2>2, <3>4, EndedLives
  <2>3. QED
    BY <2>1, <2>2
<1>4. ASSUME NEW s \in Handlers, GivesUp(s) \/ Answers(s) PROVE UNCHANGED disks
  BY <1>4 DEF GivesUp, Answers
<1>5. ASSUME NEW s \in Handlers, NEW op \in Ops, NEW n \in Names, NEW v \in Vms \union {None},
             Begins(s, op, n, v)
      PROVE  UNCHANGED disks
  BY <1>5 DEF Begins
<1>6. ASSUME NEW s \in Handlers, NEW pc \in Pcs, NEW e \in Disks \union {None}, Quiet(s, pc, e)
      PROVE  UNCHANGED disks
  BY <1>6 DEF Quiet
<1>7. UNCHANGED vars \/ Restarts => UNCHANGED disks
  BY DEF vars, Restarts
<1>8. QED
  BY <1>0, <1>1, <1>2, <1>3, <1>4, <1>5, <1>6, <1>7, StepKinds

(* While handlers see their tasks through, VCD works on nothing but what   *)
(* the holder of the lock waits for.                                       *)
LEMMA NothingRuns ==
    ASSUME LockHeld, TasksAreAwaited, NEW s \in Handlers, h[s].pc \in Critical \ {"wait"},
           NEW d \in Disks
    PROVE  ~Running(d)
BY DEF LockHeld, TasksAreAwaited, Critical

(* CreateVolume answers with a finished disk, and a disk that was finished *)
(* stays so until its volume is to be deleted.                             *)
LEMMA StepCreateDone ==
    ASSUME CallsInv, SharingInv, CreateDone, CreatedIsReady, [Next]_vars
    PROVE  CreateDone' /\ CreatedIsReady'
<1>0. /\ TypeInv /\ LockHeld
      /\ \A t \in Handlers : h[t].op \in Ops => h[t].name \in Names
      /\ \A t \in Handlers : h[t].pc # "idle" => h[t].op \in Ops
  BY DEF CallsInv, CallersKnown, TypeInv, WellFormed, Idle, Ops
<1>1. ASSUME NEW n \in Names, NEW d \in Disks, Usable(n, d)
      PROVE  Leaving(n)' \/ Usable(n, d)'
  BY <1>1, LeavingStays, ReadyStays DEF Usable, Named, Exists
<1>2. ASSUME NEW n \in Names, vol'[n] = "created", NEW d \in Named(n), disks[d].st = "ready"
      PROVE  \E e \in Named(n)' : disks'[e].st = "ready"
  <2>1. ~Leaving(n)
    BY <1>2, LeavingStays DEF Leaving
  <2>2. d \in Named(n)' /\ disks'[d].st = "ready"
    BY <1>2, <2>1, ReadyStays DEF Named, Exists
  <2>3. QED
    BY <2>2
<1>3. ASSUME \A t \in Handlers : h'[t].op = "create" /\ h'[t].pc \in {"rde", "ok"} =>
                 /\ h'[t].name \in Names /\ h'[t].disk \in Disks \union {None}
                 /\ Leaving(h'[t].name) \/ Usable(h'[t].name, h'[t].disk)
                    \/ vol'[h'[t].name] \in {"deleting", "deleted"},
             \A n \in Names : vol'[n] = "created" =>
                 \E d \in Named(n) : disks[d].st = "ready"
      PROVE  CreateDone' /\ CreatedIsReady'
  <2>1. CreatedIsReady'
    BY <1>2, <1>3 DEF CreatedIsReady
  <2>2. ASSUME NEW t \in Handlers, h'[t].op = "create", h'[t].pc \in {"rde", "ok"}
        PROVE  \/ vol'[h'[t].name] \in {"deleting", "deleted"}
               \/ /\ h'[t].disk \in Disks /\ disks'[h'[t].disk].st = "ready"
                  /\ disks'[h'[t].disk].name = h'[t].name
                  /\ disks'[h'[t].disk].spec = SpecOf[h'[t].name]
    <3>. DEFINE n == h'[t].name
                d == h'[t].disk
    <3>1. n \in Names /\ (Leaving(n) \/ Usable(n, d) \/ vol'[n] \in {"deleting", "deleted"})
      BY <1>3, <2>2
    <3>2. Leaving(n) => vol'[n] \in {"deleting", "deleted"}
      <4>. HIDE DEF n
      <4>1. QED
        BY <3>1, LeavingStays DEF Leaving
    <3>3. Usable(n, d) => \/ vol'[n] \in {"deleting", "deleted"}
                          \/ /\ d \in Disks /\ disks'[d].st = "ready"
                             /\ disks'[d].name = n /\ disks'[d].spec = SpecOf[n]
      <4>1. Usable(n, d) => d \in Disks
        BY DEF Usable, Named
      <4>. HIDE DEF n, d
      <4>2. QED
        BY <1>1, <3>1, <4>1 DEF Usable, Named, Leaving
    <3>4. QED
      BY <3>1, <3>2, <3>3
  <2>3. CreateDone'
    BY <2>2 DEF CreateDone, Leaving, Named, Exists
  <2>4. QED
    BY <2>1, <2>3
<1>4. \A t \in Handlers : h[t].op = "create" /\ h[t].pc \in {"rde", "ok"} =>
          /\ h[t].name \in Names /\ h[t].disk \in Disks \union {None}
          /\ Leaving(h[t].name) \/ Usable(h[t].name, h[t].disk)
  BY <1>0 DEF CreateDone, Usable, TypeInv, TypeOK, Handler, Ops
<1>5. CASE UNCHANGED vars
  BY <1>3, <1>4, <1>5 DEF vars, CreatedIsReady
<1>6. ASSUME NEW s \in Handlers, NEW op \in Ops, NEW n \in Names, NEW v \in Vms \union {None},
             Begins(s, op, n, v)
      PROVE  CreateDone' /\ CreatedIsReady'
  <2>1. h'[s].pc \in {"lock", "find"} /\ \A t \in Handlers : t # s => h'[t] = h[t]
    BY <1>6 DEF Begins, Others
  <2>2. \A m \in Names : vol'[m] = "created" => vol[m] = "created"
    BY <1>6 DEF Begins, SetsVol, SetsAtt, Ops
  <2>3. QED
    BY <1>3, <1>4, <2>1, <2>2 DEF CreatedIsReady
<1>7. ASSUME NEW s \in Handlers, GivesUp(s) PROVE CreateDone' /\ CreatedIsReady'
  <2>1. /\ vol' = vol
        /\ \A t \in Handlers : /\ h'[t].pc = h[t].pc /\ h'[t].op = h[t].op
                               /\ h'[t].disk = h[t].disk /\ h'[t].name = h[t].name
    BY <1>7 DEF GivesUp, Others
  <2>2. QED
    BY <1>3, <1>4, <2>1 DEF CreatedIsReady
<1>8. ASSUME NEW s \in Handlers, Answers(s) PROVE CreateDone' /\ CreatedIsReady'
  <2>1. /\ h'[s].op = "none" /\ \A t \in Handlers : t # s => h'[t] = h[t]
        /\ h[s].pc \in {"ok", "fail"} /\ h[s].op \in Ops
    BY <1>0, <1>8 DEF Answers, Others, Idle
  <2>2. \A m \in Names : vol'[m] = "created" /\ vol[m] # "created" =>
            h[s].op = "create" /\ h[s].pc = "ok" /\ m = h[s].name /\ Waiting(s)
    BY <1>8, <2>1 DEF Answers, SetsVol, SetsAtt, Ops
  <2>3. ASSUME NEW m \in Names, vol'[m] = "created", vol[m] # "created"
        PROVE  \E d \in Named(m) : disks[d].st = "ready"
    <3>1. h[s].op = "create" /\ h[s].pc = "ok" /\ m = h[s].name /\ ~Leaving(m)
      BY <2>2, <2>3 DEF CallsInv, Told, Leaving
    <3>2. Usable(m, h[s].disk)
      BY <1>4, <3>1
    <3>3. QED
      BY <3>2 DEF Usable
  <2>4. QED
    BY <1>3, <1>4, <2>1, <2>3 DEF CreatedIsReady
<1>9. ASSUME NEW s \in Handlers, Submits(s) PROVE CreateDone' /\ CreatedIsReady'
  <2>1. /\ h'[s].pc \in {"wait", "fail"} /\ vol' = vol
        /\ \A t \in Handlers : t # s => h'[t] = h[t]
    BY <1>0, <1>9, SubmitKinds DEF Submitted
  <2>2. QED
    BY <1>3, <1>4, <2>1 DEF CreatedIsReady
<1>10. ASSUME NEW s \in Handlers, NEW pc \in Pcs, NEW d \in Disks \union {None}, Quiet(s, pc, d)
      PROVE  CreateDone' /\ CreatedIsReady'
  <2>1. /\ vol' = vol /\ \A t \in Handlers : t # s => h'[t] = h[t]
        /\ h'[s].pc = pc /\ h'[s].op = h[s].op /\ h'[s].name = h[s].name /\ h'[s].disk = d
        /\ h[s].pc # "idle"
    BY <1>10 DEF Quiet, Moves
  <2>2. ASSUME h[s].op = "create", pc = "rde" PROVE Usable(h[s].name, d)
    <3>1. h[s].pc = "wait" /\ d = h[s].disk /\ Completed(d) /\ Exists(d) /\ d \in Disks
      BY <1>10, <2>2 DEF Quiet, NeedsDisk, Learned, TaskSeen
    <3>2. disks[d].name = h[s].name /\ disks[d].spec = SpecOf[h[s].name] /\ Lives(d)
      BY <2>2, <3>1 DEF CallsInv, DisksKnown, DiskKnown, DisksLive
    <3>3. disks[d].st = "ready"
      BY <3>1, <3>2 DEF Completed, Lives, Ended, Exists
    <3>4. QED
      BY <3>1, <3>2, <3>3 DEF Usable, Named
  <2>3. ASSUME h[s].op = "create", pc = "ok"
        PROVE  Leaving(h[s].name) \/ Usable(h[s].name, d)
    <3>1. \/ /\ h[s].pc = "lookup" /\ d \in Named(h[s].name)
             /\ disks[d].spec = SpecOf[h[s].name]
          \/ h[s].pc = "rde" /\ d = h[s].disk
      BY <1>10, <2>3 DEF Quiet, Learned, AnswerKnown
    <3>2. CASE /\ h[s].pc = "lookup" /\ d \in Named(h[s].name)
               /\ disks[d].spec = SpecOf[h[s].name]
      <4>1. d \in Disks /\ Exists(d) /\ ~Running(d) /\ Lives(d)
        BY <3>2, NothingRuns DEF Named, SharingInv, CallsInv, DisksLive, Critical
      <4>2. disks[d].st = "ready"
        BY <4>1 DEF Exists, Lives, Ended, Running
      <4>3. QED
        BY <3>2, <4>2 DEF Usable
    <3>3. CASE h[s].pc = "rde" /\ d = h[s].disk
      BY <1>4, <2>3, <3>3
    <3>4. QED
      BY <3>1, <3>2, <3>3
  <2>4. QED
    BY <1>0, <1>3, <1>4, <2>1, <2>2, <2>3 DEF CreatedIsReady, Ops
<1>11. ASSUME NEW d \in Disks, TaskResult(d) PROVE CreateDone' /\ CreatedIsReady'
  BY <1>3, <1>4, <1>11 DEF TaskResult, TaskEnds, CreatedIsReady
<1>12. ASSUME Restarts PROVE CreateDone' /\ CreatedIsReady'
  BY <1>3, <1>12 DEF Restarts, Idle, CreatedIsReady
<1>13. QED
  BY <1>0, <1>5, <1>6, <1>7, <1>8, <1>9, <1>10, <1>11, <1>12, StepKinds

LEMMA StepCreatedInv ==
    ASSUME SeesTasksThrough, CreatedInv, [Next]_vars
    PROVE  CreatedInv'
BY StepCallsInv, StepSharingInv, StepCreateDone DEF CreatedInv

LEMMA InitCreatedInv == Init => CreatedInv
<1> SUFFICES ASSUME Init PROVE CreatedInv
  OBVIOUS
<1>1. CreateDone
  BY DEF Init, Idle, CreateDone
<1>2. CreatedIsReady
  <2>1. PICK made \in SUBSET DOMAIN InitialDisks :
          /\ disks = [d \in Disks |-> IF d \in made THEN InitDisk(d) ELSE FreeDisk]
          /\ \A n \in Names : vol[n] = "created" => \E d \in made : InitialDisks[d].name = n
    BY DEF Init
  <2>2. \A d \in made : d \in Disks /\ disks[d].st = "ready" /\ disks[d].name = InitialDisks[d].name
    BY <2>1, InitialDisksAreSane DEF InitDisk, FreeDisk
  <2>3. \A d \in made : d \in Named(InitialDisks[d].name)
    BY <2>2 DEF Named, Exists
  <2>4. QED
    BY <2>1, <2>2, <2>3 DEF CreatedIsReady
<1>3. QED
  BY <1>1, <1>2, InitCallsInv, InitSharingInv DEF CreatedInv

(* As long as handlers see their tasks through, a volume acknowledged to   *)
(* be created has a finished disk until the orchestrator asks to delete    *)
(* it, even where callers give up and tasks are aborted: CreateDisk        *)
(* returns an existing disk without asking whether it is finished, but an  *)
(* unfinished one has its handler waiting for it under the lock.           *)
THEOREM AcknowledgedCreation == ASSUME SeesTasksThrough PROVE Spec => []CreatedIsReady
<1>1. CreatedInv /\ [Next]_vars => CreatedInv'
  BY StepCreatedInv
<1>2. CreatedInv => CreatedIsReady
  BY DEF CreatedInv
<1>3. QED
  BY InitCreatedInv, <1>1, <1>2, PTL DEF Spec

(***************************************************************************)
(* Acknowledged unpublishes.                                               *)
(***************************************************************************)

(* A task attaches a disk only to a VM the orchestrator wants it on.       *)
LEMMA TaskKeepsDetached ==
    ASSUME CallsInv, NobodyGone, SharingInv, NEW d \in Disks, TaskResult(d),
           NEW n \in Names, NEW v \in Vms, v \notin AttachedTo(n), att[<<n, v>>] # "attaching"
    PROVE  v \notin AttachedTo(n)'
<1>1. SUFFICES ASSUME NEW e \in Named(n)', v \in disks'[e].vms PROVE FALSE
  BY DEF AttachedTo
<1>2. e \in Named(n)
  BY NamedMoves
<1>3. v \notin disks[e].vms
  BY <1>2 DEF AttachedTo
<1>4. e = d
  BY <1>1, <1>2, <1>3, EndedLives DEF Named
<1>5. disks[d].task.kind = "attach" /\ disks[d].task.vm = v
  BY <1>1, <1>2, <1>3, <1>4 DEF TaskResult, TaskEnds, Named
<1>6. PICK s \in Handlers : h[s].pc = "wait" /\ h[s].disk = d
  BY DEF SharingInv, TasksAreAwaited, TaskResult, TaskEnds
<1>7. h[s].op = "publish" /\ h[s].vm = v /\ Waiting(s) /\ h[s].name = n
  BY <1>2, <1>4, <1>5, <1>6
     DEF CallsInv, OwnTask, CallersKnown, NobodyGone, Waiting, DisksKnown, DiskKnown, Named
<1>8. QED
  BY <1>7 DEF CallsInv, Told

LEMMA StepUnpublishDone ==
    ASSUME LookupsAnswer, AnswersInv, CreatedInv, UnpublishDone, UnpublishedStaysDetached,
           [Next]_vars
    PROVE  UnpublishDone' /\ UnpublishedStaysDetached'
<1>0. /\ TypeInv /\ LockHeld /\ CallsInv /\ NameInv /\ NobodyGone /\ SharingInv
      /\ \A t \in Handlers : h[t].pc # "idle" =>
            /\ h[t].op \in Ops /\ h[t].name \in Names /\ Waiting(t)
            /\ h[t].op \in {"publish", "unpublish"} => h[t].vm \in Vms
  BY DEF AnswersInv, CreatedInv, CallsInv, CallersKnown, TypeInv, WellFormed, NobodyGone, Waiting
<1>1. ASSUME \A n \in Names : AttachedTo(n)' \subseteq AttachedTo(n),
             \A t \in Handlers : h'[t].op = "unpublish" /\ h'[t].pc = "ok" =>
                 h'[t].name \in Names /\ h'[t].vm \notin AttachedTo(h'[t].name),
             \A n \in Names, v \in Vms : att'[<<n, v>>] = "detached" => v \notin AttachedTo(n)
      PROVE  UnpublishDone' /\ UnpublishedStaysDetached'
  BY <1>1 DEF UnpublishDone, UnpublishedStaysDetached, At
<1>2. ASSUME UNCHANGED disks PROVE \A n \in Names : AttachedTo(n)' \subseteq AttachedTo(n)
  BY <1>2, SameDisks
<1>3. CASE UNCHANGED vars
  BY <1>0, <1>1, <1>2, <1>3 DEF vars, UnpublishDone, UnpublishedStaysDetached, At
<1>4. ASSUME NEW s \in Handlers, NEW op \in Ops, NEW n \in Names, NEW v \in Vms \union {None},
             Begins(s, op, n, v)
      PROVE  UnpublishDone' /\ UnpublishedStaysDetached'
  <2>1. UNCHANGED disks /\ h'[s].pc \in {"lock", "find"} /\ \A t \in Handlers : t # s => h'[t] = h[t]
    BY <1>4 DEF Begins, Others
  <2>2. \A m \in Names, w \in Vms :
            att'[<<m, w>>] = "detached" => att[<<m, w>>] = "detached"
    BY <1>4 DEF Begins, SetsVol, SetsAtt, Ops
  <2>3. QED
    BY <1>0, <1>1, <1>2, <2>1, <2>2 DEF UnpublishDone, UnpublishedStaysDetached, At
<1>5. ASSUME NEW s \in Handlers, GivesUp(s) PROVE UnpublishDone' /\ UnpublishedStaysDetached'
  BY <1>0, <1>1, <1>2, <1>5 DEF GivesUp, Others, UnpublishDone, UnpublishedStaysDetached, At
<1>6. ASSUME NEW s \in Handlers, Answers(s) PROVE UnpublishDone' /\ UnpublishedStaysDetached'
  <2>1. /\ UNCHANGED disks /\ h'[s].op = "none" /\ \A t \in Handlers : t # s => h'[t] = h[t]
        /\ h[s].pc \in {"ok", "fail"} /\ h[s].op \in Ops
    BY <1>0, <1>6 DEF Answers, Others, Idle
  <2>2. \A m \in Names, w \in Vms :
            att'[<<m, w>>] = "detached" =>
                \/ att[<<m, w>>] = "detached"
                \/ At(s, "unpublish", "ok") /\ m = h[s].name /\ w = h[s].vm
    BY <1>6, <2>1 DEF Answers, SetsVol, SetsAtt, Ops, At
  <2>3. QED
    BY <1>0, <1>1, <1>2, <2>1, <2>2 DEF UnpublishDone, UnpublishedStaysDetached, At
<1>7. ASSUME NEW s \in Handlers, Submits(s) PROVE UnpublishDone' /\ UnpublishedStaysDetached'
  <2>1. /\ h[s].pc = "submit" /\ h'[s].pc \in {"wait", "fail"} /\ att' = att
        /\ \A t \in Handlers : t # s => h'[t] = h[t]
    BY <1>0, <1>7, SubmitKinds DEF Submitted
  <2>2. ASSUME NEW d \in Disks, MadeBy(s, d), NEW n \in Names
        PROVE  AttachedTo(n)' \subseteq AttachedTo(n)
    <3>1. \A e \in Named(n)' : e \in Named(n) \/ e = d
      BY <1>0, <2>2, NamedMoves
    <3>2. disks'[d].vms = {} /\ \A e \in Disks : e # d => disks'[e] = disks[e]
      BY <2>2 DEF MadeBy, NewDisk
    <3>3. ASSUME NEW e \in Named(n)', NEW v \in disks'[e].vms PROVE v \in AttachedTo(n)
      BY <3>1, <3>2, <3>3 DEF AttachedTo, Named
    <3>4. QED
      BY <3>3 DEF AttachedTo
  <2>3. \A n \in Names : AttachedTo(n)' \subseteq AttachedTo(n)
    BY <1>0, <1>2, <1>7, <2>2, SubmitKinds, NamedMoves
  <2>4. QED
    BY <1>0, <1>1, <2>1, <2>3 DEF UnpublishDone, UnpublishedStaysDetached, At
<1>8. ASSUME NEW s \in Handlers, NEW pc \in Pcs, NEW d \in Disks \union {None}, Quiet(s, pc, d)
      PROVE  UnpublishDone' /\ UnpublishedStaysDetached'
  <2>1. /\ UNCHANGED <<disks, att>> /\ \A t \in Handlers : t # s => h'[t] = h[t]
        /\ h'[s].pc = pc /\ h'[s].op = h[s].op /\ h'[s].name = h[s].name /\ h'[s].vm = h[s].vm
        /\ h[s].pc # "idle"
    BY <1>8 DEF Quiet, Moves
  <2>2. ASSUME h[s].op = "unpublish", pc = "ok" PROVE h[s].vm \notin AttachedTo(h[s].name)
    <3>1. SUFFICES ASSUME NEW e \in Named(h[s].name), h[s].vm \in disks[e].vms PROVE FALSE
      BY DEF AttachedTo
    <3>2. h[s].name \in Names
      BY <1>0, <2>1
    <3>3. CASE NotFound \in LookupResults(h[s].name)
      BY <3>1, <3>2, <3>3, <1>0, NotFoundMeansNone DEF NameInv
    <3>4. CASE d = h[s].disk /\ DiskKnown(s) /\ Exists(d) /\ h[s].vm \notin disks[d].vms
      <4>1. d \in Named(h[s].name)
        BY <1>0, <3>4 DEF TypeInv, WellFormed, CallsInv, DisksKnown, Named
      <4>2. QED
        BY <1>0, <3>1, <3>2, <3>4, <4>1 DEF NameInv, OneDiskPerName
    <3>5. CASE d = h[s].disk /\ h[s].pc = "wait" /\ Completed(d)
      <4>1. e = d
        BY <2>2, <3>1, <3>5 DEF AnswersInv, OnlyDisk
      <4>2. QED
        BY <1>0, <2>2, <3>1, <3>5, <4>1, CompletedWell
    <3>6. QED
      BY <1>8, <2>2, <3>3, <3>4, <3>5 DEF Quiet, Learned, AnswerKnown
  <2>3. QED
    BY <1>0, <1>1, <1>2, <2>1, <2>2 DEF UnpublishDone, UnpublishedStaysDetached, At
<1>9. ASSUME NEW d \in Disks, TaskResult(d) PROVE UnpublishDone' /\ UnpublishedStaysDetached'
  <2>1. UNCHANGED <<h, att>>
    BY <1>9 DEF TaskResult, TaskEnds
  <2>2. ASSUME NEW t \in Handlers, At(t, "unpublish", "ok")
        PROVE  h[t].name \in Names /\ \A n \in Names : n = h[t].name => h[t].vm \notin AttachedTo(n)'
    <3>1. /\ h[t].name \in Names /\ h[t].vm \in Vms
          /\ att[<<h[t].name, h[t].vm>>] = "detaching" /\ h[t].vm \notin AttachedTo(h[t].name)
      BY <1>0, <2>2 DEF At, CallsInv, Told, UnpublishDone
    <3>2. QED
      BY <1>0, <1>9, <3>1, TaskKeepsDetached
  <2>3. ASSUME NEW n \in Names, NEW v \in Vms, att[<<n, v>>] = "detached"
        PROVE  v \notin AttachedTo(n)'
    BY <1>0, <1>9, <2>3, TaskKeepsDetached DEF UnpublishedStaysDetached
  <2>4. QED
    BY <2>1, <2>2, <2>3 DEF UnpublishDone, UnpublishedStaysDetached, At
<1>10. ASSUME Restarts PROVE UnpublishDone' /\ UnpublishedStaysDetached'
  BY <1>1, <1>2, <1>10 DEF Restarts, Idle, UnpublishedStaysDetached
<1>11. QED
  BY <1>0, <1>3, <1>4, <1>5, <1>6, <1>7, <1>8, <1>9, <1>10, StepKinds

LEMMA StepPromisesInv ==
    ASSUME CallsRunTheirCourse, SeesTasksThrough, PromisesInv, [Next]_vars
    PROVE  PromisesInv'
<1>1. LookupsAnswer
  BY DEF CallsRunTheirCourse
<1>2. QED
  BY <1>1, StepAnswersInv, StepCreatedInv, StepUnpublishDone DEF PromisesInv

LEMMA InitPromisesInv == Init => PromisesInv
<1> SUFFICES ASSUME Init PROVE PromisesInv
  OBVIOUS
<1>1. UnpublishDone
  BY DEF Init, Idle, UnpublishDone, At
<1>2. UnpublishedStaysDetached
  BY InitDisks DEF UnpublishedStaysDetached, AttachedTo, Named
<1>3. QED
  BY <1>1, <1>2, InitAnswersInv, InitCreatedInv DEF PromisesInv

(* When besides the callers wait, lookups answer and no task is aborted,   *)
(* an unpublish that was acknowledged stays in force: no attach is left    *)
(* over from a publish, since its handler waited for the task to end.      *)
THEOREM AcknowledgedUnpublish ==
    ASSUME CallsRunTheirCourse, SeesTasksThrough
    PROVE  Spec => []UnpublishedStaysDetached
<1>1. PromisesInv /\ [Next]_vars => PromisesInv'
  BY StepPromisesInv
<1>2. PromisesInv => UnpublishedStaysDetached
  BY DEF PromisesInv
<1>3. QED
  BY InitPromisesInv, <1>1, <1>2, PTL DEF Spec
=============================================================================
