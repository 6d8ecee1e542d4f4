------------------------ MODULE CsiControllerProofs ------------------------
(***************************************************************************)
(* Proofs about CsiController: type correctness, that the driver makes at  *)
(* most one disk of a name whatever fails, and that it attaches a disk     *)
(* that is not shareable to one VM as long as it sees its tasks through.   *)
(***************************************************************************)
EXTENDS CsiController, TLAPS

(* GetDiskByNameOrId gives a disk of the name, or one of the two errors.   *)
LEMMA LookupIsTyped ==
    ASSUME NEW n \in Names, NEW r \in LookupResults(n)
    PROVE  r \in Disks \/ r = NotFound \/ r = Failed
BY DEF LookupResults, Named

(* With a zone map an OVDC that cannot be asked counts as one without the  *)
(* disk; every other lookup that fails says so.                            *)
LookupsAnswer == ZoneMapped => ~May("api")

(* Then "not found" means that there is no such disk.                      *)
LEMMA NotFoundMeansNone ==
    ASSUME LookupsAnswer, OneDiskPerName, NEW n \in Names, NotFound \in LookupResults(n)
    PROVE  Named(n) = {}
<1>1. NotFound \notin Disks /\ NotFound # Failed
  BY NamesAreDistinct
<1>2. \A d, e \in Named(n) : d = e
  BY DEF OneDiskPerName
<1>3. QED
  BY <1>1, <1>2 DEF LookupResults, LookupsAnswer, Named

(* A disk GetDiskByNameOrId gives has the name and exists.                 *)
LEMMA FoundIsNamed ==
    ASSUME NEW n \in Names, NEW d \in Disks, d \in LookupResults(n)
    PROVE  d \in Named(n)
BY NamesAreDistinct DEF LookupResults, Named

(***************************************************************************)
(* Type correctness.                                                       *)
(***************************************************************************)

(* What a handler's step does to the handlers: s moves to pc with disk d.   *)
Pcs == {"idle", "find", "peek", "lock", "ok", "fail"} \union Critical

Moves(s, pc, d) ==
    /\ h' \in [Handlers -> Handler]
    /\ \A t \in Handlers \ {s} : h'[t] = h[t]
    /\ h'[s].pc = pc /\ h'[s].disk = d
    /\ h'[s].op = h[s].op /\ h'[s].name = h[s].name /\ h'[s].vm = h[s].vm
    /\ h'[s].caller = h[s].caller

LEMMA GotoMoves ==
    ASSUME h \in [Handlers -> Handler], NEW s \in Handlers, NEW pc \in Pcs, Goto(s, pc)
    PROVE  Moves(s, pc, h[s].disk)
<1>1. h[s] \in Handler
  OBVIOUS
<1>2. [h[s] EXCEPT !.pc = pc] \in Handler
  BY <1>1 DEF Handler, Pcs
<1>3. QED
  BY <1>1, <1>2 DEF Goto, Moves, Handler

LEMMA GotoWithMoves ==
    ASSUME h \in [Handlers -> Handler], NEW s \in Handlers, NEW pc \in Pcs, NEW d \in Disks,
           GotoWith(s, pc, d)
    PROVE  Moves(s, pc, d)
<1>1. h[s] \in Handler
  OBVIOUS
<1>2. [h[s] EXCEPT !.pc = pc, !.disk = d] \in Handler
  BY <1>1 DEF Handler, Pcs
<1>3. QED
  BY <1>1, <1>2 DEF GotoWith, Moves, Handler

(* A handler's step keeps everything well formed if it knows its disk.     *)
LEMMA MovesKeepsTypes ==
    ASSUME TypeInv, NEW s \in Handlers, NEW pc \in Pcs, NEW d, Moves(s, pc, d),
           h[s].pc # "idle", UNCHANGED <<vol, att>>, rde' \subseteq Disks,
           disks' \in [Disks -> Disk],
           \A e \in Disks : disks'[e].task.kind = "attach" => disks'[e].task.vm \in Vms,
           lock' \in Handlers \union {None},
           \/ pc \in {"peek", "check", "wait", "rde"}
           \/ pc = "submit" /\ h[s].op # "create"
           \/ pc = "lock" /\ h[s].op = "publish"
           => d \in Disks,
           pc # "find", pc = "rde" => h[s].op \in {"create", "delete"}
    PROVE  TypeInv'
<1>1. TypeOK'
  BY DEF TypeInv, TypeOK, Moves
<1>2. ASSUME NEW t \in Handlers
      PROVE  /\ h'[t].pc # "idle" => h'[t].op \in Ops /\ h'[t].name \in Names
             /\ h'[t].op \in {"publish", "unpublish"} => h'[t].vm \in Vms
             /\ h'[t].pc = "find" => h'[t].op \in {"publish", "unpublish"}
             /\ h'[t].pc = "rde" => h'[t].op \in {"create", "delete"}
             /\ DiskKnown(t)' => h'[t].disk \in Disks
  <2>1. CASE t = s
    BY <2>1 DEF TypeInv, WellFormed, Moves, DiskKnown
  <2>2. CASE t # s
    BY <2>2 DEF TypeInv, WellFormed, Moves, DiskKnown
  <2>3. QED
    BY <2>1, <2>2
<1>3. QED
  BY <1>1, <1>2 DEF TypeInv, WellFormed

(* At first there are disks made by hand, which nothing has happened to,   *)
(* and no others.                                                          *)
LEMMA InitDisks ==
  ASSUME Init
  PROVE  /\ disks \in [Disks -> Disk]
         /\ \A d \in Disks :
               /\ disks[d].task = NoTask /\ disks[d].vms = {}
               /\ disks[d].st \in {"creating", "ready"} =>
                     d \in DOMAIN InitialDisks /\ disks[d].name = InitialDisks[d].name
<1>1. PICK made \in SUBSET DOMAIN InitialDisks :
        disks = [d \in Disks |-> IF d \in made THEN InitDisk(d) ELSE FreeDisk]
  BY DEF Init
<1>2. FreeDisk \in Disk /\ FreeDisk.task = NoTask /\ FreeDisk.vms = {} /\ FreeDisk.st = "free"
  BY DEF FreeDisk, Disk
<1>3. \A d \in DOMAIN InitialDisks :
        /\ InitDisk(d) \in Disk /\ InitDisk(d).task = NoTask /\ InitDisk(d).vms = {}
        /\ InitDisk(d).name = InitialDisks[d].name
  BY InitialDisksAreSane DEF InitDisk, FreeDisk, Disk
<1>4. QED
  BY <1>1, <1>2, <1>3

LEMMA InitTypeInv == Init => TypeInv
<1> SUFFICES ASSUME Init PROVE TypeInv
  OBVIOUS
<1>2. disks \in [Disks -> Disk] /\ \A d \in Disks : disks[d].task.kind = "none"
  BY InitDisks DEF NoTask
<1>4. vol \in [Names -> {"absent", "created"}]
  BY DEF Init
<1>3. h \in [Handlers -> Handler] /\ \A s \in Handlers : h[s].pc = "idle" /\ h[s].op = "none"
  BY DEF Init, Idle, Handler
<1>5. QED
  BY <1>2, <1>3, <1>4 DEF Init, TypeInv, TypeOK, WellFormed, DiskKnown

(* The steps of a handler that ask VCD for no change: which way the        *)
(* counter and the lock go, and what the handler learns.                   *)
QuietAction(s) ==
    \/ Find(s) \/ Peek(s) \/ CreateLookup(s) \/ OtherLookup(s) \/ DeleteCheck(s)
    \/ AttachCheck(s) \/ DetachCheck(s) \/ WaitTask(s) \/ UpdateRde(s)
    \/ EarlyError(s) \/ Acquire(s)

NeedsDisk(s, pc) ==
    \/ pc \in {"peek", "check", "wait", "rde"}
    \/ pc = "submit" /\ h[s].op # "create"
    \/ pc = "lock" /\ h[s].op = "publish"

(* The task VCD reports as completed: an aborted one counts.               *)
Completed(d) == disks[d].task.status \notin {"running", "error"}

(* Where the disk a handler goes on with comes from.                       *)
DiskFound(s, pc, d) ==
    LET own  == d = h[s].disk
        here == d \in Named(h[s].name)
    IN  /\ own \/ here
        /\ NeedsDisk(s, pc) => here \/ (own /\ DiskKnown(s))
        /\ pc \in {"check", "submit"} /\ h[s].op \in {"delete", "unpublish"} =>
              (h[s].pc = "lookup" /\ here) \/ (h[s].pc = "check" /\ own)

(* What a handler knows when it leaves its task or the RDE behind ...      *)
TaskSeen(s, pc, d) ==
    /\ pc = "rde" => /\ h[s].pc = "wait" /\ h[s].op \in {"create", "delete"}
                     /\ d = h[s].disk /\ Completed(d)
                     /\ h[s].op = "create" => Exists(d)
    /\ h[s].pc = "wait" => /\ pc \in {"rde", "ok", "fail"}
                           /\ May("wait") \/ ~Running(h[s].disk)
    /\ h[s].pc = "wait" /\ pc = "fail" =>
          \/ May("wait") \/ disks[h[s].disk].task.status = "error"
          \/ h[s].op \in {"create", "publish"} /\ (May("api") \/ ~Exists(h[s].disk))
    /\ h[s].pc # "rde" => rde' = rde
    /\ h[s].pc = "rde" =>
          /\ d = h[s].disk /\ rde' \in {rde, WithPv(s)}
          /\ RdeKind = "none" => rde' = rde
          /\ {"lost", "rde", "rdeSilent"} \intersect Faults = {} =>
                pc = "ok" /\ (RdeKind # "none" => rde' = WithPv(s))

(* ... and when it is about to answer.                                     *)
AnswerKnown(s, pc, d) ==
    LET n    == h[s].name
        none == NotFound \in LookupResults(n)
        own  == d = h[s].disk
    IN  pc = "ok" =>
        /\ h[s].op = "create" =>
              \/ h[s].pc = "lookup" /\ d \in Named(n) /\ disks[d].spec = SpecOf[n]
              \/ h[s].pc = "rde" /\ own
        /\ h[s].op = "delete" =>
              \/ h[s].pc = "lookup" /\ none
              \/ h[s].pc = "rde" /\ own
        /\ h[s].op = "publish" =>
              /\ own /\ Exists(d) /\ DiskKnown(s)
              /\ \/ h[s].pc = "check" /\ h[s].vm \in disks[d].vms
                 \/ h[s].pc = "wait" /\ Completed(d)
        /\ h[s].op = "unpublish" =>
              \/ none
              \/ own /\ DiskKnown(s) /\ Exists(d) /\ h[s].vm \notin disks[d].vms
              \/ own /\ h[s].pc = "wait" /\ Completed(d)

Learned(s, pc, d) ==
    DiskFound(s, pc, d) /\ TaskSeen(s, pc, d) /\ AnswerKnown(s, pc, d)

Quiet(s, pc, d) ==
    /\ Moves(s, pc, d)
    /\ UNCHANGED <<disks, vol, att>> /\ rde' \subseteq Disks
    /\ h[s].pc \in Pcs \ {"idle"} /\ pc \in Pcs \ {"idle", "find", "wait"}
    /\ \/ h[s].pc \notin Critical /\ pc \notin Critical /\ lock' = lock
       \/ h[s].pc = "lock" /\ pc \in Critical /\ lock = None /\ lock' = s
       \/ h[s].pc \in Critical /\ pc \in Critical /\ lock' = lock
       \/ h[s].pc \in Critical /\ pc \notin Critical /\ lock' = None
    /\ NeedsDisk(s, pc) => d \in Disks
    /\ pc = "submit" /\ h[s].op = "create" => NotFound \in LookupResults(h[s].name)
    /\ pc = "submit" /\ h[s].op = "publish" /\ ~Shareable(d) => disks[d].vms = {}
    /\ Learned(s, pc, d)

LEMMA QuietSteps ==
    ASSUME TypeInv, NEW s \in Handlers, QuietAction(s)
    PROVE  \E pc \in Pcs, d \in Disks \union {None} : Quiet(s, pc, d)
<1> DEFINE Goal == \E pc \in Pcs, d \in Disks \union {None} : Quiet(s, pc, d)
           Same == UNCHANGED <<disks, rde, vol, att>>
           hd == h[s].disk
<1>0. /\ h \in [Handlers -> Handler] /\ rde \subseteq Disks /\ h[s] \in Handler
      /\ h[s].disk \in Disks \union {None} /\ h[s].pc \in Pcs /\ h[s].op \in Ops \union {"none"}
      /\ h[s].pc # "idle" => h[s].name \in Names
      /\ DiskKnown(s) => h[s].disk \in Disks
      /\ h[s].op \in {"publish", "unpublish"} => h[s].vm \in Vms
      /\ \A t \in Handlers, pc \in Pcs : Goto(t, pc) => Moves(t, pc, h[t].disk)
      /\ \A t \in Handlers, pc \in Pcs, d \in Disks : GotoWith(t, pc, d) => Moves(t, pc, d)
      /\ \A r : r \in Disks /\ h[s].pc # "idle" /\ r \in LookupResults(h[s].name) => r \in Named(h[s].name)
  BY GotoMoves, GotoWithMoves, FoundIsNamed DEF TypeInv, TypeOK, WellFormed, Handler, Pcs
<1>. USE <1>0 DEF Pcs, Critical, NeedsDisk, Quiet, Learned, DiskFound, TaskSeen, AnswerKnown
<1>1. CASE Find(s)
  <2>1. PICK r \in LookupResults(h[s].name) :
          \/ r \in Disks /\ GotoWith(s, IF h[s].op = "publish" THEN "lock" ELSE "peek", r)
          \/ r = NotFound /\ Goto(s, IF h[s].op = "publish" THEN "fail" ELSE "ok")
          \/ r = Failed /\ Goto(s, "fail")
    BY <1>1 DEF Find
  <2>2. Same /\ lock' = lock /\ h[s].pc = "find"
    BY <1>1 DEF Find, vcdVars, coVars
  <2>3. CASE r \in Disks /\ GotoWith(s, IF h[s].op = "publish" THEN "lock" ELSE "peek", r)
    <3>1. Moves(s, IF h[s].op = "publish" THEN "lock" ELSE "peek", r) /\ r \in Named(h[s].name)
      BY <2>2, <2>3
    <3>2. CASE h[s].op = "publish"
      <4>1. Quiet(s, "lock", r)
        BY <3>1, <3>2, <2>2, <2>3
      <4>2. QED
        BY <4>1, <2>3
    <3>3. CASE h[s].op # "publish"
      <4>1. Quiet(s, "peek", r)
        BY <3>1, <3>3, <2>2, <2>3
      <4>2. QED
        BY <4>1, <2>3
    <3>4. QED
      BY <3>2, <3>3
  <2>4. CASE Goto(s, "fail")
    <3>1. Quiet(s, "fail", hd)
      BY <2>4, <2>2
    <3>2. QED
      BY <3>1
  <2>5. CASE r = NotFound /\ h[s].op # "publish" /\ Goto(s, "ok")
    <3>1. h[s].op = "unpublish"
      BY <2>2, <2>5 DEF TypeInv, WellFormed
    <3>2. Quiet(s, "ok", hd)
      BY <2>5, <2>2, <3>1
    <3>3. QED
      BY <3>2
  <2>6. QED
    BY <2>1, <2>3, <2>4, <2>5
<1>2. CASE Peek(s)
  <2>1. Same /\ lock' = lock /\ At(s, "unpublish", "peek")
    BY <1>2 DEF Peek, vcdVars, coVars
  <2>2. \/ Goto(s, "fail") \/ Goto(s, "lock")
        \/ Goto(s, "ok") /\ Exists(hd) /\ disks[hd].vms = {}
    <3>1. hd \in Disks /\ disks[hd].vms # Failed
      BY <2>1, NamesAreDistinct DEF At, DiskKnown, TypeInv, TypeOK, Disk
    <3>2. PICK r \in AttachedResults(hd) :
             Goto(s, CASE r = Failed -> "fail" [] r = {} -> "ok" [] OTHER -> "lock")
      BY <1>2 DEF Peek
    <3>3. r = Failed \/ (r # Failed /\ Exists(hd) /\ r = disks[hd].vms)
      BY DEF AttachedResults
    <3>4. {} # Failed
      BY NamesAreDistinct
    <3>5. QED
      BY <3>2, <3>3, <3>4
  <2>3. CASE Goto(s, "fail") \/ Goto(s, "lock")
    <3>1. Quiet(s, "fail", hd) \/ Quiet(s, "lock", hd)
      BY <2>1, <2>3 DEF At
    <3>2. QED
      BY <3>1
  <2>4. CASE Goto(s, "ok") /\ Exists(hd) /\ disks[hd].vms = {}
    <3>1. Quiet(s, "ok", hd)
      BY <2>1, <2>4 DEF At, DiskKnown
    <3>2. QED
      BY <3>1
  <2>5. QED
    BY <2>2, <2>3, <2>4
<1>3. CASE CreateLookup(s)
  <2>1. PICK r \in LookupResults(h[s].name) :
          \/ /\ r \in Disks /\ disks[r].spec = SpecOf[h[s].name]
             /\ GotoWith(s, "ok", r) /\ lock' = None
          \/ Return(s, "fail")
          \/ r = NotFound /\ Goto(s, "submit") /\ UNCHANGED lock
    BY <1>3 DEF CreateLookup
  <2>2. Same /\ At(s, "create", "lookup")
    BY <1>3 DEF CreateLookup, vcdVars, coVars
  <2>3. CASE /\ r \in Disks /\ disks[r].spec = SpecOf[h[s].name]
             /\ GotoWith(s, "ok", r) /\ lock' = None
    <3>1. Moves(s, "ok", r) /\ r \in Named(h[s].name)
      BY <2>2, <2>3 DEF At
    <3>2. Quiet(s, "ok", r)
      BY <2>2, <2>3, <3>1 DEF At
    <3>3. QED
      BY <3>2, <2>3
  <2>4. CASE Return(s, "fail")
    <3>1. Quiet(s, "fail", hd)
      BY <2>2, <2>4 DEF At, Return
    <3>2. QED
      BY <3>1
  <2>5. CASE r = NotFound /\ Goto(s, "submit") /\ UNCHANGED lock
    <3>1. Quiet(s, "submit", hd)
      BY <2>2, <2>5 DEF At
    <3>2. QED
      BY <3>1
  <2>6. QED
    BY <2>1, <2>3, <2>4, <2>5
<1>4. CASE OtherLookup(s)
  <2>1. PICK r \in LookupResults(h[s].name) :
          \/ r \in Disks /\ GotoWith(s, "check", r) /\ UNCHANGED lock
          \/ r = NotFound /\ Return(s, "ok")
          \/ Return(s, "fail")
    BY <1>4 DEF OtherLookup
  <2>2. Same /\ h[s].pc = "lookup" /\ h[s].op \in {"delete", "unpublish"}
    BY <1>4 DEF OtherLookup, vcdVars, coVars, At
  <2>3. CASE r \in Disks /\ GotoWith(s, "check", r) /\ UNCHANGED lock
    <3>1. Moves(s, "check", r) /\ r \in Named(h[s].name)
      BY <2>2, <2>3
    <3>2. lock' = lock /\ r \in Disks
      BY <2>3
    <3>3. Quiet(s, "check", r)
      BY <2>2, <3>1, <3>2
    <3>4. QED
      BY <3>3, <3>2
  <2>4. CASE r = NotFound /\ Return(s, "ok")
    <3>1. Quiet(s, "ok", hd)
      BY <2>2, <2>4 DEF Return
    <3>2. QED
      BY <3>1
  <2>5. CASE Return(s, "fail")
    <3>1. Quiet(s, "fail", hd)
      BY <2>2, <2>5 DEF Return
    <3>2. QED
      BY <3>1
  <2>6. QED
    BY <2>1, <2>3, <2>4, <2>5
<1>5. CASE DeleteCheck(s)
  <2>1. Same /\ At(s, "delete", "check")
    BY <1>5 DEF DeleteCheck, vcdVars, coVars
  <2>2. (Goto(s, "submit") /\ UNCHANGED lock) \/ Return(s, "fail")
    BY <1>5 DEF DeleteCheck
  <2>3. Quiet(s, "submit", hd) \/ Quiet(s, "fail", hd)
    BY <2>1, <2>2 DEF At, Return, DiskKnown
  <2>4. QED
    BY <2>3
<1>6. CASE AttachCheck(s)
  <2>1. Same /\ At(s, "publish", "check")
    BY <1>6 DEF AttachCheck, vcdVars, coVars
  <2>2. PICK r \in AttachedResults(hd) :
          \/ Return(s, "fail")
          \/ r # Failed /\ h[s].vm \in r /\ Return(s, "ok")
          \/ /\ r # Failed /\ (r = {} \/ Shareable(hd))
             /\ Goto(s, "submit") /\ UNCHANGED lock
    BY <1>6 DEF AttachCheck
  <2>3. r # Failed => Exists(hd) /\ r = disks[hd].vms
    BY DEF AttachedResults
  <2>4. CASE Return(s, "fail")
    <3>1. Quiet(s, "fail", hd)
      BY <2>1, <2>4 DEF At, Return
    <3>2. QED
      BY <3>1
  <2>5. CASE r # Failed /\ h[s].vm \in r /\ Return(s, "ok")
    <3>1. Quiet(s, "ok", hd)
      BY <2>1, <2>3, <2>5 DEF At, Return, DiskKnown
    <3>2. QED
      BY <3>1
  <2>6. CASE /\ r # Failed /\ (r = {} \/ Shareable(hd))
             /\ Goto(s, "submit") /\ UNCHANGED lock
    <3>1. Quiet(s, "submit", hd)
      BY <2>1, <2>3, <2>6 DEF At, DiskKnown
    <3>2. QED
      BY <3>1
  <2>7. QED
    BY <2>2, <2>4, <2>5, <2>6
<1>7. CASE DetachCheck(s)
  <2>1. Same /\ At(s, "unpublish", "check")
    BY <1>7 DEF DetachCheck, vcdVars, coVars
  <2>2. \/ (Goto(s, "submit") /\ UNCHANGED lock) \/ Return(s, "fail")
        \/ Return(s, "ok") /\ Exists(hd) /\ h[s].vm \notin disks[hd].vms
    BY <1>7 DEF DetachCheck, AttachedResults
  <2>3. CASE (Goto(s, "submit") /\ UNCHANGED lock) \/ Return(s, "fail")
    <3>1. Quiet(s, "submit", hd) \/ Quiet(s, "fail", hd)
      BY <2>1, <2>3 DEF At, Return, DiskKnown
    <3>2. QED
      BY <3>1
  <2>4. CASE Return(s, "ok") /\ Exists(hd) /\ h[s].vm \notin disks[hd].vms
    <3>1. Quiet(s, "ok", hd)
      BY <2>1, <2>4 DEF At, Return, DiskKnown
    <3>2. QED
      BY <3>1
  <2>5. QED
    BY <2>2, <2>3, <2>4
<1>8. CASE WaitTask(s)
  <2>1. Same /\ h[s].pc = "wait"
    BY <1>8 DEF WaitTask, vcdVars, coVars
  <2>2. \/ /\ Completed(hd) /\ h[s].op \in {"create", "delete"}
           /\ h[s].op = "create" => Exists(hd)
           /\ Goto(s, "rde") /\ UNCHANGED lock
        \/ /\ Completed(hd) /\ h[s].op \notin {"create", "delete"}
           /\ h[s].op = "publish" => Exists(hd)
           /\ Return(s, "ok")
        \/ /\ Return(s, "fail")
           /\ \/ May("wait") \/ disks[hd].task.status = "error"
              \/ /\ Completed(hd) /\ h[s].op \in {"create", "publish"}
                 /\ May("api") \/ ~Exists(hd)
    BY <1>8 DEF WaitTask, Reported, Completed
  <2>3. Completed(hd) => ~Running(hd)
    BY DEF Completed, Running
  <2>4. CASE /\ Completed(hd) /\ h[s].op \in {"create", "delete"}
             /\ h[s].op = "create" => Exists(hd)
             /\ Goto(s, "rde") /\ UNCHANGED lock
    <3>1. Quiet(s, "rde", hd)
      BY <2>1, <2>3, <2>4 DEF DiskKnown
    <3>2. QED
      BY <3>1
  <2>5. CASE /\ Completed(hd) /\ h[s].op \notin {"create", "delete"}
             /\ h[s].op = "publish" => Exists(hd)
             /\ Return(s, "ok")
    <3>1. Quiet(s, "ok", hd)
      BY <2>1, <2>3, <2>5 DEF Return, DiskKnown
    <3>2. QED
      BY <3>1
  <2>6. CASE /\ Return(s, "fail")
             /\ \/ May("wait") \/ disks[hd].task.status = "error"
                \/ /\ Completed(hd) /\ h[s].op \in {"create", "publish"}
                   /\ May("api") \/ ~Exists(hd)
    <3>1. disks[hd].task.status = "error" => ~Running(hd)
      BY DEF Running
    <3>2. Quiet(s, "fail", hd)
      BY <2>1, <2>3, <2>6, <3>1 DEF Return
    <3>3. QED
      BY <3>2
  <2>7. QED
    BY <2>2, <2>4, <2>5, <2>6
<1>9. CASE UpdateRde(s)
  <2>1. UNCHANGED <<disks, vol, att>> /\ h[s].pc = "rde" /\ h[s].op \in {"create", "delete"}
    BY <1>9 DEF UpdateRde, coVars, TypeInv, WellFormed
  <2>2. Return(s, "fail") \/ Return(s, "ok")
    BY <1>9 DEF UpdateRde
  <2>3. /\ rde' \in {rde, WithPv(s)}
        /\ RdeKind = "none" => rde' = rde
        /\ {"lost", "rde", "rdeSilent"} \intersect Faults = {} =>
              Return(s, "ok") /\ (RdeKind # "none" => rde' = WithPv(s))
    BY <1>9 DEF UpdateRde, May
  <2>4. rde' \subseteq Disks
    BY <2>1, <2>3 DEF WithPv, DiskKnown
  <2>5. CASE Return(s, "ok")
    <3>1. Quiet(s, "ok", hd)
      BY <2>1, <2>3, <2>4, <2>5 DEF Return
    <3>2. QED
      BY <3>1
  <2>6. CASE Return(s, "fail") /\ {"lost", "rde", "rdeSilent"} \intersect Faults # {}
    <3>1. Quiet(s, "fail", hd)
      BY <2>1, <2>3, <2>4, <2>6 DEF Return
    <3>2. QED
      BY <3>1
  <2>7. QED
    BY <2>2, <2>3, <2>5, <2>6
<1>10. CASE EarlyError(s)
  <2>1. Same /\ h[s].pc \in {"find", "lock"} /\ UNCHANGED lock /\ Goto(s, "fail")
    BY <1>10 DEF EarlyError, vcdVars, coVars
  <2>2. Quiet(s, "fail", hd)
    BY <2>1
  <2>3. QED
    BY <2>2
<1>11. CASE Acquire(s)
  <2>1. Same /\ h[s].pc = "lock" /\ lock = None /\ lock' = s
    BY <1>11 DEF Acquire, vcdVars, coVars
  <2>2. CASE h[s].op = "publish"
    <3>1. Quiet(s, "check", hd)
      BY <1>11, <2>1, <2>2 DEF Acquire, DiskKnown
    <3>2. QED
      BY <3>1
  <2>3. CASE h[s].op # "publish"
    <3>1. Quiet(s, "lookup", hd)
      BY <1>11, <2>1, <2>3 DEF Acquire
    <3>2. QED
      BY <3>1
  <2>4. QED
    BY <2>2, <2>3
<1>12. QED
  BY <1>1, <1>2, <1>3, <1>4, <1>5, <1>6, <1>7, <1>8, <1>9, <1>10, <1>11 DEF QuietAction

(* The steps that ask VCD for a task: VCD refuses, or the task runs and    *)
(* the handler waits for it unless the reply is lost.                      *)
SubmitAction(s) ==
    CreateSubmit(s) \/ DeleteSubmit(s) \/ AttachSubmit(s) \/ DetachSubmit(s)

Sent(s, d) ==
    \/ Moves(s, "wait", d) /\ lock' = lock
    \/ May("lost") /\ Moves(s, "fail", h[s].disk) /\ lock' = None

Refused(s) == Moves(s, "fail", h[s].disk) /\ lock' = None /\ disks' = disks

Creates(s, d) ==
    /\ At(s, "create", "submit")
    /\ disks[d].st = "free"
    /\ disks' = [disks EXCEPT ![d] = NewDisk(h[s].name)]
    /\ Sent(s, d)

Starts(s, kind) ==
    /\ <<h[s].op, kind>> \in {<<"delete", "delete">>, <<"publish", "attach">>,
                             <<"unpublish", "detach">>}
    /\ h[s].disk \in Disks /\ Exists(h[s].disk) /\ ~Running(h[s].disk)
    /\ disks' = [disks EXCEPT ![h[s].disk].task = Started(kind, h[s].vm)]
    /\ Sent(s, h[s].disk)

Submits(s) ==
    /\ h[s].pc = "submit" /\ UNCHANGED <<rde, vol, att>>
    /\ \/ Refused(s)
       \/ \E d \in Disks : Creates(s, d)
       \/ \E kind \in {"delete", "attach", "detach"} : Starts(s, kind)

LEMMA SubmitSteps ==
    ASSUME TypeInv, NEW s \in Handlers, SubmitAction(s)
    PROVE  Submits(s)
<1>0. /\ h \in [Handlers -> Handler]
      /\ \A t \in Handlers, pc \in Pcs : Goto(t, pc) => Moves(t, pc, h[t].disk)
      /\ \A t \in Handlers, pc \in Pcs, d \in Disks : GotoWith(t, pc, d) => Moves(t, pc, d)
      /\ \A pc : Return(s, pc) => Goto(s, pc) /\ lock' = None
      /\ h[s].pc = "submit" /\ UNCHANGED <<rde, vol, att>>
      /\ {"wait", "fail"} \subseteq Pcs
  BY GotoMoves, GotoWithMoves
     DEF TypeInv, TypeOK, Pcs, Critical, Return, SubmitAction, CreateSubmit, DeleteSubmit,
         AttachSubmit, DetachSubmit, At, coVars
<1>1. CASE CreateSubmit(s)
  <2>1. CASE Return(s, "fail") /\ UNCHANGED disks
    BY <1>0, <2>1 DEF Submits, Refused
  <2>2. ASSUME NEW d \in Disks, disks[d].st = "free",
               disks' = [disks EXCEPT ![d] = NewDisk(h[s].name)],
               \/ GotoWith(s, "wait", d) /\ UNCHANGED lock
               \/ May("lost") /\ Return(s, "fail")
        PROVE  Submits(s)
    <3>1. Sent(s, d)
      BY <1>0, <2>2 DEF Sent
    <3>2. Creates(s, d)
      BY <1>1, <2>2, <3>1 DEF Creates, CreateSubmit
    <3>3. QED
      BY <1>0, <3>2 DEF Submits
  <2>3. QED
    BY <1>1, <2>1, <2>2 DEF CreateSubmit
<1>2. ASSUME NEW kind \in {"delete", "attach", "detach"}, Submit(s, kind),
             <<h[s].op, kind>> \in {<<"delete", "delete">>, <<"publish", "attach">>,
                                  <<"unpublish", "detach">>}
      PROVE  Submits(s)
  <2>1. CASE Return(s, "fail") /\ UNCHANGED disks
    BY <1>0, <2>1 DEF Submits, Refused
  <2>2. CASE /\ Accepts(h[s].disk)
             /\ disks' = [disks EXCEPT ![h[s].disk].task = Started(kind, h[s].vm)]
             /\ \/ Goto(s, "wait") /\ UNCHANGED lock
                \/ May("lost") /\ Return(s, "fail")
    <3>1. h[s].disk \in Disks
      BY <1>0, <1>2 DEF TypeInv, WellFormed, DiskKnown
    <3>2. Sent(s, h[s].disk)
      BY <1>0, <2>2 DEF Sent
    <3>3. Starts(s, kind)
      BY <1>2, <2>2, <3>1, <3>2 DEF Starts, Accepts
    <3>4. QED
      BY <1>0, <3>3 DEF Submits
  <2>3. QED
    BY <1>2, <2>1, <2>2 DEF Submit
<1>3. CASE DeleteSubmit(s) /\ Submit(s, "delete")
  BY <1>2, <1>3 DEF DeleteSubmit, At
<1>4. CASE Return(s, "fail") /\ UNCHANGED disks
  BY <1>0, <1>4 DEF Submits, Refused
<1>5. CASE AttachSubmit(s)
  BY <1>2, <1>5 DEF AttachSubmit, At
<1>6. CASE DetachSubmit(s)
  BY <1>2, <1>6 DEF DetachSubmit, At
<1>7. CASE DeleteSubmit(s)
  BY <1>3, <1>4, <1>7 DEF DeleteSubmit
<1>8. QED
  BY <1>1, <1>5, <1>6, <1>7 DEF SubmitAction

(* A task that comes to its end.                                           *)
TaskEnds(d) ==
    /\ Running(d) /\ UNCHANGED <<rde, lock, h, vol, att>>
    /\ disks' \in [Disks -> Disk]
    /\ \A e \in Disks \ {d} : disks'[e] = disks[e]
    /\ disks'[d].task.status # "running"
    /\ disks'[d].task.kind = disks[d].task.kind /\ disks'[d].task.vm = disks[d].task.vm
    /\ disks'[d].name = disks[d].name /\ disks'[d].spec = disks[d].spec
    /\ disks'[d].st \in {"creating", "ready"} =>
          disks[d].task.kind = "create" \/ disks[d].st \in {"creating", "ready"}
    /\ \A v \in disks'[d].vms :
          v \in disks[d].vms \/ (disks[d].task.kind = "attach" /\ v = disks[d].task.vm)

LEMMA TaskSteps ==
    ASSUME TypeInv, NEW d \in Disks, TaskSucceeds(d) \/ TaskFails(d)
    PROVE  TaskEnds(d)
<1>0. disks \in [Disks -> Disk] /\ disks[d] \in Disk
  BY DEF TypeInv, TypeOK
<1>1. disks[d].task \in Task
  BY <1>0 DEF TaskSucceeds, TaskFails, Running, Disk, NoTask
<1>2. disks[d].task.kind = "attach" => disks[d].task.vm \in Vms
  BY DEF TypeInv, WellFormed
<1>3. \E t \in Task, st \in {"free", "creating", "ready", "gone"}, vms \in SUBSET Vms :
         /\ t.status # "running" /\ t.kind = disks[d].task.kind /\ t.vm = disks[d].task.vm
         /\ st \in {"creating", "ready"} =>
               disks[d].task.kind = "create" \/ disks[d].st \in {"creating", "ready"}
         /\ \A v \in vms :
               v \in disks[d].vms \/ (disks[d].task.kind = "attach" /\ v = disks[d].task.vm)
         /\ disks' = [disks EXCEPT ![d].task = t, ![d].st = st, ![d].vms = vms]
  <2>1. CASE TaskSucceeds(d)
    <3>. DEFINE t == [disks[d].task EXCEPT !.status = "success"]
               st == CASE disks[d].task.kind = "create" -> "ready"
                       [] disks[d].task.kind = "delete" -> "gone"
                       [] OTHER -> disks[d].st
               vms == CASE disks[d].task.kind = "attach" -> disks[d].vms \union {disks[d].task.vm}
                        [] disks[d].task.kind = "detach" -> disks[d].vms \ {disks[d].task.vm}
                        [] OTHER -> disks[d].vms
    <3>1. disks' = [disks EXCEPT ![d].task = t, ![d].st = st, ![d].vms = vms]
      BY <1>0, <1>1, <2>1 DEF TaskSucceeds, Disk
    <3>2. t \in Task /\ t.status = "success" /\ t.kind = disks[d].task.kind /\ t.vm = disks[d].task.vm
      BY <1>1 DEF Task
    <3>3. st \in {"free", "creating", "ready", "gone"} /\ vms \in SUBSET Vms
      BY <1>0, <1>1, <1>2 DEF Disk
    <3>4. st \in {"creating", "ready"} =>
            disks[d].task.kind = "create" \/ disks[d].st \in {"creating", "ready"}
      OBVIOUS
    <3>5. \A v \in vms :
            v \in disks[d].vms \/ (disks[d].task.kind = "attach" /\ v = disks[d].task.vm)
      BY <1>0 DEF Disk
    <3>. HIDE DEF t, st, vms
    <3>6. QED
      BY <3>1, <3>2, <3>3, <3>4, <3>5
  <2>2. CASE TaskFails(d)
    <3>1. PICK end \in {"error", "aborted"} :
             disks' = [disks EXCEPT
               ![d].task.status = end,
               ![d].st = IF disks[d].task.kind = "create" THEN "gone" ELSE @]
      BY <2>2 DEF TaskFails
    <3>. DEFINE t == [disks[d].task EXCEPT !.status = end]
               st == IF disks[d].task.kind = "create" THEN "gone" ELSE disks[d].st
    <3>2. disks' = [disks EXCEPT ![d].task = t, ![d].st = st, ![d].vms = disks[d].vms]
      BY <1>0, <1>1, <3>1 DEF Disk
    <3>3. t \in Task /\ t.status = end /\ t.kind = disks[d].task.kind /\ t.vm = disks[d].task.vm
      BY <1>1 DEF Task
    <3>4. st \in {"free", "creating", "ready", "gone"} /\ disks[d].vms \in SUBSET Vms
      BY <1>0 DEF Disk
    <3>5. st \in {"creating", "ready"} => disks[d].st \in {"creating", "ready"}
      OBVIOUS
    <3>. HIDE DEF t, st
    <3>6. QED
      BY <3>2, <3>3, <3>4, <3>5
  <2>3. QED
    BY <2>1, <2>2
<1>4. PICK t \in Task, st \in {"free", "creating", "ready", "gone"}, vms \in SUBSET Vms :
         /\ t.status # "running" /\ t.kind = disks[d].task.kind /\ t.vm = disks[d].task.vm
         /\ st \in {"creating", "ready"} =>
               disks[d].task.kind = "create" \/ disks[d].st \in {"creating", "ready"}
         /\ \A v \in vms :
               v \in disks[d].vms \/ (disks[d].task.kind = "attach" /\ v = disks[d].task.vm)
         /\ disks' = [disks EXCEPT ![d].task = t, ![d].st = st, ![d].vms = vms]
  BY <1>3
<1>5. /\ disks'[d].task = t /\ disks'[d].st = st /\ disks'[d].vms = vms
      /\ disks'[d].name = disks[d].name /\ disks'[d].spec = disks[d].spec
      /\ \A e \in Disks \ {d} : disks'[e] = disks[e]
      /\ disks' \in [Disks -> Disk]
  BY <1>0, <1>4 DEF Disk
<1>6. Running(d) /\ UNCHANGED <<rde, lock, h, vol, att>>
  BY DEF TaskSucceeds, TaskFails, coVars
<1>7. QED
  BY <1>4, <1>5, <1>6 DEF TaskEnds

(* The steps that begin and end a call: the handler holds no lock and      *)
(* reaches no code that needs it.  A caller that gives up changes nothing. *)
OuterAction(s) == Call(s) \/ GiveUp(s) \/ Respond(s)

Outer(s) ==
    /\ h' \in [Handlers -> Handler]
    /\ UNCHANGED <<disks, rde, lock>>
    /\ \A t \in Handlers \ {s} : h'[t] = h[t]
    /\ \/ /\ h'[s].pc = h[s].pc /\ h'[s].op = h[s].op /\ h'[s].disk = h[s].disk
          /\ h'[s].name = h[s].name /\ h'[s].vm = h[s].vm
       \/ h[s].pc \notin Critical /\ h'[s].pc \notin Critical

LEMMA OuterSteps ==
    ASSUME TypeInv, NEW s \in Handlers, OuterAction(s)
    PROVE  TypeInv' /\ Outer(s)
<1>0. /\ h \in [Handlers -> Handler] /\ h[s] \in Handler
      /\ vol \in [Names -> {"absent", "creating", "created", "deleting", "deleted"}]
      /\ att \in [Names \X Vms -> {"detached", "attaching", "attached", "detaching"}]
      /\ Idle \in Handler
  BY DEF TypeInv, TypeOK, Handler, Idle
<1>1. ASSUME UNCHANGED <<disks, rde, lock>>,
             vol' \in [Names -> {"absent", "creating", "created", "deleting", "deleted"}],
             att' \in [Names \X Vms -> {"detached", "attaching", "attached", "detaching"}],
             NEW r \in Handler, h' = [h EXCEPT ![s] = r],
             r.pc # "idle" => r.op \in Ops /\ r.name \in Names,
             r.op \in {"publish", "unpublish"} => r.vm \in Vms,
             r.pc = "find" => r.op \in {"publish", "unpublish"},
             r.pc = "rde" => r.op \in {"create", "delete"},
             \/ r.pc \in {"peek", "check", "wait", "rde"}
             \/ r.pc = "submit" /\ r.op # "create"
             \/ r.pc = "lock" /\ r.op = "publish"
             => r.disk \in Disks,
             \/ /\ r.pc = h[s].pc /\ r.op = h[s].op /\ r.disk = h[s].disk
                /\ r.name = h[s].name /\ r.vm = h[s].vm
             \/ h[s].pc \notin Critical /\ r.pc \notin Critical
      PROVE  TypeInv' /\ Outer(s)
  <2>1. /\ h' \in [Handlers -> Handler] /\ h'[s] = r
        /\ \A t \in Handlers \ {s} : h'[t] = h[t]
    BY <1>0, <1>1
  <2>2. Outer(s)
    BY <1>1, <2>1 DEF Outer
  <2>3. TypeOK'
    BY <1>1, <2>1 DEF TypeInv, TypeOK
  <2>4. \A t \in Handlers : /\ h'[t].pc # "idle" => h'[t].op \in Ops /\ h'[t].name \in Names
                            /\ h'[t].op \in {"publish", "unpublish"} => h'[t].vm \in Vms
                            /\ h'[t].pc = "find" => h'[t].op \in {"publish", "unpublish"}
                            /\ h'[t].pc = "rde" => h'[t].op \in {"create", "delete"}
                            /\ DiskKnown(t)' => h'[t].disk \in Disks
    BY <1>1, <2>1 DEF TypeInv, WellFormed, DiskKnown
  <2>5. \A e \in Disks : disks'[e].task.kind = "attach" => disks'[e].task.vm \in Vms
    BY <1>1 DEF TypeInv, WellFormed
  <2>6. QED
    BY <2>2, <2>3, <2>4, <2>5 DEF TypeInv, WellFormed
<1>2. ASSUME NEW op \in Ops, NEW n \in Names, NEW v \in Vms \union {None},
             Receive(s, op, n, v), op \in {"publish", "unpublish"} => v \in Vms,
             vol' \in [Names -> {"absent", "creating", "created", "deleting", "deleted"}],
             att' \in [Names \X Vms -> {"detached", "attaching", "attached", "detaching"}]
      PROVE  TypeInv' /\ Outer(s)
  <2>. DEFINE r == [pc |-> IF op \in {"create", "delete"} THEN "lock" ELSE "find",
                    op |-> op, name |-> n, vm |-> v, disk |-> None, caller |-> "waiting"]
  <2>1. r \in Handler
    BY <1>2 DEF Handler, Ops
  <2>2. h[s].pc = "idle" /\ h' = [h EXCEPT ![s] = r] /\ UNCHANGED <<disks, rde, lock>>
    BY <1>2 DEF Receive, Idle, vcdVars
  <2>3. r.pc \in {"lock", "find"} /\ r.op = op /\ r.name = n /\ r.vm = v
        /\ (r.pc = "lock" => op # "publish") /\ (r.pc = "find" => op \in {"publish", "unpublish"})
    BY <1>2 DEF Ops
  <2>. HIDE DEF r
  <2>4. QED
    BY <1>1, <1>2, <2>1, <2>2, <2>3 DEF Critical
<1>3. CASE Call(s)
  <2>1. PICK n \in Names :
           \/ CallCreateVolume(s, n) \/ CallDeleteVolume(s, n)
           \/ \E v \in Vms : CallPublishVolume(s, n, v) \/ CallUnpublishVolume(s, n, v)
    BY <1>3 DEF Call
  <2>2. CASE CallCreateVolume(s, n)
    BY <1>0, <1>2, <2>2 DEF CallCreateVolume, Ops
  <2>3. CASE CallDeleteVolume(s, n)
    BY <1>0, <1>2, <2>3 DEF CallDeleteVolume, Ops
  <2>4. ASSUME NEW v \in Vms, CallPublishVolume(s, n, v) PROVE TypeInv' /\ Outer(s)
    BY <1>0, <1>2, <2>4 DEF CallPublishVolume, Ops
  <2>5. ASSUME NEW v \in Vms, CallUnpublishVolume(s, n, v) PROVE TypeInv' /\ Outer(s)
    BY <1>0, <1>2, <2>5 DEF CallUnpublishVolume, Ops
  <2>6. QED
    BY <2>1, <2>2, <2>3, <2>4, <2>5
<1>4. CASE GiveUp(s)
  <2>. DEFINE r == [h[s] EXCEPT !.caller = "gone"]
  <2>1. /\ r \in Handler /\ r.pc = h[s].pc /\ r.op = h[s].op /\ r.disk = h[s].disk
        /\ r.name = h[s].name /\ r.vm = h[s].vm
    BY <1>0 DEF Handler
  <2>2. h' = [h EXCEPT ![s] = r] /\ UNCHANGED <<disks, rde, lock, vol, att>>
    BY <1>4 DEF GiveUp, vcdVars, coVars
  <2>. HIDE DEF r
  <2>3. QED
    BY <1>0, <1>1, <2>1, <2>2 DEF TypeInv, WellFormed, DiskKnown
<1>5. CASE Respond(s)
  <2>1. h' = [h EXCEPT ![s] = Idle] /\ UNCHANGED <<disks, rde, lock>> /\ h[s].pc \in {"ok", "fail"}
    BY <1>5 DEF Respond, vcdVars
  <2>2. /\ h[s].name \in Names /\ h[s].op \in Ops
        /\ h[s].op \in {"publish", "unpublish"} => h[s].vm \in Vms
    BY <2>1 DEF TypeInv, WellFormed
  <2>3. /\ vol' \in [Names -> {"absent", "creating", "created", "deleting", "deleted"}]
        /\ att' \in [Names \X Vms -> {"detached", "attaching", "attached", "detaching"}]
    <3>1. CASE UNCHANGED coVars
      BY <1>0, <3>1 DEF coVars
    <3>2. CASE h[s].op \in {"create", "delete"} /\ ~UNCHANGED coVars
      BY <1>0, <1>5, <3>2, <2>2 DEF Respond
    <3>3. CASE h[s].op \in {"publish", "unpublish"} /\ ~UNCHANGED coVars
      BY <1>0, <1>5, <3>3, <2>2 DEF Respond
    <3>4. QED
      BY <2>2, <3>1, <3>2, <3>3 DEF Ops
  <2>4. QED
    BY <1>0, <1>1, <2>1, <2>3 DEF Idle, Critical
<1>6. QED
  BY <1>3, <1>4, <1>5 DEF OuterAction

(* Every step is one of six kinds.                                         *)
LEMMA NextSteps ==
    ASSUME TypeInv, [Next]_vars
    PROVE  \/ UNCHANGED vars
           \/ \E s \in Handlers : TypeInv' /\ Outer(s)
           \/ \E s \in Handlers, pc \in Pcs, d \in Disks \union {None} : Quiet(s, pc, d)
           \/ \E s \in Handlers : Submits(s)
           \/ \E d \in Disks : TaskEnds(d)
           \/ Crash
<1>1. ASSUME NEW s \in Handlers, Call(s) \/ GiveUp(s) \/ Respond(s)
      PROVE  TypeInv' /\ Outer(s)
  BY <1>1, OuterSteps DEF OuterAction
<1>2. ASSUME NEW s \in Handlers, QuietAction(s)
      PROVE  \E pc \in Pcs, d \in Disks \union {None} : Quiet(s, pc, d)
  BY <1>2, QuietSteps
<1>3. ASSUME NEW s \in Handlers, SubmitAction(s)
      PROVE  Submits(s)
  BY <1>3, SubmitSteps
<1>4. ASSUME NEW s \in Handlers, Step(s)
      PROVE  QuietAction(s) \/ SubmitAction(s) \/ Respond(s)
  BY <1>4 DEF Step, QuietAction, SubmitAction
<1>5. ASSUME NEW s \in Handlers, EarlyError(s) \/ Acquire(s)
      PROVE  QuietAction(s)
  BY <1>5 DEF QuietAction
<1>6. ASSUME NEW d \in Disks, TaskSucceeds(d) \/ TaskFails(d)
      PROVE  TaskEnds(d)
  BY <1>6, TaskSteps
<1>7. QED
  BY <1>1, <1>2, <1>3, <1>4, <1>5, <1>6 DEF Next

LEMMA SubmitsKeepsTypes ==
    ASSUME TypeInv, NEW s \in Handlers, Submits(s)
    PROVE  TypeInv'
<1>0. /\ disks \in [Disks -> Disk] /\ h[s] \in Handler /\ rde' \subseteq Disks
      /\ lock \in Handlers \union {None} /\ UNCHANGED <<vol, att>> /\ h[s].pc = "submit"
      /\ h[s].disk \in Disks \union {None}
      /\ \A e \in Disks : disks[e].task.kind = "attach" => disks[e].task.vm \in Vms
      /\ {"wait", "fail"} \subseteq Pcs
  BY DEF TypeInv, TypeOK, WellFormed, Submits, Pcs, Critical, Handler
<1>1. CASE Refused(s)
  BY <1>0, <1>1, MovesKeepsTypes DEF Refused
<1>2. ASSUME NEW d \in Disks, Sent(s, d), disks' \in [Disks -> Disk],
             \A e \in Disks : disks'[e].task.kind = "attach" => disks'[e].task.vm \in Vms
      PROVE  TypeInv'
  <2>1. CASE Moves(s, "wait", d) /\ lock' = lock
    BY <1>0, <1>2, <2>1, MovesKeepsTypes
  <2>2. CASE Moves(s, "fail", h[s].disk) /\ lock' = None
    BY <1>0, <1>2, <2>2, MovesKeepsTypes
  <2>3. QED
    BY <1>2, <2>1, <2>2 DEF Sent
<1>3. ASSUME NEW d \in Disks, Creates(s, d) PROVE TypeInv'
  <2>1. h[s].name \in Names
    BY <1>0 DEF TypeInv, WellFormed
  <2>2. NewDisk(h[s].name) \in Disk /\ NewDisk(h[s].name).task.kind = "create"
    BY <2>1, ClassesAreSane DEF NewDisk, Disk, Task, TaskKinds, Started
  <2>3. /\ disks' \in [Disks -> Disk]
        /\ \A e \in Disks : disks'[e].task.kind = "attach" => disks'[e].task.vm \in Vms
    BY <1>0, <1>3, <2>2 DEF Creates
  <2>4. QED
    BY <1>2, <1>3, <2>3 DEF Creates
<1>4. ASSUME NEW kind \in {"delete", "attach", "detach"}, Starts(s, kind) PROVE TypeInv'
  <2>. DEFINE d == h[s].disk
              t == Started(kind, h[s].vm)
  <2>1. /\ t \in Task /\ t.kind = kind /\ t.vm = h[s].vm
        /\ kind = "attach" => h[s].vm \in Vms
    BY <1>0, <1>4 DEF Started, Task, TaskKinds, Handler, Starts, TypeInv, WellFormed
  <2>2. d \in Disks /\ disks' = [disks EXCEPT ![d].task = t]
    BY <1>4 DEF Starts
  <2>. HIDE DEF d, t
  <2>3. [disks[d] EXCEPT !.task = t] \in Disk /\ [disks[d] EXCEPT !.task = t].task = t
    BY <1>0, <2>1, <2>2 DEF Disk
  <2>4. /\ disks' \in [Disks -> Disk]
        /\ \A e \in Disks : disks'[e].task.kind = "attach" => disks'[e].task.vm \in Vms
    BY <1>0, <2>1, <2>2, <2>3
  <2>5. QED
    BY <1>2, <1>4, <2>2, <2>4 DEF Starts, d
<1>5. QED
  BY <1>1, <1>3, <1>4 DEF Submits

LEMMA StepTypeInv ==
    ASSUME TypeInv, [Next]_vars
    PROVE  TypeInv'
<1>1. CASE UNCHANGED vars
  BY <1>1 DEF TypeInv, TypeOK, WellFormed, DiskKnown, vars
<1>2. ASSUME NEW s \in Handlers, NEW pc \in Pcs, NEW d, Quiet(s, pc, d) PROVE TypeInv'
  <2>1. /\ disks' \in [Disks -> Disk] /\ lock' \in Handlers \union {None}
        /\ \A e \in Disks : disks'[e].task.kind = "attach" => disks'[e].task.vm \in Vms
    BY <1>2 DEF Quiet, TypeInv, TypeOK, WellFormed
  <2>2. QED
    BY <1>2, <2>1, MovesKeepsTypes DEF Quiet, NeedsDisk, Learned, TaskSeen
<1>3. ASSUME NEW s \in Handlers, Submits(s) PROVE TypeInv'
  BY <1>3, SubmitsKeepsTypes
<1>4. ASSUME NEW d \in Disks, TaskEnds(d) PROVE TypeInv'
  <2>1. TypeOK'
    BY <1>4 DEF TaskEnds, TypeInv, TypeOK
  <2>2. \A e \in Disks : disks'[e].task.kind = "attach" => disks'[e].task.vm \in Vms
    BY <1>4 DEF TaskEnds, TypeInv, WellFormed
  <2>3. QED
    BY <1>4, <2>1, <2>2 DEF TaskEnds, TypeInv, WellFormed, DiskKnown
<1>5. CASE Crash
  <2>1. /\ UNCHANGED <<disks, rde, vol, att>> /\ lock' = None
        /\ h' = [s \in Handlers |-> Idle]
    BY <1>5 DEF Crash, vcdVars, coVars
  <2>2. TypeOK'
    BY <2>1 DEF TypeInv, TypeOK, Idle, Handler
  <2>3. QED
    BY <2>1, <2>2 DEF TypeInv, WellFormed, DiskKnown, Idle
<1>6. QED
  BY <1>1, <1>2, <1>3, <1>4, <1>5, NextSteps

(* Every variable keeps to the values TypeOK gives it, in every state of   *)
(* the driver, VCD and the orchestrator.                                   *)
THEOREM TypeCorrect == Spec => []TypeOK
<1>1. TypeInv => TypeOK
  BY DEF TypeInv
<1>2. TypeInv /\ [Next]_vars => TypeInv'
  BY StepTypeInv
<1>3. QED
  BY InitTypeInv, <1>1, <1>2, PTL DEF Spec

(***************************************************************************)
(* Mutual exclusion: the code between CreateDisk's lock and its unlock,    *)
(* and that of the other three operations, runs in one goroutine at most.  *)
(***************************************************************************)
LEMMA StepLockHeld ==
    ASSUME TypeInv, LockHeld, [Next]_vars
    PROVE  LockHeld'
<1>0. None \notin Handlers
  BY NamesAreDistinct
<1>1. CASE UNCHANGED vars
  BY <1>1 DEF LockHeld, vars
<1>2. ASSUME NEW s \in Handlers, NEW pc \in Pcs, NEW d, Quiet(s, pc, d) PROVE LockHeld'
  BY <1>0, <1>2 DEF Quiet, Moves, LockHeld
<1>3. ASSUME NEW s \in Handlers, Outer(s) PROVE LockHeld'
  BY <1>3 DEF Outer, LockHeld
<1>4. ASSUME NEW s \in Handlers, Submits(s) PROVE LockHeld'
  <2>1. h[s].pc = "submit" /\ lock = s
    BY <1>4 DEF Submits, LockHeld, Critical
  <2>2. \/ h'[s].pc = "wait" /\ lock' = lock
        \/ h'[s].pc = "fail" /\ lock' = None
    BY <1>4 DEF Submits, Creates, Starts, Refused, Sent, Moves
  <2>3. \A t \in Handlers \ {s} : h'[t] = h[t]
    BY <1>4 DEF Submits, Creates, Starts, Refused, Sent, Moves
  <2>4. QED
    BY <1>0, <2>1, <2>2, <2>3 DEF LockHeld, Critical
<1>5. ASSUME NEW d \in Disks, TaskEnds(d) PROVE LockHeld'
  BY <1>5 DEF TaskEnds, LockHeld
<1>6. CASE Crash
  BY <1>0, <1>6 DEF Crash, LockHeld, Idle, Critical
<1>7. QED
  BY <1>1, <1>2, <1>3, <1>4, <1>5, <1>6, NextSteps

(***************************************************************************)
(* One disk of a name.                                                     *)
(***************************************************************************)

(* A step that makes no disk and gives none a name.                        *)
LEMMA NamesKept ==
    ASSUME OneDiskPerName, \A n \in Names : Named(n)' \subseteq Named(n)
    PROVE  OneDiskPerName'
BY DEF OneDiskPerName

LEMMA StepNameInv ==
    ASSUME LookupsAnswer, NameInv, [Next]_vars
    PROVE  NameInv'
<1>0. TypeInv /\ TypeInv' /\ LockHeld /\ LockHeld'
  BY StepTypeInv, StepLockHeld DEF NameInv
<1>. SUFFICES TasksHaveDisks' /\ NoDiskYet' /\ OneDiskPerName'
  BY <1>0 DEF NameInv
<1>. USE DEF NameInv
<1>1. ASSUME UNCHANGED disks, NoDiskYet'
      PROVE  TasksHaveDisks' /\ NoDiskYet' /\ OneDiskPerName'
  BY <1>1 DEF TasksHaveDisks, OneDiskPerName, Running, Exists, Named
<1>2. CASE UNCHANGED vars
  <2>1. NoDiskYet'
    BY <1>2 DEF vars, NoDiskYet, At, Named, Exists
  <2>2. QED
    BY <1>1, <1>2, <2>1 DEF vars
<1>3. ASSUME NEW s \in Handlers, Outer(s)
      PROVE  TasksHaveDisks' /\ NoDiskYet' /\ OneDiskPerName'
  <2>1. NoDiskYet'
    BY <1>3 DEF Outer, NoDiskYet, At, Named, Exists, Critical
  <2>2. QED
    BY <1>1, <1>3, <2>1 DEF Outer
<1>4. ASSUME NEW s \in Handlers, NEW pc \in Pcs, NEW d, Quiet(s, pc, d)
      PROVE  TasksHaveDisks' /\ NoDiskYet' /\ OneDiskPerName'
  <2>1. pc = "submit" /\ h[s].op = "create" => Named(h[s].name) = {}
    BY <1>4, NotFoundMeansNone DEF Quiet, TypeInv, WellFormed
  <2>2. Moves(s, pc, d) /\ UNCHANGED disks
    BY <1>4 DEF Quiet
  <2>3. NoDiskYet'
    BY <2>1, <2>2 DEF Moves, NoDiskYet, At, Named, Exists
  <2>4. QED
    BY <1>1, <2>2, <2>3
<1>5. ASSUME NEW s \in Handlers, Submits(s)
      PROVE  TasksHaveDisks' /\ NoDiskYet' /\ OneDiskPerName'
  <2>1. /\ h[s].pc = "submit" /\ lock = s /\ h'[s].pc \in {"wait", "fail"}
        /\ \A t \in Handlers \ {s} : h'[t] = h[t]
    BY <1>5 DEF Submits, Creates, Starts, Refused, Sent, Moves, LockHeld, Critical
  <2>2. NoDiskYet'
    \* No other handler is between its lookup and its request.
    BY <2>1 DEF NoDiskYet, At, LockHeld, Critical
  <2>3. CASE Refused(s)
    BY <1>1, <2>2, <2>3 DEF Refused
  <2>4. ASSUME NEW d \in Disks, Creates(s, d)
        PROVE  TasksHaveDisks' /\ OneDiskPerName'
    <3>1. Named(h[s].name) = {}
      BY <2>4 DEF Creates, NoDiskYet
    <3>2. disks' = [disks EXCEPT ![d] = NewDisk(h[s].name)] /\ disks \in [Disks -> Disk]
      BY <2>4 DEF Creates, TypeInv, TypeOK
    <3>3. \A n \in Names : Named(n)' \subseteq Named(n) \union {e \in {d} : n = h[s].name}
      BY <3>2 DEF Named, Exists, NewDisk
    <3>4. OneDiskPerName'
      BY <3>1, <3>3 DEF OneDiskPerName
    <3>5. TasksHaveDisks'
      BY <3>2 DEF TasksHaveDisks, Running, Exists, NewDisk
    <3>6. QED
      BY <3>4, <3>5
  <2>5. ASSUME NEW kind \in {"delete", "attach", "detach"}, Starts(s, kind)
        PROVE  TasksHaveDisks' /\ OneDiskPerName'
    <3>1. /\ h[s].disk \in Disks /\ Exists(h[s].disk)
          /\ disks' = [disks EXCEPT ![h[s].disk].task = Started(kind, h[s].vm)]
          /\ disks \in [Disks -> Disk]
      BY <2>5 DEF Starts, TypeInv, TypeOK
    <3>2. \A e \in Disks : /\ disks'[e].st = disks[e].st /\ disks'[e].name = disks[e].name
                           /\ e # h[s].disk => disks'[e] = disks[e]
      BY <3>1 DEF Disk
    <3>3. OneDiskPerName'
      BY <3>2, NamesKept DEF Named, Exists
    <3>4. TasksHaveDisks'
      BY <3>1, <3>2 DEF TasksHaveDisks, Running, Exists
    <3>5. QED
      BY <3>3, <3>4
  <2>6. QED
    BY <1>5, <2>2, <2>3, <2>4, <2>5 DEF Submits
<1>6. ASSUME NEW d \in Disks, TaskEnds(d)
      PROVE  TasksHaveDisks' /\ NoDiskYet' /\ OneDiskPerName'
  <2>1. \A e \in Disks : /\ Exists(e)' => Exists(e)
                         /\ disks'[e].name = disks[e].name
                         /\ Running(e)' => e # d /\ disks'[e] = disks[e]
    BY <1>6 DEF TaskEnds, TasksHaveDisks, Exists, Running
  <2>2. \A n \in Names : Named(n)' \subseteq Named(n)
    BY <2>1 DEF Named
  <2>3. NoDiskYet'
    BY <1>6, <2>2 DEF TaskEnds, NoDiskYet, At, TypeInv, WellFormed
  <2>4. TasksHaveDisks'
    BY <2>1 DEF TasksHaveDisks, Running, Exists
  <2>5. QED
    BY <2>2, <2>3, <2>4, NamesKept
<1>7. CASE Crash
  <2>1. NoDiskYet'
    BY <1>7 DEF Crash, NoDiskYet, At, Idle
  <2>2. QED
    BY <1>1, <1>7, <2>1 DEF Crash, vcdVars
<1>8. QED
  BY <1>0, <1>2, <1>3, <1>4, <1>5, <1>6, <1>7, NextSteps

LEMMA InitNameInv == Init => NameInv
<1> SUFFICES ASSUME Init PROVE NameInv
  OBVIOUS
<1>2. TasksHaveDisks /\ OneDiskPerName
  BY InitDisks, InitialDisksAreSane
     DEF NoTask, TasksHaveDisks, OneDiskPerName, Named, Exists, Running
<1>3. LockHeld /\ NoDiskYet
  BY NamesAreDistinct DEF Init, LockHeld, NoDiskYet, At, Idle, Critical
<1>4. QED
  BY <1>2, <1>3, InitTypeInv DEF NameInv

(* Whatever else fails, is lost or retried, and wherever the process       *)
(* restarts, a driver whose lookups answer (it has no zone map, or every   *)
(* OVDC can be asked) knows the disk of a name: what CreateDisk looked up  *)
(* stays true until VCD has accepted its request, since every request that *)
(* could make it false needs the lock.                                     *)
THEOREM NameInvariant == ASSUME LookupsAnswer PROVE Spec => []NameInv
<1>1. NameInv /\ [Next]_vars => NameInv'
  BY StepNameInv
<1>2. QED
  BY InitNameInv, <1>1, PTL DEF Spec

(* Such a driver never leaves two disks of one name.                       *)
THEOREM OneDisk == ASSUME LookupsAnswer PROVE Spec => []OneDiskPerName
<1>1. NameInv => OneDiskPerName
  BY DEF NameInv
<1>2. QED
  BY NameInvariant, <1>1, PTL

(***************************************************************************)
(* One VM for a disk that is not shareable.                                *)
(***************************************************************************)
SeesTasksThrough == {"lost", "wait", "crash"} \intersect Faults = {}

LEMMA StepSharingInv ==
    ASSUME SeesTasksThrough, SharingInv, [Next]_vars
    PROVE  SharingInv'
<1> DEFINE Goal == TasksAreAwaited' /\ NoUserYet' /\ NoUserMeanwhile' /\ SingleAttach'
<1>0. TypeInv /\ TypeInv' /\ LockHeld /\ LockHeld'
  BY StepTypeInv, StepLockHeld DEF SharingInv
<1>a. ~May("lost") /\ ~May("wait") /\ ~May("crash")
  BY DEF SeesTasksThrough, May
<1>. SUFFICES Goal
  BY <1>0 DEF SharingInv
<1>. USE DEF SharingInv
<1>1. ASSUME UNCHANGED disks, TasksAreAwaited', NoUserYet' PROVE Goal
  BY <1>1 DEF NoUserMeanwhile, SingleAttach, Running, Shareable
<1>2. CASE UNCHANGED vars
  <2>1. TasksAreAwaited' /\ NoUserYet'
    BY <1>2 DEF vars, TasksAreAwaited, NoUserYet, At, Running, Shareable
  <2>2. QED
    BY <1>1, <1>2, <2>1 DEF vars
<1>3. ASSUME NEW s \in Handlers, Outer(s) PROVE Goal
  <2>1. TasksAreAwaited'
    BY <1>3 DEF Outer, TasksAreAwaited, Running, Critical
  <2>2. NoUserYet'
    BY <1>3 DEF Outer, NoUserYet, At, Shareable, Critical
  <2>3. QED
    BY <1>1, <1>3, <2>1, <2>2 DEF Outer
<1>4. ASSUME NEW s \in Handlers, NEW pc \in Pcs, NEW d, Quiet(s, pc, d) PROVE Goal
  <2>1. TasksAreAwaited'
    \* A handler leaves "wait" only when its task has ended.
    <3>1. h[s].pc = "wait" => ~Running(h[s].disk)
      BY <1>4, <1>a DEF Quiet, Learned, TaskSeen
    <3>2. QED
      BY <1>4, <3>1 DEF Quiet, Moves, TasksAreAwaited, Running
  <2>2. NoUserYet'
    BY <1>4 DEF Quiet, Moves, NoUserYet, At, Shareable
  <2>3. QED
    BY <1>1, <1>4, <2>1, <2>2 DEF Quiet
<1>5. ASSUME NEW s \in Handlers, Submits(s) PROVE Goal
  <2>1. /\ h[s].pc = "submit" /\ lock = s /\ h'[s].pc \in {"wait", "fail"}
        /\ \A t \in Handlers \ {s} : h'[t] = h[t]
    BY <1>5 DEF Submits, Creates, Starts, Refused, Sent, Moves, LockHeld, Critical
  <2>2. NoUserYet'
    BY <2>1 DEF NoUserYet, At, LockHeld, Critical
  <2>3. CASE Refused(s)
    <3>1. TasksAreAwaited'
      BY <2>1, <2>3 DEF Refused, TasksAreAwaited, Running
    <3>2. QED
      BY <1>1, <2>2, <2>3, <3>1 DEF Refused
  <2>4. ASSUME NEW d \in Disks, Sent(s, d), \A e \in Disks \ {d} : disks'[e] = disks[e]
        PROVE  TasksAreAwaited'
    <3>1. h'[s].pc = "wait" /\ h'[s].disk = d
      BY <2>4, <1>a DEF Sent, Moves
    <3>2. QED
      BY <2>1, <2>4, <3>1 DEF TasksAreAwaited, Running
  <2>5. ASSUME NEW d \in Disks, Creates(s, d) PROVE Goal
    <3>1. disks' = [disks EXCEPT ![d] = NewDisk(h[s].name)] /\ disks \in [Disks -> Disk]
      BY <2>5 DEF Creates, TypeInv, TypeOK
    <3>2. TasksAreAwaited'
      BY <2>4, <2>5, <3>1 DEF Creates
    <3>3. NoUserMeanwhile'
      BY <3>1 DEF NoUserMeanwhile, Running, Shareable, NewDisk, Started
    <3>4. SingleAttach'
      BY <3>1 DEF SingleAttach, Shareable, NewDisk
    <3>5. QED
      BY <2>2, <3>2, <3>3, <3>4
  <2>6. ASSUME NEW kind \in {"delete", "attach", "detach"}, Starts(s, kind) PROVE Goal
    <3>1. /\ h[s].disk \in Disks
          /\ disks' = [disks EXCEPT ![h[s].disk].task = Started(kind, h[s].vm)]
          /\ disks \in [Disks -> Disk]
      BY <2>6 DEF Starts, TypeInv, TypeOK
    <3>2. \A e \in Disks : /\ disks'[e].vms = disks[e].vms /\ disks'[e].spec = disks[e].spec
                           /\ e # h[s].disk => disks'[e] = disks[e]
      BY <3>1 DEF Disk
    <3>3. disks'[h[s].disk].task.kind = kind
      BY <3>1 DEF Disk, Started
    <3>4. kind = "attach" /\ ~Shareable(h[s].disk) => disks[h[s].disk].vms = {}
      BY <2>1, <2>6 DEF Starts, NoUserYet, At
    <3>5. TasksAreAwaited'
      BY <2>4, <2>6, <3>1, <3>2 DEF Starts
    <3>6. NoUserMeanwhile'
      BY <3>1, <3>2, <3>3, <3>4 DEF NoUserMeanwhile, Running, Shareable
    <3>7. SingleAttach'
      BY <3>2 DEF SingleAttach, Shareable
    <3>8. QED
      BY <2>2, <3>5, <3>6, <3>7
  <2>7. QED
    BY <1>5, <2>3, <2>5, <2>6 DEF Submits
<1>6. ASSUME NEW d \in Disks, TaskEnds(d) PROVE Goal
  <2>1. \A e \in Disks : Running(e)' => Running(e) /\ e # d /\ disks'[e] = disks[e]
    BY <1>6 DEF TaskEnds, Running
  <2>2. TasksAreAwaited'
    BY <1>6, <2>1 DEF TaskEnds, TasksAreAwaited
  <2>3. NoUserYet'
    <3>1. PICK s \in Handlers : h[s].pc = "wait"
      BY <1>6 DEF TaskEnds, TasksAreAwaited
    <3>2. \A t \in Handlers : h[t].pc # "submit"
      \* The task's handler holds the lock: no check is waiting to be used.
      BY <3>1 DEF LockHeld, Critical
    <3>3. QED
      BY <1>6, <3>2 DEF TaskEnds, NoUserYet, At
  <2>4. NoUserMeanwhile'
    BY <2>1 DEF NoUserMeanwhile, Shareable
  <2>5. SingleAttach'
    <3>1. ~Shareable(d) => \A v, w \in disks'[d].vms : v = w
      BY <1>6 DEF TaskEnds, SingleAttach, NoUserMeanwhile
    <3>2. Shareable(d)' <=> Shareable(d)
      BY <1>6 DEF TaskEnds, Shareable
    <3>3. QED
      BY <1>6, <3>1, <3>2 DEF TaskEnds, SingleAttach, Shareable
  <2>6. QED
    BY <2>2, <2>3, <2>4, <2>5
<1>7. ~Crash
  BY <1>a DEF Crash
<1>8. QED
  BY <1>0, <1>2, <1>3, <1>4, <1>5, <1>6, <1>7, NextSteps

LEMMA InitSharingInv == Init => SharingInv
<1> SUFFICES ASSUME Init PROVE SharingInv
  OBVIOUS
<1>2. TasksAreAwaited /\ NoUserMeanwhile /\ SingleAttach
  BY InitDisks DEF NoTask, TasksAreAwaited, NoUserMeanwhile, SingleAttach, Running
<1>3. LockHeld /\ NoUserYet
  BY NamesAreDistinct DEF Init, LockHeld, NoUserYet, At, Idle, Critical
<1>4. QED
  BY <1>2, <1>3, InitTypeInv DEF SharingInv

(* As long as every handler sees its task through (no reply is lost, no    *)
(* poll fails, no restart), a running task is awaited under the lock, so   *)
(* AttachVolume's look at the attachments is still true when VCD attaches  *)
(* the disk.                                                               *)
THEOREM SharingInvariant == ASSUME SeesTasksThrough PROVE Spec => []SharingInv
<1>1. SharingInv /\ [Next]_vars => SharingInv'
  BY StepSharingInv
<1>2. QED
  BY InitSharingInv, <1>1, PTL DEF Spec

(* Then a disk that is not shareable has one VM, even where VCD itself     *)
(* would attach it twice.                                                  *)
THEOREM SingleVm == ASSUME SeesTasksThrough PROVE Spec => []SingleAttach
<1>1. SharingInv => SingleAttach
  BY DEF SharingInv
<1>2. QED
  BY SharingInvariant, <1>1, PTL
=============================================================================
