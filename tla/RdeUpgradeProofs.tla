------------------------- MODULE RdeUpgradeProofs --------------------------
(***************************************************************************)
(* Proofs about RdeUpgrade, for any number of drivers, volumes and writes  *)
(* of others, any faults and any bounds: an upgrade loses no volume and    *)
(* nothing others wrote, and brings nothing back; a driver that serves has *)
(* upgraded; and the report that an upgrade failed does not stay.          *)
(*                                                                         *)
(* The argument (Inv): a copy under a fresh etag lists what the document   *)
(* lists and agrees with it on the rest, up to what the upgrade is about,  *)
(* so sending it changes the document as an upgrade may.  Every write      *)
(* makes all etags that were read old.  An old list that is empty stays    *)
(* so, and a driver gets past the lookup only where it is.  The reports    *)
(* have an invariant of their own (Sound), which rests on this one.        *)
(***************************************************************************)
EXTENDS RdeUpgrade, FiniteSetTheorems, TLAPS

Processes == [pc : Steps, tries : Nat, copy : Documents, fresh : BOOLEAN]

Types == /\ rde \in Documents
         /\ vol \in [Pvs -> {"none", "exists", "deleted"}]
         /\ proc \in [Drivers -> Processes]

(* What a write may do to the document a.                                  *)
Improves(a, b) ==
    /\ b.kind = a.kind /\ b.form = a.form
    /\ b.others >= a.others
    /\ a.kind = "capvcd" /\ a.old = {} => b.old = {}
    /\ (a.csi => a.latest) => (b.csi => b.latest)

(* A driver at work on a copy.                                             *)
HoldsWell(p, doc) ==
    /\ p.pc \in {"putPvs", "putCsi"} /\ p.fresh =>
           Improves(doc, p.copy) /\ Listed(doc) \subseteq Listed(p.copy)
    /\ p.pc = "putCsi" => p.copy.latest

PastPvs(p) == p.pc \in {"putPvs", "report", "event", "clear", "getCsi", "putCsi",
                        "lastEvent", "lastClear", "serving"}

PastCsi(p) == p.pc \in {"lastEvent", "lastClear", "serving"}

(* What a driver that upgrades has come past is upgraded.                  *)
HasUpgraded(p, doc) ==
    doc.form = "ok" =>
        /\ doc.kind = "capvcd" /\ PastPvs(p) => doc.old = {}
        /\ PastCsi(p) => (doc.csi => doc.latest)

Inv == /\ Types
       /\ VolumesAreListed
       /\ rde.kind = "none" => (rde.csi => rde.latest)
       /\ \A d \in Drivers : HoldsWell(proc[d], rde)
       /\ \A d \in Upgraders : HasUpgraded(proc[d], rde)

Kept == Inv' /\ rde'.others >= rde.others

FaultsInv == faults \in [UpgradeFaults -> Nat]

---------------------------------------------------------------------------
LEMMA InitInv == Init => Inv
  <1> SUFFICES ASSUME Init PROVE Inv
    OBVIOUS
  <1>1. PICK kind \in RdeKinds, form \in Forms, csi \in BOOLEAN, latest \in BOOLEAN,
             old \in SUBSET Pvs, new \in SUBSET Pvs :
          /\ old \cap new = {}
          /\ new # {} => csi /\ kind = "capvcd"
          /\ latest => csi
          /\ form # "ok" => new = {}
          /\ form \in {"noStatus", "badStatus", "badPvs"} \/ kind = "none" => old = {}
          /\ form \in {"noStatus", "badStatus"} \/ kind = "none" => ~csi
          /\ form = "badCsi" => csi
          /\ rde = [kind |-> kind, form |-> form, old |-> old, new |-> new,
                    csi |-> csi, latest |-> latest, errors |-> <<>>, others |-> 0]
          /\ vol = [p \in Pvs |-> IF p \in old \union new THEN "exists" ELSE "none"]
    BY DEF Init
  <1>2. rde \in Documents
    <2>1. kind \in {"capvcd", "native", "none"} /\ form \in AllForms
      BY UpgradeIsSane
    <2>2. <<>> \in Seq(Topics)
      OBVIOUS
    <2> QED
      BY <1>1, <2>1, <2>2 DEF Documents
  <1>3. proc = [d \in Drivers |-> [pc |-> "boot", tries |-> 0, copy |-> rde, fresh |-> FALSE]]
    BY DEF Init
  <1>4. Types
    <2>1. [pc |-> "boot", tries |-> 0, copy |-> rde, fresh |-> FALSE] \in Processes
      BY <1>2 DEF Processes, Steps
    <2>2. vol \in [Pvs -> {"none", "exists", "deleted"}]
      BY <1>1
    <2> QED
      BY <1>2, <1>3, <2>1, <2>2 DEF Types
  <1>5. VolumesAreListed
    <2> SUFFICES ASSUME NEW p \in Pvs, vol[p] = "exists" PROVE p \in Listed(rde)
      BY DEF VolumesAreListed
    <2>1. p \in old \/ p \in new
      BY <1>1
    <2> QED
      BY <1>1, <2>1 DEF Listed
  <1>6. rde.kind = "none" => (rde.csi => rde.latest)
    BY <1>1
  <1>7. \A d \in Drivers : HoldsWell(proc[d], rde)
    BY <1>3 DEF HoldsWell
  <1>8. \A d \in Upgraders : HasUpgraded(proc[d], rde)
    BY <1>3, UpgradeIsSane DEF HasUpgraded, PastPvs, PastCsi
  <1> QED
    BY <1>4, <1>5, <1>6, <1>7, <1>8 DEF Inv

(* A driver moves on and the document stays.                               *)
LEMMA LocalStep ==
    ASSUME Inv, NEW d \in Drivers, NEW p \in Processes,
           proc' = [proc EXCEPT ![d] = p], UNCHANGED <<rde, vol>>,
           HoldsWell(p, rde), d \in Upgraders => HasUpgraded(p, rde)
    PROVE  Kept
  <1>1. Types'
    BY SMT DEF Inv, Types
  <1>2. VolumesAreListed' /\ (rde.kind = "none" => (rde.csi => rde.latest))'
    BY DEF Inv, VolumesAreListed, Listed
  <1>3. \A x \in Drivers : proc'[x] = IF x = d THEN p ELSE proc[x]
    BY SMT DEF Inv, Types
  <1>4. \A x \in Drivers : HoldsWell(proc'[x], rde)
    BY <1>3 DEF Inv
  <1>5. \A x \in Upgraders : HasUpgraded(proc[x], rde)'
    <2> TAKE x \in Upgraders
    <2>1. HasUpgraded(proc'[x], rde)
      BY <1>3, UpgradeIsSane DEF Inv
    <2> QED
      BY <2>1, Zenon DEF HasUpgraded
  <1>6. rde'.others >= rde.others
    BY SMT DEF Inv, Types, Documents
  <1>7. \A x \in Drivers : HoldsWell(proc[x], rde)'
    BY <1>4 DEF HoldsWell
  <1> QED
    BY <1>1, <1>2, <1>5, <1>6, <1>7, Zenon DEF Inv, Kept

(* A write, by a driver or by another program.                             *)
LEMMA WriteStep ==
    ASSUME Inv, NEW doc \in Documents, Improves(rde, doc), rde' = doc,
           VolumesAreListed', vol' \in [Pvs -> {"none", "exists", "deleted"}],
           proc' \in [Drivers -> Processes],
           \A d \in Drivers : ~proc'[d].fresh,
           \A d \in Drivers : proc'[d].pc = "putCsi" => proc'[d].copy.latest,
           \A d \in Upgraders : HasUpgraded(proc'[d], doc)
    PROVE  Kept
  <1>1. Types'
    BY DEF Types
  <1>2. (rde.kind = "none" => (rde.csi => rde.latest))'
    BY DEF Inv, Improves
  <1>3. \A d \in Drivers : HoldsWell(proc'[d], rde')
    BY DEF HoldsWell
  <1>4. \A d \in Upgraders : HasUpgraded(proc[d], rde)'
    BY Zenon DEF HasUpgraded
  <1>5. rde'.others >= rde.others
    BY DEF Improves
  <1> QED
    BY <1>1, <1>2, <1>3, <1>4, <1>5, Zenon DEF Inv, Kept

(* What a driver has come past stays upgraded when the document improves.  *)
LEMMA StaysUpgraded ==
    ASSUME NEW p, NEW a, NEW b, HasUpgraded(p, a), Improves(a, b)
    PROVE  HasUpgraded(p, b)
  BY Zenon DEF HasUpgraded, Improves

(* A driver writes and goes on as p.                                       *)
LEMMA DriverWrites ==
    ASSUME Inv, NEW d \in Drivers, NEW doc \in Documents, NEW p \in Processes,
           Write(d, doc, p), Improves(rde, doc),
           VolumesAreListed', vol' \in [Pvs -> {"none", "exists", "deleted"}],
           p.pc \notin {"putPvs", "putCsi"},
           d \in Upgraders => HasUpgraded(p, doc)
    PROVE  Kept
  <1>1. rde' = doc
    BY DEF Write
  <1>2. \A x \in Drivers :
            proc'[x] = IF x = d THEN [p EXCEPT !.fresh = FALSE] ELSE [proc[x] EXCEPT !.fresh = FALSE]
    BY DEF Write
  <1>3. \A x \in Drivers : proc[x] \in Processes
    BY DEF Inv, Types
  <1>4. proc' \in [Drivers -> Processes]
    <2>1. \A q \in Processes : [q EXCEPT !.fresh = FALSE] \in Processes
      BY DEF Processes
    <2>2. proc' = [x \in Drivers |-> proc'[x]]
      BY DEF Write
    <2> QED
      BY <1>2, <1>3, <2>1, <2>2
  <1>5. \A q \in Processes : /\ ~[q EXCEPT !.fresh = FALSE].fresh
                             /\ [q EXCEPT !.fresh = FALSE].pc = q.pc
                             /\ [q EXCEPT !.fresh = FALSE].copy = q.copy
    BY DEF Processes
  <1>6. \A x \in Drivers : ~proc'[x].fresh
    <2> TAKE x \in Drivers
    <2>1. PICK q \in Processes : proc'[x] = [q EXCEPT !.fresh = FALSE]
      BY <1>2, <1>3
    <2> QED
      BY <1>5, <2>1, Zenon
  <1>7. \A x \in Drivers : proc'[x].pc = "putCsi" => proc'[x].copy.latest
    <2> TAKE x \in Drivers
    <2>1. CASE x = d
      BY <2>1, <1>2, <1>5
    <2>2. CASE x # d
      <3>1. proc'[x].pc = proc[x].pc /\ proc'[x].copy = proc[x].copy
        BY <2>2, <1>2, <1>3, <1>5
      <3>2. HoldsWell(proc[x], rde)
        BY DEF Inv
      <3> QED
        BY <3>1, <3>2, Zenon DEF HoldsWell
    <2> QED
      BY <2>1, <2>2
  <1>8. \A x \in Upgraders : HasUpgraded(proc'[x], doc)
    <2> TAKE x \in Upgraders
    <2>0. x \in Drivers
      BY UpgradeIsSane
    <2>1. CASE x = d
      <3>1. HasUpgraded(p, doc)
        BY <2>1
      <3>2. proc'[x].pc = p.pc
        BY <2>0, <2>1, <1>2, <1>5
      <3> QED
        BY <3>1, <3>2, Zenon DEF HasUpgraded, PastPvs, PastCsi
    <2>2. CASE x # d
      <3>1. HasUpgraded(proc[x], doc)
        BY StaysUpgraded DEF Inv
      <3>2. proc'[x].pc = proc[x].pc
        BY <2>0, <2>2, <1>2, <1>3, <1>5
      <3> QED
        BY <3>1, <3>2, Zenon DEF HasUpgraded, PastPvs, PastCsi
    <2> QED
      BY <2>1, <2>2
  <1> QED
    BY <1>1, <1>4, <1>6, <1>7, <1>8, WriteStep, Zenon

LEMMA ListingKept ==
    ASSUME Inv, UNCHANGED vol, rde'.kind = rde.kind, Listed(rde) \subseteq Listed(rde')
    PROVE  VolumesAreListed' /\ vol' \in [Pvs -> {"none", "exists", "deleted"}]
  BY DEF Inv, Types, VolumesAreListed

(* A driver moves on to a step that needs no copy.                         *)
LEMMA GotoStep ==
    ASSUME Inv, NEW d \in Drivers, NEW s \in Steps \ {"putPvs", "putCsi"},
           Goto(d, s), UNCHANGED <<rde, vol>>,
           d \in Upgraders => HasUpgraded([proc[d] EXCEPT !.pc = s], rde)
    PROVE  Kept
  <1> DEFINE p == [proc[d] EXCEPT !.pc = s]
  <1>1. p \in Processes /\ p.pc = s
    BY DEF Inv, Types, Processes
  <1>2. proc' = [proc EXCEPT ![d] = p]
    BY DEF Goto
  <1>3. HoldsWell(p, rde)
    BY <1>1 DEF HoldsWell
  <1> HIDE DEF p
  <1>4. d \in Upgraders => HasUpgraded(p, rde)
    BY DEF p
  <1> QED
    BY <1>1, <1>2, <1>3, <1>4, LocalStep, Zenon

(* What the upgrade of a process depends on.                               *)
LEMMA NotPast ==
    ASSUME NEW q, NEW doc, ~PastPvs(q), ~PastCsi(q)
    PROVE  HasUpgraded(q, doc)
  BY DEF HasUpgraded

(* A process that has come no further is as upgraded as before.            *)
LEMMA NoFurther ==
    ASSUME NEW q, NEW r, NEW doc, HasUpgraded(q, doc),
           PastPvs(r) => PastPvs(q), PastCsi(r) => PastCsi(q)
    PROVE  HasUpgraded(r, doc)
  BY Zenon DEF HasUpgraded

---------------------------------------------------------------------------
(* Start                                                                   *)

LEMMA BootStep ==
    ASSUME Inv, NEW d \in Drivers, Boot(d) \/ Crash(d)
    PROVE  Kept
  <1>1. PICK s \in {"setup", "down"} : Goto(d, s)
    BY DEF Boot, Crash
  <1>2. UNCHANGED <<rde, vol>>
    BY DEF Boot, Crash
  <1>3. [proc[d] EXCEPT !.pc = s].pc = s
    BY DEF Inv, Types, Processes
  <1>4. HasUpgraded([proc[d] EXCEPT !.pc = s], rde)
    BY <1>3, NotPast DEF PastPvs, PastCsi
  <1>5. s \in Steps \ {"putPvs", "putCsi"}
    BY DEF Steps
  <1> QED
    BY <1>1, <1>2, <1>4, <1>5, GotoStep

LEMMA SetupStep ==
    ASSUME Inv, NEW d \in Drivers, Setup(d)
    PROVE  Kept
  <1> DEFINE s == IF d \notin Upgraders \/ rde.kind = "none" THEN "serving"
                  ELSE IF rde.kind = "capvcd" THEN "getPvs" ELSE "getCsi"
             p == [proc[d] EXCEPT !.pc = s, !.tries = 0]
  <1>0. s \in {"serving", "getPvs", "getCsi"}
    OBVIOUS
  <1>1. p \in Processes /\ p.pc = s
    <2>1. s \in Steps /\ proc[d] \in Processes
      BY DEF Inv, Types, Steps
    <2> HIDE DEF s
    <2> QED
      BY <2>1 DEF Processes
  <1>2. proc' = [proc EXCEPT ![d] = p] /\ UNCHANGED <<rde, vol>>
    BY DEF Setup
  <1>3. HoldsWell(p, rde)
    BY <1>0, <1>1 DEF HoldsWell
  <1>4. d \in Upgraders => HasUpgraded(p, rde)
    <2>1. CASE s = "serving"
      <3>1. d \in Upgraders => rde.kind = "none"
        BY <2>1
      <3> QED
        BY <3>1 DEF Inv, HasUpgraded
    <2>2. CASE s = "getPvs"
      BY <2>2, <1>1, NotPast DEF PastPvs, PastCsi
    <2>3. CASE s = "getCsi"
      <3>1. d \in Upgraders => rde.kind # "capvcd"
        BY <2>3
      <3> QED
        BY <2>3, <3>1, <1>1 DEF HasUpgraded, PastCsi
    <2> QED
      BY <2>1, <2>2, <2>3, <1>0
  <1> HIDE DEF p, s
  <1> QED
    BY <1>1, <1>2, <1>3, <1>4, LocalStep, Zenon

LEMMA RestartStep ==
    ASSUME Inv, NEW d \in Drivers, Restart(d)
    PROVE  Kept
  <1> DEFINE p == [proc[d] EXCEPT !.pc = "boot", !.fresh = FALSE]
  <1>1. p \in Processes /\ p.pc = "boot"
    <2>1. proc[d] \in Processes
      BY DEF Inv, Types
    <2> QED
      BY <2>1 DEF Processes, Steps
  <1>2. proc' = [proc EXCEPT ![d] = p] /\ UNCHANGED <<rde, vol>>
    BY DEF Restart
  <1> HIDE DEF p
  <1>3. HoldsWell(p, rde)
    BY <1>1 DEF HoldsWell
  <1>4. HasUpgraded(p, rde)
    BY <1>1, NotPast DEF PastPvs, PastCsi
  <1> QED
    BY <1>1, <1>2, <1>3, <1>4, LocalStep, Zenon

---------------------------------------------------------------------------
(* UpgradeRDEPersistentVolumes                                             *)

(* The fields of a changed document.                                       *)
LEMMA Changed ==
    ASSUME NEW doc \in Documents, NEW old \in SUBSET Pvs, NEW new \in SUBSET Pvs,
           NEW csi \in BOOLEAN, NEW latest \in BOOLEAN, NEW errors \in Seq(Topics)
    PROVE  LET u == [doc EXCEPT !.old = old, !.new = new, !.csi = csi, !.latest = latest,
                                !.errors = errors]
           IN  /\ u \in Documents
               /\ u.old = old /\ u.new = new /\ u.csi = csi /\ u.latest = latest
               /\ u.kind = doc.kind /\ u.form = doc.form /\ u.others = doc.others
  BY DEF Documents

LEMMA SameDocument ==
    ASSUME NEW doc \in Documents
    PROVE  /\ Improves(doc, doc)
           /\ [doc EXCEPT !.latest = TRUE] \in Documents
           /\ [doc EXCEPT !.latest = TRUE].latest
           /\ Improves(doc, [doc EXCEPT !.latest = TRUE])
           /\ Listed([doc EXCEPT !.latest = TRUE]) = Listed(doc)
  <1>1. doc.others >= doc.others
    BY SMT DEF Documents
  <1> DEFINE u == [doc EXCEPT !.latest = TRUE]
  <1>2. /\ u \in Documents /\ u.latest
        /\ u.kind = doc.kind /\ u.form = doc.form /\ u.others = doc.others
        /\ u.old = doc.old /\ u.new = doc.new
    BY DEF Documents
  <1> HIDE DEF u
  <1>3. Improves(doc, doc) /\ Improves(doc, u)
    BY <1>1, <1>2, Zenon DEF Improves
  <1>4. Listed(u) = Listed(doc)
    BY <1>2 DEF Listed
  <1> QED
    BY <1>2, <1>3, <1>4 DEF u

LEMMA GetPvsStep ==
    ASSUME Inv, NEW d \in Drivers, GetPvs(d)
    PROVE  Kept
  <1>0. UNCHANGED <<rde, vol>> /\ proc[d] \in Processes
    BY DEF GetPvs, Inv, Types
  <1>1. CASE Goto(d, "failing")
    <2>1. HasUpgraded([proc[d] EXCEPT !.pc = "failing"], rde)
      BY <1>0, NotPast DEF PastPvs, PastCsi, Processes
    <2> QED
      BY <1>0, <1>1, <2>1, GotoStep DEF Steps
  <1>2. CASE rde.form = "noStatus" /\ Goto(d, "event")
    <2>1. HasUpgraded([proc[d] EXCEPT !.pc = "event"], rde)
      BY <1>2 DEF HasUpgraded
    <2> QED
      BY <1>0, <1>2, <2>1, GotoStep DEF Steps
  <1>3. CASE rde.form # "ok" /\ Goto(d, "report")
    <2>1. HasUpgraded([proc[d] EXCEPT !.pc = "report"], rde)
      BY <1>3 DEF HasUpgraded
    <2> QED
      BY <1>0, <1>3, <2>1, GotoStep DEF Steps
  <1>5. CASE Goto(d, "lookup")
    <2>1. HasUpgraded([proc[d] EXCEPT !.pc = "lookup"], rde)
      BY <1>0, NotPast DEF PastPvs, PastCsi, Processes
    <2> QED
      BY <1>0, <1>5, <2>1, GotoStep DEF Steps
  <1>4. CASE /\ rde.form = "ok" => rde.old = {}
             /\ proc' = [proc EXCEPT ![d] = [@ EXCEPT
                          !.pc = "putPvs", !.copy = rde, !.fresh = TRUE]]
    <2> DEFINE p == [proc[d] EXCEPT !.pc = "putPvs", !.copy = rde, !.fresh = TRUE]
    <2>0. rde \in Documents
      BY DEF Inv, Types
    <2>1. p \in Processes /\ p.pc = "putPvs" /\ p.copy = rde
      BY <1>0, <2>0 DEF Processes, Steps
    <2>2. proc' = [proc EXCEPT ![d] = p]
      BY <1>4
    <2> HIDE DEF p
    <2>3. HasUpgraded(p, rde)
      BY <1>4, <2>1 DEF HasUpgraded, PastCsi
    <2>4. HoldsWell(p, rde)
      BY <2>0, <2>1, SameDocument DEF HoldsWell
    <2> QED
      BY <1>0, <2>1, <2>2, <2>3, <2>4, LocalStep, Zenon
  <1> QED
    BY <1>1, <1>2, <1>3, <1>4, <1>5 DEF GetPvs

LEMMA LookupStep ==
    ASSUME Inv, NEW d \in Drivers, Lookup(d)
    PROVE  Kept
  <1>1. UNCHANGED <<rde, vol>> /\ Goto(d, "down") /\ proc[d] \in Processes
    BY DEF Lookup, Inv, Types
  <1>2. HasUpgraded([proc[d] EXCEPT !.pc = "down"], rde)
    BY <1>1, NotPast DEF PastPvs, PastCsi, Processes
  <1> QED
    BY <1>1, <1>2, GotoStep DEF Steps

LEMMA PutPvsStep ==
    ASSUME Inv, NEW d \in Drivers, PutPvs(d)
    PROVE  Kept
  <1>0. /\ UNCHANGED vol
        /\ proc[d] \in Processes /\ proc[d].copy \in Documents
        /\ proc[d].pc = "putPvs" /\ (d \in Upgraders => HasUpgraded(proc[d], rde))
    BY DEF PutPvs, Inv, Types, Processes
  <1>1. Over(d) \in Processes /\ Over(d).pc = "event"
    BY <1>0 DEF Over, Processes, Steps
  <1>2. Again(d) \in Processes /\ Again(d).pc = "getPvs"
    <2>1. proc[d].tries + 1 \in Nat
      BY <1>0, SMT DEF Processes
    <2> QED
      BY <1>0, <2>1 DEF Again, Processes, Steps
  <1>3. d \in Upgraders => HasUpgraded(Over(d), rde)
    BY <1>0, <1>1, NoFurther DEF PastPvs, PastCsi
  <1>4. CASE proc[d].fresh /\ Write(d, proc[d].copy, Over(d))
    <2>1. Improves(rde, proc[d].copy) /\ Listed(rde) \subseteq Listed(proc[d].copy)
      BY <1>0, <1>4 DEF Inv, HoldsWell
    <2>2. rde' = proc[d].copy
      BY <1>4 DEF Write
    <2>3. VolumesAreListed' /\ vol' \in [Pvs -> {"none", "exists", "deleted"}]
      BY <1>0, <2>1, <2>2, ListingKept DEF Improves
    <2>4. d \in Upgraders => HasUpgraded(Over(d), proc[d].copy)
      BY <1>3, <2>1, StaysUpgraded, Zenon
    <2> QED
      BY <1>0, <1>1, <1>4, <2>1, <2>3, <2>4, DriverWrites
  <1>5. CASE proc' = [proc EXCEPT ![d] = Again(d)] /\ UNCHANGED rde
    <2>1. HasUpgraded(Again(d), rde)
      BY <1>2, NotPast DEF PastPvs, PastCsi
    <2>2. HoldsWell(Again(d), rde)
      BY <1>2 DEF HoldsWell
    <2> QED
      BY <1>0, <1>2, <1>5, <2>1, <2>2, LocalStep
  <1>6. CASE proc' = [proc EXCEPT ![d] = Over(d)] /\ UNCHANGED rde
    <2>1. HoldsWell(Over(d), rde)
      BY <1>1 DEF HoldsWell
    <2> QED
      BY <1>0, <1>1, <1>3, <1>6, <2>1, LocalStep
  <1> QED
    BY <1>4, <1>5, <1>6 DEF PutPvs

---------------------------------------------------------------------------
(* Reports                                                                 *)

(* The entries of a rolling window and of one without a topic.             *)
LEMMA RolledEntries ==
    ASSUME NEW w \in Seq(Topics), NEW t \in Topics
    PROVE  /\ Rolled(w, t) \in Seq(Topics)
           /\ \A u : Has(Rolled(w, t), u) => Has(w, u) \/ u = t
  <1> DEFINE l == Append(w, t)
  <1>1. /\ l \in Seq(Topics) /\ Len(l) = Len(w) + 1 /\ Len(w) \in Nat
        /\ l[Len(w) + 1] = t /\ \A i \in 1..Len(w) : l[i] = w[i]
    OBVIOUS
  <1>2. \A i \in 1..Len(l) : i \in 1..Len(w) \/ i = Len(w) + 1
    BY <1>1
  <1> HIDE DEF l
  <1>3. Tail(l) \in Seq(Topics) /\ \A k \in DOMAIN Tail(l) : k + 1 \in 1..Len(l) /\ Tail(l)[k] = l[k + 1]
    BY <1>1
  <1>4. Rolled(w, t) = l \/ Rolled(w, t) = Tail(l)
    BY DEF Rolled, l
  <1>5. \A i \in 1..Len(l) : l[i] = t \/ \E j \in DOMAIN w : l[i] = w[j]
    BY <1>1, <1>2
  <1>6. \A k \in DOMAIN Rolled(w, t) : \E i \in 1..Len(l) : Rolled(w, t)[k] = l[i]
    BY <1>1, <1>3, <1>4
  <1> QED
    BY <1>1, <1>3, <1>4, <1>5, <1>6 DEF Has

LEMMA WithoutEntries ==
    ASSUME NEW w \in Seq(Topics), NEW t
    PROVE  /\ Without(w, t) \in Seq(Topics)
           /\ \A u : Has(Without(w, t), u) => Has(w, u) /\ u # t
  <1> DEFINE kept == {i \in DOMAIN w : w[i] # t}
             n == Cardinality(kept)
             below(i) == {j \in kept : j <= i}
             place == [i \in kept |-> Cardinality(below(i))]
  <1>1. DOMAIN w = 1..Len(w) /\ Len(w) \in Nat /\ kept \subseteq 1..Len(w)
    OBVIOUS
  <1>2. IsFiniteSet(1..Len(w))
    BY <1>1, FS_Interval, SMTT(30)
  <1>3. IsFiniteSet(kept) /\ n \in Nat
    BY <1>1, <1>2, FS_Subset, FS_CardinalityType
  <1>4. Without(w, t) = [k \in 1..n |-> w[CHOOSE i \in kept : Cardinality(below(i)) = k]]
    BY DEF Without
  <1>5. ASSUME NEW i \in kept
        PROVE  IsFiniteSet(below(i)) /\ Cardinality(below(i)) \in 1..n
    <2>1. below(i) \subseteq kept /\ i \in below(i)
      BY <1>1, <1>5
    <2>2. /\ IsFiniteSet(below(i))
          /\ Cardinality(below(i)) \in Nat /\ Cardinality(below(i)) <= n
      BY <1>3, <2>1, FS_Subset, FS_CardinalityType
    <2>3. Cardinality(below(i)) # 0
      BY <2>1, <2>2, FS_EmptySet
    <2> QED
      BY <1>3, <2>2, <2>3
  <1>6. ASSUME NEW i \in kept, NEW j \in kept, i < j
        PROVE  Cardinality(below(i)) # Cardinality(below(j))
    <2>1. below(i) \subseteq below(j) /\ j \in below(j) /\ j \notin below(i)
      BY <1>1, <1>6
    <2> HIDE DEF below
    <2> QED
      BY <1>5, <2>1, FS_Subset
  <1>7. place \in Injection(kept, 1..n)
    <2>1. place \in [kept -> 1..n] /\ \A i \in kept : place[i] = Cardinality(below(i))
      BY <1>5
    <2>2. \A i, j \in kept : i < j \/ j < i \/ i = j
      BY <1>1
    <2>3. ASSUME NEW i \in kept, NEW j \in kept, place[i] = place[j]
          PROVE  i = j
      <3> HIDE DEF place, below, kept
      <3> QED
        BY <1>6, <2>1, <2>2, <2>3
    <2> HIDE DEF place
    <2> QED
      BY <2>1, <2>3 DEF Injection, IsInjective
  <1>8. place \in Surjection(kept, 1..n)
    <2>1. IsFiniteSet(1..n) /\ Cardinality(1..n) = n
      BY <1>3, FS_Interval
    <2> HIDE DEF place
    <2> QED
      BY <1>7, <2>1, FS_Injection
  <1>9. ASSUME NEW k \in 1..n
        PROVE  \E i \in kept : Without(w, t)[k] = w[i]
    <2>1. PICK i \in kept : place[i] = k
      BY <1>8 DEF Surjection
    <2>2. \E j \in kept : Cardinality(below(j)) = k
      BY <2>1
    <2> QED
      BY <1>4, <1>9, <2>2
  <1>10. Without(w, t) \in Seq(Topics) /\ DOMAIN Without(w, t) = 1..n
    <2>1. \A k \in 1..n : Without(w, t)[k] \in Topics
      BY <1>9
    <2>2. Without(w, t) \in [1..n -> Topics]
      BY <1>4, <2>1
    <2>3. \A m \in Nat : \A f \in [1..m -> Topics] : f \in Seq(Topics)
      OBVIOUS
    <2> QED
      BY <1>3, <2>2, <2>3
  <1> HIDE DEF n
  <1> QED
    BY <1>9, <1>10 DEF Has

(* A report changes neither list, and makes no version old.                *)
LEMMA ReportImproves ==
    ASSUME Inv, rde.kind = "capvcd"
    PROVE  /\ \A t \in Topics : /\ AddError(t) \in Documents
                                /\ Improves(rde, AddError(t))
                                /\ Listed(AddError(t)) = Listed(rde)
           /\ LET doc == [rde EXCEPT !.csi = TRUE, !.latest = @ \/ ~rde.csi]
              IN  doc \in Documents /\ Improves(rde, doc) /\ Listed(doc) = Listed(rde)
           /\ LET doc == [rde EXCEPT !.errors = Without(@, "RdeUpgradeError")]
              IN  doc \in Documents /\ Improves(rde, doc) /\ Listed(doc) = Listed(rde)
  <1>0. rde \in Documents
    BY DEF Inv, Types
  <1> DEFINE latest == rde.latest \/ ~rde.csi
  <1>1. latest \in BOOLEAN /\ "RdeUpgradeError" \in Topics
    BY DEF Topics
  <1>2. rde.others >= rde.others
    BY <1>0, SameDocument DEF Improves
  <1>3. (rde.csi => rde.latest) => latest
    OBVIOUS
  <1> HIDE DEF latest
  <1>4. ASSUME NEW errors \in Seq(Topics)
        PROVE  LET doc == [rde EXCEPT !.errors = errors, !.csi = TRUE, !.latest = latest]
               IN  doc \in Documents /\ Improves(rde, doc) /\ Listed(doc) = Listed(rde)
    <2> DEFINE doc == [rde EXCEPT !.errors = errors, !.csi = TRUE, !.latest = latest]
    <2>1. /\ doc \in Documents /\ doc.latest = latest
          /\ doc.kind = rde.kind /\ doc.form = rde.form /\ doc.others = rde.others
          /\ doc.old = rde.old /\ doc.new = rde.new
      BY <1>0, <1>1 DEF Documents
    <2> HIDE DEF doc
    <2>2. Improves(rde, doc)
      BY <1>2, <1>3, <2>1, Zenon DEF Improves
    <2>3. Listed(doc) = Listed(rde)
      BY <2>1 DEF Listed
    <2> QED
      BY <2>1, <2>2, <2>3 DEF doc
  <1>5. ASSUME NEW t \in Topics
        PROVE  /\ AddError(t) \in Documents
               /\ Improves(rde, AddError(t))
               /\ Listed(AddError(t)) = Listed(rde)
    <2>1. Rolled(rde.errors, t) \in Seq(Topics)
      BY <1>0, RolledEntries DEF Documents
    <2>2. AddError(t) = [rde EXCEPT !.errors = Rolled(rde.errors, t), !.csi = TRUE,
                                    !.latest = latest]
      BY DEF AddError, latest
    <2> DEFINE doc == [rde EXCEPT !.errors = Rolled(rde.errors, t), !.csi = TRUE,
                                  !.latest = latest]
    <2>3. doc \in Documents /\ Improves(rde, doc) /\ Listed(doc) = Listed(rde)
      BY <1>4, <2>1
    <2> HIDE DEF doc
    <2>4. AddError(t) = doc
      BY <2>2 DEF doc
    <2> QED
      BY <2>3, <2>4
  <1>6. LET doc == [rde EXCEPT !.csi = TRUE, !.latest = @ \/ ~rde.csi]
        IN  doc \in Documents /\ Improves(rde, doc) /\ Listed(doc) = Listed(rde)
    <2> DEFINE doc == [rde EXCEPT !.csi = TRUE, !.latest = latest]
    <2>1. /\ doc \in Documents /\ doc.latest = latest
          /\ doc.kind = rde.kind /\ doc.form = rde.form /\ doc.others = rde.others
          /\ doc.old = rde.old /\ doc.new = rde.new
      BY <1>0, <1>1 DEF Documents
    <2> HIDE DEF doc
    <2>2. Improves(rde, doc)
      BY <1>2, <1>3, <2>1, Zenon DEF Improves
    <2>3. Listed(doc) = Listed(rde)
      BY <2>1 DEF Listed
    <2> QED
      BY <2>1, <2>2, <2>3 DEF doc, latest
  <1>7. LET doc == [rde EXCEPT !.errors = Without(@, "RdeUpgradeError")]
        IN  doc \in Documents /\ Improves(rde, doc) /\ Listed(doc) = Listed(rde)
    <2> DEFINE doc == [rde EXCEPT !.errors = Without(@, "RdeUpgradeError")]
    <2>0. Without(rde.errors, "RdeUpgradeError") \in Seq(Topics)
      BY <1>0, WithoutEntries DEF Documents
    <2>1. /\ doc \in Documents /\ doc.latest = rde.latest /\ doc.csi = rde.csi
          /\ doc.kind = rde.kind /\ doc.form = rde.form /\ doc.others = rde.others
          /\ doc.old = rde.old /\ doc.new = rde.new
      BY <1>0, <2>0 DEF Documents
    <2> HIDE DEF doc
    <2>2. Improves(rde, doc)
      BY <1>2, <2>1, Zenon DEF Improves
    <2>3. Listed(doc) = Listed(rde)
      BY <2>1 DEF Listed
    <2> QED
      BY <2>1, <2>2, <2>3 DEF doc
  <1> QED
    BY <1>5, <1>6, <1>7

(* A driver reports, or does not manage to, and goes on as p.              *)
LEMMA ReportStep ==
    ASSUME Inv, NEW d \in Drivers, NEW doc \in Documents, NEW p \in Processes, UNCHANGED vol,
           \/ Write(d, doc, p)
           \/ proc' = [proc EXCEPT ![d] = p] /\ UNCHANGED rde,
           Improves(rde, doc), Listed(doc) = Listed(rde),
           p.pc \notin {"putPvs", "putCsi"},
           d \in Upgraders => HasUpgraded(p, rde)
    PROVE  Kept
  <1>1. CASE Write(d, doc, p)
    <2>1. rde' = doc
      BY <1>1 DEF Write
    <2>2. VolumesAreListed' /\ vol' \in [Pvs -> {"none", "exists", "deleted"}]
      BY <2>1, ListingKept DEF Improves
    <2>3. d \in Upgraders => HasUpgraded(p, doc)
      BY StaysUpgraded
    <2> QED
      BY <1>1, <2>2, <2>3, DriverWrites
  <1>2. CASE proc' = [proc EXCEPT ![d] = p] /\ UNCHANGED rde
    <2>1. HoldsWell(p, rde)
      BY DEF HoldsWell
    <2> QED
      BY <1>2, <2>1, LocalStep
  <1> QED
    BY <1>1, <1>2

LEMMA ReportOnce ==
    ASSUME Inv, NEW d \in Drivers, Report(d)
    PROVE  Kept
  <1>0. /\ UNCHANGED vol /\ rde \in Documents
        /\ proc[d] \in Processes /\ proc[d].pc = "report"
        /\ d \in Upgraders => HasUpgraded(proc[d], rde)
        /\ "RdeIncorrectFormatError" \in Topics
    BY DEF Report, Inv, Types, Topics
  <1>1. Over(d) \in Processes /\ Over(d).pc = "event"
    BY <1>0 DEF Over, Processes, Steps
  <1>2. d \in Upgraders => HasUpgraded(Over(d), rde)
    BY <1>0, <1>1, NoFurther DEF PastPvs, PastCsi
  <1> DEFINE doc == AddError("RdeIncorrectFormatError")
  <1>3. CanReport => doc \in Documents /\ Improves(rde, doc) /\ Listed(doc) = Listed(rde)
    BY <1>0, ReportImproves DEF CanReport
  <1>4. CASE CanReport /\ Write(d, doc, Over(d))
    <2> HIDE DEF doc
    <2> QED
      BY <1>0, <1>1, <1>2, <1>3, <1>4, ReportStep
  <1>5. CASE proc' = [proc EXCEPT ![d] = Over(d)] /\ UNCHANGED rde
    BY <1>0, <1>1, <1>2, <1>5, SameDocument, ReportStep
  <1> QED
    BY <1>4, <1>5 DEF Report

(* Past the upgrade of the list, a report changes nothing of it.           *)
LEMMA EventStep ==
    ASSUME Inv, NEW d \in Drivers, Event(d)
    PROVE  Kept
  <1> DEFINE s == IF proc[d].pc = "event" THEN "clear" ELSE "lastClear"
             p == [proc[d] EXCEPT !.pc = s]
             doc == [rde EXCEPT !.csi = TRUE, !.latest = @ \/ ~rde.csi]
  <1>0. /\ UNCHANGED vol /\ rde \in Documents
        /\ proc[d] \in Processes /\ proc[d].pc \in {"event", "lastEvent"}
        /\ d \in Upgraders => HasUpgraded(proc[d], rde)
    BY DEF Event, Inv, Types
  <1>1. p \in Processes /\ p.pc = s
    BY <1>0 DEF Processes, Steps
  <1>2. \/ CanReport /\ Write(d, doc, p)
        \/ proc' = [proc EXCEPT ![d] = p] /\ UNCHANGED rde
    BY DEF Event
  <1>3. (PastPvs(proc[d])) /\ (PastCsi(p) => PastCsi(proc[d]))
    BY <1>0, <1>1 DEF PastPvs, PastCsi
  <1>4. d \in Upgraders => HasUpgraded(p, rde)
    BY <1>0, <1>3, NoFurther, Zenon
  <1>5. p.pc \notin {"putPvs", "putCsi"}
    BY <1>1
  <1>6. CanReport => doc \in Documents /\ Improves(rde, doc) /\ Listed(doc) = Listed(rde)
    BY ReportImproves DEF CanReport
  <1> HIDE DEF p, s, doc
  <1>7. CASE CanReport /\ Write(d, doc, p)
    BY <1>0, <1>1, <1>4, <1>5, <1>6, <1>7, ReportStep
  <1>8. CASE proc' = [proc EXCEPT ![d] = p] /\ UNCHANGED rde
    BY <1>0, <1>1, <1>4, <1>5, <1>8, SameDocument, ReportStep
  <1> QED
    BY <1>2, <1>7, <1>8

LEMMA ClearStep ==
    ASSUME Inv, NEW d \in Drivers, Clear(d)
    PROVE  Kept
  <1> DEFINE s == IF proc[d].pc = "clear" THEN "getCsi" ELSE "serving"
             p == [proc[d] EXCEPT !.pc = s]
             doc == [rde EXCEPT !.errors = Without(@, "RdeUpgradeError")]
  <1>0. /\ UNCHANGED vol /\ rde \in Documents
        /\ proc[d] \in Processes /\ proc[d].pc \in {"clear", "lastClear"}
        /\ d \in Upgraders => HasUpgraded(proc[d], rde)
    BY DEF Clear, Inv, Types
  <1>1. p \in Processes /\ p.pc = s
    BY <1>0 DEF Processes, Steps
  <1>2. \/ CanReport /\ Write(d, doc, p)
        \/ proc' = [proc EXCEPT ![d] = p] /\ UNCHANGED rde
    BY DEF Clear
  <1>3. (PastPvs(proc[d])) /\ (PastCsi(p) => PastCsi(proc[d]))
    BY <1>0, <1>1 DEF PastPvs, PastCsi
  <1>4. d \in Upgraders => HasUpgraded(p, rde)
    BY <1>0, <1>3, NoFurther, Zenon
  <1>5. p.pc \notin {"putPvs", "putCsi"}
    BY <1>1
  <1>6. CanReport => doc \in Documents /\ Improves(rde, doc) /\ Listed(doc) = Listed(rde)
    BY ReportImproves DEF CanReport
  <1> HIDE DEF p, s, doc
  <1>7. CASE CanReport /\ Write(d, doc, p)
    BY <1>0, <1>1, <1>4, <1>5, <1>6, <1>7, ReportStep
  <1>8. CASE proc' = [proc EXCEPT ![d] = p] /\ UNCHANGED rde
    BY <1>0, <1>1, <1>4, <1>5, <1>8, SameDocument, ReportStep
  <1> QED
    BY <1>2, <1>7, <1>8

LEMMA FailingStep ==
    ASSUME Inv, NEW d \in Drivers, Failing(d)
    PROVE  Kept
  <1> DEFINE p == [proc[d] EXCEPT !.pc = "down"]
             doc == AddError("RdeUpgradeError")
  <1>0. /\ UNCHANGED vol /\ rde \in Documents /\ proc[d] \in Processes
        /\ "RdeUpgradeError" \in Topics
    BY DEF Failing, Inv, Types, Topics
  <1>1. p \in Processes /\ p.pc = "down"
    BY <1>0 DEF Processes, Steps
  <1>2. \/ CanReport /\ Write(d, doc, p)
        \/ proc' = [proc EXCEPT ![d] = p] /\ UNCHANGED rde
    BY DEF Failing
  <1> HIDE DEF p
  <1>4. HasUpgraded(p, rde)
    BY <1>1, NotPast DEF PastPvs, PastCsi
  <1>6. CanReport => doc \in Documents /\ Improves(rde, doc) /\ Listed(doc) = Listed(rde)
    BY <1>0, ReportImproves DEF CanReport
  <1> HIDE DEF doc
  <1>7. CASE CanReport /\ Write(d, doc, p)
    BY <1>0, <1>1, <1>4, <1>6, <1>7, ReportStep
  <1>8. CASE proc' = [proc EXCEPT ![d] = p] /\ UNCHANGED rde
    BY <1>0, <1>1, <1>4, <1>8, SameDocument, ReportStep
  <1> QED
    BY <1>2, <1>7, <1>8

---------------------------------------------------------------------------
(* ConvertToLatestCSIVersionFormat                                         *)

LEMMA GetCsiStep ==
    ASSUME Inv, NEW d \in Drivers, GetCsi(d)
    PROVE  Kept
  <1>0. /\ UNCHANGED <<rde, vol>> /\ rde \in Documents
        /\ proc[d] \in Processes /\ proc[d].pc = "getCsi"
        /\ d \in Upgraders => HasUpgraded(proc[d], rde)
    BY DEF GetCsi, Inv, Types
  <1>1. CASE Goto(d, "failing")
    <2>1. HasUpgraded([proc[d] EXCEPT !.pc = "failing"], rde)
      BY <1>0, NotPast DEF PastPvs, PastCsi, Processes
    <2> QED
      BY <1>0, <1>1, <2>1, GotoStep DEF Steps
  <1>2. CASE (~rde.csi \/ rde.form = "badCsi") /\ Goto(d, "lastEvent")
    <2> DEFINE p == [proc[d] EXCEPT !.pc = "lastEvent"]
    <2>1. PastPvs(proc[d])
      BY <1>0 DEF PastPvs
    <2>2. d \in Upgraders => HasUpgraded(p, rde)
      BY <1>0, <1>2, <2>1, Zenon DEF HasUpgraded
    <2> QED
      BY <1>0, <1>2, <2>2, GotoStep DEF Steps
  <1>3. CASE proc' = [proc EXCEPT ![d] = [@ EXCEPT
                          !.pc = "putCsi", !.fresh = TRUE,
                          !.copy = [rde EXCEPT !.latest = TRUE]]]
    <2> DEFINE u == [rde EXCEPT !.latest = TRUE]
               p == [proc[d] EXCEPT !.pc = "putCsi", !.fresh = TRUE, !.copy = u]
    <2>1. /\ u \in Documents /\ u.latest
          /\ Improves(rde, u) /\ Listed(u) = Listed(rde)
      BY <1>0, SameDocument
    <2>2. proc' = [proc EXCEPT ![d] = p]
      BY <1>3
    <2> HIDE DEF u
    <2>3. p \in Processes /\ p.pc = "putCsi" /\ p.copy = u
      BY <1>0, <2>1 DEF Processes, Steps
    <2> HIDE DEF p
    <2>4. HoldsWell(p, rde)
      BY <2>1, <2>3 DEF HoldsWell
    <2>5. PastPvs(proc[d]) /\ ~PastCsi(p)
      BY <1>0, <2>3 DEF PastPvs, PastCsi
    <2>6. d \in Upgraders => HasUpgraded(p, rde)
      BY <1>0, <2>5, NoFurther, Zenon
    <2> QED
      BY <1>0, <2>2, <2>3, <2>4, <2>6, LocalStep, Zenon
  <1> QED
    BY <1>1, <1>2, <1>3 DEF GetCsi

LEMMA PutCsiStep ==
    ASSUME Inv, NEW d \in Drivers, PutCsi(d)
    PROVE  Kept
  <1>0. /\ UNCHANGED vol /\ rde \in Documents
        /\ proc[d] \in Processes /\ proc[d].pc = "putCsi"
        /\ proc[d].copy \in Documents /\ proc[d].copy.latest
        /\ d \in Upgraders => HasUpgraded(proc[d], rde)
    BY DEF PutCsi, Inv, Types, HoldsWell, Processes
  <1>1. ASSUME NEW s \in {"lastEvent", "failing"}, proc[d].fresh,
               Write(d, proc[d].copy, [proc[d] EXCEPT !.pc = s])
        PROVE  Kept
    <2> DEFINE p == [proc[d] EXCEPT !.pc = s]
    <2>1. p \in Processes /\ p.pc = s
      BY <1>0 DEF Processes, Steps
    <2>2. Improves(rde, proc[d].copy) /\ Listed(rde) \subseteq Listed(proc[d].copy)
      BY <1>0, <1>1 DEF Inv, HoldsWell
    <2>3. rde' = proc[d].copy
      BY <1>1 DEF Write
    <2>4. VolumesAreListed' /\ vol' \in [Pvs -> {"none", "exists", "deleted"}]
      BY <1>0, <2>2, <2>3, ListingKept DEF Improves
    <2>5. PastPvs(proc[d])
      BY <1>0 DEF PastPvs
    <2> HIDE DEF p
    <2>6. d \in Upgraders => HasUpgraded(p, proc[d].copy)
      <3>1. d \in Upgraders => HasUpgraded(proc[d], proc[d].copy)
        BY <1>0, <2>2, StaysUpgraded, Zenon
      <3> QED
        BY <1>0, <2>5, <3>1, Zenon DEF HasUpgraded
    <2> QED
      BY <1>0, <1>1, <2>1, <2>2, <2>4, <2>6, DriverWrites DEF p
  <1>2. CASE Goto(d, "failing") /\ UNCHANGED rde
    <2>1. HasUpgraded([proc[d] EXCEPT !.pc = "failing"], rde)
      BY <1>0, NotPast DEF PastPvs, PastCsi, Processes
    <2> QED
      BY <1>0, <1>2, <2>1, GotoStep DEF Steps
  <1> QED
    BY <1>1, <1>2 DEF PutCsi

---------------------------------------------------------------------------
(* Serving, and the environment                                            *)

(* A driver that serves changes the list.                                  *)
LEMMA ServeStep ==
    ASSUME Inv, NEW d \in Drivers, proc[d].pc = "serving",
           NEW doc \in Documents, Write(d, doc, proc[d]), Improves(rde, doc),
           VolumesAreListed', vol' \in [Pvs -> {"none", "exists", "deleted"}]
    PROVE  Kept
  <1>1. proc[d] \in Processes
    BY DEF Inv, Types
  <1>2. d \in Upgraders => HasUpgraded(proc[d], doc)
    BY StaysUpgraded DEF Inv
  <1> QED
    BY <1>1, <1>2, DriverWrites

(* Without an RDE there is nothing to change.                              *)
LEMMA NoRdeStep ==
    ASSUME Inv, UNCHANGED <<rde, proc>>, rde.kind = "none",
           vol' \in [Pvs -> {"none", "exists", "deleted"}]
    PROVE  Kept
  <1>1. rde'.others >= rde.others
    BY SameDocument DEF Inv, Types, Improves
  <1>2. Types' /\ VolumesAreListed'
    BY DEF Inv, Types, VolumesAreListed
  <1> QED
    BY <1>1, <1>2, Zenon DEF Inv, Kept, HoldsWell, HasUpgraded

LEMMA CreateVolumeStep ==
    ASSUME Inv, NEW d \in Drivers, NEW p \in Pvs, CreateVolume(d, p)
    PROVE  Kept
  <1>0. /\ proc[d].pc = "serving" /\ rde \in Documents
        /\ vol' = [vol EXCEPT ![p] = "exists"]
        /\ vol' \in [Pvs -> {"none", "exists", "deleted"}]
        /\ \A q \in Pvs \ {p} : vol'[q] = vol[q]
    BY DEF CreateVolume, Inv, Types
  <1>a. rde.others >= rde.others /\ rde.old \subseteq Pvs /\ rde.new \subseteq Pvs
    BY <1>0, SameDocument DEF Improves, Documents
  <1>1. CASE rde.kind = "capvcd"
    <2> DEFINE latest == rde.latest \/ ~rde.csi \/ rde.new = {}
               new == rde.new \union {p}
               doc == [rde EXCEPT !.csi = TRUE, !.latest = latest, !.new = new]
    <2>1. Write(d, doc, proc[d])
      BY <1>1 DEF CreateVolume
    <2>2. latest \in BOOLEAN /\ ((rde.csi => rde.latest) => latest)
      OBVIOUS
    <2>3. new \subseteq Pvs /\ p \in new /\ rde.new \subseteq new
      BY <1>a
    <2> HIDE DEF latest, new
    <2>4. /\ doc \in Documents /\ doc.latest = latest
          /\ doc.kind = rde.kind /\ doc.form = rde.form /\ doc.others = rde.others
          /\ doc.old = rde.old /\ doc.new = new
      BY <1>0, <2>2, <2>3 DEF Documents
    <2> HIDE DEF doc
    <2>5. Improves(rde, doc)
      BY <1>a, <2>2, <2>4, Zenon DEF Improves
    <2>6. Listed(rde) \union {p} \subseteq Listed(doc)
      BY <2>2, <2>3, <2>4 DEF Listed
    <2>7. rde' = doc
      BY <2>1 DEF Write
    <2>8. VolumesAreListed'
      BY <1>0, <1>1, <2>6, <2>7 DEF Inv, VolumesAreListed
    <2> QED
      BY <1>0, <2>1, <2>4, <2>5, <2>8, ServeStep
  <1>2. CASE rde.kind = "native"
    <2> DEFINE doc == [rde EXCEPT !.old = @ \union {p}]
    <2>1. Write(d, doc, proc[d])
      BY <1>2 DEF CreateVolume
    <2>4. /\ doc \in Documents /\ doc.latest = rde.latest /\ doc.csi = rde.csi
          /\ doc.kind = rde.kind /\ doc.form = rde.form /\ doc.others = rde.others
          /\ doc.old = rde.old \union {p} /\ doc.new = rde.new
      BY <1>0 DEF Documents
    <2> HIDE DEF doc
    <2>5. Improves(rde, doc)
      <3>1. rde.kind # "capvcd"
        BY <1>2
      <3> QED
        BY <1>a, <2>4, <3>1, Zenon DEF Improves
    <2>6. Listed(rde) \union {p} \subseteq Listed(doc)
      BY <2>4 DEF Listed
    <2>7. rde' = doc
      BY <2>1 DEF Write
    <2>8. VolumesAreListed'
      BY <1>0, <1>2, <2>6, <2>7 DEF Inv, VolumesAreListed
    <2> QED
      BY <1>0, <2>1, <2>4, <2>5, <2>8, ServeStep
  <1>3. CASE rde.kind \notin {"capvcd", "native"}
    <2>1. rde.kind = "none"
      BY <1>0, <1>3 DEF Documents
    <2>2. UNCHANGED <<rde, proc>>
      BY <1>3 DEF CreateVolume
    <2> QED
      BY <1>0, <2>1, <2>2, NoRdeStep
  <1> QED
    BY <1>1, <1>2, <1>3

LEMMA DeleteVolumeStep ==
    ASSUME Inv, NEW d \in Drivers, NEW p \in Pvs, DeleteVolume(d, p)
    PROVE  Kept
  <1>0. /\ proc[d].pc = "serving" /\ rde \in Documents
        /\ vol' = [vol EXCEPT ![p] = "deleted"]
        /\ vol' \in [Pvs -> {"none", "exists", "deleted"}]
        /\ vol'[p] = "deleted" /\ \A q \in Pvs \ {p} : vol'[q] = vol[q]
    BY DEF DeleteVolume, Inv, Types
  <1>a. rde.others >= rde.others /\ rde.old \subseteq Pvs /\ rde.new \subseteq Pvs
    BY <1>0, SameDocument DEF Improves, Documents
  <1>1. CASE rde.kind = "capvcd"
    <2> DEFINE doc == [rde EXCEPT !.new = @ \ {p}]
    <2>1. Write(d, doc, proc[d])
      BY <1>1 DEF DeleteVolume
    <2>4. /\ doc \in Documents /\ doc.latest = rde.latest /\ doc.csi = rde.csi
          /\ doc.kind = rde.kind /\ doc.form = rde.form /\ doc.others = rde.others
          /\ doc.old = rde.old /\ doc.new = rde.new \ {p}
      BY <1>0 DEF Documents
    <2> HIDE DEF doc
    <2>5. Improves(rde, doc)
      BY <1>a, <2>4, Zenon DEF Improves
    <2>6. Listed(rde) \ {p} \subseteq Listed(doc)
      BY <2>4 DEF Listed
    <2>7. rde' = doc
      BY <2>1 DEF Write
    <2>8. VolumesAreListed'
      BY <1>0, <1>1, <2>6, <2>7 DEF Inv, VolumesAreListed
    <2> QED
      BY <1>0, <2>1, <2>4, <2>5, <2>8, ServeStep
  <1>2. CASE rde.kind = "native"
    <2> DEFINE doc == [rde EXCEPT !.old = @ \ {p}]
    <2>1. Write(d, doc, proc[d])
      BY <1>2 DEF DeleteVolume
    <2>4. /\ doc \in Documents /\ doc.latest = rde.latest /\ doc.csi = rde.csi
          /\ doc.kind = rde.kind /\ doc.form = rde.form /\ doc.others = rde.others
          /\ doc.old = rde.old \ {p} /\ doc.new = rde.new
      BY <1>0 DEF Documents
    <2> HIDE DEF doc
    <2>5. Improves(rde, doc)
      <3>1. rde.kind # "capvcd"
        BY <1>2
      <3> QED
        BY <1>a, <2>4, <3>1, Zenon DEF Improves
    <2>6. Listed(rde) \ {p} \subseteq Listed(doc)
      BY <2>4 DEF Listed
    <2>7. rde' = doc
      BY <2>1 DEF Write
    <2>8. VolumesAreListed'
      BY <1>0, <1>2, <2>6, <2>7 DEF Inv, VolumesAreListed
    <2> QED
      BY <1>0, <2>1, <2>4, <2>5, <2>8, ServeStep
  <1>3. CASE rde.kind \notin {"capvcd", "native"}
    <2>1. rde.kind = "none"
      BY <1>0, <1>3 DEF Documents
    <2>2. UNCHANGED <<rde, proc>>
      BY <1>3 DEF DeleteVolume
    <2> QED
      BY <1>0, <2>1, <2>2, NoRdeStep
  <1> QED
    BY <1>1, <1>2, <1>3

LEMMA OthersWriteStep ==
    ASSUME Inv, OthersWrite
    PROVE  Kept
  <1> DEFINE doc == [rde EXCEPT !.others = @ + 1]
  <1>0. /\ rde' = doc /\ UNCHANGED vol /\ rde \in Documents
        /\ \A x \in Drivers : proc[x] \in Processes /\ HoldsWell(proc[x], rde)
        /\ proc' = [x \in Drivers |-> [proc[x] EXCEPT !.fresh = FALSE]]
    BY DEF OthersWrite, Inv, Types
  <1>1. rde.others + 1 \in Nat /\ rde.others + 1 >= rde.others
    BY <1>0, SMT DEF Documents
  <1>2. /\ doc \in Documents /\ doc.latest = rde.latest /\ doc.csi = rde.csi
        /\ doc.kind = rde.kind /\ doc.form = rde.form /\ doc.others = rde.others + 1
        /\ doc.old = rde.old /\ doc.new = rde.new
    BY <1>0, <1>1 DEF Documents
  <1> HIDE DEF doc
  <1>3. Improves(rde, doc)
    BY <1>1, <1>2, Zenon DEF Improves
  <1>4. Listed(rde) \subseteq Listed(rde')
    BY <1>0, <1>2 DEF Listed
  <1>5. VolumesAreListed' /\ vol' \in [Pvs -> {"none", "exists", "deleted"}]
    BY <1>0, <1>2, <1>4, ListingKept
  <1>6. \A q \in Processes : /\ [q EXCEPT !.fresh = FALSE] \in Processes
                             /\ ~[q EXCEPT !.fresh = FALSE].fresh
                             /\ [q EXCEPT !.fresh = FALSE].pc = q.pc
                             /\ [q EXCEPT !.fresh = FALSE].copy = q.copy
    BY DEF Processes
  <1>7. \A x \in Drivers : proc'[x] = [proc[x] EXCEPT !.fresh = FALSE]
    BY <1>0
  <1>8. \A x \in Drivers : /\ ~proc'[x].fresh
                           /\ proc'[x].pc = proc[x].pc /\ proc'[x].copy = proc[x].copy
    BY <1>0, <1>6, <1>7, Zenon
  <1>9. proc' \in [Drivers -> Processes]
    BY <1>0, <1>6
  <1>10. \A x \in Drivers : proc'[x].pc = "putCsi" => proc'[x].copy.latest
    BY <1>0, <1>8, Zenon DEF HoldsWell
  <1>11. \A x \in Upgraders : HasUpgraded(proc'[x], doc)
    <2> TAKE x \in Upgraders
    <2>1. HasUpgraded(proc[x], doc)
      BY <1>3, StaysUpgraded DEF Inv
    <2>2. x \in Drivers
      BY UpgradeIsSane
    <2> QED
      BY <1>8, <2>1, <2>2, Zenon DEF HasUpgraded, PastPvs, PastCsi
  <1>12. \A x \in Drivers : ~proc'[x].fresh
    BY <1>8
  <1> QED
    BY <1>0, <1>2, <1>3, <1>5, <1>9, <1>10, <1>11, <1>12, WriteStep, Zenon

LEMMA NothingHappens ==
    ASSUME Inv, UNCHANGED <<rde, vol, proc>>
    PROVE  Kept
  <1>1. rde'.others >= rde.others
    BY SameDocument DEF Inv, Types, Improves
  <1>2. Types' /\ VolumesAreListed'
    BY DEF Inv, Types, VolumesAreListed
  <1> QED
    BY <1>1, <1>2, Zenon DEF Inv, Kept, HoldsWell, HasUpgraded

---------------------------------------------------------------------------
(* A step has no fault or counts one.                                      *)
LEMMA FaultOrNone ==
    ASSUME [Next]_vars
    PROVE  \/ NoFault
           \/ \E f \in UpgradeFaults : Fault(f)
           \/ \E must \in BOOLEAN : Refused(must)
  <1>1. ASSUME NEW d \in Drivers, Start(d)
        PROVE  \/ NoFault
               \/ \E f \in UpgradeFaults : Fault(f)
               \/ \E must \in BOOLEAN : Refused(must)
    BY <1>1 DEF Start, Boot, Setup, GetPvs, Lookup, PutPvs, Report, Event, Clear, GetCsi,
                PutCsi, Failing, Restart, UpgradeFaults, NoFault
  <1> QED
    BY <1>1 DEF Next, vars, Crash, CreateVolume, DeleteVolume, SecretArrives, OthersWrite,
                UpgradeFaults, NoFault

(* Faults are counted.                                                     *)
LEMMA FaultsAreCounted ==
    ASSUME FaultsInv, [Next]_vars
    PROVE  FaultsInv'
  <1>1. ASSUME NEW f \in UpgradeFaults, Fault(f)
        PROVE  FaultsInv'
    BY <1>1 DEF FaultsInv, Fault, UpgradeFaults
  <1>2. CASE NoFault
    BY <1>2 DEF FaultsInv, NoFault
  <1>3. ASSUME NEW must \in BOOLEAN, Refused(must)
        PROVE  FaultsInv'
    BY <1>1, <1>2, <1>3 DEF Refused, UpgradeFaults
  <1> QED
    BY <1>1, <1>2, <1>3, FaultOrNone

LEMMA StepInv == Inv /\ FaultsInv /\ [Next]_vars => Inv' /\ FaultsInv' /\ rde'.others >= rde.others
  <1> SUFFICES ASSUME Inv, FaultsInv, [Next]_vars
               PROVE  Kept
    BY FaultsAreCounted DEF Kept
  <1>1. ASSUME NEW d \in Drivers, Start(d) \/ Crash(d)
        PROVE  Kept
    BY <1>1, BootStep, SetupStep, GetPvsStep, LookupStep, PutPvsStep, ReportOnce, EventStep,
       ClearStep, GetCsiStep, PutCsiStep, FailingStep, RestartStep DEF Start
  <1>2. ASSUME NEW c \in Credentials, SecretArrives(c)
        PROVE  Kept
    BY <1>2, NothingHappens DEF SecretArrives
  <1>3. CASE UNCHANGED vars
    BY <1>3, NothingHappens DEF vars
  <1> QED
    BY <1>1, <1>2, <1>3, CreateVolumeStep, DeleteVolumeStep, OthersWriteStep DEF Next

LEMMA Invariance == Spec => [](Inv /\ FaultsInv)
  <1>1. Init => FaultsInv
    BY DEF Init, FaultsInv
  <1> QED
    BY InitInv, <1>1, StepInv, PTL DEF Spec

(* No upgrade loses a volume of the RDE, whatever fails, restarts or       *)
(* writes in between, and however many drivers start at once: a start that *)
(* meets a volume in the old list panics (disks.go:985) and leaves both    *)
(* lists alone, and one without writes back what the document lists.       *)
THEOREM UpgradeKeepsVolumes == Spec => []VolumesAreListed
  <1>1. Inv => VolumesAreListed
    BY DEF Inv
  <1> QED
    BY <1>1, Invariance, PTL

(* Nor does it, or a driver that serves, undo what other programs write.   *)
THEOREM UpgradeKeepsOthers == Spec => OthersAreKept
  <1>1. Inv /\ FaultsInv /\ [Next]_vars => [rde'.others >= rde.others]_vars
    BY StepInv
  <1> QED
    BY <1>1, Invariance, PTL DEF Spec, OthersAreKept

(* A driver that was to upgrade the RDE does not serve before it is        *)
(* upgraded, whatever was refused, lost or overtaken (VCDDriver.Setup): an *)
(* old list with a volume in it keeps the driver from serving, and an      *)
(* empty one stays empty.                                                  *)
THEOREM UpgradedBeforeServing == Spec => []ServingIsUpgraded
  <1>1. Inv => ServingIsUpgraded
    <2> SUFFICES ASSUME Inv, NEW d \in Upgraders, proc[d].pc = "serving", rde.form = "ok"
                 PROVE  /\ rde.kind = "capvcd" => rde.old = {}
                        /\ rde.csi => rde.latest
      BY DEF ServingIsUpgraded
    <2>1. PastPvs(proc[d]) /\ PastCsi(proc[d])
      BY DEF PastPvs, PastCsi
    <2>2. HasUpgraded(proc[d], rde)
      BY DEF Inv
    <2> QED
      BY <2>1, <2>2, Zenon DEF HasUpgraded
  <1> QED
    BY <1>1, Invariance, PTL

---------------------------------------------------------------------------
(* What the RDE reports, and what it lists.  A copy under a fresh etag has *)
(* the errors of the document and lists no more.  The upgrade error is     *)
(* only where it can be reported, and only drivers that upgrade come to    *)
(* fail.                                                                   *)

(* No request was refused.                                                 *)
Unrefused == faults["request"] = 0

Reportable(doc) == doc.kind = "capvcd" /\ doc.form \in {"ok", "badPvs"}

SaysFailed(doc) == Has(doc.errors, "RdeUpgradeError")

(* How far a driver may have come.                                         *)
StageFits(d, p) ==
    /\ p.tries <= MaxRetries
    /\ p.pc = "putPvs" => p.tries < MaxRetries
    /\ p.pc \notin {"down", "boot", "setup", "serving"} => d \in Upgraders

CopyFits(p, doc) ==
    p.fresh /\ p.pc \in {"putPvs", "putCsi"} =>
        p.copy.errors = doc.errors /\ Listed(p.copy) \subseteq Listed(doc)

Fits == /\ SaysFailed(rde) => Reportable(rde)
        /\ \A d \in Drivers : StageFits(d, proc[d]) /\ CopyFits(proc[d], rde)

(* The failure of an upgrade is reported only while some upgrade is still  *)
(* to come.                                                                *)
Retried == Unrefused /\ SaysFailed(rde) => \E d \in Upgraders : proc[d].pc # "serving"

Sound == Fits /\ Retried

(* Faults are counted, so what was refused once stays so.                  *)
Counted == Unrefused' => Unrefused

Onward == Sound' /\ Listed(rde') \subseteq Listed(rde)

LEMMA InitSound == Init => Sound
  <1> SUFFICES ASSUME Init PROVE Sound
    OBVIOUS
  <1>1. proc = [d \in Drivers |-> [pc |-> "boot", tries |-> 0, copy |-> rde, fresh |-> FALSE]]
    BY DEF Init
  <1>2. ~SaysFailed(rde)
    <2>1. rde.errors = <<>>
      BY DEF Init
    <2> QED
      BY <2>1 DEF SaysFailed, Has
  <1>3. \A d \in Drivers : StageFits(d, proc[d]) /\ CopyFits(proc[d], rde)
    <2> TAKE d \in Drivers
    <2>1. proc[d].pc = "boot" /\ proc[d].tries = 0 /\ proc[d].fresh = FALSE
      BY <1>1
    <2> QED
      BY <2>1, UpgradeIsSane DEF StageFits, CopyFits
  <1> QED
    BY <1>2, <1>3 DEF Sound, Fits, Retried

(* A driver moves on and the document stays.                               *)
LEMMA MoveSound ==
    ASSUME Inv, Sound, Counted, NEW d \in Drivers, NEW p,
           proc' = [proc EXCEPT ![d] = p], UNCHANGED rde,
           StageFits(d, p), CopyFits(p, rde),
           Unrefused' /\ d \in Upgraders /\ p.pc = "serving" /\ Reportable(rde)
              => ~SaysFailed(rde)
    PROVE  Onward
  <1>1. \A x \in Drivers : proc'[x] = IF x = d THEN p ELSE proc[x]
    BY DEF Inv, Types
  <1>2. \A x \in Drivers : StageFits(x, proc'[x]) /\ CopyFits(proc'[x], rde)
    BY <1>1 DEF Sound, Fits
  <1>3. Fits'
    BY <1>2 DEF Sound, Fits, SaysFailed, Has, Reportable, StageFits, CopyFits, Listed
  <1>4. Retried'
    <2> SUFFICES ASSUME Unrefused', Unrefused, SaysFailed(rde)
                 PROVE  \E x \in Upgraders : proc'[x].pc # "serving"
      BY DEF Retried, Counted, SaysFailed, Has
    <2>1. PICK x \in Upgraders : proc[x].pc # "serving"
      BY DEF Sound, Retried
    <2>2. Reportable(rde)
      BY DEF Sound, Fits
    <2>3. proc'[x].pc # "serving"
      BY <1>1, <2>1, <2>2, UpgradeIsSane
    <2> QED
      BY <2>3
  <1>5. Listed(rde') \subseteq Listed(rde)
    BY DEF Listed
  <1> QED
    BY <1>3, <1>4, <1>5 DEF Sound, Onward

(* The document changes, and every copy becomes old.                       *)
Outdates(x) ==
    /\ ~proc'[x].fresh /\ proc'[x].pc = proc[x].pc /\ proc'[x].copy = proc[x].copy
    /\ proc'[x].tries = proc[x].tries

LEMMA OthersOutdate ==
    ASSUME NEW x \in Drivers, proc[x] \in Processes, proc'[x] = [proc[x] EXCEPT !.fresh = FALSE]
    PROVE  Outdates(x)
  BY DEF Outdates, Processes

(* What a new document keeps of the old one's kind.                        *)
SameKind(a, b) == b.kind = a.kind /\ b.form = a.form

LEMMA OutdatedFits ==
    ASSUME NEW x \in Drivers, StageFits(x, proc[x]), Outdates(x), NEW doc
    PROVE  StageFits(x, proc'[x]) /\ CopyFits(proc'[x], doc)
  BY DEF StageFits, CopyFits, Outdates

(* A driver writes and goes on as p.                                       *)
LEMMA WriteSound ==
    ASSUME Inv, Sound, Counted, NEW d \in Drivers, NEW p \in Processes, NEW doc,
           Write(d, doc, p), StageFits(d, p), SaysFailed(doc) => Reportable(doc),
           Unrefused' /\ SaysFailed(doc) =>
              \/ SaysFailed(rde) /\ (p.pc = "serving" => proc[d].pc = "serving")
              \/ d \in Upgraders /\ p.pc # "serving"
    PROVE  Sound'
  <1>1. /\ rde' = doc
        /\ \A x \in Drivers : proc[x] \in Processes
        /\ \A x \in Drivers \ {d} : proc'[x] = [proc[x] EXCEPT !.fresh = FALSE]
        /\ proc'[d] = [p EXCEPT !.fresh = FALSE]
    BY DEF Write, Inv, Types
  <1>2. \A x \in Drivers \ {d} : Outdates(x)
    BY <1>1, OthersOutdate
  <1>3. ~proc'[d].fresh /\ proc'[d].pc = p.pc /\ proc'[d].tries = p.tries
    BY <1>1 DEF Processes
  <1>4. \A x \in Drivers : StageFits(x, proc'[x]) /\ CopyFits(proc'[x], doc)
    <2>1. StageFits(d, proc'[d]) /\ CopyFits(proc'[d], doc)
      BY <1>3 DEF StageFits, CopyFits
    <2>2. \A x \in Drivers \ {d} : StageFits(x, proc'[x]) /\ CopyFits(proc'[x], doc)
      BY <1>2, OutdatedFits DEF Sound, Fits
    <2> QED
      BY <2>1, <2>2
  <1>5. Fits'
    BY <1>1, <1>4 DEF Fits, SaysFailed, Has, Reportable, StageFits, CopyFits, Listed
  <1>6. Retried'
    <2> SUFFICES ASSUME Unrefused', Unrefused, SaysFailed(doc)
                 PROVE  \E x \in Upgraders : proc'[x].pc # "serving"
      BY <1>1 DEF Retried, Counted, SaysFailed, Has
    <2>1. CASE d \in Upgraders /\ p.pc # "serving"
      BY <1>3, <2>1
    <2>2. CASE SaysFailed(rde) /\ (p.pc = "serving" => proc[d].pc = "serving")
      <3>1. PICK x \in Upgraders : proc[x].pc # "serving"
        BY <2>2 DEF Sound, Retried
      <3>2. proc'[x].pc # "serving"
        BY <1>2, <1>3, <2>2, <3>1, UpgradeIsSane DEF Outdates
      <3> QED
        BY <3>2
    <2> QED
      BY <2>1, <2>2
  <1> QED
    BY <1>5, <1>6 DEF Sound

(* A driver goes on to a step that needs no copy.                          *)
LEMMA GotoSound ==
    ASSUME Inv, Sound, Counted, NEW d \in Drivers, NEW s \in Steps, Goto(d, s), UNCHANGED rde,
           s \notin {"putPvs", "putCsi", "serving"},
           proc[d].pc \notin {"down", "boot", "setup", "serving"} \/ s \in {"setup", "down"}
    PROVE  Onward
  <1> DEFINE p == [proc[d] EXCEPT !.pc = s]
  <1>1. p.pc = s /\ p.tries = proc[d].tries
    BY DEF Inv, Types, Processes
  <1>2. proc' = [proc EXCEPT ![d] = p]
    BY DEF Goto
  <1> HIDE DEF p
  <1>3. StageFits(d, p)
    BY <1>1 DEF Sound, Fits, StageFits
  <1>4. CopyFits(p, rde)
    BY <1>1 DEF CopyFits
  <1> QED
    BY <1>1, <1>2, <1>3, <1>4, MoveSound

LEMMA BootSound ==
    ASSUME Inv, Sound, Counted, NEW d \in Drivers, Boot(d) \/ Lookup(d) \/ Crash(d)
    PROVE  Onward
  <1>1. \E s \in {"setup", "down"} : Goto(d, s)
    BY DEF Boot, Lookup, Crash
  <1>2. UNCHANGED rde
    BY DEF Boot, Lookup, Crash
  <1> QED
    BY <1>1, <1>2, GotoSound DEF Steps

LEMMA SetupSound ==
    ASSUME Inv, Sound, Counted, NEW d \in Drivers, Setup(d)
    PROVE  Onward
  <1> DEFINE s == IF d \notin Upgraders \/ rde.kind = "none" THEN "serving"
                  ELSE IF rde.kind = "capvcd" THEN "getPvs" ELSE "getCsi"
             p == [proc[d] EXCEPT !.pc = s, !.tries = 0]
  <1>1. p.pc = s /\ p.tries = 0
    BY DEF Inv, Types, Processes
  <1>2. proc' = [proc EXCEPT ![d] = p] /\ UNCHANGED rde
    BY DEF Setup
  <1>3. /\ s \in {"serving", "getPvs", "getCsi"}
        /\ s # "serving" => d \in Upgraders
        /\ s = "serving" /\ d \in Upgraders => ~Reportable(rde)
    BY DEF Reportable
  <1> HIDE DEF p, s
  <1>4. StageFits(d, p) /\ CopyFits(p, rde)
    BY <1>1, <1>3, UpgradeIsSane DEF StageFits, CopyFits
  <1> QED
    BY <1>1, <1>2, <1>3, <1>4, MoveSound

LEMMA RestartSound ==
    ASSUME Inv, Sound, Counted, NEW d \in Drivers, Restart(d)
    PROVE  Onward
  <1> DEFINE p == [proc[d] EXCEPT !.pc = "boot", !.fresh = FALSE]
  <1>1. p.pc = "boot" /\ p.tries = proc[d].tries
    BY DEF Inv, Types, Processes
  <1>2. proc' = [proc EXCEPT ![d] = p] /\ UNCHANGED rde
    BY DEF Restart
  <1> HIDE DEF p
  <1>3. StageFits(d, p) /\ CopyFits(p, rde)
    BY <1>1 DEF Sound, Fits, StageFits, CopyFits
  <1> QED
    BY <1>1, <1>2, <1>3, MoveSound

LEMMA GetPvsSound ==
    ASSUME Inv, Sound, Counted, NEW d \in Drivers, GetPvs(d)
    PROVE  Onward
  <1>0. /\ UNCHANGED rde /\ proc[d] \in Processes /\ rde \in Documents
        /\ proc[d].pc = "getPvs" /\ d \in Upgraders /\ proc[d].tries <= MaxRetries
    BY DEF GetPvs, Inv, Types, Sound, Fits, StageFits
  <1>1. ASSUME NEW s \in {"failing", "event", "report", "lookup"}, Goto(d, s) PROVE Onward
    BY <1>0, <1>1, GotoSound DEF Steps
  <1>2. CASE /\ proc[d].tries < MaxRetries
             /\ proc' = [proc EXCEPT ![d] = [@ EXCEPT
                          !.pc = "putPvs", !.copy = rde, !.fresh = TRUE]]
    <2> DEFINE p == [proc[d] EXCEPT !.pc = "putPvs", !.copy = rde, !.fresh = TRUE]
    <2>1. p.pc = "putPvs" /\ p.copy = rde /\ p.tries = proc[d].tries
      BY <1>0 DEF Processes
    <2>2. proc' = [proc EXCEPT ![d] = p]
      BY <1>2
    <2> HIDE DEF p
    <2>3. StageFits(d, p)
      BY <1>0, <1>2, <2>1 DEF StageFits
    <2>4. CopyFits(p, rde)
      BY <2>1 DEF CopyFits
    <2> QED
      BY <1>0, <2>1, <2>2, <2>3, <2>4, MoveSound
  <1> QED
    BY <1>1, <1>2 DEF GetPvs

(* The copy that is sent has the document's errors and lists no more.      *)
LEMMA CopySent ==
    ASSUME Inv, Sound, NEW d \in Drivers, proc[d].fresh, proc[d].pc \in {"putPvs", "putCsi"}
    PROVE  /\ SameKind(rde, proc[d].copy) /\ proc[d].copy.errors = rde.errors
           /\ Listed(proc[d].copy) \subseteq Listed(rde)
           /\ SaysFailed(proc[d].copy) <=> SaysFailed(rde)
           /\ SaysFailed(proc[d].copy) => Reportable(proc[d].copy)
  <1>1. CopyFits(proc[d], rde) /\ (SaysFailed(rde) => Reportable(rde))
    BY DEF Sound, Fits
  <1>2. SameKind(rde, proc[d].copy)
    BY DEF Inv, HoldsWell, Improves, SameKind
  <1>3. proc[d].copy.errors = rde.errors /\ Listed(proc[d].copy) \subseteq Listed(rde)
    BY <1>1 DEF CopyFits
  <1>4. SaysFailed(proc[d].copy) <=> SaysFailed(rde)
    BY <1>3 DEF SaysFailed
  <1> QED
    BY <1>1, <1>2, <1>3, <1>4 DEF Reportable, SameKind

LEMMA PutPvsSound ==
    ASSUME Inv, Sound, Counted, NEW d \in Drivers, PutPvs(d)
    PROVE  Onward
  <1>0. /\ proc[d] \in Processes /\ proc[d].pc = "putPvs" /\ d \in Upgraders
        /\ proc[d].tries < MaxRetries /\ proc[d].tries \in Nat /\ MaxRetries \in Nat
    BY UpgradeIsSane DEF PutPvs, Inv, Types, Processes, Sound, Fits, StageFits
  <1>1. Over(d).pc = "event" /\ Over(d).tries = proc[d].tries /\ Over(d) \in Processes
    BY <1>0 DEF Over, Processes, Steps
  <1>2. Again(d).pc = "getPvs" /\ Again(d).tries = proc[d].tries + 1
    BY <1>0 DEF Again, Processes
  <1>3. StageFits(d, Over(d)) /\ CopyFits(Over(d), rde)
    BY <1>0, <1>1 DEF StageFits, CopyFits
  <1>4. StageFits(d, Again(d)) /\ CopyFits(Again(d), rde)
    BY <1>0, <1>2 DEF StageFits, CopyFits
  <1>5. CASE proc[d].fresh /\ Write(d, proc[d].copy, Over(d))
    <2> DEFINE doc == proc[d].copy
    <2>1. /\ Listed(doc) \subseteq Listed(rde)
          /\ SaysFailed(doc) <=> SaysFailed(rde)
          /\ SaysFailed(doc) => Reportable(doc)
      BY <1>0, <1>5, CopySent
    <2>2. Write(d, doc, Over(d)) /\ rde' = doc
      BY <1>5 DEF Write
    <2> HIDE DEF doc
    <2>3. Sound'
      BY <1>1, <1>3, <2>1, <2>2, WriteSound
    <2> QED
      BY <2>1, <2>2, <2>3 DEF Onward
  <1>6. CASE proc' = [proc EXCEPT ![d] = Again(d)] /\ UNCHANGED rde
    BY <1>2, <1>4, <1>6, MoveSound
  <1>7. CASE proc' = [proc EXCEPT ![d] = Over(d)] /\ UNCHANGED rde
    BY <1>1, <1>3, <1>7, MoveSound
  <1> QED
    BY <1>5, <1>6, <1>7 DEF PutPvs

LEMMA GetCsiSound ==
    ASSUME Inv, Sound, Counted, NEW d \in Drivers, GetCsi(d)
    PROVE  Onward
  <1>0. /\ UNCHANGED rde /\ proc[d] \in Processes /\ rde \in Documents
        /\ proc[d].pc = "getCsi" /\ d \in Upgraders /\ proc[d].tries <= MaxRetries
    BY DEF GetCsi, Inv, Types, Sound, Fits, StageFits
  <1>1. ASSUME NEW s \in {"failing", "lastEvent"}, Goto(d, s) PROVE Onward
    BY <1>0, <1>1, GotoSound DEF Steps
  <1>2. CASE proc' = [proc EXCEPT ![d] = [@ EXCEPT
                          !.pc = "putCsi", !.fresh = TRUE,
                          !.copy = [rde EXCEPT !.latest = TRUE]]]
    <2> DEFINE u == [rde EXCEPT !.latest = TRUE]
               p == [proc[d] EXCEPT !.pc = "putCsi", !.fresh = TRUE, !.copy = u]
    <2>1. u.errors = rde.errors /\ Listed(u) = Listed(rde)
      BY <1>0, SameDocument DEF Documents
    <2>2. proc' = [proc EXCEPT ![d] = p]
      BY <1>2
    <2> HIDE DEF u
    <2>3. p.pc = "putCsi" /\ p.copy = u /\ p.tries = proc[d].tries
      BY <1>0 DEF Processes
    <2> HIDE DEF p
    <2>4. StageFits(d, p) /\ CopyFits(p, rde)
      BY <1>0, <2>1, <2>3 DEF StageFits, CopyFits
    <2> QED
      BY <1>0, <2>2, <2>3, <2>4, MoveSound
  <1> QED
    BY <1>1, <1>2 DEF GetCsi

LEMMA PutCsiSound ==
    ASSUME Inv, Sound, Counted, NEW d \in Drivers, PutCsi(d)
    PROVE  Onward
  <1>0. /\ proc[d] \in Processes /\ proc[d].pc = "putCsi"
        /\ d \in Upgraders /\ proc[d].tries <= MaxRetries
    BY DEF PutCsi, Inv, Types, Sound, Fits, StageFits
  <1>1. ASSUME NEW s \in {"lastEvent", "failing"}, proc[d].fresh,
               Write(d, proc[d].copy, [proc[d] EXCEPT !.pc = s])
        PROVE  Onward
    <2> DEFINE doc == proc[d].copy
               p == [proc[d] EXCEPT !.pc = s]
    <2>1. p \in Processes /\ p.pc = s /\ p.tries = proc[d].tries
      BY <1>0 DEF Processes, Steps
    <2>2. /\ Listed(doc) \subseteq Listed(rde)
          /\ SaysFailed(doc) <=> SaysFailed(rde)
          /\ SaysFailed(doc) => Reportable(doc)
      BY <1>0, <1>1, CopySent
    <2>3. Write(d, doc, p) /\ rde' = doc
      BY <1>1 DEF Write
    <2> HIDE DEF doc, p
    <2>4. StageFits(d, p)
      BY <1>0, <2>1 DEF StageFits
    <2>5. Sound'
      BY <1>0, <2>1, <2>2, <2>3, <2>4, WriteSound
    <2> QED
      BY <2>2, <2>3, <2>5 DEF Onward
  <1>2. CASE Goto(d, "failing") /\ UNCHANGED rde
    BY <1>0, <1>2, GotoSound DEF Steps
  <1> QED
    BY <1>1, <1>2 DEF PutCsi

(* What reports do to the document.                                        *)
LEMMA ReportChanges ==
    ASSUME Inv
    PROVE  /\ \A t \in Topics :
                  /\ SameKind(rde, AddError(t)) /\ Listed(AddError(t)) = Listed(rde)
                  /\ SaysFailed(AddError(t)) => SaysFailed(rde) \/ t = "RdeUpgradeError"
           /\ LET doc == [rde EXCEPT !.csi = TRUE, !.latest = @ \/ ~rde.csi]
              IN  /\ SameKind(rde, doc) /\ Listed(doc) = Listed(rde)
                  /\ SaysFailed(doc) => SaysFailed(rde)
           /\ LET doc == [rde EXCEPT !.errors = Without(@, "RdeUpgradeError")]
              IN  SameKind(rde, doc) /\ Listed(doc) = Listed(rde) /\ ~SaysFailed(doc)
  <1>0. rde \in Documents /\ rde.errors \in Seq(Topics)
    BY DEF Inv, Types, Documents
  <1>1. ASSUME NEW t \in Topics
        PROVE  /\ SameKind(rde, AddError(t)) /\ Listed(AddError(t)) = Listed(rde)
               /\ SaysFailed(AddError(t)) => SaysFailed(rde) \/ t = "RdeUpgradeError"
    <2> DEFINE e == Rolled(rde.errors, t)
               doc == [rde EXCEPT !.errors = e, !.csi = TRUE, !.latest = @ \/ ~rde.csi]
    <2>1. Has(e, "RdeUpgradeError") => SaysFailed(rde) \/ t = "RdeUpgradeError"
      BY <1>0, RolledEntries DEF SaysFailed
    <2>2. AddError(t) = doc
      BY DEF AddError
    <2> HIDE DEF e
    <2>3. SameKind(rde, doc) /\ doc.errors = e /\ doc.old = rde.old /\ doc.new = rde.new
      BY <1>0 DEF Documents, SameKind
    <2> HIDE DEF doc
    <2> QED
      BY <2>1, <2>2, <2>3 DEF SaysFailed, Listed
  <1>2. LET doc == [rde EXCEPT !.csi = TRUE, !.latest = @ \/ ~rde.csi]
        IN  /\ SameKind(rde, doc) /\ Listed(doc) = Listed(rde)
            /\ SaysFailed(doc) => SaysFailed(rde)
    <2> DEFINE doc == [rde EXCEPT !.csi = TRUE, !.latest = @ \/ ~rde.csi]
    <2>1. SameKind(rde, doc) /\ doc.errors = rde.errors /\ doc.old = rde.old /\ doc.new = rde.new
      BY <1>0 DEF Documents, SameKind
    <2> HIDE DEF doc
    <2>2. SameKind(rde, doc) /\ Listed(doc) = Listed(rde) /\ (SaysFailed(doc) => SaysFailed(rde))
      BY <2>1 DEF SaysFailed, Listed
    <2> QED
      BY <2>2 DEF doc
  <1>3. LET doc == [rde EXCEPT !.errors = Without(@, "RdeUpgradeError")]
        IN  SameKind(rde, doc) /\ Listed(doc) = Listed(rde) /\ ~SaysFailed(doc)
    <2> DEFINE e == Without(rde.errors, "RdeUpgradeError")
               doc == [rde EXCEPT !.errors = e]
    <2>1. ~Has(e, "RdeUpgradeError")
      BY <1>0, WithoutEntries
    <2> HIDE DEF e
    <2>2. SameKind(rde, doc) /\ doc.errors = e /\ doc.old = rde.old /\ doc.new = rde.new
      BY <1>0 DEF Documents, SameKind
    <2> HIDE DEF doc
    <2>3. SameKind(rde, doc) /\ Listed(doc) = Listed(rde) /\ ~SaysFailed(doc)
      BY <2>1, <2>2 DEF SaysFailed, Listed
    <2> QED
      BY <2>3 DEF doc, e
  <1> QED
    BY <1>1, <1>2, <1>3

(* A driver that upgrades goes on to s, whether or not the document        *)
(* changes.                                                                *)
LEMMA ReportedSound ==
    ASSUME Inv, Sound, Counted, NEW d \in Drivers, NEW s \in Steps, NEW doc,
           proc[d].pc \notin {"down", "boot", "setup", "serving"},
           s \in {"event", "getCsi", "clear", "lastClear", "serving", "down"},
           LET p == [proc[d] EXCEPT !.pc = s]
           IN  \/ Reportable(rde) /\ Write(d, doc, p)
               \/ proc' = [proc EXCEPT ![d] = p] /\ UNCHANGED rde,
           SameKind(rde, doc), Listed(doc) = Listed(rde),
           SaysFailed(doc) => s # "serving",
           UNCHANGED rde /\ s = "serving" /\ Reportable(rde) /\ Unrefused' => ~SaysFailed(rde)
    PROVE  Onward
  <1> DEFINE p == [proc[d] EXCEPT !.pc = s]
  <1>0. d \in Upgraders /\ proc[d].tries <= MaxRetries
    BY DEF Sound, Fits, StageFits
  <1>1. p.pc = s /\ p.tries = proc[d].tries /\ p \in Processes
    BY <1>0 DEF Inv, Types, Processes
  <1>2. \/ Reportable(rde) /\ Write(d, doc, p)
        \/ proc' = [proc EXCEPT ![d] = p] /\ UNCHANGED rde
    OBVIOUS
  <1> HIDE DEF p
  <1>3. StageFits(d, p) /\ CopyFits(p, rde)
    BY <1>0, <1>1 DEF StageFits, CopyFits
  <1>4. CASE Reportable(rde) /\ Write(d, doc, p)
    <2>1. Reportable(doc)
      BY <1>4 DEF SameKind, Reportable
    <2>2. Sound'
      BY <1>0, <1>1, <1>3, <1>4, <2>1, WriteSound
    <2>3. rde' = doc
      BY <1>4 DEF Write
    <2> QED
      BY <2>2, <2>3 DEF Onward
  <1>5. CASE proc' = [proc EXCEPT ![d] = p] /\ UNCHANGED rde
    BY <1>0, <1>1, <1>3, <1>5, MoveSound
  <1> QED
    BY <1>2, <1>4, <1>5

LEMMA ReportSound ==
    ASSUME Inv, Sound, Counted, NEW d \in Drivers, Report(d)
    PROVE  Onward
  <1> DEFINE doc == AddError("RdeIncorrectFormatError")
  <1>1. /\ proc[d].pc = "report"
        /\ LET p == [proc[d] EXCEPT !.pc = "event"]
           IN  \/ Reportable(rde) /\ Write(d, doc, p)
               \/ proc' = [proc EXCEPT ![d] = p] /\ UNCHANGED rde
    BY DEF Report, Over, CanReport, Reportable
  <1>2. SameKind(rde, doc) /\ Listed(doc) = Listed(rde)
    BY ReportChanges DEF Topics
  <1>3. "event" \in Steps
    BY DEF Steps
  <1> HIDE DEF doc
  <1> QED
    BY <1>1, <1>2, <1>3, ReportedSound

LEMMA EventSound ==
    ASSUME Inv, Sound, Counted, NEW d \in Drivers, Event(d)
    PROVE  Onward
  <1> DEFINE s == IF proc[d].pc = "event" THEN "clear" ELSE "lastClear"
             doc == [rde EXCEPT !.csi = TRUE, !.latest = @ \/ ~rde.csi]
  <1>1. /\ proc[d].pc \in {"event", "lastEvent"}
        /\ LET p == [proc[d] EXCEPT !.pc = s]
           IN  \/ Reportable(rde) /\ Write(d, doc, p)
               \/ proc' = [proc EXCEPT ![d] = p] /\ UNCHANGED rde
    BY DEF Event, CanReport, Reportable
  <1>2. SameKind(rde, doc) /\ Listed(doc) = Listed(rde)
    BY ReportChanges
  <1>3. s \in {"clear", "lastClear"} /\ s \in Steps
    BY DEF Steps
  <1> HIDE DEF s, doc
  <1> QED
    BY <1>1, <1>2, <1>3, ReportedSound

LEMMA ClearSound ==
    ASSUME Inv, FaultsInv, Sound, Counted, NEW d \in Drivers, Clear(d)
    PROVE  Onward
  <1> DEFINE s == IF proc[d].pc = "clear" THEN "getCsi" ELSE "serving"
             doc == [rde EXCEPT !.errors = Without(@, "RdeUpgradeError")]
  <1>1. /\ proc[d].pc \in {"clear", "lastClear"}
        /\ LET p == [proc[d] EXCEPT !.pc = s]
           IN  \/ Reportable(rde) /\ Write(d, doc, p)
               \/ proc' = [proc EXCEPT ![d] = p] /\ UNCHANGED rde
    BY DEF Clear, CanReport, Reportable
  <1>2. SameKind(rde, doc) /\ Listed(doc) = Listed(rde) /\ ~SaysFailed(doc)
    BY ReportChanges
  <1>3. UNCHANGED rde /\ Reportable(rde) /\ Unrefused' => ~SaysFailed(rde)
    <2> SUFFICES ASSUME UNCHANGED rde, Reportable(rde), SaysFailed(rde)
                 PROVE  ~Unrefused'
      OBVIOUS
    <2>1. rde' # doc
      BY <1>2
    <2>2. Refused(~CanReport \/ ~Has(rde.errors, "RdeUpgradeError"))
      BY <2>1 DEF Clear, Write
    <2>3. Fault("request")
      BY <2>2 DEF Refused, CanReport, Reportable, SaysFailed
    <2> QED
      BY <2>3 DEF Fault, FaultsInv, Unrefused, UpgradeFaults
  <1>4. s \in {"getCsi", "serving"} /\ s \in Steps
    BY DEF Steps
  <1> HIDE DEF s, doc
  <1> QED
    BY <1>1, <1>2, <1>3, <1>4, ReportedSound

LEMMA FailingSound ==
    ASSUME Inv, Sound, Counted, NEW d \in Drivers, Failing(d)
    PROVE  Onward
  <1> DEFINE doc == AddError("RdeUpgradeError")
  <1>1. /\ proc[d].pc = "failing"
        /\ LET p == [proc[d] EXCEPT !.pc = "down"]
           IN  \/ Reportable(rde) /\ Write(d, doc, p)
               \/ proc' = [proc EXCEPT ![d] = p] /\ UNCHANGED rde
    BY DEF Failing, CanReport, Reportable
  <1>2. SameKind(rde, doc) /\ Listed(doc) = Listed(rde)
    BY ReportChanges DEF Topics
  <1>3. "down" \in Steps
    BY DEF Steps
  <1> HIDE DEF doc
  <1> QED
    BY <1>1, <1>2, <1>3, ReportedSound

---------------------------------------------------------------------------
(* Serving, and the environment                                            *)

(* A driver that serves changes the list.                                  *)
LEMMA ServeSound ==
    ASSUME Inv, Sound, Counted, NEW d \in Drivers, proc[d].pc = "serving",
           NEW doc, Write(d, doc, proc[d]), SameKind(rde, doc), doc.errors = rde.errors
    PROVE  Sound'
  <1>1. proc[d] \in Processes /\ StageFits(d, proc[d]) /\ (SaysFailed(rde) => Reportable(rde))
    BY DEF Inv, Types, Sound, Fits
  <1>2. (SaysFailed(doc) <=> SaysFailed(rde)) /\ (Reportable(doc) <=> Reportable(rde))
    BY DEF SaysFailed, Reportable, SameKind
  <1> QED
    BY <1>1, <1>2, WriteSound

LEMMA StaySound ==
    ASSUME Sound, Counted, UNCHANGED <<rde, proc>>
    PROVE  Sound'
  BY DEF Sound, Fits, Retried, Counted, SaysFailed, Has, StageFits, CopyFits, Reportable, Listed

LEMMA CreateSound ==
    ASSUME Inv, Sound, Counted, NEW d \in Drivers, NEW p \in Pvs, CreateVolume(d, p)
    PROVE  /\ Sound'
           /\ Listed(rde') \subseteq Listed(rde) \union {p}
           /\ vol[p] = "none"
  <1>0. proc[d].pc = "serving" /\ rde \in Documents /\ vol[p] = "none"
    BY DEF CreateVolume, Inv, Types
  <1>1. ASSUME NEW doc, Write(d, doc, proc[d]), SameKind(rde, doc), doc.errors = rde.errors,
               Listed(doc) \subseteq Listed(rde) \union {p}
        PROVE  Sound' /\ Listed(rde') \subseteq Listed(rde) \union {p}
    BY <1>0, <1>1, ServeSound DEF Write
  <1>2. CASE rde.kind = "capvcd"
    <2> DEFINE latest == rde.latest \/ ~rde.csi \/ rde.new = {}
               doc == [rde EXCEPT !.csi = TRUE, !.latest = latest, !.new = @ \union {p}]
    <2>1. Write(d, doc, proc[d])
      BY <1>2 DEF CreateVolume
    <2> HIDE DEF latest
    <2>2. /\ SameKind(rde, doc) /\ doc.errors = rde.errors
          /\ doc.old = rde.old /\ doc.new = rde.new \union {p}
      BY <1>0 DEF Documents, SameKind
    <2> HIDE DEF doc
    <2> QED
      BY <1>0, <1>1, <2>1, <2>2 DEF Listed
  <1>3. CASE rde.kind = "native"
    <2> DEFINE doc == [rde EXCEPT !.old = @ \union {p}]
    <2>1. Write(d, doc, proc[d])
      BY <1>3 DEF CreateVolume
    <2>2. /\ SameKind(rde, doc) /\ doc.errors = rde.errors
          /\ doc.old = rde.old \union {p} /\ doc.new = rde.new
      BY <1>0 DEF Documents, SameKind
    <2> HIDE DEF doc
    <2> QED
      BY <1>0, <1>1, <2>1, <2>2 DEF Listed
  <1>4. CASE rde.kind \notin {"capvcd", "native"}
    <2>1. UNCHANGED <<rde, proc>>
      BY <1>4 DEF CreateVolume
    <2> QED
      BY <1>0, <2>1, StaySound
  <1> QED
    BY <1>2, <1>3, <1>4

LEMMA DeleteSound ==
    ASSUME Inv, Sound, Counted, NEW d \in Drivers, NEW p \in Pvs, DeleteVolume(d, p)
    PROVE  Onward
  <1>0. proc[d].pc = "serving" /\ rde \in Documents
    BY DEF DeleteVolume, Inv, Types
  <1>1. ASSUME NEW doc, Write(d, doc, proc[d]), SameKind(rde, doc), doc.errors = rde.errors,
               Listed(doc) \subseteq Listed(rde)
        PROVE  Onward
    BY <1>0, <1>1, ServeSound DEF Write, Onward
  <1>2. CASE rde.kind = "capvcd"
    <2> DEFINE doc == [rde EXCEPT !.new = @ \ {p}]
    <2>1. Write(d, doc, proc[d])
      BY <1>2 DEF DeleteVolume
    <2>2. /\ SameKind(rde, doc) /\ doc.errors = rde.errors
          /\ doc.old = rde.old /\ doc.new = rde.new \ {p}
      BY <1>0 DEF Documents, SameKind
    <2> HIDE DEF doc
    <2> QED
      BY <1>1, <2>1, <2>2 DEF Listed
  <1>3. CASE rde.kind = "native"
    <2> DEFINE doc == [rde EXCEPT !.old = @ \ {p}]
    <2>1. Write(d, doc, proc[d])
      BY <1>3 DEF DeleteVolume
    <2>2. /\ SameKind(rde, doc) /\ doc.errors = rde.errors
          /\ doc.old = rde.old \ {p} /\ doc.new = rde.new
      BY <1>0 DEF Documents, SameKind
    <2> HIDE DEF doc
    <2> QED
      BY <1>1, <2>1, <2>2 DEF Listed
  <1>4. CASE rde.kind \notin {"capvcd", "native"}
    <2>1. UNCHANGED <<rde, proc>>
      BY <1>4 DEF DeleteVolume
    <2> QED
      BY <2>1, StaySound DEF Onward
  <1> QED
    BY <1>2, <1>3, <1>4

LEMMA OthersSound ==
    ASSUME Inv, Sound, Counted, OthersWrite
    PROVE  Onward
  <1> DEFINE doc == [rde EXCEPT !.others = @ + 1]
  <1>1. rde' = doc /\ rde \in Documents /\ \A x \in Drivers : proc[x] \in Processes
    BY DEF OthersWrite, Inv, Types
  <1>2. /\ SameKind(rde, doc) /\ doc.errors = rde.errors
        /\ doc.old = rde.old /\ doc.new = rde.new
    BY <1>1 DEF Documents, SameKind
  <1>3. \A x \in Drivers : proc'[x] = [proc[x] EXCEPT !.fresh = FALSE]
    BY DEF OthersWrite
  <1> HIDE DEF doc
  <1>4. \A x \in Drivers : Outdates(x)
    BY <1>1, <1>3, OthersOutdate
  <1>5. \A x \in Drivers : StageFits(x, proc'[x]) /\ CopyFits(proc'[x], doc)
    BY <1>4, OutdatedFits DEF Sound, Fits
  <1>6. (SaysFailed(doc) <=> SaysFailed(rde)) /\ (Reportable(doc) <=> Reportable(rde))
    BY <1>2 DEF SaysFailed, Reportable, SameKind
  <1>7. Fits'
    <2>1. SaysFailed(doc) => Reportable(doc)
      BY <1>6 DEF Sound, Fits
    <2> QED
      BY <1>1, <1>5, <2>1 DEF Fits, SaysFailed, Has, Reportable, StageFits, CopyFits, Listed
  <1>8. Retried'
    <2> SUFFICES ASSUME Unrefused', Unrefused, SaysFailed(rde)
                 PROVE  \E x \in Upgraders : proc'[x].pc # "serving"
      BY <1>1, <1>6 DEF Retried, Counted, SaysFailed, Has
    <2> QED
      BY <1>4, UpgradeIsSane DEF Sound, Retried, Outdates
  <1>9. Listed(rde') \subseteq Listed(rde)
    BY <1>1, <1>2 DEF Listed
  <1> QED
    BY <1>7, <1>8, <1>9 DEF Sound, Onward

LEMMA RefusalsAreCounted ==
    ASSUME FaultsInv, [Next]_vars
    PROVE  Counted
  <1>1. ASSUME NEW f \in UpgradeFaults, Fault(f)
        PROVE  Counted
    BY <1>1 DEF FaultsInv, Counted, Unrefused, Fault, UpgradeFaults
  <1>2. CASE NoFault
    BY <1>2 DEF Counted, Unrefused, NoFault
  <1>3. ASSUME NEW must \in BOOLEAN, Refused(must)
        PROVE  Counted
    BY <1>1, <1>2, <1>3 DEF Refused, UpgradeFaults
  <1> QED
    BY <1>1, <1>2, <1>3, FaultOrNone

(* Only what was never there comes to the lists.                           *)
NotBack == \A p \in Pvs : vol[p] = "deleted" /\ p \notin Listed(rde) => p \notin Listed(rde')

LEMMA StepSound == Inv /\ FaultsInv /\ Sound /\ [Next]_vars => Sound' /\ NotBack
  <1> SUFFICES ASSUME Inv, FaultsInv, Sound, [Next]_vars, Counted
               PROVE  Sound' /\ NotBack
    BY RefusalsAreCounted
  <1>0. Onward => Sound' /\ NotBack
    BY DEF Onward, NotBack
  <1>1. ASSUME NEW d \in Drivers, Start(d) \/ Crash(d)
        PROVE  Onward
    BY <1>1, BootSound, SetupSound, GetPvsSound, PutPvsSound, ReportSound, EventSound,
       ClearSound, GetCsiSound, PutCsiSound, FailingSound, RestartSound DEF Start
  <1>2. ASSUME NEW d \in Drivers, NEW p \in Pvs, CreateVolume(d, p)
        PROVE  Sound' /\ NotBack
    BY <1>2, CreateSound DEF NotBack
  <1>3. CASE UNCHANGED <<rde, proc>>
    BY <1>3, StaySound DEF NotBack, Listed
  <1>4. ASSUME NEW c \in Credentials, SecretArrives(c)
        PROVE  UNCHANGED <<rde, proc>>
    BY <1>4 DEF SecretArrives
  <1>5. CASE UNCHANGED vars
    BY <1>3, <1>5 DEF vars
  <1> QED
    BY <1>0, <1>1, <1>2, <1>3, <1>4, <1>5, DeleteSound, OthersSound DEF Next

LEMMA Soundness == Spec => [](Inv /\ FaultsInv /\ Sound)
  BY InitSound, StepSound, Invariance, PTL DEF Spec

(* Once every driver that upgrades serves, the error that an earlier start *)
(* left (driver.go: Setup) is gone again.                                  *)
THEOREM ServingClearsTheError == Spec => []UpgradeErrorIsCleared
  <1>1. Sound => UpgradeErrorIsCleared
    BY DEF Sound, Retried, UpgradeErrorIsCleared, Unrefused, SaysFailed
  <1> QED
    BY <1>1, Soundness, PTL

(* A copy read before a volume was deleted and taken off the list never    *)
(* brings it back: the etag it was read under is old by then.              *)
THEOREM DeletedVolumesStayAway == Spec => DeletedStayAway
  <1>1. Inv /\ FaultsInv /\ Sound /\ [Next]_vars
            => [\A p \in Pvs : vol[p] = "deleted" /\ p \notin Listed(rde) => p \notin Listed(rde')]_vars
    BY StepSound DEF NotBack
  <1> QED
    BY <1>1, Soundness, PTL DEF Spec, DeletedStayAway

---------------------------------------------------------------------------
(* Types                                                                   *)

Bounds == /\ creds \subseteq Credentials
          /\ writes \in 0..MaxWrites
          /\ faults \in [UpgradeFaults -> 0..MaxFaults]

LEMMA StepBounds == Bounds /\ [Next]_vars => Bounds'
  <1> SUFFICES ASSUME Bounds, [Next]_vars PROVE Bounds'
    OBVIOUS
  <1>1. ASSUME NEW f \in UpgradeFaults, Fault(f)
        PROVE  faults' \in [UpgradeFaults -> 0..MaxFaults]
    <2>1. /\ faults["request"] \in Nat /\ faults["connection"] \in Nat
          /\ faults["crash"] \in Nat
          /\ faults \in [UpgradeFaults -> 0..MaxFaults]
      BY DEF Bounds, UpgradeFaults
    <2>2. faults[f] + 1 \in 0..MaxFaults
      BY <1>1, <2>1, UpgradeIsSane DEF Fault, UpgradeFaults
    <2> QED
      BY <1>1, <2>1, <2>2 DEF Fault
  <1>2. faults' \in [UpgradeFaults -> 0..MaxFaults]
    BY <1>1, FaultOrNone DEF Bounds, NoFault, Refused, UpgradeFaults
  <1>3. writes' \in 0..MaxWrites
    <2>1. CASE OthersWrite
      BY <2>1, UpgradeIsSane DEF OthersWrite, Bounds
    <2>2. CASE UNCHANGED writes
      BY <2>2 DEF Bounds
    <2>3. ASSUME NEW d \in Drivers, Start(d)
          PROVE  UNCHANGED writes
      BY <2>3 DEF Start, Boot, Setup, GetPvs, Lookup, PutPvs, Report, Event, Clear, GetCsi,
                  PutCsi, Failing, Restart
    <2> QED
      BY <2>1, <2>2, <2>3 DEF Next, vars, Crash, CreateVolume, DeleteVolume, SecretArrives
  <1>4. creds' \subseteq Credentials
    <2>1. ASSUME NEW c \in Credentials, SecretArrives(c)
          PROVE  creds' \subseteq Credentials
      BY <2>1 DEF SecretArrives, Bounds
    <2>2. CASE UNCHANGED creds
      BY <2>2 DEF Bounds
    <2>3. ASSUME NEW d \in Drivers, Start(d)
          PROVE  UNCHANGED creds
      BY <2>3 DEF Start, Boot, Setup, GetPvs, Lookup, PutPvs, Report, Event, Clear, GetCsi,
                  PutCsi, Failing, Restart
    <2> QED
      BY <2>1, <2>2, <2>3 DEF Next, vars, Crash, CreateVolume, DeleteVolume, OthersWrite
  <1> QED
    BY <1>2, <1>3, <1>4 DEF Bounds

(* The variables have their types; above all, no driver comes to more      *)
(* rounds of UpgradeRDEPersistentVolumes than MaxRDEUpdateRetries.         *)
THEOREM UpgradeTypes == Spec => []TypeOK
  <1>1. Init => Bounds
    BY UpgradeIsSane DEF Init, Bounds
  <1>2. Spec => []Bounds
    BY <1>1, StepBounds, PTL DEF Spec
  <1>3. Inv /\ Sound /\ Bounds => TypeOK
    <2> SUFFICES ASSUME Inv, Sound, Bounds PROVE TypeOK
      OBVIOUS
    <2>1. \A d \in Drivers : proc[d] \in [pc : Steps, tries : 0..MaxRetries, copy : Documents,
                                          fresh : BOOLEAN]
      <3> TAKE d \in Drivers
      <3>1. proc[d] \in Processes /\ proc[d].tries <= MaxRetries
        BY DEF Inv, Types, Sound, Fits, StageFits
      <3>2. proc[d].tries \in 0..MaxRetries
        BY <3>1, UpgradeIsSane DEF Processes
      <3> QED
        BY <3>1, <3>2 DEF Processes
    <2>2. proc \in [Drivers -> [pc : Steps, tries : 0..MaxRetries, copy : Documents,
                                fresh : BOOLEAN]]
      BY <2>1 DEF Inv, Types
    <2> QED
      BY <2>2 DEF TypeOK, Inv, Types, Bounds
  <1> QED
    BY <1>2, <1>3, Soundness, PTL

=============================================================================
