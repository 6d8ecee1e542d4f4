-------------------------- MODULE NodeMountsProofs -------------------------
(***************************************************************************)
(* What the node service keeps as long as kubelet waits for its calls, for *)
(* any nodes and pods, either volume mode and any number of commands that  *)
(* fail, restarts of the driver and of nodes.  With one call at a time for *)
(* a place, what kubelet believes (Serial) decides what is mounted (Tidy), *)
(* and a node that formats the disk is the only one that has it (Alone).   *)
(* The last part does without that: a published volume stays mounted       *)
(* although calls kubelet gave up go on beside those that repeat them.     *)
(***************************************************************************)
EXTENDS NodeMounts, TLAPS

Now(k) == call[<<k, "now">>]

AllPcs == {"idle"} \union StagePcs \union UnstagePcs \union PublishPcs \union UnpublishPcs

Types ==
    /\ device \in [Nodes -> {"out", "attached", "scanned", "there"}]
    /\ dir \in [Places -> BOOLEAN]
    /\ mounts \in [Places -> Seq({"disk", "hollow"})]
    /\ call \in [Calls -> AllPcs]
    /\ kube \in [Places -> {"none", "uncertain", "ready"}]
    /\ want \subseteq Pods
    /\ \A k \in Places : call[<<k, "late">>] = "idle"

(* Kubelet's order of the calls.                                           *)
Serial ==
    /\ \A n \in Nodes : Now(n) \in {"idle"} \union StagePcs \union UnstagePcs
    /\ \A p \in Pods : Now(p) \in {"idle"} \union PublishPcs \union UnpublishPcs
    /\ \A k \in Places : Now(k) # "idle" => kube[k] = "uncertain"
    /\ \A p \in Pods : kube[p] = "ready" \/ Now(p) \in PublishPcs => kube[NodeOf[p]] = "ready"
    /\ \A p \in Pods : kube[p] # "none" => kube[NodeOf[p]] # "none"
    /\ \A p \in Pods : Now(NodeOf[p]) \in UnstagePcs => kube[p] = "none"
    /\ \A n \in Nodes : kube[n] # "none" => device[n] # "out"

(* What is mounted follows from what kubelet knows.                        *)
Tidy ==
    /\ \A k \in Places : Mounted(k) => dir[k]
    /\ \A k \in Places : kube[k] = "none" => ~Mounted(k)
    /\ \A p \in Pods : kube[p] = "none" => ~dir[p]
    /\ VolumeMode = "Filesystem" => \A n \in Nodes : kube[n] = "ready" => Mounted(n)
    /\ \A p \in Pods : kube[p] = "ready" \/ Now(p) = "publishOptions"
                          => Mounted(p) /\ Last(mounts[p]) = "disk"

(* A disk that is not shared is attached to one node; nobody else writes   *)
(* on the one that node is about to format.                                *)
Alone ==
    ~Shared =>
        /\ \A m, n \in Nodes : device[m] # "out" /\ device[n] # "out" => m = n
        /\ \A n \in Nodes : Now(n) = "stageFormat" => disk = "raw"

Inv == Types /\ Serial /\ Tidy /\ Alone

(* It holds until the first call is given up, and is never needed again.   *)
UntilTimeout == faults \in [NodeFaults -> Nat] /\ (Patient => Inv)

----------------------------------------------------------------------------

LEMMA InitInv == Init => Inv
  <1> SUFFICES ASSUME Init PROVE Inv
    OBVIOUS
  <1> USE NodesAreSane DEF Init, Places, Calls
  <1>1. Types
    BY DEF Types, AllPcs
  <1>2. Serial
    <2>1. \A k \in Places : Now(k) = "idle" /\ kube[k] = "none"
      BY DEF Now
    <2>2. \A p \in Pods : NodeOf[p] \in Places
      OBVIOUS
    <2> QED BY <2>1, <2>2 DEF Serial, StagePcs, UnstagePcs, PublishPcs, UnpublishPcs
  <1>3. Tidy
    BY DEF Tidy, Now, Mounted
  <1>4. Alone
    BY DEF Alone, Now
  <1> QED BY <1>1, <1>2, <1>3, <1>4 DEF Inv

(* A call that moves is one kubelet waits for, and moves alone.            *)
LEMMA GotoNow ==
    ASSUME Types, NEW c \in Calls, call[c] # "idle", NEW pc \in AllPcs, Goto(c, pc)
    PROVE  /\ c = <<c[1], "now">> /\ c[1] \in Places /\ c[2] = "now"
           /\ call[c] = Now(c[1])
           /\ Now(c[1])' = pc
           /\ \A k \in Places : k # c[1] => Now(k)' = Now(k)
           /\ call' \in [Calls -> AllPcs]
           /\ \A k \in Places : call'[<<k, "late">>] = "idle"
  <1>1. PICK k \in Places, age \in {"now", "late"} : c = <<k, age>>
    BY DEF Calls
  <1>2. age = "now"
    BY <1>1 DEF Types
  <1> QED BY <1>1, <1>2 DEF Types, Goto, Now, Calls

(* A step that concerns one place only.                                    *)
Elsewhere(k) ==
    \A j \in Places : j # k => /\ Now(j)' = Now(j) /\ kube'[j] = kube[j]
                              /\ dir'[j] = dir[j] /\ mounts'[j] = mounts[j]

(* What it has to see to at that place, for a node and for a pod.          *)
SerialAt(k) ==
    /\ Now(k)' # "idle" => kube'[k] = "uncertain"
    /\ k \in Nodes =>
          /\ Now(k)' \in {"idle"} \union StagePcs \union UnstagePcs
          /\ kube'[k] # "none" => device'[k] # "out"
          /\ \A p \in PodsOn(k) :
                /\ kube[p] = "ready" \/ Now(p) \in PublishPcs => kube'[k] = "ready"
                /\ kube[p] # "none" => kube'[k] # "none"
                /\ Now(k)' \in UnstagePcs => kube[p] = "none"
    /\ k \in Pods =>
          /\ Now(k)' \in {"idle"} \union PublishPcs \union UnpublishPcs
          /\ kube'[k] = "ready" \/ Now(k)' \in PublishPcs => kube[NodeOf[k]] = "ready"
          /\ kube'[k] # "none" => kube[NodeOf[k]] # "none"
          /\ Now(NodeOf[k]) \in UnstagePcs => kube'[k] = "none"

TidyAt(k) ==
    /\ Mounted(k)' => dir'[k]
    /\ kube'[k] = "none" => ~Mounted(k)'
    /\ k \in Nodes /\ VolumeMode = "Filesystem" /\ kube'[k] = "ready" => Mounted(k)'
    /\ k \in Pods =>
          /\ kube'[k] = "none" => ~dir'[k]
          /\ kube'[k] = "ready" \/ Now(k)' = "publishOptions"
                => Mounted(k)' /\ Last(mounts'[k]) = "disk"

LEMMA LocalSerial ==
    ASSUME Serial, NEW k \in Places, Elsewhere(k), SerialAt(k),
           \A n \in Nodes : device[n] # "out" => device'[n] # "out"
    PROVE  Serial'
  <1> USE NodesAreSane DEF Places, Serial, Elsewhere, SerialAt, PodsOn
  <1>1. \A p \in Pods : NodeOf[p] \in Nodes /\ p \notin Nodes
    OBVIOUS
  <1>2. CASE k \in Nodes
    BY <1>1, <1>2
  <1>3. CASE k \in Pods
    BY <1>1, <1>3
  <1> QED BY <1>2, <1>3

LEMMA LocalTidy ==
    ASSUME Tidy, NEW k \in Places, Elsewhere(k), TidyAt(k)
    PROVE  Tidy'
  <1> USE NodesAreSane DEF Places, Tidy, Elsewhere, TidyAt, Mounted
  <1>1. CASE k \in Nodes
    BY <1>1
  <1>2. CASE k \in Pods
    BY <1>2
  <1> QED BY <1>1, <1>2

AloneAt(k) ==
    /\ \A n \in Nodes : device'[n] = "out" <=> device[n] = "out"
    /\ disk' = disk \/ (k \in Nodes /\ Now(k) = "stageFormat")
    /\ Now(k)' = "stageFormat" => disk' = "raw"

LEMMA LocalAlone ==
    ASSUME Serial, Alone, NEW k \in Places, Elsewhere(k), AloneAt(k)
    PROVE  Alone'
  <1> SUFFICES ASSUME ~Shared
               PROVE  /\ \A m, n \in Nodes : device'[m] # "out" /\ device'[n] # "out" => m = n
                      /\ \A n \in Nodes : Now(n)' = "stageFormat" => disk' = "raw"
    BY DEF Alone
  <1>1. \A m, n \in Nodes : device'[m] # "out" /\ device'[n] # "out" => m = n
    BY DEF Alone, AloneAt
  <1>2. ASSUME NEW n \in Nodes, Now(n)' = "stageFormat" PROVE disk' = "raw"
    <2>1. CASE n = k
      BY <1>2, <2>1 DEF AloneAt
    <2>2. CASE n # k
      <3>1. Now(n) = "stageFormat" /\ disk = "raw"
        BY <1>2, <2>2 DEF Elsewhere, Alone, Places
      <3>2. \A m \in Nodes : Now(m) = "stageFormat" => device[m] # "out"
        BY DEF Serial, Places
      <3>3. disk' = disk
        BY <2>2, <3>1, <3>2 DEF AloneAt, Alone
      <3> QED BY <3>1, <3>3
    <2> QED BY <2>1, <2>2
  <1> QED BY <1>1, <1>2

Local(k) == Types' /\ Elsewhere(k) /\ SerialAt(k) /\ TidyAt(k) /\ AloneAt(k)

LEMMA LocalInv ==
    ASSUME Inv, NEW k \in Places, Local(k) PROVE Inv'
  BY LocalSerial, LocalTidy, LocalAlone DEF Inv, Local, AloneAt

----------------------------------------------------------------------------
(* The steps of the calls.  First what a call that moves has in common.    *)
LEMMA CallMoves ==
    ASSUME Inv, NEW c \in Calls, call[c] # "idle", NEW pc \in AllPcs, Goto(c, pc),
           kube' = kube \/ \E st \in {"none", "ready"} : kube' = [kube EXCEPT ![c[1]] = st],
           dir' = dir \/ \E b \in BOOLEAN : dir' = [dir EXCEPT ![c[1]] = b],
           mounts' = mounts \/ \E m \in Seq({"disk", "hollow"}) : mounts' = [mounts EXCEPT ![c[1]] = m],
           device' \in [Nodes -> {"out", "attached", "scanned", "there"}],
           want' = want
    PROVE  /\ Types' /\ Elsewhere(c[1])
           /\ c[1] \in Places /\ c[2] = "now"
           /\ Now(c[1]) = call[c] /\ Now(c[1])' = pc
           /\ kube[c[1]] = "uncertain"
  <1>1. /\ c[1] \in Places /\ c[2] = "now"
        /\ call[c] = Now(c[1])
        /\ Now(c[1])' = pc
        /\ \A k \in Places : k # c[1] => Now(k)' = Now(k)
        /\ call' \in [Calls -> AllPcs]
        /\ \A k \in Places : call'[<<k, "late">>] = "idle"
    BY GotoNow DEF Inv
  <1> DEFINE k == c[1]
  <1>2. Types'
    <2>1. kube' \in [Places -> {"none", "uncertain", "ready"}]
      BY DEF Inv, Types
    <2>2. dir' \in [Places -> BOOLEAN]
      BY DEF Inv, Types
    <2>3. mounts' \in [Places -> Seq({"disk", "hollow"})]
      BY DEF Inv, Types
    <2>4. want' \subseteq Pods
      BY DEF Inv, Types
    <2> QED BY <1>1, <2>1, <2>2, <2>3, <2>4 DEF Types
  <1>3. Elsewhere(c[1])
    BY <1>1 DEF Elsewhere, Inv, Types
  <1>4. kube[c[1]] = "uncertain"
    BY <1>1 DEF Inv, Serial
  <1> QED BY <1>1, <1>2, <1>3, <1>4

(* Whose call it is.                                                       *)
LEMMA Caller ==
    ASSUME Inv, NEW c \in Calls, call[c] # "idle"
    PROVE  /\ c[1] \in Places /\ call[c] = Now(c[1])
           /\ call[c] \in StagePcs \union UnstagePcs
                 => c[1] \in Nodes /\ c[1] \notin Pods /\ device[c[1]] # "out"
           /\ call[c] \in PublishPcs \union UnpublishPcs
                 => c[1] \in Pods /\ c[1] \notin Nodes
  <1>2. PICK k \in Places, age \in {"now", "late"} : c = <<k, age>>
    BY DEF Calls
  <1>3. age = "now"
    BY <1>2 DEF Inv, Types
  <1>4. c[1] = k /\ call[c] = Now(k)
    BY <1>2, <1>3 DEF Now
  <1>5. kube[k] = "uncertain"
    BY <1>4 DEF Inv, Serial
  <1>6. CASE k \in Nodes
    BY <1>4, <1>5, <1>6, NodesAreSane
    DEF Inv, Serial, StagePcs, UnstagePcs, PublishPcs, UnpublishPcs
  <1>7. CASE k \in Pods
    BY <1>4, <1>5, <1>7, NodesAreSane
    DEF Inv, Serial, StagePcs, UnstagePcs, PublishPcs, UnpublishPcs
  <1> QED BY <1>4, <1>6, <1>7 DEF Places

(* A call that fails; publishing may have made the target before.          *)
LEMMA FailInv ==
    ASSUME Inv, NEW c \in Calls, call[c] # "idle", Fail(c),
           UNCHANGED <<disk, device, mounts, want>>,
           dir' = dir \/ dir' = [dir EXCEPT ![c[1]] = TRUE]
    PROVE  Inv'
  <1> DEFINE k == c[1]
  <1>1. /\ Types' /\ Elsewhere(k) /\ k \in Places
        /\ Now(k)' = "idle" /\ kube[k] = "uncertain"
    BY CallMoves DEF Fail, AllPcs, Inv, Types
  <1>2. SerialAt(k)
    BY <1>1 DEF SerialAt, Fail, Inv, Serial, PodsOn, PublishPcs, UnstagePcs
  <1>3. TidyAt(k)
    BY <1>1 DEF TidyAt, Fail, Inv, Tidy, Types, Mounted
  <1>4. AloneAt(k)
    BY <1>1 DEF AloneAt
  <1> QED BY <1>1, <1>2, <1>3, <1>4, LocalInv DEF Local

(* A call that stages and goes on.                                         *)
LEMMA StageGoes ==
    ASSUME Inv, NEW c \in Calls, call[c] \in StagePcs,
           NEW pc \in StagePcs, Goto(c, pc),
           UNCHANGED <<mounts, kube, want>>,
           dir' = dir \/ dir' = [dir EXCEPT ![c[1]] = TRUE],
           device' \in [Nodes -> {"out", "attached", "scanned", "there"}],
           \A n \in Nodes : device'[n] = "out" <=> device[n] = "out",
           disk' = disk \/ call[c] = "stageFormat",
           pc = "stageFormat" => disk' = "raw"
    PROVE  Inv'
  <1> DEFINE k == c[1]
  <1>1. call[c] # "idle" /\ pc \in AllPcs
    BY DEF StagePcs, AllPcs
  <1>2. /\ k \in Nodes /\ k \notin Pods /\ device[k] # "out" /\ k \in Places
        /\ call[c] = Now(k)
    BY <1>1, Caller
  <1>3. /\ Types' /\ Elsewhere(k) /\ Now(k)' = pc /\ kube[k] = "uncertain"
    BY <1>1, CallMoves
  <1>4. SerialAt(k)
    BY <1>2, <1>3 DEF SerialAt, Inv, Serial, PodsOn, StagePcs, UnstagePcs
  <1>5. TidyAt(k)
    BY <1>2, <1>3 DEF TidyAt, Inv, Tidy, Types, Mounted
  <1>6. AloneAt(k)
    BY <1>2, <1>3 DEF AloneAt
  <1> QED BY <1>2, <1>3, <1>4, <1>5, <1>6, LocalInv DEF Local

(* A call that has staged the volume.                                      *)
LEMMA StageEnds ==
    ASSUME Inv, NEW c \in Calls, call[c] \in StagePcs, Ok(c, "ready"),
           UNCHANGED <<disk, device, dir, want>>,
           \/ UNCHANGED mounts /\ (Mounted(c[1]) \/ VolumeMode = "Block")
           \/ /\ dir[c[1]] /\ mounts' = [mounts EXCEPT ![c[1]] = Append(@, "disk")]
    PROVE  Inv'
  <1> DEFINE k == c[1]
  <1>1. call[c] # "idle" /\ "idle" \in AllPcs
    BY DEF StagePcs, AllPcs
  <1>2. /\ k \in Nodes /\ k \notin Pods /\ device[k] # "out" /\ k \in Places
        /\ call[c] = Now(k) /\ c = <<k, "now">>
    BY <1>1, Caller, GotoNow DEF Ok, Inv
  <1>3. mounts[k] \in Seq({"disk", "hollow"})
    BY <1>2 DEF Inv, Types
  <1>4. Append(mounts[k], "disk") \in Seq({"disk", "hollow"}) /\ Append(mounts[k], "disk") # <<>>
    BY <1>3
  <1>5. kube' = [kube EXCEPT ![k] = "ready"]
    BY <1>2 DEF Ok
  <1>6. /\ Types' /\ Elsewhere(k) /\ Now(k)' = "idle" /\ kube[k] = "uncertain"
    <2>1. mounts' = mounts \/ \E m \in Seq({"disk", "hollow"}) : mounts' = [mounts EXCEPT ![k] = m]
      BY <1>4
    <2>2. dir' = dir /\ want' = want /\ Goto(c, "idle")
      BY DEF Ok
    <2>3. device' \in [Nodes -> {"out", "attached", "scanned", "there"}]
      BY DEF Inv, Types
    <2> QED
      BY <1>1, <1>5, <2>1, <2>2, <2>3, CallMoves, Zenon
  <1>7. kube'[k] = "ready"
    BY <1>2, <1>5 DEF Inv, Types
  <1>8. SerialAt(k)
    BY <1>2, <1>6, <1>7 DEF SerialAt, Inv, Serial, PodsOn, UnstagePcs, Places
  <1>9. TidyAt(k)
    BY <1>2, <1>4, <1>6, <1>7 DEF TidyAt, Inv, Tidy, Types, Mounted
  <1>10. AloneAt(k)
    BY <1>2, <1>6 DEF AloneAt
  <1> QED BY <1>2, <1>6, <1>8, <1>9, <1>10, LocalInv DEF Local

LEMMA StageInv ==
    ASSUME Inv, NEW c \in Calls, NodeStageVolume(c) PROVE Inv'
  <1> USE DEF StagePcs
  <1>1. CASE StageRescan(c)
    <2>1. c[1] \in Nodes
      BY <1>1, Caller DEF StageRescan
    <2>2. device' \in [Nodes -> {"out", "attached", "scanned", "there"}]
      BY <1>1, <2>1 DEF StageRescan, Inv, Types
    <2>3. \A n \in Nodes : device'[n] = "out" <=> device[n] = "out"
      BY <1>1, <2>1 DEF StageRescan, Inv, Types
    <2> QED BY <1>1, <2>2, <2>3, StageGoes DEF StageRescan, files
  <1>2. CASE StageFind(c)
    <2>1. CASE Fail(c)
      BY <1>2, <2>1, FailInv DEF StageFind, files
    <2>2. CASE VolumeMode = "Block" /\ Ok(c, "ready")
      BY <1>2, <2>2, StageEnds DEF StageFind, files
    <2>3. CASE Goto(c, "stageLook") /\ UNCHANGED kube
      BY <1>2, <2>3, StageGoes DEF StageFind, files, Inv, Types
    <2> QED BY <1>2, <2>1, <2>2, <2>3 DEF StageFind
  <1>3. CASE StageLook(c)
    <2>1. CASE Mounted(c[1]) /\ Ok(c, "ready") /\ UNCHANGED dir
      BY <1>3, <2>1, StageEnds DEF StageLook
    <2>2. CASE Fail(c) /\ UNCHANGED dir
      BY <1>3, <2>2, FailInv DEF StageLook
    <2>3. CASE Goto(c, "stageMount") /\ UNCHANGED kube /\ dir' = [dir EXCEPT ![c[1]] = TRUE]
      BY <1>3, <2>3, StageGoes DEF StageLook, Inv, Types
    <2> QED BY <1>3, <2>1, <2>2, <2>3 DEF StageLook
  <1>4. CASE StageMount(c)
    <2>1. CASE CanMount(c[1])
      BY <1>4, <2>1, StageEnds DEF StageMount, CanMount
    <2>2. CASE ~CanMount(c[1])
      BY <1>4, <2>2, StageGoes DEF StageMount, Inv, Types
    <2> QED BY <2>1, <2>2
  <1>5. CASE StageProbe(c)
    <2>1. CASE Fail(c)
      BY <1>5, <2>1, FailInv DEF StageProbe, files
    <2>2. CASE disk = "raw" /\ Goto(c, "stageFormat") /\ UNCHANGED kube
      BY <1>5, <2>2, StageGoes DEF StageProbe, files, Inv, Types
    <2> QED BY <1>5, <2>1, <2>2 DEF StageProbe
  <1>6. CASE StageFormat(c)
    BY <1>6, StageGoes DEF StageFormat, files, Inv, Types
  <1>7. CASE StageMountAgain(c)
    <2>1. CASE CanMount(c[1])
      BY <1>7, <2>1, StageEnds DEF StageMountAgain, CanMount
    <2>2. CASE ~CanMount(c[1])
      BY <1>7, <2>2, FailInv DEF StageMountAgain
    <2> QED BY <2>1, <2>2
  <1> QED BY <1>1, <1>2, <1>3, <1>4, <1>5, <1>6, <1>7 DEF NodeStageVolume

(* The calls that publish: they move at their pod only.                    *)
LEMMA PublishInv ==
    ASSUME Inv, NEW c \in Calls, NodePublishVolume(c) PROVE Inv'
  <1> DEFINE k == c[1]
  <1>1. call[c] \in PublishPcs /\ call[c] # "idle"
    BY DEF NodePublishVolume, PublishTarget, PublishBind, PublishOptions, PublishPcs
  <1>2. /\ k \in Pods /\ k \notin Nodes /\ k \in Places /\ call[c] = Now(k)
        /\ kube[NodeOf[k]] = "ready" /\ On(k) = NodeOf[k] /\ NodeOf[k] \in Nodes
    BY <1>1, Caller, NodesAreSane DEF Places, Inv, Serial, On
  <1>3. Now(NodeOf[k]) \notin UnstagePcs
    BY <1>2 DEF Inv, Serial, Places, UnstagePcs
  <1>4. CASE PublishTarget(c)
    <2>1. CASE Fail(c)
      BY <1>1, <1>4, <2>1, FailInv DEF PublishTarget
    <2>2. CASE Goto(c, "publishBind") /\ UNCHANGED kube
      <3>1. /\ Types' /\ Elsewhere(k) /\ Now(k)' = "publishBind" /\ kube[k] = "uncertain"
        BY <1>1, <1>4, <2>2, CallMoves DEF PublishTarget, AllPcs, PublishPcs, Inv, Types
      <3>2. SerialAt(k)
        BY <1>2, <1>3, <2>2, <3>1 DEF SerialAt, PublishPcs
      <3>3. TidyAt(k)
        BY <1>2, <1>4, <2>2, <3>1 DEF TidyAt, PublishTarget, Inv, Types
      <3>4. AloneAt(k)
        BY <1>4, <3>1 DEF AloneAt, PublishTarget
      <3> QED BY <1>2, <3>1, <3>2, <3>3, <3>4, LocalInv DEF Local
    <2> QED BY <1>4, <2>1, <2>2 DEF PublishTarget
  <1>5. CASE PublishBind(c)
    <2>1. CASE Fail(c) /\ UNCHANGED mounts
      BY <1>1, <1>5, <2>1, FailInv DEF PublishBind
    <2>2. CASE /\ Goto(c, "publishOptions") /\ UNCHANGED kube /\ dir[k]
               /\ mounts' = [mounts EXCEPT ![k] = Append(@, Visible(On(k)))]
      <3>1. Visible(On(k)) = "disk"
        BY <1>2, NodesAreSane DEF Visible, Inv, Tidy
      <3>2. mounts[k] \in Seq({"disk", "hollow"})
        BY <1>2 DEF Inv, Types
      <3>3. /\ Append(mounts[k], "disk") \in Seq({"disk", "hollow"})
            /\ Append(mounts[k], "disk") # <<>>
            /\ Last(Append(mounts[k], "disk")) = "disk"
        BY <3>2 DEF Last
      <3>4. /\ Types' /\ Elsewhere(k) /\ Now(k)' = "publishOptions" /\ kube[k] = "uncertain"
        <4>1. \E m \in Seq({"disk", "hollow"}) : mounts' = [mounts EXCEPT ![k] = m]
          BY <2>2, <3>1, <3>3
        <4>2. UNCHANGED <<device, dir, want>> /\ "publishOptions" \in AllPcs
          BY <1>5 DEF PublishBind, AllPcs, PublishPcs
        <4>3. device' \in [Nodes -> {"out", "attached", "scanned", "there"}]
          BY <4>2 DEF Inv, Types
        <4> QED BY <1>1, <2>2, <4>1, <4>2, <4>3, CallMoves
      <3>5. mounts'[k] = Append(mounts[k], "disk")
        BY <1>2, <2>2, <3>1 DEF Inv, Types
      <3>6. SerialAt(k)
        BY <1>2, <1>3, <2>2, <3>4 DEF SerialAt, PublishPcs
      <3>7. TidyAt(k)
        BY <1>2, <1>5, <2>2, <3>3, <3>4, <3>5 DEF TidyAt, PublishBind, Mounted
      <3>8. AloneAt(k)
        BY <1>5, <3>4 DEF AloneAt, PublishBind
      <3> QED BY <1>2, <3>4, <3>6, <3>7, <3>8, LocalInv DEF Local
    <2> QED BY <1>5, <2>1, <2>2 DEF PublishBind
  <1>6. CASE PublishOptions(c)
    <2>1. CASE Fail(c)
      BY <1>1, <1>6, <2>1, FailInv DEF PublishOptions, files
    <2>2. CASE Ok(c, "ready")
      <3>1. kube' = [kube EXCEPT ![k] = "ready"]
        BY <1>1, <1>2, <2>2, GotoNow DEF Ok, AllPcs, Inv
      <3>2. /\ Types' /\ Elsewhere(k) /\ Now(k)' = "idle" /\ kube[k] = "uncertain"
        BY <1>1, <1>6, <2>2, <3>1, CallMoves DEF Ok, PublishOptions, files, AllPcs, Inv, Types
      <3>3. kube'[k] = "ready"
        BY <1>2, <3>1 DEF Inv, Types
      <3>4. SerialAt(k)
        BY <1>2, <1>3, <3>2, <3>3 DEF SerialAt
      <3>5. TidyAt(k)
        BY <1>2, <1>6, <3>2, <3>3 DEF TidyAt, PublishOptions, files, Mounted, Inv, Tidy
      <3>6. AloneAt(k)
        BY <1>6, <3>2 DEF AloneAt, PublishOptions
      <3> QED BY <1>2, <3>2, <3>4, <3>5, <3>6, LocalInv DEF Local
    <2> QED BY <1>6, <2>1, <2>2 DEF PublishOptions
  <1> QED BY <1>4, <1>5, <1>6 DEF NodePublishVolume

(* An unpublish call that goes on.                                         *)
LEMMA UnpublishGoes ==
    ASSUME Inv, NEW c \in Calls, call[c] \in UnpublishPcs,
           NEW pc \in UnpublishPcs, Goto(c, pc),
           UNCHANGED <<disk, device, dir, kube, want>>,
           \/ UNCHANGED mounts
           \/ Mounted(c[1]) /\ mounts' = [mounts EXCEPT ![c[1]] = Front(@)]
    PROVE  Inv'
  <1> DEFINE k == c[1]
  <1>1. call[c] # "idle" /\ pc \in AllPcs
    BY DEF UnpublishPcs, AllPcs
  <1>2. /\ k \in Pods /\ k \notin Nodes /\ k \in Places /\ call[c] = Now(k)
        /\ NodeOf[k] \in Nodes
    BY <1>1, Caller, NodesAreSane DEF Places
  <1>3. ASSUME Mounted(k), mounts' = [mounts EXCEPT ![k] = Front(@)]
        PROVE  \E m \in Seq({"disk", "hollow"}) : mounts' = [mounts EXCEPT ![k] = m]
    <2>1. mounts[k] \in Seq({"disk", "hollow"}) /\ mounts[k] # <<>>
      BY <1>2, <1>3 DEF Inv, Types, Mounted
    <2>2. Front(mounts[k]) \in Seq({"disk", "hollow"})
      BY <2>1 DEF Front
    <2> QED BY <1>3, <2>2
  <1>4. device' \in [Nodes -> {"out", "attached", "scanned", "there"}]
    BY DEF Inv, Types
  <1>5. /\ Types' /\ Elsewhere(k) /\ Now(k)' = pc /\ kube[k] = "uncertain"
    BY <1>1, <1>3, <1>4, CallMoves
  <1>6. SerialAt(k)
    BY <1>2, <1>5 DEF SerialAt, Inv, Serial, PublishPcs, UnpublishPcs
  <1>7. TidyAt(k)
    BY <1>2, <1>5 DEF TidyAt, Mounted, Inv, Tidy, UnpublishPcs
  <1>8. AloneAt(k)
    BY <1>5 DEF AloneAt, UnpublishPcs
  <1> QED BY <1>2, <1>5, <1>6, <1>7, <1>8, LocalInv DEF Local

LEMMA UnpublishInv ==
    ASSUME Inv, NEW c \in Calls, NodeUnpublishVolume(c) PROVE Inv'
  <1> DEFINE k == c[1]
  <1>1. call[c] \in UnpublishPcs /\ call[c] # "idle"
    BY DEF NodeUnpublishVolume, UnpublishLook, UnpublishUmount, UnpublishRemove, UnpublishPcs
  <1>2. /\ k \in Pods /\ k \notin Nodes /\ k \in Places /\ call[c] = Now(k)
        /\ NodeOf[k] \in Nodes /\ "idle" \in AllPcs
    BY <1>1, Caller, NodesAreSane DEF Places, AllPcs
  <1>3. ASSUME Ok(c, "none"), UNCHANGED <<disk, device, mounts, want>>, ~Mounted(k),
               (dir' = dir /\ ~dir[k]) \/ dir' = [dir EXCEPT ![k] = FALSE]
        PROVE  Inv'
    <2>1. kube' = [kube EXCEPT ![k] = "none"]
      BY <1>1, <1>2, <1>3, GotoNow DEF Ok, Inv
    <2>2. device' \in [Nodes -> {"out", "attached", "scanned", "there"}]
      BY <1>3 DEF Inv, Types
    <2>3. /\ Types' /\ Elsewhere(k) /\ Now(k)' = "idle" /\ kube[k] = "uncertain"
      BY <1>1, <1>2, <1>3, <2>1, <2>2, CallMoves DEF Ok
    <2>4. kube'[k] = "none" /\ ~dir'[k]
      BY <1>2, <1>3, <2>1 DEF Inv, Types
    <2>5. SerialAt(k)
      BY <1>2, <2>3, <2>4 DEF SerialAt, PublishPcs
    <2>6. TidyAt(k)
      BY <1>2, <1>3, <2>3, <2>4 DEF TidyAt, Mounted
    <2>7. AloneAt(k)
      BY <1>3, <2>3 DEF AloneAt
    <2> QED BY <1>2, <2>3, <2>5, <2>6, <2>7, LocalInv DEF Local
  <1>4. CASE UnpublishLook(c)
    <2>1. CASE ~dir[k]
      <3>1. ~Mounted(k)
        BY <1>2, <2>1 DEF Inv, Tidy
      <3> QED BY <1>3, <1>4, <2>1, <3>1 DEF UnpublishLook, files
    <2>2. CASE dir[k]
      BY <1>1, <1>4, <2>2, UnpublishGoes DEF UnpublishLook, files, UnpublishPcs
    <2> QED BY <2>1, <2>2
  <1>5. CASE UnpublishUmount(c)
    <2>1. CASE Mounted(k)
      BY <1>1, <1>5, <2>1, UnpublishGoes DEF UnpublishUmount, UnpublishPcs
    <2>2. CASE ~Mounted(k)
      BY <1>1, <1>5, <2>2, FailInv DEF UnpublishUmount
    <2> QED BY <2>1, <2>2
  <1>6. CASE UnpublishRemove(c)
    <2>1. CASE Mounted(k)
      BY <1>1, <1>6, <2>1, FailInv DEF UnpublishRemove
    <2>2. CASE ~Mounted(k)
      BY <1>3, <1>6, <2>2 DEF UnpublishRemove
    <2> QED BY <2>1, <2>2
  <1> QED BY <1>4, <1>5, <1>6 DEF NodeUnpublishVolume

LEMMA UnstageInv ==
    ASSUME Inv, NEW c \in Calls, NodeUnstageVolume(c) PROVE Inv'
  <1> DEFINE k == c[1]
  <1>1. call[c] \in UnstagePcs /\ call[c] # "idle"
    BY DEF NodeUnstageVolume, UnstageLook, UnstageUmount, UnstagePcs
  <1>2. /\ k \in Nodes /\ k \notin Pods /\ k \in Places /\ call[c] = Now(k) /\ c[2] = "now"
        /\ "idle" \in AllPcs /\ "unstageUmount" \in AllPcs /\ kube[k] = "uncertain"
        /\ \A p \in PodsOn(k) : kube[p] = "none" /\ Now(p) = "idle"
    <2>1. k \in Nodes /\ k \notin Pods /\ k \in Places /\ call[c] = Now(k)
      BY <1>1, Caller
    <2>2. c[2] = "now"
      BY <1>1 DEF Inv, Types, Calls
    <2> QED BY <1>1, <2>1, <2>2 DEF Inv, Serial, Places, PodsOn, AllPcs, UnstagePcs
  <1>3. ASSUME Unstaged(c), UNCHANGED <<disk, device, want>>,
               \/ UNCHANGED mounts /\ ~Mounted(k)
               \/ mounts' = [mounts EXCEPT ![k] = <<>>]
        PROVE  Inv'
    <2>1. kube' = [kube EXCEPT ![k] = "none"] /\ Goto(c, "idle")
      BY <1>2, <1>3 DEF Unstaged, Ok
    <2>2. dir' = [dir EXCEPT ![k] = FALSE]
      BY <1>2, <1>3 DEF Unstaged, Inv, Types
    <2>3. /\ Types' /\ Elsewhere(k) /\ Now(k)' = "idle"
      <3>1. device' \in [Nodes -> {"out", "attached", "scanned", "there"}]
        BY <1>3 DEF Inv, Types
      <3>2. <<>> \in Seq({"disk", "hollow"})
        OBVIOUS
      <3>3. \E st \in {"none", "ready"} : kube' = [kube EXCEPT ![k] = st]
        BY <2>1
      <3>4. \E b \in BOOLEAN : dir' = [dir EXCEPT ![k] = b]
        BY <2>2
      <3>5. mounts' = mounts \/ \E m \in Seq({"disk", "hollow"}) : mounts' = [mounts EXCEPT ![k] = m]
        BY <1>3, <3>2
      <3>6. want' = want
        BY <1>3
      <3>7. call[c] # "idle" /\ "idle" \in AllPcs
        BY <1>1, <1>2
      <3>8. Goto(c, "idle")
        BY <2>1
      <3> QED BY <3>1, <3>3, <3>4, <3>5, <3>6, <3>7, <3>8, CallMoves
    <2>4. kube'[k] = "none" /\ mounts'[k] = <<>>
      BY <1>2, <1>3, <2>1 DEF Inv, Types, Mounted
    <2>5. SerialAt(k)
      BY <1>2, <2>3, <2>4 DEF SerialAt, PublishPcs, UnstagePcs
    <2>6. TidyAt(k)
      BY <1>2, <2>3, <2>4 DEF TidyAt, Mounted
    <2>7. AloneAt(k)
      BY <1>3, <2>3 DEF AloneAt
    <2> QED BY <1>2, <2>3, <2>5, <2>6, <2>7, LocalInv DEF Local
  <1>4. CASE UnstageLook(c)
    <2>1. CASE dir[k] /\ Mounted(k)
      <3>1. /\ Types' /\ Elsewhere(k) /\ Now(k)' = "unstageUmount"
        <4>1. device' \in [Nodes -> {"out", "attached", "scanned", "there"}]
          BY <1>4 DEF UnstageLook, Inv, Types
        <4> QED BY <1>1, <1>2, <1>4, <2>1, <4>1, CallMoves DEF UnstageLook
      <3>2. SerialAt(k)
        BY <1>2, <1>4, <2>1, <3>1 DEF SerialAt, UnstageLook, UnstagePcs, PublishPcs, Inv, Serial
      <3>3. TidyAt(k)
        BY <1>2, <1>4, <2>1, <3>1 DEF TidyAt, UnstageLook, Mounted
      <3>4. AloneAt(k)
        BY <1>4, <3>1 DEF AloneAt, UnstageLook
      <3> QED BY <1>2, <3>1, <3>2, <3>3, <3>4, LocalInv DEF Local
    <2>2. CASE ~(dir[k] /\ Mounted(k))
      <3>1. ~Mounted(k)
        BY <1>2, <2>2 DEF Inv, Tidy
      <3> QED BY <1>3, <1>4, <2>2, <3>1 DEF UnstageLook
    <2> QED BY <2>1, <2>2
  <1>5. CASE UnstageUmount(c)
    <2>1. CASE Mounted(k)
      BY <1>3, <1>5, <2>1 DEF UnstageUmount
    <2>2. CASE ~Mounted(k)
      BY <1>1, <1>5, <2>2, FailInv DEF UnstageUmount
    <2> QED BY <2>1, <2>2
  <1> QED BY <1>4, <1>5 DEF NodeUnstageVolume

----------------------------------------------------------------------------
(* Faults and the environment.                                             *)

LEMMA CommandFailsInv ==
    ASSUME Inv, NEW c \in Calls, CommandFails(c) PROVE Inv'
  <1>1. CASE call[c] = "stageMount" /\ Goto(c, "stageProbe") /\ UNCHANGED kube
    BY <1>1, StageGoes DEF CommandFails, files, StagePcs, Inv, Types
  <1>2. CASE call[c] = "stageFormat" /\ Goto(c, "stageMountAgain") /\ UNCHANGED kube
    BY <1>2, StageGoes DEF CommandFails, files, StagePcs, Inv, Types
  <1>3. CASE call[c] # "idle" /\ Fail(c)
    BY <1>3, FailInv DEF CommandFails, files
  <1>4. \/ call[c] = "stageMount" /\ Goto(c, "stageProbe") /\ UNCHANGED kube
        \/ call[c] = "stageFormat" /\ Goto(c, "stageMountAgain") /\ UNCHANGED kube
        \/ call[c] # "idle" /\ Fail(c)
    BY DEF CommandFails
  <1> QED BY <1>1, <1>2, <1>3, <1>4

(* Kubelet begins a call.                                                  *)
LEMMA BeginInv ==
    ASSUME Inv, NEW k \in Places, NEW pc \in AllPcs,
           pc \notin {"idle", "stageFormat", "publishOptions"},
           Begin(k, pc), SerialAt(k)
    PROVE  Inv'
  <1>1. Types'
    <2>1. call' \in [Calls -> AllPcs] /\ \A j \in Places : call'[<<j, "late">>] = "idle"
      BY DEF Begin, Goto, Inv, Types, Calls
    <2>2. kube' \in [Places -> {"none", "uncertain", "ready"}]
      BY DEF Begin, Inv, Types
    <2> QED BY <2>1, <2>2 DEF Begin, files, Inv, Types
  <1>2. Elsewhere(k) /\ Now(k)' = pc
    <2>1. <<k, "now">> \in Calls
      BY DEF Calls
    <2>2. Now(k)' = pc
      BY <2>1 DEF Begin, Goto, Now, Inv, Types
    <2>3. \A j \in Places : j # k => Now(j)' = Now(j)
      BY DEF Begin, Goto, Now, Inv, Types, Calls
    <2>4. \A j \in Places : j # k => kube'[j] = kube[j]
      BY DEF Begin, Inv, Types
    <2> QED BY <2>2, <2>3, <2>4 DEF Elsewhere, Begin, files
  <1>3. kube'[k] = "uncertain"
    BY DEF Begin, Inv, Types
  <1>4. TidyAt(k)
    BY <1>2, <1>3 DEF TidyAt, Begin, files, Mounted, Inv, Tidy
  <1>5. AloneAt(k)
    BY <1>2 DEF AloneAt, Begin
  <1> QED BY <1>1, <1>2, <1>4, <1>5, LocalInv DEF Local

LEMMA KubeletInv ==
    ASSUME Inv, Kubelet PROVE Inv'
  <1>1. ASSUME NEW k \in Places, NEW pc, Begin(k, pc)
        PROVE  Now(k)' = pc /\ kube'[k] = "uncertain" /\ device' = device
    <2>1. <<k, "now">> \in Calls
      BY DEF Calls
    <2> QED BY <1>1, <2>1 DEF Begin, Goto, Now, Inv, Types
  <1>2. \A n \in Nodes : n \in Places /\ n \notin Pods /\ On(n) = n
    BY NodesAreSane DEF Places, On
  <1>3. \A p \in Pods : /\ p \in Places /\ p \notin Nodes /\ On(p) = NodeOf[p]
                        /\ NodeOf[p] \in Nodes
    BY NodesAreSane DEF Places, On
  <1>4. ASSUME NEW n \in Nodes, KubeStages(n) PROVE Inv'
    <2>1. Now(n)' = "stageRescan" /\ kube'[n] = "uncertain" /\ device' = device
      BY <1>1, <1>2, <1>4 DEF KubeStages
    <2>2. \A p \in PodsOn(n) : kube[p] # "ready" /\ Now(p) \notin PublishPcs
      BY <1>4 DEF KubeStages, Inv, Serial, PodsOn
    <2>3. SerialAt(n)
      BY <1>2, <1>4, <2>1, <2>2 DEF SerialAt, KubeStages, StagePcs, UnstagePcs
    <2> QED BY <1>2, <1>4, <2>3, BeginInv DEF KubeStages, AllPcs, StagePcs
  <1>5. ASSUME NEW n \in Nodes, KubeUnstages(n) PROVE Inv'
    <2>1. Now(n)' = "unstageLook" /\ kube'[n] = "uncertain" /\ device' = device
      BY <1>1, <1>2, <1>5 DEF KubeUnstages
    <2>2. \A p \in PodsOn(n) : kube[p] = "none" /\ Now(p) = "idle"
      BY <1>3, <1>5 DEF KubeUnstages, AllQuiet, Quiet, Now, PodsOn
    <2>3. kube[n] # "none" /\ device[n] # "out"
      BY <1>5 DEF KubeUnstages, Inv, Serial
    <2>4. SerialAt(n)
      BY <1>2, <2>1, <2>2, <2>3 DEF SerialAt, UnstagePcs, PublishPcs
    <2> QED BY <1>2, <1>5, <2>4, BeginInv DEF KubeUnstages, AllPcs, UnstagePcs
  <1>6. ASSUME NEW p \in Pods, KubePublishes(p) PROVE Inv'
    <2>1. Now(p)' = "publishTarget" /\ kube'[p] = "uncertain" /\ device' = device
      BY <1>1, <1>3, <1>6 DEF KubePublishes
    <2>2. kube[NodeOf[p]] = "ready" /\ Now(NodeOf[p]) \notin UnstagePcs
      BY <1>3, <1>6 DEF KubePublishes, Inv, Serial, Places, UnstagePcs
    <2>3. SerialAt(p)
      BY <1>3, <2>1, <2>2 DEF SerialAt, PublishPcs
    <2> QED BY <1>3, <1>6, <2>3, BeginInv DEF KubePublishes, AllPcs, PublishPcs
  <1>7. ASSUME NEW p \in Pods, KubeUnpublishes(p) PROVE Inv'
    <2>1. Now(p)' = "unpublishLook" /\ kube'[p] = "uncertain" /\ device' = device
      BY <1>1, <1>3, <1>7 DEF KubeUnpublishes
    <2>2. kube[NodeOf[p]] # "none" /\ Now(NodeOf[p]) \notin UnstagePcs
      BY <1>3, <1>7 DEF KubeUnpublishes, Inv, Serial
    <2>3. SerialAt(p)
      BY <1>3, <2>1, <2>2 DEF SerialAt, PublishPcs, UnpublishPcs
    <2> QED BY <1>3, <1>7, <2>3, BeginInv DEF KubeUnpublishes, AllPcs, UnpublishPcs
  <1> QED BY <1>4, <1>5, <1>6, <1>7 DEF Kubelet

(* Pods and the attacher leave the calls and the mounts alone.             *)
LEMMA OutsideInv ==
    ASSUME Inv, UNCHANGED <<dir, mounts, call, kube>>,
           \/ \E p \in Pods : PodStarts(p) \/ PodEnds(p) \/ PodWrites(p)
           \/ \E n \in Nodes : Attach(n) \/ DeviceAppears(n) \/ Detach(n)
    PROVE  Inv'
  <1>1. Types'
    BY DEF PodStarts, PodEnds, PodWrites, Attach, DeviceAppears, Detach, Inv, Types
  <1>2. Serial'
    <2>1. \A n \in Nodes : device[n] # "out" /\ kube[n] # "none" => device'[n] # "out"
      BY DEF PodStarts, PodEnds, PodWrites, Attach, DeviceAppears, Detach, Inv, Types
    <2> QED BY <2>1 DEF Inv, Serial, Now
  <1>3. Tidy'
    BY DEF Inv, Tidy, Mounted, Now
  <1>4. Alone'
    <2>1. ASSUME NEW p \in Pods, PodStarts(p) \/ PodEnds(p) PROVE Alone'
      BY <2>1 DEF PodStarts, PodEnds, Inv, Alone, Now
    <2>2. ASSUME NEW p \in Pods, PodWrites(p) PROVE Alone'
      <3>1. /\ NodeOf[p] \in Nodes /\ NodeOf[p] \in Places
            /\ kube[NodeOf[p]] = "ready" /\ device[NodeOf[p]] # "out"
            /\ Now(NodeOf[p]) = "idle"
        BY <2>2, NodesAreSane DEF PodWrites, Inv, Serial, Places
      <3>2. \A n \in Nodes : Now(n) = "stageFormat" => device[n] # "out"
        BY DEF Inv, Serial, Places
      <3>3. ~Shared => \A n \in Nodes : Now(n) # "stageFormat"
        BY <3>1, <3>2 DEF Inv, Alone
      <3> QED BY <2>2, <3>3 DEF PodWrites, Inv, Alone, Now
    <2>3. ASSUME NEW n \in Nodes, Attach(n) PROVE Alone'
      BY <2>3 DEF Attach, Inv, Types, Alone, Now
    <2>4. ASSUME NEW n \in Nodes, DeviceAppears(n) \/ Detach(n) PROVE Alone'
      BY <2>4 DEF DeviceAppears, Detach, Inv, Types, Alone, Now
    <2> QED BY <2>1, <2>2, <2>3, <2>4
  <1> QED BY <1>1, <1>2, <1>3, <1>4 DEF Inv

LEMMA EndCalls ==
    ASSUME Inv, NEW n \in Nodes, EndCallsOn(n)
    PROVE  /\ call' \in [Calls -> AllPcs]
           /\ \A k \in Places : call'[<<k, "late">>] = "idle"
           /\ \A k \in Places : Now(k)' = IF On(k) = n THEN "idle" ELSE Now(k)
  BY DEF EndCallsOn, Inv, Types, Now, Calls, AllPcs

LEMMA RestartInv ==
    ASSUME Inv, NEW n \in Nodes, Restart(n) PROVE Inv'
  <1>1. /\ call' \in [Calls -> AllPcs]
        /\ \A k \in Places : call'[<<k, "late">>] = "idle"
        /\ \A k \in Places : Now(k)' \in {"idle", Now(k)}
    BY EndCalls DEF Restart
  <1>2. Types'
    BY <1>1 DEF Restart, files, Inv, Types
  <1>3. Serial'
    BY <1>1, NodesAreSane
    DEF Restart, files, Inv, Serial, Places, PublishPcs, UnstagePcs
  <1>4. Tidy'
    BY <1>1 DEF Restart, files, Inv, Tidy, Mounted, Places
  <1>5. Alone'
    BY <1>1 DEF Restart, files, Inv, Alone, Places
  <1> QED BY <1>2, <1>3, <1>4, <1>5 DEF Inv

LEMMA RebootInv ==
    ASSUME Inv, NEW n \in Nodes, Reboot(n) PROVE Inv'
  <1>1. /\ call' \in [Calls -> AllPcs]
        /\ \A k \in Places : call'[<<k, "late">>] = "idle"
        /\ \A k \in Places : Now(k)' = IF On(k) = n THEN "idle" ELSE Now(k)
    BY EndCalls DEF Reboot
  <1>2. /\ \A m \in Nodes : m \in Places /\ On(m) = m
        /\ \A p \in Pods : /\ p \in Places /\ NodeOf[p] \in Nodes /\ NodeOf[p] \in Places
                          /\ On(p) = NodeOf[p] /\ On(NodeOf[p]) = NodeOf[p]
    BY NodesAreSane DEF Places, On
  <1>3. \A k \in Places :
           /\ kube'[k] = IF On(k) = n /\ kube[k] = "ready" THEN "uncertain" ELSE kube[k]
           /\ mounts'[k] = IF On(k) = n THEN <<>> ELSE mounts[k]
    BY DEF Reboot
  <1>4. \A m \in Nodes : device'[m] = "out" <=> device[m] = "out"
    BY DEF Reboot, Inv, Types
  <1>5. Types'
    <2>1. device' \in [Nodes -> {"out", "attached", "scanned", "there"}]
      BY DEF Reboot, Inv, Types
    <2>2. mounts' \in [Places -> Seq({"disk", "hollow"})]
      BY DEF Reboot, Inv, Types
    <2>3. kube' \in [Places -> {"none", "uncertain", "ready"}]
      BY DEF Reboot, Inv, Types
    <2> QED BY <1>1, <2>1, <2>2, <2>3 DEF Reboot, Inv, Types
  <1>6. Serial'
    <2> USE <1>1, <1>2, <1>3, <1>4 DEF Inv, Serial
    <2>1. \A m \in Nodes : Now(m)' \in {"idle"} \union StagePcs \union UnstagePcs
      OBVIOUS
    <2>2. \A p \in Pods : Now(p)' \in {"idle"} \union PublishPcs \union UnpublishPcs
      OBVIOUS
    <2>3. \A k \in Places : Now(k)' # "idle" => kube'[k] = "uncertain"
      OBVIOUS
    <2>4. \A p \in Pods : kube'[p] = "ready" \/ Now(p)' \in PublishPcs => kube'[NodeOf[p]] = "ready"
      BY DEF PublishPcs
    <2>5. \A p \in Pods : kube'[p] # "none" => kube'[NodeOf[p]] # "none"
      OBVIOUS
    <2>6. \A p \in Pods : Now(NodeOf[p])' \in UnstagePcs => kube'[p] = "none"
      BY DEF UnstagePcs
    <2>7. \A m \in Nodes : kube'[m] # "none" => device'[m] # "out"
      OBVIOUS
    <2> QED BY <2>1, <2>2, <2>3, <2>4, <2>5, <2>6, <2>7
  <1>7. Tidy'
    <2>1. UNCHANGED dir
      BY DEF Reboot
    <2> QED BY <1>1, <1>2, <1>3, <2>1 DEF Inv, Tidy, Mounted
  <1>8. Alone'
    <2>1. UNCHANGED disk
      BY DEF Reboot
    <2> QED BY <1>1, <1>2, <1>4, <2>1 DEF Inv, Alone
  <1> QED BY <1>5, <1>6, <1>7, <1>8 DEF Inv

(* Faults are counted, and never less than before.                         *)
LEMMA CountsFault ==
    ASSUME faults \in [NodeFaults -> Nat], NEW f, Fault(f)
    PROVE  /\ faults' \in [NodeFaults -> Nat]
           /\ faults'[f] # 0
           /\ faults["timeout"] # 0 => faults'["timeout"] # 0
  <1>1. f \in NodeFaults
    BY NodesAreSane DEF Fault
  <1>2. faults' = [faults EXCEPT ![f] = faults[f] + 1] /\ faults[f] \in Nat
    BY <1>1 DEF Fault
  <1>3. "timeout" \in NodeFaults
    BY DEF NodeFaults
  <1> QED BY <1>1, <1>2, <1>3

LEMMA StepInv ==
    ASSUME faults \in [NodeFaults -> Nat], Inv, [Next]_vars
    PROVE  faults' \in [NodeFaults -> Nat] /\ (Patient' => Inv')
  <1>1. ASSUME NEW c \in Calls, Step(c) PROVE Inv' /\ UNCHANGED faults
    <2>1. Inv'
      BY <1>1, StageInv, PublishInv, UnpublishInv, UnstageInv DEF Step
    <2>2. UNCHANGED faults
      BY <1>1
      DEF Step, NodeStageVolume, StageRescan, StageFind, StageLook, StageMount, StageProbe,
          StageFormat, StageMountAgain, NodePublishVolume, PublishTarget, PublishBind,
          PublishOptions, NodeUnpublishVolume, UnpublishLook, UnpublishUmount,
          UnpublishRemove, NodeUnstageVolume, UnstageLook, UnstageUmount
    <2> QED BY <2>1, <2>2
  <1>2. ASSUME NEW f, Fault(f) PROVE faults' \in [NodeFaults -> Nat]
    BY <1>2, CountsFault
  <1>3. ASSUME NEW c \in Calls, CommandFails(c) PROVE Inv' /\ faults' \in [NodeFaults -> Nat]
    BY <1>2, <1>3, CommandFailsInv DEF CommandFails
  <1>4. ASSUME NEW n \in Nodes, Restart(n) \/ Reboot(n)
        PROVE  Inv' /\ faults' \in [NodeFaults -> Nat]
    BY <1>2, <1>4, RestartInv, RebootInv DEF Restart, Reboot
  <1>5. ASSUME NEW k \in Places, Timeout(k)
        PROVE  ~Patient' /\ faults' \in [NodeFaults -> Nat]
    BY <1>5, CountsFault DEF Timeout, Patient
  <1>6. ASSUME NEW p \in Pods, PodStarts(p) \/ PodEnds(p) \/ PodWrites(p)
        PROVE  Inv' /\ UNCHANGED faults
    BY <1>6, OutsideInv DEF PodStarts, PodEnds, PodWrites, files
  <1>7. ASSUME NEW n \in Nodes, Attach(n) \/ DeviceAppears(n) \/ Detach(n)
        PROVE  Inv' /\ UNCHANGED faults
    BY <1>7, OutsideInv DEF Attach, DeviceAppears, Detach, files
  <1>8. CASE Kubelet
    BY <1>8, KubeletInv
    DEF Kubelet, KubeStages, KubeUnstages, KubePublishes, KubeUnpublishes, Begin
  <1>9. CASE UNCHANGED vars
    BY <1>9 DEF vars, files, Inv, Types, Serial, Tidy, Alone, Now, Mounted
  <1> QED BY <1>1, <1>3, <1>4, <1>5, <1>6, <1>7, <1>8, <1>9 DEF Next

(* Only faults are counted.                                                *)
LEMMA FaultOrNone == [Next]_vars => (\E f : Fault(f)) \/ UNCHANGED faults
  BY DEF Next, Step, NodeStageVolume, StageRescan, StageFind, StageLook, StageMount,
           StageProbe, StageFormat, StageMountAgain, NodePublishVolume, PublishTarget,
           PublishBind, PublishOptions, NodeUnpublishVolume, UnpublishLook, UnpublishUmount,
           UnpublishRemove, NodeUnstageVolume, UnstageLook, UnstageUmount, CommandFails,
           Restart, Reboot, Timeout, PodStarts, PodEnds, PodWrites, Attach, DeviceAppears,
           Detach, Kubelet, KubeStages, KubeUnstages, KubePublishes, KubeUnpublishes, Begin,
           vars

(* Calls that were given up stay so.                                       *)
LEMMA StaysImpatient ==
    ASSUME faults \in [NodeFaults -> Nat], ~Patient, [Next]_vars
    PROVE  faults' \in [NodeFaults -> Nat] /\ ~Patient'
  <1>1. ASSUME NEW f, Fault(f) PROVE faults' \in [NodeFaults -> Nat] /\ ~Patient'
    BY <1>1, CountsFault DEF Patient
  <1>2. (\E f : Fault(f)) \/ UNCHANGED faults
    BY FaultOrNone
  <1> QED BY <1>1, <1>2 DEF Patient

LEMMA Invariance == Spec => []UntilTimeout
  <1>1. Init => UntilTimeout
    BY InitInv DEF UntilTimeout, Init
  <1>2. UntilTimeout /\ [Next]_vars => UntilTimeout'
    BY StepInv, StaysImpatient DEF UntilTimeout
  <1> QED BY <1>1, <1>2, PTL DEF Spec

----------------------------------------------------------------------------

(* A pod that was told its volume is published sees the disk, and not the  *)
(* directory of the node under a missing mount (node.go:437-446).          *)
THEOREM PublishedIsTheDisk == Spec => []PodsSeeTheDisk
  <1>1. UntilTimeout => PodsSeeTheDisk
    BY DEF UntilTimeout, Inv, Tidy, PodsSeeTheDisk
  <1> QED BY <1>1, Invariance, PTL

(* An acknowledged NodeUnpublishVolume has left no mount and no target     *)
(* behind, however often it was cut short (node.go:513-523).               *)
THEOREM UnpublishLeavesNothing == Spec => []UnpublishedIsClean
  <1>1. UntilTimeout => UnpublishedIsClean
    BY DEF UntilTimeout, Inv, Tidy, UnpublishedIsClean, Places
  <1> QED BY <1>1, Invariance, PTL

(* A disk leaves a node only when it is mounted nowhere on it: an          *)
(* acknowledged NodeUnstageVolume has unmounted it (node.go:283-319).      *)
THEOREM DetachIsSafe == Spec => []DetachedIsUnmounted
  <1>1. UntilTimeout => DetachedIsUnmounted
    <2> SUFFICES ASSUME Inv, NEW n \in Nodes, device[n] = "out", NEW k \in Places, On(k) = n
                 PROVE  mounts[k] = <<>>
      BY DEF UntilTimeout, DetachedIsUnmounted, DiskMountedOn
    <2>1. kube[k] = "none"
      BY NodesAreSane DEF Inv, Serial, On, Places
    <2> QED BY <2>1 DEF Inv, Tidy, Mounted
  <1> QED BY <1>1, Invariance, PTL

(* Staging never formats a disk that holds data, unless the disk is shared *)
(* (node.go:229).                                                          *)
THEOREM FormatKeepsData == ASSUME ~Shared PROVE Spec => DataIsKept
  <1>1. UntilTimeout /\ [Next]_vars => [Patient /\ disk = "written" => disk' = "written"]_disk
    <2> SUFFICES ASSUME Inv, [Next]_vars, disk = "written", disk' # disk PROVE disk' = "written"
      BY DEF UntilTimeout
    <2>1. ASSUME NEW c \in Calls, Step(c) PROVE FALSE
      <3>1. StageFormat(c)
        BY <2>1
        DEF Step, NodeStageVolume, StageRescan, StageFind, StageLook, StageMount, StageProbe,
            StageMountAgain, NodePublishVolume, PublishTarget, PublishBind, PublishOptions,
            NodeUnpublishVolume, UnpublishLook, UnpublishUmount, UnpublishRemove,
            NodeUnstageVolume, UnstageLook, UnstageUmount
      <3>2. c[1] \in Nodes /\ Now(c[1]) = "stageFormat"
        BY <3>1, Caller DEF StageFormat, StagePcs
      <3> QED BY <3>2 DEF Inv, Alone
    <2>2. \A p \in Pods : PodWrites(p) => disk' = "written"
      BY DEF PodWrites
    <2> QED
      BY <2>1, <2>2
      DEF Next, CommandFails, Restart, Reboot, Timeout, PodStarts, PodEnds, Attach,
          DeviceAppears, Detach, Kubelet, KubeStages, KubeUnstages, KubePublishes,
          KubeUnpublishes, Begin, vars
  <1> QED BY <1>1, Invariance, PTL DEF Spec, DataIsKept

----------------------------------------------------------------------------
(* The types, whether or not kubelet waits: a call that was given up goes  *)
(* on beside the one that repeats it, and either moves only at its place.  *)

PcsAt(k) == {"idle"} \union (IF k \in Nodes THEN StagePcs \union UnstagePcs
                                             ELSE PublishPcs \union UnpublishPcs)

CallsFit == call \in [Calls -> AllPcs] /\ \A c \in Calls : call[c] \in PcsAt(c[1])

StagedFits == \A n \in Nodes : mounts[n] \in Seq({"disk"})

FilesFit ==
    /\ disk \in {"raw", "empty", "written"}
    /\ device \in [Nodes -> {"out", "attached", "scanned", "there"}]
    /\ dir \in [Places -> BOOLEAN]
    /\ mounts \in [Places -> Seq({"disk", "hollow"})]
    /\ kube \in [Places -> {"none", "uncertain", "ready"}]
    /\ want \subseteq Pods

FaultsFit == faults \in [NodeFaults -> 0..MaxFaults]

LEMMA TypeParts == TypeOK <=> CallsFit /\ StagedFits /\ FilesFit /\ FaultsFit
  <1>1. \A c : PcsAt(c[1]) = {"idle"} \union (IF c[1] \in Nodes
                                             THEN StagePcs \union UnstagePcs
                                             ELSE PublishPcs \union UnpublishPcs)
    BY DEF PcsAt
  <1> QED
    BY <1>1 DEF TypeOK, CallsFit, StagedFits, FilesFit, FaultsFit, AllPcs

(* A call that is not idle is at its place, which tells what it is doing.  *)
LEMMA CallAt ==
    ASSUME CallsFit, NEW c \in Calls
    PROVE  /\ c[1] \in Places /\ c = <<c[1], c[2]>> /\ c[2] \in {"now", "late"}
           /\ call[c] \in StagePcs \union UnstagePcs => c[1] \in Nodes
           /\ call[c] \in PublishPcs \union UnpublishPcs => c[1] \in Pods /\ c[1] \notin Nodes
  <1>1. c[1] \in Places /\ c = <<c[1], c[2]>> /\ c[2] \in {"now", "late"}
    BY DEF Calls
  <1>2. call[c] \in PcsAt(c[1])
    BY DEF CallsFit
  <1>3. c[1] \in Nodes \/ c[1] \in Pods
    BY <1>1 DEF Places
  <1> QED
    BY <1>1, <1>2, <1>3 DEF PcsAt, StagePcs, UnstagePcs, PublishPcs, UnpublishPcs

LEMMA GotoFits ==
    ASSUME CallsFit, NEW c \in Calls, NEW pc \in PcsAt(c[1]), Goto(c, pc)
    PROVE  CallsFit'
  <1>1. PcsAt(c[1]) \subseteq AllPcs
    BY DEF PcsAt, AllPcs
  <1> QED
    BY <1>1 DEF CallsFit, Goto, PcsAt

(* What a step of a call may change, and what it must leave of the types.  *)
LEMMA CallTypes ==
    ASSUME CallsFit, StagedFits, FilesFit, NEW c \in Calls, call[c] # "idle",
           NEW pc \in PcsAt(c[1]), Goto(c, pc),
           kube' = kube \/ \E st \in {"none", "ready"} : kube' = [kube EXCEPT ![c[1]] = st],
           dir' = dir \/ \E b \in BOOLEAN : dir' = [dir EXCEPT ![c[1]] = b],
           \/ mounts' = mounts
           \/ \E m \in Seq({"disk", "hollow"}) :
                 /\ mounts' = [mounts EXCEPT ![c[1]] = m]
                 /\ c[1] \in Nodes => m \in Seq({"disk"}),
           device' \in [Nodes -> {"out", "attached", "scanned", "there"}],
           disk' \in {"raw", "empty", "written"}, want' = want
    PROVE  CallsFit' /\ StagedFits' /\ FilesFit'
  <1>1. CallsFit'
    BY GotoFits
  <1>2. c[1] \in Places
    BY CallAt
  <1>3. kube' \in [Places -> {"none", "uncertain", "ready"}]
    BY <1>2 DEF FilesFit
  <1>4. dir' \in [Places -> BOOLEAN]
    BY <1>2 DEF FilesFit
  <1>5. mounts' \in [Places -> Seq({"disk", "hollow"})]
    BY <1>2 DEF FilesFit
  <1>6. StagedFits'
    BY <1>2 DEF FilesFit, StagedFits, Places
  <1> QED
    BY <1>1, <1>3, <1>4, <1>5, <1>6 DEF FilesFit

LEMMA StepTypes ==
    ASSUME CallsFit, StagedFits, FilesFit, NEW c \in Calls, Step(c)
    PROVE  CallsFit' /\ StagedFits' /\ FilesFit'
  <1> DEFINE k == c[1]
  <1>1. /\ k \in Places /\ dir[k] \in BOOLEAN
        /\ mounts[k] \in Seq({"disk", "hollow"})
        /\ call[c] \in StagePcs \union UnstagePcs => PcsAt(k) = {"idle"} \union StagePcs \union UnstagePcs
        /\ call[c] \in PublishPcs \union UnpublishPcs
              => k \notin Nodes /\ PcsAt(k) = {"idle"} \union PublishPcs \union UnpublishPcs
    BY CallAt DEF FilesFit, PcsAt
  <1>2. /\ device \in [Nodes -> {"out", "attached", "scanned", "there"}]
        /\ disk \in {"raw", "empty", "written"}
    BY DEF FilesFit
  <1>3. "idle" \in PcsAt(k)
    BY DEF PcsAt
  <1>4. CASE NodeStageVolume(c)
    <2>1. call[c] \in StagePcs /\ call[c] # "idle"
      BY <1>4 DEF NodeStageVolume, StageRescan, StageFind, StageLook, StageMount, StageProbe,
                  StageFormat, StageMountAgain, StagePcs
    <2>2. PcsAt(k) = {"idle"} \union StagePcs \union UnstagePcs
      BY <1>1, <2>1
    <2>3. /\ kube' = kube \/ kube' = [kube EXCEPT ![k] = "ready"]
          /\ \E pc \in PcsAt(k) : Goto(c, pc)
          /\ want' = want
          /\ dir' = dir \/ dir' = [dir EXCEPT ![k] = TRUE]
          /\ disk' \in {"raw", "empty", "written"}
          /\ device' \in [Nodes -> {"out", "attached", "scanned", "there"}]
          /\ \/ mounts' = mounts
             \/ mounts' = [mounts EXCEPT ![k] = Append(@, "disk")]
      <3> USE <1>2, <1>3, <2>2 DEF files, StagePcs, Ok, Fail
      <3>1. CASE StageRescan(c)
        BY <3>1 DEF StageRescan
      <3>2. CASE StageFind(c)
        BY <3>2 DEF StageFind
      <3>3. CASE StageLook(c)
        BY <3>3 DEF StageLook
      <3>4. CASE StageMount(c)
        BY <3>4 DEF StageMount, CanMount
      <3>5. CASE StageProbe(c)
        BY <3>5 DEF StageProbe
      <3>6. CASE StageFormat(c)
        BY <3>6 DEF StageFormat
      <3>7. CASE StageMountAgain(c)
        BY <3>7 DEF StageMountAgain, CanMount
      <3> QED
        BY <1>4, <3>1, <3>2, <3>3, <3>4, <3>5, <3>6, <3>7 DEF NodeStageVolume
    <2>4. k \in Nodes /\ mounts[k] \in Seq({"disk"})
      BY <2>1, CallAt DEF StagedFits
    <2>5. /\ Append(mounts[k], "disk") \in Seq({"disk"})
          /\ Append(mounts[k], "disk") \in Seq({"disk", "hollow"})
      BY <1>1, <2>4
    <2> QED
      BY <2>1, <2>3, <2>4, <2>5, CallTypes
  <1>5. CASE NodePublishVolume(c)
    <2>1. call[c] \in PublishPcs /\ call[c] # "idle"
      BY <1>5 DEF NodePublishVolume, PublishTarget, PublishBind, PublishOptions, PublishPcs
    <2>2. /\ k \notin Nodes
          /\ PcsAt(k) = {"idle"} \union PublishPcs \union UnpublishPcs
      BY <1>1, <2>1
    <2>3. /\ kube' = kube \/ kube' = [kube EXCEPT ![k] = "ready"]
          /\ \E pc \in PcsAt(k) : Goto(c, pc)
          /\ want' = want /\ disk' = disk /\ device' = device
          /\ dir' = dir \/ dir' = [dir EXCEPT ![k] = TRUE]
          /\ \/ mounts' = mounts
             \/ \E m \in {"disk", "hollow"} : mounts' = [mounts EXCEPT ![k] = Append(@, m)]
      <3> USE <1>3, <2>2 DEF files, PublishPcs, Ok, Fail
      <3>1. CASE PublishTarget(c)
        BY <3>1 DEF PublishTarget
      <3>2. CASE PublishBind(c)
        BY <3>2 DEF PublishBind, Visible
      <3>3. CASE PublishOptions(c)
        BY <3>3 DEF PublishOptions
      <3> QED
        BY <1>5, <3>1, <3>2, <3>3 DEF NodePublishVolume
    <2>4. \A m \in {"disk", "hollow"} : Append(mounts[k], m) \in Seq({"disk", "hollow"})
      BY <1>1
    <2> QED
      BY <1>2, <2>1, <2>2, <2>3, <2>4, CallTypes
  <1>6. CASE NodeUnpublishVolume(c)
    <2>1. call[c] \in UnpublishPcs /\ call[c] # "idle"
      BY <1>6 DEF NodeUnpublishVolume, UnpublishLook, UnpublishUmount, UnpublishRemove, UnpublishPcs
    <2>2. /\ k \notin Nodes
          /\ PcsAt(k) = {"idle"} \union PublishPcs \union UnpublishPcs
      BY <1>1, <2>1
    <2>3. /\ kube' = kube \/ kube' = [kube EXCEPT ![k] = "none"]
          /\ \E pc \in PcsAt(k) : Goto(c, pc)
          /\ want' = want /\ disk' = disk /\ device' = device
          /\ dir' = dir \/ dir' = [dir EXCEPT ![k] = FALSE]
          /\ \/ mounts' = mounts
             \/ Mounted(k) /\ mounts' = [mounts EXCEPT ![k] = Front(@)]
      <3> USE <1>3, <2>2 DEF files, UnpublishPcs, Ok, Fail
      <3>1. CASE UnpublishLook(c)
        BY <3>1 DEF UnpublishLook
      <3>2. CASE UnpublishUmount(c)
        BY <3>2 DEF UnpublishUmount
      <3>3. CASE UnpublishRemove(c)
        BY <3>3 DEF UnpublishRemove
      <3> QED
        BY <1>6, <3>1, <3>2, <3>3 DEF NodeUnpublishVolume
    <2>4. Mounted(k) => Front(mounts[k]) \in Seq({"disk", "hollow"})
      BY <1>1 DEF Front, Mounted
    <2> QED
      BY <1>2, <2>1, <2>2, <2>3, <2>4, CallTypes
  <1>7. CASE NodeUnstageVolume(c)
    <2>1. call[c] \in UnstagePcs /\ call[c] # "idle"
      BY <1>7 DEF NodeUnstageVolume, UnstageLook, UnstageUmount, UnstagePcs
    <2>2. PcsAt(k) = {"idle"} \union StagePcs \union UnstagePcs
      BY <1>1, <2>1
    <2>3. /\ kube' = kube \/ kube' = [kube EXCEPT ![k] = "none"]
          /\ \E pc \in PcsAt(k) : Goto(c, pc)
          /\ want' = want /\ disk' = disk /\ device' = device
          /\ dir' = dir \/ \E b \in BOOLEAN : dir' = [dir EXCEPT ![k] = b]
          /\ mounts' = mounts \/ mounts' = [mounts EXCEPT ![k] = <<>>]
      <3> USE <1>1, <1>3, <2>2 DEF files, UnstagePcs, Unstaged, Ok, Fail
      <3>1. CASE UnstageLook(c)
        BY <3>1 DEF UnstageLook
      <3>2. CASE UnstageUmount(c)
        BY <3>2 DEF UnstageUmount
      <3> QED
        BY <1>7, <3>1, <3>2 DEF NodeUnstageVolume
    <2>4. <<>> \in Seq({"disk", "hollow"}) /\ <<>> \in Seq({"disk"})
      OBVIOUS
    <2> QED
      BY <1>2, <2>1, <2>3, <2>4, CallTypes
  <1> QED
    BY <1>4, <1>5, <1>6, <1>7 DEF Step

(* Calls end, or are given up.                                             *)
LEMMA FaultTypes ==
    ASSUME CallsFit, StagedFits, FilesFit,
           \/ \E c \in Calls : CommandFails(c)
           \/ \E n \in Nodes : Restart(n) \/ Reboot(n)
           \/ \E k \in Places : Timeout(k)
    PROVE  CallsFit' /\ StagedFits' /\ FilesFit'
  <1>1. ASSUME NEW c \in Calls, CommandFails(c)
        PROVE  CallsFit' /\ StagedFits' /\ FilesFit'
    <2>1. /\ \E pc \in {"idle", "stageProbe", "stageMountAgain"} :
                Goto(c, pc) /\ (pc # "idle" => call[c] \in StagePcs)
          /\ UNCHANGED <<disk, device, dir, mounts, want, kube>> /\ call[c] # "idle"
      BY <1>1 DEF CommandFails, Fail, files, StagePcs
    <2>2. call[c] \in StagePcs => c[1] \in Nodes
      BY CallAt
    <2>3. \E pc \in PcsAt(c[1]) : Goto(c, pc)
      BY <2>1, <2>2 DEF PcsAt, StagePcs
    <2> QED
      BY <2>1, <2>3, CallTypes DEF FilesFit
  <1>2. ASSUME NEW n \in Nodes, EndCallsOn(n) PROVE CallsFit'
    BY <1>2 DEF EndCallsOn, CallsFit, PcsAt, AllPcs
  <1>3. ASSUME NEW n \in Nodes, Restart(n)
        PROVE  CallsFit' /\ StagedFits' /\ FilesFit'
    BY <1>2, <1>3 DEF Restart, files, StagedFits, FilesFit
  <1>4. ASSUME NEW n \in Nodes, Reboot(n)
        PROVE  CallsFit' /\ StagedFits' /\ FilesFit'
    <2>1. device' \in [Nodes -> {"out", "attached", "scanned", "there"}]
      BY <1>4 DEF Reboot, FilesFit
    <2>2. mounts' \in [Places -> Seq({"disk", "hollow"})]
      BY <1>4 DEF Reboot, FilesFit
    <2>3. kube' \in [Places -> {"none", "uncertain", "ready"}]
      BY <1>4 DEF Reboot, FilesFit
    <2>4. StagedFits'
      BY <1>4 DEF Reboot, StagedFits, Places
    <2> QED
      BY <1>2, <1>4, <2>1, <2>2, <2>3, <2>4 DEF Reboot, FilesFit
  <1>5. ASSUME NEW k \in Places, Timeout(k)
        PROVE  CallsFit' /\ StagedFits' /\ FilesFit'
    <2> DEFINE now == <<k, "now">>
               late == <<k, "late">>
    <2>1. now \in Calls /\ late \in Calls /\ now[1] = k /\ late[1] = k /\ now # late
      BY DEF Calls
    <2>2. call' = [call EXCEPT ![late] = call[now], ![now] = "idle"]
      BY <1>5 DEF Timeout
    <2>3. call[now] \in PcsAt(k) /\ call[now] \in AllPcs /\ "idle" \in AllPcs /\ "idle" \in PcsAt(k)
      BY <2>1 DEF CallsFit, AllPcs, PcsAt
    <2> HIDE DEF now, late
    <2>4. CallsFit'
      <3>1. call' \in [Calls -> AllPcs]
        BY <2>1, <2>2, <2>3 DEF CallsFit
      <3>2. \A c \in Calls : call'[c] \in PcsAt(c[1])
        BY <2>1, <2>2, <2>3 DEF CallsFit
      <3> QED
        BY <3>1, <3>2 DEF CallsFit, PcsAt
    <2> QED
      BY <1>5, <2>4 DEF Timeout, files, StagedFits, FilesFit
  <1> QED
    BY <1>1, <1>3, <1>4, <1>5

LEMMA BeginTypes ==
    ASSUME CallsFit, StagedFits, FilesFit, NEW k \in Places, NEW pc \in PcsAt(k), Begin(k, pc)
    PROVE  CallsFit' /\ StagedFits' /\ FilesFit'
  <1>1. <<k, "now">> \in Calls
    BY DEF Calls
  <1>2. CallsFit'
    BY <1>1, GotoFits DEF Begin
  <1> QED
    BY <1>2 DEF Begin, files, StagedFits, FilesFit

LEMMA EnvironmentTypes ==
    ASSUME CallsFit, StagedFits, FilesFit,
           \/ \E p \in Pods : PodStarts(p) \/ PodEnds(p) \/ PodWrites(p)
           \/ \E n \in Nodes : Attach(n) \/ DeviceAppears(n) \/ Detach(n)
           \/ Kubelet
    PROVE  CallsFit' /\ StagedFits' /\ FilesFit'
  <1>1. ASSUME NEW p \in Pods, PodStarts(p) \/ PodEnds(p) \/ PodWrites(p)
        PROVE  CallsFit' /\ StagedFits' /\ FilesFit'
    BY <1>1 DEF PodStarts, PodEnds, PodWrites, files, CallsFit, PcsAt, StagedFits, FilesFit
  <1>2. ASSUME NEW n \in Nodes, Attach(n) \/ DeviceAppears(n) \/ Detach(n)
        PROVE  CallsFit' /\ StagedFits' /\ FilesFit'
    BY <1>2 DEF Attach, DeviceAppears, Detach, files, CallsFit, PcsAt, StagedFits, FilesFit
  <1>3. ASSUME NEW n \in Nodes, KubeStages(n) \/ KubeUnstages(n)
        PROVE  CallsFit' /\ StagedFits' /\ FilesFit'
    <2>1. n \in Places /\ "stageRescan" \in PcsAt(n) /\ "unstageLook" \in PcsAt(n)
      BY DEF Places, PcsAt, StagePcs, UnstagePcs
    <2> QED
      BY <1>3, <2>1, BeginTypes DEF KubeStages, KubeUnstages
  <1>4. ASSUME NEW p \in Pods, KubePublishes(p) \/ KubeUnpublishes(p)
        PROVE  CallsFit' /\ StagedFits' /\ FilesFit'
    <2>1. p \in Places /\ "publishTarget" \in PcsAt(p) /\ "unpublishLook" \in PcsAt(p)
      BY NodesAreSane DEF Places, PcsAt, PublishPcs, UnpublishPcs
    <2> QED
      BY <1>4, <2>1, BeginTypes DEF KubePublishes, KubeUnpublishes
  <1> QED
    BY <1>1, <1>2, <1>3, <1>4 DEF Kubelet

LEMMA NextTypes == TypeOK /\ [Next]_vars => TypeOK'
  <1> SUFFICES ASSUME CallsFit, StagedFits, FilesFit, FaultsFit, [Next]_vars
               PROVE  CallsFit' /\ StagedFits' /\ FilesFit' /\ FaultsFit'
    <2>1. (TypeOK <=> CallsFit /\ StagedFits /\ FilesFit /\ FaultsFit)'
      BY TypeParts, PTL
    <2> QED
      BY <2>1, TypeParts
  <1>1. FaultsFit'
    <2>1. ASSUME NEW f, Fault(f) PROVE FaultsFit'
      <3>1. f \in NodeFaults /\ MaxFaults \in Nat
        BY <2>1, NodesAreSane DEF Fault
      <3>2. faults[f] \in 0..MaxFaults /\ faults[f] < MaxFaults
        BY <2>1, <3>1 DEF Fault, FaultsFit
      <3>3. faults[f] + 1 \in 0..MaxFaults
        BY <3>1, <3>2
      <3> QED
        BY <2>1, <3>1, <3>3 DEF Fault, FaultsFit
    <2> QED
      BY <2>1, FaultOrNone DEF FaultsFit
  <1>2. CASE UNCHANGED vars
    BY <1>1, <1>2 DEF vars, files, CallsFit, PcsAt, StagedFits, FilesFit
  <1>3. CASE Next
    BY <1>1, <1>3, StepTypes, FaultTypes, EnvironmentTypes DEF Next
  <1> QED
    BY <1>2, <1>3

(* Every variable keeps its type, though calls that timed out go on beside *)
(* those that repeat them.  What is mounted on a staging directory is the  *)
(* disk: publishing binds from it and never on it (node.go:466).           *)
THEOREM MountTypes == Spec => []TypeOK
  <1>1. Init => TypeOK
    <2> SUFFICES ASSUME Init PROVE CallsFit /\ StagedFits /\ FilesFit /\ FaultsFit
      BY TypeParts
    <2>1. CallsFit
      BY DEF Init, CallsFit, PcsAt, AllPcs
    <2>2. StagedFits
      BY DEF Init, StagedFits, Places
    <2>3. FilesFit
      BY DEF Init, FilesFit
    <2>4. FaultsFit
      BY NodesAreSane DEF Init, FaultsFit
    <2> QED
      BY <2>1, <2>2, <2>3, <2>4
  <1> QED
    BY <1>1, NextTypes, PTL DEF Spec

----------------------------------------------------------------------------
(* The volume of a pod, whether or not kubelet waits.  A call that         *)
(* unpublishes may still go on when it was given up, so that a target is   *)
(* unmounted by calls kubelet knows nothing of.  But such a call began     *)
(* when the pod was not to run, and the pod is not started again before    *)
(* the call has ended: none of the calls beside it publishes with success. *)

Late(p) == call[<<p, "late">>]

PublishedInv ==
    /\ \A p \in Pods : Now(p) # "idle" => kube[p] = "uncertain"
    /\ \A p \in Pods : Now(p) \in UnpublishPcs \/ Late(p) \in UnpublishPcs
                          => p \notin want /\ kube[p] # "ready"
    /\ \A p \in Pods : Late(p) \in UnpublishPcs => Now(p) \in {"idle"} \union UnpublishPcs
    /\ \A p \in Pods : Mounted(p) => dir[p]
    /\ PublishedStaysMounted

(* The same for one pod.                                                   *)
PublishedAt(p) ==
    /\ Now(p) # "idle" => kube[p] = "uncertain"
    /\ Now(p) \in UnpublishPcs \/ Late(p) \in UnpublishPcs => p \notin want /\ kube[p] # "ready"
    /\ Late(p) \in UnpublishPcs => Now(p) \in {"idle"} \union UnpublishPcs
    /\ Mounted(p) => dir[p]
    /\ kube[p] = "ready" => dir[p] /\ Mounted(p)

LEMMA PublishedParts == PublishedInv <=> \A p \in Pods : PublishedAt(p)
  BY DEF PublishedInv, PublishedAt, PublishedStaysMounted

(* A step that leaves a pod alone.                                         *)
LEMMA LeavesAlone ==
    ASSUME NEW p \in Pods, PublishedAt(p),
           Now(p)' = Now(p), Late(p)' = Late(p), kube'[p] = kube[p],
           dir'[p] = dir[p], mounts'[p] = mounts[p], p \in want' => p \in want
    PROVE  PublishedAt(p)'
  BY DEF PublishedAt, Mounted

(* A call of another place moves, or one of this pod.                      *)
LEMMA MovesAt ==
    ASSUME CallsFit, NEW c \in Calls, NEW pc, Goto(c, pc), NEW p \in Pods
    PROVE  /\ c[1] # p => Now(p)' = Now(p) /\ Late(p)' = Late(p)
           /\ c[1] = p /\ c[2] = "now" => call[c] = Now(p) /\ Now(p)' = pc /\ Late(p)' = Late(p)
           /\ c[1] = p /\ c[2] = "late" => call[c] = Late(p) /\ Late(p)' = pc /\ Now(p)' = Now(p)
           /\ c[2] \in {"now", "late"}
  <1>1. PICK k \in Places, age \in {"now", "late"} : c = <<k, age>>
    BY DEF Calls
  <1>2. <<p, "now">> \in Calls /\ <<p, "late">> \in Calls /\ <<p, "now">> # <<p, "late">>
    BY DEF Calls, Places
  <1>3. \A d \in Calls : call'[d] = IF d = c THEN pc ELSE call[d]
    BY DEF CallsFit, Goto
  <1> QED
    BY <1>1, <1>2, <1>3 DEF Now, Late

LEMMA StepPublished ==
    ASSUME CallsFit, FilesFit, PublishedInv, NEW c \in Calls, Step(c)
    PROVE  PublishedInv'
  <1> SUFFICES ASSUME NEW p \in Pods PROVE PublishedAt(p)'
    BY DEF PublishedInv, PublishedAt, PublishedStaysMounted
  <1>1. PublishedAt(p)
    BY PublishedParts
  <1>2. p \in Places /\ p \notin Nodes
    BY NodesAreSane DEF Places
  <1>3. CASE NodeStageVolume(c) \/ NodeUnstageVolume(c)
    <2>1. call[c] \in StagePcs \union UnstagePcs
      BY <1>3 DEF NodeStageVolume, StageRescan, StageFind, StageLook, StageMount, StageProbe,
                  StageFormat, StageMountAgain, NodeUnstageVolume, UnstageLook, UnstageUmount,
                  StagePcs, UnstagePcs
    <2>2. c[1] \in Nodes /\ c[1] # p
      BY <1>2, <2>1, CallAt
    <2>3. /\ \E pc : Goto(c, pc)
          /\ kube' = kube \/ \E st : kube' = [kube EXCEPT ![c[1]] = st]
          /\ dir' = dir \/ \E b : dir' = [dir EXCEPT ![c[1]] = b]
          /\ mounts' = mounts \/ \E m : mounts' = [mounts EXCEPT ![c[1]] = m]
          /\ want' = want
      <3> USE DEF files, Unstaged, Ok, Fail
      <3>1. CASE StageRescan(c)
        BY <3>1 DEF StageRescan
      <3>2. CASE StageFind(c)
        BY <3>2 DEF StageFind
      <3>3. CASE StageLook(c)
        BY <3>3 DEF StageLook
      <3>4. CASE StageMount(c)
        BY <3>4 DEF StageMount
      <3>5. CASE StageProbe(c)
        BY <3>5 DEF StageProbe
      <3>6. CASE StageFormat(c)
        BY <3>6 DEF StageFormat
      <3>7. CASE StageMountAgain(c)
        BY <3>7 DEF StageMountAgain
      <3>8. CASE UnstageLook(c)
        BY <3>8 DEF UnstageLook
      <3>9. CASE UnstageUmount(c)
        BY <3>9 DEF UnstageUmount
      <3> QED
        BY <1>3, <3>1, <3>2, <3>3, <3>4, <3>5, <3>6, <3>7, <3>8, <3>9
        DEF NodeStageVolume, NodeUnstageVolume
    <2>4. Now(p)' = Now(p) /\ Late(p)' = Late(p)
      BY <2>2, <2>3, MovesAt
    <2>5. kube'[p] = kube[p] /\ dir'[p] = dir[p] /\ mounts'[p] = mounts[p]
      BY <1>2, <2>2, <2>3 DEF FilesFit
    <2> QED
      BY <1>1, <2>3, <2>4, <2>5, LeavesAlone
  <1>4. CASE NodePublishVolume(c)
    <2>1. call[c] \in PublishPcs
      BY <1>4 DEF NodePublishVolume, PublishTarget, PublishBind, PublishOptions, PublishPcs
    <2>2. PICK pc \in {"idle"} \union PublishPcs :
             /\ Goto(c, pc) /\ want' = want
             /\ \/ kube' = kube
                \/ c[2] = "now" /\ pc = "idle" /\ kube' = [kube EXCEPT ![c[1]] = "ready"]
                   /\ Mounted(c[1]) /\ mounts' = mounts
             /\ dir' = dir \/ dir' = [dir EXCEPT ![c[1]] = TRUE]
             /\ \/ mounts' = mounts
                \/ dir[c[1]] /\ \E m : mounts' = [mounts EXCEPT ![c[1]] = Append(@, m)]
      <3> USE DEF files, PublishPcs, Ok, Fail
      <3>1. CASE PublishTarget(c)
        BY <3>1 DEF PublishTarget
      <3>2. CASE PublishBind(c)
        BY <3>2 DEF PublishBind
      <3>3. CASE PublishOptions(c)
        BY <3>3 DEF PublishOptions
      <3> QED
        BY <1>4, <3>1, <3>2, <3>3 DEF NodePublishVolume
    <2>3. /\ c[1] # p => Now(p)' = Now(p) /\ Late(p)' = Late(p)
          /\ c[1] = p /\ c[2] = "now" => call[c] = Now(p) /\ Now(p)' = pc /\ Late(p)' = Late(p)
          /\ c[1] = p /\ c[2] = "late" => call[c] = Late(p) /\ Late(p)' = pc /\ Now(p)' = Now(p)
          /\ c[2] \in {"now", "late"}
      BY <2>2, MovesAt
    <2>4. CASE c[1] # p
      <3>1. kube'[p] = kube[p] /\ dir'[p] = dir[p] /\ mounts'[p] = mounts[p]
        BY <1>2, <2>2, <2>4 DEF FilesFit
      <3> QED
        BY <1>1, <2>2, <2>3, <2>4, <3>1, LeavesAlone
    <2>5. CASE c[1] = p
      <3>1. mounts[p] \in Seq({"disk", "hollow"}) /\ dir[p] \in BOOLEAN
        BY <1>2 DEF FilesFit
      <3>2. \/ mounts'[p] = mounts[p]
            \/ dir[p] /\ \E m : mounts'[p] = Append(mounts[p], m)
        <4>1. ASSUME NEW m, mounts' = [mounts EXCEPT ![c[1]] = Append(@, m)]
              PROVE  mounts'[p] = Append(mounts[p], m)
          BY <1>2, <2>5, <4>1 DEF FilesFit
        <4> QED
          BY <2>2, <2>5, <4>1
      <3>3. \A m : Append(mounts[p], m) # <<>>
        BY <3>1
      <3>4. /\ Mounted(p) => Mounted(p)'
            /\ Mounted(p)' => Mounted(p) \/ dir[p]
            /\ dir[p] => dir'[p]
        BY <1>2, <2>2, <2>5, <3>2, <3>3 DEF Mounted, FilesFit
      <3>5. CASE kube' = kube
        BY <1>1, <2>1, <2>2, <2>3, <2>5, <3>4, <3>5 DEF PublishedAt, PublishPcs, UnpublishPcs
      <3>6. CASE /\ c[2] = "now" /\ pc = "idle" /\ kube' = [kube EXCEPT ![c[1]] = "ready"]
                 /\ Mounted(c[1])
        <4>1. kube'[p] = "ready" /\ Now(p) \in PublishPcs /\ Now(p)' = "idle" /\ Late(p)' = Late(p)
          BY <1>2, <2>1, <2>3, <2>5, <3>6 DEF FilesFit
        <4>2. Late(p) \notin UnpublishPcs
          BY <1>1, <4>1 DEF PublishedAt, PublishPcs, UnpublishPcs
        <4> QED
          BY <1>1, <2>5, <3>4, <3>6, <4>1, <4>2 DEF PublishedAt, UnpublishPcs
      <3> QED
        BY <2>2, <3>5, <3>6
    <2> QED
      BY <2>4, <2>5
  <1>5. CASE NodeUnpublishVolume(c)
    <2>1. call[c] \in UnpublishPcs
      BY <1>5 DEF NodeUnpublishVolume, UnpublishLook, UnpublishUmount, UnpublishRemove, UnpublishPcs
    <2>2. PICK pc \in {"idle"} \union UnpublishPcs :
             /\ Goto(c, pc) /\ want' = want
             /\ \/ kube' = kube
                \/ c[2] = "now" /\ pc = "idle" /\ kube' = [kube EXCEPT ![c[1]] = "none"]
             /\ \/ dir' = dir
                \/ ~Mounted(c[1]) /\ mounts' = mounts /\ dir' = [dir EXCEPT ![c[1]] = FALSE]
             /\ \/ mounts' = mounts
                \/ Mounted(c[1]) /\ \E m : mounts' = [mounts EXCEPT ![c[1]] = m]
      <3> USE DEF files, UnpublishPcs, Ok, Fail
      <3>1. CASE UnpublishLook(c)
        BY <3>1 DEF UnpublishLook
      <3>2. CASE UnpublishUmount(c)
        BY <3>2 DEF UnpublishUmount
      <3>3. CASE UnpublishRemove(c)
        BY <3>3 DEF UnpublishRemove
      <3> QED
        BY <1>5, <3>1, <3>2, <3>3 DEF NodeUnpublishVolume
    <2>3. /\ c[1] # p => Now(p)' = Now(p) /\ Late(p)' = Late(p)
          /\ c[1] = p /\ c[2] = "now" => call[c] = Now(p) /\ Now(p)' = pc /\ Late(p)' = Late(p)
          /\ c[1] = p /\ c[2] = "late" => call[c] = Late(p) /\ Late(p)' = pc /\ Now(p)' = Now(p)
          /\ c[2] \in {"now", "late"}
      BY <2>2, MovesAt
    <2>4. CASE c[1] # p
      <3>1. kube'[p] = kube[p] /\ dir'[p] = dir[p] /\ mounts'[p] = mounts[p]
        BY <1>2, <2>2, <2>4 DEF FilesFit
      <3> QED
        BY <1>1, <2>2, <2>3, <2>4, <3>1, LeavesAlone
    <2>5. CASE c[1] = p
      <3>1. p \notin want /\ kube[p] # "ready"
        BY <1>1, <2>1, <2>3, <2>5 DEF PublishedAt
      <3>2. Mounted(p)' => dir'[p]
        BY <1>1, <1>2, <2>2, <2>5 DEF PublishedAt, Mounted, FilesFit
      <3>3. /\ kube'[p] # "ready"
            /\ Now(p)' # "idle" => kube'[p] = "uncertain"
        <4>1. CASE kube' = kube
          BY <1>1, <2>1, <2>2, <2>3, <2>5, <3>1, <4>1 DEF PublishedAt, UnpublishPcs
        <4>2. CASE c[2] = "now" /\ pc = "idle" /\ kube' = [kube EXCEPT ![c[1]] = "none"]
          BY <1>2, <2>3, <2>5, <4>2 DEF FilesFit
        <4> QED
          BY <2>2, <4>1, <4>2
      <3>4. Late(p)' \in UnpublishPcs => Now(p)' \in {"idle"} \union UnpublishPcs
        BY <1>1, <2>1, <2>2, <2>3, <2>5 DEF PublishedAt
      <3> QED
        BY <2>2, <3>1, <3>2, <3>3, <3>4 DEF PublishedAt
    <2> QED
      BY <2>4, <2>5
  <1> QED
    BY <1>3, <1>4, <1>5 DEF Step

LEMMA FaultPublished ==
    ASSUME CallsFit, FilesFit, PublishedInv,
           \/ \E c \in Calls : CommandFails(c)
           \/ \E n \in Nodes : Restart(n) \/ Reboot(n)
           \/ \E k \in Places : Timeout(k)
    PROVE  PublishedInv'
  <1> SUFFICES ASSUME NEW p \in Pods PROVE PublishedAt(p)'
    BY DEF PublishedInv, PublishedAt, PublishedStaysMounted
  <1>1. PublishedAt(p)
    BY PublishedParts
  <1>2. /\ p \in Places /\ p \notin Nodes
        /\ <<p, "now">> \in Calls /\ <<p, "late">> \in Calls /\ <<p, "now">> # <<p, "late">>
    BY NodesAreSane DEF Places, Calls
  <1>3. ASSUME NEW c \in Calls, CommandFails(c) PROVE PublishedAt(p)'
    <2>1. PICK pc \in {"idle", "stageProbe", "stageMountAgain"} :
             Goto(c, pc) /\ (pc # "idle" => call[c] \in StagePcs)
      BY <1>3 DEF CommandFails, Fail, StagePcs
    <2>2. UNCHANGED <<dir, mounts, kube, want>>
      BY <1>3 DEF CommandFails, Fail, files
    <2>3. call[c] \in StagePcs => c[1] # p
      BY <1>2, CallAt
    <2>4. /\ c[1] # p => Now(p)' = Now(p) /\ Late(p)' = Late(p)
          /\ c[1] = p /\ c[2] = "now" => Now(p)' = pc /\ Late(p)' = Late(p)
          /\ c[1] = p /\ c[2] = "late" => Late(p)' = pc /\ Now(p)' = Now(p)
          /\ c[2] \in {"now", "late"}
      BY <2>1, MovesAt
    <2>5. CASE c[1] # p
      BY <1>1, <2>2, <2>4, <2>5, LeavesAlone
    <2>6. CASE c[1] = p
      BY <1>1, <2>1, <2>2, <2>3, <2>4, <2>6 DEF PublishedAt, Mounted, UnpublishPcs
    <2> QED
      BY <2>5, <2>6
  <1>4. ASSUME NEW n \in Nodes, EndCallsOn(n)
        PROVE  \/ Now(p)' = Now(p) /\ Late(p)' = Late(p)
               \/ Now(p)' = "idle" /\ Late(p)' = "idle"
    <2>1. \A c \in Calls : call'[c] = IF On(c[1]) = n THEN "idle" ELSE call[c]
      BY <1>4 DEF EndCallsOn
    <2> QED
      BY <1>2, <2>1 DEF Now, Late
  <1>5. ASSUME NEW n \in Nodes, Restart(n) PROVE PublishedAt(p)'
    <2>1. UNCHANGED <<dir, mounts, kube, want>> /\ EndCallsOn(n)
      BY <1>5 DEF Restart, files
    <2> QED
      BY <1>1, <1>4, <2>1 DEF PublishedAt, Mounted, UnpublishPcs
  <1>6. ASSUME NEW n \in Nodes, Reboot(n) PROVE PublishedAt(p)'
    <2>1. EndCallsOn(n) /\ dir' = dir /\ want' = want
      BY <1>6 DEF Reboot
    <2>2. mounts'[p] = IF On(p) = n THEN <<>> ELSE mounts[p]
      BY <1>2, <1>6 DEF Reboot
    <2>3. kube'[p] = IF On(p) = n /\ kube[p] = "ready" THEN "uncertain" ELSE kube[p]
      BY <1>2, <1>6 DEF Reboot
    <2> QED
      BY <1>1, <1>4, <2>1, <2>2, <2>3 DEF PublishedAt, Mounted, UnpublishPcs
  <1>7. ASSUME NEW k \in Places, Timeout(k) PROVE PublishedAt(p)'
    <2>1. UNCHANGED <<dir, mounts, kube, want>>
      BY <1>7 DEF Timeout, files
    <2>2. CASE k = p
      <3>1. Late(p) = "idle" /\ Late(p)' = Now(p) /\ Now(p)' = "idle"
        BY <1>2, <1>7, <2>2 DEF Timeout, CallsFit, Now, Late
      <3> QED
        BY <1>1, <2>1, <3>1 DEF PublishedAt, Mounted, UnpublishPcs
    <2>3. CASE k # p
      <3>1. Late(p)' = Late(p) /\ Now(p)' = Now(p)
        <4>1. <<k, "now">> # <<p, "now">> /\ <<k, "late">> # <<p, "now">>
              /\ <<k, "now">> # <<p, "late">> /\ <<k, "late">> # <<p, "late">>
          BY <2>3
        <4> QED
          BY <1>2, <1>7, <4>1 DEF Timeout, CallsFit, Now, Late
      <3> QED
        BY <1>1, <2>1, <3>1, LeavesAlone
    <2> QED
      BY <2>2, <2>3
  <1> QED
    BY <1>3, <1>5, <1>6, <1>7

(* Pods, the attacher and kubelet's calls.                                 *)
LEMMA EnvironmentPublished ==
    ASSUME CallsFit, FilesFit, PublishedInv,
           \/ \E p \in Pods : PodStarts(p) \/ PodEnds(p) \/ PodWrites(p)
           \/ \E n \in Nodes : Attach(n) \/ DeviceAppears(n) \/ Detach(n)
           \/ Kubelet
    PROVE  PublishedInv'
  <1> SUFFICES ASSUME NEW p \in Pods PROVE PublishedAt(p)'
    BY DEF PublishedInv, PublishedAt, PublishedStaysMounted
  <1>1. PublishedAt(p)
    BY PublishedParts
  <1>2. p \in Places /\ p \notin Nodes /\ <<p, "now">> \in Calls
    BY NodesAreSane DEF Places, Calls
  <1>3. ASSUME UNCHANGED <<dir, mounts, call, kube>>, p \in want' => p \in want
        PROVE  PublishedAt(p)'
    BY <1>1, <1>3, LeavesAlone DEF Now, Late
  <1>4. ASSUME NEW q \in Pods, PodStarts(q) PROVE PublishedAt(p)'
    <2>1. CASE q = p
      <3>1. /\ kube[p] = "none" /\ Late(p) = "idle" /\ ~dir[p]
            /\ UNCHANGED <<dir, mounts, call, kube>>
        BY <1>4, <2>1 DEF PodStarts, files, Late
      <3>2. Now(p) = "idle"
        BY <1>1, <3>1 DEF PublishedAt
      <3> QED
        BY <1>1, <3>1, <3>2 DEF PublishedAt, Mounted, Now, Late, UnpublishPcs
    <2>2. CASE q # p
      BY <1>3, <1>4, <2>2 DEF PodStarts, files
    <2> QED
      BY <2>1, <2>2
  <1>5. ASSUME NEW q \in Pods, PodEnds(q) \/ PodWrites(q) PROVE PublishedAt(p)'
    BY <1>3, <1>5 DEF PodEnds, PodWrites, files
  <1>6. ASSUME NEW n \in Nodes, Attach(n) \/ DeviceAppears(n) \/ Detach(n)
        PROVE  PublishedAt(p)'
    BY <1>3, <1>6 DEF Attach, DeviceAppears, Detach, files
  <1>7. ASSUME NEW k \in Places, NEW pc, Begin(k, pc), k # p PROVE PublishedAt(p)'
    <2>1. <<k, "now">> \in Calls /\ <<k, "now">>[1] = k /\ Goto(<<k, "now">>, pc)
      BY <1>7 DEF Calls, Begin
    <2>2. Now(p)' = Now(p) /\ Late(p)' = Late(p)
      BY <1>7, <2>1, MovesAt
    <2>3. kube'[p] = kube[p] /\ UNCHANGED <<dir, mounts, want>>
      BY <1>2, <1>7 DEF Begin, FilesFit, files
    <2> QED
      BY <1>1, <2>2, <2>3, LeavesAlone
  <1>8. ASSUME NEW pc, Begin(p, pc)
        PROVE  /\ Now(p)' = pc /\ Late(p)' = Late(p) /\ kube'[p] = "uncertain"
               /\ UNCHANGED <<dir, mounts, want>>
    <2>1. <<p, "now">>[1] = p /\ <<p, "now">>[2] = "now" /\ Goto(<<p, "now">>, pc)
      BY <1>8 DEF Begin
    <2>2. Now(p)' = pc /\ Late(p)' = Late(p)
      BY <1>2, <2>1, MovesAt
    <2> QED
      BY <1>2, <1>8, <2>2 DEF Begin, FilesFit, files
  <1>9. ASSUME NEW n \in Nodes, KubeStages(n) \/ KubeUnstages(n) PROVE PublishedAt(p)'
    BY <1>2, <1>7, <1>9 DEF KubeStages, KubeUnstages, Places
  <1>10. ASSUME NEW q \in Pods, KubePublishes(q) PROVE PublishedAt(p)'
    <2>1. CASE q = p
      <3>1. p \in want /\ Begin(p, "publishTarget")
        BY <1>10, <2>1 DEF KubePublishes
      <3>2. Late(p) \notin UnpublishPcs
        BY <1>1, <3>1 DEF PublishedAt
      <3> QED
        BY <1>1, <1>8, <3>1, <3>2 DEF PublishedAt, Mounted, UnpublishPcs
    <2>2. CASE q # p
      BY <1>7, <1>10, <2>2 DEF KubePublishes, Places
    <2> QED
      BY <2>1, <2>2
  <1>11. ASSUME NEW q \in Pods, KubeUnpublishes(q) PROVE PublishedAt(p)'
    <2>1. CASE q = p
      <3>1. p \notin want /\ Begin(p, "unpublishLook")
        BY <1>11, <2>1 DEF KubeUnpublishes
      <3> QED
        BY <1>1, <1>8, <3>1 DEF PublishedAt, Mounted, UnpublishPcs
    <2>2. CASE q # p
      BY <1>7, <1>11, <2>2 DEF KubeUnpublishes, Places
    <2> QED
      BY <2>1, <2>2
  <1> QED
    BY <1>4, <1>5, <1>6, <1>9, <1>10, <1>11 DEF Kubelet

(* A volume that was published stays mounted on the pod's target, though   *)
(* calls that were given up mount and unmount beside those that repeat     *)
(* them, commands fail and the driver restarts (node.go:466, 513-521).     *)
THEOREM PublishedIsMounted == Spec => []PublishedStaysMounted
  <1>1. Init => PublishedInv
    BY NodesAreSane
    DEF Init, PublishedInv, PublishedStaysMounted, Now, Late, Mounted, Places, Calls, UnpublishPcs
  <1>2. TypeOK /\ PublishedInv /\ [Next]_vars => PublishedInv'
    <2> SUFFICES ASSUME CallsFit, FilesFit, PublishedInv, [Next]_vars PROVE PublishedInv'
      BY TypeParts
    <2>1. CASE UNCHANGED vars
      BY <2>1 DEF vars, files, PublishedInv, PublishedStaysMounted, Now, Late, Mounted
    <2>2. CASE Next
      BY <2>2, StepPublished, FaultPublished, EnvironmentPublished DEF Next
    <2> QED
      BY <2>1, <2>2
  <1>3. PublishedInv => PublishedStaysMounted
    BY DEF PublishedInv
  <1> QED
    BY <1>1, <1>2, <1>3, MountTypes, PTL DEF Spec

=============================================================================
