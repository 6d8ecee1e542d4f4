----------------------------- MODULE RdeUpdate -----------------------------
(***************************************************************************)
(* The updates of the cluster's RDE: AddToVCDResourceSet,                  *)
(* RemoveFromVCDResourceSet, AddToErrorSet, AddToEventSet and              *)
(* RemoveErrorByNameOrIdFromErrorSet (vcdsdk/defined_entity.go) and, for   *)
(* native clusters, addPvToRDE and removePvFromRDE (disks.go).             *)
(*                                                                         *)
(* Handlers report errors and clear them outside the DiskManager's lock,   *)
(* list volumes and add events under it, and other programs update the     *)
(* same document.  Every update is rounds of a read, a change of the copy  *)
(* and a write that VCD accepts only with the current etag.                *)
(***************************************************************************)
EXTENDS RdeDocument

CONSTANTS
    Writers,             \* handlers that may be updating the RDE
    MaxRDEUpdateRetries, \* 10 in the source
    Faults,              \* out of UpdateFaults
    MaxWrites            \* bound: writes that are accepted

UpdateFaults == { "get",    \* the read fails
                  "put",    \* VCD refuses the write for another reason
                  "lost" }  \* the connection fails before or after the write

ASSUME UpdatesAreSane ==
    /\ MaxRDEUpdateRetries \in Nat \ {0, 1}
    /\ Faults \subseteq UpdateFaults
    /\ MaxWrites \in Nat

VARIABLES
    doc,  \* VCD: the document
    log,  \* VCD: the writes it accepted; their number stands for the etag
    u     \* every writer: where its update is

vars == <<doc, log, u>>

Idle == [pc |-> "idle"]
ByOthers == [kind |-> "others"]

May(fault) == fault \in Faults

Updating == {w \in Writers : u[w].pc \in {"get", "put"}}

\* The bound of the model: as many writes as can still be accepted.
WithinBound == Len(log) + Cardinality(Updating) < MaxWrites

Init == /\ doc \in EmptyDocuments
        /\ log = <<>>
        /\ u = [w \in Writers |-> Idle]

\* Mutant of Rounds: a conflict is not repeated.
OneRound == 1

(* The loops of defined_entity.go run from MaxRDEUpdateRetries down to 2,  *)
(* those of disks.go from 0 to MaxRDEUpdateRetries - 1.                    *)
Rounds == IF doc.kind = "native" THEN MaxRDEUpdateRetries
                                ELSE MaxRDEUpdateRetries - 1

(* The call returns.                                                       *)
Return(w, result) == u' = [u EXCEPT ![w] = [pc |-> "done", result |-> result]]

(* The next round.                                                         *)
Again(w) == [pc |-> "get", op |-> u[w].op, since |-> u[w].since, round |-> u[w].round + 1]

(* VCD takes the document a writer sends and gives it a new etag.          *)
Accept(op, d) == doc' = d /\ log' = Append(log, op)

(* For the properties alone a call notes how many writes there were.       *)
Call(w, op) ==
    /\ w \notin Updating
    /\ WithinBound
    /\ u' = [u EXCEPT ![w] = [pc |-> "get", op |-> op, since |-> Len(log), round |-> 1]]
    /\ UNCHANGED <<doc, log>>

(* A round begins with a read; an update that is not required, or that     *)
(* this kind of entity has no place for, ends with it.                     *)
Get(w) ==
    /\ u[w].pc = "get"
    /\ UNCHANGED <<doc, log>>
    /\ \/ May("get") /\ Return(w, "error")
       \/ ~Supported(u[w].op, doc) /\ Return(w, "error")
       \/ /\ Supported(u[w].op, doc) /\ NotRequired(u[w].op, doc)
          /\ Return(w, "nil")
       \/ /\ Supported(u[w].op, doc) /\ ~NotRequired(u[w].op, doc)
          /\ u' = [u EXCEPT ![w] = [pc |-> "put", op |-> u[w].op, since |-> u[w].since,
                                    round |-> u[w].round, seen |-> doc, etag |-> Len(log)]]

\* Mutant of Put: the etag is not sent with the document.
PutWithoutEtag(w) ==
    /\ u[w].pc = "put"
    /\ Accept(u[w].op, Changed(u[w].op, u[w].seen))
    /\ Return(w, "nil")

(* The write of the changed copy, accepted with the etag that was read.    *)
Put(w) ==
    /\ u[w].pc = "put"
    /\ u[w].etag = Len(log)
    /\ Accept(u[w].op, Changed(u[w].op, u[w].seen))
    /\ Return(w, "nil")

\* Mutant of Conflict: the copy in memory is kept and only the etag renewed.
ConflictRenewsEtag(w) ==
    /\ u[w].pc = "put"
    /\ u[w].etag # Len(log)
    /\ u' = [u EXCEPT ![w].etag = Len(log)]
    /\ UNCHANGED <<doc, log>>

\* Mutant of Conflict: one round too many.
ConflictOnceMore(w) ==
    /\ u[w].pc = "put"
    /\ u[w].etag # Len(log)
    /\ UNCHANGED <<doc, log>>
    /\ IF u[w].round <= Rounds
       THEN u' = [u EXCEPT ![w] = Again(w)]
       ELSE Return(w, IF doc.kind = "native" THEN "error" ELSE "nil")

(* Status 412: the next round reads again.  After the last one the updates *)
(* of defined_entity.go return nil, those of disks.go an error.            *)
Conflict(w) ==
    /\ u[w].pc = "put"
    /\ u[w].etag # Len(log)
    /\ UNCHANGED <<doc, log>>
    /\ IF u[w].round < Rounds
       THEN u' = [u EXCEPT ![w] = Again(w)]
       ELSE Return(w, IF doc.kind = "native" THEN "error" ELSE "nil")

PutFails(w) ==
    /\ u[w].pc = "put" /\ May("put")
    /\ Return(w, "error")
    /\ UNCHANGED <<doc, log>>

(* The connection fails, perhaps after VCD accepted the write.             *)
(* defined_entity.go returns the error; disks.go looks into the missing    *)
(* response, and the panic ends the process with all its calls.            *)
PutLost(w) ==
    /\ u[w].pc = "put" /\ May("lost")
    /\ IF doc.kind = "native" THEN u' = [x \in Writers |-> Idle]
                             ELSE Return(w, "error")
    /\ \/ UNCHANGED <<doc, log>>
       \/ u[w].etag = Len(log) /\ Accept(u[w].op, Changed(u[w].op, u[w].seen))

(* Another program, CAPVCD or the cloud provider, updates its own part.    *)
OthersWrite ==
    /\ WithinBound
    /\ Accept(ByOthers, [doc EXCEPT !.others = @ + 1])
    /\ UNCHANGED u

Step(w) == Get(w) \/ Put(w) \/ Conflict(w) \/ PutFails(w) \/ PutLost(w)

Next == \/ \E w \in Writers : (\E op \in Updates : Call(w, op)) \/ Step(w)
        \/ OthersWrite

Spec == Init /\ [][Next]_vars

----------------------------------------------------------------------------

Documents == [kind : RdeKinds, pvs : [Pvs -> Nat], errors : Seq(Topics), events : Seq(Topics), others : Nat]

(* Every variable has its type.                                            *)
TypeOK ==
    /\ doc \in Documents
    /\ log \in Seq(Updates \union {ByOthers})
    /\ u \in [Writers ->
          {Idle}
          \union [pc : {"get"}, op : Updates, since : Nat, round : 1..Rounds]
          \union [pc : {"put"}, op : Updates, since : Nat, round : 1..Rounds,
                  seen : Documents, etag : Nat]
          \union [pc : {"done"}, result : {"nil", "error"}]]

(* The errors the accepted writes should have left: a report stays until   *)
(* Window later reports have come or its topic is cleared.  A report that  *)
(* was answered with nil and is recent and not cleared is in the document, *)
(* whoever else wrote in between (vcdsdk/defined_entity.go:199-201).       *)
RecentReportsAreListed ==
    \A i \in DOMAIN log : \A t \in Topics :
        LET Later(k) == {j \in DOMAIN log : j > i /\ log[j].kind = k}
        IN /\ /\ log[i] = [kind |-> "addError", about |-> t]
              /\ Cardinality(Later("addError")) < Window
              /\ \A j \in Later("removeError") : log[j].about # t
              => Has(doc.errors, t)
           /\ /\ log[i] = [kind |-> "removeError", about |-> t]
              /\ \A j \in Later("addError") : log[j].about # t
              => ~Has(doc.errors, t)

(* The volume list follows the accepted updates of each volume.  In a      *)
(* CAPVCD entity the last of them decides; a native one lists a volume     *)
(* once for every time it was added and not removed, so that an update     *)
(* made on a stale copy would show in the count (disks.go:841-850,         *)
(* 892-902).  The part of other programs follows theirs.                   *)
ListFollowsUpdates ==
    /\ \A p \in Pvs :
          LET of(kind) == {i \in DOMAIN log : log[i].kind = kind /\ log[i].about = p}
          IN IF doc.kind = "native"
             THEN doc.pvs[p] + Cardinality(of("removePv")) = Cardinality(of("addPv"))
             ELSE /\ doc.pvs[p] \in {0, 1}
                  /\ doc.pvs[p] = 1 <=> \E i \in of("addPv") : \A j \in of("removePv") : j < i
    /\ doc.others = Cardinality({i \in DOMAIN log : log[i] = ByOthers})

(* The sets are rolling windows: never longer than Window, and full once   *)
(* that many events were reported (vcdsdk/defined_entity.go:407-409).      *)
WindowsAreKept ==
    /\ Len(doc.errors) <= Window
    /\ LET reported == Cardinality({i \in DOMAIN log : log[i].kind = "addEvent"})
       IN Len(doc.events) = IF reported < Window THEN reported ELSE Window

(* What the caller of an update sees of it.                                *)
Outside(r) ==
    CASE r.pc = "idle"           -> [at |-> "idle"]
      [] r.pc \in {"get", "put"} -> [at |-> "asked", op |-> r.op, since |-> r.since]
      [] r.pc = "done"           -> [at |-> "done", result |-> r.result]

callBar == [w \in Writers |-> Outside(u[w])]

(* Every update is one step on the document as it is, and nil without an   *)
(* update is an answer only to one that was not required or was overtaken  *)
(* by others in each of its rounds (vcdsdk/defined_entity.go:199-215).     *)
Store == INSTANCE RdeStore WITH call <- callBar, writes <- Len(log),
                                Tries <- MaxRDEUpdateRetries - 1
ImplementsStore == Store!StoreSpec
=============================================================================
