-------------------------- MODULE RdeUpdateProofs --------------------------
(***************************************************************************)
(* No update of the RDE is lost or made on a stale copy, for any number of *)
(* writers, rounds and topics and any faults: RdeUpdate implements         *)
(* RdeStore.  The argument is two invariants.  Fresh: a writer that holds  *)
(* the current etag holds the current document.  Overtaken: every round    *)
(* before a writer's present one has cost it a write by somebody else.     *)
(*                                                                         *)
(* With them every step changes the document as it is (DocumentSteps),     *)
(* from which follow its list, its windows and its reports.                *)
(***************************************************************************)
EXTENDS RdeUpdate, FiniteSetTheorems, TLAPS

(* Enough of the types for the steps below.                                *)
Shape ==
    /\ log \in Seq(Updates \union {ByOthers})
    /\ DOMAIN u = Writers
    /\ u = [w \in Writers |-> u[w]]
    /\ \A w \in Writers :
          /\ u[w].pc \in {"idle", "get", "put", "done"}
          /\ u[w].pc \in {"get", "put"} => u[w].op \in Updates
          /\ u[w].pc \in {"get", "put"} => u[w].since \in Nat /\ u[w].round \in Nat
          /\ u[w].pc = "put" => u[w].etag \in 0..Len(log)

(* A writer whose etag is still the document's has read that document.     *)
Fresh ==
    \A w \in Writers :
        u[w].pc = "put" /\ u[w].etag = Len(log) => u[w].seen = doc

(* The rounds a writer has behind it were ended by writes since its call.  *)
Behind(r) ==
    /\ r.pc = "get" => Len(log) + 1 >= r.since + r.round
    /\ r.pc = "put" => r.etag + 1 >= r.since + r.round

Overtaken == \A w \in Writers : Behind(u[w])

(* A write that is under way is one the copy called for.                   *)
Due(op, d) == Supported(op, d) /\ ~NotRequired(op, d)

Needed == \A w \in Writers : u[w].pc = "put" => Due(u[w].op, u[w].seen)

Inv == Shape /\ Fresh /\ Overtaken /\ Needed

----------------------------------------------------------------------------
(* How a step moves one writer.                                            *)
Moves(w, r) == u' = [u EXCEPT ![w] = r]

(* One writer's move leaves the others where they are.                     *)
LEMMA MoveOthers ==
    ASSUME Shape, NEW w \in Writers, NEW r, Moves(w, r)
    PROVE  /\ DOMAIN u' = Writers
           /\ u' = [x \in Writers |-> u'[x]]
           /\ u'[w] = r
           /\ \A x \in Writers : x # w => u'[x] = u[x]
  BY DEF Shape, Moves

(* ... and the caller of that writer sees the move, no other caller does.  *)
LEMMA MoveOutside ==
    ASSUME Shape, NEW w \in Writers, NEW r, Moves(w, r)
    PROVE  callBar' = [callBar EXCEPT ![w] = Outside(r)]
  <1>1. \A x \in Writers : u'[x] = IF x = w THEN r ELSE u[x]
    BY MoveOthers
  <1>2. callBar' = [x \in Writers |-> IF x = w THEN Outside(r) ELSE Outside(u[x])]
    BY <1>1 DEF callBar
  <1> QED BY <1>2 DEF callBar

(* A write that is accepted makes the etag of every reader a former one.   *)
LEMMA AcceptGrows ==
    ASSUME Shape, NEW op \in Updates \union {ByOthers}, NEW d, Accept(op, d)
    PROVE  /\ log' \in Seq(Updates \union {ByOthers})
           /\ Len(log') = Len(log) + 1
           /\ Len(log) \in Nat
  BY DEF Shape, Accept

LEMMA InitInv == Init => Inv
  BY DEF Init, Inv, Shape, Fresh, Idle, Overtaken, Behind, Needed

(* A writer's move that is no write keeps the invariant when it goes to    *)
(* another round, ends, or has just read the document.                     *)
LEMMA MoveInv ==
    ASSUME Inv, NEW w \in Writers, NEW r, Moves(w, r), UNCHANGED <<doc, log>>,
           r.pc \in {"idle", "get", "put", "done"},
           r.pc \in {"get", "put"} => r.op \in Updates /\ r.since \in Nat /\ r.round \in Nat,
           Behind(r),
           r.pc = "put" => r.etag \in 0..Len(log) /\ (r.etag = Len(log) => r.seen = doc),
           r.pc = "put" => Due(r.op, r.seen)
    PROVE  Inv'
  <1>1. /\ DOMAIN u' = Writers
        /\ u' = [x \in Writers |-> u'[x]]
        /\ u'[w] = r
        /\ \A x \in Writers : x # w => u'[x] = u[x]
    BY MoveOthers DEF Inv
  <1>2. Shape'
    BY <1>1 DEF Inv, Shape
  <1>3. Fresh'
    BY <1>1 DEF Inv, Fresh
  <1>4. Overtaken'
    BY <1>1 DEF Inv, Overtaken, Behind
  <1>5. \A x \in Writers : u'[x].pc = "put" => Due(u'[x].op, u'[x].seen)
    BY <1>1 DEF Inv, Needed
  <1>6. Needed'
    BY <1>5 DEF Needed, Due, Supported, NotRequired, Has
  <1> QED BY <1>2, <1>3, <1>4, <1>6 DEF Inv

(* A write keeps it: the etags of all the others are former ones now.      *)
LEMMA WriteInv ==
    ASSUME Inv, NEW op \in Updates \union {ByOthers}, NEW d, Accept(op, d),
           \/ UNCHANGED u
           \/ \E w \in Writers : \E r : r.pc = "done" /\ Moves(w, r)
           \/ u' = [x \in Writers |-> Idle]
    PROVE  Inv'
  <1>1. /\ log' \in Seq(Updates \union {ByOthers})
        /\ Len(log') = Len(log) + 1
        /\ Len(log) \in Nat
    BY AcceptGrows DEF Inv
  <1>2. /\ DOMAIN u' = Writers
        /\ u' = [x \in Writers |-> u'[x]]
        /\ \A x \in Writers : \/ u'[x] = u[x]
                              \/ u'[x].pc \in {"done", "idle"}
    <2>1. CASE UNCHANGED u
      BY <2>1 DEF Inv, Shape
    <2>2. CASE u' = [x \in Writers |-> Idle]
      BY <2>2 DEF Idle
    <2>3. ASSUME NEW w \in Writers, NEW r, Moves(w, r), r.pc = "done"
          PROVE  /\ DOMAIN u' = Writers
                 /\ u' = [x \in Writers |-> u'[x]]
                 /\ \A x \in Writers : \/ u'[x] = u[x]
                                       \/ u'[x].pc \in {"done", "idle"}
      BY <2>3, MoveOthers DEF Inv
    <2> QED BY <2>1, <2>2, <2>3
  <1>3. Shape'
    BY <1>1, <1>2 DEF Inv, Shape
  <1>4. Fresh'
    BY <1>1, <1>2 DEF Inv, Fresh, Shape
  <1>5. Overtaken'
    BY <1>1, <1>2 DEF Inv, Overtaken, Behind, Shape
  <1>6. \A x \in Writers : u'[x].pc = "put" => Due(u'[x].op, u'[x].seen)
    BY <1>2 DEF Inv, Needed
  <1>7. Needed'
    BY <1>6 DEF Needed, Due, Supported, NotRequired, Has
  <1> QED BY <1>3, <1>4, <1>5, <1>7 DEF Inv

(* The answer of an update, as the caller sees it.                         *)
LEMMA ReturnMoves ==
    ASSUME NEW w \in Writers, NEW result, Return(w, result)
    PROVE  Moves(w, [pc |-> "done", result |-> result])
  BY DEF Return, Moves

LEMMA StepInv == Inv /\ [Next]_vars => Inv'
  <1> SUFFICES ASSUME Inv, [Next]_vars PROVE Inv'
    OBVIOUS
  <1>1. ASSUME NEW w \in Writers, NEW op \in Updates, Call(w, op) PROVE Inv'
    <2> DEFINE r == [pc |-> "get", op |-> op, since |-> Len(log), round |-> 1]
    <2>1. Moves(w, r)
      BY <1>1 DEF Call, Moves
    <2>2. Len(log) \in Nat
      BY DEF Inv, Shape
    <2>3. Behind(r) /\ r.pc = "get" /\ r.op \in Updates /\ r.since \in Nat /\ r.round \in Nat
      BY <2>2 DEF Behind
    <2> QED BY <1>1, <2>1, <2>3, MoveInv DEF Call
  <1>2. ASSUME NEW w \in Writers, NEW result, Return(w, result), UNCHANGED <<doc, log>>
        PROVE  Inv'
    BY <1>2, ReturnMoves, MoveInv DEF Behind
  <1>3. ASSUME NEW w \in Writers, Get(w) PROVE Inv'
    <2> DEFINE r == [pc |-> "put", op |-> u[w].op, since |-> u[w].since,
                     round |-> u[w].round, seen |-> doc, etag |-> Len(log)]
    <2>1. CASE \E result : Return(w, result)
      BY <1>2, <1>3, <2>1 DEF Get
    <2>2. CASE u' = [u EXCEPT ![w] = r]
      <3>1. Moves(w, r)
        BY <2>2 DEF Moves
      <3>2. /\ u[w].op \in Updates /\ u[w].since \in Nat /\ u[w].round \in Nat
            /\ Len(log) \in Nat
        BY <1>3 DEF Inv, Shape, Get
      <3>3. Behind(r)
        BY <1>3 DEF Inv, Overtaken, Behind, Get
      <3>0. u'[w].pc = "put"
        BY <2>2 DEF Inv, Shape
      <3>5. Due(u[w].op, doc)
        BY <1>3, <3>0 DEF Get, Due, Return, Inv, Shape
      <3> HIDE DEF r
      <3>4. /\ r.pc = "put" /\ r.op \in Updates /\ r.since \in Nat /\ r.round \in Nat
            /\ r.etag = Len(log) /\ r.seen = doc /\ Due(r.op, r.seen)
        BY <3>2, <3>5 DEF r
      <3> QED BY <1>3, <3>1, <3>2, <3>3, <3>4, MoveInv DEF Get
    <2> QED BY <1>3, <2>1, <2>2 DEF Get
  <1>4. ASSUME NEW w \in Writers, Put(w) PROVE Inv'
    <2>1. u[w].op \in Updates
      BY <1>4 DEF Inv, Shape, Put
    <2> QED BY <1>4, <2>1, ReturnMoves, WriteInv DEF Put
  <1>5. ASSUME NEW w \in Writers, Conflict(w) PROVE Inv'
    <2>1. CASE u[w].round < Rounds
      <3>1. Moves(w, Again(w))
        BY <1>5, <2>1 DEF Conflict, Moves
      <3>2. /\ u[w].op \in Updates /\ u[w].since \in Nat /\ u[w].round \in Nat
            /\ u[w].etag \in 0..Len(log) /\ Len(log) \in Nat
        BY <1>5 DEF Inv, Shape, Conflict
      <3>3. u[w].etag + 1 >= u[w].since + u[w].round /\ u[w].etag # Len(log)
        BY <1>5 DEF Inv, Overtaken, Behind, Conflict
      <3>4. /\ Again(w).pc = "get" /\ Again(w).op = u[w].op
            /\ Again(w).since = u[w].since /\ Again(w).round = u[w].round + 1
        BY DEF Again
      <3>5. Len(log) + 1 >= u[w].since + (u[w].round + 1)
        BY <3>2, <3>3
      <3>6. Behind(Again(w))
        BY <3>4, <3>5 DEF Behind
      <3>7. Again(w).round \in Nat
        BY <3>2, <3>4
      <3> QED BY <1>5, <3>1, <3>2, <3>4, <3>6, <3>7, MoveInv DEF Conflict
    <2>2. CASE ~(u[w].round < Rounds)
      BY <1>2, <1>5, <2>2 DEF Conflict
    <2> QED BY <2>1, <2>2
  <1>6. ASSUME NEW w \in Writers, PutFails(w) PROVE Inv'
    BY <1>2, <1>6 DEF PutFails
  <1>7. ASSUME NEW w \in Writers, PutLost(w) PROVE Inv'
    <2>1. CASE doc.kind = "native" /\ UNCHANGED <<doc, log>>
      BY <1>7, <2>1 DEF PutLost, Inv, Shape, Fresh, Idle, Overtaken, Behind, Needed
    <2>2. CASE doc.kind # "native" /\ UNCHANGED <<doc, log>>
      BY <1>2, <1>7, <2>2 DEF PutLost
    <2>3. CASE Accept(u[w].op, Changed(u[w].op, u[w].seen))
      <3>1. u[w].op \in Updates
        BY <1>7 DEF Inv, Shape, PutLost
      <3>2. CASE doc.kind = "native"
        BY <1>7, <2>3, <3>1, <3>2, WriteInv DEF PutLost
      <3>3. CASE doc.kind # "native"
        BY <1>7, <2>3, <3>1, <3>3, ReturnMoves, WriteInv DEF PutLost
      <3> QED BY <3>2, <3>3
    <2> QED BY <1>7, <2>1, <2>2, <2>3 DEF PutLost
  <1>8. CASE OthersWrite
    BY <1>8, WriteInv DEF OthersWrite
  <1>9. CASE UNCHANGED vars
    <2>1. Needed'
      BY <1>9 DEF vars, Inv, Needed, Due, Supported, NotRequired, Has
    <2> QED
      BY <1>9, <2>1 DEF vars, Inv, Shape, Fresh, Overtaken, Behind
  <1> QED BY <1>1, <1>3, <1>4, <1>5, <1>6, <1>7, <1>8, <1>9 DEF Next, Step

THEOREM Invariance == Spec => []Inv
  BY InitInv, StepInv, PTL DEF Spec

----------------------------------------------------------------------------
(* The instance reads the operators of RdeDocument under its own names.    *)
LEMMA SameChange ==
    ASSUME NEW op, NEW d PROVE Store!Changed(op, d) = Changed(op, d)
  <1>1. Store!removeErrorsfromComponentMap(d, op.about) = removeErrorsfromComponentMap(d, op.about)
    <2>1. Store!Without(d.errors, op.about) = Without(d.errors, op.about)
      BY Zenon DEF Store!Without, Without, Store!Cardinality, Cardinality
    <2> QED
      BY <2>1 DEF Store!removeErrorsfromComponentMap, removeErrorsfromComponentMap
  <1>2. Store!Rolled(d.errors, op.about) = Rolled(d.errors, op.about)
    BY DEF Store!Rolled, Rolled
  <1>3. Store!Rolled(d.events, op.about) = Rolled(d.events, op.about)
    BY DEF Store!Rolled, Rolled
  <1> QED
    BY <1>1, <1>2, <1>3
    DEF Store!Changed, Changed,
        Store!AddVCDResourceToStatusMap, AddVCDResourceToStatusMap,
        Store!RemoveVCDResourceSetFromStatusMap, RemoveVCDResourceSetFromStatusMap,
        Store!RemoveFirst, RemoveFirst,
        Store!updateComponentMapWithNewError, updateComponentMapWithNewError,
        Store!updateComponentMapWithNewEvent, updateComponentMapWithNewEvent

LEMMA SameDocument ==
    /\ Store!EmptyDocuments = EmptyDocuments
    /\ Store!Updates = Updates
    /\ \A op, d : Store!NotRequired(op, d) <=> NotRequired(op, d)
  BY DEF Store!EmptyDocuments, EmptyDocuments, Store!NotRequired, NotRequired, Store!Has, Has,
         Store!Updates, Updates, Store!PvKinds, PvKinds, Store!ReportKinds, ReportKinds

LEMMA InitStore == Init => Store!StoreInit
  <1> SUFFICES ASSUME Init PROVE Store!StoreInit
    OBVIOUS
  <1>1. callBar = [w \in Writers |-> [at |-> "idle"]]
    BY DEF Init, callBar, Outside, Idle
  <1> QED BY <1>1, SameDocument DEF Init, Store!StoreInit, Store!Idle

(* A writer in the middle of an update has asked, and no other has.        *)
LEMMA AskedBar ==
    ASSUME NEW w \in Writers, u[w].pc \in {"get", "put"}
    PROVE  Store!Asked(w) /\ callBar[w].op = u[w].op /\ callBar[w].since = u[w].since
  BY DEF Store!Asked, callBar, Outside

(* What the caller sees of an answer.                                      *)
LEMMA ReturnAnswers ==
    ASSUME Shape, NEW w \in Writers, u[w].pc \in {"get", "put"},
           NEW result, Return(w, result)
    PROVE  Store!Answered(w, result)
  <1>1. callBar' = [callBar EXCEPT ![w] = Outside([pc |-> "done", result |-> result])]
    BY ReturnMoves, MoveOutside
  <1>2. Outside([pc |-> "done", result |-> result]) = [at |-> "done", result |-> result]
    BY DEF Outside
  <1> QED BY <1>1, <1>2, AskedBar DEF Store!Answered

(* Another round is no step of the store.                                  *)
LEMMA RoundStutters ==
    ASSUME Shape, NEW w \in Writers, u[w].pc \in {"get", "put"},
           NEW r, Moves(w, r), r.pc \in {"get", "put"},
           r.op = u[w].op, r.since = u[w].since
    PROVE  UNCHANGED callBar
  <1>1. callBar' = [callBar EXCEPT ![w] = Outside(r)]
    BY MoveOutside
  <1>2. Outside(r) = callBar[w]
    BY DEF Outside, callBar
  <1>3. callBar = [x \in Writers |-> callBar[x]]
    BY DEF callBar
  <1> QED BY <1>1, <1>2, <1>3

LEMMA StepStore == Inv /\ [Next]_vars => [Store!StoreNext]_(Store!storeVars)
  <1> SUFFICES ASSUME Inv, [Next]_vars
               PROVE  Store!StoreNext \/ UNCHANGED <<doc, Len(log), callBar>>
    BY DEF Store!storeVars
  <1> USE DEF Inv
  <1>1. ASSUME NEW w \in Writers, NEW op \in Updates, Call(w, op) PROVE Store!Ask(w, op)
    <2> DEFINE r == [pc |-> "get", op |-> op, since |-> Len(log), round |-> 1]
    <2>1. callBar' = [callBar EXCEPT ![w] = Outside(r)]
      BY <1>1, MoveOutside DEF Call, Moves
    <2>2. callBar[w].at # "asked"
      BY <1>1 DEF Call, Updating, Shape, callBar, Outside
    <2> QED BY <1>1, <2>1, <2>2 DEF Call, Store!Ask, Outside
  <1>2. ASSUME NEW w \in Writers, u[w].pc \in {"get", "put"}, UNCHANGED <<doc, log>>,
               Return(w, "error")
        PROVE  Store!Refuse(w)
    BY <1>2, AskedBar, ReturnAnswers DEF Store!Refuse
  <1>3. ASSUME NEW w \in Writers, u[w].pc \in {"get", "put"}, UNCHANGED <<doc, log>>,
               Return(w, "nil"), NotRequired(u[w].op, doc) \/ Store!Overtaken(w)
        PROVE  Store!Skip(w)
    BY <1>3, AskedBar, ReturnAnswers, SameDocument DEF Store!Skip
  <1>4. ASSUME NEW w \in Writers, u[w].pc \in {"get", "put"},
               Accept(u[w].op, Changed(u[w].op, doc)),
               NEW result \in {"nil", "error"}, Return(w, result)
        PROVE  Store!Make(w)
    <2>1. Len(log') = Len(log) + 1
      BY <1>4, AcceptGrows DEF Shape
    <2>2. Store!Written(Store!Changed(callBar[w].op, doc))
      BY <1>4, <2>1, AskedBar, SameChange DEF Store!Written, Accept
    <2> QED BY <1>4, <2>2, AskedBar, ReturnAnswers DEF Store!Make
  <1>5. ASSUME NEW w \in Writers, u[w].pc \in {"get", "put"}, UNCHANGED <<doc, log>>,
               NEW r, Moves(w, r), r.pc \in {"get", "put"}, r.op = u[w].op,
               r.since = u[w].since
        PROVE  UNCHANGED <<doc, Len(log), callBar>>
    BY <1>5, RoundStutters
  <1>6. ASSUME NEW w \in Writers, Get(w)
        PROVE  Store!Refuse(w) \/ Store!Skip(w) \/ UNCHANGED <<doc, Len(log), callBar>>
    <2> DEFINE r == [pc |-> "put", op |-> u[w].op, since |-> u[w].since,
                     round |-> u[w].round, seen |-> doc, etag |-> Len(log)]
    <2>1. CASE Return(w, "error")
      BY <1>2, <1>6, <2>1 DEF Get
    <2>2. CASE Return(w, "nil") /\ NotRequired(u[w].op, doc)
      BY <1>3, <1>6, <2>2 DEF Get
    <2>3. CASE u' = [u EXCEPT ![w] = r]
      <3>1. Moves(w, r) /\ r.pc \in {"get", "put"} /\ r.op = u[w].op /\ r.since = u[w].since
        BY <2>3 DEF Moves
      <3> HIDE DEF r
      <3> QED BY <1>5, <1>6, <3>1 DEF Get
    <2> QED BY <1>6, <2>1, <2>2, <2>3 DEF Get
  <1>7. ASSUME NEW w \in Writers, Put(w) PROVE Store!Make(w)
    <2>1. u[w].seen = doc
      BY <1>7 DEF Put, Fresh
    <2> QED BY <1>4, <1>7, <2>1 DEF Put
  <1>8. ASSUME NEW w \in Writers, Conflict(w)
        PROVE  Store!Refuse(w) \/ Store!Skip(w) \/ UNCHANGED <<doc, Len(log), callBar>>
    <2>1. CASE u' = [u EXCEPT ![w] = Again(w)]
      BY <1>5, <1>8, <2>1 DEF Conflict, Moves, Again
    <2>2. CASE Return(w, "error")
      BY <1>2, <1>8, <2>2 DEF Conflict
    <2>3. CASE ~(u[w].round < Rounds) /\ doc.kind # "native" /\ Return(w, "nil")
      <3>1. /\ u[w].since \in Nat /\ u[w].round \in Nat
            /\ u[w].etag \in 0..Len(log) /\ Len(log) \in Nat
        BY <1>8 DEF Shape, Conflict
      <3>2. u[w].etag + 1 >= u[w].since + u[w].round /\ u[w].etag # Len(log)
        BY <1>8 DEF Overtaken, Behind, Conflict
      <3>3. u[w].round >= MaxRDEUpdateRetries - 1
        BY <2>3, <3>1, UpdatesAreSane DEF Rounds
      <3>4. Len(log) >= u[w].since + (MaxRDEUpdateRetries - 1)
        BY <3>1, <3>2, <3>3, UpdatesAreSane
      <3>5. Store!Overtaken(w)
        BY <1>8, <2>3, <3>4, AskedBar DEF Store!Overtaken, Conflict
      <3> QED BY <1>3, <1>8, <2>3, <3>5 DEF Conflict
    <2> QED BY <1>8, <2>1, <2>2, <2>3 DEF Conflict
  <1>9. ASSUME NEW w \in Writers, PutFails(w) PROVE Store!Refuse(w)
    BY <1>2, <1>9 DEF PutFails
  <1>10. ASSUME NEW w \in Writers, PutLost(w)
         PROVE  Store!Die \/ Store!Refuse(w) \/ Store!Make(w)
    <2>1. UNCHANGED <<doc, log>> \/ Accept(u[w].op, Changed(u[w].op, doc))
      BY <1>10 DEF PutLost, Fresh
    <2>2. CASE doc.kind = "native"
      <3>1. callBar' = [x \in Writers |-> [at |-> "idle"]]
        BY <1>10, <2>2 DEF PutLost, callBar, Outside, Idle
      <3>2. CASE UNCHANGED <<doc, log>>
        BY <3>1, <3>2 DEF Store!Die, Store!Idle
      <3>3. CASE Accept(u[w].op, Changed(u[w].op, doc))
        <4>1. u[w].op \in Updates /\ u[w].pc \in {"get", "put"}
          BY <1>10 DEF PutLost, Shape
        <4>2. Len(log') = Len(log) + 1
          BY <3>3, <4>1, AcceptGrows
        <4>3. Store!Written(Store!Changed(callBar[w].op, doc)) /\ Store!Asked(w)
          BY <3>3, <4>1, <4>2, AskedBar, SameChange DEF Store!Written, Accept
        <4> QED BY <3>1, <4>3 DEF Store!Die, Store!Idle
      <3> QED BY <2>1, <3>2, <3>3
    <2>3. CASE doc.kind # "native" /\ UNCHANGED <<doc, log>>
      BY <1>2, <1>10, <2>3 DEF PutLost
    <2>4. CASE doc.kind # "native" /\ Accept(u[w].op, Changed(u[w].op, doc))
      BY <1>4, <1>10, <2>4 DEF PutLost
    <2> QED BY <2>1, <2>2, <2>3, <2>4
  <1>11. ASSUME OthersWrite PROVE Store!OthersChange
    <2>1. Len(log') = Len(log) + 1
      BY <1>11, AcceptGrows DEF OthersWrite
    <2> QED BY <1>11, <2>1 DEF OthersWrite, Accept, Store!OthersChange, Store!Written, callBar
  <1>12. CASE UNCHANGED vars
    BY <1>12 DEF vars, callBar
  <1> QED
    BY <1>1, <1>6, <1>7, <1>8, <1>9, <1>10, <1>11, <1>12, SameDocument
    DEF Next, Step, Store!StoreNext

(* No update of the RDE is lost or made on a stale copy, and none returns  *)
(* nil in vain that was not overtaken in each of its rounds: RdeUpdate     *)
(* implements RdeStore (the etag of vcdsdk/defined_entity.go:199-201), for *)
(* any writers, topics, volumes, rounds, faults and either kind of entity. *)
THEOREM NoLostUpdate == Spec => ImplementsStore
  <1>1. Spec => Store!StoreInit /\ [][Store!StoreNext]_(Store!storeVars)
    BY InitStore, StepStore, Invariance, PTL DEF Spec
  <1> QED BY <1>1 DEF ImplementsStore, Store!StoreSpec

----------------------------------------------------------------------------
(* What is left of the error set when a topic is cleared: nothing of the   *)
(* topic, all the rest, and no entry further from the end than it was.     *)
LEMMA WithoutProperties ==
    ASSUME NEW S, NEW s \in Seq(S), NEW t
    PROVE  /\ Without(s, t) \in Seq(S)
           /\ Len(Without(s, t)) <= Len(s)
           /\ \A k \in 1..Len(Without(s, t)) :
                  \E i \in 1..Len(s) : s[i] # t /\ Without(s, t)[k] = s[i]
           /\ \A i \in 1..Len(s) : s[i] # t =>
                  \E k \in 1..Len(Without(s, t)) :
                      /\ Without(s, t)[k] = s[i]
                      /\ Len(Without(s, t)) - k <= Len(s) - i
  <1> DEFINE kept == {i \in DOMAIN s : s[i] # t}
             n == Cardinality(kept)
             below(i) == {j \in kept : j <= i}
             above(i) == {j \in kept : j > i}
             place == [i \in kept |-> Cardinality(below(i))]
  <1>1. /\ DOMAIN s = 1..Len(s) /\ Len(s) \in Nat
        /\ kept \subseteq 1..Len(s)
        /\ \A i \in 1..Len(s) : s[i] \in S
    OBVIOUS
  <1>2. IsFiniteSet(1..Len(s)) /\ Cardinality(1..Len(s)) = Len(s)
    BY <1>1, FS_Interval, SMTT(30)
  <1>3. IsFiniteSet(kept) /\ n \in Nat /\ n <= Len(s)
    BY <1>1, <1>2, FS_Subset, FS_CardinalityType
  <1>4. Without(s, t) = [k \in 1..n |-> s[CHOOSE i \in kept : Cardinality(below(i)) = k]]
    BY DEF Without
  <1>5. ASSUME NEW i \in kept
        PROVE  /\ IsFiniteSet(below(i)) /\ IsFiniteSet(above(i))
               /\ Cardinality(below(i)) \in 1..n
               /\ n - Cardinality(below(i)) <= Len(s) - i
    <2>1. below(i) \subseteq kept /\ above(i) \subseteq kept /\ i \in below(i)
      BY <1>1, <1>5
    <2>2. /\ IsFiniteSet(below(i)) /\ IsFiniteSet(above(i))
          /\ Cardinality(below(i)) \in Nat /\ Cardinality(below(i)) <= n
          /\ Cardinality(above(i)) \in Nat
      BY <1>3, <2>1, FS_Subset, FS_CardinalityType
    <2>3. Cardinality(below(i)) # 0
      BY <2>1, <2>2, FS_EmptySet
    <2>4. below(i) \cup above(i) = kept /\ below(i) \cap above(i) = {}
      BY <1>1
    <2>5. n = Cardinality(below(i)) + Cardinality(above(i))
      <3>1. Cardinality({}) = 0
        BY FS_EmptySet
      <3>2. \A A, B : IsFiniteSet(A) /\ IsFiniteSet(B) /\ A \cap B = {} =>
                Cardinality(A \cup B) = Cardinality(A) + Cardinality(B) - 0
        BY <3>1, FS_Union
      <3>3. Cardinality(below(i) \cup above(i)) = Cardinality(below(i)) + Cardinality(above(i)) - 0
        BY <2>2, <2>4, <3>2
      <3>4. n = Cardinality(below(i) \cup above(i))
        BY <2>4
      <3> HIDE DEF below, above, n
      <3> QED
        BY <2>2, <3>3, <3>4
    <2>6. i \in 1..Len(s) /\ above(i) \subseteq (i + 1)..Len(s)
      BY <1>1, <1>5
    <2>7. Cardinality(above(i)) <= Len(s) - i
      <3>1. /\ IsFiniteSet((i + 1)..Len(s))
            /\ Cardinality((i + 1)..Len(s)) = Len(s) - i
        <4>1. i + 1 \in Int /\ Len(s) \in Int /\ i <= Len(s)
          BY <1>1, <2>6
        <4> QED
          BY <4>1, FS_Interval
      <3> QED
        BY <2>6, <3>1, FS_Subset
    <2> QED
      BY <1>3, <2>2, <2>3, <2>5, <2>7
  <1>6. \A i, j \in kept : i < j => Cardinality(below(i)) # Cardinality(below(j))
    <2> SUFFICES ASSUME NEW i \in kept, NEW j \in kept, i < j
                 PROVE  Cardinality(below(i)) # Cardinality(below(j))
      OBVIOUS
    <2>1. below(i) \subseteq below(j) /\ j \in below(j) /\ j \notin below(i)
      BY <1>1
    <2> HIDE DEF below
    <2> QED
      BY <1>5, <2>1, FS_Subset
  <1>7. place \in Injection(kept, 1..n)
    <2>1. place \in [kept -> 1..n]
      BY <1>5
    <2>2. \A i, j \in kept : i < j \/ j < i \/ i = j
      BY <1>1
    <2>3. \A i \in kept : place[i] = Cardinality(below(i))
      OBVIOUS
    <2>4. ASSUME NEW i \in kept, NEW j \in kept, place[i] = place[j]
          PROVE  i = j
      <3> HIDE DEF place, below, kept
      <3> QED
        BY <1>6, <2>2, <2>3, <2>4
    <2> HIDE DEF place
    <2> QED
      BY <2>1, <2>4 DEF Injection, IsInjective
  <1>8. place \in Surjection(kept, 1..n)
    <2>1. IsFiniteSet(1..n) /\ Cardinality(1..n) = n
      BY <1>3, FS_Interval
    <2> HIDE DEF place
    <2> QED
      BY <1>7, <2>1, FS_Injection
  <1>9. ASSUME NEW k \in 1..n
        PROVE  \E i \in kept : Cardinality(below(i)) = k
    <2>1. PICK i \in kept : place[i] = k
      BY <1>8 DEF Surjection
    <2> QED
      BY <2>1
  <1>10. ASSUME NEW i \in kept
         PROVE  Without(s, t)[Cardinality(below(i))] = s[i]
    <2> DEFINE c == CHOOSE j \in kept : Cardinality(below(j)) = Cardinality(below(i))
    <2>1. c \in kept /\ Cardinality(below(c)) = Cardinality(below(i))
      BY <1>10
    <2>2. c = i
      <3>1. c < i \/ i < c \/ c = i
        BY <1>1, <1>10, <2>1
      <3> HIDE DEF c, below, kept
      <3> QED
        BY <1>6, <1>10, <2>1, <3>1
    <2> QED
      BY <1>4, <1>5, <1>10, <2>2
  <1>11. DOMAIN Without(s, t) = 1..n
    BY <1>4
  <1>12. ASSUME NEW k \in 1..n
         PROVE  \E i \in kept : Without(s, t)[k] = s[i]
    BY <1>9, <1>10, <1>12
  <1>13. Without(s, t) \in Seq(S) /\ Len(Without(s, t)) = n
    <2>1. \A k \in 1..n : Without(s, t)[k] \in S
      BY <1>1, <1>12
    <2>2. Without(s, t) \in [1..n -> S]
      BY <1>4, <2>1
    <2>3. \A m \in Nat : \A f \in [1..m -> S] : f \in Seq(S) /\ Len(f) = m
      OBVIOUS
    <2> QED
      BY <1>3, <2>2, <2>3
  <1> HIDE DEF below, place
  <1> QED
    BY <1>1, <1>3, <1>5, <1>10, <1>12, <1>13

----------------------------------------------------------------------------
(* What an update makes of the document, part by part.                     *)
LEMMA ChangedParts ==
    ASSUME NEW d \in Documents, NEW op \in Updates
    PROVE  /\ Changed(op, d) = [kind |-> d.kind,
                                pvs |-> Changed(op, d).pvs,
                                errors |-> Changed(op, d).errors,
                                events |-> Changed(op, d).events,
                                others |-> d.others]
           /\ Changed(op, d).pvs =
                  IF op.kind = "addPv" THEN [d.pvs EXCEPT ![op.about] = @ + 1]
                  ELSE IF op.kind # "removePv" THEN d.pvs
                  ELSE IF d.kind = "native"
                       THEN [d.pvs EXCEPT ![op.about] = IF @ = 0 THEN 0 ELSE @ - 1]
                       ELSE [d.pvs EXCEPT ![op.about] = 0]
           /\ Changed(op, d).errors = IF op.kind = "addError" THEN Rolled(d.errors, op.about)
                                      ELSE IF op.kind = "removeError" THEN Without(d.errors, op.about)
                                      ELSE d.errors
           /\ Changed(op, d).events = IF op.kind = "addEvent" THEN Rolled(d.events, op.about)
                                      ELSE d.events
           /\ op.kind \in PvKinds => op.about \in Pvs
           /\ op.kind \in ReportKinds => op.about \in Topics
  <1>1. \/ op.kind \in {"addPv", "removePv"} /\ op.about \in Pvs
        \/ op.kind \in {"addError", "removeError", "addEvent"} /\ op.about \in Topics
    BY DEF Updates, PvKinds, ReportKinds
  <1>2. d = [kind |-> d.kind, pvs |-> d.pvs, errors |-> d.errors, events |-> d.events,
             others |-> d.others]
    BY DEF Documents
  <1>3. CASE op.kind = "addPv"
    BY <1>1, <1>2, <1>3 DEF Changed, AddVCDResourceToStatusMap, PvKinds, ReportKinds
  <1>4. CASE op.kind = "removePv"
    BY <1>1, <1>2, <1>4 DEF Changed, RemoveVCDResourceSetFromStatusMap, RemoveFirst, PvKinds, ReportKinds
  <1>5. CASE op.kind = "addError"
    BY <1>1, <1>2, <1>5 DEF Changed, updateComponentMapWithNewError, PvKinds, ReportKinds
  <1>6. CASE op.kind = "removeError"
    BY <1>1, <1>2, <1>6 DEF Changed, removeErrorsfromComponentMap, PvKinds, ReportKinds
  <1>7. CASE op.kind = "addEvent"
    BY <1>1, <1>2, <1>7 DEF Changed, updateComponentMapWithNewEvent, PvKinds, ReportKinds
  <1> QED
    BY <1>1, <1>3, <1>4, <1>5, <1>6, <1>7

(* A rolling window: the new entry is the last, and of the old ones only   *)
(* the first is lost, and only from a full window.                         *)
LEMMA RolledProperties ==
    ASSUME NEW s \in Seq(Topics), NEW t \in Topics, Len(s) <= Window
    PROVE  /\ Rolled(s, t) \in Seq(Topics)
           /\ Len(Rolled(s, t)) = IF Len(s) < Window THEN Len(s) + 1 ELSE Window
           /\ Rolled(s, t)[Len(Rolled(s, t))] = t
           /\ \A k \in 1..Len(Rolled(s, t)) :
                  Rolled(s, t)[k] = t \/ \E i \in 1..Len(s) : Rolled(s, t)[k] = s[i]
           /\ \A i \in 1..Len(s) : Len(s) < Window \/ i > 1 =>
                  \E k \in 1..Len(Rolled(s, t)) :
                      /\ Rolled(s, t)[k] = s[i]
                      /\ Len(Rolled(s, t)) - k = Len(s) - i + 1
  <1> DEFINE l == Append(s, t)
  <1>1. Window \in Nat /\ Window >= 1
    BY WindowIsSane
  <1>2. /\ l \in Seq(Topics) /\ Len(l) = Len(s) + 1 /\ Len(s) \in Nat
        /\ l[Len(s) + 1] = t /\ \A i \in 1..Len(s) : l[i] = s[i]
    OBVIOUS
  <1> HIDE DEF l
  <1>3. CASE Len(s) < Window
    <2>1. Rolled(s, t) = l
      BY <1>1, <1>2, <1>3 DEF Rolled, l
    <2>2. \A i \in 1..Len(s) : i \in 1..Len(l) /\ Len(l) - i = Len(s) - i + 1
      BY <1>2
    <2>3. \A k \in 1..Len(l) : k \in 1..Len(s) \/ k = Len(s) + 1
      BY <1>2
    <2> QED
      BY <1>2, <1>3, <2>1, <2>2, <2>3
  <1>4. CASE Len(s) = Window
    <2>1. Rolled(s, t) = Tail(l)
      BY <1>1, <1>2, <1>4 DEF Rolled, l
    <2>2. /\ Tail(l) \in Seq(Topics) /\ Len(Tail(l)) = Len(s)
          /\ \A k \in 1..Len(s) : Tail(l)[k] = l[k + 1]
      BY <1>1, <1>2, <1>4
    <2>3. \A k \in 1..Len(s) : k + 1 \in 1..Len(s) \/ k = Len(s)
      BY <1>2
    <2>4. \A i \in 1..Len(s) : i > 1 =>
              i - 1 \in 1..Len(s) /\ Tail(l)[i - 1] = s[i] /\ Len(s) - (i - 1) = Len(s) - i + 1
      BY <1>2, <2>2
    <2>5. Tail(l)[Len(s)] = t
      BY <1>1, <1>2, <1>4, <2>2
    <2>6. \A k \in 1..Len(s) : Tail(l)[k] = t \/ \E i \in 1..Len(s) : Tail(l)[k] = s[i]
      BY <1>2, <2>2, <2>3
    <2>7. \A i \in 1..Len(s) : i > 1 =>
              \E k \in 1..Len(s) : Tail(l)[k] = s[i] /\ Len(s) - k = Len(s) - i + 1
      BY <2>4
    <2> DEFINE r == Tail(l)
    <2>8. /\ Rolled(s, t) = r /\ r \in Seq(Topics) /\ Len(r) = Len(s) /\ r[Len(s)] = t
          /\ \A k \in 1..Len(s) : r[k] = t \/ \E i \in 1..Len(s) : r[k] = s[i]
          /\ \A i \in 1..Len(s) : i > 1 =>
                 \E k \in 1..Len(s) : r[k] = s[i] /\ Len(s) - k = Len(s) - i + 1
      BY <2>1, <2>2, <2>5, <2>6, <2>7
    <2>9. ~(Len(s) < Window)
      BY <1>1, <1>4
    <2> HIDE DEF r
    <2> QED
      BY <1>4, <2>8, <2>9
  <1>5. Len(s) < Window \/ Len(s) = Window
    BY <1>1, <1>2
  <1> QED
    BY <1>3, <1>4, <1>5, Zenon

LEMMA ChangedType ==
    ASSUME NEW d \in Documents, NEW op \in Updates, Len(d.errors) <= Window, Len(d.events) <= Window
    PROVE  /\ Changed(op, d) \in Documents
           /\ Changed(op, d).kind = d.kind /\ Changed(op, d).others = d.others
           /\ Len(Changed(op, d).errors) <= Window /\ Len(Changed(op, d).events) <= Window
  <1>1. /\ d.kind \in RdeKinds /\ d.pvs \in [Pvs -> Nat] /\ d.others \in Nat
        /\ d.errors \in Seq(Topics) /\ d.events \in Seq(Topics)
    BY DEF Documents
  <1>w. Window \in Nat
    BY WindowIsSane
  <1>2. Changed(op, d).pvs \in [Pvs -> Nat]
    <2>1. CASE op.kind = "addPv"
      <3>1. op.about \in Pvs /\ Changed(op, d).pvs = [d.pvs EXCEPT ![op.about] = @ + 1]
        BY <2>1, ChangedParts DEF PvKinds
      <3> QED
        BY <1>1, <3>1
    <2>2. CASE op.kind = "removePv"
      <3>1. /\ op.about \in Pvs
            /\ \/ Changed(op, d).pvs = [d.pvs EXCEPT ![op.about] = 0]
               \/ Changed(op, d).pvs = [d.pvs EXCEPT ![op.about] = IF @ = 0 THEN 0 ELSE @ - 1]
        BY <2>2, ChangedParts DEF PvKinds
      <3>2. 0 \in Nat /\ (IF d.pvs[op.about] = 0 THEN 0 ELSE d.pvs[op.about] - 1) \in Nat
        BY <1>1, <3>1
      <3>3. \A x \in Nat : [d.pvs EXCEPT ![op.about] = x] \in [Pvs -> Nat]
        BY <1>1, <3>1
      <3> QED
        BY <3>1, <3>2, <3>3
    <2>3. CASE op.kind \notin PvKinds
      BY <1>1, <2>3, ChangedParts DEF PvKinds
    <2> QED
      BY <2>1, <2>2, <2>3 DEF PvKinds
  <1>3. Changed(op, d).errors \in Seq(Topics) /\ Len(Changed(op, d).errors) <= Window
    <2>1. CASE op.kind = "addError"
      <3>1. op.about \in Topics /\ Changed(op, d).errors = Rolled(d.errors, op.about)
        BY <2>1, ChangedParts DEF ReportKinds
      <3> QED
        BY <1>1, <1>w, <3>1, RolledProperties
    <2>2. CASE op.kind = "removeError"
      <3>1. Changed(op, d).errors = Without(d.errors, op.about)
        BY <2>2, ChangedParts
      <3>2. /\ Without(d.errors, op.about) \in Seq(Topics)
            /\ Len(Without(d.errors, op.about)) <= Len(d.errors)
        BY <1>1, WithoutProperties
      <3> QED
        BY <1>1, <1>w, <3>1, <3>2
    <2>3. CASE op.kind \notin {"addError", "removeError"}
      BY <1>1, <2>3, ChangedParts
    <2> QED
      BY <2>1, <2>2, <2>3
  <1>4. Changed(op, d).events \in Seq(Topics) /\ Len(Changed(op, d).events) <= Window
    <2>1. CASE op.kind = "addEvent"
      <3>1. op.about \in Topics /\ Changed(op, d).events = Rolled(d.events, op.about)
        BY <2>1, ChangedParts DEF ReportKinds
      <3> QED
        BY <1>1, <1>w, <3>1, RolledProperties
    <2>2. CASE op.kind # "addEvent"
      BY <1>1, <2>2, ChangedParts
    <2> QED
      BY <2>1, <2>2
  <1> DEFINE c == Changed(op, d)
  <1>5. /\ c = [kind |-> d.kind, pvs |-> c.pvs, errors |-> c.errors, events |-> c.events,
                others |-> d.others]
    BY ChangedParts
  <1> HIDE DEF c
  <1>6. c.kind = d.kind /\ c.others = d.others
    BY <1>5
  <1> QED
    BY <1>1, <1>2, <1>3, <1>4, <1>5, <1>6 DEF c, Documents

----------------------------------------------------------------------------
(* Types.                                                                  *)

(* Where a writer may be.                                                  *)
Places == {Idle}
          \union [pc : {"get"}, op : Updates, since : Nat, round : 1..Rounds]
          \union [pc : {"put"}, op : Updates, since : Nat, round : 1..Rounds,
                  seen : Documents, etag : Nat]
          \union [pc : {"done"}, result : {"nil", "error"}]

Typed == Inv /\ TypeOK /\ Len(doc.errors) <= Window /\ Len(doc.events) <= Window

(* The document changes by one update, which it has a place and a use for, *)
(* made on it as it is.                                                    *)
DocumentSteps ==
    \/ UNCHANGED <<doc, log>>
    \/ \E op \in Updates : Due(op, doc) /\ Accept(op, Changed(op, doc))
    \/ Accept(ByOthers, [doc EXCEPT !.others = @ + 1])

LEMMA StepDocument == Inv /\ [Next]_vars => DocumentSteps
  <1> SUFFICES ASSUME Inv, [Next]_vars PROVE DocumentSteps
    OBVIOUS
  <1>1. ASSUME NEW w \in Writers, Put(w) \/ PutLost(w)
        PROVE  DocumentSteps
    <2>1. /\ u[w].op \in Updates /\ Due(u[w].op, u[w].seen)
          /\ u[w].etag = Len(log) => u[w].seen = doc
      BY <1>1 DEF Inv, Shape, Fresh, Needed, Put, PutLost
    <2> QED
      BY <1>1, <2>1 DEF Put, PutLost, DocumentSteps
  <1>2. ASSUME NEW w \in Writers, Get(w) \/ Conflict(w) \/ PutFails(w)
        PROVE  DocumentSteps
    BY <1>2 DEF Get, Conflict, PutFails, DocumentSteps
  <1> QED
    BY <1>1, <1>2 DEF Next, Step, Call, OthersWrite, vars, DocumentSteps

LEMMA DocumentType ==
    ASSUME NEW k \in RdeKinds, NEW p \in [Pvs -> Nat], NEW e \in Seq(Topics),
           NEW v \in Seq(Topics), NEW o \in Nat
    PROVE  [kind |-> k, pvs |-> p, errors |-> e, events |-> v, others |-> o] \in Documents
  BY DEF Documents

LEMMA DocumentTyped ==
    ASSUME Typed, DocumentSteps
    PROVE  /\ doc' \in Documents /\ doc'.kind = doc.kind
           /\ log' \in Seq(Updates \union {ByOthers})
           /\ Len(doc'.errors) <= Window /\ Len(doc'.events) <= Window
  <1>0. /\ doc \in Documents /\ log \in Seq(Updates \union {ByOthers})
        /\ Len(doc.errors) <= Window /\ Len(doc.events) <= Window
    BY DEF Typed, TypeOK
  <1>1. CASE UNCHANGED <<doc, log>>
    BY <1>0, <1>1
  <1>2. ASSUME NEW op \in Updates, Accept(op, Changed(op, doc))
        PROVE  /\ doc' \in Documents /\ doc'.kind = doc.kind
               /\ log' \in Seq(Updates \union {ByOthers})
               /\ Len(doc'.errors) <= Window /\ Len(doc'.events) <= Window
    BY <1>0, <1>2, ChangedType DEF Accept
  <1>3. CASE Accept(ByOthers, [doc EXCEPT !.others = @ + 1])
    <2>1. /\ doc' = [doc EXCEPT !.others = @ + 1] /\ log' = Append(log, ByOthers)
          /\ doc.others \in Nat
      BY <1>0, <1>3 DEF Accept, Documents
    <2>2. doc' = [kind |-> doc.kind, pvs |-> doc.pvs, errors |-> doc.errors,
                  events |-> doc.events, others |-> doc.others + 1]
      BY <1>0, <2>1 DEF Documents
    <2>3. /\ doc.kind \in RdeKinds /\ doc.pvs \in [Pvs -> Nat]
          /\ doc.errors \in Seq(Topics) /\ doc.events \in Seq(Topics) /\ doc.others + 1 \in Nat
      BY <1>0, <2>1 DEF Documents
    <2>4. doc' \in Documents
      BY <2>2, <2>3, DocumentType
    <2> QED
      BY <1>0, <2>1, <2>2, <2>4
  <1> QED
    BY <1>1, <1>2, <1>3 DEF DocumentSteps

LEMMA StepTyped ==
    ASSUME Typed, [Next]_vars
    PROVE  Typed'
  <1>1. Inv'
    BY StepInv DEF Typed
  <1>2. /\ doc' \in Documents /\ doc'.kind = doc.kind
        /\ log' \in Seq(Updates \union {ByOthers})
        /\ Len(doc'.errors) <= Window /\ Len(doc'.events) <= Window
    BY StepDocument, DocumentTyped DEF Typed
  <1>3. Places' = Places /\ Rounds \in Nat /\ Rounds >= 1
    BY <1>2, UpdatesAreSane DEF Places, Rounds
  <1>4. u \in [Writers -> Places] /\ doc \in Documents /\ Len(log) \in Nat
    BY DEF Typed, TypeOK, Places
  <1>5. ASSUME NEW w \in Writers, NEW r \in Places, u' = [u EXCEPT ![w] = r]
        PROVE  u' \in [Writers -> Places]
    BY <1>4, <1>5
  <1>6. ASSUME NEW w \in Writers, NEW result \in {"nil", "error"}, Return(w, result)
        PROVE  u' \in [Writers -> Places]
    <2>1. [pc |-> "done", result |-> result] \in Places
      BY DEF Places
    <2> QED
      BY <1>5, <1>6, <2>1 DEF Return
  <1>7. ASSUME NEW w \in Writers, NEW op \in Updates, Call(w, op)
        PROVE  u' \in [Writers -> Places]
    <2>1. [pc |-> "get", op |-> op, since |-> Len(log), round |-> 1] \in Places
      BY <1>3, <1>4 DEF Places
    <2> QED
      BY <1>5, <1>7, <2>1 DEF Call
  <1>8. ASSUME NEW w \in Writers, u[w].pc \in {"get", "put"}
        PROVE  u[w].op \in Updates /\ u[w].since \in Nat /\ u[w].round \in 1..Rounds
    BY <1>4, <1>8 DEF Places, Idle
  <1>9. ASSUME NEW w \in Writers, Get(w)
        PROVE  u' \in [Writers -> Places]
    <2>1. [pc |-> "put", op |-> u[w].op, since |-> u[w].since, round |-> u[w].round,
           seen |-> doc, etag |-> Len(log)] \in Places
      BY <1>4, <1>8, <1>9 DEF Get, Places
    <2> QED
      BY <1>5, <1>6, <1>9, <2>1 DEF Get
  <1>10. ASSUME NEW w \in Writers, Conflict(w)
         PROVE  u' \in [Writers -> Places]
    <2>1. CASE u[w].round < Rounds /\ u' = [u EXCEPT ![w] = Again(w)]
      <3>1. u[w].round + 1 \in 1..Rounds
        BY <1>3, <1>8, <1>10, <2>1 DEF Conflict
      <3>2. Again(w) \in Places
        BY <1>8, <1>10, <3>1 DEF Again, Places, Conflict
      <3> QED
        BY <1>5, <2>1, <3>2
    <2>2. CASE \E result \in {"nil", "error"} : Return(w, result)
      BY <1>6, <2>2
    <2> QED
      BY <1>10, <2>1, <2>2 DEF Conflict
  <1>11. ASSUME NEW w \in Writers, Put(w) \/ PutFails(w) \/ PutLost(w)
         PROVE  u' \in [Writers -> Places]
    <2>1. CASE u' = [x \in Writers |-> Idle]
      BY <2>1 DEF Places
    <2> QED
      BY <1>6, <1>11, <2>1 DEF Put, PutFails, PutLost
  <1>12. u' \in [Writers -> Places]
    BY <1>4, <1>7, <1>9, <1>10, <1>11 DEF Next, Step, OthersWrite, vars
  <1>13. TypeOK'
    BY <1>2, <1>3, <1>12 DEF TypeOK, Places
  <1> QED
    BY <1>1, <1>2, <1>13 DEF Typed

LEMMA InitTyped == Init => Typed
  <1> SUFFICES ASSUME Init PROVE Typed
    OBVIOUS
  <1>1. doc \in Documents /\ doc.errors = <<>> /\ doc.events = <<>> /\ log = <<>>
    <2> DEFINE none == [p \in Pvs |-> 0]
    <2>1. doc \in [kind : RdeKinds, pvs : {[p \in Pvs |-> 0]}, errors : {<<>>}, events : {<<>>}, others : {0}]
      BY DEF Init, EmptyDocuments
    <2>2. /\ doc.kind \in RdeKinds /\ doc.pvs = [p \in Pvs |-> 0] /\ doc.errors = <<>> /\ doc.events = <<>>
          /\ doc.others = 0
      BY <2>1
    <2>3. doc = [kind |-> doc.kind, pvs |-> none, errors |-> <<>>, events |-> <<>>, others |-> 0]
      BY <2>1
    <2>4. <<>> \in Seq(Topics) /\ none \in [Pvs -> Nat] /\ 0 \in Nat
      OBVIOUS
    <2>5. \A k \in RdeKinds :
              [kind |-> k, pvs |-> none, errors |-> <<>>, events |-> <<>>, others |-> 0] \in Documents
      BY <2>4, DocumentType
    <2>6. doc \in Documents
      <3> DEFINE k == doc.kind
      <3>1. k \in RdeKinds
        BY <2>2
      <3>2. doc = [kind |-> k, pvs |-> none, errors |-> <<>>, events |-> <<>>, others |-> 0]
        BY <2>3
      <3> HIDE DEF k
      <3> QED
        BY <2>5, <3>1, <3>2
    <2> QED
      BY <2>2, <2>6 DEF Init
  <1>2. u \in [Writers -> {Idle}]
    BY DEF Init
  <1>3. TypeOK
    BY <1>1, <1>2 DEF TypeOK
  <1> QED
    BY <1>1, <1>3, InitInv, WindowIsSane DEF Typed

(* Every variable of the updates has its type: no writer is ever in a      *)
(* round the loops of vcdsdk/defined_entity.go and disks.go do not have,   *)
(* and the document remains one of its kind.                               *)
THEOREM UpdateTypes == Spec => []TypeOK
  <1>1. Typed /\ [Next]_vars => Typed'
    BY StepTyped
  <1>2. Typed => TypeOK
    BY DEF Typed
  <1> QED
    BY <1>1, <1>2, InitTyped, PTL DEF Spec

----------------------------------------------------------------------------
(* The writes of a kind after one of them.                                 *)
After(i, k) == {j \in DOMAIN log : j > i /\ log[j].kind = k}

Ops == Updates \union {ByOthers}

LEMMA KindsOfOps ==
    \A op \in Ops : /\ op \in Updates <=> op.kind # "others"
                    /\ op = ByOthers <=> op.kind = "others"
                    /\ op \in Updates => op.kind \in PvKinds \union ReportKinds
  BY DEF Ops, Updates, ByOthers, PvKinds, ReportKinds

LEMMA LogGrows ==
    ASSUME log \in Seq(Ops), NEW op \in Ops, log' = Append(log, op)
    PROVE  /\ Len(log) \in Nat
           /\ DOMAIN log = 1..Len(log) /\ DOMAIN log' = 1..(Len(log) + 1)
           /\ \A i \in 1..Len(log) : log'[i] = log[i] /\ log[i] \in Ops
           /\ log'[Len(log) + 1] = op
  OBVIOUS

LEMMA AfterIsFinite ==
    ASSUME log \in Seq(Ops), NEW i, NEW k
    PROVE  IsFiniteSet(After(i, k)) /\ Cardinality(After(i, k)) \in Nat
  <1>1. Len(log) \in Nat /\ After(i, k) \subseteq 1..Len(log)
    BY DEF After
  <1>2. IsFiniteSet(1..Len(log))
    BY <1>1, FS_Interval
  <1> QED
    BY <1>1, <1>2, FS_Subset, FS_CardinalityType

(* A new write is after all the others.                                    *)
LEMMA AfterGrows ==
    ASSUME log \in Seq(Ops), NEW op \in Ops, log' = Append(log, op),
           NEW i \in 0..Len(log), NEW k
    PROVE  /\ After(i, k)' = IF op.kind = k THEN After(i, k) \union {Len(log) + 1} ELSE After(i, k)
           /\ Cardinality(After(i, k)') = IF op.kind = k THEN Cardinality(After(i, k)) + 1
                                          ELSE Cardinality(After(i, k))
  <1> DEFINE n == Len(log)
  <1>1. /\ n \in Nat /\ DOMAIN log = 1..n /\ DOMAIN log' = 1..(n + 1)
        /\ \A j \in 1..n : log'[j] = log[j]
        /\ log'[n + 1] = op
    BY LogGrows
  <1>2. n + 1 > i /\ n + 1 \notin 1..n /\ \A j \in 1..(n + 1) : j \in 1..n \/ j = n + 1
    BY <1>1
  <1> HIDE DEF n
  <1>3. After(i, k)' = IF op.kind = k THEN After(i, k) \union {n + 1} ELSE After(i, k)
    BY <1>1, <1>2 DEF After
  <1>4. n + 1 \notin After(i, k)
    BY <1>1, <1>2 DEF After
  <1>5. IsFiniteSet(After(i, k))
    BY AfterIsFinite
  <1>6. Cardinality(After(i, k) \union {n + 1}) = Cardinality(After(i, k)) + 1
    BY <1>4, <1>5, FS_AddElement
  <1> QED
    BY <1>3, <1>6 DEF n

(* Nothing is after the new write.                                         *)
LEMMA NothingAfter ==
    ASSUME log \in Seq(Ops), NEW op \in Ops, log' = Append(log, op),
           NEW m, m = Len(log) + 1, NEW k
    PROVE  After(m, k)' = {} /\ Cardinality(After(m, k)') = 0
  <1>0. Cardinality({}) = 0
    BY FS_EmptySet
  <1>1. m \in Nat /\ DOMAIN log' = 1..m
    BY LogGrows
  <1>2. \A j \in 1..m : ~(j > m)
    BY <1>1
  <1> QED
    BY <1>0, <1>1, <1>2 DEF After

----------------------------------------------------------------------------
(* The volume list.                                                        *)
Marks(k, p) == {i \in DOMAIN log : log[i].kind = k /\ log[i].about = p}

LastAdds(p) == \E i \in Marks("addPv", p) : \A j \in Marks("removePv", p) : j < i

ListOf(p) ==
    IF doc.kind = "native"
    THEN doc.pvs[p] + Cardinality(Marks("removePv", p)) = Cardinality(Marks("addPv", p))
    ELSE doc.pvs[p] \in {0, 1} /\ (doc.pvs[p] = 1 <=> LastAdds(p))

ListParts == /\ \A p \in Pvs : ListOf(p)
             /\ doc.others = Cardinality(After(0, "others"))

LEMMA ListFollowsParts == Typed => (ListFollowsUpdates <=> ListParts)
  <1> SUFFICES ASSUME Typed PROVE ListFollowsUpdates <=> ListParts
    OBVIOUS
  <1>1. log \in Seq(Ops)
    BY DEF Typed, TypeOK, Ops
  <1>2. Len(log) \in Nat /\ DOMAIN log = 1..Len(log) /\ \A i \in DOMAIN log : log[i] \in Ops
    BY <1>1
  <1>3. {i \in DOMAIN log : log[i] = ByOthers} = After(0, "others")
    <2>1. \A i \in DOMAIN log : i > 0 /\ (log[i] = ByOthers <=> log[i].kind = "others")
      BY <1>2, KindsOfOps
    <2> QED
      BY <2>1 DEF After
  <1> QED
    BY <1>3, Zenon DEF ListFollowsUpdates, ListParts, ListOf, LastAdds, Marks

(* A write is one more of the updates of its volume, and the last.         *)
LEMMA MarksGrow ==
    ASSUME log \in Seq(Ops), NEW op \in Ops, log' = Append(log, op), NEW p, NEW k
    PROVE  /\ IF op.kind = k /\ op.about = p
              THEN /\ Marks(k, p)' = Marks(k, p) \union {Len(log) + 1}
                   /\ Cardinality(Marks(k, p)') = Cardinality(Marks(k, p)) + 1
              ELSE Marks(k, p)' = Marks(k, p)
           /\ Marks(k, p) \subseteq 1..Len(log)
           /\ Cardinality(Marks(k, p)) \in Nat
  <1> DEFINE n == Len(log)
  <1>1. /\ n \in Nat /\ DOMAIN log = 1..n /\ DOMAIN log' = 1..(n + 1)
        /\ \A j \in 1..n : log'[j] = log[j]
        /\ log'[n + 1] = op
    BY LogGrows
  <1>2. n + 1 \notin 1..n /\ \A j \in 1..(n + 1) : j \in 1..n \/ j = n + 1
    BY <1>1
  <1>3. \A j \in 1..n : j \in 1..(n + 1)
    BY <1>1
  <1>4. n + 1 \in 1..(n + 1)
    BY <1>1
  <1>5. IsFiniteSet(1..n)
    BY <1>1, FS_Interval
  <1> HIDE DEF n
  <1>6. /\ Marks(k, p)' = IF op.kind = k /\ op.about = p THEN Marks(k, p) \union {n + 1}
                          ELSE Marks(k, p)
        /\ Marks(k, p) \subseteq 1..n
    BY <1>1, <1>2, <1>3, <1>4 DEF Marks
  <1>7. IsFiniteSet(Marks(k, p)) /\ Cardinality(Marks(k, p)) \in Nat
    BY <1>5, <1>6, FS_Subset, FS_CardinalityType
  <1>8. Cardinality(Marks(k, p) \union {n + 1}) = Cardinality(Marks(k, p)) + 1
    BY <1>2, <1>6, <1>7, FS_AddElement
  <1> QED
    BY <1>6, <1>7, <1>8 DEF n

(* In a CAPVCD entity the new write decides of its volume.                 *)
LEMMA LastGrows ==
    ASSUME log \in Seq(Ops), NEW op \in Ops, log' = Append(log, op), NEW p
    PROVE  LastAdds(p)' <=> IF op.kind \in PvKinds /\ op.about = p THEN op.kind = "addPv"
                            ELSE LastAdds(p)
  <1> DEFINE n == Len(log)
             adds == Marks("addPv", p)
             removes == Marks("removePv", p)
             adds2 == Marks("addPv", p)'
             removes2 == Marks("removePv", p)'
  <1>1. /\ n \in Nat
        /\ adds \subseteq 1..n /\ removes \subseteq 1..n
        /\ adds2 = IF op.kind = "addPv" /\ op.about = p THEN adds \union {n + 1} ELSE adds
        /\ removes2 = IF op.kind = "removePv" /\ op.about = p THEN removes \union {n + 1}
                      ELSE removes
    <2>1. n \in Nat
      OBVIOUS
    <2> HIDE DEF n
    <2> QED
      BY <2>1, MarksGrow DEF n
  <1>2. /\ LastAdds(p) <=> \E i \in adds : \A j \in removes : j < i
        /\ LastAdds(p)' <=> \E i \in adds2 : \A j \in removes2 : j < i
    BY DEF LastAdds
  <1> HIDE DEF n, adds, removes, adds2, removes2
  <1>3. CASE op.kind = "addPv" /\ op.about = p
    <2>1. n + 1 \in adds2 /\ \A j \in removes2 : j < n + 1
      BY <1>1, <1>3
    <2> QED
      BY <1>2, <1>3, <2>1 DEF PvKinds
  <1>4. CASE op.kind = "removePv" /\ op.about = p
    <2>1. n + 1 \in removes2 /\ \A i \in adds2 : ~(n + 1 < i)
      BY <1>1, <1>4
    <2> QED
      BY <1>2, <1>4, <2>1 DEF PvKinds
  <1>5. CASE ~(op.kind \in PvKinds /\ op.about = p)
    <2>1. adds2 = adds /\ removes2 = removes
      BY <1>1, <1>5 DEF PvKinds
    <2> QED
      BY <1>2, <1>5, <2>1
  <1> QED
    BY <1>3, <1>4, <1>5 DEF PvKinds

(* An update of the list, made on the document as it is.                   *)
LEMMA UpdateLists ==
    ASSUME log \in Seq(Ops), doc \in Documents, NEW op \in Updates, Due(op, doc),
           log' = Append(log, op), doc' = Changed(op, doc), NEW p \in Pvs, ListOf(p)
    PROVE  ListOf(p)'
  <1> DEFINE adds == Cardinality(Marks("addPv", p))
             removes == Cardinality(Marks("removePv", p))
             adds2 == Cardinality(Marks("addPv", p)')
             removes2 == Cardinality(Marks("removePv", p)')
             old == doc.pvs[p]
             new == doc'.pvs[p]
  <1>0. op \in Ops /\ (op.kind \in PvKinds => op.about \in Pvs)
    BY ChangedParts DEF Ops
  <1>1. /\ adds \in Nat /\ removes \in Nat
        /\ adds2 = IF op.kind = "addPv" /\ op.about = p THEN adds + 1 ELSE adds
        /\ removes2 = IF op.kind = "removePv" /\ op.about = p THEN removes + 1 ELSE removes
    <2>1. /\ adds \in Nat
          /\ adds2 = IF op.kind = "addPv" /\ op.about = p THEN adds + 1 ELSE adds
      BY <1>0, MarksGrow
    <2>2. /\ removes \in Nat
          /\ removes2 = IF op.kind = "removePv" /\ op.about = p THEN removes + 1 ELSE removes
      BY <1>0, MarksGrow
    <2> QED
      BY <2>1, <2>2
  <1>2. doc.pvs \in [Pvs -> Nat] /\ old \in Nat /\ doc'.kind = doc.kind
    <2>1. doc.pvs \in [Pvs -> Nat]
      BY DEF Documents
    <2>2. doc' = [kind |-> doc.kind, pvs |-> Changed(op, doc).pvs,
                  errors |-> Changed(op, doc).errors, events |-> Changed(op, doc).events,
                  others |-> doc.others]
      BY ChangedParts
    <2> QED
      BY <2>1, <2>2
  <1>3. doc'.pvs = IF op.kind = "addPv" THEN [doc.pvs EXCEPT ![op.about] = @ + 1]
                   ELSE IF op.kind # "removePv" THEN doc.pvs
                   ELSE IF doc.kind = "native"
                        THEN [doc.pvs EXCEPT ![op.about] = IF @ = 0 THEN 0 ELSE @ - 1]
                        ELSE [doc.pvs EXCEPT ![op.about] = 0]
    BY ChangedParts
  <1>4. new = IF op.kind = "addPv" /\ op.about = p THEN old + 1
              ELSE IF ~(op.kind = "removePv" /\ op.about = p) THEN old
              ELSE IF doc.kind = "native" THEN (IF old = 0 THEN 0 ELSE old - 1) ELSE 0
    BY <1>0, <1>2, <1>3 DEF PvKinds
  <1>5. /\ op.kind = "addPv" /\ op.about = p /\ doc.kind # "native" => old = 0
        /\ op.kind = "removePv" /\ op.about = p /\ doc.kind = "native" => old # 0
    BY <1>2 DEF Due, Supported, NotRequired
  <1>6. LastAdds(p)' <=> IF op.kind \in PvKinds /\ op.about = p THEN op.kind = "addPv"
                         ELSE LastAdds(p)
    BY <1>0, LastGrows
  <1>7. CASE doc.kind = "native"
    <2>1. old + removes = adds
      BY <1>7 DEF ListOf
    <2> HIDE DEF old, new, adds, removes, adds2, removes2
    <2>2. new + removes2 = adds2
      BY <1>1, <1>2, <1>4, <1>5, <1>7, <2>1
    <2> QED
      BY <1>2, <1>7, <2>2 DEF ListOf, new, adds2, removes2
  <1>8. CASE doc.kind # "native"
    <2>1. old \in {0, 1} /\ (old = 1 <=> LastAdds(p))
      BY <1>8 DEF ListOf
    <2> HIDE DEF old, new, adds, removes, adds2, removes2
    <2>2. new \in {0, 1} /\ (new = 1 <=> LastAdds(p)')
      <3>1. CASE op.kind = "addPv" /\ op.about = p
        BY <1>4, <1>5, <1>6, <1>8, <2>1, <3>1 DEF PvKinds
      <3>2. CASE op.kind = "removePv" /\ op.about = p
        BY <1>4, <1>6, <1>8, <3>2 DEF PvKinds
      <3>3. CASE ~(op.kind \in PvKinds /\ op.about = p)
        BY <1>4, <1>6, <2>1, <3>3 DEF PvKinds
      <3> QED
        BY <3>1, <3>2, <3>3 DEF PvKinds
    <2> QED
      BY <1>2, <1>8, <2>2 DEF ListOf, new
  <1> QED
    BY <1>7, <1>8

LEMMA StepList ==
    ASSUME Typed, ListFollowsUpdates, [Next]_vars
    PROVE  ListFollowsUpdates'
  <1>1. Typed' /\ DocumentSteps
    BY StepTyped, StepDocument DEF Typed
  <1>2. log \in Seq(Ops) /\ doc \in Documents
    BY DEF Typed, TypeOK, Ops
  <1>3. ListParts
    BY ListFollowsParts
  <1>4. Typed' => (ListFollowsUpdates' <=> ListParts')
    BY ListFollowsParts, PTL
  <1>5. ASSUME NEW op \in Ops, log' = Append(log, op)
        PROVE  Cardinality(After(0, "others")') =
                   IF op = ByOthers THEN doc.others + 1 ELSE doc.others
    <2>1. 0 \in 0..Len(log)
      BY <1>2
    <2> QED
      BY <1>2, <1>3, <1>5, <2>1, AfterGrows, KindsOfOps DEF ListParts
  <1>6. ASSUME UNCHANGED <<doc, log>> PROVE ListParts'
    BY <1>3, <1>6 DEF ListParts, ListOf, LastAdds, Marks, After
  <1>7. ASSUME NEW op \in Updates, Due(op, doc), Accept(op, Changed(op, doc))
        PROVE  ListParts'
    <2>1. op \in Ops /\ log' = Append(log, op) /\ doc' = Changed(op, doc) /\ op # ByOthers
      BY <1>7, KindsOfOps DEF Accept, Ops
    <2>2. doc'.others = doc.others
      BY <1>2, <2>1, ChangedType DEF Typed
    <2>3. \A p \in Pvs : ListOf(p)'
      BY <1>2, <1>3, <1>7, <2>1, UpdateLists DEF ListParts
    <2> QED
      BY <1>5, <2>1, <2>2, <2>3 DEF ListParts
  <1>8. ASSUME Accept(ByOthers, [doc EXCEPT !.others = @ + 1]) PROVE ListParts'
    <2>1. ByOthers \in Ops /\ log' = Append(log, ByOthers) /\ ByOthers.kind = "others"
      BY <1>8 DEF Accept, Ops, ByOthers
    <2>2. doc'.others = doc.others + 1 /\ doc'.pvs = doc.pvs /\ doc'.kind = doc.kind
      BY <1>2, <1>8 DEF Accept, Documents
    <2>3. \A p \in Pvs : LastAdds(p)' <=> LastAdds(p)
      BY <1>2, <2>1, LastGrows DEF PvKinds
    <2>4. \A p \in Pvs, k \in PvKinds : Marks(k, p)' = Marks(k, p)
      BY <1>2, <2>1, MarksGrow DEF PvKinds
    <2>5. ASSUME NEW p \in Pvs PROVE ListOf(p)'
      <3>1. ListOf(p)
        BY <1>3 DEF ListParts
      <3>2. Marks("addPv", p)' = Marks("addPv", p) /\ Marks("removePv", p)' = Marks("removePv", p)
        BY <2>4 DEF PvKinds
      <3> QED
        BY <2>2, <2>3, <3>1, <3>2, Zenon DEF ListOf
    <2> QED
      BY <1>5, <2>1, <2>2, <2>5 DEF ListParts
  <1> QED
    BY <1>1, <1>4, <1>6, <1>7, <1>8 DEF DocumentSteps

(* The volume list of the RDE follows the accepted updates of each volume: *)
(* in a CAPVCD entity the last of them decides, a native one has an entry  *)
(* for every time the volume was added and not removed; and the part other *)
(* programs keep follows theirs, whoever reads, changes and writes the     *)
(* document in between (AddToVCDResourceSet, RemoveFromVCDResourceSet,     *)
(* addPvToRDE and removePvFromRDE).                                        *)
THEOREM ListFollows == Spec => []ListFollowsUpdates
  <1>1. Init => ListFollowsUpdates
    <2> SUFFICES ASSUME Init PROVE ListFollowsUpdates
      OBVIOUS
    <2>1. doc.pvs = [p \in Pvs |-> 0] /\ doc.others = 0 /\ DOMAIN log = {}
      BY DEF Init, EmptyDocuments
    <2>2. {i \in DOMAIN log : log[i] = ByOthers} = {} /\ \A k, p : Marks(k, p) = {}
      BY <2>1 DEF Marks
    <2>3. Cardinality({}) = 0
      BY FS_EmptySet
    <2>4. Cardinality({i \in DOMAIN log : log[i] = ByOthers}) = 0
      BY <2>2, <2>3
    <2>5. ASSUME NEW p \in Pvs PROVE ListOf(p)
      <3>1. doc.pvs[p] = 0
        BY <2>1
      <3>2. Marks("addPv", p) = {} /\ Marks("removePv", p) = {}
        BY <2>2
      <3>3. ~LastAdds(p)
        BY <3>2 DEF LastAdds
      <3>4. doc.pvs[p] + Cardinality(Marks("removePv", p)) = Cardinality(Marks("addPv", p))
        BY <2>3, <3>1, <3>2
      <3> QED
        BY <3>1, <3>3, <3>4 DEF ListOf
    <2> QED
      BY <2>1, <2>4, <2>5, Zenon DEF ListFollowsUpdates, ListOf, LastAdds, Marks
  <1>2. Typed /\ [Next]_vars => Typed'
    BY StepTyped
  <1>3. Typed /\ ListFollowsUpdates /\ [Next]_vars => ListFollowsUpdates'
    BY StepList
  <1> QED
    BY <1>1, <1>2, <1>3, InitTyped, PTL DEF Spec

----------------------------------------------------------------------------
(* The rolling windows.                                                    *)
WindowParts ==
    /\ Len(doc.errors) <= Window
    /\ Len(doc.events) = IF Cardinality(After(0, "addEvent")) < Window
                         THEN Cardinality(After(0, "addEvent")) ELSE Window

LEMMA WindowsParts == Typed => (WindowsAreKept <=> WindowParts)
  <1> SUFFICES ASSUME Typed PROVE WindowsAreKept <=> WindowParts
    OBVIOUS
  <1>1. log \in Seq(Ops)
    BY DEF Typed, TypeOK, Ops
  <1>2. \A i \in DOMAIN log : i > 0
    BY <1>1
  <1>3. {i \in DOMAIN log : log[i].kind = "addEvent"} = After(0, "addEvent")
    BY <1>2 DEF After
  <1> QED
    BY <1>3 DEF WindowsAreKept, WindowParts

LEMMA StepWindows ==
    ASSUME Typed, WindowsAreKept, [Next]_vars
    PROVE  WindowsAreKept'
  <1>1. Typed' /\ DocumentSteps
    BY StepTyped, StepDocument DEF Typed
  <1>2. log \in Seq(Ops) /\ doc \in Documents /\ doc.events \in Seq(Topics)
    BY DEF Typed, TypeOK, Ops, Documents
  <1>3. WindowParts
    BY WindowsParts
  <1>4. Typed' => (WindowsAreKept' <=> WindowParts')
    BY WindowsParts, PTL
  <1>5. Len(doc'.errors) <= Window
    BY <1>1 DEF Typed
  <1>6. /\ 0 \in 0..Len(log)
        /\ Window \in Nat /\ Cardinality(After(0, "addEvent")) \in Nat
    BY <1>2, AfterIsFinite, WindowIsSane
  <1>7. ASSUME NEW op \in Ops, log' = Append(log, op),
               doc'.events = IF op.kind = "addEvent" THEN Rolled(doc.events, op.about)
                             ELSE doc.events,
               op.kind = "addEvent" => op.about \in Topics
        PROVE  WindowParts'
    <2>1. CASE op.kind = "addEvent"
      <3>1. Cardinality(After(0, "addEvent")') = Cardinality(After(0, "addEvent")) + 1
        BY <1>2, <1>6, <1>7, <2>1, AfterGrows
      <3>2. Len(doc.events) <= Window /\ Len(doc.events) \in Nat
        BY <1>2 DEF Typed
      <3>3. Len(doc'.events) = IF Len(doc.events) < Window THEN Len(doc.events) + 1 ELSE Window
        BY <1>2, <1>7, <2>1, <3>2, RolledProperties
      <3> QED
        BY <1>3, <1>5, <1>6, <3>1, <3>2, <3>3 DEF WindowParts
    <2>2. CASE op.kind # "addEvent"
      <3>1. Cardinality(After(0, "addEvent")') = Cardinality(After(0, "addEvent"))
        BY <1>2, <1>6, <1>7, <2>2, AfterGrows
      <3> QED
        BY <1>3, <1>5, <1>7, <2>2, <3>1 DEF WindowParts
    <2> QED
      BY <2>1, <2>2
  <1>8. ASSUME UNCHANGED <<doc, log>> PROVE WindowParts'
    BY <1>3, <1>8 DEF WindowParts, After
  <1>9. ASSUME NEW op \in Updates, Accept(op, Changed(op, doc))
        PROVE  WindowParts'
    <2>1. op \in Ops /\ log' = Append(log, op) /\ doc' = Changed(op, doc)
      BY <1>9 DEF Accept, Ops
    <2>2. op.kind = "addEvent" => op.about \in Topics
      BY <1>2, ChangedParts DEF ReportKinds
    <2>3. doc'.events = IF op.kind = "addEvent" THEN Rolled(doc.events, op.about) ELSE doc.events
      BY <1>2, <2>1, ChangedParts
    <2> QED
      BY <1>7, <2>1, <2>2, <2>3
  <1>10. ASSUME Accept(ByOthers, [doc EXCEPT !.others = @ + 1]) PROVE WindowParts'
    <2>1. /\ ByOthers \in Ops /\ log' = Append(log, ByOthers) /\ ByOthers.kind = "others"
          /\ doc'.events = doc.events
      BY <1>2, <1>10 DEF Accept, Ops, ByOthers, Documents
    <2> QED
      BY <1>7, <2>1
  <1> QED
    BY <1>1, <1>4, <1>8, <1>9, <1>10 DEF DocumentSteps

(* The error set never exceeds the window, and the event set is as long as *)
(* the events that were reported, until it is full (the rolling windows of *)
(* vcdsdk/defined_entity.go:407-409), for any number of writers.           *)
THEOREM WindowsHold == Spec => []WindowsAreKept
  <1>1. Init => WindowsAreKept
    <2> SUFFICES ASSUME Init PROVE WindowsAreKept
      OBVIOUS
    <2>1. doc.errors = <<>> /\ doc.events = <<>> /\ DOMAIN log = {}
      BY DEF Init, EmptyDocuments
    <2>2. {i \in DOMAIN log : log[i].kind = "addEvent"} = {}
      BY <2>1
    <2>3. Cardinality({}) = 0
      BY FS_EmptySet
    <2> QED
      BY <2>1, <2>2, <2>3, WindowIsSane DEF WindowsAreKept
  <1>2. Typed /\ [Next]_vars => Typed'
    BY StepTyped
  <1>3. Typed /\ WindowsAreKept /\ [Next]_vars => WindowsAreKept'
    BY StepWindows
  <1> QED
    BY <1>1, <1>2, <1>3, InitTyped, PTL DEF Spec

----------------------------------------------------------------------------
(* The error set.                                                          *)

(* The report that was the i-th write is recent and not cleared.           *)
Stands(i, t) ==
    /\ log[i].kind = "addError" /\ log[i].about = t
    /\ Cardinality(After(i, "addError")) < Window
    /\ \A j \in After(i, "removeError") : log[j].about # t

(* The topic is not reported again after the i-th write cleared it.        *)
Cleared(i, t) ==
    /\ log[i].kind = "removeError" /\ log[i].about = t
    /\ \A j \in After(i, "addError") : log[j].about # t

(* A report is no further from the end of the error set than there were    *)
(* reports after it.                                                       *)
Reports ==
    \A i \in DOMAIN log : \A t \in Topics :
        /\ Stands(i, t) => \E k \in 1..Len(doc.errors) :
               /\ doc.errors[k] = t
               /\ Len(doc.errors) - k <= Cardinality(After(i, "addError"))
        /\ Cleared(i, t) => \A k \in 1..Len(doc.errors) : doc.errors[k] # t

LEMMA ReportsAreListed == Typed /\ Reports => RecentReportsAreListed
  <1> SUFFICES ASSUME Typed, Reports, NEW i \in DOMAIN log, NEW t \in Topics
               PROVE  /\ /\ log[i] = [kind |-> "addError", about |-> t]
                         /\ Cardinality(After(i, "addError")) < Window
                         /\ \A j \in After(i, "removeError") : log[j].about # t
                         => Has(doc.errors, t)
                      /\ /\ log[i] = [kind |-> "removeError", about |-> t]
                         /\ \A j \in After(i, "addError") : log[j].about # t
                         => ~Has(doc.errors, t)
    BY DEF RecentReportsAreListed, After
  <1>1. doc.errors \in Seq(Topics)
    BY DEF Typed, TypeOK, Documents
  <1>2. DOMAIN doc.errors = 1..Len(doc.errors)
    BY <1>1
  <1> QED
    BY <1>2 DEF Reports, Stands, Cleared, Has

(* A new write keeps what is known of the writes before it ...             *)
LEMMA OldReports ==
    ASSUME log \in Seq(Ops), NEW op \in Ops, log' = Append(log, op),
           NEW i \in 1..Len(log), NEW t
    PROVE  /\ Stands(i, t)' => /\ Stands(i, t)
                               /\ Cardinality(After(i, "addError")') < Window
                               /\ op.kind = "removeError" => op.about # t
           /\ Cleared(i, t)' => Cleared(i, t) /\ (op.kind = "addError" => op.about # t)
  <1> DEFINE m == Len(log) + 1
  <1>1. /\ i \in 0..Len(log) /\ log'[i] = log[i] /\ log'[m] = op
        /\ \A j \in DOMAIN log : log'[j] = log[j]
    BY LogGrows
  <1>2. \A k : /\ After(i, k)' = IF op.kind = k THEN After(i, k) \union {m} ELSE After(i, k)
               /\ Cardinality(After(i, k)') = IF op.kind = k THEN Cardinality(After(i, k)) + 1
                                              ELSE Cardinality(After(i, k))
               /\ Cardinality(After(i, k)) \in Nat
    BY <1>1, AfterGrows, AfterIsFinite
  <1>3. \A k : /\ \A j \in After(i, k) : j \in After(i, k)' /\ log'[j] = log[j]
               /\ op.kind = k => m \in After(i, k)'
               /\ Cardinality(After(i, k)) <= Cardinality(After(i, k)')
               /\ Cardinality(After(i, k)') \in Nat
    <2> SUFFICES ASSUME NEW k
                 PROVE  /\ \A j \in After(i, k) : j \in After(i, k)' /\ log'[j] = log[j]
                        /\ op.kind = k => m \in After(i, k)'
                        /\ Cardinality(After(i, k)) <= Cardinality(After(i, k)')
                        /\ Cardinality(After(i, k)') \in Nat
      OBVIOUS
    <2>1. \A j \in After(i, k) : log'[j] = log[j]
      BY <1>1 DEF After
    <2> DEFINE old == After(i, k)
               new == After(i, k)'
    <2>2. /\ new = IF op.kind = k THEN old \union {m} ELSE old
          /\ Cardinality(new) = IF op.kind = k THEN Cardinality(old) + 1 ELSE Cardinality(old)
          /\ Cardinality(old) \in Nat
      BY <1>2
    <2> HIDE DEF m, old, new
    <2>3. /\ \A j \in old : j \in new
          /\ op.kind = k => m \in new
          /\ Cardinality(old) <= Cardinality(new)
          /\ Cardinality(new) \in Nat
      BY <2>2
    <2> QED
      BY <2>1, <2>3 DEF old, new
  <1> HIDE DEF m
  <1>4. ASSUME Stands(i, t)'
        PROVE  /\ Stands(i, t)
               /\ Cardinality(After(i, "addError")') < Window
               /\ op.kind = "removeError" => op.about # t
    <2>1. /\ log'[i].kind = "addError" /\ log'[i].about = t
          /\ Cardinality(After(i, "addError")') < Window
          /\ \A j \in After(i, "removeError")' : log'[j].about # t
      BY <1>4 DEF Stands
    <2>2. Cardinality(After(i, "addError")) < Window
      BY <1>2, <1>3, <2>1, WindowIsSane
    <2> QED
      BY <1>1, <1>3, <2>1, <2>2 DEF Stands
  <1>5. ASSUME Cleared(i, t)'
        PROVE  Cleared(i, t) /\ (op.kind = "addError" => op.about # t)
    <2>1. /\ log'[i].kind = "removeError" /\ log'[i].about = t
          /\ \A j \in After(i, "addError")' : log'[j].about # t
      BY <1>5 DEF Cleared
    <2> QED
      BY <1>1, <1>3, <2>1 DEF Cleared
  <1> QED
    BY <1>4, <1>5

(* ... and of itself, if it is a report or clears one.                     *)
LEMMA WriteReports ==
    ASSUME Typed, Reports, NEW op \in Ops, log' = Append(log, op),
           doc'.errors = IF op.kind = "addError" THEN Rolled(doc.errors, op.about)
                         ELSE IF op.kind = "removeError" THEN Without(doc.errors, op.about)
                         ELSE doc.errors,
           op.kind = "addError" => op.about \in Topics
    PROVE  Reports'
  <1> DEFINE e == doc.errors
             m == Len(log) + 1
  <1>1. log \in Seq(Ops) /\ e \in Seq(Topics) /\ Len(e) <= Window
    BY DEF Typed, TypeOK, Ops, Documents
  <1>2. /\ Len(log) \in Nat /\ DOMAIN log = 1..Len(log) /\ DOMAIN log' = 1..m
        /\ m \in Nat /\ \A i \in 1..m : i \in 1..Len(log) \/ i = m
        /\ log'[m] = op
    BY <1>1, LogGrows
  <1>3. Len(e) \in Nat /\ Window \in Nat /\ Window >= 1
    BY <1>1, WindowIsSane
  <1>4. ASSUME op.kind = "addError"
        PROVE  /\ doc'.errors \in Seq(Topics) /\ Len(doc'.errors) \in Nat /\ Len(doc'.errors) >= 1
               /\ doc'.errors[Len(doc'.errors)] = op.about
               /\ \A k \in 1..Len(doc'.errors) :
                      doc'.errors[k] = op.about \/ \E x \in 1..Len(e) : doc'.errors[k] = e[x]
               /\ \A x \in 1..Len(e) : Len(e) < Window \/ x > 1 =>
                      \E k \in 1..Len(doc'.errors) :
                          doc'.errors[k] = e[x] /\ Len(doc'.errors) - k = Len(e) - x + 1
    <2> DEFINE r == Rolled(e, op.about)
    <2>1. /\ r \in Seq(Topics)
          /\ Len(r) = IF Len(e) < Window THEN Len(e) + 1 ELSE Window
          /\ r[Len(r)] = op.about
          /\ \A k \in 1..Len(r) : r[k] = op.about \/ \E x \in 1..Len(e) : r[k] = e[x]
          /\ \A x \in 1..Len(e) : Len(e) < Window \/ x > 1 =>
                 \E k \in 1..Len(r) : r[k] = e[x] /\ Len(r) - k = Len(e) - x + 1
      BY <1>1, <1>4, RolledProperties
    <2>2. doc'.errors = r
      BY <1>4
    <2> HIDE DEF r, e
    <2>3. Len(r) \in Nat /\ Len(r) >= 1
      BY <1>3, <2>1
    <2> QED
      BY <2>1, <2>2, <2>3
  <1>5. ASSUME op.kind = "removeError"
        PROVE  /\ \A k \in 1..Len(doc'.errors) :
                      \E x \in 1..Len(e) : e[x] # op.about /\ doc'.errors[k] = e[x]
               /\ \A x \in 1..Len(e) : e[x] # op.about =>
                      \E k \in 1..Len(doc'.errors) :
                          doc'.errors[k] = e[x] /\ Len(doc'.errors) - k <= Len(e) - x
               /\ Len(doc'.errors) \in Nat
    <2> DEFINE r == Without(e, op.about)
    <2>1. doc'.errors = r
      BY <1>5
    <2>2. /\ r \in Seq(Topics)
          /\ \A k \in 1..Len(r) : \E x \in 1..Len(e) : e[x] # op.about /\ r[k] = e[x]
          /\ \A x \in 1..Len(e) : e[x] # op.about =>
                 \E k \in 1..Len(r) : r[k] = e[x] /\ Len(r) - k <= Len(e) - x
      <3>0. e \in Seq(Topics)
        BY <1>1
      <3> HIDE DEF e
      <3>1. ASSUME NEW about
            PROVE  /\ Without(e, about) \in Seq(Topics)
                   /\ \A k \in 1..Len(Without(e, about)) :
                          \E x \in 1..Len(e) : e[x] # about /\ Without(e, about)[k] = e[x]
                   /\ \A x \in 1..Len(e) : e[x] # about =>
                          \E k \in 1..Len(Without(e, about)) :
                              /\ Without(e, about)[k] = e[x]
                              /\ Len(Without(e, about)) - k <= Len(e) - x
        <4>1. Without(e, about) \in Seq(Topics)
          BY <3>0, WithoutProperties
        <4>2. \A k \in 1..Len(Without(e, about)) :
                          \E x \in 1..Len(e) : e[x] # about /\ Without(e, about)[k] = e[x]
          BY <3>0, WithoutProperties
        <4>3. \A x \in 1..Len(e) : e[x] # about =>
                          \E k \in 1..Len(Without(e, about)) :
                              /\ Without(e, about)[k] = e[x]
                              /\ Len(Without(e, about)) - k <= Len(e) - x
          BY <3>0, WithoutProperties
        <4> QED BY <4>1, <4>2, <4>3
      <3> QED
        BY <3>1, Zenon
    <2> HIDE DEF r, e
    <2>3. Len(r) \in Nat
      BY <2>2
    <2> QED
      BY <2>1, <2>2, <2>3
  <1>6. ASSUME op.kind \notin {"addError", "removeError"}
        PROVE  doc'.errors = e
    BY <1>6
  <1> HIDE DEF e
  <1>7. ASSUME NEW t \in Topics, NEW i, i = m
        PROVE  /\ Stands(i, t)' => \E k \in 1..Len(doc'.errors) :
                      /\ doc'.errors[k] = t
                      /\ Len(doc'.errors) - k <= Cardinality(After(i, "addError")')
               /\ Cleared(i, t)' => \A k \in 1..Len(doc'.errors) : doc'.errors[k] # t
    <2>1. Cardinality(After(i, "addError")') = 0 /\ log'[i] = op
      BY <1>1, <1>2, <1>7, NothingAfter
    <2>2. ASSUME Stands(i, t)'
          PROVE  \E k \in 1..Len(doc'.errors) :
                      /\ doc'.errors[k] = t
                      /\ Len(doc'.errors) - k <= Cardinality(After(i, "addError")')
      <3>1. op.kind = "addError" /\ op.about = t
        BY <2>1, <2>2 DEF Stands
      <3> DEFINE k == Len(doc'.errors)
      <3>2. k \in 1..Len(doc'.errors) /\ doc'.errors[k] = t /\ Len(doc'.errors) - k <= 0
        BY <1>4, <3>1
      <3> QED
        BY <2>1, <3>2
    <2>3. ASSUME Cleared(i, t)'
          PROVE  \A k \in 1..Len(doc'.errors) : doc'.errors[k] # t
      <3>1. op.kind = "removeError" /\ op.about = t
        BY <2>1, <2>3 DEF Cleared
      <3> QED
        BY <1>5, <3>1
    <2> QED
      BY <2>2, <2>3
  <1>8. ASSUME NEW t \in Topics, NEW i \in 1..Len(log), Stands(i, t)'
        PROVE  \E k \in 1..Len(doc'.errors) :
                   /\ doc'.errors[k] = t
                   /\ Len(doc'.errors) - k <= Cardinality(After(i, "addError")')
    <2>1. /\ Stands(i, t) /\ Cardinality(After(i, "addError")') < Window
          /\ op.kind = "removeError" => op.about # t
      BY <1>1, <1>8, OldReports
    <2>2. PICK x \in 1..Len(e) : e[x] = t /\ Len(e) - x <= Cardinality(After(i, "addError"))
      BY <1>2, <1>8, <2>1 DEF Reports, e
    <2>3. /\ Cardinality(After(i, "addError")') = IF op.kind = "addError"
                                                   THEN Cardinality(After(i, "addError")) + 1
                                                   ELSE Cardinality(After(i, "addError"))
          /\ Cardinality(After(i, "addError")) \in Nat
      BY <1>1, <1>2, <1>8, AfterGrows, AfterIsFinite
    <2>4. CASE op.kind = "addError"
      <3>1. Len(e) < Window \/ x > 1
        BY <1>1, <1>3, <2>1, <2>2, <2>3, <2>4
      <3>2. PICK k \in 1..Len(doc'.errors) :
                doc'.errors[k] = e[x] /\ Len(doc'.errors) - k = Len(e) - x + 1
        BY <1>4, <2>2, <2>4, <3>1
      <3>3. Len(doc'.errors) - k <= Cardinality(After(i, "addError")')
        BY <1>3, <2>2, <2>3, <2>4, <3>2
      <3> QED
        BY <2>2, <3>2, <3>3
    <2>5. CASE op.kind = "removeError"
      <3>1. e[x] # op.about
        BY <2>1, <2>2, <2>5
      <3>2. PICK k \in 1..Len(doc'.errors) :
                doc'.errors[k] = e[x] /\ Len(doc'.errors) - k <= Len(e) - x
        BY <1>5, <2>2, <2>5, <3>1
      <3>3. Len(doc'.errors) - k <= Cardinality(After(i, "addError")')
        BY <1>3, <1>5, <2>2, <2>3, <2>5, <3>2
      <3> QED
        BY <2>2, <3>2, <3>3
    <2>6. CASE op.kind \notin {"addError", "removeError"}
      BY <1>6, <2>2, <2>3, <2>6
    <2> QED
      BY <2>4, <2>5, <2>6
  <1>9. ASSUME NEW t \in Topics, NEW i \in 1..Len(log), Cleared(i, t)'
        PROVE  \A k \in 1..Len(doc'.errors) : doc'.errors[k] # t
    <2>1. Cleared(i, t) /\ (op.kind = "addError" => op.about # t)
      BY <1>1, <1>9, OldReports
    <2>2. \A x \in 1..Len(e) : e[x] # t
      BY <1>2, <1>9, <2>1 DEF Reports, e
    <2>3. CASE op.kind = "addError"
      BY <1>4, <2>1, <2>2, <2>3
    <2>4. CASE op.kind = "removeError"
      <3> TAKE k \in 1..Len(doc'.errors)
      <3>1. PICK x \in 1..Len(e) : doc'.errors[k] = e[x]
        BY <1>5, <2>4
      <3> QED
        BY <2>2, <3>1
    <2>5. CASE op.kind \notin {"addError", "removeError"}
      BY <1>6, <2>2, <2>5
    <2> QED
      BY <2>3, <2>4, <2>5
  <1> QED
    BY <1>2, <1>7, <1>8, <1>9 DEF Reports

LEMMA StepReports ==
    ASSUME Typed, Reports, [Next]_vars
    PROVE  Reports'
  <1>1. DocumentSteps /\ doc \in Documents
    BY StepDocument DEF Typed, TypeOK
  <1>2. ASSUME UNCHANGED <<doc, log>> PROVE Reports'
    <2>1. doc' = doc /\ log' = log
      BY <1>2
    <2>2. \A i, k : After(i, k)' = After(i, k)
      BY <2>1 DEF After
    <2>3. \A i, t : (Stands(i, t)' <=> Stands(i, t)) /\ (Cleared(i, t)' <=> Cleared(i, t))
      BY <2>1, <2>2 DEF Stands, Cleared
    <2> QED
      BY <2>1, <2>2, <2>3 DEF Reports
  <1>3. ASSUME NEW op \in Updates, Accept(op, Changed(op, doc))
        PROVE  Reports'
    <2>1. op \in Ops /\ log' = Append(log, op) /\ doc' = Changed(op, doc)
      BY <1>3 DEF Accept, Ops
    <2>2. op.kind = "addError" => op.about \in Topics
      BY <1>1, ChangedParts DEF ReportKinds
    <2>3. doc'.errors = IF op.kind = "addError" THEN Rolled(doc.errors, op.about)
                        ELSE IF op.kind = "removeError" THEN Without(doc.errors, op.about)
                        ELSE doc.errors
      BY <1>1, <2>1, ChangedParts
    <2> QED
      BY <2>1, <2>2, <2>3, WriteReports
  <1>4. ASSUME Accept(ByOthers, [doc EXCEPT !.others = @ + 1]) PROVE Reports'
    <2>1. /\ ByOthers \in Ops /\ log' = Append(log, ByOthers) /\ ByOthers.kind = "others"
          /\ doc'.errors = doc.errors
      BY <1>1, <1>4 DEF Accept, Ops, ByOthers, Documents
    <2> QED
      BY <2>1, WriteReports
  <1> QED
    BY <1>1, <1>2, <1>3, <1>4 DEF DocumentSteps

(* An error that was reported with nil is in the error set until Window    *)
(* later reports have come or its topic is cleared, and a topic that was   *)
(* cleared is not, whoever else updated the document in between            *)
(* (AddToErrorSet and RemoveErrorByNameOrIdFromErrorSet, with the etag of  *)
(* vcdsdk/defined_entity.go:199-201).                                      *)
THEOREM ReportsStay == Spec => []RecentReportsAreListed
  <1>1. Init => Reports
    <2> SUFFICES ASSUME Init PROVE Reports
      OBVIOUS
    <2>1. DOMAIN log = {}
      BY DEF Init
    <2> QED
      BY <2>1 DEF Reports
  <1>2. Typed /\ [Next]_vars => Typed'
    BY StepTyped
  <1>3. Typed /\ Reports /\ [Next]_vars => Reports'
    BY StepReports
  <1> QED
    BY <1>1, <1>2, <1>3, InitTyped, ReportsAreListed, PTL DEF Spec
=============================================================================
