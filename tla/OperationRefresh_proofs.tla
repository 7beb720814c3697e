---------------------- MODULE OperationRefresh_proofs ----------------------
(***************************************************************************)
(* Proofs about OperationRefresh, for any number of instances, zones,      *)
(* scopes, operations and timers.                                          *)
(***************************************************************************)
EXTENDS OperationRefresh, FiniteSetTheorems, TLAPS

\* A slot is determined by its instance and its target.
LEMMA SlotFacts ==
    /\ \A x \in Slots : x[1] \in Instances /\ x[2] \in Targets
    /\ \A i \in Instances, k \in Targets : <<i, k>> \in Slots
    /\ \A x, y \in Slots : x[1] = y[1] /\ x[2] = y[2] => x = y
  BY DEF Slots

\* A handler that begins a second target has begun its own before.
LEMMA BeginsTwice == \A h \in Handlers : h.ptr = "begins" => h.begins = "first"
<1>1. ScopeHandler.ptr = "none" /\ ZoneHandler.ptr = "none" /\ ZoneHandler.begins = "first"
  BY DEF ScopeHandler, ZoneHandler
<1>2. /\ createScope.ptr = "none" /\ deleteScope.ptr = "none"
      /\ createReservation.ptr = "none" /\ updateReservation.ptr = "none"
  BY DEF ScopeHandler, createScope, deleteScope, createReservation,
         updateReservation
<1>3. /\ createZone.ptr = "none" /\ deleteZone.ptr = "none"
      /\ createDNSRecord.ptr = "marks" /\ deleteDNSRecord.ptr = "marks"
      /\ updateDNSRecord.begins = "first"
  BY DEF ZoneHandler, createZone, deleteZone, createDNSRecord,
         deleteDNSRecord, updateDNSRecord
<1> QED
  BY <1>1, <1>2, <1>3
  DEF Handlers, updateScope, toggleScope, deleteLease, deleteReservation,
      createExclusion, deleteExclusion

-----------------------------------------------------------------------------
(***************************************************************************)
(* Type correctness.                                                       *)
(***************************************************************************)

\* The four operations of the scheduler keep the type of the entries.
LEMMA TypeEntry ==
    ASSUME TypeOK, NEW x \in Slots, begin(x) \/ finish(x) \/ markDirty(x)
    PROVE  /\ present' \in [Slots -> BOOLEAN]
           /\ active' \in [Slots -> Nat]
           /\ dirty' \in [Slots -> BOOLEAN]
           /\ armed' \in [Slots -> BOOLEAN]
           /\ orphans' \in [Slots -> Nat]
<1> USE DEF TypeOK
<1>1. CASE begin(x)
  BY <1>1 DEF begin
<1>2. CASE finish(x)
  <2>1. PICK left \in Nat, due \in BOOLEAN :
          /\ active' = active \/ active' = [active EXCEPT ![x] = left]
          /\ armed' = armed \/ armed' = [armed EXCEPT ![x] = due]
    <3>1. (IF active[x] > 0 THEN active[x] - 1 ELSE 0) \in Nat
      OBVIOUS
    <3> DEFINE left == IF active[x] > 0 THEN active[x] - 1 ELSE 0
               due == armed[x] \/ (left = 0 /\ dirty[x])
    <3>2. /\ active' = active \/ active' = [active EXCEPT ![x] = left]
          /\ armed' = armed \/ armed' = [armed EXCEPT ![x] = due]
      BY <1>2 DEF finish
    <3>3. due \in BOOLEAN
      OBVIOUS
    <3> QED
      BY <3>1, <3>2, <3>3
  <2> QED
    BY <1>2, <2>1 DEF finish
<1>3. CASE markDirty(x)
  <2>1. armed' = [armed EXCEPT ![x] = armed[x] \/ active[x] = 0]
    BY <1>3 DEF markDirty
  <2> QED
    BY <1>3, <2>1 DEF markDirty
<1> QED
  BY <1>1, <1>2, <1>3

\* The state of one handler is replaced by another well-typed one.
LEMMA TypeOp ==
    ASSUME TypeOK, NEW o \in Ops, NEW pc \in OpPCs,
           NEW held \in SUBSET Targets, NEW todo \in SUBSET Targets
    PROVE  LET OpTypes == [Ops -> [pc : OpPCs, handler : Handlers, at : Slots,
                                   held : SUBSET Targets, todo : SUBSET Targets]]
           IN  /\ [op EXCEPT ![o].pc = pc] \in OpTypes
               /\ [op EXCEPT ![o].held = held] \in OpTypes
               /\ [op EXCEPT ![o].pc = pc, ![o].held = held] \in OpTypes
               /\ [op EXCEPT ![o].pc = pc, ![o].todo = todo] \in OpTypes
               /\ [op EXCEPT ![o].todo = todo, ![o].pc = pc] \in OpTypes
<1> DEFINE Rec == [pc : OpPCs, handler : Handlers, at : Slots,
                   held : SUBSET Targets, todo : SUBSET Targets]
<1>1. op \in [Ops -> Rec]
  BY DEF TypeOK
<1> HIDE DEF Rec
<1>2. ASSUME NEW f \in [Ops -> Rec] PROVE [f EXCEPT ![o].pc = pc] \in [Ops -> Rec]
  <2>1. [f[o] EXCEPT !.pc = pc] \in Rec
    BY DEF Rec
  <2> QED
    BY <2>1
<1>3. ASSUME NEW f \in [Ops -> Rec] PROVE [f EXCEPT ![o].held = held] \in [Ops -> Rec]
  <2>1. [f[o] EXCEPT !.held = held] \in Rec
    BY DEF Rec
  <2> QED
    BY <2>1
<1>4. ASSUME NEW f \in [Ops -> Rec] PROVE [f EXCEPT ![o].todo = todo] \in [Ops -> Rec]
  <2>1. [f[o] EXCEPT !.todo = todo] \in Rec
    BY DEF Rec
  <2> QED
    BY <2>1
<1>5. /\ [op EXCEPT ![o].pc = pc, ![o].held = held] \in [Ops -> Rec]
      /\ [op EXCEPT ![o].pc = pc, ![o].todo = todo] \in [Ops -> Rec]
  BY <1>1, <1>2, <1>3, <1>4
<1>6. [op EXCEPT ![o].todo = todo, ![o].pc = pc] \in [Ops -> Rec]
  BY <1>1, <1>2, <1>4
<1> QED
  BY <1>1, <1>2, <1>3, <1>5, <1>6 DEF Rec

\* The initial state is well typed.
LEMMA TypeInit == Init => TypeOK
<1> SUFFICES ASSUME Init PROVE TypeOK
  OBVIOUS
<1>1. (CHOOSE x \in Slots : TRUE) \in Slots
  <2>1. \E i \in Instances, k \in Targets : TRUE
    BY SlotsAssumption
  <2>2. \E x \in Slots : TRUE
    BY <2>1, SlotFacts
  <2> QED
    BY <2>2
<1>2. createZone \in Handlers
  BY DEF Handlers
<1>3. op \in [Ops -> [pc : OpPCs, handler : Handlers, at : Slots,
                     held : SUBSET Targets, todo : SUBSET Targets]]
  BY <1>1, <1>2 DEF Init, OpPCs
<1>4. fire \in [Fires -> [pc : FirePCs, at : Slots, locked : BOOLEAN]]
  BY <1>1 DEF Init, FirePCs
<1> QED
  BY <1>3, <1>4 DEF Init, TypeOK

\* The steps of a handler keep the types.
LEMMA TypeOpStep ==
    ASSUME TypeOK, NEW o \in Ops, OpStep(o)
    PROVE  TypeOK'
<1> DEFINE OpTypes == [Ops -> [pc : OpPCs, handler : Handlers, at : Slots,
                               held : SUBSET Targets, todo : SUBSET Targets]]
<1>1. /\ op[o].at \in Slots /\ MyTarget(o) \in Targets
      /\ op[o].held \in SUBSET Targets /\ op[o].todo \in SUBSET Targets
      /\ \A k \in Targets : SlotOf(o, k) \in Slots
  BY SlotFacts DEF TypeOK, MyTarget, SlotOf
<1>2. {"idle", "begin", "call", "save", "dirty", "finish", "done"} \subseteq OpPCs
  BY DEF OpPCs
<1>3. ASSUME op' \in OpTypes, UNCHANGED <<fire, shared>>,
             UNCHANGED entry \/ \E x \in Slots : begin(x) \/ finish(x) \/ markDirty(x)
      PROVE  TypeOK'
  BY <1>3, TypeEntry DEF TypeOK, shared, entry
<1>4. CASE OpBegin(o)
  <2>1. op' \in OpTypes
    <3>1. PICK pc \in OpPCs :
            op' = [op EXCEPT ![o].pc = pc, ![o].held = {MyTarget(o)}]
      BY <1>4, <1>2 DEF OpBegin
    <3>2. {MyTarget(o)} \in SUBSET Targets
      BY <1>1
    <3> QED
      BY <3>1, <3>2, TypeOp
  <2> QED
    BY <1>4, <1>1, <1>3, <2>1 DEF OpBegin
<1>5. CASE OpCallOk(o)
  BY <1>5, <1>2, <1>3, TypeOp DEF OpCallOk, OpGoto
<1>6. CASE OpCallError(o)
  <2>1. op' \in OpTypes
    <3>1. {MyTarget(o)} \in SUBSET Targets
      BY <1>1
    <3>2. \/ op' = [op EXCEPT ![o].pc = "dirty", ![o].todo = {MyTarget(o)}]
          \/ op' = [op EXCEPT ![o].pc = "finish"]
      BY <1>6 DEF OpCallError
    <3>3. CASE op' = [op EXCEPT ![o].pc = "dirty", ![o].todo = {MyTarget(o)}]
      BY <3>1, <3>3, <1>2, TypeOp
    <3>4. CASE op' = [op EXCEPT ![o].pc = "finish"]
      BY <3>4, <1>2, TypeOp
    <3> QED
      BY <3>2, <3>3, <3>4
  <2> QED
    BY <1>6, <1>3, <2>1 DEF OpCallError
<1>7. CASE OpSave(o)
  <2>1. \A S \in SUBSET Reverse[MyTarget(o)] : {MyTarget(o)} \cup S \in SUBSET Targets
    BY <1>1, ReverseAssumption DEF Targets
  <2>2. op' \in OpTypes
    <3>1. \/ \E S \in SUBSET Reverse[MyTarget(o)] :
               op' = [op EXCEPT ![o].pc = "dirty",
                                ![o].todo = {MyTarget(o)} \cup S]
          \/ op' = [op EXCEPT ![o].pc = "finish"]
      BY <1>7 DEF OpSave, OpGoto
    <3>2. ASSUME NEW S \in SUBSET Reverse[MyTarget(o)],
                 op' = [op EXCEPT ![o].pc = "dirty",
                                  ![o].todo = {MyTarget(o)} \cup S]
          PROVE  op' \in OpTypes
      <4>1. {MyTarget(o)} \cup S \in SUBSET Targets
        BY <2>1
      <4> QED
        BY <3>2, <4>1, <1>2, TypeOp
    <3>3. CASE op' = [op EXCEPT ![o].pc = "finish"]
      BY <3>3, <1>2, TypeOp
    <3> QED
      BY <3>1, <3>2, <3>3
  <2> QED
    BY <1>7, <1>3, <2>2 DEF OpSave
<1>8. CASE OpSaveError(o)
  BY <1>8, <1>2, <1>3, TypeOp DEF OpSaveError, OpGoto
<1>9. CASE OpReturn(o)
  BY <1>9, <1>2, <1>3, TypeOp DEF OpReturn, OpGoto
<1>10. ASSUME NEW k \in Targets, OpBeginRelated(o, k) PROVE TypeOK'
  <2>1. op' \in OpTypes
    <3>1. op[o].held \cup {k} \in SUBSET Targets
      BY <1>1
    <3>2. op' = [op EXCEPT ![o].held = op[o].held \cup {k}]
      BY <1>10 DEF OpBeginRelated
    <3> QED
      BY <3>1, <3>2, <1>2, TypeOp
  <2> QED
    BY <1>10, <1>1, <1>3, <2>1 DEF OpBeginRelated
<1>11. ASSUME NEW k \in Targets, OpDirty(o, k) PROVE TypeOK'
  <2>1. op' \in OpTypes
    <3>1. op[o].todo \ {k} \in SUBSET Targets
      BY <1>1
    <3>2. PICK pc \in OpPCs :
            op' = [op EXCEPT ![o].todo = op[o].todo \ {k}, ![o].pc = pc]
      BY <1>11, <1>2 DEF OpDirty
    <3> QED
      BY <3>1, <3>2, TypeOp
  <2> QED
    BY <1>11, <1>1, <1>3, <2>1 DEF OpDirty
<1>12. ASSUME NEW k \in Targets, OpFinish(o, k) PROVE TypeOK'
  <2>1. op' \in OpTypes
    <3>1. op[o].held \ {k} \in SUBSET Targets
      BY <1>1
    <3>2. op' = [op EXCEPT ![o].held = op[o].held \ {k}]
      BY <1>12 DEF OpFinish
    <3> QED
      BY <3>1, <3>2, <1>2, TypeOp
  <2> QED
    BY <1>12, <1>1, <1>3, <2>1 DEF OpFinish
<1> QED
  BY <1>4, <1>5, <1>6, <1>7, <1>8, <1>9, <1>10, <1>11, <1>12 DEF OpStep

\* The steps of an elapsed timer keep the types.
LEMMA TypeFireStep ==
    ASSUME TypeOK, NEW f \in Fires, FireStep(f)
    PROVE  TypeOK'
<1> DEFINE FireTypes == [Fires -> [pc : FirePCs, at : Slots, locked : BOOLEAN]]
<1> USE DEF TypeOK
<1>1. fire[f].at \in Slots /\ fire[f].at[2] \in Targets
  BY SlotFacts
<1>2. {"idle", "pending", "lock", "check", "enqueue", "unlock"} \subseteq FirePCs
  BY DEF FirePCs
<1>3. ASSUME NEW pc \in FirePCs, FireGoto(f, pc) PROVE fire' \in FireTypes
  BY <1>3 DEF FireGoto
<1>4. CASE FirePostponed(f)
  BY <1>4, <1>1, <1>2, <1>3 DEF FirePostponed, shared
<1>5. CASE FireDue(f)
  BY <1>5, <1>1, <1>2, <1>3 DEF FireDue, shared
<1>6. CASE FireLock(f)
  <2>1. fire' \in FireTypes
    BY <1>6, <1>2, <1>3 DEF FireLock
  <2>2. opLock' \in [Targets -> Fires \cup {NoToken}]
    BY <1>6, <1>1 DEF FireLock, TryLock
  <2> QED
    BY <1>6, <2>1, <2>2 DEF FireLock, entry
<1>7. CASE FireCheck(f)
  BY <1>7, <1>2, <1>3 DEF FireCheck, entry, shared
<1>8. CASE FireEnqueue(f)
  BY <1>8, <1>1, <1>2, <1>3 DEF FireEnqueue, entry
<1>9. CASE FireUnlock(f)
  <2>1. opLock' \in [Targets -> Fires \cup {NoToken}]
    BY <1>9, <1>1 DEF FireUnlock, Unlock
  <2> QED
    BY <1>9, <1>2, <1>3, <2>1 DEF FireUnlock, entry
<1> QED
  BY <1>4, <1>5, <1>6, <1>7, <1>8, <1>9 DEF FireStep

\* Every step keeps the types.
LEMMA TypeStep == TypeOK /\ [Next]_vars => TypeOK'
<1> SUFFICES ASSUME TypeOK, [Next]_vars PROVE TypeOK'
  OBVIOUS
<1>1. ASSUME NEW o \in Ops, NEW h \in Handlers, NEW x \in Slots, OpStart(o, h, x)
      PROVE  TypeOK'
  <2>1. PICK pc \in OpPCs :
          op' = [op EXCEPT ![o] = [pc |-> pc, handler |-> h, at |-> x,
                                   held |-> {}, todo |-> {}]]
    BY <1>1 DEF OpStart, OpPCs
  <2> QED
    BY <1>1, <2>1 DEF TypeOK, OpStart, entry, shared
<1>2. ASSUME NEW f \in Fires, NEW x \in Slots, Elapse(f, x) PROVE TypeOK'
  <2>1. fire' \in [Fires -> [pc : FirePCs, at : Slots, locked : BOOLEAN]]
    BY <1>2 DEF TypeOK, Elapse, FirePCs
  <2>2. armed' \in [Slots -> BOOLEAN] /\ orphans' \in [Slots -> Nat]
    <3>1. \/ armed' = [armed EXCEPT ![x] = FALSE] /\ orphans' = orphans
          \/ /\ orphans[x] > 0 /\ armed' = armed
             /\ orphans' = [orphans EXCEPT ![x] = orphans[x] - 1]
      BY <1>2 DEF Elapse
    <3>2. orphans[x] > 0 => orphans[x] - 1 \in Nat
      BY DEF TypeOK
    <3> QED
      BY <3>1, <3>2 DEF TypeOK
  <2> QED
    BY <1>2, <2>1, <2>2 DEF TypeOK, Elapse, shared
<1>3. CASE Environment
  <2>1. CASE SyncToggles
    BY <2>1 DEF TypeOK, SyncToggles, entry
  <2>2. ASSUME NEW k \in Targets, ManualRefresh(k) PROVE TypeOK'
    BY <2>2 DEF TypeOK, ManualRefresh, entry
  <2>3. ASSUME NEW k \in Targets, TaskStarts(k) PROVE TypeOK'
    BY <2>3 DEF TypeOK, TaskStarts, entry
  <2>4. ASSUME NEW k \in Targets, TaskEnds(k) PROVE TypeOK'
    BY <2>4 DEF TypeOK, TaskEnds, entry
  <2>5. ASSUME NEW k \in Targets, ExpireOpLock(k) PROVE TypeOK'
    BY <2>5 DEF TypeOK, ExpireOpLock, Expire, entry
  <2> QED
    BY <1>3, <2>1, <2>2, <2>3, <2>4, <2>5 DEF Environment
<1>4. CASE UNCHANGED vars
  BY <1>4 DEF TypeOK, vars, entry, shared
<1> QED
  BY <1>1, <1>2, <1>3, <1>4, TypeOpStep, TypeFireStep DEF Next

\* Type correctness of the scheduler, its handlers and its timers.
THEOREM TypeCorrect == Spec => []TypeOK
<1> QED
  BY TypeInit, TypeStep, PTL DEF Spec

-----------------------------------------------------------------------------
(***************************************************************************)
(* The counter of an entry is the number of operations that hold it.       *)
(***************************************************************************)
Counting == ActiveCounts /\ AbsentIsEmpty /\ HeldWhileBusy

\* begin with a new holder and finish with one holder less keep the count.
LEMMA CountOne ==
    ASSUME NEW S, IsFiniteSet(S), NEW o
    PROVE  /\ o \notin S => Cardinality(S \cup {o}) = Cardinality(S) + 1
           /\ o \in S => /\ Cardinality(S \ {o}) = Cardinality(S) - 1
                         /\ Cardinality(S) > 0
<1>1. Cardinality(S) \in Nat
  BY FS_CardinalityType
<1>2. o \in S => Cardinality(S) # 0
  BY FS_EmptySet
<1> QED
  BY <1>1, <1>2, FS_AddElement, FS_RemoveElement

\* The holders of a slot are finitely many.
LEMMA HoldersFinite == \A x \in Slots : IsFiniteSet(Holders(x))
  BY OpsAssumption, FS_Subset DEF Holders

\* A step that changes neither the holders nor the counters keeps the count.
LEMMA CountingFrame ==
    ASSUME TypeOK, Counting,
           \A x \in Slots : active'[x] = active[x],
           \A o \in Ops : op'[o].at = op[o].at /\ op'[o].held = op[o].held
    PROVE  ActiveCounts'
<1>1. \A x \in Slots : Holders(x)' = Holders(x)
  BY DEF Holders
<1> QED
  BY <1>1 DEF Counting, ActiveCounts

\* The steps of a handler keep the count.
LEMMA CountingOpStep ==
    ASSUME TypeOK, Counting, NEW o \in Ops, OpStep(o)
    PROVE  Counting'
<1>1. /\ op[o].at \in Slots /\ MyTarget(o) \in Targets
      /\ \A k \in Targets : SlotOf(o, k) \in Slots
  BY SlotFacts DEF TypeOK, MyTarget, SlotOf
<1>2. ASSUME NEW k \in Targets, k \notin op[o].held, begin(SlotOf(o, k)),
             \A u \in Ops : op'[u].at = op[u].at,
             \A u \in Ops : op'[u].held = IF u = o THEN op[o].held \cup {k}
                                          ELSE op[u].held
      PROVE  ActiveCounts' /\ AbsentIsEmpty'
  <2> DEFINE y == SlotOf(o, k)
  <2>1. y \in Slots /\ y[1] = op[o].at[1] /\ y[2] = k
    BY <1>1 DEF SlotOf
  <2>2. \A x \in Slots : Holders(x)' = IF x = y THEN Holders(x) \cup {o}
                                       ELSE Holders(x)
    BY <1>2, <2>1, SlotFacts DEF Holders
  <2>3. o \notin Holders(y)
    BY <1>2, <2>1 DEF Holders
  <2>4. \A x \in Slots : active'[x] = IF x = y THEN active[x] + 1 ELSE active[x]
    BY <1>2, <2>1 DEF begin, TypeOK
  <2>5. ActiveCounts'
    BY <2>1, <2>2, <2>3, <2>4, HoldersFinite, CountOne DEF Counting, ActiveCounts
  <2>6. AbsentIsEmpty'
    BY <1>2, <2>1 DEF begin, TypeOK, Counting, AbsentIsEmpty
  <2> QED
    BY <2>5, <2>6
<1>3. ASSUME UNCHANGED entry,
             \A u \in Ops : op'[u].at = op[u].at /\ op'[u].held = op[u].held
      PROVE  ActiveCounts' /\ AbsentIsEmpty'
  BY <1>3, CountingFrame DEF entry, Counting, AbsentIsEmpty
<1>4. CASE OpBegin(o)
  <2>1. op[o].held = {}
    BY <1>4 DEF Counting, HeldWhileBusy, OpBegin
  <2>2. SlotOf(o, MyTarget(o)) = op[o].at
    BY <1>1, SlotFacts DEF SlotOf, MyTarget
  <2>3. PICK pc \in {"call", "save"} :
          /\ op' = [op EXCEPT ![o].pc = pc, ![o].held = {MyTarget(o)}]
          /\ pc = "call" => op[o].handler.begins = "first"
    BY <1>4 DEF OpBegin
  <2>4. HeldWhileBusy'
    BY <2>3 DEF Counting, HeldWhileBusy, TypeOK
  <2>5. /\ \A u \in Ops : op'[u].at = op[u].at
        /\ \A u \in Ops : op'[u].held = IF u = o THEN op[o].held \cup {MyTarget(o)}
                                         ELSE op[u].held
    BY <2>1, <2>3 DEF TypeOK
  <2>6. ActiveCounts' /\ AbsentIsEmpty'
    BY <1>2, <1>4, <1>1, <2>1, <2>2, <2>5 DEF OpBegin
  <2> QED
    BY <2>4, <2>6 DEF Counting
<1>5. ASSUME NEW k \in Targets, OpBeginRelated(o, k) PROVE Counting'
  <2>1. /\ op' = [op EXCEPT ![o].held = op[o].held \cup {k}]
        /\ op[o].pc = "call" /\ op[o].handler.begins = "first"
    BY <1>5, BeginsTwice DEF OpBeginRelated, TypeOK
  <2>2. HeldWhileBusy'
    BY <2>1 DEF Counting, HeldWhileBusy, TypeOK
  <2>3. /\ \A u \in Ops : op'[u].at = op[u].at
        /\ \A u \in Ops : op'[u].held = IF u = o THEN op[o].held \cup {k}
                                         ELSE op[u].held
    BY <2>1 DEF TypeOK
  <2>4. ActiveCounts' /\ AbsentIsEmpty'
    BY <1>2, <1>5, <2>3 DEF OpBeginRelated
  <2> QED
    BY <2>2, <2>4 DEF Counting
<1>6. ASSUME NEW k \in Targets, OpFinish(o, k) PROVE Counting'
  <2> DEFINE y == SlotOf(o, k)
  <2>1. op' = [op EXCEPT ![o].held = op[o].held \ {k}] /\ op[o].pc = "finish"
    BY <1>6 DEF OpFinish
  <2>2. HeldWhileBusy'
    BY <2>1 DEF Counting, HeldWhileBusy, TypeOK
  <2>3. y \in Slots /\ y[1] = op[o].at[1] /\ y[2] = k
    BY <1>1 DEF SlotOf
  <2>4. \A u \in Ops : /\ op'[u].at = op[u].at
                       /\ op'[u].held = IF u = o THEN op[o].held \ {k}
                                         ELSE op[u].held
    BY <2>1 DEF TypeOK
  <2>5. \A x \in Slots : Holders(x)' = IF x = y THEN Holders(x) \ {o}
                                       ELSE Holders(x)
    BY <2>3, <2>4, SlotFacts DEF Holders
  <2>6. o \in Holders(y)
    BY <1>6, <2>3 DEF Holders, OpFinish
  <2>7. active[y] > 0 /\ active[y] \in Nat
    BY <2>3, <2>6, HoldersFinite, CountOne DEF Counting, ActiveCounts, TypeOK
  <2>8. present[y]
    BY <2>3, <2>7 DEF Counting, AbsentIsEmpty
  <2>9. \A x \in Slots : active'[x] = IF x = y THEN active[x] - 1 ELSE active[x]
    BY <1>6, <2>3, <2>7, <2>8 DEF OpFinish, finish, TypeOK
  <2>10. ActiveCounts'
    BY <2>3, <2>5, <2>6, <2>9, HoldersFinite, CountOne DEF Counting, ActiveCounts
  <2>11. AbsentIsEmpty'
    BY <1>6, <2>3, <2>8, <2>9 DEF OpFinish, finish, TypeOK, Counting, AbsentIsEmpty
  <2> QED
    BY <2>2, <2>10, <2>11 DEF Counting
<1>7. ASSUME NEW k \in Targets, OpDirty(o, k) PROVE Counting'
  <2>1. PICK pc \in {"finish", "dirty"} :
          op' = [op EXCEPT ![o].todo = op[o].todo \ {k}, ![o].pc = pc]
    BY <1>7 DEF OpDirty
  <2>2. HeldWhileBusy'
    BY <2>1 DEF Counting, HeldWhileBusy, TypeOK
  <2>3. active' = active
    BY <1>7 DEF OpDirty, markDirty
  <2>4. ActiveCounts'
    BY <2>1, <2>3, CountingFrame DEF TypeOK
  <2>5. AbsentIsEmpty'
    BY <1>7, <1>1 DEF OpDirty, markDirty, TypeOK, Counting, AbsentIsEmpty
  <2> QED
    BY <2>2, <2>4, <2>5 DEF Counting
<1>8. CASE OpCallOk(o) \/ OpCallError(o) \/ OpSave(o) \/ OpSaveError(o)
  <2>1. PICK pc \in {"begin", "save", "dirty", "finish"}, S \in SUBSET Targets :
          /\ \/ op' = [op EXCEPT ![o].pc = pc]
             \/ op' = [op EXCEPT ![o].pc = pc, ![o].todo = S]
          /\ pc = "begin" => op[o].pc = "call" /\ op[o].handler.begins = "later"
    <3>1. CASE OpCallOk(o)
      BY <3>1 DEF OpCallOk, OpGoto
    <3>2. CASE OpCallError(o)
      <4>1. {MyTarget(o)} \in SUBSET Targets
        BY <1>1
      <4> QED
        BY <3>2, <4>1 DEF OpCallError
    <3>3. CASE OpSave(o)
      <4>1. \A S \in SUBSET Reverse[MyTarget(o)] :
              {MyTarget(o)} \cup S \in SUBSET Targets
        BY <1>1, ReverseAssumption DEF Targets
      <4>2. \/ \E S \in SUBSET Reverse[MyTarget(o)] :
                 op' = [op EXCEPT ![o].pc = "dirty",
                                  ![o].todo = {MyTarget(o)} \cup S]
            \/ op' = [op EXCEPT ![o].pc = "finish"]
        BY <3>3 DEF OpSave, OpGoto
      <4> QED
        BY <4>1, <4>2
    <3>4. CASE OpSaveError(o)
      BY <3>4 DEF OpSaveError, OpGoto
    <3> QED
      BY <1>8, <3>1, <3>2, <3>3, <3>4
  <2>2. \A u \in Ops : /\ op'[u].at = op[u].at /\ op'[u].held = op[u].held
                       /\ op'[u].handler = op[u].handler
                       /\ op'[u].pc = IF u = o THEN pc ELSE op[u].pc
    BY <2>1 DEF TypeOK
  <2>3. HeldWhileBusy'
    BY <2>1, <2>2 DEF Counting, HeldWhileBusy
  <2>4. ActiveCounts' /\ AbsentIsEmpty'
    BY <1>3, <1>8, <2>2 DEF OpCallOk, OpCallError, OpSave, OpSaveError
  <2> QED
    BY <2>3, <2>4 DEF Counting
<1>9. CASE OpReturn(o)
  <2>1. op' = [op EXCEPT ![o].pc = "done"] /\ op[o].held = {}
    BY <1>9 DEF OpReturn, OpGoto
  <2>2. HeldWhileBusy'
    BY <2>1 DEF Counting, HeldWhileBusy, TypeOK
  <2>3. ActiveCounts' /\ AbsentIsEmpty'
    BY <1>3, <1>9, <2>1 DEF OpReturn, TypeOK
  <2> QED
    BY <2>2, <2>3 DEF Counting
<1> QED
  BY <1>4, <1>5, <1>6, <1>7, <1>8, <1>9 DEF OpStep

\* The steps of an elapsed timer keep the count: fire deletes an entry only
\* when no operation holds it.
LEMMA CountingFireStep ==
    ASSUME TypeOK, Counting, NEW f \in Fires, FireStep(f)
    PROVE  Counting'
<1>1. fire[f].at \in Slots
  BY DEF TypeOK
<1>2. op' = op /\ active' = active
  BY DEF FireStep, FirePostponed, FireDue, FireLock, FireCheck, FireEnqueue,
         FireUnlock, entry
<1>3. ActiveCounts' /\ HeldWhileBusy'
  BY <1>2, CountingFrame DEF Counting, HeldWhileBusy
<1>4. FirePostponed(f) => AbsentIsEmpty'
  BY <1>1 DEF FirePostponed, TypeOK, Counting, AbsentIsEmpty
<1>5. FireDue(f) => AbsentIsEmpty'
  BY <1>1 DEF FireDue, TypeOK, Counting, AbsentIsEmpty
<1>6. UNCHANGED entry => AbsentIsEmpty'
  BY DEF entry, Counting, AbsentIsEmpty
<1>7. AbsentIsEmpty'
  BY <1>4, <1>5, <1>6
  DEF FireStep, FireLock, FireCheck, FireEnqueue, FireUnlock
<1> QED
  BY <1>3, <1>7 DEF Counting

\* Every step keeps the count.
LEMMA CountingStep == TypeOK /\ Counting /\ [Next]_vars => Counting'
<1> SUFFICES ASSUME TypeOK, Counting, [Next]_vars PROVE Counting'
  OBVIOUS
<1>1. ASSUME NEW o \in Ops, NEW h \in Handlers, NEW x \in Slots, OpStart(o, h, x)
      PROVE  Counting'
  <2>1. PICK pc \in {"begin", "call"} :
          /\ op' = [op EXCEPT ![o] = [pc |-> pc, handler |-> h, at |-> x,
                                      held |-> {}, todo |-> {}]]
          /\ op[o].pc = "idle"
    BY <1>1 DEF OpStart
  <2>2. HeldWhileBusy'
    BY <2>1 DEF TypeOK, Counting, HeldWhileBusy
  <2>3. op[o].held = {}
    BY <2>1 DEF Counting, HeldWhileBusy
  <2>4. \A y \in Slots : Holders(y)' = Holders(y)
    BY <2>1, <2>3 DEF Holders, TypeOK
  <2> QED
    BY <1>1, <2>2, <2>4
    DEF OpStart, entry, Counting, ActiveCounts, AbsentIsEmpty
<1>2. ASSUME NEW f \in Fires, NEW x \in Slots, Elapse(f, x) PROVE Counting'
  <2>1. op' = op /\ active' = active
    BY <1>2 DEF Elapse
  <2>2. ActiveCounts' /\ HeldWhileBusy'
    BY <2>1, CountingFrame DEF Counting, HeldWhileBusy
  <2>3. AbsentIsEmpty'
    BY <1>2 DEF Elapse, TypeOK, Counting, AbsentIsEmpty
  <2> QED
    BY <2>2, <2>3 DEF Counting
<1>3. CASE Environment \/ UNCHANGED vars
  <2>1. UNCHANGED <<entry, op>>
    BY <1>3 DEF Environment, SyncToggles, ManualRefresh, TaskStarts, TaskEnds,
                ExpireOpLock, vars
  <2> QED
    BY <2>1, CountingFrame DEF entry, Counting, AbsentIsEmpty, HeldWhileBusy
<1> QED
  BY <1>1, <1>2, <1>3, CountingOpStep, CountingFireStep DEF Next

\* Nobody holds anything at first.
LEMMA CountingInit == Init => Counting
<1> SUFFICES ASSUME Init PROVE Counting
  OBVIOUS
<1>1. \A x \in Slots : Holders(x) = {}
  BY DEF Init, Holders
<1> QED
  BY <1>1, FS_EmptySet
  DEF Init, Counting, ActiveCounts, AbsentIsEmpty, HeldWhileBusy

\* The operation counter of an entry is exact, also after fire has deleted the
\* entry and a later operation has created it again.
THEOREM OperationsCounted == Spec => []ActiveCounts
<1>1. Counting => ActiveCounts
  BY DEF Counting
<1> QED
  BY <1>1, TypeInit, TypeStep, CountingInit, CountingStep, PTL DEF Spec

\* fire takes an owed refresh only while its instance has no operation in
\* progress on the target.
THEOREM RefreshWaitsForOperations == Spec => FireWaitsForOperations
<1>1. ASSUME TypeOK, Counting, [Next]_vars, NEW x \in Slots, present[x], ~present'[x]
      PROVE  Holders(x) = {}
  <2>1. PICK f \in Fires : FireDue(f)
    <3>1. CASE UNCHANGED present
      BY <3>1, <1>1
    <3>2. ASSUME NEW o \in Ops, NEW y \in Slots, begin(y) \/ finish(y) \/ markDirty(y)
          PROVE  FALSE
      BY <3>2, <1>1 DEF begin, finish, markDirty, TypeOK
    <3>3. ASSUME NEW o \in Ops, OpStep(o) PROVE FALSE
      <4>1. op[o].at \in Slots
        BY <1>1 DEF TypeOK
      <4>2. \A k \in Targets : SlotOf(o, k) \in Slots
        BY <4>1, SlotFacts DEF SlotOf
      <4> QED
        BY <1>1, <3>1, <3>2, <3>3, <4>1, <4>2
        DEF OpStep, OpBegin, OpCallOk, OpCallError, OpSave, OpSaveError,
            OpReturn, OpBeginRelated, OpDirty, OpFinish, entry
    <3>4. CASE Environment \/ UNCHANGED vars
      BY <1>1, <3>4 DEF Environment, SyncToggles, ManualRefresh, TaskStarts,
                        TaskEnds, ExpireOpLock, vars, entry
    <3>5. ASSUME NEW f \in Fires, FireStep(f), ~FireDue(f) PROVE FALSE
      BY <1>1, <3>5 DEF FireStep, FirePostponed, FireLock, FireCheck,
                        FireEnqueue, FireUnlock, entry
    <3> QED
      BY <1>1, <3>3, <3>4, <3>5 DEF Next, OpStart, Elapse, entry
  <2>2. x = fire[f].at
    BY <1>1, <2>1 DEF FireDue, TypeOK
  <2>3. active[x] = 0
    BY <2>1, <2>2 DEF FireDue
  <2> QED
    BY <1>1, <2>3, HoldersFinite, FS_EmptySet DEF Counting, ActiveCounts
<1>2. TypeOK /\ Counting /\ [Next]_vars =>
         [\A x \in Slots : present[x] /\ ~present'[x] => Holders(x) = {}]_vars
  BY <1>1
<1> QED
  BY <1>2, TypeInit, TypeStep, CountingInit, CountingStep, PTL
  DEF Spec, FireWaitsForOperations

-----------------------------------------------------------------------------
(***************************************************************************)
(* No owed refresh is forgotten.                                           *)
(***************************************************************************)

\* The scheduler arms the timer whenever it leaves a refresh owed.
LEMMA ScheduledEntry ==
    ASSUME TypeOK, Counting, DirtyIsScheduled, NEW x \in Slots, UNCHANGED fire,
           begin(x) \/ finish(x) \/ markDirty(x)
    PROVE  DirtyIsScheduled'
<1> USE DEF TypeOK, DirtyIsScheduled
<1>1. CASE begin(x)
  BY <1>1 DEF begin
<1>2. CASE finish(x)
  <2>1. CASE present[x]
    <3> DEFINE left == IF active[x] > 0 THEN active[x] - 1 ELSE 0
    <3>1. /\ active' = [active EXCEPT ![x] = left]
          /\ armed' = [armed EXCEPT ![x] = armed[x] \/ (left = 0 /\ dirty[x])]
          /\ dirty' = dirty
      BY <1>2, <2>1 DEF finish
    <3>2. \A y \in Slots : y # x => active'[y] = active[y] /\ armed'[y] = armed[y]
      BY <3>1
    <3>3. /\ active'[x] = left
          /\ left = 0 /\ dirty[x] => armed'[x]
      BY <3>1
    <3> HIDE DEF left
    <3> QED
      BY <3>1, <3>2, <3>3
  <2>2. CASE ~present[x]
    BY <1>2, <2>2 DEF finish
  <2> QED
    BY <2>1, <2>2
<1>3. CASE markDirty(x)
  <2>1. /\ active' = active
        /\ \A y \in Slots : y # x => dirty'[y] = dirty[y] /\ armed'[y] = armed[y]
        /\ active[x] = 0 => armed'[x]
    BY <1>3 DEF markDirty
  <2> QED
    BY <2>1
<1> QED
  BY <1>1, <1>2, <1>3

\* Every step leaves what is owed to a timer or to an elapsed one.
LEMMA ScheduledStep ==
    TypeOK /\ Counting /\ DirtyIsScheduled /\ [Next]_vars => DirtyIsScheduled'
<1> SUFFICES ASSUME TypeOK, Counting, DirtyIsScheduled, [Next]_vars
             PROVE  DirtyIsScheduled'
  OBVIOUS
<1>1. UNCHANGED <<entry, fire>> => DirtyIsScheduled'
  BY DEF entry, DirtyIsScheduled
<1>2. ASSUME NEW o \in Ops, OpStep(o) PROVE DirtyIsScheduled'
  <2>1. op[o].at \in Slots
    BY DEF TypeOK
  <2>2. \A k \in Targets : SlotOf(o, k) \in Slots
    BY <2>1, SlotFacts DEF SlotOf
  <2>3. \/ UNCHANGED <<entry, fire>>
        \/ \E x \in Slots : UNCHANGED fire /\ (begin(x) \/ finish(x) \/ markDirty(x))
    BY <1>2, <2>1, <2>2
    DEF OpStep, OpBegin, OpCallOk, OpCallError, OpSave, OpSaveError, OpReturn,
        OpBeginRelated, OpDirty, OpFinish
  <2> QED
    BY <1>1, <2>3, ScheduledEntry
<1>3. ASSUME NEW f \in Fires, NEW x \in Slots, Elapse(f, x) PROVE DirtyIsScheduled'
  <2>1. /\ active' = active /\ dirty' = dirty
        /\ \A y \in Slots : y # x => armed'[y] = armed[y]
        /\ fire[f].pc = "idle"
        /\ fire' = [fire EXCEPT ![f] = [pc |-> "pending", at |-> x,
                                       locked |-> FALSE]]
    BY <1>3 DEF Elapse, TypeOK
  <2>2. fire'[f].pc = "pending" /\ fire'[f].at = x
    BY <2>1 DEF TypeOK
  <2>3. \A g \in Fires : fire[g].pc = "pending" => fire'[g] = fire[g]
    BY <2>1 DEF TypeOK
  <2> QED
    BY <2>1, <2>2, <2>3 DEF DirtyIsScheduled
<1>4. ASSUME NEW f \in Fires, FireStep(f) PROVE DirtyIsScheduled'
  <2>1. \A g \in Fires : g # f => fire'[g] = fire[g]
    BY <1>4 DEF FireStep, FirePostponed, FireDue, FireLock, FireCheck,
                FireEnqueue, FireUnlock, FireGoto, TypeOK
  <2>2. fire[f].at \in Slots
    BY DEF TypeOK
  <2>3. FirePostponed(f) => DirtyIsScheduled'
    <3> SUFFICES ASSUME FirePostponed(f) PROVE DirtyIsScheduled'
      OBVIOUS
    <3> DEFINE x == fire[f].at
    <3>1. /\ active' = active /\ dirty' = dirty
          /\ \A y \in Slots : y # x => armed'[y] = armed[y]
          /\ ~present[x] \/ active[x] > 0
      BY <2>2 DEF FirePostponed, TypeOK
    <3>2. ~(dirty[x] /\ active[x] = 0)
      BY <2>2, <3>1 DEF Counting, AbsentIsEmpty, TypeOK
    <3> QED
      BY <2>1, <2>2, <3>1, <3>2 DEF DirtyIsScheduled
  <2>4. FireDue(f) => DirtyIsScheduled'
    <3> SUFFICES ASSUME FireDue(f) PROVE DirtyIsScheduled'
      OBVIOUS
    <3> DEFINE x == fire[f].at
    <3>1. /\ active' = active /\ ~dirty'[x]
          /\ \A y \in Slots : y # x => armed'[y] = armed[y] /\ dirty'[y] = dirty[y]
      BY <2>2 DEF FireDue, TypeOK
    <3> QED
      BY <2>1, <2>2, <3>1 DEF DirtyIsScheduled
  <2>5. UNCHANGED entry /\ fire[f].pc # "pending" => DirtyIsScheduled'
    BY <2>1 DEF entry, DirtyIsScheduled
  <2> QED
    BY <1>4, <2>3, <2>4, <2>5
    DEF FireStep, FireLock, FireCheck, FireEnqueue, FireUnlock
<1>5. CASE Environment \/ UNCHANGED vars
  BY <1>1, <1>5 DEF Environment, SyncToggles, ManualRefresh, TaskStarts,
                    TaskEnds, ExpireOpLock, vars
<1> QED
  BY <1>1, <1>2, <1>3, <1>4, <1>5 DEF Next, OpStart

\* No owed refresh is forgotten: a dirty entry without operations in progress
\* always has a timer that runs or has elapsed.
THEOREM OwedRefreshIsScheduled == Spec => []DirtyIsScheduled
<1>1. Init => DirtyIsScheduled
  BY DEF Init, DirtyIsScheduled
<1> QED
  BY <1>1, TypeInit, TypeStep, CountingInit, CountingStep, ScheduledStep, PTL
  DEF Spec
=============================================================================
