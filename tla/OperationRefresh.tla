-------------------------- MODULE OperationRefresh --------------------------
(***************************************************************************)
(* The delayed refresh after DNS and DHCP operations.  A handler changes a *)
(* zone or a scope on its Agent, updates the snapshot and marks the target *)
(* dirty; operationRefreshScheduler merges the marks of one target and     *)
(* creates one refresh task when a delay has passed without operations.    *)
(*                                                                         *)
(* Every backend instance has a scheduler of its own in memory; only the   *)
(* operation-refresh lock, the Agent's runtime mark (syncing) and the      *)
(* target's refresh lock (running) are shared.  AgentSync says how the     *)
(* last two come and go; here the environment sets them.                   *)
(***************************************************************************)
EXTENDS Naturals, FiniteSets, Realtime

CONSTANTS
    Instances,   \* backend processes
    Zones,       \* DNS zones of one Agent
    Scopes,      \* DHCP scopes of one Agent
    Reverse,     \* Reverse[z], the reverse zone that holds the PTRs of z, if any
    Ops,         \* operations users request
    Fires,       \* bound: timers that have elapsed and still run "fire"
    MaxQueued,   \* bound: refresh tasks of one target that wait to start
    RedisFails   \* may a Redis command return an error?

Targets == Zones \cup Scopes

ASSUME ReverseAssumption == Reverse \in [Targets -> SUBSET Zones]
ASSUME SlotsAssumption == Instances # {} /\ Targets # {}
ASSUME OpsAssumption == IsFiniteSet(Ops)
ASSUME BoundAssumption == MaxQueued \in Nat
ASSUME FireTokenAssumption == NoToken \notin Fires

VARIABLES
    present,  \* s.targets of an instance has an entry for the target
    active,   \* its operations in progress
    dirty,    \* a refresh is owed
    armed,    \* the timer the entry points to is running
    orphans,  \* running timers whose entry was deleted under them
    op,       \* a handler: where it stands, begun targets, targets to mark
    fire,     \* a goroutine that an elapsed timer started
    opLock,   \* zonelease:lock:operation-refresh:<target>
    syncing,  \* the Agent's runtime mark
    queued,   \* refresh tasks of a target that were created and not started
    running   \* a refresh task of the target runs and holds its refresh lock

entry == <<present, active, dirty, armed, orphans>>
shared == <<opLock, syncing, queued, running>>
vars == <<entry, op, fire, shared>>

-----------------------------------------------------------------------------
(***************************************************************************)
(* The handlers that change a zone or a scope, by what each does around    *)
(* its Agent call:                                                         *)
(*   begins    "first", before the call; "later", after it; or "never"     *)
(*   ptr       whether it "marks" the reverse zone, or may "begin" it too  *)
(*   onError   an Agent error marks the scope dirty                        *)
(*             (markDHCPScopeDirtyAfterAgentFailure)                       *)
(*   needsSave a failed snapshot update ends it before markDirty           *)
(*   onSuccess success marks the target dirty                              *)
(***************************************************************************)
ZoneHandler == [on |-> "zone", begins |-> "first", ptr |-> "none",
                onError |-> FALSE, needsSave |-> FALSE, onSuccess |-> TRUE]
createZone == [ZoneHandler EXCEPT !.begins = "later"]
deleteZone == [ZoneHandler EXCEPT !.begins = "never", !.onSuccess = FALSE]
createDNSRecord == [ZoneHandler EXCEPT !.ptr = "marks"]
deleteDNSRecord == [ZoneHandler EXCEPT !.ptr = "marks"]
updateDNSRecord == [ZoneHandler EXCEPT !.ptr = "begins"]

ScopeHandler == [on |-> "scope", begins |-> "first", ptr |-> "none",
                 onError |-> TRUE, needsSave |-> FALSE, onSuccess |-> TRUE]
createScope == [ScopeHandler EXCEPT !.onError = FALSE]
updateScope == ScopeHandler
toggleScope == ScopeHandler
deleteScope == [ScopeHandler EXCEPT !.needsSave = TRUE, !.onSuccess = FALSE]
deleteLease == ScopeHandler
createReservation == [ScopeHandler EXCEPT !.needsSave = TRUE]
updateReservation == [ScopeHandler EXCEPT !.needsSave = TRUE]
deleteReservation == ScopeHandler
createExclusion == ScopeHandler
deleteExclusion == ScopeHandler

Handlers == {createZone, deleteZone, createDNSRecord, deleteDNSRecord,
             updateDNSRecord, createScope, updateScope, toggleScope,
             deleteScope, deleteLease, createReservation, updateReservation,
             deleteReservation, createExclusion, deleteExclusion}

Slots == Instances \X Targets
OpPCs == {"idle", "begin", "call", "save", "dirty", "finish", "done"}
FirePCs == {"idle", "pending", "lock", "check", "enqueue", "unlock"}

TypeOK ==
    /\ present \in [Slots -> BOOLEAN]
    /\ active \in [Slots -> Nat]
    /\ dirty \in [Slots -> BOOLEAN]
    /\ armed \in [Slots -> BOOLEAN]
    /\ orphans \in [Slots -> Nat]
    /\ op \in [Ops -> [pc : OpPCs, handler : Handlers, at : Slots,
                       held : SUBSET Targets, todo : SUBSET Targets]]
    /\ fire \in [Fires -> [pc : FirePCs, at : Slots, locked : BOOLEAN]]
    /\ opLock \in [Targets -> Fires \cup {NoToken}]
    /\ syncing \in BOOLEAN
    /\ queued \in [Targets -> Nat]
    /\ running \in [Targets -> BOOLEAN]

Init ==
    /\ present = [x \in Slots |-> FALSE]
    /\ active = [x \in Slots |-> 0]
    /\ dirty = [x \in Slots |-> FALSE]
    /\ armed = [x \in Slots |-> FALSE]
    /\ orphans = [x \in Slots |-> 0]
    /\ op \in [Ops -> [pc : {"idle"}, handler : {createZone}, held : {{}},
                       todo : {{}}, at : {CHOOSE x \in Slots : TRUE}]]
    /\ fire \in [Fires -> [pc : {"idle"}, locked : {FALSE},
                           at : {CHOOSE x \in Slots : TRUE}]]
    /\ opLock = [k \in Targets |-> NoToken]
    /\ syncing = FALSE
    /\ queued = [k \in Targets |-> 0]
    /\ running = [k \in Targets |-> FALSE]

-----------------------------------------------------------------------------
(***************************************************************************)
(* operationRefreshScheduler.  Each operator is one critical section of    *)
(* its mutex, on the entry x of one instance and target.                   *)
(***************************************************************************)
begin(x) ==
    /\ present' = [present EXCEPT ![x] = TRUE]
    /\ active' = [active EXCEPT ![x] = @ + 1]
    /\ armed' = [armed EXCEPT ![x] = FALSE]
    /\ UNCHANGED <<dirty, orphans>>

\* finish that leaves the timer to markDirty.
finishUnarmed(x) ==
    /\ active' = [active EXCEPT ![x] = IF present[x] /\ @ > 0 THEN @ - 1 ELSE @]
    /\ UNCHANGED <<present, dirty, armed, orphans>>

\* finish that keeps a dirty entry active.
finishStuck(x) ==
    /\ active' = [active EXCEPT ![x] = IF @ > 0 /\ ~dirty[x] THEN @ - 1 ELSE @]
    /\ UNCHANGED <<present, dirty, armed, orphans>>

finish(x) ==
    LET left == IF active[x] > 0 THEN active[x] - 1 ELSE 0 IN
    /\ IF present[x]
       THEN /\ active' = [active EXCEPT ![x] = left]
            /\ armed' = [armed EXCEPT ![x] = @ \/ (left = 0 /\ dirty[x])]
       ELSE UNCHANGED <<active, armed>>
    /\ UNCHANGED <<present, dirty, orphans>>

markDirty(x) ==
    /\ present' = [present EXCEPT ![x] = TRUE]
    /\ dirty' = [dirty EXCEPT ![x] = TRUE]
    /\ armed' = [armed EXCEPT ![x] = @ \/ active[x] = 0]
    /\ UNCHANGED <<active, orphans>>

\* The timer of an entry, or one whose entry is gone, elapses: its goroutine
\* exists but has not yet taken the mutex, and Timer.Stop comes too late.
Elapse(f, x) ==
    /\ fire[f].pc = "idle"
    /\ \/ armed[x] /\ armed' = [armed EXCEPT ![x] = FALSE] /\ UNCHANGED orphans
       \/ orphans[x] > 0 /\ orphans' = [orphans EXCEPT ![x] = @ - 1]
          /\ UNCHANGED armed
    /\ fire' = [fire EXCEPT ![f] = [pc |-> "pending", at |-> x, locked |-> FALSE]]
    /\ UNCHANGED <<present, active, dirty, op, shared>>

FireGoto(f, pc) == fire' = [fire EXCEPT ![f].pc = pc]

\* fire under the mutex, when there is nothing to do or an operation runs.
FirePostponed(f) ==
    LET x == fire[f].at IN
    /\ fire[f].pc = "pending"
    /\ \/ ~present[x] /\ UNCHANGED armed
       \/ present[x] /\ active[x] > 0 /\ armed' = [armed EXCEPT ![x] = TRUE]
    /\ FireGoto(f, "idle")
    /\ UNCHANGED <<present, active, dirty, orphans, op, shared>>

\* FireDue that does not look at the operations in progress.
FireDueAlways(f) ==
    LET x == fire[f].at IN
    /\ fire[f].pc = "pending"
    /\ present[x]
    /\ present' = [present EXCEPT ![x] = FALSE]
    /\ active' = [active EXCEPT ![x] = 0]
    /\ dirty' = [dirty EXCEPT ![x] = FALSE]
    /\ armed' = [armed EXCEPT ![x] = FALSE]
    /\ orphans' = [orphans EXCEPT ![x] = IF armed[x] THEN @ + 1 ELSE @]
    /\ FireGoto(f, "lock")
    /\ UNCHANGED <<op, shared>>

\* fire deletes the entry and goes on without the mutex.  A timer that the
\* entry pointed to keeps running.
FireDue(f) ==
    LET x == fire[f].at IN
    /\ fire[f].pc = "pending"
    /\ present[x] /\ active[x] = 0
    /\ present' = [present EXCEPT ![x] = FALSE]
    /\ dirty' = [dirty EXCEPT ![x] = FALSE]
    /\ armed' = [armed EXCEPT ![x] = FALSE]
    /\ orphans' = [orphans EXCEPT ![x] = IF armed[x] THEN @ + 1 ELSE @]
    /\ FireGoto(f, "lock")
    /\ UNCHANGED <<active, op, shared>>

\* FireLock with the instance as the token instead of random bytes.
FireLockByInstance(f) ==
    LET k == fire[f].at[2] IN
    /\ fire[f].pc = "lock"
    /\ CanLock(opLock, k)
    /\ opLock' = TryLock(opLock, k, fire[f].at[1])
    /\ fire' = [fire EXCEPT ![f].pc = "check", ![f].locked = TRUE]
    /\ UNCHANGED <<entry, op, syncing, queued, running>>

\* One instance refreshes a target; a Redis error lets fire go on unlocked.
FireLock(f) ==
    LET k == fire[f].at[2] IN
    /\ fire[f].pc = "lock"
    /\ \/ /\ CanLock(opLock, k)
          /\ opLock' = TryLock(opLock, k, f)
          /\ fire' = [fire EXCEPT ![f].pc = "check", ![f].locked = TRUE]
       \/ /\ ~CanLock(opLock, k)
          /\ FireGoto(f, "idle")
          /\ UNCHANGED opLock
       \/ RedisFails /\ FireGoto(f, "check") /\ UNCHANGED opLock
    /\ UNCHANGED <<entry, op, syncing, queued, running>>

\* IsAgentSyncRunning; an unreadable mark counts as absent.
FireCheck(f) ==
    /\ fire[f].pc = "check"
    /\ \/ syncing /\ FireGoto(f, "unlock")
       \/ (~syncing \/ RedisFails) /\ FireGoto(f, "enqueue")
    /\ UNCHANGED <<entry, op, shared>>

\* enqueueZoneRefresh or enqueueDHCPScopeRefresh: refused while the target's
\* refresh runs, when Redis or PostgreSQL fails, or when the zone is gone.
FireEnqueue(f) ==
    LET k == fire[f].at[2] IN
    /\ fire[f].pc = "enqueue"
    /\ \/ ~running[k] /\ queued' = [queued EXCEPT ![k] = @ + 1]
       \/ UNCHANGED queued
    /\ FireGoto(f, "unlock")
    /\ UNCHANGED <<entry, op, opLock, syncing, running>>

FireUnlock(f) ==
    /\ fire[f].pc = "unlock"
    /\ \/ opLock' = IF fire[f].locked THEN Unlock(opLock, fire[f].at[2], f)
                    ELSE opLock
       \/ RedisFails /\ UNCHANGED opLock
    /\ FireGoto(f, "idle")
    /\ UNCHANGED <<entry, op, syncing, queued, running>>

-----------------------------------------------------------------------------
(***************************************************************************)
(* The handlers.                                                           *)
(***************************************************************************)
OpGoto(o, pc) == op' = [op EXCEPT ![o].pc = pc]
MyTarget(o) == op[o].at[2]
SlotOf(o, k) == <<op[o].at[1], k>>

\* ensureAgentNotSyncing refuses the request while the mark is there.
OpStart(o, h, x) ==
    /\ op[o].pc = "idle"
    /\ x[2] \in (IF h.on = "zone" THEN Zones ELSE Scopes)
    /\ ~syncing \/ RedisFails
    /\ op' = [op EXCEPT ![o] = [pc |-> IF h.begins = "first" THEN "begin" ELSE "call",
                                handler |-> h, at |-> x, held |-> {}, todo |-> {}]]
    /\ UNCHANGED <<entry, fire, shared>>

OpBegin(o) ==
    /\ op[o].pc = "begin"
    /\ begin(op[o].at)
    /\ op' = [op EXCEPT ![o].pc = IF op[o].handler.begins = "first"
                                   THEN "call" ELSE "save",
                        ![o].held = {MyTarget(o)}]
    /\ UNCHANGED <<fire, shared>>

\* updateDNSRecord begins the reverse zone when only the PTR changes.
OpBeginRelated(o, k) ==
    /\ op[o].pc = "call"
    /\ op[o].handler.ptr = "begins"
    /\ k \in Reverse[MyTarget(o)] \ op[o].held
    /\ begin(SlotOf(o, k))
    /\ op' = [op EXCEPT ![o].held = @ \cup {k}]
    /\ UNCHANGED <<fire, shared>>

\* The Agent did it.
OpCallOk(o) ==
    /\ op[o].pc = "call"
    /\ OpGoto(o, IF op[o].handler.begins = "later" THEN "begin" ELSE "save")
    /\ UNCHANGED <<entry, fire, shared>>

\* Validation, a timeout or an error of the Agent; an error about the PTR
\* alone is only a warning.
OpCallError(o) ==
    /\ op[o].pc = "call"
    /\ op[o].held \subseteq {MyTarget(o)}
    /\ op' = IF op[o].handler.onError
             THEN [op EXCEPT ![o].pc = "dirty", ![o].todo = {MyTarget(o)}]
             ELSE [op EXCEPT ![o].pc = "finish"]
    /\ UNCHANGED <<entry, fire, shared>>

\* The snapshot is written; a record may have changed its PTR too.
OpSave(o) ==
    /\ op[o].pc = "save"
    /\ IF op[o].handler.onSuccess
       THEN \E related \in
               IF op[o].handler.ptr = "none" THEN {{}}
               ELSE SUBSET Reverse[MyTarget(o)] :
              op' = [op EXCEPT ![o].pc = "dirty",
                               ![o].todo = {MyTarget(o)} \cup related]
       ELSE OpGoto(o, "finish")
    /\ UNCHANGED <<entry, fire, shared>>

OpSaveError(o) ==
    /\ op[o].pc = "save"
    /\ op[o].handler.needsSave
    /\ OpGoto(o, "finish")
    /\ UNCHANGED <<entry, fire, shared>>

OpDirty(o, k) ==
    /\ op[o].pc = "dirty"
    /\ k \in op[o].todo
    /\ markDirty(SlotOf(o, k))
    /\ op' = [op EXCEPT ![o].todo = @ \ {k},
                        ![o].pc = IF op[o].todo = {k} THEN "finish" ELSE "dirty"]
    /\ UNCHANGED <<fire, shared>>

\* The deferred finishRefresh calls, then the handler returns.
OpFinish(o, k) ==
    /\ op[o].pc = "finish"
    /\ k \in op[o].held
    /\ finish(SlotOf(o, k))
    /\ op' = [op EXCEPT ![o].held = @ \ {k}]
    /\ UNCHANGED <<fire, shared>>

OpReturn(o) ==
    /\ op[o].pc = "finish"
    /\ op[o].held = {}
    /\ OpGoto(o, "done")
    /\ UNCHANGED <<entry, fire, shared>>

-----------------------------------------------------------------------------
(***************************************************************************)
(* The environment: synchronisations, refresh tasks and lock expiry.       *)
(***************************************************************************)
SyncToggles == syncing' = ~syncing /\ UNCHANGED <<entry, op, fire, opLock, queued, running>>

\* zoneAction or scopeAction "refresh".
ManualRefresh(k) ==
    /\ ~syncing \/ RedisFails
    /\ ~running[k]
    /\ queued[k] < MaxQueued
    /\ queued' = [queued EXCEPT ![k] = @ + 1]
    /\ UNCHANGED <<entry, op, fire, opLock, syncing, running>>

\* RunRefreshTask of the target: it takes the refresh lock or is skipped.
TaskStarts(k) ==
    /\ queued[k] > 0
    /\ queued' = [queued EXCEPT ![k] = @ - 1]
    /\ running' = [running EXCEPT ![k] = TRUE]
    /\ UNCHANGED <<entry, op, fire, opLock, syncing>>

TaskEnds(k) ==
    /\ running[k]
    /\ running' = [running EXCEPT ![k] = FALSE]
    /\ UNCHANGED <<entry, op, fire, opLock, syncing, queued>>

\* fire runs without a deadline, so the lock may expire under it.
ExpireOpLock(k) ==
    /\ opLock[k] # NoToken
    /\ opLock' = Expire(opLock, k)
    /\ UNCHANGED <<entry, op, fire, syncing, queued, running>>

OpStep(o) ==
    \/ OpBegin(o) \/ OpCallOk(o) \/ OpCallError(o) \/ OpSave(o)
    \/ OpSaveError(o) \/ OpReturn(o)
    \/ \E k \in Targets : OpBeginRelated(o, k) \/ OpDirty(o, k) \/ OpFinish(o, k)

FireStep(f) ==
    \/ FirePostponed(f) \/ FireDue(f) \/ FireLock(f) \/ FireCheck(f)
    \/ FireEnqueue(f) \/ FireUnlock(f)

Environment ==
    \/ SyncToggles
    \/ \E k \in Targets :
          ManualRefresh(k) \/ TaskStarts(k) \/ TaskEnds(k) \/ ExpireOpLock(k)

Next ==
    \/ \E o \in Ops, h \in Handlers, x \in Slots : OpStart(o, h, x)
    \/ \E o \in Ops : OpStep(o)
    \/ \E f \in Fires, x \in Slots : Elapse(f, x)
    \/ \E f \in Fires : FireStep(f)
    \/ Environment

Spec == Init /\ [][Next]_vars

\* Agent calls have deadlines, timers elapse and goroutines are scheduled.
Fairness ==
    /\ \A o \in Ops : WF_vars(OpStep(o))
    /\ \A x \in Slots : WF_vars(\E f \in Fires : Elapse(f, x))
    /\ \A f \in Fires : WF_vars(FireStep(f))

FairSpec == Spec /\ Fairness

-----------------------------------------------------------------------------
(***************************************************************************)
(* Properties.                                                             *)
(***************************************************************************)

\* No owed refresh is forgotten: an entry that is dirty and has no operation
\* in progress has a running timer or an elapsed one whose fire is still to
\* take the mutex.
DirtyIsScheduled ==
    \A x \in Slots :
       dirty[x] /\ active[x] = 0 =>
          armed[x] \/ \E f \in Fires : fire[f].pc = "pending" /\ fire[f].at = x

\* The operations of x that have begun and not finished.
Holders(x) == {o \in Ops : op[o].at[1] = x[1] /\ x[2] \in op[o].held}

\* The counter of an entry is the number of its operations in progress, also
\* after entries were deleted and created again under running operations.
ActiveCounts == \A x \in Slots : active[x] = Cardinality(Holders(x))

\* fire takes an owed refresh only while its instance has no operation in
\* progress on the target (docs/refresh-sync.md, section 8).
FireWaitsForOperations ==
    [][\A x \in Slots : present[x] /\ ~present'[x] => Holders(x) = {}]_vars

\* Every dirty mark leads to a refresh attempt.
DirtyIsTaken == \A x \in Slots : dirty[x] ~> ~dirty[x]

-----------------------------------------------------------------------------
(***************************************************************************)
(* What makes the first three inductive.                                   *)
(***************************************************************************)

\* An entry that fire deleted counts no operation, owes nothing and points to
\* no timer.
AbsentIsEmpty ==
    \A x \in Slots : ~present[x] => active[x] = 0 /\ ~dirty[x] /\ ~armed[x]

\* A handler holds nothing before its begin and after its deferred finish.
HeldWhileBusy ==
    \A o \in Ops :
       \/ op[o].pc \in {"idle", "begin", "done"}
       \/ op[o].pc = "call" /\ op[o].handler.begins # "first"
       => op[o].held = {}
=============================================================================
