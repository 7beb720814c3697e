---------------------------- MODULE DHCPSnapshot ----------------------------
(***************************************************************************)
(* The data of one DHCP Agent and its snapshot in PostgreSQL.  Three kinds *)
(* of process change the snapshot:                                         *)
(*   - a handler calls the Agent, patches the snapshot with what it asked  *)
(*     for and owes the scope a refresh (router/resources*.go);            *)
(*   - a refresh of one scope reads it in two calls and replaces it        *)
(*     (syncDHCPScope), after an operation or on request;                  *)
(*   - a full synchronisation reads the list of scopes, then each of them  *)
(*     with a pool of workers (syncDHCP).                                  *)
(* Handlers keep off an Agent that syncs by a check at their start; a      *)
(* refresh of a scope excludes other refreshes of it, nothing else.        *)
(*                                                                         *)
(* OperationRefresh describes the scheduler that owes refreshes, AgentSync *)
(* how tasks start and lock.  Of the scheduler of one process only its     *)
(* outcome is kept: a timer may elapse at any time at which no operation   *)
(* on the scope has begun (FireWaitsForOperations there).                  *)
(***************************************************************************)
EXTENDS Naturals, FiniteSets

CONSTANTS
    Scopes,       \* identified by their external id
    Items,        \* exclusions, leases and reservations of a scope
    Workers,      \* DHCPScopeConcurrency
    Ops,          \* operations users request
    Kinds,        \* the handlers they call
    Manual,       \* may users request refreshes of a scope?
    MaxQueued,    \* bound: refresh tasks of one scope that wait to start
    MaxFaults,    \* bound: failed calls and statements, changes by others
    InitialAgent, \* contents of a scope on the Agent at the start
    InitialSnap,  \* contents of a scope in the snapshot at the start
    None

Attributes == 1..2      \* of a scope: its name, range and state
Values == 0..2          \* of an item, 0 when there is no such item
NoItems == [i \in Items |-> 0]
Content == [state : Attributes, items : [Items -> Values]]

ASSUME BoundsAssumption == MaxQueued \in Nat /\ MaxFaults \in Nat
ASSUME NoneAssumption == None \notin Scopes /\ None \notin Content /\ None \notin Attributes
ASSUME NamesAssumption == Scopes # {} /\ Items # {}
ASSUME InitialAssumption == /\ InitialAgent \subseteq Content \cup {None}
                            /\ InitialSnap \subseteq Content \cup {None}

VARIABLES
    agent,    \* what the DHCP server holds
    snap,     \* dhcp_scopes and the rows that belong to them
    op,       \* a handler
    owed,     \* the scheduler has a dirty entry for the scope
    fire,     \* an enqueueDHCPScopeRefresh that has not created its task yet
    queued,   \* refresh tasks that were created and not started
    ref,      \* the refresh task that holds the refresh lock of the scope
    sync,     \* syncDHCP of the Agent
    worker,   \* its goroutines
    faults,   \* failures so far
    excused,  \* scopes that lost a refresh in a way listed at AgreesUnlessExcused
    touched   \* scopes that others changed, or a script skipped, while sync runs

data == <<agent, snap>>
tasks == <<owed, fire, queued, ref>>
pool == <<sync, worker>>
history == <<excused, touched>>
vars == <<data, op, tasks, pool, faults, history>>

AllKinds == {"createScope", "updateScope", "toggleScope", "deleteScope",
             "createReservation", "updateReservation", "createExclusion",
             "deleteItem"}
ASSUME KindsAssumption == Kinds \subseteq AllKinds

NoSync == [pc |-> "idle", listed |-> [s \in Scopes |-> None], offer |-> None,
           todo |-> {}, expired |-> FALSE, cancelled |-> FALSE,
           failed |-> FALSE, result |-> "none"]
NoWorker == [pc |-> "idle", scope |-> None, items |-> NoItems]
NoRefresh == [pc |-> "idle", state |-> 1, items |-> NoItems]

Handler == [pc : {"idle", "check", "begin", "call", "save", "mark", "done"}, kind : AllKinds,
            scope : Scopes, item : Items, want : Attributes, row : BOOLEAN]
Refresh == [pc : {"idle", "scope", "details", "store", "gone"}, state : Attributes,
            items : [Items -> Values]]
Synchronisation ==
    [pc : {"idle", "list", "replace", "pool", "end"}, listed : [Scopes -> Attributes \cup {None}],
     offer : Scopes \cup {None}, todo : SUBSET Scopes, expired : BOOLEAN, cancelled : BOOLEAN,
     failed : BOOLEAN, result : {"none", "nil", "error"}]
Goroutine == [pc : {"idle", "check", "fetch", "store", "gone"}, scope : Scopes \cup {None},
              items : [Items -> Values]]

TypeOK ==
    /\ agent \in [Scopes -> Content \cup {None}]
    /\ snap \in [Scopes -> Content \cup {None}]
    /\ op \in [Ops -> Handler]
    /\ owed \in [Scopes -> BOOLEAN]
    /\ fire \in [Scopes -> {"idle", "owed", "manual"}]
    /\ queued \in [Scopes -> 0..MaxQueued]
    /\ ref \in [Scopes -> Refresh]
    /\ sync \in Synchronisation
    /\ worker \in [Workers -> Goroutine]
    /\ faults \in 0..MaxFaults
    /\ excused \in SUBSET Scopes
    /\ touched \in SUBSET Scopes

Init ==
    /\ agent \in [Scopes -> InitialAgent]
    /\ snap \in [Scopes -> InitialSnap]
    /\ op \in [Ops -> [pc : {"idle"}, kind : {"createScope"}, want : {1},
                       row : {FALSE}, scope : {CHOOSE s \in Scopes : TRUE},
                       item : {CHOOSE i \in Items : TRUE}]]
    /\ owed = [s \in Scopes |-> FALSE]
    /\ fire = [s \in Scopes |-> "idle"]
    /\ queued = [s \in Scopes |-> 0]
    /\ ref = [s \in Scopes |-> NoRefresh]
    /\ sync = NoSync
    /\ worker = [w \in Workers |-> NoWorker]
    /\ faults = 0
    /\ excused = {s \in Scopes : snap[s] # agent[s]}
    /\ touched = {}

Fault == faults < MaxFaults /\ faults' = faults + 1
NoFault == UNCHANGED faults

\* The Agent's runtime mark, which covers the synchronisation (AgentSync).
Syncing == sync.pc # "idle"

\* Others than sync changed scope s.
Touch(s) == touched' = IF Syncing THEN touched \cup {s} ELSE touched
Excuse(s) == excused' = excused \cup {s}

-----------------------------------------------------------------------------
(***************************************************************************)
(* Handlers: what they ask of the Agent, and how they patch the snapshot.  *)
(* deleteItem stands for deleteLease, deleteReservation and                *)
(* deleteExclusion.                                                        *)
(***************************************************************************)
OnScope == {"updateScope", "toggleScope", "deleteScope"}
OnItem == {"updateReservation", "deleteItem"}   \* an item that must exist
NeedsSave == {"createReservation", "updateReservation", "deleteScope"}

\* The rows that a handler of kind k loads from a snapshot content c.
RowLives(k, i, c) == c # None /\ (k \in OnItem => c.items[i] # 0)

\* Row identifiers are never reused: a handler whose rows are deleted finds
\* no row later on, even if the scope or the item is stored again.
Rows(f, ops) == [p \in Ops |-> [ops[p] EXCEPT
                    !.row = @ /\ RowLives(ops[p].kind, ops[p].item,
                                          f[ops[p].scope])]]

\* What the DHCP Agent does for a handler, one cmdlet each: the Windows DHCP
\* server refuses to create what exists and to change what does not.
CreateScope(h, c) == [state |-> h.want, items |-> NoItems]
UpdateScope(h, c) == [c EXCEPT !.state = h.want]
SetScopeState(h, c) == [c EXCEPT !.state = h.want]
DeleteScope(h, c) == None
CreateReservation(h, c) == [c EXCEPT !.items[h.item] = h.want]
UpdateReservation(h, c) == [c EXCEPT !.items[h.item] = h.want]
CreateExclusion(h, c) == [c EXCEPT !.items[h.item] = h.want]
DeleteItem(h, c) == [c EXCEPT !.items[h.item] = 0]

CanApply(h, c) ==
    CASE h.kind = "createScope" -> c = None
      [] h.kind \in OnScope -> c # None
      [] h.kind \in {"createReservation", "createExclusion"} ->
            c # None /\ c.items[h.item] = 0
      [] OTHER -> c # None /\ c.items[h.item] # 0

Apply(h, c) ==
    CASE h.kind = "createScope" -> CreateScope(h, c)
      [] h.kind = "updateScope" -> UpdateScope(h, c)
      [] h.kind = "toggleScope" -> SetScopeState(h, c)
      [] h.kind = "deleteScope" -> DeleteScope(h, c)
      [] h.kind = "createReservation" -> CreateReservation(h, c)
      [] h.kind = "updateReservation" -> UpdateReservation(h, c)
      [] h.kind = "createExclusion" -> CreateExclusion(h, c)
      [] h.kind = "deleteItem" -> DeleteItem(h, c)

\* What the Agent's scripts read.  A script skips what it cannot convert, says
\* so on stderr and exits with 0: its answer lacks a scope or an item.
Listed(skipped) == [s \in Scopes |-> IF agent[s] = None \/ s \in skipped
                                     THEN None ELSE agent[s].state]
Details(s, skipped) == [i \in Items |-> IF i \in skipped THEN 0
                                        ELSE agent[s].items[i]]

\* The statement on the snapshot affects a row: CreateScope and
\* CreateReservation are plain INSERTs, CreateExclusion is an upsert.
CanPatch(h, c) ==
    CASE h.kind = "createScope" -> c = None
      [] h.kind = "createReservation" -> h.row /\ c.items[h.item] = 0
      [] OTHER -> h.row

\* Mutant: the negated state is not one of the two states.
PatchOtherState(h, c) ==
    IF h.kind = "toggleScope" THEN [c EXCEPT !.state = 2 - c.state]
                              ELSE Apply(h, c)

\* ToggleScope negates the stored state, the others store what was asked for.
Patch(h, c) ==
    IF h.kind = "toggleScope" THEN [c EXCEPT !.state = 3 - c.state]
                              ELSE Apply(h, c)

OpTo(o, pc) == op' = [op EXCEPT ![o].pc = pc]
OpDone(ops, o) == [ops EXCEPT ![o] = [@ EXCEPT !.pc = "done", !.row = FALSE,
                                               !.want = 1]]

\* The request is decoded and its rows are loaded.  A toggle asks for the
\* state it did not read; an update without a change ends (dhcpScopeChangedFields).
OpStart(o, k, s, i, v) ==
    /\ op[o].pc = "idle"
    /\ k # "createScope" => RowLives(k, i, snap[s])
    /\ k \in {"updateScope", "toggleScope"} => v # snap[s].state
    /\ k \notin {"updateScope", "toggleScope", "updateReservation"} => v = 1
    /\ op' = [op EXCEPT ![o] = [pc |-> "check", kind |-> k, scope |-> s,
                                item |-> i, want |-> v,
                                row |-> k # "createScope"]]
    /\ UNCHANGED <<data, tasks, pool, faults, history>>

\* ensureAgentNotSyncing
OpCheck(o) ==
    /\ op[o].pc = "check"
    /\ op' = IF Syncing THEN OpDone(op, o) ELSE [op EXCEPT ![o].pc = "begin"]
    /\ UNCHANGED <<data, tasks, pool, faults, history>>

\* refresh.begin(target); the deferred finish is part of the last step.
OpBegin(o) ==
    /\ op[o].pc = "begin"
    /\ OpTo(o, "call")
    /\ UNCHANGED <<data, tasks, pool, faults, history>>

\* The Agent call succeeds.
OpCall(o) ==
    LET s == op[o].scope IN
    /\ op[o].pc = "call"
    /\ CanApply(op[o], agent[s])
    /\ agent' = [agent EXCEPT ![s] = Apply(op[o], @)]
    /\ OpTo(o, "save")
    /\ Touch(s)
    /\ NoFault
    /\ UNCHANGED <<snap, tasks, pool, excused>>

\* The Agent refuses, or the call fails before or after it had its effect
\* (agentOperationTimeout).  markDHCPScopeDirtyAfterAgentFailure; createScope
\* returns without it.
OpCallFails(o) ==
    LET s == op[o].scope IN
    /\ op[o].pc = "call"
    /\ op' = IF op[o].kind = "createScope" THEN OpDone(op, o)
                                           ELSE [op EXCEPT ![o].pc = "mark"]
    /\ \/ /\ ~CanApply(op[o], agent[s])
          /\ NoFault
          /\ UNCHANGED <<agent, history>>
       \/ /\ Fault
          /\ UNCHANGED <<agent, history>>
       \/ /\ Fault
          /\ CanApply(op[o], agent[s])
          /\ agent' = [agent EXCEPT ![s] = Apply(op[o], @)]
          /\ Touch(s)
          /\ excused' = IF op[o].kind = "createScope" THEN excused \cup {s}
                                                      ELSE excused
    /\ UNCHANGED <<snap, tasks, pool>>

\* Somebody read scope s from the Agent and has yet to store it.
CopyInFlight(s) ==
    \/ ref[s].pc = "store"
    \/ sync.pc = "replace" /\ sync.listed[s] # None
    \/ \E w \in Workers : worker[w].pc = "store" /\ worker[w].scope = s

\* The snapshot is patched.  deleteScope is the one handler that does not
\* mark the scope dirty after this.
OpSave(o) ==
    LET s == op[o].scope
        f == [snap EXCEPT ![s] = Patch(op[o], @)]
        last == op[o].kind = "deleteScope" IN
    /\ op[o].pc = "save"
    /\ CanPatch(op[o], snap[s])
    /\ snap' = f
    /\ op' = Rows(f, IF last THEN OpDone(op, o) ELSE [op EXCEPT ![o].pc = "mark"])
    /\ Touch(s)
    /\ excused' = IF last /\ CopyInFlight(s) THEN excused \cup {s} ELSE excused
    /\ NoFault
    /\ UNCHANGED <<agent, tasks, pool>>

\* The statement fails or finds no row.  Three handlers return an error then,
\* the others ignore it.
OpSaveFails(o) ==
    /\ op[o].pc = "save"
    /\ \/ ~CanPatch(op[o], snap[op[o].scope]) /\ NoFault
       \/ Fault
    /\ IF op[o].kind \in NeedsSave
       THEN op' = OpDone(op, o) /\ Excuse(op[o].scope)
       ELSE OpTo(o, "mark") /\ UNCHANGED excused
    /\ UNCHANGED <<data, tasks, pool, touched>>

\* createReservation and updateReservation update the lease of the address in
\* a second statement; when that fails they return as well.
OpLeaseFails(o) ==
    LET s == op[o].scope
        f == [snap EXCEPT ![s] = Patch(op[o], @)] IN
    /\ op[o].pc = "save"
    /\ op[o].kind \in {"createReservation", "updateReservation"}
    /\ CanPatch(op[o], snap[s])
    /\ Fault
    /\ snap' = f
    /\ op' = Rows(f, OpDone(op, o))
    /\ Touch(s)
    /\ Excuse(s)
    /\ UNCHANGED <<agent, tasks, pool>>

\* markDirty
OpMark(o) ==
    /\ op[o].pc = "mark"
    /\ owed' = [owed EXCEPT ![op[o].scope] = TRUE]
    /\ op' = OpDone(op, o)
    /\ UNCHANGED <<data, fire, queued, ref, pool, faults, history>>

-----------------------------------------------------------------------------
(***************************************************************************)
(* Refreshes of one scope                                                  *)
(***************************************************************************)

InProgress(s) ==
    \E o \in Ops : op[o].scope = s /\ op[o].pc \in {"call", "save", "mark"}

\* Mutant: fire does not look at the operations in progress.
FireEarly(s) ==
    /\ owed[s] /\ fire[s] = "idle"
    /\ owed' = [owed EXCEPT ![s] = FALSE]
    /\ IF Syncing
       THEN Excuse(s) /\ UNCHANGED fire
       ELSE fire' = [fire EXCEPT ![s] = "owed"] /\ UNCHANGED excused
    /\ UNCHANGED <<data, op, queued, ref, pool, faults, touched>>

\* fire waits for operations in progress and deletes the entry; a
\* synchronisation that runs makes it drop the refresh.
Fire(s) ==
    /\ owed[s] /\ fire[s] = "idle" /\ ~InProgress(s)
    /\ owed' = [owed EXCEPT ![s] = FALSE]
    /\ IF Syncing
       THEN Excuse(s) /\ UNCHANGED fire
       ELSE fire' = [fire EXCEPT ![s] = "owed"] /\ UNCHANGED excused
    /\ UNCHANGED <<data, op, queued, ref, pool, faults, touched>>

\* A user presses the refresh button (scopeAction).
RequestRefresh(s) ==
    /\ Manual /\ snap[s] # None /\ fire[s] = "idle" /\ ~Syncing
    /\ fire' = [fire EXCEPT ![s] = "manual"]
    /\ UNCHANGED <<data, op, owed, queued, ref, pool, faults, history>>

\* enqueueDHCPScopeRefresh creates no task when one of the scope runs, or when
\* the row cannot be inserted.
Enqueue(s) ==
    LET drop == excused' = IF fire[s] = "owed" THEN excused \cup {s}
                                               ELSE excused IN
    /\ fire[s] # "idle"
    /\ fire' = [fire EXCEPT ![s] = "idle"]
    /\ \/ /\ ref[s].pc = "idle" /\ queued[s] < MaxQueued
          /\ queued' = [queued EXCEPT ![s] = @ + 1]
          /\ NoFault
          /\ UNCHANGED excused
       \/ ref[s].pc # "idle" /\ NoFault /\ drop /\ UNCHANGED queued
       \/ Fault /\ drop /\ UNCHANGED queued
    /\ UNCHANGED <<data, op, owed, ref, pool, touched>>

\* RunRefreshTask takes the refresh lock, or deletes the duplicate task.
RefreshStart(s) ==
    /\ queued[s] > 0
    /\ queued' = [queued EXCEPT ![s] = @ - 1]
    /\ ref' = IF ref[s].pc = "idle" THEN [ref EXCEPT ![s].pc = "scope"] ELSE ref
    /\ UNCHANGED <<data, op, owed, fire, pool, faults, history>>

\* Loses the refresh of scope s.
RefreshLost(s) == ref' = [ref EXCEPT ![s] = NoRefresh] /\ Excuse(s)

\* fetchDHCPScope (GetScope of the Agent): the attributes of the scope.
RefreshScope(s) ==
    /\ ref[s].pc = "scope" /\ agent[s] # None
    /\ ref' = [ref EXCEPT ![s].pc = "details", ![s].state = agent[s].state]
    /\ UNCHANGED <<data, op, owed, fire, queued, pool, faults, history>>

\* There is no such scope.  The snapshot would lose it after a 404, but the
\* Agents of the repository answer 500 to every error of a script, and the
\* task fails.
RefreshMissing(s) ==
    /\ ref[s].pc = "scope" /\ agent[s] = None
    /\ \/ ref' = [ref EXCEPT ![s].pc = "gone"] /\ UNCHANGED excused
       \/ RefreshLost(s)
    /\ UNCHANGED <<data, op, owed, fire, queued, pool, faults, touched>>

\* fetchDHCPScopeDetails; a scope deleted since then is an error.
RefreshDetails(s) ==
    /\ ref[s].pc = "details"
    /\ \/ /\ agent[s] = None
          /\ ref' = [ref EXCEPT ![s] = NoRefresh]
          /\ NoFault
          /\ UNCHANGED excused
       \/ /\ agent[s] # None
          /\ ref' = [ref EXCEPT ![s].pc = "store", ![s].items = Details(s, {})]
          /\ NoFault
          /\ UNCHANGED excused
       \/ /\ agent[s] # None
          /\ Fault
          /\ \E skipped \in (SUBSET Items) \ {{}} :
                ref' = [ref EXCEPT ![s].pc = "store",
                                   ![s].items = Details(s, skipped)]
          /\ Excuse(s)
    /\ UNCHANGED <<data, op, owed, fire, queued, pool, touched>>

\* ReplaceDHCPScopeSnapshot stores exactly what was fetched, and the scope
\* itself if there is no row for it; after 404 the scope is deleted.
RefreshStore(s) ==
    LET f == [snap EXCEPT ![s] = IF ref[s].pc = "gone" THEN None ELSE
                 [state |-> ref[s].state, items |-> ref[s].items]] IN
    /\ ref[s].pc \in {"store", "gone"}
    /\ snap' = f
    /\ op' = Rows(f, op)
    /\ ref' = [ref EXCEPT ![s] = NoRefresh]
    /\ Touch(s)
    /\ UNCHANGED <<agent, owed, fire, queued, pool, faults, excused>>

\* A call or the transaction fails, and the task with it.
RefreshFails(s) ==
    /\ ref[s].pc # "idle"
    /\ Fault
    /\ RefreshLost(s)
    /\ UNCHANGED <<data, op, owed, fire, queued, pool, touched>>

-----------------------------------------------------------------------------
(***************************************************************************)
(* Full synchronisation                                                    *)
(***************************************************************************)
SyncTo(pc) == sync' = [sync EXCEPT !.pc = pc]

\* Takes the agent-sync lock and sets the mark.
SyncStart ==
    /\ sync.pc = "idle"
    /\ SyncTo("list")
    /\ touched' = {}
    /\ UNCHANGED <<data, op, tasks, worker, faults, excused>>

\* AgentFullSyncTimeout elapses: calls and statements fail from now on.
SyncExpire ==
    /\ sync.pc \in {"list", "replace", "pool"} /\ ~sync.expired
    /\ Fault
    /\ sync' = [sync EXCEPT !.expired = TRUE]
    /\ UNCHANGED <<data, op, tasks, worker, history>>

\* GET /dhcp/scopes (ListScopes of the Agent).
SyncList ==
    /\ sync.pc = "list" /\ ~sync.expired
    /\ \/ /\ sync' = [sync EXCEPT !.pc = "replace", !.listed = Listed({})]
          /\ NoFault
          /\ UNCHANGED history
       \/ \E skipped \in (SUBSET Scopes) \ {{}} :
             /\ Fault
             /\ sync' = [sync EXCEPT !.pc = "replace", !.listed = Listed(skipped)]
             /\ excused' = excused \cup skipped
             /\ touched' = touched \cup skipped
    /\ UNCHANGED <<data, op, tasks, worker>>

\* Mutant: scopes that are not listed stay.
ReplacedKeeps(c, state) ==
    CASE state = None -> c
      [] state # None /\ c = None -> [state |-> state, items |-> NoItems]
      [] OTHER -> [c EXCEPT !.state = state]

\* ReplaceDHCPScopes: new scopes have no items yet, scopes that are not
\* listed disappear with their items.
Replaced(c, state) ==
    CASE state = None -> None
      [] state # None /\ c = None -> [state |-> state, items |-> NoItems]
      [] OTHER -> [c EXCEPT !.state = state]

SyncReplace ==
    LET f == [s \in Scopes |-> Replaced(snap[s], sync.listed[s])] IN
    /\ sync.pc = "replace" /\ ~sync.expired
    /\ snap' = f
    /\ op' = Rows(f, op)
    /\ sync' = [sync EXCEPT !.pc = "pool",
                            !.todo = {s \in Scopes : sync.listed[s] # None}]
    /\ UNCHANGED <<agent, tasks, worker, faults, history>>

\* The list or its transaction fails: syncDHCP returns the error.
SyncFails ==
    /\ sync.pc \in {"list", "replace"}
    /\ \/ sync.expired /\ NoFault
       \/ Fault
    /\ sync' = [sync EXCEPT !.pc = "end", !.result = "error"]
    /\ UNCHANGED <<data, op, tasks, worker, history>>

\* The loop that hands out scopes reaches its select with the next one.
SyncOffer(s) ==
    /\ sync.pc = "pool" /\ sync.offer = None /\ s \in sync.todo
    /\ ~sync.expired
    /\ sync' = [sync EXCEPT !.offer = s, !.todo = @ \ {s}]
    /\ UNCHANGED <<data, op, tasks, worker, faults, history>>

\* It sees the context done, before or in the select.
SyncBreak ==
    /\ sync.pc = "pool" /\ sync.expired
    /\ sync.offer # None \/ sync.todo # {}
    /\ sync' = [sync EXCEPT !.offer = None, !.todo = {}, !.cancelled = TRUE]
    /\ UNCHANGED <<data, op, tasks, worker, faults, history>>

\* scope := <-scopeJobs
WorkerTake(w) ==
    /\ worker[w].pc = "idle" /\ sync.offer # None
    /\ worker' = [worker EXCEPT ![w].pc = "check", ![w].scope = sync.offer]
    /\ sync' = [sync EXCEPT !.offer = None]
    /\ UNCHANGED <<data, op, tasks, faults, history>>

\* ctx.Err() before the calls: the worker returns.
WorkerCheck(w) ==
    /\ worker[w].pc = "check"
    /\ IF sync.expired
       THEN /\ worker' = [worker EXCEPT ![w] = [NoWorker EXCEPT !.pc = "gone"]]
            /\ sync' = [sync EXCEPT !.cancelled = TRUE]
       ELSE /\ worker' = [worker EXCEPT ![w].pc = "fetch"]
            /\ UNCHANGED sync
    /\ UNCHANGED <<data, op, tasks, faults, history>>

\* fetchDHCPScopeDetails
WorkerFetch(w) ==
    LET s == worker[w].scope IN
    /\ worker[w].pc = "fetch" /\ ~sync.expired
    /\ agent[s] # None
    /\ \/ /\ worker' = [worker EXCEPT ![w].pc = "store",
                                      ![w].items = Details(s, {})]
          /\ NoFault
          /\ UNCHANGED history
       \/ \E skipped \in (SUBSET Items) \ {{}} :
             /\ Fault
             /\ worker' = [worker EXCEPT ![w].pc = "store",
                                         ![w].items = Details(s, skipped)]
             /\ Excuse(s)
             /\ touched' = touched \cup {s}
    /\ UNCHANGED <<data, op, tasks, sync>>

\* ReplaceDHCPScopeSnapshot, with the attributes of the list.
WorkerStore(w) ==
    LET s == worker[w].scope
        f == [snap EXCEPT ![s] = [state |-> sync.listed[s],
                                  items |-> worker[w].items]] IN
    /\ worker[w].pc = "store" /\ ~sync.expired
    /\ snap' = f
    /\ op' = Rows(f, op)
    /\ worker' = [worker EXCEPT ![w] = NoWorker]
    /\ UNCHANGED <<agent, tasks, sync, faults, history>>

\* Mutant: every error of a worker counts as a cancellation.
WorkerErrorCancels == [sync EXCEPT !.cancelled = TRUE]

\* Either fails: after a timeout the run counts as cancelled, otherwise the
\* error is collected; the worker continues with the next scope.
WorkerError == IF sync.expired THEN [sync EXCEPT !.cancelled = TRUE]
                               ELSE [sync EXCEPT !.failed = TRUE]

WorkerFails(w) ==
    /\ worker[w].pc \in {"fetch", "store"}
    /\ \/ sync.expired /\ NoFault
       \/ worker[w].pc = "fetch" /\ agent[worker[w].scope] = None /\ NoFault
       \/ Fault
    /\ sync' = WorkerError
    /\ worker' = [worker EXCEPT ![w] = NoWorker]
    /\ UNCHANGED <<data, op, tasks, history>>

\* close(scopeJobs), wg.Wait() and the return value.
JoinResult == IF sync.cancelled THEN (IF sync.expired THEN "error" ELSE "nil")
              ELSE IF sync.failed THEN "error" ELSE "nil"

SyncJoin ==
    /\ sync.pc = "pool" /\ sync.offer = None /\ sync.todo = {}
    /\ \A w \in Workers : worker[w].pc \in {"idle", "gone"}
    /\ sync' = [sync EXCEPT !.pc = "end", !.result = JoinResult]
    /\ worker' = [w \in Workers |-> NoWorker]
    /\ UNCHANGED <<data, op, tasks, faults, history>>

\* The deferred calls clear the mark and release the lock.
SyncEnd ==
    /\ sync.pc = "end"
    /\ sync' = NoSync
    /\ touched' = {}
    /\ UNCHANGED <<data, op, tasks, worker, faults, excused>>

-----------------------------------------------------------------------------
\* A client takes or gives back an address, or an administrator works on the
\* server itself: the backend hears nothing of it.
OthersChange(s, i) ==
    /\ agent[s] # None
    /\ Fault
    /\ agent' = [agent EXCEPT ![s].items[i] = IF @ = 0 THEN 1 ELSE 0]
    /\ Touch(s)
    /\ Excuse(s)
    /\ UNCHANGED <<snap, op, tasks, pool>>

OpStep(o) == \/ OpCheck(o) \/ OpBegin(o) \/ OpCall(o) \/ OpCallFails(o) \/ OpSave(o)
             \/ OpSaveFails(o) \/ OpLeaseFails(o) \/ OpMark(o)

RefreshStep(s) == \/ Fire(s) \/ Enqueue(s) \/ RefreshStart(s) \/ RefreshScope(s)
                  \/ RefreshMissing(s) \/ RefreshDetails(s) \/ RefreshStore(s) \/ RefreshFails(s)

SyncStep == \/ SyncList \/ SyncReplace \/ SyncFails \/ SyncBreak \/ SyncJoin
            \/ SyncEnd \/ \E s \in Scopes : SyncOffer(s)

WorkerStep(w) == \/ WorkerTake(w) \/ WorkerCheck(w) \/ WorkerFetch(w)
                 \/ WorkerStore(w) \/ WorkerFails(w)

Next ==
    \/ \E o \in Ops, k \in Kinds, s \in Scopes, i \in Items, v \in Attributes :
          OpStart(o, k, s, i, v)
    \/ \E o \in Ops : OpStep(o)
    \/ \E s \in Scopes : RequestRefresh(s) \/ RefreshStep(s)
    \/ \E s \in Scopes, i \in Items : OthersChange(s, i)
    \/ SyncStart \/ SyncExpire \/ SyncStep
    \/ \E w \in Workers : WorkerStep(w)

Spec == Init /\ [][Next]_vars

\* Goroutines make progress, and the timer of the scheduled synchronisation
\* starts one again and again (startScheduledRoleRefresh).
FairSpec ==
    /\ Spec
    /\ \A o \in Ops : WF_vars(OpStep(o))
    /\ \A s \in Scopes : WF_vars(RefreshStep(s))
    /\ WF_vars(SyncStart) /\ WF_vars(SyncStep)
    /\ \A w \in Workers : WF_vars(WorkerStep(w))

-----------------------------------------------------------------------------
(***************************************************************************)
(* Properties                                                              *)
(***************************************************************************)
Settled(s) ==
    /\ ~InProgress(s)
    /\ ~owed[s] /\ fire[s] = "idle" /\ queued[s] = 0 /\ ref[s].pc = "idle"
    /\ ~Syncing

\* When nothing is in progress or owed for a scope, its snapshot is what the
\* Agent holds, unless one of these happened (each is an Excuse above):
\*   - an owed refresh was dropped because a synchronisation or a refresh of
\*     the scope was running, or failed (it does when the scope is gone);
\*   - createScope failed although the Agent had created the scope;
\*   - a snapshot statement of createReservation, updateReservation or
\*     deleteScope failed after the Agent's success;
\*   - deleteScope removed the rows while a copy of the scope was on its way;
\*   - a script of the Agent skipped the scope or an item of it;
\*   - somebody else changed the server.
\* So every other interleaving of handlers, refreshes and synchronisations
\* comes to agreement by itself.
AgreesUnlessExcused ==
    \A s \in Scopes : Settled(s) /\ s \notin excused => snap[s] = agent[s]

\* syncDHCP returns nil only if it stored every scope completely: a scope
\* nobody else touched and no script skipped during the run is then the same
\* on both sides, whatever the snapshot was before.
NilMeansExact ==
    sync.pc = "end" /\ sync.result = "nil" =>
        \A s \in Scopes \ touched : snap[s] = agent[s]

\* Once the operations and failures are over, full synchronisations bring
\* the snapshot into agreement with the Agent for good, from any snapshot.
\* This needs every run of syncDHCP to return, whatever fails or expires.
ConvergesByFullSync == <>[](snap = agent)

\* docs/refresh-sync.md: deleting a scope deletes it in the database.  Nothing
\* may bring it back while it does not exist on the Agent.
DeletedScopeStaysDeleted ==
    \A o \in Ops : op[o].kind = "deleteScope" /\ op[o].pc = "done" =>
        LET s == op[o].scope IN
        Settled(s) /\ agent[s] = None => snap[s] = None

=============================================================================
