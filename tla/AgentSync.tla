----------------------------- MODULE AgentSync -----------------------------
(***************************************************************************)
(* Refresh tasks and Agent synchronisation of the ZoneLease backend:       *)
(*                                                                         *)
(*   - the requests that create a refresh task (createRefresh, serverAction*)
(*     "sync", zone and scope refreshes) and the scheduled role refreshes; *)
(*   - RunRefreshTask, the goroutine that executes a task;                 *)
(*   - SyncAll, its fan-out over the Agents under a semaphore;             *)
(*   - syncServerWithLimits, the run of one task on one Agent, under the   *)
(*     agent-sync lock and the agent-sync runtime mark.                    *)
(*                                                                         *)
(* Several backend instances share PostgreSQL (row) and Redis (the three   *)
(* lock tables, mark, and the task's runtime cache and last event).  What  *)
(* a run reads from and writes about an Agent is not modelled here: only   *)
(* that it is collecting, and whether that succeeded.                      *)
(***************************************************************************)
EXTENDS Naturals, FiniteSets, Realtime

CONSTANTS
    Servers,          \* registered Agents, all with an Agent URL
    Role,             \* Role[s], "dns" or "dhcp"
    Parts,            \* DNS zones and DHCP scopes that can be refreshed alone
    Owner,            \* Owner[p], the Agent that part p belongs to
    Tasks,            \* identifiers of refresh_tasks rows
    Instances,        \* backend processes
    SyncConcurrency,  \* RuntimeSyncConcurrency, normalised to be positive
    Requested,        \* bound: the jobs users request in a model
    Scheduled,        \* bound: the roles whose timers fire in a model
    RedisFails,       \* may a Redis command return an error?
    DBFails           \* may a PostgreSQL statement return an error?

ASSUME RoleAssumption == Role \in [Servers -> {"dns", "dhcp"}]
ASSUME OwnerAssumption == Owner \in [Parts -> Servers]
ASSUME ConcurrencyAssumption == SyncConcurrency \in Nat \ {0}
ASSUME FailureAssumption == RedisFails \in BOOLEAN /\ DBFails \in BOOLEAN
ASSUME InstancesAssumption == Instances # {}
ASSUME ScheduledAssumption == Scheduled \subseteq {"dns", "dhcp"}
ASSUME TokenAssumption == NoToken \notin Tasks

VARIABLES
    refreshLock,  \* zonelease:lock:refresh:<target>
    agentLock,    \* zonelease:lock:agent-sync:<server>
    schedLock,    \* zonelease:lock:refresh:scheduled-<role>
    mark,         \* zonelease:runtime:agent-sync:<server>, by who wrote it
    known,        \* the servers table
    row,          \* a task: PostgreSQL status, Redis cached status, last event
    run,          \* the request and the goroutine that carry a task
    step,         \* step[t][s]: where syncServerWithLimits of t on s stands
    owned,        \* owned[t][s]: its local "locked", the lock is its own
    result        \* result[t][s]: what it returned

vars == <<refreshLock, agentLock, schedLock, mark, known, row, run,
          step, owned, result>>
agent == <<step, owned, result>>
locks == <<refreshLock, agentLock, schedLock>>

-----------------------------------------------------------------------------
(***************************************************************************)
(* Jobs, i.e. a task type with its target.  A job is also the key of its   *)
(* refresh lock (refreshTaskLockKey).                                      *)
(***************************************************************************)
FanOutKinds == {"all", "dns", "dhcp"}

Job(k, target) == [kind |-> k, target |-> target]
FanOutJobs == {Job(k, "-") : k \in FanOutKinds}
ServerJobs == {Job("server", s) : s \in Servers}
PartJobs == {Job("part", p) : p \in Parts}
Jobs == FanOutJobs \cup ServerJobs \cup PartJobs

\* shouldSyncServerForTask
ShouldSync(k, s) == k = "all" \/ k = Role[s]

Statuses == {"none", "queued", "running", "completed", "failed", "deleted"}
\* "open" stands for none, "queued", "running" and "progress".
Events == {"open", "success", "failed"}
Outcomes == {"none", "completed", "failed"}
PCs == {"idle", "create", "mark", "publish", "lock", "start", "work", "sync",
        "finish", "announce", "unlock", "unsched", "ended", "crashed"}
Steps == {"none", "wait", "lock", "mark", "collect", "clear", "unlock",
          "report", "done"}
Results == {"none", "completed", "failed", "skipped"}

TypeOK ==
    /\ refreshLock \in [Jobs -> Tasks \cup {NoToken}]
    /\ agentLock \in [Servers -> Tasks \cup {NoToken}]
    /\ schedLock \in [{"dns", "dhcp"} -> Tasks \cup {NoToken}]
    /\ mark \in [Servers -> Tasks \cup {NoToken}]
    /\ known \subseteq Servers
    /\ row \in [Tasks -> [status : Statuses, cache : Statuses, event : Events]]
    /\ run \in [Tasks -> [pc : PCs, job : Jobs, sched : BOOLEAN,
                          inst : Instances, outcome : Outcomes]]
    /\ step \in [Tasks -> [Servers -> Steps]]
    /\ owned \in [Tasks -> [Servers -> BOOLEAN]]
    /\ result \in [Tasks -> [Servers -> Results]]

\* Nothing is running, and K are the servers an administrator has entered.
Start(K) ==
    /\ refreshLock = [j \in Jobs |-> NoToken]
    /\ agentLock = [s \in Servers |-> NoToken]
    /\ schedLock = [r \in {"dns", "dhcp"} |-> NoToken]
    /\ mark = [s \in Servers |-> NoToken]
    /\ known = K
    /\ row = [t \in Tasks |-> [status |-> "none", cache |-> "none",
                               event |-> "open"]]
    /\ run = [t \in Tasks |-> [pc |-> "idle", job |-> Job("all", "-"),
                               sched |-> FALSE, outcome |-> "none",
                               inst |-> CHOOSE i \in Instances : TRUE]]
    /\ step = [t \in Tasks |-> [s \in Servers |-> "none"]]
    /\ owned = [t \in Tasks |-> [s \in Servers |-> FALSE]]
    /\ result = [t \in Tasks |-> [s \in Servers |-> "none"]]

Init == Start(Servers)

-----------------------------------------------------------------------------
\* A task is live from the moment its request passed the checks until its
\* goroutine returns or its process dies.
Live(t) == run[t].pc \notin {"idle", "ended", "crashed"}

\* The run of t on s is between its TryLock and its deferred Unlock.
InSection(t, s) == step[t][s] \in {"mark", "collect", "clear", "unlock"}

\* InFlight when a goroutine does not give its slot back.
InFlightLeaking(t) ==
    {s \in Servers : step[t][s] \notin {"none", "wait"}}

\* Goroutines of SyncAll holding a slot of the semaphore.
InFlight(t) ==
    {s \in Servers : step[t][s] \notin {"none", "wait", "done"}}

At(t, s, here) == step[t][s] = here
Step(t, s, next) == step' = [step EXCEPT ![t][s] = next]
Goto(t, pc) == run' = [run EXCEPT ![t].pc = pc]

\* What the run's deferred calls leave to do after its refresh lock.
Return(t) == IF run[t].sched THEN "unsched" ELSE "ended"

\* Each Redis or PostgreSQL call may fail when the constants allow it.
RedisOutcomes == IF RedisFails THEN {TRUE, FALSE} ELSE {TRUE}
DBOutcomes == IF DBFails THEN {TRUE, FALSE} ELSE {TRUE}

\* updateRefreshTask: the row, then its runtime cache; each may fail alone.
\* DeleteRefreshTask: the row goes, its cached status is left to expire.
\* PublishRefresh: the event reaches the stream unless Redis fails.
Update(t, status, db, redis) ==
    [row[t] EXCEPT !.status = IF db /\ @ # "deleted" THEN status ELSE @,
                   !.cache = IF redis THEN status ELSE @]
Delete(t, db) == [row[t] EXCEPT !.status = IF db THEN "deleted" ELSE @]
Publish(r, event, sent) == IF sent THEN [r EXCEPT !.event = event] ELSE r

\* What the task list shows (attachRefreshTaskRuntime): the cached status of a
\* task whose row is not final.
Visible(t) ==
    IF row[t].status \in {"queued", "running"} /\ row[t].cache # "none"
    THEN row[t].cache ELSE row[t].status

-----------------------------------------------------------------------------
(***************************************************************************)
(* Requests.  A request checks a Redis key and then creates a row: the     *)
(* check may be stale by the time the row exists.                          *)
(***************************************************************************)
Accept(t, j, sched, i) ==
    run' = [run EXCEPT ![t] = [pc |-> "create", job |-> j, sched |-> sched,
                               inst |-> i, outcome |-> "none"]]

\* createRefresh: a failed Exists is logged and ignored.
RequestFanOut(t, j, i) ==
    /\ run[t].pc = "idle"
    /\ CanLock(refreshLock, j) \/ RedisFails
    /\ Accept(t, j, FALSE, i)
    /\ UNCHANGED <<locks, mark, known, row, agent>>

\* serverAction "sync": ensureAgentNotSyncing reads the mark; a failed read
\* counts as "not syncing".
RequestServerSync(t, s, i) ==
    /\ run[t].pc = "idle"
    /\ s \in known
    /\ mark[s] = NoToken \/ RedisFails
    /\ Accept(t, Job("server", s), FALSE, i)
    /\ UNCHANGED <<locks, mark, known, row, agent>>

\* zoneAction and scopeAction "refresh", and a delayed refresh after an
\* operation: the mark, then isRefreshTargetRunning, which refuses the
\* request when Redis fails.
RequestPart(t, p, i) ==
    /\ run[t].pc = "idle"
    /\ Owner[p] \in known
    /\ mark[Owner[p]] = NoToken \/ RedisFails
    /\ CanLock(refreshLock, Job("part", p))
    /\ Accept(t, Job("part", p), FALSE, i)
    /\ UNCHANGED <<locks, mark, known, row, agent>>

\* startScheduledRoleRefresh: the timer of one instance fires.  The tick is
\* skipped when another instance holds the lock, and goes on without it when
\* Redis fails.
ScheduledTick(t, r, i) ==
    /\ run[t].pc = "idle"
    /\ \/ CanLock(schedLock, r) /\ schedLock' = TryLock(schedLock, r, t)
       \/ RedisFails /\ UNCHANGED schedLock
    /\ Accept(t, Job(r, "-"), TRUE, i)
    /\ UNCHANGED <<refreshLock, agentLock, mark, known, row, agent>>

\* CreateRefreshTask.  On an error a request answers 500 and a scheduled tick
\* gives its lock back.
CreateTask(t) ==
    /\ run[t].pc = "create"
    /\ \/ /\ row' = [row EXCEPT ![t].status = "queued"]
          /\ Goto(t, IF run[t].job.kind = "server" THEN "mark" ELSE "publish")
          /\ UNCHANGED schedLock
       \/ /\ DBFails
          /\ Goto(t, "ended")
          /\ IF run[t].sched
             THEN schedLock' = Unlock(schedLock, run[t].job.kind, t)
             ELSE UNCHANGED schedLock
          /\ UNCHANGED row
    /\ UNCHANGED <<refreshLock, agentLock, mark, known, agent>>

\* enqueueServerRefresh re-reads the server and marks it as syncing before
\* the task runs (MarkAgentSyncQueued).
MarkQueued(t) ==
    /\ run[t].pc = "mark"
    /\ LET s == run[t].job.target IN
       \/ s \in known /\ mark' = [mark EXCEPT ![s] = t]
       \/ (s \notin known \/ RedisFails \/ DBFails) /\ UNCHANGED mark
    /\ Goto(t, "publish")
    /\ UNCHANGED <<locks, known, row, agent>>

\* The "queued" event, then "go RunRefreshTask".
Spawn(t) ==
    /\ run[t].pc = "publish"
    /\ \E sent \in RedisOutcomes :
          row' = [row EXCEPT ![t] = Publish(@, "open", sent)]
    /\ Goto(t, "lock")
    /\ UNCHANGED <<locks, mark, known, agent>>

-----------------------------------------------------------------------------
(***************************************************************************)
(* RunRefreshTask.                                                         *)
(***************************************************************************)

\* AcquireRefreshLock that overwrites a lock another run holds.
AcquireRefreshLockHeld(t) ==
    /\ run[t].pc = "lock"
    /\ refreshLock' = TryLock(refreshLock, run[t].job, t)
    /\ Goto(t, "start")
    /\ UNCHANGED <<agentLock, schedLock, mark, known, row, agent>>

\* The refresh lock of the target; a Redis error lets the task run unlocked.
AcquireRefreshLock(t) ==
    /\ run[t].pc = "lock"
    /\ \/ /\ CanLock(refreshLock, run[t].job)
          /\ refreshLock' = TryLock(refreshLock, run[t].job, t)
       \/ RedisFails /\ UNCHANGED refreshLock
    /\ Goto(t, "start")
    /\ UNCHANGED <<agentLock, schedLock, mark, known, row, agent>>

\* Another run holds it: the duplicate row is deleted and "failed" published.
SkipDuplicate(t) ==
    /\ run[t].pc = "lock"
    /\ ~CanLock(refreshLock, run[t].job)
    /\ \E db \in DBOutcomes, sent \in RedisOutcomes :
          row' = [row EXCEPT ![t] = Publish(Delete(t, db), "failed", sent)]
    /\ Goto(t, Return(t))
    /\ UNCHANGED <<locks, mark, known, agent>>

StartRunning(t) ==
    /\ run[t].pc = "start"
    /\ \E db \in DBOutcomes, redis \in RedisOutcomes, sent \in RedisOutcomes :
          row' = [row EXCEPT ![t] =
                    Publish(Update(t, "running", db, redis), "open", sent)]
    /\ Goto(t, "work")
    /\ UNCHANGED <<locks, mark, known, agent>>

\* Finish announcing a result that was never stored.
FinishUnstored(t, outcome) ==
    run' = [run EXCEPT ![t].pc = "announce", ![t].outcome = outcome]

\* The body failed before any Agent was contacted, or finished.
Finish(t, outcome) ==
    run' = [run EXCEPT ![t].pc = "finish", ![t].outcome = outcome]

\* A zone or scope refresh (SyncDNSZone, SyncDHCPScope) takes neither the
\* agent-sync lock nor the mark.
WorkPart(t) ==
    /\ run[t].pc = "work"
    /\ run[t].job.kind = "part"
    /\ \/ Owner[run[t].job.target] \in known /\ Finish(t, "completed")
       \/ Finish(t, "failed")
    /\ UNCHANGED <<locks, mark, known, row, agent>>

\* GetServer, then syncServerTarget on the one Agent.
WorkServer(t) ==
    /\ run[t].pc = "work"
    /\ run[t].job.kind = "server"
    /\ LET s == run[t].job.target IN
       \/ /\ s \in known
          /\ Step(t, s, "lock")
          /\ Goto(t, "sync")
       \/ /\ s \notin known \/ DBFails
          /\ Finish(t, "failed")
          /\ UNCHANGED step
    /\ UNCHANGED <<locks, mark, known, row, owned, result>>

\* SyncAll lists the servers, writes the first progress and starts one
\* goroutine per target.
WorkFanOut(t) ==
    /\ run[t].pc = "work"
    /\ run[t].job \in FanOutJobs
    /\ \/ /\ step' = [step EXCEPT ![t] = [s \in Servers |->
                IF s \in known /\ ShouldSync(run[t].job.kind, s)
                THEN "wait" ELSE "none"]]
          /\ \E db \in DBOutcomes, redis \in RedisOutcomes :
                row' = [row EXCEPT ![t] = Update(t, "running", db, redis)]
          /\ Goto(t, "sync")
       \/ /\ DBFails
          /\ Finish(t, "failed")
          /\ UNCHANGED <<row, step>>
    /\ UNCHANGED <<locks, mark, known, owned, result>>

\* Join without wg.Wait.
JoinEarly(t) ==
    /\ run[t].pc = "sync"
    /\ Finish(t, IF \E s \in Servers : result[t][s] = "failed"
                 THEN "failed" ELSE "completed")
    /\ UNCHANGED <<locks, mark, known, row, agent>>

\* wg.Wait for a fan-out, the return of syncServerTarget for one Agent.  A
\* skipped Agent fails a single sync but not a fan-out.
Join(t) ==
    /\ run[t].pc = "sync"
    /\ \A s \in Servers : step[t][s] \in {"none", "done"}
    /\ LET bad == IF run[t].job.kind = "server" THEN {"failed", "skipped"}
                  ELSE {"failed"}
       IN Finish(t, IF \E s \in Servers : result[t][s] \in bad
                    THEN "failed" ELSE "completed")
    /\ UNCHANGED <<locks, mark, known, row, agent>>

\* FinishUpdate storing the word of the event instead of the status.
FinishUpdateEventWord(t) ==
    /\ run[t].pc = "finish"
    /\ row' = [row EXCEPT ![t].status =
                IF run[t].outcome = "completed" THEN "success" ELSE "failed"]
    /\ Goto(t, "announce")
    /\ UNCHANGED <<locks, mark, known, agent>>

FinishUpdate(t) ==
    /\ run[t].pc = "finish"
    /\ \E db \in DBOutcomes, redis \in RedisOutcomes :
          row' = [row EXCEPT ![t] = Update(t, run[t].outcome, db, redis)]
    /\ Goto(t, "announce")
    /\ UNCHANGED <<locks, mark, known, agent>>

\* "success" or "failed"; success is followed by runtime.updated.
Announce(t) ==
    /\ run[t].pc = "announce"
    /\ \E sent \in RedisOutcomes :
          row' = [row EXCEPT ![t] = Publish(@,
                    IF run[t].outcome = "completed" THEN "success"
                    ELSE "failed", sent)]
    /\ Goto(t, "unlock")
    /\ UNCHANGED <<locks, mark, known, agent>>

\* The deferred Unlock of RunRefreshTask.
ReleaseRefreshLock(t) ==
    /\ run[t].pc = "unlock"
    /\ \/ refreshLock' = Unlock(refreshLock, run[t].job, t)
       \/ RedisFails /\ UNCHANGED refreshLock
    /\ Goto(t, Return(t))
    /\ UNCHANGED <<agentLock, schedLock, mark, known, row, agent>>

\* The deferred Unlock of the scheduled goroutine.
ReleaseSchedLock(t) ==
    /\ run[t].pc = "unsched"
    /\ \/ schedLock' = Unlock(schedLock, run[t].job.kind, t)
       \/ RedisFails /\ UNCHANGED schedLock
    /\ Goto(t, "ended")
    /\ UNCHANGED <<refreshLock, agentLock, mark, known, row, agent>>

-----------------------------------------------------------------------------
(***************************************************************************)
(* syncServerWithLimits of task t on Agent s, and the SyncAll goroutine    *)
(* around it.                                                              *)
(***************************************************************************)
\* publishProgress writes the status "running" again and announces it, under
\* SyncAll's mutex.
Progress(t) ==
    \E db \in DBOutcomes, redis \in RedisOutcomes, sent \in RedisOutcomes :
       row' = [row EXCEPT ![t] =
                 Publish(Update(t, "running", db, redis), "open", sent)]

AcquireSlot(t, s) ==
    /\ At(t, s, "wait")
    /\ Cardinality(InFlight(t)) < SyncConcurrency
    /\ Step(t, s, "lock")
    /\ Progress(t)
    /\ UNCHANGED <<locks, mark, known, run, owned, result>>

\* After syncServerWithLimits: SyncAll still has the result to record.
AfterSync(t) == IF run[t].job.kind = "server" THEN "done" ELSE "report"

\* AcquireAgentLock that takes a Redis error for a lock obtained.
AcquireAgentLockOnError(t, s) ==
    /\ At(t, s, "lock")
    /\ \/ /\ CanLock(agentLock, s)
          /\ agentLock' = TryLock(agentLock, s, t)
       \/ RedisFails /\ UNCHANGED agentLock
    /\ owned' = [owned EXCEPT ![t][s] = TRUE]
    /\ Step(t, s, "mark")
    /\ UNCHANGED <<refreshLock, schedLock, mark, known, row, run, result>>

AcquireAgentLock(t, s) ==
    /\ At(t, s, "lock")
    /\ \/ /\ CanLock(agentLock, s)
          /\ agentLock' = TryLock(agentLock, s, t)
          /\ owned' = [owned EXCEPT ![t][s] = TRUE]
       \/ RedisFails /\ UNCHANGED <<agentLock, owned>>
    /\ Step(t, s, "mark")
    /\ UNCHANGED <<refreshLock, schedLock, mark, known, row, run, result>>

\* AgentBusy with the deferred deletion of the mark registered too early.
AgentBusyClearsMark(t, s) ==
    /\ At(t, s, "lock")
    /\ ~CanLock(agentLock, s)
    /\ Step(t, s, AfterSync(t))
    /\ result' = [result EXCEPT ![t][s] = "skipped"]
    /\ mark' = [mark EXCEPT ![s] = NoToken]
    /\ UNCHANGED <<locks, known, row, run, owned>>

\* errAgentSyncRunning.
AgentBusy(t, s) ==
    /\ At(t, s, "lock")
    /\ ~CanLock(agentLock, s)
    /\ Step(t, s, AfterSync(t))
    /\ result' = [result EXCEPT ![t][s] = "skipped"]
    /\ UNCHANGED <<locks, mark, known, row, run, owned>>

MarkRunning(t, s) ==
    /\ At(t, s, "mark")
    /\ \/ mark' = [mark EXCEPT ![s] = t]
       \/ RedisFails /\ UNCHANGED mark
    /\ Step(t, s, "collect")
    /\ UNCHANGED <<locks, known, row, run, owned, result>>

\* The health check, then syncDNS or syncDHCP; both are bounded by contexts
\* whose timeouts add up to less than the TTL of the lock and of the mark.
Collect(t, s) ==
    /\ At(t, s, "collect")
    /\ \E r \in {"completed", "failed"} : result' = [result EXCEPT ![t][s] = r]
    /\ Step(t, s, "clear")
    /\ UNCHANGED <<locks, mark, known, row, run, owned>>

\* The deferred calls run last first: the mark is deleted, then the lock.
ClearRunning(t, s) ==
    /\ At(t, s, "clear")
    /\ \/ mark' = [mark EXCEPT ![s] = NoToken]
       \/ RedisFails /\ UNCHANGED mark
    /\ Step(t, s, "unlock")
    /\ UNCHANGED <<locks, known, row, run, owned, result>>

ReleaseAgentLock(t, s) ==
    /\ At(t, s, "unlock")
    /\ \/ agentLock' = IF owned[t][s] THEN Unlock(agentLock, s, t)
                        ELSE agentLock
       \/ RedisFails /\ UNCHANGED agentLock
    /\ owned' = [owned EXCEPT ![t][s] = FALSE]
    /\ Step(t, s, AfterSync(t))
    /\ UNCHANGED <<refreshLock, schedLock, mark, known, row, run, result>>

\* Report without wg.Done.
ReportNoDone(t, s) ==
    /\ At(t, s, "report")
    /\ Progress(t)
    /\ UNCHANGED <<locks, mark, known, run, agent>>

\* The goroutine of SyncAll counts the result and frees its slot.
Report(t, s) ==
    /\ At(t, s, "report")
    /\ Step(t, s, "done")
    /\ Progress(t)
    /\ UNCHANGED <<locks, mark, known, run, owned, result>>

-----------------------------------------------------------------------------
(***************************************************************************)
(* The environment.                                                        *)
(***************************************************************************)

\* deleteServer does not ask whether the Agent is syncing.
DeleteServer(s) ==
    /\ s \in known
    /\ known' = known \ {s}
    /\ UNCHANGED <<locks, mark, row, run, agent>>

\* A backend process dies with every goroutine it runs; nothing resumes them.
Crash(i) ==
    LET dead == {t \in Tasks : run[t].inst = i /\ Live(t)} IN
    /\ dead # {}
    /\ run' = [t \in Tasks |-> IF t \in dead
                               THEN [run[t] EXCEPT !.pc = "crashed"]
                               ELSE run[t]]
    /\ step' = [t \in Tasks |-> IF t \in dead
                                THEN [s \in Servers |-> "none"] ELSE step[t]]
    /\ owned' = [t \in Tasks |-> IF t \in dead
                                 THEN [s \in Servers |-> FALSE] ELSE owned[t]]
    /\ result' = [t \in Tasks |-> IF t \in dead
                                  THEN [s \in Servers |-> "none"] ELSE result[t]]
    /\ UNCHANGED <<locks, mark, known, row>>

(***************************************************************************)
(* TTLs.  refreshTaskLockTTL and agentSyncExecutionTTL are the connection  *)
(* timeout plus the full-sync timeout plus a minute, so they outlive the   *)
(* run on one Agent or part.  They do not outlive a fan-out over more      *)
(* Agents than the semaphore admits at once: the refresh lock of a fan-out *)
(* and the scheduled lock may expire at any moment.                        *)
(***************************************************************************)
ExpireRefreshLock(j) ==
    /\ refreshLock[j] # NoToken
    /\ j \in FanOutJobs \/ ~Live(refreshLock[j])
    /\ refreshLock' = Expire(refreshLock, j)
    /\ UNCHANGED <<agentLock, schedLock, mark, known, row, run, agent>>

ExpireSchedLock(r) ==
    /\ schedLock[r] # NoToken
    /\ schedLock' = Expire(schedLock, r)
    /\ UNCHANGED <<refreshLock, agentLock, mark, known, row, run, agent>>

\* A TTL shorter than the run it protects.
ExpireAgentLockEarly(s) ==
    /\ agentLock[s] # NoToken
    /\ agentLock' = Expire(agentLock, s)
    /\ UNCHANGED <<refreshLock, schedLock, mark, known, row, run, agent>>

ExpireAgentLock(s) ==
    /\ agentLock[s] # NoToken
    /\ ~InSection(agentLock[s], s)
    /\ agentLock' = Expire(agentLock, s)
    /\ UNCHANGED <<refreshLock, schedLock, mark, known, row, run, agent>>

\* The mark outlives the run that wrote it last.
MarkNeeded(s) == \E t \in Tasks : step[t][s] \in {"collect", "clear"}

\* A mark written without a TTL.
ExpireMarkNever(s) == FALSE /\ UNCHANGED vars

ExpireMark(s) ==
    /\ mark[s] # NoToken
    /\ ~MarkNeeded(s)
    /\ mark' = Expire(mark, s)
    /\ UNCHANGED <<locks, known, row, run, agent>>

-----------------------------------------------------------------------------
Request(t) ==
    \E i \in Instances :
       \/ \E j \in Requested \cap FanOutJobs : RequestFanOut(t, j, i)
       \/ \E s \in Servers : /\ Job("server", s) \in Requested
                            /\ RequestServerSync(t, s, i)
       \/ \E p \in Parts : Job("part", p) \in Requested /\ RequestPart(t, p, i)
       \/ \E r \in Scheduled : ScheduledTick(t, r, i)

RunStep(t) ==
    \/ CreateTask(t) \/ MarkQueued(t) \/ Spawn(t)
    \/ AcquireRefreshLock(t) \/ SkipDuplicate(t) \/ StartRunning(t)
    \/ WorkPart(t) \/ WorkServer(t) \/ WorkFanOut(t) \/ Join(t)
    \/ FinishUpdate(t) \/ Announce(t)
    \/ ReleaseRefreshLock(t) \/ ReleaseSchedLock(t)

AgentStep(t, s) ==
    \/ AcquireSlot(t, s) \/ AcquireAgentLock(t, s) \/ AgentBusy(t, s)
    \/ MarkRunning(t, s) \/ Collect(t, s) \/ ClearRunning(t, s)
    \/ ReleaseAgentLock(t, s) \/ Report(t, s)

Environment ==
    \/ \E s \in Servers : DeleteServer(s)
    \/ \E i \in Instances : Crash(i)

Expiry ==
    \/ \E j \in Jobs : ExpireRefreshLock(j)
    \/ \E r \in {"dns", "dhcp"} : ExpireSchedLock(r)
    \/ \E s \in Servers : ExpireAgentLock(s) \/ ExpireMark(s)

\* Tasks bounds the requests a behaviour makes.  With no task under way the
\* system may idle: any other state without a step is a deadlock.
Quiescent ==
    /\ \A t \in Tasks : ~Live(t)
    /\ UNCHANGED vars

Next ==
    \/ \E t \in Tasks : Request(t) \/ RunStep(t)
    \/ \E t \in Tasks, s \in Servers : AgentStep(t, s)
    \/ Environment
    \/ Expiry
    \/ Quiescent

Spec == Init /\ [][Next]_vars

\* Goroutines are scheduled and Redis enforces TTLs.
Fairness ==
    /\ \A t \in Tasks : WF_vars(RunStep(t))
    /\ \A t \in Tasks, s \in Servers : WF_vars(AgentStep(t, s))
    /\ \A s \in Servers : WF_vars(ExpireAgentLock(s)) /\ WF_vars(ExpireMark(s))
    /\ \A j \in Jobs : WF_vars(ExpireRefreshLock(j))

FairSpec == Spec /\ Fairness

-----------------------------------------------------------------------------
(***************************************************************************)
(* Properties.                                                             *)
(***************************************************************************)

\* Two runs that both obtained the agent-sync lock never collect from the same
\* Agent at once, whatever expires, crashes or fails: syncServerWithLimits
\* keeps its lock until its last deferred call, and only its own token
\* releases it.
AgentExclusive ==
    \A s \in Servers : \A t, u \in Tasks :
       /\ step[t][s] = "collect" /\ owned[t][s]
       /\ step[u][s] = "collect" /\ owned[u][s]
       => t = u

\* While a run collects from an Agent its mark is there to be seen by the
\* health checker and by the operation handlers, as long as Redis answers: no
\* other run clears it, and no skipped or duplicate task does either.
MarkCoversSync ==
    ~RedisFails =>
       \A s \in Servers, t \in Tasks :
          step[t][s] \in {"collect", "clear"} => mark[s] # NoToken

\* A refresh lock serialises the tasks of one Agent, zone or scope: of two
\* running tasks with the same target one runs without the lock, which only a
\* Redis error can cause.
TargetExclusive ==
    ~RedisFails =>
       \A t, u \in Tasks :
          /\ run[t].pc \in {"start", "work", "sync", "finish", "announce"}
          /\ run[u].pc \in {"start", "work", "sync", "finish", "announce"}
          /\ run[t].job = run[u].job
          /\ run[t].job \notin FanOutJobs
          => t = u

\* A task never moves backwards: a queued row runs or is deleted as a
\* duplicate, a running row ends once, and nothing (a late progress write of
\* SyncAll included) touches a row that ended.
TaskLifecycle ==
    [][\A t \in Tasks :
          \/ row'[t].status = row[t].status
          \/ <<row[t].status, row'[t].status>> \in
                {<<"none", "queued">>, <<"queued", "running">>,
                 <<"queued", "deleted">>, <<"queued", "completed">>,
                 <<"queued", "failed">>, <<"running", "completed">>,
                 <<"running", "failed">>}]_vars

\* A client that reacts to a task's final event by reading the task list sees
\* the state the event announced, as long as PostgreSQL and Redis do not both
\* fail: the row and its cache are written before the event is published.
EventFollowsState ==
    ~(RedisFails /\ DBFails) =>
       \A t \in Tasks :
          /\ row[t].event = "success" => Visible(t) = "completed"
          /\ row[t].event = "failed" /\ ~DBFails
                => Visible(t) \in {"failed", "deleted"}

\* Every task whose row was created reaches the end of its goroutine unless
\* its process dies: no wait on the semaphore, on wg.Wait or on a lock is
\* for ever.
EveryTaskEnds ==
    \A t \in Tasks : row[t].status = "queued" ~> ~Live(t)

\* Neither a crash nor a lost Unlock shuts an Agent off for ever: every holder
\* of its agent-sync lock gives way, and the mark goes away, so that the Agent
\* can be synced and operated on again.
AgentFreed ==
    \A s \in Servers :
       /\ \A t \in Tasks : agentLock[s] = t ~> agentLock[s] # t
       /\ mark[s] # NoToken ~> mark[s] = NoToken

-----------------------------------------------------------------------------
(***************************************************************************)
(* What the tasks promise, and how this state shows it.                    *)
(***************************************************************************)
Phase(t) ==
    CASE run[t].pc = "idle" -> "none"
      [] run[t].pc = "create" -> "asked"
      [] run[t].pc \in {"mark", "publish", "lock"} -> "queued"
      [] run[t].pc \in {"start", "work", "sync", "finish", "announce", "unlock"} -> "active"
      [] run[t].pc \in {"unsched", "ended", "crashed"} -> "over"

Verdict(t) ==
    CASE row[t].status \in {"completed", "failed"} -> row[t].status
      [] row[t].status = "deleted" -> "dropped"
      [] OTHER -> "none"

Service == INSTANCE TaskService WITH
    Targets <- Jobs,
    NoTarget <- NoToken,
    Exclusive <- IF RedisFails THEN {} ELSE Jobs \ FanOutJobs,
    Alone <- ~RedisFails,
    Durable <- ~DBFails,
    target <- [t \in Tasks |-> IF run[t].pc = "idle" THEN NoToken ELSE run[t].job],
    phase <- [t \in Tasks |-> Phase(t)],
    verdict <- [t \in Tasks |-> Verdict(t)],
    collecting <- [t \in Tasks |-> {s \in Servers : step[t][s] = "collect"}],
    succeeded <- [t \in Tasks |-> {s \in Servers : result[t][s] = "completed"}],
    failed <- [t \in Tasks |-> {s \in Servers : result[t][s] = "failed"}]

\* Requests, duplicate tasks, the semaphore, the locks and their expiry, the
\* deletion of Agents and crashes together keep the promise of TaskService: one
\* task per target and Agent, duplicates dropped only for a task that started,
\* and one verdict, given when every goroutine of SyncAll has returned, that is
\* completed only if none of them failed (docs/refresh-sync.md, refresh tasks).
ImplementsService == Service!Spec

-----------------------------------------------------------------------------
(***************************************************************************)
(* What makes those properties inductive.                                  *)
(***************************************************************************)

\* A run that obtained an agent-sync lock is the one whose token is stored,
\* until it has released it.
LockOwnership ==
    \A t \in Tasks, s \in Servers :
       owned[t][s] => agentLock[s] = t /\ InSection(t, s)

\* A task leaves SyncAll or syncServerTarget only when every run on an Agent
\* has returned (wg.Wait).
JoinWaits ==
    \A t \in Tasks, s \in Servers :
       step[t][s] \notin {"none", "done"} => run[t].pc = "sync"

\* Without Redis errors a run is in its section only with the lock, so that
\* the only run that can clear a mark is the one that set it.
MarkOwnership ==
    ~RedisFails =>
       \A t \in Tasks, s \in Servers :
          /\ InSection(t, s) => owned[t][s]
          /\ step[t][s] \in {"collect", "clear"} => mark[s] # NoToken

\* Without Redis errors a task with a single target holds its refresh lock
\* from TryLock to the deferred Unlock.
TargetOwnership ==
    ~RedisFails =>
       \A t \in Tasks :
          /\ run[t].pc \in {"start", "work", "sync", "finish", "announce",
                            "unlock"}
          /\ run[t].job \notin FanOutJobs
          => refreshLock[run[t].job] = t

\* Where a run is bounds what its row can say.
RowFollowsRun ==
    \A t \in Tasks :
       /\ run[t].pc \in {"idle", "create"} => row[t].status = "none"
       /\ run[t].pc \in {"mark", "publish", "lock", "start"}
             => row[t].status = "queued"
       /\ run[t].pc \in {"work", "sync", "finish"}
             => row[t].status \in {"queued", "running"}
       /\ run[t].pc \in {"finish", "announce"}
             => run[t].outcome \in {"completed", "failed"}
=============================================================================
