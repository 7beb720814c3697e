# ZoneLease: specifications

TLA+ specifications of the ZoneLease backend (`backend/`, Go): its refresh
tasks and the synchronisation of DNS and DHCP Agents, the delayed refresh after
operations, what all of them do to the snapshots of DNS zones and DHCP scopes,
the health of Agents and its notifications, the event stream, the timetable of
scheduled refreshes, saved settings, and accounts from login to permissions. Of
the two Agents, what their scripts do to the servers is modelled too. TLC checks
the modules on small instances; TLAPS proves the safety properties, and that
the refresh tasks implement an abstract service, for all values of the constants.
Paths below are relative to `src/`.

## 1. The system

One or more backend processes share a PostgreSQL database and a Redis server.
They manage *Agents*: stateless HTTP front ends of a Windows DNS or DHCP server.
PostgreSQL holds a *snapshot* of what each Agent last reported; users operate on
an Agent through the backend, which calls the Agent and then patches the
snapshot. Refresh tasks re-read an Agent and replace the snapshot.

| Component | Source (`backend/`) | State it keeps | Operations |
|---|---|---|---|
| Redis primitives | `internal/service/realtime/service.go` | locks with a token and a TTL, runtime keys, the event stream | `TryLock`, `Unlock`, `Set`, `Delete`, `Exists`, `PublishRefresh`, `RecentRefreshEvents`, `SubscribeRefresh` |
| Refresh tasks | `api/router/refresh.go`, `internal/repository/refresh.go`, `internal/service/sync/service.go` | `refresh_tasks` rows, their runtime cache, their last event | `createRefresh`, `RunRefreshTask`, `updateRefreshTask`, listing |
| Agent synchronisation | `internal/service/sync/*.go` | agent-sync lock and runtime mark per Agent, a semaphore per fan-out, worker pools | `SyncAll`, `syncServerWithLimits`, `syncDNS`, `syncDHCP`, `SyncDNSZone`, `SyncDHCPScope` |
| Scheduled refreshes | `internal/service/sync/service.go` | a timer per role and process, one lock per role | `startScheduledRoleRefresh`, `nextScheduledRoleRefreshDelay` |
| Operation refresh scheduler | `api/router/operation_refresh.go` | in memory: per target a counter, a dirty flag and a timer | `begin`, `finish`, `markDirty`, `fire` |
| Operation handlers | `api/router/resources*.go` | the Agent's data and the snapshot | fifteen handlers that change a zone, a record, a scope, a lease, a reservation or an exclusion; manual refreshes |
| DNS and DHCP Agent | `../dns-agent`, `../dhcp-agent` | none: the DNS or DHCP server's | scripts that list and change zones, records, scopes and their parts |
| Names of PTR records | `internal/service/sync/dns_ptr.go`, `dns_zones.go`, `api/router/dns_record_validation.go` | none | pure functions |
| Agent health check | `internal/service/sync/service.go`, `internal/repository/resources.go` | status and failure counter of a server, its cached health, a lock | `checkAllServerHealth`, `checkServerHealth`, the probe of a synchronisation |
| Notifications | `internal/repository/notification_center.go`, `internal/service/notify` | notification rows, a cached unread count | create, read, acknowledge, dismiss; mail and webhooks |
| Event stream to the browser | `api/router/refresh.go` | one subscription per client | subscribe, replay, forward |
| Login, sessions, password reset | `internal/service/auth`, `internal/repository/sessions.go` | sessions, failure log, reset requests | login, logout, throttle, change and reset of a password |
| WeCom login | `api/router/auth_wecom.go` | bindings; signed states; tickets in memory | login, binding, unbinding, ticket exchange |
| Roles and permissions | `internal/repository/rbac.go`, `api/router/rbac.go` | roles, groups, memberships | effective permissions, editing of users, roles and groups |
| Settings | `api/router/settings*.go`, `auth_providers.go`, `notifications.go` | one row each | complete, validate, store, redact |
| Log retention, configuration and start-up, Agent client, API description | `internal/service/sync/retention.go`, `cmd/server`, `config`, `pkg/database`, `internal/agent`, `docs` | - | plumbing |
| Web console | `../frontend` | none of its own | outside the backend |

How they interact: a handler or a timer creates a `refresh_tasks` row and starts
a goroutine (`RunRefreshTask`). The goroutine takes the *refresh lock* of its
target, and for every Agent it contacts the *agent-sync lock* and the *runtime
mark*. Handlers and the health checker read the mark and keep away from an
Agent that is syncing; a synchronisation begins with a probe of its own, which
changes the same health state. After an operation a handler tells the operation
refresh scheduler, which creates one refresh of the target later. Every change of
a task is published to the event stream, from which browsers learn that a list
is worth reading again. Every request loads the session's user with its roles.

What is hard:

* **interleaving**: goroutines of one process, several processes, and timers
  that fire while the state they were set for is being replaced;
* **check then act**: a request reads a Redis key or a row and acts on the answer
  when it may be stale; hardly any handler uses a transaction;
* **leases**: every lock and mark has a TTL, its holder may crash or outlive it;
* **partial failure**: row, cache and event are separate writes, an Agent call may
  fail after its effect, a Redis error usually means "go on without the lock";
* **two zones at once**: an A record and its PTR record live in two zones with a
  snapshot, a lock and an owed refresh each, and flags in one say what the other
  holds;
* **waiting**: a semaphore, a wait group, an unbuffered channel, and locks that
  are released by deferred calls only.

What must hold, by component:

* *Redis primitives*: a release never removes somebody else's lock.
* *Refresh tasks*: a row moves forward only; a final event never precedes the
  state it announces; tasks of one target run one at a time; every task ends with
  the verdict its Agents deserve.
* *Agent synchronisation*: at most one run that holds the lock collects from an
  Agent; the mark covers the whole run; after a crash the Agent becomes available
  again; success means that the snapshot is complete.
* *Scheduled refreshes*: instances agree on the times; no time is missed.
* *Operation refresh scheduler*: the counter is the number of operations in
  progress; an owed refresh has a timer; it is taken, and not under an operation.
* *Handlers and Agents*: Agent and snapshot agree again once the refreshes that
  are owed have run; a row addresses the record it shows; a scope on the server
  is usable.
* *Health, notifications*: an outage is shown and ends with the outage; the count
  converges.
* *Event stream*: no gap between replay and channel; the last state is shown, as long
  as no message is lost on its way.
* *Accounts*: tries between lockouts are bounded; a verification token is answered
  "ok" once, after which no session from before is left; a ticket opens one session; a
  state serves the user it was signed for, until it expires; an identity belongs to one
  account.
* *Roles*: a user has the roles last ticked, a group its members.
* *Settings*: a blank credential keeps the stored one; a cleared one is gone.

## 2. Modules

| Module | What it models |
|---|---|
| `Realtime` | `TryLock`, `Unlock` and expiry over a table of locks |
| `AgentSync` | refresh tasks, scheduled ticks, `RunRefreshTask`, `SyncAll`, `syncServerWithLimits`, crashes and TTLs |
| `TaskService` | abstract: what refresh tasks promise; `AgentSync` implements it |
| `OperationRefresh` | the schedulers of all instances, the fifteen handlers around them, `fire` |
| `DHCPSnapshot` | the data of a DHCP Agent and its snapshot: the DHCP handlers, the Agent's scripts, `syncDHCPScope`, `syncDHCP` with its worker pool |
| `ScopeForm` | a form for a scope through backend, Agent and script to the row, in numbers |
| `DNSSnapshot` | a forward and a reverse zone, their records and `create_ptr` flags: the DNS handlers, the Agent's scripts, `syncDNSZoneRecords`, `syncDNS` |
| `DNSNames` | the names of PTR records from the server to a row and back |
| `AgentHealth` | probes, status, failure counts, offline notifications, the unread count |
| `EventStream` | publication, replay and delivery of events, reconnections |
| `Timetable` | when scheduled refreshes run |
| `Settings` | saving settings with credentials |
| `Accounts` | local login, throttle, sessions, change and reset of a password |
| `Wecom` | states, login tickets and bindings of WeCom identities |
| `Roles` | users, roles, groups, edited statement by statement |
| `AgentSync_proofs` | theorems about `AgentSync`; that it implements `TaskService` |
| `OperationRefresh_proofs`, `DHCPSnapshot_proofs`, `DNSSnapshot_proofs`, `Roles_proofs` | theorems about the module of that name |
| `Records_proofs` | theorems about `DNSNames` and `ScopeForm` |
| `Console_proofs` | theorems about `Settings`, `EventStream`, `AgentHealth` and `Timetable` |
| `Accounts_proofs` | theorems about `Accounts` and `Wecom` |
| `MCAgentSync`, `MCAgentSyncLive`, `MCOperationRefresh`, `MCDHCPSnapshot`, `MCDNSSnapshot` | instances of one module for TLC |
| `MCDNS`, `MCConsole`, `MCAccounts` | instances of several modules for TLC |

`AgentSync`, `OperationRefresh` and `AgentHealth` build on `Realtime`. In
`OperationRefresh` the runtime mark (`syncing`) and the refresh lock of a target
(`running`) are set by the environment, in every order that `AgentSync` can
produce and more. `DHCPSnapshot` and `DNSSnapshot` take from both only what they
promise: a fire never happens under an operation of its target
(`FireWaitsForOperations`), refreshes of a target exclude each other
(`TargetExclusive`), one synchronisation of an Agent at a time (`AgentExclusive`),
under a mark (`MarkCoversSync`).

The modules of `MCDNS`, `MCConsole` and `MCAccounts` share no state
with each other. They are checked together because the questions belong
together, not because they interact: an initial state gives a budget to exactly
one of them, and the others rest. No interleaving of two of them is explored, and
none could show anything.

### `AgentSync`

State: `refreshLock`, `agentLock`, `schedLock` and `mark` are the Redis keys;
`known` is the `servers` table; `row[t]` holds the PostgreSQL status of task t,
its cached status and the last event; `run[t]` is the request and then the
goroutine of t with its program counter; `step[t][s]`, `owned[t][s]` and
`result[t][s]` are the local state of `syncServerWithLimits` for t on Agent s.

Actions follow the code in its order. A request (`RequestFanOut`,
`RequestServerSync`, `RequestPart`, `ScheduledTick`) does its Redis check;
`CreateTask` inserts the row; `MarkQueued` writes the mark of a single
synchronisation before its goroutine exists (`enqueueServerRefresh`); `Spawn`
publishes "queued" and starts `RunRefreshTask`: `AcquireRefreshLock` or
`SkipDuplicate`, `StartRunning`, `WorkPart`, `WorkServer` or `WorkFanOut`,
`Join`, `FinishUpdate`, `Announce`, and the deferred `ReleaseRefreshLock` and
`ReleaseSchedLock`. Between `WorkFanOut` and `Join` each Agent has a goroutine:
`AcquireSlot` (semaphore), `AcquireAgentLock` or `AgentBusy`, `MarkRunning`,
`Collect`, the deferred `ClearRunning` and `ReleaseAgentLock`, `Report`.
`DeleteServer` may happen at any time. `Crash(i)` stops every goroutine of an
instance; keys in Redis and rows stay. The `Expire` actions are Redis TTLs.

Abstractions: a task's identifier stands for the random token of its locks, as
each run takes a lock at most once. A fan-out is one of `all`, `dns`, `dhcp`; a
single target is an Agent or a part (a zone or a scope). What `Collect` reads
and writes is left out, success and failure are both possible. An error of Redis
is taken as "not stored" (a reply that is lost after the command took effect is
not modelled), and it can hit any command when `RedisFails`; `DBFails` does the
same for PostgreSQL statements.

TTLs: the timeouts inside `syncServerWithLimits` add up to less than
`agentSyncExecutionTTL`, so `ExpireAgentLock` and `ExpireMark` wait for the run
that needs the key (they fire at once after a crash); the same goes for
`refreshTaskLockTTL` and a task with a single target. For a fan-out the TTL does
not grow with the number of Agents, so its refresh lock and the scheduled lock
may expire at any moment.

### `TaskService`

State: what a task is to refresh, its phase, its verdict, and for every task the
Agents it collects from and has collected from with or without success. Actions:
`Ask`, `Accept` (the row exists), `Reject` (it could not be stored), `Begin`,
`Drop` (another task of the target has begun), `Approach` and `Leave` an Agent,
`Settle`, `End`, `Die`. `ImplementsService` in `AgentSync` is the refinement: the
phase is read off the program counter, the verdict off the row (`Phase`,
`Verdict`), and `Exclusive`, `Alone` and `Durable` say what may be promised when
Redis or PostgreSQL fail. It adds to the invariants the whole life of a task: a
duplicate gives way only to a task that began, no Agent is approached after the
verdict, and the verdict is the one that what was collected deserves.

### `OperationRefresh`

State: `present`, `active`, `dirty`, `armed` are `s.targets` of each instance and
target; `orphans` counts timers whose entry was deleted while they ran; `op[o]`
is a handler, `fire[f]` a goroutine that an elapsed timer started, which may wait
for the mutex while the entry changes under it (`Elapse` and `FireDue` are two
steps because `Timer.Stop` cannot call back such a goroutine). `begin`, `finish`,
`markDirty` and the first half of `fire` are one atomic step each, as they run
under the scheduler's mutex.

Each handler is a record of what it does around its Agent call (when it begins,
whether it may touch the reverse zone, whether an Agent error or a failed
snapshot write still marks the target dirty); the actions `OpStart` to
`OpReturn` run any of the fifteen. A handler marks its targets dirty in either
order; no property depends on it.

### `DHCPSnapshot`

State: `agent[s]` is what the DHCP server holds for scope s (`None`, or its
attributes and its items), `snap[s]` the rows of `dhcp_scopes` and of the tables
that refer to it. `op[o]` is a handler; `owed`, `fire`, `queued` and `ref` follow
a refresh of a scope from the dirty mark to the goroutine that holds the refresh
lock; `sync` is `syncDHCP`, `worker[w]` its goroutines. `excused` and `touched`
record what the properties talk about, `faults` counts failures.

| Actions | Code |
|---|---|
| `OpStart`, `OpCheck`, `OpBegin` | load the rows, `ensureAgentNotSyncing`, `refresh.begin` |
| `OpCall`, `OpCallFails` | the Agent call; a call that fails may have had its effect |
| `OpSave`, `OpSaveFails`, `OpLeaseFails`, `OpMark` | the statements on the snapshot, `markDirty`, the deferred `finish` |
| `Fire`, `RequestRefresh`, `Enqueue` | `fire`, `scopeAction`, `enqueueDHCPScopeRefresh` |
| `RefreshStart` to `RefreshStore`, `RefreshFails` | `RunRefreshTask` and `syncDHCPScope` |
| `SyncStart`, `SyncList`, `SyncReplace`, `SyncFails` | `syncServerWithLimits`, the list of scopes, `ReplaceDHCPScopes` |
| `SyncOffer`, `SyncBreak`, `WorkerTake` to `WorkerFails`, `SyncJoin` | the loop over an unbuffered channel, the workers, `wg.Wait` and the return value |
| `SyncExpire`, `SyncEnd` | `AgentFullSyncTimeout`; the deferred calls |

The eight kinds of operation differ in the rows they need, in what the Agent
refuses, in whether the statement is an insert, an update or an upsert, and in
whether a failed statement ends the handler (`NeedsSave`). `deleteItem` stands
for `deleteLease`, `deleteReservation` and `deleteExclusion`, which agree in all
of that. Row identifiers are never reused; instead of storing them, `op[o].row`
says whether the rows a handler loaded still exist, and `Rows` clears it when a
statement deletes them (with `ON DELETE CASCADE`).

Abstractions: the attributes of a scope (name, range, state) are one value out of
two; a reservation and the lease of its address are one item, except that the
second statement on the lease can fail alone (`OpLeaseFails`). The details of a
scope are read at one instant; the fallback for Agents without `/details` reads
three lists at three instants. One backend process is assumed, and it does not
stop: the scheduler's entries live in memory, and what several processes do is in
`OperationRefresh`. Locks do not expire here. What DHCP clients and administrators
change behind the backend's back (`OthersChange`) is counted as a fault.

### `ScopeForm`

A form passes `validateDHCPScopeDefaultGateway` and
`normalizeDHCPScopeLeaseDuration` in the backend, `normalizeScope` or
`normalizeScopeUpdate` in the Agent, then its script; then the handler stores what
was asked for and the refresh stores what the server holds. Addresses have `Width`
bits, an hour has `Hour` seconds. The DHCP server is external: it derives a scope's
id from range and mask, and refuses an option for an id it does not know. A form
carries the state, name and description too: the script creates every scope Active,
whatever state was asked for and is then stored, and the Agent trims what the handler
stores with its blanks. A new range is checked by the Agent; an edited one by the form
of the console only, which is outside the model, so the Agent takes any.

### `DNSSnapshot`

One forward zone `F`, the reverse zone `R` of its addresses; a record is a pair of
host and value, and the same pair is a PTR record in `R`. `dns` is the server,
`db` the rows, `flags` the rows of `F` with `create_ptr`; `op`, `owed`, `queued`
and `job` are as in `DHCPSnapshot`, `sync` is `syncDNS`. What differs from DHCP:

* a handler changes `F`, then `R`, on the server, and either call may fail half-way;
  it patches the rows of both and marks both dirty;
* a failed call marks nothing, also when it failed after its effect, and neither does a
  deletion for a reverse zone that is not stored (`shouldRefreshDeletedARecordPTRZone`);
* a PTR record whose creation is reported as failed, by a warning of
  `createPTRBestEffort` or by an error of a call for it alone, may have been made
  (`MadeUnknown`): the handler then neither stores it nor marks `R` for it;
* a refresh of `F` also reads `R` and replaces the rows of `R`
  (`annotateDNSRecordsFromReverseZones`), without the refresh lock of `R`;
* `syncDNS` does the same for all zones with a pool of goroutines.

A call that fails after its effect has had that effect when the handler goes on: the
Agent binds its script to the request (`exec.CommandContext`, dns-agent
`powershell.go:585`), so nothing runs on after the handler gave up.

`Scenarios` says what both zones hold at the start, what is asked for, who else is
active and how often something fails.

### `DNSNames`

A name is the sequence of its labels. The server names a PTR record relative to its
zone, the Agent's list script turns that into an address, the backend derives the
same address for the PTR record of an A record, finds records by it, and turns it
back into a relative name when it deletes or updates one; the Agent does so once
more. Octets are members of a small set.

### `AgentHealth`

A worker (the health loop of an instance, a ping, the probe of a
synchronisation) goes through the same statements for an Agent: take the snapshot
of the row, probe, `UpdateServerHealth`, cache the health, then dismiss the offline
notifications or look for an unread one and insert, and invalidate the unread
count. Every one of them is an action, so two workers interleave at any of them.
The loop takes the health-check lock with its TTL, skips marked Agents, uses at most
`Concurrency` goroutines. Users read, acknowledge and load the count; an Agent goes
down and up (`flips`); processes die and statements fail (`faults`); Agents are
deleted. The health key may expire at any moment (`ExpireHealth`: it lives for 30
minutes, and an interval may be an hour). Errors are only logged, so `StatementFails`
goes on where the code does (`AfterFailure`): after a health key that could not be
written, a run goes on with the notifications.

### `EventStream`

`PublishRefresh` is three commands (last-event key, stream, channel), each of which
may fail. The handler `events` subscribes, replays the last `Replay` events of
the stream (or nothing, when it cannot be read), then forwards the channel; Redis may
execute the subscription only after the replay was read, since the handler does not
wait for the confirmation. The channel is go-redis's, which is external: it renews a
broken connection and its subscription by itself (`Disconnect`, `Activate`) and
discards messages for which its buffer has no room (`Discard`), and the handler hears
of neither. `lost[b]` keeps the tasks of which a message was lost this way. Only the
end of the request closes the stream (`Close`); the browser then reconnects with a new
handler.

### `Timetable`

`nextScheduledRoleRefreshDelay` over a clock with days of unequal length (clock
changes; `plan.ends` says when each ends) and an offset against Unix time (the time
zone): an interval that divides a day counts from local midnight, one of whole days
from the midnight before the timer was armed, any other from the Unix epoch, and 0
switches the loop off. Several processes arm their timers, stop and start, between any
two statements. A tick first tries the lock of the role: it obtains it (`FireLocks`),
skips the time (`FireSkips`), goes on without it after an error (`FireUnlocked`, the
key set or not), or skips because the client's retry found the key of an attempt whose
answer was lost (`FireMisled`). Then it creates the task (`QueueTask`, `TaskFails`);
`creates[p]` is what lies between the two. The lock ends with the run, by its TTL, or
not before it when `Unlock` fails.

### `Settings`

A handler reads the row, completes the form's blank credentials from it, validates,
and replaces the row, in two statements; several administrators do so at once. A
failed read is treated as a missing row.

### `Accounts`

Each handler is a program of PostgreSQL statements on accounts, failures, sessions
and reset requests (`job[r]`), without transactions. Any of them may end between two
statements (`Breaks`: a failed statement, a lost answer, a crash), and some go on after
a failure: the check of the lockout (`CheckFails`), the deletion of the failures
(`Unlock`), that of expired sessions (`Validate`). Counting the failures and clearing
them after the lockout are separate steps, which is where the bound of `TriesBounded`
comes from; `slips` counts the checks and records that failed, each of which lets one
more try through. `Admin` is never locked. The `INSERT` of a failure and the purge of
rows a day old (`PurgeLoginFailures`) are two statements; the purge takes any of the
rows that were there when the lockout last elapsed (`past`). Failures recorded since
lie less than the lockout apart, which is at most ten minutes (`settings.go:93`), and
soon lock the account: none of them gets a day old before the lockout elapses again.
Passwords stand for their hashes. LDAP binds and captchas are external: they succeed
or not.

### `Wecom`

States signed for a purpose and a user, the code exchange (external: any identity),
`BindWecom` with its look-up and its save as two statements, tickets with 60 seconds
to live in the memory of one process.

### `Roles`

`replaceUserRoles` deletes and inserts one by one. Loading a user reads the roles
and, if there are none, writes: `fallbackRole` replaces them by the role of the
`users` row. As every request loads a user, loads are commands of their own and come
between any two statements of an update.

## 3. Runs

| Run | Instance | Checks |
|---|---|---|
| `locks` | 2 Agents of different role, 1 part, 2 tasks of every kind, 2 instances, crashes, expiry | `TypeOK`, `AgentExclusive`, `MarkCoversSync`, `TargetExclusive`, `TaskLifecycle` |
| `redis_errors` | 1 Agent, 2 tasks, any Redis command may fail | `AgentExclusive`, `EventFollowsState` |
| `liveness` | a full refresh and a synchronisation of one Agent, or a full refresh of two Agents with one slot; crashes, any PostgreSQL statement may fail | `EveryTaskEnds`, `AgentFreed`, `ImplementsService` |
| `zones` | a forward and a reverse zone, 2 operations, 2 elapsed timers, 1 instance | `TypeOK`, `DirtyIsScheduled`, `ActiveCounts`, `FireWaitsForOperations` |
| `scopes` | one scope, 2 operations, 2 elapsed timers, Redis may fail | `DirtyIsTaken` |
| `agreement` | 1 scope, 2 operations of any kind, refreshes on request, full synchronisations, 1 failure of any kind | `TypeOK`, `AgreesUnlessExcused` |
| `convergence` | 2 scopes, 2 workers, 1 operation, 1 failure, any initial snapshot | `NilMeansExact`, `ConvergesByFullSync` |
| `dns` | 2 zones, 2 operations or 1 with full synchronisations, at most 1 failure, 8 scenarios; beside it PTR names in 5 reverse zones; 1 form for a DHCP scope | `AgreesUnlessExcused`, `FlagsAgree`, `NilMeansExact`, `RowsAddressTheirRecord`, `FlagsMeanPTR`, `ScopeUsable`, `PatchIsExact` |
| `console` | 1 Agent, 2 health loops or 1 with a request; 2 publishers, 1 browser; 2 processes over 2 to 3 days; 2 administrators, 3 saves | `SettledAgrees`, `HealthFollowsAgent`, `CountConverges`, `EventsShown`, `OnTime`, `NoneMissed`, `ClearedStaysCleared`, `BlankKeepsCredential` |
| `accounts` | 1 account, 2 requests at a time; 2 people, 2 WeCom identities; 2 users, 2 custom roles, 1 group, 2 requests at a time | `TriesBounded`, `ResetOnce`, `ResetLogsOut`, `BindingsSound`, `TicketOnce`, `EditsSettle` |
| `resurrected` | 1 scope, `deleteScope` and a requested refresh | violates `DeletedScopeStaysDeleted` |
| `fallback` | 1 host with two addresses, 2 deletions | violates `RemovesWhatItNames` |

### Bounds

Every hazard in `AgentSync` is a conflict between two tasks (on a lock, a mark, a
row) or between the goroutines of one task (two Agents); a third party (a crash, an
expiry, a failed command) is an action of the environment and costs no task.
`SyncConcurrency = 1` with two Agents makes goroutines wait for a slot. In
`OperationRefresh` a stale timer needs one operation to arm it and one to overtake
it; two elapsed timers let a stale and a current one race. `Tasks` and `Ops` bound
how many requests and operations a behaviour has, `Fires` how many elapsed timers
run at once; `Requested` and `Scheduled` bound which kinds of task occur in a run;
`MaxQueued` bounds tasks that wait.

In `DHCPSnapshot` and `DNSSnapshot` two operations on one target are what it takes to
toggle it twice, or to delete and re-create it under a handler that still holds the
old row; two scopes and two workers let one worker fail, or be cancelled, while the
other stores. `MaxFaults` and the faults of a scenario bound how often something
fails; an expired synchronisation costs one fault however many calls fail after it.
Two hosts with one address, two addresses of one host, and an alias beside a host are
the three ways in which records of a forward zone share something. A target stays
excused once it is, and then its properties say nothing of it, so `CONSTRAINT
Expected` explores no further from there in `agreement` and `dns`. `ScopeForm` takes
every combination of a 3-bit address, range, gateway and prefix, with an hour of two
seconds so that hours round; `DNSNames` has reverse zones of one, two and three
octets over the octets 0 and 1, nested in each other.

`AgentHealth`: `Limit` 2 separates one failure from an outage; two loops, or one loop
and one request, overlap on one Agent, which goes down and up once (`flips` 2; once only
where a request and a user who acknowledges come together). The two loops run without a
user. A request beside a user is a ping, a manual synchronisation or a deletion
(`MCKinds`); the other kinds are tried without a user. With `Concurrency` 1 a probe
waits. `EventStream`: two events per publisher make
"earlier" and "later" differ, `Replay` 2 is smaller than the stream gets, `Buffer` 1
lets the channel overflow, and a loss is a failed command, a broken connection, a
discarded message or a request that ends. `Timetable`: an ordinary day has 3 units, a
clock change makes one of 2 or 4, and the intervals 0, 1, 2, 3 and 6 are none, one that
divides a day, one that does not, a day and two days. `Settings`: two administrators
overlap, and the third save sees what they left. `Accounts`: two requests at a time
for one account other than "admin", of which the run has none (the theorem is about
both); logins go on for ever with one failure, two requests of any kind or three around
a reset come with one, four requests around logins and resets without. `Wecom`: two
people and two identities bind each other's; 5 requests. `Roles`: two roles may have
one key in turn; up to 3 requests and 1 error; a group exists where one is edited.

Deadlock is checked in `locks`, `redis_errors`, `liveness`, `zones`, `scopes`,
`convergence` and `resurrected`: `AgentSync` may only stop when no task is live
(`Quiescent`), the environment of `OperationRefresh` never stops, and in `DHCPSnapshot`
a synchronisation can always start unless one hangs, so a pool whose sender and
workers wait for each other would show up. In the other runs behaviours end when
their budget of requests is used up.

### Properties of note

* `AgentExclusive` speaks of runs that *own* the lock. With Redis errors a run
  goes on without it (`syncServerWithLimits` logs and continues), and two such
  runs may collect together; that is the documented degradation.
* `MarkCoversSync` and `TargetExclusive` are therefore stated for a Redis that
  answers, and hold whatever crashes and expires.
* `TaskLifecycle` includes the late progress writes of `SyncAll`: a write of
  "running" after the end would show as a step backwards.
* `EventFollowsState` is about clients that react to an event by reading the list.
* `AgreesUnlessExcused`: when nothing is in progress or owed for a scope or zone, the
  snapshot equals the server's data, unless one of the events listed at its definition
  happened since the start. The list is the result: each entry is a way the code loses a
  refresh or an answer of the Agent. The property holds for two racing toggles, for
  handlers whose rows are replaced under them, for a scope re-created while it is being
  deleted, and for a reverse zone whose rows a refresh of the forward zone replaces. It
  rests on `Fire` waiting for operations in progress.
* `NilMeansExact`: `syncDHCP` and `syncDNS` report success only if everything nobody
  else touched is the same on both sides, whatever fails, expires or is cancelled.
* `ConvergesByFullSync`: the excused divergences are not for ever.
* `FlagsAgree`: flags of a forward zone depend on the reverse zone, which others change
  without telling the forward zone; the property names these cases.
* `EventsShown` excepts the tasks of which a message was lost on its way to the browser,
  and those with a failing command of `PublishRefresh`. It says that the handler itself
  loses nothing.
* `NoneMissed` excepts times at which an earlier run held the lock, the answer to
  `TryLock` was lost, the creation failed, or the process that took the lock stopped
  before it had created the task: the others skip that time.
* `SettledAgrees` excuses an Agent after an overlap of two runs, a failed statement or
  Redis command, or a crash (`tainted`), until a run that nothing overlapped has put it
  right (`PutsRight`): it found the Agent online and finished, or removed it. Before
  that a notification can outlive the outage, or be missing. A synchronisation whose
  probe fails does not put anything right: it counts a failure and may leave the Agent
  online without dismissing a notification. The health key may be missing, having
  expired. `HealthFollowsAgent` says that the rounds that follow repair what is shown.
* `TriesBounded` states the number of wrong passwords that `Width` requests at a time
  get through between two lockouts of an account other than "admin": more than
  `LoginMaxFailures`, by a bound that is reached, and one more for each check or record
  of the throttle that failed.
* `ResetOnce` and `ResetLogsOut` are about the answer "ok". They do not say that a
  password changes once, or not at all without that answer: see the observations.
* `BlankKeepsCredential` excepts saves that overlap another or follow a failed read.
* `EditsSettle` excuses users and groups whose saves overlapped or failed half-way,
  and users for whom a load wrote its fallback role during an update.

### Fairness

`FairSpec` of `AgentSync` assumes weak fairness of each goroutine's next step
(the Go scheduler; calls to Agents, Redis and PostgreSQL have deadlines) and of
Redis expiry. Requests, ticks, crashes and deletions of servers are not fair.
`EveryTaskEnds` counts a task as ended when its process crashed: nothing
resumes it, and its row stays as it is. `FairSpec` of `OperationRefresh` assumes
weak fairness of handlers, of elapsed timers and of `fire`; `DirtyIsTaken`
relies on the operations being finitely many in a behaviour: with an endless
stream of operations on one target the code postpones its refresh for ever, by
design. `FairSpec` of `DHCPSnapshot` assumes weak fairness of handlers, refreshes,
`syncDHCP` and its workers, and that a synchronisation starts again and again: the
timer of `startScheduledRoleRefresh` is re-armed after every tick, and its
interval for DHCP is one hour by default (an interval of 0 switches it off, and
then only users start synchronisations). Operations and failures are finitely many.

`ConsoleSpec` takes the fairness of `AgentHealth`: weak fairness of workers that can
run, of the loops (their ticker keeps firing), of handlers and of Redis expiry.
`HealthFollowsAgent` and `CountConverges` speak of behaviours in which, from some point
on, the Agent stays as it is and nobody touches its notifications. Nothing is assumed
of the other modules of that run, whose properties are safety.

### What the code does otherwise than its documents say

* `resurrected`: `deleteScope` owes no refresh. One that fetched the scope before
  it was deleted stores it again with its leases and reservations, and the scope
  stays in the list until the next full synchronisation.
  `docs/refresh-sync.md:273` says that deletion removes it from the database.
* `fallback`: `deleteRecordScript` removes the only record of a name when none has the
  value it was given, for A records too: a deletion repeated, or made from an outdated
  row, removes the host's other address. `docs/dns-management.md:133` describes the
  fallback for domain values (CNAME, PTR, NS).

### Observations without a run

Met while modelling; each is in the model, or left out of a property by name.

* A synchronisation request writes the mark before its task runs; when the task is
  skipped nobody deletes the mark before its TTL, although `docs/redis-runtime.md:97`
  and 115 read as if it ended with the task (`AgentFreed` bounds the wait).
* A timer that elapsed just before an operation cannot be cancelled; it takes the
  refresh while the timer of that operation runs (`docs/refresh-sync.md:258`).
  Operations in progress are counted per process, so an instance refreshes a target
  while another one operates on it (line 259).
* `docs/dns-management.md:388` calls the PTR record of a new A record best effort; it
  is written with `-ErrorAction Stop` after the A record, so that an error answers
  the operation while the A record exists.
* The Go DHCP Agent answers 500 where the backend deletes rows on 404 only: the row
  of a scope that is gone stays until a full synchronisation. Its scripts skip what
  they cannot convert and succeed, so a full synchronisation deletes the row of a
  scope that was skipped.
* `createScope` stores the state it was sent, while `createScopeScript` creates every
  scope Active (`resources.go:211`, dhcp-agent `powershell.go:220`): the row of a scope
  created as inactive is wrong until the refresh that follows. `PatchIsExact` excepts it,
  and the blanks of a label.
* The range of a scope that is edited is checked by neither backend nor Agent
  (`normalizeScopeUpdate`, `updateScopeScript`); `ScopeUsable` says nothing of it.
* A PTR record that was made while its creation timed out or lost its answer is neither
  stored nor followed by a refresh of its zone (`resources_dns_records.go:291`): the row
  is missing until a refresh of either zone or a full synchronisation.
* An event stream that loses its connection to Redis goes on without an error or a
  replay: a browser that missed the last event of a task stays at "running" until it
  reads the list again (`refresh.go:152`).
* A process that dies between the lock of a scheduled refresh and the creation of its
  task (`service.go:133-140`) takes the time with it: every other process has skipped it.
* Two confirmations with one code that overlap both change the password; one of them is
  then refused (`password_reset.go:116-119`). One that fails after the change leaves the
  request open and the sessions alive. A login that verified the old password before may
  open its session after the sessions were deleted.
* A WeCom state is not used up: it serves until it expires. Only its ticket works once.
* `createScope` with an address that has host bits leaves a scope without its router
  option on the server and answers with an error (`AgentCreates`). `PatchIsExact`
  excepts the hours of a form that disagree with its seconds.
* PTR rows that stand for a subnet in a reverse zone of one or two octets can be
  shown but not changed (`ForAddress` in `DNSNames`).
* An interval of several days counts from the midnight before the timer was armed, so
  it moves with every restart (`Anchored` in `Timetable`); on a day of 23 or 25 hours
  a run is an hour off (`Regular`).
* A save of settings with a blank credential drops the stored one when the provider is
  switched off or the row cannot be read (`auth_providers.go:80`); the marker of the
  mail form wins over a password typed beside it. `docs/manual.md:1861` does not
  mention these (`BlankKeepsCredential` excepts them).
* `fallbackRole` writes the role of the `users` row when a load finds no roles, also in
  the middle of an update, so that the user's direct roles are not those ticked
  (`docs/manual.md:1823`).
* The cooldown of a password reset is counted from `created_at` of the request's row
  (`password_reset.go:49`), not from the time the code was sent.

## 4. Proofs

All theorems hold for every value of the constants that satisfies the named
assumptions of the modules: any number of Agents, tasks, processes, scopes, users and
requests, any bound on failures. The assumptions say that

* sets and numbers are what their names say: `RoleAssumption`, `OwnerAssumption`,
  `ConcurrencyAssumption`, `FailureAssumption`, `InstancesAssumption`,
  `ScheduledAssumption`, `ReverseAssumption`, `SlotsAssumption`, `OpsAssumption`,
  `BoundAssumption`, `BoundsAssumption`, `KindsAssumption`, `InitialAssumption`,
  `LimitAssumption`, `MaxAssumption`, `RequestsAssumption`, `RootAssumption`,
  `ChoicesAssumption`, `FormsAssumption`, `OctetsAssumption`,
  `ReverseZonesAssumption`, `ReplayAssumption`, `DayAssumption`, `NumbersAssumption`,
  `ScenariosAssumption`, `WorksAssumption`, and the budgets of requests and failures;
  days end one after the other (`PlansAssumption`);
* markers like "no token" are none of the values they stand beside: `TokenAssumption`,
  `FireTokenAssumption`, `NoneAssumption`, `NeverAssumption`, `RowsAssumption`,
  `NobodyAssumption`, `BlankAssumption`, `UnlimitedAssumption`, `SavesAssumption`; names
  of different things differ, and there are some (`NamesAssumption`,
  `WorkersAssumption`);
* powers of two are positive (`SizesAssumption` of `ScopeForm`: arithmetic that the
  provers do not know, which TLC evaluates with the others).

Each safety property follows from an inductive invariant; TLC checked those that are
not obvious as invariants before they were proved, on the instances of section 3.

`AgentSync_proofs`:

* `TypeCorrect`: `Spec => []TypeOK`, one lemma per group of actions.
* `RunsEndBeforeTask`: `[]JoinWaits`, a task leaves `SyncAll` only when each of
  its runs has returned. Everything that speaks of a task and its runs needs it.
* `AgentLockOwnership`: `[]LockOwnership`, who believes to own an agent-sync lock
  is the one whose token Redis stores, inside its section. It is inductive
  because only an unlock with the same token, or expiry outside the section,
  removes the token.
* `AgentMutualExclusion`: `[]AgentExclusive` follows, as Redis stores one token.
* `MarkVisibleDuringSync`: `[]MarkCoversSync`, through `MarkOwnership`: without
  Redis errors the run that clears a mark owns the lock, so no other run is
  collecting.
* `TargetMutualExclusion`: `[]TargetExclusive`, through `TargetOwnership`: from
  `TryLock` to the deferred `Unlock` the task's token is stored.
* `TasksMoveForward`: the action property `TaskLifecycle`, through
  `RowFollowsRun`, which bounds the status of a row by where its goroutine
  stands; `JoinWaits` gives the late progress writes.
* `EventsFollowState`: `[]EventFollowsState`. `EventInv` places the write of the row
  and of its cache between the verdict and the event.
* `TasksKeepPromise`: `Spec => ImplementsService`, the refinement, as a step
  simulation: `Init` maps to the abstract `Init`, and under `ServiceInv` every action
  maps to an action of `TaskService` or to a stutter. `ServiceInv` adds to the
  invariants above `HolderInv` (the holder of a refresh lock has that target, has begun
  and was not dropped, so a duplicate gives way to a task that began), `ResultInv` (a
  run has a result only once it has collected) and `OutcomeInv` (the outcome a task
  stores is the one its results deserve, and is stored when PostgreSQL answers).

`OperationRefresh_proofs`:

* `TypeCorrect`: `Spec => []TypeOK`.
* `OperationsCounted`: `[]ActiveCounts`. An entry that was deleted and created
  again starts at zero, so the proof needs that deletion happens only at zero
  (`AbsentIsEmpty`) and that a handler begins a target at most once and finishes
  it once (`HeldWhileBusy`); counting uses the cardinality theorems.
* `RefreshWaitsForOperations`: the action property `FireWaitsForOperations`.
* `OwedRefreshIsScheduled`: `[]DirtyIsScheduled`, with `AbsentIsEmpty`.

`DHCPSnapshot_proofs`, from one invariant, `SnapInv`:

* `DHCPTypeCorrect`: `[]TypeOK`. Contents that handlers store need that a handler whose
  row flag is set still finds its rows (`RowsLive`); what goroutines store needs that
  the scopes of the pool were on the list (`SyncShape`).
* `SnapshotAgrees`: `[]AgreesUnlessExcused`, by `Agreeing(s)` for every scope not
  excused. A scope is *dirty* when it is owed a refresh or a handler is about to mark
  it; a refresh *comes* when it is dirty or `fire` has taken its entry; it is *leaving*
  when it is gone from the Agent and `deleteScope` is about to remove its rows. The
  invariant says of every copy on its way (of a refresh, of the list, of a goroutine)
  and of the snapshot itself: it is what the Agent holds, or a refresh comes, or the
  scope is leaving. Of what a synchronisation has read it says more, that the scope is
  dirty: a refresh already under way does not make up for it, and an entry that `fire`
  takes while one runs is dropped, which is an excuse. A scope that was created again
  before its rows were removed is dirty too (`DeletionRight`). `Fire` is the step where
  the wait for operations in progress is needed.
* `NilIsExact`: `[]NilMeansExact`, by `Exact(s)` for every scope not touched: the list
  has its state; while the pool runs it is stored exactly, still to be handed out or in
  the hands of a goroutine, or somebody failed or was cancelled, and then the result is
  no nil: only an expired run is ever cancelled.

`DNSSnapshot_proofs`, for any number of hosts, addresses, aliases and handlers, and any
scenario:

* `DNSTypeCorrect`: `[]TypeOK`, by `ShapeInv`: which fields a handler has at which of its
  steps, that a handler and a job keep records of their zone only, that flags stand on
  records of `F`, and that a zone the pool still has to hand out has no goroutine yet.
* `ZonesAgree`: `[]AgreesUnlessExcused`, by `Agreeing(z)` for every zone not excused. The
  argument is that of `SnapInv`, said of each zone for itself: a handler *owes* a zone a
  refresh from the call that changes it until it marks it, and a zone is *dirty* when a
  handler or the scheduler owes it one. Every copy that a job holds is what the server
  holds, or the zone is dirty; the rows are, or it is dirty or a refresh of it is queued
  or running; a zone that is gone has no rows, no copy on its way and no handler that
  would store some, or `deleteZone` is about to remove them. The copy of `R` in the hands
  of a refresh of `F` is not in the invariant: where it differs from the server, `R` is
  dirty or gets excused by the step that stores it.
* `SyncExact`: `[]NilMeansExact`, by `ExactInv` for zones not touched since `syncDNS`
  began: the list has their state, the copies are exact, and so are the rows once stored,
  by whichever goroutine; without a goroutine that could not read `R` (`blind`) the flags
  of `F` are derived from an exact copy.
* `FlagsShowPTRs`: `[]FlagsAgree`, by `FlagsInv`. As long as `R` changes only together
  with `F` (`~apart`), no zone appears or disappears (`Steady`); then, unless something is
  excused, the flags stored and those that a job carries are those of the records that
  have a PTR record, or `F` is owed another refresh. It needs `AgreeInv`: flags are derived
  from the copies that the job holds.

`Records_proofs`:

* `RowsReachTheirRecord` and `FlagsAreTrue`: `[]RowsAddressTheirRecord` and
  `[]FlagsMeanPTR`, by `NamesInv`: a record lies in its zone, name and zone together are
  no longer than an address. The translations between relative names and addresses are
  lemmas about sequences.
* `ScopesStayUsable`: `[]ScopeUsable`; `StoredIsHeld`: `[]PatchIsExact`, by `FormInv`
  and lemmas about masks and subnets: an address and its network lie in one block of
  `2^k` addresses, and normalising a lease twice is normalising it once.

`Console_proofs`:

* `SettingsClearedStaysCleared`: `[]ClearedStaysCleared`: the credentials of the row, and
  of each row that was read and may be written back, were typed since the last clearing
  or read before it (`RowsAccounted`).
* `SettingsBlankKeepsCredential`: the action property `BlankKeepsCredential`.
* `BrowserMissesNothing`: `[]EventsShown`, by `EvInv`: what the stream holds of a task,
  what a browser has shown and what waits in its channel are intervals of the task's
  events that meet, unless the task is among those of which a message was lost. The
  proof restates "the events of p among s" by positions instead of `SelectSeq`, which is
  recursive.
* `HealthIsShown`: `[]SettledAgrees`, by `HealthInv`: a run counted as alone is
  (`Overlaps`) and has had no failure, and for each of its statements what row, cache
  and notifications hold so far (`Progress`), the key of the cache possibly gone.
* `TimersOnTime` and `NoTimeMissed`: `[]OnTime` and `[]NoneMissed`, by `TimetableInv`:
  the timer of a process that is up was armed at some time `t0` not later than now, is
  due at `t0 + Delay(t0)`, not earlier than now, and every planned time from the start
  of the process to `t0` was served or excused (`ArmedAt`); a lock taken at this very
  time is held by a process that has created its task, is about to, or was excused. What
  remains is arithmetic: a timer armed on an ordinary day is due at a planned time
  (`DueAsPlanned`), and no planned time lies between its arming and that
  (`NothingBefore`). The day of a time is found as the least that ends after it, since
  natural numbers are well-founded (`DayExists`).

`Accounts_proofs`:

* `AccountsTypeCorrect`: types, and the steps at which each kind of request may stand.
* `AccountsTriesBounded`: `[]TriesBounded`. The invariant `Throttled` is a potential:
  tries so far, those that the failures recorded since the lockout elapsed (`Fresh`)
  still allow, and for each handler that has decided to clear the failures another round
  of them; each statement keeps the sum within the bound and the slips. Failures that
  the purge may take are not in the sum, as the lockout that locked them is over. It
  counts handlers by cardinality.
* `AccountsResetOnce`: `[]ResetOnce`: one handler at most marks a token used, and it
  alone completes the reset (`ResetInv`), whichever handlers end before they do.
  `AccountsResetLogsOut`: `[]ResetLogsOut`.
* `WecomTypeCorrect`, `WecomBindingsSound`: `[]BindingsSound`, by what a handler that
  has passed the check of its state may bind (`CallsAuthorised`). `WecomTicketOnce`:
  `[]TicketOnce`.

`Roles_proofs`:

* `RolesTypeCorrect`: types, and the foreign keys (`References`).
* `RolesEditsSettle`: `[]EditsSettle`, by `RolesInv`: what a command carries at each of
  its statements (`Carries`), that somebody not excused is written by one command at
  most (`Alone`), and how much of the ticked roles or members the tables hold so far
  (`UserSteady`, `GroupSteady`).

Three proofs that would not go through corrected a model. A synchronisation whose probe
fails does not clear the doubts about an Agent (`PutsRight` in `AgentHealth`): it used
to, and an Agent taken for settled could then be online beside its notification. A
creation of a user that exists, or an update of one that does not, replaces no roles
and so clears no doubts about them (`Replaces` in `Roles`). The handler that deletes an
A record whose row has `create_ptr` deletes the PTR record on the server too, but marks
the reverse zone only if it knows the PTR record's row or the zone's: when `R` has no rows,
because its creation is not stored yet, the deletion is a change of `R` that no refresh
makes up for. It takes four operations, more than the run has, for this to show; the
list of excuses at `AgreesUnlessExcused` of `DNSSnapshot` now names it (`SavePTR`).

One model was restated for its proof, without a change of its behaviours: `Timetable`
says when days end instead of adding up how long they are, as the sum over a sequence
is a fold, about which nothing can be proved for every sequence.

Only model-checked:

* `EveryTaskEnds`, `AgentFreed`, `DirtyIsTaken`, `ConvergesByFullSync`,
  `HealthFollowsAgent` and `CountConverges`: liveness under fairness is outside the
  prover.
* that the code does otherwise than its documents say (`resurrected`, `fallback`): a
  counterexample is all there is to show.

Every other property of a run is a theorem.

## 5. Not modelled, and the plan

Not modelled:

* the Agent client and the HTTP layer: a call is a step that succeeds, fails before or
  fails after its effect;
* log retention (one periodic DELETE per table, of rows no model refers to);
* configuration, start-up and migrations, which run once. The unique index on
  `agent_url` is created only if there are no duplicates, and two instances that start
  on an empty database race in the migrations; a restart repairs that;
* listings, filters, audit, the API description and its annotations, SQL and PowerShell
  text, and the web console: text and presentation, without state that a property could
  relate to another;
* SMTP, LDAP, WeCom and webhook calls, which are external: they succeed or not;
* the character rules of host names, and settings that are single validated rows
  (system, security, runtime), whose values are constants of the models.

What could come next:

* a model that measures the TTL of a fan-out's refresh lock against the number of Agents
  (`docs/refresh-sync.md:301`), to state what `AgentSync` leaves open by letting that
  lock expire at any moment;
* more reverse zones in `DNSSnapshot`: an address then chooses its zone, and a refresh of
  `F` copies several;
* a start-up that looks at tasks left behind by a crash, if the backend gets one.
