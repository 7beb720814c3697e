---------------------------- MODULE AgentHealth ----------------------------
(***************************************************************************)
(* What the console shows of the state of an Agent: the status and failure *)
(* count of its row, the failure count cached in Redis, its "offline"      *)
(* notifications, and the cached number of unread notifications.           *)
(*                                                                         *)
(* Several workers probe the same Agent without knowing of each other: the *)
(* health-check loop of every instance (which skips Agents that carry the  *)
(* agent-sync mark), the "ping" request, and the health check at the start *)
(* of a synchronisation.  Each of them goes through the same statements:   *)
(* probe, UpdateServerHealth, cacheAgentHealth, then either dismiss the    *)
(* notifications of the Agent or create one, and invalidate the count.     *)
(***************************************************************************)
EXTENDS Naturals, FiniteSets, FiniteSetsExt, Realtime

CONSTANTS
    Agents,        \* rows of table servers
    Instances,     \* backend processes, each with a health-check loop
    Requests,      \* bound: requests and synchronisations that touch an Agent
    Kinds,         \* bound: what they may be, a subset of AllKinds
    Users,         \* consoles that show the notification count
    Limit,         \* AgentOfflineFailureCount
    Concurrency,   \* AgentHealthConcurrency
    Budgets,       \* bound: the loops, requests and users that may act, how
                   \* often Agents go down or up, how many faults there are
    None

AllKinds == {"ping", "auto", "sync", "manual", "skip", "delete"}
Statuses == {"Online", "Offline"}
HealthRow == [status : Statuses, failures : Nat]

ASSUME LimitAssumption == Limit \in Nat \ {0} /\ Concurrency \in Nat \ {0}
ASSUME KindsAssumption == Kinds \subseteq AllKinds
ASSUME WorkersAssumption == Instances \cap Requests = {}
ASSUME BudgetsAssumption ==
    \A b \in Budgets : b.loops \subseteq Instances /\ b.requests \subseteq Requests
                        /\ b.users \subseteq Users /\ b.flips \in Nat /\ b.faults \in Nat
ASSUME NoneAssumption == NoToken \notin Instances /\ None \notin HealthRow
                            /\ None \notin Nat \cup Statuses \cup AllKinds \cup {"check", "off"}

VARIABLES
    up,       \* up[a]: does the Agent answer a health check?
    row,      \* row[a]: status and failure_count in PostgreSQL, None if deleted
    unread,   \* unread[a]: unread offline notifications of the Agent
    cached,   \* cached[a]: failureCount under the Agent's health key in Redis
    count,    \* the cached number of unread notifications
    mark,     \* mark[a]: the agent-sync runtime mark
    lock,     \* the health-check lock
    round,    \* round[i]: where the loop of instance i stands
    kind,     \* kind[w]: what worker w does
    work,     \* work[w][a]: the run of worker w on Agent a
    page,     \* page[u]: the notification request of a console
    flips, faults,   \* what is left of the budget
    acked,    \* history: a user read or cleared the notification of this outage
    tainted   \* history: workers overlapped or were cut short since the last clean run

vars == <<up, row, unread, cached, count, mark, lock, round, kind, work, page,
          flips, faults, acked, tainted>>

Workers == Instances \cup Requests
SyncKinds == {"sync", "manual", "skip"}
Steps == {"idle", "queued", "snapshot", "write", "cache", "dismiss", "select", "insert",
          "invalidate", "remove", "uncache"}
Idle == [step |-> "idle", ok |-> TRUE, prev |-> None, status |-> None, n |-> 0, alone |-> TRUE]
Busy(w, a) == work[w][a].step \notin {"idle", "queued"}
OthersBusy(w, a) == \E v \in Workers \ {w} : Busy(v, a)
Total == MapThenSumSet(LAMBDA a : unread[a], Agents)
LeastOf(m, n) == IF m < n THEN m ELSE n

TypeOK ==
    /\ up \in [Agents -> BOOLEAN]
    /\ row \in [Agents -> [status : Statuses, failures : 0..Limit] \cup {None}]
    /\ unread \in [Agents -> Nat]
    /\ cached \in [Agents -> (0..Limit) \cup {None}]
    /\ count \in Nat \cup {None}
    /\ mark \in [Agents -> BOOLEAN]
    /\ lock \in [{"health"} -> Instances \cup {NoToken}]
    /\ round \in [Instances -> {"idle", "listed", "batch", "off"}]
    /\ kind \in [Workers -> AllKinds \cup {"check", "off", None}]
    /\ work \in [Workers -> [Agents -> [step : Steps, ok : BOOLEAN, n : 0..Limit, alone : BOOLEAN,
                    prev : Statuses \cup {None}, status : Statuses \cup {None}]]]
    /\ page \in [Users -> [step : {"idle", "count", "fill", "invalidate", "off"}, n : Nat]]
    /\ flips \in Nat /\ faults \in Nat
    /\ acked \in [Agents -> BOOLEAN]
    /\ tainted \in [Agents -> BOOLEAN]

\* Agents are registered and answer; nothing runs and nothing is cached.
Init ==
    /\ up = [a \in Agents |-> TRUE]
    /\ row = [a \in Agents |-> [status |-> "Online", failures |-> 0]]
    /\ unread = [a \in Agents |-> 0]
    /\ cached = [a \in Agents |-> None]
    /\ count = None
    /\ mark = [a \in Agents |-> FALSE]
    /\ lock = [k \in {"health"} |-> NoToken]
    /\ \E b \in Budgets :
         /\ round = [i \in Instances |-> IF i \in b.loops THEN "idle" ELSE "off"]
         /\ kind = [w \in Workers |-> IF w \in Instances THEN "check"
                                      ELSE IF w \in b.requests THEN None ELSE "off"]
         /\ page = [u \in Users |-> [step |-> IF u \in b.users THEN "idle" ELSE "off", n |-> 0]]
         /\ flips = b.flips /\ faults = b.faults
    /\ work = [w \in Workers |-> [a \in Agents |-> Idle]]
    /\ acked = [a \in Agents |-> FALSE]
    /\ tainted = [a \in Agents |-> FALSE]

(***************************************************************************)
(* Steps of one worker on one Agent.                                       *)
(***************************************************************************)
Goto(w, a, step) == work' = [work EXCEPT ![w][a].step = step]

\* History: a run that nothing overlapped and that dismissed the notifications
\* of an Agent it found online, or removed the Agent, has put everything right
\* again.  A synchronisation whose probe fails may leave the Agent online: it
\* counts one failure and dismisses nothing.
PutsRight(w, a) ==
    /\ work[w][a].alone
    /\ \/ work[w][a].step = "uncache"
       \/ work[w][a].status = "Online" /\ (kind[w] \in SyncKinds => work[w][a].ok)

\* The run of w on a is over.
Finish(w, a) ==
    /\ work' = [work EXCEPT ![w][a] = Idle]
    /\ tainted' = [tainted EXCEPT ![a] = @ /\ ~PutsRight(w, a)]
    /\ mark' = [mark EXCEPT ![a] = @ /\ kind[w] \notin SyncKinds]

\* History of overlapping runs: w starts to work on a.
Joins(w, a, run) ==
    /\ work' = [v \in Workers |-> [b \in Agents |->
         IF v = w /\ b = a THEN [run EXCEPT !.alone = ~OthersBusy(w, a)]
         ELSE IF b = a /\ Busy(v, a) THEN [work[v][b] EXCEPT !.alone = FALSE]
         ELSE work[v][b]]]
    /\ tainted' = [tainted EXCEPT ![a] = @ \/ OthersBusy(w, a)]

\* Agent.Health (Validate for a ping) returns; a synchronisation that skips
\* the health check reports the Agent online without asking it.
Probed(w, a) ==
    Joins(w, a, [Idle EXCEPT !.step = "snapshot", !.ok = up[a] \/ kind[w] = "skip"])

\* A worker of checkServerHealthBatch takes the next Agent.
CheckServerHealth(i, a) ==
    /\ round[i] = "batch" /\ work[i][a].step = "queued"
    /\ Cardinality({b \in Agents : Busy(i, b)}) < Concurrency
    /\ Probed(i, a)
    /\ UNCHANGED <<up, row, unread, cached, count, mark, lock, round, kind, page, flips, faults, acked>>

\* serverAction "ping", which does not look at the agent-sync mark, or the
\* start of syncServerWithLimits, which holds the agent-sync lock and sets it.
StartProbe(r, a, k) ==
    /\ kind[r] = None /\ row[a] # None /\ k # "delete"
    /\ k \in SyncKinds => ~\E v \in Requests : kind[v] \in SyncKinds /\ Busy(v, a)
    /\ kind' = [kind EXCEPT ![r] = k]
    /\ mark' = [mark EXCEPT ![a] = @ \/ k \in SyncKinds]
    /\ Joins(r, a, [Idle EXCEPT !.step = "snapshot", !.ok = up[a] \/ k = "skip"])
    /\ UNCHANGED <<up, row, unread, cached, count, lock, round, page, flips, faults, acked>>

\* UpdateServerHealth is one statement, but its "previous" subquery reads the
\* snapshot of the statement, while its UPDATE may wait for the row lock.
ReadPrevious(w, a) ==
    /\ work[w][a].step = "snapshot"
    /\ work' = [work EXCEPT ![w][a].step = "write",
                            ![w][a].prev = IF row[a] = None THEN None ELSE row[a].status]
    /\ UNCHANGED <<up, row, unread, cached, count, mark, lock, round, kind, page, flips, faults, acked, tainted>>

\* offlineFailureLimit: a ping and a manual synchronisation believe one failure.
FailureLimit(w) == IF kind[w] \in {"ping", "manual", "skip"} THEN 1 ELSE Limit

\* Mutant: a successful probe leaves failure_count alone.
UpdatedNoReset(r, ok, limit) ==
    IF ok THEN [r EXCEPT !.status = "Online"]
    ELSE LET n == LeastOf(r.failures + 1, Limit)
         IN  [failures |-> n, status |-> IF n >= limit THEN "Offline" ELSE r.status]

\* The row UpdateServerHealth writes (counts above Limit are Limit: a bound).
UpdatedHealth(r, ok, limit) ==
    IF ok THEN [status |-> "Online", failures |-> 0]
    ELSE LET n == LeastOf(r.failures + 1, Limit)
         IN  [failures |-> n, status |-> IF n >= limit THEN "Offline" ELSE r.status]

\* ErrNotFound: only a synchronisation whose probe succeeded goes on.
UpdateServerHealth(w, a) ==
    /\ work[w][a].step = "write"
    /\ IF row[a] = None
       THEN /\ IF kind[w] \in SyncKinds /\ work[w][a].ok
               THEN Goto(w, a, "dismiss") /\ UNCHANGED <<tainted, mark>>
               ELSE Finish(w, a)
            /\ UNCHANGED row
       ELSE LET new == UpdatedHealth(row[a], work[w][a].ok, FailureLimit(w))
            IN  /\ row' = [row EXCEPT ![a] = new]
                /\ work' = [work EXCEPT ![w][a] = [@ EXCEPT !.step = "cache",
                               !.status = new.status, !.n = new.failures]]
                /\ UNCHANGED <<tainted, mark>>
    /\ UNCHANGED <<up, unread, cached, count, lock, round, kind, page, flips, faults, acked>>

BecameOffline(run) == run.status = "Offline" /\ run.prev # "Offline"

\* Mutant: a probe that succeeds leaves the notifications of the Agent alone.
AfterCacheKeep(k, run) ==
    IF k \notin SyncKinds /\ run.status = "Online" THEN "idle"
    ELSE IF k \in SyncKinds /\ run.ok THEN "dismiss"
    ELSE IF BecameOffline(run) \/ k = "manual" THEN "select" ELSE "idle"

\* checkServerHealth and serverAction look at the stored status,
\* syncServerWithLimits at its own probe; a manual synchronisation that
\* fails always announces the Agent.
AfterCache(k, run) ==
    IF IF k \in SyncKinds THEN run.ok ELSE run.status = "Online" THEN "dismiss"
    ELSE IF BecameOffline(run) \/ k = "manual" THEN "select" ELSE "idle"

CacheAgentHealth(w, a) ==
    /\ work[w][a].step = "cache"
    /\ cached' = [cached EXCEPT ![a] = work[w][a].n]
    /\ LET next == AfterCache(kind[w], work[w][a])
       IN  IF next = "idle" THEN Finish(w, a)
           ELSE Goto(w, a, next) /\ UNCHANGED <<tainted, mark>>
    /\ UNCHANGED <<up, row, unread, count, lock, round, kind, page, flips, faults, acked>>

DismissNotificationsBySource(w, a) ==
    /\ work[w][a].step = "dismiss"
    /\ unread' = [unread EXCEPT ![a] = 0]
    /\ Goto(w, a, "invalidate")
    /\ UNCHANGED <<up, row, cached, count, mark, lock, round, kind, page, flips, faults, acked, tainted>>

\* CreateNotificationIfUnreadMissing: the SELECT, then the INSERT.
SelectUnread(w, a) ==
    /\ work[w][a].step = "select"
    /\ Goto(w, a, IF unread[a] > 0 THEN "invalidate" ELSE "insert")
    /\ UNCHANGED <<up, row, unread, cached, count, mark, lock, round, kind, page, flips, faults, acked, tainted>>

CreateNotification(w, a) ==
    /\ work[w][a].step = "insert"
    /\ unread' = [unread EXCEPT ![a] = @ + 1]
    /\ acked' = [acked EXCEPT ![a] = FALSE]
    /\ Goto(w, a, "invalidate")
    /\ UNCHANGED <<up, row, cached, count, mark, lock, round, kind, page, flips, faults, tainted>>

\* The cached count is deleted; an error of Redis leaves it where it is.
DeleteCount ==
    \/ count' = None /\ UNCHANGED faults
    \/ faults > 0 /\ faults' = faults - 1 /\ UNCHANGED count

InvalidateUnreadNotificationCount(w, a) ==
    /\ work[w][a].step = "invalidate"
    /\ DeleteCount
    /\ IF kind[w] = "delete" THEN Goto(w, a, "uncache") /\ UNCHANGED <<tainted, mark>>
       ELSE Finish(w, a)
    /\ UNCHANGED <<up, row, unread, cached, lock, round, kind, page, flips, acked>>

(***************************************************************************)
(* deleteServer: the row, then its notifications, then its health key.     *)
(***************************************************************************)
StartDelete(r, a) ==
    /\ kind[r] = None /\ row[a] # None
    /\ kind' = [kind EXCEPT ![r] = "delete"]
    /\ Joins(r, a, [Idle EXCEPT !.step = "remove"])
    /\ UNCHANGED <<up, row, unread, cached, count, mark, lock, round, page, flips, faults, acked>>

DeleteServer(r, a) ==
    /\ work[r][a].step = "remove"
    /\ row' = [row EXCEPT ![a] = None]
    /\ IF row[a] = None THEN Finish(r, a) ELSE Goto(r, a, "dismiss") /\ UNCHANGED <<tainted, mark>>
    /\ UNCHANGED <<up, unread, cached, count, lock, round, kind, page, flips, faults, acked>>

ClearHealthKey(r, a) ==
    /\ work[r][a].step = "uncache"
    /\ cached' = [cached EXCEPT ![a] = None]
    /\ Finish(r, a)
    /\ UNCHANGED <<up, row, unread, count, lock, round, kind, page, flips, faults, acked>>

(***************************************************************************)
(* checkAllServerHealth, one round of the loop of an instance.             *)
(***************************************************************************)
\* ListServers, without the Agents whose synchronisation is marked as running.
Targets == {a \in Agents : row[a] # None /\ ~mark[a]}

ListTargets(i) ==
    /\ round[i] = "idle"
    /\ round' = [round EXCEPT ![i] = "listed"]
    /\ work' = [work EXCEPT ![i] = [a \in Agents |->
                  IF a \in Targets THEN [Idle EXCEPT !.step = "queued"] ELSE Idle]]
    /\ UNCHANGED <<up, row, unread, cached, count, mark, lock, kind, page, flips, faults, acked, tainted>>

\* A lock that is taken ends the round, an error of Redis does not.
LockRound(i) ==
    /\ round[i] = "listed"
    /\ \/ /\ CanLock(lock, "health")
          /\ lock' = TryLock(lock, "health", i)
          /\ round' = [round EXCEPT ![i] = "batch"]
          /\ UNCHANGED <<work, faults>>
       \/ /\ ~CanLock(lock, "health")
          /\ round' = [round EXCEPT ![i] = "idle"]
          /\ work' = [work EXCEPT ![i] = [a \in Agents |-> Idle]]
          /\ UNCHANGED <<lock, faults>>
       \/ /\ faults > 0 /\ faults' = faults - 1
          /\ round' = [round EXCEPT ![i] = "batch"]
          /\ UNCHANGED <<lock, work>>
    /\ UNCHANGED <<up, row, unread, cached, count, mark, kind, page, flips, acked, tainted>>

\* wg.Wait, then the deferred Unlock.
EndRound(i) ==
    /\ round[i] = "batch" /\ work[i] = [a \in Agents |-> Idle]
    /\ round' = [round EXCEPT ![i] = "idle"]
    /\ lock' = Unlock(lock, "health", i)
    /\ UNCHANGED <<up, row, unread, cached, count, mark, kind, work, page, flips, faults, acked, tainted>>

(***************************************************************************)
(* The notification handlers of the console.                               *)
(***************************************************************************)
PageGoto(u, step) == page' = [page EXCEPT ![u].step = step]

\* unreadNotificationCount: a cached count is the answer, otherwise count.
UnreadNotificationCount(u) ==
    /\ page[u].step = "idle" /\ count = None
    /\ PageGoto(u, "count")
    /\ UNCHANGED <<up, row, unread, cached, count, mark, lock, round, kind, work, flips, faults, acked, tainted>>

CountUnreadNotifications(u) ==
    /\ page[u].step = "count"
    /\ page' = [page EXCEPT ![u] = [step |-> "fill", n |-> Total]]
    /\ UNCHANGED <<up, row, unread, cached, count, mark, lock, round, kind, work, flips, faults, acked, tainted>>

CacheUnreadNotificationCount(u) ==
    /\ page[u].step = "fill"
    /\ count' = page[u].n
    /\ page' = [page EXCEPT ![u] = [step |-> "idle", n |-> 0]]
    /\ UNCHANGED <<up, row, unread, cached, mark, lock, round, kind, work, flips, faults, acked, tainted>>

\* markNotificationRead, markAllNotificationsRead, clearNotifications: the
\* unread notifications of the chosen Agents are unread no more.  Without any,
\* the handlers only delete the cached count, as ExpireCount does.
Acknowledge(u, chosen) ==
    /\ page[u].step = "idle" /\ \E a \in chosen : unread[a] > 0
    /\ unread' = [a \in Agents |-> IF a \in chosen THEN 0 ELSE unread[a]]
    /\ acked' = [a \in Agents |-> acked[a] \/ (a \in chosen /\ unread[a] > 0)]
    /\ PageGoto(u, "invalidate")
    /\ UNCHANGED <<up, row, cached, count, mark, lock, round, kind, work, flips, faults, tainted>>

InvalidateAfterAcknowledge(u) ==
    /\ page[u].step = "invalidate"
    /\ DeleteCount
    /\ PageGoto(u, "idle")
    /\ UNCHANGED <<up, row, unread, cached, mark, lock, round, kind, work, flips, acked, tainted>>

(***************************************************************************)
(* Environment: Agents go down and come back, keys expire, statements fail,*)
(* processes die.                                                          *)
(***************************************************************************)
Flip(a) ==
    /\ flips > 0 /\ flips' = flips - 1
    /\ up' = [up EXCEPT ![a] = ~@]
    /\ UNCHANGED <<row, unread, cached, count, mark, lock, round, kind, work, page, faults, acked, tainted>>

\* Mutant: the count is cached without a TTL.
ExpireNever == FALSE /\ UNCHANGED vars

ExpireCount ==
    /\ count # None /\ count' = None
    /\ UNCHANGED <<up, row, unread, cached, mark, lock, round, kind, work, page, flips, faults, acked, tainted>>

\* The health key lives for 30 minutes, and an interval may be an hour.
ExpireHealth(a) ==
    /\ cached[a] # None /\ cached' = [cached EXCEPT ![a] = None]
    /\ UNCHANGED <<up, row, unread, count, mark, lock, round, kind, work, page, flips, faults, acked, tainted>>

ExpireLock ==
    /\ lock["health"] # NoToken /\ lock' = Expire(lock, "health")
    /\ UNCHANGED <<up, row, unread, cached, count, mark, round, kind, work, page, flips, faults, acked, tainted>>

ExpireMark(a) ==
    /\ mark[a] /\ mark' = [mark EXCEPT ![a] = FALSE]
    /\ UNCHANGED <<up, row, unread, cached, count, lock, round, kind, work, page, flips, faults, acked, tainted>>

\* Errors are only logged: without its health key a run goes on, without its row
\* a synchronisation whose probe succeeded, without notifications a deletion.
AfterFailure(k, run) ==
    CASE run.step = "cache" -> AfterCache(k, run)
      [] run.step = "write" /\ k \in SyncKinds /\ run.ok -> "dismiss"
      [] run.step = "dismiss" /\ k = "delete" -> "uncache"
      [] OTHER -> "idle"

\* A statement fails, or the command that writes or deletes the health key.
StatementFails(w, a) ==
    LET next == AfterFailure(kind[w], work[w][a]) IN
    /\ faults > 0 /\ faults' = faults - 1
    /\ work[w][a].step \in {"write", "cache", "dismiss", "select", "insert", "uncache"}
    /\ work' = [work EXCEPT ![w][a] = IF next = "idle" THEN Idle
                                      ELSE [@ EXCEPT !.step = next, !.alone = FALSE]]
    /\ mark' = [mark EXCEPT ![a] = @ /\ (next # "idle" \/ kind[w] \notin SyncKinds)]
    /\ tainted' = [tainted EXCEPT ![a] = TRUE]
    /\ UNCHANGED <<up, row, unread, cached, count, lock, round, kind, page, flips, acked>>

\* The process of worker w dies; marks and locks stay until they expire.
Crash(w) ==
    /\ faults > 0 /\ faults' = faults - 1
    /\ \E a \in Agents : work[w][a].step # "idle"
    /\ work' = [work EXCEPT ![w] = [a \in Agents |-> Idle]]
    /\ round' = [i \in Instances |-> IF i = w THEN "idle" ELSE round[i]]
    /\ tainted' = [a \in Agents |-> tainted[a] \/ Busy(w, a)]
    /\ UNCHANGED <<up, row, unread, cached, count, mark, lock, kind, page, flips, acked>>

Run(w, a) ==
    \/ ReadPrevious(w, a) \/ UpdateServerHealth(w, a) \/ CacheAgentHealth(w, a)
    \/ DismissNotificationsBySource(w, a) \/ SelectUnread(w, a) \/ CreateNotification(w, a)
    \/ InvalidateUnreadNotificationCount(w, a) \/ DeleteServer(w, a) \/ ClearHealthKey(w, a)

Loop(i) == ListTargets(i) \/ LockRound(i) \/ EndRound(i) \/ \E a \in Agents : CheckServerHealth(i, a)

Handler(u) ==
    \/ CountUnreadNotifications(u) \/ CacheUnreadNotificationCount(u)
    \/ InvalidateAfterAcknowledge(u)

Next ==
    \/ \E w \in Workers, a \in Agents : Run(w, a) \/ StatementFails(w, a)
    \/ \E i \in Instances : Loop(i)
    \/ \E r \in Requests, a \in Agents, k \in Kinds :
         IF k = "delete" THEN StartDelete(r, a) ELSE StartProbe(r, a, k)
    \/ \E u \in Users : UnreadNotificationCount(u) \/ Handler(u)
    \/ \E u \in Users, a \in Agents : Acknowledge(u, {a}) \/ Acknowledge(u, Agents)
    \/ \E a \in Agents : Flip(a) \/ ExpireMark(a) \/ ExpireHealth(a)
    \/ ExpireCount \/ ExpireLock
    \/ \E w \in Workers : Crash(w)

Spec == Init /\ [][Next]_vars

\* Goroutines that can run do run, the ticker keeps firing, keys expire.
Fairness ==
    /\ \A w \in Workers, a \in Agents : WF_vars(Run(w, a))
    /\ \A i \in Instances : WF_vars(Loop(i))
    /\ \A u \in Users : WF_vars(Handler(u))
    /\ \A a \in Agents : WF_vars(ExpireMark(a))
    /\ WF_vars(ExpireCount) /\ WF_vars(ExpireLock)

FairSpec == Spec /\ Fairness

(***************************************************************************)
(* Properties.                                                             *)
(***************************************************************************)
\* When no worker is busy with an Agent, and a run that nothing overlapped has
\* put it right since the last overlap, failed statement or Redis command, or
\* crash, what the console shows agrees: an Online Agent has no unread
\* notification, an Offline one has exactly one, or a user has dealt with it, and
\* the health key holds the stored failure count unless it has expired; a deleted
\* Agent has left nothing behind.
Shows(a) ==
    CASE row[a] = None -> unread[a] = 0 /\ cached[a] = None
      [] row[a] # None /\ row[a].status = "Online" ->
           unread[a] = 0 /\ cached[a] \in {row[a].failures, None}
      [] OTHER -> /\ unread[a] = 1 \/ (unread[a] = 0 /\ acked[a])
                  /\ cached[a] \in {row[a].failures, None}

SettledAgrees ==
    \A a \in Agents : (\A w \in Workers : ~Busy(w, a)) /\ ~tainted[a] => Shows(a)

\* In the end the console shows what is: an Agent that answers again is online,
\* without notification and without failures, and one that stays down is
\* offline, however earlier workers overlapped or died.
HealthFollowsAgent ==
    \A a \in Agents :
       /\ <>[](up[a] /\ row[a] # None)
             => <>[](row[a] = [status |-> "Online", failures |-> 0] /\ unread[a] = 0)
       /\ <>[]~up[a] => <>[](row[a] = None \/ row[a].status = "Offline")

\* Once the notifications no longer change, the cached count is right: a count
\* cached just after it was invalidated lives no longer than its TTL.
CountConverges == <>[][FALSE]_unread => <>[](count \in {None, Total})
=============================================================================
