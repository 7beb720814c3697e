------------------------------ MODULE Timetable ------------------------------
(***************************************************************************)
(* When the scheduled full synchronisations of a role run: the loop of     *)
(* backend/internal/service/sync/service.go that arms a timer for the next *)
(* time of a timetable, in every backend process.  DNS and DHCP have each  *)
(* their own loop, interval and Redis lock and share nothing else, so one  *)
(* of them is modelled.                                                    *)
(*                                                                         *)
(* The clock counts units of which an ordinary local day has Day.  A plan  *)
(* says when its days end, for some are shorter or longer (clock changes); *)
(* the first of them begins plan.offset units after a multiple of the      *)
(* interval in Unix time (the time zone).                                  *)
(***************************************************************************)
EXTENDS Integers, Sequences, FiniteSets

CONSTANTS
    Processes,   \* backend instances
    Day,         \* units of an ordinary local day
    Plans,       \* bound: what the days are like and which interval is configured
    LockLife,    \* the TTL of the lock, in units
    Never

ASSUME DayAssumption == Day \in Nat \ {0} /\ LockLife \in Nat \ {0}
ASSUME PlansAssumption ==
    /\ Plans \subseteq [ends : Seq(Nat \ {0}), interval : Nat, offset : Nat, stops : Nat, faults : Nat]
    /\ \A p \in Plans : \A i, j \in DOMAIN p.ends : i < j => p.ends[i] < p.ends[j]
ASSUME NeverAssumption == Never \notin Nat

VARIABLES
    plan,      \* the days, the interval, the time zone, stops and faults left
    now,       \* the clock
    due,       \* due[p]: when the timer of process p fires, Never when it is down
    upSince,   \* upSince[p]: when process p started last
    slot,      \* the scheduled-refresh lock: its holder and expiry, or Never
    creates,   \* creates[p]: has the loop of p a task to create, with the lock or without?
    running,   \* the scheduled tasks under way: process, starting time, lock obtained?
    served,    \* history: the times at which a task was queued
    excused    \* history: the times that were skipped for an earlier run, or failed

ttVars == <<plan, now, due, upSince, slot, creates, running, served, excused>>

-----------------------------------------------------------------------------
(* The timetable *)

DayEnds(k) == IF k = 0 THEN 0 ELSE plan.ends[k]
Horizon == DayEnds(Len(plan.ends))
DayOf(t) == CHOOSE k \in DOMAIN plan.ends : DayEnds(k - 1) <= t /\ t < DayEnds(k)
Midnight(t) == DayEnds(DayOf(t) - 1)

\* An interval of whole days, or one that divides a day, counts from local midnight.
ByLocalDay == plan.interval % Day = 0 \/ Day % plan.interval = 0

\* Mutant: every interval counts from the Unix epoch.
ElapsedSinceEpoch(t) == t + plan.offset
Elapsed(t) == IF ByLocalDay THEN t - Midnight(t) ELSE t + plan.offset

Delay(t) == plan.interval - (Elapsed(t) % plan.interval)

\* The timer is armed when the loop comes round, at the current time.
Armed(p) == due' = [due EXCEPT ![p] = now + Delay(now)]

-----------------------------------------------------------------------------
(* The processes *)

TtInit ==
    /\ plan \in Plans
    /\ now = 0 /\ slot = Never /\ running = {} /\ served = {} /\ excused = {}
    /\ creates = [p \in Processes |-> "none"]
    /\ due = [p \in Processes |-> Never] /\ upSince = [p \in Processes |-> Never]

\* StartScheduledFullRefresh; an interval of 0 starts no loop.
Boot(p) ==
    /\ upSince[p] = Never /\ now < Horizon
    /\ upSince' = [upSince EXCEPT ![p] = now]
    /\ IF plan.interval = 0 THEN UNCHANGED due ELSE Armed(p)
    /\ UNCHANGED <<plan, now, slot, creates, running, served, excused>>

\* The process ends: its runs die with it and its lock stays until it expires.  A
\* time for which it had the lock and no task yet is lost, for the others skip it.
Halt(p) ==
    /\ plan.stops > 0 /\ upSince[p] # Never
    /\ plan' = [plan EXCEPT !.stops = @ - 1]
    /\ upSince' = [upSince EXCEPT ![p] = Never]
    /\ due' = [due EXCEPT ![p] = Never]
    /\ running' = {r \in running : r.by # p}
    /\ creates' = [creates EXCEPT ![p] = "none"]
    /\ excused' = IF creates[p] # "none" /\ slot # Never /\ slot.by = p /\ slot.since = now
                  THEN excused \cup {now} ELSE excused
    /\ UNCHANGED <<now, slot, served>>

\* Time passes, but not past a timer: a loop takes far less than a unit.
Elapse ==
    /\ now + 1 < Horizon
    /\ \A p \in Processes : due[p] # now
    /\ now' = now + 1
    /\ slot' = IF slot # Never /\ slot.until <= now + 1 THEN Never ELSE slot
    /\ UNCHANGED <<plan, due, upSince, creates, running, served, excused>>

Fires(p) == due[p] = now /\ creates[p] = "none"
Fault == plan.faults > 0 /\ plan' = [plan EXCEPT !.faults = @ - 1]
LockOf(p) == [by |-> p, since |-> now, until |-> now + LockLife]

\* The timer fires and the lock is free.
FireLocks(p) ==
    /\ Fires(p) /\ slot = Never
    /\ slot' = LockOf(p)
    /\ creates' = [creates EXCEPT ![p] = "locked"]
    /\ UNCHANGED <<plan, now, due, upSince, running, served, excused>>

\* Mutant: the loop ends when another instance holds the lock.
FireStops(p) ==
    /\ Fires(p) /\ slot # Never
    /\ due' = [due EXCEPT ![p] = Never]
    /\ excused' = IF slot.since < now THEN excused \cup {now} ELSE excused
    /\ UNCHANGED <<plan, now, upSince, slot, creates, running, served>>

\* The lock is held, by another instance or by the previous run: wait for the next time.
FireSkips(p) ==
    /\ Fires(p) /\ slot # Never
    /\ excused' = IF slot.since < now THEN excused \cup {now} ELSE excused
    /\ Armed(p)
    /\ UNCHANGED <<plan, now, upSince, slot, creates, running, served>>

\* TryLock returns an error, the key set or not: the run goes on without the lock.
FireUnlocked(p) ==
    /\ Fires(p) /\ Fault
    /\ creates' = [creates EXCEPT ![p] = "unlocked"]
    /\ slot' = slot \/ (slot = Never /\ slot' = LockOf(p))
    /\ UNCHANGED <<now, due, upSince, running, served, excused>>

\* The answer of SETNX is lost, and the client's retry finds the key of the first
\* attempt: the time is skipped for a lock that nobody has.
FireMisled(p) ==
    /\ Fires(p) /\ slot = Never /\ Fault
    /\ slot' = LockOf(p)
    /\ excused' = excused \cup {now}
    /\ Armed(p)
    /\ UNCHANGED <<now, upSince, creates, running, served>>

\* The task is queued and goes on in the background.
QueueTask(p) ==
    /\ creates[p] # "none"
    /\ running' = running \cup {[by |-> p, since |-> now, locked |-> creates[p] = "locked"]}
    /\ served' = served \cup {now}
    /\ creates' = [creates EXCEPT ![p] = "none"]
    /\ Armed(p)
    /\ UNCHANGED <<plan, now, upSince, slot, excused>>

Unlocked(p, since) == IF slot # Never /\ slot.by = p /\ slot.since = since THEN Never ELSE slot

\* The task cannot be created: the lock is given back and the time is lost.
TaskFails(p) ==
    /\ creates[p] # "none" /\ Fault
    /\ slot' = IF creates[p] = "locked" THEN Unlocked(p, now) ELSE slot
    /\ excused' = excused \cup {now}
    /\ creates' = [creates EXCEPT ![p] = "none"]
    /\ Armed(p)
    /\ UNCHANGED <<now, upSince, running, served>>

\* RunRefreshTask returns and the deferred Unlock frees the lock, if the run obtained
\* it and it is still this run's; an error of Unlock is ignored.
RunEnds(r) ==
    /\ r \in running
    /\ running' = running \ {r}
    /\ \/ slot' = (IF r.locked THEN Unlocked(r.by, r.since) ELSE slot) /\ UNCHANGED plan
       \/ Fault /\ UNCHANGED slot
    /\ UNCHANGED <<now, due, upSince, creates, served, excused>>

TtNext ==
    \/ Elapse
    \/ \E p \in Processes :
          \/ Boot(p) \/ Halt(p) \/ FireLocks(p) \/ FireSkips(p) \/ FireUnlocked(p) \/ FireMisled(p)
          \/ QueueTask(p) \/ TaskFails(p)
    \/ \E r \in running : RunEnds(r)
TtSpec == TtInit /\ [][TtNext]_ttVars

-----------------------------------------------------------------------------
(* Properties *)

\* The times of the timetable.  After a clock change the loop of an interval by
\* local days may first be off: it counts 24 hours a day until it arms again.
Planned(t) ==
    \E n \in 0..(t + plan.offset) :
        t = n * plan.interval + (IF ByLocalDay THEN Midnight(t) ELSE -plan.offset)
Regular(t) == ~ByLocalDay \/ DayEnds(DayOf(t)) = Midnight(t) + Day

\* An interval of several days has no timetable of its own: it counts from the
\* midnight before the timer is armed, so it moves with every restart.
Anchored == plan.interval > 0 /\ (plan.interval <= Day \/ ~ByLocalDay)

\* docs/refresh-sync.md:154-158: a timer armed on an ordinary day is due at the
\* next planned time, in every instance, however late and often it started.
OnTime ==
    \A p \in Processes :
        (Anchored /\ due[p] # Never /\ due[p] < Horizon
           /\ \A t \in upSince[p]..(due[p] - 1) : Regular(t))
        => Planned(due[p])

\* Whatever instances do in turn, stop and start again, a planned time that passes
\* while one of them is up queues a task, unless an earlier run still holds the
\* lock then, the answer to TryLock is lost, the creation fails or the process that
\* took the lock stops before it; at most the time after a clock change is lost.
NoneMissed ==
    \A p \in Processes : \A t \in 1..(now - 1) :
        (Anchored /\ upSince[p] # Never /\ upSince[p] < t /\ Planned(t) /\ Regular(t - 1))
        => t \in served \cup excused
=============================================================================
