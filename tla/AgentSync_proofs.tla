-------------------------- MODULE AgentSync_proofs --------------------------
(***************************************************************************)
(* Proofs about AgentSync, for every set of Agents, parts, tasks and       *)
(* instances, every workload and every combination of failures.            *)
(***************************************************************************)
EXTENDS AgentSync, TLAPS

\* The jobs that requests and timers create are jobs.
LEMMA JobFacts ==
    /\ \A j \in FanOutJobs : j \in Jobs
    /\ \A s \in Servers : Job("server", s) \in Jobs
    /\ \A p \in Parts : Job("part", p) \in Jobs
    /\ Job("all", "-") \in Jobs
    /\ \A r \in {"dns", "dhcp"} : Job(r, "-") \in Jobs
  BY DEF Jobs, FanOutJobs, ServerJobs, PartJobs, Job, FanOutKinds

\* Updating a two-dimensional table, or one row of it, keeps its type.
LEMMA TableUpdate ==
    ASSUME NEW A, NEW B, NEW V, NEW f \in [A -> [B -> V]], NEW a \in A,
           NEW b \in B, NEW v \in V
    PROVE  [f EXCEPT ![a][b] = v] \in [A -> [B -> V]]
  OBVIOUS

\* The same for a one-dimensional table.
LEMMA RowUpdate ==
    ASSUME NEW A, NEW V, NEW f \in [A -> V], NEW a \in A, NEW v \in V
    PROVE  [f EXCEPT ![a] = v] \in [A -> V]
  OBVIOUS

\* The literals the actions use belong to their sets.
LEMMA Literals ==
    /\ {"none", "queued", "running", "completed", "failed", "deleted"}
          \subseteq Statuses
    /\ {"open", "success", "failed"} \subseteq Events
    /\ {"none", "completed", "failed"} \subseteq Outcomes
    /\ Outcomes \subseteq Statuses
    /\ {"idle", "create", "mark", "publish", "lock", "start", "work", "sync",
        "finish", "announce", "unlock", "unsched", "ended", "crashed"}
          \subseteq PCs
    /\ {"none", "wait", "lock", "mark", "collect", "clear", "unlock", "report",
        "done"} \subseteq Steps
    /\ {"none", "completed", "failed", "skipped"} \subseteq Results
  BY DEF Statuses, Events, Outcomes, PCs, Steps, Results

-----------------------------------------------------------------------------
(***************************************************************************)
(* Type correctness.                                                       *)
(***************************************************************************)
\* The initial state is well typed.
LEMMA TypeInit == Init => TypeOK
  BY JobFacts, InstancesAssumption
  DEF Init, Start, TypeOK, PCs, Statuses, Events, Outcomes, Steps, Results

\* A request, which only accepts a job and may take a lock, keeps the types.
LEMMA TypeRequest ==
    ASSUME TypeOK, NEW t \in Tasks, Request(t)
    PROVE  TypeOK'
<1> USE DEF TypeOK, agent
<1>1. PICK i \in Instances :
        \/ \E j \in Requested \cap FanOutJobs : RequestFanOut(t, j, i)
        \/ \E s \in Servers : RequestServerSync(t, s, i)
        \/ \E p \in Parts : RequestPart(t, p, i)
        \/ \E r \in Scheduled : ScheduledTick(t, r, i)
  BY DEF Request
<1>2. ASSUME NEW j \in Jobs, NEW b \in BOOLEAN, Accept(t, j, b, i)
      PROVE  run' \in [Tasks -> [pc : PCs, job : Jobs, sched : BOOLEAN,
                                 inst : Instances, outcome : Outcomes]]
  BY <1>2, Literals DEF Accept
<1>3. ASSUME NEW j \in FanOutJobs, RequestFanOut(t, j, i) PROVE TypeOK'
  BY <1>2, <1>3, JobFacts DEF RequestFanOut, locks
<1>4. ASSUME NEW s \in Servers, RequestServerSync(t, s, i) PROVE TypeOK'
  BY <1>2, <1>4, JobFacts DEF RequestServerSync, locks
<1>5. ASSUME NEW p \in Parts, RequestPart(t, p, i) PROVE TypeOK'
  BY <1>2, <1>5, JobFacts DEF RequestPart, locks
<1>6. ASSUME NEW r \in Scheduled, ScheduledTick(t, r, i) PROVE TypeOK'
  <2>1. run' \in [Tasks -> [pc : PCs, job : Jobs, sched : BOOLEAN,
                            inst : Instances, outcome : Outcomes]]
    <3>1. Job(r, "-") \in Jobs /\ Accept(t, Job(r, "-"), TRUE, i)
      BY <1>6, JobFacts, ScheduledAssumption DEF ScheduledTick
    <3> QED
      BY <1>2, <3>1
  <2>2. schedLock' \in [{"dns", "dhcp"} -> Tasks \cup {NoToken}]
    BY <1>6 DEF ScheduledTick, TryLock
  <2>3. UNCHANGED <<refreshLock, agentLock, mark, known, row, agent>>
    BY <1>6 DEF ScheduledTick
  <2> QED
    BY <2>1, <2>2, <2>3
<1> QED
  BY <1>1, <1>3, <1>4, <1>5, <1>6

\* The row of one task is replaced by another well-typed row.
LEMMA RowTypes ==
    ASSUME TypeOK, NEW t \in Tasks,
           NEW status \in Statuses, NEW event \in Events,
           NEW db \in BOOLEAN, NEW redis \in BOOLEAN
    PROVE  LET Rows == [status : Statuses, cache : Statuses, event : Events] IN
           /\ Update(t, status, db, redis) \in Rows
           /\ \A r \in Rows : Publish(r, event, redis) \in Rows
<1> DEFINE Rows == [status : Statuses, cache : Statuses, event : Events]
<1>1. Update(t, status, db, redis) \in Rows
  <2>1. row[t] \in Rows
    BY DEF TypeOK
  <2> QED
    BY <2>1 DEF Update
<1>2. \A r \in Rows : Publish(r, event, redis) \in Rows
  BY DEF Publish
<1> QED
  BY <1>1, <1>2

\* Calls succeed or fail.
LEMMA OutcomeTypes == RedisOutcomes \subseteq BOOLEAN /\ DBOutcomes \subseteq BOOLEAN
  BY DEF RedisOutcomes, DBOutcomes

\* The steps of RunRefreshTask keep the types.
LEMMA TypeRunStep ==
    ASSUME TypeOK, NEW t \in Tasks, RunStep(t)
    PROVE  TypeOK'
<1> DEFINE Rows == [status : Statuses, cache : Statuses, event : Events]
           Runs == [pc : PCs, job : Jobs, sched : BOOLEAN,
                    inst : Instances, outcome : Outcomes]
<1> USE DEF TypeOK
<1>1. ASSUME NEW pc \in PCs, Goto(t, pc) PROVE run' \in [Tasks -> Runs]
  BY <1>1 DEF Goto
<1>2. ASSUME NEW o \in Outcomes, Finish(t, o) PROVE run' \in [Tasks -> Runs]
  <2>1. run' = [run EXCEPT ![t] = [@ EXCEPT !.pc = "finish", !.outcome = o]]
    BY <1>2 DEF Finish
  <2>2. [run[t] EXCEPT !.pc = "finish", !.outcome = o] \in Runs
    BY Literals
  <2> QED
    BY <2>1, <2>2, RowUpdate
<1>3. Return(t) \in PCs
  BY Literals DEF Return
<1>4. ASSUME NEW st \in Statuses, NEW db \in BOOLEAN, NEW redis \in BOOLEAN
      PROVE  Update(t, st, db, redis) \in Rows
  BY RowTypes, Literals
<1>5. ASSUME NEW r \in Rows, NEW e \in Events, NEW redis \in BOOLEAN
      PROVE  Publish(r, e, redis) \in Rows
  BY DEF Publish
<1> USE DEF agent
<1>6. CASE CreateTask(t)
  <2>1. run' \in [Tasks -> Runs]
    BY <1>6, <1>1, Literals DEF CreateTask
  <2>2. row' \in [Tasks -> Rows]
    <3>1. row' = row \/ row' = [row EXCEPT ![t].status = "queued"]
      BY <1>6 DEF CreateTask
    <3>2. [row[t] EXCEPT !.status = "queued"] \in Rows
      BY Literals
    <3> QED
      BY <3>1, <3>2
  <2>3. schedLock' \in [{"dns", "dhcp"} -> Tasks \cup {NoToken}]
    BY <1>6 DEF CreateTask, Unlock
  <2>4. UNCHANGED <<refreshLock, agentLock, mark, known, agent>>
    BY <1>6 DEF CreateTask
  <2> QED
    BY <2>1, <2>2, <2>3, <2>4
<1>7. CASE MarkQueued(t)
  <2>1. run' \in [Tasks -> Runs]
    BY <1>7, <1>1, Literals DEF MarkQueued
  <2>2. mark' \in [Servers -> Tasks \cup {NoToken}]
    BY <1>7 DEF MarkQueued
  <2> QED
    BY <1>7, <2>1, <2>2 DEF MarkQueued, locks
<1>8. CASE Spawn(t)
  <2>1. row' \in [Tasks -> Rows]
    BY <1>8, <1>5, OutcomeTypes, Literals DEF Spawn
  <2> QED
    BY <1>8, <1>1, <2>1, Literals DEF Spawn, locks
<1>9. CASE AcquireRefreshLock(t)
  <2>1. run' \in [Tasks -> Runs]
    BY <1>9, <1>1, Literals DEF AcquireRefreshLock
  <2>2. refreshLock' \in [Jobs -> Tasks \cup {NoToken}]
    BY <1>9 DEF AcquireRefreshLock, TryLock
  <2> QED
    BY <1>9, <2>1, <2>2 DEF AcquireRefreshLock
<1>10. CASE SkipDuplicate(t)
  <2>1. \A db \in BOOLEAN : Delete(t, db) \in Rows
    <3>1. row[t] \in Rows /\ "deleted" \in Statuses
      BY Literals
    <3> QED
      BY <3>1 DEF Delete
  <2>2. row' \in [Tasks -> Rows]
    <3>1. PICK db \in DBOutcomes, redis \in RedisOutcomes :
            row' = [row EXCEPT ![t] = Publish(Delete(t, db), "failed", redis)]
      BY <1>10 DEF SkipDuplicate
    <3>2. Publish(Delete(t, db), "failed", redis) \in Rows
      BY <2>1, <1>5, OutcomeTypes, Literals
    <3> QED
      BY <3>1, <3>2
  <2> QED
    BY <1>10, <1>1, <1>3, <2>2 DEF SkipDuplicate, locks
<1>11. CASE StartRunning(t)
  <2>1. row' \in [Tasks -> Rows]
    <3>1. PICK db \in BOOLEAN, redis \in BOOLEAN, sent \in BOOLEAN :
            row' = [row EXCEPT ![t] =
                      Publish(Update(t, "running", db, redis), "open", sent)]
      BY <1>11, OutcomeTypes DEF StartRunning
    <3>2. Update(t, "running", db, redis) \in Rows
      BY <1>4, Literals
    <3> QED
      BY <3>1, <3>2, <1>5, Literals
  <2> QED
    BY <1>11, <1>1, <2>1, Literals DEF StartRunning, locks
<1>12. CASE WorkPart(t)
  BY <1>12, <1>2, Literals DEF WorkPart, locks
<1>13. CASE WorkServer(t)
  <2>1. run' \in [Tasks -> Runs]
    BY <1>13, <1>1, <1>2, Literals DEF WorkServer
  <2>2. step' \in [Tasks -> [Servers -> Steps]]
    <3>1. \/ step' = step
          \/ /\ run[t].job.target \in Servers
             /\ step' = [step EXCEPT ![t][run[t].job.target] = "lock"]
      BY <1>13 DEF WorkServer, Step
    <3>2. "lock" \in Steps /\ step \in [Tasks -> [Servers -> Steps]]
      BY Literals
    <3> HIDE DEF TypeOK
    <3>3. ASSUME NEW s \in Servers
          PROVE  [step EXCEPT ![t][s] = "lock"] \in [Tasks -> [Servers -> Steps]]
      BY <3>2, TableUpdate
    <3> QED
      BY <3>1, <3>2, <3>3
  <2> QED
    BY <1>13, <2>1, <2>2 DEF WorkServer, locks
<1>14. CASE WorkFanOut(t)
  <2>1. run' \in [Tasks -> Runs]
    BY <1>14, <1>1, <1>2, Literals DEF WorkFanOut
  <2>2. row' \in [Tasks -> Rows]
    <3>1. CASE row' = row
      BY <3>1
    <3>2. CASE \E db \in DBOutcomes, redis \in RedisOutcomes :
                  row' = [row EXCEPT ![t] = Update(t, "running", db, redis)]
      BY <3>2, <1>4, OutcomeTypes, Literals
    <3> QED
      BY <1>14, <3>1, <3>2 DEF WorkFanOut
  <2>3. step' \in [Tasks -> [Servers -> Steps]]
    <3>1. \/ step' = step
          \/ step' = [step EXCEPT ![t] = [s \in Servers |->
                         IF s \in known /\ ShouldSync(run[t].job.kind, s)
                         THEN "wait" ELSE "none"]]
      BY <1>14 DEF WorkFanOut
    <3>2. [s \in Servers |-> IF s \in known /\ ShouldSync(run[t].job.kind, s)
                            THEN "wait" ELSE "none"] \in [Servers -> Steps]
      BY Literals
    <3>3. step \in [Tasks -> [Servers -> Steps]]
      OBVIOUS
    <3> HIDE DEF TypeOK
    <3>4. ASSUME NEW v \in [Servers -> Steps]
          PROVE  [step EXCEPT ![t] = v] \in [Tasks -> [Servers -> Steps]]
      BY <3>3, RowUpdate
    <3> QED
      BY <3>1, <3>2, <3>3, <3>4
  <2> QED
    BY <1>14, <2>1, <2>2, <2>3 DEF WorkFanOut, locks
<1>15. CASE Join(t)
  BY <1>15, <1>2, Literals DEF Join, locks
<1>16. CASE FinishUpdate(t)
  <2>1. run[t].outcome \in Statuses
    BY Literals
  <2>2. row' \in [Tasks -> Rows]
    <3>1. PICK db \in BOOLEAN, redis \in BOOLEAN :
            row' = [row EXCEPT ![t] = Update(t, run[t].outcome, db, redis)]
      BY <1>16, OutcomeTypes DEF FinishUpdate
    <3>2. Update(t, run[t].outcome, db, redis) \in Rows
      BY <1>4, <2>1
    <3> QED
      BY <3>1, <3>2
  <2> QED
    BY <1>16, <1>1, <2>2, Literals DEF FinishUpdate, locks
<1>17. CASE Announce(t)
  <2>1. row' \in [Tasks -> Rows]
    <3>1. PICK redis \in BOOLEAN :
            row' = [row EXCEPT ![t] = Publish(row[t],
                      IF run[t].outcome = "completed" THEN "success"
                      ELSE "failed", redis)]
      BY <1>17, OutcomeTypes DEF Announce
    <3> QED
      BY <3>1, <1>5, Literals
  <2> QED
    BY <1>17, <1>1, <2>1, Literals DEF Announce, locks
<1>18. CASE ReleaseRefreshLock(t)
  BY <1>18, <1>1, <1>3 DEF ReleaseRefreshLock, Unlock
<1>19. CASE ReleaseSchedLock(t)
  BY <1>19, <1>1, Literals DEF ReleaseSchedLock, Unlock
<1> QED
  BY <1>6, <1>7, <1>8, <1>9, <1>10, <1>11, <1>12, <1>13, <1>14, <1>15,
     <1>16, <1>17, <1>18, <1>19 DEF RunStep

\* The steps of the run on one Agent keep the types.
LEMMA TypeAgentStep ==
    ASSUME TypeOK, NEW t \in Tasks, NEW s \in Servers, AgentStep(t, s)
    PROVE  TypeOK'
<1> USE DEF TypeOK, agent
<1>1. ASSUME Progress(t)
      PROVE  row' \in [Tasks -> [status : Statuses, cache : Statuses,
                                 event : Events]]
  <2>1. PICK db \in BOOLEAN, redis \in BOOLEAN, sent \in BOOLEAN :
          row' = [row EXCEPT ![t] =
                    Publish(Update(t, "running", db, redis), "open", sent)]
    BY <1>1, OutcomeTypes DEF Progress
  <2>2. Update(t, "running", db, redis) \in
          [status : Statuses, cache : Statuses, event : Events]
    BY RowTypes, Literals
  <2>3. Publish(Update(t, "running", db, redis), "open", sent) \in
          [status : Statuses, cache : Statuses, event : Events]
    BY RowTypes, Literals, <2>2
  <2> QED
    BY <2>1, <2>3
<1>2. AfterSync(t) \in Steps
  BY Literals DEF AfterSync
<1>3. CASE AcquireSlot(t, s)
  BY <1>3, <1>1, Literals DEF AcquireSlot, Step, locks
<1>4. CASE AcquireAgentLock(t, s)
  <2>1. owned' \in [Tasks -> [Servers -> BOOLEAN]]
    <3>1. owned' = owned \/ owned' = [owned EXCEPT ![t][s] = TRUE]
      BY <1>4 DEF AcquireAgentLock
    <3>2. owned \in [Tasks -> [Servers -> BOOLEAN]]
      OBVIOUS
    <3> HIDE DEF TypeOK
    <3>3. [owned EXCEPT ![t][s] = TRUE] \in [Tasks -> [Servers -> BOOLEAN]]
      BY <3>2, TableUpdate
    <3> QED
      BY <3>1, <3>2, <3>3
  <2>2. step' \in [Tasks -> [Servers -> Steps]]
    BY <1>4, Literals DEF AcquireAgentLock, Step
  <2>3. agentLock' \in [Servers -> Tasks \cup {NoToken}]
    BY <1>4 DEF AcquireAgentLock, TryLock
  <2> QED
    BY <1>4, <2>1, <2>2, <2>3 DEF AcquireAgentLock
<1>5. CASE AgentBusy(t, s)
  <2>1. result' \in [Tasks -> [Servers -> Results]]
    BY <1>5, Literals DEF AgentBusy
  <2>2. step' \in [Tasks -> [Servers -> Steps]]
    BY <1>5, <1>2 DEF AgentBusy, Step
  <2> QED
    BY <1>5, <2>1, <2>2 DEF AgentBusy, locks
<1>6. CASE MarkRunning(t, s)
  BY <1>6, Literals DEF MarkRunning, Step, locks
<1>7. CASE Collect(t, s)
  <2>1. result' \in [Tasks -> [Servers -> Results]]
    BY <1>7, Literals DEF Collect
  <2>2. step' \in [Tasks -> [Servers -> Steps]]
    BY <1>7, Literals DEF Collect, Step
  <2> QED
    BY <1>7, <2>1, <2>2 DEF Collect, locks
<1>8. CASE ClearRunning(t, s)
  BY <1>8, Literals DEF ClearRunning, Step, locks
<1>9. CASE ReleaseAgentLock(t, s)
  <2>1. owned' \in [Tasks -> [Servers -> BOOLEAN]]
    BY <1>9 DEF ReleaseAgentLock
  <2>2. step' \in [Tasks -> [Servers -> Steps]]
    BY <1>9, <1>2 DEF ReleaseAgentLock, Step
  <2> QED
    BY <1>9, <2>1, <2>2 DEF ReleaseAgentLock, Unlock
<1>10. CASE Report(t, s)
  BY <1>10, <1>1, Literals DEF Report, Step, locks
<1> QED
  BY <1>3, <1>4, <1>5, <1>6, <1>7, <1>8, <1>9, <1>10 DEF AgentStep

\* Deleting a server and crashing an instance keep the types.
LEMMA TypeEnvironment == ASSUME TypeOK, Environment PROVE TypeOK'
<1> USE DEF TypeOK, agent
<1>1. ASSUME NEW s \in Servers, DeleteServer(s) PROVE TypeOK'
  BY <1>1 DEF DeleteServer, locks
<1>2. ASSUME NEW i \in Instances, Crash(i) PROVE TypeOK'
  <2>1. run' \in [Tasks -> [pc : PCs, job : Jobs, sched : BOOLEAN,
                            inst : Instances, outcome : Outcomes]]
    <3>1. "crashed" \in PCs
      BY Literals
    <3>2. ASSUME NEW t \in Tasks
          PROVE  [run[t] EXCEPT !.pc = "crashed"] \in
                    [pc : PCs, job : Jobs, sched : BOOLEAN, inst : Instances, outcome : Outcomes]
      BY <3>1
    <3> QED
      BY <1>2, <3>2 DEF Crash
  <2>2. step' \in [Tasks -> [Servers -> Steps]] /\ owned' \in [Tasks -> [Servers -> BOOLEAN]]
    BY <1>2, Literals DEF Crash
  <2>3. result' \in [Tasks -> [Servers -> Results]]
    BY <1>2, Literals DEF Crash
  <2> QED
    BY <1>2, <2>1, <2>2, <2>3 DEF Crash, locks
<1> QED
  BY <1>1, <1>2 DEF Environment

\* The expiry of a key keeps the types.
LEMMA TypeExpiry == ASSUME TypeOK, Expiry PROVE TypeOK'
  BY DEF TypeOK, Expiry, ExpireRefreshLock, ExpireSchedLock, ExpireAgentLock,
         ExpireMark, Expire, locks, agent

\* Every step keeps the types.
LEMMA TypeStep == TypeOK /\ [Next]_vars => TypeOK'
<1> SUFFICES ASSUME TypeOK, [Next]_vars PROVE TypeOK'
  OBVIOUS
<1>1. CASE UNCHANGED vars
  BY <1>1 DEF vars, TypeOK
<1>2. CASE Quiescent
  BY <1>2 DEF Quiescent, vars, TypeOK
<1> QED
  BY <1>1, <1>2, TypeRequest, TypeRunStep, TypeAgentStep, TypeEnvironment,
     TypeExpiry DEF Next

\* Type correctness: every reachable state has the shape TypeOK describes; no
\* handler stores a status, step or token outside the sets the code uses.
THEOREM TypeCorrect == Spec => []TypeOK
  BY TypeInit, TypeStep, PTL DEF Spec

-----------------------------------------------------------------------------
(***************************************************************************)
(* The order of a task's phases.                                           *)
(***************************************************************************)

\* What a request or a step of RunRefreshTask leaves alone: the agent-sync
\* locks, the runs of the other tasks, and every mark but the one it writes.
\* Outside the "sync" phase a step changes the runs on Agents only by entering
\* that phase, and it leaves the phase with no run on any Agent left.
LEMMA RunFrame ==
    ASSUME TypeOK, NEW t \in Tasks, Request(t) \/ RunStep(t)
    PROVE  /\ UNCHANGED <<agentLock, owned>>
           /\ \A u \in Tasks \ {t} : run'[u] = run[u] /\ step'[u] = step[u]
           /\ \A s \in Servers : mark'[s] \in {mark[s], t}
           /\ run'[t].pc = "sync" \/ step' = step
           /\ \A s \in Servers :
                 \/ step'[t][s] = step[t][s]
                 \/ step'[t][s] \in {"none", "wait", "lock"}
           /\ \/ run[t].pc # "sync"
              \/ /\ step' = step
                 /\ \A s \in Servers : step[t][s] \in {"none", "done"}
<1> USE DEF TypeOK, agent, locks
<1>1. CASE Request(t)
  BY <1>1 DEF Request, RequestFanOut, RequestServerSync, RequestPart,
              ScheduledTick, Accept
<1>2. CASE CreateTask(t) \/ MarkQueued(t) \/ Spawn(t)
  BY <1>2 DEF CreateTask, MarkQueued, Spawn, Goto
<1>3. CASE AcquireRefreshLock(t) \/ SkipDuplicate(t) \/ StartRunning(t)
  BY <1>3 DEF AcquireRefreshLock, SkipDuplicate, StartRunning, Goto
<1>4. CASE WorkPart(t)
  BY <1>4 DEF WorkPart, Finish
<1>5. CASE WorkServer(t)
  <2>1. /\ UNCHANGED <<agentLock, owned, mark>>
        /\ run[t].pc # "sync"
        /\ \/ run' = [run EXCEPT ![t].pc = "sync"]
           \/ step' = step /\ Finish(t, "failed")
        /\ step' = step \/ step' = [step EXCEPT ![t][run[t].job.target] = "lock"]
    BY <1>5 DEF WorkServer, Goto, Step
  <2>2. \A u \in Tasks \ {t} : run'[u] = run[u]
    BY <2>1 DEF Finish
  <2>3. run'[t].pc = "sync" \/ step' = step
    BY <2>1
  <2> QED
    BY <2>1, <2>2, <2>3
<1>6. CASE WorkFanOut(t)
  BY <1>6 DEF WorkFanOut, Goto, Finish
<1>7. CASE Join(t)
  BY <1>7 DEF Join, Finish
<1>8. CASE FinishUpdate(t) \/ Announce(t)
  BY <1>8 DEF FinishUpdate, Announce, Goto
<1>9. CASE ReleaseRefreshLock(t) \/ ReleaseSchedLock(t)
  BY <1>9 DEF ReleaseRefreshLock, ReleaseSchedLock, Goto
<1> QED
  BY <1>1, <1>2, <1>3, <1>4, <1>5, <1>6, <1>7, <1>8, <1>9 DEF RunStep

\* What a step of task t on Agent s leaves alone.
LEMMA AgentFrame ==
    ASSUME TypeOK, NEW t \in Tasks, NEW s \in Servers, AgentStep(t, s)
    PROVE  /\ UNCHANGED <<run, refreshLock, schedLock, known>>
           /\ step[t][s] \notin {"none", "done"}
           /\ step' = [step EXCEPT ![t][s] = step'[t][s]]
           /\ row' = row \/ Progress(t)
  BY DEF TypeOK, AgentStep, AcquireSlot, AcquireAgentLock, AgentBusy,
         MarkRunning, Collect, ClearRunning, ReleaseAgentLock, Report, At,
         Step, locks

\* A death ends every run of the dead tasks and touches nothing else.
LEMMA CrashFrame ==
    ASSUME TypeOK, NEW i \in Instances, Crash(i)
    PROVE  /\ UNCHANGED <<refreshLock, agentLock, schedLock, mark, known, row>>
           /\ \A u \in Tasks :
                 \/ /\ run'[u] = [run[u] EXCEPT !.pc = "crashed"]
                    /\ \A s \in Servers : step'[u][s] = "none" /\ ~owned'[u][s]
                 \/ /\ run'[u] = run[u]
                    /\ step'[u] = step[u]
                    /\ owned'[u] = owned[u]
  BY DEF TypeOK, Crash, locks

\* Only Join leaves "sync", and it waits for every run on an Agent.
LEMMA JoinWaitsStep ==
    ASSUME TypeOK, JoinWaits, [Next]_vars
    PROVE  JoinWaits'
<1> USE DEF JoinWaits
<1>1. ASSUME NEW t \in Tasks, Request(t) \/ RunStep(t) PROVE JoinWaits'
  BY <1>1, RunFrame
<1>2. ASSUME NEW t \in Tasks, NEW s \in Servers, AgentStep(t, s)
      PROVE  JoinWaits'
  <2>1. step' = [step EXCEPT ![t][s] = step'[t][s]]
    BY <1>2, AgentFrame, Zenon
  <2>2. run[t].pc = "sync" /\ run' = run
    BY <1>2, AgentFrame
  <2>3. \A u \in Tasks, v \in Servers :
           step'[u][v] = step[u][v] \/ u = t
    BY <2>1 DEF TypeOK
  <2> QED
    BY <2>2, <2>3
<1>3. ASSUME NEW s \in Servers, DeleteServer(s) PROVE JoinWaits'
  BY <1>3 DEF DeleteServer, agent
<1>4. ASSUME NEW i \in Instances, Crash(i) PROVE JoinWaits'
  BY <1>4, CrashFrame
<1>5. CASE Expiry
  BY <1>5 DEF Expiry, ExpireRefreshLock, ExpireSchedLock, ExpireAgentLock,
              ExpireMark, agent
<1>6. CASE UNCHANGED vars
  BY <1>6 DEF vars
<1> HIDE DEF JoinWaits
<1> QED
  BY <1>1, <1>2, <1>3, <1>4, <1>5, <1>6 DEF Next, Environment, Quiescent

\* wg.Wait: while a run on an Agent is under way its task is in SyncAll or in
\* syncServerTarget, so no write of a run can follow the end of its task.
THEOREM RunsEndBeforeTask == Spec => []JoinWaits
<1>1. Init => JoinWaits
  BY DEF Init, Start, JoinWaits
<1> QED
  BY <1>1, TypeCorrect, JoinWaitsStep, PTL DEF Spec

-----------------------------------------------------------------------------
(***************************************************************************)
(* Mutual exclusion on an Agent.                                           *)
(***************************************************************************)
\* A run on an Agent takes and gives back only its own lock.
LEMMA OwnershipAgentStep ==
    ASSUME TypeOK, LockOwnership, NEW t \in Tasks, NEW s \in Servers,
           AgentStep(t, s)
    PROVE  LockOwnership'
<1> USE DEF TypeOK, LockOwnership, InSection, At, Step, locks
<1>1. CASE AcquireSlot(t, s)
  BY <1>1 DEF AcquireSlot
<1>2. CASE AcquireAgentLock(t, s)
  BY <1>2, TokenAssumption DEF AcquireAgentLock, CanLock, TryLock
<1>3. CASE AgentBusy(t, s)
  BY <1>3 DEF AgentBusy
<1>4. CASE MarkRunning(t, s)
  BY <1>4 DEF MarkRunning
<1>5. CASE Collect(t, s)
  BY <1>5 DEF Collect
<1>6. CASE ClearRunning(t, s)
  BY <1>6 DEF ClearRunning
<1>7. CASE ReleaseAgentLock(t, s)
  BY <1>7 DEF ReleaseAgentLock, Unlock
<1>8. CASE Report(t, s)
  BY <1>8 DEF Report
<1> QED
  BY <1>1, <1>2, <1>3, <1>4, <1>5, <1>6, <1>7, <1>8 DEF AgentStep

\* Every step respects the owner of an agent-sync lock.
LEMMA OwnershipStep ==
    ASSUME TypeOK, JoinWaits, LockOwnership, [Next]_vars
    PROVE  LockOwnership'
<1> USE DEF LockOwnership, InSection
<1>1. ASSUME NEW t \in Tasks, Request(t) \/ RunStep(t) PROVE LockOwnership'
  <2>1. SUFFICES ASSUME NEW u \in Tasks, NEW s \in Servers, owned'[u][s]
                 PROVE  /\ agentLock'[s] = u
                        /\ step'[u][s] \in {"mark", "collect", "clear", "unlock"}
    OBVIOUS
  <2>2. /\ agentLock' = agentLock
        /\ owned[u][s]
        /\ u # t => step'[u] = step[u]
        /\ run[t].pc # "sync" \/ step[t][s] \in {"none", "done"}
    BY <1>1, <2>1, RunFrame
  <2>3. u # t
    BY <2>2 DEF JoinWaits
  <2> QED
    BY <2>2, <2>3
<1>2. ASSUME NEW s \in Servers, DeleteServer(s) PROVE LockOwnership'
  BY <1>2 DEF DeleteServer, locks, agent
<1>3. ASSUME NEW i \in Instances, Crash(i) PROVE LockOwnership'
  <2>1. agentLock' = agentLock
    BY <1>3, CrashFrame
  <2>2. \A u \in Tasks, s \in Servers :
           owned'[u][s] => owned[u][s] /\ step'[u] = step[u]
    BY <1>3, CrashFrame
  <2> QED
    BY <2>1, <2>2
<1>4. ASSUME Expiry PROVE LockOwnership'
  <2>1. ASSUME NEW s \in Servers, ExpireAgentLock(s) PROVE LockOwnership'
    BY <2>1 DEF ExpireAgentLock, Expire, agent, TypeOK
  <2>2. ASSUME UNCHANGED <<agentLock, agent>> PROVE LockOwnership'
    BY <2>2 DEF agent
  <2> QED
    BY <1>4, <2>1, <2>2 DEF Expiry, ExpireRefreshLock, ExpireSchedLock,
                            ExpireMark, locks
<1>5. CASE UNCHANGED vars
  BY <1>5 DEF vars
<1>6. ASSUME NEW t \in Tasks, NEW s \in Servers, AgentStep(t, s)
      PROVE  LockOwnership'
  BY <1>6, OwnershipAgentStep
<1> HIDE DEF LockOwnership
<1> QED
  BY <1>1, <1>2, <1>3, <1>4, <1>5, <1>6 DEF Next, Environment, Quiescent

\* Ownership of the agent-sync lock, the inductive core: a run that obtained
\* the lock is in its section and its token is the one stored.
THEOREM AgentLockOwnership == Spec => []LockOwnership
<1>1. Init => LockOwnership
  BY DEF Init, Start, LockOwnership
<1> QED
  BY <1>1, TypeCorrect, RunsEndBeforeTask, OwnershipStep, PTL DEF Spec

\* Mutual exclusion of synchronisations of one Agent (syncServerWithLimits),
\* across instances, crashes, lock expiry and Redis errors.
THEOREM AgentMutualExclusion == Spec => []AgentExclusive
<1>1. LockOwnership => AgentExclusive
  BY DEF LockOwnership, AgentExclusive
<1> QED
  BY <1>1, AgentLockOwnership, PTL

-----------------------------------------------------------------------------
(***************************************************************************)
(* The runtime mark.                                                       *)
(***************************************************************************)
\* A run on an Agent deletes the mark only as the owner of its lock.
LEMMA MarkAgentStep ==
    ASSUME TypeOK, LockOwnership, MarkOwnership, NEW t \in Tasks,
           NEW s \in Servers, AgentStep(t, s)
    PROVE  MarkOwnership'
<1> USE DEF TypeOK, MarkOwnership, InSection, At, Step, locks
<1>1. CASE AcquireSlot(t, s)
  BY <1>1 DEF AcquireSlot
<1>2. CASE AcquireAgentLock(t, s)
  BY <1>2 DEF AcquireAgentLock
<1>3. CASE AgentBusy(t, s)
  BY <1>3 DEF AgentBusy, AfterSync
<1>4. CASE MarkRunning(t, s)
  BY <1>4, TokenAssumption DEF MarkRunning
<1>5. CASE Collect(t, s)
  BY <1>5 DEF Collect
<1>6. CASE ClearRunning(t, s)
  BY <1>6 DEF ClearRunning, LockOwnership
<1>7. CASE ReleaseAgentLock(t, s)
  BY <1>7 DEF ReleaseAgentLock, AfterSync
<1>8. CASE Report(t, s)
  BY <1>8 DEF Report
<1> QED
  BY <1>1, <1>2, <1>3, <1>4, <1>5, <1>6, <1>7, <1>8 DEF AgentStep

\* Every step keeps the mark of an Agent that is being collected from.
LEMMA MarkStep ==
    ASSUME TypeOK, LockOwnership, MarkOwnership, [Next]_vars
    PROVE  MarkOwnership'
<1> USE DEF MarkOwnership, InSection
<1>1. ASSUME NEW t \in Tasks, Request(t) \/ RunStep(t) PROVE MarkOwnership'
  BY <1>1, RunFrame, TokenAssumption
<1>2. ASSUME NEW s \in Servers, DeleteServer(s) PROVE MarkOwnership'
  BY <1>2 DEF DeleteServer, agent
<1>3. ASSUME NEW i \in Instances, Crash(i) PROVE MarkOwnership'
  BY <1>3, CrashFrame
<1>4. ASSUME Expiry PROVE MarkOwnership'
  <2>1. ASSUME NEW s \in Servers, ExpireMark(s) PROVE MarkOwnership'
    BY <2>1 DEF ExpireMark, MarkNeeded, Expire, agent, TypeOK
  <2>2. ASSUME UNCHANGED <<mark, agent>> PROVE MarkOwnership'
    BY <2>2 DEF agent
  <2> QED
    BY <1>4, <2>1, <2>2 DEF Expiry, ExpireRefreshLock, ExpireSchedLock,
                            ExpireAgentLock
<1>5. CASE UNCHANGED vars
  BY <1>5 DEF vars
<1>6. ASSUME NEW t \in Tasks, NEW s \in Servers, AgentStep(t, s)
      PROVE  MarkOwnership'
  BY <1>6, MarkAgentStep
<1> HIDE DEF MarkOwnership
<1> QED
  BY <1>1, <1>2, <1>3, <1>4, <1>5, <1>6 DEF Next, Environment, Quiescent

\* While a run collects from an Agent, its runtime mark is visible to the
\* health checker and to the operation handlers: with a Redis that answers, no
\* other task, skipped, duplicate or finishing, removes it.
THEOREM MarkVisibleDuringSync == Spec => []MarkCoversSync
<1>1. Init => MarkOwnership
  BY DEF Init, Start, MarkOwnership, InSection
<1>2. MarkOwnership => MarkCoversSync
  BY DEF MarkOwnership, MarkCoversSync
<1> QED
  BY <1>1, <1>2, TypeCorrect, AgentLockOwnership, MarkStep, PTL DEF Spec

-----------------------------------------------------------------------------
(***************************************************************************)
(* The refresh lock of a single target.                                    *)
(***************************************************************************)
\* Goto and Finish move one task and keep its job.
LEMMA GotoFacts ==
    ASSUME TypeOK, NEW t \in Tasks, NEW pc, Goto(t, pc)
    PROVE  /\ run'[t].pc = pc
           /\ run'[t].job = run[t].job
           /\ run'[t].outcome = run[t].outcome
           /\ \A u \in Tasks \ {t} : run'[u] = run[u]
  BY DEF TypeOK, Goto

\* Finish only moves the task and records its outcome.
LEMMA FinishFacts ==
    ASSUME TypeOK, NEW t \in Tasks, NEW o, Finish(t, o)
    PROVE  /\ run'[t].pc = "finish"
           /\ run'[t].job = run[t].job
           /\ run'[t].outcome = o
           /\ \A u \in Tasks \ {t} : run'[u] = run[u]
  BY DEF TypeOK, Finish

\* A task takes and gives back only its own refresh lock.
LEMMA TargetRunStep ==
    ASSUME TypeOK, TargetOwnership, NEW t \in Tasks, Request(t) \/ RunStep(t)
    PROVE  TargetOwnership'
<1> DEFINE Held == {"start", "work", "sync", "finish", "announce", "unlock"}
<1>1. ASSUME run'[t].pc \notin Held \/ run[t].pc \in Held,
             run'[t].pc \in Held => run'[t].job = run[t].job,
             \A u \in Tasks \ {t} : run'[u] = run[u],
             refreshLock' = refreshLock
      PROVE  TargetOwnership'
  BY <1>1 DEF TargetOwnership
<1> USE DEF locks
<1>2. CASE Request(t)
  <2>1. /\ run'[t].pc = "create"
        /\ \A u \in Tasks \ {t} : run'[u] = run[u]
        /\ refreshLock' = refreshLock
    BY <1>2 DEF Request, RequestFanOut, RequestServerSync, RequestPart,
                ScheduledTick, Accept, TypeOK
  <2> QED
    BY <1>1, <2>1
<1>3. CASE CreateTask(t) \/ MarkQueued(t) \/ Spawn(t) \/ SkipDuplicate(t)
           \/ ReleaseSchedLock(t)
  <2>1. /\ refreshLock' = refreshLock
        /\ \E pc \in {"mark", "publish", "ended", "lock", "unsched"} :
              Goto(t, pc)
    BY <1>3 DEF CreateTask, MarkQueued, Spawn, SkipDuplicate, Return,
                ReleaseSchedLock
  <2>2. run'[t].pc \notin Held
    BY <2>1, GotoFacts
  <2> QED
    BY <1>1, <2>1, <2>2, GotoFacts
<1>4. CASE StartRunning(t) \/ FinishUpdate(t) \/ Announce(t)
  <2>1. /\ refreshLock' = refreshLock
        /\ run[t].pc \in Held
        /\ \E pc : Goto(t, pc)
    BY <1>4 DEF StartRunning, FinishUpdate, Announce
  <2> QED
    BY <1>1, <2>1, GotoFacts
<1>5. CASE WorkPart(t) \/ WorkServer(t) \/ WorkFanOut(t) \/ Join(t)
  <2>1. /\ refreshLock' = refreshLock
        /\ run[t].pc \in Held
        /\ (\E pc : Goto(t, pc)) \/ (\E o : Finish(t, o))
    BY <1>5 DEF WorkPart, WorkServer, WorkFanOut, Join
  <2> QED
    BY <1>1, <2>1, GotoFacts, FinishFacts
<1>6. CASE AcquireRefreshLock(t)
  <2>1. /\ refreshLock \in [Jobs -> Tasks \cup {NoToken}]
        /\ \A u \in Tasks : run[u].job \in Jobs
    BY DEF TypeOK
  <2>2. /\ Goto(t, "start")
        /\ ~RedisFails => /\ refreshLock[run[t].job] = NoToken
                          /\ refreshLock' = [refreshLock EXCEPT ![run[t].job] = t]
    BY <1>6 DEF AcquireRefreshLock, CanLock, TryLock
  <2>3. /\ run'[t].job = run[t].job
        /\ \A u \in Tasks \ {t} : run'[u] = run[u]
    BY <2>2, GotoFacts
  <2> SUFFICES ASSUME ~RedisFails, NEW u \in Tasks, run'[u].pc \in Held,
                      run'[u].job \notin FanOutJobs
               PROVE  refreshLock'[run'[u].job] = u
    BY DEF TargetOwnership
  <2>4. CASE u = t
    BY <2>1, <2>2, <2>3, <2>4
  <2>5. CASE u # t
    <3>1. refreshLock[run[u].job] = u
      BY <2>3, <2>5 DEF TargetOwnership
    <3> QED
      BY <3>1, <2>1, <2>2, <2>3, <2>5, TokenAssumption
  <2> QED
    BY <2>4, <2>5
<1>7. CASE ReleaseRefreshLock(t)
  <2>1. /\ refreshLock \in [Jobs -> Tasks \cup {NoToken}]
        /\ \A u \in Tasks : run[u].job \in Jobs
    BY DEF TypeOK
  <2>2. /\ \E pc \in {"unsched", "ended"} : Goto(t, pc)
        /\ \/ refreshLock' = refreshLock
           \/ /\ refreshLock[run[t].job] = t
              /\ refreshLock' = [refreshLock EXCEPT ![run[t].job] = NoToken]
    BY <1>7 DEF ReleaseRefreshLock, Unlock, Return
  <2>3. run'[t].pc \notin Held /\ \A u \in Tasks \ {t} : run'[u] = run[u]
    BY <2>2, GotoFacts
  <2> SUFFICES ASSUME ~RedisFails, NEW u \in Tasks, run'[u].pc \in Held,
                      run'[u].job \notin FanOutJobs
               PROVE  refreshLock'[run'[u].job] = u
    BY DEF TargetOwnership
  <2>4. u # t /\ run'[u] = run[u]
    BY <2>3
  <2>5. refreshLock[run[u].job] = u
    BY <2>4 DEF TargetOwnership
  <2> QED
    BY <2>1, <2>2, <2>4, <2>5
<1> QED
  BY <1>2, <1>3, <1>4, <1>5, <1>6, <1>7 DEF RunStep

\* Every step respects the owner of a refresh lock.
LEMMA TargetStep ==
    ASSUME TypeOK, TargetOwnership, [Next]_vars
    PROVE  TargetOwnership'
<1> USE DEF TargetOwnership
<1>1. ASSUME NEW t \in Tasks, NEW s \in Servers, AgentStep(t, s)
      PROVE  TargetOwnership'
  BY <1>1, AgentFrame
<1>2. ASSUME NEW s \in Servers, DeleteServer(s) PROVE TargetOwnership'
  BY <1>2 DEF DeleteServer, locks
<1>3. ASSUME NEW i \in Instances, Crash(i) PROVE TargetOwnership'
  <2>1. refreshLock' = refreshLock
    BY <1>3, CrashFrame
  <2>2. \A u \in Tasks : run'[u].pc = "crashed" \/ run'[u] = run[u]
    BY <1>3 DEF Crash, TypeOK
  <2> QED
    BY <2>1, <2>2
<1>4. ASSUME Expiry PROVE TargetOwnership'
  <2>1. ASSUME NEW j \in Jobs, ExpireRefreshLock(j) PROVE TargetOwnership'
    BY <2>1 DEF ExpireRefreshLock, Expire, Live, TypeOK
  <2>2. ASSUME UNCHANGED <<refreshLock, run>> PROVE TargetOwnership'
    BY <2>2
  <2> QED
    BY <1>4, <2>1, <2>2 DEF Expiry, ExpireSchedLock, ExpireAgentLock,
                            ExpireMark, locks
<1>5. CASE UNCHANGED vars
  BY <1>5 DEF vars
<1> HIDE DEF TargetOwnership
<1> QED
  BY <1>1, <1>2, <1>3, <1>4, <1>5, TargetRunStep
  DEF Next, Environment, Quiescent

\* Two tasks of one Agent, zone or scope never run at once (RunRefreshTask's
\* refresh lock): a Redis that answers grants the target to one of them.
THEOREM TargetMutualExclusion == Spec => []TargetExclusive
<1>1. Init => TargetOwnership
  BY DEF Init, Start, TargetOwnership
<1>2. TargetOwnership => TargetExclusive
  BY DEF TargetOwnership, TargetExclusive
<1> QED
  BY <1>1, <1>2, TypeCorrect, TargetStep, PTL DEF Spec

-----------------------------------------------------------------------------
(***************************************************************************)
(* The life of a task's row.                                               *)
(***************************************************************************)


\* The effect on a row's status of the operators that write rows.
LEMMA RowWrites ==
    ASSUME TypeOK, NEW t \in Tasks, NEW status \in Statuses, NEW event,
           NEW db \in BOOLEAN, NEW redis \in BOOLEAN, NEW sent \in BOOLEAN
    PROVE  /\ Update(t, status, db, redis).status \in {row[t].status, status}
           /\ Publish(Update(t, status, db, redis), event, sent).status
                 \in {row[t].status, status}
           /\ Publish(Delete(t, db), event, sent).status
                 \in {row[t].status, "deleted"}
           /\ Publish(row[t], event, sent).status = row[t].status
<1>1. row[t] \in [status : Statuses, cache : Statuses, event : Events]
  BY DEF TypeOK
<1>2. ASSUME NEW x, x = [row[t] EXCEPT !.status = x.status, !.cache = x.cache]
      PROVE  Publish(x, event, sent).status = x.status
  BY <1>1, <1>2 DEF Publish
<1>3. Update(t, status, db, redis).status \in {row[t].status, status}
  BY <1>1 DEF Update
<1>4. Publish(Update(t, status, db, redis), event, sent).status
        = Update(t, status, db, redis).status
  BY <1>1 DEF Update, Publish
<1>5. Publish(Delete(t, db), event, sent).status \in {row[t].status, "deleted"}
  BY <1>1 DEF Delete, Publish
<1>6. Publish(row[t], event, sent).status = row[t].status
  BY <1>1 DEF Publish
<1> QED
  BY <1>3, <1>4, <1>5, <1>6

\* What one step of a task does to its own row and phase, and to no other's.
LEMMA RowRunStep ==
    ASSUME TypeOK, RowFollowsRun, NEW t \in Tasks, Request(t) \/ RunStep(t)
    PROVE  /\ \A u \in Tasks \ {t} : row'[u] = row[u] /\ run'[u] = run[u]
           /\ \/ row'[t].status = row[t].status
              \/ <<row[t].status, row'[t].status>> \in
                    {<<"none", "queued">>, <<"queued", "running">>,
                     <<"queued", "deleted">>, <<"queued", "completed">>,
                     <<"queued", "failed">>, <<"running", "completed">>,
                     <<"running", "failed">>}
           /\ run'[t].pc \in {"idle", "create"} => row'[t].status = "none"
           /\ run'[t].pc \in {"mark", "publish", "lock", "start"}
                 => row'[t].status = "queued"
           /\ run'[t].pc \in {"work", "sync", "finish"}
                 => row'[t].status \in {"queued", "running"}
           /\ run'[t].pc \in {"finish", "announce"}
                 => run'[t].outcome \in {"completed", "failed"}
<1> DEFINE RowFrame == \A u \in Tasks \ {t} : row'[u] = row[u]
<1>0. row \in [Tasks -> [status : Statuses, cache : Statuses, event : Events]]
  BY DEF TypeOK
<1>1. CASE Request(t)
  <2>1. run[t].pc = "idle" /\ row' = row
    BY <1>1 DEF Request, RequestFanOut, RequestServerSync, RequestPart,
                ScheduledTick
  <2>2. run'[t].pc = "create" /\ \A u \in Tasks \ {t} : run'[u] = run[u]
    BY <1>1 DEF Request, RequestFanOut, RequestServerSync, RequestPart,
                ScheduledTick, Accept, TypeOK
  <2> QED
    BY <2>1, <2>2 DEF RowFollowsRun
<1>2. CASE CreateTask(t)
  <2>1. run[t].pc = "create" /\ row[t].status = "none"
    BY <1>2 DEF CreateTask, RowFollowsRun
  <2>2. CASE row' = [row EXCEPT ![t].status = "queued"]
             /\ \E pc \in {"mark", "publish"} : Goto(t, pc)
    BY <2>1, <2>2, <1>0, GotoFacts
  <2>3. CASE row' = row /\ Goto(t, "ended")
    BY <2>1, <2>3, GotoFacts
  <2> QED
    BY <1>2, <2>2, <2>3 DEF CreateTask
<1>3. CASE MarkQueued(t)
  <2>1. run[t].pc = "mark" /\ row' = row /\ Goto(t, "publish")
    BY <1>3 DEF MarkQueued
  <2> QED
    BY <2>1, GotoFacts, FinishFacts DEF RowFollowsRun
<1>4. CASE Spawn(t)
  <2>1. run[t].pc = "publish" /\ Goto(t, "lock")
    BY <1>4 DEF Spawn
  <2>2. row'[t].status = row[t].status /\ RowFrame
    <3>1. PICK sent \in BOOLEAN :
             row' = [row EXCEPT ![t] = Publish(row[t], "open", sent)]
      BY <1>4, OutcomeTypes DEF Spawn
    <3>2. \A e : Publish(row[t], e, sent).status = row[t].status
      BY RowWrites, Literals
    <3> QED
      BY <3>1, <3>2, <1>0
  <2> QED
    BY <2>1, <2>2, GotoFacts, FinishFacts DEF RowFollowsRun
<1>5. CASE AcquireRefreshLock(t)
  <2>1. run[t].pc = "lock" /\ row' = row /\ Goto(t, "start")
    BY <1>5 DEF AcquireRefreshLock
  <2> QED
    BY <2>1, GotoFacts, FinishFacts DEF RowFollowsRun
<1>6. CASE SkipDuplicate(t)
  <2>1. run[t].pc = "lock" /\ \E pc \in {"unsched", "ended"} : Goto(t, pc)
    BY <1>6 DEF SkipDuplicate, Return
  <2>2. row'[t].status \in {row[t].status, "deleted"} /\ RowFrame
    <3>1. PICK db \in BOOLEAN, sent \in BOOLEAN :
             row' = [row EXCEPT ![t] = Publish(Delete(t, db), "failed", sent)]
      BY <1>6, OutcomeTypes DEF SkipDuplicate
    <3>2. Publish(Delete(t, db), "failed", sent).status
            \in {row[t].status, "deleted"}
      BY RowWrites, Literals
    <3> QED
      BY <3>1, <3>2, <1>0
  <2> QED
    BY <2>1, <2>2, GotoFacts, FinishFacts DEF RowFollowsRun
<1>7. CASE StartRunning(t)
  <2>1. run[t].pc = "start" /\ Goto(t, "work")
    BY <1>7 DEF StartRunning
  <2>2. row'[t].status \in {row[t].status, "running"} /\ RowFrame
    <3>1. PICK db \in BOOLEAN, redis \in BOOLEAN, sent \in BOOLEAN :
             row' = [row EXCEPT ![t] =
                       Publish(Update(t, "running", db, redis), "open", sent)]
      BY <1>7, OutcomeTypes DEF StartRunning
    <3>2. Publish(Update(t, "running", db, redis), "open", sent).status
            \in {row[t].status, "running"}
      BY RowWrites, Literals
    <3> QED
      BY <3>1, <3>2, <1>0
  <2> QED
    BY <2>1, <2>2, GotoFacts, FinishFacts DEF RowFollowsRun
<1>8. CASE WorkPart(t) \/ Join(t)
  <2>1. /\ run[t].pc \in {"work", "sync"}
        /\ row' = row
        /\ \E o \in {"completed", "failed"} : Finish(t, o)
    BY <1>8 DEF WorkPart, Join
  <2> QED
    BY <2>1, GotoFacts, FinishFacts DEF RowFollowsRun
<1>9. CASE WorkServer(t)
  <2>1. /\ run[t].pc = "work"
        /\ row' = row
        /\ Goto(t, "sync") \/ Finish(t, "failed")
    BY <1>9 DEF WorkServer
  <2> QED
    BY <2>1, GotoFacts, FinishFacts DEF RowFollowsRun
<1>10. CASE WorkFanOut(t)
  <2>1. run[t].pc = "work" /\ (Goto(t, "sync") \/ Finish(t, "failed"))
    BY <1>10 DEF WorkFanOut
  <2>2. row'[t].status \in {row[t].status, "running"} /\ RowFrame
    <3>1. CASE row' = row
      BY <3>1
    <3>2. CASE \E db \in BOOLEAN, redis \in BOOLEAN :
                  row' = [row EXCEPT ![t] = Update(t, "running", db, redis)]
      <4>1. PICK db \in BOOLEAN, redis \in BOOLEAN :
               row' = [row EXCEPT ![t] = Update(t, "running", db, redis)]
        BY <3>2
      <4>2. Update(t, "running", db, redis).status \in {row[t].status, "running"}
        BY RowWrites, Literals
      <4> QED
        BY <4>1, <4>2, <1>0
    <3> QED
      BY <1>10, <3>1, <3>2, OutcomeTypes DEF WorkFanOut
  <2> QED
    BY <2>1, <2>2, GotoFacts, FinishFacts DEF RowFollowsRun
<1>11. CASE FinishUpdate(t)
  <2>1. run[t].pc = "finish" /\ Goto(t, "announce")
    BY <1>11 DEF FinishUpdate
  <2>2. row'[t].status \in {row[t].status, run[t].outcome} /\ RowFrame
    <3>1. PICK db \in BOOLEAN, redis \in BOOLEAN :
             row' = [row EXCEPT ![t] = Update(t, run[t].outcome, db, redis)]
      BY <1>11, OutcomeTypes DEF FinishUpdate
    <3>2. run[t].outcome \in Statuses
      BY Literals DEF TypeOK
    <3> QED
      BY <3>1, <3>2, <1>0, RowWrites
  <2> QED
    BY <2>1, <2>2, GotoFacts, FinishFacts DEF RowFollowsRun
<1>12. CASE Announce(t)
  <2>1. run[t].pc = "announce" /\ Goto(t, "unlock")
    BY <1>12 DEF Announce
  <2>2. row'[t].status = row[t].status /\ RowFrame
    <3>1. PICK sent \in BOOLEAN :
             row' = [row EXCEPT ![t] = Publish(row[t],
                       IF run[t].outcome = "completed" THEN "success"
                       ELSE "failed", sent)]
      BY <1>12, OutcomeTypes DEF Announce
    <3>2. \A e : Publish(row[t], e, sent).status = row[t].status
      BY RowWrites, Literals
    <3> QED
      BY <3>1, <3>2, <1>0
  <2> QED
    BY <2>1, <2>2, GotoFacts
<1>13. CASE ReleaseRefreshLock(t) \/ ReleaseSchedLock(t)
  <2>1. row' = row /\ \E pc \in {"unsched", "ended"} : Goto(t, pc)
    BY <1>13 DEF ReleaseRefreshLock, ReleaseSchedLock, Return
  <2> QED
    BY <2>1, GotoFacts
<1> QED
  BY <1>1, <1>2, <1>3, <1>4, <1>5, <1>6, <1>7, <1>8, <1>9, <1>10, <1>11,
     <1>12, <1>13 DEF RunStep

\* The steps of the others: only the progress of a running fan-out writes a
\* row, and JoinWaits places it before the final status.
LEMMA RowOtherStep ==
    ASSUME TypeOK, JoinWaits, RowFollowsRun,
           \/ \E t \in Tasks, s \in Servers : AgentStep(t, s)
           \/ Environment \/ Expiry \/ Quiescent \/ UNCHANGED vars
    PROVE  /\ \A u \in Tasks :
                 \/ row'[u].status = row[u].status
                 \/ row[u].status = "queued" /\ row'[u].status = "running"
           /\ RowFollowsRun'
<1>1. ASSUME NEW t \in Tasks, NEW s \in Servers, AgentStep(t, s)
      PROVE  /\ \A u \in Tasks :
                   \/ row'[u].status = row[u].status
                   \/ row[u].status = "queued" /\ row'[u].status = "running"
             /\ RowFollowsRun'
  <2>1. run' = run /\ run[t].pc = "sync"
    BY <1>1, AgentFrame DEF JoinWaits
  <2>2. /\ row'[t].status \in {row[t].status, "running"}
        /\ \A u \in Tasks \ {t} : row'[u] = row[u]
    <3>1. CASE row' = row
      BY <3>1
    <3>2. CASE Progress(t)
      <4>1. PICK db \in BOOLEAN, redis \in BOOLEAN, sent \in BOOLEAN :
               row' = [row EXCEPT ![t] =
                         Publish(Update(t, "running", db, redis), "open", sent)]
        BY <3>2, OutcomeTypes DEF Progress
      <4>2. Publish(Update(t, "running", db, redis), "open", sent).status
              \in {row[t].status, "running"}
        BY RowWrites, Literals
      <4>3. DOMAIN row = Tasks /\ row = [u \in Tasks |-> row[u]]
        BY DEF TypeOK
      <4> QED
        BY <4>1, <4>2, <4>3
    <3> QED
      BY <1>1, <3>1, <3>2, AgentFrame
  <2>3. row[t].status \in {"queued", "running"}
    BY <2>1 DEF RowFollowsRun
  <2> QED
    BY <2>1, <2>2, <2>3 DEF RowFollowsRun
<1>2. ASSUME row' = row, \A u \in Tasks : run'[u].pc = "crashed" \/ run'[u] = run[u]
      PROVE  RowFollowsRun'
  BY <1>2 DEF RowFollowsRun
<1>3. ASSUME Environment
      PROVE  row' = row
             /\ \A u \in Tasks : run'[u].pc = "crashed" \/ run'[u] = run[u]
  BY <1>3 DEF Environment, DeleteServer, Crash, TypeOK
<1>4. ASSUME Expiry \/ Quiescent \/ UNCHANGED vars
      PROVE  row' = row /\ run' = run
  BY <1>4 DEF Expiry, ExpireRefreshLock, ExpireSchedLock, ExpireAgentLock,
              ExpireMark, Quiescent, vars
<1> QED
  BY <1>1, <1>2, <1>3, <1>4

\* Every step keeps the row of a task within what its run allows.
LEMMA RowStep ==
    ASSUME TypeOK, JoinWaits, RowFollowsRun, [Next]_vars
    PROVE  RowFollowsRun'
<1>1. ASSUME NEW t \in Tasks, Request(t) \/ RunStep(t) PROVE RowFollowsRun'
  BY <1>1, RowRunStep DEF RowFollowsRun
<1> QED
  BY <1>1, RowOtherStep DEF Next

\* The phase of a task's goroutine bounds the status of its row.
THEOREM RowInvariant == Spec => []RowFollowsRun
<1>1. Init => RowFollowsRun
  BY DEF Init, Start, RowFollowsRun
<1> QED
  BY <1>1, TypeCorrect, RunsEndBeforeTask, RowStep, PTL DEF Spec

\* A task's row only moves forward (UpdateRefreshTask, DeleteRefreshTask): no
\* progress write of SyncAll, duplicate or failed statement brings an ended
\* task back, for any number of Agents, tasks and instances.
THEOREM TasksMoveForward == Spec => TaskLifecycle
<1> DEFINE Forward ==
      \A t \in Tasks :
          \/ row'[t].status = row[t].status
          \/ <<row[t].status, row'[t].status>> \in
                {<<"none", "queued">>, <<"queued", "running">>,
                 <<"queued", "deleted">>, <<"queued", "completed">>,
                 <<"queued", "failed">>, <<"running", "completed">>,
                 <<"running", "failed">>}
<1>1. ASSUME TypeOK, JoinWaits, RowFollowsRun, [Next]_vars PROVE Forward
  <2>1. ASSUME NEW t \in Tasks, Request(t) \/ RunStep(t) PROVE Forward
    BY <1>1, <2>1, RowRunStep
  <2>2. ASSUME \/ \E t \in Tasks, s \in Servers : AgentStep(t, s)
               \/ Environment \/ Expiry \/ Quiescent \/ UNCHANGED vars
        PROVE  Forward
    BY <1>1, <2>2, RowOtherStep
  <2> HIDE DEF Forward
  <2> QED
    BY <1>1, <2>1, <2>2 DEF Next
<1>2. TypeOK /\ JoinWaits /\ RowFollowsRun /\ [Next]_vars => [Forward]_vars
  BY <1>1
<1> QED
  BY <1>2, TypeCorrect, RunsEndBeforeTask, RowInvariant, PTL
  DEF Spec, TaskLifecycle

-----------------------------------------------------------------------------
(***************************************************************************)
(* What a final event tells its reader, and that the tasks keep the        *)
(* promise of TaskService.                                                 *)
(***************************************************************************)
Waiting == {"idle", "create", "mark", "publish", "lock"}
Ended == {"unlock", "unsched", "ended", "crashed"}

-----------------------------------------------------------------------------
(***************************************************************************)
(* The inductive invariants.                                               *)
(***************************************************************************)

\* A final event of a task is published by the last write of its run, and what
\* it says can be read before it is published.
EventOf(t) ==
    /\ row[t].event # "open" => run[t].pc \in Ended
    /\ ~(RedisFails /\ DBFails) =>
          /\ run[t].pc = "announce" => Visible(t) = run[t].outcome
          /\ row[t].event = "success" => Visible(t) = "completed"
          /\ row[t].event = "failed" /\ ~DBFails => Visible(t) \in {"failed", "deleted"}

EventInv == \A t \in Tasks : EventOf(t)

\* A refresh lock is held by a task of that target that has begun, and that
\* is not a duplicate, even when the task has ended and its key has not.
HolderInv ==
    \A j \in Jobs : refreshLock[j] # NoToken =>
       \A u \in Tasks : refreshLock[j] = u =>
          /\ run[u].job = j
          /\ run[u].pc \notin Waiting
          /\ row[u].status # "deleted"

\* A run on an Agent has a result once it has collected, never before.
ResultInv ==
    \A t \in Tasks, s \in Servers :
       /\ step[t][s] \in {"none", "wait", "lock", "mark", "collect"}
             => result[t][s] = "none"
       /\ run[t].pc \in Waiting \cup {"start", "work"} => step[t][s] = "none"
       /\ run[t].job.kind = "server" /\ s # run[t].job.target => step[t][s] = "none"

\* The outcome that a run stores is the one its results deserve, and without
\* errors of PostgreSQL it is stored.
OutcomeInv ==
    \A t \in Tasks :
       /\ run[t].pc = "finish" =>
             \/ /\ run[t].outcome = "completed"
                /\ \A s \in Servers : result[t][s] # "failed"
             \/ /\ run[t].outcome = "failed"
                /\ \/ \E s \in Servers : result[t][s] = "failed"
                   \/ \A s \in Servers : result[t][s] # "completed"
       /\ run[t].pc \in {"announce", "unlock"} /\ ~DBFails
             => row[t].status \in {"completed", "failed"}

-----------------------------------------------------------------------------
(***************************************************************************)
(* The final event of a task.                                              *)
(***************************************************************************)
\* A task whose row, phase and outcome stay keeps what its event says; so does
\* one that moves on, or dies, with its row as it was.
LEMMA EventStays ==
    ASSUME TypeOK, NEW u \in Tasks, EventOf(u), row'[u] = row[u],
           \/ run'[u] = run[u]
           \/ /\ run[u].pc \notin Ended \/ run'[u].pc \in Ended
              /\ run'[u].pc # "announce"
    PROVE  EventOf(u)'
<1>1. Visible(u)' = Visible(u)
  BY DEF Visible
<1> QED
  BY <1>1 DEF EventOf

\* A row written before its run ends still has no final event.
LEMMA EventOpen ==
    ASSUME NEW u \in Tasks, row'[u].event = "open", run'[u].pc # "announce"
    PROVE  EventOf(u)'
  BY DEF EventOf

\* The step of a task itself.
LEMMA EventRunStep ==
    ASSUME TypeOK, RowFollowsRun, EventInv, NEW t \in Tasks, Request(t) \/ RunStep(t)
    PROVE  EventInv'
<1>0. /\ row \in [Tasks -> [status : Statuses, cache : Statuses, event : Events]]
      /\ EventOf(t)
  BY DEF TypeOK, EventInv
<1>a. SUFFICES EventOf(t)'
  <2>1. ASSUME NEW u \in Tasks \ {t} PROVE EventOf(u)'
    BY RowRunStep, EventStays DEF EventInv
  <2> QED
    BY <2>1 DEF EventInv
<1>b. run[t].pc \notin Ended => row[t].event = "open"
  BY <1>0 DEF EventOf
<1>1. CASE Request(t)
  <2>1. run[t].pc = "idle" /\ row' = row
    BY <1>1 DEF Request, RequestFanOut, RequestServerSync, RequestPart, ScheduledTick
  <2>2. run'[t].pc = "create"
    BY <1>1 DEF Request, RequestFanOut, RequestServerSync, RequestPart,
                ScheduledTick, Accept, TypeOK
  <2> QED
    BY <2>1, <2>2, <1>b, EventOpen DEF Ended
<1>2. CASE CreateTask(t)
  <2>1. /\ run[t].pc = "create"
        /\ row' = row \/ row' = [row EXCEPT ![t].status = "queued"]
        /\ \E pc \in {"mark", "publish", "ended"} : Goto(t, pc)
    BY <1>2 DEF CreateTask
  <2>2. row'[t].event = "open"
    BY <2>1, <1>0, <1>b DEF Ended
  <2> QED
    BY <2>1, <2>2, GotoFacts, EventOpen
<1>3. CASE MarkQueued(t) \/ AcquireRefreshLock(t)
  <2>1. /\ run[t].pc \in {"mark", "lock"} /\ row' = row
        /\ \E pc \in {"publish", "start"} : Goto(t, pc)
    BY <1>3 DEF MarkQueued, AcquireRefreshLock
  <2> QED
    BY <2>1, <1>b, GotoFacts, EventOpen DEF Ended
<1>4. CASE Spawn(t)
  <2>1. run[t].pc = "publish" /\ Goto(t, "lock")
    BY <1>4 DEF Spawn
  <2>2. row'[t].event = "open"
    BY <1>4, <2>1, <1>0, <1>b DEF Spawn, Publish, Ended
  <2> QED
    BY <2>1, <2>2, GotoFacts, EventOpen
<1>5. CASE SkipDuplicate(t)
  <2>1. run[t].pc = "lock" /\ \E pc \in {"unsched", "ended"} : Goto(t, pc)
    BY <1>5 DEF SkipDuplicate, Return
  <2>2. PICK db \in DBOutcomes, sent \in RedisOutcomes :
           row' = [row EXCEPT ![t] = Publish(Delete(t, db), "failed", sent)]
    BY <1>5 DEF SkipDuplicate
  <2>3. row'[t] = Publish(Delete(t, db), "failed", sent)
    BY <2>2, <1>0
  <2>4. /\ row'[t].event \in {"open", "failed"}
        /\ ~DBFails => row'[t].status = "deleted"
    <3>1. ~DBFails => db
      BY DEF DBOutcomes
    <3>2. row[t].event = "open"
      BY <2>1, <1>b DEF Ended
    <3> QED
      BY <2>3, <3>1, <3>2, <1>0 DEF Publish, Delete
  <2>5. ~DBFails => Visible(t)' = "deleted"
    BY <2>4 DEF Visible
  <2>6. run'[t].pc \in {"unsched", "ended"}
    BY <2>1, GotoFacts
  <2> QED
    BY <2>4, <2>5, <2>6 DEF EventOf, Ended
<1>6. CASE StartRunning(t)
  <2>1. run[t].pc = "start" /\ Goto(t, "work")
    BY <1>6 DEF StartRunning
  <2>2. row'[t].event = "open"
    BY <1>6, <2>1, <1>0, <1>b DEF StartRunning, Publish, Update, Ended
  <2> QED
    BY <2>1, <2>2, GotoFacts, EventOpen
<1>7. CASE WorkPart(t) \/ WorkServer(t) \/ Join(t)
  <2>1. /\ run[t].pc \in {"work", "sync"} /\ row' = row
        /\ Goto(t, "sync") \/ \E o : Finish(t, o)
    BY <1>7 DEF WorkPart, WorkServer, Join
  <2> QED
    BY <2>1, <1>b, GotoFacts, FinishFacts, EventOpen DEF Ended
<1>8. CASE WorkFanOut(t)
  <2>1. run[t].pc = "work" /\ (Goto(t, "sync") \/ Finish(t, "failed"))
    BY <1>8 DEF WorkFanOut
  <2>2. row'[t].event = "open"
    BY <1>8, <2>1, <1>0, <1>b DEF WorkFanOut, Update, Ended
  <2> QED
    BY <2>1, <2>2, GotoFacts, FinishFacts, EventOpen
<1>9. CASE FinishUpdate(t)
  <2>1. /\ run[t].pc = "finish" /\ Goto(t, "announce")
        /\ row[t].status \in {"queued", "running"}
        /\ run[t].outcome \in {"completed", "failed"}
    BY <1>9 DEF FinishUpdate, RowFollowsRun
  <2>2. PICK db \in DBOutcomes, redis \in RedisOutcomes :
           row' = [row EXCEPT ![t] = Update(t, run[t].outcome, db, redis)]
    BY <1>9 DEF FinishUpdate
  <2>3. row'[t] = Update(t, run[t].outcome, db, redis)
    BY <2>2, <1>0
  <2>4. /\ row'[t].event = "open"
        /\ row'[t].status = IF db THEN run[t].outcome ELSE row[t].status
        /\ redis => row'[t].cache = run[t].outcome
    BY <2>1, <2>3, <1>0, <1>b DEF Update, Ended
  <2>5. ~(RedisFails /\ DBFails) => db \/ redis
    BY DEF DBOutcomes, RedisOutcomes
  <2>6. ~(RedisFails /\ DBFails) => Visible(t)' = run[t].outcome
    BY <2>1, <2>4, <2>5 DEF Visible
  <2>7. run'[t].pc = "announce" /\ run'[t].outcome = run[t].outcome
    BY <2>1, GotoFacts
  <2> QED
    BY <2>4, <2>6, <2>7 DEF EventOf
<1>10. CASE Announce(t)
  <2>1. /\ run[t].pc = "announce" /\ Goto(t, "unlock")
        /\ run[t].outcome \in {"completed", "failed"}
    BY <1>10 DEF Announce, RowFollowsRun
  <2>2. PICK sent \in RedisOutcomes :
           row' = [row EXCEPT ![t] = Publish(row[t],
                     IF run[t].outcome = "completed" THEN "success" ELSE "failed", sent)]
    BY <1>10 DEF Announce
  <2>3. row'[t] = Publish(row[t],
                     IF run[t].outcome = "completed" THEN "success" ELSE "failed", sent)
    BY <2>2, <1>0
  <2>4. /\ row'[t].status = row[t].status /\ row'[t].cache = row[t].cache
        /\ row'[t].event \in
              {"open", IF run[t].outcome = "completed" THEN "success" ELSE "failed"}
    BY <2>1, <2>3, <1>0, <1>b DEF Publish, Ended
  <2>5. Visible(t)' = Visible(t)
    BY <2>4 DEF Visible
  <2>6. ~(RedisFails /\ DBFails) => Visible(t) = run[t].outcome
    BY <2>1, <1>0 DEF EventOf
  <2>7. run'[t].pc = "unlock"
    BY <2>1, GotoFacts
  <2> QED
    BY <2>1, <2>4, <2>5, <2>6, <2>7 DEF EventOf, Ended
<1>11. CASE ReleaseRefreshLock(t) \/ ReleaseSchedLock(t)
  <2>1. row' = row /\ \E pc \in {"unsched", "ended"} : Goto(t, pc)
    BY <1>11 DEF ReleaseRefreshLock, ReleaseSchedLock, Return
  <2> QED
    BY <2>1, <1>0, GotoFacts, EventStays DEF Ended
<1> QED
  BY <1>1, <1>2, <1>3, <1>4, <1>5, <1>6, <1>7, <1>8, <1>9, <1>10, <1>11 DEF RunStep

\* Every step: the progress of a fan-out writes rows that have no final event.
LEMMA EventStep ==
    ASSUME TypeOK, JoinWaits, RowFollowsRun, EventInv, [Next]_vars
    PROVE  EventInv'
<1>1. ASSUME NEW t \in Tasks, NEW s \in Servers, AgentStep(t, s) PROVE EventInv'
  <2>1. run' = run /\ run[t].pc = "sync"
    BY <1>1, AgentFrame DEF JoinWaits
  <2>2. row[t].event = "open"
    BY <2>1 DEF EventInv, EventOf, Ended
  <2>3. row'[t].event = "open" /\ \A u \in Tasks \ {t} : row'[u] = row[u]
    <3>1. row \in [Tasks -> [status : Statuses, cache : Statuses, event : Events]]
      BY DEF TypeOK
    <3>2. row' = row \/ Progress(t)
      BY <1>1, AgentFrame
    <3>3. CASE row' = row
      BY <2>2, <3>3
    <3>4. CASE Progress(t)
      <4>1. PICK db \in DBOutcomes, redis \in RedisOutcomes, sent \in RedisOutcomes :
               row' = [row EXCEPT ![t] = Publish(Update(t, "running", db, redis), "open", sent)]
        BY <3>4 DEF Progress
      <4>2. Publish(Update(t, "running", db, redis), "open", sent).event = "open"
        BY <2>2, <3>1 DEF Publish, Update
      <4> QED
        BY <3>1, <4>1, <4>2
    <3> QED
      BY <3>2, <3>3, <3>4
  <2>4. EventOf(t)'
    BY <2>1, <2>3, EventOpen
  <2>5. ASSUME NEW u \in Tasks \ {t} PROVE EventOf(u)'
    BY <2>1, <2>3, EventStays DEF EventInv
  <2> QED
    BY <2>4, <2>5 DEF EventInv
<1>2. ASSUME row' = row, \A u \in Tasks : run'[u].pc = "crashed" \/ run'[u] = run[u]
      PROVE  EventInv'
  BY <1>2, EventStays DEF EventInv, Ended
<1>3. ASSUME Environment
      PROVE  row' = row /\ \A u \in Tasks : run'[u].pc = "crashed" \/ run'[u] = run[u]
  BY <1>3 DEF Environment, DeleteServer, Crash, TypeOK
<1>4. ASSUME Expiry \/ Quiescent \/ UNCHANGED vars
      PROVE  row' = row /\ run' = run
  BY <1>4 DEF Expiry, ExpireRefreshLock, ExpireSchedLock, ExpireAgentLock,
              ExpireMark, Quiescent, vars
<1>5. ASSUME NEW t \in Tasks, Request(t) \/ RunStep(t) PROVE EventInv'
  BY <1>5, EventRunStep
<1> QED
  BY <1>1, <1>2, <1>3, <1>4, <1>5 DEF Next

\* Who reads the task list after a final event sees what the event said
\* (UpdateRefreshTask before PublishRefresh), whichever one of PostgreSQL and
\* Redis fails: the inductive invariant places the write of the row or of its
\* cache between the verdict and the event.
THEOREM EventsFollowState == Spec => []EventFollowsState
<1>1. Init => EventInv
  BY DEF Init, Start, EventInv, EventOf
<1>2. EventInv => EventFollowsState
  BY DEF EventInv, EventOf, EventFollowsState
<1> QED
  BY <1>1, <1>2, TypeCorrect, RunsEndBeforeTask, RowInvariant, EventStep, PTL DEF Spec

-----------------------------------------------------------------------------
(***************************************************************************)
(* Who holds a refresh lock.                                               *)
(***************************************************************************)
\* A task takes the lock of its target as it begins, and nothing it does later
\* makes it a duplicate.
LEMMA HolderRunStep ==
    ASSUME TypeOK, RowFollowsRun, HolderInv, NEW t \in Tasks, Request(t) \/ RunStep(t)
    PROVE  HolderInv'
<1>0. /\ row \in [Tasks -> [status : Statuses, cache : Statuses, event : Events]]
      /\ refreshLock \in [Jobs -> Tasks \cup {NoToken}]
      /\ \A u \in Tasks : run[u].job \in Jobs
  BY DEF TypeOK
<1>a. \A u \in Tasks \ {t} : row'[u] = row[u] /\ run'[u] = run[u]
  BY RowRunStep
<1>1. ASSUME \A j \in Jobs : refreshLock'[j] \in {refreshLock[j], NoToken},
             \/ run[t].pc \in Waiting
             \/ /\ run'[t].pc \notin Waiting /\ run'[t].job = run[t].job
                /\ row'[t].status # "deleted" \/ row'[t].status = row[t].status
      PROVE  HolderInv'
  <2>1. SUFFICES ASSUME NEW j \in Jobs, NEW u \in Tasks, refreshLock'[j] = u
                 PROVE  /\ run'[u].job = j
                        /\ run'[u].pc \notin Waiting
                        /\ row'[u].status # "deleted"
    BY DEF HolderInv
  <2>2. refreshLock[j] = u /\ u # NoToken
    BY <1>1, <2>1, TokenAssumption
  <2>3. run[u].job = j /\ run[u].pc \notin Waiting /\ row[u].status # "deleted"
    BY <2>2 DEF HolderInv
  <2> QED
    BY <1>1, <1>a, <2>3
<1>2. CASE Request(t)
  BY <1>1, <1>2 DEF Request, RequestFanOut, RequestServerSync, RequestPart,
                    ScheduledTick, Waiting, locks
<1>3. CASE CreateTask(t) \/ MarkQueued(t) \/ Spawn(t) \/ SkipDuplicate(t)
  BY <1>1, <1>3 DEF CreateTask, MarkQueued, Spawn, SkipDuplicate, Waiting, locks
<1>4. CASE AcquireRefreshLock(t)
  <2>1. /\ run[t].pc = "lock" /\ Goto(t, "start") /\ row' = row
        /\ \/ refreshLock' = refreshLock
           \/ refreshLock' = [refreshLock EXCEPT ![run[t].job] = t]
    BY <1>4 DEF AcquireRefreshLock, TryLock
  <2>2. CASE refreshLock' = refreshLock
    BY <1>1, <2>1, <2>2 DEF Waiting
  <2>3. CASE refreshLock' = [refreshLock EXCEPT ![run[t].job] = t]
    <3>1. /\ run'[t].pc = "start" /\ run'[t].job = run[t].job
          /\ row'[t].status = "queued"
      BY <2>1, GotoFacts DEF RowFollowsRun
    <3>2. SUFFICES ASSUME NEW j \in Jobs, NEW u \in Tasks, refreshLock'[j] = u
                   PROVE  /\ run'[u].job = j
                          /\ run'[u].pc \notin Waiting
                          /\ row'[u].status # "deleted"
      BY DEF HolderInv
    <3>3. CASE j = run[t].job
      BY <1>0, <2>3, <3>1, <3>2, <3>3 DEF Waiting
    <3>4. CASE j # run[t].job
      <4>1. refreshLock[j] = u /\ u # NoToken
        BY <1>0, <2>3, <3>2, <3>4, TokenAssumption
      <4>2. run[u].job = j /\ run[u].pc \notin Waiting /\ row[u].status # "deleted"
        BY <4>1 DEF HolderInv
      <4> QED
        BY <1>a, <2>1, <4>2 DEF Waiting
    <3> QED
      BY <3>3, <3>4
  <2> QED
    BY <2>1, <2>2, <2>3
<1>5. CASE StartRunning(t) \/ WorkPart(t) \/ WorkServer(t) \/ WorkFanOut(t) \/ Join(t)
  <2>1. /\ refreshLock' = refreshLock
        /\ (\E pc \in {"work", "sync"} : Goto(t, pc)) \/ \E o : Finish(t, o)
    BY <1>5 DEF StartRunning, WorkPart, WorkServer, WorkFanOut, Join, locks
  <2>2. run'[t].pc \in {"work", "sync", "finish"} /\ run'[t].job = run[t].job
    BY <2>1, GotoFacts, FinishFacts
  <2>3. row'[t].status \in {"queued", "running"}
    BY <2>2, RowRunStep
  <2> QED
    BY <1>1, <2>1, <2>2, <2>3 DEF Waiting
<1>6. CASE FinishUpdate(t)
  <2>1. /\ refreshLock' = refreshLock /\ Goto(t, "announce")
        /\ run[t].outcome \in {"completed", "failed"}
    BY <1>6 DEF FinishUpdate, RowFollowsRun, locks
  <2>2. row'[t].status \in {row[t].status, run[t].outcome}
    <3>1. PICK db \in BOOLEAN, redis \in BOOLEAN :
             row' = [row EXCEPT ![t] = Update(t, run[t].outcome, db, redis)]
      BY <1>6, OutcomeTypes DEF FinishUpdate
    <3>2. run[t].outcome \in Statuses
      BY <2>1, Literals
    <3> QED
      BY <3>1, <3>2, <1>0, RowWrites
  <2> QED
    BY <1>1, <2>1, <2>2, GotoFacts DEF Waiting
<1>7. CASE Announce(t)
  <2>1. refreshLock' = refreshLock /\ Goto(t, "unlock")
    BY <1>7 DEF Announce, locks
  <2>2. row'[t].status = row[t].status
    <3>1. PICK sent \in BOOLEAN : row' = [row EXCEPT ![t] = Publish(row[t],
             IF run[t].outcome = "completed" THEN "success" ELSE "failed", sent)]
      BY <1>7, OutcomeTypes DEF Announce
    <3>2. \A e : Publish(row[t], e, sent).status = row[t].status
      BY RowWrites, Literals
    <3> QED
      BY <3>1, <3>2, <1>0
  <2> QED
    BY <1>1, <2>1, <2>2, GotoFacts DEF Waiting
<1>8. CASE ReleaseRefreshLock(t) \/ ReleaseSchedLock(t)
  <2>1. /\ row' = row
        /\ \A j \in Jobs : refreshLock'[j] \in {refreshLock[j], NoToken}
        /\ \E pc \in {"unsched", "ended"} : Goto(t, pc)
    BY <1>8, <1>0 DEF ReleaseRefreshLock, ReleaseSchedLock, Return, Unlock
  <2> QED
    BY <1>1, <2>1, GotoFacts DEF Waiting
<1> QED
  BY <1>2, <1>3, <1>4, <1>5, <1>6, <1>7, <1>8 DEF RunStep

\* Every step keeps the holder of a refresh lock a task that has begun.
LEMMA HolderStep ==
    ASSUME TypeOK, JoinWaits, RowFollowsRun, HolderInv, [Next]_vars
    PROVE  HolderInv'
<1>1. ASSUME \A j \in Jobs : refreshLock'[j] \in {refreshLock[j], NoToken},
             \A u \in Tasks : /\ run'[u].job = run[u].job
                              /\ run'[u].pc = "crashed" \/ run'[u].pc = run[u].pc
                              /\ \/ row'[u].status = row[u].status
                                 \/ row'[u].status = "running"
      PROVE  HolderInv'
  <2>1. SUFFICES ASSUME NEW j \in Jobs, NEW u \in Tasks, refreshLock'[j] = u
                 PROVE  /\ run'[u].job = j
                        /\ run'[u].pc \notin Waiting
                        /\ row'[u].status # "deleted"
    BY DEF HolderInv
  <2>2. refreshLock[j] = u /\ u # NoToken
    BY <1>1, <2>1, TokenAssumption
  <2>3. run[u].job = j /\ run[u].pc \notin Waiting /\ row[u].status # "deleted"
    BY <2>2 DEF HolderInv
  <2> QED
    BY <1>1, <2>3 DEF Waiting
<1>2. ASSUME NEW t \in Tasks, NEW s \in Servers, AgentStep(t, s) PROVE HolderInv'
  BY <1>1, <1>2, AgentFrame, RowOtherStep
<1>3. CASE Environment
  <2>1. row' = row /\ refreshLock' = refreshLock
    BY <1>3, CrashFrame DEF Environment, DeleteServer, locks
  <2>2. \A u \in Tasks : /\ run'[u].job = run[u].job
                         /\ run'[u].pc = "crashed" \/ run'[u].pc = run[u].pc
    <3>1. ASSUME NEW i \in Instances, Crash(i), NEW u \in Tasks
          PROVE  /\ run'[u].job = run[u].job
                 /\ run'[u].pc = "crashed" \/ run'[u].pc = run[u].pc
      <4>1. run[u] \in [pc : PCs, job : Jobs, sched : BOOLEAN, inst : Instances,
                        outcome : Outcomes]
        BY DEF TypeOK
      <4>2. run'[u] = [run[u] EXCEPT !.pc = "crashed"] \/ run'[u] = run[u]
        BY <3>1, CrashFrame
      <4> QED
        BY <4>1, <4>2
    <3>2. CASE \E s \in Servers : DeleteServer(s)
      BY <3>2 DEF DeleteServer
    <3> QED
      BY <1>3, <3>1, <3>2 DEF Environment
  <2> QED
    BY <1>1, <2>1, <2>2
<1>4. CASE Expiry \/ Quiescent \/ UNCHANGED vars
  <2>1. row' = row /\ run' = run
    BY <1>4 DEF Expiry, ExpireRefreshLock, ExpireSchedLock, ExpireAgentLock,
                ExpireMark, Quiescent, vars
  <2>2. \A j \in Jobs : refreshLock'[j] \in {refreshLock[j], NoToken}
    BY <1>4 DEF TypeOK, Expiry, ExpireRefreshLock, ExpireSchedLock, ExpireAgentLock,
                ExpireMark, Expire, Quiescent, vars, locks
  <2> QED
    BY <1>1, <2>1, <2>2
<1> QED
  BY <1>2, <1>3, <1>4, HolderRunStep DEF Next

-----------------------------------------------------------------------------
(***************************************************************************)
(* Results and outcomes.                                                   *)
(***************************************************************************)
\* The results of a task while nothing runs on any Agent.
LEMMA ResultRunStep ==
    ASSUME TypeOK, JoinWaits, ResultInv, NEW t \in Tasks, Request(t) \/ RunStep(t)
    PROVE  ResultInv' /\ result' = result
<1>1. result' = result
  BY DEF Request, RequestFanOut, RequestServerSync, RequestPart, ScheduledTick,
         RunStep, CreateTask, MarkQueued, Spawn, AcquireRefreshLock, SkipDuplicate,
         StartRunning, WorkPart, WorkServer, WorkFanOut, Join, FinishUpdate,
         Announce, ReleaseRefreshLock, ReleaseSchedLock, agent
<1>a. \A u \in Tasks \ {t} : run'[u] = run[u] /\ step'[u] = step[u]
  BY RunFrame
<1>2. ASSUME step'[t] = step[t],
             \/ run'[t].job = run[t].job
             \/ \A s \in Servers : step[t][s] = "none",
             run'[t].pc \in Waiting \cup {"start", "work"}
                => run[t].pc \in Waiting \cup {"start", "work"}
      PROVE  ResultInv'
  BY <1>1, <1>2, <1>a DEF ResultInv
<1>3. CASE Request(t)
  <2>1. run[t].pc = "idle" /\ step' = step
    BY <1>3 DEF Request, RequestFanOut, RequestServerSync, RequestPart,
                ScheduledTick, agent
  <2>2. \A s \in Servers : step[t][s] = "none"
    BY <2>1 DEF ResultInv, Waiting
  <2> QED
    BY <1>1, <1>2, <2>1, <2>2 DEF Waiting
<1>4. CASE CreateTask(t) \/ MarkQueued(t) \/ Spawn(t) \/ AcquireRefreshLock(t)
           \/ SkipDuplicate(t) \/ StartRunning(t)
  <2>1. /\ run[t].pc \in Waiting \cup {"start"} /\ step' = step
        /\ \E pc : Goto(t, pc)
    BY <1>4 DEF CreateTask, MarkQueued, Spawn, AcquireRefreshLock, SkipDuplicate,
                StartRunning, Waiting, agent
  <2> QED
    BY <1>1, <1>2, <2>1, GotoFacts
<1>5. CASE WorkPart(t) \/ Join(t) \/ FinishUpdate(t) \/ Announce(t)
           \/ ReleaseRefreshLock(t) \/ ReleaseSchedLock(t)
  <2>1. /\ step' = step
        /\ \/ \E pc \in {"announce", "unlock", "unsched", "ended"} : Goto(t, pc)
           \/ \E o : Finish(t, o)
    BY <1>5 DEF WorkPart, Join, FinishUpdate, Announce, ReleaseRefreshLock,
                ReleaseSchedLock, Return, agent
  <2> QED
    BY <1>1, <1>2, <2>1, GotoFacts, FinishFacts DEF Waiting
<1>6. CASE WorkServer(t) \/ WorkFanOut(t)
  <2>1. /\ run[t].pc = "work"
        /\ Goto(t, "sync") \/ Finish(t, "failed")
    BY <1>6 DEF WorkServer, WorkFanOut
  <2>2. /\ run'[t].pc \in {"sync", "finish"} /\ run'[t].job = run[t].job
    BY <2>1, GotoFacts, FinishFacts
  <2>3. \A s \in Servers : step[t][s] = "none" /\ result[t][s] = "none"
    BY <2>1 DEF ResultInv
  <2>4. \A s \in Servers :
           /\ step'[t][s] \in {"none", "wait", "lock"}
           /\ run[t].job.kind = "server" /\ s # run[t].job.target => step'[t][s] = "none"
    <3>1. CASE WorkServer(t)
      BY <3>1, <2>3 DEF WorkServer, Step, TypeOK
    <3>2. CASE WorkFanOut(t)
      <4>1. run[t].job.kind # "server"
        BY <3>2 DEF WorkFanOut, FanOutJobs, FanOutKinds, Job
      <4> QED
        BY <4>1, <2>3, RunFrame
    <3> QED
      BY <1>6, <3>1, <3>2
  <2> QED
    BY <1>1, <1>a, <2>2, <2>3, <2>4 DEF ResultInv, Waiting
<1> QED
  BY <1>1, <1>3, <1>4, <1>5, <1>6 DEF RunStep

\* What a death does to the results of a task: all of them are lost, or none.
LEMMA CrashResults ==
    ASSUME TypeOK, NEW i \in Instances, Crash(i), NEW u \in Tasks
    PROVE  \/ /\ run[u].inst = i /\ Live(u)
              /\ run'[u] = [run[u] EXCEPT !.pc = "crashed"]
              /\ run'[u].pc = "crashed" /\ run'[u].job = run[u].job
              /\ run'[u].outcome = run[u].outcome
              /\ \A s \in Servers : step'[u][s] = "none" /\ result'[u][s] = "none"
           \/ /\ ~(run[u].inst = i /\ Live(u))
              /\ run'[u] = run[u] /\ step'[u] = step[u] /\ result'[u] = result[u]
<1>1. run[u] \in [pc : PCs, job : Jobs, sched : BOOLEAN, inst : Instances,
                  outcome : Outcomes]
  BY DEF TypeOK
<1>2. CASE run[u].inst = i /\ Live(u)
  <2>1. /\ run'[u] = [run[u] EXCEPT !.pc = "crashed"]
        /\ step'[u] = [s \in Servers |-> "none"]
        /\ result'[u] = [s \in Servers |-> "none"]
    BY <1>2 DEF Crash
  <2> QED
    BY <1>1, <1>2, <2>1
<1>3. CASE ~(run[u].inst = i /\ Live(u))
  BY <1>3 DEF Crash
<1> QED
  BY <1>2, <1>3

\* A step of a run on an Agent writes only its own result.
LEMMA ResultAgentStep ==
    ASSUME TypeOK, JoinWaits, ResultInv, NEW t \in Tasks, NEW s \in Servers,
           AgentStep(t, s)
    PROVE  ResultInv'
<1>1. /\ run' = run /\ run[t].pc = "sync"
      /\ step[t][s] \notin {"none", "done"}
      /\ \A u \in Tasks, v \in Servers :
            u # t \/ v # s => step'[u][v] = step[u][v]
  <2>1. step' = [step EXCEPT ![t][s] = step'[t][s]]
    BY AgentFrame, Zenon
  <2>2. /\ run' = run /\ run[t].pc = "sync" /\ step[t][s] \notin {"none", "done"}
    BY AgentFrame DEF JoinWaits
  <2> QED
    BY <2>1, <2>2 DEF TypeOK
<1>2. \A u \in Tasks, v \in Servers :
         u # t \/ v # s => result'[u][v] = result[u][v]
  BY DEF TypeOK, AgentStep, AcquireSlot, AcquireAgentLock, AgentBusy, MarkRunning,
         Collect, ClearRunning, ReleaseAgentLock, Report
<1>3. /\ step'[t][s] # "none"
      /\ step'[t][s] \in {"wait", "lock", "mark", "collect"}
            => /\ result'[t][s] = result[t][s]
               /\ step[t][s] \in {"wait", "lock", "mark"}
  BY DEF TypeOK, AgentStep, AcquireSlot, AcquireAgentLock, AgentBusy, MarkRunning,
         Collect, ClearRunning, ReleaseAgentLock, Report, AfterSync, At, Step
<1> QED
  BY <1>1, <1>2, <1>3 DEF ResultInv, Waiting

\* Every step keeps results and steps together.
LEMMA ResultStep ==
    ASSUME TypeOK, JoinWaits, ResultInv, [Next]_vars
    PROVE  ResultInv'
<1>1. ASSUME NEW i \in Instances, Crash(i) PROVE ResultInv'
  <2>1. SUFFICES ASSUME NEW u \in Tasks, NEW s \in Servers
                 PROVE  /\ step'[u][s] \in {"none", "wait", "lock", "mark", "collect"}
                              => result'[u][s] = "none"
                        /\ run'[u].pc \in Waiting \cup {"start", "work"}
                              => step'[u][s] = "none"
                        /\ run'[u].job.kind = "server" /\ s # run'[u].job.target
                              => step'[u][s] = "none"
    BY DEF ResultInv
  <2>2. \/ step'[u][s] = "none" /\ result'[u][s] = "none"
        \/ run'[u] = run[u] /\ step'[u] = step[u] /\ result'[u] = result[u]
    BY <1>1, CrashResults
  <2> QED
    BY <2>2 DEF ResultInv
<1>2. ASSUME UNCHANGED <<run, step, result>> PROVE ResultInv'
  BY <1>2 DEF ResultInv
<1>3. ASSUME \/ \E s \in Servers : DeleteServer(s)
             \/ Expiry \/ Quiescent \/ UNCHANGED vars
      PROVE  UNCHANGED <<run, step, result>>
  BY <1>3 DEF DeleteServer, Expiry, ExpireRefreshLock, ExpireSchedLock,
              ExpireAgentLock, ExpireMark, Quiescent, vars, agent
<1> QED
  BY <1>1, <1>2, <1>3, ResultRunStep, ResultAgentStep DEF Next, Environment

\* The outcome of a run is decided by WorkPart, by an error, or by Join; it is
\* stored before the run releases its lock.
LEMMA OutcomeRunStep ==
    ASSUME TypeOK, JoinWaits, RowFollowsRun, ResultInv, OutcomeInv,
           NEW t \in Tasks, Request(t) \/ RunStep(t)
    PROVE  OutcomeInv'
<1>0. row \in [Tasks -> [status : Statuses, cache : Statuses, event : Events]]
  BY DEF TypeOK
<1>a. /\ result' = result
      /\ \A u \in Tasks \ {t} : row'[u] = row[u] /\ run'[u] = run[u]
  BY ResultRunStep, RowRunStep
<1>1. ASSUME run'[t].pc \notin {"finish", "announce", "unlock"} PROVE OutcomeInv'
  BY <1>1, <1>a DEF OutcomeInv
<1>2. ASSUME NEW o, Finish(t, o),
             \/ /\ o = "completed"
                /\ \A s \in Servers : result[t][s] # "failed"
             \/ /\ o = "failed"
                /\ \/ \E s \in Servers : result[t][s] = "failed"
                   \/ \A s \in Servers : result[t][s] # "completed"
      PROVE  OutcomeInv'
  BY <1>2, <1>a, FinishFacts DEF OutcomeInv
<1>3. CASE Request(t)
  <2>1. run'[t].pc = "create"
    BY <1>3 DEF Request, RequestFanOut, RequestServerSync, RequestPart,
                ScheduledTick, Accept, TypeOK
  <2> QED
    BY <1>1, <2>1
<1>4. CASE CreateTask(t) \/ MarkQueued(t) \/ Spawn(t) \/ AcquireRefreshLock(t)
           \/ SkipDuplicate(t) \/ StartRunning(t) \/ ReleaseRefreshLock(t)
           \/ ReleaseSchedLock(t)
  <2>1. \E pc \in {"mark", "publish", "ended", "lock", "start", "unsched", "work"} :
           Goto(t, pc)
    BY <1>4 DEF CreateTask, MarkQueued, Spawn, AcquireRefreshLock, SkipDuplicate,
                StartRunning, ReleaseRefreshLock, ReleaseSchedLock, Return
  <2> QED
    BY <1>1, <2>1, GotoFacts
<1>5. CASE WorkPart(t) \/ WorkServer(t) \/ WorkFanOut(t)
  <2>1. /\ run[t].pc = "work"
        /\ Goto(t, "sync") \/ \E o \in {"completed", "failed"} : Finish(t, o)
    BY <1>5 DEF WorkPart, WorkServer, WorkFanOut
  <2>2. \A s \in Servers : result[t][s] = "none"
    BY <2>1 DEF ResultInv
  <2> QED
    BY <1>1, <1>2, <2>1, <2>2, GotoFacts
<1>6. CASE Join(t)
  <2> DEFINE bad == IF run[t].job.kind = "server" THEN {"failed", "skipped"}
                    ELSE {"failed"}
  <2>1. Finish(t, IF \E s \in Servers : result[t][s] \in bad
                  THEN "failed" ELSE "completed")
    BY <1>6 DEF Join
  <2>2. CASE \A s \in Servers : result[t][s] \notin bad
    BY <1>2, <2>1, <2>2
  <2>3. ASSUME NEW s \in Servers, result[t][s] \in bad PROVE OutcomeInv'
    <3>1. Finish(t, "failed")
      BY <2>1, <2>3
    <3>2. CASE result[t][s] = "failed"
      BY <1>2, <3>1, <3>2
    <3>3. CASE result[t][s] = "skipped" /\ run[t].job.kind = "server"
      <4>1. \A v \in Servers : v # run[t].job.target => result[t][v] = "none"
        BY <3>3 DEF ResultInv
      <4>2. \A v \in Servers : result[t][v] # "completed"
        BY <3>3, <4>1
      <4> QED
        BY <1>2, <3>1, <4>2
    <3> QED
      BY <2>3, <3>2, <3>3
  <2> QED
    BY <2>2, <2>3
<1>7. CASE FinishUpdate(t)
  <2>1. /\ Goto(t, "announce")
        /\ run[t].outcome \in {"completed", "failed"}
        /\ row[t].status \in {"queued", "running"}
    BY <1>7 DEF FinishUpdate, RowFollowsRun
  <2>2. ~DBFails => row'[t].status = run[t].outcome
    BY <1>7, <1>0, <2>1 DEF FinishUpdate, Update, DBOutcomes
  <2> QED
    BY <1>a, <2>1, <2>2, GotoFacts DEF OutcomeInv
<1>8. CASE Announce(t)
  <2>1. run[t].pc = "announce" /\ Goto(t, "unlock")
    BY <1>8 DEF Announce
  <2>2. row'[t].status = row[t].status
    BY <1>8, <1>0 DEF Announce, Publish
  <2> QED
    BY <1>a, <2>1, <2>2, GotoFacts DEF OutcomeInv
<1> QED
  BY <1>3, <1>4, <1>5, <1>6, <1>7, <1>8 DEF RunStep

\* Every step keeps outcomes deserved.
LEMMA OutcomeStep ==
    ASSUME TypeOK, JoinWaits, RowFollowsRun, ResultInv, OutcomeInv, [Next]_vars
    PROVE  OutcomeInv'
<1>1. ASSUME NEW i \in Instances, Crash(i) PROVE OutcomeInv'
  <2>1. row' = row
    BY <1>1, CrashFrame
  <2>2. ASSUME NEW t \in Tasks
        PROVE  \/ run'[t].pc = "crashed"
               \/ run'[t] = run[t] /\ result'[t] = result[t]
    BY <1>1, CrashResults
  <2> QED
    BY <2>1, <2>2 DEF OutcomeInv
<1>2. ASSUME UNCHANGED <<run, row, result>> PROVE OutcomeInv'
  BY <1>2 DEF OutcomeInv
<1>3. ASSUME \/ \E s \in Servers : DeleteServer(s)
             \/ Expiry \/ Quiescent \/ UNCHANGED vars
      PROVE  UNCHANGED <<run, row, result>>
  BY <1>3 DEF DeleteServer, Expiry, ExpireRefreshLock, ExpireSchedLock,
              ExpireAgentLock, ExpireMark, Quiescent, vars, agent
<1>4. ASSUME NEW t \in Tasks, NEW s \in Servers, AgentStep(t, s) PROVE OutcomeInv'
  <2>1. run' = run /\ run[t].pc = "sync"
    BY <1>4, AgentFrame DEF JoinWaits
  <2>2. \A u \in Tasks : u # t => result'[u] = result[u]
    BY <1>4 DEF TypeOK, AgentStep, AcquireSlot, AcquireAgentLock, AgentBusy,
                MarkRunning, Collect, ClearRunning, ReleaseAgentLock, Report
  <2>3. \A u \in Tasks : \/ row'[u].status = row[u].status
                         \/ row[u].status = "queued"
    BY <1>4, RowOtherStep
  <2> QED
    BY <2>1, <2>2, <2>3 DEF OutcomeInv
<1> QED
  BY <1>1, <1>2, <1>3, <1>4, OutcomeRunStep DEF Next, Environment

-----------------------------------------------------------------------------
(***************************************************************************)
(* The promise of TaskService.                                             *)
(***************************************************************************)
\* How TaskService sees one task.
Target(u) == IF run[u].pc = "idle" THEN NoToken ELSE run[u].job
Collecting(u) == {s \in Servers : step[u][s] = "collect"}
Succeeded(u) == {s \in Servers : result[u][s] = "completed"}
Failed(u) == {s \in Servers : result[u][s] = "failed"}

\* TaskService sees nothing of what happens to u.
Unseen(u) ==
    /\ Target(u)' = Target(u) /\ Phase(u)' = Phase(u) /\ Verdict(u)' = Verdict(u)
    /\ Collecting(u)' = Collecting(u)
    /\ Succeeded(u)' = Succeeded(u) /\ Failed(u)' = Failed(u)

\* Of what happens to u, TaskService sees nothing but its phase and its verdict.
Uncollected(u) ==
    /\ Target(u)' = Target(u)
    /\ Collecting(u)' = Collecting(u)
    /\ Succeeded(u)' = Succeeded(u) /\ Failed(u)' = Failed(u)

\* A step of which TaskService sees nothing is a stutter.
LEMMA Stutters ==
    ASSUME \A u \in Tasks : Unseen(u)
    PROVE  UNCHANGED Service!serviceVars
  BY DEF Unseen, Target, Collecting, Succeeded, Failed, Service!serviceVars

\* A task that turns from one phase to the next, and nothing else to see.
LEMMA Turns ==
    ASSUME NEW t \in Tasks, NEW from, NEW to, Phase(t) = from, Phase(t)' = to,
           \A u \in Tasks \ {t} : Unseen(u), Uncollected(t)
    PROVE  /\ Service!Turn(t, from, to)
           /\ UNCHANGED <<[u \in Tasks |-> Target(u)], Service!agents>>
           /\ Verdict(t)' = Verdict(t) => UNCHANGED [u \in Tasks |-> Verdict(u)]
<1>1. Service!Turn(t, from, to)
  <2>1. \A u \in Tasks \ {t} : Phase(u)' = Phase(u)
    BY DEF Unseen
  <2> QED
    BY <2>1 DEF Service!Turn
<1>2. UNCHANGED <<[u \in Tasks |-> Target(u)], Service!agents>>
  BY DEF Unseen, Uncollected, Collecting, Succeeded, Failed, Service!agents
<1>3. Verdict(t)' = Verdict(t) => UNCHANGED [u \in Tasks |-> Verdict(u)]
  BY DEF Unseen
<1> QED
  BY <1>1, <1>2, <1>3

\* All that the steps of AgentSync rely on.
ServiceInv ==
    /\ TypeOK /\ JoinWaits /\ LockOwnership /\ MarkOwnership /\ TargetOwnership
    /\ RowFollowsRun /\ HolderInv /\ ResultInv /\ OutcomeInv

\* A phase is that of the goroutine's place.
LEMMA Phases ==
    ASSUME NEW u \in Tasks
    PROVE  /\ run[u].pc = "idle" => Phase(u) = "none"
           /\ run[u].pc = "create" => Phase(u) = "asked"
           /\ run[u].pc \in {"mark", "publish", "lock"} => Phase(u) = "queued"
           /\ run[u].pc \in {"start", "work", "sync", "finish", "announce", "unlock"}
                 => Phase(u) = "active"
           /\ run[u].pc \in {"unsched", "ended", "crashed"} => Phase(u) = "over"
  BY DEF Phase

\* The verdict is what the row says in the end.
LEMMA Verdicts ==
    ASSUME NEW u \in Tasks
    PROVE  /\ row[u].status \in {"completed", "failed"} => Verdict(u) = row[u].status
           /\ row[u].status = "deleted" <=> Verdict(u) = "dropped"
           /\ row[u].status \in {"none", "queued", "running"} => Verdict(u) = "none"
  BY DEF Verdict

\* The primed forms of both, for the state after a step.
LEMMA NextPhases ==
    ASSUME NEW u \in Tasks
    PROVE  /\ run'[u].pc = "idle" => Phase(u)' = "none"
           /\ run'[u].pc = "create" => Phase(u)' = "asked"
           /\ run'[u].pc \in {"mark", "publish", "lock"} => Phase(u)' = "queued"
           /\ run'[u].pc \in {"start", "work", "sync", "finish", "announce", "unlock"}
                 => Phase(u)' = "active"
           /\ run'[u].pc \in {"unsched", "ended", "crashed"} => Phase(u)' = "over"
           /\ row'[u].status \in {"completed", "failed"} => Verdict(u)' = row'[u].status
           /\ row'[u].status = "deleted" => Verdict(u)' = "dropped"
           /\ row'[u].status \in {"none", "queued", "running"} => Verdict(u)' = "none"
           /\ row'[u].status = row[u].status => Verdict(u)' = Verdict(u)
  BY DEF Phase, Verdict

\* The step of a task shows nothing of the other tasks, and of its own at most
\* its target, its phase and its verdict.
LEMMA RunShows ==
    ASSUME ServiceInv, NEW t \in Tasks, Request(t) \/ RunStep(t)
    PROVE  /\ \A u \in Tasks \ {t} : Unseen(u)
           /\ Collecting(t)' = Collecting(t)
           /\ Succeeded(t)' = Succeeded(t) /\ Failed(t)' = Failed(t)
<1> USE DEF ServiceInv
<1>1. /\ result' = result
      /\ \A u \in Tasks \ {t} : run'[u] = run[u] /\ row'[u] = row[u] /\ step'[u] = step[u]
  BY ResultRunStep, RowRunStep, RunFrame
<1>2. \A u \in Tasks \ {t} : Unseen(u)
  BY <1>1 DEF Unseen, Target, Phase, Verdict, Collecting, Succeeded, Failed
<1>3. \A s \in Servers : step'[t][s] = "collect" <=> step[t][s] = "collect"
  <2>1. \A s \in Servers : \/ step'[t][s] = step[t][s]
                           \/ step'[t][s] \in {"none", "wait", "lock"}
    BY RunFrame
  <2>2. run[t].pc # "sync" \/ step' = step
    BY RunFrame
  <2> QED
    BY <2>1, <2>2 DEF JoinWaits
<1> QED
  BY <1>1, <1>2, <1>3 DEF Collecting, Succeeded, Failed

\* A step of a task that keeps its phase and its verdict shows nothing at all.
LEMMA RunStutters ==
    ASSUME ServiceInv, NEW t \in Tasks, RunStep(t),
           run'[t].job = run[t].job, run[t].pc # "idle", run'[t].pc # "idle",
           Phase(t)' = Phase(t), Verdict(t)' = Verdict(t)
    PROVE  UNCHANGED Service!serviceVars
<1>1. Target(t)' = Target(t)
  BY DEF Target
<1>2. Unseen(t)
  BY <1>1, RunShows DEF Unseen
<1> QED
  BY <1>2, RunShows, Stutters

\* A step of a task that turns to another phase.
LEMMA RunTurns ==
    ASSUME ServiceInv, NEW t \in Tasks, RunStep(t),
           run'[t].job = run[t].job, run[t].pc # "idle", run'[t].pc # "idle",
           NEW from, NEW to, Phase(t) = from, Phase(t)' = to
    PROVE  /\ Service!Turn(t, from, to)
           /\ UNCHANGED <<[u \in Tasks |-> Target(u)], Service!agents>>
           /\ Verdict(t)' = Verdict(t) => UNCHANGED [u \in Tasks |-> Verdict(u)]
<1>1. Target(t)' = Target(t)
  BY DEF Target
<1>2. Uncollected(t)
  BY <1>1, RunShows DEF Uncollected
<1> QED
  BY <1>2, RunShows, Turns

\* A request or a timer asks for a task.
LEMMA RequestAsks ==
    ASSUME ServiceInv, NEW t \in Tasks, Request(t)
    PROVE  Service!Ask(t)
<1> USE DEF ServiceInv
<1>1. /\ run[t].pc = "idle" /\ row' = row
      /\ run'[t].pc = "create"
  BY DEF Request, RequestFanOut, RequestServerSync, RequestPart, ScheduledTick, Accept,
         TypeOK
<1>2. Phase(t) = "none" /\ Phase(t)' = "asked" /\ Verdict(t)' = Verdict(t)
  BY <1>1, Phases, NextPhases
<1>3. \A u \in Tasks \ {t} : Unseen(u)
  BY RunShows
<1>4. Service!Turn(t, "none", "asked")
  BY <1>2, <1>3 DEF Service!Turn, Unseen
<1>5. \E g \in Jobs : Target(t)' = g
  <2>1. run'[t].job \in Jobs
    BY TypeRequest DEF TypeOK
  <2> QED
    BY <1>1, <2>1 DEF Target
<1>6. \E g \in Jobs : [u \in Tasks |-> Target(u)]' = [[u \in Tasks |-> Target(u)] EXCEPT ![t] = g]
  BY <1>3, <1>5 DEF Unseen
<1>7. UNCHANGED <<[u \in Tasks |-> Verdict(u)], Service!agents>>
  BY <1>2, <1>3, RunShows DEF Unseen, Service!agents, Collecting, Succeeded, Failed
<1> QED
  BY <1>4, <1>6, <1>7 DEF Service!Ask, Target

\* CreateTask accepts the task, or PostgreSQL rejects it.
LEMMA CreateShows ==
    ASSUME ServiceInv, NEW t \in Tasks, CreateTask(t)
    PROVE  Service!Accept(t) \/ Service!Reject(t)
<1> USE DEF ServiceInv
<1>1. /\ run[t].pc = "create" /\ row[t].status = "none"
      /\ RunStep(t) /\ Phase(t) = "asked" /\ Verdict(t) = "none"
  BY Phases, Verdicts DEF CreateTask, RunStep, RowFollowsRun
<1>2. CASE /\ row' = [row EXCEPT ![t].status = "queued"]
           /\ \E pc \in {"mark", "publish"} : Goto(t, pc)
  <2>1. row'[t].status = "queued" /\ run'[t].pc \in {"mark", "publish"}
        /\ run'[t].job = run[t].job
    BY <1>2, GotoFacts DEF TypeOK
  <2>2. Phase(t)' = "queued" /\ Verdict(t)' = Verdict(t)
    BY <1>1, <2>1, NextPhases
  <2>3. /\ Service!Turn(t, "asked", "queued")
        /\ UNCHANGED <<[u \in Tasks |-> Target(u)], Service!agents>>
        /\ UNCHANGED [u \in Tasks |-> Verdict(u)]
    BY <1>1, <2>1, <2>2, RunTurns
  <2> QED
    BY <2>3 DEF Service!Accept, Target
<1>3. CASE DBFails /\ row' = row /\ Goto(t, "ended")
  <2>1. run'[t].pc = "ended" /\ run'[t].job = run[t].job
    BY <1>3, GotoFacts
  <2>2. Phase(t)' = "over" /\ Verdict(t)' = Verdict(t)
    BY <1>3, <2>1, NextPhases
  <2>3. /\ Service!Turn(t, "asked", "over")
        /\ UNCHANGED <<[u \in Tasks |-> Target(u)], Service!agents>>
        /\ UNCHANGED [u \in Tasks |-> Verdict(u)]
    BY <1>1, <2>1, <2>2, RunTurns
  <2> QED
    BY <1>3, <2>3 DEF Service!Reject, Target
<1> QED
  BY <1>2, <1>3 DEF CreateTask

\* MarkQueued and Spawn are not seen.
LEMMA QueuedShows ==
    ASSUME ServiceInv, NEW t \in Tasks, MarkQueued(t) \/ Spawn(t)
    PROVE  UNCHANGED Service!serviceVars
<1> USE DEF ServiceInv
<1>1. /\ RunStep(t) /\ run[t].pc \in {"mark", "publish"}
      /\ \E pc \in {"publish", "lock"} : Goto(t, pc)
  BY DEF RunStep, MarkQueued, Spawn
<1>2. run'[t].pc \in {"publish", "lock"} /\ run'[t].job = run[t].job
  BY <1>1, GotoFacts
<1>3. row'[t].status = "queued" /\ row[t].status = "queued"
  BY <1>1, <1>2, RowRunStep DEF RowFollowsRun
<1> QED
  BY <1>1, <1>2, <1>3, Phases, NextPhases, RunStutters

\* AcquireRefreshLock begins the task: when the target is exclusive its lock was
\* free, and whoever had begun on it still holds it.
LEMMA AcquireShows ==
    ASSUME ServiceInv, NEW t \in Tasks, AcquireRefreshLock(t)
    PROVE  Service!Begin(t)
<1> USE DEF ServiceInv
<1>1. /\ RunStep(t) /\ run[t].pc = "lock" /\ Goto(t, "start") /\ row' = row
      /\ ~RedisFails => refreshLock[run[t].job] = NoToken
  BY DEF RunStep, AcquireRefreshLock, CanLock
<1>2. run'[t].pc = "start" /\ run'[t].job = run[t].job
  BY <1>1, GotoFacts
<1>3. /\ Service!Turn(t, "queued", "active")
      /\ UNCHANGED <<[u \in Tasks |-> Target(u)], Service!agents>>
      /\ UNCHANGED [u \in Tasks |-> Verdict(u)]
  BY <1>1, <1>2, Phases, NextPhases, RunTurns
<1>4. ASSUME ~RedisFails, Target(t) \in Jobs \ FanOutJobs,
             NEW u \in Tasks \ {t}, Target(u) = Target(t)
      PROVE  Phase(u) # "active"
  <2>1. SUFFICES ASSUME Phase(u) = "active" PROVE FALSE
    OBVIOUS
  <2>2. run[u].pc \in {"start", "work", "sync", "finish", "announce", "unlock"}
    <3>1. run[u].pc \in PCs
      BY DEF TypeOK
    <3> QED
      BY <2>1, <3>1, Phases DEF PCs
  <2>3. run[u].job = run[t].job /\ run[t].job \notin FanOutJobs
    BY <1>1, <1>4, <2>2 DEF Target
  <2>4. refreshLock[run[u].job] = u
    BY <1>4, <2>2, <2>3 DEF TargetOwnership
  <2> QED
    BY <1>1, <1>4, <2>3, <2>4, TokenAssumption
<1>5. Target(t) \in (IF RedisFails THEN {} ELSE Jobs \ FanOutJobs)
         => \A u \in {v \in Tasks \ {t} : Target(v) = Target(t)} : Phase(u) # "active"
  BY <1>4
<1> QED
  BY <1>3, <1>5 DEF Service!Begin, Service!Others, Target

\* SkipDuplicate drops the task: the holder of the lock has begun on the same
\* target.
LEMMA SkipShows ==
    ASSUME ServiceInv, NEW t \in Tasks, SkipDuplicate(t)
    PROVE  Service!Drop(t)
<1> USE DEF ServiceInv
<1>1. /\ RunStep(t) /\ run[t].pc = "lock" /\ refreshLock[run[t].job] # NoToken
      /\ \E pc \in {"unsched", "ended"} : Goto(t, pc)
      /\ row[t].status = "queued"
  BY DEF RunStep, SkipDuplicate, CanLock, Return, RowFollowsRun
<1>2. run'[t].pc \in {"unsched", "ended"} /\ run'[t].job = run[t].job
  BY <1>1, GotoFacts
<1>3. /\ Service!Turn(t, "queued", "over")
      /\ UNCHANGED <<[u \in Tasks |-> Target(u)], Service!agents>>
      /\ Verdict(t)' = Verdict(t) => UNCHANGED [u \in Tasks |-> Verdict(u)]
  BY <1>1, <1>2, Phases, NextPhases, RunTurns
<1>4. PICK u \in Tasks : refreshLock[run[t].job] = u
  BY <1>1 DEF TypeOK
<1>5. run[u].job = run[t].job /\ run[u].pc \notin Waiting /\ row[u].status # "deleted"
  <2>1. run[t].job \in Jobs
    BY DEF TypeOK
  <2> QED
    BY <1>1, <1>4, <2>1 DEF HolderInv
<1>6. u # t /\ Target(u) = Target(t) /\ Phase(u) \in {"active", "over"}
      /\ Verdict(u) # "dropped"
  <2>1. run[u].pc \in PCs
    BY DEF TypeOK
  <2>2. Phase(u) \in {"active", "over"}
    BY <1>5, <2>1, Phases DEF PCs, Waiting
  <2> QED
    BY <1>1, <1>5, <2>2, Verdicts DEF Target, Waiting
<1>7. \/ Verdict(t)' = "dropped"
      \/ DBFails /\ Verdict(t)' = Verdict(t)
  <2>1. PICK db \in DBOutcomes, sent \in RedisOutcomes :
           row' = [row EXCEPT ![t] = Publish(Delete(t, db), "failed", sent)]
    BY DEF SkipDuplicate
  <2>2. row'[t].status = IF db THEN "deleted" ELSE row[t].status
    BY <2>1 DEF TypeOK, Publish, Delete
  <2>3. DBFails \/ db
    BY DEF DBOutcomes
  <2> QED
    BY <2>2, <2>3, NextPhases
<1>8. \/ [v \in Tasks |-> Verdict(v)]' = [[v \in Tasks |-> Verdict(v)] EXCEPT ![t] = "dropped"]
      \/ DBFails /\ UNCHANGED [v \in Tasks |-> Verdict(v)]
  <2>1. \A v \in Tasks \ {t} : Verdict(v)' = Verdict(v)
    BY <1>1, RunShows DEF Unseen
  <2> QED
    BY <1>3, <1>7, <2>1
<1> QED
  BY <1>3, <1>6, <1>8 DEF Service!Drop, Service!Others, Target

\* Between the start of a task and its verdict nothing of the task itself is seen.
LEMMA WorkShows ==
    ASSUME ServiceInv, NEW t \in Tasks,
           StartRunning(t) \/ WorkPart(t) \/ WorkServer(t) \/ WorkFanOut(t) \/ Join(t)
    PROVE  UNCHANGED Service!serviceVars
<1> USE DEF ServiceInv
<1>1. /\ RunStep(t) /\ run[t].pc \in {"start", "work", "sync"}
      /\ (\E pc \in {"work", "sync"} : Goto(t, pc)) \/ \E o : Finish(t, o)
  BY DEF RunStep, StartRunning, WorkPart, WorkServer, WorkFanOut, Join
<1>2. run'[t].pc \in {"work", "sync", "finish"} /\ run'[t].job = run[t].job
  BY <1>1, GotoFacts, FinishFacts
<1>3. row[t].status \in {"queued", "running"} /\ row'[t].status \in {"queued", "running"}
  BY <1>1, <1>2, RowRunStep DEF RowFollowsRun
<1> QED
  BY <1>1, <1>2, <1>3, Phases, Verdicts, NextPhases, RunStutters

\* FinishUpdate settles the task with the verdict that its results deserve; a
\* row that PostgreSQL does not store shows none.
LEMMA FinishShows ==
    ASSUME ServiceInv, NEW t \in Tasks, FinishUpdate(t)
    PROVE  Service!Settle(t) \/ UNCHANGED Service!serviceVars
<1> USE DEF ServiceInv
<1>1. /\ RunStep(t) /\ run[t].pc = "finish" /\ Goto(t, "announce")
      /\ row[t].status \in {"queued", "running"}
      /\ run[t].outcome \in {"completed", "failed"}
  BY DEF RunStep, FinishUpdate, RowFollowsRun
<1>2. run'[t].pc = "announce" /\ run'[t].job = run[t].job
  BY <1>1, GotoFacts
<1>3. /\ Phase(t) = "active" /\ Phase(t)' = "active" /\ Verdict(t) = "none"
      /\ Target(t)' = Target(t)
  BY <1>1, <1>2, Phases, Verdicts, NextPhases DEF Target
<1>4. row'[t].status \in {row[t].status, run[t].outcome}
  <2>1. PICK db \in BOOLEAN, redis \in BOOLEAN :
           row' = [row EXCEPT ![t] = Update(t, run[t].outcome, db, redis)]
    BY OutcomeTypes DEF FinishUpdate
  <2> QED
    BY <2>1 DEF TypeOK, Update
<1>5. CASE row'[t].status = row[t].status
  BY <1>1, <1>2, <1>3, <1>5, NextPhases, RunStutters
<1>6. CASE row'[t].status = run[t].outcome
  <2>1. Verdict(t)' = run[t].outcome
    BY <1>1, <1>6, NextPhases
  <2>2. Collecting(t) = {}
    BY <1>1 DEF JoinWaits, Collecting
  <2>3. \/ run[t].outcome = "completed" /\ Failed(t) = {}
        \/ run[t].outcome = "failed" /\ (Failed(t) # {} \/ Succeeded(t) = {})
    <3>1. \/ /\ run[t].outcome = "completed"
             /\ \A s \in Servers : result[t][s] # "failed"
          \/ /\ run[t].outcome = "failed"
             /\ \/ \E s \in Servers : result[t][s] = "failed"
                \/ \A s \in Servers : result[t][s] # "completed"
      BY <1>1 DEF OutcomeInv
    <3> QED
      BY <3>1 DEF Failed, Succeeded
  <2>4. Service!Deserved(t, run[t].outcome)
    BY <2>3 DEF Service!Deserved, Failed, Succeeded
  <2>5. \A u \in Tasks \ {t} : Unseen(u)
    BY <1>1, RunShows
  <2>6. [u \in Tasks |-> Verdict(u)]'
           = [[u \in Tasks |-> Verdict(u)] EXCEPT ![t] = run[t].outcome]
    BY <2>1, <2>5 DEF Unseen
  <2>7. UNCHANGED <<[u \in Tasks |-> Target(u)], [u \in Tasks |-> Phase(u)],
                    Service!agents>>
    BY <1>1, <1>3, <2>5, RunShows DEF Unseen, Service!agents, Collecting, Succeeded, Failed
  <2> QED
    BY <1>1, <1>3, <2>2, <2>4, <2>6, <2>7 DEF Service!Settle, Collecting, Target
<1> QED
  BY <1>4, <1>5, <1>6

\* Announce and ReleaseSchedLock are not seen.
LEMMA AnnounceShows ==
    ASSUME ServiceInv, NEW t \in Tasks, Announce(t) \/ ReleaseSchedLock(t)
    PROVE  UNCHANGED Service!serviceVars
<1> USE DEF ServiceInv
<1>1. \/ run[t].pc = "announce" /\ Goto(t, "unlock")
      \/ run[t].pc = "unsched" /\ Goto(t, "ended")
  BY DEF Announce, ReleaseSchedLock
<1>2. /\ \/ run[t].pc = "announce" /\ run'[t].pc = "unlock"
         \/ run[t].pc = "unsched" /\ run'[t].pc = "ended"
      /\ run'[t].job = run[t].job /\ RunStep(t)
  BY <1>1, GotoFacts DEF RunStep
<1>3. row'[t].status = row[t].status
  BY DEF TypeOK, Announce, ReleaseSchedLock, Publish
<1> QED
  BY <1>2, <1>3, Phases, NextPhases, RunStutters

\* ReleaseRefreshLock ends the task.
LEMMA ReleaseShows ==
    ASSUME ServiceInv, NEW t \in Tasks, ReleaseRefreshLock(t)
    PROVE  Service!End(t)
<1> USE DEF ServiceInv
<1>1. /\ RunStep(t) /\ run[t].pc = "unlock" /\ row' = row
      /\ \E pc \in {"unsched", "ended"} : Goto(t, pc)
  BY DEF RunStep, ReleaseRefreshLock, Return
<1>2. run'[t].pc \in {"unsched", "ended"} /\ run'[t].job = run[t].job
  BY <1>1, GotoFacts
<1>3. /\ Service!Turn(t, "active", "over")
      /\ UNCHANGED <<[u \in Tasks |-> Target(u)], Service!agents>>
      /\ UNCHANGED [u \in Tasks |-> Verdict(u)]
  BY <1>1, <1>2, Phases, NextPhases, RunTurns
<1>4. ~DBFails => Verdict(t) # "none"
  BY <1>1, Verdicts DEF OutcomeInv
<1> QED
  BY <1>3, <1>4 DEF Service!End, Target

\* What an updated two-dimensional table holds.
LEMMA TableAt ==
    ASSUME NEW A, NEW B, NEW V, NEW f \in [A -> [B -> V]], NEW a \in A,
           NEW b \in B, NEW v, NEW x \in A, NEW y \in B
    PROVE  [f EXCEPT ![a][b] = v][x][y] = IF x = a /\ y = b THEN v ELSE f[x][y]
  OBVIOUS

\* A run on an Agent approaches it when it has marked it, and leaves it when it
\* has collected.
LEMMA AgentShows ==
    ASSUME ServiceInv, NEW t \in Tasks, NEW s \in Servers, AgentStep(t, s)
    PROVE  \/ UNCHANGED Service!serviceVars
           \/ Service!Approach(t, s)
           \/ Service!Leave(t, s)
<1> USE DEF ServiceInv
<1>1. /\ run' = run /\ run[t].pc = "sync"
      /\ row[t].status \in {"queued", "running"}
      /\ row'[t].status \in {"queued", "running"}
      /\ \A u \in Tasks : row'[u].status = row[u].status \/ u = t
  <2>1. run' = run /\ run[t].pc = "sync"
    BY AgentFrame DEF JoinWaits
  <2>2. row[t].status \in {"queued", "running"}
    BY <2>1 DEF RowFollowsRun
  <2>3. row' = row \/ Progress(t)
    BY AgentFrame
  <2>4. \A u \in Tasks : row'[u].status = row[u].status \/ u = t
    BY <2>3 DEF Progress, TypeOK
  <2>5. row'[t].status = row[t].status \/ row'[t].status = "running"
    BY RowOtherStep
  <2> QED
    BY <2>1, <2>2, <2>4, <2>5
<1>2. \A u \in Tasks : /\ Target(u)' = Target(u) /\ Phase(u)' = Phase(u)
                       /\ Verdict(u)' = Verdict(u)
  BY <1>1, Verdicts, NextPhases DEF Target, Phase
<1>3. Phase(t) = "active" /\ Verdict(t) = "none"
  BY <1>1, Phases, Verdicts
<1>4. UNCHANGED <<[u \in Tasks |-> Target(u)], [u \in Tasks |-> Phase(u)],
                  [u \in Tasks |-> Verdict(u)]>>
  BY <1>2
<1>5. CASE MarkRunning(t, s)
  <2>1. /\ step[t][s] = "mark" /\ result' = result
        /\ step' = [step EXCEPT ![t][s] = "collect"]
    BY <1>5 DEF MarkRunning, At, Step
  <2>2. result[t][s] = "none"
    BY <2>1 DEF ResultInv
  <2>3. s \notin Collecting(t) \cup Succeeded(t) \cup Failed(t)
    BY <2>1, <2>2 DEF Collecting, Succeeded, Failed
  <2>4. ~RedisFails => \A u \in Tasks : s \notin Collecting(u)
    <3>1. SUFFICES ASSUME ~RedisFails, NEW u \in Tasks, step[u][s] = "collect"
                   PROVE  FALSE
      BY DEF Collecting
    <3>2. owned[u][s] /\ owned[t][s]
      BY <2>1, <3>1 DEF MarkOwnership, InSection
    <3> QED
      BY <2>1, <3>1, <3>2 DEF LockOwnership
  <2>5. /\ Collecting(t)' = Collecting(t) \cup {s}
        /\ \A u \in Tasks \ {t} : Collecting(u)' = Collecting(u)
    BY <2>1 DEF Collecting, TypeOK
  <2>6. [u \in Tasks |-> Collecting(u)]'
           = [[u \in Tasks |-> Collecting(u)] EXCEPT ![t] = @ \cup {s}]
    BY <2>5
  <2>7. UNCHANGED <<[u \in Tasks |-> Succeeded(u)], [u \in Tasks |-> Failed(u)]>>
    BY <2>1 DEF Succeeded, Failed
  <2>8. Service!Approach(t, s)
    BY <1>3, <1>4, <2>3, <2>4, <2>6, <2>7
    DEF Service!Approach, Target, Collecting, Succeeded, Failed
  <2> QED
    BY <2>8
<1>6. CASE Collect(t, s)
  <2>1. PICK r \in {"completed", "failed"} :
           /\ step[t][s] = "collect" /\ result' = [result EXCEPT ![t][s] = r]
           /\ step' = [step EXCEPT ![t][s] = "clear"]
    BY <1>6 DEF Collect, At, Step
  <2>2. result[t][s] = "none"
    BY <2>1 DEF ResultInv
  <2>3. /\ Collecting(t)' = Collecting(t) \ {s}
        /\ \A u \in Tasks \ {t} : Collecting(u)' = Collecting(u)
    BY <2>1 DEF Collecting, TypeOK
  <2>4. /\ \A v \in Servers : result'[t][v] = IF v = s THEN r ELSE result[t][v]
        /\ \A u \in Tasks \ {t} : result'[u] = result[u]
    BY <2>1 DEF TypeOK
  <2>5. \A u \in Tasks \ {t} : Succeeded(u)' = Succeeded(u) /\ Failed(u)' = Failed(u)
    BY <2>4 DEF Succeeded, Failed
  <2>6. \/ Succeeded(t)' = Succeeded(t) \cup {s} /\ Failed(t)' = Failed(t)
        \/ Failed(t)' = Failed(t) \cup {s} /\ Succeeded(t)' = Succeeded(t)
    BY <2>1, <2>2, <2>4 DEF Succeeded, Failed
  <2>7. [u \in Tasks |-> Collecting(u)]'
           = [[u \in Tasks |-> Collecting(u)] EXCEPT ![t] = @ \ {s}]
    BY <2>3
  <2>8. \/ /\ [u \in Tasks |-> Succeeded(u)]'
                 = [[u \in Tasks |-> Succeeded(u)] EXCEPT ![t] = @ \cup {s}]
           /\ UNCHANGED [u \in Tasks |-> Failed(u)]
        \/ /\ [u \in Tasks |-> Failed(u)]'
                 = [[u \in Tasks |-> Failed(u)] EXCEPT ![t] = @ \cup {s}]
           /\ UNCHANGED [u \in Tasks |-> Succeeded(u)]
    BY <2>5, <2>6
  <2>9. s \in Collecting(t)
    BY <2>1 DEF Collecting
  <2>10. Service!Leave(t, s)
    BY <1>4, <2>7, <2>8, <2>9 DEF Service!Leave, Target, Collecting, Succeeded, Failed
  <2> QED
    BY <2>10
<1>7. CASE \/ AcquireSlot(t, s) \/ AcquireAgentLock(t, s) \/ AgentBusy(t, s)
           \/ ClearRunning(t, s) \/ ReleaseAgentLock(t, s) \/ Report(t, s)
  <2>1. /\ \A u \in Tasks, v \in Servers :
              \/ step'[u][v] = step[u][v]
              \/ step[u][v] # "collect" /\ step'[u][v] # "collect"
        /\ \A u \in Tasks, v \in Servers :
              \/ result'[u][v] = result[u][v]
              \/ result'[u][v] = "skipped" /\ step[u][v] = "lock"
    <3>1. step[t][s] # "collect" /\ step'[t][s] # "collect"
      BY <1>7 DEF AcquireSlot, AcquireAgentLock, AgentBusy, ClearRunning, ReleaseAgentLock,
                  Report, AfterSync, At, Step, TypeOK
    <3>2. step' = [step EXCEPT ![t][s] = step'[t][s]]
      BY AgentFrame, Zenon
    <3>3. \A u \in Tasks, v \in Servers : u # t \/ v # s => step'[u][v] = step[u][v]
      BY <3>2 DEF TypeOK
    <3>4. \/ result' = result
          \/ step[t][s] = "lock" /\ result' = [result EXCEPT ![t][s] = "skipped"]
      BY <1>7 DEF AcquireSlot, AcquireAgentLock, AgentBusy, ClearRunning, ReleaseAgentLock,
                  Report, At
    <3>5. \A u \in Tasks, v \in Servers :
             \/ result'[u][v] = result[u][v]
             \/ result'[u][v] = "skipped" /\ step[u][v] = "lock"
      <4>1. result \in [Tasks -> [Servers -> Results]]
        BY DEF TypeOK
      <4>2. CASE result' = [result EXCEPT ![t][s] = "skipped"]
        BY <3>4, <4>1, <4>2, TableAt
      <4> QED
        BY <3>4, <4>2
    <3>6. ASSUME NEW u \in Tasks, NEW v \in Servers
          PROVE  \/ step'[u][v] = step[u][v]
                 \/ step[u][v] # "collect" /\ step'[u][v] # "collect"
      <4>1. CASE u = t /\ v = s
        BY <3>1, <4>1
      <4>2. CASE u # t \/ v # s
        BY <3>3, <4>2
      <4> QED
        BY <4>1, <4>2
    <3>7. \A u \in Tasks, v \in Servers :
             \/ step'[u][v] = step[u][v]
             \/ step[u][v] # "collect" /\ step'[u][v] # "collect"
      BY <3>6
    <3> QED
      BY <3>5, <3>7
  <2>2. \A u \in Tasks : /\ Collecting(u)' = Collecting(u)
                         /\ Succeeded(u)' = Succeeded(u) /\ Failed(u)' = Failed(u)
    BY <2>1 DEF Collecting, Succeeded, Failed, ResultInv
  <2>3. \A u \in Tasks : Unseen(u)
    BY <1>2, <2>2 DEF Unseen
  <2> QED
    BY <2>3, Stutters
<1> QED
  BY <1>5, <1>6, <1>7 DEF AgentStep

\* The death of a process ends its tasks and forgets what they had collected.
LEMMA CrashShows ==
    ASSUME ServiceInv, NEW i \in Instances, Crash(i)
    PROVE  \E dead \in SUBSET Tasks : dead # {} /\ Service!Die(dead)
<1> USE DEF ServiceInv
<1>0. PICK killed \in SUBSET Tasks : killed = {t \in Tasks : run[t].inst = i /\ Live(t)}
  OBVIOUS
<1>1. killed # {} /\ row' = row
  BY <1>0, CrashFrame DEF Crash
<1>2. ASSUME NEW u \in killed
      PROVE  /\ Phase(u) # "none" /\ Phase(u)' = "over" /\ Target(u)' = Target(u)
             /\ Collecting(u)' = {} /\ Succeeded(u)' = {} /\ Failed(u)' = {}
  <2>1. /\ run[u].pc \in PCs \ {"idle"}
        /\ run'[u].pc = "crashed" /\ run'[u].job = run[u].job
        /\ \A s \in Servers : step'[u][s] = "none" /\ result'[u][s] = "none"
    BY <1>0, CrashResults DEF TypeOK, Live
  <2>2. Phase(u) # "none" /\ Phase(u)' = "over" /\ Target(u)' = Target(u)
    BY <2>1, Phases, NextPhases DEF PCs, Target
  <2> QED
    BY <2>1, <2>2 DEF Collecting, Succeeded, Failed
<1>3. ASSUME NEW u \in Tasks \ killed
      PROVE  /\ Phase(u)' = Phase(u) /\ Target(u)' = Target(u)
             /\ Collecting(u)' = Collecting(u)
             /\ Succeeded(u)' = Succeeded(u) /\ Failed(u)' = Failed(u)
  <2>1. run'[u] = run[u] /\ step'[u] = step[u] /\ result'[u] = result[u]
    BY <1>0, CrashResults
  <2> QED
    BY <2>1 DEF Phase, Target, Collecting, Succeeded, Failed
<1>4. \A u \in Tasks : Verdict(u)' = Verdict(u)
  BY <1>1 DEF Verdict
<1>5. /\ [t \in Tasks |-> Phase(t)]'
            = [t \in Tasks |-> IF t \in killed THEN "over" ELSE [u \in Tasks |-> Phase(u)][t]]
      /\ [t \in Tasks |-> Collecting(t)]'
            = [t \in Tasks |-> IF t \in killed THEN {} ELSE [u \in Tasks |-> Collecting(u)][t]]
      /\ [t \in Tasks |-> Succeeded(t)]'
            = [t \in Tasks |-> IF t \in killed THEN {} ELSE [u \in Tasks |-> Succeeded(u)][t]]
      /\ [t \in Tasks |-> Failed(t)]'
            = [t \in Tasks |-> IF t \in killed THEN {} ELSE [u \in Tasks |-> Failed(u)][t]]
  BY <1>2, <1>3
<1>6. UNCHANGED <<[t \in Tasks |-> Target(t)], [t \in Tasks |-> Verdict(t)]>>
  BY <1>2, <1>3, <1>4
<1>7. \A t \in killed : [u \in Tasks |-> Phase(u)][t] # "none"
  BY <1>1, <1>2
<1>8. Service!Die(killed)
  BY <1>5, <1>6, <1>7 DEF Service!Die, Target, Collecting, Succeeded, Failed
<1> QED
  BY <1>1, <1>8

\* Every step of AgentSync is a step of TaskService or shows nothing.
LEMMA ServiceStep ==
    ASSUME ServiceInv, [Next]_vars
    PROVE  [Service!Next]_(Service!serviceVars)
<1>1. ASSUME NEW t \in Tasks, Request(t) PROVE Service!Next
  BY <1>1, RequestAsks DEF Service!Next
<1>2. ASSUME NEW t \in Tasks, RunStep(t)
      PROVE  Service!Next \/ UNCHANGED Service!serviceVars
  <2>1. CASE CreateTask(t) \/ AcquireRefreshLock(t) \/ SkipDuplicate(t)
             \/ ReleaseRefreshLock(t)
    BY <2>1, CreateShows, AcquireShows, SkipShows, ReleaseShows DEF Service!Next
  <2>2. CASE FinishUpdate(t)
    BY <2>2, FinishShows DEF Service!Next
  <2>3. CASE \/ MarkQueued(t) \/ Spawn(t)
             \/ StartRunning(t) \/ WorkPart(t) \/ WorkServer(t) \/ WorkFanOut(t) \/ Join(t)
             \/ Announce(t) \/ ReleaseSchedLock(t)
    BY <2>3, QueuedShows, WorkShows, AnnounceShows
  <2> QED
    BY <1>2, <2>1, <2>2, <2>3 DEF RunStep
<1>3. ASSUME NEW t \in Tasks, NEW s \in Servers, AgentStep(t, s)
      PROVE  Service!Next \/ UNCHANGED Service!serviceVars
  BY <1>3, AgentShows DEF Service!Next
<1>4. ASSUME NEW i \in Instances, Crash(i) PROVE Service!Next
  BY <1>4, CrashShows DEF Service!Next
<1>5. ASSUME \/ \E s \in Servers : DeleteServer(s)
             \/ Expiry \/ Quiescent \/ UNCHANGED vars
      PROVE  UNCHANGED Service!serviceVars
  <2>1. UNCHANGED <<run, row, step, result>>
    BY <1>5 DEF DeleteServer, Expiry, ExpireRefreshLock, ExpireSchedLock,
                ExpireAgentLock, ExpireMark, Quiescent, vars, agent
  <2>2. \A u \in Tasks : Unseen(u)
    BY <2>1 DEF Unseen, Target, Phase, Verdict, Collecting, Succeeded, Failed
  <2> QED
    BY <2>2, Stutters
<1> QED
  BY <1>1, <1>2, <1>3, <1>4, <1>5 DEF Next, Environment

\* Requests, duplicate tasks, the semaphore, the locks and their expiry, the
\* deletion of Agents, crashes and failures together keep the promise of
\* TaskService, for any number of tasks, Agents and processes: one task per
\* target and Agent, duplicates dropped only for a task that has begun, and one
\* verdict, the one that the results deserve, given when no goroutine of SyncAll
\* is under way (docs/refresh-sync.md, refresh tasks).
THEOREM TasksKeepPromise == Spec => ImplementsService
<1>1. Init => Service!Init
  BY DEF Init, Start, Service!Init, Service!Empty, Phase, Verdict
<1>2. Init => HolderInv /\ ResultInv /\ OutcomeInv
  BY DEF Init, Start, HolderInv, ResultInv, OutcomeInv
<1>3. Init => LockOwnership /\ MarkOwnership /\ TargetOwnership /\ RowFollowsRun
              /\ JoinWaits
  BY DEF Init, Start, LockOwnership, MarkOwnership, TargetOwnership, RowFollowsRun,
         JoinWaits, InSection
<1>4. ServiceInv /\ [Next]_vars => ServiceInv'
  BY TypeStep, JoinWaitsStep, OwnershipStep, MarkStep, TargetStep, RowStep, HolderStep,
     ResultStep, OutcomeStep DEF ServiceInv
<1>5. Init => ServiceInv
  BY <1>2, <1>3, TypeInit DEF ServiceInv
<1>6. ServiceInv /\ [Next]_vars => [Service!Next]_(Service!serviceVars)
  BY ServiceStep
<1> QED
  BY <1>1, <1>4, <1>5, <1>6, PTL DEF Spec, ImplementsService, Service!Spec
=============================================================================
