-------------------------- MODULE MCAgentSyncLive --------------------------
(***************************************************************************)
(* The instance of AgentSync for liveness. Either one Agent is known and   *)
(* every task may be requested, or there are two Agents for the one        *)
(* semaphore slot of a single full refresh: goroutines wait for slots only *)
(* within a task, as each SyncAll has a semaphore of its own.              *)
(***************************************************************************)
EXTENDS MCAgentSync

VARIABLE slots

LiveInit == slots \in BOOLEAN /\ Start(IF slots THEN Servers ELSE {s1})

LiveNext ==
    /\ Next
    /\ slots => /\ run'[t2].pc = "idle"
                /\ run'[t1].job \notin ServerJobs
    /\ UNCHANGED slots

LiveSpec == LiveInit /\ [][LiveNext]_<<vars, slots>> /\ Fairness
=============================================================================
