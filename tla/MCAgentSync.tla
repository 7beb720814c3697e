---------------------------- MODULE MCAgentSync ----------------------------
(***************************************************************************)
(* Instances of AgentSync for TLC.                                         *)
(***************************************************************************)
EXTENDS AgentSync, TLC

CONSTANTS s1, s2, p1, t1, t2, t3, i1, i2

MCRole == [s \in Servers |-> IF s = s1 THEN "dns" ELSE "dhcp"]
AllJobs == Jobs
SingleOnly == ServerJobs
FullAndSingle == {Job("all", "-")} \cup ServerJobs
MCOwner == [p \in Parts |-> s1]

\* Tasks and instances are interchangeable; Agents differ by role.
TaskSymmetry == Permutations(Tasks)
Symmetry == TaskSymmetry \cup Permutations(Instances)
=============================================================================
