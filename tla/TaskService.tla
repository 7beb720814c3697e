---------------------------- MODULE TaskService ----------------------------
(***************************************************************************)
(* What the refresh tasks of the backend promise, without the locks, marks *)
(* and goroutines that keep the promise (AgentSync):                       *)
(*                                                                         *)
(*   - two tasks of an exclusive target are never active together, and     *)
(*     no two tasks collect from one Agent at once;                        *)
(*   - a task is dropped only because another one of its target started;   *)
(*   - a task is settled once, when nothing of it is under way any more,   *)
(*     and the verdict is that of what it collected;                       *)
(*   - an active task ends settled, unless its process dies.               *)
(***************************************************************************)
EXTENDS FiniteSets

CONSTANTS
    Tasks, Servers,
    Targets,    \* what a task may be asked to refresh
    NoTarget,   \* none of them
    Exclusive,  \* the targets refreshed by one task at a time
    Alone,      \* does one task at a time collect from an Agent?
    Durable     \* is every row that is written stored?

VARIABLES
    target,      \* target[t]: what t refreshes
    phase,       \* phase[t]: how far it is
    verdict,     \* verdict[t]: what its row says in the end
    collecting,  \* collecting[t]: the Agents it collects from now
    succeeded,   \* succeeded[t], failed[t]: those it has collected from
    failed

serviceVars == <<target, phase, verdict, collecting, succeeded, failed>>
agents == <<collecting, succeeded, failed>>

Empty == [t \in Tasks |-> {}]

Init ==
    /\ target = [t \in Tasks |-> NoTarget]
    /\ phase = [t \in Tasks |-> "none"]
    /\ verdict = [t \in Tasks |-> "none"]
    /\ collecting = Empty /\ succeeded = Empty /\ failed = Empty

Turn(t, from, to) == phase[t] = from /\ phase' = [phase EXCEPT ![t] = to]

Ask(t) ==
    /\ Turn(t, "none", "asked")
    /\ \E g \in Targets : target' = [target EXCEPT ![t] = g]
    /\ UNCHANGED <<verdict, agents>>

Accept(t) == Turn(t, "asked", "queued") /\ UNCHANGED <<target, verdict, agents>>

Reject(t) == ~Durable /\ Turn(t, "asked", "over") /\ UNCHANGED <<target, verdict, agents>>

Others(t) == {u \in Tasks \ {t} : target[u] = target[t]}

Begin(t) ==
    /\ Turn(t, "queued", "active")
    /\ target[t] \in Exclusive => \A u \in Others(t) : phase[u] # "active"
    /\ UNCHANGED <<target, verdict, agents>>

Drop(t) ==
    /\ Turn(t, "queued", "over")
    /\ \E u \in Others(t) : phase[u] \in {"active", "over"} /\ verdict[u] # "dropped"
    /\ \/ verdict' = [verdict EXCEPT ![t] = "dropped"]
       \/ ~Durable /\ UNCHANGED verdict
    /\ UNCHANGED <<target, agents>>

Approach(t, s) ==
    /\ phase[t] = "active" /\ verdict[t] = "none"
    /\ s \notin collecting[t] \cup succeeded[t] \cup failed[t]
    /\ Alone => \A u \in Tasks : s \notin collecting[u]
    /\ collecting' = [collecting EXCEPT ![t] = @ \cup {s}]
    /\ UNCHANGED <<target, phase, verdict, succeeded, failed>>

Leave(t, s) ==
    /\ s \in collecting[t]
    /\ collecting' = [collecting EXCEPT ![t] = @ \ {s}]
    /\ \/ succeeded' = [succeeded EXCEPT ![t] = @ \cup {s}] /\ UNCHANGED failed
       \/ failed' = [failed EXCEPT ![t] = @ \cup {s}] /\ UNCHANGED succeeded
    /\ UNCHANGED <<target, phase, verdict>>

Deserved(t, v) ==
    \/ v = "completed" /\ failed[t] = {}
    \/ v = "failed" /\ (failed[t] # {} \/ succeeded[t] = {})

Settle(t) ==
    /\ phase[t] = "active" /\ verdict[t] = "none" /\ collecting[t] = {}
    /\ \E v \in {"completed", "failed"} :
          Deserved(t, v) /\ verdict' = [verdict EXCEPT ![t] = v]
    /\ UNCHANGED <<target, phase, agents>>

End(t) ==
    /\ Turn(t, "active", "over")
    /\ Durable => verdict[t] # "none"
    /\ UNCHANGED <<target, verdict, agents>>

\* The process of these tasks dies, and what it had collected is forgotten.
Die(dead) ==
    /\ \A t \in dead : phase[t] # "none"
    /\ phase' = [t \in Tasks |-> IF t \in dead THEN "over" ELSE phase[t]]
    /\ collecting' = [t \in Tasks |-> IF t \in dead THEN {} ELSE collecting[t]]
    /\ succeeded' = [t \in Tasks |-> IF t \in dead THEN {} ELSE succeeded[t]]
    /\ failed' = [t \in Tasks |-> IF t \in dead THEN {} ELSE failed[t]]
    /\ UNCHANGED <<target, verdict>>

Next ==
    \/ \E t \in Tasks : Ask(t) \/ Accept(t) \/ Reject(t) \/ Begin(t) \/ Drop(t)
                         \/ Settle(t) \/ End(t)
    \/ \E t \in Tasks, s \in Servers : Approach(t, s) \/ Leave(t, s)
    \/ \E dead \in SUBSET Tasks : dead # {} /\ Die(dead)

Spec == Init /\ [][Next]_serviceVars
=============================================================================
