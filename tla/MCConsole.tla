----------------------------- MODULE MCConsole -----------------------------
(***************************************************************************)
(* Instances of AgentHealth, EventStream, Timetable and Settings for TLC.  *)
(* They share no state, so a behaviour has a budget for one of them only.  *)
(***************************************************************************)
EXTENDS AgentHealth, EventStream, Timetable, Settings, TLC

CONSTANTS a1, i1, i2, r1, u1, p1, p2, b1, v1

Budget(l, r, f, e) ==
    [loops |-> l, requests |-> r, users |-> Users, flips |-> f, faults |-> e]
Resting == [loops |-> {}, requests |-> {}, users |-> {}, flips |-> 0, faults |-> 0]
MCBudgets ==
    { Resting, Budget({i1}, {r1}, 1, 0), [Budget({i1}, {r1}, 2, 0) EXCEPT !.users = {}],
      Budget({i1}, {}, 2, 1), Budget({i1}, {r1}, 0, 1),
      [Budget({i1, i2}, {}, 1, 0) EXCEPT !.users = {}] }

\* Where a user is there, too, a request is one of three kinds.
MCKinds ==
    page[u1].step # "off" => \A r \in Requests : kind'[r] \notin {"auto", "sync", "skip"}

Silent == [events |-> 0, browsers |-> {}, losses |-> 0]
MCEvBudgets == {Silent, [events |-> 2, browsers |-> Browsers, losses |-> 1]}

\* Days of three units: an interval of one unit divides them, one of three or
\* six counts days, one of two does not divide a day and counts from the epoch.
Plan(d, i, f) == [ends |-> d, interval |-> i, offset |-> 1, stops |-> 1, faults |-> f]
NoPlan == [ends |-> <<>>, interval |-> 0, offset |-> 0, stops |-> 0, faults |-> 0]
MCPlans ==
    { NoPlan, Plan(<<3, 6>>, 0, 0), Plan(<<3, 5>>, 1, 0), Plan(<<3, 5>>, 2, 1),
      Plan(<<3, 5, 7>>, 2, 0), Plan(<<4, 7, 10>>, 3, 0), Plan(<<2, 5, 8>>, 3, 1),
      Plan(<<3, 6, 9>>, 6, 0) }

\* Forms with at most one typed credential.
Form(i, on, m, t, g, c, k) ==
    [item |-> i, on |-> on, mode |-> m, given |-> g, clear |-> c, marker |-> k,
     typed |-> [x \in Parts |-> IF x \in DOMAIN t THEN t[x] ELSE NoValue]]
Blank == <<>>
Typed(parts) == {Blank} \cup {(x :> v) : x \in parts, v \in Credentials}
Modes == {"direct", "center"}
MCForms ==
    {Form("ldap", on, "ldap", t, {"ldap"}, FALSE, FALSE) : on \in BOOLEAN, t \in Typed({"ldap"})}
    \cup {Form("ldap", TRUE, "ldap", Blank, {}, FALSE, FALSE)}
    \cup {Form("wecom", on, m, t, Modes, FALSE, FALSE) : on \in BOOLEAN, m \in Modes, t \in Typed(Modes)}
    \cup {Form("wecom", TRUE, "direct", Blank, {"direct"}, TRUE, FALSE)}
    \cup {Form("email", on, "email", t, {"email"}, c, k) :
              on, c, k \in BOOLEAN, t \in Typed({"email"})}
MCSaves == {0, 3}

\* Exactly one part acts.
ConsoleInit ==
    /\ Init /\ EvInit /\ TtInit /\ SetInit
    /\ Cardinality({part \in 1..4 :
            \/ part = 1 /\ \E i \in Instances : round[i] # "off"
            \/ part = 2 /\ \E p \in Publishers : left[p] > 0
            \/ part = 3 /\ plan # NoPlan
            \/ part = 4 /\ saves > 0}) = 1
    /\ saves = 0 => item = "ldap"
ConsoleNext ==
    \/ Next /\ MCKinds /\ UNCHANGED <<evVars, ttVars, setVars>>
    \/ EvNext /\ UNCHANGED <<vars, ttVars, setVars>>
    \/ TtNext /\ UNCHANGED <<vars, evVars, setVars>>
    \/ SetNext /\ UNCHANGED <<vars, evVars, ttVars>>
ConsoleSpec == ConsoleInit /\ [][ConsoleNext]_<<vars, evVars, ttVars, setVars>> /\ Fairness

=============================================================================
