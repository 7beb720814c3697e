----------------------------- MODULE MCAccounts -----------------------------
(***************************************************************************)
(* Instances of Accounts, Wecom and Roles for TLC.  The parts share no     *)
(* state (what an account being disabled or deleted means for each is      *)
(* modelled in each), so a behaviour has a budget for one of them only.    *)
(***************************************************************************)
EXTENDS Accounts, Wecom, Roles, TLC

CONSTANTS u1, u2, p1, p2, q1, q2, s1, t1, w1, w2, c1, c2, k1, r1, r2, g1

Allow(k, n, f) == [kinds |-> k, starts |-> n, faults |-> f]
MCBudgets == {Allow({}, 0, 0), Allow({"login"}, Unlimited, 1), Allow(AllKinds, 2, 1),
              Allow({"login", "verify", "send", "confirm"}, 3, 1),
              Allow({"login", "change", "verify", "send", "confirm"}, 4, 0)}
MCWcBudgets == {0, 5}

Work(k, n, e) == [kinds |-> k, starts |-> n, errors |-> e]
NoWork == Work({}, 0, 0)
MCWorks == {NoWork,
            Work({"load", "update"}, 3, 1),
            Work({"load", "update", "saveRole", "deleteRole"}, 3, 0),
            Work({"load"} \cup UserKinds, 3, 0),
            Work(GroupKinds, 2, 1),
            Work({"load", "saveGroup", "deleteRole", "delete"}, 2, 0)}
MCChoices == {<<"viewer">>, <<"viewer", k1>>, <<"admin">>}

AccountsInit ==
    /\ Init /\ WcInit /\ RolesInit
    /\ Cardinality({b \in {"accounts", "wecom", "roles"} :
          CASE b = "accounts" -> kinds # {} [] b = "wecom" -> budget > 0 [] OTHER -> work # NoWork}) = 1
    /\ work = NoWork => person[u2] = Absent
    /\ work.kinds \cap GroupKinds = {} => group[g1] = Absent
    /\ budget = 0 => mode = "direct"
AccountsNext ==
    \/ kinds # {} /\ Next /\ UNCHANGED <<wcVars, roleVars>>
    \/ WcNext /\ UNCHANGED <<vars, roleVars>>
    \/ RolesNext /\ UNCHANGED <<vars, wcVars>>
AccountsSpec == AccountsInit /\ [][AccountsNext]_<<vars, wcVars, roleVars>>

Symmetry == Permutations(Requests) \cup Permutations(Passwords)
            \cup Permutations(Calls) \cup Permutations(Wecoms) \cup Permutations(CustomRoles)
=============================================================================
