------------------------------- MODULE Roles --------------------------------
(***************************************************************************)
(* Users, roles and user groups of the console, and what a user may do.    *)
(*                                                                         *)
(* The roles of a user are rows of user_roles that an update deletes and   *)
(* inserts one by one, outside a transaction.  Every load of a user reads  *)
(* them, and a load that finds none writes: fallbackRole replaces them by  *)
(* the role of the users row.  Loads happen on every request (FindSession, *)
(* FindUserByID, ListManagedUsers), so they are commands of their own.     *)
(***************************************************************************)
EXTENDS Naturals, FiniteSets, Sequences

CONSTANTS
    Staff, Root,   \* users; the default administrator
    CustomRoles,   \* bound: ids of custom roles
    CustomKeys,    \* their keys
    Groups,        \* bound: ids of user groups
    Commands,      \* bound: requests served at the same time
    Choices,       \* bound: lists of role keys that an update ticks
    Works,         \* bound: kinds of requests, how many, and how many errors
    Absent, Gone   \* a row not created yet, and a deleted one

Builtin == {"admin", "viewer"}
RoleIds == Builtin \cup CustomRoles
RoleKeys == Builtin \cup CustomKeys
Rights == {"read", "manage"}
UserKinds == {"create", "update", "disable", "enable", "delete"}
RoleKinds == {"saveRole", "deleteRole"}
GroupKinds == {"saveGroup", "deleteGroup"}
CommandKinds == {"load"} \cup UserKinds \cup RoleKinds \cup GroupKinds

ASSUME RootAssumption == Root \in Staff
ASSUME ChoicesAssumption == \A keys \in Choices : keys \in Seq(RoleKeys) /\ keys # <<>>
ASSUME WorksAssumption ==
    \A w \in Works : w.kinds \subseteq CommandKinds /\ w.starts \in Nat /\ w.errors \in Nat

\* The three kinds of rows.
PersonRow == [role : RoleKeys, disabled : BOOLEAN]
RoleRow == [key : RoleKeys, rights : SUBSET Rights]
GroupRow == [disabled : BOOLEAN, members : SUBSET Staff, roles : SUBSET RoleIds]

ASSUME NamesAssumption == Staff \cap Groups = {} /\ CustomRoles \cap Builtin = {}
ASSUME RowsAssumption ==
    /\ Absent # Gone
    /\ \A none \in {Absent, Gone} :
          none \notin PersonRow /\ none \notin RoleRow /\ none \notin GroupRow

VARIABLES
    person,    \* rows of users: key of the first role, disabled; Absent, Gone
    direct,    \* direct[u]: user_roles
    role,      \* rows of roles: key and permissions; Absent, Gone
    group,     \* rows of user_groups, with members and roles; Absent, Gone
    cmd,       \* cmd[c]: a handler
    work,      \* what is left of the budget
    ticked,    \* history: roles of u by its last update that succeeded
    set,       \* history: members and roles of g by its last request that succeeded
    clashed,   \* history: users and groups whose updates overlapped or failed
    disturbed  \* history: users with a fallback during an update

tables == <<person, direct, role, group>>
memory == <<ticked, set, clashed, disturbed>>
roleVars == <<tables, cmd, work, memory>>

NoCmd == [pc |-> "done", kind |-> "-", who |-> Absent, on |-> Absent, keys |-> <<>>, off |-> FALSE,
          ids |-> {}, people |-> {}, team |-> {}, rights |-> {}]
Live(row) == row \notin {Absent, Gone}
ByKey(k) == {r \in RoleIds : Live(role[r]) /\ role[r].key = k}

RolesTypeOK ==
    /\ person \in [Staff -> PersonRow \cup {Absent, Gone}]
    /\ direct \in [Staff -> SUBSET {r \in RoleIds : Live(role[r])}]
    /\ role \in [RoleIds -> RoleRow \cup {Absent, Gone}]
    /\ group \in [Groups -> [disabled : BOOLEAN, members : SUBSET {u \in Staff : Live(person[u])},
                             roles : SUBSET {r \in RoleIds : Live(role[r])}] \cup {Absent, Gone}]
    /\ \A c \in Commands : cmd[c].kind \in CommandKinds \cup {"-"} /\ cmd[c].keys \in Seq(RoleKeys)
    /\ ticked \in [Staff -> SUBSET RoleIds]
    /\ clashed \subseteq Staff \cup Groups /\ disturbed \subseteq Staff

\* One custom role exists; the seed has created Root without rows of user_roles;
\* another user and a group may exist.
RolesInit ==
    /\ \E c \in CustomRoles, k \in CustomKeys : role =
          [r \in RoleIds |-> CASE r = "admin" -> [key |-> "admin", rights |-> Rights]
                               [] r = "viewer" -> [key |-> "viewer", rights |-> {"read"}]
                               [] r = c -> [key |-> k, rights |-> {"read"}]
                               [] OTHER -> Absent]
    /\ \E row \in [role : {"viewer"}, disabled : BOOLEAN] \cup {Absent} : person =
          [u \in Staff |-> IF u = Root THEN [role |-> "admin", disabled |-> FALSE] ELSE row]
    /\ direct = [u \in Staff |-> IF u = Root \/ person[u] = Absent THEN {} ELSE {"viewer"}]
    /\ group \in [Groups -> {Absent, [disabled |-> FALSE, members |-> {}, roles |-> {}]}]
    /\ cmd = [c \in Commands |-> NoCmd]
    /\ work \in Works
    /\ ticked = [u \in Staff |-> IF u = Root THEN {"admin"} ELSE {"viewer"}]
    /\ set = [g \in Groups |-> [members |-> {}, roles |-> {}]]
    /\ clashed = {Root} /\ disturbed = {}

Erring == work.errors > 0 /\ work' = [work EXCEPT !.errors = @ - 1]

-----------------------------------------------------------------------------
(***************************************************************************)
(* What a user may do.                                                     *)
(***************************************************************************)
\* listUserEffectiveRoles
Effective(u) ==
    direct[u] \cup UNION {group[g].roles : g \in {h \in Groups :
                             Live(group[h]) /\ ~group[h].disabled /\ u \in group[h].members}}

Loaded(u) == IF Effective(u) # {} THEN Effective(u) ELSE ByKey(person[u].role)

\* uniquePermissions, hasPermission, requirePermission of an enabled user.
HasPermission(u, right) ==
    /\ Live(person[u]) /\ ~person[u].disabled
    /\ person[u].role = "admin" \/ \E r \in Loaded(u) : right \in role[r].rights

\* normalizePermissions
NormalizePermissions(rights) == rights \cup (IF "manage" \in rights THEN {"read"} ELSE {})

-----------------------------------------------------------------------------
(***************************************************************************)
(* Commands.                                                               *)
(***************************************************************************)
Go(c, step) == cmd' = [cmd EXCEPT ![c].pc = step]
Finish(c) == cmd' = [cmd EXCEPT ![c] = NoCmd]
At(x) == {c \in Commands : cmd[c].on = x /\ cmd[c].pc # "done"}

\* Does another command change the same rows at this time?
Changing(x, c) == {d \in At(x) \ {c} : cmd[d].pc \in
    {"clear", "insert", "clearMembers", "members", "clearRoles", "roles"}}
FallingBack(u, c) == {d \in At(u) \ {c} : cmd[d].pc \in {"fallback", "fbClear", "fbInsert"}}

Begins(c, new) ==
    /\ new.kind \in work.kinds
    /\ cmd' = [cmd EXCEPT ![c] = new]
    /\ work' = [work EXCEPT !.starts = @ - 1]
    /\ UNCHANGED <<tables, memory>>

\* requireAuth has loaded the user who asks, requirePermission lets it pass.
Asks(c, who, new) == HasPermission(who, "manage") /\ Begins(c, [new EXCEPT !.who = who])

StartLoad(c, u) == Live(person[u]) /\ Begins(c, [NoCmd EXCEPT !.pc = "load", !.kind = "load", !.on = u])

StartUser(c, who, u, k, keys, off) ==
    /\ k \in UserKinds /\ (k = "create" <=> person[u] = Absent)
    /\ Asks(c, who, [NoCmd EXCEPT !.pc = IF k = "create" THEN "row" ELSE "check", !.kind = k, !.on = u,
                                  !.keys = IF k \in {"create", "update"} THEN keys ELSE <<>>,
                                  !.off = IF k = "enable" THEN FALSE ELSE k = "disable" \/ off])

StartRole(c, who, r, k, key, rights) ==
    /\ k \in RoleKinds /\ role[r] # Gone /\ (k = "deleteRole" => Live(role[r]))
    /\ Asks(c, who, [NoCmd EXCEPT !.pc = "apply", !.kind = k, !.on = r, !.keys = <<key>>,
                                  !.rights = rights])

StartGroup(c, who, g, k, people, keys, off) ==
    /\ k \in GroupKinds /\ group[g] # Gone /\ (k = "deleteGroup" => Live(group[g]))
    /\ Asks(c, who, [NoCmd EXCEPT !.pc = "apply", !.kind = k, !.on = g, !.people = people,
                                  !.team = people, !.keys = keys, !.off = off])

-----------------------------------------------------------------------------
(***************************************************************************)
(* attachAccessToUsers: listUserEffectiveRoles and fallbackRole.           *)
(***************************************************************************)
LoadRoles(c) ==
    LET u == cmd[c].on IN
    /\ cmd[c].pc = "load"
    /\ IF Live(person[u]) /\ Effective(u) = {} THEN Go(c, "fallback") ELSE Finish(c)
    /\ UNCHANGED <<tables, work, memory>>

ReadFallback(c) ==
    LET u == cmd[c].on IN
    /\ cmd[c].pc = "fallback"
    /\ IF Live(person[u]) /\ ByKey(person[u].role) # {}
       THEN cmd' = [cmd EXCEPT ![c].pc = "fbClear", ![c].keys = <<person[u].role>>]
       ELSE Finish(c)
    /\ UNCHANGED <<tables, work, memory>>

\* replaceUserRoles with the one role, its error ignored.
FallbackClears(c) ==
    LET u == cmd[c].on IN
    /\ cmd[c].pc = "fbClear"
    /\ direct' = [direct EXCEPT ![u] = {}]
    /\ disturbed' = IF Changing(u, c) # {} \/ direct[u] # {} THEN disturbed \cup {u} ELSE disturbed
    /\ Go(c, "fbInsert")
    /\ UNCHANGED <<person, role, group, work, ticked, set, clashed>>

FallbackInserts(c) ==
    LET u == cmd[c].on
        ids == IF Live(person[u]) THEN ByKey(cmd[c].keys[1]) ELSE {} IN
    /\ cmd[c].pc = "fbInsert"
    /\ direct' = [direct EXCEPT ![u] = @ \cup ids]
    /\ disturbed' = IF Changing(u, c) # {} \/ direct[u] # {} THEN disturbed \cup {u} ELSE disturbed
    /\ Finish(c)
    /\ UNCHANGED <<person, role, group, work, ticked, set, clashed>>

-----------------------------------------------------------------------------
(***************************************************************************)
(* Users.                                                                  *)
(***************************************************************************)
Clash(x, c) == clashed' = IF Changing(x, c) # {} THEN clashed \cup {x} ELSE clashed
Disturb(u, c) == disturbed' = IF FallingBack(u, c) # {} THEN disturbed \cup {u} ELSE disturbed

\* An update that is alone at its first statement makes good what went before.
Recover(u, c) ==
    LET alone == Changing(u, c) = {} /\ FallingBack(u, c) = {} IN
    /\ clashed' = IF alone THEN clashed \ {u} ELSE clashed \cup {u}
    /\ disturbed' = IF alone THEN disturbed \ {u} ELSE disturbed \cup {u}

\* The checks on the user that FindUserByID returns: the default administrator
\* and the user who asks are not disabled or deleted, and an enabled user is
\* not deleted.
Allowed(c) ==
    LET h == cmd[c] IN
    /\ h.off \/ h.kind = "delete" => h.on # Root /\ h.on # h.who
    /\ h.kind = "delete" => person[h.on].disabled

CheckUser(c) ==
    /\ cmd[c].pc = "check"
    /\ IF Live(person[cmd[c].on]) /\ Allowed(c) THEN Go(c, "row") ELSE Finish(c)
    /\ UNCHANGED <<tables, work, memory>>

\* A creation of a user that exists and an update of one that does not fail here.
Replaces(h) ==
    \/ h.kind = "create" /\ person[h.on] = Absent
    \/ h.kind = "update" /\ Live(person[h.on])

\* The statement on the users row.  The role column is the first key.
WriteUser(c) ==
    LET h == cmd[c]
        u == h.on IN
    /\ cmd[c].pc = "row"
    /\ \/ /\ h.kind = "create" /\ person[u] = Absent
          /\ person' = [person EXCEPT ![u] = [role |-> h.keys[1], disabled |-> h.off]]
          /\ Go(c, "clear") /\ UNCHANGED <<direct, group>>
       \/ /\ h.kind = "update" /\ Live(person[u])
          /\ person' = [person EXCEPT ![u] = [role |-> h.keys[1], disabled |-> h.off]]
          /\ Go(c, "clear") /\ UNCHANGED <<direct, group>>
       \/ /\ h.kind \in {"disable", "enable"} /\ Live(person[u])
          /\ person' = [person EXCEPT ![u].disabled = h.off]
          /\ Finish(c) /\ UNCHANGED <<direct, group>>
       \/ /\ h.kind = "delete" /\ Live(person[u])
          /\ person' = [person EXCEPT ![u] = Gone]
          /\ direct' = [direct EXCEPT ![u] = {}]
          /\ group' = [g \in Groups |-> IF Live(group[g]) THEN [group[g] EXCEPT !.members = @ \ {u}]
                                                          ELSE group[g]]
          /\ Finish(c)
       \/ /\ IF h.kind = "create" THEN person[u] # Absent ELSE ~Live(person[u])
          /\ Finish(c) /\ UNCHANGED <<person, direct, group>>
    /\ set' = IF h.kind = "delete" /\ Live(person[u])
              THEN [g \in Groups |-> [set[g] EXCEPT !.members = @ \ {u}]]
              ELSE set
    /\ IF Replaces(h) THEN Recover(u, c) ELSE UNCHANGED <<clashed, disturbed>>
    /\ UNCHANGED <<role, work, ticked>>

\* Mutant: the old roles stay.
ClearedKeeps(u) == direct

\* replaceUserRoles deletes every role of the user,
Cleared(u) == [direct EXCEPT ![u] = {}]

ClearRoles(c) ==
    LET u == cmd[c].on IN
    /\ cmd[c].pc = "clear"
    /\ direct' = Cleared(u)
    /\ Go(c, "insert")
    /\ Clash(u, c) /\ Disturb(u, c)
    /\ UNCHANGED <<person, role, group, work, ticked, set>>

\* then inserts the ticked ones.  An insertion of no row is an error: the role
\* does not exist, or another command has inserted it (ON CONFLICT DO NOTHING).
Inserts(c) == Live(person[cmd[c].on]) /\ ByKey(Head(cmd[c].keys)) \ direct[cmd[c].on] # {}

InsertRole(c) ==
    LET h == cmd[c]
        u == h.on
        ids == ByKey(Head(h.keys))
        all == h.ids \cup ids
        last == Len(h.keys) = 1 IN
    /\ h.pc = "insert" /\ Inserts(c)
    /\ direct' = [direct EXCEPT ![u] = @ \cup ids]
    /\ cmd' = [cmd EXCEPT ![c] = IF last THEN NoCmd ELSE [h EXCEPT !.keys = Tail(@), !.ids = all]]
    /\ ticked' = IF last THEN [ticked EXCEPT ![u] = all] ELSE ticked
    /\ Clash(u, c) /\ Disturb(u, c)
    /\ UNCHANGED <<person, role, group, work, set>>

FailUser(c) ==
    LET h == cmd[c] IN
    /\ h.kind \in UserKinds
    /\ \/ h.pc = "insert" /\ ~Inserts(c) /\ UNCHANGED work
       \/ h.pc \in {"clear", "insert"} /\ Erring
    /\ clashed' = IF Live(person[h.on]) THEN clashed \cup {h.on} ELSE clashed
    /\ Finish(c)
    /\ UNCHANGED <<tables, ticked, set, disturbed>>

-----------------------------------------------------------------------------
(***************************************************************************)
(* Roles.                                                                  *)
(***************************************************************************)
\* UpsertCustomRole: key is UNIQUE, built-in roles stay as they are.
SaveRole(c) ==
    LET h == cmd[c] IN
    /\ h.pc = "apply" /\ h.kind = "saveRole"
    /\ role' = IF h.on \in CustomRoles /\ role[h.on] # Gone /\ ByKey(h.keys[1]) \subseteq {h.on}
               THEN [role EXCEPT ![h.on] = [key |-> h.keys[1],
                                            rights |-> NormalizePermissions(h.rights)]]
               ELSE role
    /\ Finish(c)
    /\ UNCHANGED <<person, direct, group, work, memory>>

DirectWithout(r) == [u \in Staff |-> direct[u] \ {r}]

\* DeleteCustomRole and its cascades.
DeleteRole(c) ==
    LET r == cmd[c].on IN
    /\ cmd[c].pc = "apply" /\ cmd[c].kind = "deleteRole"
    /\ IF r \in CustomRoles /\ Live(role[r])
       THEN /\ role' = [role EXCEPT ![r] = Gone]
            /\ direct' = DirectWithout(r)
            /\ group' = [g \in Groups |-> IF Live(group[g]) THEN [group[g] EXCEPT !.roles = @ \ {r}]
                                                             ELSE group[g]]
            /\ set' = [g \in Groups |-> [set[g] EXCEPT !.roles = @ \ {r}]]
            /\ ticked' = [u \in Staff |-> ticked[u] \ {r}]
            /\ cmd' = [d \in Commands |-> IF d = c THEN NoCmd ELSE [cmd[d] EXCEPT !.ids = @ \ {r}]]
       ELSE Finish(c) /\ UNCHANGED <<role, direct, group, set, ticked>>
    /\ UNCHANGED <<person, work, clashed, disturbed>>

-----------------------------------------------------------------------------
(***************************************************************************)
(* Groups.                                                                 *)
(***************************************************************************)
Alter(g, new) == group' = [group EXCEPT ![g] = IF Live(@) THEN new ELSE @]

\* UpsertUserGroup: the row, replaceGroupMembers, replaceGroupRoles.
WriteGroup(c) ==
    LET h == cmd[c]
        g == h.on IN
    /\ h.pc = "apply" /\ h.kind = "saveGroup"
    /\ IF group[g] = Gone THEN Finish(c) /\ UNCHANGED <<group, clashed>>
       ELSE /\ group' = [group EXCEPT ![g] = IF @ = Absent
                            THEN [disabled |-> h.off, members |-> {}, roles |-> {}]
                            ELSE [@ EXCEPT !.disabled = h.off]]
            /\ Go(c, "clearMembers")
            /\ clashed' = IF Changing(g, c) = {} THEN clashed \ {g} ELSE clashed \cup {g}
    /\ UNCHANGED <<person, direct, role, work, ticked, set, disturbed>>

MembersCleared(g) == {}

ClearMembers(c) ==
    LET g == cmd[c].on IN
    /\ cmd[c].pc = "clearMembers"
    /\ Alter(g, [group[g] EXCEPT !.members = MembersCleared(g)])
    /\ Go(c, "members") /\ Clash(g, c)
    /\ UNCHANGED <<person, direct, role, work, ticked, set, disturbed>>

InsertMember(c) ==
    LET h == cmd[c]
        g == h.on IN
    /\ h.pc = "members"
    /\ \/ \E u \in h.people : /\ Live(person[u]) /\ Live(group[g])
                              /\ group' = [group EXCEPT ![g].members = @ \cup {u}]
                              /\ cmd' = [cmd EXCEPT ![c].people = @ \ {u}]
       \/ h.people = {} /\ Go(c, "clearRoles") /\ UNCHANGED group
    /\ Clash(g, c)
    /\ UNCHANGED <<person, direct, role, work, ticked, set, disturbed>>

ClearGroupRoles(c) ==
    LET g == cmd[c].on IN
    /\ cmd[c].pc = "clearRoles"
    /\ Alter(g, [group[g] EXCEPT !.roles = {}])
    /\ Go(c, "roles") /\ Clash(g, c)
    /\ UNCHANGED <<person, direct, role, work, ticked, set, disturbed>>

\* A role that does not exist is skipped, unlike in replaceUserRoles.
InsertGroupRole(c) ==
    LET h == cmd[c]
        g == h.on
        ids == ByKey(Head(h.keys))
        last == Len(h.keys) = 1 IN
    /\ h.pc = "roles" /\ (Live(group[g]) \/ ids = {})
    /\ Alter(g, [group[g] EXCEPT !.roles = @ \cup ids])
    /\ cmd' = [cmd EXCEPT ![c] = IF last THEN NoCmd
                                 ELSE [h EXCEPT !.keys = Tail(@), !.ids = @ \cup ids]]
    /\ set' = IF last THEN [set EXCEPT ![g] = [members |-> {u \in h.team : Live(person[u])},
                                               roles |-> h.ids \cup ids]]
              ELSE set
    /\ Clash(g, c)
    /\ UNCHANGED <<person, direct, role, work, ticked, disturbed>>

\* A foreign key or a statement fails: what went before stays.
FailGroup(c) ==
    LET h == cmd[c]
        g == h.on IN
    /\ \/ h.pc = "members" /\ (\E u \in h.people : ~Live(person[u]) \/ ~Live(group[g])) /\ UNCHANGED work
       \/ h.pc = "roles" /\ ~Live(group[g]) /\ ByKey(Head(h.keys)) # {} /\ UNCHANGED work
       \/ h.pc \in {"clearMembers", "members", "clearRoles", "roles"} /\ Erring
    /\ clashed' = clashed \cup {g}
    /\ Finish(c)
    /\ UNCHANGED <<tables, ticked, set, disturbed>>

DeleteGroup(c) ==
    LET g == cmd[c].on IN
    /\ cmd[c].pc = "apply" /\ cmd[c].kind = "deleteGroup"
    /\ group' = [group EXCEPT ![g] = Gone]
    /\ Finish(c)
    /\ UNCHANGED <<person, direct, role, work, memory>>

-----------------------------------------------------------------------------
CommandStep(c) ==
    \/ LoadRoles(c) \/ ReadFallback(c) \/ FallbackClears(c) \/ FallbackInserts(c)
    \/ CheckUser(c) \/ WriteUser(c) \/ ClearRoles(c) \/ InsertRole(c) \/ FailUser(c)
    \/ SaveRole(c) \/ DeleteRole(c)
    \/ WriteGroup(c) \/ ClearMembers(c) \/ InsertMember(c) \/ ClearGroupRoles(c)
    \/ InsertGroupRole(c) \/ FailGroup(c) \/ DeleteGroup(c)

Request(c) ==
    /\ cmd[c].pc = "done" /\ work.starts > 0
    /\ \/ \E u \in Staff : StartLoad(c, u)
       \/ \E k \in UserKinds \cap work.kinds, who, u \in Staff, keys \in Choices, off \in BOOLEAN :
             StartUser(c, who, u, k, keys, off)
       \/ \E k \in RoleKinds \cap work.kinds, who \in Staff, r \in RoleIds, key \in CustomKeys,
            rights \in SUBSET Rights : StartRole(c, who, r, k, key, rights)
       \/ \E k \in GroupKinds \cap work.kinds, who \in Staff, g \in Groups, people \in SUBSET Staff,
            keys \in Choices, off \in BOOLEAN : StartGroup(c, who, g, k, people, keys, off)

RolesNext == \E c \in Commands : Request(c) \/ CommandStep(c)

RolesSpec == RolesInit /\ [][RolesNext]_roleVars

-----------------------------------------------------------------------------
\* Once no request is at work on a user, the direct roles are the roles that the
\* last update ticked (those that still exist, if any does), and the role
\* column, which hasPermission trusts for "admin", is not left from an earlier
\* update; whatever loads, deletions of roles and failed updates went before.
\* Excused are users whose last updates overlapped or failed half-way
\* (replaceUserRoles is no transaction), and those for whom a load wrote its
\* fallback role during an update.
SettledRoles ==
    \A u \in Staff : At(u) = {} /\ Live(person[u]) /\ u \notin clashed \cup disturbed =>
        /\ ticked[u] # {} => direct[u] = ticked[u]
        /\ person[u].role = "admin" => "admin" \in ticked[u]

\* Once no request is at work on a group, it has the members and the roles of
\* the last request that saved it, less the users and roles deleted since,
\* unless saves of it overlapped or failed half-way.
SettledGroups ==
    \A g \in Groups : At(g) = {} /\ Live(group[g]) /\ g \notin clashed =>
        group[g].members = set[g].members /\ group[g].roles = set[g].roles

\* Users and groups are what was last saved for them, although every save is a
\* series of statements and other requests read and write in between.
EditsSettle == SettledRoles /\ SettledGroups
=============================================================================
