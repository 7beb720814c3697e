--------------------------- MODULE Roles_proofs ---------------------------
(***************************************************************************)
(* Proofs about Roles.                                                     *)
(*                                                                         *)
(* The inductive invariant RolesInv says what is true while a series of    *)
(* statements is on its way: what a command carries at each of them        *)
(* (Carries), that somebody not excused is written by one command at most  *)
(* (Alone), and how much of the ticked roles or members the tables hold so *)
(* far (UserSteady, GroupSteady).                                          *)
(***************************************************************************)
EXTENDS Roles, TLAPS

\* Where a command stands: an update of a user, a load, a save of a group; a
\* command at ReplacePcs is replacing rows of user_roles.
UserPcs == {"check", "row", "clear", "insert"}
LoadPcs == {"load", "fallback", "fbClear", "fbInsert"}
SavePcs == {"clearMembers", "members", "clearRoles", "roles"}
ReplacePcs == {"clear", "insert"}

\* The commands and the tables with their types.
RoleCommand ==
    [pc : {"done", "apply"} \cup UserPcs \cup LoadPcs \cup SavePcs,
     kind : CommandKinds \cup {"-"}, who : Staff \cup {Absent},
     on : Staff \cup RoleIds \cup Groups \cup {Absent}, keys : Seq(RoleKeys), off : BOOLEAN,
     ids : SUBSET RoleIds, people : SUBSET Staff, team : SUBSET Staff, rights : SUBSET Rights]

RolesTyped ==
    /\ person \in [Staff -> PersonRow \cup {Absent, Gone}]
    /\ direct \in [Staff -> SUBSET RoleIds]
    /\ role \in [RoleIds -> RoleRow \cup {Absent, Gone}]
    /\ group \in [Groups -> GroupRow \cup {Absent, Gone}]
    /\ cmd \in [Commands -> RoleCommand]
    /\ ticked \in [Staff -> SUBSET RoleIds]
    /\ set \in [Groups -> [members : SUBSET Staff, roles : SUBSET RoleIds]]
    /\ clashed \subseteq Staff \cup Groups /\ disturbed \subseteq Staff

\* What a command carries at each of its statements.
Carries(c) ==
    /\ cmd[c].pc \in UserPcs => cmd[c].on \in Staff /\ cmd[c].kind \in UserKinds
    /\ cmd[c].pc \in LoadPcs => cmd[c].on \in Staff /\ cmd[c].kind = "load"
    /\ cmd[c].pc = "fbInsert" \/ cmd[c].pc = "fbClear" => cmd[c].keys # <<>>
    /\ cmd[c].pc \in UserPcs /\ cmd[c].kind \in {"create", "update"} => cmd[c].keys # <<>>
    /\ cmd[c].pc \in ReplacePcs => cmd[c].kind \in {"create", "update"}
                                   /\ person[cmd[c].on] # Absent
    /\ cmd[c].pc = "apply" =>
          \/ cmd[c].kind \in RoleKinds /\ cmd[c].on \in RoleIds /\ cmd[c].keys # <<>>
          \/ cmd[c].kind = "saveGroup" /\ cmd[c].on \in Groups /\ cmd[c].keys # <<>> /\ cmd[c].people = cmd[c].team
          \/ cmd[c].kind = "deleteGroup" /\ cmd[c].on \in Groups
    /\ cmd[c].pc \in SavePcs => cmd[c].on \in Groups /\ cmd[c].keys # <<>> /\ group[cmd[c].on] # Absent
    /\ cmd[c].pc = "clearMembers" => cmd[c].people = cmd[c].team
    /\ cmd[c].pc = "members" => cmd[c].people \subseteq cmd[c].team
    /\ cmd[c].pc \notin {"insert", "roles"} => cmd[c].ids = {}
    /\ cmd[c].pc \in {"clearRoles", "roles"} => cmd[c].people = {}

\* The commands that are replacing the roles of u, or saving g.
Changers(x) == {c \in Commands : cmd[c].on = x /\ cmd[c].pc \in ReplacePcs \cup SavePcs}

\* At most one does.
Alone(x) == \A c, d \in Changers(x) : c = d

\* What the roles of u are while they are replaced, and afterwards.
UserSteady(u) ==
    /\ u \notin clashed => Alone(u)
    /\ Live(person[u]) /\ u \notin clashed \cup disturbed =>
          /\ \A c \in Changers(u) :
                /\ cmd[c].pc = "insert" => direct[u] = cmd[c].ids
                /\ person[u].role = "admin" => "admin" \in cmd[c].ids \/ cmd[c].keys[1] = "admin"
          /\ Changers(u) = {} =>
                /\ ticked[u] # {} => direct[u] = ticked[u]
                /\ person[u].role = "admin" => "admin" \in ticked[u]

\* The members and the roles of g while it is saved, and afterwards.
GroupSteady(g) ==
    /\ g \notin clashed => Alone(g)
    /\ Live(group[g]) /\ g \notin clashed =>
          /\ \A c \in Changers(g) :
                /\ cmd[c].pc # "clearMembers" =>
                      /\ \A u \in cmd[c].team \ cmd[c].people : person[u] # Absent
                      /\ group[g].members = {u \in cmd[c].team \ cmd[c].people : Live(person[u])}
                /\ cmd[c].pc = "roles" => group[g].roles = cmd[c].ids
          /\ Changers(g) = {} => group[g].members = set[g].members /\ group[g].roles = set[g].roles

\* The built-in role of administrators keeps its key.
AdminStays == role["admin"] \in RoleRow /\ role["admin"].key = "admin"

\* The foreign keys: users and groups have roles that exist, and groups have
\* members that exist.
References ==
    /\ \A u \in Staff : \A r \in direct[u] : Live(role[r])
    /\ \A g \in Groups : Live(group[g]) =>
          /\ \A u \in group[g].members : Live(person[u])
          /\ \A r \in group[g].roles : Live(role[r])

\* The inductive invariant.
RolesInv ==
    /\ RolesTyped /\ AdminStays /\ References
    /\ \A c \in Commands : Carries(c)
    /\ \A u \in Staff : UserSteady(u)
    /\ \A g \in Groups : GroupSteady(g)

-----------------------------------------------------------------------------
(***************************************************************************)
(* Types.                                                                  *)
(***************************************************************************)
\* Every place a command stands at.
Stands == {"done", "apply"} \cup UserPcs \cup LoadPcs \cup SavePcs

\* A command that goes on or returns.
LEMMA CommandMoves ==
    ASSUME RolesTyped, NEW c \in Commands
    PROVE  /\ NoCmd \in RoleCommand
           /\ \A step \in Stands : Go(c, step) =>
                 /\ cmd' \in [Commands -> RoleCommand]
                 /\ cmd'[c] = [cmd[c] EXCEPT !.pc = step]
                 /\ cmd'[c].pc = step /\ cmd'[c].on = cmd[c].on /\ cmd'[c].kind = cmd[c].kind
                 /\ cmd'[c].keys = cmd[c].keys /\ cmd'[c].ids = cmd[c].ids
                 /\ cmd'[c].people = cmd[c].people /\ cmd'[c].team = cmd[c].team
                 /\ \A d \in Commands \ {c} : cmd'[d] = cmd[d]
           /\ Finish(c) =>
                 /\ cmd' \in [Commands -> RoleCommand]
                 /\ cmd'[c] = NoCmd
                 /\ \A d \in Commands \ {c} : cmd'[d] = cmd[d]
<1>1. cmd \in [Commands -> RoleCommand] /\ cmd[c] \in RoleCommand
  BY DEF RolesTyped
<1>2. NoCmd \in RoleCommand
  BY DEF NoCmd, RoleCommand
<1>3. ASSUME NEW step \in Stands, Go(c, step)
      PROVE  /\ cmd' \in [Commands -> RoleCommand]
             /\ cmd'[c] = [cmd[c] EXCEPT !.pc = step]
             /\ cmd'[c].pc = step /\ cmd'[c].on = cmd[c].on /\ cmd'[c].kind = cmd[c].kind
             /\ cmd'[c].keys = cmd[c].keys /\ cmd'[c].ids = cmd[c].ids
             /\ cmd'[c].people = cmd[c].people /\ cmd'[c].team = cmd[c].team
             /\ \A d \in Commands \ {c} : cmd'[d] = cmd[d]
  <2>1. cmd' = [cmd EXCEPT ![c] = [cmd[c] EXCEPT !.pc = step]]
    BY <1>3 DEF Go
  <2>2. [cmd[c] EXCEPT !.pc = step] \in RoleCommand
    BY <1>1 DEF RoleCommand, Stands
  <2> QED
    BY <1>1, <2>1, <2>2 DEF RoleCommand
<1>4. ASSUME Finish(c)
      PROVE  /\ cmd' \in [Commands -> RoleCommand]
             /\ cmd'[c] = NoCmd
             /\ \A d \in Commands \ {c} : cmd'[d] = cmd[d]
  BY <1>1, <1>2, <1>4 DEF Finish
<1> QED
  BY <1>2, <1>3, <1>4

\* The rows that a key names.
LEMMA ByKeyTypes == ASSUME NEW k PROVE ByKey(k) \in SUBSET RoleIds
  BY DEF ByKey

\* The places a command goes to.
LEMMA StandsFacts ==
    {"done", "apply", "check", "row", "clear", "insert", "load", "fallback", "fbClear",
     "fbInsert", "clearMembers", "members", "clearRoles", "roles"} = Stands
  BY DEF Stands, UserPcs, LoadPcs, SavePcs

\* The parts of the state that keep their types when they are not written.
LEMMA TypedParts ==
    ASSUME RolesTyped,
           person' \in [Staff -> PersonRow \cup {Absent, Gone}],
           direct' \in [Staff -> SUBSET RoleIds],
           role' \in [RoleIds -> RoleRow \cup {Absent, Gone}],
           group' \in [Groups -> GroupRow \cup {Absent, Gone}],
           cmd' \in [Commands -> RoleCommand],
           ticked' \in [Staff -> SUBSET RoleIds],
           set' \in [Groups -> [members : SUBSET Staff, roles : SUBSET RoleIds]],
           clashed' \subseteq Staff \cup Groups, disturbed' \subseteq Staff
    PROVE  RolesTyped'
  BY DEF RolesTyped

\* A request accepts a well-typed command.
LEMMA RequestTypes ==
    ASSUME RolesTyped, NEW c \in Commands, Request(c)
    PROVE  /\ UNCHANGED <<tables, memory>>
           /\ cmd[c].pc = "done"
           /\ \E new \in RoleCommand :
                 /\ cmd' = [cmd EXCEPT ![c] = new]
                 /\ new.ids = {}
                 /\ \/ new.pc = "load" /\ new.kind = "load" /\ new.on \in Staff
                    \/ /\ new.pc \in {"row", "check"} /\ new.kind \in UserKinds /\ new.on \in Staff
                       /\ new.kind \in {"create", "update"} => new.keys # <<>>
                    \/ new.pc = "apply" /\ new.kind \in RoleKinds /\ new.on \in RoleIds /\ new.keys # <<>>
                    \/ /\ new.pc = "apply" /\ new.kind \in GroupKinds /\ new.on \in Groups
                       /\ new.keys # <<>> /\ new.people = new.team
<1> DEFINE Good(new) ==
      /\ new \in RoleCommand /\ new.ids = {}
      /\ \/ new.pc = "load" /\ new.kind = "load" /\ new.on \in Staff
         \/ /\ new.pc \in {"row", "check"} /\ new.kind \in UserKinds /\ new.on \in Staff
            /\ new.kind \in {"create", "update"} => new.keys # <<>>
         \/ new.pc = "apply" /\ new.kind \in RoleKinds /\ new.on \in RoleIds /\ new.keys # <<>>
         \/ /\ new.pc = "apply" /\ new.kind \in GroupKinds /\ new.on \in Groups
            /\ new.keys # <<>> /\ new.people = new.team
<1>1. NoCmd \in RoleCommand
  BY CommandMoves
<1>2. SUFFICES \E new : Begins(c, new) /\ Good(new)
  BY DEF Request, Begins
<1>3. ASSUME NEW u \in Staff, StartLoad(c, u) PROVE \E new : Begins(c, new) /\ Good(new)
  <2>1. Good([NoCmd EXCEPT !.pc = "load", !.kind = "load", !.on = u])
    BY <1>1 DEF NoCmd, RoleCommand, LoadPcs, CommandKinds
  <2> HIDE DEF Good
  <2> QED
    BY <1>3, <2>1 DEF StartLoad
<1>4. ASSUME NEW k \in UserKinds \cap work.kinds, NEW who \in Staff, NEW u \in Staff,
             NEW keys \in Choices, NEW off \in BOOLEAN, StartUser(c, who, u, k, keys, off)
      PROVE  \E new : Begins(c, new) /\ Good(new)
  <2> DEFINE new == [NoCmd EXCEPT !.pc = IF k = "create" THEN "row" ELSE "check", !.kind = k,
                        !.on = u, !.keys = IF k \in {"create", "update"} THEN keys ELSE <<>>,
                        !.off = IF k = "enable" THEN FALSE ELSE k = "disable" \/ off,
                        !.who = who]
  <2>1. Begins(c, new)
    BY <1>4 DEF StartUser, Asks, NoCmd
  <2>2. keys \in Seq(RoleKeys) /\ keys # <<>> /\ <<>> \in Seq(RoleKeys)
    BY ChoicesAssumption
  <2>3. (IF k = "enable" THEN FALSE ELSE k = "disable" \/ off) \in BOOLEAN
    OBVIOUS
  <2>4. /\ new.pc \in {"row", "check"} /\ new.kind = k /\ new.on = u /\ new.who = who
        /\ new.keys \in Seq(RoleKeys) /\ (k \in {"create", "update"} => new.keys # <<>>)
        /\ new.off \in BOOLEAN /\ new.ids = {}
    BY <2>2, <2>3 DEF NoCmd
  <2>5. new \in RoleCommand
    BY <2>2, <2>3 DEF NoCmd, RoleCommand, UserPcs, CommandKinds
  <2>6. Good(new)
    BY <1>4, <2>4, <2>5
  <2> HIDE DEF Good, new
  <2> QED
    BY <2>1, <2>6
<1>5. ASSUME NEW k \in RoleKinds \cap work.kinds, NEW who \in Staff, NEW r \in RoleIds,
             NEW key \in CustomKeys, NEW rights \in SUBSET Rights,
             StartRole(c, who, r, k, key, rights)
      PROVE  \E new : Begins(c, new) /\ Good(new)
  <2> DEFINE new == [NoCmd EXCEPT !.pc = "apply", !.kind = k, !.on = r, !.keys = <<key>>,
                                  !.rights = rights, !.who = who]
  <2>1. Begins(c, new)
    BY <1>5 DEF StartRole, Asks, NoCmd
  <2>2. <<key>> \in Seq(RoleKeys) /\ <<key>> # <<>>
    BY DEF RoleKeys
  <2>3. Good(new)
    BY <1>1, <2>2 DEF NoCmd, RoleCommand, CommandKinds
  <2> HIDE DEF Good, new
  <2> QED
    BY <2>1, <2>3
<1>6. ASSUME NEW k \in GroupKinds \cap work.kinds, NEW who \in Staff, NEW g \in Groups,
             NEW people \in SUBSET Staff, NEW keys \in Choices, NEW off \in BOOLEAN,
             StartGroup(c, who, g, k, people, keys, off)
      PROVE  \E new : Begins(c, new) /\ Good(new)
  <2> DEFINE new == [NoCmd EXCEPT !.pc = "apply", !.kind = k, !.on = g, !.people = people,
                                  !.team = people, !.keys = keys, !.off = off, !.who = who]
  <2>1. Begins(c, new)
    BY <1>6 DEF StartGroup, Asks, NoCmd
  <2>2. keys \in Seq(RoleKeys) /\ keys # <<>>
    BY ChoicesAssumption
  <2>3. Good(new)
    BY <1>1, <2>2 DEF NoCmd, RoleCommand, CommandKinds
  <2> HIDE DEF Good, new
  <2> QED
    BY <2>1, <2>3
<1> HIDE DEF Good
<1> QED
  BY <1>3, <1>4, <1>5, <1>6 DEF Request

\* The keys that a command has still to insert.
LEMMA KeyFacts ==
    ASSUME NEW keys \in Seq(RoleKeys), keys # <<>>
    PROVE  /\ Head(keys) = keys[1] /\ keys[1] \in RoleKeys
           /\ Tail(keys) \in Seq(RoleKeys)
           /\ Len(keys) # 1 => Tail(keys) # <<>>
<1>1. Len(keys) \in Nat /\ Len(keys) # 0
  OBVIOUS
<1>2. Head(keys) = keys[1] /\ keys[1] \in RoleKeys /\ Tail(keys) \in Seq(RoleKeys)
  BY <1>1
<1>3. Len(Tail(keys)) = Len(keys) - 1
  BY <1>1
<1>4. Len(keys) # 1 => Len(Tail(keys)) # 0
  BY <1>1, <1>3
<1>5. ASSUME Tail(keys) = <<>> PROVE Len(Tail(keys)) = 0
  <2>1. Len(<<>>) = 0
    OBVIOUS
  <2> QED
    BY <1>5, <2>1, Zenon
<1> QED
  BY <1>2, <1>4, <1>5

\* A row that exists is a record.
LEMMA LiveRows ==
    ASSUME RolesTyped
    PROVE  /\ \A u \in Staff : Live(person[u]) <=> person[u] \in PersonRow
           /\ \A r \in RoleIds : Live(role[r]) <=> role[r] \in RoleRow
           /\ \A g \in Groups : Live(group[g]) <=> group[g] \in GroupRow
  BY RowsAssumption DEF RolesTyped, Live

\* The loads of a user keep the types.
LEMMA LoadTypes ==
    ASSUME RolesTyped, NEW c \in Commands, Carries(c),
           LoadRoles(c) \/ ReadFallback(c) \/ FallbackClears(c) \/ FallbackInserts(c)
    PROVE  RolesTyped'
<1> USE DEF tables, memory
<1>0. cmd[c] \in RoleCommand /\ cmd \in [Commands -> RoleCommand]
  BY DEF RolesTyped
<1>1. CASE LoadRoles(c)
  <2>1. cmd' \in [Commands -> RoleCommand]
    BY <1>1, CommandMoves, StandsFacts DEF LoadRoles
  <2> QED
    BY <1>1, <2>1 DEF LoadRoles, RolesTyped
<1>2. CASE ReadFallback(c)
  <2>1. cmd' \in [Commands -> RoleCommand]
    <3>1. CASE Finish(c)
      BY <3>1, CommandMoves
    <3>2. CASE /\ Live(person[cmd[c].on])
               /\ cmd' = [cmd EXCEPT ![c].pc = "fbClear", ![c].keys = <<person[cmd[c].on].role>>]
      <4>1. person[cmd[c].on].role \in RoleKeys
        BY <1>2, <3>2, LiveRows DEF ReadFallback, Carries, LoadPcs, PersonRow
      <4>2. [cmd[c] EXCEPT !.pc = "fbClear", !.keys = <<person[cmd[c].on].role>>] \in RoleCommand
        <5>1. <<person[cmd[c].on].role>> \in Seq(RoleKeys)
          BY <4>1
        <5> QED
          BY <1>0, <5>1 DEF RoleCommand, LoadPcs
      <4>3. cmd' = [cmd EXCEPT ![c] = [cmd[c] EXCEPT !.pc = "fbClear",
                                                     !.keys = <<person[cmd[c].on].role>>]]
        BY <3>2
      <4> QED
        BY <1>0, <4>2, <4>3
    <3> QED
      BY <1>2, <3>1, <3>2 DEF ReadFallback
  <2> QED
    BY <1>2, <2>1 DEF ReadFallback, RolesTyped
<1>3. CASE FallbackClears(c) \/ FallbackInserts(c)
  <2>1. cmd' \in [Commands -> RoleCommand]
    BY <1>3, CommandMoves, StandsFacts DEF FallbackClears, FallbackInserts
  <2>2. cmd[c].on \in Staff
    BY <1>3 DEF FallbackClears, FallbackInserts, Carries, LoadPcs
  <2>3. direct' \in [Staff -> SUBSET RoleIds] /\ disturbed' \subseteq Staff
    BY <1>3, <2>2, ByKeyTypes DEF FallbackClears, FallbackInserts, RolesTyped
  <2>4. UNCHANGED <<person, role, group, ticked, set, clashed>>
    BY <1>3 DEF FallbackClears, FallbackInserts
  <2> QED
    BY <2>1, <2>3, <2>4 DEF RolesTyped
<1> QED
  BY <1>1, <1>2, <1>3

\* The updates of users keep the types.
LEMMA UserTypes ==
    ASSUME RolesTyped, NEW c \in Commands, Carries(c),
           CheckUser(c) \/ WriteUser(c) \/ ClearRoles(c) \/ InsertRole(c) \/ FailUser(c)
    PROVE  RolesTyped'
<1> USE DEF tables, memory
<1>0. cmd[c] \in RoleCommand /\ cmd \in [Commands -> RoleCommand]
  BY DEF RolesTyped
<1>1. CASE CheckUser(c)
  <2>1. cmd' \in [Commands -> RoleCommand]
    BY <1>1, CommandMoves, StandsFacts DEF CheckUser
  <2> QED
    BY <1>1, <2>1 DEF CheckUser, RolesTyped
<1>2. CASE WriteUser(c)
  <2>0. /\ cmd[c].on \in Staff /\ cmd[c].off \in BOOLEAN /\ cmd[c].keys \in Seq(RoleKeys)
        /\ cmd[c].kind \in {"create", "update"} => cmd[c].keys[1] \in RoleKeys
    BY <1>0, <1>2, KeyFacts DEF WriteUser, Carries, UserPcs, RoleCommand
  <2>1. cmd' \in [Commands -> RoleCommand]
    BY <1>2, CommandMoves, StandsFacts DEF WriteUser
  <2>2. person' \in [Staff -> PersonRow \cup {Absent, Gone}]
    <3>1. CASE person' = person
      BY <3>1 DEF RolesTyped
    <3>2. CASE /\ cmd[c].kind \in {"create", "update"}
               /\ person' = [person EXCEPT ![cmd[c].on] =
                                [role |-> cmd[c].keys[1], disabled |-> cmd[c].off]]
      BY <2>0, <3>2 DEF RolesTyped, PersonRow
    <3>3. CASE /\ Live(person[cmd[c].on])
               /\ person' = [person EXCEPT ![cmd[c].on].disabled = cmd[c].off]
      <4>1. [person[cmd[c].on] EXCEPT !.disabled = cmd[c].off] \in PersonRow
        BY <2>0, <3>3, LiveRows DEF PersonRow
      <4>2. person' = [person EXCEPT ![cmd[c].on] = [person[cmd[c].on] EXCEPT !.disabled = cmd[c].off]]
        BY <3>3
      <4> QED
        BY <4>1, <4>2 DEF RolesTyped
    <3>4. CASE person' = [person EXCEPT ![cmd[c].on] = Gone]
      BY <3>4 DEF RolesTyped
    <3> QED
      BY <1>2, <3>1, <3>2, <3>3, <3>4 DEF WriteUser
  <2>3. direct' \in [Staff -> SUBSET RoleIds]
    <3>1. direct' = direct \/ direct' = [direct EXCEPT ![cmd[c].on] = {}]
      BY <1>2 DEF WriteUser
    <3> QED
      BY <2>0, <3>1 DEF RolesTyped
  <2>4. group' \in [Groups -> GroupRow \cup {Absent, Gone}]
    <3>1. ASSUME NEW g \in Groups, Live(group[g])
          PROVE  [group[g] EXCEPT !.members = @ \ {cmd[c].on}] \in GroupRow
      BY <3>1, LiveRows DEF GroupRow
    <3>2. \/ group' = group
          \/ group' = [g \in Groups |-> IF Live(group[g])
                          THEN [group[g] EXCEPT !.members = @ \ {cmd[c].on}] ELSE group[g]]
      BY <1>2 DEF WriteUser
    <3> QED
      BY <3>1, <3>2 DEF RolesTyped
  <2>5. set' \in [Groups -> [members : SUBSET Staff, roles : SUBSET RoleIds]]
    <3>1. \/ set' = set
          \/ set' = [g \in Groups |-> [set[g] EXCEPT !.members = @ \ {cmd[c].on}]]
      BY <1>2 DEF WriteUser
    <3> QED
      BY <3>1 DEF RolesTyped
  <2>6. clashed' \subseteq Staff \cup Groups /\ disturbed' \subseteq Staff
    BY <1>2, <2>0 DEF WriteUser, Recover, RolesTyped
  <2>7. UNCHANGED <<role, ticked>>
    BY <1>2 DEF WriteUser
  <2> QED
    BY <2>1, <2>2, <2>3, <2>4, <2>5, <2>6, <2>7, TypedParts DEF RolesTyped
<1>3. CASE ClearRoles(c)
  <2>1. cmd' \in [Commands -> RoleCommand] /\ cmd[c].on \in Staff
    BY <1>3, CommandMoves, StandsFacts DEF ClearRoles, Carries, UserPcs
  <2>2. direct' \in [Staff -> SUBSET RoleIds]
    BY <1>3, <2>1 DEF ClearRoles, Cleared, RolesTyped
  <2>3. clashed' \subseteq Staff \cup Groups /\ disturbed' \subseteq Staff
    BY <1>3, <2>1 DEF ClearRoles, Clash, Disturb, RolesTyped
  <2> QED
    BY <1>3, <2>1, <2>2, <2>3 DEF ClearRoles, RolesTyped
<1>4. CASE InsertRole(c)
  <2> DEFINE h == cmd[c]
             ids == ByKey(Head(h.keys))
  <2>1. h.on \in Staff /\ ids \subseteq RoleIds /\ h.ids \subseteq RoleIds
    BY <1>0, <1>4, ByKeyTypes DEF InsertRole, Carries, UserPcs, RoleCommand
  <2>2. cmd' \in [Commands -> RoleCommand]
    <3>1. NoCmd \in RoleCommand
      BY CommandMoves
    <3>2. Tail(h.keys) \in Seq(RoleKeys)
      <4>1. h.keys \in Seq(RoleKeys) /\ h.keys # <<>>
        BY <1>0, <1>4 DEF InsertRole, Carries, UserPcs, ReplacePcs, RoleCommand
      <4> QED
        BY <4>1, KeyFacts
    <3>3. [h EXCEPT !.keys = Tail(@), !.ids = h.ids \cup ids] \in RoleCommand
      BY <1>0, <2>1, <3>2 DEF RoleCommand
    <3>4. cmd' = [cmd EXCEPT ![c] = IF Len(h.keys) = 1 THEN NoCmd
                               ELSE [h EXCEPT !.keys = Tail(@), !.ids = h.ids \cup ids]]
      BY <1>4 DEF InsertRole
    <3> QED
      BY <1>0, <3>1, <3>3, <3>4
  <2>3. direct' \in [Staff -> SUBSET RoleIds] /\ ticked' \in [Staff -> SUBSET RoleIds]
    BY <1>4, <2>1 DEF InsertRole, RolesTyped
  <2>4. clashed' \subseteq Staff \cup Groups /\ disturbed' \subseteq Staff
    BY <1>4, <2>1 DEF InsertRole, Clash, Disturb, RolesTyped
  <2> QED
    BY <1>4, <2>2, <2>3, <2>4 DEF InsertRole, RolesTyped
<1>5. CASE FailUser(c)
  <2>1. cmd' \in [Commands -> RoleCommand]
    BY <1>5, CommandMoves DEF FailUser
  <2>2. cmd[c].on \in Staff
    BY <1>5 DEF FailUser, Carries, UserPcs
  <2> QED
    BY <1>5, <2>1, <2>2 DEF FailUser, RolesTyped
<1> QED
  BY <1>1, <1>2, <1>3, <1>4, <1>5

\* The commands on roles and groups keep the types.
LEMMA GroupTypes ==
    ASSUME RolesTyped, NEW c \in Commands, Carries(c),
           \/ SaveRole(c) \/ DeleteRole(c) \/ WriteGroup(c) \/ ClearMembers(c)
           \/ InsertMember(c) \/ ClearGroupRoles(c) \/ InsertGroupRole(c) \/ FailGroup(c)
           \/ DeleteGroup(c)
    PROVE  RolesTyped'
<1> USE DEF tables, memory
<1>0. cmd[c] \in RoleCommand /\ cmd \in [Commands -> RoleCommand]
  BY DEF RolesTyped
<1>a. ASSUME NEW g \in Groups, NEW new, Live(group[g]) => new \in GroupRow, Alter(g, new)
      PROVE  group' \in [Groups -> GroupRow \cup {Absent, Gone}]
  BY <1>a DEF Alter, RolesTyped
<1>b. ASSUME NEW x, x \in Staff \cup Groups, Clash(x, c) \/ clashed' = clashed \cup {x}
      PROVE  clashed' \subseteq Staff \cup Groups
  BY <1>b DEF Clash, RolesTyped
<1>1. CASE SaveRole(c)
  <2>1. cmd' \in [Commands -> RoleCommand]
    BY <1>1, CommandMoves DEF SaveRole
  <2>2. cmd[c].on \in RoleIds /\ cmd[c].keys[1] \in RoleKeys
    <3>1. cmd[c].on \in RoleIds /\ cmd[c].keys # <<>>
      BY <1>1 DEF SaveRole, Carries, RoleKinds
    <3> QED
      BY <1>0, <3>1, KeyFacts DEF RoleCommand
  <2>3. NormalizePermissions(cmd[c].rights) \subseteq Rights
    BY <1>0 DEF NormalizePermissions, RoleCommand, Rights
  <2>4. role' \in [RoleIds -> RoleRow \cup {Absent, Gone}]
    BY <1>1, <2>2, <2>3 DEF SaveRole, RolesTyped, RoleRow
  <2> QED
    BY <1>1, <2>1, <2>4 DEF SaveRole, RolesTyped
<1>2. CASE DeleteRole(c)
  <2>1. CASE Finish(c) /\ UNCHANGED <<tables, work, memory>>
    BY <2>1, CommandMoves DEF RolesTyped
  <2>2. CASE /\ role' = [role EXCEPT ![cmd[c].on] = Gone]
             /\ direct' = DirectWithout(cmd[c].on)
             /\ group' = [g \in Groups |-> IF Live(group[g]) THEN [group[g] EXCEPT !.roles = @ \ {cmd[c].on}]
                                                             ELSE group[g]]
             /\ set' = [g \in Groups |-> [set[g] EXCEPT !.roles = @ \ {cmd[c].on}]]
             /\ ticked' = [u \in Staff |-> ticked[u] \ {cmd[c].on}]
             /\ cmd' = [d \in Commands |-> IF d = c THEN NoCmd ELSE [cmd[d] EXCEPT !.ids = @ \ {cmd[c].on}]]
             /\ UNCHANGED <<person, work, clashed, disturbed>>
    <3>1. \A d \in Commands : [cmd[d] EXCEPT !.ids = @ \ {cmd[c].on}] \in RoleCommand
      <4>1. ASSUME NEW x \in RoleCommand PROVE [x EXCEPT !.ids = @ \ {cmd[c].on}] \in RoleCommand
        BY DEF RoleCommand
      <4> QED
        BY <1>0, <4>1
    <3>2. cmd' \in [Commands -> RoleCommand]
      BY <2>2, <3>1, CommandMoves
    <3>3. ASSUME NEW g \in Groups, Live(group[g])
          PROVE  [group[g] EXCEPT !.roles = @ \ {cmd[c].on}] \in GroupRow
      BY <3>3, LiveRows DEF GroupRow
    <3>4. group' \in [Groups -> GroupRow \cup {Absent, Gone}]
      BY <2>2, <3>3 DEF RolesTyped
    <3>5. \A g \in Groups : [set[g] EXCEPT !.roles = @ \ {cmd[c].on}]
                               \in [members : SUBSET Staff, roles : SUBSET RoleIds]
      BY DEF RolesTyped
    <3>6. set' \in [Groups -> [members : SUBSET Staff, roles : SUBSET RoleIds]]
      BY <2>2, <3>5 DEF RolesTyped
    <3>7. direct' \in [Staff -> SUBSET RoleIds] /\ ticked' \in [Staff -> SUBSET RoleIds]
      BY <2>2 DEF DirectWithout, RolesTyped
    <3>8. role' \in [RoleIds -> RoleRow \cup {Absent, Gone}]
      BY <2>2 DEF RolesTyped
    <3> QED
      BY <2>2, <3>2, <3>4, <3>6, <3>7, <3>8, TypedParts DEF RolesTyped
  <2> QED
    BY <1>2, <2>1, <2>2 DEF DeleteRole
<1>3. CASE WriteGroup(c)
  <2>1. cmd[c].on \in Groups /\ cmd[c].off \in BOOLEAN
    BY <1>0, <1>3 DEF WriteGroup, Carries, RoleCommand, RoleKinds
  <2>2. cmd' \in [Commands -> RoleCommand]
    BY <1>3, CommandMoves, StandsFacts DEF WriteGroup
  <2>3. group' \in [Groups -> GroupRow \cup {Absent, Gone}]
    <3>1. CASE group' = group
      BY <3>1 DEF RolesTyped
    <3>2. CASE /\ group[cmd[c].on] # Gone
               /\ group' = [group EXCEPT ![cmd[c].on] = IF group[cmd[c].on] = Absent
                              THEN [disabled |-> cmd[c].off, members |-> {}, roles |-> {}]
                              ELSE [group[cmd[c].on] EXCEPT !.disabled = cmd[c].off]]
      <4>1. [disabled |-> cmd[c].off, members |-> {}, roles |-> {}] \in GroupRow
        BY <2>1 DEF GroupRow
      <4>2. group[cmd[c].on] # Absent => [group[cmd[c].on] EXCEPT !.disabled = cmd[c].off] \in GroupRow
        BY <2>1, <3>2, LiveRows DEF GroupRow, Live
      <4> QED
        BY <2>1, <3>2, <4>1, <4>2 DEF RolesTyped
    <3> QED
      BY <1>3, <3>1, <3>2 DEF WriteGroup
  <2>4. clashed' \subseteq Staff \cup Groups
    BY <1>3, <2>1 DEF WriteGroup, RolesTyped
  <2> QED
    BY <1>3, <2>2, <2>3, <2>4 DEF WriteGroup, RolesTyped
<1>4. CASE ClearMembers(c) \/ ClearGroupRoles(c)
  <2>1. cmd[c].on \in Groups
    BY <1>4 DEF ClearMembers, ClearGroupRoles, Carries, SavePcs
  <2>2. cmd' \in [Commands -> RoleCommand]
    BY <1>4, CommandMoves, StandsFacts DEF ClearMembers, ClearGroupRoles
  <2>3. group' \in [Groups -> GroupRow \cup {Absent, Gone}]
    <3>1. Live(group[cmd[c].on]) =>
             /\ [group[cmd[c].on] EXCEPT !.members = {}] \in GroupRow
             /\ [group[cmd[c].on] EXCEPT !.roles = {}] \in GroupRow
      BY <2>1, LiveRows DEF GroupRow
    <3> QED
      BY <1>4, <1>a, <2>1, <3>1 DEF ClearMembers, ClearGroupRoles, MembersCleared
  <2>4. clashed' \subseteq Staff \cup Groups
    BY <1>4, <1>b, <2>1 DEF ClearMembers, ClearGroupRoles
  <2> QED
    BY <1>4, <2>2, <2>3, <2>4 DEF ClearMembers, ClearGroupRoles, RolesTyped
<1>5. CASE InsertMember(c)
  <2>1. cmd[c].on \in Groups /\ cmd[c].people \subseteq Staff
    BY <1>0, <1>5 DEF InsertMember, Carries, SavePcs, RoleCommand
  <2>2. cmd' \in [Commands -> RoleCommand] /\ group' \in [Groups -> GroupRow \cup {Absent, Gone}]
    <3>1. CASE Go(c, "clearRoles") /\ UNCHANGED group
      BY <3>1, CommandMoves, StandsFacts DEF RolesTyped
    <3>2. CASE \E u \in cmd[c].people :
                  /\ Live(group[cmd[c].on])
                  /\ group' = [group EXCEPT ![cmd[c].on].members = @ \cup {u}]
                  /\ cmd' = [cmd EXCEPT ![c].people = @ \ {u}]
      <4>1. PICK u \in Staff :
               /\ Live(group[cmd[c].on])
               /\ group' = [group EXCEPT ![cmd[c].on] = [group[cmd[c].on] EXCEPT !.members = @ \cup {u}]]
               /\ cmd' = [cmd EXCEPT ![c] = [cmd[c] EXCEPT !.people = @ \ {u}]]
        BY <2>1, <3>2
      <4>2. [group[cmd[c].on] EXCEPT !.members = @ \cup {u}] \in GroupRow
        BY <2>1, <4>1, LiveRows DEF GroupRow
      <4>3. [cmd[c] EXCEPT !.people = @ \ {u}] \in RoleCommand
        BY <1>0 DEF RoleCommand
      <4> QED
        BY <1>0, <2>1, <4>1, <4>2, <4>3 DEF RolesTyped
    <3> QED
      BY <1>5, <3>1, <3>2 DEF InsertMember
  <2>3. clashed' \subseteq Staff \cup Groups
    BY <1>5, <1>b, <2>1 DEF InsertMember
  <2> QED
    BY <1>5, <2>2, <2>3 DEF InsertMember, RolesTyped
<1>6. CASE InsertGroupRole(c)
  <2> DEFINE h == cmd[c]
             ids == ByKey(Head(h.keys))
  <2>1. /\ h.on \in Groups /\ ids \subseteq RoleIds /\ h.ids \subseteq RoleIds
        /\ h.team \subseteq Staff /\ h.keys \in Seq(RoleKeys) /\ h.keys # <<>>
    BY <1>0, <1>6, ByKeyTypes DEF InsertGroupRole, Carries, SavePcs, RoleCommand
  <2>2. cmd' \in [Commands -> RoleCommand]
    <3>1. NoCmd \in RoleCommand
      BY CommandMoves
    <3>2. Tail(h.keys) \in Seq(RoleKeys)
      BY <2>1, KeyFacts
    <3>3. [h EXCEPT !.keys = Tail(@), !.ids = @ \cup ids] \in RoleCommand
      BY <1>0, <2>1, <3>2 DEF RoleCommand
    <3>4. cmd' = [cmd EXCEPT ![c] = IF Len(h.keys) = 1 THEN NoCmd
                               ELSE [h EXCEPT !.keys = Tail(@), !.ids = @ \cup ids]]
      BY <1>6 DEF InsertGroupRole
    <3> QED
      BY <1>0, <3>1, <3>3, <3>4
  <2>3. group' \in [Groups -> GroupRow \cup {Absent, Gone}]
    <3>1. Live(group[h.on]) => [group[h.on] EXCEPT !.roles = @ \cup ids] \in GroupRow
      BY <2>1, LiveRows DEF GroupRow
    <3> QED
      BY <1>6, <1>a, <2>1, <3>1 DEF InsertGroupRole
  <2>4. set' \in [Groups -> [members : SUBSET Staff, roles : SUBSET RoleIds]]
    BY <1>6, <2>1 DEF InsertGroupRole, RolesTyped
  <2>5. clashed' \subseteq Staff \cup Groups
    BY <1>6, <1>b, <2>1 DEF InsertGroupRole
  <2> QED
    BY <1>6, <2>2, <2>3, <2>4, <2>5 DEF InsertGroupRole, RolesTyped
<1>7. CASE FailGroup(c)
  <2>1. cmd[c].on \in Groups /\ cmd' \in [Commands -> RoleCommand]
    BY <1>7, CommandMoves DEF FailGroup, Carries, SavePcs
  <2>2. clashed' \subseteq Staff \cup Groups
    BY <1>7, <1>b, <2>1 DEF FailGroup
  <2> QED
    BY <1>7, <2>1, <2>2 DEF FailGroup, RolesTyped
<1>8. CASE DeleteGroup(c)
  <2>1. cmd' \in [Commands -> RoleCommand]
    BY <1>8, CommandMoves DEF DeleteGroup
  <2>2. group' \in [Groups -> GroupRow \cup {Absent, Gone}]
    BY <1>8 DEF DeleteGroup, RolesTyped
  <2> QED
    BY <1>8, <2>1, <2>2 DEF DeleteGroup, RolesTyped
<1> QED
  BY <1>1, <1>2, <1>3, <1>4, <1>5, <1>6, <1>7, <1>8

\* The role of administrators is never written.
LEMMA AdminStep ==
    ASSUME RolesTyped, AdminStays, NEW c \in Commands, CommandStep(c) \/ Request(c)
    PROVE  AdminStays'
<1>1. "admin" \notin CustomRoles /\ "admin" \in RoleIds
  BY NamesAssumption DEF Builtin, RoleIds
<1>2. CASE SaveRole(c)
  BY <1>1, <1>2 DEF SaveRole, AdminStays, RolesTyped
<1>3. CASE DeleteRole(c)
  BY <1>1, <1>3 DEF DeleteRole, AdminStays, RolesTyped
<1>4. CASE ~SaveRole(c) /\ ~DeleteRole(c)
  <2>1. role' = role
    BY <1>4, RequestTypes
    DEF CommandStep, LoadRoles, ReadFallback, FallbackClears, FallbackInserts, CheckUser,
        WriteUser, ClearRoles, InsertRole, FailUser, WriteGroup, ClearMembers, InsertMember,
        ClearGroupRoles, InsertGroupRole, FailGroup, DeleteGroup, tables
  <2> QED
    BY <2>1 DEF AdminStays
<1> QED
  BY <1>2, <1>3, <1>4

-----------------------------------------------------------------------------
(***************************************************************************)
(* What commands carry.                                                    *)
(***************************************************************************)
\* A user or a group that has been created stays a row, or a deleted one.
LEMMA RowsStay ==
    ASSUME RolesTyped, NEW c \in Commands, Carries(c), CommandStep(c) \/ Request(c)
    PROVE  /\ \A u \in Staff : person[u] # Absent => person'[u] # Absent
           /\ \A g \in Groups : group[g] # Absent => group'[g] # Absent
<1>1. CASE WriteUser(c)
  <2>0. \/ person' = person
        \/ cmd[c].kind = "create"
           /\ person' = [person EXCEPT ![cmd[c].on] =
                            [role |-> cmd[c].keys[1], disabled |-> cmd[c].off]]
        \/ cmd[c].kind = "update"
           /\ person' = [person EXCEPT ![cmd[c].on] =
                            [role |-> cmd[c].keys[1], disabled |-> cmd[c].off]]
        \/ Live(person[cmd[c].on])
           /\ person' = [person EXCEPT ![cmd[c].on] = [person[cmd[c].on] EXCEPT !.disabled = cmd[c].off]]
        \/ person' = [person EXCEPT ![cmd[c].on] = Gone]
    BY <1>1 DEF WriteUser
  <2>1. /\ cmd[c].on \in Staff /\ cmd[c].off \in BOOLEAN /\ cmd[c].keys \in Seq(RoleKeys)
        /\ cmd[c].kind \in {"create", "update"} => cmd[c].keys # <<>>
    BY <1>1 DEF WriteUser, Carries, UserPcs, RoleCommand, RolesTyped
  <2>2. cmd[c].kind \in {"create", "update"} =>
           [role |-> cmd[c].keys[1], disabled |-> cmd[c].off] \in PersonRow
    BY <2>1, KeyFacts DEF PersonRow
  <2>3. Live(person[cmd[c].on]) =>
           [person[cmd[c].on] EXCEPT !.disabled = cmd[c].off] \in PersonRow
    BY <2>1, LiveRows DEF PersonRow
  <2>4. Absent \notin PersonRow /\ Gone # Absent /\ Absent \notin GroupRow
    BY RowsAssumption
  <2>5. \A u \in Staff : person[u] # Absent => person'[u] # Absent
    BY <2>0, <2>1, <2>2, <2>3, <2>4 DEF RolesTyped
  <2>6. \A g \in Groups : Live(group[g]) => [group[g] EXCEPT !.members = @ \ {cmd[c].on}] \in GroupRow
    BY LiveRows DEF GroupRow
  <2>7. \A g \in Groups : group[g] # Absent => group'[g] # Absent
    <3>1. \/ group' = group
          \/ group' = [g \in Groups |-> IF Live(group[g])
                          THEN [group[g] EXCEPT !.members = @ \ {cmd[c].on}] ELSE group[g]]
      BY <1>1 DEF WriteUser
    <3> QED
      BY <2>4, <2>6, <3>1
  <2> QED
    BY <2>5, <2>7
<1>2. CASE \/ DeleteRole(c) \/ WriteGroup(c) \/ ClearMembers(c) \/ InsertMember(c)
           \/ ClearGroupRoles(c) \/ InsertGroupRole(c) \/ DeleteGroup(c)
  <2>1. person' = person
    BY <1>2 DEF DeleteRole, WriteGroup, ClearMembers, InsertMember, ClearGroupRoles,
                InsertGroupRole, DeleteGroup, tables
  <2>2. Absent \notin GroupRow /\ Gone # Absent
    BY RowsAssumption
  <2>4. SUFFICES ASSUME NEW g \in Groups, group[g] # Absent
                 PROVE  group'[g] \in {group[g], Gone} \cup GroupRow
    BY <2>1, <2>2
  <2>5. group[g] = Gone \/ group[g] \in GroupRow
    BY <2>4 DEF RolesTyped
  <2>6. CASE DeleteRole(c)
    <3>1. Live(group[g]) => [group[g] EXCEPT !.roles = @ \ {cmd[c].on}] \in GroupRow
      BY LiveRows DEF GroupRow
    <3> QED
      BY <2>6, <3>1 DEF DeleteRole
  <2>7. CASE WriteGroup(c)
    <3>1. cmd[c].off \in BOOLEAN /\ cmd[c].on \in Groups
      BY <2>7 DEF WriteGroup, Carries, RolesTyped, RoleCommand, RoleKinds
    <3>2. group[g] \in GroupRow => [group[g] EXCEPT !.disabled = cmd[c].off] \in GroupRow
      BY <3>1 DEF GroupRow
    <3>3. \/ group' = group
          \/ /\ group[cmd[c].on] # Gone
             /\ group' = [group EXCEPT ![cmd[c].on] = IF group[cmd[c].on] = Absent
                            THEN [disabled |-> cmd[c].off, members |-> {}, roles |-> {}]
                            ELSE [group[cmd[c].on] EXCEPT !.disabled = cmd[c].off]]
      BY <2>7 DEF WriteGroup
    <3> QED
      BY <2>4, <2>5, <3>1, <3>2, <3>3 DEF RolesTyped
  <2>8. CASE ClearMembers(c) \/ ClearGroupRoles(c)
    <3>1. group[g] \in GroupRow => /\ [group[g] EXCEPT !.members = {}] \in GroupRow
                                   /\ [group[g] EXCEPT !.roles = {}] \in GroupRow
      BY DEF GroupRow
    <3>2. cmd[c].on \in Groups
      BY <2>8 DEF ClearMembers, ClearGroupRoles, Carries, SavePcs
    <3>3. \/ group'[g] = group[g]
          \/ /\ Live(group[g])
             /\ group'[g] \in {[group[g] EXCEPT !.members = {}], [group[g] EXCEPT !.roles = {}]}
      BY <2>8, <3>2 DEF ClearMembers, ClearGroupRoles, MembersCleared, Alter, RolesTyped
    <3> QED
      BY <3>1, <3>3, LiveRows
  <2>9. CASE InsertMember(c)
    <3>1. /\ cmd[c].on \in Groups /\ cmd[c].people \subseteq Staff
      BY <2>9 DEF InsertMember, Carries, SavePcs, RolesTyped, RoleCommand
    <3>2. \/ group'[g] = group[g]
          \/ \E u \in cmd[c].people : /\ Live(group[g])
                                      /\ group'[g] = [group[g] EXCEPT !.members = @ \cup {u}]
      BY <2>9, <3>1 DEF InsertMember, RolesTyped
    <3>3. group[g] \in GroupRow =>
             \A u \in Staff : [group[g] EXCEPT !.members = @ \cup {u}] \in GroupRow
      BY DEF GroupRow
    <3> QED
      BY <3>1, <3>2, <3>3, LiveRows
  <2>10. CASE InsertGroupRole(c)
    <3> DEFINE ids == ByKey(Head(cmd[c].keys))
    <3>1. cmd[c].on \in Groups /\ ids \subseteq RoleIds
      BY <2>10, ByKeyTypes DEF InsertGroupRole, Carries, SavePcs
    <3>2. \/ group'[g] = group[g]
          \/ Live(group[g]) /\ group'[g] = [group[g] EXCEPT !.roles = @ \cup ids]
      BY <2>10, <3>1 DEF InsertGroupRole, Alter, RolesTyped
    <3>3. group[g] \in GroupRow => [group[g] EXCEPT !.roles = @ \cup ids] \in GroupRow
      BY <3>1 DEF GroupRow
    <3> QED
      BY <3>2, <3>3, LiveRows
  <2>11. CASE DeleteGroup(c)
    BY <2>11 DEF DeleteGroup, RolesTyped
  <2> QED
    BY <1>2, <2>6, <2>7, <2>8, <2>9, <2>10, <2>11
<1>3. CASE UNCHANGED <<person, group>>
  BY <1>3
<1>4. \/ WriteUser(c) \/ DeleteRole(c) \/ WriteGroup(c) \/ ClearMembers(c) \/ InsertMember(c)
      \/ ClearGroupRoles(c) \/ InsertGroupRole(c) \/ DeleteGroup(c) \/ UNCHANGED <<person, group>>
  BY RequestTypes
  DEF CommandStep, LoadRoles, ReadFallback, FallbackClears, FallbackInserts, CheckUser,
      ClearRoles, InsertRole, FailUser, SaveRole, FailGroup, tables
<1> QED
  BY <1>1, <1>2, <1>3, <1>4

\* What the other commands keep in their records: everything, but for the ids of
\* a role that is deleted.
LEMMA OthersKeep ==
    ASSUME RolesTyped, NEW c \in Commands, CommandStep(c) \/ Request(c), NEW d \in Commands \ {c}
    PROVE  /\ cmd'[d].pc = cmd[d].pc /\ cmd'[d].on = cmd[d].on /\ cmd'[d].kind = cmd[d].kind
           /\ cmd'[d].keys = cmd[d].keys /\ cmd'[d].people = cmd[d].people
           /\ cmd'[d].team = cmd[d].team /\ cmd'[d].ids \subseteq cmd[d].ids
           /\ ~DeleteRole(c) => cmd'[d] = cmd[d]
<1>0. cmd \in [Commands -> RoleCommand]
  BY DEF RolesTyped
<1>1. CASE DeleteRole(c)
  <2>1. \/ cmd'[d] = cmd[d]
        \/ cmd'[d] = [cmd[d] EXCEPT !.ids = @ \ {cmd[c].on}]
    BY <1>0, <1>1 DEF DeleteRole, Finish
  <2> QED
    BY <1>0, <1>1, <2>1 DEF RoleCommand
<1>2. ASSUME NEW new, cmd' = [cmd EXCEPT ![c] = new] PROVE cmd'[d] = cmd[d]
  BY <1>0, <1>2
<1>3. CASE ~DeleteRole(c)
  <2>1. \E new : cmd' = [cmd EXCEPT ![c] = new]
    <3>1. CASE Request(c)
      BY <3>1, RequestTypes
    <3>2. ASSUME \E step : Go(c, step) PROVE \E new : cmd' = [cmd EXCEPT ![c] = new]
      BY <3>2 DEF Go
    <3>3. ASSUME Finish(c) PROVE \E new : cmd' = [cmd EXCEPT ![c] = new]
      BY <3>3 DEF Finish
    <3>4. CASE LoadRoles(c) \/ ReadFallback(c) \/ FallbackClears(c) \/ FallbackInserts(c)
      <4>1. ASSUME ReadFallback(c) PROVE \E new : cmd' = [cmd EXCEPT ![c] = new]
        BY <4>1 DEF ReadFallback, Finish
      <4> QED
        BY <3>2, <3>3, <3>4, <4>1 DEF LoadRoles, FallbackClears, FallbackInserts
    <3>5. CASE CheckUser(c) \/ WriteUser(c) \/ ClearRoles(c) \/ InsertRole(c) \/ FailUser(c)
      BY <3>2, <3>3, <3>5 DEF CheckUser, WriteUser, ClearRoles, InsertRole, FailUser
    <3>6. CASE \/ SaveRole(c) \/ WriteGroup(c) \/ ClearMembers(c) \/ ClearGroupRoles(c)
               \/ InsertGroupRole(c) \/ FailGroup(c) \/ DeleteGroup(c)
      BY <3>2, <3>3, <3>6 DEF SaveRole, WriteGroup, ClearMembers, ClearGroupRoles,
                              InsertGroupRole, FailGroup, DeleteGroup
    <3>7. CASE InsertMember(c)
      BY <3>7 DEF InsertMember, Go
    <3> QED
      BY <1>3, <3>1, <3>4, <3>5, <3>6, <3>7 DEF CommandStep
  <2> QED
    BY <1>2, <2>1
<1> QED
  BY <1>0, <1>1, <1>3

\* A command that has returned carries nothing.
LEMMA CarriesNothing == ASSUME NEW c \in Commands, cmd'[c] = NoCmd PROVE Carries(c)'
  BY DEF Carries, NoCmd, UserPcs, LoadPcs, SavePcs, ReplacePcs

\* Every step of a command leaves it with what its next statement needs.
LEMMA CarriesOwn ==
    ASSUME RolesTyped, NEW c \in Commands, Carries(c), CommandStep(c) \/ Request(c)
    PROVE  Carries(c)'
<1>0. cmd \in [Commands -> RoleCommand] /\ cmd[c] \in RoleCommand
  BY DEF RolesTyped
<1> USE DEF UserPcs, LoadPcs, SavePcs, ReplacePcs
<1>a. ASSUME Finish(c) PROVE Carries(c)'
  BY <1>a, CommandMoves, CarriesNothing
<1>1. CASE Request(c)
  <2>1. cmd'[c].pc \in {"load", "row", "check", "apply"} /\ Carries(c)'
    BY <1>0, <1>1, RequestTypes DEF Carries, RoleKinds, GroupKinds
  <2> QED
    BY <2>1
<1>2. CASE LoadRoles(c) \/ FallbackClears(c) \/ FallbackInserts(c)
  <2>1. \/ Finish(c)
        \/ cmd[c].pc = "load" /\ Go(c, "fallback")
        \/ cmd[c].pc = "fbClear" /\ Go(c, "fbInsert")
    BY <1>2 DEF LoadRoles, FallbackClears, FallbackInserts
  <2> QED
    BY <1>a, <2>1, CommandMoves, StandsFacts DEF Carries
<1>3. CASE ReadFallback(c)
  <2>1. CASE cmd' = [cmd EXCEPT ![c].pc = "fbClear", ![c].keys = <<person[cmd[c].on].role>>]
    <3>1. cmd'[c] = [cmd[c] EXCEPT !.pc = "fbClear", !.keys = <<person[cmd[c].on].role>>]
      BY <1>0, <2>1
    <3>2. /\ cmd'[c].pc = "fbClear" /\ cmd'[c].keys = <<person[cmd[c].on].role>>
          /\ cmd'[c].on = cmd[c].on /\ cmd'[c].kind = cmd[c].kind /\ cmd'[c].ids = cmd[c].ids
      BY <1>0, <3>1 DEF RoleCommand
    <3>3. cmd'[c].keys # <<>> /\ cmd[c].pc = "fallback"
      BY <1>3, <3>2 DEF ReadFallback
    <3> QED
      BY <3>2, <3>3 DEF Carries
  <2> QED
    BY <1>3, <1>a, <2>1 DEF ReadFallback
<1>4. CASE CheckUser(c) \/ ClearRoles(c) \/ FailUser(c)
  <2>1. \/ Finish(c)
        \/ cmd[c].pc = "check" /\ Go(c, "row")
        \/ cmd[c].pc = "clear" /\ Go(c, "insert") /\ person' = person
    BY <1>4 DEF CheckUser, ClearRoles, FailUser
  <2> QED
    BY <1>a, <2>1, CommandMoves, StandsFacts DEF Carries
<1>5. CASE WriteUser(c)
  <2>1. \/ Finish(c)
        \/ /\ Go(c, "clear") /\ cmd[c].kind \in {"create", "update"}
           /\ person' = [person EXCEPT ![cmd[c].on] =
                           [role |-> cmd[c].keys[1], disabled |-> cmd[c].off]]
    BY <1>5 DEF WriteUser
  <2>2. CASE /\ Go(c, "clear") /\ cmd[c].kind \in {"create", "update"}
             /\ person' = [person EXCEPT ![cmd[c].on] =
                           [role |-> cmd[c].keys[1], disabled |-> cmd[c].off]]
    <3>1. cmd[c].on \in Staff /\ cmd[c].keys # <<>> /\ cmd[c].pc = "row"
      BY <1>5, <2>2 DEF WriteUser, Carries
    <3>2. [role |-> cmd[c].keys[1], disabled |-> cmd[c].off] \in PersonRow
      BY <1>0, <3>1, KeyFacts DEF RoleCommand, PersonRow
    <3>3. person'[cmd[c].on] # Absent
      BY <2>2, <3>1, <3>2, RowsAssumption DEF RolesTyped
    <3> QED
      BY <2>2, <3>1, <3>3, CommandMoves, StandsFacts DEF Carries
  <2> QED
    BY <1>a, <2>1, <2>2
<1>6. CASE InsertRole(c)
  <2> DEFINE all == cmd[c].ids \cup ByKey(Head(cmd[c].keys))
  <2>1. /\ cmd[c].pc = "insert" /\ cmd[c].on \in Staff /\ cmd[c].kind \in {"create", "update"}
        /\ cmd[c].keys \in Seq(RoleKeys) /\ cmd[c].keys # <<>>
        /\ person' = person
    BY <1>0, <1>6 DEF InsertRole, Carries, RoleCommand
  <2>2. CASE Len(cmd[c].keys) = 1
    <3>1. cmd'[c] = NoCmd
      BY <1>0, <1>6, <2>2 DEF InsertRole
    <3> QED
      BY <3>1, CarriesNothing
  <2>3. CASE Len(cmd[c].keys) # 1
    <3>1. cmd'[c] = [cmd[c] EXCEPT !.keys = Tail(@), !.ids = all]
      BY <1>0, <1>6, <2>3 DEF InsertRole
    <3>2. /\ cmd'[c].pc = "insert" /\ cmd'[c].on = cmd[c].on /\ cmd'[c].kind = cmd[c].kind
          /\ cmd'[c].keys # <<>>
      BY <1>0, <2>1, <2>3, <3>1, KeyFacts DEF RoleCommand
    <3> QED
      BY <2>1, <3>2 DEF Carries
  <2> QED
    BY <2>2, <2>3
<1>7. CASE SaveRole(c) \/ DeleteRole(c) \/ FailGroup(c) \/ DeleteGroup(c)
  <2>1. Finish(c) \/ cmd'[c] = NoCmd
    BY <1>7 DEF SaveRole, DeleteRole, FailGroup, DeleteGroup
  <2> QED
    BY <1>a, <2>1, CarriesNothing
<1>8. CASE WriteGroup(c)
  <2>1. CASE Finish(c)
    BY <1>a, <2>1
  <2>2. CASE Go(c, "clearMembers") /\ group[cmd[c].on] # Gone
    <3>1. /\ cmd[c].pc = "apply" /\ cmd[c].kind = "saveGroup" /\ cmd[c].on \in Groups
          /\ cmd[c].keys # <<>> /\ cmd[c].people = cmd[c].team /\ cmd[c].ids = {}
      BY <1>8 DEF WriteGroup, Carries, RoleKinds
    <3>2. group'[cmd[c].on] # Absent
      <4>1. cmd[c].off \in BOOLEAN
        BY <1>0 DEF RoleCommand
      <4>2. group' = [group EXCEPT ![cmd[c].on] = IF group[cmd[c].on] = Absent
                        THEN [disabled |-> cmd[c].off, members |-> {}, roles |-> {}]
                        ELSE [group[cmd[c].on] EXCEPT !.disabled = cmd[c].off]]
        BY <1>8, <2>2 DEF WriteGroup
      <4>3. /\ [disabled |-> cmd[c].off, members |-> {}, roles |-> {}] \in GroupRow
            /\ group[cmd[c].on] \in GroupRow =>
                  [group[cmd[c].on] EXCEPT !.disabled = cmd[c].off] \in GroupRow
        BY <4>1 DEF GroupRow
      <4> QED
        BY <2>2, <3>1, <4>2, <4>3, RowsAssumption DEF RolesTyped
    <3> QED
      BY <2>2, <3>1, <3>2, CommandMoves, StandsFacts DEF Carries
  <2> QED
    BY <1>8, <2>1, <2>2 DEF WriteGroup
<1>9. CASE ClearMembers(c) \/ ClearGroupRoles(c)
  <2>1. \/ cmd[c].pc = "clearMembers" /\ Go(c, "members")
        \/ cmd[c].pc = "clearRoles" /\ Go(c, "roles")
    BY <1>9 DEF ClearMembers, ClearGroupRoles
  <2>2. group'[cmd[c].on] # Absent
    BY <2>1, RowsStay DEF Carries
  <2> QED
    BY <2>1, <2>2, CommandMoves, StandsFacts DEF Carries
<1>10. CASE InsertMember(c)
  <2>1. cmd[c].pc = "members" /\ group'[cmd[c].on] # Absent
    BY <1>10, RowsStay DEF InsertMember, Carries
  <2>2. CASE cmd[c].people = {} /\ Go(c, "clearRoles")
    BY <2>1, <2>2, CommandMoves, StandsFacts DEF Carries
  <2>3. CASE \E u \in cmd[c].people : cmd' = [cmd EXCEPT ![c].people = @ \ {u}]
    <3>1. PICK u \in cmd[c].people : cmd'[c] = [cmd[c] EXCEPT !.people = @ \ {u}]
      BY <1>0, <2>3
    <3>2. /\ cmd'[c].pc = "members" /\ cmd'[c].on = cmd[c].on /\ cmd'[c].kind = cmd[c].kind
          /\ cmd'[c].keys = cmd[c].keys /\ cmd'[c].ids = cmd[c].ids
          /\ cmd'[c].people \subseteq cmd[c].people /\ cmd'[c].team = cmd[c].team
      BY <1>0, <2>1, <3>1 DEF RoleCommand
    <3> QED
      BY <2>1, <3>2 DEF Carries
  <2> QED
    BY <1>10, <2>2, <2>3 DEF InsertMember
<1>11. CASE InsertGroupRole(c)
  <2> DEFINE ids == ByKey(Head(cmd[c].keys))
  <2>1. /\ cmd[c].pc = "roles" /\ cmd[c].on \in Groups /\ cmd[c].people = {}
        /\ cmd[c].keys \in Seq(RoleKeys) /\ cmd[c].keys # <<>>
        /\ group'[cmd[c].on] # Absent
    BY <1>0, <1>11, RowsStay DEF InsertGroupRole, Carries, RoleCommand
  <2>2. CASE Len(cmd[c].keys) = 1
    <3>1. cmd'[c] = NoCmd
      BY <1>0, <1>11, <2>2 DEF InsertGroupRole
    <3> QED
      BY <3>1, CarriesNothing
  <2>3. CASE Len(cmd[c].keys) # 1
    <3>1. cmd'[c] = [cmd[c] EXCEPT !.keys = Tail(@), !.ids = @ \cup ids]
      BY <1>0, <1>11, <2>3 DEF InsertGroupRole
    <3>2. /\ cmd'[c].pc = "roles" /\ cmd'[c].on = cmd[c].on /\ cmd'[c].kind = cmd[c].kind
          /\ cmd'[c].keys # <<>> /\ cmd'[c].people = cmd[c].people
      BY <1>0, <2>1, <2>3, <3>1, KeyFacts DEF RoleCommand
    <3> QED
      BY <2>1, <3>2 DEF Carries
  <2> QED
    BY <2>2, <2>3
<1> QED
  BY <1>1, <1>2, <1>3, <1>4, <1>5, <1>6, <1>7, <1>8, <1>9, <1>10, <1>11 DEF CommandStep

\* Nor do the steps of the others disturb it.
LEMMA CarriesStep ==
    ASSUME RolesTyped, \A d \in Commands : Carries(d),
           NEW c \in Commands, CommandStep(c) \/ Request(c), NEW d \in Commands
    PROVE  Carries(d)'
<1>1. CASE d = c
  BY <1>1, CarriesOwn
<1>2. CASE d # c
  <2>1. /\ cmd'[d].pc = cmd[d].pc /\ cmd'[d].on = cmd[d].on /\ cmd'[d].kind = cmd[d].kind
        /\ cmd'[d].keys = cmd[d].keys /\ cmd'[d].people = cmd[d].people
        /\ cmd'[d].team = cmd[d].team /\ cmd'[d].ids \subseteq cmd[d].ids
    BY <1>2, OthersKeep
  <2>2. /\ \A u \in Staff : person[u] # Absent => person'[u] # Absent
        /\ \A g \in Groups : group[g] # Absent => group'[g] # Absent
    BY RowsStay
  <2>3. cmd[d].pc \in ReplacePcs => cmd[d].on \in Staff
    BY DEF Carries, ReplacePcs, UserPcs
  <2> QED
    BY <2>1, <2>2, <2>3 DEF Carries
<1> QED
  BY <1>1, <1>2

-----------------------------------------------------------------------------
(***************************************************************************)
(* Who replaces the roles of a user or saves a group.                      *)
(***************************************************************************)
\* Changing(x, c) is the other commands that do.
LEMMA ChangingIs == ASSUME NEW x, NEW c PROVE Changing(x, c) = Changers(x) \ {c}
  BY DEF Changing, Changers, At, ReplacePcs, SavePcs

\* A step of c makes no other command start or stop.
LEMMA ChangersMove ==
    ASSUME RolesTyped, NEW c \in Commands, CommandStep(c) \/ Request(c), NEW x
    PROVE  /\ Changers(x)' \ {c} = Changers(x) \ {c}
           /\ c \in Changers(x) => cmd[c].on = x /\ cmd[c].pc \in ReplacePcs \cup SavePcs
           /\ c \in Changers(x)' => cmd'[c].on = x /\ cmd'[c].pc \in ReplacePcs \cup SavePcs
<1>1. \A d \in Commands \ {c} : cmd'[d].pc = cmd[d].pc /\ cmd'[d].on = cmd[d].on
  BY OthersKeep
<1> QED
  BY <1>1 DEF Changers

\* A user that a step does not touch.
LEMMA UserUntouched ==
    ASSUME RolesTyped, NEW c \in Commands, CommandStep(c) \/ Request(c), ~DeleteRole(c),
           NEW u \in Staff, UserSteady(u),
           c \notin Changers(u), c \notin Changers(u)',
           u \in clashed => u \in clashed',
           u \notin clashed' \cup disturbed' =>
                 u \notin disturbed /\ direct'[u] = direct[u] /\ ticked'[u] = ticked[u],
           Live(person'[u]) => Live(person[u]) /\ person'[u].role = person[u].role
    PROVE  UserSteady(u)'
<1>1. Changers(u)' = Changers(u)
  BY ChangersMove
<1>2. \A d \in Changers(u) : cmd'[d] = cmd[d]
  BY OthersKeep DEF Changers
<1>3. Alone(u) => Alone(u)'
  BY <1>1 DEF Alone
<1>4. u \notin clashed' => Alone(u)'
  BY <1>3 DEF UserSteady
<1>5. ASSUME Live(person'[u]), u \notin clashed' \cup disturbed'
      PROVE  /\ \A d \in Changers(u)' :
                   /\ cmd'[d].pc = "insert" => direct'[u] = cmd'[d].ids
                   /\ person'[u].role = "admin" => "admin" \in cmd'[d].ids \/ cmd'[d].keys[1] = "admin"
             /\ Changers(u)' = {} =>
                   /\ ticked'[u] # {} => direct'[u] = ticked'[u]
                   /\ person'[u].role = "admin" => "admin" \in ticked'[u]
  BY <1>1, <1>2, <1>5 DEF UserSteady
<1>6. Live(person[u])' <=> Live(person'[u])
  BY DEF Live
<1> QED
  BY <1>4, <1>5, <1>6 DEF UserSteady

\* Requests, and statements that read or that write other rows.
LEMMA UserQuiet ==
    ASSUME RolesTyped, NEW c \in Commands, Carries(c), NEW u \in Staff, UserSteady(u),
           \/ Request(c) \/ LoadRoles(c) \/ ReadFallback(c) \/ CheckUser(c)
           \/ SaveRole(c) \/ DeleteGroup(c)
    PROVE  UserSteady(u)'
<1> USE DEF tables, memory
<1>0. cmd \in [Commands -> RoleCommand]
  BY DEF RolesTyped
<1>1. UNCHANGED <<person, direct, ticked, clashed, disturbed>>
  BY RequestTypes DEF LoadRoles, ReadFallback, CheckUser, SaveRole, DeleteGroup
<1>2. cmd[c].pc \notin ReplacePcs \cup SavePcs
  BY RequestTypes
  DEF LoadRoles, ReadFallback, CheckUser, SaveRole, DeleteGroup, ReplacePcs, SavePcs
<1>3. cmd'[c].pc \notin ReplacePcs \cup SavePcs
  <2>1. CASE Request(c)
    BY <1>0, <2>1, RequestTypes DEF ReplacePcs, SavePcs
  <2>2. CASE ReadFallback(c)
    <3>1. CASE cmd' = [cmd EXCEPT ![c].pc = "fbClear", ![c].keys = <<person[cmd[c].on].role>>]
      <4>1. cmd'[c] = [cmd[c] EXCEPT !.pc = "fbClear", !.keys = <<person[cmd[c].on].role>>]
        BY <1>0, <3>1
      <4>2. cmd'[c].pc = "fbClear"
        BY <1>0, <4>1 DEF RoleCommand
      <4> QED
        BY <4>2 DEF ReplacePcs, SavePcs
    <3>2. CASE Finish(c)
      BY <3>2, CommandMoves DEF NoCmd, ReplacePcs, SavePcs
    <3> QED
      BY <2>2, <3>1, <3>2 DEF ReadFallback
  <2>3. CASE LoadRoles(c) \/ CheckUser(c) \/ SaveRole(c) \/ DeleteGroup(c)
    <3>1. Finish(c) \/ Go(c, "fallback") \/ Go(c, "row")
      BY <2>3 DEF LoadRoles, CheckUser, SaveRole, DeleteGroup
    <3>2. ASSUME Finish(c) PROVE cmd'[c].pc = "done"
      BY <3>2, CommandMoves DEF NoCmd
    <3>3. ASSUME NEW step \in {"fallback", "row"}, Go(c, step) PROVE cmd'[c].pc = step
      BY <3>3, CommandMoves, StandsFacts
    <3>4. cmd'[c].pc \in {"done", "fallback", "row"}
      BY <3>1, <3>2, <3>3
    <3> QED
      BY <3>4 DEF ReplacePcs, SavePcs
  <2> QED
    BY <2>1, <2>2, <2>3
<1>4. c \notin Changers(u) /\ c \notin Changers(u)'
  BY <1>2, <1>3 DEF Changers
<1>5. ~DeleteRole(c)
  BY RequestTypes DEF DeleteRole, LoadRoles, ReadFallback, CheckUser, SaveRole, DeleteGroup
<1>6. CommandStep(c) \/ Request(c)
  BY DEF CommandStep
<1> QED
  BY <1>1, <1>4, <1>5, <1>6, UserUntouched

\* A command stays with its user, role or group until it returns.
LEMMA SubjectStays ==
    ASSUME RolesTyped, NEW c \in Commands, CommandStep(c)
    PROVE  cmd'[c] = NoCmd \/ cmd'[c].on = cmd[c].on
<1>0. cmd \in [Commands -> RoleCommand]
  BY DEF RolesTyped
<1>1. ASSUME \E step \in Stands : Go(c, step) PROVE cmd'[c].on = cmd[c].on
  BY <1>1, CommandMoves
<1>2. ASSUME Finish(c) PROVE cmd'[c] = NoCmd
  BY <1>2, CommandMoves
<1>3. CASE InsertRole(c) \/ InsertGroupRole(c)
  <2>1. \/ cmd'[c] = NoCmd
        \/ \E keys, ids : cmd'[c] = [cmd[c] EXCEPT !.keys = keys, !.ids = ids]
    BY <1>0, <1>3 DEF InsertRole, InsertGroupRole
  <2> QED
    BY <1>0, <2>1 DEF RoleCommand
<1>4. CASE InsertMember(c)
  <2>1. \/ Go(c, "clearRoles")
        \/ \E people : cmd'[c] = [cmd[c] EXCEPT !.people = people]
    BY <1>0, <1>4 DEF InsertMember
  <2> QED
    BY <1>0, <1>1, <2>1, StandsFacts DEF RoleCommand
<1>5. CASE ReadFallback(c)
  <2>1. \/ Finish(c)
        \/ cmd'[c] = [cmd[c] EXCEPT !.pc = "fbClear", !.keys = <<person[cmd[c].on].role>>]
    BY <1>0, <1>5 DEF ReadFallback
  <2> QED
    BY <1>0, <1>2, <2>1 DEF RoleCommand
<1>6. CASE \/ LoadRoles(c) \/ FallbackClears(c) \/ FallbackInserts(c) \/ CheckUser(c)
           \/ WriteUser(c) \/ ClearRoles(c) \/ FailUser(c) \/ SaveRole(c) \/ WriteGroup(c)
           \/ ClearMembers(c) \/ ClearGroupRoles(c) \/ FailGroup(c) \/ DeleteGroup(c)
  BY <1>1, <1>2, <1>6, StandsFacts
  DEF LoadRoles, FallbackClears, FallbackInserts, CheckUser, WriteUser, ClearRoles, FailUser,
      SaveRole, WriteGroup, ClearMembers, ClearGroupRoles, FailGroup, DeleteGroup
<1>7. CASE DeleteRole(c)
  BY <1>0, <1>2, <1>7 DEF DeleteRole
<1> QED
  BY <1>3, <1>4, <1>5, <1>6, <1>7 DEF CommandStep

\* Statements for other users and for groups.
LEMMA UserElsewhere ==
    ASSUME RolesTyped, NEW c \in Commands, Carries(c), NEW u \in Staff, UserSteady(u),
           cmd[c].on # u,
           \/ FallbackClears(c) \/ FallbackInserts(c) \/ WriteUser(c) \/ ClearRoles(c)
           \/ InsertRole(c) \/ FailUser(c) \/ WriteGroup(c) \/ ClearMembers(c)
           \/ InsertMember(c) \/ ClearGroupRoles(c) \/ InsertGroupRole(c) \/ FailGroup(c)
    PROVE  UserSteady(u)'
<1> USE DEF tables, memory
<1>0. cmd \in [Commands -> RoleCommand]
  BY DEF RolesTyped
<1>1. CommandStep(c) /\ ~DeleteRole(c)
  <2>1. ~DeleteRole(c)
    BY DEF DeleteRole, FallbackClears, FallbackInserts, WriteUser, ClearRoles, InsertRole,
           FailUser, WriteGroup, ClearMembers, InsertMember, ClearGroupRoles, InsertGroupRole,
           FailGroup
  <2> QED
    BY <2>1 DEF CommandStep
<1>2. cmd'[c] = NoCmd \/ cmd'[c].on = cmd[c].on
  BY <1>1, SubjectStays
<1>3. c \notin Changers(u) /\ c \notin Changers(u)'
  BY <1>2 DEF Changers, NoCmd, ReplacePcs, SavePcs
<1>4. cmd[c].on \in Staff \/ cmd[c].on \in Groups
  BY DEF Carries, FallbackClears, FallbackInserts, WriteUser, ClearRoles, InsertRole, FailUser,
         WriteGroup, ClearMembers, InsertMember, ClearGroupRoles, InsertGroupRole, FailGroup,
         UserPcs, LoadPcs, SavePcs, RoleKinds
<1>5. u \in clashed => u \in clashed'
  BY DEF FallbackClears, FallbackInserts, WriteUser, ClearRoles, InsertRole, FailUser,
         WriteGroup, ClearMembers, InsertMember, ClearGroupRoles, InsertGroupRole, FailGroup,
         Clash, Recover
<1>6. u \in disturbed => u \in disturbed'
  BY DEF FallbackClears, FallbackInserts, WriteUser, ClearRoles, InsertRole, FailUser,
         WriteGroup, ClearMembers, InsertMember, ClearGroupRoles, InsertGroupRole, FailGroup,
         Disturb, Recover
<1>7. direct'[u] = direct[u] /\ ticked'[u] = ticked[u] /\ person'[u] = person[u]
  BY <1>4
  DEF FallbackClears, FallbackInserts, WriteUser, ClearRoles, Cleared, InsertRole, FailUser,
      WriteGroup, ClearMembers, InsertMember, ClearGroupRoles, InsertGroupRole, FailGroup,
      RolesTyped
<1> QED
  BY <1>1, <1>3, <1>5, <1>6, <1>7, UserUntouched

\* What a step that c takes for u leaves of the others: if c is the only one
\* that replaces the roles of u, it stays the only one, or none does.
LEMMA OneStaysAlone ==
    ASSUME RolesTyped, NEW c \in Commands, CommandStep(c) \/ Request(c), NEW x,
           Changers(x) \ {c} = {}
    PROVE  Alone(x)' /\ Changers(x)' \subseteq {c}
<1>1. Changers(x)' \ {c} = {}
  BY ChangersMove
<1> QED
  BY <1>1 DEF Alone

\* A command that stops leaves alone who was alone.
LEMMA StopsAlone ==
    ASSUME RolesTyped, NEW c \in Commands, CommandStep(c) \/ Request(c), NEW x,
           c \notin Changers(x)', Alone(x)
    PROVE  Alone(x)' /\ Changers(x)' \subseteq Changers(x)
<1>1. Changers(x)' \subseteq Changers(x)
  BY ChangersMove
<1> QED
  BY <1>1 DEF Alone

\* The fallback role of u replaces no roles that an update has ticked.
LEMMA FallbackSteady ==
    ASSUME RolesTyped, NEW c \in Commands, Carries(c), NEW u, u = cmd[c].on, UserSteady(u),
           FallbackClears(c) \/ FallbackInserts(c)
    PROVE  UserSteady(u)'
<1>0. cmd \in [Commands -> RoleCommand]
  BY DEF RolesTyped
<1>1. /\ u \in Staff /\ CommandStep(c) /\ ~DeleteRole(c)
      /\ UNCHANGED <<person, ticked, clashed>>
  BY DEF Carries, LoadPcs, FallbackClears, FallbackInserts, CommandStep, DeleteRole
<1>2. cmd[c].pc \in {"fbClear", "fbInsert"} /\ cmd'[c].pc \in {"fbInsert", "done"}
  <2>1. Go(c, "fbInsert") \/ Finish(c)
    BY DEF FallbackClears, FallbackInserts
  <2>2. ASSUME Finish(c) PROVE cmd'[c].pc = "done"
    BY <2>2, CommandMoves DEF NoCmd
  <2>3. ASSUME Go(c, "fbInsert") PROVE cmd'[c].pc = "fbInsert"
    BY <2>3, CommandMoves, StandsFacts
  <2> QED
    BY <2>1, <2>2, <2>3 DEF FallbackClears, FallbackInserts
<1>3. c \notin Changers(u) /\ c \notin Changers(u)'
  BY <1>2 DEF Changers, ReplacePcs, SavePcs
<1>4. u \notin disturbed' => /\ u \notin disturbed /\ Changers(u) = {} /\ direct[u] = {}
  <2>1. Changing(u, c) = Changers(u)
    BY <1>3, ChangingIs
  <2>2. disturbed' = IF Changing(u, c) # {} \/ direct[u] # {} THEN disturbed \cup {u} ELSE disturbed
    BY DEF FallbackClears, FallbackInserts
  <2> QED
    BY <2>1, <2>2
<1>5. CASE u \in disturbed'
  BY <1>1, <1>3, <1>5, UserUntouched
<1>6. CASE u \notin disturbed' /\ FallbackClears(c)
  <2>1. direct'[u] = direct[u]
    BY <1>1, <1>4, <1>6 DEF FallbackClears, RolesTyped
  <2> QED
    BY <1>1, <1>3, <1>4, <2>1, UserUntouched
<1>7. CASE u \notin disturbed' /\ ~FallbackClears(c)
  <2>1. Changers(u)' = {}
    BY <1>1, <1>3, <1>4, <1>7, ChangersMove
  <2>2. Alone(u)'
    BY <2>1 DEF Alone
  <2>3. ASSUME Live(person[u]), u \notin clashed \cup disturbed
        PROVE  /\ ticked[u] = {}
               /\ person[u].role = "admin" => "admin" \in ticked[u]
    BY <1>4, <1>7, <2>3 DEF UserSteady
  <2>4. /\ Live(person[u])' <=> Live(person[u])
        /\ u \in clashed' <=> u \in clashed
    BY <1>1
  <2>5. Live(person[u])' /\ (u \notin clashed \cup disturbed)' =>
             /\ ticked'[u] = {}
             /\ person'[u].role = "admin" => "admin" \in ticked'[u]
    BY <1>1, <1>4, <1>7, <2>3, <2>4
  <2> QED
    BY <2>1, <2>2, <2>5 DEF UserSteady
<1> QED
  BY <1>5, <1>6, <1>7

\* The statement on the users row of u: an update that is alone starts anew, one
\* that is not excuses u.
LEMMA RowSteady ==
    ASSUME RolesTyped, NEW c \in Commands, Carries(c), NEW u, u = cmd[c].on, UserSteady(u),
           WriteUser(c)
    PROVE  UserSteady(u)'
<1>0. cmd \in [Commands -> RoleCommand] /\ person \in [Staff -> PersonRow \cup {Absent, Gone}]
  BY DEF RolesTyped
<1>1. /\ u \in Staff /\ CommandStep(c) /\ ~DeleteRole(c) /\ cmd[c].pc = "row"
      /\ cmd[c].kind \in UserKinds
      /\ UNCHANGED ticked
  BY DEF Carries, UserPcs, WriteUser, CommandStep, DeleteRole
<1>2. c \notin Changers(u)
  BY <1>1 DEF Changers, ReplacePcs, SavePcs
<1>3. ASSUME Finish(c) PROVE c \notin Changers(u)'
  BY <1>3, CommandMoves DEF Changers, NoCmd, ReplacePcs, SavePcs
<1>4. CASE /\ Replaces(cmd[c]) /\ Recover(u, c)
  <2>1. CASE Changing(u, c) = {} /\ FallingBack(u, c) = {}
    <3>1. Changers(u) \ {c} = {}
      BY <2>1, ChangingIs
    <3>2. Alone(u)' /\ Changers(u)' \subseteq {c}
      BY <1>1, <3>1, OneStaysAlone
    <3>3. /\ Go(c, "clear")
          /\ person' = [person EXCEPT ![u] = [role |-> cmd[c].keys[1], disabled |-> cmd[c].off]]
      BY <1>4, RowsAssumption DEF WriteUser, Replaces, Live
    <3>4. /\ cmd'[c].pc = "clear" /\ cmd'[c].on = u /\ cmd'[c].keys = cmd[c].keys
      BY <3>3, CommandMoves, StandsFacts
    <3>5. c \in Changers(u)'
      BY <3>4 DEF Changers, ReplacePcs
    <3>6. person'[u].role = cmd[c].keys[1]
      BY <1>0, <1>1, <3>3
    <3> QED
      BY <3>2, <3>4, <3>5, <3>6 DEF UserSteady
  <2>2. CASE ~(Changing(u, c) = {} /\ FallingBack(u, c) = {})
    <3>1. u \in clashed' /\ u \in disturbed'
      BY <1>4, <2>2 DEF Recover
    <3> QED
      BY <3>1 DEF UserSteady
  <2> QED
    BY <2>1, <2>2
<1>5. CASE ~Replaces(cmd[c])
  <2>1. Finish(c) /\ UNCHANGED <<clashed, disturbed>>
    BY <1>5 DEF WriteUser, Replaces
  <2>2. CASE UNCHANGED <<person, direct>>
    BY <1>1, <1>2, <1>3, <2>1, <2>2, UserUntouched
  <2>3. CASE Live(person[u]) /\ person' = [person EXCEPT ![u].disabled = cmd[c].off]
             /\ UNCHANGED direct
    <3>1. person[u] \in PersonRow
      BY <1>1, <2>3, LiveRows
    <3>2. person'[u] = [person[u] EXCEPT !.disabled = cmd[c].off]
      BY <1>0, <1>1, <2>3
    <3>3. person'[u].role = person[u].role
      BY <3>1, <3>2 DEF PersonRow
    <3> QED
      BY <1>1, <1>2, <1>3, <2>1, <2>3, <3>3, UserUntouched
  <2>4. CASE person' = [person EXCEPT ![u] = Gone]
    <3>1. ~Live(person'[u])
      BY <1>0, <1>1, <2>4 DEF Live
    <3>2. UserSteady(u)' <=> (u \notin clashed => Alone(u))'
      BY <3>1 DEF UserSteady, Live
    <3>3. u \notin clashed' => Alone(u)'
      BY <1>1, <1>3, <2>1, StopsAlone DEF UserSteady
    <3> QED
      BY <3>2, <3>3
  <2> QED
    BY <1>1, <1>5, <2>2, <2>3, <2>4 DEF WriteUser, Replaces
<1> QED
  BY <1>4, <1>5 DEF WriteUser

\* Deleting and inserting the roles of u, and failing at it.
LEMMA ReplaceSteady ==
    ASSUME RolesTyped, AdminStays, NEW c \in Commands, Carries(c), NEW u, u = cmd[c].on,
           UserSteady(u), ClearRoles(c) \/ InsertRole(c) \/ FailUser(c)
    PROVE  UserSteady(u)'
<1>0. cmd \in [Commands -> RoleCommand] /\ direct \in [Staff -> SUBSET RoleIds]
      /\ ticked \in [Staff -> SUBSET RoleIds]
  BY DEF RolesTyped
<1>1. /\ u \in Staff /\ CommandStep(c) /\ UNCHANGED person
      /\ cmd[c].pc \in ReplacePcs
      /\ c \in Changers(u)
  BY DEF Carries, UserPcs, ReplacePcs, SavePcs, Changers, ClearRoles, InsertRole, FailUser,
         CommandStep, tables
<1>2. CASE FailUser(c)
  <2>1. Finish(c) /\ (u \notin clashed' => ~Live(person[u]) /\ u \notin clashed)
    BY <1>2 DEF FailUser
  <2>2. c \notin Changers(u)'
    BY <2>1, CommandMoves DEF Changers, NoCmd, ReplacePcs, SavePcs
  <2>3. u \notin clashed' => Alone(u)' /\ ~Live(person'[u])
    BY <1>1, <2>1, <2>2, StopsAlone DEF UserSteady
  <2> QED
    BY <2>3 DEF UserSteady, Live
<1>3. CASE ~FailUser(c) /\ u \in clashed' \cup disturbed'
  <2>1. (u \notin clashed)' => Alone(u)'
    <3>1. Clash(u, c)
      BY <1>3 DEF ClearRoles, InsertRole
    <3>2. u \notin clashed' => Changers(u) \ {c} = {}
      BY <3>1, ChangingIs DEF Clash
    <3> QED
      BY <1>1, <3>2, OneStaysAlone
  <2> QED
    BY <1>3, <2>1 DEF UserSteady
<1>4. CASE ~FailUser(c) /\ u \notin clashed' \cup disturbed'
  <2>1. Clash(u, c) /\ Disturb(u, c)
    BY <1>4 DEF ClearRoles, InsertRole
  <2>2. u \notin clashed \cup disturbed /\ Changers(u) \ {c} = {}
    BY <1>4, <2>1, ChangingIs DEF Clash, Disturb
  <2>3. Alone(u)' /\ Changers(u)' \subseteq {c}
    BY <1>1, <2>2, OneStaysAlone
  <2>4. ASSUME Live(person[u])
        PROVE  /\ cmd[c].pc = "insert" => direct[u] = cmd[c].ids
               /\ person[u].role = "admin" => "admin" \in cmd[c].ids \/ cmd[c].keys[1] = "admin"
    BY <1>1, <2>2, <2>4 DEF UserSteady
  <2>5. CASE ClearRoles(c)
    <3>1. /\ cmd'[c].pc = "insert" /\ cmd'[c].on = u /\ cmd'[c].ids = cmd[c].ids
          /\ cmd'[c].keys = cmd[c].keys
      BY <2>5, CommandMoves, StandsFacts DEF ClearRoles
    <3>2. cmd[c].ids = {}
      BY <2>5 DEF ClearRoles, Carries
    <3>3. direct'[u] = {}
      BY <1>0, <1>1, <2>5 DEF ClearRoles, Cleared
    <3>4. c \in Changers(u)'
      BY <3>1 DEF Changers, ReplacePcs
    <3> QED
      BY <1>1, <2>3, <2>4, <3>1, <3>2, <3>3, <3>4 DEF UserSteady, Live
  <2>6. CASE InsertRole(c)
    <3> DEFINE ids == ByKey(Head(cmd[c].keys))
               all == cmd[c].ids \cup ids
    <3>1. /\ cmd[c].pc = "insert" /\ cmd[c].keys \in Seq(RoleKeys) /\ cmd[c].keys # <<>>
      BY <1>0, <2>6 DEF InsertRole, Carries, ReplacePcs, UserPcs, RoleCommand
    <3>2. direct'[u] = direct[u] \cup ids
      BY <1>0, <1>1, <2>6 DEF InsertRole
    <3>3. cmd[c].keys[1] = "admin" => "admin" \in ids
      <4>1. Head(cmd[c].keys) = cmd[c].keys[1]
        BY <3>1, KeyFacts
      <4>2. "admin" \in ByKey("admin")
        BY RowsAssumption DEF ByKey, AdminStays, Live, RoleIds, Builtin
      <4> QED
        BY <4>1, <4>2
    <3>4. Live(person[u]) =>
             /\ direct'[u] = all
             /\ person[u].role = "admin" => "admin" \in all
      BY <2>4, <3>1, <3>2, <3>3
    <3> HIDE DEF all, ids
    <3>5. CASE Len(cmd[c].keys) = 1
      <4>1. cmd'[c] = NoCmd /\ ticked'[u] = all
        BY <1>0, <1>1, <2>6, <3>5 DEF InsertRole, all, ids
      <4>2. Changers(u)' = {}
        BY <2>3, <4>1 DEF Changers, NoCmd, ReplacePcs, SavePcs
      <4> QED
        BY <1>1, <2>3, <3>4, <4>1, <4>2 DEF UserSteady, Live
    <3>6. CASE Len(cmd[c].keys) # 1
      <4>1. cmd'[c] = [cmd[c] EXCEPT !.keys = Tail(@), !.ids = all]
        BY <1>0, <2>6, <3>6 DEF InsertRole, all, ids
      <4>2. cmd'[c].pc = "insert" /\ cmd'[c].on = u /\ cmd'[c].ids = all
        BY <1>0, <3>1, <4>1 DEF RoleCommand
      <4>3. c \in Changers(u)'
        BY <4>2 DEF Changers, ReplacePcs
      <4>4. \A d \in Changers(u)' : d = c
        BY <2>3
      <4>5. Live(person'[u]) =>
               /\ direct'[u] = cmd'[c].ids
               /\ person'[u].role = "admin" => "admin" \in cmd'[c].ids
        BY <1>1, <3>4, <4>2
      <4> QED
        BY <2>3, <4>3, <4>4, <4>5 DEF UserSteady, Live
    <3> QED
      BY <3>5, <3>6
  <2> QED
    BY <1>4, <2>5, <2>6
<1> QED
  BY <1>2, <1>3, <1>4

\* A deleted role is gone from every user and from every update at work.
LEMMA DeletionSteady ==
    ASSUME RolesTyped, NEW c \in Commands, Carries(c), NEW u \in Staff, UserSteady(u),
           DeleteRole(c)
    PROVE  UserSteady(u)'
<1>0. /\ cmd \in [Commands -> RoleCommand] /\ direct \in [Staff -> SUBSET RoleIds]
      /\ ticked \in [Staff -> SUBSET RoleIds]
  BY DEF RolesTyped
<1>1. CommandStep(c) /\ UNCHANGED <<person, clashed, disturbed>> /\ cmd[c].pc = "apply"
  BY DEF CommandStep, DeleteRole
<1>2. cmd'[c] = NoCmd
  BY <1>0 DEF DeleteRole, Finish
<1>3. Changers(u)' = Changers(u) /\ c \notin Changers(u)
  <2>1. c \notin Changers(u) /\ c \notin Changers(u)'
    BY <1>1, <1>2 DEF Changers, NoCmd, ReplacePcs, SavePcs
  <2> QED
    BY <1>1, <2>1, ChangersMove
<1>4. Alone(u) => Alone(u)'
  BY <1>3 DEF Alone
<1>5. \E gone \in SUBSET RoleIds :
         /\ "admin" \notin gone
         /\ direct'[u] = direct[u] \ gone /\ ticked'[u] = ticked[u] \ gone
         /\ \A d \in Commands \ {c} : cmd'[d].ids = cmd[d].ids \ gone
  <2>1. CASE UNCHANGED <<direct, ticked>> /\ Finish(c)
    <3>1. /\ "admin" \notin {} /\ {} \in SUBSET RoleIds
          /\ direct'[u] = direct[u] \ {} /\ ticked'[u] = ticked[u] \ {}
          /\ \A d \in Commands \ {c} : cmd'[d].ids = cmd[d].ids \ {}
      BY <2>1, CommandMoves
    <3> QED
      BY <3>1
  <2>2. CASE /\ cmd[c].on \in CustomRoles
             /\ direct' = DirectWithout(cmd[c].on)
             /\ ticked' = [v \in Staff |-> ticked[v] \ {cmd[c].on}]
             /\ cmd' = [d \in Commands |-> IF d = c THEN NoCmd
                                           ELSE [cmd[d] EXCEPT !.ids = @ \ {cmd[c].on}]]
    <3>1. "admin" \notin {cmd[c].on} /\ {cmd[c].on} \in SUBSET RoleIds
      BY <2>2, NamesAssumption DEF Builtin, RoleIds
    <3>2. direct'[u] = direct[u] \ {cmd[c].on} /\ ticked'[u] = ticked[u] \ {cmd[c].on}
      BY <2>2 DEF DirectWithout
    <3>3. \A d \in Commands \ {c} : cmd'[d].ids = cmd[d].ids \ {cmd[c].on}
      <4>1. \A d \in Commands \ {c} : cmd'[d] = [cmd[d] EXCEPT !.ids = @ \ {cmd[c].on}]
        BY <2>2
      <4> QED
        BY <1>0, <4>1 DEF RoleCommand
    <3> QED
      BY <3>1, <3>2, <3>3
  <2> QED
    BY <2>1, <2>2 DEF DeleteRole
<1>6. \A d \in Changers(u) : cmd'[d].pc = cmd[d].pc /\ cmd'[d].keys = cmd[d].keys
  BY <1>1, <1>3, OthersKeep DEF Changers
<1>7. ASSUME Live(person'[u]), u \notin clashed' \cup disturbed'
      PROVE  /\ \A d \in Changers(u)' :
                   /\ cmd'[d].pc = "insert" => direct'[u] = cmd'[d].ids
                   /\ person'[u].role = "admin" => "admin" \in cmd'[d].ids \/ cmd'[d].keys[1] = "admin"
             /\ Changers(u)' = {} =>
                   /\ ticked'[u] # {} => direct'[u] = ticked'[u]
                   /\ person'[u].role = "admin" => "admin" \in ticked'[u]
  <2>1. PICK gone \in SUBSET RoleIds :
           /\ "admin" \notin gone
           /\ direct'[u] = direct[u] \ gone /\ ticked'[u] = ticked[u] \ gone
           /\ \A d \in Commands \ {c} : cmd'[d].ids = cmd[d].ids \ gone
    BY <1>5
  <2>2. \A d \in Changers(u) : cmd'[d].ids = cmd[d].ids \ gone
    BY <1>3, <2>1 DEF Changers
  <2>3. /\ \A d \in Changers(u) :
              /\ cmd[d].pc = "insert" => direct[u] = cmd[d].ids
              /\ person[u].role = "admin" => "admin" \in cmd[d].ids \/ cmd[d].keys[1] = "admin"
        /\ Changers(u) = {} =>
              /\ ticked[u] # {} => direct[u] = ticked[u]
              /\ person[u].role = "admin" => "admin" \in ticked[u]
    BY <1>1, <1>7 DEF UserSteady
  <2> QED
    BY <1>1, <1>3, <1>6, <2>1, <2>2, <2>3
<1>8. UserSteady(u)' <=>
         /\ u \notin clashed' => Alone(u)'
         /\ Live(person'[u]) /\ u \notin clashed' \cup disturbed' =>
               /\ \A d \in Changers(u)' :
                     /\ cmd'[d].pc = "insert" => direct'[u] = cmd'[d].ids
                     /\ person'[u].role = "admin" => "admin" \in cmd'[d].ids \/ cmd'[d].keys[1] = "admin"
               /\ Changers(u)' = {} =>
                     /\ ticked'[u] # {} => direct'[u] = ticked'[u]
                     /\ person'[u].role = "admin" => "admin" \in ticked'[u]
  BY DEF UserSteady, Live
<1>9. u \notin clashed' => Alone(u)'
  BY <1>1, <1>4 DEF UserSteady
<1> QED
  BY <1>7, <1>8, <1>9

\* Every step keeps the roles of every user steady.
LEMMA UserSteadyStep ==
    ASSUME RolesTyped, AdminStays, NEW c \in Commands, Carries(c), NEW u \in Staff,
           UserSteady(u), CommandStep(c) \/ Request(c)
    PROVE  UserSteady(u)'
<1>1. CASE \/ Request(c) \/ LoadRoles(c) \/ ReadFallback(c) \/ CheckUser(c)
           \/ SaveRole(c) \/ DeleteGroup(c)
  BY <1>1, UserQuiet
<1>2. CASE DeleteRole(c)
  BY <1>2, DeletionSteady
<1>3. CASE cmd[c].on # u /\
           (\/ FallbackClears(c) \/ FallbackInserts(c) \/ WriteUser(c) \/ ClearRoles(c)
            \/ InsertRole(c) \/ FailUser(c) \/ WriteGroup(c) \/ ClearMembers(c)
            \/ InsertMember(c) \/ ClearGroupRoles(c) \/ InsertGroupRole(c) \/ FailGroup(c))
  BY <1>3, UserElsewhere
<1>4. CASE cmd[c].on = u /\ (FallbackClears(c) \/ FallbackInserts(c))
  BY <1>4, FallbackSteady
<1>5. CASE cmd[c].on = u /\ WriteUser(c)
  BY <1>5, RowSteady
<1>6. CASE cmd[c].on = u /\ (ClearRoles(c) \/ InsertRole(c) \/ FailUser(c))
  BY <1>6, ReplaceSteady
<1>7. \/ WriteGroup(c) \/ ClearMembers(c) \/ InsertMember(c) \/ ClearGroupRoles(c)
      \/ InsertGroupRole(c) \/ FailGroup(c)
      => cmd[c].on # u
  BY NamesAssumption
  DEF Carries, WriteGroup, ClearMembers, InsertMember, ClearGroupRoles, InsertGroupRole,
      FailGroup, SavePcs, RoleKinds
<1> QED
  BY <1>1, <1>2, <1>3, <1>4, <1>5, <1>6, <1>7 DEF CommandStep

-----------------------------------------------------------------------------
(***************************************************************************)
(* Groups stay steady.                                                     *)
(***************************************************************************)
\* What GroupSteady says of the next state, once it is known who saves g then.
LEMMA GroupSteadyNext ==
    ASSUME NEW g, g \notin clashed' => Alone(g)',
           Live(group'[g]) /\ g \notin clashed' =>
              /\ \A d \in Changers(g)' :
                    /\ cmd'[d].pc # "clearMembers" =>
                          /\ \A u \in cmd'[d].team \ cmd'[d].people : person'[u] # Absent
                          /\ group'[g].members =
                                {u \in cmd'[d].team \ cmd'[d].people : Live(person'[u])}
                    /\ cmd'[d].pc = "roles" => group'[g].roles = cmd'[d].ids
              /\ Changers(g)' = {} =>
                    /\ group'[g].members = set'[g].members
                    /\ group'[g].roles = set'[g].roles
    PROVE  GroupSteady(g)'
BY DEF GroupSteady, Live

\* A group that a step does not touch.  A user may be created: no save at work
\* has inserted it as a member.
LEMMA GroupUntouched ==
    ASSUME RolesTyped, NEW c \in Commands, CommandStep(c) \/ Request(c), ~DeleteRole(c),
           NEW g \in Groups, GroupSteady(g),
           c \notin Changers(g), c \notin Changers(g)',
           g \in clashed => g \in clashed',
           Live(group'[g]) => /\ Live(group[g])
                              /\ group'[g].members = group[g].members
                              /\ group'[g].roles = group[g].roles,
           set'[g] = set[g],
           \A u \in Staff : person[u] # Absent =>
              person'[u] # Absent /\ (Live(person'[u]) <=> Live(person[u]))
    PROVE  GroupSteady(g)'
<1>0. cmd \in [Commands -> RoleCommand]
  BY DEF RolesTyped
<1>1. Changers(g)' = Changers(g)
  BY ChangersMove
<1>2. \A d \in Changers(g) : cmd'[d] = cmd[d] /\ cmd[d].team \subseteq Staff
  BY <1>0, OthersKeep DEF Changers, RoleCommand
<1>3. g \notin clashed' => Alone(g)'
  BY <1>1 DEF GroupSteady, Alone
<1>4. ASSUME Live(group'[g]), g \notin clashed'
      PROVE  /\ \A d \in Changers(g) :
                   /\ cmd[d].pc # "clearMembers" =>
                         /\ \A u \in cmd[d].team \ cmd[d].people : person'[u] # Absent
                         /\ group'[g].members =
                               {u \in cmd[d].team \ cmd[d].people : Live(person'[u])}
                   /\ cmd[d].pc = "roles" => group'[g].roles = cmd[d].ids
             /\ Changers(g) = {} =>
                   /\ group'[g].members = set'[g].members
                   /\ group'[g].roles = set'[g].roles
  <2>1. /\ \A d \in Changers(g) :
              /\ cmd[d].pc # "clearMembers" =>
                    /\ \A u \in cmd[d].team \ cmd[d].people : person[u] # Absent
                    /\ group[g].members =
                          {u \in cmd[d].team \ cmd[d].people : Live(person[u])}
              /\ cmd[d].pc = "roles" => group[g].roles = cmd[d].ids
        /\ Changers(g) = {} =>
              /\ group[g].members = set[g].members
              /\ group[g].roles = set[g].roles
    BY <1>4 DEF GroupSteady
  <2> QED
    BY <1>2, <1>4, <2>1
<1> QED
  BY <1>1, <1>2, <1>3, <1>4, GroupSteadyNext

\* A user that is deleted leaves its groups.
LEMMA GroupLosesMember ==
    ASSUME RolesTyped, NEW c \in Commands, Carries(c), NEW g \in Groups, GroupSteady(g),
           WriteUser(c), cmd[c].kind = "delete", Live(person[cmd[c].on])
    PROVE  GroupSteady(g)'
<1> DEFINE v == cmd[c].on
<1>0. /\ cmd \in [Commands -> RoleCommand] /\ person \in [Staff -> PersonRow \cup {Absent, Gone}]
      /\ set \in [Groups -> [members : SUBSET Staff, roles : SUBSET RoleIds]]
  BY DEF RolesTyped
<1>1. /\ CommandStep(c) /\ ~DeleteRole(c) /\ UNCHANGED clashed
      /\ cmd[c].pc = "row" /\ Finish(c) /\ v \in Staff
      /\ person' = [person EXCEPT ![v] = Gone]
      /\ group' = [h \in Groups |-> IF Live(group[h]) THEN [group[h] EXCEPT !.members = @ \ {v}]
                                                      ELSE group[h]]
      /\ set' = [h \in Groups |-> [set[h] EXCEPT !.members = @ \ {v}]]
  BY DEF CommandStep, DeleteRole, WriteUser, Replaces, Live, Carries, UserPcs
<1> HIDE DEF v
<1>2. Changers(g)' = Changers(g) /\ c \notin Changers(g)
  <2>1. c \notin Changers(g) /\ c \notin Changers(g)'
    BY <1>1, CommandMoves DEF Changers, NoCmd, ReplacePcs, SavePcs
  <2>2. CommandStep(c)
    BY <1>1
  <2>3. Changers(g)' \ {c} = Changers(g) \ {c}
    BY <2>2, ChangersMove
  <2> QED
    BY <2>1, <2>3
<1>3. \A d \in Changers(g) : cmd'[d] = cmd[d] /\ cmd[d].team \subseteq Staff
  BY <1>0, <1>1, <1>2, OthersKeep DEF Changers, RoleCommand
<1>4. g \notin clashed' => Alone(g)'
  BY <1>1, <1>2 DEF GroupSteady, Alone
<1>5. ASSUME Live(group'[g]), g \notin clashed'
      PROVE  /\ \A d \in Changers(g) :
                   /\ cmd[d].pc # "clearMembers" =>
                         /\ \A u \in cmd[d].team \ cmd[d].people : person'[u] # Absent
                         /\ group'[g].members =
                               {u \in cmd[d].team \ cmd[d].people : Live(person'[u])}
                   /\ cmd[d].pc = "roles" => group'[g].roles = cmd[d].ids
             /\ Changers(g) = {} =>
                   /\ group'[g].members = set'[g].members
                   /\ group'[g].roles = set'[g].roles
  <2>1. Live(group[g])
    BY <1>1, <1>5
  <2>2. group'[g].members = group[g].members \ {v} /\ group'[g].roles = group[g].roles
    <3>1. group[g] \in GroupRow
      BY <2>1, LiveRows
    <3>2. group'[g] = [group[g] EXCEPT !.members = @ \ {v}]
      BY <1>1, <2>1
    <3> QED
      BY <3>1, <3>2 DEF GroupRow
  <2>3. set'[g].members = set[g].members \ {v} /\ set'[g].roles = set[g].roles
    <3>1. set'[g] = [set[g] EXCEPT !.members = @ \ {v}]
      BY <1>1
    <3> QED
      BY <1>0, <3>1
  <2>4. /\ \A d \in Changers(g) :
              /\ cmd[d].pc # "clearMembers" =>
                    /\ \A u \in cmd[d].team \ cmd[d].people : person[u] # Absent
                    /\ group[g].members =
                          {u \in cmd[d].team \ cmd[d].people : Live(person[u])}
              /\ cmd[d].pc = "roles" => group[g].roles = cmd[d].ids
        /\ Changers(g) = {} =>
              /\ group[g].members = set[g].members
              /\ group[g].roles = set[g].roles
    BY <1>1, <1>5, <2>1 DEF GroupSteady
  <2>5. \A u \in Staff : /\ person[u] # Absent => person'[u] # Absent
                         /\ Live(person'[u]) <=> Live(person[u]) /\ u # v
    BY <1>0, <1>1, RowsAssumption DEF Live
  <2> QED
    BY <1>3, <2>2, <2>3, <2>4, <2>5
<1> QED
  BY <1>2, <1>3, <1>4, <1>5, GroupSteadyNext

\* A role that is deleted leaves its groups and the saves at work.
LEMMA GroupLosesRole ==
    ASSUME RolesTyped, NEW c \in Commands, Carries(c), NEW g \in Groups, GroupSteady(g),
           DeleteRole(c)
    PROVE  GroupSteady(g)'
<1>0. /\ cmd \in [Commands -> RoleCommand]
      /\ set \in [Groups -> [members : SUBSET Staff, roles : SUBSET RoleIds]]
  BY DEF RolesTyped
<1>1. CommandStep(c) /\ UNCHANGED <<person, clashed, disturbed>> /\ cmd[c].pc = "apply"
  BY DEF CommandStep, DeleteRole
<1>2. cmd'[c] = NoCmd
  BY <1>0 DEF DeleteRole, Finish
<1>3. Changers(g)' = Changers(g) /\ c \notin Changers(g)
  <2>1. c \notin Changers(g) /\ c \notin Changers(g)'
    BY <1>1, <1>2 DEF Changers, NoCmd, ReplacePcs, SavePcs
  <2> QED
    BY <1>1, <2>1, ChangersMove
<1>4. g \notin clashed' => Alone(g)'
  BY <1>1, <1>3 DEF GroupSteady, Alone
<1>5. \A d \in Changers(g) : /\ cmd'[d].pc = cmd[d].pc /\ cmd'[d].team = cmd[d].team
                             /\ cmd'[d].people = cmd[d].people
  BY <1>1, <1>3, OthersKeep DEF Changers
<1>6. \E gone \in SUBSET RoleIds :
         /\ Live(group'[g]) =>
               /\ Live(group[g]) /\ group'[g].members = group[g].members
               /\ group'[g].roles = group[g].roles \ gone
         /\ set'[g].members = set[g].members /\ set'[g].roles = set[g].roles \ gone
         /\ \A d \in Commands \ {c} : cmd'[d].ids = cmd[d].ids \ gone
  <2>1. CASE UNCHANGED <<group, set>> /\ Finish(c)
    <3>1. /\ {} \in SUBSET RoleIds
          /\ group'[g].roles = group[g].roles \ {} /\ set'[g].roles = set[g].roles \ {}
          /\ \A d \in Commands \ {c} : cmd'[d].ids = cmd[d].ids \ {}
      <4>1. \A d \in Commands \ {c} : cmd'[d] = cmd[d]
        BY <2>1, CommandMoves
      <4>2. group'[g] = group[g] /\ set'[g] = set[g]
        BY <2>1
      <4>3. \A X : X = X \ {}
        OBVIOUS
      <4> QED
        BY <4>1, <4>2, <4>3
    <3>2. group'[g] = group[g] /\ set'[g] = set[g]
      BY <2>1
    <3> QED
      BY <3>1, <3>2
  <2>2. CASE /\ cmd[c].on \in CustomRoles
             /\ group' = [h \in Groups |-> IF Live(group[h])
                             THEN [group[h] EXCEPT !.roles = @ \ {cmd[c].on}] ELSE group[h]]
             /\ set' = [h \in Groups |-> [set[h] EXCEPT !.roles = @ \ {cmd[c].on}]]
             /\ cmd' = [d \in Commands |-> IF d = c THEN NoCmd
                                           ELSE [cmd[d] EXCEPT !.ids = @ \ {cmd[c].on}]]
    <3>1. {cmd[c].on} \in SUBSET RoleIds
      BY <2>2 DEF RoleIds
    <3>2. Live(group'[g]) => /\ Live(group[g]) /\ group'[g].members = group[g].members
                             /\ group'[g].roles = group[g].roles \ {cmd[c].on}
      <4>1. Live(group[g]) => /\ group[g] \in GroupRow
                              /\ group'[g] = [group[g] EXCEPT !.roles = @ \ {cmd[c].on}]
        BY <2>2, LiveRows
      <4>2. ~Live(group[g]) => group'[g] = group[g]
        BY <2>2
      <4> QED
        BY <4>1, <4>2 DEF GroupRow
    <3>3. set'[g].members = set[g].members /\ set'[g].roles = set[g].roles \ {cmd[c].on}
      <4>1. set'[g] = [set[g] EXCEPT !.roles = @ \ {cmd[c].on}]
        BY <2>2
      <4> QED
        BY <1>0, <4>1
    <3>4. \A d \in Commands \ {c} : cmd'[d].ids = cmd[d].ids \ {cmd[c].on}
      <4>1. \A d \in Commands \ {c} : cmd'[d] = [cmd[d] EXCEPT !.ids = @ \ {cmd[c].on}]
        BY <2>2
      <4> QED
        BY <1>0, <4>1 DEF RoleCommand
    <3> QED
      BY <3>1, <3>2, <3>3, <3>4
  <2> QED
    BY <2>1, <2>2 DEF DeleteRole
<1>7. ASSUME Live(group'[g]), g \notin clashed'
      PROVE  /\ \A d \in Changers(g)' :
                   /\ cmd'[d].pc # "clearMembers" =>
                         /\ \A u \in cmd'[d].team \ cmd'[d].people : person'[u] # Absent
                         /\ group'[g].members =
                               {u \in cmd'[d].team \ cmd'[d].people : Live(person'[u])}
                   /\ cmd'[d].pc = "roles" => group'[g].roles = cmd'[d].ids
             /\ Changers(g)' = {} =>
                   /\ group'[g].members = set'[g].members
                   /\ group'[g].roles = set'[g].roles
  <2>1. PICK gone \in SUBSET RoleIds :
           /\ Live(group'[g]) =>
                 /\ Live(group[g]) /\ group'[g].members = group[g].members
                 /\ group'[g].roles = group[g].roles \ gone
           /\ set'[g].members = set[g].members /\ set'[g].roles = set[g].roles \ gone
           /\ \A d \in Commands \ {c} : cmd'[d].ids = cmd[d].ids \ gone
    BY <1>6
  <2>2. \A d \in Changers(g) : cmd'[d].ids = cmd[d].ids \ gone
    BY <1>3, <2>1 DEF Changers
  <2>3. /\ \A d \in Changers(g) :
              /\ cmd[d].pc # "clearMembers" =>
                    /\ \A u \in cmd[d].team \ cmd[d].people : person[u] # Absent
                    /\ group[g].members =
                          {u \in cmd[d].team \ cmd[d].people : Live(person[u])}
              /\ cmd[d].pc = "roles" => group[g].roles = cmd[d].ids
        /\ Changers(g) = {} =>
              /\ group[g].members = set[g].members
              /\ group[g].roles = set[g].roles
    BY <1>1, <1>7, <2>1 DEF GroupSteady
  <2>4. person' = person /\ (Changers(g)' = {} <=> Changers(g) = {})
    BY <1>1, <1>3
  <2>5. group'[g].members = group[g].members /\ group'[g].roles = group[g].roles \ gone
    BY <1>7, <2>1
  <2>6. ASSUME NEW d \in Changers(g)
        PROVE  /\ cmd'[d].pc # "clearMembers" =>
                     /\ \A u \in cmd'[d].team \ cmd'[d].people : person'[u] # Absent
                     /\ group'[g].members =
                           {u \in cmd'[d].team \ cmd'[d].people : Live(person'[u])}
               /\ cmd'[d].pc = "roles" => group'[g].roles = cmd'[d].ids
    BY <1>5, <2>2, <2>3, <2>4, <2>5, <2>6
  <2> QED
    BY <1>3, <2>1, <2>3, <2>4, <2>5, <2>6
<1> QED
  BY <1>4, <1>7, GroupSteadyNext

\* Statements for users and for other groups.
LEMMA GroupElsewhere ==
    ASSUME RolesTyped, NEW c \in Commands, Carries(c), NEW g \in Groups, GroupSteady(g),
           \/ Request(c) \/ LoadRoles(c) \/ ReadFallback(c) \/ FallbackClears(c)
           \/ FallbackInserts(c) \/ CheckUser(c) \/ ClearRoles(c) \/ InsertRole(c)
           \/ FailUser(c) \/ SaveRole(c)
           \/ WriteUser(c) /\ ~(cmd[c].kind = "delete" /\ Live(person[cmd[c].on]))
           \/ cmd[c].on # g /\ (\/ WriteGroup(c) \/ ClearMembers(c) \/ InsertMember(c)
                                \/ ClearGroupRoles(c) \/ InsertGroupRole(c) \/ FailGroup(c)
                                \/ DeleteGroup(c))
    PROVE  GroupSteady(g)'
<1> USE DEF tables, memory
<1>0. cmd \in [Commands -> RoleCommand] /\ person \in [Staff -> PersonRow \cup {Absent, Gone}]
  BY DEF RolesTyped
<1>1. ~DeleteRole(c)
  BY RequestTypes
  DEF DeleteRole, LoadRoles, ReadFallback, FallbackClears, FallbackInserts, CheckUser,
      ClearRoles, InsertRole, FailUser, SaveRole, WriteUser, WriteGroup, ClearMembers,
      InsertMember, ClearGroupRoles, InsertGroupRole, FailGroup, DeleteGroup
<1>2. CommandStep(c) \/ Request(c)
  BY DEF CommandStep
<1>3. CASE cmd[c].on # g \/ cmd[c].pc \in {"done", "apply"}
  <2>1. c \notin Changers(g)
    BY <1>3 DEF Changers, ReplacePcs, SavePcs
  <2>2. c \notin Changers(g)'
    <3>1. CASE Request(c)
      <4>1. cmd'[c].pc \in {"load", "row", "check", "apply"}
        BY <1>0, <3>1, RequestTypes
      <4> QED
        BY <4>1 DEF Changers, ReplacePcs, SavePcs
    <3>2. CASE SaveRole(c)
      BY <3>2, CommandMoves DEF SaveRole, Changers, NoCmd, ReplacePcs, SavePcs
    <3>3. CASE CommandStep(c) /\ cmd[c].on # g
      BY <3>3, SubjectStays DEF Changers, NoCmd, ReplacePcs, SavePcs
    <3>4. CASE ~Request(c) /\ ~SaveRole(c)
      <4>1. cmd[c].on # g
        BY <1>3, <3>4
        DEF LoadRoles, ReadFallback, FallbackClears, FallbackInserts, CheckUser, ClearRoles,
            InsertRole, FailUser, WriteUser
      <4> QED
        BY <1>2, <3>3, <3>4, <4>1
    <3> QED
      BY <3>1, <3>2, <3>4
  <2>3. g \in clashed => g \in clashed'
    <3>1. cmd[c].on # g \/ clashed' = clashed
      BY <1>3, RequestTypes
      DEF LoadRoles, ReadFallback, FallbackClears, FallbackInserts, CheckUser, ClearRoles,
          InsertRole, FailUser, SaveRole, WriteUser, ReplacePcs
    <3> QED
      BY <3>1, RequestTypes
      DEF LoadRoles, ReadFallback, FallbackClears, FallbackInserts, CheckUser, ClearRoles,
          InsertRole, FailUser, SaveRole, WriteUser, WriteGroup, ClearMembers, InsertMember,
          ClearGroupRoles, InsertGroupRole, FailGroup, DeleteGroup, Clash, Recover
  <2>4. group'[g] = group[g] /\ set'[g] = set[g]
    BY <1>3, RequestTypes
    DEF LoadRoles, ReadFallback, FallbackClears, FallbackInserts, CheckUser, ClearRoles,
        InsertRole, FailUser, SaveRole, WriteUser, WriteGroup, ClearMembers, InsertMember,
        ClearGroupRoles, InsertGroupRole, FailGroup, DeleteGroup, Alter, RolesTyped
  <2>5. \A u \in Staff : person[u] # Absent =>
           person'[u] # Absent /\ (Live(person'[u]) <=> Live(person[u]))
    <3>1. CASE WriteUser(c)
      <4>1. /\ cmd[c].on \in Staff /\ cmd[c].off \in BOOLEAN /\ cmd[c].keys \in Seq(RoleKeys)
            /\ cmd[c].kind \in {"create", "update"} => cmd[c].keys # <<>>
        BY <1>0, <3>1 DEF WriteUser, Carries, UserPcs, RoleCommand
      <4>2. cmd[c].kind \in {"create", "update"} =>
               [role |-> cmd[c].keys[1], disabled |-> cmd[c].off] \in PersonRow
        BY <4>1, KeyFacts DEF PersonRow
      <4>3. Live(person[cmd[c].on]) =>
               [person[cmd[c].on] EXCEPT !.disabled = cmd[c].off] \in PersonRow
        BY <4>1, LiveRows DEF PersonRow
      <4>4. \A row \in PersonRow : Live(row)
        BY RowsAssumption DEF Live
      <4>5. \/ person' = person
            \/ /\ cmd[c].kind \in {"create", "update"}
               /\ person[cmd[c].on] = Absent \/ Live(person[cmd[c].on])
               /\ person' = [person EXCEPT ![cmd[c].on] =
                               [role |-> cmd[c].keys[1], disabled |-> cmd[c].off]]
            \/ /\ Live(person[cmd[c].on])
               /\ person' = [person EXCEPT ![cmd[c].on] =
                               [person[cmd[c].on] EXCEPT !.disabled = cmd[c].off]]
        <5>1. ~(cmd[c].kind = "delete" /\ Live(person[cmd[c].on]))
          BY <3>1, RequestTypes
          DEF WriteUser, LoadRoles, ReadFallback, FallbackClears, FallbackInserts, CheckUser,
              ClearRoles, InsertRole, FailUser, SaveRole, WriteGroup, ClearMembers,
              InsertMember, ClearGroupRoles, InsertGroupRole, FailGroup, DeleteGroup
        <5>2. person' = [person EXCEPT ![cmd[c].on].disabled = cmd[c].off] =>
                 person' = [person EXCEPT ![cmd[c].on] =
                               [person[cmd[c].on] EXCEPT !.disabled = cmd[c].off]]
          OBVIOUS
        <5> QED
          BY <3>1, <5>1, <5>2 DEF WriteUser
      <4>6. \A u \in Staff : \/ person'[u] = person[u]
                             \/ person'[u] \in PersonRow /\ (person[u] = Absent \/ Live(person[u]))
        BY <1>0, <4>1, <4>2, <4>3, <4>5
      <4> QED
        BY <4>4, <4>6 DEF Live
    <3>2. CASE ~WriteUser(c)
      BY <3>2, RequestTypes
      DEF LoadRoles, ReadFallback, FallbackClears, FallbackInserts, CheckUser, ClearRoles,
          InsertRole, FailUser, SaveRole, WriteGroup, ClearMembers, InsertMember,
          ClearGroupRoles, InsertGroupRole, FailGroup, DeleteGroup
    <3> QED
      BY <3>1, <3>2
  <2> QED
    BY <1>1, <1>2, <2>1, <2>2, <2>3, <2>4, <2>5, GroupUntouched
<1>4. cmd[c].on # g \/ cmd[c].pc \in {"done", "apply"}
  BY NamesAssumption, RequestTypes
  DEF Carries, LoadRoles, ReadFallback, FallbackClears, FallbackInserts, CheckUser, ClearRoles,
      InsertRole, FailUser, SaveRole, WriteUser, UserPcs, LoadPcs
<1> QED
  BY <1>3, <1>4

\* The statement on the row of g: a save that is alone starts anew.
LEMMA GroupRowSteady ==
    ASSUME RolesTyped, NEW c \in Commands, Carries(c), NEW g \in Groups, g = cmd[c].on,
           GroupSteady(g), WriteGroup(c)
    PROVE  GroupSteady(g)'
<1>1. CommandStep(c) /\ ~DeleteRole(c) /\ cmd[c].pc = "apply" /\ UNCHANGED <<person, set>>
  BY DEF CommandStep, WriteGroup, DeleteRole
<1>2. c \notin Changers(g)
  BY <1>1 DEF Changers, ReplacePcs, SavePcs
<1>3. CASE Finish(c) /\ UNCHANGED <<group, clashed>>
  <2>1. c \notin Changers(g)'
    BY <1>3, CommandMoves DEF Changers, NoCmd, ReplacePcs, SavePcs
  <2> QED
    BY <1>1, <1>2, <1>3, <2>1, GroupUntouched
<1>4. CASE /\ Go(c, "clearMembers")
           /\ clashed' = IF Changing(g, c) = {} THEN clashed \ {g} ELSE clashed \cup {g}
  <2>1. CASE Changing(g, c) = {}
    <3>1. Changers(g) \ {c} = {}
      BY <2>1, ChangingIs
    <3>2. Alone(g)' /\ Changers(g)' \subseteq {c}
      BY <1>1, <3>1, OneStaysAlone
    <3>3. cmd'[c].pc = "clearMembers" /\ cmd'[c].on = g
      BY <1>4, CommandMoves, StandsFacts
    <3>4. c \in Changers(g)'
      BY <3>3 DEF Changers, SavePcs
    <3> QED
      BY <3>2, <3>3, <3>4, GroupSteadyNext
  <2>2. CASE Changing(g, c) # {}
    BY <1>4, <2>2, GroupSteadyNext
  <2> QED
    BY <2>1, <2>2
<1> QED
  BY <1>3, <1>4 DEF WriteGroup

\* Deleting and inserting the members and the roles of g.
LEMMA SaveSteady ==
    ASSUME RolesTyped, NEW c \in Commands, Carries(c), NEW g \in Groups, g = cmd[c].on,
           GroupSteady(g),
           ClearMembers(c) \/ InsertMember(c) \/ ClearGroupRoles(c) \/ InsertGroupRole(c)
    PROVE  GroupSteady(g)'
<1>0. /\ cmd \in [Commands -> RoleCommand] /\ group \in [Groups -> GroupRow \cup {Absent, Gone}]
      /\ set \in [Groups -> [members : SUBSET Staff, roles : SUBSET RoleIds]]
  BY DEF RolesTyped
<1>1. /\ CommandStep(c) /\ UNCHANGED person /\ Clash(g, c)
      /\ cmd[c].pc \in SavePcs /\ c \in Changers(g)
  BY DEF ClearMembers, InsertMember, ClearGroupRoles, InsertGroupRole, CommandStep, SavePcs,
         Changers
<1>2. g \notin clashed' => g \notin clashed /\ Changers(g) \ {c} = {}
  BY <1>1, ChangingIs DEF Clash
<1>3. g \notin clashed' => Alone(g)' /\ Changers(g)' \subseteq {c}
  BY <1>1, <1>2, OneStaysAlone
<1>4. CASE ~Live(group'[g]) \/ g \in clashed'
  BY <1>3, <1>4, GroupSteadyNext
<1>5. CASE Live(group'[g]) /\ g \notin clashed'
  <2>1. Live(group[g]) /\ group[g] \in GroupRow
    <3>1. group'[g] = group[g] \/ Live(group[g])
      BY <1>0 DEF ClearMembers, InsertMember, ClearGroupRoles, InsertGroupRole, Alter
    <3> QED
      BY <1>5, <3>1, LiveRows
  <2>2. /\ cmd[c].pc # "clearMembers" =>
              /\ \A u \in cmd[c].team \ cmd[c].people : person[u] # Absent
              /\ group[g].members = {u \in cmd[c].team \ cmd[c].people : Live(person[u])}
        /\ cmd[c].pc = "roles" => group[g].roles = cmd[c].ids
    BY <1>1, <1>2, <1>5, <2>1 DEF GroupSteady
  <2>3. SUFFICES \/ /\ c \in Changers(g)'
                    /\ cmd'[c].pc # "clearMembers" =>
                          /\ \A u \in cmd'[c].team \ cmd'[c].people : person'[u] # Absent
                          /\ group'[g].members =
                                {u \in cmd'[c].team \ cmd'[c].people : Live(person'[u])}
                    /\ cmd'[c].pc = "roles" => group'[g].roles = cmd'[c].ids
                 \/ /\ c \notin Changers(g)'
                    /\ group'[g].members = set'[g].members
                    /\ group'[g].roles = set'[g].roles
    <3>1. \A d \in Changers(g)' : d = c
      BY <1>3, <1>5
    <3> QED
      BY <1>3, <1>5, <2>3, <3>1, GroupSteadyNext
  <2>4. CASE ClearMembers(c)
    <3>1. /\ cmd'[c].pc = "members" /\ cmd'[c].on = g /\ cmd'[c].team = cmd[c].team
          /\ cmd'[c].people = cmd[c].people
      BY <2>4, CommandMoves, StandsFacts DEF ClearMembers
    <3>2. cmd[c].people = cmd[c].team
      BY <2>4 DEF ClearMembers, Carries
    <3>3. group'[g] = [group[g] EXCEPT !.members = {}]
      BY <1>0, <2>1, <2>4 DEF ClearMembers, MembersCleared, Alter
    <3>4. group'[g].members = {}
      BY <2>1, <3>3 DEF GroupRow
    <3>5. c \in Changers(g)'
      BY <3>1 DEF Changers, SavePcs
    <3> QED
      BY <3>1, <3>2, <3>4, <3>5
  <2>5. CASE InsertMember(c)
    <3>1. cmd[c].pc = "members" /\ cmd[c].people \subseteq cmd[c].team
      BY <2>5 DEF InsertMember, Carries
    <3>2. CASE \E u \in cmd[c].people :
                  /\ Live(person[u])
                  /\ group' = [group EXCEPT ![g].members = @ \cup {u}]
                  /\ cmd' = [cmd EXCEPT ![c].people = @ \ {u}]
      <4>1. PICK v \in cmd[c].people :
               /\ Live(person[v])
               /\ group' = [group EXCEPT ![g] = [group[g] EXCEPT !.members = @ \cup {v}]]
               /\ cmd' = [cmd EXCEPT ![c] = [cmd[c] EXCEPT !.people = @ \ {v}]]
        BY <3>2
      <4>2. group'[g].members = group[g].members \cup {v}
        BY <1>0, <2>1, <4>1 DEF GroupRow
      <4>3. /\ cmd'[c].pc = "members" /\ cmd'[c].on = g /\ cmd'[c].team = cmd[c].team
            /\ cmd'[c].people = cmd[c].people \ {v}
        BY <1>0, <3>1, <4>1 DEF RoleCommand
      <4>4. c \in Changers(g)'
        BY <4>3 DEF Changers, SavePcs
      <4>5. cmd'[c].team \ cmd'[c].people = (cmd[c].team \ cmd[c].people) \cup {v}
        BY <3>1, <4>1, <4>3
      <4>6. Live(person[v]) => person[v] # Absent
        BY DEF Live
      <4>7. /\ \A u \in cmd[c].team \ cmd[c].people : person[u] # Absent
            /\ group[g].members = {u \in cmd[c].team \ cmd[c].people : Live(person[u])}
        BY <2>2, <3>1
      <4>8. /\ \A u \in cmd'[c].team \ cmd'[c].people : person'[u] # Absent
            /\ group'[g].members = {u \in cmd'[c].team \ cmd'[c].people : Live(person'[u])}
        BY <1>1, <4>1, <4>2, <4>5, <4>6, <4>7
      <4> QED
        BY <4>3, <4>4, <4>8
    <3>3. CASE Go(c, "clearRoles") /\ UNCHANGED group
      <4>1. /\ cmd'[c].pc = "clearRoles" /\ cmd'[c].on = g /\ cmd'[c].team = cmd[c].team
            /\ cmd'[c].people = cmd[c].people
        BY <3>3, CommandMoves, StandsFacts
      <4>2. c \in Changers(g)'
        BY <4>1 DEF Changers, SavePcs
      <4> QED
        BY <1>1, <2>2, <3>1, <3>3, <4>1, <4>2
    <3> QED
      BY <2>5, <3>2, <3>3 DEF InsertMember
  <2>6. CASE ClearGroupRoles(c)
    <3>1. /\ cmd'[c].pc = "roles" /\ cmd'[c].on = g /\ cmd'[c].team = cmd[c].team
          /\ cmd'[c].people = cmd[c].people /\ cmd'[c].ids = cmd[c].ids
      BY <2>6, CommandMoves, StandsFacts DEF ClearGroupRoles
    <3>2. cmd[c].ids = {} /\ cmd[c].pc = "clearRoles"
      BY <2>6 DEF ClearGroupRoles, Carries
    <3>3. group'[g] = [group[g] EXCEPT !.roles = {}]
      BY <1>0, <2>1, <2>6 DEF ClearGroupRoles, Alter
    <3>4. group'[g].members = group[g].members /\ group'[g].roles = {}
      BY <2>1, <3>3 DEF GroupRow
    <3>5. c \in Changers(g)'
      BY <3>1 DEF Changers, SavePcs
    <3> QED
      BY <1>1, <2>2, <3>1, <3>2, <3>4, <3>5
  <2>7. CASE InsertGroupRole(c)
    <3> DEFINE ids == ByKey(Head(cmd[c].keys))
    <3>1. cmd[c].pc = "roles" /\ cmd[c].people = {}
      BY <2>7 DEF InsertGroupRole, Carries
    <3>2. group'[g] = [group[g] EXCEPT !.roles = @ \cup ids]
      BY <1>0, <2>1, <2>7 DEF InsertGroupRole, Alter
    <3> HIDE DEF ids
    <3>3. group'[g].members = group[g].members /\ group'[g].roles = group[g].roles \cup ids
      BY <2>1, <3>2 DEF GroupRow
    <3>4. /\ \A u \in cmd[c].team : person[u] # Absent
          /\ group[g].members = {u \in cmd[c].team : Live(person[u])}
          /\ group[g].roles = cmd[c].ids
      BY <2>2, <3>1
    <3>5. CASE Len(cmd[c].keys) = 1
      <4>1. cmd'[c] = NoCmd
        BY <1>0, <2>7, <3>5 DEF InsertGroupRole
      <4>2. set'[g] = [members |-> {u \in cmd[c].team : Live(person[u])},
                       roles |-> cmd[c].ids \cup ids]
        BY <1>0, <2>7, <3>5 DEF InsertGroupRole, ids
      <4>3. c \notin Changers(g)'
        BY <4>1 DEF Changers, NoCmd, ReplacePcs, SavePcs
      <4> QED
        BY <3>3, <3>4, <4>2, <4>3
    <3>6. CASE Len(cmd[c].keys) # 1
      <4>1. cmd'[c] = [cmd[c] EXCEPT !.keys = Tail(@), !.ids = @ \cup ids]
        BY <1>0, <2>7, <3>6 DEF InsertGroupRole, ids
      <4>2. /\ cmd'[c].pc = "roles" /\ cmd'[c].on = g /\ cmd'[c].team = cmd[c].team
            /\ cmd'[c].people = {} /\ cmd'[c].ids = cmd[c].ids \cup ids
        BY <1>0, <3>1, <4>1 DEF RoleCommand
      <4>3. c \in Changers(g)'
        BY <4>2 DEF Changers, SavePcs
      <4> QED
        BY <1>1, <3>3, <3>4, <4>2, <4>3
    <3> QED
      BY <3>5, <3>6
  <2> QED
    BY <2>4, <2>5, <2>6, <2>7
<1> QED
  BY <1>4, <1>5

\* A save of g that fails, and the deletion of g.
LEMMA GroupEnds ==
    ASSUME RolesTyped, NEW c \in Commands, Carries(c), NEW g \in Groups, g = cmd[c].on,
           GroupSteady(g), FailGroup(c) \/ DeleteGroup(c)
    PROVE  GroupSteady(g)'
<1>1. CASE FailGroup(c)
  BY <1>1, GroupSteadyNext DEF FailGroup
<1>2. CASE DeleteGroup(c)
  <2>1. CommandStep(c) /\ Finish(c) /\ UNCHANGED clashed
    BY <1>2 DEF CommandStep, DeleteGroup, memory
  <2>2. c \notin Changers(g)'
    BY <2>1, CommandMoves DEF Changers, NoCmd, ReplacePcs, SavePcs
  <2>3. g \notin clashed' => Alone(g)'
    BY <2>1, <2>2, StopsAlone DEF GroupSteady
  <2>4. ~Live(group'[g])
    BY <1>2 DEF DeleteGroup, RolesTyped, Live
  <2> QED
    BY <2>3, <2>4, GroupSteadyNext
<1> QED
  BY <1>1, <1>2

\* Every step keeps every group steady.
LEMMA GroupSteadyStep ==
    ASSUME RolesTyped, NEW c \in Commands, Carries(c), NEW g \in Groups,
           GroupSteady(g), CommandStep(c) \/ Request(c)
    PROVE  GroupSteady(g)'
<1>1. CASE \/ Request(c) \/ LoadRoles(c) \/ ReadFallback(c) \/ FallbackClears(c)
           \/ FallbackInserts(c) \/ CheckUser(c) \/ ClearRoles(c) \/ InsertRole(c)
           \/ FailUser(c) \/ SaveRole(c)
  BY <1>1, GroupElsewhere
<1>2. CASE WriteUser(c)
  BY <1>2, GroupElsewhere, GroupLosesMember
<1>3. CASE DeleteRole(c)
  BY <1>3, GroupLosesRole
<1>4. CASE \/ WriteGroup(c) \/ ClearMembers(c) \/ InsertMember(c) \/ ClearGroupRoles(c)
           \/ InsertGroupRole(c) \/ FailGroup(c) \/ DeleteGroup(c)
  BY <1>4, GroupElsewhere, GroupRowSteady, SaveSteady, GroupEnds
<1> QED
  BY <1>1, <1>2, <1>3, <1>4 DEF CommandStep

-----------------------------------------------------------------------------
(***************************************************************************)
(* Foreign keys.                                                           *)
(***************************************************************************)
\* A role that exists goes only by its deletion, a user by its own.
LEMMA RowsLive ==
    ASSUME RolesTyped, NEW c \in Commands, Carries(c), CommandStep(c) \/ Request(c)
    PROVE  /\ ~DeleteRole(c) => \A r \in RoleIds : Live(role[r]) => Live(role'[r])
           /\ ~(WriteUser(c) /\ cmd[c].kind = "delete") =>
                 \A u \in Staff : Live(person[u]) => Live(person'[u])
<1> USE DEF tables, memory
<1>0. /\ person \in [Staff -> PersonRow \cup {Absent, Gone}]
      /\ role \in [RoleIds -> RoleRow \cup {Absent, Gone}]
      /\ cmd[c] \in RoleCommand
  BY DEF RolesTyped
<1>1. \A row \in RoleRow \cup PersonRow : Live(row)
  BY RowsAssumption DEF Live
<1>2. CASE SaveRole(c)
  <2>1. cmd[c].on \in RoleIds /\ cmd[c].keys[1] \in RoleKeys
    <3>1. cmd[c].on \in RoleIds /\ cmd[c].keys # <<>>
      BY <1>2 DEF SaveRole, Carries, RoleKinds
    <3> QED
      BY <1>0, <3>1, KeyFacts DEF RoleCommand
  <2>2. NormalizePermissions(cmd[c].rights) \subseteq Rights
    BY <1>0 DEF NormalizePermissions, RoleCommand, Rights
  <2>3. [key |-> cmd[c].keys[1], rights |-> NormalizePermissions(cmd[c].rights)] \in RoleRow
    BY <2>1, <2>2 DEF RoleRow
  <2>4. \A r \in RoleIds : role'[r] = role[r] \/ role'[r] \in RoleRow
    BY <1>0, <1>2, <2>1, <2>3 DEF SaveRole
  <2>5. person' = person
    BY <1>2 DEF SaveRole
  <2> QED
    BY <1>1, <2>4, <2>5
<1>3. CASE WriteUser(c)
  <2>1. /\ cmd[c].on \in Staff /\ cmd[c].off \in BOOLEAN /\ cmd[c].keys \in Seq(RoleKeys)
        /\ cmd[c].kind \in {"create", "update"} => cmd[c].keys # <<>>
    BY <1>0, <1>3 DEF WriteUser, Carries, UserPcs, RoleCommand
  <2>2. cmd[c].kind \in {"create", "update"} =>
           [role |-> cmd[c].keys[1], disabled |-> cmd[c].off] \in PersonRow
    BY <2>1, KeyFacts DEF PersonRow
  <2>3. Live(person[cmd[c].on]) =>
           [person[cmd[c].on] EXCEPT !.disabled = cmd[c].off] \in PersonRow
    BY <2>1, LiveRows DEF PersonRow
  <2>4. cmd[c].kind # "delete" =>
           \/ person' = person
           \/ /\ cmd[c].kind \in {"create", "update"}
              /\ person' = [person EXCEPT ![cmd[c].on] =
                              [role |-> cmd[c].keys[1], disabled |-> cmd[c].off]]
           \/ /\ Live(person[cmd[c].on])
              /\ person' = [person EXCEPT ![cmd[c].on] =
                              [person[cmd[c].on] EXCEPT !.disabled = cmd[c].off]]
    <3>1. person' = [person EXCEPT ![cmd[c].on].disabled = cmd[c].off] =>
             person' = [person EXCEPT ![cmd[c].on] =
                           [person[cmd[c].on] EXCEPT !.disabled = cmd[c].off]]
      OBVIOUS
    <3> QED
      BY <1>3, <3>1 DEF WriteUser
  <2>5. cmd[c].kind # "delete" =>
           \A u \in Staff : person'[u] = person[u] \/ person'[u] \in PersonRow
    BY <1>0, <2>1, <2>2, <2>3, <2>4
  <2>6. role' = role
    BY <1>3 DEF WriteUser
  <2> QED
    BY <1>1, <1>3, <2>5, <2>6
<1>4. CASE ~SaveRole(c) /\ ~WriteUser(c)
  <2>1. person' = person /\ (~DeleteRole(c) => role' = role)
    BY <1>4, RequestTypes
    DEF CommandStep, LoadRoles, ReadFallback, FallbackClears, FallbackInserts, CheckUser,
        ClearRoles, InsertRole, FailUser, DeleteRole, WriteGroup, ClearMembers, InsertMember,
        ClearGroupRoles, InsertGroupRole, FailGroup, DeleteGroup
  <2> QED
    BY <2>1
<1> QED
  BY <1>2, <1>3, <1>4

\* Every step keeps the foreign keys: what a table refers to is inserted while
\* it exists, and its deletion takes the rows that refer to it along.
LEMMA ReferencesStep ==
    ASSUME RolesTyped, References, NEW c \in Commands, Carries(c), CommandStep(c) \/ Request(c)
    PROVE  References'
<1> USE DEF tables, memory
<1>0. /\ direct \in [Staff -> SUBSET RoleIds]
      /\ group \in [Groups -> GroupRow \cup {Absent, Gone}]
      /\ person \in [Staff -> PersonRow \cup {Absent, Gone}]
      /\ role \in [RoleIds -> RoleRow \cup {Absent, Gone}]
  BY DEF RolesTyped
<1>a. \A k : \A r \in ByKey(k) : r \in RoleIds /\ Live(role[r])
  BY DEF ByKey
<1>b. References' <=>
         /\ \A u \in Staff : \A r \in direct'[u] : Live(role'[r])
         /\ \A g \in Groups : Live(group'[g]) =>
               /\ \A u \in group'[g].members : Live(person'[u])
               /\ \A r \in group'[g].roles : Live(role'[r])
  BY DEF References, Live
<1>c. \A g \in Groups : Live(group[g]) =>
         /\ group[g] \in GroupRow /\ group[g].members \subseteq Staff
         /\ group[g].roles \subseteq RoleIds
         /\ \A u \in group[g].members : Live(person[u])
         /\ \A r \in group[g].roles : Live(role[r])
  BY LiveRows DEF References, GroupRow
<1>1. CASE DeleteRole(c) /\ role' # role
  <2> DEFINE r == cmd[c].on
  <2>1. /\ r \in RoleIds /\ role' = [role EXCEPT ![r] = Gone] /\ direct' = DirectWithout(r)
        /\ group' = [g \in Groups |-> IF Live(group[g]) THEN [group[g] EXCEPT !.roles = @ \ {r}]
                                                        ELSE group[g]]
        /\ person' = person
    BY <1>1 DEF DeleteRole, RoleIds
  <2> HIDE DEF r
  <2>2. \A s \in RoleIds \ {r} : role'[s] = role[s]
    BY <1>0, <2>1
  <2>3. \A u \in Staff : \A s \in direct'[u] : Live(role'[s])
    BY <1>0, <2>1, <2>2 DEF DirectWithout, References
  <2>4. ASSUME NEW g \in Groups, Live(group'[g])
        PROVE  /\ \A u \in group'[g].members : Live(person'[u])
               /\ \A s \in group'[g].roles : Live(role'[s])
    <3>1. Live(group[g]) /\ group'[g] = [group[g] EXCEPT !.roles = @ \ {r}]
      BY <2>1, <2>4
    <3>2. group'[g].members = group[g].members /\ group'[g].roles = group[g].roles \ {r}
      BY <1>c, <3>1 DEF GroupRow
    <3> QED
      BY <1>c, <2>1, <2>2, <3>1, <3>2
  <2> QED
    BY <1>b, <2>3, <2>4
<1>2. CASE WriteUser(c) /\ cmd[c].kind = "delete"
  <2> DEFINE v == cmd[c].on
  <2>1. CASE UNCHANGED <<person, direct, role, group>>
    BY <2>1 DEF References, Live
  <2>2. CASE /\ person' = [person EXCEPT ![v] = Gone] /\ direct' = [direct EXCEPT ![v] = {}]
             /\ group' = [g \in Groups |-> IF Live(group[g])
                             THEN [group[g] EXCEPT !.members = @ \ {v}] ELSE group[g]]
             /\ role' = role
    <3> HIDE DEF v
    <3>1. \A u \in Staff \ {v} : person'[u] = person[u]
      BY <1>0, <2>2
    <3>2. \A u \in Staff : direct'[u] \subseteq direct[u]
      BY <1>0, <2>2
    <3>3. \A u \in Staff : \A s \in direct'[u] : Live(role'[s])
      BY <2>2, <3>2 DEF References
    <3>4. ASSUME NEW g \in Groups, Live(group'[g])
          PROVE  /\ \A u \in group'[g].members : Live(person'[u])
                 /\ \A s \in group'[g].roles : Live(role'[s])
      <4>1. Live(group[g]) /\ group'[g] = [group[g] EXCEPT !.members = @ \ {v}]
        BY <2>2, <3>4
      <4>2. group'[g].members = group[g].members \ {v} /\ group'[g].roles = group[g].roles
        BY <1>c, <4>1 DEF GroupRow
      <4> QED
        BY <1>c, <2>2, <3>1, <4>1, <4>2
    <3> QED
      BY <1>b, <3>3, <3>4
  <2> QED
    BY <1>2, <2>1, <2>2 DEF WriteUser
<1>3. CASE /\ ~(DeleteRole(c) /\ role' # role)
           /\ ~(WriteUser(c) /\ cmd[c].kind = "delete")
  <2>1. /\ \A r \in RoleIds : Live(role[r]) => Live(role'[r])
        /\ \A u \in Staff : Live(person[u]) => Live(person'[u])
    BY <1>3, RowsLive
  <2>2. \A u \in Staff : \A r \in direct'[u] : r \in direct[u] \/ \E k : r \in ByKey(k)
    <3>1. CASE direct' = direct
      BY <3>1
    <3>2. CASE FallbackClears(c) \/ ClearRoles(c)
      BY <1>0, <3>2 DEF FallbackClears, ClearRoles, Cleared
    <3>3. CASE FallbackInserts(c) \/ InsertRole(c)
      <4>1. \/ direct' = direct
            \/ \E k : direct' = [direct EXCEPT ![cmd[c].on] = @ \cup ByKey(k)]
            \/ direct' = [direct EXCEPT ![cmd[c].on] = @ \cup {}]
        BY <3>3 DEF FallbackInserts, InsertRole
      <4> QED
        BY <1>0, <4>1
    <3>4. CASE WriteUser(c)
      BY <1>0, <1>3, <3>4 DEF WriteUser
    <3>5. CASE DeleteRole(c)
      <4>1. direct' = direct \/ direct' = DirectWithout(cmd[c].on)
        BY <3>5 DEF DeleteRole
      <4> QED
        BY <4>1 DEF DirectWithout
    <3>6. \/ direct' = direct \/ FallbackClears(c) \/ ClearRoles(c) \/ FallbackInserts(c)
          \/ InsertRole(c) \/ WriteUser(c) \/ DeleteRole(c)
      BY RequestTypes
      DEF CommandStep, LoadRoles, ReadFallback, CheckUser, FailUser, SaveRole, WriteGroup,
          ClearMembers, InsertMember, ClearGroupRoles, InsertGroupRole, FailGroup, DeleteGroup
    <3> QED
      BY <3>1, <3>2, <3>3, <3>4, <3>5, <3>6
  <2>3. ASSUME NEW g \in Groups, Live(group'[g])
        PROVE  /\ \A u \in group'[g].members :
                     \/ Live(group[g]) /\ u \in group[g].members
                     \/ u \in Staff /\ Live(person[u])
               /\ \A r \in group'[g].roles :
                     \/ Live(group[g]) /\ r \in group[g].roles
                     \/ \E k : r \in ByKey(k)
    <3>1. CASE group'[g] = group[g]
      BY <2>3, <3>1
    <3>2. CASE DeleteRole(c)
      <4>1. \/ group' = group
            \/ Live(group[g]) /\ group'[g] = [group[g] EXCEPT !.roles = @ \ {cmd[c].on}]
        <5>1. \/ group' = group
              \/ group' = [h \in Groups |-> IF Live(group[h])
                               THEN [group[h] EXCEPT !.roles = @ \ {cmd[c].on}] ELSE group[h]]
          BY <3>2 DEF DeleteRole
        <5>2. ~Live(group[g]) => group'[g] = group[g]
          BY <5>1
        <5> QED
          BY <2>3, <5>1, <5>2
      <4> QED
        BY <1>c, <2>3, <4>1 DEF GroupRow
    <3>3. CASE WriteGroup(c)
      <4>1. \/ group'[g] = group[g]
            \/ group'[g] = [disabled |-> cmd[c].off, members |-> {}, roles |-> {}]
            \/ Live(group[g]) /\ group'[g] = [group[g] EXCEPT !.disabled = cmd[c].off]
        BY <1>0, <3>3 DEF WriteGroup, Live
      <4> QED
        BY <1>c, <2>3, <4>1 DEF GroupRow
    <3>4. CASE ClearMembers(c) \/ ClearGroupRoles(c)
      <4>1. \/ group'[g] = group[g]
            \/ Live(group[g]) /\ group'[g] = [group[g] EXCEPT !.members = {}]
            \/ Live(group[g]) /\ group'[g] = [group[g] EXCEPT !.roles = {}]
        BY <1>0, <3>4 DEF ClearMembers, ClearGroupRoles, MembersCleared, Alter
      <4> QED
        BY <1>c, <2>3, <4>1 DEF GroupRow
    <3>5. CASE InsertMember(c)
      <4>1. cmd[c].people \subseteq Staff
        BY DEF RolesTyped, RoleCommand
      <4>2. \/ group'[g] = group[g]
            \/ \E v \in Staff : /\ Live(person[v]) /\ Live(group[g])
                                /\ group'[g] = [group[g] EXCEPT !.members = @ \cup {v}]
        <5>1. CASE UNCHANGED group
          BY <5>1
        <5>2. CASE \E v \in cmd[c].people :
                      /\ Live(person[v]) /\ Live(group[cmd[c].on])
                      /\ group' = [group EXCEPT ![cmd[c].on].members = @ \cup {v}]
          <6>1. PICK v \in cmd[c].people :
                   /\ Live(person[v]) /\ Live(group[cmd[c].on])
                   /\ group' = [group EXCEPT ![cmd[c].on] =
                                   [group[cmd[c].on] EXCEPT !.members = @ \cup {v}]]
            BY <5>2
          <6> QED
            BY <1>0, <4>1, <6>1
        <5> QED
          BY <3>5, <5>1, <5>2 DEF InsertMember
      <4>3. CASE group'[g] # group[g]
        <5>1. PICK v \in Staff : /\ Live(person[v]) /\ Live(group[g])
                                 /\ group'[g] = [group[g] EXCEPT !.members = @ \cup {v}]
          BY <4>2, <4>3
        <5>2. group'[g].members = group[g].members \cup {v} /\ group'[g].roles = group[g].roles
          BY <1>c, <5>1 DEF GroupRow
        <5> QED
          BY <5>1, <5>2
      <4> QED
        BY <3>1, <4>3
    <3>6. CASE InsertGroupRole(c)
      <4>1. \/ group'[g] = group[g]
            \/ /\ Live(group[g])
               /\ group'[g] = [group[g] EXCEPT !.roles = @ \cup ByKey(Head(cmd[c].keys))]
        BY <1>0, <3>6 DEF InsertGroupRole, Alter
      <4> QED
        BY <1>c, <2>3, <4>1 DEF GroupRow
    <3>7. CASE DeleteGroup(c)
      BY <1>0, <2>3, <3>1, <3>7 DEF DeleteGroup, Live
    <3>8. \/ group'[g] = group[g] \/ DeleteRole(c) \/ WriteGroup(c) \/ ClearMembers(c)
          \/ ClearGroupRoles(c) \/ InsertMember(c) \/ InsertGroupRole(c) \/ DeleteGroup(c)
      BY <1>3, RequestTypes
      DEF CommandStep, LoadRoles, ReadFallback, FallbackClears, FallbackInserts, CheckUser,
          WriteUser, ClearRoles, InsertRole, FailUser, SaveRole, FailGroup
    <3> QED
      BY <3>1, <3>2, <3>3, <3>4, <3>5, <3>6, <3>7, <3>8
  <2>4. \A u \in Staff : \A r \in direct[u] : r \in RoleIds /\ Live(role[r])
    BY <1>0 DEF References
  <2>5. \A u \in Staff : \A r \in direct'[u] : Live(role'[r])
    BY <1>a, <2>1, <2>2, <2>4
  <2>6. ASSUME NEW g \in Groups, Live(group'[g])
        PROVE  /\ \A u \in group'[g].members : Live(person'[u])
               /\ \A r \in group'[g].roles : Live(role'[r])
    BY <1>a, <1>c, <2>1, <2>3, <2>6
  <2> QED
    BY <1>b, <2>5, <2>6
<1> QED
  BY <1>1, <1>2, <1>3

-----------------------------------------------------------------------------
(***************************************************************************)
(* The invariant and what follows from it.                                 *)
(***************************************************************************)
\* Every step of the specification keeps the types.
LEMMA RolesTypesStep ==
    ASSUME RolesTyped, NEW c \in Commands, Carries(c), CommandStep(c) \/ Request(c)
    PROVE  RolesTyped'
<1>1. CASE Request(c)
  <2>1. cmd' \in [Commands -> RoleCommand] /\ UNCHANGED <<tables, memory>>
    BY <1>1, RequestTypes DEF RolesTyped
  <2> QED
    BY <2>1 DEF RolesTyped, tables, memory
<1>2. CASE CommandStep(c)
  BY <1>2, LoadTypes, UserTypes, GroupTypes DEF CommandStep
<1> QED
  BY <1>1, <1>2

\* The invariant holds at first.
LEMMA RolesInvInit == ASSUME RolesInit PROVE RolesInv
<1> USE RootAssumption
<1>1. RolesTyped
  <2>1. cmd \in [Commands -> RoleCommand]
    BY DEF RolesInit, NoCmd, RoleCommand
  <2>2. role \in [RoleIds -> RoleRow \cup {Absent, Gone}] /\ AdminStays
    <3>1. PICK c \in CustomRoles, k \in CustomKeys : role =
             [r \in RoleIds |-> CASE r = "admin" -> [key |-> "admin", rights |-> Rights]
                                  [] r = "viewer" -> [key |-> "viewer", rights |-> {"read"}]
                                  [] r = c -> [key |-> k, rights |-> {"read"}]
                                  [] OTHER -> Absent]
      BY DEF RolesInit
    <3>2. /\ [key |-> "admin", rights |-> Rights] \in RoleRow
          /\ [key |-> "viewer", rights |-> {"read"}] \in RoleRow
          /\ [key |-> k, rights |-> {"read"}] \in RoleRow
      BY DEF RoleRow, RoleKeys, Builtin, Rights
    <3>3. \A r \in RoleIds : role[r] \in RoleRow \cup {Absent}
      BY <3>1, <3>2
    <3>4. role["admin"] = [key |-> "admin", rights |-> Rights]
      BY <3>1, NamesAssumption DEF RoleIds, Builtin
    <3> QED
      BY <3>1, <3>2, <3>3, <3>4 DEF AdminStays
  <2>3. person \in [Staff -> PersonRow \cup {Absent, Gone}]
    <3>1. PICK row \in [role : {"viewer"}, disabled : BOOLEAN] \cup {Absent} : person =
             [u \in Staff |-> IF u = Root THEN [role |-> "admin", disabled |-> FALSE] ELSE row]
      BY DEF RolesInit
    <3> QED
      BY <3>1 DEF PersonRow, RoleKeys, Builtin
  <2>4. /\ direct \in [Staff -> SUBSET RoleIds] /\ ticked \in [Staff -> SUBSET RoleIds]
        /\ set \in [Groups -> [members : SUBSET Staff, roles : SUBSET RoleIds]]
        /\ clashed \subseteq Staff \cup Groups /\ disturbed \subseteq Staff
    BY DEF RolesInit, RoleIds, Builtin
  <2>5. group \in [Groups -> GroupRow \cup {Absent, Gone}]
    <3>1. [disabled |-> FALSE, members |-> {}, roles |-> {}] \in GroupRow
      BY DEF GroupRow
    <3> QED
      BY <3>1 DEF RolesInit
  <2> QED
    BY <2>1, <2>2, <2>3, <2>4, <2>5 DEF RolesTyped
<1>2. AdminStays
  <2>1. PICK c \in CustomRoles, k \in CustomKeys : role =
           [r \in RoleIds |-> CASE r = "admin" -> [key |-> "admin", rights |-> Rights]
                                [] r = "viewer" -> [key |-> "viewer", rights |-> {"read"}]
                                [] r = c -> [key |-> k, rights |-> {"read"}]
                                [] OTHER -> Absent]
    BY DEF RolesInit
  <2>2. role["admin"] = [key |-> "admin", rights |-> Rights]
    BY <2>1, NamesAssumption DEF RoleIds, Builtin
  <2> QED
    BY <2>2 DEF AdminStays, RoleRow, RoleKeys, Builtin
<1>8. References
  <2>1. PICK c \in CustomRoles, k \in CustomKeys : role =
           [r \in RoleIds |-> CASE r = "admin" -> [key |-> "admin", rights |-> Rights]
                                [] r = "viewer" -> [key |-> "viewer", rights |-> {"read"}]
                                [] r = c -> [key |-> k, rights |-> {"read"}]
                                [] OTHER -> Absent]
    BY DEF RolesInit
  <2>2. role["viewer"] = [key |-> "viewer", rights |-> {"read"}]
    BY <2>1, NamesAssumption DEF RoleIds, Builtin
  <2>3. role["viewer"] \in RoleRow
    BY <2>2 DEF RoleRow, RoleKeys, Builtin, Rights
  <2>4. Live(role["viewer"])
    BY <2>3, RowsAssumption DEF Live
  <2>5. \A u \in Staff : direct[u] \subseteq {"viewer"}
    BY DEF RolesInit
  <2>6. \A g \in Groups : Live(group[g]) =>
           group[g] = [disabled |-> FALSE, members |-> {}, roles |-> {}]
    <3>1. \A g \in Groups :
             group[g] \in {Absent, [disabled |-> FALSE, members |-> {}, roles |-> {}]}
      BY DEF RolesInit
    <3> QED
      BY <3>1 DEF Live
  <2> QED
    BY <2>4, <2>5, <2>6 DEF References
<1>3. \A c \in Commands : cmd[c] = NoCmd
  BY DEF RolesInit
<1>4. \A c \in Commands : Carries(c)
  BY <1>3 DEF Carries, NoCmd, UserPcs, LoadPcs, SavePcs, ReplacePcs
<1>5. \A x : Changers(x) = {}
  BY <1>3 DEF Changers, NoCmd, ReplacePcs, SavePcs
<1>6. ASSUME NEW u \in Staff PROVE UserSteady(u)
  <2>1. Alone(u)
    BY <1>5 DEF Alone
  <2>2. u \notin clashed => u # Root
    BY DEF RolesInit
  <2>3. ASSUME u # Root, Live(person[u])
        PROVE  direct[u] = ticked[u] /\ person[u].role # "admin"
    <3>1. PICK row \in [role : {"viewer"}, disabled : BOOLEAN] \cup {Absent} : person =
             [v \in Staff |-> IF v = Root THEN [role |-> "admin", disabled |-> FALSE] ELSE row]
      BY DEF RolesInit
    <3>2. person[u] = row /\ row # Absent
      BY <2>3, <3>1 DEF Live
    <3>3. row.role = "viewer"
      BY <3>2
    <3> QED
      BY <2>3, <3>2, <3>3 DEF RolesInit
  <2> QED
    BY <1>5, <2>1, <2>2, <2>3 DEF UserSteady
<1>7. ASSUME NEW g \in Groups PROVE GroupSteady(g)
  <2>1. Alone(g)
    BY <1>5 DEF Alone
  <2>2. Live(group[g]) => group[g].members = set[g].members /\ group[g].roles = set[g].roles
    <3>1. group[g] \in {Absent, [disabled |-> FALSE, members |-> {}, roles |-> {}]}
      BY DEF RolesInit
    <3>2. set[g] = [members |-> {}, roles |-> {}]
      BY DEF RolesInit
    <3>3. Live(group[g]) => group[g] = [disabled |-> FALSE, members |-> {}, roles |-> {}]
      BY <3>1 DEF Live
    <3> QED
      BY <3>2, <3>3
  <2> QED
    BY <1>5, <2>1, <2>2 DEF GroupSteady
<1> QED
  BY <1>1, <1>2, <1>4, <1>6, <1>7, <1>8 DEF RolesInv

\* Every step keeps the invariant.
LEMMA RolesInvStep == ASSUME RolesInv, [RolesNext]_roleVars PROVE RolesInv'
<1>1. CASE RolesNext
  <2>1. PICK c \in Commands : CommandStep(c) \/ Request(c)
    BY <1>1 DEF RolesNext
  <2>2. Carries(c)
    BY DEF RolesInv
  <2>3. RolesTyped' /\ AdminStays' /\ References'
    BY <2>1, <2>2, RolesTypesStep, AdminStep, ReferencesStep DEF RolesInv
  <2>4. \A d \in Commands : Carries(d)'
    BY <2>1, CarriesStep DEF RolesInv
  <2>5. \A u \in Staff : UserSteady(u)'
    BY <2>1, <2>2, UserSteadyStep DEF RolesInv
  <2>6. \A g \in Groups : GroupSteady(g)'
    BY <2>1, <2>2, GroupSteadyStep DEF RolesInv
  <2> QED
    BY <2>3, <2>4, <2>5, <2>6 DEF RolesInv
<1>2. CASE UNCHANGED roleVars
  <2>1. UNCHANGED <<person, direct, role, group, cmd, ticked, set, clashed, disturbed>>
    BY <1>2 DEF roleVars, tables, memory
  <2> QED
    <3>1. RolesTyped' /\ AdminStays' /\ References'
      BY <2>1 DEF RolesInv, RolesTyped, AdminStays, Live, References
    <3>2. \A d \in Commands : Carries(d)'
      BY <2>1 DEF RolesInv, Carries, Live
    <3>3. \A u \in Staff : UserSteady(u)'
      BY <2>1 DEF RolesInv, UserSteady, Alone, Changers, Live
    <3>4. \A g \in Groups : GroupSteady(g)'
      BY <2>1 DEF RolesInv, GroupSteady, Alone, Changers, Live
    <3> QED
      BY <3>1, <3>2, <3>3, <3>4 DEF RolesInv
<1> QED
  BY <1>1, <1>2

\* The tables, the commands and the history always hold values of their types,
\* whatever requests are at work: a user has only roles that exist, and a group
\* only roles and members that exist, as the foreign keys and the cascades of
\* the deletions are to ensure.
THEOREM RolesTypeCorrect == RolesSpec => []RolesTypeOK
<1>1. ASSUME RolesInv PROVE RolesTypeOK
  <2>1. RolesTyped /\ References
    BY <1>1 DEF RolesInv
  <2>2. direct \in [Staff -> SUBSET {r \in RoleIds : Live(role[r])}]
    BY <2>1 DEF RolesTyped, References
  <2>3. group \in [Groups -> [disabled : BOOLEAN, members : SUBSET {u \in Staff : Live(person[u])},
                              roles : SUBSET {r \in RoleIds : Live(role[r])}] \cup {Absent, Gone}]
    <3>1. ASSUME NEW g \in Groups, Live(group[g])
          PROVE  group[g] \in [disabled : BOOLEAN,
                               members : SUBSET {u \in Staff : Live(person[u])},
                               roles : SUBSET {r \in RoleIds : Live(role[r])}]
      <4>1. group[g] \in GroupRow
        BY <2>1, <3>1, LiveRows
      <4> QED
        BY <2>1, <3>1, <4>1 DEF References, GroupRow
    <3>2. group \in [Groups -> GroupRow \cup {Absent, Gone}]
      BY <2>1 DEF RolesTyped
    <3> QED
      BY <3>1, <3>2 DEF Live
  <2>4. \A c \in Commands : cmd[c].kind \in CommandKinds \cup {"-"} /\ cmd[c].keys \in Seq(RoleKeys)
    BY <2>1 DEF RolesTyped, RoleCommand
  <2> QED
    BY <2>1, <2>2, <2>3, <2>4 DEF RolesTyped, RolesTypeOK
<1> QED
  BY RolesInvInit, RolesInvStep, <1>1, PTL DEF RolesSpec

\* Once the requests on a user or a group have ended, its roles and members are
\* those that the last successful request ticked, although saves are series of
\* statements that loads, deletions and other saves come between.
THEOREM RolesEditsSettle == RolesSpec => []EditsSettle
<1>1. ASSUME RolesInv PROVE EditsSettle
  <2>1. \A x : At(x) = {} => Changers(x) = {}
    BY DEF At, Changers, ReplacePcs, SavePcs
  <2> QED
    BY <1>1, <2>1
    DEF RolesInv, UserSteady, GroupSteady, EditsSettle, SettledRoles, SettledGroups
<1> QED
  BY RolesInvInit, RolesInvStep, <1>1, PTL DEF RolesSpec
=============================================================================
