----------------------------- MODULE ScopeForm -----------------------------
(***************************************************************************)
(* One request that creates or edits a DHCP scope, from the form to the    *)
(* refresh that follows it: the backend checks and normalises the form,    *)
(* the Agent checks it again and runs its script, the backend stores what  *)
(* was asked for, and the refresh stores what the server holds.            *)
(* DHCPSnapshot abstracts from all of this and describes the concurrency.  *)
(*                                                                         *)
(* Addresses have Width bits, an hour has Hour seconds.  The name and the  *)
(* description of a scope are one label.                                   *)
(***************************************************************************)
EXTENDS Integers

CONSTANTS Width, Hour, Day, Forms, Blank

ASSUME NumbersAssumption == Width \in Nat /\ Hour \in Nat \ {0} /\ Day \in Nat \ {0}
\* A fact of arithmetic: the sizes of subnets are positive.
ASSUME SizesAssumption == \A n \in 0..Width : 2^n \in Nat \ {0}

VARIABLES
    form,      \* the request
    stage,     \* what happens to it next
    onServer,  \* the scope on the DHCP server
    row        \* its row in dhcp_scopes

formVars == <<form, stage, onServer, row>>
IPv4 == 0..(2^Width - 1)

\* A label, its words and how many blanks a user typed around them.
Labels == [words : Nat, blanks : Nat]
TrimSpace(l) == [l EXCEPT !.blanks = 0]
States == {"Active", "Inactive"}

\* The server answers for a scope with numbers, and with no router or one.
Scopes == [id : Int, prefix : 0..Width, first : Int, last : Int, secs : Int,
           gateway : Int \cup {Blank}, label : Labels, state : States]

ASSUME BlankAssumption == Blank \notin Int /\ Blank \notin States /\ Blank \notin Scopes

\* Addresses that share the first p bits with a.
Network(a, p) == a - (a % 2^(Width - p))

\* A form to create a scope names its range; the scope that one to edit it is
\* about is that of FormInit, which needs room for its addresses.
ASSUME FormsAssumption ==
    /\ Forms \subseteq [kind : STRING, id : IPv4, prefix : 0..Width,
                        first : IPv4 \cup {Blank}, last : IPv4 \cup {Blank}, gateway : IPv4,
                        secs : Int, hours : Int, tidy : BOOLEAN, label : Labels,
                        state : STRING \cup {Blank}]
    /\ \A f \in Forms : /\ f.kind = "create" => Blank \notin {f.first, f.last}
                        /\ f.kind = "update" => /\ Network(f.id, f.prefix) = f.id
                                                /\ 2^(Width - f.prefix) > 2

\* Mutant: the address after the last one.
BroadcastAfter(a, p) == Network(a, p) + 2^(Width - p)
Broadcast(a, p) == Network(a, p) + 2^(Width - p) - 1

-----------------------------------------------------------------------------
(***************************************************************************)
(* The backend                                                             *)
(***************************************************************************)
\* A form names its subnet by one address in it and a prefix.  The backend
\* reads the number at the start of the prefix (tidy: there is nothing else).
validateDHCPScopeDefaultGateway(f) ==
    /\ Network(f.gateway, f.prefix) = Network(f.id, f.prefix)
    /\ f.gateway \notin {Network(f.id, f.prefix), Broadcast(f.id, f.prefix)}

HoursUp(secs) == (secs + Hour - 1) \div Hour

\* normalizeDHCPScopeLeaseDuration; -1 is a lease without end.
normalizeLease(f) ==
    LET given == IF f.secs <= 0 /\ f.hours > 0 THEN f.hours * Hour ELSE f.secs
        up == IF f.hours <= 0 /\ given > 0 THEN HoursUp(given) ELSE f.hours
        hours == IF up <= 0 THEN Day ELSE up IN
    IF f.secs = -1 THEN [f EXCEPT !.hours = 0]
    ELSE [f EXCEPT !.hours = hours, !.secs = IF given <= 0 THEN hours * Hour ELSE given]

\* Mutant: the lease is left out.
ChangedFieldsWithoutLease(old, new) ==
    { k \in {"label", "gateway", "range", "state"} :
        CASE k = "label" -> TrimSpace(old.label) # TrimSpace(new.label)
          [] k = "range" -> <<old.first, old.last>> # <<new.first, new.last>>
          [] OTHER -> old[k] # new[k] }

dhcpScopeChangedFields(old, new) ==
    { k \in {"label", "gateway", "lease", "range", "state"} :
        CASE k = "label" -> TrimSpace(old.label) # TrimSpace(new.label)
          [] k = "lease" -> old.secs # new.secs
          [] k = "range" -> <<old.first, old.last>> # <<new.first, new.last>>
          [] OTHER -> old[k] # new[k] }

Fail == stage' = "failed" /\ UNCHANGED <<form, onServer, row>>

\* createScope, up to the call.
BackendCreates ==
    /\ stage = "backend" /\ form.kind = "create"
    /\ IF validateDHCPScopeDefaultGateway(form)
       THEN stage' = "agent" /\ form' = normalizeLease(form) /\ UNCHANGED <<onServer, row>>
       ELSE Fail

\* updateScope, up to the call: the subnet is the stored one, a range or state
\* that is left out stays.
BackendUpdates ==
    LET f == [form EXCEPT !.id = row.id, !.prefix = row.prefix,
                          !.first = IF @ = Blank THEN row.first ELSE @,
                          !.last = IF @ = Blank THEN row.last ELSE @,
                          !.state = IF @ = Blank THEN row.state ELSE @] IN
    /\ stage = "backend" /\ form.kind = "update"
    /\ IF ~validateDHCPScopeDefaultGateway(f) THEN Fail
       ELSE IF dhcpScopeChangedFields(row, normalizeLease(f)) = {}
       THEN stage' = "done" /\ UNCHANGED <<form, onServer, row>>
       ELSE stage' = "agent" /\ form' = normalizeLease(f) /\ UNCHANGED <<onServer, row>>

-----------------------------------------------------------------------------
(***************************************************************************)
(* The Agent and the DHCP server                                           *)
(***************************************************************************)
validateIPv4RangeInScope(f) ==
    /\ Network(f.first, f.prefix) = Network(f.id, f.prefix)
    /\ Network(f.last, f.prefix) = Network(f.id, f.prefix)
    /\ f.first <= f.last

validateIPv4InScope(f) ==
    /\ Network(f.gateway, f.prefix) = Network(f.id, f.prefix)
    /\ f.gateway \notin {Network(f.id, f.prefix), Broadcast(f.id, f.prefix)}

normalizeScope(f) ==
    /\ f.tidy
    /\ validateIPv4RangeInScope(f) /\ validateIPv4InScope(f)
    /\ f.secs = -1 \/ f.secs > 0

\* parseScopeSubnet: the address as it was typed.
ScopeID(f) == f.id

\* The server derives the id of a scope from its range and mask.  A lease
\* without end comes later, and the scope is active whatever the form says.
Added(f) == [id |-> Network(f.first, f.prefix), prefix |-> f.prefix, first |-> f.first,
             last |-> f.last, secs |-> IF f.secs = -1 THEN Day * Hour ELSE f.secs,
             gateway |-> Blank, label |-> TrimSpace(f.label), state |-> "Active"]

\* createScopeScript: the scope, then the options of its router and of a lease
\* without end, which the server refuses for an id it does not know.
AgentCreates ==
    LET s == Added(form)
        t == [s EXCEPT !.gateway = form.gateway]
        known == ScopeID(form) = s.id IN
    /\ stage = "agent" /\ form.kind = "create"
    /\ \/ Fail
       \/ /\ normalizeScope(form)
          /\ \/ onServer' \in {s} \cup (IF known THEN {t} ELSE {}) /\ stage' = "failed"
             \/ known /\ onServer' = [t EXCEPT !.secs = form.secs] /\ stage' = "save"
          /\ UNCHANGED <<form, row>>

\* Set-DhcpServerv4Scope: the fields that have changed, in one statement.
SetScope(changed) ==
    [onServer EXCEPT
        !.label = IF "label" \in changed THEN TrimSpace(form.label) ELSE @,
        !.secs = IF "lease" \in changed /\ form.secs # -1 THEN form.secs ELSE @,
        !.state = IF "state" \in changed THEN form.state ELSE @,
        !.first = IF "range" \in changed THEN form.first ELSE @,
        !.last = IF "range" \in changed THEN form.last ELSE @]

\* Of an edited scope the Agent checks the router, and no range.
normalizeScopeUpdate(f) == validateIPv4InScope(f)

\* updateScopeScript: that statement, then a lease without end, then the router.
\* What the server makes of a range is left open; it refuses a state that is
\* none.  Any statement may fail.
AgentUpdates ==
    LET changed == dhcpScopeChangedFields(row, form)
        endless == "lease" \in changed /\ form.secs = -1
        s == SetScope(changed)
        t == [s EXCEPT !.secs = IF endless THEN -1 ELSE @] IN
    /\ stage = "agent" /\ form.kind = "update"
    /\ \/ Fail
       \/ /\ normalizeScopeUpdate(form) /\ ("state" \in changed => form.state \in States)
          /\ \/ onServer' \in {s, t} /\ stage' = "failed"
             \/ onServer' = [t EXCEPT !.gateway = IF "gateway" \in changed THEN form.gateway ELSE @]
                /\ stage' = "save"
          /\ UNCHANGED <<form, row>>

\* The store has a copy of the backend's function.
normalizeScopeLeaseDuration(f) == normalizeLease(f)

\* CreateScope, UpdateScope of the store; the external id is the typed address.
Save ==
    LET f == normalizeScopeLeaseDuration(form) IN
    /\ stage = "save"
    /\ row' = [id |-> f.id, prefix |-> f.prefix, first |-> f.first, last |-> f.last,
               secs |-> f.secs, hours |-> f.hours, gateway |-> f.gateway, label |-> f.label,
               state |-> IF f.state = Blank THEN "Active" ELSE f.state]
    /\ stage' = "saved"
    /\ UNCHANGED <<form, onServer>>

\* GetScope of the Agent, as ReplaceDHCPScopeSnapshot stores it.
Read(s) ==
    [id |-> s.id, prefix |-> s.prefix, first |-> s.first, last |-> s.last, secs |-> s.secs,
     hours |-> IF s.secs > 0 THEN HoursUp(s.secs) ELSE 0, gateway |-> s.gateway,
     label |-> s.label, state |-> s.state]

Refresh ==
    /\ stage = "saved"
    /\ row' = IF row.id = onServer.id THEN normalizeScopeLeaseDuration(Read(onServer)) ELSE row
    /\ stage' = "done"
    /\ UNCHANGED <<form, onServer>>

-----------------------------------------------------------------------------
\* A form is sent, to create a scope or to edit the one there is.
OldLabel == [words |-> 0, blanks |-> 0]
FormInit ==
    /\ form \in Forms
    /\ stage = "backend"
    /\ onServer = IF form.kind # "update" THEN Blank
                ELSE [id |-> form.id, prefix |-> form.prefix, first |-> form.id + 1,
                      last |-> form.id + 2, secs |-> Hour, gateway |-> form.id + 1,
                      label |-> OldLabel, state |-> "Active"]
    /\ row = IF onServer = Blank THEN Blank ELSE Read(onServer)

FormNext == BackendCreates \/ BackendUpdates \/ AgentCreates \/ AgentUpdates \/ Save \/ Refresh

FormSpec == FormInit /\ [][FormNext]_formVars

-----------------------------------------------------------------------------
(***************************************************************************)
(* Properties                                                              *)
(***************************************************************************)
\* Whatever the form holds and whichever statement of a script fails, a scope
\* that was created leases addresses of its subnet only, in order, and a scope
\* names a router that can have its address, or none: the checks of the backend
\* (validateDHCPScopeDefaultGateway) and of the Agent (normalizeScope,
\* normalizeScopeUpdate) together let nothing else through.  Nothing is said of
\* a range that was edited, which the program leaves to the DHCP server.
ScopeUsable ==
    onServer # Blank =>
        LET size == 2^(Width - onServer.prefix)
            subnet == {onServer.id + k : k \in 0..(size - 1)} IN
        /\ form.kind = "create" => /\ onServer.first..onServer.last # {}
                                   /\ onServer.first..onServer.last \subseteq subnet
        /\ onServer.gateway \in {Blank} \cup {onServer.id + k : k \in 1..(size - 2)}

\* What the handler stores after the Agent's success is what the refresh then
\* reads (dhcpScopeChangedFields told the Agent every change), but for three
\* fields the code stores as they were typed: the hours of a form whose hours
\* are not its seconds rounded up, a label with blanks around it, and the state
\* of a new scope, which createScopeScript ignores.
PatchIsExact ==
    stage = "saved" =>
        LET read == Read(onServer) IN
        /\ \A k \in {"id", "prefix", "first", "last", "secs", "gateway"} : row[k] = read[k]
        /\ row.hours = IF form.secs > 0 THEN form.hours ELSE 0
        /\ TrimSpace(row.label) = read.label
        /\ form.kind = "update" => row.state = read.state

=============================================================================
