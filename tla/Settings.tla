------------------------------ MODULE Settings ------------------------------
(***************************************************************************)
(* The saved settings that hold credentials: the LDAP and WeCom providers  *)
(* (backend/api/router/auth_providers.go) and the mail channel             *)
(* (notifications.go).  A page never gets a stored credential back, so a   *)
(* form whose credential is blank means "as it is": the handler reads the  *)
(* row, completes the form from it, validates the result and replaces the  *)
(* whole row, in two statements and without a lock.                        *)
(*                                                                         *)
(* A part is a set of fields with one credential: LDAP and mail have one,  *)
(* WeCom has one for each of its two modes.  The other fields of a part    *)
(* are all there or not.                                                   *)
(***************************************************************************)
EXTENDS Naturals, FiniteSets

CONSTANTS
    Admins,       \* who saves settings
    Credentials,  \* the credentials they type
    NoValue,      \* a blank or missing one
    Forms,        \* bound: the forms that are submitted
    Saves,        \* bound: how many
    SettingFaults \* bound: read errors

Parts == {"ldap", "direct", "center", "email"}
PartsOf(i) == IF i = "wecom" THEN {"direct", "center"} ELSE {i}
Secret == [Parts -> Credentials \cup {NoValue}]

ASSUME FormsAssumption == Forms \subseteq
    [item : {"ldap", "wecom", "email"}, on : BOOLEAN, mode : Parts, typed : Secret,
     given : SUBSET Parts, clear : BOOLEAN, marker : BOOLEAN]
ASSUME SavesAssumption == Saves \subseteq Nat /\ SettingFaults \in Nat /\ NoValue \notin Credentials

VARIABLES
    item,      \* which of the three is saved: they share nothing
    setting,   \* its row: switched on, mode, credentials, complete parts
    save,      \* save[a]: the request of an administrator
    saves, readFaults,   \* what is left of the bounds
    live       \* history: credentials typed since the last clearing, see ClearedStaysCleared

setVars == <<item, setting, save, saves, readFaults, live>>

NoSecrets == [g \in Parts |-> NoValue]

\* removeEmptyConfigValues: a field that is blank is as good as one that is missing.
Row(on, mode, secret, given) == [on |-> on, mode |-> mode, secret |-> secret, given |-> given]
Unset == Row(FALSE, "direct", NoSecrets, {})
NoSave == [pc |-> "idle", form |-> NoValue, previous |-> NoValue]

SetInit ==
    /\ item \in {"ldap", "wecom", "email"}
    /\ setting = Unset /\ save = [a \in Admins |-> NoSave]
    /\ saves \in Saves /\ readFaults = SettingFaults
    /\ live = [g \in Parts |-> {}]

-----------------------------------------------------------------------------
(* What is stored for a form *)

\* Mutant: only the credential of the mode in use is kept.
RetainsOfMode(f, g) ==
    f.typed[g] = NoValue /\ ~f.clear /\ (f.on \/ f.item = "email") /\ (f.item = "wecom" => g = f.mode)

\* Mutant: clearing forgets that a blank credential means the stored one.
RetainsThoughCleared(f, g) == f.typed[g] = NoValue /\ (f.on \/ f.item = "email")

\* Is the stored credential of a part kept?  LDAP and WeCom keep none when they
\* are switched off; the mail channel keeps its own, and prefers it to a typed one
\* when the form carries the marker that a response shows in its place.
Retains(f, g) ==
    /\ ~f.clear
    /\ \/ f.item # "email" /\ f.on /\ f.typed[g] = NoValue
       \/ f.item = "email" /\ (f.marker \/ f.typed[g] = NoValue)

\* Clearing a provider switches it off and drops everything.
SwitchedOn(f) == f.on /\ ~(f.clear /\ f.item # "email")
Dropped(f) == f.clear /\ f.item # "email"

Completed(f, previous) ==
    IF Dropped(f) THEN [Unset EXCEPT !.on = SwitchedOn(f)]
    ELSE Row(SwitchedOn(f), f.mode,
             [g \in Parts |->
                IF Retains(f, g) /\ previous.secret[g] # NoValue THEN previous.secret[g]
                ELSE IF g \in PartsOf(f.item) THEN f.typed[g] ELSE NoValue],
             f.given)

\* The checks of the sanitize functions: the fields of the mode in use.
Valid(f, r) == Dropped(f) \/ ~r.on \/ (r.mode \in r.given /\ r.secret[r.mode] # NoValue)

-----------------------------------------------------------------------------
(* The requests *)

Submit(a, f) ==
    /\ save[a].pc = "idle" /\ saves > 0 /\ f.item = item
    /\ save' = [save EXCEPT ![a] = [pc |-> "read", form |-> f, previous |-> NoValue]]
    /\ saves' = saves - 1
    /\ UNCHANGED <<item, setting, readFaults, live>>

\* GetAuthProvider, GetNotificationChannel; an error is taken for a missing row.
ReadStored(a) ==
    /\ save[a].pc = "read"
    /\ \/ save' = [save EXCEPT ![a].pc = "write", ![a].previous = setting] /\ UNCHANGED readFaults
       \/ /\ readFaults > 0 /\ readFaults' = readFaults - 1
          /\ save' = [save EXCEPT ![a].pc = "write", ![a].previous = Unset]
    /\ UNCHANGED <<item, setting, saves, live>>

Stored(a) == Completed(save[a].form, save[a].previous)

\* What other requests have read and may still write.
InFlight(a, g) == {save[b].previous.secret[g] : b \in {c \in Admins \ {a} : save[c].pc = "write"}}

\* UpsertAuthProvider, UpsertNotificationChannel: one statement replaces the row.
Write(a) ==
    /\ save[a].pc = "write" /\ Valid(save[a].form, Stored(a))
    /\ setting' = Stored(a)
    /\ save' = [save EXCEPT ![a] = NoSave]
    /\ live' = [g \in Parts |->
          (IF save[a].form.clear THEN InFlight(a, g) ELSE live[g]) \cup {save[a].form.typed[g]}]
    /\ UNCHANGED <<item, saves, readFaults>>

\* 400: nothing is stored.
Refuse(a) ==
    /\ save[a].pc = "write" /\ ~Valid(save[a].form, Stored(a))
    /\ save' = [save EXCEPT ![a] = NoSave]
    /\ UNCHANGED <<item, setting, saves, readFaults, live>>

SetNext ==
    \E a \in Admins :
        (\E f \in Forms : Submit(a, f)) \/ ReadStored(a) \/ Write(a) \/ Refuse(a)

SetSpec == SetInit /\ [][SetNext]_setVars

-----------------------------------------------------------------------------
(* Properties *)

\* docs/manual.md:1861-1863, 1874: a save that leaves a credential blank keeps the
\* stored one, in both modes of WeCom whichever is in use.  It does not when the
\* provider is switched off, when the read fails, or when another save comes between.
BlankKeepsCredential ==
    [][\A a \in Admins : \A g \in Parts :
          (/\ Write(a) /\ save[a].previous = setting
           /\ setting.secret[g] # setting'.secret[g])
          => \/ setting'.secret[g] = save[a].form.typed[g] /\ setting'.secret[g] # NoValue
             \/ save[a].form.clear
             \/ ~save[a].form.on /\ save[a].form.item # "email"]_setVars

\* A cleared credential is gone: only a save that had read it before can bring it
\* back, none that starts later.
ClearedStaysCleared == \A g \in Parts : setting.secret[g] \in live[g] \cup {NoValue}
=============================================================================
