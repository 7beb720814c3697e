------------------------------ MODULE Accounts ------------------------------
(***************************************************************************)
(* Accounts of the console: login with its throttle, sessions, change of   *)
(* password, and the reset of a forgotten password.                        *)
(*                                                                         *)
(* A handler is a sequence of PostgreSQL statements on the same few rows,  *)
(* none of them in a transaction, so two handlers interleave between any   *)
(* two statements, and one ends between any two when a statement fails or  *)
(* the process dies.  job[r] is where the handler of request r stands and  *)
(* what it has read.  Hashes are abstracted to the password they are of;   *)
(* every account is local and has an e-mail address.                       *)
(***************************************************************************)
EXTENDS Naturals, FiniteSets

CONSTANTS
    Users,         \* accounts
    Admin,         \* the account "admin", which is never locked
    Passwords,     \* the passwords people type
    Requests,      \* bound: requests served at the same time
    Sids,          \* bound: session tokens
    Tokens,        \* bound: reset (verification) tokens
    MaxFailures,   \* LoginMaxFailures
    RateLimit,     \* ResetRateLimitMax
    Budgets,       \* bound: kinds of requests, how many are made, how many faults
    Unlimited,     \* a budget without end
    None

AllKinds == {"login", "ldap", "logout", "call", "change", "verify", "send", "confirm"}

ASSUME MaxAssumption == MaxFailures \in Nat \ {0} /\ RateLimit \in Nat \ {0}
ASSUME RequestsAssumption == IsFiniteSet(Requests)
ASSUME BudgetsAssumption ==
    \A b \in Budgets : b.kinds \subseteq AllKinds /\ b.starts \in Nat \cup {Unlimited} /\ b.faults \in Nat
ASSUME UnlimitedAssumption == Unlimited \notin Nat /\ None \notin Passwords

VARIABLES
    account,     \* account[u]: password and disabled flag of the users row, None if deleted
    failures,    \* failures[u]: rows of login_failure_log
    elapsed,     \* elapsed[u]: is the newest of them older than the lockout?
    past,        \* past[u]: how many of them were there when the lockout last elapsed
    sessions,    \* sessions[s]: the row of sessions with that token, None without
    reset,       \* reset[t]: the row of password_reset_requests, None without
    job,         \* job[r]: the handler of request r
    kinds, left, faults,  \* what is left of the budget
    tries,       \* history: wrong passwords since the lockout elapsed or a success
    slips,       \* history: checks and records of the throttle that failed since then
    completed    \* completed[t]: history: resets answered "ok" with token t

loginLog == <<failures, elapsed, past>>
allowance == <<kinds, left, faults>>
history == <<tries, slips, completed>>
vars == <<account, loginLog, sessions, reset, job, allowance, history>>

Free == [kind |-> None, user |-> None, pc |-> "done", typed |-> None, new |-> None, code |-> 0,
         read |-> 0, sid |-> None, token |-> None, before |-> {}]
Width == Cardinality(Requests)
Bound == Width * (MaxFailures - 1) + (Width * (Width + 1)) \div 2
CapTries(n, s) == IF n > Bound + s THEN Bound + s + 1 ELSE n
Session == [user : Users, expired : BOOLEAN]
ResetRow == [user : Users, code : Nat, age : {"cooling", "counted", "old"}, expired : BOOLEAN,
             used : BOOLEAN]

TypeOK ==
    /\ account \in [Users -> [password : Passwords, disabled : BOOLEAN] \cup {None}]
    /\ failures \in [Users -> Nat]
    /\ elapsed \in [Users -> BOOLEAN]
    /\ past \in [Users -> Nat]
    /\ sessions \in [Sids -> Session \cup {None}]
    /\ reset \in [Tokens -> ResetRow \cup {None}]
    /\ \A r \in Requests : /\ job[r].kind \in AllKinds \cup {None}
                           /\ job[r].user \in Users \cup {None}
                           /\ job[r].sid \in Sids \cup {None}
                           /\ job[r].token \in Tokens \cup {None}
                           /\ job[r].before \subseteq Sids
    /\ kinds \subseteq AllKinds /\ left \in Nat \cup {Unlimited} /\ faults \in Nat
    /\ tries \in [Users -> Nat] /\ slips \in [Users -> Nat]
    /\ completed \in [Tokens -> Nat]

Init ==
    /\ \E p \in Passwords : account = [u \in Users |-> [password |-> p, disabled |-> FALSE]]
    /\ failures = [u \in Users |-> 0]
    /\ elapsed = [u \in Users |-> FALSE]
    /\ past = [u \in Users |-> 0]
    /\ sessions = [s \in Sids |-> None]
    /\ reset = [t \in Tokens |-> None]
    /\ job = [r \in Requests |-> Free]
    /\ \E b \in Budgets : kinds = b.kinds /\ left = b.starts /\ faults = b.faults
    /\ tries = [u \in Users |-> 0] /\ slips = [u \in Users |-> 0]
    /\ completed = [t \in Tokens |-> 0]

(***************************************************************************)
(* A request arrives.                                                      *)
(***************************************************************************)
FirstStep(k) ==
    CASE k = "login" -> "ensure"   [] k = "ldap" -> "ensure"
      [] k = "logout" -> "validate" [] k = "call" -> "validate"
      [] k = "change" -> "validate" [] k = "verify" -> "identity"
      [] k = "send" -> "request"   [] k = "confirm" -> "request"

Arrives(r, k, new) ==
    /\ job[r].pc = "done" /\ left # 0 /\ k \in kinds
    /\ left' = IF left = Unlimited THEN left ELSE left - 1
    /\ job' = [job EXCEPT ![r] = [new EXCEPT !.kind = k, !.pc = FirstStep(k)]]
    /\ UNCHANGED <<account, loginLog, sessions, reset, kinds, faults, history>>

StartLogin(r, u) ==
    \E k \in {"login", "ldap"}, p \in Passwords :
        Arrives(r, k, [Free EXCEPT !.user = u, !.typed = p])

\* The bearer token of a request may be of a session that is gone by now.
StartWithSession(r, s) ==
    \/ \E k \in {"logout", "call"} : Arrives(r, k, [Free EXCEPT !.sid = s])
    \/ \E p, q \in Passwords : p # q /\ Arrives(r, "change", [Free EXCEPT !.sid = s, !.typed = p, !.new = q])

StartVerify(r, u) == Arrives(r, "verify", [Free EXCEPT !.user = u])

StartReset(r, t) ==
    /\ reset[t] # None
    /\ \/ Arrives(r, "send", [Free EXCEPT !.token = t, !.user = reset[t].user])
       \/ \E p \in Passwords, c \in {0, reset[t].code} :
            Arrives(r, "confirm", [Free EXCEPT !.token = t, !.user = reset[t].user, !.new = p,
                       !.code = c, !.before = {s \in Sids : sessions[s] # None}])

Goto(r, step) == job' = [job EXCEPT ![r].pc = step]
Answer(r) == job' = [job EXCEPT ![r] = Free]
Fault == faults # 0 /\ faults' = faults - 1
Exists(u) == account[u] # None
Enabled(u) == Exists(u) /\ ~account[u].disabled

(***************************************************************************)
(* login_failure_log.                                                      *)
(***************************************************************************)
\* Mutant: the lockout ends with the first attempt that is refused.
EnsureUnlocks(u) ==
    IF u = Admin \/ failures[u] < MaxFailures THEN "allowed" ELSE "clear"

\* EnsureLoginAllowed decides on one count of the failures; "admin" is exempt.
EnsureLoginAllowed(u) ==
    IF u = Admin \/ failures[u] < MaxFailures THEN "allowed"
    ELSE IF elapsed[u] THEN "clear" ELSE "locked"

\* ClearLoginFailures deletes all rows of the account, whoever counted them.
ClearLoginFailures(u) ==
    /\ failures' = [failures EXCEPT ![u] = 0]
    /\ elapsed' = [elapsed EXCEPT ![u] = FALSE]
    /\ past' = [past EXCEPT ![u] = 0]

\* CreateLoginFailure inserts a row, then deletes those of every account that are
\* a day old, in a statement of its own.  What is a day old was there when the
\* lockout last elapsed: attempts no more than the lockout minutes apart are
\* locked out long before that.
CreateLoginFailure(u) ==
    /\ failures' = [failures EXCEPT ![u] = @ + 1]
    /\ elapsed' = [elapsed EXCEPT ![u] = FALSE]
    /\ UNCHANGED past

DeleteOldFailures ==
    \E gone \in [Users -> UNION {0..past[u] : u \in Users}] :
        /\ \A u \in Users : gone[u] <= past[u]
        /\ failures' = [u \in Users |-> failures[u] - gone[u]]
        /\ past' = [u \in Users |-> past[u] - gone[u]]
        /\ UNCHANGED elapsed

(***************************************************************************)
(* login.                                                                  *)
(***************************************************************************)
CheckLock(r) ==
    /\ job[r].pc = "ensure"
    /\ LET verdict == EnsureLoginAllowed(job[r].user)
       IN  CASE verdict = "allowed" -> Goto(r, "find")
             [] verdict = "clear" -> Goto(r, "unlock")
             [] verdict = "locked" -> Answer(r)
    /\ UNCHANGED <<account, loginLog, sessions, reset, allowance, history>>

Slip(u) == slips' = [slips EXCEPT ![u] = @ + 1]

\* The configuration or the count cannot be read: the handler logs the error and
\* lets the login through.
CheckFails(r) ==
    /\ job[r].pc = "ensure" /\ Fault
    /\ Goto(r, "find") /\ Slip(job[r].user)
    /\ UNCHANGED <<account, loginLog, sessions, reset, kinds, left, tries, completed>>

\* The lockout is over: the failures are deleted, in a statement of its own.  An
\* error of it is logged, too, and the login goes on.
Unlock(r) ==
    /\ job[r].pc = "unlock"
    /\ \/ ClearLoginFailures(job[r].user) /\ UNCHANGED faults
       \/ Fault /\ UNCHANGED loginLog
    /\ Goto(r, "find")
    /\ UNCHANGED <<account, sessions, reset, kinds, left, history>>

\* Login compares the password with the row it read.  LoginWithProvider binds
\* to the directory, which may refuse, and wants an enabled account; without
\* one, or with an unreadable configuration, no failure is recorded.  A look-up
\* that fails is taken for a wrong password.
Authenticate(r) ==
    LET u == job[r].user
        ldap == job[r].kind = "ldap"
        known == IF ldap THEN TRUE ELSE Enabled(u) /\ account[u].password = job[r].typed
    IN  /\ job[r].pc = "find"
        /\ \/ /\ \/ ~known /\ Goto(r, "record")
                 \/ ldap /\ Goto(r, "record")
                 \/ ldap /\ Answer(r)
                 \/ known /\ Enabled(u) /\ Goto(r, "create")
              /\ UNCHANGED faults
           \/ Fault /\ Goto(r, "record")
        /\ tries' = [tries EXCEPT ![u] = IF job'[r].pc = "record" THEN CapTries(@ + 1, slips[u]) ELSE @]
        /\ UNCHANGED <<account, loginLog, sessions, reset, kinds, left, slips, completed>>

RecordLoginFailure(r) ==
    /\ job[r].pc = "record"
    /\ CreateLoginFailure(job[r].user)
    /\ Goto(r, "purge")
    /\ UNCHANGED <<account, sessions, reset, allowance, history>>

PurgeLoginFailures(r) ==
    /\ job[r].pc = "purge"
    /\ DeleteOldFailures
    /\ Answer(r)
    /\ UNCHANGED <<account, sessions, reset, allowance, history>>

\* createSession: the INSERT violates its foreign key if the account is gone.
CreateSession(r) ==
    /\ job[r].pc = "create"
    /\ IF Exists(job[r].user)
       THEN \E s \in Sids : /\ sessions[s] = None /\ \A q \in Requests : s \notin job[q].before
                            /\ \A q \in Requests : job[q].sid # s
                            /\ sessions' = [sessions EXCEPT ![s] =
                                               [user |-> job[r].user, expired |-> FALSE]]
                            /\ Goto(r, "touch")
       ELSE Answer(r) /\ UNCHANGED sessions
    /\ UNCHANGED <<account, loginLog, reset, allowance, history>>

\* RecordUserLogin: an error fails the login, the session row stays.
RecordUserLogin(r) ==
    /\ job[r].pc = "touch"
    /\ IF Exists(job[r].user) THEN Goto(r, "succeed") ELSE Answer(r)
    /\ UNCHANGED <<account, loginLog, sessions, reset, allowance, history>>

Untried(u) == tries' = [tries EXCEPT ![u] = 0] /\ slips' = [slips EXCEPT ![u] = 0]

\* The failures are forgotten after a success (login, or a completed reset).
ForgetFailures(r) ==
    /\ job[r].pc = "succeed"
    /\ ClearLoginFailures(job[r].user)
    /\ Untried(job[r].user)
    /\ Answer(r)
    /\ UNCHANGED <<account, sessions, reset, allowance, completed>>

(***************************************************************************)
(* Requests with a session.                                                *)
(***************************************************************************)
\* DeleteExpiredSessions removes every session that has expired.
DeleteExpired(ss) == [s \in Sids |-> IF ss[s] # None /\ ss[s].expired THEN None ELSE ss[s]]

\* Validate: expired sessions are deleted (an error of it is ignored), then the
\* session is read with its account.  requireAuth answers 401 or calls the
\* handler; logout, which writes the audit in between, goes on in any case.
Validate(r) ==
    LET s == job[r].sid
        found == DeleteExpired(sessions)[s]
    IN  /\ job[r].pc = "validate"
        /\ \/ sessions' = DeleteExpired(sessions) /\ UNCHANGED faults
           \/ Fault /\ UNCHANGED sessions
        /\ CASE job[r].kind = "logout" -> Goto(r, "delete")
             [] job[r].kind = "change" /\ found # None /\ Enabled(found.user) ->
                  job' = [job EXCEPT ![r].pc = "old", ![r].user = found.user]
             [] OTHER -> Answer(r)
        /\ UNCHANGED <<account, loginLog, reset, kinds, left, history>>

Logout(r) ==
    /\ job[r].pc = "delete"
    /\ sessions' = [sessions EXCEPT ![job[r].sid] = None]
    /\ Answer(r)
    /\ UNCHANGED <<account, loginLog, reset, allowance, history>>

\* ChangePassword compares the old password, then stores the new one.
CheckOldPassword(r) ==
    /\ job[r].pc = "old"
    /\ IF Enabled(job[r].user) /\ account[job[r].user].password = job[r].typed
       THEN Goto(r, "update") ELSE Answer(r)
    /\ UNCHANGED <<account, loginLog, sessions, reset, allowance, history>>

\* UpdateUserPassword by ID; ErrNotFound if the account is gone.  A change of
\* password ends here, and leaves the sessions alone.
UpdateUserPassword(r) ==
    LET u == job[r].user
    IN  /\ job[r].pc = "update"
        /\ IF ~Exists(u) THEN Answer(r) /\ UNCHANGED account
           ELSE /\ account' = [account EXCEPT ![u].password = job[r].new]
                /\ IF job[r].kind = "confirm" THEN Goto(r, "mark") ELSE Answer(r)
        /\ UNCHANGED <<loginLog, sessions, reset, allowance, history>>

(***************************************************************************)
(* Reset of a forgotten password.                                          *)
(***************************************************************************)
\* VerifyResetIdentity, with the right answer to the captcha.
VerifyResetIdentity(r) ==
    /\ job[r].pc = "identity"
    /\ Answer(r)
    /\ IF Enabled(job[r].user)
       THEN \E t \in Tokens :
              /\ reset[t] = None /\ completed[t] = 0 /\ \A q \in Requests : job[q].token # t
              /\ reset' = [reset EXCEPT ![t] = [user |-> job[r].user, code |-> 0, age |-> "cooling",
                                                expired |-> FALSE, used |-> FALSE]]
       ELSE UNCHANGED reset
    /\ UNCHANGED <<account, loginLog, sessions, allowance, history>>

Usable(t) == reset[t] # None /\ ~reset[t].used /\ ~reset[t].expired

\* FindPasswordResetRequest; the code hash is used as it was read here.
FindPasswordResetRequest(r) ==
    /\ job[r].pc = "request"
    /\ IF ~Usable(job[r].token) THEN Answer(r)
       ELSE IF job[r].kind = "send" THEN Goto(r, "allowed")
       ELSE job' = [job EXCEPT ![r].pc = "user", ![r].read = reset[job[r].token].code]
    /\ UNCHANGED <<account, loginLog, sessions, reset, allowance, history>>

\* ensureResetCodeAllowed looks at the rows of the account that have a code:
\* none younger than the cooldown, fewer than the limit in the time span.
WithCode(u, ages) ==
    {t \in Tokens : reset[t] # None /\ reset[t].user = u /\ reset[t].code # 0 /\ reset[t].age \in ages}

EnsureResetCodeAllowed(r) ==
    /\ job[r].pc = "allowed"
    /\ IF WithCode(job[r].user, {"cooling"}) = {} /\
          Cardinality(WithCode(job[r].user, {"cooling", "counted"})) < RateLimit
       THEN Goto(r, "code") ELSE Answer(r)
    /\ UNCHANGED <<account, loginLog, sessions, reset, allowance, history>>

\* DeleteStalePasswordResetRequests removes rows that are a week old.
Stale(gone) == gone \subseteq {t \in Tokens : reset[t] # None /\ reset[t].age = "old"}

\* SetPasswordResetCode replaces the code and extends the expiry of a token
\* that has not been used, then the mail is sent; codes are 1 and 2 in turn.
\* The code stays when the mail cannot be sent; otherwise old rows are removed.
SetPasswordResetCode(r) ==
    LET t == job[r].token
    IN  /\ job[r].pc = "code"
        /\ IF reset[t] = None \/ reset[t].used THEN UNCHANGED reset
           ELSE \E gone \in SUBSET (Tokens \ {t}) :
                  /\ Stale(gone)
                  /\ reset' = [x \in Tokens |->
                       IF x = t THEN [reset[t] EXCEPT !.code = (@ % 2) + 1, !.expired = FALSE]
                       ELSE IF x \in gone THEN None ELSE reset[x]]
        /\ Answer(r)
        /\ UNCHANGED <<account, loginLog, sessions, allowance, history>>

\* ConfirmReset reads the account, then compares the code.
CheckResetCode(r) ==
    /\ job[r].pc = "user"
    /\ IF Enabled(job[r].user) /\ job[r].read # 0 /\ job[r].read = job[r].code
       THEN Goto(r, "update") ELSE Answer(r)
    /\ UNCHANGED <<account, loginLog, sessions, reset, allowance, history>>

\* Mutant: the row is marked without looking whether it was used meanwhile.
MarkAnyway(t) == reset[t] # None

\* MarkPasswordResetUsed updates one row WHERE used_at IS NULL.
CanMark(t) == reset[t] # None /\ ~reset[t].used

MarkPasswordResetUsed(r) ==
    LET t == job[r].token
    IN  /\ job[r].pc = "mark"
        /\ IF CanMark(t)
           THEN reset' = [reset EXCEPT ![t].used = TRUE] /\ Goto(r, "sessions")
           ELSE Answer(r) /\ UNCHANGED reset
        /\ UNCHANGED <<account, loginLog, sessions, allowance, history>>

\* Mutant: only the sessions that have expired are deleted.
DeleteExpiredOf(u) == [s \in Sids |-> IF sessions[s] # None /\ sessions[s].user = u /\ sessions[s].expired
                                      THEN None ELSE sessions[s]]

SessionsWithout(u) == [s \in Sids |-> IF sessions[s] # None /\ sessions[s].user = u
                                      THEN None ELSE sessions[s]]

\* DeleteUserSessions ends ConfirmReset; its handler then forgets failures.
DeleteUserSessions(r) ==
    /\ job[r].pc = "sessions"
    /\ sessions' = SessionsWithout(job[r].user)
    /\ completed' = [completed EXCEPT ![job[r].token] = @ + 1]
    /\ Goto(r, "succeed")
    /\ UNCHANGED <<account, loginLog, reset, allowance, tries, slips>>

(***************************************************************************)
(* Administrators and time.                                                *)
(***************************************************************************)
SetDisabled(u) ==
    /\ Unlimited # left /\ Exists(u)
    /\ account' = [account EXCEPT ![u].disabled = ~@]
    /\ UNCHANGED <<loginLog, sessions, reset, job, allowance, history>>

\* deleteManagedUser wants a disabled account; sessions and resets cascade.
DeleteUser(u) ==
    /\ Unlimited # left /\ Exists(u) /\ account[u].disabled
    /\ account' = [account EXCEPT ![u] = None]
    /\ sessions' = SessionsWithout(u)
    /\ reset' = [t \in Tokens |-> IF reset[t] # None /\ reset[t].user = u THEN None ELSE reset[t]]
    /\ UNCHANGED <<loginLog, job, allowance, history>>

\* The lockout minutes since the newest failure have passed.
LockoutElapses(u) ==
    /\ failures[u] > 0 /\ ~elapsed[u]
    /\ elapsed' = [elapsed EXCEPT ![u] = TRUE]
    /\ past' = [past EXCEPT ![u] = failures[u]]
    /\ Untried(u)
    /\ UNCHANGED <<account, failures, sessions, reset, job, allowance, completed>>

ExpireSession(s) ==
    /\ sessions[s] # None /\ ~sessions[s].expired
    /\ sessions' = [sessions EXCEPT ![s].expired = TRUE]
    /\ UNCHANGED <<account, loginLog, reset, job, allowance, history>>

AgeReset(t) ==
    /\ reset[t] # None
    /\ \/ reset[t].age = "cooling" /\ reset' = [reset EXCEPT ![t].age = "counted"]
       \/ reset[t].age = "counted" /\ reset' = [reset EXCEPT ![t].age = "old"]
       \/ ~reset[t].expired /\ reset' = [reset EXCEPT ![t].expired = TRUE]
    /\ UNCHANGED <<account, loginLog, sessions, job, allowance, history>>

\* The handler ends between two statements: the next one fails, the answer to the
\* last one is lost, the client is gone, or the process dies.  At "record" a try
\* is left unrecorded.
Breaks(r) ==
    /\ job[r].pc # "done" /\ Fault
    /\ Answer(r)
    /\ IF job[r].pc = "record" THEN Slip(job[r].user) ELSE UNCHANGED slips
    /\ UNCHANGED <<account, loginLog, sessions, reset, kinds, left, tries, completed>>

Step(r) ==
    \/ CheckLock(r) \/ CheckFails(r) \/ Unlock(r) \/ Authenticate(r)
    \/ RecordLoginFailure(r) \/ PurgeLoginFailures(r) \/ Breaks(r)
    \/ CreateSession(r) \/ RecordUserLogin(r) \/ ForgetFailures(r)
    \/ Validate(r) \/ Logout(r) \/ CheckOldPassword(r) \/ UpdateUserPassword(r)
    \/ VerifyResetIdentity(r) \/ FindPasswordResetRequest(r) \/ EnsureResetCodeAllowed(r)
    \/ SetPasswordResetCode(r) \/ CheckResetCode(r) \/ MarkPasswordResetUsed(r)
    \/ DeleteUserSessions(r)

Next ==
    \/ \E r \in Requests :
         \/ Step(r)
         \/ \E u \in Users : StartLogin(r, u) \/ StartVerify(r, u)
         \/ \E s \in Sids : StartWithSession(r, s)
         \/ \E t \in Tokens : StartReset(r, t)
    \/ \E u \in Users : SetDisabled(u) \/ DeleteUser(u) \/ LockoutElapses(u)
    \/ \E s \in Sids : ExpireSession(s)
    \/ \E t \in Tokens : AgeReset(t)

Spec == Init /\ [][Next]_vars

(***************************************************************************)
(* Properties.                                                             *)
(***************************************************************************)
\* Between two lockouts at most Bound wrong passwords are tried for an account
\* other than "admin", and one more for each time that the check or the record
\* of a failure failed, for the login goes on without.  A request that found the
\* previous lockout elapsed deletes failures that were recorded since, but each
\* one in flight does so only once, and while j of them are about to, the others
\* add at most MaxFailures - 1 + (Width - j) tries: Bound is the sum of these
\* over j, and the code does reach it.  Deleting what is a day old adds none.
TriesBounded == \A u \in Users \ {Admin} : tries[u] <= Bound + slips[u]

\* A reset is answered "ok" at most once for each verification token.  It says
\* nothing of the password: a confirmation stores its own before the mark is
\* refused, so two that overlap may both change it.
ResetOnce == \A t \in Tokens : completed[t] <= 1

\* When a reset is about to be answered "ok", no session that existed when it
\* was requested is left.
ResetLogsOut ==
    \A r \in Requests : job[r].kind = "confirm" /\ job[r].pc = "succeed"
        => \A s \in job[r].before : sessions[s] = None \/ sessions[s].user # job[r].user
=============================================================================
