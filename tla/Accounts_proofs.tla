--------------------------- MODULE Accounts_proofs ---------------------------
(***************************************************************************)
(* Proofs about Accounts, for every set of accounts, passwords, requests,  *)
(* sessions and tokens, every limit and every budget, and about Wecom, for *)
(* every set of accounts, identities, requests and tickets.                *)
(***************************************************************************)
EXTENDS Accounts, Wecom, FiniteSetTheorems, TLAPS

USE DEF loginLog, allowance, history

Pcs == {"done", "ensure", "unlock", "find", "record", "purge", "create", "touch", "succeed",
        "delete", "validate", "old", "update", "identity", "request", "user", "mark",
        "sessions", "allowed", "code"}
Job == [kind : AllKinds \cup {None}, user : Users \cup {None}, pc : Pcs,
        typed : Passwords \cup {None}, new : Passwords \cup {None}, code : Nat, read : Nat,
        sid : Sids \cup {None}, token : Tokens \cup {None}, before : SUBSET Sids]

\* Where a handler may stand for the kind of its request, and what it knows there.
Placed(j) ==
    /\ j.pc \in {"ensure", "unlock", "find", "record", "create", "touch"} => j.kind \in {"login", "ldap"}
    /\ j.pc \in {"old", "update"} => j.kind \in {"change", "confirm"} /\ j.new \in Passwords
    /\ j.pc \in {"user", "mark", "sessions"} => j.kind = "confirm"
    /\ j.pc \in {"request", "allowed", "code"} => j.kind \in {"send", "confirm"}
    /\ j.pc # "done" /\ j.kind \in {"send", "confirm"} => j.token \in Tokens
    /\ j.pc # "done" /\ j.kind \in {"change", "confirm"} => j.new \in Passwords
    /\ j.pc \in {"delete", "validate"} => j.sid \in Sids
    /\ j.pc \notin {"done", "delete", "validate"} => j.user \in Users

\* Everything but the history of the tries and the resets.
Typed ==
    /\ account \in [Users -> [password : Passwords, disabled : BOOLEAN] \cup {None}]
    /\ failures \in [Users -> Nat]
    /\ elapsed \in [Users -> BOOLEAN]
    /\ past \in [Users -> Nat] /\ \A u \in Users : past[u] <= failures[u]
    /\ sessions \in [Sids -> Session \cup {None}]
    /\ reset \in [Tokens -> ResetRow \cup {None}]
    /\ job \in [Requests -> Job] /\ \A r \in Requests : Placed(job[r])
    /\ kinds \subseteq AllKinds /\ left \in Nat \cup {Unlimited} /\ faults \in Nat
    /\ tries \in [Users -> Nat] /\ slips \in [Users -> Nat]
    /\ completed \in [Tokens -> Nat]

\* The handlers of u that stand at a step.
At(u, step) == {r \in Requests : job[r].pc = step /\ job[r].user = u}
Count(u, step) == Cardinality(At(u, step))

\* The wrong passwords that can still be tried before the failures are cleared again,
\* with f failures recorded, j handlers about to clear them, k about to record one and
\* i let through: those of the latter, and of new requests until MaxFailures are recorded.
StillTried(f, j, k, i) == IF f < MaxFailures THEN MaxFailures - 1 - f + (Width - j - k) ELSE i

\* Twice the tries that n handlers make possible which are about to clear the failures,
\* one after the other: MaxFailures - 1 + (Width - h) for each h < n.
TwiceLater(n) == n * (2 * (MaxFailures - 1) + 2 * Width - n + 1)

\* With t tries and s slips: once the lockout has elapsed all other tries are still to be
\* recorded; before, the tries and those still possible are within the bound.
Within(e, t, s, f, j, k, i) ==
    IF e THEN t <= k + s ELSE 2 * t + 2 * StillTried(f, j, k, i) + TwiceLater(j) <= 2 * Bound + 2 * s

\* The failures recorded since the lockout last elapsed: no purge deletes them.
Fresh(u) == failures[u] - past[u]

Throttled(u) == Within(elapsed[u], tries[u], slips[u], Fresh(u),
                       Count(u, "unlock"), Count(u, "record"), Count(u, "find"))
ThrottleInv == \A u \in Users \ {Admin} : IF Requests = {} THEN tries[u] = 0 ELSE Throttled(u)

\* A token is spent when its row is used or gone.
Spent(t) == reset[t] = None \/ reset[t].used
AtSessions(r, t) == job[r].pc = "sessions" /\ job[r].token = t

\* One request at most marks a token as used; it alone is answered "ok".
ResetInv ==
    \A t \in Tokens :
       /\ completed[t] \in {0, 1}
       /\ completed[t] = 1 => Spent(t)
       /\ \A r \in Requests : AtSessions(r, t) => /\ completed[t] = 0 /\ Spent(t)
                                                 /\ \A q \in Requests \ {r} : ~AtSessions(q, t)

-----------------------------------------------------------------------------
(***************************************************************************)
(* Types.                                                                  *)
(***************************************************************************)
\* A handler that has answered is typed and knows nothing.
LEMMA FreeTypes == Free \in Job /\ Free.pc = "done" /\ Placed(Free)
  BY DEF Free, Job, Pcs, Placed, AllKinds

\* A handler that goes on changes its place, one that answers is free again;
\* the others are where they were.
LEMMA JobMoves ==
    ASSUME Typed, NEW r \in Requests
    PROVE  /\ \A step \in Pcs : Goto(r, step) =>
                 /\ job' \in [Requests -> Job]
                 /\ job'[r] = [job[r] EXCEPT !.pc = step]
                 /\ \A q \in Requests \ {r} : job'[q] = job[q]
           /\ Answer(r) => /\ job' \in [Requests -> Job] /\ job'[r] = Free
                           /\ \A q \in Requests \ {r} : job'[q] = job[q]
<1>1. ASSUME NEW step \in Pcs, Goto(r, step)
      PROVE  /\ job' \in [Requests -> Job]
             /\ job'[r] = [job[r] EXCEPT !.pc = step]
             /\ \A q \in Requests \ {r} : job'[q] = job[q]
  <2>1. job' = [job EXCEPT ![r] = [job[r] EXCEPT !.pc = step]]
    BY <1>1 DEF Goto
  <2>2. [job[r] EXCEPT !.pc = step] \in Job
    BY DEF Typed, Job
  <2> QED
    BY <2>1, <2>2 DEF Typed
<1>2. ASSUME Answer(r)
      PROVE  /\ job' \in [Requests -> Job] /\ job'[r] = Free
             /\ \A q \in Requests \ {r} : job'[q] = job[q]
  BY <1>2, FreeTypes DEF Answer, Typed
<1> QED
  BY <1>1, <1>2

\* What changing the place of a handler leaves of it.
LEMMA GotoFields ==
    ASSUME NEW j \in Job, NEW step \in Pcs
    PROVE  LET k == [j EXCEPT !.pc = step] IN
           /\ k.pc = step /\ k.kind = j.kind /\ k.user = j.user /\ k.typed = j.typed /\ k.new = j.new
           /\ k.code = j.code /\ k.read = j.read /\ k.sid = j.sid /\ k.token = j.token
           /\ k.before = j.before
  BY DEF Job

\* A handler that answers keeps all others where they may be.
LEMMA AnswerPlaced ==
    ASSUME Typed, NEW r \in Requests, Answer(r)
    PROVE  job' \in [Requests -> Job] /\ \A q \in Requests : Placed(job'[q])
<1>1. /\ job' \in [Requests -> Job] /\ job'[r] = Free
      /\ \A q \in Requests \ {r} : job'[q] = job[q]
  BY JobMoves
<1> QED
  BY <1>1, FreeTypes DEF Typed

\* So does one that goes on to a place of its kind.
LEMMA GotoPlaced ==
    ASSUME Typed, NEW r \in Requests, NEW step \in Pcs, Goto(r, step),
           Placed([job[r] EXCEPT !.pc = step])
    PROVE  job' \in [Requests -> Job] /\ \A q \in Requests : Placed(job'[q])
<1>1. /\ job' \in [Requests -> Job] /\ job'[r] = [job[r] EXCEPT !.pc = step]
      /\ \A q \in Requests \ {r} : job'[q] = job[q]
  BY JobMoves
<1> QED
  BY <1>1 DEF Typed

\* Where a handler may go from where it stands.
LEMMA MayGo ==
    ASSUME NEW j \in Job, Placed(j), NEW step \in Pcs,
           \/ j.pc \in {"ensure", "unlock", "find", "record", "create", "touch"}
              /\ step \in {"find", "unlock", "record", "purge", "create", "touch", "succeed"}
           \/ j.pc = "validate" /\ step = "delete"
           \/ j.pc = "validate" /\ j.kind = "change" /\ j.user \in Users /\ step = "old"
           \/ j.pc = "old" /\ step = "update"
           \/ j.pc = "update" /\ j.kind = "confirm" /\ step = "mark"
           \/ j.pc = "request" /\ step = "allowed"
           \/ j.pc = "allowed" /\ step = "code"
           \/ j.pc = "user" /\ step = "update"
           \/ j.pc \in {"mark", "sessions"} /\ step \in {"sessions", "succeed"}
    PROVE  Placed([j EXCEPT !.pc = step])
<1> DEFINE k == [j EXCEPT !.pc = step]
<1>1. k.pc = step /\ k.kind = j.kind /\ k.user = j.user /\ k.new = j.new /\ k.sid = j.sid /\ k.token = j.token
  BY GotoFields
<1> HIDE DEF k
<1> QED
  BY <1>1 DEF Placed

\* The initial state is typed.
LEMMA TypedInit == Init => Typed
<1> SUFFICES ASSUME Init PROVE Typed
  OBVIOUS
<1>1. account \in [Users -> [password : Passwords, disabled : BOOLEAN] \cup {None}]
  BY DEF Init
<1>2. kinds \subseteq AllKinds /\ left \in Nat \cup {Unlimited} /\ faults \in Nat
  BY BudgetsAssumption DEF Init
<1>3. job \in [Requests -> Job] /\ \A r \in Requests : Placed(job[r])
  BY FreeTypes DEF Init
<1> QED
  BY <1>1, <1>2, <1>3 DEF Init, Typed

\* A request that arrives is placed at the first step of its kind.
LEMMA ArrivalTypes ==
    ASSUME Typed, NEW r \in Requests, NEW k \in AllKinds, NEW new \in Job, Arrives(r, k, new),
           k \in {"login", "ldap", "verify", "send", "confirm"} => new.user \in Users,
           k \in {"send", "confirm"} => new.token \in Tokens,
           k \in {"change", "confirm"} => new.new \in Passwords,
           k \in {"logout", "call", "change"} => new.sid \in Sids
    PROVE  /\ Typed'
           /\ job'[r].kind = k /\ job'[r].pc = FirstStep(k) /\ job'[r].pc \notin {"done", "find", "unlock", "record"}
           /\ job'[r].user = new.user /\ job'[r].before = new.before
           /\ \A q \in Requests \ {r} : job'[q] = job[q]
<1> DEFINE j == [new EXCEPT !.kind = k, !.pc = FirstStep(k)]
<1>1. FirstStep(k) \in Pcs
  BY DEF FirstStep, AllKinds, Pcs
<1>2. /\ j \in Job /\ j.kind = k /\ j.pc = FirstStep(k) /\ j.user = new.user
      /\ j.token = new.token /\ j.new = new.new /\ j.sid = new.sid /\ j.before = new.before
  BY <1>1 DEF Job
<1>3. job' = [job EXCEPT ![r] = j]
  BY DEF Arrives
<1> HIDE DEF j
<1>4. Placed(j)
  <2>1. /\ k \in {"login", "ldap"} => j.pc = "ensure"
        /\ k \in {"logout", "call", "change"} => j.pc = "validate"
        /\ k = "verify" => j.pc = "identity"
        /\ k \in {"send", "confirm"} => j.pc = "request"
    BY <1>2 DEF FirstStep
  <2>2. \/ k \in {"login", "ldap"} \/ k \in {"logout", "call", "change"}
        \/ k = "verify" \/ k \in {"send", "confirm"}
    BY DEF AllKinds
  <2> QED
    BY <1>2, <2>1, <2>2 DEF Placed
<1>5. job' \in [Requests -> Job] /\ \A q \in Requests : Placed(job'[q])
  BY <1>2, <1>3, <1>4 DEF Typed
<1>6. left' \in Nat \cup {Unlimited}
  <2>1. left \in Nat \cup {Unlimited} /\ left # 0
        /\ left' = IF left = Unlimited THEN left ELSE left - 1
    BY DEF Arrives, Typed
  <2> QED
    BY <2>1
<1>7. job'[r].pc \notin {"done", "find", "unlock", "record"}
  BY <1>2, <1>3 DEF Typed, FirstStep, AllKinds
<1>8. Typed'
  BY <1>5, <1>6 DEF Arrives, Typed
<1> QED
  BY <1>2, <1>3, <1>7, <1>8 DEF Typed

\* Every arrival is one of these.
LEMMA Arrivals ==
    ASSUME Typed, NEW r \in Requests,
           \/ \E u \in Users : StartLogin(r, u) \/ StartVerify(r, u)
           \/ \E s \in Sids : StartWithSession(r, s)
           \/ \E t \in Tokens : StartReset(r, t)
    PROVE  /\ Typed' /\ job[r].pc = "done"
           /\ job'[r].pc \notin {"done", "find", "unlock", "record", "sessions", "succeed"}
           /\ \A q \in Requests \ {r} : job'[q] = job[q]
           /\ UNCHANGED <<account, loginLog, sessions, reset, kinds, faults, history>>
<1> DEFINE Arrived ==
           /\ Typed' /\ job[r].pc = "done"
           /\ job'[r].pc \notin {"done", "find", "unlock", "record", "sessions", "succeed"}
           /\ \A q \in Requests \ {r} : job'[q] = job[q]
           /\ UNCHANGED <<account, loginLog, sessions, reset, kinds, faults, history>>
<1>0. ASSUME NEW k \in AllKinds, NEW new \in Job, Arrives(r, k, new),
             k \in {"login", "ldap", "verify", "send", "confirm"} => new.user \in Users,
             k \in {"send", "confirm"} => new.token \in Tokens,
             k \in {"change", "confirm"} => new.new \in Passwords,
             k \in {"logout", "call", "change"} => new.sid \in Sids
      PROVE  Arrived
  <2>1. FirstStep(k) \notin {"sessions", "succeed"}
    BY DEF FirstStep, AllKinds
  <2>2. /\ Typed' /\ job'[r].pc = FirstStep(k) /\ job'[r].pc \notin {"done", "find", "unlock", "record"}
        /\ \A q \in Requests \ {r} : job'[q] = job[q]
    BY <1>0, ArrivalTypes
  <2>3. /\ job[r].pc = "done"
        /\ UNCHANGED <<account, loginLog, sessions, reset, kinds, faults, history>>
    BY <1>0 DEF Arrives
  <2> QED
    BY <2>1, <2>2, <2>3
<1> HIDE DEF Arrived
<1>1. ASSUME NEW u \in Users, StartLogin(r, u) PROVE Arrived
  <2>1. PICK k \in {"login", "ldap"}, p \in Passwords :
          Arrives(r, k, [Free EXCEPT !.user = u, !.typed = p])
    BY <1>1 DEF StartLogin
  <2> DEFINE new == [Free EXCEPT !.user = u, !.typed = p]
  <2>2. new \in Job /\ new.user = u
    BY FreeTypes DEF Job, Free
  <2> HIDE DEF new
  <2> QED
    BY <1>0, <2>1, <2>2 DEF AllKinds, new
<1>2. ASSUME NEW u \in Users, StartVerify(r, u) PROVE Arrived
  <2> DEFINE new == [Free EXCEPT !.user = u]
  <2>2. new \in Job /\ new.user = u
    BY FreeTypes DEF Job, Free
  <2> HIDE DEF new
  <2> QED
    BY <1>0, <1>2, <2>2 DEF StartVerify, AllKinds, new
<1>3. ASSUME NEW s \in Sids, StartWithSession(r, s) PROVE Arrived
  <2>1. CASE \E k \in {"logout", "call"} : Arrives(r, k, [Free EXCEPT !.sid = s])
    <3> DEFINE new == [Free EXCEPT !.sid = s]
    <3>1. new \in Job /\ new.sid = s
      BY FreeTypes DEF Job, Free
    <3> HIDE DEF new
    <3> QED
      BY <1>0, <2>1, <3>1 DEF AllKinds, new
  <2>2. ASSUME NEW p \in Passwords, NEW q \in Passwords,
               Arrives(r, "change", [Free EXCEPT !.sid = s, !.typed = p, !.new = q])
        PROVE  Arrived
    <3> DEFINE new == [Free EXCEPT !.sid = s, !.typed = p, !.new = q]
    <3>1. new \in Job /\ new.sid = s /\ new.new = q
      BY FreeTypes DEF Job, Free
    <3> HIDE DEF new
    <3> QED
      BY <1>0, <2>2, <3>1 DEF AllKinds, new
  <2> QED
    BY <1>3, <2>1, <2>2 DEF StartWithSession
<1>4. ASSUME NEW t \in Tokens, StartReset(r, t) PROVE Arrived
  <2>1. reset[t].user \in Users /\ reset[t].code \in Nat
    BY <1>4 DEF StartReset, Typed, ResetRow
  <2>2. CASE Arrives(r, "send", [Free EXCEPT !.token = t, !.user = reset[t].user])
    <3> DEFINE new == [Free EXCEPT !.token = t, !.user = reset[t].user]
    <3>1. new \in Job /\ new.token = t /\ new.user = reset[t].user
      BY <2>1, FreeTypes DEF Job, Free
    <3> HIDE DEF new
    <3> QED
      BY <1>0, <2>1, <2>2, <3>1 DEF AllKinds, new
  <2>3. ASSUME NEW p \in Passwords, NEW c \in {0, reset[t].code},
               Arrives(r, "confirm", [Free EXCEPT !.token = t, !.user = reset[t].user, !.new = p,
                       !.code = c, !.before = {s \in Sids : sessions[s] # None}])
        PROVE  Arrived
    <3> DEFINE new == [Free EXCEPT !.token = t, !.user = reset[t].user, !.new = p,
                       !.code = c, !.before = {s \in Sids : sessions[s] # None}]
    <3>1. new \in Job /\ new.token = t /\ new.user = reset[t].user /\ new.new = p
      BY <2>1, FreeTypes DEF Job, Free
    <3> HIDE DEF new
    <3> QED
      BY <1>0, <2>1, <2>3, <3>1 DEF AllKinds, new
  <2> QED
    BY <1>4, <2>2, <2>3 DEF StartReset
<1> QED
  BY <1>1, <1>2, <1>3, <1>4 DEF Arrived

\* The records of the rows, and the changes that the actions make to them.
LEMMA RowTypes ==
    /\ \A x \in Session : x.user \in Users /\ x.expired \in BOOLEAN
                        /\ [x EXCEPT !.expired = TRUE] \in Session
    /\ \A x \in ResetRow : /\ x.user \in Users /\ x.code \in Nat /\ x.used \in BOOLEAN
                           /\ [x EXCEPT !.used = TRUE] \in ResetRow
                           /\ [x EXCEPT !.expired = TRUE] \in ResetRow
                           /\ [x EXCEPT !.age = "counted"] \in ResetRow
                           /\ [x EXCEPT !.age = "old"] \in ResetRow
                           /\ \A c \in Nat : [x EXCEPT !.code = c, !.expired = FALSE] \in ResetRow
    /\ \A u \in Users : /\ [user |-> u, expired |-> FALSE] \in Session
                        /\ [user |-> u, code |-> 0, age |-> "cooling", expired |-> FALSE,
                            used |-> FALSE] \in ResetRow
  BY DEF Session, ResetRow

\* Sessions that are deleted leave a well-typed table.
LEMMA SessionTypes ==
    ASSUME Typed
    PROVE  /\ DeleteExpired(sessions) \in [Sids -> Session \cup {None}]
           /\ \A u \in Users : SessionsWithout(u) \in [Sids -> Session \cup {None}]
  BY DEF Typed, DeleteExpired, SessionsWithout

\* The counters of failures stay natural numbers, the old ones among all.
CountersOk ==
    /\ failures \in [Users -> Nat] /\ elapsed \in [Users -> BOOLEAN]
    /\ past \in [Users -> Nat] /\ \A u \in Users : past[u] <= failures[u]

\* So do the statements on login_failure_log keep them.
LEMMA CounterTypes ==
    ASSUME Typed
    PROVE  /\ \A u \in Users : ClearLoginFailures(u) => CountersOk'
           /\ \A u \in Users : CreateLoginFailure(u) => CountersOk'
           /\ DeleteOldFailures => /\ CountersOk'
                                   /\ elapsed' = elapsed
                                   /\ \A u \in Users : failures'[u] - past'[u] = failures[u] - past[u]
<1>1. /\ failures \in [Users -> Nat] /\ elapsed \in [Users -> BOOLEAN]
      /\ past \in [Users -> Nat] /\ \A u \in Users : past[u] <= failures[u]
  BY DEF Typed
<1>2. ASSUME NEW u \in Users, ClearLoginFailures(u) PROVE CountersOk'
  BY <1>1, <1>2 DEF ClearLoginFailures, CountersOk
<1>3. ASSUME NEW u \in Users, CreateLoginFailure(u) PROVE CountersOk'
  <2>1. failures[u] + 1 \in Nat
    BY <1>1
  <2>2. /\ failures' \in [Users -> Nat] /\ elapsed' \in [Users -> BOOLEAN] /\ past' = past
        /\ \A v \in Users : failures'[v] >= failures[v]
    BY <1>1, <1>3, <2>1 DEF CreateLoginFailure
  <2> QED
    BY <1>1, <2>2 DEF CountersOk
<1>4. ASSUME DeleteOldFailures
      PROVE  /\ CountersOk' /\ elapsed' = elapsed
             /\ \A u \in Users : failures'[u] - past'[u] = failures[u] - past[u]
  <2>1. PICK gone \in [Users -> UNION {0..past[u] : u \in Users}] :
          /\ \A u \in Users : gone[u] <= past[u]
          /\ failures' = [u \in Users |-> failures[u] - gone[u]]
          /\ past' = [u \in Users |-> past[u] - gone[u]]
          /\ UNCHANGED elapsed
    BY <1>4 DEF DeleteOldFailures
  <2>2. \A u \in Users : gone[u] \in Nat
    BY <1>1, <2>1
  <2>3. \A u \in Users : /\ failures[u] - gone[u] \in Nat /\ past[u] - gone[u] \in Nat
                         /\ past[u] - gone[u] <= failures[u] - gone[u]
                         /\ (failures[u] - gone[u]) - (past[u] - gone[u]) = failures[u] - past[u]
    <3> SUFFICES ASSUME NEW u \in Users
                 PROVE  /\ failures[u] - gone[u] \in Nat /\ past[u] - gone[u] \in Nat
                        /\ past[u] - gone[u] <= failures[u] - gone[u]
                        /\ (failures[u] - gone[u]) - (past[u] - gone[u]) = failures[u] - past[u]
      OBVIOUS
    <3>1. \A f, q, g \in Nat : q <= f /\ g <= q =>
            f - g \in Nat /\ q - g \in Nat /\ q - g <= f - g /\ (f - g) - (q - g) = f - q
      OBVIOUS
    <3>2. /\ failures[u] \in Nat /\ past[u] \in Nat /\ gone[u] \in Nat
          /\ past[u] <= failures[u] /\ gone[u] <= past[u]
      BY <1>1, <2>1, <2>2
    <3> QED
      BY <3>1, <3>2
  <2> QED
    BY <1>1, <2>1, <2>3 DEF CountersOk
<1> QED
  BY <1>2, <1>3, <1>4

\* The bound is a natural number.
LEMMA BoundTypes == Width \in Nat /\ Bound \in Nat
<1>1. Width \in Nat
  BY RequestsAssumption, FS_CardinalityType DEF Width
<1>2. (Width * (Width + 1)) \in Nat /\ (Width * (MaxFailures - 1)) \in Nat
  BY <1>1, MaxAssumption
<1>3. ((Width * (Width + 1)) \div 2) \in Nat
  BY <1>2
<1> QED
  BY <1>1, <1>2, <1>3 DEF Bound

\* A step of a handler keeps the types.
LEMMA TypedHandler == ASSUME Typed, NEW r \in Requests, Step(r) PROVE Typed'
<1> DEFINE Jobs == job' \in [Requests -> Job] /\ \A q \in Requests : Placed(job'[q])
<1>0. job[r] \in Job /\ Placed(job[r])
  BY DEF Typed
<1>a. Answer(r) => Jobs
  BY AnswerPlaced
<1>b. ASSUME NEW step \in Pcs, Goto(r, step), Placed([job[r] EXCEPT !.pc = step]) PROVE Jobs
  BY <1>b, GotoPlaced
<1>c. ASSUME NEW step \in {"find", "unlock", "record", "purge", "create", "touch", "succeed"}, Goto(r, step),
             job[r].pc \in {"ensure", "unlock", "find", "record", "create", "touch"}
      PROVE  Jobs
  <2>1. step \in Pcs
    BY DEF Pcs
  <2>2. Placed([job[r] EXCEPT !.pc = step])
    BY <1>0, <1>c, <2>1, MayGo
  <2> QED
    BY <1>b, <1>c, <2>1, <2>2
<1> HIDE DEF Jobs
<1>1. ASSUME CheckLock(r) PROVE Typed'
  <2>1. Jobs
    BY <1>1, <1>a, <1>c DEF CheckLock, EnsureLoginAllowed
  <2> QED
    BY <1>1, <2>1 DEF CheckLock, Typed, Jobs
<1>f. ASSUME Fault PROVE faults' \in Nat
  BY <1>f DEF Fault, Typed
<1>s. ASSUME Slip(job[r].user), job[r].user \in Users PROVE slips' \in [Users -> Nat]
  <2>1. slips[job[r].user] + 1 \in Nat
    BY <1>s DEF Typed
  <2> QED
    BY <1>s, <2>1 DEF Slip, Typed
<1>2. ASSUME Unlock(r) PROVE Typed'
  <2>1. Jobs /\ job[r].user \in Users
    BY <1>0, <1>2, <1>c DEF Unlock, Placed
  <2>2. CountersOk' /\ faults' \in Nat
    BY <1>2, <1>f, <2>1, CounterTypes DEF Unlock, Typed, CountersOk
  <2> QED
    BY <1>2, <2>1, <2>2 DEF Unlock, Typed, Jobs, CountersOk
<1>3. ASSUME Authenticate(r) PROVE Typed'
  <2>1. Jobs
    BY <1>3, <1>a, <1>c DEF Authenticate
  <2>2. tries' \in [Users -> Nat]
    <3>1. job[r].user \in Users =>
            CapTries(tries[job[r].user] + 1, slips[job[r].user]) \in Nat
      BY BoundTypes DEF CapTries, Typed
    <3> QED
      BY <1>3, <3>1 DEF Authenticate, Typed
  <2>3. faults' \in Nat
    BY <1>3, <1>f DEF Authenticate, Typed
  <2> QED
    BY <1>3, <2>1, <2>2, <2>3 DEF Authenticate, Typed, Jobs
<1>4. ASSUME RecordLoginFailure(r) PROVE Typed'
  <2>1. Jobs /\ job[r].user \in Users
    BY <1>0, <1>4, <1>c DEF RecordLoginFailure, Placed
  <2> QED
    BY <1>4, <2>1, CounterTypes DEF RecordLoginFailure, Typed, Jobs, CountersOk
<1>5. ASSUME CreateSession(r) PROVE Typed'
  <2>1. Jobs /\ job[r].user \in Users
    BY <1>0, <1>5, <1>a, <1>c DEF CreateSession, Placed
  <2>2. sessions' \in [Sids -> Session \cup {None}]
    BY <1>5, <2>1, RowTypes DEF CreateSession, Typed
  <2> QED
    BY <1>5, <2>1, <2>2 DEF CreateSession, Typed, Jobs
<1>6. ASSUME RecordUserLogin(r) PROVE Typed'
  <2>1. Jobs
    BY <1>6, <1>a, <1>c DEF RecordUserLogin
  <2> QED
    BY <1>6, <2>1 DEF RecordUserLogin, Typed, Jobs
<1>7. ASSUME ForgetFailures(r) PROVE Typed'
  <2>1. Jobs /\ job[r].user \in Users
    BY <1>0, <1>7, <1>a DEF ForgetFailures, Placed
  <2> QED
    BY <1>7, <2>1, CounterTypes DEF ForgetFailures, Untried, Typed, Jobs, CountersOk
<1>8. ASSUME Validate(r) PROVE Typed'
  <2> DEFINE s == job[r].sid
             found == DeleteExpired(sessions)[s]
  <2>1. s \in Sids /\ sessions' \in [Sids -> Session \cup {None}] /\ faults' \in Nat
    BY <1>0, <1>8, <1>f, SessionTypes DEF Validate, Placed, Typed
  <2>2. found # None => found.user \in Users
    BY <2>1, SessionTypes, RowTypes
  <2>3. ASSUME found # None, job[r].kind = "change",
               job' = [job EXCEPT ![r].pc = "old", ![r].user = found.user]
        PROVE  Jobs
    <3>1. job' = [job EXCEPT ![r] = [job[r] EXCEPT !.pc = "old", !.user = found.user]]
      BY <2>3
    <3> DEFINE j == [job[r] EXCEPT !.pc = "old", !.user = found.user]
    <3>2. /\ j \in Job /\ j.pc = "old" /\ j.user \in Users /\ j.kind = "change"
          /\ j.new = job[r].new /\ j.token = job[r].token
      BY <1>0, <2>2, <2>3 DEF Job, Pcs
    <3>3. job[r].new \in Passwords
      BY <1>0, <1>8, <2>3 DEF Validate, Placed
    <3> HIDE DEF j
    <3>4. Placed(j)
      BY <3>2, <3>3 DEF Placed
    <3> QED
      BY <3>1, <3>2, <3>4 DEF Typed, Jobs, j
  <2>4. Goto(r, "delete") => Jobs
    BY <1>0, <1>8, <1>b, MayGo DEF Validate, Pcs
  <2>5. Jobs
    BY <1>8, <1>a, <2>3, <2>4 DEF Validate
  <2> QED
    BY <1>8, <2>1, <2>5 DEF Validate, Typed, Jobs
<1>9. ASSUME Logout(r) PROVE Typed'
  <2>1. Jobs
    BY <1>9, <1>a DEF Logout
  <2> QED
    BY <1>9, <2>1 DEF Logout, Typed, Jobs
<1>10. ASSUME CheckOldPassword(r) PROVE Typed'
  <2>1. Goto(r, "update") => Jobs
    BY <1>0, <1>10, <1>b, MayGo DEF CheckOldPassword, Pcs
  <2>2. Jobs
    BY <1>10, <1>a, <2>1 DEF CheckOldPassword
  <2> QED
    BY <1>10, <2>2 DEF CheckOldPassword, Typed, Jobs
<1>11. ASSUME UpdateUserPassword(r) PROVE Typed'
  <2>1. job[r].user \in Users /\ job[r].new \in Passwords
    BY <1>0, <1>11 DEF UpdateUserPassword, Placed
  <2>2. Goto(r, "mark") /\ job[r].kind = "confirm" => Jobs
    BY <1>0, <1>11, <1>b, MayGo DEF UpdateUserPassword, Pcs
  <2>3. Jobs
    BY <1>11, <1>a, <2>2 DEF UpdateUserPassword
  <2>4. account' \in [Users -> [password : Passwords, disabled : BOOLEAN] \cup {None}]
    BY <1>11, <2>1 DEF UpdateUserPassword, Exists, Typed
  <2> QED
    BY <1>11, <2>3, <2>4 DEF UpdateUserPassword, Typed, Jobs
<1>12. ASSUME VerifyResetIdentity(r) PROVE Typed'
  <2>1. Jobs /\ job[r].user \in Users
    BY <1>0, <1>12, <1>a DEF VerifyResetIdentity, Placed
  <2>2. reset' \in [Tokens -> ResetRow \cup {None}]
    BY <1>12, <2>1, RowTypes DEF VerifyResetIdentity, Typed
  <2> QED
    BY <1>12, <2>1, <2>2 DEF VerifyResetIdentity, Typed, Jobs
<1>13. ASSUME FindPasswordResetRequest(r) PROVE Typed'
  <2>1. Goto(r, "allowed") => Jobs
    BY <1>0, <1>13, <1>b, MayGo DEF FindPasswordResetRequest, Pcs
  <2>2. ASSUME Usable(job[r].token), job[r].kind # "send",
               job' = [job EXCEPT ![r].pc = "user", ![r].read = reset[job[r].token].code]
        PROVE  Jobs
    <3> DEFINE c == reset[job[r].token].code
               j == [job[r] EXCEPT !.pc = "user", !.read = c]
    <3>1. job[r].token \in Tokens
      BY <1>0, <1>13 DEF FindPasswordResetRequest, Placed
    <3>2. c \in Nat
      BY <2>2, <3>1, RowTypes DEF Usable, Typed
    <3> HIDE DEF c
    <3>3. job' = [job EXCEPT ![r] = j]
      BY <2>2 DEF c
    <3>4. /\ j \in Job /\ j.pc = "user" /\ j.user = job[r].user /\ j.kind = job[r].kind
          /\ j.new = job[r].new /\ j.token = job[r].token
      BY <1>0, <3>2 DEF Job, Pcs
    <3> HIDE DEF j
    <3>5. Placed(j)
      BY <1>0, <1>13, <2>2, <3>4 DEF FindPasswordResetRequest, Placed
    <3> QED
      BY <3>3, <3>4, <3>5 DEF Typed, Jobs
  <2>3. Jobs
    BY <1>13, <1>a, <2>1, <2>2 DEF FindPasswordResetRequest
  <2> QED
    BY <1>13, <2>3 DEF FindPasswordResetRequest, Typed, Jobs
<1>14. ASSUME EnsureResetCodeAllowed(r) PROVE Typed'
  <2>1. Goto(r, "code") => Jobs
    BY <1>0, <1>14, <1>b, MayGo DEF EnsureResetCodeAllowed, Pcs
  <2>2. Jobs
    BY <1>14, <1>a, <2>1 DEF EnsureResetCodeAllowed
  <2> QED
    BY <1>14, <2>2 DEF EnsureResetCodeAllowed, Typed, Jobs
<1>15. ASSUME SetPasswordResetCode(r) PROVE Typed'
  <2> DEFINE t == job[r].token
  <2>1. Jobs /\ t \in Tokens
    BY <1>0, <1>15, <1>a DEF SetPasswordResetCode, Placed
  <2>2. reset[t] # None => [reset[t] EXCEPT !.code = (@ % 2) + 1, !.expired = FALSE] \in ResetRow
    <3>1. \A c \in Nat : (c % 2) + 1 \in Nat
      OBVIOUS
    <3>2. reset[t] # None => reset[t] \in ResetRow /\ (reset[t].code % 2) + 1 \in Nat
      BY <2>1, <3>1, RowTypes DEF Typed
    <3> QED
      BY <3>2, RowTypes
  <2>3. reset' \in [Tokens -> ResetRow \cup {None}]
    BY <1>15, <2>1, <2>2 DEF SetPasswordResetCode, Typed
  <2> QED
    BY <1>15, <2>1, <2>3 DEF SetPasswordResetCode, Typed, Jobs
<1>16. ASSUME CheckResetCode(r) PROVE Typed'
  <2>1. ASSUME Goto(r, "update"), job[r].pc = "user" PROVE Jobs
    BY <1>0, <1>16, <1>b, <2>1, MayGo DEF Pcs
  <2>2. Jobs
    BY <1>16, <1>a, <2>1 DEF CheckResetCode
  <2> QED
    BY <1>16, <2>2 DEF CheckResetCode, Typed, Jobs
<1>17. ASSUME MarkPasswordResetUsed(r) PROVE Typed'
  <2>1. Goto(r, "sessions") => Jobs
    BY <1>0, <1>17, <1>b, MayGo DEF MarkPasswordResetUsed, Pcs
  <2>2. Jobs
    BY <1>17, <1>a, <2>1 DEF MarkPasswordResetUsed
  <2>3. reset' \in [Tokens -> ResetRow \cup {None}]
    <3>1. CanMark(job[r].token) /\ job[r].token \in Tokens
            => [reset[job[r].token] EXCEPT !.used = TRUE] \in ResetRow
      BY RowTypes DEF CanMark, Typed
    <3> QED
      BY <1>17, <3>1 DEF MarkPasswordResetUsed, Typed
  <2> QED
    BY <1>17, <2>2, <2>3 DEF MarkPasswordResetUsed, Typed, Jobs
<1>18. ASSUME DeleteUserSessions(r) PROVE Typed'
  <2>1. Jobs
    BY <1>0, <1>18, <1>b, MayGo DEF DeleteUserSessions, Pcs
  <2>2. job[r].user \in Users /\ job[r].token \in Tokens
    BY <1>0, <1>18 DEF DeleteUserSessions, Placed
  <2> QED
    BY <1>18, <2>1, <2>2, SessionTypes DEF DeleteUserSessions, Typed, Jobs
<1>19. ASSUME CheckFails(r) PROVE Typed'
  <2>1. Jobs /\ job[r].user \in Users
    BY <1>0, <1>19, <1>c DEF CheckFails, Placed
  <2> QED
    BY <1>19, <1>f, <1>s, <2>1 DEF CheckFails, Typed, Jobs
<1>20. ASSUME PurgeLoginFailures(r) PROVE Typed'
  <2>1. Jobs
    BY <1>20, <1>a DEF PurgeLoginFailures
  <2> QED
    BY <1>20, <2>1, CounterTypes DEF PurgeLoginFailures, Typed, Jobs, CountersOk
<1>21. ASSUME Breaks(r) PROVE Typed'
  <2>1. Jobs
    BY <1>21, <1>a DEF Breaks
  <2>2. slips' \in [Users -> Nat]
    BY <1>0, <1>21, <1>s DEF Breaks, Placed, Typed
  <2> QED
    BY <1>21, <1>f, <2>1, <2>2 DEF Breaks, Typed, Jobs
<1> QED
  BY <1>1, <1>2, <1>3, <1>4, <1>5, <1>6, <1>7, <1>8, <1>9, <1>10, <1>11, <1>12, <1>13,
     <1>14, <1>15, <1>16, <1>17, <1>18, <1>19, <1>20, <1>21 DEF Step

\* Administrators and time keep the types.
LEMMA TypedEnvironment ==
    ASSUME Typed,
           \/ \E u \in Users : SetDisabled(u) \/ DeleteUser(u) \/ LockoutElapses(u)
           \/ \E s \in Sids : ExpireSession(s)
           \/ \E t \in Tokens : AgeReset(t)
    PROVE  Typed'
<1>1. ASSUME NEW u \in Users, SetDisabled(u) PROVE Typed'
  <2>1. [account[u] EXCEPT !.disabled = ~@] \in [password : Passwords, disabled : BOOLEAN]
    BY <1>1 DEF SetDisabled, Exists, Typed
  <2> QED
    BY <1>1, <2>1 DEF SetDisabled, Typed
<1>2. ASSUME NEW u \in Users, DeleteUser(u) PROVE Typed'
  BY <1>2, SessionTypes DEF DeleteUser, Typed
<1>3. ASSUME NEW u \in Users, LockoutElapses(u) PROVE Typed'
  BY <1>3 DEF LockoutElapses, Untried, Typed
<1>4. ASSUME NEW s \in Sids, ExpireSession(s) PROVE Typed'
  <2>1. [sessions[s] EXCEPT !.expired = TRUE] \in Session
    BY <1>4, RowTypes DEF ExpireSession, Typed
  <2> QED
    BY <1>4, <2>1 DEF ExpireSession, Typed
<1>5. ASSUME NEW t \in Tokens, AgeReset(t) PROVE Typed'
  <2>1. reset[t] \in ResetRow
    BY <1>5 DEF AgeReset, Typed
  <2>2. reset' \in [Tokens -> ResetRow \cup {None}]
    <3>1. /\ [reset[t] EXCEPT !.age = "counted"] \in ResetRow
          /\ [reset[t] EXCEPT !.age = "old"] \in ResetRow
          /\ [reset[t] EXCEPT !.expired = TRUE] \in ResetRow
      BY <2>1, RowTypes
    <3> QED
      BY <1>5, <3>1 DEF AgeReset, Typed
  <2> QED
    BY <1>5, <2>2 DEF AgeReset, Typed
<1> QED
  BY <1>1, <1>2, <1>3, <1>4, <1>5

\* Every action keeps the types.
LEMMA TypedStep == ASSUME Typed, [Next]_vars PROVE Typed'
<1>1. CASE Next
  BY <1>1, Arrivals, TypedHandler, TypedEnvironment DEF Next
<1>2. CASE UNCHANGED vars
  BY <1>2 DEF vars, Typed
<1> QED
  BY <1>1, <1>2

\* Rows, counters and handlers are typed, and a handler stands only where its kind of
\* request leads, with the account, token or session it needs there.
THEOREM AccountsTypeCorrect == Spec => []Typed
  BY TypedInit, TypedStep, PTL DEF Spec

-----------------------------------------------------------------------------
(***************************************************************************)
(* Where a step of a handler leads.                                        *)
(***************************************************************************)
\* A step moves one handler; it keeps what the handler knows, or ends it.
LEMMA HandlerMoves ==
    ASSUME Typed, NEW r \in Requests, Step(r)
    PROVE  /\ \A q \in Requests \ {r} : job'[q] = job[q]
           /\ \/ job'[r] = Free
              \/ /\ job'[r].kind = job[r].kind /\ job'[r].before = job[r].before
                 /\ job'[r].token = job[r].token
                 /\ job'[r].user = job[r].user \/ job'[r].pc = "old"
           /\ job'[r].pc \in {"find", "unlock"} => CheckLock(r) \/ CheckFails(r) \/ Unlock(r)
           /\ job'[r].pc = "record" => Authenticate(r)
           /\ job'[r].pc = "sessions" => MarkPasswordResetUsed(r) /\ CanMark(job[r].token)
           /\ job'[r].pc = "succeed" => RecordUserLogin(r) \/ DeleteUserSessions(r)
<1> DEFINE Moved ==
           /\ \A q \in Requests \ {r} : job'[q] = job[q]
           /\ \/ job'[r] = Free
              \/ /\ job'[r].kind = job[r].kind /\ job'[r].before = job[r].before
                 /\ job'[r].token = job[r].token
                 /\ job'[r].user = job[r].user \/ job'[r].pc = "old"
           /\ job'[r].pc \in {"find", "unlock"} => CheckLock(r) \/ CheckFails(r) \/ Unlock(r)
           /\ job'[r].pc = "record" => Authenticate(r)
           /\ job'[r].pc = "sessions" => MarkPasswordResetUsed(r) /\ CanMark(job[r].token)
           /\ job'[r].pc = "succeed" => RecordUserLogin(r) \/ DeleteUserSessions(r)
<1>0. job[r] \in Job
  BY DEF Typed
<1>a. Answer(r) => Moved
  BY JobMoves, FreeTypes
<1>b. ASSUME NEW step \in Pcs, Goto(r, step),
             step \in {"find", "unlock"} => CheckLock(r) \/ CheckFails(r) \/ Unlock(r),
             step = "record" => Authenticate(r),
             step = "sessions" => MarkPasswordResetUsed(r) /\ CanMark(job[r].token),
             step = "succeed" => RecordUserLogin(r) \/ DeleteUserSessions(r)
      PROVE  Moved
  <2>1. /\ job'[r] = [job[r] EXCEPT !.pc = step] /\ \A q \in Requests \ {r} : job'[q] = job[q]
    BY <1>b, JobMoves
  <2>2. /\ job'[r].pc = step /\ job'[r].kind = job[r].kind /\ job'[r].before = job[r].before
        /\ job'[r].token = job[r].token /\ job'[r].user = job[r].user
    BY <1>0, <2>1, GotoFields
  <2> QED
    BY <1>b, <2>1, <2>2
<1> HIDE DEF Moved
<1>1. ASSUME CheckLock(r) PROVE Moved
  BY <1>1, <1>a, <1>b DEF CheckLock, EnsureLoginAllowed, Pcs
<1>2. ASSUME Unlock(r) PROVE Moved
  <2>1. Goto(r, "find")
    BY <1>2 DEF Unlock
  <2> QED
    BY <1>2, <2>1, <1>b DEF Pcs
<1>3. ASSUME Authenticate(r) PROVE Moved
  <2>1. Answer(r) \/ Goto(r, "record") \/ Goto(r, "create")
    BY <1>3 DEF Authenticate
  <2> QED
    BY <1>3, <2>1, <1>a, <1>b DEF Pcs
<1>4. ASSUME CreateSession(r) PROVE Moved
  BY <1>4, <1>a, <1>b DEF CreateSession, Pcs
<1>5. ASSUME RecordUserLogin(r) PROVE Moved
  <2>1. Answer(r) \/ Goto(r, "succeed")
    BY <1>5 DEF RecordUserLogin
  <2> QED
    BY <1>5, <2>1, <1>a, <1>b DEF Pcs
<1>6. ASSUME Validate(r) PROVE Moved
  <2>1. ASSUME NEW u, job' = [job EXCEPT ![r].pc = "old", ![r].user = u] PROVE Moved
    <3>1. job' = [job EXCEPT ![r] = [job[r] EXCEPT !.pc = "old", !.user = u]]
      BY <2>1
    <3>2. /\ job'[r] = [job[r] EXCEPT !.pc = "old", !.user = u]
          /\ \A q \in Requests \ {r} : job'[q] = job[q]
      BY <3>1 DEF Typed
    <3>3. /\ job'[r].pc = "old" /\ job'[r].kind = job[r].kind /\ job'[r].before = job[r].before
          /\ job'[r].token = job[r].token
      BY <1>0, <3>2 DEF Job
    <3> QED
      BY <3>2, <3>3 DEF Moved
  <2> QED
    BY <1>6, <1>a, <1>b, <2>1 DEF Validate, Pcs
<1>7. ASSUME CheckOldPassword(r) PROVE Moved
  BY <1>7, <1>a, <1>b DEF CheckOldPassword, Pcs
<1>8. ASSUME UpdateUserPassword(r) PROVE Moved
  BY <1>8, <1>a, <1>b DEF UpdateUserPassword, Pcs
<1>9. ASSUME FindPasswordResetRequest(r) PROVE Moved
  <2>1. ASSUME NEW c, job' = [job EXCEPT ![r].pc = "user", ![r].read = c] PROVE Moved
    <3>1. job' = [job EXCEPT ![r] = [job[r] EXCEPT !.pc = "user", !.read = c]]
      BY <2>1
    <3>2. /\ job'[r] = [job[r] EXCEPT !.pc = "user", !.read = c]
          /\ \A q \in Requests \ {r} : job'[q] = job[q]
      BY <3>1 DEF Typed
    <3>3. /\ job'[r].pc = "user" /\ job'[r].kind = job[r].kind /\ job'[r].before = job[r].before
          /\ job'[r].token = job[r].token /\ job'[r].user = job[r].user
      BY <1>0, <3>2 DEF Job
    <3> QED
      BY <3>2, <3>3 DEF Moved
  <2> QED
    BY <1>9, <1>a, <1>b, <2>1 DEF FindPasswordResetRequest, Pcs
<1>10. ASSUME EnsureResetCodeAllowed(r) PROVE Moved
  BY <1>10, <1>a, <1>b DEF EnsureResetCodeAllowed, Pcs
<1>11. ASSUME CheckResetCode(r) PROVE Moved
  BY <1>11, <1>a, <1>b DEF CheckResetCode, Pcs
<1>12. ASSUME MarkPasswordResetUsed(r) PROVE Moved
  <2>1. CASE CanMark(job[r].token)
    <3>1. Goto(r, "sessions")
      BY <1>12, <2>1 DEF MarkPasswordResetUsed
    <3> QED
      BY <1>12, <2>1, <3>1, <1>b DEF Pcs
  <2>2. CASE ~CanMark(job[r].token)
    BY <1>12, <2>2, <1>a DEF MarkPasswordResetUsed
  <2> QED
    BY <2>1, <2>2
<1>13. ASSUME DeleteUserSessions(r) PROVE Moved
  <2>1. Goto(r, "succeed")
    BY <1>13 DEF DeleteUserSessions
  <2> QED
    BY <1>13, <2>1, <1>b DEF Pcs
<1>14. ASSUME \/ PurgeLoginFailures(r) \/ ForgetFailures(r) \/ Logout(r) \/ Breaks(r)
              \/ VerifyResetIdentity(r) \/ SetPasswordResetCode(r)
       PROVE  Moved
  <2>1. Answer(r)
    BY <1>14 DEF PurgeLoginFailures, ForgetFailures, Logout, Breaks, VerifyResetIdentity,
      SetPasswordResetCode
  <2> QED
    BY <2>1, <1>a
<1>15. ASSUME CheckFails(r) PROVE Moved
  <2>1. Goto(r, "find")
    BY <1>15 DEF CheckFails
  <2> QED
    BY <1>15, <2>1, <1>b DEF Pcs
<1>16. ASSUME RecordLoginFailure(r) PROVE Moved
  <2>1. Goto(r, "purge")
    BY <1>16 DEF RecordLoginFailure
  <2> QED
    BY <1>16, <2>1, <1>b DEF Pcs
<1> QED
  BY <1>1, <1>2, <1>3, <1>4, <1>5, <1>6, <1>7, <1>8, <1>9, <1>10, <1>11, <1>12, <1>13,
     <1>14, <1>15, <1>16 DEF Step, Moved

-----------------------------------------------------------------------------
(***************************************************************************)
(* The reset of a password.                                                *)
(***************************************************************************)
\* Tokens that stay as they were, or are spent now, and handlers that stay away
\* from the last steps keep the invariant of the resets.
LEMMA ResetFrame ==
    ASSUME ResetInv, UNCHANGED completed,
           \A t \in Tokens : Spent(t) => Spent(t)',
           \A q \in Requests, t \in Tokens : AtSessions(q, t)' => AtSessions(q, t)
    PROVE  ResetInv'
  BY DEF ResetInv

\* Every action keeps it.
LEMMA ResetStep == ASSUME Typed, ResetInv, [Next]_vars PROVE ResetInv'
<1>1. ASSUME NEW r \in Requests, Step(r) PROVE ResetInv'
  <2>0. job[r] \in Job /\ Placed(job[r]) /\ Typed'
    BY <1>1, TypedHandler DEF Typed
  <2>1. /\ \A q \in Requests \ {r} : job'[q] = job[q]
        /\ job'[r].pc = "sessions" => MarkPasswordResetUsed(r) /\ CanMark(job[r].token)
        /\ job'[r] = Free \/ job'[r].token = job[r].token
    BY <1>1, HandlerMoves
  <2>2. CASE MarkPasswordResetUsed(r) /\ CanMark(job[r].token)
    <3>0. PICK t \in Tokens : t = job[r].token
      BY <2>0, <2>2 DEF MarkPasswordResetUsed, Placed
    <3>1. completed' = completed /\ reset' = [reset EXCEPT ![t].used = TRUE]
      BY <2>2, <3>0 DEF MarkPasswordResetUsed
    <3>2. /\ reset'[t].used /\ \A x \in Tokens \ {t} : reset'[x] = reset[x]
      BY <2>2, <3>0, <3>1 DEF Typed, CanMark, ResetRow
    <3>3. completed[t] = 0 /\ \A q \in Requests : ~AtSessions(q, t)
      BY <2>2, <3>0 DEF ResetInv, CanMark, Spent
    <3>4. \A q \in Requests, x \in Tokens : AtSessions(q, x)' =>
             AtSessions(q, x) \/ (q = r /\ x = t)
      BY <2>1, <3>0, FreeTypes DEF AtSessions
    <3>5. Spent(t)' /\ \A x \in Tokens : Spent(x) => Spent(x)'
      BY <3>2 DEF Spent
    <3>6. ASSUME NEW x \in Tokens
          PROVE  /\ completed'[x] \in {0, 1}
                 /\ completed'[x] = 1 => Spent(x)'
                 /\ \A q \in Requests : AtSessions(q, x)' =>
                       /\ completed'[x] = 0 /\ Spent(x)'
                       /\ \A p \in Requests \ {q} : ~AtSessions(p, x)'
      <4>1. CASE x = t
        BY <3>1, <3>3, <3>4, <3>5, <4>1 DEF ResetInv
      <4>2. CASE x # t
        BY <3>1, <3>4, <3>5, <4>2 DEF ResetInv
      <4> QED
        BY <4>1, <4>2
    <3> QED
      BY <3>6 DEF ResetInv
  <2>3. CASE DeleteUserSessions(r)
    <3>0. PICK t \in Tokens : t = job[r].token
      BY <2>0, <2>3 DEF DeleteUserSessions, Placed
    <3>1. AtSessions(r, t) /\ reset' = reset /\ completed' = [completed EXCEPT ![t] = @ + 1]
      BY <2>3, <3>0 DEF DeleteUserSessions, AtSessions
    <3>2. completed[t] = 0 /\ Spent(t) /\ \A q \in Requests \ {r} : ~AtSessions(q, t)
      BY <3>1 DEF ResetInv
    <3>3. completed'[t] = 1 /\ \A x \in Tokens \ {t} : completed'[x] = completed[x]
      BY <3>1, <3>2 DEF Typed
    <3>4. \A q \in Requests, x \in Tokens : AtSessions(q, x)' => AtSessions(q, x) /\ q # r
      <4>1. job'[r].pc # "sessions"
        BY <2>3, <2>1 DEF DeleteUserSessions, MarkPasswordResetUsed
      <4> QED
        BY <2>1, <4>1 DEF AtSessions
    <3>5. \A x \in Tokens : Spent(x)' <=> Spent(x)
      BY <3>1 DEF Spent
    <3>6. ASSUME NEW x \in Tokens
          PROVE  /\ completed'[x] \in {0, 1}
                 /\ completed'[x] = 1 => Spent(x)'
                 /\ \A q \in Requests : AtSessions(q, x)' =>
                       /\ completed'[x] = 0 /\ Spent(x)'
                       /\ \A p \in Requests \ {q} : ~AtSessions(p, x)'
      <4>1. CASE x = t
        BY <3>2, <3>3, <3>4, <3>5, <4>1 DEF ResetInv
      <4>2. CASE x # t
        BY <3>3, <3>4, <3>5, <4>2 DEF ResetInv
      <4> QED
        BY <4>1, <4>2
    <3> QED
      BY <3>6 DEF ResetInv
  <2>4. CASE ~(MarkPasswordResetUsed(r) /\ CanMark(job[r].token)) /\ ~DeleteUserSessions(r)
                /\ ~VerifyResetIdentity(r)
    <3>1. \A q \in Requests, t \in Tokens : AtSessions(q, t)' => AtSessions(q, t)
      BY <2>1, <2>4 DEF AtSessions
    <3>2. completed' = completed
      BY <1>1, <2>4 DEF Step, CheckLock, CheckFails, Unlock, Authenticate,
        RecordLoginFailure, PurgeLoginFailures, Breaks, CreateSession,
        RecordUserLogin, ForgetFailures, Validate, Logout, CheckOldPassword, UpdateUserPassword,
        FindPasswordResetRequest, EnsureResetCodeAllowed, SetPasswordResetCode, CheckResetCode,
        MarkPasswordResetUsed
    <3>3. \A t \in Tokens : Spent(t) => Spent(t)'
      <4>1. CASE SetPasswordResetCode(r)
        BY <2>0, <4>1 DEF SetPasswordResetCode, Spent, Placed
      <4>2. CASE ~SetPasswordResetCode(r)
        <5>1. reset' = reset
          BY <1>1, <2>4, <4>2 DEF Step, CheckLock, CheckFails, Unlock, Authenticate,
            RecordLoginFailure, PurgeLoginFailures, Breaks,
            CreateSession, RecordUserLogin, ForgetFailures, Validate, Logout, CheckOldPassword,
            UpdateUserPassword, FindPasswordResetRequest, EnsureResetCodeAllowed, CheckResetCode,
            MarkPasswordResetUsed
        <5> QED
          BY <5>1 DEF Spent
      <4> QED
        BY <4>1, <4>2
    <3> QED
      BY <3>1, <3>2, <3>3, ResetFrame
  <2>5. CASE VerifyResetIdentity(r)
    <3>1. job'[r] = Free
      BY <2>5, JobMoves DEF VerifyResetIdentity
    <3>2. \A q \in Requests, t \in Tokens : AtSessions(q, t)' => AtSessions(q, t)
      BY <2>1, <3>1, FreeTypes DEF AtSessions
    <3>3. CASE UNCHANGED reset
      BY <2>5, <3>2, <3>3, ResetFrame DEF VerifyResetIdentity, Spent
    <3>4. ASSUME NEW t \in Tokens, completed[t] = 0, \A q \in Requests : job[q].token # t,
                 \A x \in Tokens \ {t} : reset'[x] = reset[x]
          PROVE  ResetInv'
      <4>1. \A q \in Requests : ~AtSessions(q, t) /\ ~AtSessions(q, t)'
        BY <3>2, <3>4 DEF AtSessions
      <4>2. completed' = completed
        BY <2>5 DEF VerifyResetIdentity
      <4>3. \A x \in Tokens \ {t} : Spent(x)' <=> Spent(x)
        BY <3>4 DEF Spent
      <4> QED
        BY <3>2, <3>4, <4>1, <4>2, <4>3 DEF ResetInv
    <3> QED
      BY <2>5, <3>3, <3>4 DEF VerifyResetIdentity, Typed
  <2> QED
    BY <2>2, <2>3, <2>4, <2>5
<1>2. ASSUME NEW r \in Requests,
             \/ \E u \in Users : StartLogin(r, u) \/ StartVerify(r, u)
             \/ \E s \in Sids : StartWithSession(r, s)
             \/ \E t \in Tokens : StartReset(r, t)
      PROVE  ResetInv'
  <2>1. /\ job'[r].pc # "sessions" /\ \A q \in Requests \ {r} : job'[q] = job[q]
        /\ UNCHANGED <<reset, completed>>
    BY <1>2, Arrivals
  <2> QED
    BY <2>1, ResetFrame DEF AtSessions, Spent
<1>3. ASSUME \/ \E u \in Users : SetDisabled(u) \/ LockoutElapses(u)
             \/ \E s \in Sids : ExpireSession(s)
             \/ UNCHANGED vars
      PROVE  ResetInv'
  <2>1. UNCHANGED <<reset, job, completed>>
    BY <1>3 DEF SetDisabled, LockoutElapses, ExpireSession, vars
  <2> QED
    BY <2>1, ResetFrame DEF AtSessions, Spent
<1>4. ASSUME NEW u \in Users, DeleteUser(u) PROVE ResetInv'
  BY <1>4, ResetFrame DEF DeleteUser, AtSessions, Spent
<1>5. ASSUME NEW t \in Tokens, AgeReset(t) PROVE ResetInv'
  <2>1. reset[t] \in ResetRow
    BY <1>5 DEF AgeReset, Typed
  <2>2. /\ \A x \in Tokens \ {t} : reset'[x] = reset[x]
        /\ reset'[t].used = reset[t].used
    BY <1>5, <2>1 DEF AgeReset, Typed, ResetRow
  <2>3. \A x \in Tokens : Spent(x) => Spent(x)'
    BY <1>5, <2>2 DEF AgeReset, Spent
  <2>4. UNCHANGED <<job, completed>>
    BY <1>5 DEF AgeReset
  <2> QED
    BY <2>3, <2>4, ResetFrame DEF AtSessions
<1> QED
  BY <1>1, <1>2, <1>3, <1>4, <1>5 DEF Next

\* Of the confirmations with one verification token at most one is answered "ok":
\* MarkPasswordResetUsed succeeds for one of the handlers that found the token usable,
\* however they overlap.  Each of them has stored its password before, so this is about
\* the answers, not about how often the password changes.
THEOREM AccountsResetOnce == Spec => []ResetOnce
<1>1. Init => ResetInv
  BY FreeTypes DEF Init, ResetInv, AtSessions
<1>2. ResetInv => ResetOnce
  BY DEF ResetInv, ResetOnce
<1> QED
  BY <1>1, <1>2, TypedInit, TypedStep, ResetStep, PTL DEF Spec

\* A session stays one of the same account, is deleted, or is new to every reset.
KeepsOwner(s) ==
    \/ sessions'[s] = None
    \/ sessions[s] # None /\ sessions'[s].user = sessions[s].user
    \/ \A q \in Requests : s \notin job[q].before

\* Then the resets that were about to be answered still may be.
LEMMA LogsOutFrame ==
    ASSUME Typed, ResetLogsOut, \A s \in Sids : KeepsOwner(s),
           \A q \in Requests : job'[q].kind = "confirm" /\ job'[q].pc = "succeed" => job'[q] = job[q]
    PROVE  ResetLogsOut'
<1> SUFFICES ASSUME NEW q \in Requests, job'[q].kind = "confirm", job'[q].pc = "succeed",
                    NEW s \in job'[q].before
             PROVE  sessions'[s] = None \/ sessions'[s].user # job'[q].user
  BY DEF ResetLogsOut
<1>1. job'[q] = job[q]
  OBVIOUS
<1>2. s \in Sids /\ s \in job[q].before
  BY <1>1 DEF Typed, Job
<1>3. sessions[s] = None \/ sessions[s].user # job[q].user
  BY <1>1, <1>2 DEF ResetLogsOut
<1> QED
  BY <1>1, <1>2, <1>3 DEF KeepsOwner

\* Every action keeps that a reset has logged its account out.
LEMMA LogsOutStep == ASSUME Typed, ResetLogsOut, [Next]_vars PROVE ResetLogsOut'
<1>0. UNCHANGED sessions => \A s \in Sids : KeepsOwner(s)
  BY DEF KeepsOwner
<1>1. ASSUME NEW r \in Requests, Step(r) PROVE ResetLogsOut'
  <2>0. job[r] \in Job /\ Placed(job[r])
    BY DEF Typed
  <2>1. /\ \A q \in Requests \ {r} : job'[q] = job[q]
        /\ job'[r].pc = "succeed" => RecordUserLogin(r) \/ DeleteUserSessions(r)
        /\ job'[r] = Free \/ job'[r].kind = job[r].kind
    BY <1>1, HandlerMoves
  <2>2. CASE DeleteUserSessions(r)
    <3>1. /\ sessions' = SessionsWithout(job[r].user)
          /\ job'[r].user = job[r].user /\ job'[r].before = job[r].before /\ job[r].before \subseteq Sids
      <4>1. sessions' = SessionsWithout(job[r].user) /\ Goto(r, "succeed") /\ "succeed" \in Pcs
        BY <2>2 DEF DeleteUserSessions, Pcs
      <4>2. job'[r] = [job[r] EXCEPT !.pc = "succeed"]
        BY <4>1, JobMoves
      <4>3. job'[r].user = job[r].user /\ job'[r].before = job[r].before
        BY <2>0, <4>1, <4>2, GotoFields
      <4> QED
        BY <2>0, <4>1, <4>3 DEF Job
    <3>2. \A s \in Sids : /\ sessions'[s] = None \/ sessions'[s].user # job[r].user
                         /\ sessions'[s] \in {sessions[s], None}
      BY <3>1 DEF SessionsWithout
    <3>3. ASSUME NEW q \in Requests, job'[q].kind = "confirm", job'[q].pc = "succeed",
                 NEW s \in job'[q].before
          PROVE  sessions'[s] = None \/ sessions'[s].user # job'[q].user
      <4>1. CASE q = r
        BY <3>1, <3>2, <3>3, <4>1
      <4>2. CASE q # r
        <5>1. job'[q] = job[q] /\ s \in Sids
          BY <2>1, <3>3, <4>2 DEF Typed, Job
        <5> QED
          BY <3>2, <3>3, <5>1 DEF ResetLogsOut
      <4> QED
        BY <4>1, <4>2
    <3> QED
      BY <3>3 DEF ResetLogsOut
  <2>3. CASE ~DeleteUserSessions(r)
    <3>1. ~(job'[r].kind = "confirm" /\ job'[r].pc = "succeed")
      BY <2>0, <2>1, <2>3, FreeTypes DEF RecordUserLogin, Placed
    <3>2. \A s \in Sids : KeepsOwner(s)
      <4>1. CASE CreateSession(r)
        BY <4>1 DEF CreateSession, KeepsOwner, Typed
      <4>2. CASE Validate(r)
        BY <4>2 DEF Validate, DeleteExpired, KeepsOwner
      <4>3. CASE Logout(r)
        BY <4>3 DEF Logout, KeepsOwner, Typed
      <4>4. CASE UNCHANGED sessions
        BY <4>4, <1>0
      <4> QED
        BY <1>1, <2>3, <4>1, <4>2, <4>3, <4>4
        DEF Step, CheckLock, CheckFails, Unlock, Authenticate, RecordLoginFailure,
            PurgeLoginFailures, Breaks, RecordUserLogin,
            ForgetFailures, CheckOldPassword, UpdateUserPassword, VerifyResetIdentity,
            FindPasswordResetRequest, EnsureResetCodeAllowed, SetPasswordResetCode,
            CheckResetCode, MarkPasswordResetUsed
    <3> QED
      BY <2>1, <3>1, <3>2, LogsOutFrame
  <2> QED
    BY <2>2, <2>3
<1>2. ASSUME NEW r \in Requests,
             \/ \E u \in Users : StartLogin(r, u) \/ StartVerify(r, u)
             \/ \E s \in Sids : StartWithSession(r, s)
             \/ \E t \in Tokens : StartReset(r, t)
      PROVE  ResetLogsOut'
  BY <1>0, <1>2, Arrivals, LogsOutFrame
<1>3. ASSUME UNCHANGED job, \A s \in Sids : KeepsOwner(s) PROVE ResetLogsOut'
  BY <1>3, LogsOutFrame
<1>4. ASSUME NEW u \in Users, DeleteUser(u) PROVE ResetLogsOut'
  BY <1>3, <1>4 DEF DeleteUser, SessionsWithout, KeepsOwner
<1>5. ASSUME NEW s \in Sids, ExpireSession(s) PROVE ResetLogsOut'
  <2>1. sessions[s] \in Session /\ sessions' = [sessions EXCEPT ![s] = [sessions[s] EXCEPT !.expired = TRUE]]
    BY <1>5 DEF ExpireSession, Typed
  <2>2. sessions'[s].user = sessions[s].user /\ \A x \in Sids \ {s} : sessions'[x] = sessions[x]
    BY <2>1 DEF Typed, Session
  <2> QED
    BY <1>3, <1>5, <2>2 DEF ExpireSession, KeepsOwner
<1>6. ASSUME \/ \E u \in Users : SetDisabled(u) \/ LockoutElapses(u)
             \/ \E t \in Tokens : AgeReset(t)
             \/ UNCHANGED vars
      PROVE  ResetLogsOut'
  <2>1. UNCHANGED <<job, sessions>>
    BY <1>6 DEF SetDisabled, LockoutElapses, AgeReset, vars
  <2> QED
    BY <1>0, <1>3, <2>1
<1> QED
  BY <1>1, <1>2, <1>4, <1>5, <1>6 DEF Next

\* When ConfirmReset has deleted the sessions, none that existed at the request is left,
\* although logins and other resets create and delete sessions of the account meanwhile.
THEOREM AccountsResetLogsOut == Spec => []ResetLogsOut
<1>1. Init => ResetLogsOut
  BY FreeTypes DEF Init, ResetLogsOut
<1> QED
  BY <1>1, TypedInit, TypedStep, LogsOutStep, PTL DEF Spec

-----------------------------------------------------------------------------
(***************************************************************************)
(* The throttle of the login.                                              *)
(***************************************************************************)
\* Twice the bound, without the division.
LEMMA TwiceBound == 2 * Bound = 2 * (Width * (MaxFailures - 1)) + Width * (Width + 1)
<1>1. Width \in Nat
  BY BoundTypes
<1>2. PICK q \in Nat : Width = 2 * q \/ Width = 2 * q + 1
  <2>1. \A n \in Nat : /\ n \div 2 \in Nat
                       /\ n = 2 * (n \div 2) \/ n = 2 * (n \div 2) + 1
    OBVIOUS
  <2> QED
    BY <1>1, <2>1
<1>3. \E h \in Nat : Width * (Width + 1) = 2 * h
  <2>1. CASE Width = 2 * q
    <3>1. Width * (Width + 1) = 2 * (q * (2 * q + 1)) /\ q * (2 * q + 1) \in Nat
      BY <2>1
    <3> QED
      BY <3>1
  <2>2. CASE Width = 2 * q + 1
    <3>1. Width * (Width + 1) = 2 * ((2 * q + 1) * (q + 1)) /\ (2 * q + 1) * (q + 1) \in Nat
      BY <2>2
    <3> QED
      BY <3>1
  <2> QED
    BY <1>2, <2>1, <2>2
<1>4. PICK h \in Nat : Width * (Width + 1) = 2 * h
  BY <1>3
<1>5. (Width * (Width + 1)) \div 2 = h
  BY <1>4
<1>6. Bound = Width * (MaxFailures - 1) + h
  BY <1>5 DEF Bound
<1>7. Width * (MaxFailures - 1) \in Nat
  BY <1>1, MaxAssumption
<1> QED
  BY <1>4, <1>6, <1>7

\* One more request that is about to clear the failures makes as many more tries possible
\* as fit between two clearings while the others still wait.
LEMMA LaterStep ==
    ASSUME NEW n \in Nat
    PROVE  TwiceLater(n + 1) = TwiceLater(n) + 2 * (MaxFailures - 1 + Width - n)
<1>1. Width \in Nat /\ MaxFailures - 1 \in Nat
  BY BoundTypes, MaxAssumption
<1>2. \A m, w \in Nat : (n + 1) * (2 * m + 2 * w - (n + 1) + 1)
                        = n * (2 * m + 2 * w - n + 1) + 2 * (m + w - n)
  OBVIOUS
<1> QED
  BY <1>1, <1>2 DEF TwiceLater

\* All requests together stay within the bound.
LEMMA LaterBounded ==
    ASSUME NEW n \in Nat, n <= Width
    PROVE  /\ TwiceLater(n) \in Nat /\ TwiceLater(n) <= 2 * Bound
           /\ Width <= Bound
<1>1. Width \in Nat /\ MaxFailures - 1 \in Nat
  BY BoundTypes, MaxAssumption
<1> DEFINE m == MaxFailures - 1
           w == Width
<1>2. PICK d \in Nat : w = n + d
  BY <1>1
<1>3. TwiceLater(n) = n * (2 * m + n + 2 * d + 1)
  BY <1>1, <1>2 DEF TwiceLater
<1>4. 2 * Bound = 2 * ((n + d) * m) + (n + d) * (n + d + 1)
  BY <1>2, TwiceBound
<1> HIDE DEF m, w
<1>5. m \in Nat
  BY <1>1 DEF m
<1>6. n * (2 * m + n + 2 * d + 1) \in Nat
  BY <1>5
<1>7. 2 * ((n + d) * m) + (n + d) * (n + d + 1)
        = n * (2 * m + n + 2 * d + 1) + 2 * (d * m) + d * d + d
  BY <1>5
<1>8. d * m \in Nat /\ d * d \in Nat /\ n * d \in Nat
  BY <1>5
<1>9. TwiceLater(n) <= 2 * Bound
  BY <1>3, <1>4, <1>6, <1>7, <1>8
<1>10. Width <= Bound
  <2>1. w \in Nat /\ w * m \in Nat /\ w * (w + 1) = w * w + w /\ w * w \in Nat /\ w * w >= w
    BY <1>1, <1>5 DEF w
  <2>2. 2 * Bound = 2 * (w * m) + w * (w + 1)
    BY TwiceBound DEF w, m
  <2>3. w <= Bound
    BY <2>1, <2>2, BoundTypes
  <2> QED
    BY <2>3 DEF w
<1> QED
  BY <1>3, <1>6, <1>9, <1>10

\* The handlers at a step are finitely many.
LEMMA CountTypes ==
    ASSUME NEW u, NEW step
    PROVE  IsFiniteSet(At(u, step)) /\ Count(u, step) \in Nat
<1>1. At(u, step) \in SUBSET Requests
  BY DEF At
<1> QED
  BY <1>1, RequestsAssumption, FS_Subset, FS_CardinalityType DEF Count

\* When one handler moves, it is counted out and counted in.
LEMMA CountChange ==
    ASSUME NEW r \in Requests, \A q \in Requests \ {r} : job'[q] = job[q], NEW u, NEW step
    PROVE  Count(u, step)' = Count(u, step) - (IF r \in At(u, step) THEN 1 ELSE 0)
                                            + (IF r \in At(u, step)' THEN 1 ELSE 0)
<1> DEFINE S == At(u, step)
           T == {q \in Requests : job'[q].pc = step /\ job'[q].user = u}
<1>1. IsFiniteSet(S) /\ Cardinality(S) \in Nat
  BY CountTypes DEF Count
<1>2. T \in SUBSET Requests
  OBVIOUS
<1>3. IsFiniteSet(T) /\ Cardinality(T) \in Nat
  BY <1>2, RequestsAssumption, FS_Subset, FS_CardinalityType
<1>4. S \ {r} = T \ {r}
  BY DEF At
<1>5. Count(u, step)' = Cardinality(T) /\ (r \in At(u, step)' <=> r \in T)
  BY DEF Count, At
<1> HIDE DEF S, T
<1>6. Cardinality(S \ {r}) = IF r \in S THEN Cardinality(S) - 1 ELSE Cardinality(S)
  BY <1>1, FS_RemoveElement
<1>7. Cardinality(T \ {r}) = IF r \in T THEN Cardinality(T) - 1 ELSE Cardinality(T)
  BY <1>3, FS_RemoveElement
<1>8. Count(u, step) = Cardinality(S) /\ (r \in At(u, step) <=> r \in S)
  BY DEF Count, S
<1>9. Cardinality(S \ {r}) = Cardinality(T \ {r})
  BY <1>4
<1>10. Cardinality(T) = Cardinality(S) - (IF r \in S THEN 1 ELSE 0) + (IF r \in T THEN 1 ELSE 0)
  BY <1>1, <1>3, <1>6, <1>7, <1>9
<1> QED
  BY <1>5, <1>8, <1>10

\* The handlers of an account that are counted are at most all requests, and fewer
\* when one of the requests stands elsewhere.
LEMMA Room ==
    ASSUME NEW u
    PROVE  /\ Count(u, "unlock") + Count(u, "record") + Count(u, "find") <= Width
           /\ \A r \in Requests : r \notin At(u, "unlock") \cup At(u, "record") \cup At(u, "find") =>
                 Count(u, "unlock") + Count(u, "record") + Count(u, "find") + 1 <= Width
<1> DEFINE A == At(u, "unlock")
           B == At(u, "record")
           C == At(u, "find")
           all == A \cup B \cup C
<1>1. IsFiniteSet(A) /\ IsFiniteSet(B) /\ IsFiniteSet(C)
  BY CountTypes
<1>2. /\ Cardinality(A) = Count(u, "unlock") /\ Cardinality(B) = Count(u, "record")
      /\ Cardinality(C) = Count(u, "find")
  BY DEF Count
<1>3. Cardinality(A) \in Nat /\ Cardinality(B) \in Nat /\ Cardinality(C) \in Nat
  BY <1>2, CountTypes
<1>4. A \cap B = {} /\ (A \cup B) \cap C = {} /\ all \in SUBSET Requests
  BY DEF At
<1> HIDE DEF A, B, C
<1>5. IsFiniteSet(A \cup B) /\ Cardinality(A \cup B) = Cardinality(A) + Cardinality(B)
  BY <1>1, <1>3, <1>4, FS_Union, FS_EmptySet
<1>6. IsFiniteSet(all) /\ Cardinality(all) = Cardinality(A) + Cardinality(B) + Cardinality(C)
  <2>1. Cardinality((A \cup B) \cap C) = 0
    BY <1>4, FS_EmptySet
  <2>2. /\ IsFiniteSet((A \cup B) \cup C)
        /\ Cardinality((A \cup B) \cup C)
             = Cardinality(A \cup B) + Cardinality(C) - Cardinality((A \cup B) \cap C)
    BY <1>1, <1>5, FS_Union
  <2> QED
    BY <1>3, <1>5, <2>1, <2>2
<1>7. Cardinality(all) <= Width
  BY <1>4, RequestsAssumption, FS_Subset DEF Width
<1>8. ASSUME NEW r \in Requests, r \notin all PROVE Cardinality(all) + 1 <= Width
  <2>1. all \in SUBSET (Requests \ {r})
    BY <1>4, <1>8
  <2>2. IsFiniteSet(Requests \ {r}) /\ Cardinality(Requests \ {r}) = Width - 1
    BY RequestsAssumption, FS_RemoveElement DEF Width
  <2>3. Cardinality(all) <= Width - 1
    BY <2>1, <2>2, FS_Subset
  <2>4. Width \in Nat /\ Cardinality(all) \in Nat
    BY <1>6, BoundTypes, FS_CardinalityType
  <2> QED
    BY <2>3, <2>4
<1> QED
  BY <1>2, <1>6, <1>7, <1>8 DEF A, B, C

\* What the actions do to the counters keeps them within the bound.
LEMMA WithinSteps ==
    ASSUME NEW e \in BOOLEAN, NEW t \in Nat, NEW s \in Nat, NEW f \in Nat, NEW j \in Nat, NEW k \in Nat,
           NEW i \in Nat, j + k + i <= Width, Within(e, t, s, f, j, k, i)
    PROVE  /\ t <= Bound + s
           /\ f < MaxFailures => Within(e, t, s, f, j, k, i + 1)
           /\ Within(e, t, s + 1, f, j, k, i + 1)
           /\ e => Within(e, t, s, f, j + 1, k, i)
           /\ j >= 1 => /\ Within(FALSE, t, s, 0, j - 1, k, i + 1)
                       /\ Within(e, t, s, f, j - 1, k, i + 1)
                       /\ Within(e, t, s, f, j - 1, k, i)
           /\ i >= 1 => /\ Within(e, t + 1, s, f, j, k + 1, i - 1) /\ t + 1 <= Bound + s
                       /\ Within(e, t, s, f, j, k, i - 1)
           /\ k >= 1 => /\ Within(FALSE, t, s, f + 1, j, k - 1, i)
                       /\ Within(e, t, s + 1, f, j, k - 1, i)
           /\ j + k + i + 1 <= Width => Within(FALSE, 0, 0, 0, j, k, i)
           /\ Within(TRUE, 0, 0, f, j, k, i)
<1>0. /\ Width \in Nat /\ Bound \in Nat /\ MaxFailures \in Nat /\ MaxFailures >= 1
      /\ j <= Width /\ k <= Width
  BY BoundTypes, MaxAssumption
<1>1. TwiceLater(j) \in Nat /\ TwiceLater(j) <= 2 * Bound /\ Width <= Bound
  BY <1>0, LaterBounded
<1>2. StillTried(f, j, k, i) \in Nat /\ StillTried(f, j, k, i) >= i - (IF f < MaxFailures THEN i ELSE 0)
  BY <1>0 DEF StillTried
<1>e. e => t <= k + s
  BY DEF Within
<1>n. ~e => 2 * t + 2 * StillTried(f, j, k, i) + TwiceLater(j) <= 2 * Bound + 2 * s
  BY DEF Within
<1>3. t <= Bound + s
  BY <1>0, <1>1, <1>2, <1>e, <1>n
<1>4. ASSUME f < MaxFailures PROVE Within(e, t, s, f, j, k, i + 1)
  BY <1>4 DEF Within, StillTried
<1>5. ASSUME e PROVE Within(e, t, s, f, j + 1, k, i)
  BY <1>5 DEF Within
<1>a. Within(e, t, s + 1, f, j, k, i + 1)
  <2>1. StillTried(f, j, k, i + 1) \in Nat /\ StillTried(f, j, k, i + 1) <= StillTried(f, j, k, i) + 1
    BY <1>0 DEF StillTried
  <2>2. e => t <= k + (s + 1)
    BY <1>e
  <2>3. ~e => 2 * t + 2 * StillTried(f, j, k, i + 1) + TwiceLater(j) <= 2 * Bound + 2 * (s + 1)
    BY <1>0, <1>1, <1>2, <1>n, <2>1
  <2> QED
    BY <2>2, <2>3 DEF Within
<1>6. ASSUME j >= 1
      PROVE  /\ Within(FALSE, t, s, 0, j - 1, k, i + 1)
             /\ Within(e, t, s, f, j - 1, k, i + 1) /\ Within(e, t, s, f, j - 1, k, i)
  <2>1. /\ j - 1 \in Nat /\ TwiceLater(j) = TwiceLater(j - 1) + 2 * (MaxFailures - 1 + Width - (j - 1))
        /\ TwiceLater(j - 1) \in Nat
    <3>1. j - 1 \in Nat /\ (j - 1) + 1 = j /\ j - 1 <= Width
      BY <1>0, <1>6
    <3> QED
      BY <3>1, LaterStep, LaterBounded
  <2>2. StillTried(0, j - 1, k, i + 1) = MaxFailures - 1 + (Width - (j - 1) - k)
    BY <1>0 DEF StillTried
  <2>3. Within(FALSE, t, s, 0, j - 1, k, i + 1)
    <3>1. 2 * t + 2 * StillTried(0, j - 1, k, i + 1) + TwiceLater(j - 1) <= 2 * Bound + 2 * s
      <4>1. CASE e
        BY <1>0, <1>1, <1>e, <2>1, <2>2, <4>1
      <4>2. CASE ~e
        BY <1>0, <1>1, <1>2, <1>n, <2>1, <2>2, <4>2
      <4> QED
        BY <4>1, <4>2
    <3> QED
      BY <3>1 DEF Within
  <2>4. /\ StillTried(f, j - 1, k, i + 1) <= StillTried(f, j, k, i) + 1
        /\ StillTried(f, j - 1, k, i) <= StillTried(f, j, k, i) + 1
        /\ StillTried(f, j - 1, k, i + 1) \in Nat /\ StillTried(f, j - 1, k, i) \in Nat
    BY <1>0, <1>6 DEF StillTried
  <2>5. TwiceLater(j) >= TwiceLater(j - 1) + 2
    BY <1>0, <1>1, <2>1
  <2>6. ASSUME NEW x \in Nat, x <= StillTried(f, j, k, i) + 1, ~e
        PROVE  2 * t + 2 * x + TwiceLater(j - 1) <= 2 * Bound + 2 * s
    BY <1>0, <1>1, <1>2, <1>n, <2>1, <2>5, <2>6
  <2> QED
    BY <1>e, <2>3, <2>4, <2>6 DEF Within
<1>7. ASSUME i >= 1 PROVE Within(e, t + 1, s, f, j, k + 1, i - 1) /\ t + 1 <= Bound + s
                         /\ Within(e, t, s, f, j, k, i - 1)
  <2>1. CASE e
    <3>1. t + 1 <= k + 1 + s /\ t <= k + s /\ t + 1 <= Bound + s
      BY <1>0, <1>1, <1>7, <1>e, <2>1
    <3> QED
      BY <2>1, <3>1 DEF Within
  <2>2. CASE ~e
    <3>1. 2 * t + 2 * StillTried(f, j, k, i) + TwiceLater(j) <= 2 * Bound + 2 * s
      BY <1>n, <2>2
    <3>2. /\ StillTried(f, j, k + 1, i - 1) = StillTried(f, j, k, i) - 1
          /\ StillTried(f, j, k, i - 1) <= StillTried(f, j, k, i)
          /\ StillTried(f, j, k, i) >= 1 /\ StillTried(f, j, k, i - 1) \in Int
      BY <1>0, <1>7 DEF StillTried
    <3>3. t + 1 <= Bound + s
      BY <1>0, <1>1, <1>2, <3>1, <3>2
    <3>4. 2 * (t + 1) + 2 * StillTried(f, j, k + 1, i - 1) + TwiceLater(j) <= 2 * Bound + 2 * s
      BY <1>0, <1>1, <1>2, <3>1, <3>2
    <3>5. 2 * t + 2 * StillTried(f, j, k, i - 1) + TwiceLater(j) <= 2 * Bound + 2 * s
      BY <1>0, <1>1, <1>2, <3>1, <3>2
    <3> QED
      BY <2>2, <3>3, <3>4, <3>5 DEF Within
  <2> QED
    BY <2>1, <2>2
<1>8. ASSUME k >= 1 PROVE Within(FALSE, t, s, f + 1, j, k - 1, i) /\ Within(e, t, s + 1, f, j, k - 1, i)
  <2>1. CASE e
    <3>1. t <= k + s
      BY <1>e, <2>1
    <3>2. j + 1 <= Width /\ j + 1 \in Nat
      BY <1>0, <1>8
    <3>3. TwiceLater(j + 1) = TwiceLater(j) + 2 * (MaxFailures - 1 + Width - j)
          /\ TwiceLater(j + 1) <= 2 * Bound
      BY <3>2, LaterStep, LaterBounded
    <3>4. t + StillTried(f + 1, j, k - 1, i) <= MaxFailures - 1 + Width - j + s
          /\ StillTried(f + 1, j, k - 1, i) \in Int
      BY <1>0, <1>8, <3>1 DEF StillTried
    <3>5. 2 * t + 2 * StillTried(f + 1, j, k - 1, i) + TwiceLater(j) <= 2 * Bound + 2 * s
      BY <1>0, <1>1, <3>3, <3>4
    <3>6. t <= k - 1 + (s + 1)
      BY <3>1
    <3> QED
      BY <2>1, <3>5, <3>6 DEF Within
  <2>2. CASE ~e
    <3>1. 2 * t + 2 * StillTried(f, j, k, i) + TwiceLater(j) <= 2 * Bound + 2 * s
      BY <1>n, <2>2
    <3>2. /\ StillTried(f + 1, j, k - 1, i) <= StillTried(f, j, k, i) /\ StillTried(f + 1, j, k - 1, i) \in Int
          /\ StillTried(f, j, k - 1, i) <= StillTried(f, j, k, i) + 1 /\ StillTried(f, j, k - 1, i) \in Int
      BY <1>0, <1>8 DEF StillTried
    <3>3. 2 * t + 2 * StillTried(f + 1, j, k - 1, i) + TwiceLater(j) <= 2 * Bound + 2 * s
      BY <1>0, <1>1, <1>2, <3>1, <3>2
    <3>4. 2 * t + 2 * StillTried(f, j, k - 1, i) + TwiceLater(j) <= 2 * Bound + 2 * (s + 1)
      BY <1>0, <1>1, <1>2, <3>1, <3>2
    <3> QED
      BY <2>2, <3>3, <3>4 DEF Within
  <2> QED
    BY <2>1, <2>2
<1>9. ASSUME j + k + i + 1 <= Width PROVE Within(FALSE, 0, 0, 0, j, k, i)
  <2>1. j + 1 <= Width /\ j + 1 \in Nat
    BY <1>0, <1>9
  <2>2. TwiceLater(j + 1) = TwiceLater(j) + 2 * (MaxFailures - 1 + Width - j)
        /\ TwiceLater(j + 1) <= 2 * Bound
    BY <2>1, LaterStep, LaterBounded
  <2>3. StillTried(0, j, k, i) = MaxFailures - 1 + (Width - j - k)
    BY <1>0 DEF StillTried
  <2> QED
    BY <1>0, <1>1, <2>2, <2>3 DEF Within
<1>10. Within(TRUE, 0, 0, f, j, k, i)
  BY DEF Within
<1> QED
  BY <1>3, <1>4, <1>5, <1>6, <1>7, <1>8, <1>9, <1>10, <1>a

\* The counters of an account are natural numbers and fit into the requests.
LEMMA CountersTyped ==
    ASSUME Typed, NEW u \in Users
    PROVE  /\ elapsed[u] \in BOOLEAN /\ tries[u] \in Nat /\ slips[u] \in Nat /\ failures[u] \in Nat
           /\ Fresh(u) \in Nat /\ Fresh(u) <= failures[u]
           /\ Count(u, "unlock") \in Nat /\ Count(u, "record") \in Nat /\ Count(u, "find") \in Nat
           /\ Count(u, "unlock") + Count(u, "record") + Count(u, "find") <= Width
<1>1. /\ elapsed[u] \in BOOLEAN /\ tries[u] \in Nat /\ slips[u] \in Nat
      /\ failures[u] \in Nat /\ past[u] \in Nat /\ past[u] <= failures[u]
  BY DEF Typed
<1>2. Fresh(u) \in Nat /\ Fresh(u) <= failures[u]
  BY <1>1 DEF Fresh
<1> QED
  BY <1>1, <1>2, CountTypes, Room

\* An account whose rows and handlers stay where they are keeps its bound.
LEMMA ThrottledFrame ==
    ASSUME NEW u \in Users, Throttled(u),
           elapsed'[u] = elapsed[u], tries'[u] = tries[u], slips'[u] = slips[u], Fresh(u)' = Fresh(u),
           Count(u, "unlock")' = Count(u, "unlock"), Count(u, "record")' = Count(u, "record"),
           Count(u, "find")' = Count(u, "find")
    PROVE  Throttled(u)'
  BY DEF Throttled, Within, StillTried, TwiceLater

\* The counters of an account follow the handler that moves.
LEMMA CountMoves ==
    ASSUME NEW r \in Requests, \A q \in Requests \ {r} : job'[q] = job[q], NEW u,
           NEW step \in {"unlock", "record", "find"}
    PROVE  /\ Count(u, step)' = Count(u, step) - (IF job[r].pc = step /\ job[r].user = u THEN 1 ELSE 0)
                                              + (IF job'[r].pc = step /\ job'[r].user = u THEN 1 ELSE 0)
           /\ job[r].pc = step /\ job[r].user = u => Count(u, step) >= 1
<1>1. /\ r \in At(u, step) <=> job[r].pc = step /\ job[r].user = u
      /\ r \in At(u, step)' <=> job'[r].pc = step /\ job'[r].user = u
  BY DEF At
<1>2. ASSUME r \in At(u, step) PROVE Count(u, step) >= 1
  <2>1. IsFiniteSet(At(u, step)) /\ Cardinality(At(u, step)) \in Nat /\ At(u, step) # {}
    BY <1>2, CountTypes DEF Count
  <2>2. Cardinality(At(u, step)) # 0
    BY <2>1, FS_EmptySet
  <2> QED
    BY <2>1, <2>2 DEF Count
<1>3. Count(u, step)' = Count(u, step) - (IF r \in At(u, step) THEN 1 ELSE 0)
                                       + (IF r \in At(u, step)' THEN 1 ELSE 0)
  BY CountChange
<1> QED
  BY <1>1, <1>2, <1>3

\* The steps of a handler keep the bound of its account, and that of the others.
LEMMA ThrottledHandler ==
    ASSUME Typed, NEW r \in Requests, Step(r), NEW u \in Users \ {Admin}, Throttled(u)
    PROVE  Throttled(u)'
<1> DEFINE e == elapsed[u]
           t == tries[u]
           s == slips[u]
           f == Fresh(u)
           j == Count(u, "unlock")
           k == Count(u, "record")
           i == Count(u, "find")
           mine == job[r].user = u
<1>0. job[r] \in Job /\ Placed(job[r])
  BY DEF Typed
<1>1. /\ e \in BOOLEAN /\ t \in Nat /\ s \in Nat /\ f \in Nat /\ j \in Nat /\ k \in Nat /\ i \in Nat
      /\ j + k + i <= Width /\ Within(e, t, s, f, j, k, i)
      /\ f <= failures[u]
  BY CountersTyped DEF Throttled
<1>2. /\ \A q \in Requests \ {r} : job'[q] = job[q]
      /\ job'[r].pc \in {"find", "unlock"} => CheckLock(r) \/ CheckFails(r) \/ Unlock(r)
      /\ job'[r].pc = "record" => Authenticate(r)
      /\ job'[r] = Free \/ job'[r].user = job[r].user \/ job'[r].pc = "old"
  BY HandlerMoves
<1>3. /\ Count(u, "unlock")' = j - (IF job[r].pc = "unlock" /\ mine THEN 1 ELSE 0)
                                 + (IF job'[r].pc = "unlock" /\ job'[r].user = u THEN 1 ELSE 0)
      /\ Count(u, "record")' = k - (IF job[r].pc = "record" /\ mine THEN 1 ELSE 0)
                                 + (IF job'[r].pc = "record" /\ job'[r].user = u THEN 1 ELSE 0)
      /\ Count(u, "find")' = i - (IF job[r].pc = "find" /\ mine THEN 1 ELSE 0)
                               + (IF job'[r].pc = "find" /\ job'[r].user = u THEN 1 ELSE 0)
  BY <1>2, CountMoves
<1>4. /\ job[r].pc = "unlock" /\ mine => j >= 1
      /\ job[r].pc = "record" /\ mine => k >= 1
      /\ job[r].pc = "find" /\ mine => i >= 1
  BY <1>2, CountMoves
<1>5. ASSUME NEW step \in Pcs, Goto(r, step) PROVE job'[r].pc = step /\ job'[r].user = job[r].user
  <2>1. job'[r] = [job[r] EXCEPT !.pc = step]
    BY <1>5, JobMoves
  <2> QED
    BY <1>0, <2>1, GotoFields
<1>6. "unlock" \in Pcs /\ "record" \in Pcs /\ "find" \in Pcs /\ "create" \in Pcs
  BY DEF Pcs
<1>7. Throttled(u)' <=> Within(elapsed'[u], tries'[u], slips'[u], Fresh(u)', Count(u, "unlock")',
                               Count(u, "record")', Count(u, "find")')
  BY DEF Throttled, Within, StillTried, TwiceLater
<1>8. Free.pc = "done"
  BY FreeTypes
<1>f. Fresh(u)' = failures'[u] - past'[u]
  BY DEF Fresh
<1> HIDE DEF e, t, s, f, j, k, i, mine
<1>9. ASSUME elapsed'[u] = elapsed[u], Fresh(u)' = Fresh(u), tries'[u] = tries[u], slips'[u] = slips[u],
             ~mine \/ job[r].pc \notin {"unlock", "record", "find"},
             job'[r].pc \notin {"unlock", "record", "find"} \/ ~(job'[r].user = u)
      PROVE  Throttled(u)'
  <2>1. Count(u, "unlock")' = j /\ Count(u, "record")' = k /\ Count(u, "find")' = i
    BY <1>1, <1>3, <1>9
  <2> QED
    BY <1>9, <2>1, ThrottledFrame DEF j, k, i
<1>10. CASE ~mine
  <2>1. job'[r].pc \notin {"unlock", "record", "find"} \/ ~(job'[r].user = u)
    BY <1>2, <1>8, <1>10 DEF mine
  <2>2. /\ elapsed'[u] = elapsed[u] /\ tries'[u] = tries[u] /\ slips'[u] = slips[u]
        /\ \/ PurgeLoginFailures(r)
           \/ failures'[u] = failures[u] /\ past'[u] = past[u]
    BY <1>10, CounterTypes DEF mine, Typed, Step, CheckLock, CheckFails, Unlock, Authenticate,
        RecordLoginFailure, PurgeLoginFailures, Breaks, CreateSession,
      RecordUserLogin, ForgetFailures, Validate, Logout, CheckOldPassword, UpdateUserPassword,
      VerifyResetIdentity, FindPasswordResetRequest, EnsureResetCodeAllowed, SetPasswordResetCode,
      CheckResetCode, MarkPasswordResetUsed, DeleteUserSessions, ClearLoginFailures, CreateLoginFailure,
      Slip, Untried
  <2>3. Fresh(u)' = Fresh(u)
    BY <2>2, CounterTypes DEF Fresh, PurgeLoginFailures
  <2> QED
    BY <1>9, <1>10, <2>1, <2>2, <2>3
<1>11. ASSUME mine, CheckLock(r) PROVE Throttled(u)'
  <2>0. /\ job[r].pc = "ensure" /\ UNCHANGED <<elapsed, tries, slips>> /\ job[r].user = u
        /\ Fresh(u)' = Fresh(u)
    BY <1>11 DEF CheckLock, mine, Fresh
  <2>1. CASE Answer(r)
    BY <1>8, <1>9, <2>0, <2>1, JobMoves
  <2>2. CASE failures[u] < MaxFailures /\ Goto(r, "find")
    <3>1. job'[r].pc = "find" /\ job'[r].user = u
      BY <1>5, <1>6, <2>0, <2>2
    <3>2. Count(u, "unlock")' = j /\ Count(u, "record")' = k /\ Count(u, "find")' = i + 1
      BY <1>1, <1>3, <1>4, <1>11, <2>0, <3>1 DEF mine
    <3>3. Within(e, t, s, f, j, k, i + 1)
      <4>1. f < MaxFailures
        BY <1>1, <2>2, CountersTyped, MaxAssumption
      <4> QED
        BY <1>1, <4>1, WithinSteps
    <3> QED
      BY <1>7, <2>0, <3>2, <3>3 DEF e, t, s, f
  <2>3. CASE e /\ Goto(r, "unlock")
    <3>1. job'[r].pc = "unlock" /\ job'[r].user = u
      BY <1>5, <1>6, <2>0, <2>3
    <3>2. Count(u, "unlock")' = j + 1 /\ Count(u, "record")' = k /\ Count(u, "find")' = i
      BY <1>1, <1>3, <1>4, <1>11, <2>0, <3>1 DEF mine
    <3>3. Within(e, t, s, f, j + 1, k, i)
      BY <1>1, <2>3, WithinSteps
    <3> QED
      BY <1>7, <2>0, <3>2, <3>3 DEF e, t, s, f
  <2> QED
    BY <1>11, <2>0, <2>1, <2>2, <2>3 DEF CheckLock, EnsureLoginAllowed, e
<1>12. ASSUME mine, Unlock(r) PROVE Throttled(u)'
  <2>1. /\ job[r].pc = "unlock" /\ job[r].user = u /\ UNCHANGED <<tries, slips>> /\ Goto(r, "find")
        /\ ClearLoginFailures(u) \/ UNCHANGED loginLog
    BY <1>12 DEF Unlock, mine
  <2>2. job'[r].pc = "find" /\ job'[r].user = u
    BY <1>5, <1>6, <2>1
  <2>3. Count(u, "unlock")' = j - 1 /\ Count(u, "record")' = k /\ Count(u, "find")' = i + 1 /\ j >= 1
    BY <1>1, <1>3, <1>4, <1>12, <2>1, <2>2 DEF mine
  <2>4. Within(FALSE, t, s, 0, j - 1, k, i + 1) /\ Within(e, t, s, f, j - 1, k, i + 1)
    BY <1>1, <2>3, WithinSteps
  <2>5. CASE ClearLoginFailures(u)
    <3>1. elapsed'[u] = FALSE /\ Fresh(u)' = 0
      BY <1>f, <2>5 DEF ClearLoginFailures, Typed
    <3> QED
      BY <1>7, <2>1, <2>3, <2>4, <3>1 DEF t, s
  <2>6. CASE UNCHANGED loginLog
    <3>1. elapsed'[u] = e /\ Fresh(u)' = f
      BY <2>6 DEF e, f, Fresh
    <3> QED
      BY <1>7, <2>1, <2>3, <2>4, <3>1 DEF t, s
  <2> QED
    BY <2>1, <2>5, <2>6
<1>13. ASSUME mine, Authenticate(r) PROVE Throttled(u)'
  <2>1. /\ job[r].pc = "find" /\ job[r].user = u /\ elapsed' = elapsed /\ Fresh(u)' = f /\ slips' = slips
        /\ tries'[u] = IF job'[r].pc = "record" THEN CapTries(t + 1, s) ELSE t
    BY <1>13 DEF Authenticate, mine, Typed, t, s, f, Fresh
  <2>2. Answer(r) \/ Goto(r, "record") \/ Goto(r, "create")
    BY <1>13 DEF Authenticate
  <2>3. /\ i >= 1 /\ t + 1 <= Bound + s
        /\ Within(e, t + 1, s, f, j, k + 1, i - 1) /\ Within(e, t, s, f, j, k, i - 1)
    <3>1. i >= 1
      BY <1>4, <1>13, <2>1
    <3> QED
      BY <1>1, <3>1, WithinSteps
  <2>4. CASE Goto(r, "record")
    <3>1. job'[r].pc = "record" /\ job'[r].user = u
      BY <1>5, <1>6, <2>1, <2>4
    <3>2. Count(u, "unlock")' = j /\ Count(u, "record")' = k + 1 /\ Count(u, "find")' = i - 1
      BY <1>1, <1>3, <1>4, <1>13, <2>1, <3>1 DEF mine
    <3>3. tries'[u] = t + 1
      BY <1>1, <2>1, <2>3, <3>1, BoundTypes DEF CapTries
    <3> QED
      BY <1>7, <2>1, <2>3, <3>2, <3>3 DEF e, s
  <2>5. CASE Answer(r) \/ Goto(r, "create")
    <3>1. job'[r].pc \in {"done", "create"}
      BY <1>5, <1>6, <1>8, <2>5, JobMoves
    <3>2. Count(u, "unlock")' = j /\ Count(u, "record")' = k /\ Count(u, "find")' = i - 1
      BY <1>1, <1>3, <1>4, <1>13, <2>1, <3>1 DEF mine
    <3> QED
      BY <1>7, <2>1, <2>3, <3>1, <3>2 DEF e, s
  <2> QED
    BY <2>2, <2>4, <2>5
<1>14. ASSUME mine, RecordLoginFailure(r) PROVE Throttled(u)'
  <2>1. /\ job[r].pc = "record" /\ job[r].user = u /\ UNCHANGED <<tries, slips>> /\ Goto(r, "purge")
        /\ elapsed'[u] = FALSE /\ failures'[u] = failures[u] + 1 /\ past'[u] = past[u]
    BY <1>14 DEF RecordLoginFailure, CreateLoginFailure, mine, Typed
  <2>2. job'[r].pc = "purge"
    BY <1>5, <2>1 DEF Pcs
  <2>3. Count(u, "unlock")' = j /\ Count(u, "record")' = k - 1 /\ Count(u, "find")' = i /\ k >= 1
    BY <1>1, <1>3, <1>4, <1>14, <2>1, <2>2 DEF mine
  <2>4. Within(FALSE, t, s, f + 1, j, k - 1, i)
    BY <1>1, <2>3, WithinSteps
  <2>5. Fresh(u)' = f + 1
    <3>1. failures[u] \in Nat /\ past[u] \in Nat
      BY DEF Typed
    <3> QED
      BY <1>f, <2>1, <3>1 DEF f, Fresh
  <2> QED
    BY <1>7, <2>1, <2>3, <2>4, <2>5 DEF t, s
<1>15. ASSUME mine, ForgetFailures(r) PROVE Throttled(u)'
  <2>1. /\ job[r].pc = "succeed" /\ job[r].user = u /\ Answer(r)
        /\ elapsed'[u] = FALSE /\ Fresh(u)' = 0 /\ tries'[u] = 0 /\ slips'[u] = 0
    BY <1>15, <1>f DEF ForgetFailures, ClearLoginFailures, Untried, mine, Typed
  <2>2. job'[r].pc = "done"
    BY <1>8, <2>1, JobMoves
  <2>3. Count(u, "unlock")' = j /\ Count(u, "record")' = k /\ Count(u, "find")' = i
    BY <1>1, <1>3, <1>4, <2>1, <2>2 DEF mine
  <2>4. j + k + i + 1 <= Width
    BY <2>1, Room DEF At, i, j, k
  <2>5. Within(FALSE, 0, 0, 0, j, k, i)
    BY <1>1, <2>4, WithinSteps
  <2> QED
    BY <1>7, <2>1, <2>3, <2>5
<1>16. ASSUME mine, CheckFails(r) PROVE Throttled(u)'
  <2>1. /\ job[r].pc = "ensure" /\ job[r].user = u /\ UNCHANGED <<loginLog, tries>> /\ Goto(r, "find")
        /\ slips'[u] = s + 1
    BY <1>16 DEF CheckFails, Slip, mine, Typed, s
  <2>2. job'[r].pc = "find" /\ job'[r].user = u
    BY <1>5, <1>6, <2>1
  <2>3. Count(u, "unlock")' = j /\ Count(u, "record")' = k /\ Count(u, "find")' = i + 1
    BY <1>1, <1>3, <1>4, <1>16, <2>1, <2>2 DEF mine
  <2>4. Within(e, t, s + 1, f, j, k, i + 1)
    BY <1>1, WithinSteps
  <2>5. Fresh(u)' = f
    BY <2>1 DEF f, Fresh
  <2> QED
    BY <1>7, <2>1, <2>3, <2>4, <2>5 DEF e, t
<1>17. ASSUME mine, PurgeLoginFailures(r) PROVE Throttled(u)'
  <2>1. job[r].pc = "purge" /\ UNCHANGED <<tries, slips>> /\ Answer(r)
    BY <1>17 DEF PurgeLoginFailures
  <2>2. elapsed' = elapsed /\ Fresh(u)' = Fresh(u)
    BY <1>17, CounterTypes DEF PurgeLoginFailures, Fresh
  <2>3. job'[r].pc = "done"
    BY <1>8, <2>1, JobMoves
  <2> QED
    BY <1>9, <2>1, <2>2, <2>3
<1>18. ASSUME mine, Breaks(r) PROVE Throttled(u)'
  <2>1. /\ job[r].user = u /\ UNCHANGED <<loginLog, tries>> /\ Answer(r)
        /\ IF job[r].pc = "record" THEN slips'[u] = s + 1 ELSE slips'[u] = s
    BY <1>18 DEF Breaks, Slip, mine, Typed, s
  <2>2. job'[r].pc = "done"
    BY <1>8, <2>1, JobMoves
  <2>3. elapsed' = elapsed /\ Fresh(u)' = f /\ tries'[u] = t
    BY <2>1 DEF f, t, Fresh
  <2>4. CASE job[r].pc = "record"
    <3>1. Count(u, "unlock")' = j /\ Count(u, "record")' = k - 1 /\ Count(u, "find")' = i /\ k >= 1
      BY <1>1, <1>3, <1>4, <1>18, <2>2, <2>4
    <3>2. Within(e, t, s + 1, f, j, k - 1, i)
      BY <1>1, <3>1, WithinSteps
    <3> QED
      BY <1>7, <2>1, <2>3, <2>4, <3>1, <3>2 DEF e
  <2>5. CASE job[r].pc = "unlock"
    <3>1. Count(u, "unlock")' = j - 1 /\ Count(u, "record")' = k /\ Count(u, "find")' = i /\ j >= 1
      BY <1>1, <1>3, <1>4, <1>18, <2>2, <2>5
    <3>2. Within(e, t, s, f, j - 1, k, i)
      BY <1>1, <3>1, WithinSteps
    <3> QED
      BY <1>7, <2>1, <2>3, <2>5, <3>1, <3>2 DEF e
  <2>6. CASE job[r].pc = "find"
    <3>1. Count(u, "unlock")' = j /\ Count(u, "record")' = k /\ Count(u, "find")' = i - 1 /\ i >= 1
      BY <1>1, <1>3, <1>4, <1>18, <2>2, <2>6
    <3>2. Within(e, t, s, f, j, k, i - 1)
      BY <1>1, <3>1, WithinSteps
    <3> QED
      BY <1>7, <2>1, <2>3, <2>6, <3>1, <3>2 DEF e
  <2>7. CASE job[r].pc \notin {"unlock", "record", "find"}
    BY <1>9, <2>1, <2>2, <2>3, <2>7 DEF f, t, s
  <2> QED
    BY <2>4, <2>5, <2>6, <2>7
<1>19. ASSUME mine, ~CheckLock(r), ~CheckFails(r), ~Unlock(r), ~Authenticate(r), ~RecordLoginFailure(r),
              ~PurgeLoginFailures(r), ~ForgetFailures(r), ~Breaks(r)
       PROVE  Throttled(u)'
  <2>1. /\ job[r].pc \notin {"unlock", "record", "find"} /\ UNCHANGED <<elapsed, failures, past, tries, slips>>
    BY <1>19 DEF Step, CreateSession, RecordUserLogin, Validate, Logout, CheckOldPassword,
      UpdateUserPassword, VerifyResetIdentity, FindPasswordResetRequest, EnsureResetCodeAllowed,
      SetPasswordResetCode, CheckResetCode, MarkPasswordResetUsed, DeleteUserSessions
  <2>2. job'[r].pc \notin {"unlock", "record", "find"}
    BY <1>2, <1>19
  <2>3. Fresh(u)' = Fresh(u)
    BY <2>1 DEF Fresh
  <2> QED
    BY <1>9, <2>1, <2>2, <2>3
<1> QED
  BY <1>10, <1>11, <1>12, <1>13, <1>14, <1>15, <1>16, <1>17, <1>18, <1>19

\* Every action keeps the bound.
LEMMA ThrottleStep == ASSUME Typed, ThrottleInv, [Next]_vars PROVE ThrottleInv'
<1>1. ASSUME NEW r \in Requests, Step(r) PROVE ThrottleInv'
  BY <1>1, ThrottledHandler DEF ThrottleInv
<1>2. ASSUME NEW u \in Users, NEW r \in Requests,
             job[r].pc \notin {"unlock", "record", "find"}, job'[r].pc \notin {"unlock", "record", "find"},
             \A q \in Requests \ {r} : job'[q] = job[q], UNCHANGED <<loginLog, tries, slips>>,
             Throttled(u)
      PROVE  Throttled(u)'
  <2>1. /\ Count(u, "unlock")' = Count(u, "unlock") /\ Count(u, "record")' = Count(u, "record")
        /\ Count(u, "find")' = Count(u, "find")
    BY <1>2, CountMoves, CountTypes
  <2> QED
    BY <1>2, <2>1, ThrottledFrame DEF Fresh
<1>3. ASSUME NEW r \in Requests,
             \/ \E u \in Users : StartLogin(r, u) \/ StartVerify(r, u)
             \/ \E s \in Sids : StartWithSession(r, s)
             \/ \E t \in Tokens : StartReset(r, t)
      PROVE  ThrottleInv'
  <2>1. /\ job[r].pc = "done" /\ job'[r].pc \notin {"unlock", "record", "find"}
        /\ \A q \in Requests \ {r} : job'[q] = job[q]
        /\ UNCHANGED <<loginLog, tries, slips>>
    BY <1>3, Arrivals
  <2> QED
    BY <1>2, <2>1 DEF ThrottleInv
<1>4. ASSUME NEW u \in Users, LockoutElapses(u) PROVE ThrottleInv'
  <2>1. /\ UNCHANGED <<job, failures>> /\ elapsed'[u] = TRUE /\ tries'[u] = 0 /\ slips'[u] = 0
        /\ \A v \in Users \ {u} : /\ elapsed'[v] = elapsed[v] /\ past'[v] = past[v]
                                  /\ tries'[v] = tries[v] /\ slips'[v] = slips[v]
    BY <1>4 DEF LockoutElapses, Untried, Typed
  <2>2. \A v \in Users : /\ Count(v, "unlock")' = Count(v, "unlock")
                         /\ Count(v, "record")' = Count(v, "record")
                         /\ Count(v, "find")' = Count(v, "find")
    BY <2>1 DEF Count, At
  <2>3. Throttled(u)'
    BY <2>1, <2>2, CountTypes DEF Throttled, Within
  <2>4. ASSUME NEW v \in Users \ {u}, Throttled(v) PROVE Throttled(v)'
    BY <2>1, <2>2, <2>4, ThrottledFrame DEF Fresh
  <2> QED
    BY <2>1, <2>3, <2>4 DEF ThrottleInv
<1>5. ASSUME UNCHANGED <<job, loginLog, tries, slips>> PROVE ThrottleInv'
  BY <1>5 DEF ThrottleInv, Throttled, Fresh, Count, At, Within, StillTried, TwiceLater
<1>6. ASSUME \/ \E u \in Users : SetDisabled(u) \/ DeleteUser(u)
             \/ \E s \in Sids : ExpireSession(s)
             \/ \E t \in Tokens : AgeReset(t)
             \/ UNCHANGED vars
      PROVE  ThrottleInv'
  <2>1. UNCHANGED <<job, loginLog, tries, slips>>
    BY <1>6 DEF SetDisabled, DeleteUser, ExpireSession, AgeReset, vars
  <2> QED
    BY <1>5, <2>1
<1> QED
  BY <1>1, <1>3, <1>4, <1>6 DEF Next

\* In the initial state nothing was tried.
LEMMA ThrottleInit == Init => ThrottleInv
<1> SUFFICES ASSUME Init, NEW u \in Users \ {Admin}, Requests # {} PROVE Throttled(u)
  BY DEF Init, ThrottleInv
<1>1. Width >= 1 /\ Width \in Nat
  BY RequestsAssumption, FS_EmptySet, FS_CardinalityType DEF Width
<1>2. \A step \in {"unlock", "record", "find"} : Count(u, step) = 0
  <2>1. \A step \in {"unlock", "record", "find"} : At(u, step) = {}
    BY FreeTypes DEF Init, At
  <2> QED
    BY <2>1, FS_EmptySet DEF Count
<1>3. TwiceLater(1) = TwiceLater(0) + 2 * (MaxFailures - 1 + Width) /\ TwiceLater(1) <= 2 * Bound
  BY <1>1, LaterStep, LaterBounded
<1>4. TwiceLater(0) = 0
  BY <1>1, MaxAssumption DEF TwiceLater
<1>5. StillTried(0, 0, 0, 0) = MaxFailures - 1 + Width
  BY <1>1, MaxAssumption DEF StillTried
<1> QED
  BY <1>1, <1>2, <1>3, <1>4, <1>5, BoundTypes, MaxAssumption DEF Init, Throttled, Within, Fresh

\* Between two lockouts at most Bound wrong passwords are tried for any account but
\* "admin", and one more per check or record of the throttle that failed, with any number
\* of requests at once, each of which checks, clears, records and purges in statements of
\* its own and may end between them.
THEOREM AccountsTriesBounded == Spec => []TriesBounded
<1>1. Typed /\ ThrottleInv => TriesBounded
  <2> SUFFICES ASSUME Typed, ThrottleInv, NEW u \in Users \ {Admin} PROVE tries[u] <= Bound + slips[u]
    BY DEF TriesBounded
  <2>0. slips[u] \in Nat
    BY DEF Typed
  <2>1. CASE Requests = {}
    BY <2>0, <2>1, BoundTypes DEF ThrottleInv
  <2>2. CASE Requests # {}
    BY <2>2, CountersTyped, WithinSteps DEF ThrottleInv, Throttled
  <2> QED
    BY <2>1, <2>2
<1> QED
  BY <1>1, TypedInit, TypedStep, ThrottleInit, ThrottleStep, PTL DEF Spec

-----------------------------------------------------------------------------
(***************************************************************************)
(* WeCom login and binding.                                                *)
(***************************************************************************)
\* What a handler holds between two of its statements.
WcCall == [pc : {"done", "lookup", "session", "owner", "save"},
           kind : {Nobody, "callback", "login", "bind"},
           user : People \cup {Nobody}, state : State \cup {Nobody}, id : Wecoms \cup {Nobody}]

WcTyped == WcTypeOK /\ call \in [Calls -> WcCall]

\* A binding request that has passed the check of its state.
Binding(c) == call[c].pc \in {"owner", "save"}

\* A state for a binding names the account whose session asked for it.
StatesNamed == \A x \in states : x.purpose = "bind" => x.user \in People

\* What a handler of wecomBind keeps of its state allows it to bind its account.
CallsAuthorised ==
    \A c \in Calls : Binding(c) =>
        /\ call[c].user \in People /\ call[c].id \in Wecoms
        /\ call[c].state # Nobody => call[c].state.purpose = "bind" /\ call[c].state.user = call[c].user

\* A handler that is about to start a session has found the account of it.
SessionsNamed == \A c \in Calls : call[c].pc = "session" => call[c].user \in People

WcInv == WcTyped /\ StatesNamed /\ CallsAuthorised /\ SessionsNamed /\ BindingsSound

\* A ticket that has handed out its session is no longer in the table.
TicketInv == WcTyped /\ \A k \in Tickets : given[k] \in {0, 1} /\ (given[k] = 1 => tickets[k] = Nobody)

-----------------------------------------------------------------------------
(***************************************************************************)
(* Types.                                                                  *)
(***************************************************************************)
\* A handler that returns, or goes on, keeps the type of its record.
LEMMA CallTypes ==
    ASSUME WcTyped
    PROVE  /\ NoCall \in WcCall
           /\ \A c \in Calls : Return(c) => call' \in [Calls -> WcCall]
           /\ \A c \in Calls, step \in {"session", "save"} :
                 CallGoto(c, step) => call' \in [Calls -> WcCall]
<1>1. NoCall \in WcCall
  BY DEF NoCall, WcCall
<1>2. ASSUME NEW c \in Calls, Return(c) PROVE call' \in [Calls -> WcCall]
  BY <1>1, <1>2 DEF Return, WcTyped
<1>3. ASSUME NEW c \in Calls, NEW step \in {"session", "save"}, CallGoto(c, step)
      PROVE  call' \in [Calls -> WcCall]
  <2>1. [call[c] EXCEPT !.pc = step] \in WcCall
    BY DEF WcTyped, WcCall
  <2>2. call' = [call EXCEPT ![c] = [call[c] EXCEPT !.pc = step]]
    BY <1>3 DEF CallGoto
  <2> QED
    BY <2>1, <2>2 DEF WcTyped
<1> QED
  BY <1>1, <1>2, <1>3

\* A counter of the budget goes down and stays a natural number.
LEMMA SpendTypes == ASSUME WcTyped, Spend PROVE budget' \in Nat
  BY DEF WcTyped, WcTypeOK, Spend

\* The initial state satisfies the invariants.
LEMMA WcInvInit == WcInit => WcInv /\ TicketInv
<1> SUFFICES ASSUME WcInit PROVE WcInv /\ TicketInv
  OBVIOUS
<1>1. WcTyped
  BY WcBudgetsAssumption DEF WcInit, WcTyped, WcTypeOK, WcCall, NoCall
<1>2. StatesNamed /\ CallsAuthorised /\ SessionsNamed
  BY DEF WcInit, StatesNamed, CallsAuthorised, SessionsNamed, Binding, NoCall
<1>3. BindingsSound
  BY DEF WcInit, BindingsSound
<1> QED
  BY <1>1, <1>2, <1>3 DEF WcInv, TicketInv, WcInit

\* Every action keeps the types.
LEMMA WcTypeStep == ASSUME WcTyped, SessionsNamed, [WcNext]_wcVars PROVE WcTyped'
<1> USE DEF WcTyped, WcTypeOK
<1>1. ASSUME WecomAuthorize PROVE WcTyped'
  <2>1. [purpose |-> "login", user |-> Nobody, expired |-> FALSE] \in State
    BY DEF State, Purposes
  <2> QED
    BY <1>1, <2>1, SpendTypes DEF WecomAuthorize, Sign
<1>2. ASSUME TimePasses PROVE WcTyped'
  <2>1. \A x \in states : [x EXCEPT !.expired = TRUE] \in State
    BY DEF State
  <2> QED
    BY <1>2, <2>1, SpendTypes DEF TimePasses
<1>3. ASSUME Restart PROVE WcTyped'
  BY <1>3, SpendTypes, CallTypes DEF Restart, NoCall
<1>4. ASSUME NEW u \in People, WecomBindURL(u) PROVE WcTyped'
  <2>1. [purpose |-> "bind", user |-> u, expired |-> FALSE] \in State
    BY DEF State, Purposes
  <2> QED
    BY <1>4, <2>1, SpendTypes DEF WecomBindURL, Sign
<1>5. ASSUME NEW u \in People, WecomUnbind(u) PROVE WcTyped'
  BY <1>5, SpendTypes DEF WecomUnbind
<1>6. ASSUME NEW u \in People, AdministerUser(u) PROVE WcTyped'
  BY <1>6, SpendTypes DEF AdministerUser
<1>7. ASSUME NEW c \in Calls, NEW x \in states \cup {Nobody}, NEW w \in Wecoms,
             NEW k \in {"callback", "login"}, StartWecomLogin(c, k, x, w)
      PROVE  WcTyped'
  <2>1. [NoCall EXCEPT !.pc = "lookup", !.kind = k, !.id = w] \in WcCall
    BY DEF NoCall, WcCall
  <2>2. call' \in [Calls -> WcCall]
    BY <1>7, <2>1 DEF StartWecomLogin
  <2> QED
    BY <1>7, <2>2, SpendTypes DEF StartWecomLogin, WcCall
<1>8. ASSUME NEW c \in Calls, NEW x \in states \cup {Nobody}, NEW w \in Wecoms,
             NEW u \in People, StartBind(c, u, x, w)
      PROVE  WcTyped'
  <2>1. call' \in [Calls -> WcCall]
    BY <1>8 DEF StartBind, WcCall
  <2> QED
    BY <1>8, <2>1, SpendTypes DEF StartBind, WcCall
<1>9. ASSUME NEW c \in Calls, LoginByWecom(c) PROVE WcTyped'
  <2>1. ASSUME NEW u \in People, call' = [call EXCEPT ![c].pc = "session", ![c].user = u]
        PROVE  call' \in [Calls -> WcCall]
    <3>1. [call[c] EXCEPT !.pc = "session", !.user = u] \in WcCall
      <4>1. call[c] \in WcCall
        OBVIOUS
      <4> QED
        BY <4>1 DEF WcCall
    <3>2. call' = [call EXCEPT ![c] = [call[c] EXCEPT !.pc = "session", !.user = u]]
      BY <2>1
    <3> QED
      BY <3>1, <3>2
  <2>2. call' \in [Calls -> WcCall]
    BY <1>9, <2>1, CallTypes DEF LoginByWecom
  <2> QED
    BY <1>9, <2>2 DEF LoginByWecom, WcCall
<1>10. ASSUME NEW c \in Calls, FinishWecomLogin(c) PROVE WcTyped'
  <2>1. call' \in [Calls -> WcCall]
    BY <1>10, CallTypes DEF FinishWecomLogin
  <2>2. call[c].user \in People
    BY <1>10 DEF FinishWecomLogin, SessionsNamed
  <2>3. tickets' \in [Tickets -> People \cup {Nobody}] /\ stale' \subseteq Tickets
    BY <1>10, <2>2 DEF FinishWecomLogin
  <2>4. \A d \in Calls : /\ call'[d].user \in People \cup {Nobody}
                          /\ call'[d].id \in Wecoms \cup {Nobody}
    BY <2>1 DEF WcCall
  <2> QED
    BY <1>10, <2>1, <2>3, <2>4 DEF FinishWecomLogin
<1>11. ASSUME NEW c \in Calls, FindWecomBindingOwner(c) PROVE WcTyped'
  <2>1. call' \in [Calls -> WcCall]
    BY <1>11, CallTypes DEF FindWecomBindingOwner
  <2> QED
    BY <1>11, <2>1 DEF FindWecomBindingOwner, WcCall
<1>12. ASSUME NEW c \in Calls, SaveWecomBinding(c) PROVE WcTyped'
  <2>1. call' \in [Calls -> WcCall]
    BY <1>12, CallTypes DEF SaveWecomBinding
  <2>2. call[c] \in WcCall
    OBVIOUS
  <2> QED
    BY <1>12, <2>1, <2>2 DEF SaveWecomBinding, WcCall
<1>13. ASSUME NEW k \in Tickets, WecomExchange(k) PROVE WcTyped'
  BY <1>13, SpendTypes DEF WecomExchange, Consume
<1>14. ASSUME NEW m \in {"direct", "center", "off"}, ConfigureWecom(m) PROVE WcTyped'
  BY <1>14, SpendTypes DEF ConfigureWecom
<1>15. ASSUME UNCHANGED wcVars PROVE WcTyped'
  BY <1>15 DEF wcVars
<1> HIDE DEF WcTyped, WcTypeOK
<1> QED
  BY <1>1, <1>2, <1>3, <1>4, <1>5, <1>6, <1>7, <1>8, <1>9, <1>10, <1>11, <1>12,
     <1>13, <1>14, <1>15 DEF WcNext

-----------------------------------------------------------------------------
(***************************************************************************)
(* Bindings.                                                               *)
(***************************************************************************)
\* A handler that ends, or one of another request, keeps what was known of it.
LEMMA KeepsCalls ==
    ASSUME WcTyped, CallsAuthorised, SessionsNamed
    PROVE  /\ UNCHANGED call => CallsAuthorised' /\ SessionsNamed'
           /\ \A c \in Calls : Return(c) => CallsAuthorised' /\ SessionsNamed'
           /\ \A c \in Calls : call[c].pc = "owner" /\ CallGoto(c, "save")
                              => CallsAuthorised' /\ SessionsNamed'
<1> USE DEF CallsAuthorised, SessionsNamed, Binding, WcTyped
<1>1. CASE UNCHANGED call
  BY <1>1
<1>2. ASSUME NEW c \in Calls, Return(c) PROVE CallsAuthorised' /\ SessionsNamed'
  BY <1>2 DEF Return, NoCall
<1>3. ASSUME NEW c \in Calls, call[c].pc = "owner", CallGoto(c, "save")
      PROVE  CallsAuthorised' /\ SessionsNamed'
  <2>1. call' = [call EXCEPT ![c] = [call[c] EXCEPT !.pc = "save"]]
    BY <1>3 DEF CallGoto
  <2>2. call[c] \in WcCall
    OBVIOUS
  <2>3. call'[c] = [call[c] EXCEPT !.pc = "save"] /\ \A d \in Calls \ {c} : call'[d] = call[d]
    BY <2>1
  <2>4. /\ call'[c].pc = "save" /\ call'[c].user = call[c].user
        /\ call'[c].id = call[c].id /\ call'[c].state = call[c].state
    BY <2>2, <2>3 DEF WcCall
  <2>5. SessionsNamed'
    BY <2>3, <2>4
  <2>6. ASSUME NEW d \in Calls, Binding(d)'
        PROVE  /\ call'[d].user \in People /\ call'[d].id \in Wecoms
               /\ call'[d].state # Nobody =>
                    call'[d].state.purpose = "bind" /\ call'[d].state.user = call'[d].user
    <3>1. CASE d = c
      BY <1>3, <2>4, <3>1
    <3>2. CASE d # c
      <4>1. call'[d] = call[d]
        BY <2>3, <3>2
      <4> QED
        BY <2>6, <4>1
    <3> QED
      BY <3>1, <3>2
  <2> QED
    BY <2>5, <2>6 DEF CallsAuthorised
<1> QED
  BY <1>1, <1>2, <1>3

\* What does not touch the table of bindings keeps it sound, and so does a
\* binding that is taken away.
LEMMA KeepsBindings ==
    ASSUME WcTyped, BindingsSound, UNCHANGED origin,
           \/ UNCHANGED binding
           \/ \E u \in People : binding' = [binding EXCEPT ![u] = Nobody]
    PROVE  BindingsSound'
  BY DEF WcTyped, WcTypeOK, BindingsSound

\* Every action keeps the invariant of the bindings.
LEMMA WcInvStep == ASSUME WcInv, [WcNext]_wcVars PROVE WcInv'
<1> USE DEF WcInv
<1>0. WcTyped'
  BY WcTypeStep
<1>1. ASSUME UNCHANGED <<states, call>> PROVE StatesNamed' /\ CallsAuthorised' /\ SessionsNamed'
  BY <1>1, KeepsCalls DEF StatesNamed
<1>2. ASSUME WecomAuthorize PROVE WcInv'
  BY <1>0, <1>2, KeepsCalls, KeepsBindings DEF WecomAuthorize, Sign, StatesNamed
<1>3. ASSUME TimePasses PROVE WcInv'
  <2>1. \A x \in State : [x EXCEPT !.expired = TRUE].purpose = x.purpose
                       /\ [x EXCEPT !.expired = TRUE].user = x.user
    BY DEF State
  <2>2. StatesNamed'
    <3>1. CASE UNCHANGED states
      BY <3>1 DEF StatesNamed
    <3>2. CASE states' = {[x EXCEPT !.expired = TRUE] : x \in states}
      <4>1. ASSUME NEW y \in states', y.purpose = "bind" PROVE y.user \in People
        <5>1. PICK x \in states : y = [x EXCEPT !.expired = TRUE]
          BY <3>2
        <5>2. x \in State
          BY DEF WcTyped, WcTypeOK
        <5>3. x.purpose = "bind" /\ y.user = x.user
          BY <2>1, <4>1, <5>1, <5>2
        <5> QED
          BY <5>3 DEF StatesNamed
      <4> QED
        BY <4>1 DEF StatesNamed
    <3> QED
      BY <1>3, <3>1, <3>2 DEF TimePasses
  <2> QED
    BY <1>0, <1>3, <2>2, KeepsCalls, KeepsBindings DEF TimePasses
<1>4. ASSUME Restart PROVE WcInv'
  <2>1. CallsAuthorised' /\ SessionsNamed' /\ StatesNamed'
    BY <1>4 DEF Restart, CallsAuthorised, SessionsNamed, StatesNamed, Binding, NoCall
  <2> QED
    BY <1>0, <1>4, <2>1, KeepsBindings DEF Restart
<1>5. ASSUME NEW u \in People, WecomBindURL(u) PROVE WcInv'
  BY <1>0, <1>5, KeepsCalls, KeepsBindings DEF WecomBindURL, Sign, StatesNamed
<1>6. ASSUME NEW u \in People, WecomUnbind(u) PROVE WcInv'
  BY <1>0, <1>1, <1>6, KeepsBindings DEF WecomUnbind
<1>7. ASSUME NEW u \in People, AdministerUser(u) PROVE WcInv'
  BY <1>0, <1>1, <1>7, KeepsBindings DEF AdministerUser
<1>8. ASSUME NEW c \in Calls, NEW x \in states \cup {Nobody}, NEW w \in Wecoms,
             NEW k \in {"callback", "login"}, StartWecomLogin(c, k, x, w)
      PROVE  WcInv'
  <2>1. CallsAuthorised' /\ SessionsNamed' /\ StatesNamed'
    BY <1>8 DEF StartWecomLogin, NoCall, CallsAuthorised, SessionsNamed, StatesNamed, Binding, WcTyped
  <2> QED
    BY <1>0, <1>8, <2>1, KeepsBindings DEF StartWecomLogin
<1>9. ASSUME NEW c \in Calls, NEW x \in states \cup {Nobody}, NEW w \in Wecoms,
             NEW u \in People, StartBind(c, u, x, w)
      PROVE  WcInv'
  <2>1. mode = "direct" => x.purpose = "bind" /\ x.user = u
    BY <1>9, NobodyAssumption DEF StartBind, BindStateOK, StatesNamed
  <2>2. CallsAuthorised'
    BY <1>9, <2>1 DEF StartBind, CallsAuthorised, Binding, WcTyped
  <2>3. SessionsNamed' /\ StatesNamed'
    BY <1>9 DEF StartBind, SessionsNamed, StatesNamed, WcTyped
  <2> QED
    BY <1>0, <1>9, <2>2, <2>3, KeepsBindings DEF StartBind
<1>10. ASSUME NEW c \in Calls, LoginByWecom(c) PROVE WcInv'
  <2>1. ASSUME NEW u \in People, call' = [call EXCEPT ![c].pc = "session", ![c].user = u]
        PROVE  CallsAuthorised' /\ SessionsNamed'
    <3>1. call' = [call EXCEPT ![c] = [call[c] EXCEPT !.pc = "session", !.user = u]]
      BY <2>1
    <3>2. call'[c] = [call[c] EXCEPT !.pc = "session", !.user = u]
          /\ \A d \in Calls \ {c} : call'[d] = call[d]
      BY <3>1 DEF WcTyped
    <3>3. call'[c].pc = "session" /\ call'[c].user = u
      BY <3>2 DEF WcTyped, WcCall
    <3> QED
      BY <3>2, <3>3 DEF CallsAuthorised, SessionsNamed, Binding
  <2>2. CallsAuthorised' /\ SessionsNamed'
    BY <1>10, <2>1, KeepsCalls DEF LoginByWecom
  <2> QED
    BY <1>0, <1>10, <2>2, KeepsBindings DEF LoginByWecom, StatesNamed
<1>11. ASSUME NEW c \in Calls, FinishWecomLogin(c) PROVE WcInv'
  BY <1>0, <1>11, KeepsCalls, KeepsBindings DEF FinishWecomLogin, StatesNamed
<1>12. ASSUME NEW c \in Calls, FindWecomBindingOwner(c) PROVE WcInv'
  BY <1>0, <1>12, KeepsCalls, KeepsBindings DEF FindWecomBindingOwner, StatesNamed
<1>13. ASSUME NEW c \in Calls, SaveWecomBinding(c) PROVE WcInv'
  <2>1. CallsAuthorised' /\ SessionsNamed' /\ StatesNamed'
    BY <1>13, KeepsCalls DEF SaveWecomBinding, StatesNamed
  <2>2. CASE SaveAllowed(call[c].user, call[c].id)
    <3> DEFINE u == call[c].user
    <3>1. /\ u \in People /\ call[c].id \in Wecoms
          /\ call[c].state # Nobody => call[c].state.purpose = "bind" /\ call[c].state.user = u
      BY <1>13 DEF SaveWecomBinding, CallsAuthorised, Binding
    <3>2. binding'[u] = call[c].id /\ \A v \in People \ {u} : binding'[v] = binding[v]
      BY <1>13, <2>2, <3>1 DEF SaveWecomBinding, WcTyped, WcTypeOK
    <3>3. origin'[u] = call[c].state /\ \A v \in People \ {u} : origin'[v] = origin[v]
      BY <1>13, <2>2, <3>1 DEF SaveWecomBinding, WcTyped, WcTypeOK
    <3>4. BindingsSound'
      BY <2>2, <3>1, <3>2, <3>3 DEF BindingsSound, SaveAllowed
    <3> QED
      BY <1>0, <2>1, <3>4
  <2>3. CASE ~SaveAllowed(call[c].user, call[c].id)
    BY <1>0, <1>13, <2>1, <2>3, KeepsBindings DEF SaveWecomBinding
  <2> QED
    BY <2>2, <2>3
<1>14. ASSUME NEW k \in Tickets, WecomExchange(k) PROVE WcInv'
  BY <1>0, <1>1, <1>14, KeepsBindings DEF WecomExchange
<1>15. ASSUME NEW m \in {"direct", "center", "off"}, ConfigureWecom(m) PROVE WcInv'
  BY <1>0, <1>1, <1>15, KeepsBindings DEF ConfigureWecom
<1>16. ASSUME UNCHANGED wcVars PROVE WcInv'
  BY <1>0, <1>1, <1>16, KeepsBindings DEF wcVars
<1> QED
  BY <1>2, <1>3, <1>4, <1>5, <1>6, <1>7, <1>8, <1>9, <1>10, <1>11, <1>12, <1>13,
     <1>14, <1>15, <1>16 DEF WcNext

\* What an unfinished request may still write is typed, named and authorised.
THEOREM WecomTypeCorrect == WcSpec => []WcTyped
<1>1. WcInv => WcTyped
  BY DEF WcInv
<1> QED
  BY <1>1, WcInvInit, WcInvStep, PTL DEF WcSpec

\* An identity logs in to one account and a binding with a signed state was asked
\* for by its own account, although the owner is looked for and the row is saved in
\* two statements of BindWecom, and accounts, states and the provider change between.
THEOREM WecomBindingsSound == WcSpec => []BindingsSound
<1>1. WcInv => BindingsSound
  BY DEF WcInv
<1> QED
  BY <1>1, WcInvInit, WcInvStep, PTL DEF WcSpec

-----------------------------------------------------------------------------
(***************************************************************************)
(* Tickets.                                                                *)
(***************************************************************************)
\* A ticket that has handed out its session is never in the table again.
LEMMA TicketStep == ASSUME WcInv, TicketInv, [WcNext]_wcVars PROVE TicketInv'
<1>0. WcTyped'
  BY WcTypeStep DEF WcInv
<1> USE DEF WcInv, TicketInv, WcTyped, WcTypeOK
<1>1. ASSUME UNCHANGED <<tickets, given>> PROVE TicketInv'
  BY <1>0, <1>1
<1>2. ASSUME Restart PROVE TicketInv'
  BY <1>0, <1>2 DEF Restart
<1>3. ASSUME NEW c \in Calls, FinishWecomLogin(c) PROVE TicketInv'
  BY <1>0, <1>3 DEF FinishWecomLogin
<1>4. ASSUME NEW k \in Tickets, WecomExchange(k) PROVE TicketInv'
  BY <1>0, <1>4 DEF WecomExchange, Consume
<1> QED
  BY <1>1, <1>2, <1>3, <1>4
  DEF WcNext, wcVars, WecomAuthorize, TimePasses, WecomBindURL, WecomUnbind, AdministerUser,
      StartWecomLogin, StartBind, LoginByWecom, FindWecomBindingOwner, SaveWecomBinding,
      ConfigureWecom

\* A login ticket hands out its session at most once, although it is consumed by
\* whoever presents it and time passes, restarts and new tickets come between.
THEOREM WecomTicketOnce == WcSpec => []TicketOnce
<1>1. TicketInv => TicketOnce
  BY DEF TicketInv, TicketOnce
<1> QED
  BY <1>1, WcInvInit, WcInvStep, TicketStep, PTL DEF WcSpec
=============================================================================
