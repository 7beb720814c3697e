------------------------------- MODULE Wecom -------------------------------
(***************************************************************************)
(* Login with an enterprise WeChat (WeCom) identity: signed states, codes  *)
(* that the WeCom server exchanges for an identity, the table that binds   *)
(* an identity to an account, and the login tickets that one process keeps *)
(* in memory between the callback and the browser's request.               *)
(***************************************************************************)
EXTENDS Naturals, FiniteSets

CONSTANTS
    People,      \* accounts of the console
    Wecoms,      \* WeCom identities
    Calls,       \* bound: requests served at the same time
    Tickets,     \* bound: login tickets
    WcBudgets,   \* bound: how many requests are made
    Nobody

ASSUME NobodyAssumption == Nobody \notin People \cup Wecoms \cup Tickets
ASSUME WcBudgetsAssumption == WcBudgets \subseteq Nat

VARIABLES
    mode,      \* the provider: "direct", "center", or "off"
    user,      \* user[u]: "enabled", "disabled" or "deleted"
    binding,   \* binding[u]: wecom_userid of the row of u, Nobody without
    states,    \* signed states in the hands of browsers
    tickets,   \* tickets[k]: the account whose session the ticket stands for
    stale,     \* tickets older than their 60 seconds
    call,      \* call[c]: the handler of request c
    budget,    \* requests that are still to come
    origin,    \* origin[u]: history: what authorised the binding of u
    given      \* given[k]: history: sessions handed out for ticket k

wcVars == <<mode, user, binding, states, tickets, stale, call, budget, origin, given>>

Purposes == {"login", "bind"}
State == [purpose : Purposes, user : People \cup {Nobody}, expired : BOOLEAN]
NoCall == [pc |-> "done", kind |-> Nobody, user |-> Nobody, state |-> Nobody, id |-> Nobody]

WcTypeOK ==
    /\ mode \in {"direct", "center", "off"}
    /\ user \in [People -> {"enabled", "disabled", "deleted"}]
    /\ binding \in [People -> Wecoms \cup {Nobody}]
    /\ states \subseteq State
    /\ tickets \in [Tickets -> People \cup {Nobody}]
    /\ stale \subseteq Tickets
    /\ \A c \in Calls : call[c].user \in People \cup {Nobody} /\ call[c].id \in Wecoms \cup {Nobody}
    /\ budget \in Nat
    /\ origin \in [People -> State \cup {Nobody}]
    /\ given \in [Tickets -> Nat]

WcInit ==
    /\ mode \in {"direct", "center"}
    /\ user = [u \in People |-> "enabled"]
    /\ binding = [u \in People |-> Nobody]
    /\ states = {}
    /\ tickets = [k \in Tickets |-> Nobody]
    /\ stale = {}
    /\ call = [c \in Calls |-> NoCall]
    /\ budget \in WcBudgets
    /\ origin = [u \in People |-> Nobody]
    /\ given = [k \in Tickets |-> 0]

CallGoto(c, step) == call' = [call EXCEPT ![c].pc = step]
Return(c) == call' = [call EXCEPT ![c] = NoCall]
Spend == budget > 0 /\ budget' = budget - 1

(***************************************************************************)
(* Signed states.                                                          *)
(***************************************************************************)
Sign(purpose, u) ==
    states' = states \cup {[purpose |-> purpose, user |-> u, expired |-> FALSE]}

\* wecomAuthorize needs no session; wecomBindURL signs for its own user.
WecomAuthorize ==
    /\ mode = "direct" /\ Spend /\ Sign("login", Nobody)
    /\ UNCHANGED <<mode, user, binding, tickets, stale, call, origin, given>>

WecomBindURL(u) ==
    /\ mode = "direct" /\ user[u] = "enabled" /\ Spend /\ Sign("bind", u)
    /\ UNCHANGED <<mode, user, binding, tickets, stale, call, origin, given>>

\* wecomDirectLoginCredential: a valid state that was signed for a login.
LoginStateOK(x) == x # Nobody /\ ~x.expired /\ x.purpose = "login"

\* wecomBind: a valid state that was signed for a binding of the same user.
BindStateOK(x, u) == x # Nobody /\ ~x.expired /\ x.purpose = "bind" /\ x.user \in {Nobody, u}

(***************************************************************************)
(* The login: wecomCallback redirects with a ticket, wecomLogin answers    *)
(* with the session itself.                                                *)
(***************************************************************************)
\* The WeCom server (or the authentication center) gives the identity of the
\* code or ticket, or an error.
StartWecomLogin(c, k, x, w) ==
    /\ call[c].pc = "done" /\ mode # "off" /\ Spend
    /\ mode = "direct" => LoginStateOK(x)
    /\ call' = [call EXCEPT ![c] = [NoCall EXCEPT !.pc = "lookup", !.kind = k, !.id = w]]
    /\ UNCHANGED <<mode, user, binding, states, tickets, stale, origin, given>>

\* LoginByWecom: the enabled account that is bound to the identity.
LoginByWecom(c) ==
    /\ call[c].pc = "lookup"
    /\ LET owners == {u \in People : binding[u] = call[c].id /\ user[u] = "enabled"}
       IN  IF owners = {} THEN Return(c)
           ELSE \E u \in owners : call' = [call EXCEPT ![c].pc = "session", ![c].user = u]
    /\ UNCHANGED <<mode, user, binding, states, tickets, stale, budget, origin, given>>

\* createSession fails if the account was deleted; then the ticket is issued,
\* and stale ones are pruned.
FinishWecomLogin(c) ==
    /\ call[c].pc = "session"
    /\ Return(c)
    /\ IF user[call[c].user] = "deleted" \/ call[c].kind = "login"
       THEN UNCHANGED <<tickets, stale>>
       ELSE \E k \in Tickets :
              /\ tickets[k] = Nobody /\ given[k] = 0
              /\ tickets' = [j \in Tickets |-> IF j = k THEN call[c].user
                                               ELSE IF j \in stale THEN Nobody ELSE tickets[j]]
              /\ stale' = {}
    /\ UNCHANGED <<mode, user, binding, states, budget, origin, given>>

\* Mutant: a ticket stays valid for its 60 seconds.
ConsumeKeeps(k) == UNCHANGED tickets

\* consume deletes the ticket whatever the outcome.
Consume(k) == tickets' = [tickets EXCEPT ![k] = Nobody]

\* wecomExchange: a ticket of this process, not stale, of a session that is
\* still valid (sessions go with their account, or with its being disabled).
WecomExchange(k) ==
    /\ tickets[k] # Nobody /\ Spend
    /\ Consume(k)
    /\ given' = [given EXCEPT ![k] = @ + IF k \notin stale /\ user[tickets[k]] = "enabled" THEN 1 ELSE 0]
    /\ stale' = stale \ {k}
    /\ UNCHANGED <<mode, user, binding, states, call, origin>>

(***************************************************************************)
(* The binding of an account.                                              *)
(***************************************************************************)
StartBind(c, u, x, w) ==
    /\ call[c].pc = "done" /\ mode # "off" /\ user[u] = "enabled" /\ Spend
    /\ mode = "direct" => BindStateOK(x, u)
    /\ call' = [call EXCEPT ![c] = [pc |-> "owner", kind |-> "bind", user |-> u, id |-> w,
                                    state |-> IF mode = "direct" THEN x ELSE Nobody]]
    /\ UNCHANGED <<mode, user, binding, states, tickets, stale, origin, given>>

\* BindWecom first looks for another owner ...
FindWecomBindingOwner(c) ==
    /\ call[c].pc = "owner"
    /\ IF \E v \in People \ {call[c].user} : binding[v] = call[c].id
       THEN Return(c) ELSE CallGoto(c, "save")
    /\ UNCHANGED <<mode, user, binding, states, tickets, stale, budget, origin, given>>

\* Mutant: the table has no unique constraint on the identity.
SaveUnchecked(u, w) == user[u] # "deleted"

\* ... then inserts or updates its own row: the columns wecom_userid (unique)
\* and user_id (a foreign key) may refuse.
SaveAllowed(u, w) == user[u] # "deleted" /\ \A v \in People \ {u} : binding[v] # w

SaveWecomBinding(c) ==
    /\ call[c].pc = "save"
    /\ IF SaveAllowed(call[c].user, call[c].id)
       THEN /\ binding' = [binding EXCEPT ![call[c].user] = call[c].id]
            /\ origin' = [origin EXCEPT ![call[c].user] = call[c].state]
       ELSE UNCHANGED <<binding, origin>>
    /\ Return(c)
    /\ UNCHANGED <<mode, user, states, tickets, stale, budget, given>>

WecomUnbind(u) ==
    /\ user[u] = "enabled" /\ binding[u] # Nobody /\ Spend
    /\ binding' = [binding EXCEPT ![u] = Nobody]
    /\ UNCHANGED <<mode, user, states, tickets, stale, call, origin, given>>

(***************************************************************************)
(* Administrators, time, restarts.                                         *)
(***************************************************************************)
ConfigureWecom(m) ==
    /\ Spend /\ m # mode /\ mode' = m
    /\ UNCHANGED <<user, binding, states, tickets, stale, call, origin, given>>

\* Deleting an account takes its binding and its sessions with it.
AdministerUser(u) ==
    /\ Spend
    /\ \/ user[u] = "enabled" /\ user' = [user EXCEPT ![u] = "disabled"] /\ UNCHANGED binding
       \/ /\ user[u] = "disabled" /\ user' = [user EXCEPT ![u] = "deleted"]
          /\ binding' = [binding EXCEPT ![u] = Nobody]
    /\ UNCHANGED <<mode, states, tickets, stale, call, origin, given>>

TimePasses ==
    /\ Spend
    /\ \/ /\ \E x \in states : ~x.expired
          /\ states' = {[x EXCEPT !.expired = TRUE] : x \in states} /\ UNCHANGED stale
       \/ stale' = {k \in Tickets : tickets[k] # Nobody} /\ stale' # stale /\ UNCHANGED states
    /\ UNCHANGED <<mode, user, binding, tickets, call, origin, given>>

\* The process restarts: requests and tickets are gone.
Restart ==
    /\ Spend
    /\ tickets' = [k \in Tickets |-> Nobody] /\ stale' = {}
    /\ call' = [c \in Calls |-> NoCall]
    /\ UNCHANGED <<mode, user, binding, states, origin, given>>

WcNext ==
    \/ WecomAuthorize \/ TimePasses \/ Restart
    \/ \E u \in People : WecomBindURL(u) \/ WecomUnbind(u) \/ AdministerUser(u)
    \/ \E c \in Calls, x \in states \cup {Nobody}, w \in Wecoms :
         \/ \E k \in {"callback", "login"} : StartWecomLogin(c, k, x, w)
         \/ \E u \in People : StartBind(c, u, x, w)
    \/ \E c \in Calls : LoginByWecom(c) \/ FinishWecomLogin(c)
                        \/ FindWecomBindingOwner(c) \/ SaveWecomBinding(c)
    \/ \E k \in Tickets : WecomExchange(k)
    \/ \E m \in {"direct", "center", "off"} : ConfigureWecom(m)

WcSpec == WcInit /\ [][WcNext]_wcVars

(***************************************************************************)
(* Properties.                                                             *)
(***************************************************************************)
\* An identity logs in to one account, although BindWecom looks for another
\* owner and saves in two statements; and a binding made with a signed state was
\* asked for by the bound account itself: neither a state of a login nor one of
\* another account will do.
BindingsSound ==
    \A u \in People : binding[u] # Nobody =>
       /\ \A v \in People \ {u} : binding[v] # binding[u]
       /\ origin[u] # Nobody => origin[u].purpose = "bind" /\ origin[u].user = u

\* A login ticket hands out its session at most once, also when two requests
\* present it and when time passes in between.
TicketOnce == \A k \in Tickets : given[k] <= 1
=============================================================================
