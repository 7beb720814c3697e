---------------------------- MODULE EventStream ----------------------------
(***************************************************************************)
(* Refresh events on their way to the browsers.  PublishRefresh sends an   *)
(* event to Redis three times (last-event key, stream, channel), with one  *)
(* command each; nothing reads the key.  Several goroutines publish at     *)
(* once.  The handler "events" subscribes to the channel, replays what the *)
(* stream holds, then forwards the channel.  The client library keeps the  *)
(* subscription: it renews a connection that breaks and discards what its  *)
(* buffer does not take, and the handler hears of neither.                 *)
(*                                                                         *)
(* An event is <<p, n>>: the n-th event of publisher p.  A publisher is a  *)
(* refresh task, whose events are published one after the other.           *)
(***************************************************************************)
EXTENDS Naturals, Sequences

CONSTANTS
    Publishers,    \* goroutines that publish, one per refresh task
    Browsers,      \* open event streams
    Replay,        \* how many recent events are replayed (20 in the handler)
    Buffer,        \* messages the client library holds for a handler
    EvBudgets      \* bound: how many events publishers send, which browsers
                   \* are open, how many commands and connections fail

ASSUME ReplayAssumption == Replay \in Nat \ {0} /\ Buffer \in Nat
ASSUME EvBudgetsAssumption ==
    \A b \in EvBudgets : b.events \in Nat /\ b.browsers \subseteq Browsers /\ b.losses \in Nat

VARIABLES
    stream,    \* the stream, oldest event first
    sent,      \* sent[p]: events whose PublishRefresh has begun
    at,        \* at[p]: the next command of PublishRefresh
    tab,       \* tab[b]: what the handler of the browser does
    active,    \* active[b]: does Redis know the subscription?
    queue,     \* queue[b]: messages of the channel that b has not read
    shown,     \* shown[b]: the events written to the response, in order
    left,      \* left[p]: how many events of p are still to come
    losses,    \* how many commands and connections may still fail
    lost,      \* lost[b]: history: tasks of which a message that was published
               \* since the replay has not come to b
    failed     \* history: publishers one of whose commands failed

evVars == <<stream, sent, at, tab, active, queue, shown, left, losses, lost, failed>>

Events == Publishers \X (Nat \ {0})

\* The event that a call of PublishRefresh by p carries.
Current(p) == <<p, sent[p]>>

EvTypeOK ==
    /\ stream \in Seq(Events)
    /\ sent \in [Publishers -> Nat]
    /\ at \in [Publishers -> {"idle", "xadd", "publish"}]
    /\ tab \in [Browsers -> {"off", "closed", "subscribed", "live"}]
    /\ active \in [Browsers -> BOOLEAN]
    /\ queue \in [Browsers -> Seq(Events)]
    /\ shown \in [Browsers -> Seq(Events)]
    /\ left \in [Publishers -> Nat] /\ losses \in Nat
    /\ lost \in [Browsers -> SUBSET Publishers]
    /\ failed \subseteq Publishers

EvInit ==
    /\ stream = <<>>
    /\ sent = [p \in Publishers |-> 0]
    /\ at = [p \in Publishers |-> "idle"]
    /\ active = [b \in Browsers |-> FALSE]
    /\ queue = [b \in Browsers |-> <<>>]
    /\ shown = [b \in Browsers |-> <<>>]
    /\ \E x \in EvBudgets :
         /\ left = [p \in Publishers |-> x.events]
         /\ tab = [b \in Browsers |-> IF b \in x.browsers THEN "closed" ELSE "off"]
         /\ losses = x.losses
    /\ lost = [b \in Browsers |-> {}]
    /\ failed = {}

(***************************************************************************)
(* PublishRefresh: SET, XADD, PUBLISH; an error ends it.                   *)
(***************************************************************************)
SetLast(p) ==
    /\ at[p] = "idle" /\ left[p] > 0
    /\ left' = [left EXCEPT ![p] = @ - 1]
    /\ sent' = [sent EXCEPT ![p] = @ + 1]
    /\ at' = [at EXCEPT ![p] = "xadd"]
    /\ UNCHANGED <<stream, tab, active, queue, shown, losses, lost, failed>>

XAdd(p) ==
    /\ at[p] = "xadd"
    /\ stream' = Append(stream, Current(p))
    /\ at' = [at EXCEPT ![p] = "publish"]
    /\ UNCHANGED <<sent, tab, active, queue, shown, left, losses, lost, failed>>

\* PUBLISH reaches the subscriptions Redis knows at that moment.
Publish(p) ==
    /\ at[p] = "publish"
    /\ queue' = [b \in Browsers |-> IF active[b] THEN Append(queue[b], Current(p)) ELSE queue[b]]
    /\ lost' = [b \in Browsers |-> IF tab[b] = "live" /\ ~active[b] THEN lost[b] \cup {p}
                                   ELSE lost[b]]
    /\ at' = [at EXCEPT ![p] = "idle"]
    /\ UNCHANGED <<stream, sent, tab, active, shown, left, losses, failed>>

CommandFails(p) ==
    /\ losses > 0 /\ losses' = losses - 1
    /\ at[p] # "idle"
    /\ failed' = failed \cup {p}
    /\ at' = [at EXCEPT ![p] = "idle"]
    /\ UNCHANGED <<stream, sent, tab, active, queue, shown, left, lost>>

(***************************************************************************)
(* The handler "events".                                                   *)
(***************************************************************************)
\* SubscribeRefresh writes SUBSCRIBE to its connection and does not wait for
\* the answer, so Redis may execute it later than the replay.
Subscribe(b) ==
    /\ tab[b] = "closed"
    /\ tab' = [tab EXCEPT ![b] = "subscribed"]
    /\ UNCHANGED <<stream, sent, at, active, queue, shown, left, losses, lost, failed>>

\* Redis executes the SUBSCRIBE that a handler, or the client library after a
\* loss of the connection, has sent.
Activate(b) ==
    /\ tab[b] \in {"subscribed", "live"} /\ ~active[b]
    /\ active' = [active EXCEPT ![b] = TRUE]
    /\ UNCHANGED <<stream, sent, at, tab, queue, shown, left, losses, lost, failed>>

\* Mutant: the recent events are replayed as XREVRANGE returns them.
RecentNewestFirst(s) == LET n == IF Len(s) < Replay THEN Len(s) ELSE Replay
                        IN  [j \in 1..n |-> s[Len(s) - j + 1]]

\* RecentRefreshEvents: XREVRANGE with a limit, then oldest first.
RecentRefreshEvents(s) == LET n == IF Len(s) < Replay THEN Len(s) ELSE Replay
                          IN  [j \in 1..n |-> s[Len(s) - n + j]]

\* The handler writes the replay, or nothing when it cannot be read.
ReplayRecent(b) ==
    /\ tab[b] = "subscribed"
    /\ tab' = [tab EXCEPT ![b] = "live"]
    /\ \/ shown' = [shown EXCEPT ![b] = RecentRefreshEvents(stream)] /\ UNCHANGED losses
       \/ losses > 0 /\ losses' = losses - 1 /\ UNCHANGED shown
    /\ lost' = [lost EXCEPT ![b] = {}]
    /\ UNCHANGED <<stream, sent, at, active, queue, left, failed>>

Forward(b) ==
    /\ tab[b] = "live" /\ queue[b] # <<>>
    /\ shown' = [shown EXCEPT ![b] = Append(@, Head(queue[b]))]
    /\ queue' = [queue EXCEPT ![b] = Tail(@)]
    /\ UNCHANGED <<stream, sent, at, tab, active, left, losses, lost, failed>>

\* The messages of b from the (i+1)-th to the k-th are lost.
Lose(b, i, k) ==
    /\ queue' = [queue EXCEPT ![b] = SubSeq(@, 1, i) \o SubSeq(@, k + 1, Len(@))]
    /\ lost' = [lost EXCEPT ![b] = @ \cup {queue[b][j][1] : j \in (i + 1)..k}]

\* The connection to Redis breaks, with the messages that the library has not
\* read from it; before the replay it has read none.
Disconnect(b) ==
    /\ losses > 0 /\ losses' = losses - 1
    /\ active[b]
    /\ active' = [active EXCEPT ![b] = FALSE]
    /\ \E i \in 0..(IF tab[b] = "live" THEN Len(queue[b]) ELSE 0) : Lose(b, i, Len(queue[b]))
    /\ UNCHANGED <<stream, sent, at, tab, shown, left, failed>>

\* The library discards a message for which its buffer has had no room for long.
Discard(b) ==
    /\ losses > 0 /\ losses' = losses - 1
    /\ tab[b] = "live" /\ Len(queue[b]) > Buffer
    /\ Lose(b, Buffer, Buffer + 1)
    /\ UNCHANGED <<stream, sent, at, tab, active, shown, left, failed>>

\* The request ends, with its subscription.
Close(b) ==
    /\ losses > 0 /\ losses' = losses - 1
    /\ tab[b] \in {"subscribed", "live"}
    /\ tab' = [tab EXCEPT ![b] = "closed"]
    /\ active' = [active EXCEPT ![b] = FALSE]
    /\ queue' = [queue EXCEPT ![b] = <<>>]
    /\ shown' = [shown EXCEPT ![b] = <<>>]
    /\ lost' = [lost EXCEPT ![b] = {}]
    /\ UNCHANGED <<stream, sent, at, left, failed>>

EvNext ==
    \/ \E p \in Publishers : SetLast(p) \/ XAdd(p) \/ Publish(p) \/ CommandFails(p)
    \/ \E b \in Browsers :
          \/ Subscribe(b) \/ Activate(b) \/ ReplayRecent(b) \/ Forward(b)
          \/ Disconnect(b) \/ Discard(b) \/ Close(b)

EvSpec == EvInit /\ [][EvNext]_evVars

(***************************************************************************)
(* Properties.                                                             *)
(***************************************************************************)
\* The events that browser b shows, or will when it has read its queue.
Seen(b) == shown[b] \o queue[b]

\* Where the events of p are in a sequence.
Own(s, p) == {j \in 1..Len(s) : s[j][1] = p}

\* An open browser has every event of a task from the first one it shows on, and
\* the latest one last, however the replayed and the forwarded events overlap:
\* there is no gap between the replay and the channel, and it never stays at
\* "running" when "success" has been published.  Excepted are tasks that publish,
\* had a failing command, or of which a message was lost on its way: published
\* while Redis did not know the subscription, in a connection that broke or for
\* a full buffer, of all of which the handler and the browser hear nothing.
EventsShown ==
    \A b \in Browsers, p \in Publishers :
        LET seen == Seen(b)
            own == Own(seen, p)
        IN  tab[b] = "live" /\ p \notin lost[b] /\ at[p] = "idle" /\ p \notin failed
            => \A j \in own :
                  /\ (\A k \in own : k <= j) => seen[j] = Current(p)
                  /\ \A n \in seen[j][2]..sent[p] : \E k \in own : seen[k][2] = n
=============================================================================
