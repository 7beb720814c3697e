--------------------------- MODULE Console_proofs ---------------------------
(***************************************************************************)
(* Proofs about Settings, for every set of administrators, credentials and *)
(* forms; about EventStream, for every set of publishers and browsers;     *)
(* about AgentHealth, for every set of Agents, loops and requests; and     *)
(* about Timetable, for every set of processes and every plan of days.     *)
(***************************************************************************)
EXTENDS Settings, EventStream, AgentHealth, Timetable, WellFoundedInduction, TLAPS

-----------------------------------------------------------------------------
(***************************************************************************)
(* Settings.                                                               *)
(***************************************************************************)
SettingRow == [on : BOOLEAN, mode : Parts, secret : Secret, given : SUBSET Parts]
SaveRequest == [pc : {"idle", "read", "write"}, form : Forms \cup {NoValue},
                previous : SettingRow \cup {NoValue}]

SettingsTyped ==
    /\ item \in {"ldap", "wecom", "email"}
    /\ setting \in SettingRow
    /\ save \in [Admins -> SaveRequest]
    /\ saves \in Nat /\ readFaults \in Nat
    /\ live \in [Parts -> SUBSET (Credentials \cup {NoValue})]

\* A request under way is for the settings that are saved here.
SavesUnderWay ==
    \A a \in Admins : /\ save[a].pc # "idle" => save[a].form \in Forms /\ save[a].form.item = item
                      /\ save[a].pc = "write" => save[a].previous \in SettingRow

\* A row has credentials only in the parts of its settings, and only those that
\* were typed after the last clearing, or read before it.
Accounted(r) == \A g \in Parts : r.secret[g] # NoValue => g \in PartsOf(item) /\ r.secret[g] \in live[g]

\* So does the row that is stored, and each that was read and may still be written.
RowsAccounted ==
    /\ Accounted(setting)
    /\ \A a \in Admins : save[a].pc = "write" => Accounted(save[a].previous)

SettingsInv == SettingsTyped /\ SavesUnderWay /\ RowsAccounted

\* The rows that a handler completes and the requests it keeps are typed.
LEMMA SettingTypes ==
    /\ Unset \in SettingRow /\ NoSave \in SaveRequest
    /\ \A f \in Forms, r \in SettingRow : Completed(f, r) \in SettingRow
<1>1. NoSecrets \in Secret
  BY DEF NoSecrets, Secret
<1>2. Unset \in SettingRow
  BY <1>1 DEF Unset, Row, SettingRow, Parts
<1>3. NoSave \in SaveRequest
  BY DEF NoSave, SaveRequest
<1>4. ASSUME NEW f \in Forms, NEW r \in SettingRow PROVE Completed(f, r) \in SettingRow
  <2>1. /\ f.on \in BOOLEAN /\ f.mode \in Parts /\ f.typed \in Secret
        /\ f.given \in SUBSET Parts /\ f.clear \in BOOLEAN
    BY FormsAssumption
  <2>2. SwitchedOn(f) \in BOOLEAN
    BY <2>1 DEF SwitchedOn
  <2>3. CASE Dropped(f)
    BY <1>2, <2>2, <2>3 DEF Completed, SettingRow
  <2>4. CASE ~Dropped(f)
    <3> DEFINE secret == [g \in Parts |->
                 IF Retains(f, g) /\ r.secret[g] # NoValue THEN r.secret[g]
                 ELSE IF g \in PartsOf(f.item) THEN f.typed[g] ELSE NoValue]
    <3>1. secret \in Secret
      BY <2>1 DEF SettingRow, Secret
    <3>2. Completed(f, r) = [on |-> SwitchedOn(f), mode |-> f.mode, secret |-> secret, given |-> f.given]
      BY <2>4 DEF Completed, Row
    <3> HIDE DEF secret
    <3> QED
      BY <2>1, <2>2, <3>1, <3>2 DEF SettingRow
  <2> QED
    BY <2>3, <2>4
<1> QED
  BY <1>2, <1>3, <1>4

\* The credentials of a completed row: those it retains and those that were typed.
LEMMA CompletedSecrets ==
    ASSUME NEW f \in Forms, NEW r \in SettingRow, NEW g \in Parts
    PROVE  Completed(f, r).secret[g] =
             IF Dropped(f) THEN NoValue
             ELSE IF Retains(f, g) /\ r.secret[g] # NoValue THEN r.secret[g]
             ELSE IF g \in PartsOf(f.item) THEN f.typed[g] ELSE NoValue
  BY DEF Completed, Row, Unset, NoSecrets

\* The initial state satisfies the invariant: nothing is stored.
LEMMA SettingsInit == SetInit => SettingsInv
<1> SUFFICES ASSUME SetInit PROVE SettingsInv
  OBVIOUS
<1>1. SettingsTyped
  BY SettingTypes, SavesAssumption DEF SetInit, SettingsTyped
<1>2. SavesUnderWay
  BY DEF SetInit, SavesUnderWay, NoSave
<1>3. RowsAccounted
  BY DEF SetInit, RowsAccounted, Accounted, NoSave, Unset, Row, NoSecrets
<1> QED
  BY <1>1, <1>2, <1>3 DEF SettingsInv

\* A save that ends keeps what is known of the others.
LEMMA SaveEnds ==
    ASSUME SettingsInv, NEW a \in Admins, save' = [save EXCEPT ![a] = NoSave]
    PROVE  /\ save' \in [Admins -> SaveRequest]
           /\ \A b \in Admins : save'[b].pc # "idle" => b # a /\ save'[b] = save[b]
  BY SettingTypes DEF SettingsInv, SettingsTyped, NoSave

\* Every action keeps the invariant.
LEMMA SettingsStep == ASSUME SettingsInv, [SetNext]_setVars PROVE SettingsInv'
<1> USE DEF SettingsInv
<1>1. ASSUME NEW a \in Admins, NEW f \in Forms, Submit(a, f) PROVE SettingsInv'
  <2> DEFINE new == [pc |-> "read", form |-> f, previous |-> NoValue]
  <2>1. save' = [save EXCEPT ![a] = new] /\ UNCHANGED <<item, setting, live>>
    BY <1>1 DEF Submit
  <2>2. SettingsTyped'
    BY <1>1, <2>1 DEF Submit, SettingsTyped, SaveRequest
  <2>3. SavesUnderWay'
    BY <1>1, <2>1 DEF Submit, SavesUnderWay, SettingsTyped
  <2>4. RowsAccounted'
    BY <2>1 DEF RowsAccounted, Accounted, SettingsTyped
  <2> QED
    BY <2>2, <2>3, <2>4
<1>2. ASSUME NEW a \in Admins, ReadStored(a) PROVE SettingsInv'
  <2>1. PICK r \in {setting, Unset} :
          save' = [save EXCEPT ![a] = [save[a] EXCEPT !.pc = "write", !.previous = r]]
    BY <1>2 DEF ReadStored
  <2>2. r \in SettingRow /\ Accounted(r)
    <3>1. CASE r = setting
      BY <3>1 DEF SettingsTyped, RowsAccounted
    <3>2. CASE r = Unset
      <4>1. \A g \in Parts : Unset.secret[g] = NoValue
        BY DEF Unset, Row, NoSecrets
      <4> QED
        BY <3>2, <4>1, SettingTypes DEF Accounted
    <3> QED
      BY <3>1, <3>2
  <2>3. save[a] \in SaveRequest /\ save[a].pc = "read"
    BY <1>2 DEF ReadStored, SettingsTyped
  <2>4. /\ save'[a] = [pc |-> "write", form |-> save[a].form, previous |-> r]
        /\ \A b \in Admins \ {a} : save'[b] = save[b]
    BY <2>1, <2>3 DEF SettingsTyped, SaveRequest
  <2>5. SettingsTyped'
    <3>1. save'[a] \in SaveRequest
      BY <2>2, <2>3, <2>4 DEF SaveRequest
    <3> QED
      BY <1>2, <2>1, <3>1 DEF ReadStored, SettingsTyped
  <2>6. SavesUnderWay'
    BY <1>2, <2>2, <2>3, <2>4 DEF ReadStored, SavesUnderWay
  <2>7. RowsAccounted'
    BY <1>2, <2>2, <2>4 DEF ReadStored, RowsAccounted, Accounted
  <2> QED
    BY <2>5, <2>6, <2>7
<1>3. ASSUME NEW a \in Admins, Write(a) PROVE SettingsInv'
  <2> DEFINE f == save[a].form
             r == save[a].previous
  <2>1. /\ f \in Forms /\ f.item = item /\ r \in SettingRow /\ Accounted(r)
        /\ setting' = Completed(f, r) /\ save' = [save EXCEPT ![a] = NoSave] /\ item' = item
    BY <1>3 DEF Write, Stored, SavesUnderWay, RowsAccounted
  <2>2. f.typed \in Secret
    BY <2>1, FormsAssumption
  <2>3. \A g \in Parts : live'[g] = (IF f.clear THEN InFlight(a, g) ELSE live[g]) \cup {f.typed[g]}
    BY <1>3 DEF Write
  <2>4. ASSUME NEW g \in Parts PROVE InFlight(a, g) \subseteq Credentials \cup {NoValue}
    BY <2>4 DEF InFlight, SavesUnderWay, SettingRow, Secret
  <2>5. SettingsTyped'
    <3>1. live' \in [Parts -> SUBSET (Credentials \cup {NoValue})]
      BY <1>3, <2>2, <2>4 DEF Write, SettingsTyped, Secret
    <3> QED
      BY <1>3, <2>1, <3>1, SettingTypes, SaveEnds DEF Write, SettingsTyped
  <2>6. SavesUnderWay'
    BY <2>1, SaveEnds DEF SavesUnderWay
  <2>7. Accounted(setting)'
    <3>1. ASSUME NEW g \in Parts, setting'.secret[g] # NoValue
          PROVE  g \in PartsOf(item) /\ setting'.secret[g] \in live'[g]
      <4>1. CASE Retains(f, g) /\ r.secret[g] # NoValue
        BY <2>1, <2>3, <3>1, <4>1, CompletedSecrets DEF Accounted, Retains
      <4>2. CASE ~(Retains(f, g) /\ r.secret[g] # NoValue)
        BY <2>1, <2>3, <3>1, <4>2, CompletedSecrets
      <4> QED
        BY <4>1, <4>2
    <3> QED
      BY <2>1, <3>1 DEF Accounted
  <2>8. ASSUME NEW b \in Admins, save'[b].pc = "write" PROVE Accounted(save[b].previous)'
    <3>1. b # a /\ save'[b] = save[b]
      BY <2>1, <2>8, SaveEnds
    <3>2. \A g \in Parts : save[b].previous.secret[g] \in InFlight(a, g)
      BY <2>8, <3>1 DEF InFlight
    <3> QED
      BY <2>1, <2>3, <2>8, <3>1, <3>2 DEF RowsAccounted, Accounted
  <2> QED
    BY <2>5, <2>6, <2>7, <2>8 DEF RowsAccounted
<1>4. ASSUME NEW a \in Admins, Refuse(a) PROVE SettingsInv'
  <2>1. save' = [save EXCEPT ![a] = NoSave] /\ UNCHANGED <<item, setting, saves, readFaults, live>>
    BY <1>4 DEF Refuse
  <2>2. SettingsTyped' /\ SavesUnderWay'
    BY <2>1, SaveEnds DEF SettingsTyped, SavesUnderWay
  <2>3. RowsAccounted'
    BY <2>1, SaveEnds DEF RowsAccounted, Accounted
  <2> QED
    BY <2>2, <2>3
<1>5. CASE UNCHANGED setVars
  BY <1>5 DEF setVars, SettingsTyped, SavesUnderWay, RowsAccounted, Accounted
<1> QED
  BY <1>1, <1>2, <1>3, <1>4, <1>5 DEF SetNext

\* A save never stores a credential that was cleared, unless it had read it before:
\* the two statements of the handlers may overlap those of any other save.
THEOREM SettingsClearedStaysCleared == SetSpec => []ClearedStaysCleared
<1>1. SettingsInv => ClearedStaysCleared
  BY DEF SettingsInv, RowsAccounted, Accounted, ClearedStaysCleared
<1> QED
  BY <1>1, SettingsInit, SettingsStep, PTL DEF SetSpec

\* A save that leaves a credential blank keeps the stored one, whichever mode of
\* WeCom is in use, if no other save came between reading and writing the row.
THEOREM SettingsBlankKeepsCredential == SetSpec => BlankKeepsCredential
<1>1. ASSUME SettingsInv, NEW a \in Admins, NEW g \in Parts, Write(a),
             save[a].previous = setting, setting.secret[g] # setting'.secret[g]
      PROVE  \/ setting'.secret[g] = save[a].form.typed[g] /\ setting'.secret[g] # NoValue
             \/ save[a].form.clear
             \/ ~save[a].form.on /\ save[a].form.item # "email"
  <2> DEFINE f == save[a].form
  <2>1. f \in Forms /\ f.item = item /\ setting \in SettingRow /\ setting' = Completed(f, setting)
    BY <1>1 DEF SettingsInv, SettingsTyped, SavesUnderWay, Write, Stored
  <2>2. CASE Dropped(f)
    BY <2>2 DEF Dropped
  <2>3. CASE ~Dropped(f) /\ setting.secret[g] = NoValue
    BY <1>1, <2>1, <2>3, CompletedSecrets
  <2>4. CASE ~Dropped(f) /\ setting.secret[g] # NoValue
    <3>1. ~Retains(f, g)
      BY <1>1, <2>1, <2>4, CompletedSecrets
    <3>2. g \in PartsOf(item)
      BY <1>1, <2>4 DEF SettingsInv, RowsAccounted, Accounted
    <3>3. setting'.secret[g] = f.typed[g]
      BY <2>1, <2>4, <3>1, <3>2, CompletedSecrets
    <3> QED
      BY <3>1, <3>3 DEF Retains
  <2> QED
    BY <2>2, <2>3, <2>4
<1>2. SettingsInv /\ [SetNext]_setVars =>
        [\A a \in Admins : \A g \in Parts :
          (/\ Write(a) /\ save[a].previous = setting
           /\ setting.secret[g] # setting'.secret[g])
          => \/ setting'.secret[g] = save[a].form.typed[g] /\ setting'.secret[g] # NoValue
             \/ save[a].form.clear
             \/ ~save[a].form.on /\ save[a].form.item # "email"]_setVars
  BY <1>1
<1> QED
  BY <1>2, SettingsInit, SettingsStep, PTL DEF SetSpec, BlankKeepsCredential

-----------------------------------------------------------------------------
(***************************************************************************)
(* Event streams.                                                          *)
(***************************************************************************)
\* The events of p come in the order of their numbers, up to number m, and
\* none is missing after the first.
Increasing(s, p) == \A i, j \in Own(s, p) : i < j => s[i][2] < s[j][2]
UpTo(s, p, m) == \A j \in Own(s, p) : s[j][2] <= m
Onwards(s, p, m) == \A j \in Own(s, p) : \A n \in s[j][2]..m : \E k \in Own(s, p) : s[k][2] = n
Holds(s, p, m) == Increasing(s, p) /\ UpTo(s, p, m) /\ Onwards(s, p, m)

\* The last event of p has one of the numbers.
Ends(s, p, numbers) == \A j \in Own(s, p) : (\A k \in Own(s, p) : k <= j) => s[j][2] \in numbers

\* How many events of p are in the stream, and how many have been published.
Added(p) == IF at[p] = "xadd" THEN sent[p] - 1 ELSE sent[p]
Published(p) == IF at[p] = "idle" THEN sent[p] ELSE sent[p] - 1

\* What is kept of the events of p: the queue of a handler that has not read
\* from it holds everything since its beginning, and an open browser that has
\* lost nothing everything from the first event it shows on.
Complete(p) ==
    /\ Holds(stream, p, Added(p))
    /\ \A b \in Browsers :
          /\ tab[b] # "live" => Holds(queue[b], p, Published(p))
          /\ tab[b] = "live" /\ p \notin lost[b] =>
                /\ Onwards(Seen(b), p, Published(p))
                /\ Ends(Seen(b), p, {Added(p), Published(p)})

\* Only an open browser has shown something or has a queue without subscription.
Subscriptions ==
    \A b \in Browsers :
       /\ tab[b] # "live" => shown[b] = <<>>
       /\ tab[b] # "live" /\ ~active[b] => queue[b] = <<>>
       /\ tab[b] \in {"off", "closed"} => ~active[b]

EvInv ==
    /\ EvTypeOK
    /\ \A p \in Publishers : at[p] # "idle" => sent[p] > 0
    /\ Subscriptions
    /\ \A p \in Publishers : p \notin failed => Complete(p)

\* Where the events of p are after an event has been appended.
LEMMA OwnAppend ==
    ASSUME NEW s \in Seq(Events), NEW e \in Events, NEW p
    PROVE  /\ Append(s, e) \in Seq(Events)
           /\ Len(Append(s, e)) = Len(s) + 1 /\ Append(s, e)[Len(s) + 1] = e
           /\ \A j \in 1..Len(s) : Append(s, e)[j] = s[j]
           /\ Own(Append(s, e), p) = Own(s, p) \cup (IF e[1] = p THEN {Len(s) + 1} ELSE {})
<1>1. /\ Append(s, e) \in Seq(Events)
      /\ Len(Append(s, e)) = Len(s) + 1 /\ Append(s, e)[Len(s) + 1] = e
      /\ \A j \in 1..Len(s) : Append(s, e)[j] = s[j]
  OBVIOUS
<1>2. 1..(Len(s) + 1) = (1..Len(s)) \cup {Len(s) + 1}
  OBVIOUS
<1> QED
  BY <1>1, <1>2 DEF Own

\* An event has a publisher and a number.
LEMMA EventParts ==
    ASSUME NEW s \in Seq(Events), NEW j \in 1..Len(s)
    PROVE  s[j] \in Events /\ s[j][1] \in Publishers /\ s[j][2] \in Nat /\ s[j][2] > 0
           /\ s[j] = <<s[j][1], s[j][2]>>
<1>1. s[j] \in Events
  OBVIOUS
<1> QED
  BY <1>1 DEF Events

\* The next event of p.
LEMMA AppendNext ==
    ASSUME NEW s \in Seq(Events), NEW p \in Publishers, NEW m \in Nat,
           NEW e \in Events, e = <<p, m + 1>>
    PROVE  /\ Holds(s, p, m) => Holds(Append(s, e), p, m + 1)
           /\ Onwards(s, p, m) => Onwards(Append(s, e), p, m + 1)
           /\ Ends(Append(s, e), p, {m + 1})
<1> DEFINE t == Append(s, e)
<1>1. /\ Len(t) = Len(s) + 1 /\ t[Len(s) + 1] = e
      /\ \A j \in 1..Len(s) : t[j] = s[j]
      /\ Own(t, p) = Own(s, p) \cup {Len(s) + 1}
  BY OwnAppend
<1>2. /\ Own(s, p) \subseteq 1..Len(s) /\ Len(s) \in Nat /\ e[1] = p /\ e[2] = m + 1
      /\ \A j \in Own(s, p) : s[j][2] \in Nat
  BY EventParts DEF Own
<1> HIDE DEF t
<1>3. ASSUME Onwards(s, p, m) PROVE Onwards(t, p, m + 1)
  <2>1. ASSUME NEW j \in Own(t, p), NEW n \in t[j][2]..(m + 1)
        PROVE  \E k \in Own(t, p) : t[k][2] = n
    <3>1. CASE n = m + 1
      BY <1>1, <1>2, <3>1
    <3>2. CASE n # m + 1
      <4>1. j \in Own(s, p) /\ t[j] = s[j]
        BY <1>1, <1>2, <3>2
      <4>2. n \in s[j][2]..m
        BY <1>2, <3>2, <4>1
      <4> QED
        BY <1>1, <1>2, <1>3, <4>1, <4>2 DEF Onwards
    <3> QED
      BY <3>1, <3>2
  <2> QED
    BY <2>1 DEF Onwards
<1>4. ASSUME Increasing(s, p), UpTo(s, p, m) PROVE Increasing(t, p) /\ UpTo(t, p, m + 1)
  <2>1. ASSUME NEW i \in Own(t, p), NEW j \in Own(t, p), i < j PROVE t[i][2] < t[j][2]
    <3>1. i \in Own(s, p) /\ t[i] = s[i]
      BY <1>1, <1>2, <2>1
    <3>2. CASE j = Len(s) + 1
      BY <1>1, <1>2, <1>4, <3>1, <3>2 DEF UpTo
    <3>3. CASE j # Len(s) + 1
      BY <1>1, <1>2, <1>4, <2>1, <3>1, <3>3 DEF Increasing
    <3> QED
      BY <3>2, <3>3
  <2>2. \A j \in Own(t, p) : t[j][2] <= m + 1
    BY <1>1, <1>2, <1>4 DEF UpTo
  <2> QED
    BY <2>1, <2>2 DEF Increasing, UpTo
<1>5. Ends(t, p, {m + 1})
  BY <1>1, <1>2 DEF Ends
<1> QED
  BY <1>3, <1>4, <1>5 DEF Holds, t

\* An event of another publisher.
LEMMA AppendOther ==
    ASSUME NEW s \in Seq(Events), NEW p \in Publishers, NEW m, NEW numbers,
           NEW e \in Events, e[1] # p
    PROVE  /\ Holds(s, p, m) => Holds(Append(s, e), p, m)
           /\ Onwards(s, p, m) => Onwards(Append(s, e), p, m)
           /\ Ends(s, p, numbers) => Ends(Append(s, e), p, numbers)
<1>1. /\ \A j \in 1..Len(s) : Append(s, e)[j] = s[j]
      /\ Own(Append(s, e), p) = Own(s, p)
  <2>1. Own(Append(s, e), p) = Own(s, p) \cup (IF e[1] = p THEN {Len(s) + 1} ELSE {})
    BY OwnAppend
  <2> QED
    BY <2>1, OwnAppend
<1>2. Own(s, p) \subseteq 1..Len(s)
  BY DEF Own
<1> QED
  BY <1>1, <1>2 DEF Holds, Increasing, UpTo, Onwards, Ends

\* The rest of a queue.
LEMMA TailHolds ==
    ASSUME NEW s \in Seq(Events), s # <<>>, NEW p, NEW m \in Nat, Holds(s, p, m)
    PROVE  Holds(Tail(s), p, m)
<1> DEFINE t == Tail(s)
<1>1. /\ Len(s) \in Nat /\ Len(t) = Len(s) - 1 /\ \A j \in 1..Len(t) : t[j] = s[j + 1]
  OBVIOUS
<1> HIDE DEF t
<1>2. \A j : j \in Own(t, p) <=> j \in Nat /\ j > 0 /\ j + 1 \in Own(s, p)
  BY <1>1 DEF Own
<1>3. \A j \in Own(t, p) : t[j] = s[j + 1] /\ j \in Nat
  BY <1>1 DEF Own
<1>4. \A j \in Own(s, p) : s[j][2] \in Nat /\ j \in Nat /\ j > 0
  BY EventParts DEF Own
<1>5. ASSUME NEW j \in Own(t, p), NEW n \in t[j][2]..m PROVE \E k \in Own(t, p) : t[k][2] = n
  <2>1. PICK k \in Own(s, p) : s[k][2] = n
    BY <1>2, <1>3, <1>5 DEF Holds, Onwards
  <2>2. k # 1
    <3>1. j + 1 \in Own(s, p) /\ 1 < j + 1
      BY <1>2, <1>3, <1>5
    <3>2. k = 1 => s[k][2] < s[j + 1][2]
      BY <2>1, <3>1 DEF Holds, Increasing
    <3>3. s[j + 1][2] <= n
      BY <1>3, <1>4, <1>5, <3>1
    <3> QED
      BY <1>4, <2>1, <3>1, <3>2, <3>3
  <2>3. k - 1 \in Own(t, p) /\ t[k - 1] = s[k]
    <3>1. k \in Nat /\ k - 1 \in Nat /\ k - 1 > 0 /\ (k - 1) + 1 = k
      BY <1>4, <2>1, <2>2
    <3>2. k - 1 \in Own(t, p)
      BY <1>2, <2>1, <3>1
    <3> QED
      BY <1>3, <3>1, <3>2
  <2> QED
    BY <2>1, <2>3
<1>6. Increasing(t, p)
  BY <1>2, <1>3 DEF Holds, Increasing
<1>7. UpTo(t, p, m)
  BY <1>2, <1>3 DEF Holds, UpTo
<1> QED
  BY <1>5, <1>6, <1>7 DEF Holds, Onwards, t

\* What RecentRefreshEvents returns is the end of the stream.
LEMMA RecentHolds ==
    ASSUME NEW s \in Seq(Events), NEW p, NEW m \in Nat, Holds(s, p, m)
    PROVE  /\ RecentRefreshEvents(s) \in Seq(Events)
           /\ Holds(RecentRefreshEvents(s), p, m)
<1> DEFINE n == IF Len(s) < Replay THEN Len(s) ELSE Replay
           t == RecentRefreshEvents(s)
           d == Len(s) - n
<1>1. Len(s) \in Nat /\ n \in Nat /\ d \in Nat /\ Len(s) = d + n
  BY ReplayAssumption
<1>2. t = [j \in 1..n |-> s[d + j]]
  BY <1>1 DEF RecentRefreshEvents
<1> HIDE DEF n, t, d
<1>3. \A j \in 1..n : d + j \in 1..Len(s) /\ s[d + j] \in Events
  BY <1>1
<1>4. t \in Seq(Events) /\ Len(t) = n /\ \A j \in 1..n : t[j] = s[d + j]
  BY <1>1, <1>2, <1>3
<1>5. \A j \in Own(t, p) : j \in 1..n /\ d + j \in Own(s, p) /\ t[j] = s[d + j]
  BY <1>3, <1>4 DEF Own
<1>6. \A k \in Own(s, p) : k \in Nat /\ s[k][2] \in Nat
  BY EventParts DEF Own
<1>7. ASSUME NEW j \in Own(t, p), NEW x \in t[j][2]..m PROVE \E k \in Own(t, p) : t[k][2] = x
  <2>1. PICK k \in Own(s, p) : s[k][2] = x
    BY <1>5, <1>7 DEF Holds, Onwards
  <2>2. k >= d + j
    <3>1. k < d + j => s[k][2] < s[d + j][2]
      BY <1>5, <2>1 DEF Holds, Increasing
    <3>2. s[d + j][2] \in Nat /\ s[d + j][2] <= x /\ d + j \in Nat /\ x \in Nat /\ k \in Nat
      BY <1>5, <1>6, <1>7, <2>1
    <3> QED
      BY <2>1, <3>1, <3>2
  <2>3. k - d \in 1..n /\ d + (k - d) = k
    BY <1>1, <1>5, <2>1, <2>2 DEF Own
  <2>4. t[k - d] = s[k] /\ k - d \in Own(t, p)
    BY <1>4, <2>1, <2>3 DEF Own
  <2> QED
    BY <2>1, <2>4
<1>8. Increasing(t, p)
  BY <1>1, <1>5 DEF Holds, Increasing
<1>9. UpTo(t, p, m)
  BY <1>5 DEF Holds, UpTo
<1> QED
  BY <1>4, <1>7, <1>8, <1>9 DEF Holds, Onwards, t

\* The last event of p in a sequence without gap is the one with number m.
LEMMA HoldsEnds ==
    ASSUME NEW s \in Seq(Events), NEW p, NEW m \in Nat, Holds(s, p, m)
    PROVE  Ends(s, p, {m})
<1>1. ASSUME NEW j \in Own(s, p), \A k \in Own(s, p) : k <= j PROVE s[j][2] = m
  <2>1. j \in Nat /\ \A k \in Own(s, p) : k \in Nat /\ s[k][2] \in Nat
    BY EventParts DEF Own
  <2>2. s[j][2] <= m
    BY DEF Holds, UpTo
  <2>3. PICK k \in Own(s, p) : s[k][2] = m
    <3>1. m \in s[j][2]..m
      BY <2>1, <2>2
    <3> QED
      BY <3>1 DEF Holds, Onwards
  <2>4. k < j => s[k][2] < s[j][2]
    BY <2>3 DEF Holds, Increasing
  <2> QED
    BY <1>1, <2>1, <2>2, <2>3, <2>4
<1> QED
  BY <1>1 DEF Ends

\* A replay and the queue behind it.
LEMMA JoinHolds ==
    ASSUME NEW r \in Seq(Events), NEW q \in Seq(Events), NEW p, NEW m \in Nat, NEW n \in Nat,
           m <= n, Holds(r, p, n), Holds(q, p, m)
    PROVE  /\ Onwards(r \o q, p, m)
           /\ Ends(r \o q, p, {n, m})
<1> DEFINE t == r \o q
<1>1. /\ Len(r) \in Nat /\ Len(q) \in Nat /\ Len(t) = Len(r) + Len(q)
      /\ \A j \in 1..Len(r) : t[j] = r[j]
      /\ \A j \in 1..Len(q) : t[Len(r) + j] = q[j]
  OBVIOUS
<1> HIDE DEF t
<1>2. \A j \in Own(r, p) : j \in Own(t, p) /\ t[j] = r[j] /\ j \in 1..Len(r)
  BY <1>1 DEF Own
<1>3. \A j \in Own(q, p) : /\ Len(r) + j \in Own(t, p) /\ t[Len(r) + j] = q[j]
                           /\ j \in 1..Len(q)
  BY <1>1 DEF Own
<1>4. ASSUME NEW j \in Own(t, p)
      PROVE  \/ j \in Own(r, p)
             \/ j - Len(r) \in Own(q, p) /\ Len(r) + (j - Len(r)) = j
  <2>1. j \in Nat /\ j > 0 /\ j <= Len(r) + Len(q) /\ t[j][1] = p
    BY <1>1 DEF Own
  <2>2. CASE j <= Len(r)
    BY <1>1, <2>1, <2>2 DEF Own
  <2>3. CASE j > Len(r)
    <3>1. j - Len(r) \in 1..Len(q) /\ Len(r) + (j - Len(r)) = j
      BY <1>1, <2>1, <2>3
    <3> QED
      BY <1>1, <2>1, <3>1 DEF Own
  <2> QED
    BY <1>1, <2>1, <2>2, <2>3
<1>5. /\ \A j \in Own(r, p) : r[j][2] \in Nat
      /\ \A j \in Own(q, p) : q[j][2] \in Nat
  BY EventParts DEF Own
<1>6. ASSUME NEW j \in Own(t, p), NEW x \in t[j][2]..m PROVE \E k \in Own(t, p) : t[k][2] = x
  <2>1. CASE j \in Own(r, p)
    <3>1. x \in r[j][2]..n
      BY <1>2, <1>5, <1>6, <2>1
    <3>2. PICK k \in Own(r, p) : r[k][2] = x
      BY <2>1, <3>1 DEF Holds, Onwards
    <3> QED
      BY <1>2, <3>2
  <2>2. CASE j - Len(r) \in Own(q, p) /\ Len(r) + (j - Len(r)) = j
    <3>1. x \in q[j - Len(r)][2]..m
      BY <1>3, <1>6, <2>2
    <3>2. PICK k \in Own(q, p) : q[k][2] = x
      BY <2>2, <3>1 DEF Holds, Onwards
    <3> QED
      BY <1>3, <3>2
  <2> QED
    BY <1>4, <2>1, <2>2
<1>7. ASSUME NEW j \in Own(t, p), \A k \in Own(t, p) : k <= j PROVE t[j][2] \in {n, m}
  <2>1. CASE j \in Own(r, p)
    <3>1. \A k \in Own(r, p) : k <= j
      BY <1>2, <1>7
    <3>2. r[j][2] = n
      BY <2>1, <3>1, HoldsEnds DEF Ends
    <3> QED
      BY <1>2, <2>1, <3>2
  <2>2. CASE j - Len(r) \in Own(q, p) /\ Len(r) + (j - Len(r)) = j
    <3>1. ASSUME NEW k \in Own(q, p) PROVE k <= j - Len(r)
      <4>1. Len(r) + k <= j /\ k \in Nat /\ j \in Nat
        BY <1>1, <1>3, <1>7, <3>1 DEF Own
      <4> QED
        BY <1>1, <4>1
    <3>2. q[j - Len(r)][2] = m
      BY <2>2, <3>1, HoldsEnds DEF Ends
    <3> QED
      BY <1>3, <2>2, <3>2
  <2> QED
    BY <1>4, <2>1, <2>2
<1> QED
  BY <1>6, <1>7 DEF Onwards, Ends, t

\* A task that publishes has an event to publish.
LEMMA Publishing ==
    ASSUME EvInv, NEW p \in Publishers
    PROVE  /\ Added(p) \in Nat /\ Published(p) \in Nat /\ Published(p) <= Added(p)
           /\ at[p] = "xadd" => sent[p] = Added(p) + 1 /\ Published(p) = Added(p)
           /\ at[p] = "publish" => sent[p] = Published(p) + 1 /\ Added(p) = sent[p]
           /\ at[p] # "idle" => Current(p) \in Events
<1>1. sent[p] \in Nat /\ at[p] \in {"idle", "xadd", "publish"} /\ (at[p] # "idle" => sent[p] > 0)
  BY DEF EvInv, EvTypeOK
<1> QED
  BY <1>1 DEF Added, Published, Current, Events

\* Where the elements are of a sequence of l elements behind n others, when those
\* from the (i+1)-th to the k-th are taken out.
LEMMA Shifted ==
    ASSUME NEW i \in Nat, NEW k \in Nat, NEW l \in Nat, NEW n \in Nat, NEW d \in Nat,
           i <= k, k <= l, d = k - i
    PROVE  /\ \A j \in (i + 1)..(l - d) : j - i \in 1..(l - k) /\ k + (j - i) = j + d
           /\ \A j \in Nat : n < j /\ j <= n + i =>
                 /\ j - n \in 1..i /\ j - n \in 1..l /\ j - n \in 1..(l - d)
                 /\ n + (j - n) = j /\ j <= n + l /\ j <= n + l - d
           /\ \A j \in Nat : n + i < j /\ j <= n + l - d =>
                 /\ j - n \in (i + 1)..(l - d) /\ j - n \in 1..(l - d) /\ n + (j - n) = j
                 /\ (j - n) + d \in 1..l /\ n + ((j - n) + d) = j + d
                 /\ j + d \in 1..(n + l)
           /\ \A j \in Nat : n + i < j /\ j <= n + k =>
                 j - n \in (i + 1)..k /\ j - n \in 1..l /\ n + (j - n) = j
           /\ \A j \in Nat : n + k < j /\ j <= n + l =>
                 /\ (j - n) - d \in (i + 1)..(l - d) /\ (j - n) - d \in 1..(l - d)
                 /\ n + ((j - n) - d) = j - d /\ ((j - n) - d) + d = j - n
                 /\ j - n \in 1..l /\ n + (j - n) = j /\ j - d \in 1..(n + l - d)
<1>1. \A j \in (i + 1)..(l - d) : j - i \in 1..(l - k) /\ k + (j - i) = j + d
  OBVIOUS
<1>2. \A j \in Nat : n < j /\ j <= n + i =>
          /\ j - n \in 1..i /\ j - n \in 1..l /\ j - n \in 1..(l - d)
          /\ n + (j - n) = j /\ j <= n + l /\ j <= n + l - d
  OBVIOUS
<1>3. \A j \in Nat : n + i < j /\ j <= n + l - d =>
          /\ j - n \in (i + 1)..(l - d) /\ j - n \in 1..(l - d) /\ n + (j - n) = j
          /\ (j - n) + d \in 1..l /\ n + ((j - n) + d) = j + d
          /\ j + d \in 1..(n + l)
  OBVIOUS
<1>4. \A j \in Nat : n + i < j /\ j <= n + k =>
          j - n \in (i + 1)..k /\ j - n \in 1..l /\ n + (j - n) = j
  OBVIOUS
<1>5. \A j \in Nat : n + k < j /\ j <= n + l =>
          /\ (j - n) - d \in (i + 1)..(l - d) /\ (j - n) - d \in 1..(l - d)
          /\ n + ((j - n) - d) = j - d /\ ((j - n) - d) + d = j - n
          /\ j - n \in 1..l /\ n + (j - n) = j /\ j - d \in 1..(n + l - d)
  OBVIOUS
<1> QED
  BY <1>1, <1>2, <1>3, <1>4, <1>5

\* Losing messages of others takes nothing from what is shown of p.
LEMMA LoseOthers ==
    ASSUME NEW r \in Seq(Events), NEW q \in Seq(Events), NEW p, NEW m \in Nat, NEW numbers,
           NEW i \in Nat, NEW k \in Nat, i <= k, k <= Len(q),
           \A j \in (i + 1)..k : q[j][1] # p,
           Onwards(r \o q, p, m), Ends(r \o q, p, numbers)
    PROVE  /\ SubSeq(q, 1, i) \o SubSeq(q, k + 1, Len(q)) \in Seq(Events)
           /\ Onwards(r \o (SubSeq(q, 1, i) \o SubSeq(q, k + 1, Len(q))), p, m)
           /\ Ends(r \o (SubSeq(q, 1, i) \o SubSeq(q, k + 1, Len(q))), p, numbers)
<1> DEFINE u == SubSeq(q, 1, i)
           v == SubSeq(q, k + 1, Len(q))
           c == u \o v
           s == r \o q
           t == r \o c
           n == Len(r)
           d == k - i
<1>1. /\ u \in Seq(Events) /\ Len(u) = i /\ \A j \in 1..i : u[j] = q[j]
      /\ v \in Seq(Events) /\ Len(v) = Len(q) - k /\ \A j \in 1..(Len(q) - k) : v[j] = q[k + j]
  OBVIOUS
<1>0. Len(q) \in Nat /\ n \in Nat /\ d \in Nat /\ d = k - i
  OBVIOUS
<1>c. \A y, z \in Seq(Events) :
         /\ y \o z \in Seq(Events) /\ Len(y \o z) = Len(y) + Len(z)
         /\ \A j \in 1..Len(y) : (y \o z)[j] = y[j]
         /\ \A j \in 1..Len(z) : (y \o z)[Len(y) + j] = z[j]
  OBVIOUS
<1> HIDE DEF u, v, n, d
<1>2. /\ c \in Seq(Events) /\ Len(c) = Len(q) - d
      /\ \A j \in 1..i : c[j] = q[j]
      /\ \A j \in (i + 1)..(Len(q) - d) : c[j] = q[j + d]
  <2>1. /\ c \in Seq(Events) /\ Len(c) = i + (Len(q) - k)
        /\ \A j \in 1..i : c[j] = u[j]
        /\ \A j \in 1..(Len(q) - k) : c[i + j] = v[j]
    <3>1. /\ c \in Seq(Events) /\ Len(c) = Len(u) + Len(v)
          /\ \A j \in 1..Len(u) : c[j] = u[j]
          /\ \A j \in 1..Len(v) : c[Len(u) + j] = v[j]
      <4>1. u \in Seq(Events) /\ v \in Seq(Events)
        BY <1>1
      <4> QED
        BY <1>c, <4>1
    <3> HIDE DEF c
    <3> QED
      BY <1>1, <3>1
  <2>2. ASSUME NEW j \in 1..i PROVE c[j] = q[j]
    BY <1>1, <2>1
  <2>3. ASSUME NEW j \in (i + 1)..(Len(q) - d) PROVE c[j] = q[j + d]
    <3>1. j - i \in 1..(Len(q) - k) /\ k + (j - i) = j + d
      BY <1>0, Shifted
    <3>2. i + (j - i) = j
      BY <1>0
    <3>3. c[j] = v[j - i]
      BY <2>1, <3>1, <3>2
    <3>4. v[j - i] = q[k + (j - i)]
      BY <1>1, <3>1
    <3> QED
      BY <3>1, <3>3, <3>4
  <2>4. i + (Len(q) - k) = Len(q) - d
    BY <1>0
  <2> QED
    BY <2>1, <2>2, <2>3, <2>4
<1> HIDE DEF c
<1>3. /\ Len(s) = n + Len(q) /\ Len(t) = n + Len(q) - d
      /\ \A j \in 1..n : s[j] = r[j] /\ t[j] = r[j]
      /\ \A j \in 1..Len(q) : s[n + j] = q[j]
      /\ \A j \in 1..(Len(q) - d) : t[n + j] = c[j]
  <2>1. /\ Len(s) = n + Len(q) /\ Len(t) = n + Len(c)
        /\ \A j \in 1..n : s[j] = r[j] /\ t[j] = r[j]
        /\ \A j \in 1..Len(q) : s[n + j] = q[j]
        /\ \A j \in 1..Len(c) : t[n + j] = c[j]
    <3>1. /\ Len(s) = n + Len(q) /\ \A j \in 1..n : s[j] = r[j]
          /\ \A j \in 1..Len(q) : s[n + j] = q[j]
      BY <1>c DEF n
    <3>2. /\ Len(t) = n + Len(c) /\ \A j \in 1..n : t[j] = r[j]
          /\ \A j \in 1..Len(c) : t[n + j] = c[j]
      BY <1>c, <1>2 DEF n
    <3> QED
      BY <3>1, <3>2
  <2>2. n + (Len(q) - d) = n + Len(q) - d
    BY <1>0
  <2> QED
    BY <1>2, <2>1, <2>2
<1> HIDE DEF s, t
<1>a. /\ \A j \in Nat : n < j /\ j <= n + i =>
            /\ j - n \in 1..i /\ j - n \in 1..Len(q) /\ j - n \in 1..(Len(q) - d)
            /\ n + (j - n) = j /\ j <= n + Len(q) /\ j <= n + Len(q) - d
      /\ \A j \in Nat : n + i < j /\ j <= n + Len(q) - d =>
            /\ j - n \in (i + 1)..(Len(q) - d) /\ j - n \in 1..(Len(q) - d) /\ n + (j - n) = j
            /\ (j - n) + d \in 1..Len(q) /\ n + ((j - n) + d) = j + d
            /\ j + d \in 1..(n + Len(q))
      /\ \A j \in Nat : n + i < j /\ j <= n + k =>
            j - n \in (i + 1)..k /\ j - n \in 1..Len(q) /\ n + (j - n) = j
      /\ \A j \in Nat : n + k < j /\ j <= n + Len(q) =>
            /\ (j - n) - d \in (i + 1)..(Len(q) - d) /\ (j - n) - d \in 1..(Len(q) - d)
            /\ n + ((j - n) - d) = j - d /\ ((j - n) - d) + d = j - n
            /\ j - n \in 1..Len(q) /\ n + (j - n) = j /\ j - d \in 1..(n + Len(q) - d)
  BY <1>0, Shifted
<1>4. ASSUME NEW j \in Own(t, p)
      PROVE  /\ j \in Nat
             /\ j <= n + i => j \in Own(s, p) /\ s[j] = t[j]
             /\ j > n + i => j + d \in Own(s, p) /\ s[j + d] = t[j]
  <2>1. j \in Nat /\ 1 <= j /\ j <= n + Len(q) - d /\ t[j][1] = p
    BY <1>0, <1>3 DEF Own
  <2>2. CASE j <= n
    <3>1. j \in 1..n /\ j \in 1..(n + Len(q)) /\ j <= n + i
      BY <1>0, <2>1, <2>2
    <3> QED
      BY <1>0, <1>3, <2>1, <3>1 DEF Own
  <2>3. CASE n < j /\ j <= n + i
    <3>1. /\ j - n \in 1..i /\ j - n \in 1..Len(q) /\ j - n \in 1..(Len(q) - d)
          /\ n + (j - n) = j /\ j \in 1..(n + Len(q))
      BY <1>0, <1>a, <2>1, <2>3
    <3>2. t[j] = q[j - n] /\ s[j] = q[j - n]
      BY <1>2, <1>3, <3>1
    <3> QED
      BY <1>0, <1>3, <2>1, <2>3, <3>1, <3>2 DEF Own
  <2>4. CASE n + i < j
    <3>1. /\ j - n \in (i + 1)..(Len(q) - d) /\ j - n \in 1..(Len(q) - d) /\ n + (j - n) = j
          /\ (j - n) + d \in 1..Len(q) /\ n + ((j - n) + d) = j + d
          /\ j + d \in 1..(n + Len(q))
      BY <1>a, <2>1, <2>4
    <3>2. t[j] = q[(j - n) + d] /\ s[j + d] = q[(j - n) + d]
      BY <1>2, <1>3, <3>1
    <3>3. s[j + d] = t[j] /\ s[j + d][1] = p /\ j + d \in 1..Len(s)
      BY <1>3, <2>1, <3>1, <3>2
    <3>4. j + d \in Own(s, p) /\ ~ (j <= n + i)
      <4>1. n + i \in Nat
        BY <1>0
      <4>2. ~ (j <= n + i)
        BY <2>1, <2>4, <4>1
      <4> QED
        BY <3>3, <4>2 DEF Own
    <3> QED
      BY <2>1, <3>3, <3>4
  <2> QED
    BY <1>0, <2>1, <2>2, <2>3, <2>4
<1>5. ASSUME NEW j \in Own(s, p)
      PROVE  /\ j \in Nat
             /\ \/ j <= n + i /\ j \in Own(t, p) /\ t[j] = s[j]
                \/ j > n + k /\ j - d \in Own(t, p) /\ t[j - d] = s[j]
  <2>1. j \in Nat /\ 1 <= j /\ j <= n + Len(q) /\ s[j][1] = p
    BY <1>0, <1>3 DEF Own
  <2>2. CASE j <= n
    <3>1. j \in 1..n /\ j \in 1..(n + Len(q) - d) /\ j <= n + i
      BY <1>0, <2>1, <2>2
    <3> QED
      BY <1>0, <1>3, <2>1, <3>1 DEF Own
  <2>3. CASE n < j /\ j <= n + i
    <3>1. /\ j - n \in 1..i /\ j - n \in 1..Len(q) /\ j - n \in 1..(Len(q) - d)
          /\ n + (j - n) = j /\ j \in 1..(n + Len(q) - d)
      BY <1>0, <1>a, <2>1, <2>3
    <3>2. t[j] = q[j - n] /\ s[j] = q[j - n]
      BY <1>2, <1>3, <3>1
    <3> QED
      BY <1>3, <2>1, <2>3, <3>1, <3>2 DEF Own
  <2>4. CASE n + i < j /\ j <= n + k
    <3>1. j - n \in (i + 1)..k /\ j - n \in 1..Len(q) /\ n + (j - n) = j
      BY <1>a, <2>1, <2>4
    <3>2. s[j] = q[j - n]
      BY <1>3, <3>1
    <3> QED
      BY <2>1, <3>1, <3>2
  <2>5. CASE n + k < j
    <3>1. /\ (j - n) - d \in (i + 1)..(Len(q) - d) /\ (j - n) - d \in 1..(Len(q) - d)
          /\ n + ((j - n) - d) = j - d /\ ((j - n) - d) + d = j - n
          /\ j - n \in 1..Len(q) /\ n + (j - n) = j /\ j - d \in 1..(n + Len(q) - d)
      BY <1>a, <2>1, <2>5
    <3>2. t[j - d] = q[j - n] /\ s[j] = q[j - n]
      BY <1>2, <1>3, <3>1
    <3> QED
      BY <1>0, <1>3, <2>1, <2>5, <3>1, <3>2 DEF Own
  <2> QED
    BY <1>0, <2>1, <2>2, <2>3, <2>4, <2>5
<1>6. Onwards(s, p, m) /\ Ends(s, p, numbers)
  BY DEF s
<1>7. ASSUME NEW j \in Own(t, p), NEW x \in t[j][2]..m PROVE \E l \in Own(t, p) : t[l][2] = x
  <2>1. PICK g \in Own(s, p) : s[g] = t[j]
    <3>1. j \in Nat /\ n + i \in Nat
      BY <1>0, <1>4
    <3>2. CASE j <= n + i
      BY <1>4, <3>2
    <3>3. CASE j > n + i
      BY <1>4, <3>3
    <3> QED
      BY <3>1, <3>2, <3>3
  <2>2. PICK l \in Own(s, p) : s[l][2] = x
    BY <1>6, <2>1 DEF Onwards
  <2> QED
    BY <1>5, <2>2
<1>8. ASSUME NEW j \in Own(t, p), \A l \in Own(t, p) : l <= j PROVE t[j][2] \in numbers
  <2>1. CASE j <= n + i
    <3>1. ASSUME NEW l \in Own(s, p) PROVE l <= j
      BY <1>3, <1>4, <1>5, <1>8, <1>0, <2>1
    <3> QED
      BY <1>4, <1>6, <2>1, <3>1 DEF Ends
  <2>2. CASE j > n + i
    <3>1. ASSUME NEW l \in Own(s, p) PROVE l <= j + d
      <4>1. CASE l <= n + i
        BY <1>3, <1>4, <1>5, <1>0, <2>2, <4>1
      <4>2. CASE l - d \in Own(t, p)
        <5>1. l - d <= j /\ l \in Nat /\ j \in Nat /\ d \in Nat
          BY <1>0, <1>4, <1>5, <1>8, <3>1, <4>2
        <5> QED
          BY <5>1
      <4> QED
        BY <1>5, <4>1, <4>2
    <3> QED
      BY <1>4, <1>6, <2>2, <3>1 DEF Ends
  <2>3. j \in Nat /\ n + i \in Nat
    BY <1>0, <1>4
  <2> QED
    BY <2>1, <2>2, <2>3
<1>9. Onwards(t, p, m) /\ Ends(t, p, numbers)
  BY <1>7, <1>8 DEF Onwards, Ends
<1> QED
  BY <1>2, <1>9 DEF t, c, u, v

\* The types, and the facts about subscriptions, hold after every step.
LEMMA StreamsTyped ==
    ASSUME EvInv, EvNext
    PROVE  /\ EvTypeOK'
           /\ \A p \in Publishers : at'[p] # "idle" => sent'[p] > 0
           /\ Subscriptions'
<1>0. EvTypeOK /\ Subscriptions
  BY DEF EvInv
<1>1. ASSUME NEW p \in Publishers, SetLast(p) \/ XAdd(p) \/ Publish(p) \/ CommandFails(p)
      PROVE  /\ EvTypeOK'
             /\ \A x \in Publishers : at'[x] # "idle" => sent'[x] > 0
             /\ Subscriptions'
  <2>1. at[p] # "idle" => Current(p) \in Events
    BY Publishing
  <2>2. \A y \in Seq(Events) : at[p] # "idle" => Append(y, Current(p)) \in Seq(Events)
    BY <2>1
  <2>3. CASE SetLast(p)
    BY <1>0, <2>3 DEF SetLast, EvInv, EvTypeOK, Subscriptions
  <2>4. CASE XAdd(p)
    BY <1>0, <2>2, <2>4 DEF XAdd, EvInv, EvTypeOK, Subscriptions
  <2>5. CASE Publish(p)
    <3>1. queue' \in [Browsers -> Seq(Events)]
      BY <1>0, <2>2, <2>5 DEF Publish, EvTypeOK
    <3>2. lost' \in [Browsers -> SUBSET Publishers]
      BY <1>0, <2>5 DEF Publish, EvTypeOK
    <3> QED
      BY <1>0, <2>5, <3>1, <3>2 DEF Publish, EvInv, EvTypeOK, Subscriptions
  <2>6. CASE CommandFails(p)
    BY <1>0, <2>6 DEF CommandFails, EvInv, EvTypeOK, Subscriptions
  <2> QED
    BY <1>1, <2>3, <2>4, <2>5, <2>6
<1>2. ASSUME NEW b \in Browsers,
             \/ Subscribe(b) \/ Activate(b) \/ ReplayRecent(b) \/ Forward(b)
             \/ Disconnect(b) \/ Discard(b) \/ Close(b)
      PROVE  /\ EvTypeOK'
             /\ \A x \in Publishers : at'[x] # "idle" => sent'[x] > 0
             /\ Subscriptions'
  <2>1. CASE Subscribe(b)
    BY <1>0, <2>1 DEF Subscribe, EvInv, EvTypeOK, Subscriptions
  <2>2. CASE Activate(b)
    BY <1>0, <2>2 DEF Activate, EvInv, EvTypeOK, Subscriptions
  <2>3. CASE ReplayRecent(b)
    <3>1. RecentRefreshEvents(stream) \in Seq(Events)
      <4> DEFINE n == IF Len(stream) < Replay THEN Len(stream) ELSE Replay
      <4>1. stream \in Seq(Events) /\ n \in Nat /\ n <= Len(stream)
        BY <1>0, ReplayAssumption DEF EvTypeOK
      <4> HIDE DEF n
      <4>2. \A j \in 1..n : stream[Len(stream) - n + j] \in Events
        BY <4>1
      <4> QED
        BY <4>1, <4>2 DEF RecentRefreshEvents, n
    <3>2. shown' \in [Browsers -> Seq(Events)] /\ losses' \in Nat
      <4>1. CASE shown' = [shown EXCEPT ![b] = RecentRefreshEvents(stream)] /\ losses' = losses
        BY <1>0, <3>1, <4>1 DEF EvTypeOK
      <4>2. CASE losses > 0 /\ losses' = losses - 1 /\ shown' = shown
        BY <1>0, <4>2 DEF EvTypeOK
      <4> QED
        BY <2>3, <4>1, <4>2 DEF ReplayRecent
    <3>3. \A c \in Browsers \ {b} : shown'[c] = shown[c] /\ tab'[c] = tab[c]
      BY <1>0, <2>3 DEF ReplayRecent, EvTypeOK
    <3>4. tab'[b] = "live" /\ tab' \in [Browsers -> {"off", "closed", "subscribed", "live"}]
      BY <1>0, <2>3 DEF ReplayRecent, EvTypeOK
    <3>5. /\ UNCHANGED <<stream, sent, at, active, queue, left, failed>>
          /\ lost' \in [Browsers -> SUBSET Publishers]
      BY <1>0, <2>3 DEF ReplayRecent, EvTypeOK
    <3>6. EvTypeOK'
      BY <1>0, <3>2, <3>4, <3>5 DEF EvTypeOK
    <3>7. Subscriptions'
      BY <1>0, <3>3, <3>4, <3>5 DEF Subscriptions
    <3> QED
      BY <3>5, <3>6, <3>7 DEF EvInv
  <2>4. CASE Forward(b)
    <3>1. Head(queue[b]) \in Events /\ Tail(queue[b]) \in Seq(Events)
      BY <1>0, <2>4 DEF Forward, EvTypeOK
    <3>2. Append(shown[b], Head(queue[b])) \in Seq(Events)
      BY <1>0, <3>1 DEF EvTypeOK
    <3> QED
      BY <1>0, <2>4, <3>1, <3>2 DEF Forward, EvInv, EvTypeOK, Subscriptions
  <2>5. CASE Close(b)
    BY <1>0, <2>5 DEF Close, EvInv, EvTypeOK, Subscriptions
  <2>6. ASSUME NEW i \in Nat, NEW k \in Nat, i <= k, k <= Len(queue[b]), Lose(b, i, k)
        PROVE  /\ queue' \in [Browsers -> Seq(Events)]
               /\ lost' \in [Browsers -> SUBSET Publishers]
               /\ \A c \in Browsers \ {b} : queue'[c] = queue[c] /\ lost'[c] = lost[c]
    <3>1. queue[b] \in Seq(Events)
      BY <1>0 DEF EvTypeOK
    <3>2. SubSeq(queue[b], 1, i) \o SubSeq(queue[b], k + 1, Len(queue[b])) \in Seq(Events)
      <4>1. /\ SubSeq(queue[b], 1, i) \in Seq(Events)
            /\ SubSeq(queue[b], k + 1, Len(queue[b])) \in Seq(Events)
        BY <2>6, <3>1
      <4> QED
        BY <4>1
    <3>3. \A j \in (i + 1)..k : queue[b][j][1] \in Publishers
      BY <2>6, <3>1, EventParts
    <3>4. {queue[b][j][1] : j \in (i + 1)..k} \subseteq Publishers
      BY <3>3
    <3> QED
      BY <1>0, <2>6, <3>2, <3>4 DEF Lose, EvTypeOK
  <2>7. CASE Disconnect(b)
    <3>1. PICK i \in 0..(IF tab[b] = "live" THEN Len(queue[b]) ELSE 0) : Lose(b, i, Len(queue[b]))
      BY <2>7 DEF Disconnect
    <3>2. queue[b] \in Seq(Events) /\ Len(queue[b]) \in Nat
      BY <1>0 DEF EvTypeOK
    <3>3. i \in Nat /\ i <= Len(queue[b]) /\ (tab[b] # "live" => i = 0)
      BY <3>1, <3>2
    <3>4. /\ queue' \in [Browsers -> Seq(Events)] /\ lost' \in [Browsers -> SUBSET Publishers]
          /\ \A c \in Browsers \ {b} : queue'[c] = queue[c]
      BY <2>6, <3>1, <3>2, <3>3
    <3>5. tab[b] # "live" => queue'[b] = <<>>
      <4>1. \A q \in Seq(Events) : SubSeq(q, 1, 0) \o SubSeq(q, Len(q) + 1, Len(q)) = <<>>
        OBVIOUS
      <4> QED
        BY <1>0, <3>1, <3>2, <3>3, <4>1 DEF Lose, EvTypeOK
    <3>6. losses' \in Nat /\ active' = [active EXCEPT ![b] = FALSE]
          /\ UNCHANGED <<stream, sent, at, tab, shown, left, failed>>
      BY <1>0, <2>7 DEF Disconnect, EvTypeOK
    <3> QED
      BY <1>0, <3>4, <3>5, <3>6 DEF EvInv, EvTypeOK, Subscriptions
  <2>8. CASE Discard(b)
    <3>1. Len(queue[b]) \in Nat /\ Buffer \in Nat
      BY <1>0, ReplayAssumption DEF EvTypeOK
    <3>2. Buffer + 1 \in Nat /\ Buffer <= Buffer + 1 /\ Buffer + 1 <= Len(queue[b])
      BY <2>8, <3>1 DEF Discard
    <3>3. /\ queue' \in [Browsers -> Seq(Events)] /\ lost' \in [Browsers -> SUBSET Publishers]
          /\ \A c \in Browsers \ {b} : queue'[c] = queue[c]
      BY <2>6, <2>8, <3>1, <3>2 DEF Discard
    <3>4. losses' \in Nat /\ tab[b] = "live"
          /\ UNCHANGED <<stream, sent, at, tab, active, shown, left, failed>>
      BY <1>0, <2>8 DEF Discard, EvTypeOK
    <3> QED
      BY <1>0, <3>3, <3>4 DEF EvInv, EvTypeOK, Subscriptions
  <2> QED
    BY <1>2, <2>1, <2>2, <2>3, <2>4, <2>5, <2>7, <2>8
<1> QED
  BY <1>1, <1>2 DEF EvNext

\* The commands of a publisher keep the events of every task complete.
LEMMA PublisherComplete ==
    ASSUME EvInv, NEW x \in Publishers, SetLast(x) \/ XAdd(x) \/ Publish(x) \/ CommandFails(x),
           NEW p \in Publishers, p \notin failed'
    PROVE  Complete(p)'
<1>0. /\ stream \in Seq(Events) /\ \A b \in Browsers : queue[b] \in Seq(Events) /\ shown[b] \in Seq(Events)
      /\ sent \in [Publishers -> Nat] /\ at \in [Publishers -> {"idle", "xadd", "publish"}]
  BY DEF EvInv, EvTypeOK
<1>1. p \notin failed /\ Complete(p)
  BY DEF EvInv, Complete, SetLast, XAdd, Publish, CommandFails
<1>2. Added(p) \in Nat /\ Published(p) \in Nat
  BY Publishing
<1>3. Complete(p)' <=>
         /\ Holds(stream', p, Added(p)')
         /\ \A b \in Browsers :
               /\ tab'[b] # "live" => Holds(queue'[b], p, Published(p)')
               /\ tab'[b] = "live" /\ p \notin lost'[b] =>
                     /\ Onwards(Seen(b)', p, Published(p)')
                     /\ Ends(Seen(b)', p, {Added(p)', Published(p)'})
  BY DEF Complete, Holds, Increasing, UpTo, Onwards, Ends, Own
<1>4. CASE SetLast(x)
  <2>1. Added(p)' = Added(p) /\ Published(p)' = Published(p)
    BY <1>0, <1>4 DEF SetLast, Added, Published
  <2>2. UNCHANGED <<stream, queue, shown, lost, tab>> /\ \A b \in Browsers : Seen(b)' = Seen(b)
    BY <1>4 DEF SetLast, Seen
  <2> QED
    BY <1>1, <1>3, <2>1, <2>2 DEF Complete
<1>5. CASE CommandFails(x)
  <2>1. x # p
    BY <1>5 DEF CommandFails
  <2>2. Added(p)' = Added(p) /\ Published(p)' = Published(p)
    BY <1>0, <1>5, <2>1 DEF CommandFails, Added, Published
  <2>3. UNCHANGED <<stream, queue, shown, lost, tab>> /\ \A b \in Browsers : Seen(b)' = Seen(b)
    BY <1>5 DEF CommandFails, Seen
  <2> QED
    BY <1>1, <1>3, <2>2, <2>3 DEF Complete
<1>6. CASE XAdd(x)
  <2>1. /\ stream' = Append(stream, Current(x)) /\ UNCHANGED <<queue, shown, lost, tab>>
        /\ at[x] = "xadd" /\ Current(x) \in Events
        /\ \A b \in Browsers : Seen(b)' = Seen(b)
    BY <1>6, Publishing DEF XAdd, Seen
  <2>2. CASE x = p
    <3>1. /\ Added(p)' = Added(p) + 1 /\ Published(p)' = Published(p) /\ Published(p) = Added(p)
          /\ Current(x) = <<p, Added(p) + 1>>
      BY <1>0, <1>6, <2>1, <2>2, Publishing DEF XAdd, Added, Published, Current
    <3>2. Holds(stream', p, Added(p)')
      <4>1. Holds(stream, p, Added(p)) /\ <<p, Added(p) + 1>> \in Events
        BY <1>1, <2>1, <3>1 DEF Complete
      <4>2. Holds(Append(stream, <<p, Added(p) + 1>>), p, Added(p) + 1)
        BY <1>0, <1>2, <4>1, AppendNext
      <4> QED
        BY <2>1, <3>1, <4>2
    <3>3. ASSUME NEW b \in Browsers, tab[b] = "live", p \notin lost[b]
          PROVE  Ends(Seen(b), p, {Added(p)', Published(p)'})
      BY <1>1, <3>1, <3>3 DEF Complete, Ends
    <3> QED
      BY <1>1, <1>3, <2>1, <3>1, <3>2, <3>3 DEF Complete
  <2>3. CASE x # p
    <3>1. Added(p)' = Added(p) /\ Published(p)' = Published(p)
      BY <1>0, <1>6, <2>3 DEF XAdd, Added, Published
    <3>2. Holds(stream', p, Added(p))
      BY <1>0, <1>1, <2>1, <2>3, AppendOther DEF Complete, Current
    <3> QED
      BY <1>1, <1>3, <2>1, <3>1, <3>2 DEF Complete
  <2> QED
    BY <2>2, <2>3
<1>7. CASE Publish(x)
  <2>1. /\ UNCHANGED <<stream, shown, active, tab>>
        /\ at[x] = "publish" /\ Current(x) \in Events
        /\ \A b \in Browsers :
              /\ active[b] => queue'[b] = Append(queue[b], Current(x)) /\ lost'[b] = lost[b]
              /\ ~active[b] => queue'[b] = queue[b] /\ lost[b] \subseteq lost'[b]
              /\ ~active[b] /\ tab[b] = "live" => x \in lost'[b]
              /\ ~active[b] /\ tab[b] # "live" => queue[b] = <<>>
    BY <1>7, Publishing DEF Publish, EvInv, Subscriptions
  <2>2. ASSUME NEW b \in Browsers, active[b]
        PROVE  Seen(b)' = Append(Seen(b), Current(x)) /\ Seen(b) \in Seq(Events)
    <3>1. \A y, z \in Seq(Events) : \A e \in Events :
             y \o Append(z, e) = Append(y \o z, e) /\ y \o z \in Seq(Events)
      OBVIOUS
    <3>2. shown[b] \in Seq(Events) /\ queue[b] \in Seq(Events) /\ Current(x) \in Events
      BY <1>0, <2>1
    <3>3. /\ shown[b] \o Append(queue[b], Current(x)) = Append(shown[b] \o queue[b], Current(x))
          /\ shown[b] \o queue[b] \in Seq(Events)
      BY <3>1, <3>2
    <3>4. queue'[b] = Append(queue[b], Current(x)) /\ shown' = shown
      BY <2>1, <2>2
    <3> QED
      BY <3>3, <3>4 DEF Seen
  <2>3. \A m : Holds(<<>>, p, m)
    BY DEF Holds, Increasing, UpTo, Onwards, Own
  <2>4. CASE x = p
    <3>1. /\ Added(p)' = Added(p) /\ Published(p)' = Published(p) + 1
          /\ Current(x) = <<p, Published(p) + 1>> /\ Added(p) = Published(p) + 1
      BY <1>0, <1>7, <2>1, <2>4, Publishing DEF Publish, Added, Published, Current
    <3>2. ASSUME NEW b \in Browsers, tab[b] # "live" PROVE Holds(queue'[b], p, Published(p)')
      <4>1. CASE active[b]
        <5>1. /\ Holds(queue[b], p, Published(p)) /\ queue[b] \in Seq(Events)
              /\ <<p, Published(p) + 1>> \in Events
          BY <1>0, <1>1, <2>1, <3>1, <3>2 DEF Complete
        <5>2. Holds(Append(queue[b], <<p, Published(p) + 1>>), p, Published(p) + 1)
          BY <1>2, <5>1, AppendNext
        <5> QED
          BY <2>1, <3>1, <4>1, <5>2
      <4>2. CASE ~active[b]
        BY <2>1, <2>3, <3>2, <4>2
      <4> QED
        BY <4>1, <4>2
    <3>3. ASSUME NEW b \in Browsers, tab[b] = "live", p \notin lost'[b]
          PROVE  /\ Onwards(Seen(b)', p, Published(p)')
                 /\ Ends(Seen(b)', p, {Added(p)', Published(p)'})
      <4>1. active[b] /\ p \notin lost[b]
        BY <2>1, <2>4, <3>3
      <4>2. /\ Onwards(Append(Seen(b), Current(x)), p, Published(p) + 1)
            /\ Ends(Append(Seen(b), Current(x)), p, {Published(p) + 1})
        BY <1>0, <1>1, <1>2, <2>1, <2>2, <3>1, <3>3, <4>1, AppendNext DEF Complete
      <4> QED
        BY <2>2, <3>1, <4>1, <4>2 DEF Ends
    <3> QED
      BY <1>1, <1>3, <2>1, <3>1, <3>2, <3>3 DEF Complete
  <2>5. CASE x # p
    <3>1. Added(p)' = Added(p) /\ Published(p)' = Published(p) /\ Current(x)[1] # p
      BY <1>0, <1>7, <2>5 DEF Publish, Added, Published, Current
    <3>2. ASSUME NEW b \in Browsers, tab[b] # "live" PROVE Holds(queue'[b], p, Published(p))
      <4>1. CASE active[b]
        <5>1. /\ Holds(queue[b], p, Published(p)) /\ queue[b] \in Seq(Events)
              /\ Current(x) \in Events
          BY <1>0, <1>1, <2>1, <3>2 DEF Complete
        <5>2. Holds(Append(queue[b], Current(x)), p, Published(p))
          BY <3>1, <5>1, AppendOther
        <5> QED
          BY <2>1, <4>1, <5>2
      <4>2. CASE ~active[b]
        BY <2>1, <2>3, <3>2, <4>2
      <4> QED
        BY <4>1, <4>2
    <3>3. ASSUME NEW b \in Browsers, tab[b] = "live", p \notin lost'[b]
          PROVE  /\ Onwards(Seen(b)', p, Published(p))
                 /\ Ends(Seen(b)', p, {Added(p), Published(p)})
      <4>1. p \notin lost[b]
        BY <2>1, <3>3
      <4>2. /\ Onwards(Seen(b), p, Published(p))
            /\ Ends(Seen(b), p, {Added(p), Published(p)})
        BY <1>1, <3>3, <4>1 DEF Complete
      <4>3. CASE active[b]
        <5>1. /\ Seen(b)' = Append(Seen(b), Current(x)) /\ Seen(b) \in Seq(Events)
              /\ Current(x) \in Events /\ Current(x)[1] # p
          BY <2>1, <2>2, <3>1, <4>3
        <5> QED
          BY <4>2, <5>1, AppendOther
      <4>4. CASE ~active[b]
        <5>1. Seen(b)' = Seen(b)
          BY <2>1, <4>4 DEF Seen
        <5> QED
          BY <4>2, <5>1
      <4> QED
        BY <4>3, <4>4
    <3> QED
      BY <1>1, <1>3, <2>1, <3>1, <3>2, <3>3 DEF Complete
  <2> QED
    BY <2>4, <2>5
<1> QED
  BY <1>4, <1>5, <1>6, <1>7

\* So do the steps of the handler of a browser.
LEMMA BrowserComplete ==
    ASSUME EvInv, NEW x \in Browsers,
           \/ Subscribe(x) \/ Activate(x) \/ ReplayRecent(x) \/ Forward(x)
           \/ Disconnect(x) \/ Discard(x) \/ Close(x),
           NEW p \in Publishers, p \notin failed'
    PROVE  Complete(p)'
<1>0. /\ stream \in Seq(Events) /\ \A b \in Browsers : queue[b] \in Seq(Events) /\ shown[b] \in Seq(Events)
      /\ queue \in [Browsers -> Seq(Events)] /\ shown \in [Browsers -> Seq(Events)]
      /\ tab \in [Browsers -> {"off", "closed", "subscribed", "live"}]
      /\ lost \in [Browsers -> SUBSET Publishers]
  BY DEF EvInv, EvTypeOK
<1>1. p \notin failed /\ Complete(p)
  BY DEF EvInv, Complete, Subscribe, Activate, ReplayRecent, Forward,
         Disconnect, Discard, Close
<1>2. Added(p) \in Nat /\ Published(p) \in Nat /\ Published(p) <= Added(p)
  BY Publishing
<1>3. Added(p)' = Added(p) /\ Published(p)' = Published(p) /\ stream' = stream
  BY DEF Added, Published, Subscribe, Activate, ReplayRecent, Forward,
         Disconnect, Discard, Close
<1>4. Complete(p)' <=>
         /\ Holds(stream, p, Added(p))
         /\ \A b \in Browsers :
               /\ tab'[b] # "live" => Holds(queue'[b], p, Published(p))
               /\ tab'[b] = "live" /\ p \notin lost'[b] =>
                     /\ Onwards(Seen(b)', p, Published(p))
                     /\ Ends(Seen(b)', p, {Added(p), Published(p)})
  BY <1>3 DEF Complete, Holds, Increasing, UpTo, Onwards, Ends, Own
<1>5. CASE Subscribe(x) \/ Activate(x)
  <2>1. UNCHANGED <<queue, shown, lost>> /\ \A b \in Browsers : Seen(b)' = Seen(b)
    BY <1>5 DEF Subscribe, Activate, Seen
  <2>2. \A b \in Browsers : tab'[b] = "live" <=> tab[b] = "live"
    BY <1>0, <1>5 DEF Subscribe, Activate
  <2> QED
    BY <1>1, <1>4, <2>1, <2>2 DEF Complete
<1>6. CASE ReplayRecent(x)
  <2>1. /\ queue' = queue /\ tab[x] = "subscribed" /\ shown[x] = <<>>
        /\ \/ Seen(x)' = RecentRefreshEvents(stream) \o queue[x]
           \/ Seen(x)' = <<>> \o queue[x]
        /\ \A b \in Browsers \ {x} : Seen(b)' = Seen(b) /\ lost'[b] = lost[b] /\ tab'[b] = tab[b]
        /\ tab'[x] = "live"
    <3>1. tab[x] = "subscribed" /\ shown[x] = <<>>
      BY <1>6 DEF ReplayRecent, EvInv, Subscriptions
    <3> QED
      BY <1>0, <1>6, <3>1 DEF ReplayRecent, Seen
  <2>2. /\ RecentRefreshEvents(stream) \in Seq(Events)
        /\ Holds(RecentRefreshEvents(stream), p, Added(p))
    BY <1>0, <1>1, <1>2, RecentHolds DEF Complete
  <2>3. /\ Onwards(Seen(x)', p, Published(p))
        /\ Ends(Seen(x)', p, {Added(p), Published(p)})
    <3>1. queue[x] \in Seq(Events) /\ Holds(queue[x], p, Published(p))
      BY <1>0, <1>1, <2>1 DEF Complete
    <3>2. PICK r \in Seq(Events) : Seen(x)' = r \o queue[x] /\ Holds(r, p, Added(p))
      <4>1. <<>> \in Seq(Events) /\ Holds(<<>>, p, Added(p))
        BY DEF Holds, Increasing, UpTo, Onwards, Own
      <4> QED
        BY <2>1, <2>2, <4>1
    <3>3. /\ Onwards(r \o queue[x], p, Published(p))
          /\ Ends(r \o queue[x], p, {Added(p), Published(p)})
      BY <1>2, <3>1, <3>2, JoinHolds
    <3> QED
      BY <3>2, <3>3
  <2> QED
    BY <1>1, <1>4, <2>1, <2>3 DEF Complete
<1>7. CASE Forward(x)
  <2>1. /\ queue[x] # <<>> /\ tab[x] = "live" /\ tab' = tab
        /\ Seen(x)' = Append(shown[x], Head(queue[x])) \o Tail(queue[x])
        /\ lost' = lost
        /\ \A b \in Browsers \ {x} : Seen(b)' = Seen(b) /\ queue'[b] = queue[b]
    BY <1>0, <1>7 DEF Forward, Seen
  <2>2. Append(shown[x], Head(queue[x])) \o Tail(queue[x]) = shown[x] \o queue[x]
    <3>1. \A a, c \in Seq(Events) : c # <<>> => Append(a, Head(c)) \o Tail(c) = a \o c
      OBVIOUS
    <3> QED
      BY <1>0, <2>1, <3>1
  <2>3. Seen(x)' = Seen(x)
    BY <2>1, <2>2 DEF Seen
  <2> QED
    BY <1>1, <1>4, <2>1, <2>3 DEF Complete
<1>l. ASSUME NEW i \in Nat, NEW k \in Nat, i <= k, k <= Len(queue[x]), Lose(x, i, k),
             tab' = tab, shown' = shown, tab[x] # "live" => i = 0 /\ k = Len(queue[x])
      PROVE  Complete(p)'
  <2> DEFINE q == queue[x]
  <2>1. /\ q \in Seq(Events)
        /\ queue'[x] = SubSeq(q, 1, i) \o SubSeq(q, k + 1, Len(q))
        /\ lost'[x] = lost[x] \cup {q[j][1] : j \in (i + 1)..k}
        /\ \A b \in Browsers \ {x} : queue'[b] = queue[b] /\ lost'[b] = lost[b]
    BY <1>0, <1>l DEF Lose
  <2> HIDE DEF q
  <2>2. \A b \in Browsers \ {x} : Seen(b)' = Seen(b)
    BY <1>l, <2>1 DEF Seen
  <2>3. ASSUME tab[x] = "live", p \notin lost'[x]
        PROVE  /\ Onwards(Seen(x)', p, Published(p))
               /\ Ends(Seen(x)', p, {Added(p), Published(p)})
    <3>1. p \notin lost[x] /\ \A j \in (i + 1)..k : q[j][1] # p
      BY <2>1, <2>3
    <3>2. shown[x] \in Seq(Events) /\ Seen(x) = shown[x] \o q
      BY <1>0 DEF Seen, q
    <3>3. /\ Onwards(shown[x] \o q, p, Published(p))
          /\ Ends(shown[x] \o q, p, {Added(p), Published(p)})
      BY <1>1, <2>3, <3>1, <3>2 DEF Complete
    <3>4. Seen(x)' = shown[x] \o (SubSeq(q, 1, i) \o SubSeq(q, k + 1, Len(q)))
      BY <1>l, <2>1 DEF Seen
    <3>5. k <= Len(q)
      BY <1>l DEF q
    <3> DEFINE r == shown[x]
               m == Published(p)
               nums == {Added(p), m}
    <3>6. r \in Seq(Events) /\ m \in Nat /\ Onwards(r \o q, p, m) /\ Ends(r \o q, p, nums)
      BY <1>2, <3>2, <3>3
    <3>7. Seen(x)' = r \o (SubSeq(q, 1, i) \o SubSeq(q, k + 1, Len(q)))
      BY <3>4
    <3> HIDE DEF r, m, nums
    <3>8. /\ Onwards(r \o (SubSeq(q, 1, i) \o SubSeq(q, k + 1, Len(q))), p, m)
          /\ Ends(r \o (SubSeq(q, 1, i) \o SubSeq(q, k + 1, Len(q))), p, nums)
      BY <1>l, <2>1, <3>1, <3>5, <3>6, LoseOthers
    <3> QED
      BY <3>7, <3>8 DEF r, m, nums
  <2>4. ASSUME tab[x] # "live" PROVE Holds(queue'[x], p, Published(p))
    <3>1. i = 0 /\ k = Len(q)
      BY <1>l, <2>4 DEF q
    <3>2. \A y \in Seq(Events) : SubSeq(y, 1, 0) \o SubSeq(y, Len(y) + 1, Len(y)) = <<>>
      OBVIOUS
    <3>3. Holds(<<>>, p, Published(p))
      BY DEF Holds, Increasing, UpTo, Onwards, Own
    <3> QED
      BY <2>1, <3>1, <3>2, <3>3
  <2> QED
    BY <1>1, <1>4, <1>l, <2>1, <2>2, <2>3, <2>4 DEF Complete
<1>8. CASE Close(x)
  <2>1. /\ queue'[x] = <<>> /\ tab'[x] = "closed"
        /\ \A b \in Browsers \ {x} : /\ Seen(b)' = Seen(b) /\ queue'[b] = queue[b]
                                     /\ lost'[b] = lost[b] /\ tab'[b] = tab[b]
    BY <1>0, <1>8 DEF Close, Seen
  <2>2. \A m : Holds(<<>>, p, m)
    BY DEF Holds, Increasing, UpTo, Onwards, Own
  <2> QED
    BY <1>1, <1>4, <2>1, <2>2 DEF Complete
<1>9. CASE Disconnect(x)
  <2>1. PICK i \in 0..(IF tab[x] = "live" THEN Len(queue[x]) ELSE 0) : Lose(x, i, Len(queue[x]))
    BY <1>9 DEF Disconnect
  <2>2. Len(queue[x]) \in Nat
    BY <1>0
  <2>3. i \in Nat /\ i <= Len(queue[x]) /\ (tab[x] # "live" => i = 0)
    BY <2>1, <2>2
  <2>4. tab' = tab /\ shown' = shown
    BY <1>9 DEF Disconnect
  <2> QED
    BY <1>l, <2>1, <2>2, <2>3, <2>4
<1>10. CASE Discard(x)
  <2>1. Len(queue[x]) \in Nat /\ Buffer \in Nat
    BY <1>0, ReplayAssumption
  <2>2. Buffer + 1 \in Nat /\ Buffer <= Buffer + 1 /\ Buffer + 1 <= Len(queue[x])
    BY <1>10, <2>1 DEF Discard
  <2>3. tab' = tab /\ shown' = shown /\ tab[x] = "live" /\ Lose(x, Buffer, Buffer + 1)
    BY <1>10 DEF Discard
  <2> QED
    BY <1>l, <2>1, <2>2, <2>3
<1> QED
  BY <1>5, <1>6, <1>7, <1>8, <1>9, <1>10

\* The invariant holds at first, and after every step.
LEMMA EvInvInit == EvInit => EvInv
<1>1. EvInit => EvTypeOK
  BY EvBudgetsAssumption DEF EvInit, EvTypeOK
<1>2. \A p, m : Holds(<<>>, p, m)
  BY DEF Holds, Increasing, UpTo, Onwards, Own
<1> QED
  BY <1>1, <1>2 DEF EvInit, EvInv, Complete, Subscriptions

\* No step of a publisher or of a browser breaks it.
LEMMA EvInvStep == EvInv /\ [EvNext]_evVars => EvInv'
<1>1. ASSUME EvInv, EvNext PROVE EvInv'
  <2>1. \A p \in Publishers : p \notin failed' => Complete(p)'
    BY <1>1, PublisherComplete, BrowserComplete DEF EvNext
  <2> QED
    BY <1>1, <2>1, StreamsTyped DEF EvInv
<1>2. ASSUME EvInv, UNCHANGED evVars PROVE EvInv'
  <2>1. UNCHANGED <<stream, sent, at, tab, active, queue, shown, left, losses, lost, failed>>
    BY <1>2 DEF evVars
  <2>2. \A p \in Publishers : UNCHANGED <<Added(p), Published(p)>>
    BY <2>1 DEF Added, Published
  <2>3. \A b \in Browsers : UNCHANGED Seen(b)
    BY <2>1 DEF Seen
  <2>4. ASSUME NEW p \in Publishers, p \notin failed PROVE Complete(p)'
    <3>1. Complete(p)
      BY <1>2, <2>4 DEF EvInv
    <3>2. Complete(p)' <=>
             /\ Holds(stream', p, Added(p)')
             /\ \A b \in Browsers :
                   /\ tab'[b] # "live" => Holds(queue'[b], p, Published(p)')
                   /\ tab'[b] = "live" /\ p \notin lost'[b] =>
                         /\ Onwards(Seen(b)', p, Published(p)')
                         /\ Ends(Seen(b)', p, {Added(p)', Published(p)'})
      BY DEF Complete, Holds, Increasing, UpTo, Onwards, Ends, Own
    <3> QED
      BY <2>1, <2>2, <2>3, <2>4, <3>1, <3>2 DEF Complete
  <2> QED
    BY <1>2, <2>1, <2>4 DEF EvInv, EvTypeOK, Subscriptions
<1> QED
  BY <1>1, <1>2

\* An open browser misses no event of a task from the first one it shows on, and
\* ends with the latest one, unless a message of that task was lost on its way,
\* for any number of tasks, browsers, replayed and buffered events.
THEOREM BrowserMissesNothing == EvSpec => []EventsShown
<1>1. ASSUME EvInv PROVE EventsShown
  <2>1. SUFFICES ASSUME NEW b \in Browsers, NEW p \in Publishers, tab[b] = "live",
                        p \notin lost[b], at[p] = "idle", p \notin failed, NEW j \in Own(Seen(b), p)
                 PROVE  /\ (\A k \in Own(Seen(b), p) : k <= j) => Seen(b)[j] = Current(p)
                        /\ \A n \in Seen(b)[j][2]..sent[p] :
                              \E k \in Own(Seen(b), p) : Seen(b)[k][2] = n
    BY DEF EventsShown
  <2>2. Added(p) = sent[p] /\ Published(p) = sent[p]
    BY <2>1 DEF Added, Published
  <2>3. Onwards(Seen(b), p, sent[p]) /\ Ends(Seen(b), p, {sent[p]})
    BY <1>1, <2>1, <2>2 DEF EvInv, Complete
  <2>4. Seen(b) \in Seq(Events)
    BY <1>1 DEF EvInv, EvTypeOK, Seen
  <2>5. Seen(b)[j] = <<p, Seen(b)[j][2]>>
    BY <2>4, EventParts DEF Own
  <2> QED
    BY <2>3, <2>5 DEF Onwards, Ends, Current
<1> QED
  BY <1>1, EvInvInit, EvInvStep, PTL DEF EvSpec

-----------------------------------------------------------------------------
(***************************************************************************)
(* The health of Agents.                                                   *)
(***************************************************************************)
HealthRun == [step : Steps, ok : BOOLEAN, prev : Statuses \cup {None},
              status : Statuses \cup {None}, n : Nat, alone : BOOLEAN]

HealthTyped ==
    /\ row \in [Agents -> HealthRow \cup {None}]
    /\ unread \in [Agents -> Nat]
    /\ cached \in [Agents -> Nat \cup {None}]
    /\ acked \in [Agents -> BOOLEAN] /\ tainted \in [Agents -> BOOLEAN]
    /\ mark \in [Agents -> BOOLEAN]
    /\ kind \in [Workers -> AllKinds \cup {"check", "off", None}]
    /\ round \in [Instances -> {"idle", "listed", "batch", "off"}]
    /\ work \in [Workers -> [Agents -> HealthRun]]

\* Who may be busy: the loop of an instance in its round, a request that was made.
Places ==
    /\ \A i \in Instances : /\ kind[i] = "check"
                            /\ round[i] # "batch" => \A a \in Agents : ~Busy(i, a)
    /\ \A r \in Requests : kind[r] \in {None, "off"} => \A a \in Agents : work[r][a].step = "idle"
    /\ \A w \in Workers, a \in Agents :
          /\ work[w][a].step \in {"remove", "uncache"} => kind[w] = "delete"
          /\ work[w][a].step \in {"snapshot", "write", "cache", "select", "insert"} => kind[w] # "delete"

\* A run that counts as alone is, and after an overlap the Agent is tainted.
Overlaps(a) ==
    \A w \in Workers : Busy(w, a) =>
        /\ work[w][a].alone => ~OthersBusy(w, a)
        /\ ~tainted[a] => work[w][a].alone

\* What was shown of an Agent whose status was prev.
Noted(a, prev) ==
    /\ prev = "Online" => unread[a] = 0
    /\ prev = "Offline" => unread[a] = 1 \/ (unread[a] = 0 /\ acked[a])

\* The row is what the run has written, and the health key too while it lives.
Written(a, run) == row[a] # None /\ run.status = row[a].status /\ run.n = row[a].failures
Cached(a, run) == Written(a, run) /\ cached[a] \in {run.n, None}

\* What a run that is alone has done so far.
Progress(a, k, run) ==
    CASE run.step \in {"snapshot", "remove"} -> run.status = None /\ (~tainted[a] => Shows(a))
      [] run.step = "write" ->
            /\ run.prev = IF row[a] = None THEN None ELSE row[a].status
            /\ run.status = None
            /\ ~tainted[a] => Shows(a)
      [] run.step = "cache" ->
            /\ Written(a, run) /\ run.prev \in Statuses
            /\ run.ok => run.status = "Online"
            /\ ~run.ok /\ run.status = "Online" => run.prev = "Online" /\ k # "manual"
            /\ ~tainted[a] => Noted(a, run.prev)
      [] run.step = "dismiss" ->
            \/ k = "delete" /\ row[a] = None /\ run.status = None
            \/ row[a] = None /\ run.status = None /\ (~tainted[a] => Shows(a))
            \/ k # "delete" /\ Cached(a, run) /\ run.status = "Online"
      [] run.step = "select" ->
            /\ Cached(a, run) /\ run.status = "Offline"
            /\ ~tainted[a] => unread[a] \in {0, 1}
      [] run.step = "insert" ->
            /\ Cached(a, run) /\ run.status = "Offline"
            /\ ~tainted[a] => unread[a] = 0
      [] run.step = "invalidate" ->
            IF k = "delete" THEN row[a] = None /\ unread[a] = 0 /\ run.status = None
            ELSE ~tainted[a] \/ run.status = "Online" => Shows(a)
      [] run.step = "uncache" -> row[a] = None /\ unread[a] = 0 /\ run.status = None
      [] OTHER -> TRUE

Settles(a) ==
    /\ Overlaps(a)
    /\ (\A w \in Workers : ~Busy(w, a)) /\ ~tainted[a] => Shows(a)
    /\ \A w \in Workers : Busy(w, a) /\ work[w][a].alone => Progress(a, kind[w], work[w][a])

HealthInv == HealthTyped /\ Places /\ \A a \in Agents : Settles(a)

\* Facts about None and about the strings of the model.
LEMMA HealthTypes ==
    /\ None \notin Nat /\ None \notin Statuses /\ None \notin HealthRow
    /\ None # "delete" /\ None # "check" /\ None # "off" /\ \A k \in AllKinds : k # None
    /\ Idle \in HealthRun /\ Limit \in Nat /\ Limit >= 1
BY NoneAssumption, LimitAssumption DEF Statuses, AllKinds, HealthRun, Idle, Steps

\* Nothing runs in the initial states, and what is shown is right.
LEMMA HealthInit == Init => HealthInv
<1> SUFFICES ASSUME Init PROVE HealthInv
  OBVIOUS
<1>1. \A w \in Workers, a \in Agents : work[w][a] = Idle /\ ~Busy(w, a)
  BY DEF Init, Busy, Idle
<1>2. \A w \in Workers : kind[w] \in {"check", None, "off"} /\ (w \in Instances => kind[w] = "check")
  BY DEF Init, Workers
<1>3. HealthTyped
  <2>1. PICK b \in Budgets :
          /\ round = [i \in Instances |-> IF i \in b.loops THEN "idle" ELSE "off"]
          /\ kind = [w \in Workers |-> IF w \in Instances THEN "check"
                                       ELSE IF w \in b.requests THEN None ELSE "off"]
    BY DEF Init
  <2>2. /\ round \in [Instances -> {"idle", "listed", "batch", "off"}]
        /\ kind \in [Workers -> AllKinds \cup {"check", "off", None}]
    BY <2>1
  <2>3. row \in [Agents -> HealthRow \cup {None}]
    BY DEF Init, HealthRow, Statuses
  <2>4. work \in [Workers -> [Agents -> HealthRun]]
    BY HealthTypes DEF Init
  <2> QED
    BY <2>2, <2>3, <2>4 DEF Init, HealthTyped
<1>4. Places
  <2>1. \A i \in Instances : i \in Workers
    BY DEF Workers
  <2>2. \A r \in Requests : r \in Workers
    BY DEF Workers
  <2> QED
    BY <1>1, <1>2, <2>1, <2>2 DEF Places, Idle
<1>5. ASSUME NEW a \in Agents PROVE Settles(a)
  <2>1. row[a] = [status |-> "Online", failures |-> 0] /\ unread[a] = 0 /\ cached[a] = None
    BY DEF Init
  <2>2. row[a] # None
    BY <2>1, HealthTypes DEF HealthRow, Statuses
  <2>3. Shows(a)
    BY <2>1, <2>2 DEF Shows
  <2> QED
    BY <1>1, <2>3 DEF Settles, Overlaps
<1> QED
  BY <1>3, <1>4, <1>5 DEF HealthInv

\* Everything that is kept about the agent b, but for requests that wait.
Same(b) ==
    /\ row'[b] = row[b] /\ unread'[b] = unread[b] /\ cached'[b] = cached[b]
    /\ acked'[b] = acked[b] /\ tainted'[b] = tainted[b]
    /\ \A w \in Workers :
          /\ Busy(w, b) => work'[w][b] = work[w][b] /\ kind'[w] = kind[w]
          /\ ~Busy(w, b) => work'[w][b].step \in {"idle", "queued"}

\* A step on other Agents leaves what holds of b.
LEMMA Untouched ==
    ASSUME NEW b \in Agents, Same(b), Settles(b)
    PROVE  Settles(b)'
<1>1. \A w \in Workers : Busy(w, b)' <=> Busy(w, b)
  BY DEF Same, Busy
<1>2. \A w \in Workers : OthersBusy(w, b)' <=> OthersBusy(w, b)
  BY <1>1 DEF OthersBusy
<1>3. Shows(b)' <=> Shows(b)
  BY DEF Same, Shows
<1>4. Overlaps(b)'
  BY <1>1, <1>2 DEF Overlaps, Settles, Same
<1>5. ASSUME NEW w \in Workers, Busy(w, b)', work'[w][b].alone
      PROVE  Progress(b, kind[w], work[w][b])'
  <2>1. Busy(w, b) /\ work'[w][b] = work[w][b] /\ kind'[w] = kind[w]
    BY <1>1, <1>5 DEF Same
  <2>2. Progress(b, kind[w], work[w][b])
    BY <2>1, <1>5 DEF Settles
  <2>3. Progress(b, kind[w], work[w][b])' <=> Progress(b, kind[w], work[w][b])
    BY <2>1, <1>3 DEF Progress, Written, Cached, Noted, Same
  <2> QED
    BY <2>2, <2>3
<1> QED
  BY <1>1, <1>3, <1>4, <1>5 DEF Settles, Same

\* What a step of w on a leaves alone: every other Agent, and what the other
\* workers do on a.
Elsewhere(w, a) ==
    /\ \A b \in Agents \ {a} : Same(b)
    /\ \A v \in Workers \ {w} : work'[v][a] = work[v][a] /\ (Busy(v, a) => kind'[v] = kind[v])

\* While a worker is busy with an Agent, only its own next step matters: the run
\* of another one does not count as alone.
LEMMA Continues ==
    ASSUME NEW w \in Workers, NEW a \in Agents, NEW run \in HealthRun, Settles(a), Busy(w, a),
           Elsewhere(w, a), work'[w][a] = run, run.step \notin {"idle", "queued"},
           run.alone = work[w][a].alone, tainted'[a] = tainted[a],
           run.alone => Progress(a, kind[w], run)', kind'[w] = kind[w]
    PROVE  Settles(a)'
<1>1. \A v \in Workers : Busy(v, a)' <=> Busy(v, a)
  BY DEF Elsewhere, Busy
<1>2. \A v \in Workers : OthersBusy(v, a)' <=> OthersBusy(v, a)
  BY <1>1 DEF OthersBusy
<1>3. \A v \in Workers : work'[v][a].alone = work[v][a].alone
  BY DEF Elsewhere
<1>4. Overlaps(a)'
  BY <1>1, <1>2, <1>3 DEF Overlaps, Settles
<1>5. ASSUME NEW v \in Workers, Busy(v, a)', work'[v][a].alone
      PROVE  Progress(a, kind[v], work[v][a])'
  <2>1. v = w
    BY <1>1, <1>3, <1>5 DEF Settles, Overlaps, OthersBusy
  <2> QED
    BY <2>1, <1>5
<1> QED
  BY <1>1, <1>4, <1>5 DEF Settles

\* A run ends: what it leaves is right, if it was alone and there was nothing to
\* put right or it has done so.
LEMMA RunIsOver ==
    ASSUME NEW w \in Workers, NEW a \in Agents, Settles(a), Busy(w, a), Elsewhere(w, a),
           work'[w][a] = Idle, tainted \in [Agents -> BOOLEAN],
           tainted'[a] = (tainted[a] /\ ~PutsRight(w, a)),
           work[w][a].alone /\ (~tainted[a] \/ PutsRight(w, a)) => Shows(a)'
    PROVE  Settles(a)'
<1>1. /\ ~Busy(w, a)'
      /\ \A v \in Workers \ {w} : Busy(v, a)' <=> Busy(v, a)
  BY DEF Elsewhere, Busy, Idle
<1>2. CASE \E v \in Workers \ {w} : Busy(v, a)
  <2>1. tainted[a] /\ ~work[w][a].alone
    BY <1>2 DEF Settles, Overlaps, OthersBusy
  <2>2. tainted'[a]
    BY <2>1 DEF PutsRight
  <2>3. \A v \in Workers \ {w} : Busy(v, a) => ~work[v][a].alone
    BY DEF Settles, Overlaps, OthersBusy
  <2>4. \A v \in Workers : Busy(v, a)' => v # w /\ ~work'[v][a].alone
    BY <1>1, <2>3 DEF Elsewhere
  <2> QED
    BY <2>2, <2>4 DEF Settles, Overlaps
<1>3. CASE \A v \in Workers \ {w} : ~Busy(v, a)
  <2>1. \A v \in Workers : ~Busy(v, a)'
    BY <1>1, <1>3
  <2>2. ~tainted'[a] => work[w][a].alone
    BY DEF Settles, Overlaps, PutsRight
  <2>3. ~tainted'[a] => Shows(a)'
    BY <2>2
  <2> QED
    BY <2>1, <2>3 DEF Settles, Overlaps
<1> QED
  BY <1>2, <1>3

\* A run is cut short: the Agent is tainted until the next clean run.
LEMMA CutShort ==
    ASSUME NEW w \in Workers, NEW a \in Agents, NEW run \in HealthRun, Settles(a), Busy(w, a),
           \A v \in Workers \ {w} : work'[v][a] = work[v][a],
           work'[w][a] = run, run = Idle \/ ~run.alone, tainted'[a] = TRUE
    PROVE  Settles(a)'
<1>1. \A v \in Workers \ {w} : Busy(v, a)' <=> Busy(v, a)
  BY DEF Busy
<1>2. \A v \in Workers \ {w} : Busy(v, a) => ~work[v][a].alone
  BY DEF Settles, Overlaps, OthersBusy
<1>3. Busy(w, a)' => ~work'[w][a].alone
  BY DEF Busy, Idle
<1>4. \A v \in Workers : Busy(v, a)' => ~work'[v][a].alone
  BY <1>1, <1>2, <1>3
<1> QED
  BY <1>4 DEF Settles, Overlaps

\* A worker joins: it counts as alone when nobody else is busy, and then finds
\* what is shown as it should be, unless the Agent was tainted before.
LEMMA JoinsIn ==
    ASSUME NEW w \in Workers, NEW a \in Agents, NEW run \in HealthRun, HealthTyped, Settles(a),
           ~Busy(w, a), Joins(w, a, run), run.step \in {"snapshot", "remove"}, run.status = None,
           row' = row, unread' = unread, cached' = cached, acked' = acked,
           \A v \in Workers : Busy(v, a) => kind'[v] = kind[v]
    PROVE  /\ work' \in [Workers -> [Agents -> HealthRun]]
           /\ tainted' \in [Agents -> BOOLEAN]
           /\ work'[w][a].step = run.step
           /\ \A v \in Workers, b \in Agents : v # w \/ b # a => work'[v][b].step = work[v][b].step
           /\ \A v \in Workers, b \in Agents : b # a => work'[v][b] = work[v][b]
           /\ \A b \in Agents : b # a => tainted'[b] = tainted[b]
           /\ Settles(a)'
<1> DEFINE new(v, b) == IF v = w /\ b = a THEN [run EXCEPT !.alone = ~OthersBusy(w, a)]
                        ELSE IF b = a /\ Busy(v, a) THEN [work[v][b] EXCEPT !.alone = FALSE]
                        ELSE work[v][b]
<1>1. \A v \in Workers, b \in Agents : new(v, b) \in HealthRun
  <2>1. \A v \in Workers, b \in Agents : work[v][b] \in HealthRun
    BY DEF HealthTyped
  <2>2. OthersBusy(w, a) \in BOOLEAN
    BY DEF OthersBusy
  <2>3. \A r \in HealthRun : [r EXCEPT !.alone = FALSE] \in HealthRun
    BY DEF HealthRun
  <2>4. [run EXCEPT !.alone = ~OthersBusy(w, a)] \in HealthRun
    BY <2>2 DEF HealthRun
  <2> QED
    BY <2>1, <2>3, <2>4
<1>2. work' = [v \in Workers |-> [b \in Agents |-> new(v, b)]]
  BY DEF Joins
<1>3. work' \in [Workers -> [Agents -> HealthRun]] /\ \A v \in Workers, b \in Agents : work'[v][b] = new(v, b)
  BY <1>1, <1>2
<1>4. \A v \in Workers, b \in Agents : work[v][b] \in HealthRun
  BY DEF HealthTyped
<1>5. /\ \A v \in Workers, b \in Agents : v # w \/ b # a => work'[v][b].step = work[v][b].step
      /\ \A v \in Workers, b \in Agents : b # a => work'[v][b] = work[v][b]
      /\ work'[w][a] = [run EXCEPT !.alone = ~OthersBusy(w, a)]
      /\ \A v \in Workers : v # w /\ Busy(v, a) => ~work'[v][a].alone
  <2>1. \A r \in HealthRun : [r EXCEPT !.alone = FALSE].step = r.step /\ ~[r EXCEPT !.alone = FALSE].alone
    BY DEF HealthRun
  <2>2. ASSUME NEW v \in Workers, NEW b \in Agents, v # w \/ b # a
        PROVE  work'[v][b].step = work[v][b].step /\ (b # a => work'[v][b] = work[v][b])
    <3>1. new(v, b) = IF b = a /\ Busy(v, a) THEN [work[v][b] EXCEPT !.alone = FALSE] ELSE work[v][b]
      BY <2>2
    <3> HIDE DEF new
    <3>2. work'[v][b] = IF b = a /\ Busy(v, a) THEN [work[v][b] EXCEPT !.alone = FALSE] ELSE work[v][b]
      BY <1>3, <3>1
    <3> QED
      BY <1>4, <2>1, <3>2
  <2>3. ASSUME NEW v \in Workers, v # w, Busy(v, a)
        PROVE  ~work'[v][a].alone
    <3>1. new(v, a) = [work[v][a] EXCEPT !.alone = FALSE]
      BY <2>3
    <3> HIDE DEF new
    <3> QED
      BY <1>3, <1>4, <2>1, <3>1
  <2>4. new(w, a) = [run EXCEPT !.alone = ~OthersBusy(w, a)]
    OBVIOUS
  <2> HIDE DEF new
  <2>5. work'[w][a] = [run EXCEPT !.alone = ~OthersBusy(w, a)]
    BY <1>3, <2>4
  <2> QED
    BY <2>2, <2>3, <2>5
<1>6. work'[w][a].step = run.step /\ work'[w][a].status = None /\ work'[w][a].alone = ~OthersBusy(w, a)
  BY <1>5 DEF HealthRun
<1>7. /\ tainted' \in [Agents -> BOOLEAN]
      /\ tainted'[a] = (tainted[a] \/ OthersBusy(w, a))
      /\ \A b \in Agents : b # a => tainted'[b] = tainted[b]
  <2>1. tainted \in [Agents -> BOOLEAN] /\ OthersBusy(w, a) \in BOOLEAN
    BY DEF HealthTyped, OthersBusy
  <2> QED
    BY <2>1 DEF Joins
<1>8. /\ \A v \in Workers : v # w => (Busy(v, a)' <=> Busy(v, a))
      /\ Busy(w, a)'
  BY <1>5, <1>6 DEF Busy
<1>9. Settles(a)'
  <2>1. CASE OthersBusy(w, a)
    <3>1. tainted'[a] /\ \A v \in Workers : Busy(v, a)' => ~work'[v][a].alone
      BY <2>1, <1>5, <1>6, <1>7, <1>8
    <3> QED
      BY <3>1 DEF Settles, Overlaps
  <2>2. CASE ~OthersBusy(w, a)
    <3>1. \A v \in Workers : Busy(v, a)' => v = w
      BY <2>2, <1>8 DEF OthersBusy
    <3>2. ~tainted[a] => Shows(a)
      BY <2>2 DEF Settles, OthersBusy
    <3>3. Shows(a)' <=> Shows(a)
      BY DEF Shows
    <3>4. tainted'[a] = tainted[a] /\ work'[w][a].alone
      BY <2>2, <1>6, <1>7 DEF HealthTyped
    <3>5. Progress(a, kind[w], work[w][a])'
      BY <1>6, <3>2, <3>3, <3>4 DEF Progress
    <3>6. ~OthersBusy(w, a)'
      BY <3>1 DEF OthersBusy
    <3> QED
      BY <1>8, <3>1, <3>4, <3>5, <3>6 DEF Settles, Overlaps
  <2> QED
    BY <2>1, <2>2
<1> QED
  BY <1>3, <1>5, <1>6, <1>7, <1>9

\* The fields of the other Agents, and the types of all, after a step on a.
OnlyOn(a) ==
    /\ \A b \in Agents \ {a} :
          /\ row'[b] = row[b] /\ unread'[b] = unread[b] /\ cached'[b] = cached[b]
          /\ acked'[b] = acked[b] /\ tainted'[b] = tainted[b]
    /\ row' \in [Agents -> HealthRow \cup {None}]
    /\ unread' \in [Agents -> Nat]
    /\ cached' \in [Agents -> Nat \cup {None}]
    /\ acked' \in [Agents -> BOOLEAN] /\ tainted' \in [Agents -> BOOLEAN]
    /\ mark' \in [Agents -> BOOLEAN]

\* What the next step of one run leaves as it was.
LEMMA RunGoesOn ==
    ASSUME NEW w \in Workers, NEW a \in Agents, NEW run \in HealthRun, HealthInv, Busy(w, a),
           work' = [work EXCEPT ![w][a] = run], kind' = kind, round' = round, OnlyOn(a),
           run.step \in {"remove", "uncache"} => kind[w] = "delete",
           run.step \in {"snapshot", "write", "cache", "select", "insert"} => kind[w] # "delete"
    PROVE  HealthTyped' /\ Places' /\ Elsewhere(w, a) /\ work'[w][a] = run
<1>1. /\ work' \in [Workers -> [Agents -> HealthRun]]
      /\ work'[w][a] = run
      /\ \A v \in Workers, b \in Agents : v # w \/ b # a => work'[v][b] = work[v][b]
  <2>1. /\ work \in [Workers -> [Agents -> HealthRun]]
        /\ work' = [work EXCEPT ![w] = [work[w] EXCEPT ![a] = run]]
    BY DEF HealthInv, HealthTyped
  <2>2. [work[w] EXCEPT ![a] = run] \in [Agents -> HealthRun]
    BY <2>1
  <2> QED
    BY <2>1, <2>2
<1>2. HealthTyped'
  BY <1>1 DEF HealthInv, HealthTyped, OnlyOn
<1>3. Places'
  <2>1. Places
    BY DEF HealthInv
  <2>2. \A v \in Workers, b \in Agents : v # w \/ b # a => (Busy(v, b)' <=> Busy(v, b))
    BY <1>1 DEF Busy
  <2>3. ASSUME NEW i \in Instances
        PROVE  kind'[i] = "check" /\ (round'[i] # "batch" => \A b \in Agents : ~Busy(i, b)')
    <3>1. i \in Workers
      BY DEF Workers
    <3>2. i = w => round[i] = "batch"
      BY <2>1 DEF Places
    <3> QED
      BY <2>1, <2>2, <3>1, <3>2 DEF Places
  <2>4. ASSUME NEW r \in Requests, kind'[r] \in {None, "off"}, NEW b \in Agents
        PROVE  work'[r][b].step = "idle"
    <3>1. r \in Workers /\ r # w
      BY <2>1, <2>4 DEF Places, Workers, Busy
    <3> QED
      BY <1>1, <2>1, <2>4, <3>1 DEF Places
  <2>5. ASSUME NEW v \in Workers, NEW b \in Agents
        PROVE  /\ work'[v][b].step \in {"remove", "uncache"} => kind'[v] = "delete"
               /\ work'[v][b].step \in {"snapshot", "write", "cache", "select", "insert"}
                    => kind'[v] # "delete"
    <3>1. CASE v = w /\ b = a
      BY <1>1, <3>1
    <3>2. CASE v # w \/ b # a
      BY <1>1, <2>1, <3>2 DEF Places
    <3> QED
      BY <3>1, <3>2
  <2> QED
    BY <2>3, <2>4, <2>5 DEF Places
<1>4. Elsewhere(w, a)
  <2>1. ASSUME NEW b \in Agents \ {a} PROVE Same(b)
    <3>1. \A v \in Workers : work'[v][b] = work[v][b]
      BY <1>1
    <3>2. \A v \in Workers : work[v][b] \in HealthRun
      BY DEF HealthInv, HealthTyped
    <3>3. \A v \in Workers : ~Busy(v, b) => work[v][b].step \in {"idle", "queued"}
      BY <3>2 DEF Busy
    <3> QED
      BY <3>1, <3>3 DEF Same, OnlyOn
  <2> QED
    BY <1>1, <2>1 DEF Elsewhere
<1> QED
  BY <1>1, <1>2, <1>3, <1>4

\* With it, the invariant holds again when it does for the Agent of the step.
LEMMA Gathered ==
    ASSUME NEW w \in Workers, NEW a \in Agents, HealthInv, HealthTyped', Places', Elsewhere(w, a),
           Settles(a)'
    PROVE  HealthInv'
<1>1. ASSUME NEW b \in Agents PROVE Settles(b)'
  <2>1. CASE b = a
    BY <2>1
  <2>2. CASE b # a
    BY <2>2, Untouched DEF HealthInv, Elsewhere
  <2> QED
    BY <2>1, <2>2
<1> QED
  BY <1>1 DEF HealthInv

\* The next step of a run, in one lemma.
LEMMA NextStep ==
    ASSUME NEW w \in Workers, NEW a \in Agents, NEW run \in HealthRun, HealthInv, Busy(w, a),
           work' = [work EXCEPT ![w][a] = run], kind' = kind, round' = round, OnlyOn(a),
           tainted' = tainted, run.step \notin {"idle", "queued"}, run.alone = work[w][a].alone,
           run.step \in {"remove", "uncache"} => kind[w] = "delete",
           run.step \in {"snapshot", "write", "cache", "select", "insert"} => kind[w] # "delete",
           run.alone => Progress(a, kind[w], run)'
    PROVE  HealthInv'
<1>1. HealthTyped' /\ Places' /\ Elsewhere(w, a) /\ work'[w][a] = run
  BY RunGoesOn
<1>2. Settles(a)'
  BY <1>1, Continues DEF HealthInv
<1> QED
  BY <1>1, <1>2, Gathered

\* The end of a run, in one lemma.
LEMMA LastStep ==
    ASSUME NEW w \in Workers, NEW a \in Agents, HealthInv, Busy(w, a), Finish(w, a), kind' = kind,
           round' = round, row' \in [Agents -> HealthRow \cup {None}], unread' = unread,
           cached' \in [Agents -> Nat \cup {None}], acked' = acked,
           \A b \in Agents \ {a} : row'[b] = row[b] /\ cached'[b] = cached[b],
           work[w][a].alone /\ (~tainted[a] \/ PutsRight(w, a)) => Shows(a)'
    PROVE  HealthInv'
<1>1. HealthTyped
  BY DEF HealthInv
<1>2. /\ work' = [work EXCEPT ![w][a] = Idle]
      /\ tainted' = [tainted EXCEPT ![a] = tainted[a] /\ ~PutsRight(w, a)]
      /\ mark' = [mark EXCEPT ![a] = mark[a] /\ kind[w] \notin SyncKinds]
  BY DEF Finish
<1>3. tainted \in [Agents -> BOOLEAN] /\ mark \in [Agents -> BOOLEAN]
  BY <1>1 DEF HealthTyped
<1>4. (tainted[a] /\ ~PutsRight(w, a)) \in BOOLEAN /\ (mark[a] /\ kind[w] \notin SyncKinds) \in BOOLEAN
  OBVIOUS
<1>5. /\ tainted' \in [Agents -> BOOLEAN] /\ mark' \in [Agents -> BOOLEAN]
      /\ tainted'[a] = (tainted[a] /\ ~PutsRight(w, a))
      /\ \A b \in Agents \ {a} : tainted'[b] = tainted[b]
  BY <1>2, <1>3, <1>4
<1>6. OnlyOn(a)
  BY <1>1, <1>5 DEF OnlyOn, HealthTyped
<1>7. HealthTyped' /\ Places' /\ Elsewhere(w, a) /\ work'[w][a] = Idle
  <2>1. Idle.step = "idle" /\ Idle \in HealthRun
    BY HealthTypes DEF Idle
  <2> QED
    BY <1>2, <1>6, <2>1, RunGoesOn
<1>8. Settles(a)'
  BY <1>3, <1>5, <1>7, RunIsOver DEF HealthInv
<1> QED
  BY <1>7, <1>8, Gathered

\* Moving a run to another step is an assignment to that run.
LEMMA GotoSets ==
    ASSUME NEW w \in Workers, NEW a \in Agents, NEW step \in Steps, HealthTyped, Goto(w, a, step)
    PROVE  /\ work' = [work EXCEPT ![w][a] = [work[w][a] EXCEPT !.step = step]]
           /\ [work[w][a] EXCEPT !.step = step] \in HealthRun
<1>1. work \in [Workers -> [Agents -> HealthRun]]
  BY DEF HealthTyped
<1>2. work' = [work EXCEPT ![w][a] = [work[w][a] EXCEPT !.step = step]]
  BY <1>1 DEF Goto
<1>3. work[w][a] \in HealthRun
  BY <1>1
<1> QED
  BY <1>2, <1>3 DEF HealthRun

\* What moving a run changes: its step, and nothing that is stored.
LEMMA GotoStep ==
    ASSUME NEW w \in Workers, NEW a \in Agents, NEW step \in Steps \ {"idle", "queued"},
           HealthInv, Busy(w, a), Goto(w, a, step), kind' = kind, round' = round,
           tainted' = tainted, mark' = mark,
           row' \in [Agents -> HealthRow \cup {None}], unread' \in [Agents -> Nat],
           cached' \in [Agents -> Nat \cup {None}], acked' \in [Agents -> BOOLEAN],
           \A b \in Agents \ {a} : /\ row'[b] = row[b] /\ unread'[b] = unread[b]
                                   /\ cached'[b] = cached[b] /\ acked'[b] = acked[b],
           step \in {"remove", "uncache"} => kind[w] = "delete",
           step \in {"snapshot", "write", "cache", "select", "insert"} => kind[w] # "delete",
           NEW run, run = [work[w][a] EXCEPT !.step = step],
           work[w][a].alone => Progress(a, kind[w], run)'
    PROVE  HealthInv'
<1>1. HealthTyped
  BY DEF HealthInv
<1>2. work' = [work EXCEPT ![w][a] = run] /\ run \in HealthRun
  BY <1>1, GotoSets
<1>3. work[w][a] \in HealthRun
  BY <1>1 DEF HealthTyped
<1>4. run.step = step /\ run.alone = work[w][a].alone
  BY <1>3 DEF HealthRun
<1>5. OnlyOn(a)
  BY <1>1 DEF OnlyOn, HealthTyped
<1> QED
  BY <1>2, <1>4, <1>5, NextStep

\* UpdateServerHealth reads the previous status.
LEMMA PreviousRead ==
    ASSUME HealthInv, NEW w \in Workers, NEW a \in Agents, ReadPrevious(w, a)
    PROVE  HealthInv'
<1> PICK prev : prev = IF row[a] = None THEN None ELSE row[a].status
  OBVIOUS
<1> PICK run : run = [work[w][a] EXCEPT !.step = "write", !.prev = prev]
  OBVIOUS
<1>1. HealthTyped /\ work[w][a] \in HealthRun /\ row[a] \in HealthRow \cup {None}
  BY DEF HealthInv, HealthTyped
<1>2. work[w][a].step = "snapshot" /\ Busy(w, a) /\ kind[w] # "delete"
  BY DEF ReadPrevious, Busy, HealthInv, Places
<1>3. prev \in Statuses \cup {None}
  BY <1>1 DEF HealthRow
<1>4. run \in HealthRun
  BY <1>1, <1>3 DEF HealthRun, Steps
<1>5. work' = [work EXCEPT ![w][a] = run]
  <2>1. work \in [Workers -> [Agents -> HealthRun]]
    BY <1>1 DEF HealthTyped
  <2> QED
    BY <2>1 DEF ReadPrevious
<1>6. /\ run.step = "write" /\ run.prev = prev /\ run.alone = work[w][a].alone
      /\ run.status = work[w][a].status
  BY <1>1 DEF HealthRun
<1>7. OnlyOn(a) /\ kind' = kind /\ round' = round /\ tainted' = tainted /\ row' = row
  BY <1>1 DEF OnlyOn, HealthTyped, ReadPrevious
<1>8. ASSUME run.alone PROVE Progress(a, kind[w], run)'
  <2>1. Progress(a, kind[w], work[w][a])
    BY <1>2, <1>6, <1>8 DEF HealthInv, Settles
  <2>2. work[w][a].status = None /\ (~tainted[a] => Shows(a))
    BY <2>1, <1>2 DEF Progress
  <2>3. Shows(a)' <=> Shows(a)
    BY DEF Shows, ReadPrevious
  <2>5. run.step = "write" /\ run.prev = (IF row[a] = None THEN None ELSE row[a].status)' /\ run.status = None
    BY <1>6, <1>7, <2>2
  <2> QED
    BY <1>7, <2>2, <2>3, <2>5 DEF Progress
<1> QED
  BY <1>2, <1>4, <1>5, <1>6, <1>7, <1>8, NextStep

\* A successful probe makes the row Online without failures; a failed one leaves
\* only a row Online that was, and not if one failure is enough.
LEMMA RowUpdated ==
    ASSUME NEW r \in HealthRow, NEW ok \in BOOLEAN, NEW limit \in Nat
    PROVE  /\ UpdatedHealth(r, ok, limit) \in HealthRow
           /\ ok => UpdatedHealth(r, ok, limit).status = "Online"
           /\ ~ok /\ UpdatedHealth(r, ok, limit).status = "Online" =>
                 r.status = "Online" /\ limit # 1
<1>1. r.failures \in Nat /\ r.status \in Statuses /\ Limit \in Nat /\ Limit >= 1
  BY HealthTypes DEF HealthRow
<1>2. CASE ok
  BY <1>2 DEF UpdatedHealth, HealthRow, Statuses
<1>3. CASE ~ok
  <2> DEFINE n == LeastOf(r.failures + 1, Limit)
  <2>1. n \in Nat /\ n >= 1
    BY <1>1 DEF LeastOf
  <2>2. UpdatedHealth(r, ok, limit) =
          [failures |-> n, status |-> IF n >= limit THEN "Offline" ELSE r.status]
    BY <1>3 DEF UpdatedHealth
  <2> HIDE DEF n
  <2>3. UpdatedHealth(r, ok, limit) \in HealthRow
    BY <1>1, <2>1, <2>2 DEF HealthRow, Statuses
  <2>4. UpdatedHealth(r, ok, limit).status = IF n >= limit THEN "Offline" ELSE r.status
    BY <2>2
  <2> QED
    BY <1>3, <2>1, <2>3, <2>4
<1> QED
  BY <1>2, <1>3

\* UpdateServerHealth writes the row.
LEMMA HealthUpdated ==
    ASSUME HealthInv, NEW w \in Workers, NEW a \in Agents, UpdateServerHealth(w, a)
    PROVE  HealthInv'
<1>1. HealthTyped /\ work[w][a] \in HealthRun /\ row[a] \in HealthRow \cup {None}
  BY DEF HealthInv, HealthTyped
<1>2. work[w][a].step = "write" /\ Busy(w, a) /\ kind[w] # "delete"
  BY DEF UpdateServerHealth, Busy, HealthInv, Places
<1>3. /\ unread' = unread /\ cached' = cached /\ acked' = acked /\ kind' = kind /\ round' = round
      /\ \A b \in Agents \ {a} : row'[b] = row[b]
  BY <1>1 DEF UpdateServerHealth, HealthTyped
<1>4. ASSUME work[w][a].alone
      PROVE  /\ work[w][a].prev = IF row[a] = None THEN None ELSE row[a].status
             /\ work[w][a].status = None
             /\ ~tainted[a] => Shows(a)
  BY <1>2, <1>4 DEF HealthInv, Settles, Progress
<1>5. CASE row[a] = None /\ kind[w] \in SyncKinds /\ work[w][a].ok
  <2>1. Goto(w, a, "dismiss") /\ tainted' = tainted /\ mark' = mark /\ row' = row
    BY <1>5 DEF UpdateServerHealth
  <2> PICK run : run = [work[w][a] EXCEPT !.step = "dismiss"]
    OBVIOUS
  <2>2. run.step = "dismiss" /\ run.status = work[w][a].status
    BY <1>1 DEF HealthRun
  <2>3. Shows(a)' <=> Shows(a)
    BY <1>3, <2>1 DEF Shows
  <2>4. work[w][a].alone => Progress(a, kind[w], run)'
    BY <1>3, <1>4, <1>5, <2>1, <2>2, <2>3 DEF Progress
  <2>5. "dismiss" \in Steps \ {"idle", "queued"}
    BY DEF Steps
  <2> QED
    BY <1>1, <1>2, <1>3, <2>1, <2>4, <2>5, GotoStep DEF HealthTyped
<1>6. CASE row[a] = None /\ ~(kind[w] \in SyncKinds /\ work[w][a].ok)
  <2>1. Finish(w, a) /\ row' = row
    BY <1>6 DEF UpdateServerHealth
  <2>2. Shows(a)' <=> Shows(a)
    BY <1>3, <2>1 DEF Shows
  <2>3. work[w][a].alone => ~PutsRight(w, a)
    BY <1>2, <1>4, HealthTypes DEF PutsRight, Statuses
  <2> QED
    BY <1>1, <1>2, <1>3, <1>4, <2>1, <2>2, <2>3, LastStep DEF HealthTyped
<1>7. CASE row[a] # None
  <2> PICK new : new = UpdatedHealth(row[a], work[w][a].ok, FailureLimit(w))
    OBVIOUS
  <2> PICK run : run = [work[w][a] EXCEPT !.step = "cache", !.status = new.status, !.n = new.failures]
    OBVIOUS
  <2>1. FailureLimit(w) \in Nat /\ (kind[w] = "manual" => FailureLimit(w) = 1)
    BY HealthTypes DEF FailureLimit
  <2>2. row[a] \in HealthRow /\ work[w][a].ok \in BOOLEAN
    BY <1>1, <1>7 DEF HealthRun
  <2>3. /\ new \in HealthRow
        /\ work[w][a].ok => new.status = "Online"
        /\ ~work[w][a].ok /\ new.status = "Online" =>
              row[a].status = "Online" /\ kind[w] # "manual"
    BY <2>1, <2>2, RowUpdated
  <2>4. /\ row' = [row EXCEPT ![a] = new] /\ tainted' = tainted /\ mark' = mark
        /\ work' = [work EXCEPT ![w][a] = run]
    <3>1. work \in [Workers -> [Agents -> HealthRun]]
      BY <1>1 DEF HealthTyped
    <3> QED
      BY <1>7, <3>1 DEF UpdateServerHealth
  <2>5. row' \in [Agents -> HealthRow \cup {None}] /\ row'[a] = new
    BY <1>1, <2>3, <2>4 DEF HealthTyped
  <2>6. /\ run \in HealthRun /\ run.step = "cache" /\ run.status = new.status /\ run.n = new.failures
        /\ run.prev = work[w][a].prev /\ run.ok = work[w][a].ok /\ run.alone = work[w][a].alone
    <3>1. new.status \in Statuses /\ new.failures \in Nat
      BY <2>3 DEF HealthRow
    <3> QED
      BY <1>1, <3>1 DEF HealthRun, Steps
  <2>7. OnlyOn(a)
    BY <1>1, <1>3, <2>4, <2>5 DEF OnlyOn, HealthTyped
  <2>8. ASSUME run.alone PROVE Progress(a, kind[w], run)'
    <3>1. run.prev = row[a].status /\ (~tainted[a] => Shows(a))
      BY <1>4, <1>7, <2>6, <2>8
    <3>2. run.prev \in Statuses
      BY <2>2, <3>1 DEF HealthRow
    <3>3. Written(a, run)'
      BY <2>3, <2>5, <2>6, HealthTypes DEF Written
    <3>4. ~tainted[a] => Noted(a, run.prev)
      BY <1>7, <3>1, <3>2 DEF Shows, Noted, Statuses
    <3>5. ~tainted'[a] => Noted(a, run.prev)'
      BY <1>3, <2>4, <3>4 DEF Noted
    <3> QED
      BY <1>3, <2>3, <2>6, <3>1, <3>2, <3>3, <3>5 DEF Progress
  <2> QED
    BY <1>2, <1>3, <2>4, <2>6, <2>7, <2>8, NextStep
<1> QED
  BY <1>5, <1>6, <1>7

\* cacheAgentHealth stores the failure count; the run is over, dismisses the
\* notifications, or goes on to create one.
LEMMA HealthCached ==
    ASSUME HealthInv, NEW w \in Workers, NEW a \in Agents, CacheAgentHealth(w, a)
    PROVE  HealthInv'
<1> PICK run : run = work[w][a]
  OBVIOUS
<1>1. HealthTyped /\ run \in HealthRun /\ row[a] \in HealthRow \cup {None}
  BY DEF HealthInv, HealthTyped
<1>2. run.step = "cache" /\ Busy(w, a) /\ kind[w] # "delete"
  BY DEF CacheAgentHealth, Busy, HealthInv, Places
<1>3. /\ row' = row /\ unread' = unread /\ acked' = acked /\ kind' = kind /\ round' = round
      /\ \A b \in Agents \ {a} : cached'[b] = cached[b]
      /\ cached' \in [Agents -> Nat \cup {None}] /\ cached'[a] = run.n
  BY <1>1 DEF CacheAgentHealth, HealthTyped, HealthRun
<1>4. ASSUME run.alone
      PROVE  /\ Written(a, run) /\ run.prev \in Statuses /\ run.status \in Statuses
             /\ run.ok => run.status = "Online"
             /\ ~run.ok /\ run.status = "Online" => run.prev = "Online" /\ kind[w] # "manual"
             /\ ~tainted[a] => Noted(a, run.prev)
  <2>1. Progress(a, kind[w], run)
    BY <1>2, <1>4 DEF HealthInv, Settles
  <2>2. /\ Written(a, run) /\ run.prev \in Statuses
        /\ run.ok => run.status = "Online"
        /\ ~run.ok /\ run.status = "Online" => run.prev = "Online" /\ kind[w] # "manual"
        /\ ~tainted[a] => Noted(a, run.prev)
    BY <2>1, <1>2 DEF Progress
  <2>3. run.status \in Statuses
    BY <1>1, <2>2 DEF Written, HealthRow
  <2> QED
    BY <2>2, <2>3
<1> PICK next : next = AfterCache(kind[w], run)
  OBVIOUS
<1>5. \/ next = "dismiss" /\ (kind[w] \in SyncKinds => run.ok)
         /\ (kind[w] \notin SyncKinds => run.status = "Online")
      \/ next = "select" /\ (BecameOffline(run) \/ kind[w] = "manual")
         /\ (kind[w] \in SyncKinds => ~run.ok)
      \/ next = "idle" /\ ~BecameOffline(run) /\ kind[w] # "manual"
         /\ (kind[w] \in SyncKinds => ~run.ok)
         /\ (kind[w] \notin SyncKinds => run.status # "Online")
  BY DEF AfterCache
<1>6. CASE next = "idle"
  <2>1. Finish(w, a)
    BY <1>6 DEF CacheAgentHealth
  <2>2. ASSUME run.alone
        PROVE  ~PutsRight(w, a) /\ (~tainted[a] => Shows(a)')
    <3>1. ~PutsRight(w, a)
      BY <1>2, <1>5, <1>6 DEF PutsRight
    <3>2. row[a] # None /\ run.status = row[a].status /\ run.n = row[a].failures
      BY <1>4, <2>2 DEF Written
    <3>3. run.prev = run.status
      BY <1>4, <1>5, <1>6, <2>2 DEF BecameOffline, Statuses
    <3>4. ASSUME ~tainted[a] PROVE Shows(a)'
      <4>1. Noted(a, run.status)
        BY <1>4, <2>2, <3>3, <3>4
      <4>2. run.status \in {"Online", "Offline"}
        BY <1>4, <2>2 DEF Statuses
      <4> QED
        BY <1>3, <3>2, <4>1, <4>2 DEF Shows, Noted
    <3> QED
      BY <3>1, <3>4
  <2> QED
    BY <1>1, <1>2, <1>3, <2>1, <2>2, LastStep DEF HealthTyped
<1>7. CASE next \in {"dismiss", "select"}
  <2>1. Goto(w, a, next) /\ tainted' = tainted /\ mark' = mark
    BY <1>7 DEF CacheAgentHealth
  <2> PICK new : new = [run EXCEPT !.step = next]
    OBVIOUS
  <2>2. /\ new.step = next /\ new.status = run.status /\ new.n = run.n
    BY <1>1 DEF HealthRun
  <2>3. ASSUME run.alone PROVE Progress(a, kind[w], new)'
    <3>1. Cached(a, new)'
      BY <1>3, <1>4, <2>2, <2>3 DEF Cached, Written
    <3>2. CASE next = "dismiss"
      <4>1. new.status = "Online"
        BY <1>4, <1>5, <2>2, <2>3, <3>2
      <4> QED
        BY <1>2, <1>3, <2>2, <3>1, <3>2, <4>1 DEF Progress
    <3>3. CASE next = "select"
      <4>1. new.status = "Offline"
        <5>1. kind[w] = "manual" => ~run.ok
          BY <1>5, <3>3 DEF SyncKinds
        <5>2. run.status \in {"Online", "Offline"}
          BY <1>4, <2>3 DEF Statuses
        <5> QED
          BY <1>4, <1>5, <2>2, <2>3, <3>3, <5>1, <5>2 DEF BecameOffline
      <4>2. ~tainted[a] => unread[a] \in {0, 1}
        BY <1>4, <2>3 DEF Noted, Statuses
      <4> QED
        BY <1>3, <2>1, <2>2, <3>1, <3>3, <4>1, <4>2 DEF Progress
    <3> QED
      BY <1>7, <3>2, <3>3
  <2>4. next \in Steps \ {"idle", "queued"}
    BY <1>7 DEF Steps
  <2> QED
    BY <1>1, <1>2, <1>3, <1>7, <2>1, <2>3, <2>4, GotoStep DEF HealthTyped
<1> QED
  BY <1>5, <1>6, <1>7

\* The notifications of an Agent are dismissed.
LEMMA Dismissed ==
    ASSUME HealthInv, NEW w \in Workers, NEW a \in Agents, DismissNotificationsBySource(w, a)
    PROVE  HealthInv'
<1> PICK run : run = work[w][a]
  OBVIOUS
<1>1. HealthTyped /\ run \in HealthRun /\ row[a] \in HealthRow \cup {None}
  BY DEF HealthInv, HealthTyped
<1>2. run.step = "dismiss" /\ Busy(w, a)
  BY DEF DismissNotificationsBySource, Busy
<1>3. /\ row' = row /\ cached' = cached /\ acked' = acked /\ kind' = kind /\ round' = round
      /\ tainted' = tainted /\ mark' = mark /\ Goto(w, a, "invalidate")
      /\ \A b \in Agents \ {a} : unread'[b] = unread[b]
      /\ unread' \in [Agents -> Nat] /\ unread'[a] = 0
  BY <1>1 DEF DismissNotificationsBySource, HealthTyped
<1> PICK new : new = [run EXCEPT !.step = "invalidate"]
  OBVIOUS
<1>4. new.step = "invalidate" /\ new.status = run.status
  BY <1>1 DEF HealthRun
<1>5. ASSUME run.alone PROVE Progress(a, kind[w], new)'
  <2>1. Progress(a, kind[w], run)
    BY <1>2, <1>5 DEF HealthInv, Settles
  <2>2. \/ kind[w] = "delete" /\ row[a] = None /\ run.status = None
        \/ row[a] = None /\ run.status = None /\ (~tainted[a] => Shows(a))
        \/ kind[w] # "delete" /\ Cached(a, run) /\ run.status = "Online"
    BY <1>2, <2>1 DEF Progress
  <2>3. CASE kind[w] = "delete"
    BY <1>3, <1>4, <2>2, <2>3 DEF Progress
  <2>4. CASE kind[w] # "delete" /\ Cached(a, run) /\ run.status = "Online"
    <3>1. row'[a] # None /\ row'[a].status = "Online" /\ cached'[a] \in {row'[a].failures, None}
      BY <1>3, <2>4 DEF Cached, Written
    <3>2. Shows(a)'
      BY <1>3, <3>1 DEF Shows
    <3> QED
      BY <1>3, <1>4, <2>4, <3>2 DEF Progress
  <2>5. CASE kind[w] # "delete" /\ row[a] = None /\ run.status = None /\ (~tainted[a] => Shows(a))
    <3>1. ~tainted[a] => Shows(a)'
      BY <1>3, <2>5 DEF Shows
    <3>2. run.status # "Online"
      BY <2>5, HealthTypes DEF Statuses
    <3> QED
      BY <1>3, <1>4, <2>5, <3>1, <3>2 DEF Progress
  <2> QED
    BY <2>2, <2>3, <2>4, <2>5
<1>6. "invalidate" \in Steps \ {"idle", "queued"}
  BY DEF Steps
<1> QED
  BY <1>1, <1>2, <1>3, <1>5, <1>6, GotoStep DEF HealthTyped

\* The SELECT of CreateNotificationIfUnreadMissing.
LEMMA UnreadSelected ==
    ASSUME HealthInv, NEW w \in Workers, NEW a \in Agents, SelectUnread(w, a)
    PROVE  HealthInv'
<1> PICK run : run = work[w][a]
  OBVIOUS
<1> PICK next : next = IF unread[a] > 0 THEN "invalidate" ELSE "insert"
  OBVIOUS
<1>1. HealthTyped /\ run \in HealthRun /\ row[a] \in HealthRow \cup {None} /\ unread[a] \in Nat
  BY DEF HealthInv, HealthTyped
<1>2. run.step = "select" /\ Busy(w, a) /\ kind[w] # "delete"
  BY DEF SelectUnread, Busy, HealthInv, Places
<1>3. /\ row' = row /\ cached' = cached /\ acked' = acked /\ kind' = kind /\ round' = round
      /\ tainted' = tainted /\ mark' = mark /\ unread' = unread /\ Goto(w, a, next)
  BY DEF SelectUnread
<1> PICK new : new = [run EXCEPT !.step = next]
  OBVIOUS
<1>4. new.step = next /\ new.status = run.status /\ new.n = run.n
  BY <1>1 DEF HealthRun
<1>5. ASSUME run.alone PROVE Progress(a, kind[w], new)'
  <2>1. Progress(a, kind[w], run)
    BY <1>2, <1>5 DEF HealthInv, Settles
  <2>2. Cached(a, run) /\ run.status = "Offline" /\ (~tainted[a] => unread[a] \in {0, 1})
    BY <1>2, <2>1 DEF Progress
  <2>3. Cached(a, new)'
    BY <1>3, <1>4, <2>2 DEF Cached, Written
  <2>4. CASE next = "insert"
    <3>1. ~tainted[a] => unread[a] = 0
      BY <1>1, <2>4
    <3> QED
      BY <1>3, <1>4, <2>2, <2>3, <2>4, <3>1 DEF Progress
  <2>5. CASE next = "invalidate"
    <3>1. unread[a] > 0
      BY <2>5
    <3>2. ~tainted[a] => unread[a] = 1
      BY <1>1, <2>2, <3>1
    <3>3. ~tainted[a] => Shows(a)'
      BY <1>3, <1>4, <2>2, <2>3, <3>2 DEF Shows, Cached, Written
    <3> QED
      BY <1>2, <1>3, <1>4, <2>2, <2>5, <3>3 DEF Progress
  <2> QED
    BY <2>4, <2>5
<1>6. next \in Steps \ {"idle", "queued"}
  BY DEF Steps
<1> QED
  BY <1>1, <1>2, <1>3, <1>5, <1>6, GotoStep DEF HealthTyped

\* The INSERT.
LEMMA NotificationCreated ==
    ASSUME HealthInv, NEW w \in Workers, NEW a \in Agents, CreateNotification(w, a)
    PROVE  HealthInv'
<1> PICK run : run = work[w][a]
  OBVIOUS
<1>1. HealthTyped /\ run \in HealthRun /\ row[a] \in HealthRow \cup {None} /\ unread[a] \in Nat
  BY DEF HealthInv, HealthTyped
<1>2. run.step = "insert" /\ Busy(w, a) /\ kind[w] # "delete"
  BY DEF CreateNotification, Busy, HealthInv, Places
<1>3. /\ row' = row /\ cached' = cached /\ kind' = kind /\ round' = round
      /\ tainted' = tainted /\ mark' = mark /\ Goto(w, a, "invalidate")
      /\ unread' \in [Agents -> Nat] /\ unread'[a] = unread[a] + 1 /\ acked' \in [Agents -> BOOLEAN]
      /\ \A b \in Agents \ {a} : unread'[b] = unread[b] /\ acked'[b] = acked[b]
  BY <1>1 DEF CreateNotification, HealthTyped
<1> PICK new : new = [run EXCEPT !.step = "invalidate"]
  OBVIOUS
<1>4. new.step = "invalidate" /\ new.status = run.status /\ new.n = run.n
  BY <1>1 DEF HealthRun
<1>5. ASSUME run.alone PROVE Progress(a, kind[w], new)'
  <2>1. Progress(a, kind[w], run)
    BY <1>2, <1>5 DEF HealthInv, Settles
  <2>2. Cached(a, run) /\ run.status = "Offline" /\ (~tainted[a] => unread[a] = 0)
    BY <1>2, <2>1 DEF Progress
  <2>3. Cached(a, new)'
    BY <1>3, <1>4, <2>2 DEF Cached, Written
  <2>4. ~tainted[a] => unread'[a] = 1
    BY <1>3, <2>2
  <2>5. ~tainted[a] => Shows(a)'
    BY <1>3, <1>4, <2>2, <2>3, <2>4 DEF Shows, Cached, Written
  <2> QED
    BY <1>2, <1>3, <1>4, <2>2, <2>5 DEF Progress
<1>6. "invalidate" \in Steps \ {"idle", "queued"}
  BY DEF Steps
<1> QED
  BY <1>1, <1>2, <1>3, <1>5, <1>6, GotoStep DEF HealthTyped

\* The count is invalidated; a deletion goes on with the health key.
LEMMA CountInvalidated ==
    ASSUME HealthInv, NEW w \in Workers, NEW a \in Agents, InvalidateUnreadNotificationCount(w, a)
    PROVE  HealthInv'
<1> PICK run : run = work[w][a]
  OBVIOUS
<1>1. HealthTyped /\ run \in HealthRun
  BY DEF HealthInv, HealthTyped
<1>2. run.step = "invalidate" /\ Busy(w, a)
  BY DEF InvalidateUnreadNotificationCount, Busy
<1>3. /\ row' = row /\ cached' = cached /\ kind' = kind /\ round' = round /\ acked' = acked
      /\ unread' = unread
  BY DEF InvalidateUnreadNotificationCount
<1>4. run.alone => Progress(a, kind[w], run)
  BY <1>2 DEF HealthInv, Settles
<1>5. CASE kind[w] = "delete"
  <2>1. Goto(w, a, "uncache") /\ tainted' = tainted /\ mark' = mark
    BY <1>5 DEF InvalidateUnreadNotificationCount
  <2> PICK new : new = [run EXCEPT !.step = "uncache"]
    OBVIOUS
  <2>2. new.step = "uncache" /\ new.status = run.status
    BY <1>1 DEF HealthRun
  <2>3. run.alone => Progress(a, kind[w], new)'
    BY <1>2, <1>3, <1>4, <1>5, <2>2 DEF Progress
  <2>4. "uncache" \in Steps \ {"idle", "queued"}
    BY DEF Steps
  <2> QED
    BY <1>1, <1>2, <1>3, <1>5, <2>1, <2>3, <2>4, GotoStep DEF HealthTyped
<1>6. CASE kind[w] # "delete"
  <2>1. Finish(w, a)
    BY <1>6 DEF InvalidateUnreadNotificationCount
  <2>2. run.alone /\ (~tainted[a] \/ run.status = "Online") => Shows(a)
    BY <1>2, <1>4, <1>6 DEF Progress
  <2>3. Shows(a)' <=> Shows(a)
    BY <1>3 DEF Shows
  <2>4. PutsRight(w, a) => run.status = "Online"
    BY <1>2 DEF PutsRight
  <2> QED
    BY <1>1, <1>2, <1>3, <2>1, <2>2, <2>3, <2>4, LastStep DEF HealthTyped
<1> QED
  BY <1>5, <1>6

\* The row of a deleted Agent.
LEMMA ServerDeleted ==
    ASSUME HealthInv, NEW w \in Workers, NEW a \in Agents, DeleteServer(w, a)
    PROVE  HealthInv'
<1> PICK run : run = work[w][a]
  OBVIOUS
<1>1. HealthTyped /\ run \in HealthRun
  BY DEF HealthInv, HealthTyped
<1>2. run.step = "remove" /\ Busy(w, a) /\ kind[w] = "delete"
  BY DEF DeleteServer, Busy, HealthInv, Places
<1>3. /\ cached' = cached /\ kind' = kind /\ round' = round /\ acked' = acked /\ unread' = unread
      /\ row' \in [Agents -> HealthRow \cup {None}] /\ row'[a] = None
      /\ \A b \in Agents \ {a} : row'[b] = row[b]
  BY <1>1 DEF DeleteServer, HealthTyped
<1>4. run.alone => run.status = None /\ (~tainted[a] => Shows(a))
  BY <1>2 DEF HealthInv, Settles, Progress
<1>5. CASE row[a] = None
  <2>1. Finish(w, a)
    BY <1>5 DEF DeleteServer
  <2>2. Shows(a)' <=> Shows(a)
    BY <1>3, <1>5 DEF Shows
  <2>3. run.alone => ~PutsRight(w, a)
    BY <1>2, <1>4, HealthTypes DEF PutsRight, Statuses
  <2> QED
    BY <1>1, <1>2, <1>3, <1>4, <2>1, <2>2, <2>3, LastStep DEF HealthTyped
<1>6. CASE row[a] # None
  <2>1. Goto(w, a, "dismiss") /\ tainted' = tainted /\ mark' = mark
    BY <1>6 DEF DeleteServer
  <2> PICK new : new = [run EXCEPT !.step = "dismiss"]
    OBVIOUS
  <2>2. new.step = "dismiss" /\ new.status = run.status
    BY <1>1 DEF HealthRun
  <2>3. run.alone => Progress(a, kind[w], new)'
    BY <1>2, <1>3, <1>4, <2>2 DEF Progress
  <2>4. "dismiss" \in Steps \ {"idle", "queued"}
    BY DEF Steps
  <2> QED
    BY <1>1, <1>2, <1>3, <2>1, <2>3, <2>4, GotoStep DEF HealthTyped
<1> QED
  BY <1>5, <1>6

\* Its health key, the last that is left of it.
LEMMA HealthKeyCleared ==
    ASSUME HealthInv, NEW w \in Workers, NEW a \in Agents, ClearHealthKey(w, a)
    PROVE  HealthInv'
<1>1. HealthTyped
  BY DEF HealthInv
<1>2. work[w][a].step = "uncache" /\ Busy(w, a) /\ Finish(w, a)
  BY DEF ClearHealthKey, Busy
<1>3. /\ row' = row /\ kind' = kind /\ round' = round /\ acked' = acked /\ unread' = unread
      /\ cached' \in [Agents -> Nat \cup {None}] /\ cached'[a] = None
      /\ \A b \in Agents \ {a} : cached'[b] = cached[b]
  BY <1>1 DEF ClearHealthKey, HealthTyped
<1>4. work[w][a].alone => row[a] = None /\ unread[a] = 0
  BY <1>2 DEF HealthInv, Settles, Progress
<1>5. work[w][a].alone => Shows(a)'
  BY <1>3, <1>4 DEF Shows
<1> QED
  BY <1>1, <1>2, <1>3, <1>5, LastStep DEF HealthTyped

\* A worker starts on an Agent.
LEMMA Joined ==
    ASSUME HealthInv, NEW w \in Workers, NEW a \in Agents, NEW run \in HealthRun,
           work[w][a].step \in {"idle", "queued"}, Joins(w, a, run),
           run.step \in {"snapshot", "remove"}, run.status = None,
           row' = row, unread' = unread, cached' = cached, acked' = acked, round' = round,
           mark' \in [Agents -> BOOLEAN], kind' \in [Workers -> AllKinds \cup {"check", "off", None}],
           \A v \in Workers \ {w} : kind'[v] = kind[v],
           kind'[w] = kind[w] \/ \A b \in Agents : work[w][b].step = "idle",
           w \in Instances => round[w] = "batch" /\ kind'[w] = kind[w],
           kind'[w] \notin {None, "off"},
           kind'[w] = "delete" <=> run.step = "remove"
    PROVE  HealthInv'
<1>1. HealthTyped /\ Settles(a) /\ Places
  BY DEF HealthInv
<1>2. ~Busy(w, a) /\ \A v \in Workers : Busy(v, a) => kind'[v] = kind[v]
  BY DEF Busy
<1>3. /\ work' \in [Workers -> [Agents -> HealthRun]]
      /\ tainted' \in [Agents -> BOOLEAN]
      /\ work'[w][a].step = run.step
      /\ \A v \in Workers, b \in Agents : v # w \/ b # a => work'[v][b].step = work[v][b].step
      /\ \A v \in Workers, b \in Agents : b # a => work'[v][b] = work[v][b]
      /\ \A b \in Agents : b # a => tainted'[b] = tainted[b]
      /\ Settles(a)'
  BY <1>1, <1>2, JoinsIn
<1>4. HealthTyped'
  BY <1>1, <1>3 DEF HealthTyped
<1>5. \A v \in Workers, b \in Agents : v # w \/ b # a => (Busy(v, b)' <=> Busy(v, b))
  BY <1>3 DEF Busy
<1>6. Places'
  <2>1. ASSUME NEW i \in Instances
        PROVE  kind'[i] = "check" /\ (round'[i] # "batch" => \A b \in Agents : ~Busy(i, b)')
    <3>1. i \in Workers
      BY DEF Workers
    <3> QED
      BY <1>1, <1>5, <3>1 DEF Places
  <2>2. ASSUME NEW r \in Requests, kind'[r] \in {None, "off"}, NEW b \in Agents
        PROVE  work'[r][b].step = "idle"
    <3>1. r \in Workers /\ r # w
      BY <2>2 DEF Workers
    <3> QED
      BY <1>1, <1>3, <2>2, <3>1 DEF Places
  <2>3. ASSUME NEW v \in Workers, NEW b \in Agents
        PROVE  /\ work'[v][b].step \in {"remove", "uncache"} => kind'[v] = "delete"
               /\ work'[v][b].step \in {"snapshot", "write", "cache", "select", "insert"}
                    => kind'[v] # "delete"
    <3>1. CASE v = w /\ b = a
      BY <1>3, <3>1
    <3>2. CASE v = w /\ b # a
      BY <1>1, <1>3, <3>2 DEF Places
    <3>3. CASE v # w
      BY <1>1, <1>3, <3>3 DEF Places
    <3> QED
      BY <3>1, <3>2, <3>3
  <2> QED
    BY <2>1, <2>2, <2>3 DEF Places
<1>7. ASSUME NEW b \in Agents PROVE Settles(b)'
  <2>1. CASE b = a
    BY <1>3, <2>1
  <2>2. CASE b # a
    <3>1. \A v \in Workers : work[v][b] \in HealthRun
      BY <1>1 DEF HealthTyped
    <3>2. \A v \in Workers : ~Busy(v, b) => work[v][b].step \in {"idle", "queued"}
      BY <3>1 DEF Busy
    <3>3. \A v \in Workers : Busy(v, b) => kind'[v] = kind[v]
      BY DEF Busy
    <3>4. Same(b)
      BY <1>3, <2>2, <3>2, <3>3 DEF Same
    <3> QED
      BY <3>4, Untouched DEF HealthInv
  <2> QED
    BY <2>1, <2>2
<1> QED
  BY <1>4, <1>6, <1>7 DEF HealthInv

\* The health-check loop takes an Agent.
LEMMA LoopChecks ==
    ASSUME HealthInv, NEW i \in Instances, NEW a \in Agents, CheckServerHealth(i, a)
    PROVE  HealthInv'
<1>1. i \in Workers /\ HealthTyped /\ kind[i] = "check"
  BY DEF Workers, HealthInv, Places
<1> PICK run : run = [Idle EXCEPT !.step = "snapshot", !.ok = up[a] \/ kind[i] = "skip"]
  OBVIOUS
<1>2. run \in HealthRun /\ run.step = "snapshot" /\ run.status = None
  <2>1. (up[a] \/ kind[i] = "skip") \in BOOLEAN
    OBVIOUS
  <2> QED
    BY <2>1, HealthTypes DEF Idle, HealthRun, Steps
<1>3. /\ Joins(i, a, run) /\ work[i][a].step = "queued" /\ round[i] = "batch"
      /\ row' = row /\ unread' = unread /\ cached' = cached /\ acked' = acked /\ round' = round
      /\ mark' = mark /\ kind' = kind
  BY DEF CheckServerHealth, Probed
<1>4. kind'[i] \notin {None, "off", "delete"}
  BY <1>1, <1>3, HealthTypes
<1> QED
  BY <1>1, <1>2, <1>3, <1>4, Joined DEF HealthTyped

\* A request that starts was idle on every Agent.
LEMMA RequestStarts ==
    ASSUME HealthInv, NEW r \in Requests, NEW a \in Agents, NEW k \in AllKinds, NEW run \in HealthRun,
           kind[r] = None, kind' = [kind EXCEPT ![r] = k], Joins(r, a, run),
           run.step = IF k = "delete" THEN "remove" ELSE "snapshot", run.status = None,
           row' = row, unread' = unread, cached' = cached, acked' = acked, round' = round,
           mark' \in [Agents -> BOOLEAN]
    PROVE  HealthInv'
<1>1. r \in Workers /\ HealthTyped /\ \A b \in Agents : work[r][b].step = "idle"
  BY DEF Workers, HealthInv, Places
<1>2. r \notin Instances
  BY WorkersAssumption
<1>3. /\ kind'[r] = k /\ kind' \in [Workers -> AllKinds \cup {"check", "off", None}]
      /\ \A v \in Workers \ {r} : kind'[v] = kind[v]
  BY <1>1 DEF HealthTyped
<1>4. k # None /\ k # "off"
  BY HealthTypes DEF AllKinds
<1> QED
  BY <1>1, <1>2, <1>3, <1>4, Joined

\* A ping or a synchronisation starts.
LEMMA ProbeStarts ==
    ASSUME HealthInv, NEW r \in Requests, NEW a \in Agents, NEW k \in Kinds, StartProbe(r, a, k)
    PROVE  HealthInv'
<1> PICK run : run = [Idle EXCEPT !.step = "snapshot", !.ok = up[a] \/ k = "skip"]
  OBVIOUS
<1>1. run \in HealthRun /\ run.step = "snapshot" /\ run.status = None
  <2>1. (up[a] \/ k = "skip") \in BOOLEAN
    OBVIOUS
  <2> QED
    BY <2>1, HealthTypes DEF Idle, HealthRun, Steps
<1>2. mark' \in [Agents -> BOOLEAN]
  <2>1. mark \in [Agents -> BOOLEAN] /\ (mark[a] \/ k \in SyncKinds) \in BOOLEAN
    BY DEF HealthInv, HealthTyped
  <2>2. mark' = [mark EXCEPT ![a] = mark[a] \/ k \in SyncKinds]
    BY DEF StartProbe
  <2> QED
    BY <2>1, <2>2
<1>3. k \in AllKinds /\ k # "delete"
  BY KindsAssumption DEF StartProbe
<1> QED
  BY <1>1, <1>2, <1>3, RequestStarts DEF StartProbe

\* A deletion starts.
LEMMA DeleteStarts ==
    ASSUME HealthInv, NEW r \in Requests, NEW a \in Agents, StartDelete(r, a)
    PROVE  HealthInv'
<1> PICK run : run = [Idle EXCEPT !.step = "remove"]
  OBVIOUS
<1>1. run \in HealthRun /\ run.step = "remove" /\ run.status = None
  BY HealthTypes DEF Idle, HealthRun, Steps
<1>2. mark' \in [Agents -> BOOLEAN] /\ "delete" \in AllKinds
  BY DEF StartDelete, HealthInv, HealthTyped, AllKinds
<1> QED
  BY <1>1, <1>2, RequestStarts DEF StartDelete

\* A failed statement ends the run, or sends it on without counting as alone.
LEMMA StatementFailed ==
    ASSUME HealthInv, NEW w \in Workers, NEW a \in Agents, StatementFails(w, a)
    PROVE  HealthInv'
<1> PICK old : old = work[w][a]
  OBVIOUS
<1>g. PICK next : next = AfterFailure(kind[w], old)
  OBVIOUS
<1>r. PICK run : run = IF next = "idle" THEN Idle ELSE [old EXCEPT !.step = next, !.alone = FALSE]
  OBVIOUS
<1>1. HealthTyped /\ old \in HealthRun
  BY DEF HealthInv, HealthTyped
<1>2. old.step \in {"write", "cache", "dismiss", "select", "insert", "uncache"} /\ Busy(w, a)
  BY DEF StatementFails, Busy
<1>n. /\ next \in {"dismiss", "select", "uncache", "idle"}
      /\ next = "uncache" => kind[w] = "delete"
      /\ next = "select" => kind[w] # "delete"
  <2>1. old.step = "cache" => kind[w] # "delete"
    BY DEF HealthInv, Places
  <2>2. AfterCache(kind[w], old) \in {"dismiss", "select", "idle"}
    BY DEF AfterCache
  <2> QED
    BY <1>g, <2>1, <2>2 DEF AfterFailure
<1>3. /\ run \in HealthRun /\ (run = Idle \/ ~run.alone)
      /\ run.step \in {"dismiss", "select", "uncache", "idle"}
      /\ run.step = "uncache" => kind[w] = "delete"
      /\ run.step = "select" => kind[w] # "delete"
  <2>1. next \in Steps
    BY <1>n DEF Steps
  <2>2. Idle.step = "idle"
    BY DEF Idle
  <2> QED
    BY <1>1, <1>n, <1>r, <2>1, <2>2, HealthTypes DEF HealthRun
<1>4. work' = [work EXCEPT ![w][a] = run]
  <2>1. work \in [Workers -> [Agents -> HealthRun]]
    BY <1>1 DEF HealthTyped
  <2> QED
    BY <1>g, <1>r, <2>1 DEF StatementFails
<1>5. /\ tainted' \in [Agents -> BOOLEAN] /\ tainted'[a] = TRUE
      /\ \A b \in Agents \ {a} : tainted'[b] = tainted[b]
  BY <1>1 DEF StatementFails, HealthTyped
<1>6. mark' \in [Agents -> BOOLEAN]
  <2>1. mark' = [mark EXCEPT ![a] = mark[a] /\ (next # "idle" \/ kind[w] \notin SyncKinds)]
    BY <1>g DEF StatementFails
  <2>2. (mark[a] /\ (next # "idle" \/ kind[w] \notin SyncKinds)) \in BOOLEAN
    OBVIOUS
  <2> QED
    BY <1>1, <2>1, <2>2 DEF HealthTyped
<1>7. /\ row' = row /\ unread' = unread /\ cached' = cached /\ acked' = acked
      /\ kind' = kind /\ round' = round
  BY DEF StatementFails
<1>8. OnlyOn(a)
  BY <1>1, <1>5, <1>6, <1>7 DEF OnlyOn, HealthTyped
<1>9. HealthTyped' /\ Places' /\ Elsewhere(w, a) /\ work'[w][a] = run
  <2>1. /\ run.step \in {"remove", "uncache"} => kind[w] = "delete"
        /\ run.step \in {"snapshot", "write", "cache", "select", "insert"} => kind[w] # "delete"
    BY <1>3
  <2> QED
    BY <1>2, <1>3, <1>4, <1>7, <1>8, <2>1, RunGoesOn
<1>10. \A v \in Workers \ {w} : work'[v][a] = work[v][a]
  BY <1>9 DEF Elsewhere
<1>11. Settles(a)'
  BY <1>2, <1>3, <1>5, <1>9, <1>10, CutShort DEF HealthInv
<1> QED
  BY <1>9, <1>11, Gathered

\* All runs of a worker are set to idle, or, for a loop, to waiting: nobody who
\* was busy is cut short but w, which taints the Agents it was busy with.
LEMMA AllSet ==
    ASSUME HealthInv, NEW w \in Workers, NEW runs \in [Agents -> HealthRun],
           \A a \in Agents : runs[a].step \in {"idle"} \cup (IF w \in Instances THEN {"queued"} ELSE {}),
           \A a \in Agents : Busy(w, a) => runs[a] = Idle,
           work' = [work EXCEPT ![w] = runs],
           row' = row, unread' = unread, cached' = cached, acked' = acked, mark' = mark, kind' = kind,
           round' \in [Instances -> {"idle", "listed", "batch", "off"}],
           \A i \in Instances \ {w} : round'[i] = round[i],
           tainted' \in [Agents -> BOOLEAN],
           \A a \in Agents : tainted'[a] = (tainted[a] \/ Busy(w, a))
    PROVE  HealthInv'
<1>1. HealthTyped /\ Places
  BY DEF HealthInv
<1>2. /\ work' \in [Workers -> [Agents -> HealthRun]]
      /\ \A a \in Agents : work'[w][a] = runs[a]
      /\ \A v \in Workers \ {w}, a \in Agents : work'[v][a] = work[v][a]
  BY <1>1 DEF HealthTyped
<1>3. \A a \in Agents : runs[a].step \in {"idle", "queued"} /\ (w \notin Instances => runs[a].step = "idle")
  OBVIOUS
<1>4. HealthTyped'
  BY <1>1, <1>2 DEF HealthTyped
<1>5. /\ \A a \in Agents : ~Busy(w, a)'
      /\ \A v \in Workers \ {w}, a \in Agents : Busy(v, a)' <=> Busy(v, a)
  BY <1>2, <1>3 DEF Busy
<1>6. Places'
  <2>1. ASSUME NEW i \in Instances
        PROVE  kind'[i] = "check" /\ (round'[i] # "batch" => \A b \in Agents : ~Busy(i, b)')
    <3>1. i \in Workers
      BY DEF Workers
    <3> QED
      BY <1>1, <1>5, <3>1 DEF Places
  <2>2. ASSUME NEW r \in Requests, kind'[r] \in {None, "off"}, NEW b \in Agents
        PROVE  work'[r][b].step = "idle"
    <3>1. r \in Workers /\ r \notin Instances
      BY WorkersAssumption DEF Workers
    <3> QED
      BY <1>1, <1>2, <1>3, <2>2, <3>1 DEF Places
  <2>3. ASSUME NEW v \in Workers, NEW b \in Agents
        PROVE  /\ work'[v][b].step \in {"remove", "uncache"} => kind'[v] = "delete"
               /\ work'[v][b].step \in {"snapshot", "write", "cache", "select", "insert"}
                    => kind'[v] # "delete"
    <3>1. CASE v = w
      BY <1>2, <1>3, <3>1
    <3>2. CASE v # w
      BY <1>1, <1>2, <3>2 DEF Places
    <3> QED
      BY <3>1, <3>2
  <2> QED
    BY <2>1, <2>2, <2>3 DEF Places
<1>7. ASSUME NEW a \in Agents PROVE Settles(a)'
  <2>1. CASE Busy(w, a)
    <3>1. runs[a] = Idle /\ Idle \in HealthRun
      BY <2>1, HealthTypes
    <3>2. tainted'[a] = TRUE
      BY <2>1
    <3>3. work'[w][a] = Idle
      BY <1>2, <3>1
    <3>4. \A v \in Workers \ {w} : work'[v][a] = work[v][a]
      BY <1>2
    <3>5. Settles(a)
      BY DEF HealthInv
    <3> QED
      BY <2>1, <3>1, <3>2, <3>3, <3>4, <3>5, CutShort
  <2>2. CASE ~Busy(w, a)
    <3>1. \A v \in Workers : work[v][a] \in HealthRun
      BY <1>1 DEF HealthTyped
    <3>2. \A v \in Workers : ~Busy(v, a) => work'[v][a].step \in {"idle", "queued"}
      BY <1>2, <1>3, <3>1 DEF Busy
    <3>3. \A v \in Workers : Busy(v, a) => work'[v][a] = work[v][a]
      BY <1>2, <2>2
    <3>4. tainted'[a] = tainted[a]
      <4>1. tainted[a] \in BOOLEAN /\ tainted'[a] \in BOOLEAN
        BY <1>1 DEF HealthTyped
      <4> QED
        BY <2>2, <4>1
    <3>5. Same(a)
      BY <3>2, <3>3, <3>4 DEF Same
    <3> QED
      BY <3>5, Untouched DEF HealthInv
  <2> QED
    BY <2>1, <2>2
<1> QED
  BY <1>4, <1>6, <1>7 DEF HealthInv

\* A process dies with everything it does.
LEMMA Crashed ==
    ASSUME HealthInv, NEW w \in Workers, Crash(w)
    PROVE  HealthInv'
<1> PICK runs : runs = [a \in Agents |-> Idle]
  OBVIOUS
<1>1. runs \in [Agents -> HealthRun] /\ \A a \in Agents : runs[a] = Idle /\ runs[a].step = "idle"
  BY HealthTypes DEF Idle
<1>2. HealthTyped
  BY DEF HealthInv
<1>3. /\ round' \in [Instances -> {"idle", "listed", "batch", "off"}]
      /\ \A i \in Instances \ {w} : round'[i] = round[i]
  BY <1>2 DEF Crash, HealthTyped
<1>4. /\ tainted' \in [Agents -> BOOLEAN]
      /\ \A a \in Agents : tainted'[a] = (tainted[a] \/ Busy(w, a))
  <2>1. tainted' = [a \in Agents |-> tainted[a] \/ Busy(w, a)]
    BY DEF Crash
  <2>2. \A a \in Agents : (tainted[a] \/ Busy(w, a)) \in BOOLEAN
    OBVIOUS
  <2> QED
    BY <2>1, <2>2
<1>5. /\ work' = [work EXCEPT ![w] = runs]
      /\ row' = row /\ unread' = unread /\ cached' = cached /\ acked' = acked
      /\ mark' = mark /\ kind' = kind
  BY DEF Crash
<1> QED
  BY <1>1, <1>3, <1>4, <1>5, AllSet

\* A round of the loop of an instance that is not in its batch is busy with nothing.
LEMMA RoundSet ==
    ASSUME HealthInv, NEW i \in Instances, round[i] # "batch", NEW runs \in [Agents -> HealthRun],
           \A a \in Agents : runs[a].step \in {"idle", "queued"}, work' = [work EXCEPT ![i] = runs],
           row' = row, unread' = unread, cached' = cached, acked' = acked, mark' = mark, kind' = kind,
           tainted' = tainted, NEW to \in {"idle", "listed", "batch", "off"},
           round' = [round EXCEPT ![i] = to]
    PROVE  HealthInv'
<1>1. i \in Workers /\ HealthTyped /\ \A a \in Agents : ~Busy(i, a)
  BY DEF Workers, HealthInv, Places
<1>2. /\ round' \in [Instances -> {"idle", "listed", "batch", "off"}]
      /\ \A j \in Instances \ {i} : round'[j] = round[j]
  BY <1>1 DEF HealthTyped
<1>3. tainted' \in [Agents -> BOOLEAN] /\ \A a \in Agents : tainted'[a] = (tainted[a] \/ Busy(i, a))
  <2>1. \A a \in Agents : tainted[a] \in BOOLEAN
    BY <1>1 DEF HealthTyped
  <2> QED
    BY <1>1, <2>1 DEF HealthTyped
<1> QED
  BY <1>1, <1>2, <1>3, AllSet

\* A round lists the Agents, takes the lock or gives up, and ends.
LEMMA LoopSteps ==
    ASSUME HealthInv, NEW i \in Instances, ListTargets(i) \/ LockRound(i) \/ EndRound(i)
    PROVE  HealthInv'
<1>1. HealthTyped /\ i \in Workers
  BY DEF HealthInv, Workers
<1>2. CASE ListTargets(i)
  <2> PICK runs : runs = [a \in Agents |-> IF a \in Targets THEN [Idle EXCEPT !.step = "queued"] ELSE Idle]
    OBVIOUS
  <2>1. Idle \in HealthRun /\ [Idle EXCEPT !.step = "queued"] \in HealthRun
        /\ Idle.step = "idle" /\ [Idle EXCEPT !.step = "queued"].step = "queued"
    BY HealthTypes DEF Idle, HealthRun, Steps
  <2>2. runs \in [Agents -> HealthRun] /\ \A a \in Agents : runs[a].step \in {"idle", "queued"}
    BY <2>1
  <2> QED
    BY <1>2, <2>2, RoundSet DEF ListTargets
<1>3. ASSUME LockRound(i), ~CanLock(lock, "health"), work' # work
      PROVE  HealthInv'
  <2> PICK runs : runs = [a \in Agents |-> Idle]
    OBVIOUS
  <2>1. runs \in [Agents -> HealthRun] /\ \A a \in Agents : runs[a].step \in {"idle", "queued"}
    BY HealthTypes DEF Idle
  <2>2. work' = [work EXCEPT ![i] = runs] /\ round' = [round EXCEPT ![i] = "idle"]
    BY <1>3 DEF LockRound
  <2> QED
    BY <1>3, <2>1, <2>2, RoundSet DEF LockRound
<1>4. ASSUME LockRound(i), work' = work
      PROVE  HealthInv'
  <2> PICK runs : runs = work[i]
    OBVIOUS
  <2>1. round[i] = "listed"
    BY <1>4 DEF LockRound
  <2>2. \A a \in Agents : ~Busy(i, a) /\ work[i][a] \in HealthRun
    BY <1>1, <2>1 DEF HealthInv, Places, HealthTyped
  <2>3. \A a \in Agents : runs[a].step \in {"idle", "queued"}
    BY <2>2 DEF Busy
  <2>4. runs \in [Agents -> HealthRun] /\ work' = [work EXCEPT ![i] = runs]
    BY <1>1, <1>4 DEF HealthTyped
  <2>5. PICK to \in {"idle", "listed", "batch", "off"} : round' = [round EXCEPT ![i] = to]
    BY <1>4 DEF LockRound
  <2> QED
    BY <1>4, <2>1, <2>3, <2>4, <2>5, RoundSet DEF LockRound
<1>5. CASE EndRound(i)
  <2> PICK runs : runs = [a \in Agents |-> Idle]
    OBVIOUS
  <2>1. work[i] = runs
    BY <1>5 DEF EndRound
  <2>2. runs \in [Agents -> HealthRun] /\ work' = [work EXCEPT ![i] = runs]
    BY <1>1, <1>5, <2>1 DEF HealthTyped, EndRound
  <2>3. \A a \in Agents : runs[a] = Idle /\ runs[a].step = "idle" /\ ~Busy(i, a)
    BY <2>1 DEF Idle, Busy
  <2>4. /\ round' \in [Instances -> {"idle", "listed", "batch", "off"}]
        /\ \A j \in Instances \ {i} : round'[j] = round[j]
    BY <1>1, <1>5 DEF EndRound, HealthTyped
  <2>5. tainted' \in [Agents -> BOOLEAN] /\ \A a \in Agents : tainted'[a] = (tainted[a] \/ Busy(i, a))
    <3>1. \A a \in Agents : tainted[a] \in BOOLEAN
      BY <1>1 DEF HealthTyped
    <3> QED
      BY <1>1, <1>5, <2>3, <3>1 DEF HealthTyped, EndRound
  <2> QED
    BY <1>1, <1>5, <2>2, <2>3, <2>4, <2>5, AllSet DEF EndRound
<1>6. LockRound(i) => work' = work \/ ~CanLock(lock, "health")
  BY DEF LockRound
<1> QED
  BY <1>2, <1>3, <1>4, <1>5, <1>6

\* A user reads or clears notifications while anything may be under way: what a
\* run relies on still holds.
LEMMA Acknowledged ==
    ASSUME HealthInv, NEW u \in Users, NEW chosen \in SUBSET Agents, Acknowledge(u, chosen)
    PROVE  HealthInv'
<1>1. HealthTyped
  BY DEF HealthInv
<1>2. /\ row' = row /\ cached' = cached /\ kind' = kind /\ round' = round /\ work' = work
      /\ tainted' = tainted /\ mark' = mark
      /\ unread' = [a \in Agents |-> IF a \in chosen THEN 0 ELSE unread[a]]
      /\ acked' = [a \in Agents |-> acked[a] \/ (a \in chosen /\ unread[a] > 0)]
  BY DEF Acknowledge
<1>3. unread' \in [Agents -> Nat] /\ acked' \in [Agents -> BOOLEAN]
  <2>1. \A a \in Agents : (acked[a] \/ (a \in chosen /\ unread[a] > 0)) \in BOOLEAN
    OBVIOUS
  <2>2. \A a \in Agents : unread[a] \in Nat
    BY <1>1 DEF HealthTyped
  <2> QED
    BY <1>2, <2>1, <2>2
<1>4. HealthTyped'
  BY <1>1, <1>2, <1>3 DEF HealthTyped
<1>5. \A w \in Workers, a \in Agents : Busy(w, a)' <=> Busy(w, a)
  BY <1>2 DEF Busy
<1>6. Places'
  BY <1>2, <1>5 DEF Places, HealthInv, Workers
<1>7. ASSUME NEW a \in Agents PROVE Settles(a)'
  <2>1. unread[a] \in Nat
    BY <1>1 DEF HealthTyped
  <2>2. /\ unread[a] = 0 => unread'[a] = 0
        /\ unread[a] = 1 => unread'[a] = 1 \/ (unread'[a] = 0 /\ acked'[a])
        /\ unread[a] = 0 /\ acked[a] => unread'[a] = 0 /\ acked'[a]
        /\ unread[a] \in {0, 1} => unread'[a] \in {0, 1}
    <3>1. unread'[a] = IF a \in chosen THEN 0 ELSE unread[a]
      BY <1>2
    <3>2. acked'[a] = (acked[a] \/ (a \in chosen /\ unread[a] > 0)) /\ acked[a] \in BOOLEAN
      BY <1>1, <1>2 DEF HealthTyped
    <3>3. acked[a] => acked'[a]
      BY <3>2
    <3>4. ASSUME a \in chosen, unread[a] = 1 PROVE acked'[a]
      <4>1. unread[a] > 0
        BY <3>4
      <4>2. (a \in chosen /\ unread[a] > 0) = TRUE
        BY <3>4, <4>1
      <4> QED
        BY <3>2, <4>2
    <3> QED
      BY <2>1, <3>1, <3>3, <3>4
  <2>3. Shows(a) => Shows(a)'
    BY <1>2, <2>2 DEF Shows
  <2>4. \A w \in Workers : OthersBusy(w, a)' <=> OthersBusy(w, a)
    BY <1>5 DEF OthersBusy
  <2>5. Settles(a)
    BY DEF HealthInv
  <2>6. ASSUME NEW w \in Workers, Busy(w, a)', work'[w][a].alone
        PROVE  Progress(a, kind[w], work[w][a])'
    <3>1. Progress(a, kind[w], work[w][a])
      BY <1>2, <1>5, <2>5, <2>6 DEF Settles
    <3> PICK run : run = work[w][a]
      OBVIOUS
    <3>2. run = work'[w][a] /\ kind'[w] = kind[w] /\ Progress(a, kind[w], run)
      BY <1>2, <3>1
    <3>3. /\ Written(a, run)' <=> Written(a, run)
          /\ Cached(a, run)' <=> Cached(a, run)
          /\ Noted(a, run.prev) => Noted(a, run.prev)'
      BY <1>2, <2>2 DEF Written, Cached, Noted
    <3> HIDE DEF Written, Cached, Noted, Shows
    <3>4. CASE run.step \in {"snapshot", "remove", "write"}
      BY <1>2, <2>3, <3>2, <3>4 DEF Progress
    <3>5. CASE run.step \in {"cache", "select", "insert"}
      BY <1>2, <2>2, <3>2, <3>3, <3>5 DEF Progress
    <3>6. CASE run.step \in {"dismiss", "invalidate", "uncache"}
      BY <1>2, <2>2, <2>3, <3>2, <3>3, <3>6 DEF Progress
    <3>7. CASE run.step \notin {"snapshot", "remove", "write", "cache", "select", "insert",
                               "dismiss", "invalidate", "uncache"}
      BY <3>2, <3>7 DEF Progress
    <3> QED
      BY <3>4, <3>5, <3>6, <3>7
  <2> QED
    BY <1>2, <1>5, <2>3, <2>4, <2>5, <2>6 DEF Settles, Overlaps
<1> QED
  BY <1>4, <1>6, <1>7 DEF HealthInv

\* The health key of an Agent expires: that is as right as the count it held.
LEMMA HealthExpired ==
    ASSUME HealthInv, NEW c \in Agents, ExpireHealth(c)
    PROVE  HealthInv'
<1>1. HealthTyped
  BY DEF HealthInv
<1>2. /\ row' = row /\ unread' = unread /\ acked' = acked /\ kind' = kind /\ round' = round
      /\ work' = work /\ tainted' = tainted /\ mark' = mark
      /\ cached' = [cached EXCEPT ![c] = None]
  BY DEF ExpireHealth
<1>3. HealthTyped'
  BY <1>1, <1>2 DEF HealthTyped
<1>4. \A w \in Workers, a \in Agents : Busy(w, a)' <=> Busy(w, a)
  BY <1>2 DEF Busy
<1>5. Places'
  BY <1>2, <1>4 DEF Places, HealthInv, Workers
<1>6. ASSUME NEW a \in Agents PROVE Settles(a)'
  <2>1. cached'[a] \in {cached[a], None}
    BY <1>1, <1>2 DEF HealthTyped
  <2>2. Shows(a) => Shows(a)'
    BY <1>2, <2>1 DEF Shows
  <2>3. \A w \in Workers : OthersBusy(w, a)' <=> OthersBusy(w, a)
    BY <1>4 DEF OthersBusy
  <2>4. Settles(a)
    BY DEF HealthInv
  <2>5. ASSUME NEW w \in Workers, Busy(w, a)', work'[w][a].alone
        PROVE  Progress(a, kind[w], work[w][a])'
    <3>1. Progress(a, kind[w], work[w][a])
      BY <1>2, <1>4, <2>4, <2>5 DEF Settles
    <3> PICK run : run = work[w][a]
      OBVIOUS
    <3>2. run = work'[w][a] /\ kind'[w] = kind[w] /\ Progress(a, kind[w], run)
      BY <1>2, <3>1
    <3>3. /\ Written(a, run)' <=> Written(a, run)
          /\ Cached(a, run) => Cached(a, run)'
          /\ Noted(a, run.prev)' <=> Noted(a, run.prev)
      BY <1>2, <2>1 DEF Written, Cached, Noted
    <3> HIDE DEF Written, Cached, Noted, Shows
    <3>4. CASE run.step \in {"snapshot", "remove", "write"}
      BY <1>2, <2>2, <3>2, <3>4 DEF Progress
    <3>5. CASE run.step \in {"cache", "select", "insert"}
      BY <1>2, <3>2, <3>3, <3>5 DEF Progress
    <3>6. CASE run.step \in {"dismiss", "invalidate", "uncache"}
      BY <1>2, <2>2, <3>2, <3>3, <3>6 DEF Progress
    <3>7. CASE run.step \notin {"snapshot", "remove", "write", "cache", "select", "insert",
                               "dismiss", "invalidate", "uncache"}
      BY <3>2, <3>7 DEF Progress
    <3> QED
      BY <3>4, <3>5, <3>6, <3>7
  <2> QED
    BY <1>2, <1>4, <2>2, <2>3, <2>4, <2>5 DEF Settles, Overlaps
<1> QED
  BY <1>3, <1>5, <1>6 DEF HealthInv

\* The other steps touch nothing of what the invariant is about, but for marks
\* that expire.
LEMMA HealthFrame ==
    ASSUME HealthInv, mark' \in [Agents -> BOOLEAN],
           UNCHANGED <<row, unread, cached, round, kind, work, acked, tainted>>
    PROVE  HealthInv'
<1>1. HealthTyped'
  BY DEF HealthInv, HealthTyped
<1>2. \A w \in Workers, a \in Agents : Busy(w, a)' <=> Busy(w, a)
  BY DEF Busy
<1>3. Places'
  BY <1>2 DEF Places, HealthInv, Workers
<1>4. ASSUME NEW a \in Agents PROVE Settles(a)'
  <2>1. \A w \in Workers : work[w][a] \in HealthRun
    BY DEF HealthInv, HealthTyped
  <2>2. Same(a)
    BY <2>1 DEF Same, Busy
  <2> QED
    BY <2>2, Untouched DEF HealthInv
<1> QED
  BY <1>1, <1>3, <1>4 DEF HealthInv

\* Every step keeps the invariant.
LEMMA HealthStep == HealthInv /\ [Next]_vars => HealthInv'
<1> SUFFICES ASSUME HealthInv, [Next]_vars PROVE HealthInv'
  OBVIOUS
<1>1. ASSUME NEW w \in Workers, NEW a \in Agents, Run(w, a) \/ StatementFails(w, a)
      PROVE  HealthInv'
  BY <1>1, PreviousRead, HealthUpdated, HealthCached, Dismissed, UnreadSelected, NotificationCreated,
     CountInvalidated, ServerDeleted, HealthKeyCleared, StatementFailed DEF Run
<1>2. ASSUME NEW i \in Instances, Loop(i)
      PROVE  HealthInv'
  BY <1>2, LoopSteps, LoopChecks DEF Loop
<1>3. ASSUME NEW r \in Requests, NEW a \in Agents, NEW k \in Kinds,
             IF k = "delete" THEN StartDelete(r, a) ELSE StartProbe(r, a, k)
      PROVE  HealthInv'
  BY <1>3, DeleteStarts, ProbeStarts
<1>4. ASSUME NEW u \in Users, NEW a \in Agents, Acknowledge(u, {a}) \/ Acknowledge(u, Agents)
      PROVE  HealthInv'
  BY <1>4, Acknowledged
<1>5. ASSUME NEW w \in Workers, Crash(w)
      PROVE  HealthInv'
  BY <1>5, Crashed
<1>6. mark \in [Agents -> BOOLEAN]
  BY DEF HealthInv, HealthTyped
<1>7. ASSUME NEW u \in Users, UnreadNotificationCount(u) \/ Handler(u)
      PROVE  HealthInv'
  BY <1>6, <1>7, HealthFrame DEF UnreadNotificationCount, Handler, CountUnreadNotifications,
     CacheUnreadNotificationCount, InvalidateAfterAcknowledge
<1>8. ASSUME NEW a \in Agents, Flip(a) \/ ExpireMark(a) \/ ExpireHealth(a)
      PROVE  HealthInv'
  BY <1>6, <1>8, HealthFrame, HealthExpired DEF Flip, ExpireMark
<1>9. ASSUME ExpireCount \/ ExpireLock
      PROVE  HealthInv'
  BY <1>6, <1>9, HealthFrame DEF ExpireCount, ExpireLock
<1>10. CASE UNCHANGED vars
  BY <1>6, <1>10, HealthFrame DEF vars
<1> QED
  BY <1>1, <1>2, <1>3, <1>4, <1>5, <1>7, <1>8, <1>9, <1>10 DEF Next

\* An Agent that no worker is busy with, and that no overlap, failure or crash
\* has left in doubt, is shown as it is: the outcome of every probe, deletion and
\* synchronisation that ran alone, whatever was acknowledged and whichever
\* health key expired meanwhile.
THEOREM HealthIsShown == Spec => []SettledAgrees
<1>1. HealthInv => SettledAgrees
  BY DEF HealthInv, Settles, SettledAgrees
<1> QED
  BY <1>1, HealthInit, HealthStep, PTL DEF Spec

-----------------------------------------------------------------------------
(***************************************************************************)
(* Timetable.                                                              *)
(***************************************************************************)
PlanTyped ==
    /\ plan \in [ends : Seq(Nat \ {0}), interval : Nat, offset : Nat, stops : Nat, faults : Nat]
    /\ \A i, j \in DOMAIN plan.ends : i < j => plan.ends[i] < plan.ends[j]

\* The process that took the lock at the time t is about to create the task.
Taken(t) == slot # Never /\ slot.since = t /\ t = now /\ creates[slot.by] # "none"
OnBooks(t) == t \in served \cup excused \/ Taken(t)

\* The timer of process p was armed at the time t0, and what has passed since p
\* started and before is accounted for.
ArmedAt(p, t0) ==
    /\ upSince[p] <= t0 /\ t0 <= now /\ now <= due[p] /\ due[p] = t0 + Delay(t0)
    /\ Anchored => \A t \in Nat : upSince[p] < t /\ t <= t0 /\ Planned(t) /\ Regular(t - 1)
                                  => OnBooks(t)

\* A loop creates its task at the time its timer was due for, and the lock belongs
\* to a time that is accounted for.
Books ==
    /\ creates \in [Processes -> {"none", "locked", "unlocked"}]
    /\ \A p \in Processes : creates[p] # "none" => due[p] = now
    /\ slot # Never => /\ slot.by \in Processes /\ slot.since \in Nat /\ slot.since <= now
                       /\ OnBooks(slot.since)
    /\ \A r \in running : r.since \in served

TimetableInv ==
    /\ PlanTyped /\ now \in Nat
    /\ upSince \in [Processes -> Nat \cup {Never}] /\ due \in [Processes -> Nat \cup {Never}]
    /\ Books
    /\ \A p \in Processes :
          /\ upSince[p] # Never => now < Horizon
          /\ due[p] # Never => upSince[p] # Never /\ plan.interval > 0
          /\ upSince[p] # Never /\ plan.interval > 0 => \E t0 \in Nat : ArmedAt(p, t0)

-----------------------------------------------------------------------------
(* Arithmetic *)

\* A set of natural numbers has a least one.
LEMMA Least ==
    ASSUME NEW T \in SUBSET Nat, T # {}
    PROVE  \E x \in T : \A y \in T : x <= y
<1>1. PICK x \in T : \A y \in T : ~(<<y, x>> \in OpToRel(<, Nat))
  BY NatLessThanWellFounded, WFMin
<1>2. ASSUME NEW y \in T PROVE x <= y
  <2>1. ~(<<y, x>> \in OpToRel(<, Nat))
    BY <1>1
  <2>2. ~(y < x)
    BY <2>1 DEF OpToRel
  <2> QED
    BY <2>2
<1> QED
  BY <1>2

\* Division with remainder.
LEMMA Quotient ==
    ASSUME NEW a \in Nat, NEW b \in Nat \ {0}
    PROVE  /\ a % b \in 0..(b - 1)
           /\ \E q \in Nat : a = b * q + (a % b)
<1>1. a % b \in 0..(b - 1) /\ a \div b \in Nat /\ a = b * (a \div b) + (a % b)
  OBVIOUS
<1> QED
  BY <1>1

\* Multiples grow with the factor.
LEMMA Multiples ==
    ASSUME NEW i \in Nat \ {0}, NEW a \in Nat, NEW b \in Nat
    PROVE  /\ a <= b => i * a <= i * b
           /\ a < b => i * a + i <= i * b
           /\ i * a \in Nat /\ i * (a + 1) = i * a + i /\ i * 0 = 0 /\ a <= i * a
<1>1. i * a \in Nat /\ i * (a + 1) = i * a + i /\ i * 0 = 0
  OBVIOUS
<1>2. \A d \in Nat : i * (a + d) = i * a + i * d /\ i * d >= 0
  OBVIOUS
<1>3. a <= b => i * a <= i * b
  <2>1. a <= b => b = a + (b - a) /\ b - a \in Nat
    OBVIOUS
  <2> QED
    BY <1>2, <2>1
<1>4. a < b => i * a + i <= i * b
  <2>1. ASSUME a < b PROVE i * (a + 1) <= i * b
    <3>1. b - (a + 1) \in Nat /\ b = (a + 1) + (b - (a + 1))
      BY <2>1
    <3>2. \A d \in Nat : i * ((a + 1) + d) = i * (a + 1) + i * d /\ i * d >= 0
      OBVIOUS
    <3> QED
      BY <3>1, <3>2
  <2> QED
    BY <1>1, <2>1
<1>5. a <= i * a
  OBVIOUS
<1> QED
  BY <1>1, <1>3, <1>4, <1>5

\* Between two multiples that follow each other there is none.
LEMMA NoneBetween ==
    ASSUME NEW i \in Nat \ {0}, NEW q \in Nat, NEW n \in Nat
    PROVE  ~(i * q < i * n /\ i * n < i * (q + 1))
<1>1. n <= q => i * n <= i * q
  BY Multiples
<1>2. q + 1 <= n => i * (q + 1) <= i * n
  <2>1. q + 1 \in Nat
    OBVIOUS
  <2> QED
    BY <2>1, Multiples
<1>3. i * q \in Nat /\ i * n \in Nat /\ i * (q + 1) \in Nat
  OBVIOUS
<1> QED
  BY <1>1, <1>2, <1>3

-----------------------------------------------------------------------------
(* Days *)

\* Days follow one another.
LEMMA DaysGrow ==
    ASSUME PlanTyped
    PROVE  /\ Len(plan.ends) \in Nat /\ DOMAIN plan.ends = 1..Len(plan.ends)
           /\ DayEnds(0) = 0 /\ \A k \in 0..Len(plan.ends) : DayEnds(k) \in Nat
           /\ \A j, k \in 0..Len(plan.ends) : j < k => DayEnds(j) < DayEnds(k)
<1>1. plan.ends \in Seq(Nat \ {0})
  BY DEF PlanTyped
<1>2. Len(plan.ends) \in Nat /\ DOMAIN plan.ends = 1..Len(plan.ends)
  BY <1>1
<1>3. \A k \in 1..Len(plan.ends) : plan.ends[k] \in Nat \ {0}
  BY <1>1
<1>4. \A k \in 0..Len(plan.ends) : DayEnds(k) \in Nat /\ (k # 0 => DayEnds(k) > 0)
  BY <1>2, <1>3 DEF DayEnds
<1>5. ASSUME NEW j \in 0..Len(plan.ends), NEW k \in 0..Len(plan.ends), j < k PROVE DayEnds(j) < DayEnds(k)
  <2>1. CASE j = 0
    BY <1>2, <1>4, <1>5, <2>1 DEF DayEnds
  <2>2. CASE j # 0
    <3>1. j \in DOMAIN plan.ends /\ k \in DOMAIN plan.ends /\ k # 0
      BY <1>2, <1>5, <2>2
    <3>2. plan.ends[j] < plan.ends[k]
      BY <1>5, <3>1 DEF PlanTyped
    <3> QED
      BY <2>2, <3>1, <3>2 DEF DayEnds
  <2> QED
    BY <2>1, <2>2
<1> QED
  BY <1>2, <1>4, <1>5 DEF DayEnds

\* A time belongs to one day.
LEMMA DayIs ==
    ASSUME PlanTyped, NEW t \in Nat, NEW k \in 1..Len(plan.ends), DayEnds(k - 1) <= t, t < DayEnds(k)
    PROVE  DayOf(t) = k /\ Midnight(t) = DayEnds(k - 1)
<1>1. ASSUME NEW j \in 1..Len(plan.ends), DayEnds(j - 1) <= t, t < DayEnds(j) PROVE j = k
  <2>1. /\ Len(plan.ends) \in Nat /\ j - 1 \in 0..Len(plan.ends) /\ k - 1 \in 0..Len(plan.ends)
        /\ j \in 0..Len(plan.ends) /\ k \in 0..Len(plan.ends)
    BY DaysGrow
  <2>2. /\ DayEnds(j) \in Nat /\ DayEnds(k) \in Nat /\ DayEnds(j - 1) \in Nat /\ DayEnds(k - 1) \in Nat
        /\ (j < k - 1 => DayEnds(j) < DayEnds(k - 1)) /\ (k < j - 1 => DayEnds(k) < DayEnds(j - 1))
    BY <2>1, DaysGrow
  <2>3. ~(j < k)
    <3>1. j < k => j = k - 1 \/ j < k - 1
      BY <2>1
    <3> QED
      BY <1>1, <2>2, <3>1
  <2>4. ~(k < j)
    <3>1. k < j => k = j - 1 \/ k < j - 1
      BY <2>1
    <3> QED
      BY <1>1, <2>2, <3>1
  <2> QED
    BY <2>1, <2>3, <2>4
<1>2. DOMAIN plan.ends = 1..Len(plan.ends)
  BY DaysGrow
<1>3. DayOf(t) = k
  BY <1>1, <1>2 DEF DayOf
<1> QED
  BY <1>3 DEF Midnight

\* Every time of the plan belongs to a day.
LEMMA DayExists ==
    ASSUME PlanTyped, NEW t \in Nat, t < Horizon
    PROVE  \E k \in 1..Len(plan.ends) :
              /\ DayEnds(k - 1) <= t /\ t < DayEnds(k) /\ DayOf(t) = k /\ Midnight(t) = DayEnds(k - 1)
              /\ k - 1 \in 0..Len(plan.ends) /\ k \in 0..Len(plan.ends)
              /\ DayEnds(k - 1) \in Nat /\ DayEnds(k) \in Nat
<1> DEFINE T == {k \in 0..Len(plan.ends) : t < DayEnds(k)}
<1>1. Len(plan.ends) \in Nat /\ DayEnds(0) = 0 /\ \A k \in 0..Len(plan.ends) : DayEnds(k) \in Nat
  BY DaysGrow
<1>2. Len(plan.ends) \in T /\ T \in SUBSET Nat
  BY <1>1 DEF Horizon
<1>3. PICK k \in T : \A j \in T : k <= j
  BY <1>2, Least
<1>4. k \in 0..Len(plan.ends) /\ k # 0
  BY <1>1, <1>3
<1>5. k \in 1..Len(plan.ends) /\ k - 1 \in 0..Len(plan.ends)
  BY <1>1, <1>4
<1>6. k - 1 \notin T
  BY <1>1, <1>3, <1>5
<1>7. DayEnds(k - 1) <= t /\ t < DayEnds(k)
  BY <1>1, <1>3, <1>5, <1>6
<1> QED
  BY <1>1, <1>4, <1>5, <1>7, DayIs

\* The timer is set to the next multiple of the interval, counted from midnight
\* or from the epoch.
LEMMA NextMultiple ==
    ASSUME PlanTyped, plan.interval > 0, NEW t0 \in Nat, t0 < Horizon
    PROVE  /\ plan.interval \in Nat \ {0} /\ plan.offset \in Nat
           /\ t0 + Delay(t0) \in Nat /\ t0 < t0 + Delay(t0) /\ t0 + Delay(t0) <= t0 + plan.interval
           /\ LET base == IF ByLocalDay THEN Midnight(t0) ELSE -plan.offset
                  i == plan.interval IN
              /\ base \in Int /\ base <= t0
              /\ \E q \in Nat : base + i * q <= t0 /\ t0 + Delay(t0) = base + i * (q + 1)
<1> DEFINE i == plan.interval
           base == IF ByLocalDay THEN Midnight(t0) ELSE -plan.offset
           e == Elapsed(t0)
<1>1. i \in Nat \ {0} /\ plan.offset \in Nat
  BY DEF PlanTyped
<1>2. Midnight(t0) \in Nat /\ Midnight(t0) <= t0
  BY DayExists
<1>3. base \in Int /\ base <= t0 /\ e \in Nat /\ t0 = base + e
  BY <1>1, <1>2 DEF Elapsed
<1>4. Delay(t0) = i - (e % i)
  BY DEF Delay
<1> HIDE DEF i, base, e
<1> DEFINE r == e % i
<1>5. r \in 0..(i - 1) /\ \E q \in Nat : e = i * q + r
  BY <1>1, <1>3, Quotient
<1>6. PICK q \in Nat : e = i * q + r
  BY <1>5
<1> DEFINE low == i * q
           high == i * (q + 1)
<1>7. low \in Nat /\ high = low + i
  BY <1>1, Multiples
<1>8. r \in 0..(i - 1) /\ Delay(t0) = i - r /\ e = low + r
  BY <1>4, <1>5, <1>6
<1> HIDE DEF r, low, high
<1>9. base + low <= t0 /\ t0 + Delay(t0) = base + high
  BY <1>1, <1>3, <1>7, <1>8
<1>10. t0 + Delay(t0) \in Nat /\ t0 < t0 + Delay(t0) /\ t0 + Delay(t0) <= t0 + i
  BY <1>1, <1>8
<1> QED
  BY <1>1, <1>3, <1>9, <1>10 DEF i, base, low, high

\* An anchored interval by local days divides an ordinary day.
LEMMA DividesDay ==
    ASSUME PlanTyped, Anchored, ByLocalDay
    PROVE  /\ plan.interval \in Nat \ {0} /\ plan.interval <= Day /\ Day \in Nat \ {0}
           /\ \E m \in Nat : Day = plan.interval * m
<1> DEFINE i == plan.interval
<1>1. i \in Nat \ {0} /\ i <= Day /\ Day \in Nat \ {0}
  BY DayAssumption DEF PlanTyped, Anchored
<1>2. i % Day = 0 \/ Day % i = 0
  BY DEF ByLocalDay
<1> HIDE DEF i
<1>3. CASE Day % i = 0
  <2>1. \E m \in Nat : Day = i * m + (Day % i)
    BY <1>1, Quotient
  <2>2. PICK m \in Nat : Day = i * m + (Day % i)
    BY <2>1
  <2>3. Day = i * m
    BY <1>1, <1>3, <2>2
  <2> QED
    BY <1>1, <2>3 DEF i
<1>4. CASE i % Day = 0
  <2>1. \E m \in Nat : i = Day * m + (i % Day)
    BY <1>1, Quotient
  <2>2. PICK m \in Nat : i = Day * m + (i % Day)
    BY <2>1
  <2>3. i = Day * m
    BY <1>1, <1>4, <2>2
  <2>4. ~(2 <= m)
    <3>1. 2 <= m => Day * 2 <= Day * m
      BY <1>1, Multiples
    <3> QED
      BY <1>1, <2>3, <3>1
  <2>5. m = 1
    <3>1. m # 0
      BY <1>1, <2>3
    <3> QED
      BY <2>4, <3>1
  <2>6. Day = i * 1
    BY <1>1, <2>3, <2>5
  <2> QED
    BY <1>1, <2>6 DEF i
<1> QED
  BY <1>2, <1>3, <1>4

-----------------------------------------------------------------------------
(* The timetable *)

\* Between the time a timer is armed and the time it is due there is no planned
\* time that counts.
LEMMA NothingBefore ==
    ASSUME PlanTyped, Anchored, NEW t0 \in Nat, NEW t \in Nat, t < Horizon, t0 < t, t < t0 + Delay(t0)
    PROVE  ~(Planned(t) /\ Regular(t - 1))
<1> DEFINE i == plan.interval
           base == IF ByLocalDay THEN Midnight(t0) ELSE -plan.offset
<1>0. plan.interval > 0 /\ t0 < Horizon /\ Len(plan.ends) \in Nat
  <2>1. Horizon \in Nat /\ Len(plan.ends) \in Nat
    BY DaysGrow DEF Horizon
  <2> QED
    BY <2>1 DEF Anchored
<1>1. /\ i \in Nat \ {0} /\ plan.offset \in Nat
      /\ t0 + Delay(t0) \in Nat /\ t0 + Delay(t0) <= t0 + i
      /\ base \in Int /\ base <= t0
      /\ \E q \in Nat : base + i * q <= t0 /\ t0 + Delay(t0) = base + i * (q + 1)
  BY <1>0, NextMultiple
<1>2. PICK q \in Nat : base + i * q <= t0 /\ t0 + Delay(t0) = base + i * (q + 1)
  BY <1>1
<1>3. SUFFICES ASSUME Planned(t), Regular(t - 1) PROVE FALSE
  OBVIOUS
<1>4. PICK n \in Nat : t = n * i + (IF ByLocalDay THEN Midnight(t) ELSE -plan.offset)
  BY <1>1, <1>3 DEF Planned
<1>5. /\ i * q \in Nat /\ i * n \in Nat /\ i * (q + 1) \in Nat /\ n * i = i * n
      /\ n = 0 => i * n = 0
      /\ n # 0 => i * n >= i
  <2>1. i * q \in Nat /\ i * n \in Nat /\ i * 0 = 0 /\ i * (q + 1) = i * q + i
    BY <1>1, Multiples
  <2>2. n # 0 => i * n >= i
    <3>1. 0 < n => i * 0 + i <= i * n
      BY <1>1, Multiples
    <3> QED
      BY <1>1, <2>1, <3>1
  <2>3. n * i = i * n
    BY <1>1
  <2> QED
    BY <1>1, <2>1, <2>2, <2>3
\* A planned time with the same base would lie between two multiples.
<1>6. t # i * n + base
  <2>1. ~(i * q < i * n /\ i * n < i * (q + 1))
    BY <1>1, NoneBetween
  <2> DEFINE a == i * q
             b == i * n
             c == i * (q + 1)
  <2>2. a \in Nat /\ b \in Nat /\ c \in Nat /\ base + a <= t0 /\ t0 + Delay(t0) = base + c /\ ~(a < b /\ b < c)
    BY <1>2, <1>5, <2>1
  <2> HIDE DEF a, b, c, base
  <2>3. t # b + base
    BY <1>1, <2>2
  <2> QED
    BY <2>3 DEF b
<1>7. CASE ~ByLocalDay
  BY <1>4, <1>5, <1>6, <1>7
<1>8. CASE ByLocalDay
  <2>1. PICK k \in 1..Len(plan.ends) :
           /\ DayEnds(k - 1) <= t0 /\ t0 < DayEnds(k) /\ Midnight(t0) = DayEnds(k - 1)
           /\ k - 1 \in 0..Len(plan.ends) /\ k \in 0..Len(plan.ends)
           /\ DayEnds(k - 1) \in Nat /\ DayEnds(k) \in Nat
    BY <1>0, DayExists
  <2>2. PICK j \in 1..Len(plan.ends) :
           /\ DayEnds(j - 1) <= t /\ t < DayEnds(j) /\ Midnight(t) = DayEnds(j - 1)
           /\ j - 1 \in 0..Len(plan.ends) /\ j \in 0..Len(plan.ends)
           /\ DayEnds(j - 1) \in Nat /\ DayEnds(j) \in Nat
    BY DayExists
  <2>3. t = i * n + DayEnds(j - 1)
    BY <1>4, <1>5, <1>8, <2>2
  <2>4. j # k
    BY <1>6, <1>8, <2>1, <2>2, <2>3
  <2>5. k < j
    <3>1. j < k => j = k - 1 \/ DayEnds(j) < DayEnds(k - 1)
      BY <1>0, <2>1, <2>2, DaysGrow
    <3>2. j < k => DayEnds(j) <= DayEnds(k - 1)
      BY <2>1, <2>2, <3>1
    <3> QED
      BY <1>0, <2>1, <2>2, <2>4, <3>2
  <2>6. DayEnds(k) <= DayEnds(j - 1)
    <3>1. k = j - 1 \/ DayEnds(k) < DayEnds(j - 1)
      BY <1>0, <2>1, <2>2, <2>5, DaysGrow
    <3> QED
      BY <2>1, <2>2, <3>1
  \* It is a midnight, for otherwise it is an interval or more after one.
  <2>7. n = 0 /\ t = DayEnds(j - 1)
    <3>1. ~(t >= DayEnds(j - 1) + i)
      <4>1. t < t0 + i /\ i \in Nat
        BY <1>1
      <4>2. t0 < DayEnds(j - 1) /\ DayEnds(j - 1) \in Nat
        BY <2>1, <2>2, <2>6
      <4> QED
        BY <4>1, <4>2
    <3>2. n # 0 => t >= DayEnds(j - 1) + i
      <4> DEFINE a == i * n
      <4>1. a \in Nat /\ (n # 0 => a >= i) /\ t = a + DayEnds(j - 1)
        BY <1>5, <2>3
      <4> HIDE DEF a
      <4> QED
        BY <1>1, <2>2, <4>1
    <3>3. n = 0
      BY <3>1, <3>2
    <3> QED
      BY <1>5, <2>2, <2>3, <3>3
  \* The day before it is an ordinary one.
  <2>8. DayEnds(j - 1) = DayEnds(j - 2) + Day /\ j - 2 \in 0..Len(plan.ends) /\ DayEnds(j - 2) \in Nat
    <3>1. j - 1 \in 1..Len(plan.ends) /\ j - 2 \in 0..Len(plan.ends) /\ j - 2 < j - 1 /\ (j - 1) - 1 = j - 2
      BY <1>0, <2>1, <2>2, <2>5
    <3>2. DayEnds(j - 2) < DayEnds(j - 1) /\ DayEnds(j - 2) \in Nat
      BY <2>2, <3>1, DaysGrow
    <3>3. t - 1 \in Nat /\ DayEnds((j - 1) - 1) <= t - 1 /\ t - 1 < DayEnds(j - 1)
      BY <2>2, <2>7, <3>1, <3>2
    <3>4. DayOf(t - 1) = j - 1 /\ Midnight(t - 1) = DayEnds((j - 1) - 1)
      BY <3>1, <3>3, DayIs
    <3> QED
      BY <1>3, <1>8, <3>1, <3>2, <3>4 DEF Regular
  <2>9. PICK m \in Nat : Day = i * m
    BY <1>8, DividesDay
  <2>10. i <= Day /\ Day \in Nat \ {0}
    BY <1>8, DividesDay
  <2>11. CASE k = j - 1
    <3>1. k - 1 = j - 2
      BY <2>1, <2>2, <2>11
    <3>2. DayEnds(k) = DayEnds(k - 1) + Day
      BY <2>8, <2>11, <3>1
    <3>3. i * q < i * m
      <4> DEFINE x == i * q
                 y == i * m
      <4>1. x \in Nat /\ y = Day /\ y \in Nat
        BY <1>5, <2>9, <2>10
      <4>2. DayEnds(k - 1) + x <= t0 /\ t0 < DayEnds(k - 1) + Day /\ DayEnds(k - 1) \in Nat
        BY <1>2, <1>8, <2>1, <3>2
      <4> HIDE DEF x, y
      <4>3. x < y
        BY <2>10, <4>1, <4>2
      <4> QED
        BY <4>3 DEF x, y
    <3>4. i * (q + 1) <= i * m
      <4>1. ~(m <= q)
        <5>1. m <= q => i * m <= i * q
          BY <1>1, Multiples
        <5> QED
          BY <1>5, <2>9, <2>10, <3>3, <5>1
      <4>2. q + 1 \in Nat /\ q + 1 <= m
        BY <4>1
      <4> QED
        BY <1>1, <4>2, Multiples
    <3>5. t0 + Delay(t0) <= DayEnds(k)
      BY <1>2, <1>5, <1>8, <2>1, <2>9, <2>10, <3>2, <3>4
    <3> QED
      BY <1>1, <2>1, <2>7, <2>11, <3>5
  <2>12. CASE k # j - 1
    <3>1. DayEnds(k) <= DayEnds(j - 2)
      <4>1. k = j - 2 \/ DayEnds(k) < DayEnds(j - 2)
        BY <1>0, <2>1, <2>2, <2>5, <2>8, <2>12, DaysGrow
      <4> QED
        BY <2>1, <2>8, <4>1
    <3>2. t0 < DayEnds(j - 2) /\ DayEnds(j - 2) \in Nat /\ t = DayEnds(j - 2) + Day
      BY <2>1, <2>7, <2>8, <3>1
    <3>3. t < t0 + i /\ i \in Nat /\ i <= Day /\ Day \in Nat
      <4>1. t0 + Delay(t0) <= t0 + i /\ t0 + Delay(t0) \in Nat /\ i \in Nat
        BY <1>1
      <4> QED
        BY <2>10, <4>1
    <3> QED
      BY <3>2, <3>3
  <2> QED
    BY <2>11, <2>12
<1> QED
  BY <1>7, <1>8

\* A timer that was armed on an ordinary day is due at a planned time.
LEMMA DueAsPlanned ==
    ASSUME PlanTyped, Anchored, NEW t0 \in Nat, t0 < Horizon, t0 + Delay(t0) < Horizon, Regular(t0)
    PROVE  Planned(t0 + Delay(t0))
<1> DEFINE i == plan.interval
           t == t0 + Delay(t0)
           base == IF ByLocalDay THEN Midnight(t0) ELSE -plan.offset
<1>0. plan.interval > 0
  BY DEF Anchored
<1>1. /\ i \in Nat \ {0} /\ plan.offset \in Nat
      /\ t \in Nat /\ t0 < t /\ base \in Int /\ base <= t0
      /\ \E q \in Nat : base + i * q <= t0 /\ t = base + i * (q + 1)
  BY <1>0, NextMultiple
<1>2. PICK q \in Nat : base + i * q <= t0 /\ t = base + i * (q + 1)
  BY <1>1
<1>3. i * q \in Nat /\ i * (q + 1) \in Nat /\ q + 1 \in Nat /\ q + 1 <= i * (q + 1) /\ (q + 1) * i = i * (q + 1)
  <2>1. q + 1 \in Nat
    OBVIOUS
  <2>2. q + 1 <= i * (q + 1) /\ i * (q + 1) \in Nat
    BY <1>1, <2>1, Multiples
  <2> QED
    BY <1>1, <2>1, <2>2, Multiples
<1> HIDE DEF t
<1>4. CASE ~ByLocalDay
  <2>1. t = (q + 1) * i + (-plan.offset)
    BY <1>1, <1>2, <1>3, <1>4
  <2>2. q + 1 \in 0..(t + plan.offset)
    BY <1>1, <1>3, <2>1
  <2> QED
    BY <1>4, <2>1, <2>2 DEF Planned, t
<1>5. CASE ByLocalDay
  <2>1. PICK k \in 1..Len(plan.ends) :
           /\ DayEnds(k - 1) <= t0 /\ t0 < DayEnds(k) /\ DayOf(t0) = k /\ Midnight(t0) = DayEnds(k - 1)
           /\ k - 1 \in 0..Len(plan.ends) /\ k \in 0..Len(plan.ends)
           /\ DayEnds(k - 1) \in Nat /\ DayEnds(k) \in Nat
    BY DayExists
  <2>2. DayEnds(k) = DayEnds(k - 1) + Day
    BY <1>5, <2>1 DEF Regular
  <2>3. PICK m \in Nat : Day = i * m
    BY <1>5, DividesDay
  <2>4. Day \in Nat
    BY <1>5, DividesDay
  <2>5. t = DayEnds(k - 1) + i * (q + 1) /\ DayEnds(k - 1) + i * q <= t0
    BY <1>2, <1>5, <2>1
  <2>6. i * (q + 1) <= Day
    <3>1. i * q < i * m
      <4> DEFINE low == i * q
      <4>1. low \in Nat /\ DayEnds(k - 1) + low <= t0
        BY <1>3, <2>5
      <4> HIDE DEF low
      <4>2. low < Day
        BY <2>1, <2>2, <2>4, <4>1
      <4> QED
        BY <2>3, <4>2 DEF low
    <3>2. ~(m <= q)
      <4>1. m <= q => i * m <= i * q
        BY <1>1, Multiples
      <4> QED
        BY <1>3, <2>3, <2>4, <3>1, <4>1
    <3>3. q + 1 \in Nat /\ q + 1 <= m
      BY <3>2
    <3>4. i * (q + 1) <= i * m
      BY <1>1, <3>3, Multiples
    <3> QED
      BY <2>3, <3>4
  <2> DEFINE high == i * (q + 1)
  <2>7. /\ high \in Nat /\ high <= Day /\ t = DayEnds(k - 1) + high /\ q + 1 <= high
        /\ high = (q + 1) * i
    BY <1>3, <2>5, <2>6
  <2> HIDE DEF high
  <2>8. CASE high < Day
    <3>1. Midnight(t) = DayEnds(k - 1)
      <4>1. DayEnds(k - 1) <= t /\ t < DayEnds(k)
        BY <2>1, <2>2, <2>4, <2>7, <2>8
      <4> QED
        BY <1>1, <2>1, <4>1, DayIs
    <3>2. t = (q + 1) * i + Midnight(t)
      BY <1>1, <2>1, <2>7, <3>1
    <3>3. q + 1 \in 0..(t + plan.offset)
      <4>1. plan.offset \in Nat /\ q + 1 \in Nat
        BY <1>1
      <4>2. t = DayEnds(k - 1) + high /\ q + 1 <= high /\ high \in Nat /\ DayEnds(k - 1) \in Nat
        BY <2>1, <2>7
      <4> QED
        BY <4>1, <4>2
    <3> QED
      BY <1>5, <3>2, <3>3 DEF Planned, t
  <2>9. CASE high = Day
    <3>1. t = DayEnds(k)
      BY <2>1, <2>2, <2>4, <2>7, <2>9
    <3>2. k + 1 \in 1..Len(plan.ends) /\ (k + 1) - 1 = k
      <4>1. Len(plan.ends) \in Nat /\ k # Len(plan.ends)
        BY <3>1, DaysGrow DEF Horizon, t
      <4> QED
        BY <2>1, <4>1
    <3>3. DayEnds(k) < DayEnds(k + 1)
      <4>1. k + 1 \in 0..Len(plan.ends) /\ k < k + 1
        BY <2>1, <3>2
      <4> QED
        BY <2>1, <4>1, DaysGrow
    <3>4. Midnight(t) = DayEnds((k + 1) - 1)
      <4>1. DayEnds((k + 1) - 1) <= t /\ t < DayEnds(k + 1)
        BY <2>1, <3>1, <3>2, <3>3
      <4> QED
        BY <1>1, <3>2, <4>1, DayIs
    <3>5. t = 0 * i + Midnight(t)
      BY <1>1, <3>1, <3>2, <3>4
    <3>6. 0 \in 0..(t + plan.offset)
      BY <1>1
    <3> QED
      BY <1>5, <3>5, <3>6 DEF Planned, t
  <2> QED
    BY <2>4, <2>7, <2>8, <2>9
<1> QED
  BY <1>4, <1>5

-----------------------------------------------------------------------------
(* The steps *)

\* The timetable stays what it is when a process stops or an error occurs.
SamePlan == plan'.ends = plan.ends /\ plan'.interval = plan.interval /\ plan'.offset = plan.offset

\* Then what is read of it stays the same.
LEMMA SameTimetable ==
    ASSUME SamePlan
    PROVE  /\ Anchored' = Anchored /\ Horizon' = Horizon
           /\ \A t : Delay(t)' = Delay(t) /\ Planned(t)' = Planned(t) /\ Regular(t)' = Regular(t)
<1> DEFINE ends(e, k) == IF k = 0 THEN 0 ELSE e[k]
           dayOf(e, t) == CHOOSE k \in DOMAIN e : ends(e, k - 1) <= t /\ t < ends(e, k)
           midnight(e, t) == ends(e, dayOf(e, t) - 1)
<1>1. \A t : Midnight(t) = midnight(plan.ends, t) /\ Midnight(t)' = midnight(plan'.ends, t)
  BY DEF Midnight, DayOf, DayEnds
<1>2. \A t : DayEnds(DayOf(t)) = ends(plan.ends, dayOf(plan.ends, t))
             /\ DayEnds(DayOf(t))' = ends(plan'.ends, dayOf(plan'.ends, t))
  BY DEF DayOf, DayEnds
<1> HIDE DEF ends, dayOf, midnight
<1>3. \A t : Midnight(t)' = Midnight(t) /\ DayEnds(DayOf(t))' = DayEnds(DayOf(t))
  BY <1>1, <1>2 DEF SamePlan
<1>4. ByLocalDay' = ByLocalDay
  BY DEF ByLocalDay, SamePlan
<1>5. Anchored' = Anchored
  BY <1>4 DEF Anchored, SamePlan
<1>6. Horizon' = Horizon
  BY DEF Horizon, DayEnds, SamePlan
<1>7. \A t : Elapsed(t)' = Elapsed(t)
  BY <1>3, <1>4 DEF Elapsed, SamePlan
<1>8. \A t : Delay(t)' = Delay(t)
  BY <1>7 DEF Delay, SamePlan
<1>9. \A t : Planned(t)' = Planned(t)
  BY <1>3, <1>4 DEF Planned, SamePlan
<1>10. \A t : Regular(t)' = Regular(t)
  BY <1>3, <1>4 DEF Regular
<1> QED
  BY <1>5, <1>6, <1>8, <1>9, <1>10

\* A timer that nobody touches.
LEMMA TimerKept ==
    ASSUME TimetableInv, SamePlan, NEW p \in Processes, upSince'[p] = upSince[p], due'[p] = due[p],
           upSince[p] # Never, plan.interval > 0, now' \in {now, now + 1}, now' = now \/ now # due[p],
           \A t \in Nat : OnBooks(t) => OnBooks(t)'
    PROVE  \E t0 \in Nat : ArmedAt(p, t0)'
<1>1. PICK t0 \in Nat : ArmedAt(p, t0)
  BY DEF TimetableInv
<1>2. upSince[p] \in Nat /\ due[p] \in Nat \cup {Never} /\ now \in Nat
  BY DEF TimetableInv
<1>3. due[p] \in Nat
  <2>1. t0 < Horizon
    <3>1. now < Horizon /\ t0 <= now /\ PlanTyped
      BY <1>1 DEF ArmedAt, TimetableInv
    <3>2. Horizon \in Nat
      BY <3>1, DaysGrow DEF Horizon
    <3> QED
      BY <1>2, <3>1, <3>2
  <2>2. t0 + Delay(t0) \in Nat
    BY <2>1, NextMultiple DEF TimetableInv
  <2> QED
    BY <1>1, <2>2 DEF ArmedAt
<1>4. upSince'[p] <= t0 /\ t0 <= now' /\ now' <= due'[p] /\ due'[p] = t0 + Delay(t0)
  BY <1>1, <1>2, <1>3 DEF ArmedAt
<1>5. Anchored => \A t \in Nat : upSince'[p] < t /\ t <= t0 /\ Planned(t) /\ Regular(t - 1)
                                 => OnBooks(t)'
  BY <1>1 DEF ArmedAt
<1>6. ArmedAt(p, t0)'
  BY <1>4, <1>5, SameTimetable DEF ArmedAt
<1> QED
  BY <1>6

\* A timer that is armed now.
LEMMA TimerArmed ==
    ASSUME PlanTyped, now \in Nat, now < Horizon, SamePlan, NEW p \in Processes, upSince'[p] \in Nat,
           upSince'[p] <= now, due'[p] = now + Delay(now), now' = now, plan.interval > 0,
           Anchored => \A t \in Nat : upSince'[p] < t /\ t <= now /\ Planned(t) /\ Regular(t - 1)
                                      => OnBooks(t)'
    PROVE  \E t0 \in Nat : ArmedAt(p, t0)'
<1>1. now + Delay(now) \in Nat /\ now < now + Delay(now)
  BY NextMultiple
<1>2. ArmedAt(p, now)'
  BY <1>1, SameTimetable DEF ArmedAt
<1> QED
  BY <1>2

\* What every step has to give.
LEMMA Timers ==
    ASSUME TimetableInv, SamePlan, PlanTyped', now' \in Nat, Books',
           upSince' \in [Processes -> Nat \cup {Never}], due' \in [Processes -> Nat \cup {Never}],
           \A p \in Processes :
              /\ upSince'[p] # Never => now' < Horizon
              /\ due'[p] # Never => upSince'[p] # Never /\ plan.interval > 0
              /\ upSince'[p] # Never /\ plan.interval > 0 => \E t0 \in Nat : ArmedAt(p, t0)'
    PROVE  TimetableInv'
<1>1. plan'.interval = plan.interval /\ Horizon' = Horizon
  BY SameTimetable DEF SamePlan
<1> QED
  BY <1>1 DEF TimetableInv

\* Steps that leave the timers alone.
LEMMA TimersKept ==
    ASSUME TimetableInv, SamePlan, PlanTyped', UNCHANGED <<due, upSince>>, now' \in {now, now + 1},
           now' = now \/ (now + 1 < Horizon /\ \A p \in Processes : due[p] # now),
           Books', \A t \in Nat : OnBooks(t) => OnBooks(t)'
    PROVE  TimetableInv'
<1>1. now' \in Nat /\ now \in Nat
  BY DEF TimetableInv
<1>3. ASSUME NEW p \in Processes
      PROVE  /\ upSince'[p] # Never => now' < Horizon
             /\ due'[p] # Never => upSince'[p] # Never /\ plan.interval > 0
             /\ upSince'[p] # Never /\ plan.interval > 0 => \E t0 \in Nat : ArmedAt(p, t0)'
  <2>1. upSince'[p] # Never /\ plan.interval > 0 => \E t0 \in Nat : ArmedAt(p, t0)'
    BY <1>1, TimerKept
  <2>2. /\ upSince'[p] # Never => now' < Horizon
        /\ due'[p] # Never => upSince'[p] # Never /\ plan.interval > 0
    BY DEF TimetableInv
  <2> QED
    BY <2>1, <2>2
<1>4. upSince' \in [Processes -> Nat \cup {Never}] /\ due' \in [Processes -> Nat \cup {Never}]
  BY DEF TimetableInv
<1> QED
  BY <1>1, <1>3, <1>4, Timers

\* A timer has fired: its time is accounted for, and it is armed again.
LEMMA TimerFires ==
    ASSUME TimetableInv, NEW p \in Processes, due[p] = now, Armed(p), SamePlan, PlanTyped',
           UNCHANGED <<now, upSince>>, Books', \A t \in Nat : OnBooks(t) => OnBooks(t)',
           OnBooks(now)'
    PROVE  TimetableInv'
<1>1. /\ PlanTyped /\ now \in Nat /\ now # Never /\ upSince[p] # Never /\ plan.interval > 0 /\ now < Horizon
      /\ upSince[p] \in Nat /\ due \in [Processes -> Nat \cup {Never}]
  BY NeverAssumption DEF TimetableInv
<1>2. PICK t0 \in Nat : ArmedAt(p, t0)
  BY <1>1 DEF TimetableInv
<1>3. now + Delay(now) \in Nat
  BY <1>1, NextMultiple
<1>4. /\ due' = [due EXCEPT ![p] = now + Delay(now)]
      /\ due' \in [Processes -> Nat \cup {Never}] /\ due'[p] = now + Delay(now)
      /\ \A q \in Processes \ {p} : due'[q] = due[q]
  BY <1>1, <1>3 DEF Armed
<1>5. ASSUME Anchored, NEW t \in Nat, upSince'[p] < t, t <= now, Planned(t), Regular(t - 1)
      PROVE  OnBooks(t)'
  <2>1. CASE t <= t0
    BY <1>2, <1>5, <2>1 DEF ArmedAt
  <2>2. CASE t0 < t /\ t < now
    <3>1. Horizon \in Nat
      BY <1>1, DaysGrow DEF Horizon
    <3>2. t < Horizon /\ t < t0 + Delay(t0)
      BY <1>1, <1>2, <2>2, <3>1 DEF ArmedAt
    <3> QED
      BY <1>1, <1>5, <2>2, <3>2, NothingBefore
  <2>3. CASE t = now
    <3>1. OnBooks(t)' <=> OnBooks(now)'
      BY <2>3 DEF OnBooks, Taken
    <3> QED
      BY <3>1
  <2> QED
    BY <1>1, <1>5, <2>1, <2>2, <2>3
<1>6. upSince[p] <= now
  BY <1>1, <1>2 DEF ArmedAt
<1>7. \E u \in Nat : ArmedAt(p, u)'
  BY <1>1, <1>4, <1>5, <1>6, TimerArmed
<1>8. ASSUME NEW q \in Processes
      PROVE  /\ upSince'[q] # Never => now' < Horizon
             /\ due'[q] # Never => upSince'[q] # Never /\ plan.interval > 0
             /\ upSince'[q] # Never /\ plan.interval > 0 => \E u \in Nat : ArmedAt(q, u)'
  <2>1. CASE q = p
    BY <1>1, <1>7, <2>1
  <2>2. CASE q # p
    <3>1. due'[q] = due[q]
      BY <1>4, <2>2
    <3>2. upSince'[q] # Never /\ plan.interval > 0 => \E u \in Nat : ArmedAt(q, u)'
      BY <3>1, TimerKept
    <3> QED
      BY <3>1, <3>2 DEF TimetableInv
  <2> QED
    BY <2>1, <2>2
<1>9. upSince' \in [Processes -> Nat \cup {Never}]
  BY DEF TimetableInv
<1> QED
  BY <1>1, <1>4, <1>8, <1>9, Timers

\* One stop or fault less.
LEMMA PlanSpent ==
    ASSUME PlanTyped,
           \/ plan' = plan
           \/ plan.stops > 0 /\ plan' = [plan EXCEPT !.stops = @ - 1]
           \/ plan.faults > 0 /\ plan' = [plan EXCEPT !.faults = @ - 1]
    PROVE  SamePlan /\ PlanTyped'
<1>1. SamePlan
  BY DEF PlanTyped, SamePlan
<1>2. plan' \in [ends : Seq(Nat \ {0}), interval : Nat, offset : Nat, stops : Nat, faults : Nat]
  <2>1. plan \in [ends : Seq(Nat \ {0}), interval : Nat, offset : Nat, stops : Nat, faults : Nat]
    BY DEF PlanTyped
  <2>2. CASE plan' = plan
    BY <2>1, <2>2
  <2>3. CASE plan.stops > 0 /\ plan' = [plan EXCEPT !.stops = @ - 1]
    <3>1. plan.stops - 1 \in Nat
      BY <2>1, <2>3
    <3> QED
      BY <2>1, <2>3, <3>1
  <2>4. CASE plan.faults > 0 /\ plan' = [plan EXCEPT !.faults = @ - 1]
    <3>1. plan.faults - 1 \in Nat
      BY <2>1, <2>4
    <3> QED
      BY <2>1, <2>4, <3>1
  <2> QED
    BY <2>2, <2>3, <2>4
<1> QED
  BY <1>1, <1>2 DEF PlanTyped, SamePlan

\* What a step has to give for the books.
LEMMA BooksFrom ==
    ASSUME Books, now \in Nat, now' = now,
           creates' \in [Processes -> {"none", "locked", "unlocked"}],
           \A p \in Processes : creates'[p] # "none" => due'[p] = now,
           served \subseteq served', excused \subseteq excused', \A r \in running' : r.since \in served',
           \A t \in Nat : Taken(t) => OnBooks(t)',
           \/ slot' = slot
           \/ slot' = Never
           \/ slot'.by \in Processes /\ slot'.since = now /\ OnBooks(now)'
    PROVE  Books' /\ \A t \in Nat : OnBooks(t) => OnBooks(t)'
<1>1. \A t \in Nat : OnBooks(t) => OnBooks(t)'
  BY DEF OnBooks
<1>2. \A t : OnBooks(t)' <=> \/ t \in served' \cup excused'
                               \/ /\ slot' # Never /\ slot'.since = t /\ t = now
                                  /\ creates'[slot'.by] # "none"
  BY DEF OnBooks, Taken
<1>3. slot' # Never => /\ slot'.by \in Processes /\ slot'.since \in Nat /\ slot'.since <= now
                       /\ OnBooks(slot.since)'
  <2>1. CASE slot' = slot
    <3>1. slot # Never => /\ slot.by \in Processes /\ slot.since \in Nat /\ slot.since <= now
                          /\ OnBooks(slot.since)
      BY DEF Books
    <3>2. slot # Never => \/ slot.since \in served' \cup excused'
                          \/ /\ slot' # Never /\ slot'.since = slot.since /\ slot.since = now
                             /\ creates'[slot'.by] # "none"
      BY <1>1, <1>2, <3>1
    <3> QED
      BY <1>2, <2>1, <3>1, <3>2
  <2>2. CASE slot' # Never /\ slot'.by \in Processes /\ slot'.since = now /\ OnBooks(now)'
    <3>1. \/ now \in served' \cup excused'
          \/ slot' # Never /\ slot'.since = now /\ creates'[slot'.by] # "none"
      BY <2>2 DEF OnBooks, Taken
    <3>2. OnBooks(slot.since)'
      BY <1>2, <2>2, <3>1
    <3> QED
      BY <2>2, <3>2
  <2> QED
    BY <2>1, <2>2
<1> QED
  BY <1>1, <1>3 DEF Books

\* The timer of p is armed again and it has no task to create.
LEMMA LoopRests ==
    ASSUME TimetableInv, NEW p \in Processes, Armed(p),
           \/ creates' = creates /\ creates[p] = "none"
           \/ creates' = [creates EXCEPT ![p] = "none"]
    PROVE  /\ creates' \in [Processes -> {"none", "locked", "unlocked"}]
           /\ \A q \in Processes : creates'[q] # "none" => due'[q] = now
           /\ creates'[p] = "none" /\ \A q \in Processes \ {p} : creates'[q] = creates[q]
<1>1. /\ creates \in [Processes -> {"none", "locked", "unlocked"}]
      /\ due \in [Processes -> Nat \cup {Never}]
      /\ \A q \in Processes : creates[q] # "none" => due[q] = now
  BY DEF TimetableInv, Books
<1>2. \A q \in Processes \ {p} : due'[q] = due[q] /\ creates'[q] = creates[q]
  BY <1>1 DEF Armed
<1>3. creates'[p] = "none" /\ creates' \in [Processes -> {"none", "locked", "unlocked"}]
  BY <1>1
<1> QED
  BY <1>1, <1>2, <1>3

\* The books are kept, and no time is forgotten.
LEMMA BooksKept ==
    ASSUME TimetableInv, [TtNext]_ttVars
    PROVE  Books' /\ \A t \in Nat : OnBooks(t) => OnBooks(t)'
<1>0. /\ Books /\ now \in Nat /\ now # Never
      /\ due \in [Processes -> Nat \cup {Never}]
      /\ creates \in [Processes -> {"none", "locked", "unlocked"}]
      /\ \A r \in running : r.since \in served
      /\ \A q \in Processes : creates[q] # "none" => due[q] = now
      /\ slot # Never => /\ slot.by \in Processes /\ slot.since \in Nat /\ slot.since <= now
                         /\ OnBooks(slot.since)
  BY NeverAssumption DEF TimetableInv, Books
<1>1. CASE Elapse
  <2>1. \A q \in Processes : creates[q] = "none"
    BY <1>0, <1>1 DEF Elapse
  <2>2. \A t : OnBooks(t) => t \in served \cup excused
    BY <1>0, <2>1 DEF OnBooks, Taken
  <2>3. /\ now' = now + 1 /\ (slot' = slot \/ slot' = Never)
        /\ UNCHANGED <<due, creates, running, served, excused>>
    BY <1>1 DEF Elapse
  <2>4. \A t : t \in served \cup excused => OnBooks(t)'
    BY <2>3 DEF OnBooks
  <2>5. slot' # Never => /\ slot'.by \in Processes /\ slot'.since \in Nat /\ slot'.since <= now'
                         /\ OnBooks(slot.since)'
    <3>1. slot' # Never => slot' = slot /\ slot.since \in served \cup excused
      BY <1>0, <2>2, <2>3
    <3>2. slot' # Never => OnBooks(slot.since)'
      BY <2>3, <3>1 DEF OnBooks
    <3> QED
      BY <1>0, <2>3, <3>1, <3>2
  <2>6. \A q \in Processes : creates'[q] # "none" => due'[q] = now'
    BY <2>1, <2>3
  <2>7. creates' \in [Processes -> {"none", "locked", "unlocked"}] /\ \A r \in running' : r.since \in served'
    BY <1>0, <2>3
  <2>8. Books'
    BY <2>5, <2>6, <2>7 DEF Books
  <2> QED
    BY <2>2, <2>4, <2>8
<1>2. CASE UNCHANGED ttVars
  <2>1. UNCHANGED <<now, due, slot, creates, running, served, excused>>
    BY <1>2 DEF ttVars
  <2>2. \A t \in Nat : Taken(t) => OnBooks(t)'
    BY <2>1 DEF Taken, OnBooks
  <2> QED
    BY <1>0, <2>1, <2>2, BooksFrom
<1>3. ASSUME NEW p \in Processes, Boot(p)
      PROVE  Books' /\ \A t \in Nat : OnBooks(t) => OnBooks(t)'
  <2>1. UNCHANGED <<now, slot, creates, running, served, excused>> /\ upSince[p] = Never
    BY <1>3 DEF Boot
  <2>2. \A q \in Processes \ {p} : due'[q] = due[q]
    BY <1>0, <1>3 DEF Boot, Armed
  <2>3. creates[p] = "none"
    BY <1>0, <2>1 DEF TimetableInv
  <2>4. \A t \in Nat : Taken(t) => OnBooks(t)'
    BY <2>1 DEF Taken, OnBooks
  <2> QED
    BY <1>0, <2>1, <2>2, <2>3, <2>4, BooksFrom
<1>4. ASSUME NEW p \in Processes, Halt(p)
      PROVE  Books' /\ \A t \in Nat : OnBooks(t) => OnBooks(t)'
  <2>1. /\ UNCHANGED <<now, slot, served>> /\ creates' = [creates EXCEPT ![p] = "none"]
        /\ due' = [due EXCEPT ![p] = Never] /\ running' \subseteq running
        /\ excused' = IF creates[p] # "none" /\ slot # Never /\ slot.by = p /\ slot.since = now
                      THEN excused \cup {now} ELSE excused
    BY <1>4 DEF Halt
  <2>2. \A t \in Nat : Taken(t) => OnBooks(t)'
    <3>1. ASSUME NEW t \in Nat, Taken(t), slot.by = p PROVE t \in excused'
      BY <2>1, <3>1 DEF Taken
    <3>2. ASSUME NEW t \in Nat, Taken(t), slot.by # p PROVE OnBooks(t)'
      BY <1>0, <2>1, <3>2 DEF Taken, OnBooks
    <3> QED
      BY <3>1, <3>2 DEF OnBooks
  <2>3. /\ creates' \in [Processes -> {"none", "locked", "unlocked"}]
        /\ \A q \in Processes : creates'[q] # "none" => due'[q] = now
    BY <1>0, <2>1
  <2>4. excused \subseteq excused' /\ \A r \in running' : r.since \in served'
    BY <1>0, <2>1
  <2> QED
    BY <1>0, <2>1, <2>2, <2>3, <2>4, BooksFrom
<1>5. ASSUME NEW p \in Processes, FireLocks(p) \/ FireUnlocked(p)
      PROVE  Books' /\ \A t \in Nat : OnBooks(t) => OnBooks(t)'
  <2>1. /\ due[p] = now /\ creates[p] = "none" /\ UNCHANGED <<now, due, running, served, excused>>
        /\ \/ slot = Never /\ slot' = LockOf(p)
           \/ slot' = slot
        /\ creates' = [creates EXCEPT ![p] = "locked"] \/ creates' = [creates EXCEPT ![p] = "unlocked"]
    BY <1>5 DEF FireLocks, FireUnlocked, Fires, Fault
  <2>2. /\ creates' \in [Processes -> {"none", "locked", "unlocked"}]
        /\ creates'[p] # "none" /\ \A q \in Processes \ {p} : creates'[q] = creates[q]
    BY <1>0, <2>1
  <2>3. \A t \in Nat : Taken(t) => OnBooks(t)'
    <3>1. \A t \in Nat : Taken(t) => slot' = slot
      BY <2>1 DEF Taken
    <3> QED
      BY <1>0, <2>1, <2>2, <3>1 DEF Taken, OnBooks
  <2>4. slot' = slot \/ (slot'.by \in Processes /\ slot'.since = now /\ OnBooks(now)')
    <3>1. slot' # slot => slot' # Never /\ slot'.by = p /\ slot'.since = now
      BY <2>1 DEF LockOf
    <3>2. slot' # slot => Taken(now)'
      BY <2>1, <2>2, <3>1 DEF Taken
    <3> QED
      BY <3>1, <3>2 DEF OnBooks
  <2> QED
    BY <1>0, <2>1, <2>2, <2>3, <2>4, BooksFrom
<1>6. ASSUME NEW p \in Processes, FireSkips(p) \/ FireMisled(p)
      PROVE  Books' /\ \A t \in Nat : OnBooks(t) => OnBooks(t)'
  <2>1. /\ creates[p] = "none" /\ Armed(p) /\ UNCHANGED <<now, creates, running, served>>
        /\ excused \subseteq excused'
        /\ \/ slot = Never /\ slot' = LockOf(p) /\ now \in excused'
           \/ slot' = slot
    BY <1>6 DEF FireSkips, FireMisled, Fires, Fault
  <2>2. /\ creates' \in [Processes -> {"none", "locked", "unlocked"}]
        /\ \A q \in Processes : creates'[q] # "none" => due'[q] = now
    BY <2>1, LoopRests
  <2>3. \A t \in Nat : Taken(t) => OnBooks(t)'
    BY <2>1 DEF Taken, OnBooks
  <2>4. slot' = slot \/ (slot'.by \in Processes /\ slot'.since = now /\ OnBooks(now)')
    <3>1. slot' # slot => slot'.by = p /\ slot'.since = now /\ now' \in excused'
      BY <2>1 DEF LockOf
    <3> QED
      BY <2>1, <3>1 DEF OnBooks
  <2> QED
    BY <1>0, <2>1, <2>2, <2>3, <2>4, BooksFrom
<1>7. ASSUME NEW p \in Processes, QueueTask(p) \/ TaskFails(p)
      PROVE  Books' /\ \A t \in Nat : OnBooks(t) => OnBooks(t)'
  <2>1. /\ creates' = [creates EXCEPT ![p] = "none"] /\ Armed(p) /\ now' = now
        /\ served \subseteq served' /\ excused \subseteq excused' /\ now \in served' \cup excused'
        /\ slot' = slot \/ slot' = Never
    BY <1>7 DEF QueueTask, TaskFails, Unlocked
  <2>2. /\ creates' \in [Processes -> {"none", "locked", "unlocked"}]
        /\ \A q \in Processes : creates'[q] # "none" => due'[q] = now
    BY <2>1, LoopRests
  <2>3. \A t \in Nat : Taken(t) => OnBooks(t)'
    BY <2>1 DEF Taken, OnBooks
  <2>4. \A r \in running' : r.since \in served'
    BY <1>0, <1>7 DEF QueueTask, TaskFails
  <2> QED
    BY <1>0, <2>1, <2>2, <2>3, <2>4, BooksFrom
<1>8. ASSUME NEW r \in running, RunEnds(r)
      PROVE  Books' /\ \A t \in Nat : OnBooks(t) => OnBooks(t)'
  <2>1. /\ UNCHANGED <<now, due, creates, served, excused>> /\ running' \subseteq running
        /\ slot' = slot \/ (slot' = Never /\ (slot # Never => slot.since = r.since))
    BY <1>8 DEF RunEnds, Unlocked
  <2>2. r.since \in served
    BY <1>0
  <2>3. \A t \in Nat : Taken(t) => OnBooks(t)'
    <3>1. ASSUME NEW t \in Nat, Taken(t), slot' = slot PROVE OnBooks(t)'
      BY <2>1, <3>1 DEF Taken, OnBooks
    <3>2. ASSUME NEW t \in Nat, Taken(t), slot' # slot PROVE OnBooks(t)'
      BY <2>1, <2>2, <3>2 DEF Taken, OnBooks
    <3> QED
      BY <3>1, <3>2
  <2>4. \A x \in running' : x.since \in served'
    BY <1>0, <2>1
  <2> QED
    BY <1>0, <2>1, <2>3, <2>4, BooksFrom
<1> QED
  BY <1>1, <1>2, <1>3, <1>4, <1>5, <1>6, <1>7, <1>8 DEF TtNext

\* A process starts.
LEMMA BootTimer ==
    ASSUME TimetableInv, NEW p \in Processes, Boot(p)
    PROVE  TimetableInv'
<1>0. Books' /\ \A t \in Nat : OnBooks(t) => OnBooks(t)'
  BY BooksKept DEF TtNext
<1>1. /\ PlanTyped /\ now \in Nat /\ now # Never /\ now < Horizon /\ plan.interval \in Nat
      /\ due \in [Processes -> Nat \cup {Never}] /\ upSince \in [Processes -> Nat \cup {Never}]
  BY NeverAssumption DEF TimetableInv, PlanTyped, Boot
<1>2. /\ upSince[p] = Never /\ upSince' = [upSince EXCEPT ![p] = now]
      /\ IF plan.interval = 0 THEN due' = due ELSE due' = [due EXCEPT ![p] = now + Delay(now)]
      /\ UNCHANGED <<plan, now, slot, creates, served, excused>>
  BY DEF Boot, Armed
<1>3. SamePlan /\ PlanTyped'
  BY <1>1, <1>2, PlanSpent
<1>4. plan.interval > 0 => now + Delay(now) \in Nat
  BY <1>1, NextMultiple
<1>5. /\ upSince' \in [Processes -> Nat \cup {Never}] /\ upSince'[p] = now
      /\ due' \in [Processes -> Nat \cup {Never}]
      /\ plan.interval > 0 => due'[p] = now + Delay(now)
      /\ plan.interval = 0 => due'[p] = due[p]
      /\ \A q \in Processes \ {p} : upSince'[q] = upSince[q] /\ due'[q] = due[q]
  BY <1>1, <1>2, <1>4
<1>6. plan.interval > 0 => \E t0 \in Nat : ArmedAt(p, t0)'
  BY <1>1, <1>2, <1>3, <1>5, TimerArmed
<1>7. ASSUME NEW q \in Processes
      PROVE  /\ upSince'[q] # Never => now' < Horizon
             /\ due'[q] # Never => upSince'[q] # Never /\ plan.interval > 0
             /\ upSince'[q] # Never /\ plan.interval > 0 => \E t0 \in Nat : ArmedAt(q, t0)'
  <2>1. CASE q = p
    <3>1. due[p] = Never
      BY <1>2 DEF TimetableInv
    <3> QED
      BY <1>1, <1>2, <1>5, <1>6, <2>1, <3>1
  <2>2. CASE q # p
    <3>1. due'[q] = due[q] /\ upSince'[q] = upSince[q]
      BY <1>5, <2>2
    <3>2. upSince'[q] # Never /\ plan.interval > 0 => \E t0 \in Nat : ArmedAt(q, t0)'
      BY <1>0, <1>2, <1>3, <3>1, TimerKept
    <3> QED
      BY <1>2, <3>1, <3>2 DEF TimetableInv
  <2> QED
    BY <2>1, <2>2
<1> QED
  BY <1>0, <1>1, <1>2, <1>3, <1>5, <1>7, Timers

\* A process stops.
LEMMA HaltTimer ==
    ASSUME TimetableInv, NEW p \in Processes, Halt(p)
    PROVE  TimetableInv'
<1>0. Books' /\ \A t \in Nat : OnBooks(t) => OnBooks(t)'
  BY BooksKept DEF TtNext
<1>1. /\ PlanTyped /\ due \in [Processes -> Nat \cup {Never}] /\ upSince \in [Processes -> Nat \cup {Never}]
      /\ now \in Nat
  BY DEF TimetableInv
<1>2. /\ due' = [due EXCEPT ![p] = Never] /\ upSince' = [upSince EXCEPT ![p] = Never]
      /\ now' = now
  BY DEF Halt
<1>3. SamePlan /\ PlanTyped'
  BY <1>1, PlanSpent DEF Halt
<1>4. /\ upSince' \in [Processes -> Nat \cup {Never}] /\ upSince'[p] = Never
      /\ due' \in [Processes -> Nat \cup {Never}] /\ due'[p] = Never
      /\ \A q \in Processes \ {p} : upSince'[q] = upSince[q] /\ due'[q] = due[q]
  BY <1>1, <1>2
<1>5. ASSUME NEW q \in Processes
      PROVE  /\ upSince'[q] # Never => now' < Horizon
             /\ due'[q] # Never => upSince'[q] # Never /\ plan.interval > 0
             /\ upSince'[q] # Never /\ plan.interval > 0 => \E t0 \in Nat : ArmedAt(q, t0)'
  <2>1. CASE q = p
    BY <1>4, <2>1
  <2>2. CASE q # p
    <3>1. due'[q] = due[q] /\ upSince'[q] = upSince[q]
      BY <1>4, <2>2
    <3>2. upSince'[q] # Never /\ plan.interval > 0 => \E t0 \in Nat : ArmedAt(q, t0)'
      BY <1>0, <1>2, <1>3, <3>1, TimerKept
    <3> QED
      BY <1>2, <3>1, <3>2 DEF TimetableInv
  <2> QED
    BY <2>1, <2>2
<1> QED
  BY <1>0, <1>1, <1>2, <1>3, <1>4, <1>5, Timers

\* A loop comes round: the time is skipped, or its task is created or fails.
LEMMA LoopEnds ==
    ASSUME TimetableInv, NEW p \in Processes,
           FireSkips(p) \/ FireMisled(p) \/ QueueTask(p) \/ TaskFails(p)
    PROVE  TimetableInv'
<1>0. Books' /\ \A t \in Nat : OnBooks(t) => OnBooks(t)'
  BY BooksKept DEF TtNext
<1>1. Armed(p) /\ UNCHANGED <<now, upSince>>
  BY DEF FireSkips, FireMisled, QueueTask, TaskFails, Fault
<1>2. due[p] = now
  BY DEF FireSkips, FireMisled, QueueTask, TaskFails, Fires, TimetableInv, Books
<1>3. SamePlan /\ PlanTyped'
  BY PlanSpent DEF TimetableInv, FireSkips, FireMisled, QueueTask, TaskFails, Fault
<1>4. OnBooks(now)'
  <2>1. CASE FireMisled(p) \/ QueueTask(p) \/ TaskFails(p)
    <3>1. now' \in served' \cup excused'
      BY <2>1 DEF FireMisled, QueueTask, TaskFails, Fault
    <3> QED
      BY <3>1 DEF OnBooks
  <2>2. CASE FireSkips(p)
    <3>1. slot # Never /\ now' = now /\ (slot.since < now => now \in excused')
      BY <2>2 DEF FireSkips
    <3>2. /\ slot.since \in Nat /\ slot.since <= now /\ now \in Nat
          /\ OnBooks(slot.since)
      BY <3>1 DEF TimetableInv, Books
    <3>3. CASE slot.since < now
      BY <3>1, <3>3 DEF OnBooks
    <3>4. CASE slot.since = now
      <4>1. OnBooks(now)
        BY <3>2, <3>4 DEF OnBooks, Taken
      <4>2. UNCHANGED <<now, slot, creates, served>> /\ excused \subseteq excused'
        BY <2>2 DEF FireSkips
      <4> QED
        BY <4>1, <4>2 DEF OnBooks, Taken
    <3> QED
      BY <3>2, <3>3, <3>4
  <2> QED
    BY <2>1, <2>2
<1> QED
  BY <1>0, <1>1, <1>2, <1>3, <1>4, TimerFires

\* The initial states.
LEMMA TimetableInit == TtInit => TimetableInv
<1> SUFFICES ASSUME TtInit PROVE TimetableInv
  OBVIOUS
<1>1. /\ plan \in Plans /\ now = 0 /\ slot = Never
      /\ due = [p \in Processes |-> Never] /\ upSince = [p \in Processes |-> Never]
  BY DEF TtInit
<1>2. PlanTyped
  BY <1>1, PlansAssumption DEF PlanTyped
<1>3. Books
  BY DEF TtInit, Books
<1> QED
  BY <1>1, <1>2, <1>3 DEF TimetableInv

\* All steps.
LEMMA TimetableNext == TimetableInv /\ [TtNext]_ttVars => TimetableInv'
<1> SUFFICES ASSUME TimetableInv, [TtNext]_ttVars PROVE TimetableInv'
  OBVIOUS
<1>0. PlanTyped /\ Books' /\ \A t \in Nat : OnBooks(t) => OnBooks(t)'
  BY BooksKept DEF TimetableInv
<1>1. CASE Elapse
  BY <1>0, <1>1, PlanSpent, TimersKept DEF Elapse
<1>2. ASSUME NEW p \in Processes, FireLocks(p) \/ FireUnlocked(p) PROVE TimetableInv'
  <2>1. UNCHANGED <<due, upSince, now>>
    BY <1>2 DEF FireLocks, FireUnlocked, Fault
  <2>2. SamePlan /\ PlanTyped'
    BY <1>0, <1>2, PlanSpent DEF FireLocks, FireUnlocked, Fault
  <2> QED
    BY <1>0, <2>1, <2>2, TimersKept
<1>3. ASSUME NEW r \in running, RunEnds(r) PROVE TimetableInv'
  <2>1. UNCHANGED <<due, upSince, now>>
    BY <1>3 DEF RunEnds, Fault
  <2>2. SamePlan /\ PlanTyped'
    BY <1>0, <1>3, PlanSpent DEF RunEnds, Fault
  <2> QED
    BY <1>0, <2>1, <2>2, TimersKept
<1>4. CASE UNCHANGED ttVars
  BY <1>0, <1>4, PlanSpent, TimersKept DEF ttVars
<1> QED
  BY <1>1, <1>2, <1>3, <1>4, BootTimer, HaltTimer, LoopEnds DEF TtNext

\* A timer of a backend process that was armed on an ordinary day is due at a time
\* of the timetable, however late and often the process started.
THEOREM TimersOnTime == TtSpec => []OnTime
<1>1. TimetableInv => OnTime
  <2> SUFFICES ASSUME TimetableInv, NEW p \in Processes, Anchored, due[p] # Never, due[p] < Horizon,
                      \A t \in upSince[p]..(due[p] - 1) : Regular(t)
               PROVE  Planned(due[p])
    BY DEF OnTime
  <2>1. /\ PlanTyped /\ now \in Nat /\ now < Horizon /\ upSince[p] # Never /\ plan.interval > 0
        /\ upSince[p] \in Nat /\ due[p] \in Nat
    BY DEF TimetableInv
  <2>2. PICK t0 \in Nat : ArmedAt(p, t0)
    BY <2>1 DEF TimetableInv
  <2>3. /\ upSince[p] <= t0 /\ t0 <= now /\ due[p] = t0 + Delay(t0)
    BY <2>2 DEF ArmedAt
  <2>4. t0 < Horizon
    <3>1. Horizon \in Nat
      BY <2>1, DaysGrow DEF Horizon
    <3> QED
      BY <2>1, <2>3, <3>1
  <2>5. t0 < due[p]
    BY <2>1, <2>3, <2>4, NextMultiple
  <2>6. Regular(t0)
    BY <2>1, <2>3, <2>5
  <2> QED
    BY <2>1, <2>3, <2>4, <2>6, DueAsPlanned
<1> QED
  BY <1>1, TimetableInit, TimetableNext, PTL DEF TtSpec

\* No planned time passes while a process is up without a task, unless the lock was
\* held or its answer lost, the creation failed or its process stopped before it:
\* whatever processes stop, start and share the lock.
THEOREM NoTimeMissed == TtSpec => []NoneMissed
<1>1. TimetableInv => NoneMissed
  <2> SUFFICES ASSUME TimetableInv, NEW p \in Processes, NEW t \in 1..(now - 1), Anchored,
                      upSince[p] # Never, upSince[p] < t, Planned(t), Regular(t - 1)
               PROVE  t \in served \cup excused
    BY DEF NoneMissed
  <2>1. /\ PlanTyped /\ now \in Nat /\ now < Horizon /\ plan.interval > 0 /\ upSince[p] \in Nat
        /\ t \in Nat /\ t < now
    BY DEF TimetableInv, Anchored
  <2>2. PICK t0 \in Nat : ArmedAt(p, t0)
    BY <2>1 DEF TimetableInv
  <2>3. CASE t <= t0
    <3>1. OnBooks(t)
      BY <2>1, <2>2, <2>3 DEF ArmedAt
    <3> QED
      BY <2>1, <3>1 DEF OnBooks, Taken
  <2>4. CASE t0 < t
    <3>1. Horizon \in Nat
      BY <2>1, DaysGrow DEF Horizon
    <3>2. t0 < Horizon
      BY <2>1, <2>4, <3>1
    <3>3. t0 + Delay(t0) \in Nat
      BY <2>1, <3>2, NextMultiple
    <3>4. t < Horizon /\ t < t0 + Delay(t0)
      BY <2>1, <2>2, <3>1, <3>3 DEF ArmedAt
    <3> QED
      BY <2>1, <2>4, <3>4, NothingBefore
  <2> QED
    BY <2>1, <2>3, <2>4
<1> QED
  BY <1>1, TimetableInit, TimetableNext, PTL DEF TtSpec
=============================================================================
