------------------------ MODULE DHCPSnapshot_proofs ------------------------
(***************************************************************************)
(* Proofs about DHCPSnapshot, for every set of scopes, items, workers and  *)
(* operations, and every number of failures.                               *)
(***************************************************************************)
EXTENDS DHCPSnapshot, TLAPS

-----------------------------------------------------------------------------
(***************************************************************************)
(* The invariant.                                                          *)
(***************************************************************************)
\* A handler that still finds its rows may change them.
RowsLive ==
    \A o \in Ops : op[o].row => RowLives(op[o].kind, op[o].item, snap[op[o].scope])

\* The types of the variables, and whose rows are there.
Typed == TypeOK /\ RowsLive

\* The scopes that a synchronisation still has to read were listed; its workers
\* run only while it waits for them, and it is cancelled only by its timeout.
SyncShape ==
    /\ \A s \in sync.todo : sync.listed[s] # None
    /\ sync.offer # None => sync.listed[sync.offer] # None
    /\ sync.pc # "pool" => sync.todo = {} /\ sync.offer = None
    /\ sync.cancelled => sync.expired
    /\ \A w \in Workers :
          /\ worker[w].pc # "idle" => sync.pc = "pool"
          /\ worker[w].pc \in {"check", "fetch", "store"} =>
                worker[w].scope \in Scopes /\ sync.listed[worker[w].scope] # None
          /\ worker[w].pc \in {"idle", "gone"} => worker[w].scope = None

\* The list has of a scope its state.
StateOf(c) == IF c = None THEN None ELSE c.state

\* A handler or the scheduler will see to a refresh of the scope.
Marks(h, s) == h.scope = s /\ (h.pc = "mark" \/ (h.pc = "save" /\ h.kind # "deleteScope"))
Deletes(h, s) == h.scope = s /\ h.pc = "save" /\ h.kind = "deleteScope"
Dirty(s) == owed[s] \/ \E o \in Ops : Marks(op[o], s)
Comes(s) == Dirty(s) \/ fire[s] = "owed"

\* The scope was deleted, and the handler is about to remove its rows.
Deleting(s) == \E o \in Ops : Deletes(op[o], s)
Leaving(s) == agent[s] = None /\ Deleting(s)

\* What a refresh has read is what the Agent holds, or another refresh follows.
RefreshRight(s) ==
    CASE ref[s].pc = "details" ->
            \/ Comes(s) \/ Leaving(s) \/ (agent[s] = None /\ snap[s] = None)
            \/ agent[s] # None /\ ref[s].state = agent[s].state
      [] ref[s].pc = "store" ->
            \/ Comes(s) \/ Leaving(s)
            \/ agent[s] = [state |-> ref[s].state, items |-> ref[s].items]
      [] ref[s].pc = "gone" -> Comes(s) \/ agent[s] = None
      [] OTHER -> TRUE

\* So is what a synchronisation has read.  A refresh that was under way before it
\* started cannot answer for what changed since then: a dirty entry has to.
SyncRight(s) ==
    /\ sync.pc = "replace" => Dirty(s) \/ Leaving(s) \/ sync.listed[s] = StateOf(agent[s])
    /\ sync.pc = "pool" /\ agent[s] # None => Dirty(s) \/ sync.listed[s] = agent[s].state
    /\ \A w \in Workers : worker[w].pc = "store" /\ worker[w].scope = s =>
          \/ Dirty(s) \/ Leaving(s)
          \/ agent[s] = [state |-> sync.listed[s], items |-> worker[w].items]

\* A scope that was created again before its rows were removed is dirty.
DeletionRight(s) == Deleting(s) /\ agent[s] # None => Dirty(s)

\* The snapshot is what the Agent holds, or something is still to be done.
SnapRight(s) ==
    \/ Comes(s) \/ Leaving(s) \/ snap[s] = agent[s]
    \/ ref[s].pc # "idle" \/ queued[s] > 0

Agreeing(s) == RefreshRight(s) /\ SyncRight(s) /\ DeletionRight(s) /\ SnapRight(s)

\* Of a scope that nobody else touched: what the synchronisation has done so far.
Busy(s) == \/ s \in sync.todo \/ sync.offer = s
           \/ \E w \in Workers : worker[w].scope = s

Exact(s) ==
    /\ sync.pc \in {"replace", "pool"} => sync.listed[s] = StateOf(agent[s])
    /\ sync.pc = "pool" =>
          snap[s] = agent[s] \/ sync.cancelled \/ sync.failed \/ (agent[s] # None /\ Busy(s))
    /\ \A w \in Workers : worker[w].pc = "store" /\ worker[w].scope = s =>
          agent[s] # None /\ worker[w].items = agent[s].items
    /\ sync.pc = "end" /\ sync.result = "nil" => snap[s] = agent[s]

SnapInv ==
    /\ Typed /\ SyncShape
    /\ \A s \in Scopes \ excused : Agreeing(s)
    /\ \A s \in Scopes \ touched : Exact(s)

-----------------------------------------------------------------------------
(***************************************************************************)
(* Types.                                                                  *)
(***************************************************************************)
Stored == Content \cup {None}

\* Facts about contents, and that None is neither a scope, nor one, nor a state.
LEMMA Contents ==
    /\ NoItems \in [Items -> Values] /\ None \notin Scopes /\ None \notin Content /\ None \notin Attributes
    /\ \A c \in Content : /\ c.state \in Attributes /\ c.items \in [Items -> Values] /\ c # None
                          /\ c = [state |-> c.state, items |-> c.items]
    /\ \A state \in Attributes, items \in [Items -> Values] :
          [state |-> state, items |-> items] \in Content
BY NoneAssumption DEF NoItems, Values, Content, Attributes

\* Changing the state or an item of a content leaves a content.
LEMMA ContentSet ==
    ASSUME NEW c \in Content
    PROVE  /\ \A v \in Attributes : /\ [c EXCEPT !.state = v] \in Content
                                    /\ [c EXCEPT !.state = v].state = v
                                    /\ [c EXCEPT !.state = v].items = c.items
           /\ \A i \in Items, v \in Values : [c EXCEPT !.items[i] = v] \in Content
<1>1. ASSUME NEW i \in Items, NEW v \in Values
      PROVE  [c EXCEPT !.items[i] = v] \in Content
  <2>1. [c EXCEPT !.items[i] = v] = [c EXCEPT !.items = [c.items EXCEPT ![i] = v]]
    BY DEF Content
  <2>2. [c.items EXCEPT ![i] = v] \in [Items -> Values]
    BY DEF Content
  <2> QED
    BY <2>1, <2>2 DEF Content
<1> QED
  BY <1>1 DEF Content

\* What the Agent makes of a request is a content again.
LEMMA Applied ==
    ASSUME NEW h \in Handler, NEW c \in Stored, CanApply(h, c)
    PROVE  Apply(h, c) \in Stored
<1>1. h.want \in Attributes /\ h.want \in Values /\ 0 \in Values /\ h.item \in Items /\ h.kind \in AllKinds
  BY DEF Handler, Attributes, Values
<1>2. CASE h.kind = "createScope"
  BY <1>1, <1>2, Contents DEF Apply, CreateScope, Stored
<1>3. CASE h.kind = "deleteScope"
  BY <1>3 DEF Apply, DeleteScope, Stored
<1>4. CASE h.kind \notin {"createScope", "deleteScope"}
  <2>1. c \in Content
    BY <1>1, <1>4 DEF CanApply, OnScope, Stored
  <2> QED
    BY <1>1, <1>4, <2>1, ContentSet DEF Apply, UpdateScope, SetScopeState, CreateReservation,
       UpdateReservation, CreateExclusion, DeleteItem, AllKinds, Stored
<1> QED
  BY <1>2, <1>3, <1>4

\* So is what a handler makes of a scope in the snapshot, if its rows are there.
LEMMA PatchTyped ==
    ASSUME NEW h \in Handler, NEW c \in Stored, CanPatch(h, c), h.row => RowLives(h.kind, h.item, c)
    PROVE  Patch(h, c) \in Stored
<1>1. h.want \in Attributes /\ h.want \in Values /\ 0 \in Values /\ h.item \in Items /\ h.kind \in AllKinds
  BY DEF Handler, Attributes, Values
<1>2. CASE h.kind = "createScope"
  BY <1>1, <1>2, Contents DEF Apply, CreateScope, Stored, Patch
<1>3. CASE h.kind = "deleteScope"
  BY <1>3 DEF Apply, DeleteScope, Stored, Patch
<1>4. CASE h.kind \notin {"createScope", "deleteScope"}
  <2>1. c \in Content
    BY <1>1, <1>4 DEF CanPatch, RowLives, Stored
  <2>2. 3 - c.state \in Attributes
    BY <2>1 DEF Content, Attributes
  <2> QED
    BY <1>1, <1>4, <2>1, <2>2, ContentSet DEF Patch, Apply, UpdateScope, CreateReservation,
       UpdateReservation, CreateExclusion, DeleteItem, AllKinds, Stored
<1> QED
  BY <1>2, <1>3, <1>4

\* Of the handlers, a change of the snapshot touches only whether rows are left.
LEMMA RowsFacts ==
    ASSUME NEW ops \in [Ops -> Handler], NEW f
    PROVE  /\ Rows(f, ops) \in [Ops -> Handler]
           /\ \A p \in Ops :
                 /\ Rows(f, ops)[p].pc = ops[p].pc /\ Rows(f, ops)[p].kind = ops[p].kind
                 /\ Rows(f, ops)[p].scope = ops[p].scope /\ Rows(f, ops)[p].item = ops[p].item
                 /\ Rows(f, ops)[p].row =>
                       RowLives(ops[p].kind, ops[p].item, f[ops[p].scope])
<1>1. ASSUME NEW p \in Ops
      PROVE  /\ Rows(f, ops)[p] \in Handler
             /\ Rows(f, ops)[p].pc = ops[p].pc /\ Rows(f, ops)[p].kind = ops[p].kind
             /\ Rows(f, ops)[p].scope = ops[p].scope /\ Rows(f, ops)[p].item = ops[p].item
             /\ Rows(f, ops)[p].row => RowLives(ops[p].kind, ops[p].item, f[ops[p].scope])
  <2> PICK live \in BOOLEAN : live = (ops[p].row /\ RowLives(ops[p].kind, ops[p].item, f[ops[p].scope]))
    OBVIOUS
  <2>1. ops[p] \in Handler
    OBVIOUS
  <2>2. Rows(f, ops)[p] = [ops[p] EXCEPT !.row = live]
    BY DEF Rows
  <2> QED
    BY <2>1, <2>2 DEF Handler
<1>2. Rows(f, ops) = [p \in Ops |-> Rows(f, ops)[p]]
  BY DEF Rows
<1> QED
  BY <1>1, <1>2

\* The other handlers when one of them makes a step.
LEMMA OneHandler ==
    ASSUME TypeOK, NEW o \in Ops, NEW h \in Handler
    PROVE  /\ [op EXCEPT ![o] = h] \in [Ops -> Handler] /\ [op EXCEPT ![o] = h][o] = h
           /\ \A p \in Ops \ {o} : [op EXCEPT ![o] = h][p] = op[p]
BY DEF TypeOK

\* A step of a handler that leaves the snapshot.
LEMMA RowsStay ==
    ASSUME Typed, NEW o \in Ops, NEW h \in Handler, op' = [op EXCEPT ![o] = h], snap' = snap,
           h.row => RowLives(h.kind, h.item, snap[h.scope])
    PROVE  op' \in [Ops -> Handler] /\ RowsLive'
<1>1. op' \in [Ops -> Handler] /\ op'[o] = h /\ \A p \in Ops \ {o} : op'[p] = op[p]
  BY OneHandler DEF Typed
<1> QED
  BY <1>1 DEF Typed, RowsLive

\* A step that changes the snapshot.
LEMMA RowsChecked ==
    ASSUME NEW ops \in [Ops -> Handler], op' = Rows(snap', ops)
    PROVE  /\ op' \in [Ops -> Handler] /\ RowsLive'
           /\ \A p \in Ops :
                 op'[p].pc = ops[p].pc /\ op'[p].kind = ops[p].kind /\ op'[p].scope = ops[p].scope
<1>1. op' \in [Ops -> Handler]
  BY RowsFacts
<1>2. ASSUME NEW p \in Ops, op'[p].row
      PROVE  RowLives(op'[p].kind, op'[p].item, snap'[op'[p].scope])
  BY <1>2, RowsFacts
<1>3. \A p \in Ops :
         op'[p].pc = ops[p].pc /\ op'[p].kind = ops[p].kind /\ op'[p].scope = ops[p].scope
  BY RowsFacts
<1> QED
  BY <1>1, <1>2, <1>3 DEF RowsLive

\* A handler that goes on, and one that is done.
At(h, pc) == [h EXCEPT !.pc = pc]
Ended(h) == [h EXCEPT !.pc = "done", !.row = FALSE, !.want = 1]
HandlerSteps == {"idle", "check", "begin", "call", "save", "mark", "done"}

\* They are handlers.
LEMMA HandlerSet ==
    ASSUME NEW h \in Handler
    PROVE  /\ \A pc \in HandlerSteps :
                 /\ At(h, pc) \in Handler /\ At(h, pc).pc = pc /\ At(h, pc).kind = h.kind
                 /\ At(h, pc).scope = h.scope /\ At(h, pc).item = h.item /\ At(h, pc).row = h.row
           /\ Ended(h) \in Handler /\ ~Ended(h).row /\ Ended(h).pc = "done"
<1>1. /\ h.pc \in HandlerSteps /\ h.kind \in AllKinds /\ h.scope \in Scopes /\ h.item \in Items
      /\ h.want \in Attributes /\ h.row \in BOOLEAN
      /\ h = [pc |-> h.pc, kind |-> h.kind, scope |-> h.scope, item |-> h.item,
              want |-> h.want, row |-> h.row]
  BY DEF Handler, HandlerSteps
<1>2. Ended(h) \in Handler /\ ~Ended(h).row /\ Ended(h).pc = "done"
  <2> PICK h1 : h1 = [h EXCEPT !.pc = "done"]
    OBVIOUS
  <2> PICK h2 : h2 = [h1 EXCEPT !.row = FALSE]
    OBVIOUS
  <2> PICK h3 : h3 = [h2 EXCEPT !.want = 1]
    OBVIOUS
  <2>1. Ended(h) = h3
    BY DEF Ended
  <2>2. h1 \in Handler /\ h1.pc = "done"
    BY DEF Handler
  <2>3. h2 \in Handler /\ h2.pc = "done" /\ h2.row = FALSE
    BY <2>2 DEF Handler
  <2>4. PICK want \in Attributes : want = 1
    BY DEF Attributes
  <2>5. h3 \in Handler /\ h3.pc = "done" /\ h3.row = FALSE
    BY <2>3, <2>4 DEF Handler
  <2> QED
    BY <2>1, <2>5
<1>3. ASSUME NEW pc \in HandlerSteps
      PROVE  At(h, pc) = [pc |-> pc, kind |-> h.kind, scope |-> h.scope, item |-> h.item,
                          want |-> h.want, row |-> h.row]
  BY <1>1 DEF At
<1> QED
  BY <1>1, <1>2, <1>3 DEF Handler, HandlerSteps, Attributes

\* The forms in which the actions say so.
LEMMA HandlerForms ==
    ASSUME TypeOK, NEW o \in Ops
    PROVE  /\ op[o] \in Handler
           /\ \A pc : [op EXCEPT ![o].pc = pc] = [op EXCEPT ![o] = At(op[o], pc)]
           /\ OpDone(op, o) = [op EXCEPT ![o] = Ended(op[o])]
BY DEF TypeOK, At, OpDone, Ended

\* Failures are counted up to their bound.
LEMMA FaultTyped == TypeOK /\ (Fault \/ NoFault) => faults' \in 0..MaxFaults
BY BoundsAssumption DEF TypeOK, Fault, NoFault

\* The initial states.
LEMMA TypedInit == Init => Typed
<1> SUFFICES ASSUME Init PROVE Typed
  OBVIOUS
<1> DEFINE s0 == CHOOSE s \in Scopes : TRUE
           i0 == CHOOSE i \in Items : TRUE
<1>1. s0 \in Scopes /\ i0 \in Items
  BY NamesAssumption
<1> HIDE DEF s0, i0
<1>2. op \in [Ops -> [pc : {"idle"}, kind : {"createScope"}, want : {1}, row : {FALSE},
                      scope : {s0}, item : {i0}]]
  BY DEF Init, s0, i0
<1>3. \A o \in Ops : op[o] \in Handler /\ ~op[o].row /\ op[o].pc = "idle"
  <2> TAKE o \in Ops
  <2>1. op[o] \in [pc : {"idle"}, kind : {"createScope"}, want : {1}, row : {FALSE},
                   scope : {s0}, item : {i0}]
    BY <1>2
  <2>2. op[o] = [pc |-> "idle", kind |-> "createScope", want |-> 1, row |-> FALSE,
                 scope |-> s0, item |-> i0]
    BY <2>1
  <2> QED
    BY <2>2, <1>1 DEF Handler, AllKinds, Attributes
<1>4. op \in [Ops -> Handler]
  BY <1>2, <1>3
<1>5. agent \in [Scopes -> Stored] /\ snap \in [Scopes -> Stored]
  BY InitialAssumption DEF Init, Stored
<1>6. NoItems \in [Items -> Values]
  BY Contents
<1>7. sync \in Synchronisation
  <2>1. [s \in Scopes |-> None] \in [Scopes -> Attributes \cup {None}]
    OBVIOUS
  <2> QED
    BY <2>1 DEF Init, NoSync, Synchronisation
<1>8. NoRefresh \in Refresh /\ NoWorker \in Goroutine
  BY <1>6 DEF NoRefresh, NoWorker, Refresh, Goroutine, Attributes
<1>9. worker \in [Workers -> Goroutine] /\ ref \in [Scopes -> Refresh]
  BY <1>8 DEF Init
<1>10. queued \in [Scopes -> 0..MaxQueued] /\ faults \in 0..MaxFaults
  BY BoundsAssumption DEF Init
<1> QED
  BY <1>3, <1>4, <1>5, <1>7, <1>9, <1>10 DEF Init, Typed, TypeOK, RowsLive, Stored

\* Handler o comes to next, and the others stay where they are.
Moves(o, next) ==
    /\ op'[o].pc = next
    /\ next \in {"save", "mark"} => op'[o].kind = op[o].kind /\ op'[o].scope = op[o].scope
    /\ \A p \in Ops \ {o} :
          op'[p].pc = op[p].pc /\ op'[p].kind = op[p].kind /\ op'[p].scope = op[p].scope

\* A handler that goes on or is done, and whether its rows are checked.
LEMMA HandlerMoves ==
    ASSUME Typed, NEW o \in Ops, NEW h \in Handler, NEW pc, h.pc = pc,
           pc \in {"save", "mark"} => h.kind = op[o].kind /\ h.scope = op[o].scope,
           NEW ops, ops = [op EXCEPT ![o] = h],
           \/ op' = ops /\ snap' = snap /\ (h.row => RowLives(h.kind, h.item, snap[h.scope]))
           \/ op' = Rows(snap', ops)
    PROVE  op' \in [Ops -> Handler] /\ RowsLive' /\ Moves(o, pc)
<1>1. ops \in [Ops -> Handler] /\ ops[o] = h /\ \A p \in Ops \ {o} : ops[p] = op[p]
  BY OneHandler DEF Typed
<1>2. CASE op' = ops /\ snap' = snap /\ (h.row => RowLives(h.kind, h.item, snap[h.scope]))
  <2>1. op' = [op EXCEPT ![o] = h]
    BY <1>2
  <2>2. op' \in [Ops -> Handler] /\ RowsLive'
    BY <1>2, <2>1, RowsStay
  <2> QED
    BY <1>1, <1>2, <2>2 DEF Moves
<1>3. CASE op' = Rows(snap', ops)
  <2>1. op' \in [Ops -> Handler] /\ RowsLive'
    BY <1>1, <1>3, RowsChecked
  <2>3. \A p \in Ops : op'[p].pc = ops[p].pc /\ op'[p].kind = ops[p].kind /\ op'[p].scope = ops[p].scope
    BY <1>1, <1>3, RowsChecked
  <2> QED
    BY <1>1, <2>1, <2>3 DEF Moves
<1> QED
  BY <1>2, <1>3

\* The same for a handler that goes on.
LEMMA GoesOn ==
    ASSUME Typed, NEW o \in Ops, NEW pc \in HandlerSteps, NEW ops,
           ops = [op EXCEPT ![o].pc = pc], (op' = ops /\ snap' = snap) \/ op' = Rows(snap', ops)
    PROVE  op' \in [Ops -> Handler] /\ RowsLive' /\ Moves(o, pc)
<1>1. op[o] \in Handler /\ ops = [op EXCEPT ![o] = At(op[o], pc)]
  BY HandlerForms DEF Typed
<1>2. /\ At(op[o], pc) \in Handler /\ At(op[o], pc).pc = pc /\ At(op[o], pc).kind = op[o].kind
      /\ At(op[o], pc).scope = op[o].scope /\ At(op[o], pc).item = op[o].item
      /\ At(op[o], pc).row = op[o].row
  BY <1>1, HandlerSet
<1>3. op[o].row => RowLives(op[o].kind, op[o].item, snap[op[o].scope])
  BY DEF Typed, RowsLive
<1> PICK h \in Handler : h = At(op[o], pc)
  BY <1>2
<1> QED
  BY <1>1, <1>2, <1>3, HandlerMoves

\* And for its end.
LEMMA IsDone ==
    ASSUME Typed, NEW o \in Ops, NEW ops, ops = OpDone(op, o),
           (op' = ops /\ snap' = snap) \/ op' = Rows(snap', ops)
    PROVE  op' \in [Ops -> Handler] /\ RowsLive' /\ Moves(o, "done")
<1>1. op[o] \in Handler /\ ops = [op EXCEPT ![o] = Ended(op[o])]
  BY HandlerForms DEF Typed
<1>2. Ended(op[o]) \in Handler /\ ~Ended(op[o]).row /\ Ended(op[o]).pc = "done"
  BY <1>1, HandlerSet
<1> PICK h \in Handler : h = Ended(op[o])
  BY <1>2
<1> QED
  BY <1>1, <1>2, HandlerMoves

\* The start of a handler.
LEMMA StartTyped ==
    ASSUME Typed, NEW o \in Ops, NEW k \in Kinds, NEW s \in Scopes, NEW i \in Items, NEW v \in Attributes,
           OpStart(o, k, s, i, v)
    PROVE  Typed' /\ Moves(o, "check")
<1> PICK h : h = [pc |-> "check", kind |-> k, scope |-> s, item |-> i, want |-> v, row |-> k # "createScope"]
  OBVIOUS
<1>1. h \in Handler
  BY KindsAssumption DEF Handler
<1>2. h.row => RowLives(h.kind, h.item, snap[h.scope])
  BY DEF OpStart
<1>3. op' = [op EXCEPT ![o] = h] /\ snap' = snap
  BY DEF OpStart, data
<1>4. op' \in [Ops -> Handler] /\ RowsLive' /\ Moves(o, "check")
  BY <1>1, <1>2, <1>3, HandlerMoves
<1> QED
  BY <1>4 DEF OpStart, Typed, TypeOK, data, tasks, pool, history

\* The steps of a handler.
LEMMA CheckTyped ==
    ASSUME Typed, NEW o \in Ops, OpCheck(o) \/ OpBegin(o)
    PROVE  Typed' /\ \E pc \in {"begin", "call", "done"} : Moves(o, pc)
<1>1. /\ snap' = snap
      /\ op' = OpDone(op, o) \/ \E pc \in {"begin", "call"} : op' = [op EXCEPT ![o].pc = pc]
  BY DEF OpCheck, OpBegin, OpTo, data
<1>2. op' \in [Ops -> Handler] /\ RowsLive' /\ \E pc \in {"begin", "call", "done"} : Moves(o, pc)
  <2>1. CASE op' = OpDone(op, o)
    BY <1>1, <2>1, IsDone
  <2>2. ASSUME NEW pc \in {"begin", "call"}, op' = [op EXCEPT ![o].pc = pc]
        PROVE  op' \in [Ops -> Handler] /\ RowsLive' /\ Moves(o, pc)
    BY <1>1, <2>2, GoesOn DEF HandlerSteps
  <2> QED
    BY <1>1, <2>1, <2>2
<1>3. UNCHANGED <<data, tasks, pool, faults, history>>
  BY DEF OpCheck, OpBegin
<1> QED
  BY <1>2, <1>3 DEF Typed, TypeOK, data, tasks, pool, history

\* What is touched are scopes.
LEMMA TouchTyped == \A s \in Scopes : TypeOK /\ Touch(s) => touched' \in SUBSET Scopes
BY DEF TypeOK, Touch

\* The Agent call of a handler.
LEMMA CallTyped ==
    ASSUME Typed, NEW o \in Ops, OpCall(o)
    PROVE  /\ Typed' /\ Moves(o, "save") /\ op[o].scope \in Scopes
           /\ agent' = [agent EXCEPT ![op[o].scope] = Apply(op[o], agent[op[o].scope])]
           /\ agent'[op[o].scope] \in Stored
<1> PICK s : s = op[o].scope
  OBVIOUS
<1>1. TypeOK /\ op[o] \in Handler /\ s \in Scopes
  BY DEF Typed, TypeOK, Handler
<1>2. /\ agent' = [agent EXCEPT ![s] = Apply(op[o], agent[s])] /\ CanApply(op[o], agent[s])
      /\ op' = [op EXCEPT ![o].pc = "save"] /\ Touch(s) /\ snap' = snap
  BY DEF OpCall, OpTo
<1>3. agent[s] \in Stored /\ agent \in [Scopes -> Stored]
  BY <1>1 DEF TypeOK, Stored
<1>4. Apply(op[o], agent[s]) \in Stored
  BY <1>1, <1>2, <1>3, Applied
<1>5. agent' \in [Scopes -> Stored] /\ agent'[s] \in Stored
  BY <1>1, <1>2, <1>3, <1>4
<1>6. op' \in [Ops -> Handler] /\ RowsLive' /\ Moves(o, "save")
  BY <1>2, GoesOn DEF HandlerSteps
<1>7. touched' \in SUBSET Scopes
  BY <1>1, <1>2, TouchTyped
<1> QED
  BY <1>1, <1>2, <1>5, <1>6, <1>7 DEF OpCall, Typed, TypeOK, Stored, tasks, pool, NoFault

\* It fails, with its effect or without.
LEMMA CallFailsTyped ==
    ASSUME Typed, NEW o \in Ops, OpCallFails(o)
    PROVE  /\ Typed' /\ op[o].scope \in Scopes
           /\ IF op[o].kind = "createScope" THEN Moves(o, "done") ELSE Moves(o, "mark")
           /\ agent'[op[o].scope] \in Stored
<1> PICK s : s = op[o].scope
  OBVIOUS
<1>1. TypeOK /\ op[o] \in Handler /\ s \in Scopes
  BY DEF Typed, TypeOK, Handler
<1>2. /\ op' = IF op[o].kind = "createScope" THEN OpDone(op, o) ELSE [op EXCEPT ![o].pc = "mark"]
      /\ snap' = snap /\ (Fault \/ NoFault)
      /\ \/ agent' = agent /\ excused' = excused /\ touched' = touched
         \/ /\ agent' = [agent EXCEPT ![s] = Apply(op[o], agent[s])] /\ CanApply(op[o], agent[s])
            /\ Touch(s) /\ excused' \in {excused, excused \cup {s}}
  BY DEF OpCallFails, history
<1>3. agent[s] \in Stored /\ agent \in [Scopes -> Stored]
  BY <1>1 DEF TypeOK, Stored
<1>4. CanApply(op[o], agent[s]) => Apply(op[o], agent[s]) \in Stored
  BY <1>1, <1>3, Applied
<1>5. agent' \in [Scopes -> Stored] /\ agent'[s] \in Stored
  BY <1>1, <1>2, <1>3, <1>4
<1>6. /\ op' \in [Ops -> Handler] /\ RowsLive'
      /\ IF op[o].kind = "createScope" THEN Moves(o, "done") ELSE Moves(o, "mark")
  BY <1>2, GoesOn, IsDone DEF HandlerSteps
<1>7. touched' \in SUBSET Scopes /\ excused' \in SUBSET Scopes
  BY <1>1, <1>2, TouchTyped DEF TypeOK
<1>8. faults' \in 0..MaxFaults
  BY <1>1, <1>2, FaultTyped
<1> QED
  BY <1>1, <1>5, <1>6, <1>7, <1>8 DEF OpCallFails, Typed, TypeOK, Stored, tasks, pool

\* The snapshot after a handler has patched it.
LEMMA SnapPatched ==
    ASSUME Typed, NEW o \in Ops, NEW s, s = op[o].scope, CanPatch(op[o], snap[s]),
           snap' = [snap EXCEPT ![s] = Patch(op[o], snap[s])]
    PROVE  /\ snap' \in [Scopes -> Stored] /\ s \in Scopes
           /\ snap'[s] = Patch(op[o], snap[s]) /\ \A t \in Scopes \ {s} : snap'[t] = snap[t]
<1>1. TypeOK /\ op[o] \in Handler /\ s \in Scopes
  BY DEF Typed, TypeOK, Handler
<1>2. snap[s] \in Stored /\ snap \in [Scopes -> Stored]
  BY <1>1 DEF TypeOK, Stored
<1>3. op[o].row => RowLives(op[o].kind, op[o].item, snap[s])
  BY DEF Typed, RowsLive
<1>4. Patch(op[o], snap[s]) \in Stored
  BY <1>1, <1>2, <1>3, PatchTyped
<1> QED
  BY <1>1, <1>2, <1>4

\* The statement of a handler on the snapshot.
LEMMA SaveTyped ==
    ASSUME Typed, NEW o \in Ops, OpSave(o)
    PROVE  /\ Typed' /\ op[o].scope \in Scopes
           /\ IF op[o].kind = "deleteScope" THEN Moves(o, "done") ELSE Moves(o, "mark")
           /\ snap'[op[o].scope] = Patch(op[o], snap[op[o].scope])
           /\ \A t \in Scopes \ {op[o].scope} : snap'[t] = snap[t]
<1> PICK s : s = op[o].scope
  OBVIOUS
<1>1. /\ snap' = [snap EXCEPT ![s] = Patch(op[o], snap[s])] /\ CanPatch(op[o], snap[s]) /\ Touch(s)
      /\ op' = Rows(snap', IF op[o].kind = "deleteScope" THEN OpDone(op, o) ELSE [op EXCEPT ![o].pc = "mark"])
      /\ excused' \in {excused, excused \cup {s}}
  BY DEF OpSave
<1>2. /\ snap' \in [Scopes -> Stored] /\ s \in Scopes
      /\ snap'[s] = Patch(op[o], snap[s]) /\ \A t \in Scopes \ {s} : snap'[t] = snap[t]
  BY <1>1, SnapPatched
<1>3. /\ op' \in [Ops -> Handler] /\ RowsLive'
      /\ IF op[o].kind = "deleteScope" THEN Moves(o, "done") ELSE Moves(o, "mark")
  <2>1. CASE op[o].kind = "deleteScope"
    <3> PICK ops : ops = OpDone(op, o)
      OBVIOUS
    <3> QED
      BY <1>1, <2>1, IsDone
  <2>2. CASE op[o].kind # "deleteScope"
    <3> PICK ops : ops = [op EXCEPT ![o].pc = "mark"]
      OBVIOUS
    <3>1. op' = Rows(snap', ops) /\ "mark" \in HandlerSteps
      BY <1>1, <2>2 DEF HandlerSteps
    <3> QED
      BY <2>2, <3>1, GoesOn
  <2> QED
    BY <2>1, <2>2
<1>4. touched' \in SUBSET Scopes /\ excused' \in SUBSET Scopes
  BY <1>1, <1>2, TouchTyped DEF Typed, TypeOK
<1> QED
  BY <1>2, <1>3, <1>4 DEF OpSave, Typed, TypeOK, Stored, tasks, pool, NoFault

\* The statement fails.
LEMMA SaveFailsTyped ==
    ASSUME Typed, NEW o \in Ops, OpSaveFails(o)
    PROVE  /\ Typed' /\ op[o].scope \in Scopes
           /\ IF op[o].kind \in NeedsSave THEN Moves(o, "done") ELSE Moves(o, "mark")
<1>1. op[o].scope \in Scopes
  BY DEF Typed, TypeOK, Handler
<1>2. /\ op' = IF op[o].kind \in NeedsSave THEN OpDone(op, o) ELSE [op EXCEPT ![o].pc = "mark"]
      /\ snap' = snap /\ (Fault \/ NoFault)
      /\ excused' \in {excused, excused \cup {op[o].scope}}
  BY DEF OpSaveFails, OpTo, Excuse, data
<1>3. /\ op' \in [Ops -> Handler] /\ RowsLive'
      /\ IF op[o].kind \in NeedsSave THEN Moves(o, "done") ELSE Moves(o, "mark")
  BY <1>2, GoesOn, IsDone DEF HandlerSteps
<1>4. faults' \in 0..MaxFaults /\ excused' \in SUBSET Scopes
  BY <1>1, <1>2, FaultTyped DEF Typed, TypeOK
<1> QED
  BY <1>1, <1>3, <1>4 DEF OpSaveFails, Typed, TypeOK, data, tasks, pool

\* The second statement of a reservation fails.
LEMMA LeaseFailsTyped ==
    ASSUME Typed, NEW o \in Ops, OpLeaseFails(o)
    PROVE  /\ Typed' /\ op[o].scope \in Scopes /\ Moves(o, "done")
           /\ \A t \in Scopes \ {op[o].scope} : snap'[t] = snap[t]
<1> PICK s : s = op[o].scope
  OBVIOUS
<1>1. /\ snap' = [snap EXCEPT ![s] = Patch(op[o], snap[s])] /\ CanPatch(op[o], snap[s]) /\ Touch(s)
      /\ op' = Rows(snap', OpDone(op, o)) /\ excused' = excused \cup {s} /\ Fault
  BY DEF OpLeaseFails, Excuse
<1>2. snap' \in [Scopes -> Stored] /\ s \in Scopes /\ \A t \in Scopes \ {s} : snap'[t] = snap[t]
  BY <1>1, SnapPatched
<1>3. op' \in [Ops -> Handler] /\ RowsLive' /\ Moves(o, "done")
  BY <1>1, IsDone
<1>4. touched' \in SUBSET Scopes /\ excused' \in SUBSET Scopes /\ faults' \in 0..MaxFaults
  BY <1>1, <1>2, TouchTyped, FaultTyped DEF Typed, TypeOK
<1> QED
  BY <1>2, <1>3, <1>4 DEF OpLeaseFails, Typed, TypeOK, Stored, tasks, pool

\* The scope is marked.
LEMMA MarkTyped ==
    ASSUME Typed, NEW o \in Ops, OpMark(o)
    PROVE  /\ Typed' /\ op[o].scope \in Scopes /\ Moves(o, "done")
           /\ owed' = [owed EXCEPT ![op[o].scope] = TRUE]
<1>1. op[o].scope \in Scopes
  BY DEF Typed, TypeOK, Handler
<1>2. op' = OpDone(op, o) /\ snap' = snap /\ owed' = [owed EXCEPT ![op[o].scope] = TRUE]
  BY DEF OpMark, data
<1>3. op' \in [Ops -> Handler] /\ RowsLive' /\ Moves(o, "done")
  BY <1>2, IsDone
<1> QED
  BY <1>1, <1>2, <1>3 DEF OpMark, Typed, TypeOK, data, pool, history

\* Handlers when something else makes a step.
Waits == \A p \in Ops : op'[p].pc = op[p].pc /\ op'[p].kind = op[p].kind /\ op'[p].scope = op[p].scope

\* Their rows are checked whenever the snapshot changes.
LEMMA OthersStep ==
    ASSUME Typed, (op' = op /\ snap' = snap) \/ op' = Rows(snap', op)
    PROVE  op' \in [Ops -> Handler] /\ RowsLive' /\ Waits
<1>1. op \in [Ops -> Handler] /\ RowsLive
  BY DEF Typed, TypeOK
<1>2. CASE op' = op /\ snap' = snap
  BY <1>1, <1>2 DEF RowsLive, Waits
<1>3. CASE op' = Rows(snap', op)
  BY <1>1, <1>3, RowsChecked DEF Waits
<1> QED
  BY <1>2, <1>3

\* The steps of the scheduler and of a user who requests a refresh.
LEMMA QueueTyped ==
    ASSUME Typed, NEW s \in Scopes,
           Fire(s) \/ RequestRefresh(s) \/ Enqueue(s) \/ RefreshStart(s)
    PROVE  Typed' /\ Waits
<1>1. op' = op /\ snap' = snap
  BY DEF Fire, RequestRefresh, Enqueue, RefreshStart, data
<1>2. op' \in [Ops -> Handler] /\ RowsLive' /\ Waits
  BY <1>1, OthersStep
<1>3. TypeOK
  BY DEF Typed
<1>4. CASE Fire(s)
  BY <1>2, <1>3, <1>4 DEF Fire, Excuse, Typed, TypeOK, data, pool
<1>5. CASE RequestRefresh(s)
  BY <1>2, <1>3, <1>5 DEF RequestRefresh, Typed, TypeOK, data, pool, history
<1>6. CASE Enqueue(s)
  <2>1. queued' \in [Scopes -> 0..MaxQueued]
    <3>1. queued[s] \in 0..MaxQueued /\ MaxQueued \in Nat
      BY <1>3, BoundsAssumption DEF TypeOK
    <3>2. queued[s] < MaxQueued => queued[s] + 1 \in 0..MaxQueued
      BY <3>1
    <3> QED
      BY <1>3, <1>6, <3>2 DEF Enqueue, TypeOK
  <2>2. faults' \in 0..MaxFaults /\ excused' \in SUBSET Scopes
    BY <1>3, <1>6, FaultTyped DEF Enqueue, TypeOK
  <2> QED
    BY <1>2, <1>3, <1>6, <2>1, <2>2 DEF Enqueue, Typed, TypeOK, data, pool
<1>7. CASE RefreshStart(s)
  <2>1. queued' \in [Scopes -> 0..MaxQueued]
    <3>1. queued[s] \in 0..MaxQueued /\ MaxQueued \in Nat
      BY <1>3, BoundsAssumption DEF TypeOK
    <3>2. queued[s] > 0 => queued[s] - 1 \in 0..MaxQueued
      BY <3>1
    <3> QED
      BY <1>3, <1>7, <3>2 DEF RefreshStart, TypeOK
  <2>2. ref' \in [Scopes -> Refresh]
    <3>1. ref[s] \in Refresh
      BY <1>3 DEF TypeOK
    <3>2. [ref[s] EXCEPT !.pc = "scope"] \in Refresh
      BY <3>1 DEF Refresh
    <3>3. ref' = ref \/ ref' = [ref EXCEPT ![s] = [ref[s] EXCEPT !.pc = "scope"]]
      BY <1>3, <1>7 DEF RefreshStart, TypeOK
    <3> QED
      BY <1>3, <3>2, <3>3 DEF TypeOK
  <2> QED
    BY <1>2, <1>3, <1>7, <2>1, <2>2 DEF RefreshStart, Typed, TypeOK, data, pool, history
<1> QED
  BY <1>2, <1>4, <1>5, <1>6, <1>7

\* What the scripts of the Agent answer.
LEMMA AnswersTyped ==
    ASSUME TypeOK
    PROVE  /\ \A skipped : Listed(skipped) \in [Scopes -> Attributes \cup {None}]
           /\ \A skipped : \A s \in Scopes : agent[s] # None => Details(s, skipped) \in [Items -> Values]
           /\ \A s \in Scopes : agent[s] # None => Details(s, {}) = agent[s].items
           /\ \A s \in Scopes : Listed({})[s] = StateOf(agent[s])
<1>1. \A s \in Scopes : agent[s] # None => agent[s] \in Content
  BY DEF TypeOK
<1>2. \A s \in Scopes : agent[s] # None =>
         agent[s].state \in Attributes /\ agent[s].items \in [Items -> Values]
  BY <1>1 DEF Content
<1>3. ASSUME NEW s \in Scopes, NEW skipped, agent[s] # None
      PROVE  Details(s, skipped) \in [Items -> Values]
  <2>1. 0 \in Values
    BY DEF Values
  <2> QED
    BY <1>2, <1>3, <2>1 DEF Details
<1> QED
  BY <1>2, <1>3 DEF Listed, Details, StateOf

\* The steps of a refresh.
LEMMA RefreshTyped ==
    ASSUME Typed, NEW s \in Scopes,
           RefreshScope(s) \/ RefreshMissing(s) \/ RefreshDetails(s) \/ RefreshFails(s)
    PROVE  Typed' /\ Waits
<1>1. op' = op /\ snap' = snap
  BY DEF RefreshScope, RefreshMissing, RefreshDetails, RefreshFails, data
<1>2. op' \in [Ops -> Handler] /\ RowsLive' /\ Waits
  BY <1>1, OthersStep
<1>3. TypeOK /\ ref \in [Scopes -> Refresh] /\ ref[s] \in Refresh
  BY DEF Typed, TypeOK
<1>4. NoRefresh \in Refresh
  BY Contents DEF NoRefresh, Refresh, Attributes
<1>5. CASE RefreshScope(s)
  <2>1. agent[s].state \in Attributes
    BY <1>3, <1>5 DEF RefreshScope, TypeOK, Content
  <2>2. [ref[s] EXCEPT !.pc = "details", !.state = agent[s].state] \in Refresh
    BY <1>3, <2>1 DEF Refresh
  <2>3. ref' = [ref EXCEPT ![s] = [ref[s] EXCEPT !.pc = "details", !.state = agent[s].state]]
    BY <1>3, <1>5 DEF RefreshScope
  <2>4. ref' \in [Scopes -> Refresh]
    BY <1>3, <2>2, <2>3
  <2> QED
    BY <1>2, <1>3, <1>5, <2>4 DEF RefreshScope, Typed, TypeOK, data, pool, history
<1>6. CASE RefreshMissing(s)
  <2>1. [ref[s] EXCEPT !.pc = "gone"] \in Refresh
    BY <1>3 DEF Refresh
  <2>2. \/ ref' = [ref EXCEPT ![s] = [ref[s] EXCEPT !.pc = "gone"]]
        \/ ref' = [ref EXCEPT ![s] = NoRefresh]
    BY <1>3, <1>6 DEF RefreshMissing, RefreshLost
  <2>3. ref' \in [Scopes -> Refresh]
    BY <1>3, <1>4, <2>1, <2>2
  <2> QED
    BY <1>2, <1>3, <1>6, <2>3 DEF RefreshMissing, RefreshLost, Excuse, Typed, TypeOK, data, pool
<1>7. CASE RefreshDetails(s)
  <2>1. ASSUME NEW skipped, agent[s] # None
        PROVE  [ref[s] EXCEPT !.pc = "store", !.items = Details(s, skipped)] \in Refresh
    <3>1. Details(s, skipped) \in [Items -> Values]
      BY <1>3, <2>1, AnswersTyped
    <3> QED
      BY <1>3, <3>1 DEF Refresh
  <2>2. \/ ref' = [ref EXCEPT ![s] = NoRefresh]
        \/ \E skipped : /\ agent[s] # None
                        /\ ref' = [ref EXCEPT ![s] = [ref[s] EXCEPT !.pc = "store", !.items = Details(s, skipped)]]
    BY <1>3, <1>7 DEF RefreshDetails
  <2>3. ref' \in [Scopes -> Refresh]
    BY <1>3, <1>4, <2>1, <2>2
  <2>4. faults' \in 0..MaxFaults
    BY <1>3, <1>7, FaultTyped DEF RefreshDetails
  <2>5. excused' \in SUBSET Scopes
    BY <1>3, <1>7 DEF RefreshDetails, Excuse, TypeOK
  <2> QED
    BY <1>2, <1>3, <1>7, <2>3, <2>4, <2>5 DEF RefreshDetails, Typed, TypeOK, data, pool
<1>8. CASE RefreshFails(s)
  <2>1. faults' \in 0..MaxFaults
    BY <1>3, <1>8, FaultTyped DEF RefreshFails
  <2> QED
    BY <1>2, <1>3, <1>4, <1>8, <2>1 DEF RefreshFails, RefreshLost, Excuse, Typed, TypeOK, data, pool
<1> QED
  BY <1>2, <1>5, <1>6, <1>7, <1>8

\* The content a refresh stores.
RefreshCopy(s) == IF ref[s].pc = "gone" THEN None ELSE [state |-> ref[s].state, items |-> ref[s].items]

\* It is stored exactly.
LEMMA RefreshStoreTyped ==
    ASSUME Typed, NEW s \in Scopes, RefreshStore(s)
    PROVE  Typed' /\ Waits /\ snap'[s] = RefreshCopy(s) /\ \A t \in Scopes \ {s} : snap'[t] = snap[t]
<1>1. TypeOK /\ ref[s] \in Refresh
  BY DEF Typed, TypeOK
<1>2. RefreshCopy(s) \in Stored
  BY <1>1, Contents DEF RefreshCopy, Stored, Refresh
<1>3. /\ snap' = [snap EXCEPT ![s] = RefreshCopy(s)] /\ op' = Rows(snap', op)
      /\ ref' = [ref EXCEPT ![s] = NoRefresh] /\ Touch(s)
  BY DEF RefreshStore, RefreshCopy
<1>4. snap' \in [Scopes -> Stored] /\ snap'[s] = RefreshCopy(s) /\ \A t \in Scopes \ {s} : snap'[t] = snap[t]
  BY <1>1, <1>2, <1>3 DEF TypeOK, Stored
<1>5. op' \in [Ops -> Handler] /\ RowsLive' /\ Waits
  BY <1>3, OthersStep
<1>6. ref' \in [Scopes -> Refresh]
  BY <1>1, <1>3, Contents DEF NoRefresh, Refresh, Attributes, TypeOK
<1>7. touched' \in SUBSET Scopes
  BY <1>1, <1>3, TouchTyped
<1> QED
  BY <1>1, <1>4, <1>5, <1>6, <1>7 DEF RefreshStore, Typed, TypeOK, Stored, pool

\* The fields of a synchronisation and of a goroutine.
LEMMA SyncFields ==
    ASSUME TypeOK
    PROVE  /\ sync.pc \in {"idle", "list", "replace", "pool", "end"}
           /\ sync.listed \in [Scopes -> Attributes \cup {None}]
           /\ sync.offer \in Scopes \cup {None} /\ sync.todo \in SUBSET Scopes
           /\ sync.expired \in BOOLEAN /\ sync.cancelled \in BOOLEAN /\ sync.failed \in BOOLEAN
           /\ sync.result \in {"none", "nil", "error"}
           /\ \A w \in Workers : /\ worker[w] \in Goroutine
                                 /\ worker[w].pc \in {"idle", "check", "fetch", "store", "gone"}
                                 /\ worker[w].scope \in Scopes \cup {None}
                                 /\ worker[w].items \in [Items -> Values]
           /\ NoSync \in Synchronisation /\ NoWorker \in Goroutine /\ NoWorker.pc = "idle"
           /\ NoWorker.scope = None
<1>1. sync \in Synchronisation /\ worker \in [Workers -> Goroutine]
  BY DEF TypeOK
<1>2. NoSync \in Synchronisation
  <2>1. [s \in Scopes |-> None] \in [Scopes -> Attributes \cup {None}]
    OBVIOUS
  <2> QED
    BY <2>1 DEF NoSync, Synchronisation
<1>3. NoWorker \in Goroutine /\ NoWorker.pc = "idle" /\ NoWorker.scope = None
  BY Contents DEF NoWorker, Goroutine
<1>4. \A w \in Workers : worker[w] \in Goroutine
  BY <1>1
<1> QED
  BY <1>1, <1>2, <1>3, <1>4 DEF Synchronisation, Goroutine

\* Its start, its list, its timeout, its failure and its end.
LEMMA SyncSteps ==
    ASSUME Typed, SyncShape, SyncStart \/ SyncList \/ SyncExpire \/ SyncFails \/ SyncEnd
    PROVE  Typed' /\ SyncShape' /\ Waits
<1>1. op' = op /\ snap' = snap /\ worker' = worker /\ agent' = agent
  BY DEF SyncStart, SyncList, SyncExpire, SyncFails, SyncEnd, data
<1>2. op' \in [Ops -> Handler] /\ RowsLive' /\ Waits
  BY <1>1, OthersStep
<1>3. TypeOK /\ sync \in Synchronisation
  BY DEF Typed, TypeOK
<1>4. CASE SyncStart
  <2>1. sync' \in Synchronisation
    BY <1>3, <1>4 DEF SyncStart, SyncTo, Synchronisation
  <2>2. /\ sync'.pc = "list" /\ sync'.todo = sync.todo /\ sync'.offer = sync.offer
        /\ sync'.cancelled = sync.cancelled /\ sync'.expired = sync.expired
    BY <1>3, <1>4 DEF SyncStart, SyncTo, Synchronisation
  <2>3. SyncShape'
    BY <1>1, <1>4, <2>2 DEF SyncShape, SyncStart
  <2> QED
    BY <1>2, <1>3, <1>4, <2>1, <2>3 DEF SyncStart, Typed, TypeOK, data, tasks
<1>5. CASE SyncList
  <2>1. PICK skipped \in SUBSET Scopes : sync' = [sync EXCEPT !.pc = "replace", !.listed = Listed(skipped)]
    BY <1>5 DEF SyncList
  <2>2. Listed(skipped) \in [Scopes -> Attributes \cup {None}]
    BY <1>3, AnswersTyped
  <2>3. sync' \in Synchronisation
    BY <1>3, <2>1, <2>2 DEF Synchronisation
  <2>4. /\ sync'.pc = "replace" /\ sync'.todo = sync.todo /\ sync'.offer = sync.offer
        /\ sync'.cancelled = sync.cancelled /\ sync'.expired = sync.expired
    BY <1>3, <2>1 DEF Synchronisation
  <2>5. SyncShape'
    <3>1. sync.todo = {} /\ sync.offer = None
      BY <1>1, <1>5 DEF SyncShape, SyncList
    <3>2. \A w \in Workers : worker'[w].pc = "idle" /\ worker'[w].scope = None
      BY <1>1, <1>5 DEF SyncShape, SyncList
    <3> QED
      BY <1>1, <2>4, <3>1, <3>2 DEF SyncShape
  <2>6. faults' \in 0..MaxFaults /\ excused' \in SUBSET Scopes /\ touched' \in SUBSET Scopes
    BY <1>3, <1>5, FaultTyped DEF SyncList, TypeOK, history
  <2> QED
    BY <1>2, <1>3, <1>5, <2>3, <2>5, <2>6 DEF SyncList, Typed, TypeOK, data, tasks
<1>6. CASE SyncExpire
  <2>1. sync' \in Synchronisation
    BY <1>3, <1>6 DEF SyncExpire, Synchronisation
  <2>2. /\ sync'.pc = sync.pc /\ sync'.todo = sync.todo /\ sync'.offer = sync.offer
        /\ sync'.listed = sync.listed /\ sync'.expired = TRUE
    BY <1>3, <1>6 DEF SyncExpire, Synchronisation
  <2>3. SyncShape'
    BY <1>1, <2>2 DEF SyncShape
  <2>4. faults' \in 0..MaxFaults
    BY <1>3, <1>6, FaultTyped DEF SyncExpire
  <2> QED
    BY <1>2, <1>3, <1>6, <2>1, <2>3, <2>4 DEF SyncExpire, Typed, TypeOK, data, tasks, history
<1>7. CASE SyncFails
  <2>1. sync' \in Synchronisation
    BY <1>3, <1>7 DEF SyncFails, Synchronisation
  <2>2. /\ sync'.pc = "end" /\ sync'.todo = sync.todo /\ sync'.offer = sync.offer
        /\ sync'.cancelled = sync.cancelled /\ sync'.expired = sync.expired
    BY <1>3, <1>7 DEF SyncFails, Synchronisation
  <2>3. SyncShape'
    BY <1>1, <1>7, <2>2 DEF SyncShape, SyncFails
  <2>4. faults' \in 0..MaxFaults
    BY <1>3, <1>7, FaultTyped DEF SyncFails
  <2> QED
    BY <1>2, <1>3, <1>7, <2>1, <2>3, <2>4 DEF SyncFails, Typed, TypeOK, data, tasks, history
<1>8. CASE SyncEnd
  <2>1. sync' = NoSync /\ NoSync \in Synchronisation
    BY <1>3, <1>8, SyncFields DEF SyncEnd
  <2>2. sync'.pc = "idle" /\ sync'.todo = {} /\ sync'.offer = None /\ ~sync'.cancelled
    BY <2>1 DEF NoSync
  <2>3. SyncShape'
    BY <1>1, <1>8, <2>2 DEF SyncShape, SyncEnd
  <2> QED
    BY <1>2, <1>3, <1>8, <2>1, <2>3 DEF SyncEnd, Typed, TypeOK, data, tasks
<1> QED
  BY <1>4, <1>5, <1>6, <1>7, <1>8, <1>2

\* The statement that replaces the list of scopes.
LEMMA ReplaceTyped ==
    ASSUME Typed, SyncShape, SyncReplace
    PROVE  /\ Typed' /\ SyncShape' /\ Waits
           /\ \A s \in Scopes : snap'[s] = Replaced(snap[s], sync.listed[s])
           /\ sync'.listed = sync.listed /\ sync'.pc = "pool"
           /\ \A s \in Scopes : s \in sync'.todo <=> sync.listed[s] # None
<1>1. /\ snap' = [s \in Scopes |-> Replaced(snap[s], sync.listed[s])] /\ op' = Rows(snap', op)
      /\ sync' = [sync EXCEPT !.pc = "pool", !.todo = {s \in Scopes : sync.listed[s] # None}]
      /\ sync.pc = "replace" /\ worker' = worker
  BY DEF SyncReplace
<1>2. TypeOK /\ sync \in Synchronisation
  BY DEF Typed, TypeOK
<1>3. ASSUME NEW s \in Scopes PROVE Replaced(snap[s], sync.listed[s]) \in Stored
  <2>1. sync.listed[s] \in Attributes \cup {None} /\ snap[s] \in Content \cup {None}
    BY <1>2, SyncFields DEF TypeOK
  <2> QED
    BY <2>1, Contents, ContentSet DEF Replaced, Stored
<1>4. snap' \in [Scopes -> Stored] /\ \A s \in Scopes : snap'[s] = Replaced(snap[s], sync.listed[s])
  BY <1>1, <1>3
<1>5. op' \in [Ops -> Handler] /\ RowsLive' /\ Waits
  BY <1>1, OthersStep
<1>6. sync' \in Synchronisation
  BY <1>1, <1>2 DEF Synchronisation
<1>7. /\ sync'.pc = "pool" /\ sync'.todo = {s \in Scopes : sync.listed[s] # None}
      /\ sync'.offer = sync.offer /\ sync'.listed = sync.listed
      /\ sync'.cancelled = sync.cancelled /\ sync'.expired = sync.expired
  BY <1>1, <1>2 DEF Synchronisation
<1>8. SyncShape'
  BY <1>1, <1>7 DEF SyncShape
<1> QED
  BY <1>2, <1>4, <1>5, <1>6, <1>7, <1>8 DEF SyncReplace, Typed, TypeOK, Stored, tasks, history

\* A step of one goroutine, which may change the synchronisation as well.
LEMMA OneWorker ==
    ASSUME TypeOK, SyncShape, NEW w \in Workers, NEW g \in Goroutine, worker' = [worker EXCEPT ![w] = g],
           sync'.pc = sync.pc, sync'.listed = sync.listed, sync'.todo = sync.todo,
           sync'.offer \in {sync.offer, None}, sync'.cancelled => sync'.expired,
           sync.pc = "pool",
           g.pc \in {"check", "fetch", "store"} => g.scope \in Scopes /\ sync.listed[g.scope] # None,
           g.pc \in {"idle", "gone"} => g.scope = None
    PROVE  /\ worker' \in [Workers -> Goroutine] /\ SyncShape'
           /\ worker'[w] = g /\ \A x \in Workers \ {w} : worker'[x] = worker[x]
<1>1. worker' \in [Workers -> Goroutine] /\ worker'[w] = g /\ \A x \in Workers \ {w} : worker'[x] = worker[x]
  BY DEF TypeOK
<1> QED
  BY <1>1 DEF SyncShape

\* The loop that hands out scopes, and its end.
LEMMA PoolTyped ==
    ASSUME Typed, SyncShape, SyncBreak \/ SyncJoin \/ \E s \in Scopes : SyncOffer(s)
    PROVE  Typed' /\ SyncShape' /\ Waits
<1>1. op' = op /\ snap' = snap /\ agent' = agent
  BY DEF SyncBreak, SyncJoin, SyncOffer, data
<1>2. op' \in [Ops -> Handler] /\ RowsLive' /\ Waits
  BY <1>1, OthersStep
<1>3. TypeOK /\ sync \in Synchronisation
  BY DEF Typed, TypeOK
<1>4. ASSUME NEW s \in Scopes, SyncOffer(s) PROVE Typed' /\ SyncShape'
  <2>1. sync' = [sync EXCEPT !.offer = s, !.todo = sync.todo \ {s}] /\ worker' = worker
    BY <1>4 DEF SyncOffer
  <2>2. sync' \in Synchronisation
    BY <1>3, <2>1 DEF Synchronisation
  <2>3. /\ sync'.pc = sync.pc /\ sync'.todo = sync.todo \ {s} /\ sync'.offer = s
        /\ sync'.listed = sync.listed /\ sync'.expired = sync.expired /\ sync'.cancelled = sync.cancelled
    BY <1>3, <2>1 DEF Synchronisation
  <2>4. SyncShape'
    <3>1. /\ sync.pc = "pool" /\ sync.listed[s] # None
          /\ \A r \in sync.todo : sync.listed[r] # None
      BY <1>4 DEF SyncShape, SyncOffer
    <3> QED
      BY <2>1, <2>3, <3>1 DEF SyncShape
  <2> QED
    BY <1>2, <1>3, <1>4, <2>2, <2>4 DEF SyncOffer, Typed, TypeOK, data, tasks, history
<1>5. CASE SyncBreak
  <2>1. sync' = [sync EXCEPT !.offer = None, !.todo = {}, !.cancelled = TRUE] /\ worker' = worker
    BY <1>5 DEF SyncBreak
  <2>2. sync' \in Synchronisation
    BY <1>3, <2>1 DEF Synchronisation
  <2>3. /\ sync'.pc = sync.pc /\ sync'.todo = {} /\ sync'.offer = None
        /\ sync'.listed = sync.listed /\ sync'.expired = sync.expired /\ sync'.cancelled = TRUE
    BY <1>3, <2>1 DEF Synchronisation
  <2>4. SyncShape'
    BY <1>5, <2>1, <2>3 DEF SyncShape, SyncBreak
  <2> QED
    BY <1>2, <1>3, <1>5, <2>2, <2>4 DEF SyncBreak, Typed, TypeOK, data, tasks, history
<1>6. CASE SyncJoin
  <2>1. sync' = [sync EXCEPT !.pc = "end", !.result = JoinResult] /\ worker' = [w \in Workers |-> NoWorker]
    BY <1>6 DEF SyncJoin
  <2>2. JoinResult \in {"nil", "error"}
    BY DEF JoinResult
  <2>3. sync' \in Synchronisation
    BY <1>3, <2>1, <2>2 DEF Synchronisation
  <2>4. /\ sync'.pc = "end" /\ sync'.todo = sync.todo /\ sync'.offer = sync.offer
        /\ sync'.listed = sync.listed /\ sync'.expired = sync.expired /\ sync'.cancelled = sync.cancelled
    BY <1>3, <2>1 DEF Synchronisation
  <2>5. worker' \in [Workers -> Goroutine] /\ \A w \in Workers : worker'[w].pc = "idle" /\ worker'[w].scope = None
    BY <1>3, <2>1, SyncFields
  <2>6. SyncShape'
    BY <1>6, <2>4, <2>5 DEF SyncShape, SyncJoin
  <2> QED
    BY <1>2, <1>3, <1>6, <2>3, <2>5, <2>6 DEF SyncJoin, Typed, TypeOK, data, tasks, history
<1> QED
  BY <1>2, <1>4, <1>5, <1>6

\* The steps of a goroutine, but for what it stores.
LEMMA WorkerTyped ==
    ASSUME Typed, SyncShape, NEW w \in Workers,
           WorkerTake(w) \/ WorkerCheck(w) \/ WorkerFetch(w) \/ WorkerFails(w)
    PROVE  /\ Typed' /\ SyncShape' /\ Waits /\ snap' = snap
           /\ \A x \in Workers \ {w} : worker'[x] = worker[x]
           /\ sync'.pc = sync.pc /\ sync'.listed = sync.listed /\ sync'.todo = sync.todo
           /\ sync.cancelled => sync'.cancelled
           /\ sync.failed => sync'.failed
           /\ IF WorkerTake(w)
              THEN sync'.offer = None /\ worker'[w].scope = sync.offer /\ worker'[w].pc = "check"
              ELSE /\ sync'.offer = sync.offer
                   /\ \/ worker'[w].scope = worker[w].scope
                      \/ sync'.cancelled \/ sync'.failed
<1>1. op' = op /\ snap' = snap /\ agent' = agent
  BY DEF WorkerTake, WorkerCheck, WorkerFetch, WorkerFails, data
<1>2. op' \in [Ops -> Handler] /\ RowsLive' /\ Waits
  BY <1>1, OthersStep
<1>3. TypeOK /\ sync \in Synchronisation /\ worker[w] \in Goroutine
  BY DEF Typed, TypeOK
<1>4. sync.pc = "pool"
  BY DEF WorkerTake, WorkerCheck, WorkerFetch, WorkerFails, SyncShape
<1>5. CASE WorkerTake(w)
  <2> PICK g : g = [worker[w] EXCEPT !.pc = "check", !.scope = sync.offer]
    OBVIOUS
  <2>1. sync.offer \in Scopes
    BY <1>3, <1>5, SyncFields DEF WorkerTake
  <2>2. g \in Goroutine /\ g.pc = "check" /\ g.scope = sync.offer
    BY <1>3, <2>1 DEF Goroutine
  <2>3. worker' = [worker EXCEPT ![w] = g] /\ sync' = [sync EXCEPT !.offer = None]
    BY <1>3, <1>5 DEF WorkerTake, TypeOK
  <2>4. sync' \in Synchronisation
    BY <1>3, <2>3 DEF Synchronisation
  <2>5. /\ sync'.pc = sync.pc /\ sync'.todo = sync.todo /\ sync'.offer = None
        /\ sync'.listed = sync.listed /\ sync'.expired = sync.expired /\ sync'.cancelled = sync.cancelled
        /\ sync'.failed = sync.failed
    BY <1>3, <2>3 DEF Synchronisation
  <2>6. sync.listed[sync.offer] # None /\ (sync'.cancelled => sync'.expired)
    BY <1>5, <2>5 DEF SyncShape, WorkerTake
  <2>7. /\ worker' \in [Workers -> Goroutine] /\ SyncShape'
        /\ worker'[w] = g /\ \A x \in Workers \ {w} : worker'[x] = worker[x]
    BY <1>3, <1>4, <2>1, <2>2, <2>3, <2>5, <2>6, OneWorker
  <2> QED
    BY <1>1, <1>2, <1>3, <1>5, <2>2, <2>4, <2>5, <2>7 DEF WorkerTake, Typed, TypeOK, data, tasks, history
<1>6. CASE WorkerCheck(w)
  <2>1. CASE sync.expired
    <3> PICK g : g = [NoWorker EXCEPT !.pc = "gone"]
      OBVIOUS
    <3>2. g \in Goroutine /\ g.pc = "gone" /\ g.scope = None
      BY Contents DEF Goroutine, NoWorker
    <3>3. worker' = [worker EXCEPT ![w] = g] /\ sync' = [sync EXCEPT !.cancelled = TRUE]
      BY <1>6, <2>1 DEF WorkerCheck
    <3>4. sync' \in Synchronisation
      BY <1>3, <3>3 DEF Synchronisation
    <3>5. /\ sync'.pc = sync.pc /\ sync'.todo = sync.todo /\ sync'.offer = sync.offer
          /\ sync'.listed = sync.listed /\ sync'.expired = sync.expired /\ sync'.cancelled = TRUE
          /\ sync'.failed = sync.failed
      BY <1>3, <3>3 DEF Synchronisation
    <3>7. /\ worker' \in [Workers -> Goroutine] /\ SyncShape'
          /\ worker'[w] = g /\ \A x \in Workers \ {w} : worker'[x] = worker[x]
      BY <1>3, <1>4, <2>1, <3>2, <3>3, <3>5, OneWorker
    <3> QED
      BY <1>1, <1>2, <1>3, <1>6, <3>4, <3>5, <3>7 DEF WorkerCheck, WorkerTake, Typed, TypeOK, data, tasks, history
  <2>2. CASE ~sync.expired
    <3> PICK g : g = [worker[w] EXCEPT !.pc = "fetch"]
      OBVIOUS
    <3>2. g \in Goroutine /\ g.pc = "fetch" /\ g.scope = worker[w].scope
      BY <1>3 DEF Goroutine
    <3>3. worker' = [worker EXCEPT ![w] = g] /\ sync' = sync
      BY <1>3, <1>6, <2>2 DEF WorkerCheck, TypeOK
    <3>4. g.scope \in Scopes /\ sync.listed[g.scope] # None /\ (sync'.cancelled => sync'.expired)
      BY <1>6, <3>2, <3>3 DEF SyncShape, WorkerCheck
    <3>7. /\ worker' \in [Workers -> Goroutine] /\ SyncShape'
          /\ worker'[w] = g /\ \A x \in Workers \ {w} : worker'[x] = worker[x]
      BY <1>3, <1>4, <3>2, <3>3, <3>4, OneWorker
    <3> QED
      BY <1>1, <1>2, <1>3, <1>6, <3>2, <3>3, <3>7 DEF WorkerCheck, WorkerTake, Typed, TypeOK, data, tasks, history
  <2> QED
    BY <2>1, <2>2
<1>7. CASE WorkerFetch(w)
  <2>1. PICK skipped \in SUBSET Items : worker' = [worker EXCEPT ![w].pc = "store",
                                            ![w].items = Details(worker[w].scope, skipped)]
    BY <1>7 DEF WorkerFetch
  <2>2. worker[w].scope \in Scopes /\ sync.listed[worker[w].scope] # None
    BY <1>7 DEF SyncShape, WorkerFetch
  <2>3. Details(worker[w].scope, skipped) \in [Items -> Values]
    BY <1>3, <1>7, <2>2, AnswersTyped DEF WorkerFetch
  <2> PICK items \in [Items -> Values] : items = Details(worker[w].scope, skipped)
    BY <2>3
  <2> PICK g : g = [worker[w] EXCEPT !.pc = "store", !.items = items]
    OBVIOUS
  <2>4. g \in Goroutine /\ g.pc = "store" /\ g.scope = worker[w].scope
    BY <1>3 DEF Goroutine
  <2>5. worker' = [worker EXCEPT ![w] = g] /\ sync' = sync
    BY <1>3, <1>7, <2>1 DEF WorkerFetch, TypeOK
  <2>6. sync'.cancelled => sync'.expired
    BY <2>5 DEF SyncShape
  <2>7. /\ worker' \in [Workers -> Goroutine] /\ SyncShape'
        /\ worker'[w] = g /\ \A x \in Workers \ {w} : worker'[x] = worker[x]
    BY <1>3, <1>4, <2>2, <2>4, <2>5, <2>6, OneWorker
  <2>8. faults' \in 0..MaxFaults /\ excused' \in SUBSET Scopes /\ touched' \in SUBSET Scopes
    BY <1>3, <1>7, <2>2, FaultTyped DEF WorkerFetch, Excuse, TypeOK, history
  <2>9. ~WorkerTake(w)
    BY <1>7 DEF WorkerFetch, WorkerTake
  <2> QED
    BY <1>1, <1>2, <1>3, <1>7, <2>4, <2>5, <2>7, <2>8, <2>9 DEF WorkerFetch, Typed, TypeOK, data, tasks
<1>8. CASE WorkerFails(w)
  <2>1. worker' = [worker EXCEPT ![w] = NoWorker] /\ sync' = WorkerError /\ worker[w].pc \in {"fetch", "store"}
    BY <1>8 DEF WorkerFails
  <2>2. NoWorker \in Goroutine /\ NoWorker.pc = "idle" /\ NoWorker.scope = None
    BY <1>3, SyncFields
  <2>3. sync' \in Synchronisation
    BY <1>3, <2>1 DEF WorkerError, Synchronisation
  <2>4. /\ sync'.pc = sync.pc /\ sync'.todo = sync.todo /\ sync'.offer = sync.offer
        /\ sync'.listed = sync.listed /\ sync'.expired = sync.expired
        /\ (sync.cancelled => sync'.cancelled) /\ (sync.failed => sync'.failed)
        /\ (sync'.cancelled => sync.cancelled \/ sync.expired) /\ (sync'.cancelled \/ sync'.failed)
    BY <1>3, <2>1 DEF WorkerError, Synchronisation
  <2>5. sync'.cancelled => sync'.expired
    BY <2>4 DEF SyncShape
  <2> HIDE DEF NoWorker
  <2>6. /\ worker' \in [Workers -> Goroutine] /\ SyncShape'
        /\ \A x \in Workers \ {w} : worker'[x] = worker[x]
    BY <1>3, <1>4, <2>1, <2>2, <2>4, <2>5, OneWorker
  <2>7. faults' \in 0..MaxFaults
    BY <1>3, <1>8, FaultTyped DEF WorkerFails
  <2>8. ~WorkerTake(w)
    BY <2>1 DEF WorkerTake
  <2> QED
    BY <1>1, <1>2, <1>3, <1>8, <2>3, <2>4, <2>6, <2>7, <2>8 DEF WorkerFails, Typed, TypeOK, data, tasks, history
<1> QED
  BY <1>5, <1>6, <1>7, <1>8

\* It stores what it fetched, with the attributes of the list.
LEMMA WorkerStoreTyped ==
    ASSUME Typed, SyncShape, NEW w \in Workers, WorkerStore(w)
    PROVE  /\ Typed' /\ SyncShape' /\ Waits /\ sync' = sync /\ worker[w].scope \in Scopes
           /\ worker'[w].pc = "idle" /\ worker'[w].scope = None
           /\ \A x \in Workers \ {w} : worker'[x] = worker[x]
           /\ snap'[worker[w].scope] =
                 [state |-> sync.listed[worker[w].scope], items |-> worker[w].items]
           /\ \A t \in Scopes \ {worker[w].scope} : snap'[t] = snap[t]
<1> PICK s : s = worker[w].scope
  OBVIOUS
<1> PICK c : c = [state |-> sync.listed[s], items |-> worker[w].items]
  OBVIOUS
<1>1. TypeOK /\ sync.pc = "pool" /\ s \in Scopes /\ sync.listed[s] # None
  BY DEF Typed, WorkerStore, SyncShape
<1>2. sync.listed[s] \in Attributes /\ worker[w].items \in [Items -> Values]
  BY <1>1, SyncFields
<1>3. c \in Stored
  BY <1>2, Contents DEF Stored
<1>4. /\ snap' = [snap EXCEPT ![s] = c] /\ op' = Rows(snap', op)
      /\ worker' = [worker EXCEPT ![w] = NoWorker] /\ sync' = sync
  BY DEF WorkerStore
<1>5. snap' \in [Scopes -> Stored] /\ snap'[s] = c /\ \A t \in Scopes \ {s} : snap'[t] = snap[t]
  BY <1>1, <1>3, <1>4 DEF TypeOK, Stored
<1>6. op' \in [Ops -> Handler] /\ RowsLive' /\ Waits
  BY <1>4, OthersStep
<1>7. NoWorker \in Goroutine /\ NoWorker.pc = "idle" /\ NoWorker.scope = None
  BY <1>1, SyncFields
<1>8. sync'.cancelled => sync'.expired
  BY <1>4 DEF SyncShape
<1> HIDE DEF NoWorker
<1>9. /\ worker' \in [Workers -> Goroutine] /\ SyncShape' /\ worker'[w] = NoWorker
      /\ \A x \in Workers \ {w} : worker'[x] = worker[x]
  BY <1>1, <1>4, <1>7, <1>8, OneWorker
<1> QED
  BY <1>1, <1>4, <1>5, <1>6, <1>7, <1>9 DEF WorkerStore, Typed, TypeOK, Stored, tasks, history

\* Somebody else changes the server.
LEMMA OthersTyped ==
    ASSUME Typed, NEW s \in Scopes, NEW i \in Items, OthersChange(s, i)
    PROVE  Typed' /\ Waits /\ \A t \in Scopes \ {s} : agent'[t] = agent[t]
<1>1. op' = op /\ snap' = snap /\ TypeOK
  BY DEF OthersChange, Typed
<1>2. op' \in [Ops -> Handler] /\ RowsLive' /\ Waits
  BY <1>1, OthersStep
<1>3. agent[s] \in Content /\ agent \in [Scopes -> Stored]
  BY <1>1 DEF OthersChange, TypeOK, Stored
<1>4. PICK v \in Values : agent' = [agent EXCEPT ![s] = [agent[s] EXCEPT !.items[i] = v]]
  <2>1. 0 \in Values /\ 1 \in Values
    BY DEF Values
  <2>2. \/ agent' = [agent EXCEPT ![s] = [agent[s] EXCEPT !.items[i] = 1]]
        \/ agent' = [agent EXCEPT ![s] = [agent[s] EXCEPT !.items[i] = 0]]
    BY <1>3 DEF OthersChange
  <2> QED
    BY <2>1, <2>2
<1>5. [agent[s] EXCEPT !.items[i] = v] \in Stored
  BY <1>3, ContentSet DEF Stored
<1>6. agent' \in [Scopes -> Stored] /\ \A t \in Scopes \ {s} : agent'[t] = agent[t]
  BY <1>3, <1>4, <1>5
<1>7. faults' \in 0..MaxFaults /\ excused' \in SUBSET Scopes /\ touched' \in SUBSET Scopes
  BY <1>1, FaultTyped, TouchTyped DEF OthersChange, Excuse, TypeOK
<1> QED
  BY <1>1, <1>2, <1>6, <1>7 DEF OthersChange, Typed, TypeOK, Stored, tasks, pool

\* Steps that leave the synchronisation and its goroutines alone.
LEMMA ShapeStays == SyncShape /\ sync' = sync /\ worker' = worker => SyncShape'
BY DEF SyncShape

\* Every step keeps the types and the shape of the synchronisation.
LEMMA TypedStep == Typed /\ SyncShape /\ [Next]_vars => Typed' /\ SyncShape'
<1> SUFFICES ASSUME Typed, SyncShape, [Next]_vars PROVE Typed' /\ SyncShape'
  OBVIOUS
<1>1. ASSUME NEW o \in Ops, NEW k \in Kinds, NEW s \in Scopes, NEW i \in Items, NEW v \in Attributes,
             OpStart(o, k, s, i, v)
      PROVE  Typed' /\ SyncShape'
  <2>1. sync' = sync /\ worker' = worker
    BY <1>1 DEF OpStart, pool
  <2> QED
    BY <1>1, <2>1, StartTyped, ShapeStays
<1>2. ASSUME NEW o \in Ops, OpStep(o) PROVE Typed' /\ SyncShape'
  <2>1. sync' = sync /\ worker' = worker
    BY <1>2 DEF OpStep, OpCheck, OpBegin, OpCall, OpCallFails, OpSave, OpSaveFails, OpLeaseFails, OpMark, pool
  <2>2. Typed'
    BY <1>2, CheckTyped, CallTyped, CallFailsTyped, SaveTyped, SaveFailsTyped, LeaseFailsTyped, MarkTyped
       DEF OpStep
  <2> QED
    BY <2>1, <2>2, ShapeStays
<1>3. ASSUME NEW s \in Scopes, RequestRefresh(s) \/ RefreshStep(s) PROVE Typed' /\ SyncShape'
  <2>1. sync' = sync /\ worker' = worker
    BY <1>3 DEF RefreshStep, RequestRefresh, Fire, Enqueue, RefreshStart, RefreshScope, RefreshMissing,
       RefreshDetails, RefreshStore, RefreshFails, pool
  <2>2. Typed'
    BY <1>3, QueueTyped, RefreshTyped, RefreshStoreTyped DEF RefreshStep
  <2> QED
    BY <2>1, <2>2, ShapeStays
<1>4. ASSUME NEW s \in Scopes, NEW i \in Items, OthersChange(s, i) PROVE Typed' /\ SyncShape'
  <2>1. sync' = sync /\ worker' = worker
    BY <1>4 DEF OthersChange, pool
  <2> QED
    BY <1>4, <2>1, OthersTyped, ShapeStays
<1>5. CASE SyncStart \/ SyncExpire \/ SyncStep
  BY <1>5, SyncSteps, ReplaceTyped, PoolTyped DEF SyncStep
<1>6. ASSUME NEW w \in Workers, WorkerStep(w) PROVE Typed' /\ SyncShape'
  BY <1>6, WorkerTyped, WorkerStoreTyped DEF WorkerStep
<1>7. CASE UNCHANGED vars
  <2>1. op' = op /\ snap' = snap /\ sync' = sync /\ worker' = worker
    BY <1>7 DEF vars, data, pool
  <2>2. op' \in [Ops -> Handler] /\ RowsLive'
    BY <2>1, OthersStep
  <2> QED
    BY <1>7, <2>1, <2>2, ShapeStays DEF vars, data, tasks, pool, history, Typed, TypeOK
<1> QED
  BY <1>1, <1>2, <1>3, <1>4, <1>5, <1>6, <1>7 DEF Next

\* No goroutine runs at the start.
LEMMA ShapeInit == Init => SyncShape
BY DEF Init, SyncShape, NoSync, NoWorker

-----------------------------------------------------------------------------
(***************************************************************************)
(* Agreement.                                                              *)
(***************************************************************************)
\* A scope that is dirty, or is being removed, needs no other argument.
LEMMA SeenTo == \A s \in Scopes : Dirty(s)' \/ Leaving(s)' => Agreeing(s)'
<1> SUFFICES ASSUME NEW s \in Scopes, Dirty(s)' \/ Leaving(s)' PROVE Agreeing(s)'
  OBVIOUS
<1>1. Leaving(s)' => agent'[s] = None
  BY DEF Leaving
<1>2. RefreshRight(s)'
  BY <1>1 DEF RefreshRight, Comes
<1>3. SyncRight(s)'
  BY <1>1 DEF SyncRight
<1>4. DeletionRight(s)'
  BY <1>1 DEF DeletionRight
<1>5. SnapRight(s)'
  BY DEF SnapRight, Comes
<1> QED
  BY <1>2, <1>3, <1>4, <1>5 DEF Agreeing

\* What can make a scope dirty or being removed stays.
Debts(s) == (Dirty(s) => Dirty(s)') /\ (Comes(s) => Comes(s)') /\ (Deleting(s)' <=> Deleting(s))

\* The handlers that were to mark or to remove it, and the dirty entry, are still there.
LEMMA SameDebts ==
    ASSUME NEW s \in Scopes, owed[s] => owed'[s], fire[s] = "owed" => fire'[s] = "owed",
           \A p \in Ops : Marks(op[p], s) => Marks(op'[p], s),
           \A p \in Ops : Deletes(op[p], s) <=> Deletes(op'[p], s)
    PROVE  Debts(s)
<1>1. Dirty(s) => Dirty(s)'
  BY DEF Dirty
<1>2. Deleting(s)' <=> Deleting(s)
  BY DEF Deleting
<1> QED
  BY <1>1, <1>2 DEF Debts, Comes

\* Nothing of the scope changes but what is done about it.
Keeps(s) ==
    /\ agent'[s] = agent[s] /\ snap'[s] = snap[s] /\ ref'[s] = ref[s] /\ queued'[s] = queued[s]
    /\ Debts(s)

\* Neither does the synchronisation of it.
SameSync(s) ==
    /\ sync'.pc \in {"replace", "pool"} => sync'.pc = sync.pc
    /\ sync'.pc \in {"replace", "pool"} => sync'.listed[s] = sync.listed[s]
    /\ \A w \in Workers : worker'[w].pc = "store" /\ worker'[w].scope = s =>
          worker'[w] = worker[w] /\ sync'.pc = "pool"

\* What a refresh has read stays right.
LEMMA RefreshStays ==
    ASSUME NEW s \in Scopes, RefreshRight(s), Debts(s), agent'[s] = agent[s], ref'[s] = ref[s],
           snap'[s] = snap[s] \/ (agent[s] = None /\ snap'[s] = None)
    PROVE  RefreshRight(s)'
<1>1. (Comes(s) => Comes(s)') /\ (Leaving(s) => Leaving(s)')
  BY DEF Debts, Leaving
<1> QED
  BY <1>1 DEF RefreshRight

\* So does what a synchronisation has read.
LEMMA SyncStays ==
    ASSUME NEW s \in Scopes, SyncRight(s), Debts(s), agent'[s] = agent[s], SameSync(s)
    PROVE  SyncRight(s)'
<1>1. (Dirty(s) => Dirty(s)') /\ (Leaving(s) => Leaving(s)')
  BY DEF Debts, Leaving
<1>2. sync'.pc = "replace" => Dirty(s)' \/ Leaving(s)' \/ sync'.listed[s] = StateOf(agent'[s])
  BY <1>1 DEF SyncRight, SameSync
<1>3. sync'.pc = "pool" /\ agent'[s] # None => Dirty(s)' \/ sync'.listed[s] = agent'[s].state
  BY <1>1 DEF SyncRight, SameSync
<1>4. ASSUME NEW w \in Workers, worker'[w].pc = "store", worker'[w].scope = s
      PROVE  \/ Dirty(s)' \/ Leaving(s)'
             \/ agent'[s] = [state |-> sync'.listed[s], items |-> worker'[w].items]
  <2>1. worker'[w] = worker[w] /\ sync'.listed[s] = sync.listed[s]
    BY <1>4 DEF SameSync
  <2> QED
    BY <1>1, <1>4, <2>1 DEF SyncRight
<1> QED
  BY <1>2, <1>3, <1>4 DEF SyncRight

\* And the deletion.
LEMMA DeletionStays ==
    ASSUME NEW s \in Scopes, DeletionRight(s), Debts(s), agent'[s] = agent[s]
    PROVE  DeletionRight(s)'
BY DEF DeletionRight, Debts

\* And the snapshot.
LEMMA SnapStays ==
    ASSUME NEW s \in Scopes, SnapRight(s), Debts(s), agent'[s] = agent[s], snap'[s] = snap[s],
           ref'[s] = ref[s], queued'[s] = queued[s]
    PROVE  SnapRight(s)'
<1>1. (Comes(s) => Comes(s)') /\ (Leaving(s) => Leaving(s)')
  BY DEF Debts, Leaving
<1> QED
  BY <1>1 DEF SnapRight

\* So a step that is about something else keeps the scope right.
LEMMA Kept ==
    ASSUME NEW s \in Scopes, Agreeing(s), Keeps(s), SameSync(s)
    PROVE  Agreeing(s)'
BY RefreshStays, SyncStays, DeletionStays, SnapStays DEF Agreeing, Keeps

\* A synchronisation that does not move has read the same.
LEMMA Unmoved == SyncShape /\ sync' = sync /\ worker' = worker => \A s \in Scopes : SameSync(s)
BY DEF SameSync, SyncShape

\* The debts of a scope that a handler's step does not concern.
LEMMA HandlerDebts ==
    ASSUME NEW o \in Ops, NEW next, Moves(o, next), NEW s \in Scopes,
           owed[s] => owed'[s], fire' = fire,
           \/ s # op[o].scope
           \/ op[o].pc \notin {"save", "mark"} /\ next \notin {"save", "mark"}
    PROVE  Debts(s)
<1>1. ASSUME NEW p \in Ops
      PROVE  (Marks(op[p], s) <=> Marks(op'[p], s)) /\ (Deletes(op[p], s) <=> Deletes(op'[p], s))
  BY DEF Moves, Marks, Deletes
<1> QED
  BY <1>1, SameDebts

\* The debts of a scope when handlers wait.
LEMMA WaitDebts ==
    ASSUME Waits, NEW s \in Scopes, owed[s] => owed'[s], fire[s] = "owed" => fire'[s] = "owed"
    PROVE  Debts(s)
<1>1. ASSUME NEW p \in Ops
      PROVE  (Marks(op[p], s) <=> Marks(op'[p], s)) /\ (Deletes(op[p], s) <=> Deletes(op'[p], s))
  BY DEF Waits, Marks, Deletes
<1> QED
  BY <1>1, SameDebts

\* A handler that comes to mark its scope, or to save what marks it then.
LEMMA Marked ==
    ASSUME NEW o \in Ops, NEW next, Moves(o, next), NEW s, s = op[o].scope,
           next = "mark" \/ (next = "save" /\ op[o].kind # "deleteScope")
    PROVE  Dirty(s)'
<1>1. Marks(op'[o], s)
  BY DEF Moves, Marks
<1> QED
  BY <1>1 DEF Dirty

\* What all steps of handlers leave alone.
LEMMA HandlerFrame ==
    ASSUME SyncShape, NEW o \in Ops,
           \/ OpStep(o)
           \/ \E k \in Kinds, s \in Scopes, i \in Items, v \in Attributes : OpStart(o, k, s, i, v)
    PROVE  /\ fire' = fire /\ queued' = queued /\ ref' = ref
           /\ \A s \in Scopes : SameSync(s)
<1>1. fire' = fire /\ queued' = queued /\ ref' = ref /\ sync' = sync /\ worker' = worker
  BY DEF OpStep, OpStart, OpCheck, OpBegin, OpCall, OpCallFails, OpSave, OpSaveFails, OpLeaseFails, OpMark,
     tasks, pool
<1> QED
  BY <1>1, Unmoved

\* Handlers keep all scopes right: what a step of handler o does not concern.
LEMMA HandlerOthers ==
    ASSUME Typed, SyncShape, NEW o \in Ops, NEW next, Moves(o, next), NEW s \in Scopes, Agreeing(s),
           \/ OpStep(o)
           \/ \E k \in Kinds, t \in Scopes, i \in Items, v \in Attributes : OpStart(o, k, t, i, v),
           owed[s] => owed'[s], agent'[s] = agent[s], snap'[s] = snap[s],
           \/ s # op[o].scope
           \/ op[o].pc \notin {"save", "mark"} /\ next \notin {"save", "mark"}
    PROVE  Agreeing(s)'
<1>1. fire' = fire /\ queued' = queued /\ ref' = ref /\ SameSync(s)
  BY HandlerFrame
<1>2. Debts(s)
  BY <1>1, HandlerDebts
<1> QED
  BY <1>1, <1>2, Kept DEF Keeps

\* Requests start, and pass ensureAgentNotSyncing and begin.
LEMMA StartAgrees ==
    ASSUME Typed, SyncShape, NEW o \in Ops, NEW s \in Scopes, Agreeing(s),
           \/ \E k \in Kinds, t \in Scopes, i \in Items, v \in Attributes : OpStart(o, k, t, i, v)
           \/ OpCheck(o) \/ OpBegin(o)
    PROVE  Agreeing(s)'
<1>1. PICK next \in {"check", "begin", "call", "done"} : Moves(o, next)
  BY StartTyped, CheckTyped
<1>2. agent' = agent /\ snap' = snap /\ owed' = owed /\ op[o].pc \notin {"save", "mark"}
  BY DEF OpStart, OpCheck, OpBegin, data, tasks
<1>3. \/ OpStep(o)
      \/ \E k \in Kinds, t \in Scopes, i \in Items, v \in Attributes : OpStart(o, k, t, i, v)
  BY DEF OpStep
<1> QED
  BY <1>1, <1>2, <1>3, HandlerOthers

\* After the Agent call its scope is dirty, or gone and about to be removed.
LEMMA CallAgrees ==
    ASSUME Typed, SyncShape, NEW o \in Ops, NEW s \in Scopes, Agreeing(s), OpCall(o)
    PROVE  Agreeing(s)'
<1>1. /\ Moves(o, "save") /\ OpStep(o) /\ snap' = snap /\ owed' = owed /\ op[o].scope \in Scopes
      /\ agent' = [agent EXCEPT ![op[o].scope] = Apply(op[o], agent[op[o].scope])]
      /\ agent \in [Scopes -> Stored]
  BY CallTyped DEF OpStep, OpCall, tasks, Typed, TypeOK, Stored
<1>2. CASE s # op[o].scope
  <2>1. agent'[s] = agent[s]
    BY <1>1, <1>2
  <2> QED
    BY <1>1, <1>2, <2>1, HandlerOthers
<1>3. CASE s = op[o].scope /\ op[o].kind # "deleteScope"
  BY <1>1, <1>3, Marked, SeenTo
<1>4. CASE s = op[o].scope /\ op[o].kind = "deleteScope"
  <2>1. agent'[s] = None
    BY <1>1, <1>4 DEF Apply, DeleteScope
  <2>2. Deletes(op'[o], s)
    BY <1>1, <1>4 DEF Moves, Deletes
  <2>3. Leaving(s)'
    BY <2>1, <2>2 DEF Leaving, Deleting
  <2> QED
    BY <2>3, SeenTo
<1> QED
  BY <1>2, <1>3, <1>4

\* After a call that failed it is marked, unless createScope failed after it had its effect.
LEMMA CallFailsAgrees ==
    ASSUME Typed, SyncShape, NEW o \in Ops, NEW s \in Scopes, Agreeing(s), OpCallFails(o), s \notin excused'
    PROVE  Agreeing(s)'
<1>1. /\ op[o].scope \in Scopes /\ OpStep(o) /\ snap' = snap /\ owed' = owed /\ op[o].pc = "call"
      /\ IF op[o].kind = "createScope" THEN Moves(o, "done") ELSE Moves(o, "mark")
      /\ agent \in [Scopes -> Stored]
      /\ \/ agent' = agent
         \/ /\ agent' = [agent EXCEPT ![op[o].scope] = Apply(op[o], agent[op[o].scope])]
            /\ excused' = IF op[o].kind = "createScope" THEN excused \cup {op[o].scope} ELSE excused
  BY CallFailsTyped DEF OpStep, OpCallFails, tasks, Typed, TypeOK, Stored
<1>2. CASE s # op[o].scope
  <2>1. agent'[s] = agent[s]
    BY <1>1, <1>2
  <2> QED
    BY <1>1, <1>2, <2>1, HandlerOthers
<1>3. CASE s = op[o].scope /\ op[o].kind # "createScope"
  BY <1>1, <1>3, Marked, SeenTo
<1>4. CASE s = op[o].scope /\ op[o].kind = "createScope"
  <2>1. agent' = agent /\ Moves(o, "done")
    BY <1>1, <1>4
  <2> QED
    BY <1>1, <2>1, HandlerOthers
<1> QED
  BY <1>2, <1>3, <1>4

\* The snapshot after deleteScope, of a scope that nobody is about to store.
LEMMA RemovedAgrees ==
    ASSUME Typed, SyncShape, NEW o \in Ops, NEW s \in Scopes, s = op[o].scope, Agreeing(s), OpSave(o),
           op[o].kind = "deleteScope", s \notin excused'
    PROVE  Agreeing(s)'
<1>1. /\ Moves(o, "done") /\ op[o].pc = "save" /\ ~CopyInFlight(s) /\ owed' = owed /\ agent' = agent
      /\ fire' = fire /\ queued' = queued /\ ref' = ref /\ sync' = sync /\ worker' = worker
      /\ snap'[s] = Patch(op[o], snap[s])
  BY SaveTyped DEF OpSave, tasks, pool
<1>2. snap'[s] = None
  BY <1>1 DEF Patch, Apply, DeleteScope
<1>3. CASE Dirty(s)
  <2>1. ASSUME NEW p \in Ops, Marks(op[p], s) PROVE Marks(op'[p], s)
    <3>1. p # o
      BY <1>1, <2>1 DEF Marks
    <3> QED
      BY <1>1, <2>1, <3>1 DEF Moves, Marks
  <2>2. Dirty(s)'
    BY <1>1, <1>3, <2>1 DEF Dirty
  <2> QED
    BY <2>2, SeenTo
<1>4. CASE ~Dirty(s)
  <2>1. Deletes(op[o], s)
    BY <1>1 DEF Deletes
  <2>2. Deleting(s)
    BY <2>1 DEF Deleting
  <2>3. agent[s] = None /\ agent'[s] = None
    BY <1>1, <1>4, <2>2 DEF Agreeing, DeletionRight
  <2>4. RefreshRight(s)'
    BY <1>1, <1>2, <2>3 DEF RefreshRight, CopyInFlight
  <2>5. sync.pc = "replace" => sync.listed[s] = None
    BY <1>1 DEF CopyInFlight
  <2>6. \A w \in Workers : ~(worker[w].pc = "store" /\ worker[w].scope = s)
    BY <1>1 DEF CopyInFlight
  <2>7. SyncRight(s)'
    BY <1>1, <2>3, <2>5, <2>6 DEF SyncRight, StateOf
  <2>8. DeletionRight(s)' /\ SnapRight(s)'
    BY <1>2, <2>3 DEF DeletionRight, SnapRight
  <2> QED
    BY <2>4, <2>7, <2>8 DEF Agreeing
<1> QED
  BY <1>3, <1>4

\* The statement of a handler on the snapshot.
LEMMA SaveAgrees ==
    ASSUME Typed, SyncShape, NEW o \in Ops, NEW s \in Scopes, Agreeing(s), OpSave(o), s \notin excused'
    PROVE  Agreeing(s)'
<1>1. /\ op[o].scope \in Scopes /\ OpStep(o) /\ agent' = agent /\ owed' = owed
      /\ IF op[o].kind = "deleteScope" THEN Moves(o, "done") ELSE Moves(o, "mark")
      /\ \A t \in Scopes \ {op[o].scope} : snap'[t] = snap[t]
  BY SaveTyped DEF OpStep, OpSave, tasks
<1>2. CASE s # op[o].scope
  <2>1. PICK next : Moves(o, next)
    BY <1>1
  <2> QED
    BY <1>1, <1>2, <2>1, HandlerOthers
<1>3. CASE s = op[o].scope /\ op[o].kind # "deleteScope"
  BY <1>1, <1>3, Marked, SeenTo
<1>4. CASE s = op[o].scope /\ op[o].kind = "deleteScope"
  BY <1>4, RemovedAgrees
<1> QED
  BY <1>2, <1>3, <1>4

\* The statement fails, or the second one of a reservation does.
LEMMA SaveFailsAgrees ==
    ASSUME Typed, SyncShape, NEW o \in Ops, NEW s \in Scopes, Agreeing(s),
           OpSaveFails(o) \/ OpLeaseFails(o), s \notin excused'
    PROVE  Agreeing(s)'
<1>1. CASE OpSaveFails(o)
  <2>1. /\ op[o].scope \in Scopes /\ OpStep(o) /\ agent' = agent /\ snap' = snap /\ owed' = owed
        /\ IF op[o].kind \in NeedsSave THEN Moves(o, "done") ELSE Moves(o, "mark")
        /\ op[o].kind \in NeedsSave => excused' = excused \cup {op[o].scope}
    BY <1>1, SaveFailsTyped DEF OpStep, OpSaveFails, data, tasks, Excuse
  <2>2. CASE s # op[o].scope
    <3>1. PICK next : Moves(o, next)
      BY <2>1
    <3> QED
      BY <2>1, <2>2, <3>1, HandlerOthers
  <2>3. CASE s = op[o].scope
    <3>1. op[o].kind \notin NeedsSave /\ Moves(o, "mark")
      BY <2>1, <2>3
    <3> QED
      BY <2>3, <3>1, Marked, SeenTo
  <2> QED
    BY <2>2, <2>3
<1>2. CASE OpLeaseFails(o)
  <2>1. /\ op[o].scope \in Scopes /\ OpStep(o) /\ agent' = agent /\ owed' = owed
        /\ Moves(o, "done") /\ excused' = excused \cup {op[o].scope}
        /\ \A t \in Scopes \ {op[o].scope} : snap'[t] = snap[t]
    BY <1>2, LeaseFailsTyped DEF OpStep, OpLeaseFails, tasks, Excuse
  <2>2. s # op[o].scope /\ snap'[s] = snap[s]
    BY <2>1
  <2> QED
    BY <2>1, <2>2, HandlerOthers
<1> QED
  BY <1>1, <1>2

\* The scope is marked.
LEMMA MarkAgrees ==
    ASSUME Typed, SyncShape, NEW o \in Ops, NEW s \in Scopes, Agreeing(s), OpMark(o)
    PROVE  Agreeing(s)'
<1>1. /\ op[o].scope \in Scopes /\ Moves(o, "done") /\ OpStep(o) /\ agent' = agent /\ snap' = snap
      /\ owed' = [owed EXCEPT ![op[o].scope] = TRUE] /\ owed \in [Scopes -> BOOLEAN]
  BY MarkTyped DEF OpStep, OpMark, data, Typed, TypeOK
<1>2. CASE s # op[o].scope
  <2>1. owed'[s] = owed[s]
    BY <1>1, <1>2
  <2> QED
    BY <1>1, <1>2, <2>1, HandlerOthers
<1>3. CASE s = op[o].scope
  <2>1. owed'[s]
    BY <1>1, <1>3
  <2>2. Dirty(s)'
    BY <2>1 DEF Dirty
  <2> QED
    BY <2>2, SeenTo
<1> QED
  BY <1>2, <1>3

\* A refresh of scope s and its way there are about no other scope.
LEMMA RefreshOthers ==
    ASSUME Typed, SyncShape, NEW s \in Scopes, NEW t \in Scopes, t # s, Agreeing(t),
           RequestRefresh(s) \/ RefreshStep(s)
    PROVE  Agreeing(t)'
<1>1. Waits
  BY QueueTyped, RefreshTyped, RefreshStoreTyped DEF RefreshStep
<1>2. TypeOK
  BY DEF Typed
<1>3. agent' = agent /\ sync' = sync /\ worker' = worker
  BY DEF RefreshStep, RequestRefresh, Fire, Enqueue, RefreshStart, RefreshScope, RefreshMissing, RefreshDetails,
     RefreshStore, RefreshFails, data, pool
<1>4. CASE RequestRefresh(s) \/ Fire(s) \/ Enqueue(s) \/ RefreshStart(s)
  <2>1. owed'[t] = owed[t] /\ fire'[t] = fire[t] /\ queued'[t] = queued[t] /\ ref'[t] = ref[t] /\ snap'[t] = snap[t]
    BY <1>2, <1>4 DEF RequestRefresh, Fire, Enqueue, RefreshStart, TypeOK, data
  <2> QED
    BY <1>1, <1>3, <2>1, WaitDebts, Unmoved, Kept DEF Keeps
<1>5. CASE RefreshScope(s) \/ RefreshMissing(s) \/ RefreshDetails(s) \/ RefreshFails(s)
  <2>1. owed'[t] = owed[t] /\ fire'[t] = fire[t] /\ queued'[t] = queued[t] /\ snap'[t] = snap[t]
    BY <1>5 DEF RefreshScope, RefreshMissing, RefreshDetails, RefreshFails, data
  <2>2. ref'[t] = ref[t]
    BY <1>2, <1>5 DEF RefreshScope, RefreshMissing, RefreshDetails, RefreshFails, RefreshLost, TypeOK
  <2> QED
    BY <1>1, <1>3, <2>1, <2>2, WaitDebts, Unmoved, Kept DEF Keeps
<1>6. CASE RefreshStore(s)
  <2>1. owed'[t] = owed[t] /\ fire'[t] = fire[t] /\ queued'[t] = queued[t] /\ snap'[t] = snap[t] /\ ref'[t] = ref[t]
    BY <1>2, <1>6, RefreshStoreTyped DEF RefreshStore, TypeOK
  <2> QED
    BY <1>1, <1>3, <2>1, WaitDebts, Unmoved, Kept DEF Keeps
<1> QED
  BY <1>4, <1>5, <1>6 DEF RefreshStep

\* fire: without a synchronisation the dirty entry becomes a refresh, and no handler was
\* under way.
LEMMA FireAgrees ==
    ASSUME Typed, SyncShape, NEW s \in Scopes, Agreeing(s), Fire(s), s \notin excused'
    PROVE  Agreeing(s)'
<1>1. /\ sync.pc = "idle" /\ ~InProgress(s) /\ sync' = sync /\ worker' = worker
      /\ fire' = [fire EXCEPT ![s] = "owed"] /\ fire \in [Scopes -> {"idle", "owed", "manual"}] /\ Waits
  BY QueueTyped DEF Fire, Syncing, Excuse, pool, Typed, TypeOK
<1>2. Comes(s)'
  BY <1>1 DEF Comes
<1>3. RefreshRight(s)' /\ SnapRight(s)'
  BY <1>2 DEF RefreshRight, SnapRight
<1>4. \A p \in Ops : ~Deletes(op'[p], s)
  BY <1>1 DEF Waits, Deletes, InProgress
<1>5. DeletionRight(s)'
  BY <1>4 DEF DeletionRight, Deleting
<1>6. sync'.pc = "idle" /\ \A w \in Workers : worker'[w].pc # "store"
  BY <1>1 DEF SyncShape
<1>7. SyncRight(s)'
  BY <1>6 DEF SyncRight
<1> QED
  BY <1>3, <1>5, <1>7 DEF Agreeing

\* The way of a refresh to its start: it is requested, its task is created, and starts.
LEMMA QueueAgrees ==
    ASSUME Typed, SyncShape, NEW s \in Scopes, Agreeing(s),
           RequestRefresh(s) \/ Enqueue(s) \/ RefreshStart(s), s \notin excused'
    PROVE  Agreeing(s)'
<1>1. /\ Waits /\ agent' = agent /\ snap' = snap /\ owed' = owed /\ SameSync(s) /\ TypeOK
      /\ queued[s] \in 0..MaxQueued /\ MaxQueued \in Nat
  BY QueueTyped, Unmoved, BoundsAssumption
     DEF RequestRefresh, Enqueue, RefreshStart, data, pool, Typed, TypeOK
<1>2. CASE RequestRefresh(s)
  <2>1. fire[s] # "owed" /\ queued' = queued /\ ref' = ref
    BY <1>2 DEF RequestRefresh
  <2> QED
    BY <1>1, <2>1, WaitDebts, Kept DEF Keeps
<1>3. CASE Enqueue(s)
  <2>1. fire' = [fire EXCEPT ![s] = "idle"] /\ ref' = ref /\ fire[s] # "idle"
    BY <1>3 DEF Enqueue
  <2>2. CASE ref[s].pc = "idle" /\ queued' = [queued EXCEPT ![s] = queued[s] + 1]
    <3>1. queued'[s] > 0
      BY <1>1, <2>2 DEF TypeOK
    <3>2. \A p \in Ops : /\ Marks(op[p], s) <=> Marks(op'[p], s)
                         /\ Deletes(op[p], s) <=> Deletes(op'[p], s)
      BY <1>1 DEF Waits, Marks, Deletes
    <3>3. (Dirty(s)' <=> Dirty(s)) /\ (Deleting(s)' <=> Deleting(s))
      BY <1>1, <3>2 DEF Dirty, Deleting
    <3>4. RefreshRight(s)' /\ SnapRight(s)'
      BY <2>1, <2>2, <3>1 DEF RefreshRight, SnapRight
    <3>5. DeletionRight(s)'
      BY <1>1, <3>3 DEF Agreeing, DeletionRight
    <3>6. (Dirty(s) => Dirty(s)') /\ (Leaving(s) => Leaving(s)')
      BY <1>1, <3>3 DEF Leaving
    <3>7. SyncRight(s)'
      BY <1>1, <1>3, <3>6 DEF Agreeing, SyncRight, Enqueue, pool
    <3> QED
      BY <3>4, <3>5, <3>7 DEF Agreeing
  <2>3. CASE queued' = queued /\ fire[s] # "owed"
    BY <1>1, <2>1, <2>3, WaitDebts, Kept DEF Keeps
  <2> QED
    BY <1>3, <2>2, <2>3 DEF Enqueue
<1>4. CASE RefreshStart(s)
  <2>1. fire' = fire
    BY <1>4 DEF RefreshStart
  <2>2. Debts(s)
    BY <1>1, <2>1, WaitDebts
  <2>3. SyncRight(s)' /\ DeletionRight(s)'
    BY <1>1, <2>2, SyncStays, DeletionStays DEF Agreeing
  <2>4. CASE ref[s].pc = "idle"
    <3>1. ref'[s].pc = "scope"
      BY <1>1, <1>4, <2>4 DEF RefreshStart, TypeOK, Refresh
    <3>2. RefreshRight(s)' /\ SnapRight(s)'
      BY <3>1 DEF RefreshRight, SnapRight
    <3> QED
      BY <2>3, <3>2 DEF Agreeing
  <2>5. CASE ref[s].pc # "idle"
    <3>1. ref' = ref
      BY <1>4, <2>5 DEF RefreshStart
    <3>2. RefreshRight(s)'
      BY <1>1, <2>2, <3>1, RefreshStays DEF Agreeing
    <3>3. SnapRight(s)'
      BY <2>5, <3>1 DEF SnapRight
    <3> QED
      BY <2>3, <3>2, <3>3 DEF Agreeing
  <2> QED
    BY <2>4, <2>5
<1> QED
  BY <1>2, <1>3, <1>4

\* What a refresh reads, and what it stores.
LEMMA RefreshAgrees ==
    ASSUME Typed, SyncShape, NEW s \in Scopes, Agreeing(s), s \notin excused',
           RefreshScope(s) \/ RefreshMissing(s) \/ RefreshDetails(s) \/ RefreshFails(s) \/ RefreshStore(s)
    PROVE  Agreeing(s)'
<1>1. /\ Waits /\ agent' = agent /\ owed' = owed /\ fire' = fire /\ queued' = queued /\ SameSync(s) /\ TypeOK
      /\ ref[s] \in Refresh
  BY RefreshTyped, RefreshStoreTyped, Unmoved
     DEF RefreshScope, RefreshMissing, RefreshDetails, RefreshFails, RefreshStore, data, pool, Typed, TypeOK
<1>2. Debts(s)
  BY <1>1, WaitDebts
<1>3. SyncRight(s)' /\ DeletionRight(s)'
  BY <1>1, <1>2, SyncStays, DeletionStays DEF Agreeing
<1>4. (Comes(s) => Comes(s)') /\ (Leaving(s) => Leaving(s)')
  BY <1>1, <1>2 DEF Debts, Leaving
<1>5. CASE RefreshScope(s)
  <2>1. ref'[s].pc = "details" /\ ref'[s].state = agent'[s].state /\ agent'[s] # None
    BY <1>1, <1>5 DEF RefreshScope, TypeOK, Refresh
  <2>2. RefreshRight(s)' /\ SnapRight(s)'
    BY <2>1 DEF RefreshRight, SnapRight
  <2> QED
    BY <1>3, <2>2 DEF Agreeing
<1>6. CASE RefreshMissing(s)
  <2>1. ref'[s].pc = "gone" /\ agent'[s] = None
    BY <1>1, <1>6 DEF RefreshMissing, RefreshLost, Excuse, TypeOK, Refresh
  <2>2. RefreshRight(s)' /\ SnapRight(s)'
    BY <2>1 DEF RefreshRight, SnapRight
  <2> QED
    BY <1>3, <2>2 DEF Agreeing
<1>7. CASE RefreshDetails(s)
  <2>1. snap' = snap /\ ref[s].pc = "details"
    BY <1>7 DEF RefreshDetails, data
  <2>2. \/ Comes(s) \/ Leaving(s) \/ (agent[s] = None /\ snap[s] = None)
        \/ agent[s] # None /\ ref[s].state = agent[s].state
    BY <2>1 DEF Agreeing, RefreshRight
  <2>3. CASE agent[s] = None
    <3>1. ref'[s].pc = "idle"
      BY <1>1, <1>7, <2>3 DEF RefreshDetails, NoRefresh, TypeOK
    <3>2. RefreshRight(s)'
      BY <3>1 DEF RefreshRight
    <3>3. SnapRight(s)'
      BY <1>1, <1>4, <2>1, <2>2, <2>3 DEF SnapRight
    <3> QED
      BY <1>3, <3>2, <3>3 DEF Agreeing
  <2>4. CASE agent[s] # None
    <3>1. ref' = [ref EXCEPT ![s] = [ref[s] EXCEPT !.pc = "store", !.items = Details(s, {})]]
      BY <1>1, <1>7, <2>4 DEF RefreshDetails, Excuse, TypeOK
    <3>2. Details(s, {}) = agent[s].items /\ agent[s] \in Content
      BY <1>1, <2>4, AnswersTyped DEF TypeOK
    <3>3. ref'[s].pc = "store" /\ ref'[s].state = ref[s].state /\ ref'[s].items = agent[s].items
      BY <1>1, <3>1, <3>2 DEF Refresh, TypeOK
    <3>4. agent[s] = [state |-> agent[s].state, items |-> agent[s].items]
      BY <3>2, Contents
    <3>5. RefreshRight(s)' /\ SnapRight(s)'
      BY <1>1, <1>4, <2>2, <2>4, <3>3, <3>4 DEF RefreshRight, SnapRight
    <3> QED
      BY <1>3, <3>5 DEF Agreeing
  <2> QED
    BY <2>3, <2>4
<1>8. CASE RefreshStore(s)
  <2>1. snap'[s] = RefreshCopy(s) /\ ref[s].pc \in {"store", "gone"} /\ ref'[s].pc = "idle"
    BY <1>1, <1>8, RefreshStoreTyped DEF RefreshStore, NoRefresh, TypeOK
  <2>2. Comes(s) \/ Leaving(s) \/ RefreshCopy(s) = agent[s]
    BY <2>1 DEF Agreeing, RefreshRight, RefreshCopy
  <2>3. RefreshRight(s)'
    BY <2>1 DEF RefreshRight
  <2>4. SnapRight(s)'
    BY <1>1, <1>4, <2>1, <2>2 DEF SnapRight
  <2> QED
    BY <1>3, <2>3, <2>4 DEF Agreeing
<1>9. CASE RefreshFails(s)
  BY <1>9 DEF RefreshFails, RefreshLost, Excuse
<1> QED
  BY <1>5, <1>6, <1>7, <1>8, <1>9

\* The steps of a synchronisation that neither read nor store.
LEMMA PoolAgrees ==
    ASSUME Typed, SyncShape, NEW s \in Scopes, Agreeing(s),
           \/ SyncStart \/ SyncExpire \/ SyncFails \/ SyncBreak \/ SyncJoin \/ SyncEnd
           \/ \E t \in Scopes : SyncOffer(t)
    PROVE  Agreeing(s)'
<1>1. /\ agent' = agent /\ snap' = snap /\ owed' = owed /\ fire' = fire /\ queued' = queued /\ ref' = ref
      /\ Waits
  BY SyncSteps, PoolTyped
     DEF SyncStart, SyncExpire, SyncFails, SyncBreak, SyncJoin, SyncEnd, SyncOffer, data, tasks
<1>2. sync \in Synchronisation /\ worker \in [Workers -> Goroutine] /\ TypeOK
  BY DEF Typed, TypeOK
<1>3. \A w \in Workers : worker'[w].pc = "store" => worker'[w] = worker[w]
  BY <1>2, SyncFields
     DEF SyncStart, SyncExpire, SyncFails, SyncBreak, SyncJoin, SyncEnd, SyncOffer
<1>4. sync'.pc \in {"replace", "pool"} => sync'.pc = sync.pc /\ sync'.listed = sync.listed
  <2>1. CASE SyncStart \/ SyncFails \/ SyncJoin \/ SyncEnd
    <3>1. SyncStart => sync'.pc = "list"
      BY <1>2 DEF Synchronisation, SyncTo, SyncStart
    <3>2. SyncFails => sync'.pc = "end"
      BY <1>2 DEF Synchronisation, SyncFails
    <3>3. SyncJoin => sync'.pc = "end"
      BY <1>2 DEF Synchronisation, SyncJoin
    <3>4. SyncEnd => sync'.pc = "idle"
      BY DEF SyncEnd, NoSync
    <3> QED
      BY <2>1, <3>1, <3>2, <3>3, <3>4
  <2>2. CASE SyncExpire
    BY <1>2, <2>2 DEF Synchronisation, SyncExpire
  <2>3. CASE SyncBreak
    BY <1>2, <2>3 DEF Synchronisation, SyncBreak
  <2>4. ASSUME NEW t \in Scopes, SyncOffer(t)
        PROVE  sync'.pc = sync.pc /\ sync'.listed = sync.listed
    BY <1>2, <2>4 DEF Synchronisation, SyncOffer
  <2> QED
    BY <2>1, <2>2, <2>3, <2>4
<1>5. \A w \in Workers : worker'[w].pc = "store" => sync'.pc = "pool"
  <2>1. SyncShape'
    BY SyncSteps, PoolTyped
  <2> QED
    BY <2>1 DEF SyncShape
<1>6. SameSync(s)
  BY <1>3, <1>4, <1>5 DEF SameSync
<1> QED
  BY <1>1, <1>6, WaitDebts, Kept DEF Keeps

\* The list of the scopes.
LEMMA ListAgrees ==
    ASSUME Typed, SyncShape, NEW s \in Scopes, Agreeing(s), SyncList, s \notin excused'
    PROVE  Agreeing(s)'
<1>1. /\ agent' = agent /\ snap' = snap /\ owed' = owed /\ fire' = fire /\ queued' = queued /\ ref' = ref
      /\ worker' = worker /\ sync.pc = "list" /\ Waits
  BY SyncSteps DEF SyncList, data, tasks
<1>2. TypeOK /\ sync \in Synchronisation
  BY DEF Typed, TypeOK
<1>3. PICK skipped \in SUBSET Scopes :
         /\ sync' = [sync EXCEPT !.pc = "replace", !.listed = Listed(skipped)]
         /\ s \notin skipped
  <2> PICK none \in SUBSET Scopes : none = {}
    OBVIOUS
  <2>1. s \notin none
    OBVIOUS
  <2>2. ASSUME NEW missing \in SUBSET Scopes, excused' = excused \cup missing,
               sync' = [sync EXCEPT !.pc = "replace", !.listed = Listed(missing)]
        PROVE  sync' = [sync EXCEPT !.pc = "replace", !.listed = Listed(missing)] /\ s \notin missing
    BY <2>2
  <2> QED
    BY <2>1, <2>2 DEF SyncList
<1>4. sync'.pc = "replace" /\ sync'.listed = Listed(skipped)
  BY <1>2, <1>3 DEF Synchronisation
<1>5. sync'.listed[s] = StateOf(agent'[s])
  BY <1>1, <1>3, <1>4 DEF Listed, StateOf
<1>6. \A w \in Workers : worker'[w].pc # "store"
  BY <1>1 DEF SyncShape
<1>7. SyncRight(s)'
  BY <1>4, <1>5, <1>6 DEF SyncRight
<1>8. Debts(s)
  BY <1>1, WaitDebts
<1> QED
  BY <1>1, <1>7, <1>8, RefreshStays, DeletionStays, SnapStays DEF Agreeing

\* The statement that replaces the list of scopes.
LEMMA ReplaceAgrees ==
    ASSUME Typed, SyncShape, NEW s \in Scopes, Agreeing(s), SyncReplace
    PROVE  Agreeing(s)'
<1>1. /\ agent' = agent /\ owed' = owed /\ fire' = fire /\ queued' = queued /\ ref' = ref
      /\ worker' = worker /\ sync.pc = "replace" /\ sync'.pc = "pool" /\ sync'.listed = sync.listed /\ Waits
      /\ snap'[s] = Replaced(snap[s], sync.listed[s])
  BY ReplaceTyped DEF SyncReplace, tasks
<1>2. TypeOK /\ agent[s] \in Content \cup {None}
  BY DEF Typed, TypeOK
<1>3. Debts(s)
  BY <1>1, WaitDebts
<1>4. (Dirty(s) => Dirty(s)') /\ (Comes(s) => Comes(s)') /\ (Leaving(s) => Leaving(s)')
  BY <1>1, <1>3 DEF Debts, Leaving
<1>5. Dirty(s) \/ Leaving(s) \/ sync.listed[s] = StateOf(agent[s])
  BY <1>1 DEF Agreeing, SyncRight
<1>6. CASE Dirty(s) \/ Leaving(s)
  BY <1>4, <1>6, SeenTo
<1>7. CASE sync.listed[s] = StateOf(agent[s])
  <2>1. agent[s] = None => snap'[s] = None
    BY <1>1, <1>7 DEF StateOf, Replaced
  <2>2. agent[s] # None => agent[s] \in Content /\ agent[s].state # None
    BY <1>2, Contents
  <2>3. snap[s] = agent[s] => snap'[s] = agent[s]
    <3>1. ASSUME agent[s] # None, snap[s] = agent[s]
          PROVE  snap'[s] = agent[s]
      <4>1. sync.listed[s] = agent[s].state /\ agent[s].state # None
        BY <1>7, <2>2, <3>1 DEF StateOf
      <4>2. snap'[s] = [agent[s] EXCEPT !.state = agent[s].state]
        BY <1>1, <3>1, <4>1 DEF Replaced
      <4> QED
        BY <2>2, <3>1, <4>2 DEF Content
    <3> QED
      BY <2>1, <3>1
  <2>4. \A w \in Workers : worker'[w].pc # "store"
    BY <1>1 DEF SyncShape
  <2>5. SyncRight(s)'
    BY <1>1, <1>7, <2>4 DEF SyncRight, StateOf
  <2>6. RefreshRight(s)'
    <3>1. CASE snap'[s] = snap[s] \/ (agent[s] = None /\ snap'[s] = None)
      BY <1>1, <1>3, <3>1, RefreshStays DEF Agreeing
    <3>2. CASE agent[s] # None
      BY <1>1, <1>4, <3>2 DEF Agreeing, RefreshRight
    <3> QED
      BY <2>1, <3>1, <3>2
  <2>7. DeletionRight(s)'
    BY <1>1, <1>3, DeletionStays DEF Agreeing
  <2>8. SnapRight(s)'
    BY <1>1, <1>4, <2>3 DEF Agreeing, SnapRight
  <2> QED
    BY <2>5, <2>6, <2>7, <2>8 DEF Agreeing
<1> QED
  BY <1>5, <1>6, <1>7

\* A goroutine takes a scope, begins, or fails.
LEMMA WorkerAgrees ==
    ASSUME Typed, SyncShape, NEW w \in Workers, NEW s \in Scopes, Agreeing(s),
           WorkerTake(w) \/ WorkerCheck(w) \/ WorkerFails(w)
    PROVE  Agreeing(s)'
<1>1. /\ agent' = agent /\ snap' = snap /\ owed' = owed /\ fire' = fire /\ queued' = queued /\ ref' = ref
      /\ Waits /\ sync'.pc = sync.pc /\ sync'.listed = sync.listed
      /\ \A x \in Workers \ {w} : worker'[x] = worker[x]
      /\ SyncShape'
  BY WorkerTyped DEF WorkerTake, WorkerCheck, WorkerFails, data, tasks
<1>2. worker'[w].pc # "store"
  <2>1. TypeOK /\ worker \in [Workers -> Goroutine] /\ worker[w] \in Goroutine
    BY DEF Typed, TypeOK
  <2> QED
    BY <2>1 DEF WorkerTake, WorkerCheck, WorkerFails, NoWorker, Goroutine
<1>3. SameSync(s)
  BY <1>1, <1>2 DEF SameSync, SyncShape
<1> QED
  BY <1>1, <1>3, WaitDebts, Kept DEF Keeps

\* It has read the scope.
LEMMA FetchAgrees ==
    ASSUME Typed, SyncShape, NEW w \in Workers, NEW s \in Scopes, Agreeing(s), WorkerFetch(w), s \notin excused'
    PROVE  Agreeing(s)'
<1>1. /\ agent' = agent /\ snap' = snap /\ owed' = owed /\ fire' = fire /\ queued' = queued /\ ref' = ref
      /\ Waits /\ sync' = sync /\ SyncShape' /\ \A x \in Workers \ {w} : worker'[x] = worker[x]
      /\ agent[worker[w].scope] # None /\ sync.pc = "pool"
  BY WorkerTyped DEF WorkerFetch, data, tasks, SyncShape
<1>2. TypeOK /\ worker \in [Workers -> Goroutine] /\ worker[w] \in Goroutine
  BY DEF Typed, TypeOK
<1>3. Debts(s)
  BY <1>1, WaitDebts
<1>4. (Dirty(s) => Dirty(s)') /\ (Leaving(s) => Leaving(s)')
  BY <1>1, <1>3 DEF Debts, Leaving
<1>5. CASE s # worker[w].scope
  <2>1. worker'[w].scope = worker[w].scope
    BY <1>2 DEF WorkerFetch, Goroutine
  <2>2. SameSync(s)
    BY <1>1, <1>5, <2>1 DEF SameSync, SyncShape
  <2> QED
    BY <1>1, <1>3, <2>2, Kept DEF Keeps
<1>6. CASE s = worker[w].scope
  <2>1. worker' = [worker EXCEPT ![w].pc = "store", ![w].items = Details(s, {})]
    BY <1>6 DEF WorkerFetch, Excuse
  <2>2. Details(s, {}) = agent[s].items /\ agent[s] \in Content
    BY <1>1, <1>2, <1>6, AnswersTyped DEF TypeOK
  <2>3. worker'[w].items = agent[s].items
    BY <1>2, <2>1, <2>2 DEF Goroutine
  <2>4. agent[s] = [state |-> agent[s].state, items |-> agent[s].items]
    BY <2>2, Contents
  <2>5. Dirty(s) \/ sync.listed[s] = agent[s].state
    BY <1>1, <1>6 DEF Agreeing, SyncRight
  <2>6. CASE Dirty(s)
    BY <1>4, <2>6, SeenTo
  <2>7. CASE sync.listed[s] = agent[s].state
    <3>1. ASSUME NEW x \in Workers, worker'[x].pc = "store", worker'[x].scope = s
          PROVE  \/ Dirty(s)' \/ Leaving(s)'
                 \/ agent'[s] = [state |-> sync'.listed[s], items |-> worker'[x].items]
      <4>1. CASE x = w
        BY <1>1, <2>3, <2>4, <2>7, <4>1
      <4>2. CASE x # w
        <5>1. worker'[x] = worker[x]
          BY <1>1, <4>2
        <5>2. \/ Dirty(s) \/ Leaving(s)
              \/ agent[s] = [state |-> sync.listed[s], items |-> worker[x].items]
          BY <3>1, <5>1 DEF Agreeing, SyncRight
        <5> QED
          BY <1>1, <1>4, <5>1, <5>2
      <4> QED
        BY <4>1, <4>2
    <3>2. SyncRight(s)'
      BY <1>1, <2>7, <3>1 DEF SyncRight
    <3> QED
      BY <1>1, <1>3, <3>2, RefreshStays, DeletionStays, SnapStays DEF Agreeing
  <2> QED
    BY <2>5, <2>6, <2>7
<1> QED
  BY <1>5, <1>6

\* It stores what it has read.
LEMMA StoreAgrees ==
    ASSUME Typed, SyncShape, NEW w \in Workers, NEW s \in Scopes, Agreeing(s), WorkerStore(w)
    PROVE  Agreeing(s)'
<1>1. /\ agent' = agent /\ owed' = owed /\ fire' = fire /\ queued' = queued /\ ref' = ref
      /\ Waits /\ sync' = sync /\ SyncShape' /\ \A x \in Workers \ {w} : worker'[x] = worker[x]
      /\ worker'[w].pc = "idle" /\ worker[w].pc = "store"
  BY WorkerStoreTyped DEF WorkerStore, tasks
<1>2. SameSync(s)
  BY <1>1 DEF SameSync, SyncShape
<1>3. Debts(s)
  BY <1>1, WaitDebts
<1>4. CASE s # worker[w].scope
  <2>1. snap'[s] = snap[s]
    BY <1>4, WorkerStoreTyped
  <2> QED
    BY <1>1, <1>2, <1>3, <2>1, Kept DEF Keeps
<1>5. CASE s = worker[w].scope
  <2>1. snap'[s] = [state |-> sync.listed[s], items |-> worker[w].items]
    BY <1>5, WorkerStoreTyped
  <2>2. Dirty(s) \/ Leaving(s) \/ snap'[s] = agent[s]
    BY <1>1, <1>5, <2>1 DEF Agreeing, SyncRight
  <2>3. CASE Dirty(s) \/ Leaving(s)
    BY <1>1, <1>3, <2>3, SeenTo DEF Debts, Leaving
  <2>4. CASE snap'[s] = agent[s]
    <3>1. RefreshRight(s)'
      <4>1. (Comes(s) => Comes(s)') /\ (Leaving(s) => Leaving(s)')
        BY <1>1, <1>3 DEF Debts, Leaving
      <4> QED
        BY <1>1, <2>4, <4>1 DEF Agreeing, RefreshRight
    <3>2. SnapRight(s)'
      BY <1>1, <2>4 DEF SnapRight
    <3> QED
      BY <1>1, <1>2, <1>3, <3>1, <3>2, SyncStays, DeletionStays DEF Agreeing
  <2> QED
    BY <2>2, <2>3, <2>4
<1> QED
  BY <1>4, <1>5

\* What was excused stays so.
LEMMA ExcusedGrows == Typed /\ SyncShape /\ [Next]_vars => excused \subseteq excused'
<1> SUFFICES ASSUME [Next]_vars PROVE excused \subseteq excused'
  OBVIOUS
<1>1. ASSUME NEW o \in Ops, NEW k \in Kinds, NEW s \in Scopes, NEW i \in Items, NEW v \in Attributes,
             OpStart(o, k, s, i, v)
      PROVE  excused \subseteq excused'
  BY <1>1 DEF OpStart, history
<1>2. ASSUME NEW o \in Ops, OpStep(o) PROVE excused \subseteq excused'
  BY <1>2 DEF OpStep, OpCheck, OpBegin, OpCall, OpCallFails, OpSave, OpSaveFails, OpLeaseFails, OpMark,
     Excuse, history
<1>3. ASSUME NEW s \in Scopes, RequestRefresh(s) \/ RefreshStep(s) PROVE excused \subseteq excused'
  BY <1>3 DEF RefreshStep, RequestRefresh, Fire, Enqueue, RefreshStart, RefreshScope, RefreshMissing,
     RefreshDetails, RefreshStore, RefreshFails, RefreshLost, Excuse, history
<1>4. ASSUME NEW s \in Scopes, NEW i \in Items, OthersChange(s, i) PROVE excused \subseteq excused'
  BY <1>4 DEF OthersChange, Excuse
<1>5. CASE SyncStart \/ SyncExpire \/ SyncStep
  BY <1>5 DEF SyncStep, SyncStart, SyncExpire, SyncList, SyncReplace, SyncFails, SyncBreak, SyncJoin, SyncEnd,
     SyncOffer, history
<1>6. ASSUME NEW w \in Workers, WorkerStep(w) PROVE excused \subseteq excused'
  BY <1>6 DEF WorkerStep, WorkerTake, WorkerCheck, WorkerFetch, WorkerStore, WorkerFails, Excuse, history
<1>7. CASE UNCHANGED vars
  BY <1>7 DEF vars, history
<1> QED
  BY <1>1, <1>2, <1>3, <1>4, <1>5, <1>6, <1>7 DEF Next

\* A change by somebody else excuses its scope and is about no other.
LEMMA OthersAgree ==
    ASSUME Typed, SyncShape, NEW s \in Scopes, NEW i \in Items, NEW t \in Scopes, Agreeing(t),
           OthersChange(s, i), t \notin excused'
    PROVE  Agreeing(t)'
<1>1. t # s
  BY DEF OthersChange, Excuse
<1>2. agent'[t] = agent[t] /\ Waits
  BY <1>1, OthersTyped
<1>3. /\ snap' = snap /\ owed' = owed /\ fire' = fire /\ queued' = queued /\ ref' = ref
      /\ sync' = sync /\ worker' = worker
  BY DEF OthersChange, tasks, pool
<1> QED
  BY <1>2, <1>3, WaitDebts, Unmoved, Kept DEF Keeps

\* Every step keeps a scope right that is not excused.
LEMMA AgreeStep ==
    ASSUME Typed, SyncShape, [Next]_vars, NEW s \in Scopes, Agreeing(s), s \notin excused'
    PROVE  Agreeing(s)'
<1>1. ASSUME NEW o \in Ops, NEW k \in Kinds, NEW t \in Scopes, NEW i \in Items, NEW v \in Attributes,
             OpStart(o, k, t, i, v)
      PROVE  Agreeing(s)'
  BY <1>1, StartAgrees
<1>2. ASSUME NEW o \in Ops, OpStep(o) PROVE Agreeing(s)'
  <2>1. CASE OpCheck(o) \/ OpBegin(o)
    BY <2>1, StartAgrees
  <2>2. CASE OpCall(o)
    BY <2>2, CallAgrees
  <2>3. CASE OpCallFails(o)
    BY <2>3, CallFailsAgrees
  <2>4. CASE OpSave(o)
    BY <2>4, SaveAgrees
  <2>5. CASE OpSaveFails(o) \/ OpLeaseFails(o)
    BY <2>5, SaveFailsAgrees
  <2>6. CASE OpMark(o)
    BY <2>6, MarkAgrees
  <2> QED
    BY <1>2, <2>1, <2>2, <2>3, <2>4, <2>5, <2>6 DEF OpStep
<1>3. ASSUME NEW t \in Scopes, RequestRefresh(t) \/ RefreshStep(t) PROVE Agreeing(s)'
  <2>1. CASE s # t
    BY <1>3, <2>1, RefreshOthers
  <2>2. CASE s = t
    <3>1. CASE Fire(s)
      BY <3>1, FireAgrees
    <3>2. CASE RequestRefresh(s) \/ Enqueue(s) \/ RefreshStart(s)
      BY <3>2, QueueAgrees
    <3>3. CASE \/ RefreshScope(s) \/ RefreshMissing(s) \/ RefreshDetails(s)
               \/ RefreshFails(s) \/ RefreshStore(s)
      BY <3>3, RefreshAgrees
    <3> QED
      BY <1>3, <2>2, <3>1, <3>2, <3>3 DEF RefreshStep
  <2> QED
    BY <2>1, <2>2
<1>4. ASSUME NEW t \in Scopes, NEW i \in Items, OthersChange(t, i) PROVE Agreeing(s)'
  BY <1>4, OthersAgree
<1>5. CASE SyncStart \/ SyncExpire \/ SyncStep
  BY <1>5, PoolAgrees, ListAgrees, ReplaceAgrees DEF SyncStep
<1>6. ASSUME NEW w \in Workers, WorkerStep(w) PROVE Agreeing(s)'
  BY <1>6, WorkerAgrees, FetchAgrees, StoreAgrees DEF WorkerStep
<1>7. CASE UNCHANGED vars
  <2>1. /\ agent' = agent /\ snap' = snap /\ op' = op /\ owed' = owed /\ fire' = fire
        /\ queued' = queued /\ ref' = ref /\ sync' = sync /\ worker' = worker
    BY <1>7 DEF vars, data, tasks, pool
  <2>2. Waits
    BY <2>1 DEF Waits
  <2> QED
    BY <2>1, <2>2, WaitDebts, Unmoved, Kept DEF Keeps
<1> QED
  BY <1>1, <1>2, <1>3, <1>4, <1>5, <1>6, <1>7 DEF Next

\* At the start a scope is excused or the same on both sides.
LEMMA AgreeInit == Init => \A s \in Scopes \ excused : Agreeing(s)
<1> SUFFICES ASSUME Init, NEW s \in Scopes, s \notin excused PROVE Agreeing(s)
  OBVIOUS
<1>1. snap[s] = agent[s] /\ ref[s].pc = "idle" /\ sync.pc = "idle" /\ \A w \in Workers : worker[w].pc = "idle"
  BY DEF Init, NoRefresh, NoSync, NoWorker
<1>2. \A o \in Ops : op[o].pc = "idle"
  BY DEF Init
<1>3. ~Deleting(s)
  BY <1>2 DEF Deleting, Deletes
<1> QED
  BY <1>1, <1>3 DEF Agreeing, RefreshRight, SyncRight, DeletionRight, SnapRight

\* Of a scope that is settled nothing is left to be done, so its snapshot is right.
LEMMA SettledAgree == Typed /\ (\A s \in Scopes \ excused : Agreeing(s)) => AgreesUnlessExcused
<1> SUFFICES ASSUME Typed, NEW s \in Scopes, Agreeing(s), Settled(s) PROVE snap[s] = agent[s]
  BY DEF AgreesUnlessExcused
<1>1. ~owed[s] /\ fire[s] = "idle" /\ queued[s] = 0 /\ ref[s].pc = "idle"
  BY DEF Settled
<1>2. \A p \in Ops : ~Marks(op[p], s) /\ ~Deletes(op[p], s)
  BY DEF Settled, InProgress, Marks, Deletes
<1>3. ~Comes(s) /\ ~Leaving(s)
  BY <1>1, <1>2 DEF Comes, Dirty, Leaving, Deleting
<1>4. ~(queued[s] > 0)
  BY <1>1
<1> QED
  BY <1>1, <1>3, <1>4 DEF Agreeing, SnapRight

-----------------------------------------------------------------------------
(***************************************************************************)
(* A synchronisation that returns nil.                                     *)
(***************************************************************************)
\* Before the list there is nothing to be exact about.
LEMMA NothingYet == SyncShape' /\ sync'.pc \in {"idle", "list"} => \A s \in Scopes : Exact(s)'
BY DEF SyncShape, Exact

\* Steps that are not about the scope or its synchronisation.
LEMMA ExactStays ==
    ASSUME NEW s \in Scopes, Exact(s), sync' = sync, worker' = worker, agent'[s] = agent[s], snap'[s] = snap[s]
    PROVE  Exact(s)'
<1>1. Busy(s)' <=> Busy(s)
  BY DEF Busy
<1> QED
  BY <1>1 DEF Exact

\* Others than the synchronisation touch what they change while it runs.
LEMMA ExactTouched ==
    ASSUME SyncShape', NEW s \in Scopes, NEW t \in Scopes, s \notin touched => Exact(s), s \notin touched',
           sync' = sync, worker' = worker,
           \/ touched' = touched /\ agent' = agent /\ snap' = snap
           \/ /\ Touch(t)
              /\ \A x \in Scopes \ {t} : agent'[x] = agent[x] /\ snap'[x] = snap[x]
    PROVE  Exact(s)'
<1>1. CASE sync.pc = "idle"
  BY <1>1, NothingYet
<1>2. CASE sync.pc # "idle"
  <2>1. s \notin touched
    BY DEF Touch
  <2>2. agent'[s] = agent[s] /\ snap'[s] = snap[s]
    BY <1>2 DEF Touch, Syncing
  <2> QED
    BY <2>1, <2>2, ExactStays
<1> QED
  BY <1>1, <1>2

\* The steps of a handler.
LEMMA HandlerExact ==
    ASSUME Typed, SyncShape, SyncShape', NEW o \in Ops, NEW s \in Scopes, s \notin touched => Exact(s),
           s \notin touched',
           \/ \E k \in Kinds, t \in Scopes, i \in Items, v \in Attributes : OpStart(o, k, t, i, v)
           \/ OpStep(o)
    PROVE  Exact(s)'
<1> PICK t \in Scopes : t = op[o].scope
  BY DEF Typed, TypeOK, Handler
<1>1. sync' = sync /\ worker' = worker
  BY DEF OpStep, OpStart, OpCheck, OpBegin, OpCall, OpCallFails, OpSave, OpSaveFails, OpLeaseFails, OpMark, pool
<1>2. agent \in [Scopes -> Stored] /\ snap \in [Scopes -> Stored]
  BY DEF Typed, TypeOK, Stored
<1>3. \/ touched' = touched /\ agent' = agent /\ snap' = snap
      \/ /\ Touch(t)
         /\ \A x \in Scopes \ {t} : agent'[x] = agent[x] /\ snap'[x] = snap[x]
  <2>1. CASE \/ \E k \in Kinds, x \in Scopes, i \in Items, v \in Attributes : OpStart(o, k, x, i, v)
             \/ OpCheck(o) \/ OpBegin(o) \/ OpSaveFails(o) \/ OpMark(o)
    BY <2>1 DEF OpStart, OpCheck, OpBegin, OpSaveFails, OpMark, data, history
  <2>2. CASE OpCall(o) \/ OpCallFails(o)
    BY <1>2, <2>2 DEF OpCall, OpCallFails, history
  <2>3. CASE OpSave(o)
    BY <2>3, SaveTyped DEF OpSave
  <2>4. CASE OpLeaseFails(o)
    BY <2>4, LeaseFailsTyped DEF OpLeaseFails
  <2> QED
    BY <2>1, <2>2, <2>3, <2>4 DEF OpStep
<1> QED
  BY <1>1, <1>3, ExactTouched

\* The steps of a refresh, and the changes of others.
LEMMA RefreshExact ==
    ASSUME Typed, SyncShape, SyncShape', NEW t \in Scopes, NEW s \in Scopes, s \notin touched => Exact(s),
           s \notin touched',
           RequestRefresh(t) \/ RefreshStep(t) \/ \E i \in Items : OthersChange(t, i)
    PROVE  Exact(s)'
<1>1. sync' = sync /\ worker' = worker
  BY DEF RefreshStep, RequestRefresh, Fire, Enqueue, RefreshStart, RefreshScope, RefreshMissing, RefreshDetails,
     RefreshStore, RefreshFails, OthersChange, pool
<1>2. \/ touched' = touched /\ agent' = agent /\ snap' = snap
      \/ /\ Touch(t)
         /\ \A x \in Scopes \ {t} : agent'[x] = agent[x] /\ snap'[x] = snap[x]
  <2>1. CASE RefreshStore(t)
    BY <2>1, RefreshStoreTyped DEF RefreshStore
  <2>2. ASSUME NEW i \in Items, OthersChange(t, i)
        PROVE  Touch(t) /\ \A x \in Scopes \ {t} : agent'[x] = agent[x] /\ snap'[x] = snap[x]
    BY <2>2, OthersTyped DEF OthersChange
  <2>3. CASE \/ RequestRefresh(t) \/ Fire(t) \/ Enqueue(t) \/ RefreshStart(t) \/ RefreshScope(t)
             \/ RefreshMissing(t) \/ RefreshDetails(t) \/ RefreshFails(t)
    BY <2>3 DEF RequestRefresh, Fire, Enqueue, RefreshStart, RefreshScope, RefreshMissing, RefreshDetails,
       RefreshFails, data, history
  <2> QED
    BY <2>1, <2>2, <2>3 DEF RefreshStep
<1> QED
  BY <1>1, <1>2, ExactTouched

\* The list: what it says of a scope that no script skipped.
LEMMA ListExact ==
    ASSUME Typed, SyncShape, NEW s \in Scopes, SyncList, s \notin touched'
    PROVE  Exact(s)'
<1>1. agent' = agent /\ worker' = worker /\ sync.pc = "list" /\ sync \in Synchronisation
  BY DEF SyncList, data, Typed, TypeOK
<1>2. PICK skipped \in SUBSET Scopes :
         /\ sync' = [sync EXCEPT !.pc = "replace", !.listed = Listed(skipped)]
         /\ s \notin skipped
  <2> PICK none \in SUBSET Scopes : none = {}
    OBVIOUS
  <2>1. s \notin none
    OBVIOUS
  <2>2. ASSUME NEW missing \in SUBSET Scopes, touched' = touched \cup missing,
               sync' = [sync EXCEPT !.pc = "replace", !.listed = Listed(missing)]
        PROVE  sync' = [sync EXCEPT !.pc = "replace", !.listed = Listed(missing)] /\ s \notin missing
    BY <2>2
  <2> QED
    BY <2>1, <2>2 DEF SyncList
<1>3. sync'.pc = "replace" /\ sync'.listed = Listed(skipped)
  BY <1>1, <1>2 DEF Synchronisation
<1>4. sync'.listed[s] = StateOf(agent'[s])
  BY <1>1, <1>2, <1>3 DEF Listed, StateOf
<1>5. \A w \in Workers : worker'[w].pc # "store"
  BY <1>1 DEF SyncShape
<1> QED
  BY <1>3, <1>4, <1>5 DEF Exact

\* The statement that replaces the list: scopes that are there have yet to be read.
LEMMA ReplaceExact ==
    ASSUME Typed, SyncShape, NEW s \in Scopes, SyncReplace, Exact(s)
    PROVE  Exact(s)'
<1>1. /\ agent' = agent /\ worker' = worker /\ sync.pc = "replace" /\ sync'.pc = "pool"
      /\ sync'.listed = sync.listed /\ snap'[s] = Replaced(snap[s], sync.listed[s])
      /\ (s \in sync'.todo <=> sync.listed[s] # None)
  BY ReplaceTyped DEF SyncReplace
<1>2. sync.listed[s] = StateOf(agent[s])
  BY <1>1 DEF Exact
<1>3. agent[s] # None => agent[s].state # None
  BY Contents DEF Typed, TypeOK
<1>4. agent[s] = None => snap'[s] = None
  BY <1>1, <1>2 DEF StateOf, Replaced
<1>5. agent[s] # None => Busy(s)'
  BY <1>1, <1>2, <1>3 DEF StateOf, Busy
<1>6. \A w \in Workers : worker'[w].pc # "store"
  BY <1>1 DEF SyncShape
<1> QED
  BY <1>1, <1>2, <1>4, <1>5, <1>6 DEF Exact

\* The loop that hands out scopes, the timeout, and a list that fails.
LEMMA PoolExact ==
    ASSUME Typed, SyncShape, NEW s \in Scopes, Exact(s),
           SyncExpire \/ SyncFails \/ SyncBreak \/ \E t \in Scopes : SyncOffer(t)
    PROVE  Exact(s)'
<1>1. agent' = agent /\ snap' = snap /\ worker' = worker /\ sync \in Synchronisation
  BY DEF SyncExpire, SyncFails, SyncBreak, SyncOffer, data, Typed, TypeOK
<1>2. CASE SyncExpire
  <2>1. /\ sync'.pc = sync.pc /\ sync'.listed = sync.listed /\ sync'.todo = sync.todo
        /\ sync'.offer = sync.offer /\ sync'.cancelled = sync.cancelled /\ sync'.failed = sync.failed
        /\ sync'.result = sync.result
    BY <1>1, <1>2 DEF SyncExpire, Synchronisation
  <2>2. Busy(s)' <=> Busy(s)
    BY <1>1, <2>1 DEF Busy
  <2> QED
    BY <1>1, <2>1, <2>2 DEF Exact
<1>3. CASE SyncFails
  <2>1. sync'.pc = "end" /\ sync'.result = "error" /\ sync.pc # "pool"
    BY <1>1, <1>3 DEF SyncFails, Synchronisation
  <2>2. \A w \in Workers : worker'[w].pc # "store"
    BY <1>1, <2>1 DEF SyncShape
  <2> QED
    BY <2>1, <2>2 DEF Exact
<1>4. CASE SyncBreak
  <2>1. sync'.pc = sync.pc /\ sync'.listed = sync.listed /\ sync'.cancelled /\ sync.pc = "pool"
    BY <1>1, <1>4 DEF SyncBreak, Synchronisation
  <2> QED
    BY <1>1, <2>1 DEF Exact
<1>5. ASSUME NEW t \in Scopes, SyncOffer(t) PROVE Exact(s)'
  <2>1. /\ sync'.pc = sync.pc /\ sync'.listed = sync.listed /\ sync'.todo = sync.todo \ {t}
        /\ sync'.offer = t /\ sync'.cancelled = sync.cancelled /\ sync'.failed = sync.failed
        /\ sync.pc = "pool" /\ sync.offer = None
    BY <1>1, <1>5 DEF SyncOffer, Synchronisation
  <2>2. s # None
    BY Contents
  <2>3. Busy(s) => Busy(s)'
    BY <1>1, <2>1, <2>2 DEF Busy
  <2> QED
    BY <1>1, <2>1, <2>3 DEF Exact
<1> QED
  BY <1>2, <1>3, <1>4, <1>5

\* The goroutines have returned: nil means that none of them failed or was cancelled.
LEMMA JoinExact ==
    ASSUME Typed, SyncShape, NEW s \in Scopes, Exact(s), SyncJoin
    PROVE  Exact(s)'
<1>1. /\ agent' = agent /\ snap' = snap /\ sync \in Synchronisation /\ sync.pc = "pool"
      /\ sync.offer = None /\ sync.todo = {} /\ sync' = [sync EXCEPT !.pc = "end", !.result = JoinResult]
      /\ \A w \in Workers : worker[w].pc \in {"idle", "gone"} /\ worker'[w] = NoWorker
  BY DEF SyncJoin, data, Typed, TypeOK
<1>2. sync'.pc = "end" /\ sync'.result = JoinResult
  BY <1>1 DEF Synchronisation
<1>3. \A w \in Workers : worker'[w].pc # "store"
  BY <1>1 DEF NoWorker
<1>4. \A w \in Workers : worker[w].scope = None
  BY <1>1 DEF SyncShape
<1>5. ~Busy(s)
  BY <1>1, <1>4, Contents DEF Busy
<1>6. JoinResult = "nil" => ~sync.cancelled /\ ~sync.failed
  BY DEF JoinResult, SyncShape
<1>7. JoinResult = "nil" => snap[s] = agent[s]
  BY <1>1, <1>5, <1>6 DEF Exact
<1> QED
  BY <1>1, <1>2, <1>3, <1>7 DEF Exact

\* A goroutine takes a scope, begins, reads it or fails.
LEMMA WorkerExact ==
    ASSUME Typed, SyncShape, NEW w \in Workers, NEW s \in Scopes, Exact(s), s \notin touched',
           WorkerTake(w) \/ WorkerCheck(w) \/ WorkerFetch(w) \/ WorkerFails(w)
    PROVE  Exact(s)'
<1>1. /\ agent' = agent /\ snap' = snap /\ sync'.pc = sync.pc /\ sync'.listed = sync.listed
      /\ sync'.todo = sync.todo /\ \A x \in Workers \ {w} : worker'[x] = worker[x]
      /\ (sync.cancelled => sync'.cancelled) /\ (sync.failed => sync'.failed)
  BY WorkerTyped DEF WorkerTake, WorkerCheck, WorkerFetch, WorkerFails, data
<1>2. sync.pc = "pool" /\ TypeOK /\ worker[w] \in Goroutine
  BY DEF WorkerTake, WorkerCheck, WorkerFetch, WorkerFails, SyncShape, Typed, TypeOK
<1>3. Busy(s) => Busy(s)' \/ sync'.cancelled \/ sync'.failed
  <2>1. CASE WorkerTake(w)
    <3>1. sync'.offer = None /\ worker'[w].scope = sync.offer /\ worker[w].pc = "idle"
      BY <2>1, WorkerTyped DEF WorkerTake
    <3>2. worker[w].scope # s
      BY <3>1, Contents DEF SyncShape
    <3> QED
      BY <1>1, <3>1, <3>2 DEF Busy
  <2>2. CASE ~WorkerTake(w)
    <3>1. sync'.offer = sync.offer /\ (worker'[w].scope = worker[w].scope \/ sync'.cancelled \/ sync'.failed)
      BY <2>2, WorkerTyped
    <3> QED
      BY <1>1, <3>1 DEF Busy
  <2> QED
    BY <2>1, <2>2
<1>4. worker'[w].pc = "store" /\ worker'[w].scope = s => agent[s] # None /\ worker'[w].items = agent[s].items
  <2>1. CASE WorkerFetch(w)
    <3>1. worker'[w].scope = worker[w].scope
      BY <1>2, <2>1 DEF WorkerFetch, Goroutine, TypeOK
    <3>2. CASE s = worker[w].scope
      <4>1. worker' = [worker EXCEPT ![w].pc = "store", ![w].items = Details(s, {})] /\ agent[s] # None
        BY <2>1, <3>2 DEF WorkerFetch
      <4>2. worker'[w].items = Details(s, {})
        BY <1>2, <4>1 DEF Goroutine, TypeOK
      <4> QED
        BY <1>2, <4>1, <4>2, AnswersTyped
    <3> QED
      BY <3>1, <3>2
  <2>2. CASE WorkerTake(w) \/ WorkerCheck(w) \/ WorkerFails(w)
    BY <1>2, <2>2 DEF WorkerTake, WorkerCheck, WorkerFails, NoWorker, Goroutine, TypeOK
  <2> QED
    BY <2>1, <2>2
<1>5. \A x \in Workers : worker'[x].pc = "store" /\ worker'[x].scope = s =>
         agent'[s] # None /\ worker'[x].items = agent'[s].items
  BY <1>1, <1>4 DEF Exact
<1>6. \/ snap'[s] = agent'[s] \/ sync'.cancelled \/ sync'.failed \/ (agent'[s] # None /\ Busy(s)')
  BY <1>1, <1>2, <1>3 DEF Exact
<1> QED
  BY <1>1, <1>2, <1>5, <1>6 DEF Exact

\* It stores the scope.
LEMMA StoreExact ==
    ASSUME Typed, SyncShape, NEW w \in Workers, NEW s \in Scopes, Exact(s), WorkerStore(w)
    PROVE  Exact(s)'
<1>1. /\ agent' = agent /\ sync' = sync /\ \A x \in Workers \ {w} : worker'[x] = worker[x]
      /\ worker'[w].pc = "idle" /\ worker[w].pc = "store" /\ sync.pc = "pool"
  BY WorkerStoreTyped DEF WorkerStore, SyncShape
<1>2. \A x \in Workers : worker'[x].pc = "store" /\ worker'[x].scope = s =>
         agent'[s] # None /\ worker'[x].items = agent'[s].items
  BY <1>1 DEF Exact
<1>3. CASE s # worker[w].scope
  <2>1. snap'[s] = snap[s]
    BY <1>3, WorkerStoreTyped
  <2>2. Busy(s) => Busy(s)'
    BY <1>1, <1>3 DEF Busy
  <2> QED
    BY <1>1, <1>2, <2>1, <2>2 DEF Exact
<1>4. CASE s = worker[w].scope
  <2>1. snap'[s] = [state |-> sync.listed[s], items |-> worker[w].items]
    BY <1>4, WorkerStoreTyped
  <2>2. agent[s] # None /\ worker[w].items = agent[s].items /\ sync.listed[s] = agent[s].state
    BY <1>1, <1>4 DEF Exact, StateOf
  <2>3. agent[s] = [state |-> agent[s].state, items |-> agent[s].items]
    BY <2>2, Contents DEF Typed, TypeOK
  <2>4. snap'[s] = agent'[s]
    BY <1>1, <2>1, <2>2, <2>3
  <2> QED
    BY <1>1, <1>2, <2>4 DEF Exact
<1> QED
  BY <1>3, <1>4

\* Every step.
LEMMA ExactStep ==
    ASSUME Typed, SyncShape, SyncShape', [Next]_vars, NEW s \in Scopes, s \notin touched => Exact(s),
           s \notin touched'
    PROVE  Exact(s)'
<1>1. ASSUME NEW o \in Ops, NEW k \in Kinds, NEW t \in Scopes, NEW i \in Items, NEW v \in Attributes,
             OpStart(o, k, t, i, v)
      PROVE  Exact(s)'
  BY <1>1, HandlerExact
<1>2. ASSUME NEW o \in Ops, OpStep(o) PROVE Exact(s)'
  BY <1>2, HandlerExact
<1>3. ASSUME NEW t \in Scopes, RequestRefresh(t) \/ RefreshStep(t) PROVE Exact(s)'
  BY <1>3, RefreshExact
<1>4. ASSUME NEW t \in Scopes, NEW i \in Items, OthersChange(t, i) PROVE Exact(s)'
  BY <1>4, RefreshExact
<1>5. CASE SyncStart \/ SyncEnd
  <2>1. sync \in Synchronisation
    BY DEF Typed, TypeOK
  <2>2. sync'.pc \in {"idle", "list"}
    BY <1>5, <2>1 DEF SyncStart, SyncEnd, SyncTo, NoSync, Synchronisation
  <2> QED
    BY <2>2, NothingYet
<1>6. CASE SyncList
  BY <1>6, ListExact
<1>7. CASE SyncReplace \/ SyncExpire \/ SyncFails \/ SyncBreak \/ SyncJoin \/ \E t \in Scopes : SyncOffer(t)
  <2>1. Exact(s)
    BY <1>7 DEF SyncReplace, SyncExpire, SyncFails, SyncBreak, SyncJoin, SyncOffer, history
  <2> QED
    BY <1>7, <2>1, ReplaceExact, PoolExact, JoinExact
<1>8. ASSUME NEW w \in Workers, WorkerStep(w) PROVE Exact(s)'
  <2>1. Exact(s)
    BY <1>8 DEF WorkerStep, WorkerTake, WorkerCheck, WorkerFetch, WorkerStore, WorkerFails, history
  <2> QED
    BY <1>8, <2>1, WorkerExact, StoreExact DEF WorkerStep
<1>9. CASE UNCHANGED vars
  <2>1. /\ agent' = agent /\ snap' = snap /\ sync' = sync /\ worker' = worker /\ touched' = touched
    BY <1>9 DEF vars, data, pool, history
  <2> QED
    BY <2>1, ExactStays
<1> QED
  BY <1>1, <1>2, <1>3, <1>4, <1>5, <1>6, <1>7, <1>8, <1>9 DEF Next, SyncStep

-----------------------------------------------------------------------------
(***************************************************************************)
(* The theorems.                                                           *)
(***************************************************************************)
\* The invariant holds at the start,
LEMMA SnapInitial == Init => SnapInv
<1> SUFFICES ASSUME Init PROVE SnapInv
  OBVIOUS
<1>1. sync.pc = "idle" /\ \A w \in Workers : worker[w].pc = "idle"
  BY DEF Init, NoSync, NoWorker
<1>2. \A s \in Scopes : Exact(s)
  BY <1>1 DEF Exact
<1> QED
  BY <1>2, TypedInit, ShapeInit, AgreeInit DEF SnapInv

\* every step keeps it,
LEMMA SnapStep == SnapInv /\ [Next]_vars => SnapInv'
<1> SUFFICES ASSUME SnapInv, [Next]_vars PROVE SnapInv'
  OBVIOUS
<1>1. Typed /\ SyncShape /\ Typed' /\ SyncShape' /\ excused \subseteq excused'
  BY TypedStep, ExcusedGrows DEF SnapInv
<1>2. ASSUME NEW s \in Scopes \ excused' PROVE Agreeing(s)'
  <2>1. s \in Scopes /\ s \notin excused' /\ Agreeing(s)
    BY <1>1, <1>2 DEF SnapInv
  <2> QED
    BY <1>1, <2>1, AgreeStep
<1>3. ASSUME NEW s \in Scopes \ touched' PROVE Exact(s)'
  <2>1. s \in Scopes /\ s \notin touched' /\ (s \notin touched => Exact(s))
    BY <1>3 DEF SnapInv
  <2> QED
    BY <1>1, <2>1, ExactStep
<1> QED
  BY <1>1, <1>2, <1>3 DEF SnapInv

\* and so it always holds.
LEMMA SnapAlways == Spec => []SnapInv
BY SnapInitial, SnapStep, PTL DEF Spec

\* The types of handlers, tasks, the synchronisation and its goroutines, and of what the
\* Agent and the snapshot hold.
THEOREM DHCPTypeCorrect == Spec => []TypeOK
<1>1. SnapInv => TypeOK
  BY DEF SnapInv, Typed
<1> QED
  BY <1>1, SnapAlways, PTL

\* When nothing is in progress or owed for a scope and nothing listed as an excuse happened to
\* it, the snapshot holds what the Agent holds: whatever handlers, refreshes and a
\* synchronisation did to it in between, and in which order.
THEOREM SnapshotAgrees == Spec => []AgreesUnlessExcused
<1>1. SnapInv => AgreesUnlessExcused
  BY SettledAgree DEF SnapInv
<1> QED
  BY <1>1, SnapAlways, PTL

\* A synchronisation that returns nil has stored every scope as the Agent holds it, but for
\* those that others touched meanwhile or a script skipped.
THEOREM NilIsExact == Spec => []NilMeansExact
<1>1. SnapInv => NilMeansExact
  BY DEF SnapInv, NilMeansExact, Exact
<1> QED
  BY <1>1, SnapAlways, PTL

=============================================================================
