------------------------- MODULE DNSSnapshot_proofs -------------------------
(***************************************************************************)
(* Proofs about DNSSnapshot, for every set of hosts, addresses, aliases    *)
(* and operations, every number of slots, and every scenario.              *)
(***************************************************************************)
EXTENDS DNSSnapshot, TLAPS

-----------------------------------------------------------------------------
(***************************************************************************)
(* The types of the variables.                                             *)
(***************************************************************************)
HandlerSteps == {"idle", "done", "read", "call", "add", "unptr", "ptr", "alone", "save", "savePTR",
                 "first", "replace", "mark"}
Handler == [pc : HandlerSteps, kind : AllKinds \cup {None}, zone : Zones \cup {None},
            rec : Records \cup {None}, new : Records \cup {None}, old : BOOLEAN, want : BOOLEAN,
            unptr : BOOLEAN, ptr : BOOLEAN, rel : BOOLEAN, warn : BOOLEAN, tell : SUBSET Zones,
            seen : SUBSET Records]
JobSteps == {"idle", "fetch", "reverse", "storeR", "store"}
Job == [pc : JobSteps, recs : SUBSET Records, rev : SUBSET PTRs, ptrs : SUBSET PTRs]
Synchronisation == [pc : {"idle", "list", "replace", "pool", "end"}, listed : SUBSET Zones,
                    todo : SUBSET Zones, failed : BOOLEAN, blind : BOOLEAN]
Scene == [start : SUBSET Content, recs : SUBSET Records, kinds : SUBSET AllKinds, ops : SUBSET Ops,
          manual : BOOLEAN, syncs : BOOLEAN, faults : Nat]

\* What a zone may hold.
Stored(z) == IF z = "F" THEN (SUBSET Records) \cup {None} ELSE (SUBSET PTRs) \cup {None}

\* Contents, zone by zone.
LEMMA Contents ==
    ASSUME NEW c \in Content, NEW z \in Zones
    PROVE  /\ c[z] \in Stored(z) /\ Rows(z, c) \subseteq Records
           /\ c[z] # None => c[z] \in SUBSET Records /\ Rows(z, c) = c[z]
           /\ Rows("R", c) \subseteq PTRs
<1>1. PTRs \subseteq Records
  BY DEF PTRs, Records
<1>2. c["F"] \in (SUBSET Records) \cup {None} /\ c["R"] \in (SUBSET PTRs) \cup {None}
  BY DEF Content
<1>3. c["F"] # None => c["F"] \in SUBSET Records
  BY <1>2
<1>4. c["R"] # None => c["R"] \in SUBSET PTRs
  BY <1>2
<1>5. Rows("R", c) \subseteq PTRs /\ Rows("F", c) \subseteq Records
  BY <1>3, <1>4 DEF Rows
<1>6. CASE z = "F"
  BY <1>2, <1>3, <1>5, <1>6 DEF Stored, Rows
<1>7. CASE z = "R"
  BY <1>1, <1>2, <1>4, <1>5, <1>7 DEF Stored, Rows
<1> QED
  BY <1>6, <1>7 DEF Zones

\* A change of one zone.
LEMMA ContentSet ==
    ASSUME NEW c \in Content, NEW z \in Zones, NEW v \in Stored(z)
    PROVE  /\ [c EXCEPT ![z] = v] \in Content /\ [c EXCEPT ![z] = v][z] = v
           /\ \A y \in Zones \ {z} : [c EXCEPT ![z] = v][y] = c[y]
<1>1. CASE z = "F"
  <2>1. v \in (SUBSET Records) \cup {None}
    BY <1>1 DEF Stored
  <2>2. [c EXCEPT !["F"] = v] \in Content
    BY <2>1 DEF Content
  <2>3. [c EXCEPT !["F"] = v]["F"] = v /\ [c EXCEPT !["F"] = v]["R"] = c["R"]
    BY DEF Content
  <2> QED
    BY <1>1, <2>2, <2>3 DEF Zones
<1>2. CASE z = "R"
  <2>1. v \in (SUBSET PTRs) \cup {None}
    BY <1>2 DEF Stored
  <2>2. [c EXCEPT !["R"] = v] \in Content
    BY <2>1 DEF Content
  <2>3. [c EXCEPT !["R"] = v]["R"] = v /\ [c EXCEPT !["R"] = v]["F"] = c["F"]
    BY DEF Content
  <2> QED
    BY <1>2, <2>2, <2>3 DEF Zones
<1> QED
  BY <1>1, <1>2 DEF Zones

-----------------------------------------------------------------------------
(***************************************************************************)
(* What a handler knows of its request.                                    *)
(***************************************************************************)
Active(h) == h.pc \notin {"idle", "done"}

\* A handler of a record: the zone it works on and will mark, and the PTR records
\* it has to do with.
RecordOp(h) ==
    Active(h) /\ h.kind \in RecordKinds =>
       /\ h.zone = ZoneOf(h.kind) /\ h.rec \in Records /\ h.new \in Records
       /\ h.pc \notin {"first", "replace"}
       /\ h.zone \in h.tell /\ (h.pc # "mark" => h.tell = {h.zone})
       /\ h.zone = "R" => h.new \in PTRs /\ ~h.ptr /\ ~h.unptr
       /\ h.want => h.zone = "F" /\ h.new \in PTRs
       /\ h.ptr => h.want
       /\ h.kind = "create" => ~h.unptr /\ h.rec = h.new
       /\ h.kind = "delete" => ~h.ptr /\ h.unptr = (h.rel \/ h.old)
       /\ h.kind = "update" => h.unptr = h.old
       /\ h.warn => h.pc \in {"save", "savePTR", "mark"}

\* The steps only some of them reach.
StepOp(h) ==
    Active(h) /\ h.kind \in RecordKinds =>
       /\ h.pc = "add" => h.kind \in {"update", "updatePTR"}
       /\ h.pc = "unptr" => h.unptr
       /\ h.pc = "ptr" => h.ptr
       /\ h.pc = "alone" => h.kind = "update" /\ h.rec = h.new /\ h.old # h.want
       /\ h.kind = "update" /\ h.pc \in {"call", "add", "unptr", "ptr"} => h.rec # h.new

\* A handler of a zone.
ZoneOp(h) ==
    Active(h) /\ h.kind \in ZoneKinds =>
       /\ h.zone \in Zones /\ ~h.unptr /\ ~h.ptr /\ ~h.warn
       /\ h.pc \in {"call", "save"} \cup (IF h.kind = "createZone" THEN {"first", "replace", "mark"} ELSE {})
       /\ h.pc = "mark" => h.tell = {h.zone}
       /\ h.seen \in Stored(h.zone)

Shaped(h) == RecordOp(h) /\ StepOp(h) /\ ZoneOp(h) /\ (Active(h) => h.kind \in AllKinds)
Handlers == op \in [Ops -> Handler] /\ \A o \in Ops : Shaped(op[o])

\* Handler o becomes h, the others stay.
Becomes(o, h) == op' = [op EXCEPT ![o] = h] /\ h \in Handler /\ Shaped(h)

\* A handler at another step, with other findings.
With(h, pc, old, unptr, ptr, rel, warn, tell, seen) ==
    [pc |-> pc, kind |-> h.kind, zone |-> h.zone, rec |-> h.rec, new |-> h.new, old |-> old,
     want |-> h.want, unptr |-> unptr, ptr |-> ptr, rel |-> rel, warn |-> warn, tell |-> tell,
     seen |-> seen]
At(h, pc) == With(h, pc, h.old, h.unptr, h.ptr, h.rel, h.warn, h.tell, h.seen)
Warned(h, pc, warn) == With(h, pc, h.old, h.unptr, h.ptr, h.rel, warn, h.tell, h.seen)
Told(h, pc, tell) == With(h, pc, h.old, h.unptr, h.ptr, h.rel, h.warn, tell, h.seen)
Shown(h, pc, seen) == With(h, pc, h.old, h.unptr, h.ptr, h.rel, h.warn, h.tell, seen)
Ended == [NoOp EXCEPT !.pc = "done"]
Request(pc, kind, zone, rec, new, want, tell, no, none) ==
    [pc |-> pc, kind |-> kind, zone |-> zone, rec |-> rec, new |-> new, old |-> no, want |-> want,
     unptr |-> no, ptr |-> no, rel |-> no, warn |-> no, tell |-> tell, seen |-> none]

\* With as the updates that actions write.
LEMMA WithPc ==
    ASSUME NEW h \in Handler, NEW pc
    PROVE  [h EXCEPT !.pc = pc] = At(h, pc)
BY DEF Handler, With, At

\* It is a handler.
LEMMA WithTyped ==
    ASSUME NEW h \in Handler, NEW pc \in HandlerSteps, NEW old \in BOOLEAN, NEW unptr \in BOOLEAN,
           NEW ptr \in BOOLEAN, NEW rel \in BOOLEAN, NEW warn \in BOOLEAN, NEW tell \in SUBSET Zones,
           NEW seen \in SUBSET Records
    PROVE  With(h, pc, old, unptr, ptr, rel, warn, tell, seen) \in Handler
BY DEF Handler, With

\* A handler at rest, and one that is done.
LEMMA EndedShape ==
    NoOp \in Handler /\ Ended \in Handler /\ Shaped(Ended) /\ Ended.pc = "done" /\ ~Active(Ended)
<1>1. NoOp \in Handler
  BY DEF NoOp, Handler, HandlerSteps
<1>2. Ended = At(NoOp, "done")
  BY <1>1, WithPc DEF Ended
<1>3. Ended \in Handler /\ Ended.pc = "done"
  BY <1>1, <1>2 DEF At, With, Handler, HandlerSteps
<1> QED
  BY <1>1, <1>3 DEF Shaped, RecordOp, StepOp, ZoneOp, Active

\* The handlers after a step of one.
LEMMA OthersStay ==
    ASSUME Handlers, NEW o \in Ops, NEW h, Becomes(o, h)
    PROVE  Handlers' /\ op'[o] = h /\ \A p \in Ops \ {o} : op'[p] = op[p]
BY DEF Handlers, Becomes

-----------------------------------------------------------------------------
(***************************************************************************)
(* What each step makes of its handler.                                    *)
(***************************************************************************)
\* A handler that goes to another step.
LEMMA MovesTo ==
    ASSUME Handlers, NEW o \in Ops, NEW pc \in HandlerSteps, OpTo(o, pc), Shaped(At(op[o], pc))
    PROVE  Becomes(o, At(op[o], pc))
<1>1. op \in [Ops -> Handler] /\ op[o] \in Handler
  BY DEF Handlers
<1>2. op' = [op EXCEPT ![o] = [op[o] EXCEPT !.pc = pc]]
  BY <1>1 DEF OpTo
<1>3. At(op[o], pc) \in Handler
  BY <1>1 DEF At, With, Handler
<1> QED
  BY <1>1, <1>2, <1>3, WithPc DEF Becomes

\* A handler that is done.
LEMMA MovesDone ==
    ASSUME Handlers, NEW o \in Ops, OpDone(o)
    PROVE  Becomes(o, Ended)
BY EndedShape DEF Handlers, OpDone, Becomes, Ended

\* StartRecord and StartZone: a new request.
LEMMA StartMoves ==
    ASSUME Handlers, NEW o \in Ops, NEW h \in Handler, Shaped(h), Start(o, h)
    PROVE  Becomes(o, h)
BY DEF Start, Becomes

\* StartRecord.
LEMMA StartRecordMoves ==
    ASSUME Handlers, scenario \in Scene, NEW o \in Ops, NEW k \in RecordKinds, NEW x \in scenario.recs,
           NEW y \in scenario.recs, NEW p \in BOOLEAN, StartRecord(o, k, x, y, p)
    PROVE  \E h : Becomes(o, h) /\ h.pc = "read" /\ h.kind = k
<1> DEFINE h == [NoOp EXCEPT !.pc = "read", !.kind = k, !.zone = ZoneOf(k), !.rec = x, !.new = y,
                             !.want = p, !.tell = {ZoneOf(k)}]
<1> PICK no \in BOOLEAN, none \in SUBSET Records : no = FALSE /\ none = {}
  OBVIOUS
<1>1. h = Request("read", k, ZoneOf(k), x, y, p, {ZoneOf(k)}, no, none)
  <2> DEFINE r1 == [NoOp EXCEPT !.pc = "read"]
             r2 == [r1 EXCEPT !.kind = k]
             r3 == [r2 EXCEPT !.zone = ZoneOf(k)]
             r4 == [r3 EXCEPT !.rec = x]
             r5 == [r4 EXCEPT !.new = y]
             r6 == [r5 EXCEPT !.want = p]
  <2>1. r1 = At(NoOp, "read")
    BY EndedShape, WithPc
  <2> HIDE DEF r1
  <2>2. r1 = Request("read", None, None, None, None, no, none, no, none)
    BY <2>1 DEF At, With, NoOp, Request
  <2>3. r2 = Request("read", k, None, None, None, no, none, no, none)
    BY <2>2 DEF Request
  <2> HIDE DEF r2
  <2>4. r3 = Request("read", k, ZoneOf(k), None, None, no, none, no, none)
    BY <2>3 DEF Request
  <2> HIDE DEF r3
  <2>5. r4 = Request("read", k, ZoneOf(k), x, None, no, none, no, none)
    BY <2>4 DEF Request
  <2> HIDE DEF r4
  <2>6. r5 = Request("read", k, ZoneOf(k), x, y, no, none, no, none)
    BY <2>5 DEF Request
  <2> HIDE DEF r5
  <2>7. r6 = Request("read", k, ZoneOf(k), x, y, p, none, no, none)
    BY <2>6 DEF Request
  <2> HIDE DEF r6
  <2>8. [r6 EXCEPT !.tell = {ZoneOf(k)}] = Request("read", k, ZoneOf(k), x, y, p, {ZoneOf(k)}, no, none)
    BY <2>7 DEF Request
  <2> QED
    BY <2>8 DEF r1, r2, r3, r4, r5, r6
<1>2. Start(o, h)
  BY DEF StartRecord
<1> HIDE DEF h
<1>3. x \in Records /\ y \in Records
  BY DEF Scene
<1>4. k \in AllKinds /\ ZoneOf(k) \in Zones
  BY DEF AllKinds, ZoneOf, Zones
<1>5. h \in Handler
  BY <1>1, <1>3, <1>4 DEF Handler, HandlerSteps, Request
<1>6. /\ p => y \in PTRs /\ ZoneOf(k) = "F"
      /\ ZoneOf(k) = "R" => y \in PTRs
  <2>1. \A v \in Records : IsA(v) <=> v \in PTRs
    BY DEF IsA, Records, PTRs
  <2>2. CASE k \in {"update", "updatePTR"}
    <3>1. x[2] = y[2] /\ x \in PTRs => y \in PTRs
      BY <1>3 DEF Records, PTRs
    <3> QED
      BY <1>3, <2>1, <2>2, <3>1 DEF StartRecord, ZoneOf
  <2>3. CASE k \notin {"update", "updatePTR"}
    BY <1>3, <2>1, <2>3 DEF StartRecord, ZoneOf
  <2> QED
    BY <2>2, <2>3
<1>7. k = "create" => x = y
  BY DEF StartRecord
<1>8. Shaped(h)
  BY <1>1, <1>3, <1>4, <1>6, <1>7 DEF Shaped, RecordOp, StepOp, ZoneOp, Active, RecordKinds, ZoneKinds, Request
<1>9. h.pc = "read" /\ h.kind = k
  BY <1>1 DEF Request
<1> QED
  BY <1>2, <1>5, <1>8, <1>9, StartMoves

\* StartZone.
LEMMA StartZoneMoves ==
    ASSUME Handlers, NEW o \in Ops, NEW k \in ZoneKinds, NEW z \in Zones, StartZone(o, k, z)
    PROVE  \E h : Becomes(o, h) /\ h.pc = "call" /\ h.kind = k
<1> DEFINE h == [NoOp EXCEPT !.pc = "call", !.kind = k, !.zone = z]
<1> PICK no \in BOOLEAN, none \in SUBSET Records : no = FALSE /\ none = {}
  OBVIOUS
<1>1. h = Request("call", k, z, None, None, no, none, no, none)
  <2> DEFINE r1 == [NoOp EXCEPT !.pc = "call"]
             r2 == [r1 EXCEPT !.kind = k]
  <2>1. r1 = At(NoOp, "call")
    BY EndedShape, WithPc
  <2> HIDE DEF r1
  <2>2. r1 = Request("call", None, None, None, None, no, none, no, none)
    BY <2>1 DEF At, With, NoOp, Request
  <2>3. r2 = Request("call", k, None, None, None, no, none, no, none)
    BY <2>2 DEF Request
  <2> HIDE DEF r2
  <2>4. [r2 EXCEPT !.zone = z] = Request("call", k, z, None, None, no, none, no, none)
    BY <2>3 DEF Request
  <2> QED
    BY <2>4 DEF r1, r2
<1>2. Start(o, h)
  BY DEF StartZone
<1> HIDE DEF h
<1>3. h \in Handler
  BY <1>1 DEF Handler, HandlerSteps, AllKinds, Zones, Request
<1>4. Shaped(h)
  BY <1>1 DEF Shaped, RecordOp, StepOp, ZoneOp, Active, RecordKinds, ZoneKinds, AllKinds, Stored, Request
<1>5. h.pc = "call" /\ h.kind = k
  BY <1>1 DEF Request
<1> QED
  BY <1>2, <1>3, <1>4, <1>5, StartMoves

\* ReadForCreate.
LEMMA ReadForCreateMoves ==
    ASSUME Handlers, NEW o \in Ops, ReadForCreate(o)
    PROVE  Becomes(o, Ended) \/ \E h : Becomes(o, h) /\ h.pc = "call" /\ h.kind = op[o].kind
<1> DEFINE g == op[o]
           x == g.want /\ Exists("R", db)
           h == With(g, "call", g.old, g.unptr, x, g.rel, g.warn, g.tell, g.seen)
<1>1. op \in [Ops -> Handler] /\ g \in Handler /\ Shaped(g)
  BY DEF Handlers
<1>g. g.pc = "read" /\ g.kind \in {"create"}
  BY DEF ReadForCreate
<1>f. x \in BOOLEAN /\ (x => g.want)
  BY <1>1, <1>g DEF Shaped, RecordOp, Active, RecordKinds, Handler
<1> HIDE DEF x
<1>2. CASE op' = [op EXCEPT ![o].pc = "call", ![o].ptr = x]
  <2>1. op' = [op EXCEPT ![o] = [g EXCEPT !.pc = "call", !.ptr = x]]
    BY <1>1, <1>2
  <2>2. [g EXCEPT !.pc = "call", !.ptr = x] = h
    <3> DEFINE g1 == [g EXCEPT !.pc = "call"]
    <3>1. g1 = At(g, "call")
      BY <1>1, WithPc
    <3> HIDE DEF g1
    <3>2. [g1 EXCEPT !.ptr = x] = h
      BY <3>1 DEF With, At
    <3> QED
      BY <3>2 DEF g1
  <2>4. h \in Handler
    BY <1>1, <1>f DEF Handler, With, HandlerSteps
  <2>5. Shaped(h)
    BY <1>1, <1>f, <1>g DEF Shaped, RecordOp, StepOp, ZoneOp, Active, RecordKinds, ZoneKinds, AllKinds, ZoneOf, With
  <2>6. h.pc = "call" /\ h.kind = g.kind
    BY DEF With
  <2> QED
    BY <2>1, <2>2, <2>4, <2>5, <2>6 DEF Becomes
<1>3. CASE OpDone(o)
  BY <1>3, MovesDone
<1> QED
  BY <1>2, <1>3 DEF ReadForCreate, x

\* ReadForDelete.
LEMMA ReadForDeleteMoves ==
    ASSUME Handlers, NEW o \in Ops, ReadForDelete(o)
    PROVE  Becomes(o, Ended) \/ \E h : Becomes(o, h) /\ h.pc = "call" /\ h.kind = op[o].kind
<1> DEFINE g == op[o]
           rel == g.kind = "delete" /\ g.rec \in Rows("R", db)
           old == g.kind = "delete" /\ g.rec \in flags
           unptr == rel \/ old
           h == With(g, "call", old, unptr, g.ptr, rel, g.warn, g.tell, g.seen)
<1>1. op \in [Ops -> Handler] /\ g \in Handler /\ Shaped(g)
  BY DEF Handlers
<1>g. g.pc = "read" /\ g.kind \in {"delete", "deletePTR"}
  BY DEF ReadForDelete
<1>f. rel \in BOOLEAN /\ old \in BOOLEAN /\ unptr \in BOOLEAN /\ unptr = (rel \/ old) /\ (unptr => g.kind = "delete")
  BY <1>1, <1>g DEF Shaped, RecordOp, Active, RecordKinds, Handler
<1> HIDE DEF rel, old, unptr
<1>2. CASE op' = [op EXCEPT ![o].pc = "call", ![o].rel = rel, ![o].old = old, ![o].unptr = unptr]
  <2>1. op' = [op EXCEPT ![o] = [g EXCEPT !.pc = "call", !.rel = rel, !.old = old, !.unptr = unptr]]
    BY <1>1, <1>2
  <2>2. [g EXCEPT !.pc = "call", !.rel = rel, !.old = old, !.unptr = unptr] = h
    <3> DEFINE g1 == [g EXCEPT !.pc = "call"]
               g2 == [g1 EXCEPT !.rel = rel]
               g3 == [g2 EXCEPT !.old = old]
    <3>1. g1 = At(g, "call")
      BY <1>1, WithPc
    <3> HIDE DEF g1
    <3>2. g2 = With(g, "call", g.old, g.unptr, g.ptr, rel, g.warn, g.tell, g.seen)
      BY <3>1 DEF With, At
    <3> HIDE DEF g2
    <3>3. g3 = With(g, "call", old, g.unptr, g.ptr, rel, g.warn, g.tell, g.seen)
      BY <3>2 DEF With
    <3> HIDE DEF g3
    <3>4. [g3 EXCEPT !.unptr = unptr] = h
      BY <3>3 DEF With
    <3> QED
      BY <3>4 DEF g1, g2, g3
  <2>4. h \in Handler
    BY <1>1, <1>f DEF Handler, With, HandlerSteps
  <2>5. Shaped(h)
    BY <1>1, <1>f, <1>g DEF Shaped, RecordOp, StepOp, ZoneOp, Active, RecordKinds, ZoneKinds, AllKinds, ZoneOf, With
  <2>6. h.pc = "call" /\ h.kind = g.kind
    BY DEF With
  <2> QED
    BY <2>1, <2>2, <2>4, <2>5, <2>6 DEF Becomes
<1>3. CASE OpDone(o)
  BY <1>3, MovesDone
<1> QED
  BY <1>2, <1>3 DEF ReadForDelete, rel, old, unptr

\* ReadForUpdate.
LEMMA ReadForUpdateMoves ==
    ASSUME Handlers, NEW o \in Ops, ReadForUpdate(o)
    PROVE  Becomes(o, Ended) \/ \E h : /\ Becomes(o, h) /\ h.kind = op[o].kind
                                       /\ h.pc \in {"call", "alone", "save"}
<1> DEFINE g == op[o]
           old == g.kind = "update" /\ g.rec \in flags
           ptr == g.want /\ Exists("R", db)
           next == IF g.rec # g.new THEN "call" ELSE IF old = g.want THEN "save" ELSE "alone"
           h == With(g, next, old, old, ptr, g.rel, g.warn, g.tell, g.seen)
<1>1. op \in [Ops -> Handler] /\ g \in Handler /\ Shaped(g)
  BY DEF Handlers
<1>g. g.pc = "read" /\ g.kind \in {"update", "updatePTR"}
  BY DEF ReadForUpdate
<1>f. old \in BOOLEAN /\ ptr \in BOOLEAN /\ (ptr => g.want) /\ (old => g.kind = "update")
      /\ next \in {"call", "alone", "save"} /\ (next = "call" <=> g.rec # g.new)
      /\ (next = "alone" => g.kind = "update" /\ g.rec = g.new /\ old # g.want)
  BY <1>1, <1>g DEF Shaped, RecordOp, Active, RecordKinds, Handler, ZoneOf
<1> HIDE DEF old, ptr, next
<1>2. CASE op' = [op EXCEPT ![o].pc = next, ![o].old = old, ![o].unptr = old, ![o].ptr = ptr]
  <2>1. op' = [op EXCEPT ![o] = [g EXCEPT !.pc = next, !.old = old, !.unptr = old, !.ptr = ptr]]
    BY <1>1, <1>2
  <2>2. [g EXCEPT !.pc = next, !.old = old, !.unptr = old, !.ptr = ptr] = h
    <3> DEFINE g1 == [g EXCEPT !.pc = next]
               g2 == [g1 EXCEPT !.old = old]
               g3 == [g2 EXCEPT !.unptr = old]
    <3>1. g1 = At(g, next)
      BY <1>1, WithPc
    <3> HIDE DEF g1
    <3>2. g2 = With(g, next, old, g.unptr, g.ptr, g.rel, g.warn, g.tell, g.seen)
      BY <3>1 DEF With, At
    <3> HIDE DEF g2
    <3>3. g3 = With(g, next, old, old, g.ptr, g.rel, g.warn, g.tell, g.seen)
      BY <3>2 DEF With
    <3> HIDE DEF g3
    <3>4. [g3 EXCEPT !.ptr = ptr] = h
      BY <3>3 DEF With
    <3> QED
      BY <3>4 DEF g1, g2, g3
  <2>4. h \in Handler
    BY <1>1, <1>f DEF Handler, With, HandlerSteps
  <2>3. RecordOp(h)
    BY <1>1, <1>f, <1>g DEF Shaped, RecordOp, Active, RecordKinds, ZoneOf, With
  <2>5. StepOp(h) /\ ZoneOp(h)
    BY <1>1, <1>f, <1>g DEF StepOp, ZoneOp, Active, ZoneKinds, With
  <2>6. h.pc \in {"call", "alone", "save"} /\ h.kind = g.kind
    BY <1>f DEF With
  <2> QED
    BY <1>g, <2>1, <2>2, <2>3, <2>4, <2>5, <2>6 DEF Becomes, Shaped, AllKinds, RecordKinds
<1>3. CASE OpDone(o)
  BY <1>3, MovesDone
<1> QED
  BY <1>2, <1>3 DEF ReadForUpdate, old, ptr, next

\* A handler that goes to another step with a warning.
LEMMA MovesWarned ==
    ASSUME Handlers, NEW o \in Ops, NEW pc \in HandlerSteps, NEW x \in BOOLEAN,
           op' = [op EXCEPT ![o].pc = pc, ![o].warn = x], Shaped(Warned(op[o], pc, x))
    PROVE  Becomes(o, Warned(op[o], pc, x))
<1> DEFINE g == op[o]
<1>1. op \in [Ops -> Handler] /\ g \in Handler
  BY DEF Handlers
<1>2. op' = [op EXCEPT ![o] = [g EXCEPT !.pc = pc, !.warn = x]]
  BY <1>1
<1>3. [g EXCEPT !.pc = pc, !.warn = x] = Warned(g, pc, x)
  <2> DEFINE g1 == [g EXCEPT !.pc = pc]
  <2>1. g1 = At(g, pc)
    BY <1>1, WithPc
  <2> HIDE DEF g1
  <2>2. [g1 EXCEPT !.warn = x] = Warned(g, pc, x)
    BY <2>1 DEF Warned, At, With
  <2> QED
    BY <2>2 DEF g1
<1>4. Warned(g, pc, x) \in Handler
  BY <1>1 DEF Warned, With, Handler
<1> QED
  BY <1>2, <1>3, <1>4 DEF Becomes

\* A handler that is about to mark zones.
LEMMA MovesTold ==
    ASSUME Handlers, NEW o \in Ops, NEW x \in SUBSET Zones,
           op' = [op EXCEPT ![o].pc = "mark", ![o].tell = x], Shaped(Told(op[o], "mark", x))
    PROVE  Becomes(o, Told(op[o], "mark", x))
<1> DEFINE g == op[o]
<1>1. op \in [Ops -> Handler] /\ g \in Handler
  BY DEF Handlers
<1>2. op' = [op EXCEPT ![o] = [g EXCEPT !.pc = "mark", !.tell = x]]
  BY <1>1
<1>3. [g EXCEPT !.pc = "mark", !.tell = x] = Told(g, "mark", x)
  <2> DEFINE g1 == [g EXCEPT !.pc = "mark"]
  <2>1. g1 = At(g, "mark")
    BY <1>1, WithPc
  <2> HIDE DEF g1
  <2>2. [g1 EXCEPT !.tell = x] = Told(g, "mark", x)
    BY <2>1 DEF Told, At, With
  <2> QED
    BY <2>2 DEF g1
<1>4. Told(g, "mark", x) \in Handler
  BY <1>1 DEF Told, With, Handler, HandlerSteps
<1> QED
  BY <1>2, <1>3, <1>4 DEF Becomes

\* CallAgent.
LEMMA CallAgentMoves ==
    ASSUME Handlers, NEW o \in Ops, CallAgent(o)
    PROVE  Becomes(o, At(op[o], AfterCall(op[o])))
<1> DEFINE g == op[o]
           pc == AfterCall(g)
<1>1. g \in Handler /\ Shaped(g) /\ g.pc = "call" /\ OpTo(o, pc)
  BY DEF Handlers, CallAgent
<1>2. /\ pc \in {"add", "unptr", "ptr", "save"}
      /\ pc = "add" <=> g.kind \in {"update", "updatePTR"}
      /\ pc = "unptr" => g.unptr
      /\ pc = "ptr" => g.ptr
  BY <1>1 DEF AfterCall, Handler
<1> HIDE DEF pc
<1>3. RecordOp(At(g, pc)) /\ StepOp(At(g, pc))
  <2>1. RecordOp(At(g, pc))
    BY <1>1, <1>2 DEF Shaped, RecordOp, Active, At, With
  <2>2. StepOp(At(g, pc))
    BY <1>1, <1>2 DEF Shaped, RecordOp, StepOp, Active, RecordKinds, At, With
  <2> QED
    BY <2>1, <2>2
<1>4. ZoneOp(At(g, pc)) /\ (Active(At(g, pc)) => At(g, pc).kind \in AllKinds)
  BY <1>1, <1>2 DEF Shaped, ZoneOp, Active, ZoneKinds, At, With
<1>5. pc \in HandlerSteps
  BY <1>2 DEF HandlerSteps
<1> QED
  BY <1>1, <1>3, <1>4, <1>5, MovesTo DEF Shaped, pc

\* AddNew.
LEMMA AddNewMoves ==
    ASSUME Handlers, NEW o \in Ops, AddNew(o)
    PROVE  /\ op[o].kind \in {"update", "updatePTR"}
           /\ \E pc \in {"unptr", "ptr", "save"} : Becomes(o, At(op[o], pc))
<1> DEFINE g == op[o]
<1>1. g \in Handler /\ Shaped(g) /\ g.pc = "add"
  BY DEF Handlers, AddNew
<1>2. PICK pc : /\ OpTo(o, pc) /\ pc \in {"unptr", "ptr", "save"}
                /\ pc = "unptr" => g.unptr
                /\ pc = "ptr" => g.ptr
  BY DEF AddNew
<1>3. g.kind \in {"update", "updatePTR"}
  BY <1>1 DEF Shaped, StepOp, ZoneOp, Active, AllKinds
<1>4. RecordOp(At(g, pc)) /\ StepOp(At(g, pc))
  BY <1>1, <1>2, <1>3 DEF Shaped, RecordOp, StepOp, Active, RecordKinds, At, With
<1>5. ZoneOp(At(g, pc)) /\ (Active(At(g, pc)) => At(g, pc).kind \in AllKinds)
  BY <1>1, <1>2, <1>3 DEF ZoneOp, Active, ZoneKinds, At, With, AllKinds, RecordKinds
<1>6. pc \in HandlerSteps
  BY <1>2 DEF HandlerSteps
<1> QED
  BY <1>2, <1>3, <1>4, <1>5, <1>6, MovesTo DEF Shaped

\* DeletePTR.
LEMMA DeletePTRMoves ==
    ASSUME Handlers, NEW o \in Ops, DeletePTR(o)
    PROVE  /\ op[o].kind \in {"delete", "update"}
           /\ \E pc \in {"ptr", "save"} : Becomes(o, At(op[o], pc))
<1> DEFINE g == op[o]
<1>1. g \in Handler /\ Shaped(g) /\ g.pc = "unptr"
  BY DEF Handlers, DeletePTR
<1>2. PICK pc : OpTo(o, pc) /\ pc \in {"ptr", "save"} /\ (pc = "ptr" => g.ptr)
  BY DEF DeletePTR
<1>3. g.kind \in {"delete", "update"}
  BY <1>1 DEF Shaped, RecordOp, StepOp, ZoneOp, Active, AllKinds, RecordKinds, ZoneKinds, ZoneOf
<1>4. RecordOp(At(g, pc)) /\ StepOp(At(g, pc))
  BY <1>1, <1>2, <1>3 DEF Shaped, RecordOp, StepOp, Active, RecordKinds, At, With
<1>5. ZoneOp(At(g, pc)) /\ (Active(At(g, pc)) => At(g, pc).kind \in AllKinds)
  BY <1>1, <1>2, <1>3 DEF ZoneOp, Active, ZoneKinds, At, With, AllKinds, RecordKinds
<1>6. pc \in HandlerSteps
  BY <1>2 DEF HandlerSteps
<1> QED
  BY <1>2, <1>3, <1>4, <1>5, <1>6, MovesTo DEF Shaped

\* CreatePTR.
LEMMA CreatePTRMoves ==
    ASSUME Handlers, NEW o \in Ops, CreatePTR(o)
    PROVE  /\ op[o].kind \in {"create", "update"}
           /\ Becomes(o, Warned(op[o], "save", ~Exists("R", dns)))
<1> DEFINE g == op[o]
           w == ~Exists("R", dns)
<1>1. g \in Handler /\ Shaped(g) /\ g.pc = "ptr" /\ op' = [op EXCEPT ![o].pc = "save", ![o].warn = w]
  BY DEF Handlers, CreatePTR
<1>2. w \in BOOLEAN
  OBVIOUS
<1> HIDE DEF w
<1>3. g.kind \in {"create", "update"}
  BY <1>1 DEF Shaped, RecordOp, StepOp, ZoneOp, Active, AllKinds, RecordKinds, ZoneKinds, ZoneOf
<1>4. RecordOp(Warned(g, "save", w)) /\ StepOp(Warned(g, "save", w))
  BY <1>1, <1>2, <1>3 DEF Shaped, RecordOp, StepOp, Active, RecordKinds, Warned, With
<1>5. ZoneOp(Warned(g, "save", w)) /\ Warned(g, "save", w).kind \in AllKinds
  BY <1>1, <1>3 DEF ZoneOp, Active, ZoneKinds, Warned, With, AllKinds, RecordKinds
<1>6. Becomes(o, Warned(g, "save", w))
  BY <1>1, <1>2, <1>4, <1>5, MovesWarned DEF Shaped, HandlerSteps
<1> QED
  BY <1>3, <1>6 DEF w

\* CreatePTRWarns.
LEMMA CreatePTRWarnsMoves ==
    ASSUME Handlers, NEW o \in Ops, CreatePTRWarns(o)
    PROVE  Becomes(o, Warned(op[o], "save", TRUE))
<1> PICK w \in BOOLEAN : w = TRUE
  OBVIOUS
<1> DEFINE g == op[o]
<1>1. g \in Handler /\ Shaped(g) /\ g.pc = "ptr" /\ op' = [op EXCEPT ![o].pc = "save", ![o].warn = w]
  BY DEF Handlers, CreatePTRWarns
<1>2. g.kind = "update"
  BY DEF CreatePTRWarns
<1>3. RecordOp(Warned(g, "save", w)) /\ StepOp(Warned(g, "save", w))
  BY <1>1, <1>2 DEF Shaped, RecordOp, StepOp, Active, RecordKinds, Warned, With
<1>4. ZoneOp(Warned(g, "save", w)) /\ Warned(g, "save", w).kind \in AllKinds
  BY <1>1, <1>2 DEF ZoneOp, Active, ZoneKinds, Warned, With, AllKinds, RecordKinds
<1>5. Becomes(o, Warned(g, "save", w))
  BY <1>1, <1>3, <1>4, MovesWarned DEF Shaped, HandlerSteps
<1> QED
  BY <1>5

\* MadeUnknown: R is excused unless it stays as it is, or is marked anyway.
LEMMA MadeUnknownExcuses ==
    ASSUME NEW h, MadeUnknown(h)
    PROVE  /\ dns' = Reverse(h.new)
           /\ excused \subseteq excused' /\ excused' \subseteq excused \cup {"R"}
           /\ dns' = dns \/ TellDeleted(h) \/ "R" \in excused'
<1>1. dns' = Reverse(h.new)
  BY DEF MadeUnknown
<1>2. excused' = IF dns' = dns \/ TellDeleted(h) THEN excused ELSE excused \cup {"R"}
  BY DEF MadeUnknown
<1> QED
  BY <1>1, <1>2

\* ChangePTRAlone: it warns unless it has changed R and knows; what it does not
\* know is a deletion, which it marks, or excused.
LEMMA ChangePTRAloneMoves ==
    ASSUME Handlers, NEW o \in Ops, ChangePTRAlone(o)
    PROVE  /\ op[o].kind = "update" /\ op[o].rec = op[o].new /\ op[o].old # op[o].want
           /\ \E warn \in BOOLEAN : /\ Becomes(o, Warned(op[o], "save", warn))
                                    /\ \/ dns' = dns \/ op[o].unptr \/ "R" \in excused'
                                       \/ warn = op[o].warn /\ op[o].ptr
<1> DEFINE g == op[o]
<1>1. g \in Handler /\ Shaped(g) /\ g.pc = "alone"
  BY DEF Handlers, ChangePTRAlone
<1>2. g.kind = "update" /\ g.rec = g.new /\ g.old # g.want
  BY <1>1 DEF Shaped, RecordOp, StepOp, ZoneOp, Active, AllKinds, RecordKinds, ZoneKinds
<1>3. ASSUME NEW w \in BOOLEAN
      PROVE  Shaped(Warned(g, "save", w))
  <2>1. RecordOp(Warned(g, "save", w)) /\ StepOp(Warned(g, "save", w))
    BY <1>1, <1>2 DEF Shaped, RecordOp, StepOp, Active, RecordKinds, Warned, With
  <2>2. ZoneOp(Warned(g, "save", w)) /\ Warned(g, "save", w).kind \in AllKinds
    BY <1>1, <1>2 DEF ZoneOp, Active, ZoneKinds, Warned, With, AllKinds, RecordKinds
  <2> QED
    BY <2>1, <2>2 DEF Shaped
<1>4. CASE OpTo(o, "save") /\ (g.ptr \/ g.unptr)
  <2>1. g.warn \in BOOLEAN /\ At(g, "save") = Warned(g, "save", g.warn)
    BY <1>1 DEF Handler, At, Warned
  <2> QED
    BY <1>2, <1>3, <1>4, <2>1, MovesTo DEF HandlerSteps
<1>5. ASSUME NEW w \in BOOLEAN, op' = [op EXCEPT ![o].pc = "save", ![o].warn = w],
             dns' = dns \/ g.unptr \/ "R" \in excused'
      PROVE  \E warn \in BOOLEAN : Becomes(o, Warned(g, "save", warn)) /\ (dns' = dns \/ g.unptr \/ "R" \in excused')
  BY <1>3, <1>5, MovesWarned DEF HandlerSteps
<1>6. (g.ptr \/ g.unptr) \in BOOLEAN
  OBVIOUS
<1>7. TellDeleted(g) => g.old
  BY <1>2 DEF TellDeleted, DropsPTR
<1>8. g.old => g.unptr
  BY <1>1, <1>2 DEF Shaped, RecordOp, Active, RecordKinds
<1>9. MadeUnknown(g) => dns' = dns \/ g.unptr \/ "R" \in excused'
  BY <1>7, <1>8, MadeUnknownExcuses
<1> QED
  BY <1>2, <1>4, <1>5, <1>6, <1>9 DEF ChangePTRAlone

\* SaveRecord.
LEMMA SaveRecordMoves ==
    ASSUME Handlers, NEW o \in Ops, SaveRecord(o)
    PROVE  Becomes(o, At(op[o], "savePTR"))
<1> DEFINE g == op[o]
<1>1. g \in Handler /\ Shaped(g) /\ g.pc = "save" /\ g.kind \in RecordKinds /\ OpTo(o, "savePTR")
  BY DEF Handlers, SaveRecord
<1>2. RecordOp(At(g, "savePTR")) /\ StepOp(At(g, "savePTR"))
  BY <1>1 DEF Shaped, RecordOp, StepOp, Active, At, With
<1>3. ZoneOp(At(g, "savePTR")) /\ At(g, "savePTR").kind \in AllKinds
  BY <1>1 DEF ZoneOp, Active, ZoneKinds, At, With, AllKinds, RecordKinds
<1> QED
  BY <1>1, <1>2, <1>3, MovesTo DEF Shaped, HandlerSteps

\* SavePTR.
LEMMA SavePTRMoves ==
    ASSUME Handlers, NEW o \in Ops, SavePTR(o)
    PROVE  /\ op[o].kind \in RecordKinds
           /\ \E tell \in SUBSET Zones :
                 /\ Becomes(o, Told(op[o], "mark", tell))
                 /\ op[o].tell \subseteq tell
                 /\ \/ op[o].ptr /\ ~op[o].warn
                    \/ op[o].kind \in {"delete", "update"} /\ TellDeleted(op[o])
                    => "R" \in tell
<1> DEFINE g == op[o]
           add == g.ptr /\ ~g.warn
           told == add \/ (g.kind \in {"delete", "update"} /\ TellDeleted(g))
           tell == g.tell \cup (IF told THEN {"R"} ELSE {})
<1>1. g \in Handler /\ Shaped(g) /\ g.pc = "savePTR"
  BY DEF Handlers, SavePTR
<1>2. op' = [op EXCEPT ![o].pc = "mark", ![o].tell = tell]
  BY DEF Handlers, SavePTR
<1>3. g.kind \in RecordKinds
  BY <1>1 DEF Shaped, ZoneOp, Active, AllKinds, ZoneKinds
<1>4. tell \in SUBSET Zones /\ g.tell \subseteq tell /\ (told => "R" \in tell)
  BY <1>1 DEF Handler, Zones
<1> HIDE DEF told, tell
<1>5. RecordOp(Told(g, "mark", tell)) /\ StepOp(Told(g, "mark", tell))
  BY <1>1, <1>3, <1>4 DEF Shaped, RecordOp, StepOp, Active, Told, With
<1>6. ZoneOp(Told(g, "mark", tell)) /\ Told(g, "mark", tell).kind \in AllKinds
  BY <1>1, <1>3 DEF ZoneOp, Active, ZoneKinds, Told, With, AllKinds, RecordKinds
<1>7. Becomes(o, Told(g, "mark", tell))
  BY <1>2, <1>4, <1>5, <1>6, MovesTold DEF Shaped
<1> QED
  BY <1>3, <1>4, <1>7 DEF told

\* SaveZone.
LEMMA SaveZoneMoves ==
    ASSUME Handlers, NEW o \in Ops, SaveZone(o)
    PROVE  Becomes(o, At(op[o], "first"))
<1> DEFINE g == op[o]
<1>1. g \in Handler /\ Shaped(g) /\ g.pc = "save" /\ g.kind = "createZone" /\ OpTo(o, "first")
  BY DEF Handlers, SaveZone
<1>2. RecordOp(At(g, "first")) /\ StepOp(At(g, "first"))
  BY <1>1 DEF RecordOp, StepOp, Active, At, With, RecordKinds
<1>3. ZoneOp(At(g, "first")) /\ At(g, "first").kind \in AllKinds
  BY <1>1 DEF Shaped, ZoneOp, Active, ZoneKinds, At, With, AllKinds
<1> QED
  BY <1>1, <1>2, <1>3, MovesTo DEF Shaped, HandlerSteps

\* A handler that has created a zone comes to its mark.
LEMMA ZoneTold ==
    ASSUME Handlers, NEW o \in Ops, op[o].pc \in {"first", "replace"},
           op' = [op EXCEPT ![o].pc = "mark", ![o].tell = {op[o].zone}]
    PROVE  op[o].kind = "createZone" /\ Becomes(o, Told(op[o], "mark", {op[o].zone}))
<1> DEFINE g == op[o]
           tell == {g.zone}
<1>1. g \in Handler /\ Shaped(g)
  BY DEF Handlers
<1>2. g.kind = "createZone" /\ g.zone \in Zones
  BY <1>1 DEF Shaped, RecordOp, ZoneOp, Active, AllKinds, RecordKinds, ZoneKinds
<1>3. RecordOp(Told(g, "mark", tell)) /\ StepOp(Told(g, "mark", tell))
  BY <1>1, <1>2 DEF RecordOp, StepOp, Active, Told, With, RecordKinds
<1>4. ZoneOp(Told(g, "mark", tell)) /\ Told(g, "mark", tell).kind \in AllKinds
  BY <1>1, <1>2 DEF Shaped, ZoneOp, Active, ZoneKinds, Told, With, AllKinds
<1>5. Becomes(o, Told(g, "mark", tell))
  BY <1>2, <1>3, <1>4, MovesTold DEF Shaped
<1> QED
  BY <1>2, <1>5

\* FetchFirst.
LEMMA FetchFirstMoves ==
    ASSUME Handlers, dns \in Content, NEW o \in Ops, FetchFirst(o)
    PROVE  /\ op[o].kind = "createZone" /\ op[o].zone \in Zones
           /\ \/ Becomes(o, Told(op[o], "mark", {op[o].zone}))
              \/ /\ Exists(op[o].zone, dns)
                 /\ Becomes(o, Shown(op[o], "replace", dns[op[o].zone]))
<1> DEFINE g == op[o]
           c == dns[g.zone]
<1>1. op \in [Ops -> Handler] /\ g \in Handler /\ Shaped(g) /\ g.pc = "first"
  BY DEF Handlers, FetchFirst
<1>2. g.kind = "createZone" /\ g.zone \in Zones
  BY <1>1 DEF Shaped, RecordOp, ZoneOp, Active, AllKinds, RecordKinds, ZoneKinds
<1>3. CASE Exists(g.zone, dns) /\ op' = [op EXCEPT ![o].pc = "replace", ![o].seen = c]
  <2>1. c \in Stored(g.zone) /\ c \in SUBSET Records
    BY <1>2, <1>3, Contents DEF Exists
  <2> HIDE DEF c
  <2>2. op' = [op EXCEPT ![o] = [g EXCEPT !.pc = "replace", !.seen = c]]
    BY <1>1, <1>3
  <2>3. [g EXCEPT !.pc = "replace", !.seen = c] = Shown(g, "replace", c)
    <3> DEFINE g1 == [g EXCEPT !.pc = "replace"]
    <3>1. g1 = At(g, "replace")
      BY <1>1, WithPc
    <3> HIDE DEF g1
    <3>2. [g1 EXCEPT !.seen = c] = Shown(g, "replace", c)
      BY <3>1 DEF Shown, At, With
    <3> QED
      BY <3>2 DEF g1
  <2>4. Shown(g, "replace", c) \in Handler
    BY <1>1, <2>1 DEF Shown, With, Handler, HandlerSteps
  <2>5. RecordOp(Shown(g, "replace", c)) /\ StepOp(Shown(g, "replace", c))
    BY <1>1, <1>2 DEF RecordOp, StepOp, Active, Shown, With, RecordKinds
  <2>6. ZoneOp(Shown(g, "replace", c)) /\ Shown(g, "replace", c).kind \in AllKinds
    BY <1>1, <1>2, <2>1 DEF Shaped, ZoneOp, Active, ZoneKinds, Shown, With, AllKinds
  <2>7. Becomes(o, Shown(g, "replace", c))
    BY <2>2, <2>3, <2>4, <2>5, <2>6 DEF Becomes, Shaped
  <2> QED
    BY <1>2, <1>3, <2>7 DEF c
<1>4. CASE op' = [op EXCEPT ![o].pc = "mark", ![o].tell = {g.zone}]
  BY <1>1, <1>2, <1>4, ZoneTold
<1> QED
  BY <1>3, <1>4 DEF FetchFirst

-----------------------------------------------------------------------------
(***************************************************************************)
(* What each step does to the contents.                                    *)
(***************************************************************************)
\* Content d differs from c at most in zone z, which exists in both or in neither.
Changes(c, d, z) == /\ d \in Content /\ (c[z] = None <=> d[z] = None)
                    /\ \A y \in Zones \ {z} : d[y] = c[y]

\* Some records of a zone are what it may hold.
LEMMA Somewhere ==
    ASSUME NEW z \in Zones, NEW v, v \subseteq Records, z = "R" => v \subseteq PTRs
    PROVE  v \in Stored(z) /\ v # None
<1>1. v # None
  BY NoneAssumption
<1> QED
  BY <1>1 DEF Stored, Zones

\* A zone that exists gets other records.
LEMMA ChangesZone ==
    ASSUME NEW c \in Content, NEW z \in Zones, NEW v, v \subseteq Records, z = "R" => v \subseteq PTRs,
           c[z] # None
    PROVE  Changes(c, [c EXCEPT ![z] = v], z) /\ [c EXCEPT ![z] = v][z] = v
<1>1. v \in Stored(z) /\ v # None
  BY Somewhere
<1> QED
  BY <1>1, ContentSet DEF Changes

\* A zone that does not exist stays so.
LEMMA ChangesNothing ==
    ASSUME NEW c \in Content, NEW z \in Zones
    PROVE  Changes(c, c, z) /\ (c[z] = None => [c EXCEPT ![z] = None] = c)
<1>1. c["F"] = None => [c EXCEPT !["F"] = None] = c
  BY DEF Content
<1>2. c["R"] = None => [c EXCEPT !["R"] = None] = c
  BY DEF Content
<1> QED
  BY <1>1, <1>2 DEF Changes, Zones

\* A PTR record is added or removed where R exists.
LEMMA ReverseChanges ==
    ASSUME dns \in Content, NEW x
    PROVE  /\ x \in PTRs => Changes(dns, Reverse(x), "R")
           /\ Changes(dns, Unreverse(x), "R")
<1>1. "R" \in Zones
  BY DEF Zones
<1>2. CASE dns["R"] = None
  <2>1. Reverse(x) = dns /\ Unreverse(x) = dns
    BY <1>1, <1>2, ChangesNothing DEF Reverse, Unreverse
  <2> QED
    BY <1>1, <2>1, ChangesNothing
<1>3. CASE dns["R"] # None
  <2> DEFINE more == dns["R"] \cup {x}
             less == dns["R"] \ {x}
  <2>1. dns["R"] \subseteq PTRs /\ PTRs \subseteq Records
    BY <1>1, <1>3, Contents DEF PTRs, Records, Rows
  <2>2. /\ less \subseteq PTRs /\ less \subseteq Records
        /\ x \in PTRs => more \subseteq PTRs /\ more \subseteq Records
    BY <2>1
  <2>3. Reverse(x) = [dns EXCEPT !["R"] = more]
    BY <1>3 DEF Reverse
  <2>4. Unreverse(x) = [dns EXCEPT !["R"] = less]
    BY <1>3 DEF Unreverse
  <2> HIDE DEF more, less
  <2>5. ASSUME x \in PTRs PROVE Changes(dns, Reverse(x), "R")
    <3>1. more \subseteq PTRs /\ more \subseteq Records
      BY <2>2, <2>5
    <3>2. Changes(dns, [dns EXCEPT !["R"] = more], "R")
      BY <1>1, <1>3, <3>1, ChangesZone
    <3> QED
      BY <2>3, <3>2
  <2>6. Changes(dns, Unreverse(x), "R")
    <3>1. less \subseteq PTRs /\ less \subseteq Records
      BY <2>2
    <3>2. Changes(dns, [dns EXCEPT !["R"] = less], "R")
      BY <1>1, <1>3, <3>1, ChangesZone
    <3> QED
      BY <2>4, <3>2
  <2> QED
    BY <2>5, <2>6
<1> QED
  BY <1>2, <1>3

\* A script removes something only from a zone that exists.
LEMMA TargetExists ==
    ASSUME NEW z, NEW x, NEW c
    PROVE  Target(z, x, c) \subseteq c
BY DEF Target, SameName

\* CallAgent.
LEMMA CallAgentEffect ==
    ASSUME Handlers, dns \in Content, NEW o \in Ops, CallAgent(o)
    PROVE  /\ op[o].pc = "call" /\ op[o].zone \in Zones /\ op[o].kind \in AllKinds /\ dns' \in Content
           /\ \A y \in Zones \ {op[o].zone} : dns'[y] = dns[y]
           /\ op[o].kind \in RecordKinds => dns[op[o].zone] # None /\ dns'[op[o].zone] # None
           /\ op[o].kind = "createZone" => dns[op[o].zone] = None /\ dns'[op[o].zone] # None
           /\ op[o].kind = "deleteZone" => dns'[op[o].zone] = None
<1> DEFINE h == op[o]
           z == h.zone
<1>1. h \in Handler /\ Shaped(h) /\ h.pc = "call" /\ h.kind \in AllKinds /\ z \in Zones
  BY DEF Handlers, CallAgent, Shaped, Active, RecordOp, ZoneOp, ZoneOf, Zones, AllKinds
<1>2. dns' = Called(h) /\ CallSucceeds(h)
  BY DEF CallAgent
<1>3. CASE h.kind = "create"
  <2>1. z = "F" /\ h.rec \in Records
    BY <1>1, <1>3 DEF Shaped, RecordOp, Active, ZoneOf, RecordKinds
  <2>2. dns["F"] # None /\ dns' = [dns EXCEPT !["F"] = dns["F"] \cup {h.rec}]
    BY <1>2, <1>3 DEF Called, CallSucceeds, Exists
  <2>3. dns["F"] \cup {h.rec} \subseteq Records
    BY <1>1, <2>1, <2>2, Contents
  <2>4. Changes(dns, dns', "F")
    <3>1. ASSUME NEW v, v \subseteq Records PROVE Changes(dns, [dns EXCEPT !["F"] = v], "F")
      <4>1. "F" \in Zones /\ dns["F"] # None
        BY <2>2 DEF Zones
      <4>2. Changes(dns, [dns EXCEPT !["F"] = v], "F") /\ [dns EXCEPT !["F"] = v]["F"] = v
        BY <3>1, <4>1, ChangesZone
      <4> QED
        BY <4>2
    <3> QED
      BY <2>2, <2>3, <3>1
  <2> QED
    BY <1>1, <1>3, <2>1, <2>2, <2>4 DEF Changes
<1>4. CASE h.kind \in RecordKinds \ {"create"}
  <2> DEFINE gone == Target(z, h.rec, dns[z])
  <2>1. Target(z, h.rec, Rows(z, dns)) # {}
    BY <1>2, <1>4 DEF CallSucceeds, RecordKinds
  <2>2. dns[z] # None
    BY <2>1, TargetExists DEF Rows
  <2>3. dns[z] \in Stored(z)
    BY <1>1, Contents
  <2>4. dns' = [dns EXCEPT ![z] = dns[z] \ gone]
    BY <1>2, <1>4 DEF Called, RecordKinds
  <2> HIDE DEF gone
  <2>5. dns[z] \ gone \subseteq Records /\ (z = "R" => dns[z] \ gone \subseteq PTRs)
    BY <1>1, <2>2, <2>3, Contents DEF Rows
  <2>6. Changes(dns, dns', z)
    BY <1>1, <2>2, <2>4, <2>5, ChangesZone
  <2> QED
    BY <1>1, <1>4, <2>2, <2>6 DEF Changes, RecordKinds
<1>5. CASE h.kind = "createZone"
  <2>1. dns[z] = None /\ dns' = [dns EXCEPT ![z] = {}]
    BY <1>2, <1>5 DEF Called, CallSucceeds, Exists
  <2> PICK v : v = {}
    OBVIOUS
  <2>2. v \in Stored(z) /\ v # None
    BY <1>1, Somewhere
  <2>3. /\ [dns EXCEPT ![z] = v] \in Content /\ [dns EXCEPT ![z] = v][z] = v
        /\ \A y \in Zones \ {z} : [dns EXCEPT ![z] = v][y] = dns[y]
    BY <1>1, <2>2, ContentSet
  <2> QED
    BY <1>1, <1>5, <2>1, <2>2, <2>3 DEF RecordKinds
<1>6. CASE h.kind = "deleteZone"
  <2>1. dns' = [dns EXCEPT ![z] = None]
    BY <1>2, <1>6 DEF Called
  <2>2. None \in Stored(z)
    BY DEF Stored
  <2>3. /\ [dns EXCEPT ![z] = None] \in Content /\ [dns EXCEPT ![z] = None][z] = None
        /\ \A y \in Zones \ {z} : [dns EXCEPT ![z] = None][y] = dns[y]
    BY <1>1, <2>2, ContentSet
  <2> QED
    BY <1>1, <1>6, <2>1, <2>3 DEF RecordKinds
<1> QED
  BY <1>1, <1>3, <1>4, <1>5, <1>6 DEF AllKinds, ZoneKinds

\* AddNew.
LEMMA AddNewEffect ==
    ASSUME Handlers, dns \in Content, NEW o \in Ops, AddNew(o)
    PROVE  op[o].zone \in Zones /\ dns[op[o].zone] # None /\ Changes(dns, dns', op[o].zone)
<1> DEFINE h == op[o]
           z == h.zone
<1>1. h \in Handler /\ Shaped(h) /\ h.pc = "add" /\ h.kind \in {"update", "updatePTR"}
  BY AddNewMoves DEF Handlers, AddNew
<1>2. z \in Zones /\ h.new \in Records /\ (z = "R" => h.new \in PTRs)
  BY <1>1 DEF Shaped, Active, RecordOp, ZoneOf, Zones, RecordKinds
<1>3. dns[z] # None /\ dns' = [dns EXCEPT ![z] = dns[z] \cup {h.new}]
  BY DEF AddNew, Exists
<1>4. dns[z] \cup {h.new} \subseteq Records /\ (z = "R" => dns[z] \cup {h.new} \subseteq PTRs)
  BY <1>2, <1>3, Contents
<1> QED
  BY <1>2, <1>3, <1>4, ChangesZone

\* DeletePTR, CreatePTR, CreatePTRWarns and ChangePTRAlone.
LEMMA PTREffect ==
    ASSUME Handlers, dns \in Content, NEW o \in Ops,
           DeletePTR(o) \/ CreatePTR(o) \/ CreatePTRWarns(o) \/ ChangePTRAlone(o)
    PROVE  Changes(dns, dns', "R")
<1> DEFINE h == op[o]
<1>1. h \in Handler /\ Shaped(h) /\ "R" \in Zones
  BY DEF Handlers, Zones
<1>2. CASE DeletePTR(o)
  BY <1>1, <1>2, ReverseChanges, ChangesNothing DEF DeletePTR
<1>3. CASE CreatePTR(o)
  <2>1. h.new \in PTRs
    BY <1>1, <1>3, CreatePTRMoves DEF Shaped, RecordOp, StepOp, Active, RecordKinds, CreatePTR
  <2> QED
    BY <1>3, <2>1, ReverseChanges DEF CreatePTR
<1>4. CASE ChangePTRAlone(o)
  <2>1. h.ptr => h.new \in PTRs
    BY <1>1, <1>4, ChangePTRAloneMoves DEF Shaped, RecordOp, StepOp, Active, RecordKinds, ChangePTRAlone
  <2>2. CASE h.ptr /\ (dns' = Reverse(h.new) \/ MadeUnknown(h))
    BY <2>1, <2>2, ReverseChanges, MadeUnknownExcuses
  <2>3. CASE /\ Target("R", h.rec, Rows("R", dns)) # {}
             /\ dns' = [dns EXCEPT !["R"] = @ \ Target("R", h.rec, @)]
    <3> DEFINE gone == Target("R", h.rec, dns["R"])
    <3>1. dns["R"] # None
      BY <2>3, TargetExists DEF Rows
    <3>2. dns' = [dns EXCEPT !["R"] = dns["R"] \ gone]
      BY <2>3
    <3> HIDE DEF gone
    <3>3. dns["R"] \ gone \subseteq Records /\ dns["R"] \ gone \subseteq PTRs
      BY <1>1, <3>1, Contents
    <3> QED
      BY <1>1, <3>1, <3>2, <3>3, ChangesZone
  <2>4. CASE dns' = dns
    BY <1>1, <2>4, ChangesNothing
  <2> QED
    BY <1>4, <2>2, <2>3, <2>4 DEF ChangePTRAlone
<1>5. CASE CreatePTRWarns(o)
  <2>1. h.new \in PTRs
    BY <1>1, <1>5 DEF Shaped, RecordOp, StepOp, Active, RecordKinds, CreatePTRWarns
  <2>2. dns' = dns \/ MadeUnknown(h)
    BY <1>5 DEF CreatePTRWarns
  <2> QED
    BY <1>1, <2>1, <2>2, ReverseChanges, ChangesNothing, MadeUnknownExcuses
<1> QED
  BY <1>2, <1>3, <1>4, <1>5

\* The steps on PTR records excuse R at most.
LEMMA PTRExcuses ==
    ASSUME NEW o \in Ops, DeletePTR(o) \/ CreatePTR(o) \/ CreatePTRWarns(o) \/ ChangePTRAlone(o)
    PROVE  excused \subseteq excused' /\ excused' \subseteq excused \cup {"R"}
<1>1. excused' = excused \/ MadeUnknown(op[o])
  BY DEF DeletePTR, CreatePTR, CreatePTRWarns, ChangePTRAlone
<1> QED
  BY <1>1, MadeUnknownExcuses

\* The flags of F are flags of its rows.
Flagging == flags \subseteq Rows("F", db)

\* SaveRecord.
LEMMA SaveRecordEffect ==
    ASSUME Handlers, db \in Content, Flagging, NEW o \in Ops, SaveRecord(o)
    PROVE  op[o].zone \in Zones /\ Changes(db, db', op[o].zone) /\ Flagging' /\ (op[o].zone = "R" => flags' = flags)
<1> DEFINE h == op[o]
           z == h.zone
<1>1. h \in Handler /\ Shaped(h) /\ h.pc = "save" /\ h.kind \in RecordKinds
  BY DEF Handlers, SaveRecord
<1>2. /\ z \in Zones /\ z = ZoneOf(h.kind) /\ h.rec \in Records /\ h.new \in Records
      /\ z = "R" => h.new \in PTRs
  BY <1>1 DEF Shaped, Active, RecordOp, ZoneOf, Zones
<1>3. CASE db' = db /\ flags' = flags
  BY <1>2, <1>3, ChangesNothing DEF Flagging
<1>4. CASE db[z] = None /\ db' = [db EXCEPT ![z] = IF Exists(z, db) THEN Patched(h, @) ELSE @]
           /\ flags' = flags
  <2>1. db' = [db EXCEPT ![z] = None]
    BY <1>4 DEF Exists
  <2>2. [db EXCEPT ![z] = None] = db
    BY <1>2, <1>4, ChangesNothing
  <2> QED
    BY <1>3, <1>4, <2>1, <2>2
<1>5. CASE db[z] # None /\ db' = [db EXCEPT ![z] = IF Exists(z, db) THEN Patched(h, @) ELSE @]
           /\ flags' = IF z = "F" THEN PatchedFlags(h) ELSE flags
  <2> DEFINE rows == Patched(h, db[z])
  <2>1. db' = [db EXCEPT ![z] = rows]
    BY <1>5 DEF Exists
  <2>2. db[z] \subseteq Records /\ (z = "R" => db[z] \subseteq PTRs)
    BY <1>2, <1>5, Contents DEF Rows
  <2>3. rows \subseteq Records /\ (z = "R" => rows \subseteq PTRs)
    BY <1>2, <2>2 DEF Patched
  <2>4. z = "F" => PatchedFlags(h) \subseteq rows
    <3> SUFFICES ASSUME z = "F" PROVE PatchedFlags(h) \subseteq rows
      OBVIOUS
    <3>1. flags \subseteq db[z]
      BY <1>5 DEF Flagging, Rows
    <3> QED
      BY <3>1 DEF PatchedFlags, Patched
  <2> HIDE DEF rows
  <2>5. Changes(db, [db EXCEPT ![z] = rows], z) /\ [db EXCEPT ![z] = rows][z] = rows
    <3>1. z \in Zones /\ db[z] # None
      BY <1>2, <1>5
    <3> HIDE DEF z
    <3> QED
      BY <2>3, <3>1, ChangesZone
  <2>6. Changes(db, db', z) /\ db'[z] = rows /\ rows # None
    BY <1>5, <2>1, <2>5 DEF Changes
  <2>7. CASE z = "F"
    BY <1>2, <1>5, <2>4, <2>6, <2>7 DEF Flagging, Rows
  <2>8. CASE z = "R"
    <3>1. "F" \in Zones \ {z}
      BY <2>8 DEF Zones
    <3>2. db'["F"] = db["F"] /\ flags' = flags
      BY <1>5, <2>6, <2>8, <3>1 DEF Changes
    <3> QED
      BY <1>2, <2>6, <2>8, <3>2 DEF Flagging, Rows
  <2> QED
    BY <1>2, <2>7, <2>8 DEF Zones
<1>6. CASE db[z] = None
  <2>1. flags' = flags
    BY <1>6 DEF SaveRecord, Exists
  <2> QED
    BY <1>3, <1>4, <1>6, <2>1 DEF SaveRecord
<1>7. CASE db[z] # None
  BY <1>3, <1>5, <1>7 DEF SaveRecord, Exists
<1> QED
  BY <1>6, <1>7

\* SavePTR.
LEMMA SavePTREffect ==
    ASSUME Handlers, db \in Content, Flagging, NEW o \in Ops, SavePTR(o)
    PROVE  Changes(db, db', "R") /\ Flagging'
<1> DEFINE h == op[o]
           add == h.ptr /\ ~h.warn
           drop == h.kind \in {"delete", "update"} /\ DropsPTR(h)
           rows == (IF drop THEN db["R"] \ {h.rec} ELSE db["R"]) \cup (IF add THEN {h.new} ELSE {})
<1>1. h \in Handler /\ Shaped(h) /\ h.pc = "savePTR" /\ h.kind \in RecordKinds /\ "R" \in Zones
  BY SavePTRMoves DEF Handlers, SavePTR, Zones
<1>2. h.ptr => h.new \in PTRs
  BY <1>1 DEF Shaped, Active, RecordOp
<1>3. db' = [db EXCEPT !["R"] = IF db["R"] = None THEN None ELSE rows]
  BY DEF SavePTR
<1>4. Changes(db, db', "R")
  <2>1. CASE db["R"] = None
    <3>1. db' = [db EXCEPT !["R"] = None]
      BY <1>3, <2>1
    <3>2. [db EXCEPT !["R"] = None] = db
      BY <1>1, <2>1, ChangesNothing
    <3>3. Changes(db, db, "R")
      BY <1>1, ChangesNothing
    <3> QED
      BY <3>1, <3>2, <3>3
  <2>2. CASE db["R"] # None
    <3>1. db["R"] \subseteq PTRs /\ PTRs \subseteq Records
      BY <1>1, <2>2, Contents DEF PTRs, Records, Rows
    <3>2. rows \subseteq PTRs /\ rows \subseteq Records
      BY <1>2, <3>1
    <3>3. db' = [db EXCEPT !["R"] = rows]
      BY <1>3, <2>2
    <3> HIDE DEF rows
    <3>4. Changes(db, [db EXCEPT !["R"] = rows], "R")
      BY <1>1, <2>2, <3>2, ChangesZone
    <3> QED
      BY <3>3, <3>4
  <2> QED
    BY <2>1, <2>2
<1>5. db'["F"] = db["F"] /\ flags' = flags
  BY <1>4 DEF Changes, Zones, SavePTR
<1> QED
  BY <1>4, <1>5 DEF Flagging, Rows

\* The snapshot of zone z is stored as a whole, or dropped.
LEMMA Stores ==
    ASSUME db \in Content, NEW z \in Zones, NEW v \in Stored(z)
    PROVE  /\ Flagging /\ db' = [db EXCEPT ![z] = v]
           /\ z = "F" => flags' \subseteq (IF v = None THEN {} ELSE v)
           /\ z = "R" => flags' = flags
           => db' \in Content /\ db'[z] = v /\ Flagging' /\ \A y \in Zones \ {z} : db'[y] = db[y]
<1>1. /\ [db EXCEPT ![z] = v] \in Content /\ [db EXCEPT ![z] = v][z] = v
      /\ \A y \in Zones \ {z} : [db EXCEPT ![z] = v][y] = db[y]
  BY ContentSet
<1> SUFFICES ASSUME Flagging, db' = [db EXCEPT ![z] = v],
                    z = "F" => flags' \subseteq (IF v = None THEN {} ELSE v), z = "R" => flags' = flags
             PROVE  db' \in Content /\ db'[z] = v /\ Flagging' /\ \A y \in Zones \ {z} : db'[y] = db[y]
  OBVIOUS
<1>2. db' \in Content /\ db'[z] = v /\ \A y \in Zones \ {z} : db'[y] = db[y]
  BY <1>1
<1>3. CASE z = "F"
  BY <1>2, <1>3 DEF Flagging, Rows
<1>4. CASE z = "R"
  <2>1. "F" \in Zones \ {z}
    BY <1>4 DEF Zones
  <2> QED
    BY <1>2, <1>4, <2>1 DEF Flagging, Rows
<1> QED
  BY <1>2, <1>3, <1>4 DEF Zones

\* SaveZone.
LEMMA SaveZoneEffect ==
    ASSUME Handlers, db \in Content, Flagging, NEW o \in Ops, SaveZone(o)
    PROVE  /\ op[o].zone \in Zones /\ db' \in Content /\ Flagging'
           /\ \A y \in Zones \ {op[o].zone} : db'[y] = db[y]
<1> DEFINE z == op[o].zone
<1>1. z \in Zones
  BY DEF Handlers, SaveZone, Shaped, ZoneOp, Active, ZoneKinds
<1>2. CASE db' = db
  BY <1>1, <1>2 DEF SaveZone, Flagging
<1>3. CASE db' = [db EXCEPT ![z] = IF db[z] = None THEN {} ELSE db[z]]
  <2> DEFINE v == IF db[z] = None THEN {} ELSE db[z]
  <2>1. v \in Stored(z)
    BY <1>1, Contents, Somewhere
  <2>2. flags' = flags /\ (z = "F" => flags \subseteq (IF v = None THEN {} ELSE v))
    BY DEF SaveZone, Flagging, Rows
  <2> HIDE DEF v
  <2>3. db' = [db EXCEPT ![z] = v]
    BY <1>3 DEF v
  <2> QED
    BY <1>1, <2>1, <2>2, <2>3, Stores
<1> QED
  BY <1>2, <1>3 DEF SaveZone

\* StoreFirst.
LEMMA StoreFirstEffect ==
    ASSUME Handlers, db \in Content, Flagging, NEW o \in Ops, StoreFirst(o)
    PROVE  /\ op[o].kind = "createZone" /\ op[o].zone \in Zones /\ db' \in Content /\ Flagging'
           /\ Becomes(o, Told(op[o], "mark", {op[o].zone}))
           /\ \A y \in Zones \ {op[o].zone} : db'[y] = db[y]
<1> DEFINE h == op[o]
           z == h.zone
<1>1. h \in Handler /\ Shaped(h) /\ h.pc = "replace" /\ op' = [op EXCEPT ![o].pc = "mark", ![o].tell = {z}]
  BY DEF Handlers, StoreFirst
<1>2. h.kind = "createZone" /\ Becomes(o, Told(h, "mark", {z}))
  BY <1>1, ZoneTold
<1>3. z \in Zones /\ h.seen \in Stored(z)
  BY <1>1, <1>2 DEF Shaped, ZoneOp, Active, ZoneKinds
<1>4. CASE db' = db /\ flags' = flags
  BY <1>2, <1>3, <1>4 DEF Flagging
<1>5. CASE db' = [db EXCEPT ![z] = h.seen] /\ flags' = IF z = "F" THEN {} ELSE flags
  <2>1. /\ z = "F" => flags' \subseteq (IF h.seen = None THEN {} ELSE h.seen)
        /\ z = "R" => flags' = flags
    BY <1>5
  <2>2. db' \in Content /\ Flagging' /\ \A y \in Zones \ {z} : db'[y] = db[y]
    BY <1>3, <1>5, <2>1, Stores
  <2> QED
    BY <1>2, <1>3, <2>2
<1> QED
  BY <1>4, <1>5 DEF StoreFirst

\* DropZone.
LEMMA DropZoneEffect ==
    ASSUME Handlers, db \in Content, Flagging, NEW o \in Ops, DropZone(o)
    PROVE  /\ op[o].zone \in Zones /\ db' \in Content /\ Flagging'
           /\ \A y \in Zones \ {op[o].zone} : db'[y] = db[y]
           /\ op[o].zone \notin excused' => db'[op[o].zone] = None
<1> DEFINE z == op[o].zone
<1>1. z \in Zones /\ None \in Stored(z)
  BY DEF Handlers, DropZone, Shaped, ZoneOp, Active, ZoneKinds, Stored
<1>2. CASE db' = db /\ flags' = flags /\ z \in excused'
  BY <1>1, <1>2 DEF Flagging
<1>3. CASE db' = [db EXCEPT ![z] = None] /\ flags' = IF z = "F" THEN {} ELSE flags
  <2>1. /\ z = "F" => flags' \subseteq (IF None = None THEN {} ELSE None)
        /\ z = "R" => flags' = flags
    BY <1>3
  <2>2. db' \in Content /\ db'[z] = None /\ Flagging' /\ \A y \in Zones \ {z} : db'[y] = db[y]
    BY <1>1, <1>3, <2>1, Stores
  <2> QED
    BY <1>1, <2>2
<1> QED
  BY <1>2, <1>3 DEF DropZone

-----------------------------------------------------------------------------
(***************************************************************************)
(* The types, and where jobs and the synchronisation stand.                *)
(***************************************************************************)
Typed ==
    /\ dns \in Content /\ db \in Content /\ Flagging
    /\ owed \subseteq Zones /\ queued \subseteq Zones
    /\ job \in [Sides -> [Zones -> Job]] /\ sync \in Synchronisation
    /\ excused \subseteq Zones /\ touched \subseteq Zones /\ apart \in BOOLEAN
    /\ scenario \in Scene

\* Only a job of F reads R too, and flags its own records.
JobFits(z, j) ==
    IF z = "R" THEN j.pc \in {"idle", "fetch", "store"} /\ j.recs \subseteq PTRs
    ELSE j.ptrs \subseteq j.recs /\ (j.pc \in {"idle", "fetch", "reverse"} => j.ptrs = {})

\* A task does not wait beside a running one.
JobShape ==
    /\ \A k \in Sides, z \in Zones : JobFits(z, job[k][z])
    /\ \A z \in queued : job["task"][z].pc = "idle"

\* The goroutines of a synchronisation run while it waits for them.
SyncShape ==
    /\ sync.pc # "pool" => sync.todo = {} /\ \A z \in Zones : job["full"][z].pc = "idle"
    /\ sync.todo \subseteq sync.listed
    /\ \A z \in sync.todo : job["full"][z].pc = "idle"

ShapeInv == Handlers /\ Typed /\ JobShape /\ SyncShape

\* A job at a step.
JobAt(pc, recs, rev, ptrs) == [pc |-> pc, recs |-> recs, rev |-> rev, ptrs |-> ptrs]

\* The job of zone z becomes j, the others stay.
Works(k, z, j) == job' = [job EXCEPT ![k][z] = j] /\ j \in Job

\* The jobs after a step of one.
LEMMA JobsStay ==
    ASSUME job \in [Sides -> [Zones -> Job]], NEW k \in Sides, NEW z \in Zones, NEW j, Works(k, z, j)
    PROVE  /\ job' \in [Sides -> [Zones -> Job]] /\ job'[k][z] = j
           /\ \A i \in Sides, y \in Zones : i # k \/ y # z => job'[i][y] = job[i][y]
BY DEF Works

\* A job at rest.
LEMMA NoJobTyped == NoJob = JobAt("idle", {}, {}, {}) /\ NoJob \in Job
BY DEF NoJob, JobAt, Job, JobSteps

\* A job that goes to another step.
LEMMA JobMoves ==
    ASSUME job \in [Sides -> [Zones -> Job]], NEW k \in Sides, NEW z \in Zones, NEW pc \in JobSteps,
           job' = [job EXCEPT ![k][z].pc = pc]
    PROVE  Works(k, z, JobAt(pc, job[k][z].recs, job[k][z].rev, job[k][z].ptrs))
<1> DEFINE j == job[k][z]
<1>1. j \in Job
  OBVIOUS
<1>2. job' = [job EXCEPT ![k][z] = [j EXCEPT !.pc = pc]]
  OBVIOUS
<1>3. [j EXCEPT !.pc = pc] = JobAt(pc, j.recs, j.rev, j.ptrs)
  BY <1>1 DEF Job, JobAt
<1>4. JobAt(pc, j.recs, j.rev, j.ptrs) \in Job
  BY <1>1 DEF Job, JobAt
<1> QED
  BY <1>2, <1>3, <1>4 DEF Works

\* StartTask.
LEMMA StartTaskWorks ==
    ASSUME ShapeInv, NEW z \in Zones, StartTask(z)
    PROVE  LET j == job["task"][z] IN Works("task", z, JobAt("fetch", j.recs, j.rev, j.ptrs))
<1>1. job \in [Sides -> [Zones -> Job]] /\ job["task"][z].pc = "idle" /\ "task" \in Sides
  BY DEF ShapeInv, Typed, JobShape, StartTask, Sides
<1>2. job' = [job EXCEPT !["task"][z].pc = "fetch"]
  BY <1>1 DEF StartTask
<1> QED
  BY <1>1, <1>2, JobMoves DEF JobSteps

\* FetchZone: it has read the zone, or it ends.
LEMMA FetchZoneWorks ==
    ASSUME ShapeInv, NEW k \in Sides, NEW z \in Zones, FetchZone(k, z)
    PROVE  LET j == job[k][z] IN
           \/ /\ dns[z] # None /\ UNCHANGED <<sync, excused>>
              /\ Works(k, z, JobAt(IF z = "F" THEN "reverse" ELSE "store", dns[z], j.rev, j.ptrs))
           \/ Works(k, z, NoJob) /\ JobFails(k, z)
<1> DEFINE j == job[k][z]
           pc == IF z = "F" THEN "reverse" ELSE "store"
           c == dns[z]
<1>1. job \in [Sides -> [Zones -> Job]] /\ j \in Job
  BY DEF ShapeInv, Typed
<1>2. CASE /\ Exists(z, dns) /\ UNCHANGED <<sync, excused>>
           /\ job' = [job EXCEPT ![k][z].pc = pc, ![k][z].recs = c]
  <2>1. c \in SUBSET Records /\ c # None
    BY <1>2, Contents DEF ShapeInv, Typed, Exists
  <2>2. pc \in JobSteps
    BY DEF JobSteps
  <2> HIDE DEF c, pc
  <2>3. job' = [job EXCEPT ![k][z] = [j EXCEPT !.pc = pc, !.recs = c]]
    BY <1>1, <1>2
  <2>4. [j EXCEPT !.pc = pc, !.recs = c] = JobAt(pc, c, j.rev, j.ptrs)
    <3> DEFINE j1 == [j EXCEPT !.pc = pc]
    <3>1. j1 = JobAt(pc, j.recs, j.rev, j.ptrs)
      BY <1>1 DEF Job, JobAt
    <3> HIDE DEF j1
    <3>2. [j1 EXCEPT !.recs = c] = JobAt(pc, c, j.rev, j.ptrs)
      BY <3>1 DEF JobAt
    <3> QED
      BY <3>2 DEF j1
  <2>5. JobAt(pc, c, j.rev, j.ptrs) \in Job
    BY <1>1, <2>1, <2>2 DEF Job, JobAt
  <2>6. Works(k, z, JobAt(pc, c, j.rev, j.ptrs))
    BY <2>3, <2>4, <2>5 DEF Works
  <2> QED
    BY <1>2, <2>1, <2>6 DEF pc, c
<1>3. CASE JobFails(k, z)
  BY <1>3, NoJobTyped DEF JobFails, JobEnds, Works
<1> QED
  BY <1>2, <1>3 DEF FetchZone

\* FetchReverse, only for F: the flags are those of R, or none.
LEMMA FetchReverseWorks ==
    ASSUME ShapeInv, NEW k \in Sides, NEW z \in Zones, FetchReverse(k, z)
    PROVE  LET j == job[k][z] IN
           /\ z = "F"
           /\ \/ /\ Works(k, z, JobAt("storeR", j.recs, dns["R"], dns["R"] \cap j.recs))
                 /\ dns["R"] # None /\ UNCHANGED <<sync, apart>>
              \/ /\ Works(k, z, JobAt("store", j.recs, j.rev, j.ptrs))
                 /\ \/ /\ UNCHANGED <<sync, apart>>
                       /\ db["R"] = None \/ \A x \in j.recs : ~IsA(x)
                    \/ /\ apart' = TRUE
                       /\ sync' = IF k = "full" THEN [sync EXCEPT !.blind = TRUE] ELSE sync
<1> DEFINE j == job[k][z]
           r == dns["R"]
           known == Exists("R", db) /\ \E x \in job[k][z].recs : IsA(x)
<1>1. job \in [Sides -> [Zones -> Job]] /\ j \in Job /\ j.pc = "reverse"
  BY DEF ShapeInv, Typed, FetchReverse
<1>2. z = "F"
  BY <1>1 DEF ShapeInv, JobShape, JobFits, Zones
<1>3. CASE /\ r # None /\ UNCHANGED <<sync, apart>>
           /\ job' = [job EXCEPT ![k][z].pc = "storeR", ![k][z].rev = r, ![k][z].ptrs = r \cap j.recs]
  <2> DEFINE both == r \cap j.recs
  <2>1. r \in SUBSET PTRs
    BY <1>3, Contents DEF ShapeInv, Typed, Rows, Zones
  <2>2. both \in SUBSET PTRs
    BY <2>1
  <2> HIDE DEF r, both
  <2>3. job' = [job EXCEPT ![k][z] = [j EXCEPT !.pc = "storeR", !.rev = r, !.ptrs = both]]
    BY <1>1, <1>3 DEF both
  <2>4. [j EXCEPT !.pc = "storeR", !.rev = r, !.ptrs = both] = JobAt("storeR", j.recs, r, both)
    <3> DEFINE j1 == [j EXCEPT !.pc = "storeR"]
               j2 == [j1 EXCEPT !.rev = r]
    <3>1. j1 = JobAt("storeR", j.recs, j.rev, j.ptrs)
      BY <1>1 DEF Job, JobAt
    <3> HIDE DEF j1
    <3>2. j2 = JobAt("storeR", j.recs, r, j.ptrs)
      BY <3>1 DEF JobAt
    <3> HIDE DEF j2
    <3>3. [j2 EXCEPT !.ptrs = both] = JobAt("storeR", j.recs, r, both)
      BY <3>2 DEF JobAt
    <3> QED
      BY <3>3 DEF j1, j2
  <2>5. JobAt("storeR", j.recs, r, both) \in Job
    BY <1>1, <2>1, <2>2 DEF Job, JobAt, JobSteps
  <2>6. Works(k, z, JobAt("storeR", j.recs, r, both))
    BY <2>3, <2>4, <2>5 DEF Works
  <2> QED
    BY <1>2, <1>3, <2>6 DEF r, both
<1>4. ASSUME job' = [job EXCEPT ![k][z].pc = "store"]
      PROVE  Works(k, z, JobAt("store", j.recs, j.rev, j.ptrs))
  BY <1>1, <1>4, JobMoves DEF JobSteps
<1>5. CASE ~known
  <2>1. job' = [job EXCEPT ![k][z].pc = "store"] /\ UNCHANGED <<sync, apart>>
    BY <1>5 DEF FetchReverse
  <2> QED
    BY <1>2, <1>4, <1>5, <2>1 DEF Exists
<1>6. CASE known /\ ~(Exists("R", dns) /\ NoFault /\ UNCHANGED <<sync, apart>>
             /\ job' = [job EXCEPT ![k][z].pc = "storeR", ![k][z].rev = r, ![k][z].ptrs = r \cap j.recs])
  <2>1. /\ job' = [job EXCEPT ![k][z].pc = "store"] /\ apart' = TRUE
        /\ sync' = IF k = "full" THEN [sync EXCEPT !.blind = TRUE] ELSE sync
    BY <1>6 DEF FetchReverse
  <2> QED
    BY <1>2, <1>4, <2>1
<1> QED
  BY <1>3, <1>5, <1>6 DEF Exists

\* StoreReverse, only for F.
LEMMA StoreReverseWorks ==
    ASSUME ShapeInv, NEW k \in Sides, NEW z \in Zones, StoreReverse(k, z)
    PROVE  LET j == job[k][z] IN z = "F" /\ Works(k, z, JobAt("store", j.recs, {}, j.ptrs))
<1> DEFINE j == job[k][z]
<1> PICK none \in SUBSET PTRs : none = {}
  OBVIOUS
<1>1. job \in [Sides -> [Zones -> Job]] /\ j \in Job /\ j.pc = "storeR"
  BY DEF ShapeInv, Typed, StoreReverse
<1>2. z = "F"
  BY <1>1 DEF ShapeInv, JobShape, JobFits, Zones
<1>3. job' = [job EXCEPT ![k][z] = [j EXCEPT !.pc = "store", !.rev = none]]
  BY <1>1 DEF StoreReverse
<1>4. [j EXCEPT !.pc = "store", !.rev = none] = JobAt("store", j.recs, none, j.ptrs)
  <2> DEFINE j1 == [j EXCEPT !.pc = "store"]
  <2>1. j1 = JobAt("store", j.recs, j.rev, j.ptrs)
    BY <1>1 DEF Job, JobAt
  <2> HIDE DEF j1
  <2>2. [j1 EXCEPT !.rev = none] = JobAt("store", j.recs, none, j.ptrs)
    BY <2>1 DEF JobAt
  <2> QED
    BY <2>2 DEF j1
<1>5. JobAt("store", j.recs, none, j.ptrs) \in Job
  BY <1>1 DEF Job, JobAt, JobSteps
<1>6. Works(k, z, JobAt("store", j.recs, none, j.ptrs))
  BY <1>3, <1>4, <1>5 DEF Works
<1> QED
  BY <1>2, <1>6

\* StoreZone ends the job.
LEMMA StoreZoneWorks ==
    ASSUME ShapeInv, NEW k \in Sides, NEW z \in Zones, StoreZone(k, z)
    PROVE  Works(k, z, NoJob)
BY NoJobTyped DEF StoreZone, JobFails, JobEnds, Works

\* SyncZone hands a zone to a goroutine.
LEMMA SyncZoneWorks ==
    ASSUME ShapeInv, NEW z \in Zones, SyncZone(z)
    PROVE  LET j == job["full"][z] IN Works("full", z, JobAt("fetch", j.recs, j.rev, j.ptrs))
<1>1. job \in [Sides -> [Zones -> Job]] /\ "full" \in Sides
  BY DEF ShapeInv, Typed, Sides
<1>2. job' = [job EXCEPT !["full"][z].pc = "fetch"]
  BY DEF SyncZone
<1> QED
  BY <1>1, <1>2, JobMoves DEF JobSteps

\* Failures are counted down.
LEMMA FaultTyped == scenario \in Scene /\ (Fault \/ NoFault) => scenario' \in Scene
<1>1. ASSUME scenario \in Scene, Fault PROVE scenario' \in Scene
  <2>1. scenario.faults \in Nat /\ scenario.faults > 0
    BY <1>1 DEF Scene, Fault
  <2>2. PICK n \in Nat : n = scenario.faults - 1
    BY <2>1
  <2>3. scenario' = [scenario EXCEPT !.faults = n]
    BY <1>1, <2>2 DEF Fault
  <2> QED
    BY <1>1, <2>3 DEF Scene
<1> QED
  BY <1>1 DEF NoFault

\* Zones touched are zones.
LEMMA TouchTyped == \A zones \in SUBSET Zones : touched \subseteq Zones /\ Touch(zones) => touched' \subseteq Zones
BY DEF Touch

\* The zone of a handler.
LEMMA ZoneTyped ==
    ASSUME Handlers, NEW o \in Ops, Active(op[o])
    PROVE  op[o].zone \in Zones
BY DEF Handlers, Shaped, RecordOp, ZoneOp, ZoneOf, Zones, AllKinds

\* What a handler changes besides its own state.
LEMMA HandlerShape ==
    ASSUME ShapeInv, Handlers', dns' \in Content, db' \in Content, Flagging', UNCHANGED <<tasks, job, sync>>,
           scenario' \in Scene, excused' \subseteq Zones, touched' \subseteq Zones, apart' \in BOOLEAN
    PROVE  ShapeInv'
BY DEF ShapeInv, Typed, JobShape, SyncShape, tasks

\* The same for a step that leaves the contents.
LEMMA HandlerReads ==
    ASSUME ShapeInv, Handlers', UNCHANGED <<server, tasks, job, sync>>,
           scenario' \in Scene, excused' \subseteq Zones, touched' \subseteq Zones, apart' \in BOOLEAN
    PROVE  ShapeInv'
<1>1. dns' \in Content /\ db' \in Content /\ Flagging'
  BY DEF ShapeInv, Typed, server, Flagging
<1> QED
  BY <1>1, HandlerShape

\* The step of a handler that starts.
LEMMA StartShape ==
    ASSUME ShapeInv, NEW o \in Ops, NEW new, Start(o, new), NEW h, Becomes(o, h)
    PROVE  ShapeInv'
<1>1. Handlers'
  BY OthersStay DEF ShapeInv
<1>2. UNCHANGED <<server, tasks, job, sync>> /\ scenario' \in Scene /\ excused' \subseteq Zones
      /\ touched' \subseteq Zones /\ apart' \in BOOLEAN
  BY DEF Start, ShapeInv, Typed, history
<1> QED
  BY <1>1, <1>2, HandlerReads

\* The steps of handlers.
LEMMA OpShape ==
    ASSUME ShapeInv, NEW o \in Ops, OpStep(o)
    PROVE  ShapeInv'
<1> DEFINE h == op[o]
<1>0. /\ Handlers /\ dns \in Content /\ db \in Content /\ Flagging /\ scenario \in Scene /\ excused \subseteq Zones
      /\ touched \subseteq Zones /\ apart \in BOOLEAN
  BY DEF ShapeInv, Typed
<1>1. CASE ReadForCreate(o) \/ ReadForDelete(o) \/ ReadForUpdate(o)
  <2>1. Handlers'
    BY <1>0, <1>1, OthersStay, ReadForCreateMoves, ReadForDeleteMoves, ReadForUpdateMoves
  <2>2. UNCHANGED <<server, tasks, job, sync, scenario, history>>
    BY <1>1 DEF ReadForCreate, ReadForDelete, ReadForUpdate
  <2> QED
    BY <1>0, <2>1, <2>2, HandlerReads DEF history
<1>2. CASE CallAgent(o)
  <2>1. Handlers'
    BY <1>0, <1>2, OthersStay, CallAgentMoves
  <2>2. dns' \in Content /\ h.zone \in Zones
    BY <1>0, <1>2, CallAgentEffect
  <2>3. touched' \subseteq Zones /\ Flagging'
    BY <1>0, <1>2, <2>2, TouchTyped DEF CallAgent, Flagging
  <2>4. db' = db /\ UNCHANGED <<tasks, job, sync, scenario, excused>> /\ apart' \in BOOLEAN
    BY <1>2 DEF CallAgent, Apart
  <2> QED
    BY <1>0, <2>1, <2>2, <2>3, <2>4, HandlerShape
<1>3. CASE AddNew(o)
  <2>1. Handlers'
    BY <1>0, <1>3, OthersStay, AddNewMoves
  <2>2. dns' \in Content /\ h.zone \in Zones
    BY <1>0, <1>3, AddNewEffect DEF Changes
  <2>3. touched' \subseteq Zones /\ Flagging'
    BY <1>0, <1>3, <2>2, TouchTyped DEF AddNew, Flagging
  <2>4. db' = db /\ UNCHANGED <<tasks, job, sync, scenario, excused, apart>>
    BY <1>3 DEF AddNew
  <2> QED
    BY <1>0, <2>1, <2>2, <2>3, <2>4, HandlerShape
<1>4. CASE DeletePTR(o) \/ CreatePTR(o) \/ CreatePTRWarns(o) \/ ChangePTRAlone(o)
  <2>1. Handlers'
    BY <1>0, <1>4, OthersStay, DeletePTRMoves, CreatePTRMoves, CreatePTRWarnsMoves, ChangePTRAloneMoves
  <2>2. dns' \in Content /\ {"R"} \in SUBSET Zones
    BY <1>0, <1>4, PTREffect DEF Changes, Zones
  <2>3. touched' \subseteq Zones /\ Flagging'
    BY <1>0, <1>4, <2>2, TouchTyped DEF DeletePTR, CreatePTR, CreatePTRWarns, ChangePTRAlone, Flagging
  <2>4. db' = db /\ UNCHANGED <<tasks, job, sync, apart>> /\ scenario' \in Scene
    BY <1>0, <1>4, FaultTyped DEF DeletePTR, CreatePTR, CreatePTRWarns, ChangePTRAlone, NoFault
  <2>5. excused' \subseteq Zones
    BY <1>0, <1>4, <2>2, PTRExcuses
  <2> QED
    BY <1>0, <2>1, <2>2, <2>3, <2>4, <2>5, HandlerShape
<1>6. CASE CallFails(o)
  <2>1. Handlers'
    BY <1>0, <1>6, OthersStay, MovesDone DEF CallFails
  <2>2. UNCHANGED <<server, tasks, job, sync, apart, touched>> /\ scenario' \in Scene
    BY <1>0, <1>6, FaultTyped DEF CallFails
  <2>3. Changed(h) \subseteq Zones
    BY <1>0, ZoneTyped DEF Changed, Active, Zones
  <2>4. excused' \subseteq Zones
    BY <1>0, <1>6, <2>3 DEF CallFails
  <2> QED
    BY <1>0, <2>1, <2>2, <2>4, HandlerReads
<1>7. CASE SaveRecord(o)
  <2>1. Handlers'
    BY <1>0, <1>7, OthersStay, SaveRecordMoves
  <2>2. db' \in Content /\ Flagging' /\ {h.zone} \in SUBSET Zones
    BY <1>0, <1>7, SaveRecordEffect DEF Changes
  <2>3. touched' \subseteq Zones
    BY <1>0, <1>7, <2>2, TouchTyped DEF SaveRecord
  <2>4. dns' = dns /\ UNCHANGED <<tasks, job, sync, excused, apart>> /\ scenario' \in Scene
    BY <1>0, <1>7, FaultTyped DEF SaveRecord
  <2> QED
    BY <1>0, <2>1, <2>2, <2>3, <2>4, HandlerShape
<1>8. CASE SavePTR(o)
  <2>1. Handlers'
    BY <1>0, <1>8, OthersStay, SavePTRMoves
  <2>2. db' \in Content /\ Flagging' /\ {"R"} \in SUBSET Zones
    BY <1>0, <1>8, SavePTREffect DEF Changes, Zones
  <2>3. touched' \subseteq Zones
    BY <1>0, <1>8, <2>2, TouchTyped DEF SavePTR
  <2>4. dns' = dns /\ UNCHANGED <<tasks, job, sync, apart, scenario>> /\ excused' \subseteq Zones
    BY <1>0, <1>8, <2>2 DEF SavePTR
  <2> QED
    BY <1>0, <2>1, <2>2, <2>3, <2>4, HandlerShape
<1>9. CASE SaveZone(o)
  <2>1. Handlers'
    BY <1>0, <1>9, OthersStay, SaveZoneMoves
  <2>2. db' \in Content /\ Flagging' /\ {h.zone} \in SUBSET Zones
    BY <1>0, <1>9, SaveZoneEffect
  <2>3. touched' \subseteq Zones
    BY <1>0, <1>9, <2>2, TouchTyped DEF SaveZone
  <2>4. dns' = dns /\ UNCHANGED <<tasks, job, sync, excused, apart>> /\ scenario' \in Scene
    BY <1>0, <1>9, FaultTyped DEF SaveZone
  <2> QED
    BY <1>0, <2>1, <2>2, <2>3, <2>4, HandlerShape
<1>10. CASE FetchFirst(o)
  <2>1. Handlers'
    BY <1>0, <1>10, OthersStay, FetchFirstMoves
  <2>2. UNCHANGED <<server, tasks, job, sync, history>> /\ scenario' \in Scene
    BY <1>0, <1>10, FaultTyped DEF FetchFirst
  <2> QED
    BY <1>0, <2>1, <2>2, HandlerReads DEF history
<1>11. CASE StoreFirst(o)
  <2>1. Handlers' /\ db' \in Content /\ Flagging' /\ {h.zone} \in SUBSET Zones
    BY <1>0, <1>11, OthersStay, StoreFirstEffect
  <2>2. touched' \subseteq Zones
    BY <1>0, <1>11, <2>1, TouchTyped DEF StoreFirst
  <2>3. dns' = dns /\ UNCHANGED <<tasks, job, sync, excused, apart>> /\ scenario' \in Scene
    BY <1>0, <1>11, FaultTyped DEF StoreFirst
  <2> QED
    BY <1>0, <2>1, <2>2, <2>3, HandlerShape
<1>12. CASE DropZone(o)
  <2>1. Handlers'
    BY <1>0, <1>12, OthersStay, MovesDone DEF DropZone
  <2>2. db' \in Content /\ Flagging' /\ {h.zone} \in SUBSET Zones
    BY <1>0, <1>12, DropZoneEffect
  <2>3. touched' \subseteq Zones
    BY <1>0, <1>12, <2>2, TouchTyped DEF DropZone
  <2>4. excused' \subseteq Zones
    BY <1>0, <1>12, <2>2 DEF DropZone
  <2>5. dns' = dns /\ UNCHANGED <<tasks, job, sync, apart>> /\ scenario' \in Scene
    BY <1>0, <1>12, FaultTyped DEF DropZone
  <2> QED
    BY <1>0, <2>1, <2>2, <2>3, <2>4, <2>5, HandlerShape
<1>13. CASE MarkDirty(o)
  <2>1. Handlers'
    BY <1>0, <1>13, OthersStay, MovesDone DEF MarkDirty
  <2>2. UNCHANGED <<server, queued, job, sync, scenario, history>>
    BY <1>13 DEF MarkDirty
  <2>3. owed' \subseteq Zones
    <3>1. h \in Handler
      BY <1>0 DEF Handlers
    <3> QED
      BY <1>13, <3>1 DEF MarkDirty, Handler, ShapeInv, Typed
  <2>4. Typed'
    BY <2>2, <2>3 DEF ShapeInv, Typed, Flagging, server, history
  <2> QED
    BY <2>1, <2>2, <2>4 DEF ShapeInv, JobShape, SyncShape
<1> QED
  BY <1>1, <1>2, <1>3, <1>4, <1>6, <1>7, <1>8, <1>9, <1>10, <1>11, <1>12, <1>13 DEF OpStep

\* Fire, RequestRefresh and StartTask.
LEMMA TaskShape ==
    ASSUME ShapeInv, NEW z \in Zones, Fire(z) \/ RequestRefresh(z) \/ StartTask(z)
    PROVE  ShapeInv'
<1>1. CASE Fire(z)
  <2>1. UNCHANGED <<server, op, job, sync, apart, touched>> /\ owed' \subseteq Zones /\ scenario' \in Scene
    BY <1>1, FaultTyped DEF Fire, ShapeInv, Typed
  <2>2. queued' \subseteq Zones /\ excused' \subseteq Zones /\ \A y \in queued' : job["task"][y].pc = "idle"
    BY <1>1 DEF Fire, ShapeInv, Typed, JobShape
  <2>3. Typed'
    BY <2>1, <2>2 DEF ShapeInv, Typed, Flagging, server
  <2> QED
    BY <2>1, <2>2, <2>3 DEF ShapeInv, Handlers, JobShape, SyncShape
<1>2. CASE RequestRefresh(z)
  <2>1. UNCHANGED <<server, op, owed, job, sync, scenario, history>>
    BY <1>2 DEF RequestRefresh
  <2>2. queued' \subseteq Zones /\ \A y \in queued' : job["task"][y].pc = "idle"
    BY <1>2 DEF RequestRefresh, ShapeInv, Typed, JobShape
  <2>3. Typed'
    BY <2>1, <2>2 DEF ShapeInv, Typed, Flagging, server, history
  <2> QED
    BY <2>1, <2>2, <2>3 DEF ShapeInv, Handlers, JobShape, SyncShape
<1>3. CASE StartTask(z)
  <2> DEFINE j == job["task"][z]
             n == JobAt("fetch", j.recs, j.rev, j.ptrs)
  <2>1. UNCHANGED <<server, op, owed, sync, scenario, history>> /\ queued' = queued \ {z}
    BY <1>3 DEF StartTask
  <2>2. job \in [Sides -> [Zones -> Job]] /\ "task" \in Sides /\ "full" \in Sides /\ "F" \in Zones /\ "R" \in Zones
    BY DEF ShapeInv, Typed, Sides, Zones
  <2>3. /\ job' \in [Sides -> [Zones -> Job]] /\ job'["task"][z] = n
        /\ \A i \in Sides, y \in Zones : i # "task" \/ y # z => job'[i][y] = job[i][y]
    BY <1>3, <2>2, JobsStay, StartTaskWorks
  <2>4. n.pc = "fetch" /\ n.recs = j.recs /\ n.ptrs = j.ptrs
    BY DEF JobAt
  <2>5. Typed'
    BY <2>1, <2>3 DEF ShapeInv, Typed, Flagging, server, history
  <2>6. JobShape'
    <3>1. z \in queued /\ j.pc = "idle"
      BY <1>3 DEF StartTask, ShapeInv, JobShape
    <3>2. ASSUME NEW k \in Sides, NEW y \in Zones PROVE JobFits(y, job'[k][y])
      <4>1. CASE k = "task" /\ y = z
        BY <2>3, <2>4, <3>1, <4>1 DEF ShapeInv, JobShape, JobFits
      <4>2. CASE k # "task" \/ y # z
        <5>1. job'[k][y] = job[k][y]
          BY <2>3, <4>2
        <5> QED
          BY <5>1 DEF ShapeInv, JobShape
      <4> QED
        BY <4>1, <4>2
    <3>3. \A y \in queued' : job'["task"][y].pc = "idle"
      BY <2>1, <2>2, <2>3 DEF ShapeInv, Typed, JobShape
    <3> QED
      BY <3>2, <3>3 DEF JobShape
  <2>7. SyncShape'
    <3>1. \A y \in Zones : job'["full"][y] = job["full"][y]
      BY <2>2, <2>3
    <3> QED
      BY <2>1, <3>1 DEF ShapeInv, Typed, SyncShape, Synchronisation
  <2> QED
    BY <2>1, <2>5, <2>6, <2>7 DEF ShapeInv, Handlers
<1> QED
  BY <1>1, <1>2, <1>3

\* A step of a job, which may end, keeps the shape of all.
LEMMA WorkShape ==
    ASSUME ShapeInv, NEW k \in Sides, NEW z \in Zones, NEW j, Works(k, z, j), JobFits(z, j),
           job[k][z].pc # "idle", UNCHANGED <<op, tasks>>, touched' \subseteq Zones,
           dns' = dns, db' \in Content, Flagging', scenario' \in Scene, excused' \subseteq Zones, apart' \in BOOLEAN,
           sync' \in Synchronisation, sync'.pc = sync.pc, sync'.todo = sync.todo, sync'.listed = sync.listed
    PROVE  ShapeInv'
<1>1. job \in [Sides -> [Zones -> Job]] /\ "task" \in Sides /\ "full" \in Sides /\ "F" \in Zones /\ "R" \in Zones
  BY DEF ShapeInv, Typed, Sides, Zones
<1>2. /\ job' \in [Sides -> [Zones -> Job]] /\ job'[k][z] = j
      /\ \A i \in Sides, y \in Zones : i # k \/ y # z => job'[i][y] = job[i][y]
  BY <1>1, JobsStay
<1>3. Typed'
  BY <1>2 DEF ShapeInv, Typed, tasks
<1>4. ASSUME NEW i \in Sides, NEW y \in Zones PROVE JobFits(y, job'[i][y])
  <2>1. CASE i = k /\ y = z
    BY <1>2, <2>1
  <2>2. CASE i # k \/ y # z
    <3>1. job'[i][y] = job[i][y]
      BY <1>2, <2>2
    <3> QED
      BY <3>1 DEF ShapeInv, JobShape
  <2> QED
    BY <2>1, <2>2
<1>5. \A y \in queued' : job'["task"][y].pc = "idle"
  BY <1>1, <1>2 DEF ShapeInv, Typed, JobShape, tasks
<1>6. JobShape'
  BY <1>4, <1>5 DEF JobShape
<1>7. SyncShape'
  <2>1. sync.pc # "pool" => sync.todo = {} /\ \A y \in Zones : job'["full"][y].pc = "idle"
    BY <1>1, <1>2 DEF ShapeInv, SyncShape
  <2>2. \A y \in sync.todo : job'["full"][y].pc = "idle"
    BY <1>1, <1>2 DEF ShapeInv, Typed, SyncShape, Synchronisation
  <2> QED
    BY <2>1, <2>2 DEF ShapeInv, SyncShape
<1> QED
  BY <1>3, <1>6, <1>7 DEF ShapeInv, Handlers

\* A synchronisation with a failure, or without the records of R.
LEMMA SyncMarked ==
    ASSUME sync \in Synchronisation,
           sync' = sync \/ sync' = [sync EXCEPT !.failed = TRUE] \/ sync' = [sync EXCEPT !.blind = TRUE]
    PROVE  /\ sync' \in Synchronisation /\ sync'.pc = sync.pc /\ sync'.todo = sync.todo
           /\ sync'.listed = sync.listed
BY DEF Synchronisation

\* The steps of jobs.
LEMMA JobStepShape ==
    ASSUME ShapeInv, NEW k \in Sides, NEW z \in Zones, JobStep(k, z)
    PROVE  ShapeInv'
<1> DEFINE j == job[k][z]
<1>0. /\ dns \in Content /\ db \in Content /\ Flagging /\ scenario \in Scene /\ excused \subseteq Zones
      /\ touched \subseteq Zones /\ apart \in BOOLEAN /\ sync \in Synchronisation /\ j \in Job
      /\ JobFits(z, j) /\ "R" \in Zones
  BY DEF ShapeInv, Typed, JobShape, Zones
<1>1. JobFits(z, NoJob)
  BY DEF JobFits, NoJob
<1>2. ASSUME JobFails(k, z)
      PROVE  excused' \subseteq Zones /\ (sync' = sync \/ sync' = [sync EXCEPT !.failed = TRUE])
  BY <1>0, <1>2 DEF JobFails
<1>3. CASE FetchZone(k, z)
  <2> DEFINE pc == IF z = "F" THEN "reverse" ELSE "store"
             n == JobAt(pc, dns[z], j.rev, j.ptrs)
  <2>1. j.pc # "idle" /\ UNCHANGED <<server, op, tasks, apart, touched>> /\ scenario' \in Scene
    BY <1>0, <1>3, FaultTyped DEF FetchZone
  <2>2. dns' = dns /\ db' \in Content /\ Flagging'
    BY <1>0, <2>1 DEF server, Flagging
  <2>3. CASE dns[z] # None /\ UNCHANGED <<sync, excused>> /\ Works(k, z, n)
    <3>1. dns[z] \subseteq Records /\ (z = "R" => dns[z] \subseteq PTRs)
      BY <1>0, <2>3, Contents DEF Rows
    <3>2. z = "F" => j.ptrs = {}
      BY <1>0, <1>3 DEF JobFits, FetchZone
    <3>3. JobFits(z, n)
      BY <3>1, <3>2 DEF JobFits, JobAt, Zones
    <3> QED
      BY <1>0, <2>1, <2>2, <2>3, <3>3, WorkShape
  <2>4. CASE Works(k, z, NoJob) /\ JobFails(k, z)
    BY <1>0, <1>1, <1>2, <2>1, <2>2, <2>4, SyncMarked, WorkShape
  <2> QED
    BY <1>3, <2>3, <2>4, FetchZoneWorks
<1>4. CASE FetchReverse(k, z)
  <2>1. j.pc # "idle" /\ UNCHANGED <<server, op, tasks, excused, touched>> /\ scenario' \in Scene
    BY <1>0, <1>4, FaultTyped DEF FetchReverse
  <2>2. dns' = dns /\ db' \in Content /\ Flagging'
    BY <1>0, <2>1 DEF server, Flagging
  <2>3. z = "F" /\ j.ptrs \subseteq j.recs
    BY <1>0, <1>4, FetchReverseWorks DEF JobFits
  <2>4. apart' \in BOOLEAN /\ (sync' = sync \/ sync' = [sync EXCEPT !.blind = TRUE])
    BY <1>0, <1>4, FetchReverseWorks
  <2>5. \E n : Works(k, z, n) /\ JobFits(z, n)
    <3>1. JobFits(z, JobAt("storeR", j.recs, dns["R"], dns["R"] \cap j.recs))
      BY <2>3 DEF JobFits, JobAt
    <3>2. JobFits(z, JobAt("store", j.recs, j.rev, j.ptrs))
      BY <2>3 DEF JobFits, JobAt
    <3> QED
      BY <1>4, <3>1, <3>2, FetchReverseWorks
  <2> QED
    BY <1>0, <2>1, <2>2, <2>4, <2>5, SyncMarked, WorkShape
<1>5. CASE StoreReverse(k, z)
  <2> DEFINE n == JobAt("store", j.recs, {}, j.ptrs)
  <2>1. /\ j.pc = "storeR" /\ UNCHANGED <<dns, flags, op, tasks, sync, apart>>
        /\ excused' \subseteq Zones /\ scenario' \in Scene
    BY <1>0, <1>5, FaultTyped DEF StoreReverse
  <2>2. {"R"} \in SUBSET Zones
    BY <1>0
  <2>3. touched' \subseteq Zones
    BY <1>0, <1>5, <2>2, TouchTyped DEF StoreReverse
  <2>4. z = "F" /\ Works(k, z, n)
    BY <1>5, StoreReverseWorks
  <2>5. JobFits(z, n)
    BY <1>0, <2>1, <2>4 DEF JobFits, JobAt
  <2>6. db' \in Content /\ Flagging'
    <3>1. CASE db' = db
      BY <1>0, <2>1, <3>1 DEF Flagging
    <3>2. CASE db' = [db EXCEPT !["R"] = j.rev]
      <4>1. j.rev \subseteq PTRs /\ PTRs \subseteq Records
        BY <1>0 DEF Job, PTRs, Records
      <4>2. j.rev \in Stored("R")
        BY <4>1 DEF Stored
      <4>3. flags' = flags
        BY <2>1
      <4> QED
        BY <1>0, <3>2, <4>2, <4>3, Stores
    <3> QED
      BY <1>5, <3>1, <3>2 DEF StoreReverse
  <2> QED
    BY <1>0, <2>1, <2>3, <2>4, <2>5, <2>6, SyncMarked, WorkShape
<1>6. CASE StoreZone(k, z)
  <2>1. j.pc = "store" /\ UNCHANGED <<dns, op, tasks, apart>> /\ scenario' \in Scene
    BY <1>0, <1>6, FaultTyped DEF StoreZone
  <2>2. excused' \subseteq Zones /\ (sync' = sync \/ sync' = [sync EXCEPT !.failed = TRUE])
    BY <1>0, <1>2, <1>6 DEF StoreZone
  <2>3. touched' \subseteq Zones
    <3>1. {z} \in SUBSET Zones
      OBVIOUS
    <3> QED
      BY <1>0, <1>6, <3>1, TouchTyped DEF StoreZone
  <2>4. Works(k, z, NoJob)
    BY <1>6, StoreZoneWorks
  <2>5. db' \in Content /\ Flagging'
    <3>1. CASE db' = db /\ flags' = flags
      BY <1>0, <3>1 DEF Flagging
    <3>2. CASE db' = [db EXCEPT ![z] = j.recs] /\ flags' = StoredFlags(z, j.recs, j.ptrs)
      <4>1. j.recs \subseteq Records /\ (z = "R" => j.recs \subseteq PTRs) /\ (z = "F" => j.ptrs \subseteq j.recs)
        BY <1>0 DEF Job, JobFits
      <4>2. j.recs \in Stored(z) /\ j.recs # None
        BY <4>1, Somewhere
      <4>3. /\ z = "F" => flags' \subseteq (IF j.recs = None THEN {} ELSE j.recs)
            /\ z = "R" => flags' = flags
        BY <3>2, <4>1, <4>2 DEF StoredFlags
      <4> QED
        BY <1>0, <3>2, <4>2, <4>3, Stores
    <3> QED
      BY <1>6, <3>1, <3>2 DEF StoreZone
  <2> QED
    BY <1>0, <1>1, <2>1, <2>2, <2>3, <2>4, <2>5, SyncMarked, WorkShape
<1> QED
  BY <1>3, <1>4, <1>5, <1>6 DEF JobStep

\* The updates of a synchronisation.
LEMMA SyncForms ==
    ASSUME sync \in Synchronisation
    PROVE  /\ NoSync \in Synchronisation
           /\ [NoSync EXCEPT !.pc = "list"] \in Synchronisation /\ [NoSync EXCEPT !.pc = "list"].pc = "list"
           /\ [NoSync EXCEPT !.pc = "list"].todo = {} /\ [NoSync EXCEPT !.pc = "list"].listed = {}
BY DEF NoSync, Synchronisation

\* SyncList and SyncReplace.
LEMMA ListShape ==
    ASSUME ShapeInv, SyncStart \/ SyncList \/ SyncReplace
    PROVE  ShapeInv'
<1>0. dns \in Content /\ db \in Content /\ Flagging /\ sync \in Synchronisation
  BY DEF ShapeInv, Typed
<1>1. CASE SyncStart
  <2>1. sync' \in Synchronisation /\ sync'.pc = "list" /\ sync'.todo = {}
    BY <1>0, <1>1, SyncForms DEF SyncStart
  <2>2. UNCHANGED <<server, op, tasks, job, scenario, excused, apart>> /\ touched' = {} /\ sync.pc # "pool"
    BY <1>1 DEF SyncStart
  <2>3. Typed'
    BY <2>1, <2>2 DEF ShapeInv, Typed, Flagging, server, tasks
  <2>4. SyncShape'
    BY <2>1, <2>2 DEF ShapeInv, SyncShape
  <2> QED
    BY <2>2, <2>3, <2>4 DEF ShapeInv, Handlers, JobShape, tasks
<1>2. CASE SyncList
  <2> DEFINE found == {z \in Zones : Exists(z, dns)}
  <2>1. sync.pc = "list" /\ UNCHANGED <<server, op, tasks, job, scenario, history>>
        /\ sync' = [sync EXCEPT !.pc = "replace", !.listed = found]
    BY <1>2 DEF SyncList
  <2>2. found \in SUBSET Zones
    OBVIOUS
  <2> HIDE DEF found
  <2>3. sync' \in Synchronisation /\ sync'.pc = "replace" /\ sync'.todo = sync.todo
    BY <1>0, <2>1, <2>2 DEF Synchronisation
  <2>4. Typed'
    BY <2>1, <2>3 DEF ShapeInv, Typed, Flagging, server, tasks, history
  <2>5. SyncShape'
    BY <2>1, <2>3 DEF ShapeInv, SyncShape
  <2> QED
    BY <2>1, <2>4, <2>5 DEF ShapeInv, Handlers, JobShape, tasks
<1>3. CASE SyncReplace
  <2>1. sync.pc = "replace" /\ UNCHANGED <<dns, op, tasks, job, scenario, history>>
        /\ sync' = [sync EXCEPT !.pc = "pool", !.todo = sync.listed]
    BY <1>3 DEF SyncReplace
  <2>2. /\ sync' \in Synchronisation /\ sync'.pc = "pool" /\ sync'.todo = sync.listed
        /\ sync'.listed = sync.listed
    BY <1>0, <2>1 DEF Synchronisation
  <2>3. db' = [F |-> IF "F" \notin sync.listed THEN None ELSE Rows("F", db),
               R |-> IF "R" \notin sync.listed THEN None ELSE Rows("R", db)]
    BY <1>3 DEF SyncReplace, Listed, Zones
  <2>4. Rows("F", db) \subseteq Records /\ Rows("R", db) \subseteq PTRs
    BY <1>0, Contents DEF Zones
  <2>5. Rows("F", db) # None
    BY <2>4, NoneAssumption
  <2>6. db' \in Content
    BY <2>3, <2>4 DEF Content
  <2>7. Flagging'
    <3>1. flags' = IF "F" \in sync.listed THEN flags ELSE {}
      BY <1>3 DEF SyncReplace
    <3>2. "F" \in sync.listed => db'["F"] = Rows("F", db) /\ db'["F"] # None
      BY <2>3, <2>5
    <3>3. "F" \in sync.listed => Rows("F", db') = Rows("F", db)
      BY <3>2 DEF Rows
    <3> QED
      BY <1>0, <3>1, <3>3 DEF Flagging
  <2>8. Typed'
    BY <2>1, <2>2, <2>6, <2>7 DEF ShapeInv, Typed, tasks, history
  <2>9. SyncShape'
    BY <2>1, <2>2 DEF ShapeInv, Typed, SyncShape, Synchronisation
  <2> QED
    BY <2>1, <2>8, <2>9 DEF ShapeInv, Handlers, JobShape, tasks
<1> QED
  BY <1>1, <1>2, <1>3

\* The other steps of a synchronisation.
LEMMA PoolShape ==
    ASSUME ShapeInv, SyncFails \/ SyncJoin \/ SyncEnd \/ \E z \in Zones : SyncZone(z)
    PROVE  ShapeInv'
<1>0. sync \in Synchronisation
  BY DEF ShapeInv, Typed
<1>1. CASE SyncFails
  <2>1. sync.pc # "pool" /\ UNCHANGED <<server, op, tasks, job, history>> /\ scenario' \in Scene
        /\ sync' = [sync EXCEPT !.pc = "end", !.failed = TRUE]
    BY <1>1, FaultTyped DEF SyncFails, ShapeInv, Typed
  <2>2. sync' \in Synchronisation /\ sync'.pc = "end" /\ sync'.todo = sync.todo /\ sync'.listed = sync.listed
    BY <1>0, <2>1 DEF Synchronisation
  <2>3. Typed'
    BY <2>1, <2>2 DEF ShapeInv, Typed, Flagging, server, tasks, history
  <2>4. SyncShape'
    BY <2>1, <2>2 DEF ShapeInv, SyncShape
  <2> QED
    BY <2>1, <2>3, <2>4 DEF ShapeInv, Handlers, JobShape, tasks
<1>2. CASE SyncJoin
  <2>1. sync.pc = "pool" /\ UNCHANGED <<server, op, tasks, job, scenario, history>>
        /\ sync' = [sync EXCEPT !.pc = "end"] /\ sync.todo = {} /\ \A z \in Zones : job["full"][z].pc = "idle"
    BY <1>2 DEF SyncJoin
  <2>2. sync' \in Synchronisation /\ sync'.pc = "end" /\ sync'.todo = sync.todo /\ sync'.listed = sync.listed
    BY <1>0, <2>1 DEF Synchronisation
  <2>3. Typed'
    BY <2>1, <2>2 DEF ShapeInv, Typed, Flagging, server, tasks, history
  <2>4. SyncShape'
    BY <2>1, <2>2 DEF ShapeInv, SyncShape
  <2> QED
    BY <2>1, <2>3, <2>4 DEF ShapeInv, Handlers, JobShape, tasks
<1>3. CASE SyncEnd
  <2>1. sync.pc = "end" /\ UNCHANGED <<server, op, tasks, job, scenario, excused, apart>>
        /\ sync' = NoSync /\ touched' = {}
    BY <1>3 DEF SyncEnd
  <2>2. sync' \in Synchronisation /\ sync'.pc = "idle" /\ sync'.todo = {}
    BY <1>0, <2>1, SyncForms DEF NoSync
  <2>3. Typed'
    BY <2>1, <2>2 DEF ShapeInv, Typed, Flagging, server, tasks
  <2>4. SyncShape'
    BY <2>1, <2>2 DEF ShapeInv, SyncShape
  <2> QED
    BY <2>1, <2>3, <2>4 DEF ShapeInv, Handlers, JobShape, tasks
<1>4. CASE \E z \in Zones : SyncZone(z)
  <2> PICK z \in Zones : SyncZone(z)
    BY <1>4
  <2> DEFINE j == job["full"][z]
             n == JobAt("fetch", j.recs, j.rev, j.ptrs)
  <2>1. sync.pc = "pool" /\ z \in sync.todo /\ UNCHANGED <<server, op, tasks, scenario, history>>
        /\ sync' = [sync EXCEPT !.todo = sync.todo \ {z}]
    BY DEF SyncZone
  <2>2. job \in [Sides -> [Zones -> Job]] /\ "task" \in Sides /\ "full" \in Sides
    BY DEF ShapeInv, Typed, Sides
  <2>3. /\ job' \in [Sides -> [Zones -> Job]] /\ job'["full"][z] = n
        /\ \A i \in Sides, y \in Zones : i # "full" \/ y # z => job'[i][y] = job[i][y]
    BY <2>2, JobsStay, SyncZoneWorks
  <2>4. n.pc = "fetch" /\ n.recs = j.recs /\ n.ptrs = j.ptrs
    BY DEF JobAt
  <2>5. /\ sync' \in Synchronisation /\ sync'.pc = "pool" /\ sync'.todo = sync.todo \ {z}
        /\ sync'.listed = sync.listed
    BY <1>0, <2>1 DEF Synchronisation
  <2>6. Typed'
    BY <2>1, <2>3, <2>5 DEF ShapeInv, Typed, Flagging, server, tasks, history
  <2>7. j.pc = "idle"
    BY <2>1 DEF ShapeInv, SyncShape
  <2>8. ASSUME NEW k \in Sides, NEW y \in Zones PROVE JobFits(y, job'[k][y])
    <3>1. CASE k = "full" /\ y = z
      BY <2>3, <2>4, <2>7, <3>1 DEF ShapeInv, JobShape, JobFits
    <3>2. CASE k # "full" \/ y # z
      <4>1. job'[k][y] = job[k][y]
        BY <2>3, <3>2
      <4> QED
        BY <4>1 DEF ShapeInv, JobShape
    <3> QED
      BY <3>1, <3>2
  <2>9. \A y \in queued' : job'["task"][y].pc = "idle"
    BY <2>1, <2>2, <2>3 DEF ShapeInv, Typed, JobShape, tasks
  <2>10. SyncShape'
    BY <2>1, <2>2, <2>3, <2>5 DEF ShapeInv, Typed, SyncShape, Synchronisation
  <2> QED
    BY <2>1, <2>6, <2>8, <2>9, <2>10 DEF ShapeInv, Handlers, JobShape
<1> QED
  BY <1>1, <1>2, <1>3, <1>4

\* The initial states.
LEMMA ShapeInit == Init => ShapeInv
<1> SUFFICES ASSUME Init PROVE ShapeInv
  OBVIOUS
<1>1. NoOp \in Handler /\ Shaped(NoOp)
  BY EndedShape DEF Shaped, RecordOp, StepOp, ZoneOp, Active, NoOp
<1>2. Handlers
  BY <1>1 DEF Init, Handlers
<1>3. scenario \in Scene /\ dns \in Content /\ db = dns
  BY ScenariosAssumption DEF Init, Scene
<1>4. Flagging
  BY <1>3 DEF Init, Flagging, Rows
<1>5. NoSync \in Synchronisation /\ NoSync.pc = "idle" /\ NoSync.todo = {} /\ NoSync.listed = {}
  BY DEF NoSync, Synchronisation
<1>6. NoJob \in Job /\ NoJob.pc = "idle" /\ \A z \in Zones : JobFits(z, NoJob)
  BY NoJobTyped DEF NoJob, JobFits
<1>7. job \in [Sides -> [Zones -> Job]] /\ \A k \in Sides, z \in Zones : job[k][z] = NoJob
  BY <1>6 DEF Init
<1>8. Typed
  BY <1>3, <1>4, <1>5, <1>7 DEF Init, Typed
<1>9. JobShape
  BY <1>6, <1>7 DEF Init, JobShape
<1>10. SyncShape
  BY <1>5, <1>6, <1>7 DEF Init, SyncShape, Sides
<1> QED
  BY <1>2, <1>8, <1>9, <1>10 DEF ShapeInv

\* All steps.
LEMMA ShapeNext == ShapeInv /\ [Next]_vars => ShapeInv'
<1> SUFFICES ASSUME ShapeInv, [Next]_vars PROVE ShapeInv'
  OBVIOUS
<1>0. Handlers /\ scenario \in Scene
  BY DEF ShapeInv, Typed
<1>1. ASSUME NEW o \in Ops, NEW k \in RecordKinds, NEW x \in scenario.recs, NEW y \in scenario.recs,
             NEW p \in BOOLEAN, StartRecord(o, k, x, y, p)
      PROVE  ShapeInv'
  <2>1. \E h : Becomes(o, h)
    BY <1>0, <1>1, StartRecordMoves
  <2>2. \E new : Start(o, new)
    BY <1>1 DEF StartRecord
  <2> QED
    BY <2>1, <2>2, StartShape
<1>2. ASSUME NEW o \in Ops, NEW k \in ZoneKinds, NEW z \in Zones, StartZone(o, k, z)
      PROVE  ShapeInv'
  <2>1. \E h : Becomes(o, h)
    BY <1>0, <1>2, StartZoneMoves
  <2>2. \E new : Start(o, new)
    BY <1>2 DEF StartZone
  <2> QED
    BY <2>1, <2>2, StartShape
<1>3. ASSUME NEW o \in Ops, OpStep(o) PROVE ShapeInv'
  BY <1>3, OpShape
<1>4. ASSUME NEW z \in Zones, Fire(z) \/ RequestRefresh(z) \/ StartTask(z) PROVE ShapeInv'
  BY <1>4, TaskShape
<1>5. ASSUME NEW k \in Sides, NEW z \in Zones, JobStep(k, z) PROVE ShapeInv'
  BY <1>5, JobStepShape
<1>6. CASE SyncStart \/ SyncStep
  BY <1>6, ListShape, PoolShape DEF SyncStep
<1>7. CASE UNCHANGED vars
  BY <1>7 DEF vars, server, tasks, history, ShapeInv, Handlers, Typed, Flagging, JobShape, SyncShape
<1> QED
  BY <1>1, <1>2, <1>3, <1>4, <1>5, <1>6, <1>7 DEF Next

\* Every state has contents, flags, handlers, jobs and a synchronisation of their
\* types: the handlers, refreshes and syncDNS store nothing else, and flags only
\* stand on records of F.
THEOREM DNSTypeCorrect == Spec => []TypeOK
<1>1. ShapeInv => TypeOK
  <2> SUFFICES ASSUME ShapeInv PROVE TypeOK
    OBVIOUS
  <2>1. \A o \in Ops : op[o] \in Handler
    BY DEF ShapeInv, Handlers
  <2>2. \A k \in Sides, z \in Zones : job[k][z] \in Job
    BY DEF ShapeInv, Typed
  <2>3. flags \subseteq (IF db["F"] = None THEN {} ELSE db["F"])
    BY DEF ShapeInv, Typed, Flagging, Rows
  <2> QED
    BY <2>1, <2>2, <2>3 DEF ShapeInv, Typed, TypeOK, Handler, Job, JobSteps, Synchronisation
<1> QED
  BY <1>1, ShapeInit, ShapeNext, PTL DEF Spec


-----------------------------------------------------------------------------
(***************************************************************************)
(* Agreement.  While the snapshot of a zone differs from the zone, a        *)
(* handler that will mark it, a dirty entry, a task that waits or one that  *)
(* runs is there to put it right, and what a task has read is what the zone *)
(* holds unless one of the first two will have it read again.               *)
(***************************************************************************)
\* A handler that has changed R on behalf of a record of F, and will mark it.
OwesR(h) ==
    \/ h.pc = "ptr" /\ h.kind = "update" /\ DropsPTR(h)
    \/ /\ h.pc \in {"save", "savePTR"}
       /\ \/ h.ptr /\ ~h.warn
          \/ h.kind = "update" /\ DropsPTR(h)
          \/ h.kind = "delete" /\ h.unptr

\* A handler that may have changed zone z, and will mark it.
Owes(h, z) ==
    \/ /\ h.kind \in RecordKinds /\ h.zone = z
       /\ h.pc \in {"add", "unptr", "ptr", "alone", "save", "savePTR", "mark"}
    \/ h.pc = "mark" /\ z \in h.tell
    \/ h.kind = "createZone" /\ h.zone = z /\ h.pc \in {"save", "first", "replace", "mark"}
    \/ z = "R" /\ h.kind \in RecordKinds /\ OwesR(h)
Dirty(z) == z \in owed \/ \E o \in Ops : Owes(op[o], z)

\* A handler that has deleted z and has yet to delete its rows; one that will
\* store what z held, or that it exists.
Leaves(h, z) == h.kind = "deleteZone" /\ h.zone = z /\ h.pc = "save"
Holds(h, z) == h.zone = z /\ (h.pc = "replace" \/ (h.kind = "createZone" /\ h.pc = "save"))

\* The rest of CopyInFlight.
Copied(z) ==
    \/ \E k \in Sides : job[k][z].pc \in {"reverse", "store"} \/ job[k]["F"].pc = "storeR"
    \/ sync.pc = "replace" /\ z \in sync.listed
Copying == {"reverse", "storeR", "store"}

Agreeing(z) ==
    /\ dns[z] # None =>
          /\ \A k \in Sides : job[k][z].pc \in Copying => Dirty(z) \/ job[k][z].recs = dns[z]
          /\ sync.pc = "replace" /\ z \notin sync.listed => Dirty(z)
          /\ Dirty(z) \/ z \in queued \/ job["task"][z].pc # "idle" \/ db[z] = dns[z]
    /\ dns[z] = None =>
          \/ \E o \in Ops : Leaves(op[o], z)
          \/ db[z] = None /\ ~Copied(z) /\ \A o \in Ops : ~Holds(op[o], z)
AgreeInv == \A z \in Zones \ excused : Agreeing(z)

\* What a handler may do to zone z when it becomes h: it stays in debt, and
\* changes the zone or its snapshot only in debt; a zone that is gone stays gone.
Keeps(o, h, z) ==
    /\ dns'[z] # None =>
          /\ Owes(op[o], z) => Owes(h, z) \/ z \in owed'
          /\ Owes(h, z) \/ (dns'[z] = dns[z] /\ db'[z] = db[z])
    /\ dns'[z] = None =>
          \/ Leaves(h, z)
          \/ db'[z] = None /\ ~CopyInFlight(z) /\ ~Holds(h, z)
          \/ /\ dns[z] = None /\ ~Leaves(op[o], z)
             /\ Holds(h, z) => Holds(op[o], z)
             /\ db[z] = None => Holds(op[o], z) \/ db'[z] = None

\* CopyInFlight in two parts.
LEMMA InFlight == \A z : CopyInFlight(z) <=> Copied(z) \/ \E o \in Ops : Holds(op[o], z)
BY DEF CopyInFlight, Copied, Holds

\* A step of a handler.
LEMMA HandlerKeeps ==
    ASSUME Handlers, NEW o \in Ops, NEW h, Becomes(o, h), UNCHANGED <<job, sync, queued>>, owed \subseteq owed',
           NEW z \in Zones, Agreeing(z), Keeps(o, h, z)
    PROVE  Agreeing(z)'
<1>1. op'[o] = h /\ \A p \in Ops \ {o} : op'[p] = op[p]
  BY OthersStay
<1>2. Copied(z)' = Copied(z)
  BY DEF Copied
<1>3. CASE dns'[z] # None
  <2>1. Owes(op[o], z) => Owes(h, z) \/ z \in owed'
    BY <1>3 DEF Keeps
  <2>2. Dirty(z) => Dirty(z)'
    BY <1>1, <2>1 DEF Dirty
  <2>3. CASE Owes(h, z)
    <3>1. Dirty(z)'
      BY <1>1, <2>3 DEF Dirty
    <3> QED
      BY <1>3, <3>1 DEF Agreeing
  <2>4. CASE dns'[z] = dns[z] /\ db'[z] = db[z]
    BY <1>3, <2>2, <2>4 DEF Agreeing
  <2> QED
    BY <1>3, <2>3, <2>4 DEF Keeps
<1>4. CASE dns'[z] = None
  <2>1. CASE Leaves(h, z)
    BY <1>1, <1>4, <2>1 DEF Agreeing
  <2>2. CASE db'[z] = None /\ ~CopyInFlight(z) /\ ~Holds(h, z)
    <3>1. ~Copied(z) /\ \A p \in Ops : ~Holds(op[p], z)
      BY <2>2, InFlight
    <3>2. \A p \in Ops : ~Holds(op'[p], z)
      BY <1>1, <2>2, <3>1
    <3> QED
      BY <1>2, <1>4, <2>2, <3>1, <3>2 DEF Agreeing
  <2>3. CASE /\ dns[z] = None /\ ~Leaves(op[o], z)
             /\ Holds(h, z) => Holds(op[o], z)
             /\ db[z] = None => Holds(op[o], z) \/ db'[z] = None
    <3>1. CASE \E p \in Ops : Leaves(op[p], z)
      <4>1. \E p \in Ops : Leaves(op'[p], z)
        BY <1>1, <2>3, <3>1
      <4> QED
        BY <1>4, <4>1 DEF Agreeing
    <3>2. CASE db[z] = None /\ ~Copied(z) /\ \A p \in Ops : ~Holds(op[p], z)
      <4>1. db'[z] = None /\ \A p \in Ops : ~Holds(op'[p], z)
        BY <1>1, <2>3, <3>2
      <4> QED
        BY <1>2, <1>4, <3>2, <4>1 DEF Agreeing
    <3> QED
      BY <2>3, <3>1, <3>2 DEF Agreeing
  <2> QED
    BY <1>4, <2>1, <2>2, <2>3 DEF Keeps
<1> QED
  BY <1>3, <1>4

\* The fields of a handler at another step.
LEMMA WithFields ==
    ASSUME NEW h, NEW pc, NEW old, NEW unptr, NEW ptr, NEW rel, NEW warn, NEW tell, NEW seen
    PROVE  LET g == With(h, pc, old, unptr, ptr, rel, warn, tell, seen) IN
           /\ g.pc = pc /\ g.kind = h.kind /\ g.zone = h.zone /\ g.rec = h.rec /\ g.new = h.new
           /\ g.old = old /\ g.want = h.want /\ g.unptr = unptr /\ g.ptr = ptr /\ g.rel = rel
           /\ g.warn = warn /\ g.tell = tell /\ g.seen = seen
BY DEF With

\* At its first steps a handler owes nothing and holds nothing.
LEMMA EarlyOwes ==
    ASSUME NEW h, h.pc \in {"idle", "done", "read", "call"}, NEW z
    PROVE  ~Owes(h, z) /\ ~Leaves(h, z) /\ ~Holds(h, z)
BY DEF Owes, OwesR, Leaves, Holds

\* Only handlers of whole zones leave or hold one.
LEMMA RecordsHoldNothing ==
    ASSUME NEW h, Shaped(h), Active(h), h.kind \in RecordKinds, NEW z
    PROVE  ~Leaves(h, z) /\ ~Holds(h, z)
BY DEF Shaped, RecordOp, RecordKinds, Leaves, Holds

\* What a handler of a record owes once the Agent has been called: its zone,
\* and R for OwesR.
LEMMA RecordOwes ==
    ASSUME NEW h \in Handler, Shaped(h), h.kind \in RecordKinds, h.pc \notin {"idle", "done", "read", "call"},
           NEW z \in Zones
    PROVE  /\ h.zone = z => Owes(h, z)
           /\ Owes(h, z) => h.zone = z \/ (h.pc = "mark" /\ z \in h.tell) \/ (z = "R" /\ OwesR(h))
<1>1. h.pc \in {"add", "unptr", "ptr", "alone", "save", "savePTR", "mark"}
  BY DEF Shaped, RecordOp, Active, Handler, HandlerSteps
<1>2. h.kind # "createZone"
  BY DEF RecordKinds
<1> QED
  BY <1>1, <1>2 DEF Owes

\* A handler of a record between its call and its mark.
LEMMA RecordKeeps ==
    ASSUME Handlers, NEW o \in Ops, NEW h, Becomes(o, h), Active(op[o]), Active(h),
           op[o].kind \in RecordKinds, h.kind = op[o].kind, NEW z \in Zones,
           dns'[z] # None => /\ Owes(op[o], z) => Owes(h, z)
                             /\ Owes(h, z) \/ (dns'[z] = dns[z] /\ db'[z] = db[z]),
           dns'[z] = None => dns[z] = None,
           db[z] = None => db'[z] = None
    PROVE  Keeps(o, h, z)
<1>1. ~Leaves(op[o], z) /\ ~Holds(h, z)
  BY RecordsHoldNothing DEF Handlers, Becomes
<1> QED
  BY <1>1 DEF Keeps

\* A step keeps all zones but those it excuses.
KeepsAll(o) == \E h : Becomes(o, h) /\ \A z \in Zones \ excused' : Keeps(o, h, z)

\* The same from a handler that is known.
LEMMA AllKept ==
    ASSUME NEW o \in Ops, NEW h, Becomes(o, h), \A z \in Zones \ excused' : Keeps(o, h, z)
    PROVE  KeepsAll(o)
BY DEF KeepsAll

\* The zones then agree as before.
LEMMA KeptAgrees ==
    ASSUME Handlers, AgreeInv, NEW o \in Ops, KeepsAll(o), UNCHANGED <<job, sync, queued>>,
           owed \subseteq owed', excused \subseteq excused'
    PROVE  AgreeInv'
<1>1. PICK h : Becomes(o, h) /\ \A z \in Zones \ excused' : Keeps(o, h, z)
  BY DEF KeepsAll
<1>2. ASSUME NEW z \in Zones \ excused' PROVE Agreeing(z)'
  <2>1. Agreeing(z)
    BY DEF AgreeInv
  <2> QED
    BY <1>1, <2>1, HandlerKeeps
<1> QED
  BY <1>2 DEF AgreeInv

\* Before its call a handler changes nothing.
LEMMA EarlyKeeps ==
    ASSUME NEW o \in Ops, NEW h, Becomes(o, h), op[o].pc \in {"idle", "read"},
           UNCHANGED server, h.pc # "replace", h.kind = "createZone" => h.pc # "save"
    PROVE  KeepsAll(o)
<1>1. ASSUME NEW z \in Zones PROVE Keeps(o, h, z)
  <2>1. ~Owes(op[o], z) /\ ~Leaves(op[o], z)
    BY EarlyOwes
  <2>2. ~Holds(h, z)
    BY DEF Holds
  <2> QED
    BY <2>1, <2>2 DEF Keeps, server
<1> QED
  BY <1>1, AllKept

\* A request.
LEMMA StartAgrees ==
    ASSUME ShapeInv, AgreeInv, NEW o \in Ops, NEW new, Start(o, new), NEW h, Becomes(o, h), h.pc \in {"read", "call"}
    PROVE  AgreeInv'
<1>1. op[o].pc = "idle" /\ UNCHANGED <<server, job, sync, tasks, excused>>
  BY DEF Start, history
<1>2. KeepsAll(o)
  BY <1>1, EarlyKeeps
<1> QED
  BY <1>1, <1>2, KeptAgrees DEF ShapeInv, tasks

\* The reads before the call.
LEMMA ReadKeeps ==
    ASSUME ShapeInv, NEW o \in Ops, ReadForCreate(o) \/ ReadForDelete(o) \/ ReadForUpdate(o)
    PROVE  KeepsAll(o)
<1>1. Handlers
  BY DEF ShapeInv
<1>2. op[o].pc = "read" /\ UNCHANGED server
  BY DEF ReadForCreate, ReadForDelete, ReadForUpdate
<1>3. op[o].kind # "createZone"
  BY DEF ReadForCreate, ReadForDelete, ReadForUpdate
<1>4. \E h : Becomes(o, h) /\ (h = Ended \/ (h.kind = op[o].kind /\ h.pc \in {"call", "alone", "save"}))
  BY <1>1, ReadForCreateMoves, ReadForDeleteMoves, ReadForUpdateMoves
<1>5. Ended.pc = "done"
  BY EndedShape
<1> QED
  BY <1>2, <1>3, <1>4, <1>5, EarlyKeeps

\* CallAgent: it changes a zone and from then on owes it, or deletes it.
LEMMA CallAgentKeeps ==
    ASSUME ShapeInv, NEW o \in Ops, CallAgent(o)
    PROVE  KeepsAll(o)
<1> DEFINE g == op[o]
           h == At(g, AfterCall(g))
<1>0. Handlers /\ dns \in Content
  BY DEF ShapeInv, Typed
<1>1. Becomes(o, h)
  BY <1>0, CallAgentMoves
<1>2. /\ h \in Handler /\ Shaped(h) /\ g \in Handler /\ Shaped(g)
  BY <1>0, <1>1 DEF Handlers, Becomes
<1>3. h.pc = AfterCall(g) /\ h.kind = g.kind /\ h.zone = g.zone
  BY WithFields DEF At
<1> HIDE DEF h
<1>4. UNCHANGED <<db, tasks, job, sync, excused>>
  BY DEF CallAgent
<1>5. /\ g.pc = "call" /\ g.zone \in Zones /\ g.kind \in AllKinds
      /\ \A y \in Zones \ {g.zone} : dns'[y] = dns[y]
      /\ g.kind \in RecordKinds => dns[g.zone] # None /\ dns'[g.zone] # None
      /\ g.kind = "createZone" => dns[g.zone] = None /\ dns'[g.zone] # None
      /\ g.kind = "deleteZone" => dns'[g.zone] = None
  BY <1>0, CallAgentEffect
<1>6. h.pc \in {"add", "unptr", "ptr", "save"}
  BY <1>3 DEF AfterCall
<1>7. g.kind \in ZoneKinds => h.pc = "save"
  BY <1>2, <1>3, <1>5, <1>6 DEF Shaped, ZoneOp, Active, ZoneKinds
<1>8. ASSUME NEW z \in Zones PROVE Keeps(o, h, z)
  <2>1. ~Owes(g, z) /\ ~Leaves(g, z) /\ ~Holds(g, z)
    BY <1>5, EarlyOwes
  <2>2. CASE z # g.zone
    <3>1. ~Holds(h, z)
      BY <1>3, <2>2 DEF Holds
    <3> QED
      BY <1>4, <1>5, <2>1, <2>2, <3>1 DEF Keeps
  <2>3. CASE z = g.zone /\ g.kind \in RecordKinds
    <3>1. Owes(h, z)
      BY <1>2, <1>3, <1>6, <2>3, RecordOwes
    <3> QED
      BY <1>5, <2>3, <3>1 DEF Keeps
  <2>4. CASE z = g.zone /\ g.kind = "createZone"
    <3>1. Owes(h, z)
      BY <1>3, <1>7, <2>4 DEF Owes, ZoneKinds
    <3> QED
      BY <1>5, <2>4, <3>1 DEF Keeps
  <2>5. CASE z = g.zone /\ g.kind = "deleteZone"
    <3>1. Leaves(h, z)
      BY <1>3, <1>7, <2>5 DEF Leaves, ZoneKinds
    <3> QED
      BY <1>5, <2>5, <3>1 DEF Keeps
  <2> QED
    BY <1>5, <2>2, <2>3, <2>4, <2>5 DEF AllKinds, ZoneKinds
<1> QED
  BY <1>1, <1>8, AllKept

\* A record of R is PTR, a record of F has its zone.
LEMMA RecordZone ==
    ASSUME NEW h \in Handler, Shaped(h), Active(h), h.kind \in RecordKinds
    PROVE  /\ h.zone \in Zones
           /\ h.kind \in {"create", "delete", "update"} => h.zone = "F"
           /\ h.zone \in h.tell
BY DEF Shaped, RecordOp, RecordKinds, ZoneOf, Zones

\* AddNew: the zone is owed already.
LEMMA AddNewKeeps ==
    ASSUME ShapeInv, NEW o \in Ops, AddNew(o)
    PROVE  KeepsAll(o)
<1> DEFINE g == op[o]
<1>0. Handlers /\ dns \in Content /\ g \in Handler /\ Shaped(g)
  BY DEF ShapeInv, Typed, Handlers
<1>1. PICK pc \in {"unptr", "ptr", "save"} : Becomes(o, At(g, pc))
  BY <1>0, AddNewMoves
<1> DEFINE h == At(g, pc)
<1>2. h \in Handler /\ Shaped(h) /\ Becomes(o, h) /\ h.pc = pc /\ h.kind = g.kind /\ h.zone = g.zone
  BY <1>1, WithFields DEF At, Becomes
<1> HIDE DEF h
<1>3. g.pc = "add" /\ UNCHANGED <<db, tasks, job, sync, excused>>
  BY DEF AddNew
<1>4. g.kind \in {"update", "updatePTR"}
  BY <1>0, AddNewMoves
<1>5. g.zone \in Zones /\ Changes(dns, dns', g.zone)
  BY <1>0, AddNewEffect
<1>6. Active(g) /\ Active(h) /\ g.kind \in RecordKinds
  BY <1>1, <1>2, <1>3, <1>4 DEF Active, RecordKinds
<1>7. ASSUME NEW z \in Zones PROVE Keeps(o, h, z)
  <2>1. Owes(g, z) => g.zone = z
    BY <1>0, <1>3, <1>6, RecordOwes DEF OwesR
  <2>2. g.zone = z => Owes(h, z)
    BY <1>1, <1>2, <1>6, RecordOwes
  <2>3. g.zone # z => dns'[z] = dns[z]
    BY <1>5 DEF Changes
  <2>4. dns'[z] = None => dns[z] = None
    BY <1>5, <2>3 DEF Changes
  <2> QED
    BY <1>0, <1>2, <1>3, <1>6, <2>1, <2>2, <2>3, <2>4, RecordKeeps
<1> QED
  BY <1>2, <1>7, AllKept

\* A handler of a record of F that may change R owes R from then on.
LEMMA ReverseKeeps ==
    ASSUME Handlers, dns \in Content, NEW o \in Ops, NEW h, Becomes(o, h), Active(op[o]), h.pc \in {"ptr", "save"},
           op[o].pc \in {"unptr", "ptr", "alone"}, op[o].kind \in {"create", "delete", "update"}, h.kind = op[o].kind,
           h.zone = op[o].zone, db' = db, Changes(dns, dns', "R"),
           dns["R"] # None /\ "R" \notin excused' =>
               (OwesR(op[o]) => OwesR(h)) /\ (dns'["R"] = dns["R"] \/ OwesR(h)),
           NEW z \in Zones \ excused'
    PROVE  Keeps(o, h, z)
<1> DEFINE g == op[o]
<1>1. /\ g \in Handler /\ Shaped(g) /\ h \in Handler /\ Shaped(h) /\ g.kind \in RecordKinds
      /\ Active(h)
  BY DEF Handlers, Becomes, RecordKinds, Active
<1>2. g.zone = "F"
  BY <1>1, RecordZone
<1>3. CASE z = "F"
  <2>1. Owes(h, z)
    BY <1>1, <1>2, <1>3, RecordOwes
  <2>2. dns'[z] = dns[z]
    BY <1>3 DEF Changes, Zones
  <2> QED
    BY <1>1, <2>1, <2>2, RecordKeeps
<1>4. CASE z = "R"
  <2>1. Owes(g, z) => OwesR(g)
    BY <1>1, <1>2, <1>4, RecordOwes
  <2>2. OwesR(h) => Owes(h, z)
    BY <1>1, <1>4 DEF Owes
  <2>3. dns'[z] = None <=> dns[z] = None
    BY <1>4 DEF Changes
  <2> QED
    BY <1>1, <1>4, <2>1, <2>2, <2>3, RecordKeeps
<1> QED
  BY <1>3, <1>4 DEF Zones

\* DeletePTR.
LEMMA DeletePTRKeeps ==
    ASSUME ShapeInv, NEW o \in Ops, DeletePTR(o)
    PROVE  KeepsAll(o)
<1> DEFINE g == op[o]
<1>0. Handlers /\ dns \in Content /\ g \in Handler /\ Shaped(g)
  BY DEF ShapeInv, Typed, Handlers
<1>1. g.kind \in {"delete", "update"} /\ \E pc \in {"ptr", "save"} : Becomes(o, At(g, pc))
  BY <1>0, DeletePTRMoves
<1>2. PICK pc \in {"ptr", "save"} : Becomes(o, At(g, pc))
  BY <1>1
<1> DEFINE h == At(g, pc)
<1>3. /\ h \in Handler /\ Shaped(h) /\ Becomes(o, h) /\ h.pc = pc /\ h.kind = g.kind /\ h.zone = g.zone
      /\ h.rec = g.rec /\ h.new = g.new /\ h.old = g.old /\ h.want = g.want /\ h.unptr = g.unptr
      /\ h.ptr = g.ptr
  <2>1. /\ h.pc = pc /\ h.kind = g.kind /\ h.zone = g.zone /\ h.rec = g.rec /\ h.new = g.new
        /\ h.old = g.old /\ h.want = g.want /\ h.unptr = g.unptr /\ h.ptr = g.ptr
    BY DEF At, With
  <2> HIDE DEF h
  <2>2. Becomes(o, h)
    BY <1>2 DEF h
  <2> QED
    BY <2>1, <2>2 DEF Becomes
<1> HIDE DEF h
<1>4. g.pc = "unptr" /\ UNCHANGED <<db, tasks, job, sync, excused>>
  BY DEF DeletePTR
<1>5. Changes(dns, dns', "R")
  BY <1>0, PTREffect
<1>6. Active(g) /\ Active(h) /\ g.kind \in RecordKinds
  BY <1>1, <1>2, <1>3, <1>4 DEF Active, RecordKinds
<1>7. g.unptr /\ (g.kind = "update" => g.rec # g.new)
  BY <1>0, <1>4, <1>6 DEF Shaped, StepOp
<1>8. ASSUME g.kind = "delete" PROVE OwesR(h)
  <2>1. h.pc = "save"
    BY <1>2, <1>3, <1>6, <1>8 DEF Shaped, StepOp, RecordOp
  <2> QED
    BY <1>3, <1>7, <1>8, <2>1 DEF OwesR
<1>9. ASSUME g.kind = "update" PROVE OwesR(h)
  <2>1. DropsPTR(h)
    BY <1>0, <1>3, <1>6, <1>7, <1>9 DEF Shaped, RecordOp, DropsPTR
  <2> QED
    BY <1>2, <1>3, <1>9, <2>1 DEF OwesR
<1>10. \A z \in Zones \ excused' : Keeps(o, h, z)
  BY <1>0, <1>1, <1>2, <1>3, <1>4, <1>5, <1>6, <1>8, <1>9, ReverseKeeps
<1> QED
  BY <1>3, <1>10, AllKept

\* CreatePTR: it warns exactly when there is no R.
LEMMA CreatePTRKeeps ==
    ASSUME ShapeInv, NEW o \in Ops, CreatePTR(o)
    PROVE  KeepsAll(o)
<1> DEFINE g == op[o]
           w == ~Exists("R", dns)
           h == Warned(g, "save", w)
<1>0. Handlers /\ dns \in Content /\ g \in Handler /\ Shaped(g)
  BY DEF ShapeInv, Typed, Handlers
<1>1. g.kind \in {"create", "update"} /\ Becomes(o, h)
  BY <1>0, CreatePTRMoves
<1>2. h.pc = "save" /\ h.kind = g.kind /\ h.zone = g.zone /\ h.ptr = g.ptr /\ h.warn = w
  BY WithFields DEF Warned
<1> HIDE DEF h
<1>3. g.pc = "ptr" /\ UNCHANGED <<db, tasks, job, sync, excused>>
  BY DEF CreatePTR
<1>4. Changes(dns, dns', "R")
  BY <1>0, PTREffect
<1>5. Active(g) /\ g.kind \in RecordKinds
  BY <1>1, <1>3 DEF Active, RecordKinds
<1>6. g.ptr
  BY <1>0, <1>3, <1>5 DEF Shaped, StepOp
<1>7. dns["R"] # None => OwesR(h)
  BY <1>2, <1>6 DEF OwesR, Exists
<1>8. \A z \in Zones \ excused' : Keeps(o, h, z)
  BY <1>0, <1>1, <1>2, <1>3, <1>4, <1>5, <1>7, ReverseKeeps
<1> QED
  BY <1>1, <1>8, AllKept

\* CreatePTRWarns: what was deleted from R is owed still; what was added though
\* its creation failed is excused, unless R is owed.
LEMMA CreatePTRWarnsKeeps ==
    ASSUME ShapeInv, NEW o \in Ops, CreatePTRWarns(o)
    PROVE  KeepsAll(o)
<1> DEFINE g == op[o]
           h == Warned(g, "save", TRUE)
<1>0. Handlers /\ dns \in Content /\ g \in Handler /\ Shaped(g)
  BY DEF ShapeInv, Typed, Handlers
<1>1. Becomes(o, h)
  BY <1>0, CreatePTRWarnsMoves
<1>2. /\ h.pc = "save" /\ h.kind = g.kind /\ h.zone = g.zone /\ h.rec = g.rec /\ h.new = g.new
      /\ h.old = g.old /\ h.want = g.want
  BY DEF Warned, With
<1> HIDE DEF h
<1>3. g.pc = "ptr" /\ g.kind = "update" /\ UNCHANGED <<db, tasks, job, sync>>
  BY DEF CreatePTRWarns
<1>4. Changes(dns, dns', "R")
  BY <1>0, PTREffect
<1>5. Active(g)
  BY <1>3 DEF Active
<1>6. OwesR(g) => OwesR(h)
  BY <1>2, <1>3 DEF OwesR, DropsPTR
<1>7. dns' = dns \/ OwesR(h) \/ "R" \in excused'
  <2>1. dns' = dns \/ MadeUnknown(g)
    BY DEF CreatePTRWarns
  <2>2. TellDeleted(g) => OwesR(g)
    BY <1>3 DEF TellDeleted, OwesR
  <2> QED
    BY <1>6, <2>1, <2>2, MadeUnknownExcuses
<1>8. \A z \in Zones \ excused' : Keeps(o, h, z)
  BY <1>0, <1>1, <1>2, <1>3, <1>4, <1>5, <1>6, <1>7, ReverseKeeps
<1> QED
  BY <1>1, <1>8, AllKept

\* ChangePTRAlone: it owes R if it has changed it, or excuses it.
LEMMA ChangePTRAloneKeeps ==
    ASSUME ShapeInv, NEW o \in Ops, ChangePTRAlone(o)
    PROVE  KeepsAll(o)
<1> DEFINE g == op[o]
<1>0. Handlers /\ dns \in Content /\ g \in Handler /\ Shaped(g)
  BY DEF ShapeInv, Typed, Handlers
<1>1. /\ g.kind = "update" /\ g.rec = g.new /\ g.old # g.want
      /\ \E warn \in BOOLEAN : /\ Becomes(o, Warned(g, "save", warn))
                               /\ \/ dns' = dns \/ g.unptr \/ "R" \in excused'
                                  \/ warn = g.warn /\ g.ptr
  BY <1>0, ChangePTRAloneMoves
<1>2. PICK warn \in BOOLEAN : /\ Becomes(o, Warned(g, "save", warn))
                              /\ \/ dns' = dns \/ g.unptr \/ "R" \in excused'
                                 \/ warn = g.warn /\ g.ptr
  BY <1>1
<1> DEFINE h == Warned(g, "save", warn)
<1>3. /\ h.pc = "save" /\ h.kind = g.kind /\ h.zone = g.zone /\ h.rec = g.rec /\ h.new = g.new
      /\ h.old = g.old /\ h.want = g.want /\ h.ptr = g.ptr /\ h.warn = warn
  BY WithFields DEF Warned
<1> HIDE DEF h
<1>4. Becomes(o, h)
  BY <1>2 DEF h
<1>5. g.pc = "alone" /\ UNCHANGED <<db, tasks, job, sync>>
  BY DEF ChangePTRAlone
<1>6. Changes(dns, dns', "R")
  BY <1>0, PTREffect
<1>7. Active(g) /\ g.kind \in RecordKinds
  BY <1>1, <1>5 DEF Active, RecordKinds
<1>8. g.unptr = g.old /\ (g.warn => FALSE)
  BY <1>0, <1>1, <1>5, <1>7 DEF Shaped, RecordOp
<1>9. g.old \in BOOLEAN /\ g.want \in BOOLEAN /\ g.ptr \in BOOLEAN /\ g.warn \in BOOLEAN
  BY <1>0 DEF Handler
<1>10. dns' = dns \/ OwesR(h) \/ "R" \in excused'
  <2> SUFFICES ASSUME dns' # dns, "R" \notin excused' PROVE OwesR(h)
    OBVIOUS
  <2>1. CASE g.ptr /\ warn = g.warn
    BY <1>2, <1>3, <1>8, <2>1 DEF OwesR
  <2>2. CASE g.unptr
    <3>1. DropsPTR(h)
      BY <1>1, <1>3, <1>8, <2>2 DEF DropsPTR
    <3> QED
      BY <1>1, <1>3, <3>1 DEF OwesR
  <2> QED
    BY <1>2, <2>1, <2>2
<1>11. ~OwesR(g)
  BY <1>5 DEF OwesR
<1>12. \A z \in Zones \ excused' : Keeps(o, h, z)
  BY <1>0, <1>1, <1>3, <1>4, <1>5, <1>6, <1>7, <1>10, <1>11, ReverseKeeps
<1> QED
  BY <1>4, <1>12, AllKept

\* SaveRecord: the zone whose rows it changes is owed.
LEMMA SaveRecordKeeps ==
    ASSUME ShapeInv, NEW o \in Ops, SaveRecord(o)
    PROVE  KeepsAll(o)
<1> DEFINE g == op[o]
           h == At(g, "savePTR")
<1>0. Handlers /\ db \in Content /\ Flagging /\ g \in Handler /\ Shaped(g)
  BY DEF ShapeInv, Typed, Handlers
<1>1. Becomes(o, h)
  BY <1>0, SaveRecordMoves
<1>2. /\ h.pc = "savePTR" /\ h.kind = g.kind /\ h.zone = g.zone /\ h.rec = g.rec /\ h.new = g.new
      /\ h.old = g.old /\ h.want = g.want /\ h.unptr = g.unptr /\ h.ptr = g.ptr /\ h.warn = g.warn
      /\ h.rel = g.rel
  BY WithFields DEF At
<1> HIDE DEF h
<1>3. g.pc = "save" /\ g.kind \in RecordKinds /\ UNCHANGED <<dns, tasks, job, sync, excused>>
  BY DEF SaveRecord
<1>4. g.zone \in Zones /\ Changes(db, db', g.zone)
  BY <1>0, SaveRecordEffect
<1>5. Active(g) /\ Active(h) /\ h \in Handler /\ Shaped(h)
  BY <1>1, <1>2, <1>3 DEF Active, Becomes
<1>6. OwesR(g) => OwesR(h)
  BY <1>2, <1>3 DEF OwesR, DropsPTR
<1>7. ASSUME NEW z \in Zones PROVE Keeps(o, h, z)
  <2>1. g.zone = z => Owes(h, z)
    BY <1>2, <1>3, <1>5, RecordOwes
  <2>2. Owes(g, z) => g.zone = z \/ (z = "R" /\ OwesR(g))
    BY <1>0, <1>3, RecordOwes
  <2>3. Owes(g, z) => Owes(h, z)
    BY <1>2, <1>3, <1>6, <2>1, <2>2 DEF Owes
  <2>4. g.zone # z => db'[z] = db[z]
    BY <1>4 DEF Changes
  <2>5. db[z] = None => db'[z] = None
    BY <1>4, <2>4 DEF Changes
  <2> QED
    BY <1>0, <1>1, <1>2, <1>3, <1>5, <2>1, <2>3, <2>4, <2>5, RecordKeeps
<1> QED
  BY <1>1, <1>7, AllKept

\* SavePTR: R is told, or excused when it is owed for a deleted PTR record.
LEMMA SavePTRKeeps ==
    ASSUME ShapeInv, NEW o \in Ops, SavePTR(o)
    PROVE  KeepsAll(o)
<1> DEFINE g == op[o]
           add == g.ptr /\ ~g.warn
           drop == g.kind \in {"delete", "update"} /\ DropsPTR(g)
           told == add \/ (g.kind \in {"delete", "update"} /\ TellDeleted(g))
<1>0. Handlers /\ db \in Content /\ dns \in Content /\ Flagging /\ g \in Handler /\ Shaped(g)
  BY DEF ShapeInv, Typed, Handlers
<1>1. /\ g.kind \in RecordKinds
      /\ \E tell \in SUBSET Zones :
            /\ Becomes(o, Told(g, "mark", tell)) /\ g.tell \subseteq tell
            /\ told => "R" \in tell
  BY <1>0, SavePTRMoves
<1>2. PICK tell \in SUBSET Zones : /\ Becomes(o, Told(g, "mark", tell)) /\ g.tell \subseteq tell
                                   /\ told => "R" \in tell
  BY <1>1
<1> DEFINE h == Told(g, "mark", tell)
<1>3. Becomes(o, h) /\ h.pc = "mark" /\ h.kind = g.kind /\ h.zone = g.zone /\ h.tell = tell
  BY <1>2, WithFields DEF Told
<1> HIDE DEF h
<1>4. /\ g.pc = "savePTR" /\ UNCHANGED <<dns, tasks, job, sync>>
      /\ db' = [db EXCEPT !["R"] = IF @ = None THEN None
                   ELSE (IF drop THEN @ \ {g.rec} ELSE @) \cup (IF add THEN {g.new} ELSE {})]
      /\ excused' = IF g.kind = "delete" /\ g.unptr /\ ~told /\ Exists("R", dns)
                    THEN excused \cup {"R"} ELSE excused
  BY DEF SavePTR
<1>5. Changes(db, db', "R")
  BY <1>0, SavePTREffect
<1>6. Active(g) /\ Active(h) /\ h \in Handler /\ Shaped(h)
  BY <1>3, <1>4 DEF Active, Becomes
<1>7. g.zone \in Zones /\ g.zone \in g.tell
  BY <1>0, <1>1, <1>6, RecordZone
<1>8. drop => told
  BY DEF DropsPTR, TellDeleted
<1>9. ~told => db'["R"] = db["R"]
  <2> SUFFICES ASSUME ~told PROVE db'["R"] = db["R"]
    OBVIOUS
  <2>1. ~drop /\ ~add
    BY <1>8
  <2> HIDE DEF drop, add, told
  <2>2. db' = [db EXCEPT !["R"] = db["R"]]
    BY <1>4, <2>1
  <2> QED
    BY <1>0, <2>2 DEF Content
<1>10. ASSUME OwesR(g), ~told PROVE g.kind = "delete" /\ g.unptr
  BY <1>4, <1>10 DEF OwesR, TellDeleted
<1> HIDE DEF told, add, drop
<1>11. ASSUME NEW z \in Zones \ excused' PROVE Keeps(o, h, z)
  <2>1. g.zone = z => Owes(h, z)
    BY <1>1, <1>3, <1>4, <1>6, RecordOwes
  <2>2. Owes(g, z) => g.zone = z \/ (z = "R" /\ OwesR(g))
    BY <1>0, <1>1, <1>4, RecordOwes
  <2>3. z = "R" /\ told => Owes(h, z)
    BY <1>2, <1>3 DEF Owes
  <2>4. z = "R" /\ OwesR(g) /\ ~told => dns'[z] = None
    BY <1>4, <1>10 DEF Exists
  <2>5. z # "R" => db'[z] = db[z]
    BY <1>5 DEF Changes
  <2>6. db[z] = None => db'[z] = None
    BY <1>5, <2>5 DEF Changes
  <2>7. dns'[z] # None /\ Owes(g, z) => Owes(h, z)
    BY <2>1, <2>2, <2>3, <2>4
  <2>8. Owes(h, z) \/ (dns'[z] = dns[z] /\ db'[z] = db[z])
    BY <1>4, <1>9, <2>3, <2>5
  <2> QED
    BY <1>0, <1>1, <1>3, <1>4, <1>6, <2>6, <2>7, <2>8, RecordKeeps
<1> QED
  BY <1>3, <1>11, AllKept

\* CallFails: what the handler has changed is excused.
LEMMA CallFailsKeeps ==
    ASSUME ShapeInv, NEW o \in Ops, CallFails(o)
    PROVE  KeepsAll(o)
<1> DEFINE g == op[o]
<1>0. Handlers /\ g \in Handler /\ Shaped(g)
  BY DEF ShapeInv, Handlers
<1>1. OpDone(o) /\ UNCHANGED <<server, tasks, job, sync>> /\ excused' = excused \cup Changed(g)
  BY DEF CallFails
<1>2. g.pc \in {"call", "add", "save"} \/ (g.pc = "ptr" /\ g.kind = "create")
  BY DEF CallFails
<1>3. Becomes(o, Ended)
  BY <1>0, <1>1, MovesDone
<1>4. Ended.pc = "done"
  BY EndedShape
<1>5. Active(g) /\ g.kind \in AllKinds
  BY <1>0, <1>2 DEF Active, Shaped
<1>6. ASSUME NEW z \in Zones \ excused' PROVE ~Owes(g, z) /\ ~Leaves(g, z)
  <2>0. z \notin Changed(g)
    BY <1>1
  <2>1. CASE g.pc = "call"
    BY <2>1, EarlyOwes
  <2>2. CASE g.kind \in RecordKinds /\ g.pc # "call"
    <3>1. g.zone # z
      BY <1>2, <2>0, <2>2 DEF Changed
    <3>2. OwesR(g) => "R" \in Changed(g)
      <4> SUFFICES ASSUME OwesR(g) PROVE g.pc = "save" /\ (g.ptr \/ g.unptr)
        BY DEF Changed
      <4>1. g.pc = "save"
        BY <1>2 DEF OwesR
      <4>2. CASE g.kind = "update" /\ DropsPTR(g)
        BY <1>0, <1>5, <2>2, <4>1, <4>2 DEF DropsPTR, Shaped, RecordOp
      <4> QED
        BY <4>1, <4>2 DEF OwesR
    <3>3. ~Owes(g, z)
      BY <1>0, <1>2, <2>0, <2>2, <3>1, <3>2, RecordOwes
    <3>4. ~Leaves(g, z)
      BY <3>1 DEF Leaves
    <3> QED
      BY <3>3, <3>4
  <2>3. CASE g.kind \in ZoneKinds /\ g.pc # "call"
    <3>1. g.pc = "save" /\ g.kind \notin RecordKinds
      BY <1>0, <1>2, <1>5, <2>3 DEF Shaped, ZoneOp, ZoneKinds, RecordKinds
    <3>2. g.zone # z
      BY <2>0, <3>1 DEF Changed
    <3> QED
      BY <3>1, <3>2 DEF Owes, Leaves
  <2> QED
    BY <1>5, <2>1, <2>2, <2>3 DEF AllKinds
<1>7. ASSUME NEW z \in Zones \ excused' PROVE Keeps(o, Ended, z)
  BY <1>1, <1>4, <1>6, <1>7, EarlyOwes DEF Keeps, server
<1> QED
  BY <1>3, <1>7, AllKept

\* SaveZone, FetchFirst and StoreFirst: createZone owes its zone.
LEMMA CreateKeeps ==
    ASSUME Handlers, NEW o \in Ops, NEW h, Becomes(o, h), op[o].kind = "createZone",
           op[o].pc \in {"save", "first", "replace"}, h.kind = "createZone", h.zone = op[o].zone,
           h.pc \in {"first", "replace", "mark"}, h.pc = "mark" => h.tell = {h.zone}, UNCHANGED dns,
           \A z \in Zones \ {h.zone} : db'[z] = db[z],
           h.pc = "replace" => dns[h.zone] # None,
           db' = db \/ Holds(op[o], h.zone),
           NEW z \in Zones
    PROVE  Keeps(o, h, z)
<1> DEFINE g == op[o]
<1>1. g.kind \notin RecordKinds
  BY DEF RecordKinds
<1>2. CASE z = g.zone
  <2>1. Owes(h, z)
    BY <1>2 DEF Owes
  <2>2. ~Leaves(g, z)
    BY DEF Leaves
  <2>3. Holds(h, z) => dns[z] # None
    BY <1>2 DEF Holds
  <2> QED
    BY <1>2, <2>1, <2>2, <2>3 DEF Keeps
<1>3. CASE z # g.zone
  <2>1. g \in Handler /\ Shaped(g) /\ Active(g)
    BY DEF Handlers, Active
  <2>2. ~Owes(g, z) /\ ~Leaves(g, z) /\ ~Holds(h, z)
    BY <1>1, <1>3, <2>1 DEF Owes, Leaves, Holds, Shaped, ZoneOp, ZoneKinds
  <2> QED
    BY <1>3, <2>2 DEF Keeps
<1> QED
  BY <1>2, <1>3

\* SaveZone.
LEMMA SaveZoneKeeps ==
    ASSUME ShapeInv, NEW o \in Ops, SaveZone(o)
    PROVE  KeepsAll(o)
<1> DEFINE g == op[o]
           h == At(g, "first")
<1>0. Handlers /\ db \in Content /\ Flagging
  BY DEF ShapeInv, Typed
<1>1. Becomes(o, h)
  BY <1>0, SaveZoneMoves
<1>2. h.pc = "first" /\ h.kind = g.kind /\ h.zone = g.zone
  BY WithFields DEF At
<1> HIDE DEF h
<1>3. g.pc = "save" /\ g.kind = "createZone" /\ UNCHANGED <<dns, tasks, job, sync, excused>>
  BY DEF SaveZone
<1>4. \A z \in Zones \ {g.zone} : db'[z] = db[z]
  BY <1>0, SaveZoneEffect
<1>5. Holds(g, h.zone)
  BY <1>2, <1>3 DEF Holds
<1>6. \A z \in Zones : Keeps(o, h, z)
  BY <1>0, <1>1, <1>2, <1>3, <1>4, <1>5, CreateKeeps
<1> QED
  BY <1>1, <1>6, AllKept

\* FetchFirst.
LEMMA FetchFirstKeeps ==
    ASSUME ShapeInv, NEW o \in Ops, FetchFirst(o)
    PROVE  KeepsAll(o)
<1> DEFINE g == op[o]
<1>0. Handlers /\ dns \in Content
  BY DEF ShapeInv, Typed
<1>1. /\ g.kind = "createZone"
      /\ \/ Becomes(o, Told(g, "mark", {g.zone}))
         \/ Exists(g.zone, dns) /\ Becomes(o, Shown(g, "replace", dns[g.zone]))
  BY <1>0, FetchFirstMoves
<1>2. \E h : /\ Becomes(o, h) /\ h.pc \in {"mark", "replace"} /\ h.kind = g.kind /\ h.zone = g.zone
             /\ h.pc = "mark" => h.tell = {h.zone}
             /\ h.pc = "replace" => dns[g.zone] # None
  <2>1. CASE Becomes(o, Told(g, "mark", {g.zone}))
    <3> DEFINE h == Told(g, "mark", {g.zone})
    <3>1. h.pc = "mark" /\ h.kind = g.kind /\ h.zone = g.zone /\ h.tell = {g.zone}
      BY WithFields DEF Told
    <3> HIDE DEF h
    <3> QED
      BY <2>1, <3>1 DEF h
  <2>2. CASE Exists(g.zone, dns) /\ Becomes(o, Shown(g, "replace", dns[g.zone]))
    <3> DEFINE h == Shown(g, "replace", dns[g.zone])
    <3>1. h.pc = "replace" /\ h.kind = g.kind /\ h.zone = g.zone
      BY WithFields DEF Shown
    <3>2. Becomes(o, h) /\ dns[g.zone] # None
      BY <2>2 DEF Exists
    <3> HIDE DEF h
    <3> QED
      BY <3>1, <3>2
  <2> QED
    BY <1>1, <2>1, <2>2
<1>3. g.pc = "first" /\ UNCHANGED <<dns, db, tasks, job, sync, excused>>
  BY DEF FetchFirst, server, history
<1>4. PICK h : /\ Becomes(o, h) /\ h.pc \in {"mark", "replace"} /\ h.kind = g.kind /\ h.zone = g.zone
               /\ h.pc = "mark" => h.tell = {h.zone}
               /\ h.pc = "replace" => dns[g.zone] # None
  BY <1>2
<1>5. \A z \in Zones : Keeps(o, h, z)
  BY <1>0, <1>1, <1>3, <1>4, CreateKeeps
<1> QED
  BY <1>4, <1>5, AllKept

\* StoreFirst.
LEMMA StoreFirstKeeps ==
    ASSUME ShapeInv, NEW o \in Ops, StoreFirst(o)
    PROVE  KeepsAll(o)
<1> DEFINE g == op[o]
           h == Told(g, "mark", {g.zone})
<1>0. Handlers /\ db \in Content /\ Flagging
  BY DEF ShapeInv, Typed
<1>1. g.kind = "createZone" /\ Becomes(o, h) /\ \A z \in Zones \ {g.zone} : db'[z] = db[z]
  BY <1>0, StoreFirstEffect
<1>2. h.pc = "mark" /\ h.kind = g.kind /\ h.zone = g.zone /\ h.tell = {g.zone}
  BY WithFields DEF Told
<1> HIDE DEF h
<1>3. g.pc = "replace" /\ UNCHANGED <<dns, tasks, job, sync, excused>>
  BY DEF StoreFirst
<1>4. Holds(g, h.zone)
  BY <1>2, <1>3 DEF Holds
<1>5. \A z \in Zones : Keeps(o, h, z)
  BY <1>0, <1>1, <1>2, <1>3, <1>4, CreateKeeps
<1> QED
  BY <1>1, <1>5, AllKept

\* DropZone: the rows go, unless that is excused.
LEMMA DropZoneKeeps ==
    ASSUME ShapeInv, NEW o \in Ops, DropZone(o)
    PROVE  KeepsAll(o)
<1> DEFINE g == op[o]
<1>0. Handlers /\ db \in Content /\ Flagging
  BY DEF ShapeInv, Typed
<1>1. /\ g.pc = "save" /\ g.kind = "deleteZone" /\ OpDone(o) /\ UNCHANGED <<dns, tasks, job, sync>>
      /\ excused \subseteq excused'
      /\ g.zone \notin excused' => ~CopyInFlight(g.zone) /\ dns[g.zone] = None
  BY DEF DropZone, Exists
<1>2. /\ \A y \in Zones \ {g.zone} : db'[y] = db[y]
      /\ g.zone \notin excused' => db'[g.zone] = None
  BY <1>0, DropZoneEffect
<1>3. Becomes(o, Ended)
  BY <1>0, <1>1, MovesDone
<1>4. Ended.pc = "done"
  BY EndedShape
<1>5. g.kind \notin RecordKinds
  BY <1>1 DEF RecordKinds
<1>6. ASSUME NEW z \in Zones \ excused' PROVE Keeps(o, Ended, z)
  <2>1. ~Owes(g, z) /\ ~Owes(Ended, z) /\ ~Holds(Ended, z)
    BY <1>1, <1>4, <1>5, EarlyOwes DEF Owes
  <2>2. CASE z = g.zone
    BY <1>1, <1>2, <2>1, <2>2 DEF Keeps
  <2>3. CASE z # g.zone
    <3>1. ~Leaves(g, z)
      BY <2>3 DEF Leaves
    <3> QED
      BY <1>1, <1>2, <2>1, <2>3, <3>1 DEF Keeps
  <2> QED
    BY <2>2, <2>3
<1> QED
  BY <1>3, <1>6, AllKept

\* MarkDirty: what was owed is in the scheduler's hands.
LEMMA MarkDirtyKeeps ==
    ASSUME ShapeInv, NEW o \in Ops, MarkDirty(o)
    PROVE  KeepsAll(o)
<1> DEFINE g == op[o]
<1>0. Handlers /\ g \in Handler /\ Shaped(g)
  BY DEF ShapeInv, Handlers
<1>1. /\ g.pc = "mark" /\ OpDone(o) /\ UNCHANGED <<server, queued, job, sync, history>>
      /\ owed' = owed \cup g.tell
  BY DEF MarkDirty
<1>2. Becomes(o, Ended) /\ Ended.pc = "done"
  BY <1>0, <1>1, MovesDone, EndedShape
<1>3. Active(g)
  BY <1>1 DEF Active
<1>4. ASSUME NEW z \in Zones PROVE (Owes(g, z) => z \in owed') /\ ~Leaves(g, z)
  <2>1. g.kind \in RecordKinds => g.zone \in g.tell
    BY <1>0, <1>3, RecordZone
  <2>2. g.kind = "createZone" => g.tell = {g.zone}
    BY <1>0, <1>1, <1>3 DEF Shaped, ZoneOp, ZoneKinds
  <2> QED
    BY <1>1, <2>1, <2>2 DEF Owes, OwesR, Leaves
<1>5. ASSUME NEW z \in Zones PROVE Keeps(o, Ended, z)
  BY <1>1, <1>2, <1>4, EarlyOwes DEF Keeps, server
<1> QED
  BY <1>2, <1>5, AllKept

\* Every step of a handler.
LEMMA OpKeeps ==
    ASSUME ShapeInv, NEW o \in Ops, OpStep(o)
    PROVE  KeepsAll(o)
BY ReadKeeps, CallAgentKeeps, AddNewKeeps, DeletePTRKeeps, CreatePTRKeeps, CreatePTRWarnsKeeps,
   ChangePTRAloneKeeps, CallFailsKeeps, SaveRecordKeeps, SavePTRKeeps, SaveZoneKeeps,
   FetchFirstKeeps, StoreFirstKeeps, DropZoneKeeps, MarkDirtyKeeps DEF OpStep

\* Handlers leave the tasks alone, and take back neither a mark nor an excuse.
LEMMA OpLeaves ==
    ASSUME ShapeInv, NEW o \in Ops, OpStep(o)
    PROVE  UNCHANGED <<job, sync, queued>> /\ owed \subseteq owed' /\ excused \subseteq excused'
BY PTRExcuses
   DEF OpStep, ReadForCreate, ReadForDelete, ReadForUpdate, CallAgent, AddNew, DeletePTR, CreatePTR,
       CreatePTRWarns, ChangePTRAlone, CallFails, SaveRecord, SavePTR, SaveZone, FetchFirst, StoreFirst,
       DropZone, MarkDirty, tasks, history

\* So every step of a handler preserves AgreeInv.
LEMMA OpAgrees ==
    ASSUME ShapeInv, AgreeInv, NEW o \in Ops, OpStep(o)
    PROVE  AgreeInv'
BY OpKeeps, OpLeaves, KeptAgrees DEF ShapeInv

\* Marks and tasks may be added without harm.
LEMMA StillAgrees ==
    ASSUME NEW z \in Zones, Agreeing(z), UNCHANGED <<dns, db, op, job, sync>>,
           z \in owed => z \in owed', z \in queued => z \in queued'
    PROVE  Agreeing(z)'
<1>1. Dirty(z) => Dirty(z)'
  BY DEF Dirty
<1>2. Copied(z)' = Copied(z)
  BY DEF Copied
<1> QED
  BY <1>1, <1>2 DEF Agreeing

\* Fire: the mark becomes a task, and nobody has read the zone; or it is excused.
LEMMA FireAgrees ==
    ASSUME ShapeInv, AgreeInv, NEW z \in Zones, Fire(z)
    PROVE  AgreeInv'
<1>1. /\ UNCHANGED <<dns, db, op, job, sync>> /\ owed' = owed \ {z} /\ queued \subseteq queued'
      /\ excused \subseteq excused'
      /\ \/ z \in excused'
         \/ ~Syncing /\ job["task"][z].pc = "idle" /\ z \in queued'
  BY DEF Fire, server
<1>2. ASSUME NEW y \in Zones \ excused' PROVE Agreeing(y)'
  <2>0. Agreeing(y)
    BY <1>1 DEF AgreeInv
  <2>1. CASE y # z
    BY <1>1, <2>0, <2>1, StillAgrees
  <2>2. CASE y = z
    <3>1. sync.pc = "idle" /\ job["task"][y].pc = "idle" /\ y \in queued'
      BY <1>1, <2>2 DEF Syncing
    <3>2. job["full"][y].pc = "idle"
      BY <3>1 DEF ShapeInv, SyncShape
    <3>3. \A k \in Sides : job'[k][y].pc \notin Copying
      BY <1>1, <3>1, <3>2 DEF Sides, Copying
    <3>4. Copied(y)' = Copied(y)
      BY <1>1 DEF Copied
    <3> QED
      BY <1>1, <2>0, <3>1, <3>3, <3>4 DEF Agreeing
  <2> QED
    BY <2>1, <2>2
<1> QED
  BY <1>2 DEF AgreeInv

\* RequestRefresh.
LEMMA RequestAgrees ==
    ASSUME AgreeInv, NEW z \in Zones, RequestRefresh(z)
    PROVE  AgreeInv'
<1>1. ASSUME NEW y \in Zones \ excused' PROVE Agreeing(y)'
  BY StillAgrees DEF AgreeInv, RequestRefresh, server, history
<1> QED
  BY <1>1 DEF AgreeInv

\* What is in flight after a step of a job.
LEMMA CopiedLess ==
    ASSUME job \in [Sides -> [Zones -> Job]], NEW k \in Sides, NEW z \in Zones, NEW j, Works(k, z, j),
           sync'.pc = sync.pc, sync'.listed = sync.listed, NEW y \in Zones, Copied(y)'
    PROVE  Copied(y) \/ (y = z /\ j.pc \in {"reverse", "store"}) \/ (z = "F" /\ j.pc = "storeR")
<1>1. job'[k][z] = j /\ \A i \in Sides, x \in Zones : i # k \/ x # z => job'[i][x] = job[i][x]
  BY JobsStay
<1>2. CASE sync'.pc = "replace" /\ y \in sync'.listed
  BY <1>2 DEF Copied
<1>3. ASSUME NEW i \in Sides, job'[i][y].pc \in {"reverse", "store"} \/ job'[i]["F"].pc = "storeR"
      PROVE  Copied(y) \/ (y = z /\ j.pc \in {"reverse", "store"}) \/ (z = "F" /\ j.pc = "storeR")
  BY <1>1, <1>3 DEF Copied, Zones
<1> QED
  BY <1>2, <1>3 DEF Copied

\* A step of a job, which stays true to the zone and to its snapshot.
LEMMA JobKeeps ==
    ASSUME job \in [Sides -> [Zones -> Job]], NEW k \in Sides, NEW z \in Zones, NEW j, Works(k, z, j),
           UNCHANGED <<dns, op, owed>>, sync'.pc = sync.pc, sync'.listed = sync.listed,
           NEW y \in Zones, Agreeing(y),
           y \in queued => y \in queued' \/ job'["task"][y].pc # "idle",
           dns[y] # None =>
              /\ y = z /\ j.pc \in Copying => Dirty(y) \/ j.recs = dns[y]
              /\ db'[y] # db[y] \/ (y = z /\ k = "task" /\ j.pc = "idle") =>
                    Dirty(y) \/ y \in queued' \/ job'["task"][y].pc # "idle" \/ db'[y] = dns[y],
           dns[y] = None =>
              (\E o \in Ops : Leaves(op[o], y)) \/ (db'[y] = db[y] /\ (Copied(y)' => Copied(y)))
    PROVE  Agreeing(y)'
<1>1. job'[k][z] = j /\ \A i \in Sides, x \in Zones : i # k \/ x # z => job'[i][x] = job[i][x]
  BY JobsStay
<1>2. Dirty(y)' = Dirty(y)
  BY DEF Dirty
<1>3. CASE dns[y] # None
  <2>1. ASSUME NEW i \in Sides, job'[i][y].pc \in Copying PROVE Dirty(y) \/ job'[i][y].recs = dns[y]
    <3>1. CASE i = k /\ y = z
      BY <1>1, <1>3, <2>1, <3>1
    <3>2. CASE i # k \/ y # z
      <4>1. job'[i][y] = job[i][y]
        BY <1>1, <3>2
      <4> QED
        BY <1>3, <2>1, <4>1 DEF Agreeing
    <3> QED
      BY <3>1, <3>2
  <2>2. Dirty(y) \/ y \in queued' \/ job'["task"][y].pc # "idle" \/ db'[y] = dns[y]
    <3>1. CASE db'[y] # db[y] \/ (y = z /\ k = "task" /\ j.pc = "idle")
      BY <1>3, <3>1
    <3>2. CASE db'[y] = db[y] /\ ~(y = z /\ k = "task" /\ j.pc = "idle")
      <4>1. job["task"][y].pc # "idle" => job'["task"][y].pc # "idle"
        BY <1>1, <3>2 DEF Sides
      <4> QED
        BY <1>3, <3>2, <4>1 DEF Agreeing
    <3> QED
      BY <3>1, <3>2
  <2> QED
    BY <1>2, <1>3, <2>1, <2>2 DEF Agreeing
<1>4. CASE dns[y] = None
  BY <1>4 DEF Agreeing
<1> QED
  BY <1>3, <1>4

\* StartTask.
LEMMA StartTaskAgrees ==
    ASSUME ShapeInv, AgreeInv, NEW z \in Zones, StartTask(z)
    PROVE  AgreeInv'
<1> DEFINE j == JobAt("fetch", job["task"][z].recs, job["task"][z].rev, job["task"][z].ptrs)
<1>1. Works("task", z, j) /\ job \in [Sides -> [Zones -> Job]] /\ "task" \in Sides
  BY StartTaskWorks DEF ShapeInv, Typed, Sides
<1>2. j.pc = "fetch"
  BY DEF JobAt
<1> HIDE DEF j
<1>3. queued' = queued \ {z} /\ UNCHANGED <<dns, db, op, owed, sync, excused>>
  BY DEF StartTask, server, history
<1>4. job'["task"][z] = j
  BY <1>1, JobsStay
<1>5. ASSUME NEW y \in Zones \ excused' PROVE Agreeing(y)'
  <2>1. Agreeing(y)
    BY <1>3 DEF AgreeInv
  <2>2. y \in queued => y \in queued' \/ job'["task"][y].pc # "idle"
    BY <1>2, <1>3, <1>4
  <2>3. Copied(y)' => Copied(y)
    BY <1>1, <1>2, <1>3, CopiedLess
  <2> QED
    BY <1>1, <1>2, <1>3, <2>1, <2>2, <2>3, JobKeeps DEF Copying
<1> QED
  BY <1>5 DEF AgreeInv

\* FetchZone: what it reads is what the zone holds; a failure ends the job, and
\* excuses the zone if it was a task's.
LEMMA FetchZoneAgrees ==
    ASSUME ShapeInv, AgreeInv, NEW k \in Sides, NEW z \in Zones, FetchZone(k, z)
    PROVE  AgreeInv'
<1>0. job \in [Sides -> [Zones -> Job]] /\ sync \in Synchronisation
  BY DEF ShapeInv, Typed
<1>1. UNCHANGED <<dns, db, op, owed, queued>>
  BY DEF FetchZone, server, tasks
<1>2. \/ /\ dns[z] # None /\ UNCHANGED <<sync, excused>>
         /\ \E pc \in {"reverse", "store"} : Works(k, z, JobAt(pc, dns[z], job[k][z].rev, job[k][z].ptrs))
      \/ Works(k, z, NoJob) /\ JobFails(k, z)
  BY FetchZoneWorks
<1>3. ASSUME NEW pc \in {"reverse", "store"}, dns[z] # None, UNCHANGED <<sync, excused>>,
             Works(k, z, JobAt(pc, dns[z], job[k][z].rev, job[k][z].ptrs)), NEW y \in Zones \ excused'
      PROVE  Agreeing(y)'
  <2> DEFINE j == JobAt(pc, dns[z], job[k][z].rev, job[k][z].ptrs)
  <2>1. j.pc \in {"reverse", "store"} /\ j.recs = dns[z] /\ Works(k, z, j)
    BY <1>3 DEF JobAt
  <2> HIDE DEF j
  <2>2. Agreeing(y)
    BY <1>3 DEF AgreeInv
  <2>3. dns[y] = None => (Copied(y)' => Copied(y))
    BY <1>0, <1>3, <2>1, CopiedLess
  <2> QED
    BY <1>0, <1>1, <1>3, <2>1, <2>2, <2>3, JobKeeps
<1>4. ASSUME Works(k, z, NoJob), JobFails(k, z), NEW y \in Zones \ excused' PROVE Agreeing(y)'
  <2>1. NoJob.pc = "idle"
    BY DEF NoJob
  <2>2. sync' = sync \/ sync' = [sync EXCEPT !.failed = TRUE]
    BY <1>4 DEF JobFails
  <2>3. sync'.pc = sync.pc /\ sync'.listed = sync.listed
    BY <1>0, <2>2, SyncMarked
  <2>4. excused \subseteq excused' /\ (k = "task" /\ y = z => dns[y] = None)
    BY <1>4 DEF JobFails, Exists
  <2>5. Agreeing(y)
    BY <2>4 DEF AgreeInv
  <2>6. Copied(y)' => Copied(y)
    BY <1>0, <1>4, <2>1, <2>3, CopiedLess
  <2> QED
    BY <1>0, <1>1, <1>4, <2>1, <2>3, <2>4, <2>5, <2>6, JobKeeps DEF Copying
<1> QED
  BY <1>2, <1>3, <1>4 DEF AgreeInv

\* FetchReverse.
LEMMA FetchReverseAgrees ==
    ASSUME ShapeInv, AgreeInv, NEW k \in Sides, NEW z \in Zones, FetchReverse(k, z)
    PROVE  AgreeInv'
<1> DEFINE g == job[k][z]
<1>0. job \in [Sides -> [Zones -> Job]] /\ sync \in Synchronisation
  BY DEF ShapeInv, Typed
<1>1. g.pc = "reverse" /\ UNCHANGED <<dns, db, op, owed, queued, excused>>
  BY DEF FetchReverse, server, tasks
<1>2. /\ z = "F"
      /\ sync' = sync \/ sync' = [sync EXCEPT !.blind = TRUE]
      /\ \E j : /\ Works(k, z, j) /\ j.recs = g.recs
                /\ j.pc = "store" \/ (j.pc = "storeR" /\ dns["R"] # None)
  <2>1. \/ /\ Works(k, z, JobAt("storeR", g.recs, dns["R"], dns["R"] \cap g.recs))
           /\ dns["R"] # None /\ sync' = sync
        \/ /\ Works(k, z, JobAt("store", g.recs, g.rev, g.ptrs))
           /\ sync' = sync \/ sync' = [sync EXCEPT !.blind = TRUE]
    BY FetchReverseWorks
  <2>2. z = "F"
    BY FetchReverseWorks
  <2>3. \A r, p : /\ JobAt("storeR", g.recs, r, p).recs = g.recs /\ JobAt("storeR", g.recs, r, p).pc = "storeR"
                  /\ JobAt("store", g.recs, r, p).recs = g.recs /\ JobAt("store", g.recs, r, p).pc = "store"
    BY DEF JobAt
  <2> QED
    BY <2>1, <2>2, <2>3
<1>3. PICK j : /\ Works(k, z, j) /\ j.recs = g.recs
               /\ j.pc = "store" \/ (j.pc = "storeR" /\ dns["R"] # None)
  BY <1>2
<1>4. sync'.pc = sync.pc /\ sync'.listed = sync.listed
  BY <1>0, <1>2, SyncMarked
<1>5. ASSUME NEW y \in Zones \ excused' PROVE Agreeing(y)'
  <2>1. Agreeing(y)
    BY <1>1 DEF AgreeInv
  <2>2. dns[y] # None /\ y = z => Dirty(y) \/ j.recs = dns[y]
    BY <1>1, <1>3, <2>1 DEF Agreeing, Copying
  <2>3. dns[y] = None => (Copied(y)' => Copied(y))
    <3>1. y = "F" => Copied(y)
      BY <1>1, <1>2 DEF Copied
    <3> QED
      BY <1>0, <1>2, <1>3, <1>4, <3>1, CopiedLess DEF Zones
  <2>4. j.pc # "idle"
    BY <1>3
  <2> QED
    BY <1>0, <1>1, <1>3, <1>4, <2>1, <2>2, <2>3, <2>4, JobKeeps
<1> QED
  BY <1>5 DEF AgreeInv

\* A handler that will see to a refresh owes it.
LEMMA TellsOwed ==
    ASSUME NEW h \in Handler, Shaped(h), NEW z \in Zones, WillTell(h, z)
    PROVE  Owes(h, z)
<1>1. CASE h.kind \in RecordKinds /\ h.pc \in {"save", "savePTR", "mark"} /\ z \in h.tell
  <2>1. h.pc # "mark" => h.tell = {h.zone}
    BY <1>1 DEF Shaped, RecordOp, Active
  <2>2. h.pc # "mark" => h.zone = z
    BY <1>1, <2>1
  <2> QED
    BY <1>1, <2>2 DEF Owes
<1>2. CASE /\ z = "R" /\ h.pc \in {"save", "savePTR"}
           /\ (h.ptr /\ ~h.warn) \/ (h.kind \in {"delete", "update"} /\ TellDeleted(h))
  <2>1. Active(h) /\ h.kind \in AllKinds
    BY <1>2 DEF Active, Shaped
  <2>2. h.kind \in RecordKinds
    BY <1>2, <2>1 DEF Shaped, ZoneOp, AllKinds, RecordKinds
  <2>3. h.kind = "delete" /\ TellDeleted(h) => h.unptr
    BY <2>1, <2>2 DEF Shaped, RecordOp, TellDeleted
  <2>4. h.kind = "update" /\ TellDeleted(h) => DropsPTR(h)
    BY DEF TellDeleted
  <2>5. OwesR(h)
    BY <1>2, <2>3, <2>4 DEF OwesR
  <2> QED
    BY <1>2, <2>2, <2>5 DEF Owes
<1>3. CASE h.kind = "createZone" /\ h.zone = z /\ h.pc \in {"save", "first", "replace", "mark"}
  BY <1>3 DEF Owes
<1> QED
  BY <1>1, <1>2, <1>3 DEF WillTell

\* What is pending is owed, or in the scheduler's and the tasks' hands.
LEMMA PendingOwed ==
    ASSUME Handlers, NEW z \in Zones, Pending(z)
    PROVE  Dirty(z) \/ z \in queued \/ job["task"][z].pc # "idle"
<1>1. ASSUME NEW o \in Ops, WillTell(op[o], z) PROVE Owes(op[o], z)
  BY <1>1, TellsOwed DEF Handlers
<1> QED
  BY <1>1 DEF Pending, Dirty

\* StoreReverse: R is stored as it is, or somebody sees to it, or it is excused.
LEMMA StoreReverseAgrees ==
    ASSUME ShapeInv, AgreeInv, NEW k \in Sides, NEW z \in Zones, StoreReverse(k, z)
    PROVE  AgreeInv'
<1> DEFINE g == job[k][z]
           j == JobAt("store", g.recs, {}, g.ptrs)
<1>0. Handlers /\ job \in [Sides -> [Zones -> Job]] /\ db \in Content /\ g \in Job
  BY DEF ShapeInv, Typed
<1>1. z = "F" /\ Works(k, z, j)
  BY StoreReverseWorks
<1>2. j.pc = "store" /\ j.recs = g.recs
  BY DEF JobAt
<1> HIDE DEF j
<1>3. g.pc = "storeR" /\ UNCHANGED <<dns, op, owed, queued, sync>> /\ excused \subseteq excused'
  BY DEF StoreReverse, tasks
<1>4. \/ db' = db
      \/ /\ db' = [db EXCEPT !["R"] = g.rev]
         /\ g.rev = dns["R"] \/ Pending("R") \/ "R" \in excused'
  BY DEF StoreReverse
<1>5. db' = db \/ (db'["R"] = g.rev /\ db'["F"] = db["F"])
  <2>1. g.rev \in Stored("R")
    BY <1>0 DEF Job, Stored
  <2>2. [db EXCEPT !["R"] = g.rev]["R"] = g.rev /\ [db EXCEPT !["R"] = g.rev]["F"] = db["F"]
    <3>1. "R" \in Zones /\ "F" \in Zones \ {"R"}
      BY DEF Zones
    <3>2. ASSUME NEW v \in Stored("R")
          PROVE  [db EXCEPT !["R"] = v]["R"] = v /\ [db EXCEPT !["R"] = v]["F"] = db["F"]
      <4>1. /\ [db EXCEPT !["R"] = v] \in Content /\ [db EXCEPT !["R"] = v]["R"] = v
            /\ \A y \in Zones \ {"R"} : [db EXCEPT !["R"] = v][y] = db[y]
        BY <1>0, <3>1, ContentSet
      <4> QED
        BY <3>1, <4>1
    <3> QED
      BY <2>1, <3>2
  <2> QED
    BY <1>4, <2>2
<1>6. ASSUME NEW y \in Zones \ excused' PROVE Agreeing(y)'
  <2>1. Agreeing(y)
    BY <1>3 DEF AgreeInv
  <2>2. y = z => Dirty(y) \/ j.recs = dns[y] \/ dns[y] = None
    BY <1>2, <1>3, <2>1 DEF Agreeing, Copying
  <2>3. db'[y] # db[y] => y = "R" /\ (db'[y] = dns[y] \/ Pending("R"))
    BY <1>4, <1>5 DEF Zones
  <2>4. db'[y] # db[y] => Dirty(y) \/ y \in queued \/ job["task"][y].pc # "idle" \/ db'[y] = dns[y]
    BY <1>0, <2>3, PendingOwed
  <2>5. db'[y] # db[y] => job'["task"][y] = job["task"][y]
    <3>1. "F" # "R"
      OBVIOUS
    <3> QED
      BY <1>0, <1>1, <2>3, <3>1, JobsStay DEF Sides
  <2>6. Copied(y)
    BY <1>1, <1>3 DEF Copied
  <2>7. dns[y] = None => \E o \in Ops : Leaves(op[o], y)
    BY <2>1, <2>6 DEF Agreeing
  <2>8. j.pc # "idle"
    BY <1>2
  <2>9. dns[y] # None /\ (db'[y] # db[y] \/ (y = z /\ k = "task" /\ j.pc = "idle")) =>
                    Dirty(y) \/ y \in queued' \/ job'["task"][y].pc # "idle" \/ db'[y] = dns[y]
    BY <1>3, <2>4, <2>5, <2>8
  <2> QED
    BY <1>0, <1>1, <1>3, <2>1, <2>2, <2>7, <2>9, JobKeeps
<1> QED
  BY <1>6 DEF AgreeInv

\* StoreZone: what it stores is what the zone holds, or the zone is owed.
LEMMA StoreZoneAgrees ==
    ASSUME ShapeInv, AgreeInv, NEW k \in Sides, NEW z \in Zones, StoreZone(k, z)
    PROVE  AgreeInv'
<1> DEFINE g == job[k][z]
<1>0. job \in [Sides -> [Zones -> Job]] /\ db \in Content /\ g \in Job /\ sync \in Synchronisation
  BY DEF ShapeInv, Typed
<1>1. Works(k, z, NoJob) /\ NoJob.pc = "idle"
  BY StoreZoneWorks DEF NoJob
<1>2. /\ g.pc = "store" /\ UNCHANGED <<dns, op, owed, queued>> /\ excused \subseteq excused'
      /\ sync' = sync \/ sync' = [sync EXCEPT !.failed = TRUE]
      /\ \/ db' = [db EXCEPT ![z] = g.recs]
         \/ db' = db /\ (k = "task" => z \in excused' \/ dns[z] = None)
  BY DEF StoreZone, JobFails, tasks, Exists
<1>3. sync'.pc = sync.pc /\ sync'.listed = sync.listed
  BY <1>0, <1>2, SyncMarked
<1>4. g.recs \in Stored(z)
  <2>1. g.recs \subseteq Records /\ (z = "R" => g.recs \subseteq PTRs)
    BY <1>0 DEF Job, ShapeInv, JobShape, JobFits
  <2> QED
    BY <2>1 DEF Stored, Zones
<1>5. /\ \A y \in Zones \ {z} : db'[y] = db[y]
      /\ db'[z] = g.recs \/ (db' = db /\ (k = "task" => z \in excused' \/ dns[z] = None))
  <2>1. [db EXCEPT ![z] = g.recs][z] = g.recs /\ \A y \in Zones \ {z} : [db EXCEPT ![z] = g.recs][y] = db[y]
    <3>1. ASSUME NEW v \in Stored(z)
          PROVE  /\ [db EXCEPT ![z] = v] \in Content /\ [db EXCEPT ![z] = v][z] = v
                 /\ \A y \in Zones \ {z} : [db EXCEPT ![z] = v][y] = db[y]
      BY <1>0, ContentSet
    <3> QED
      BY <1>4, <3>1
  <2> QED
    BY <1>2, <2>1
<1>6. ASSUME NEW y \in Zones \ excused' PROVE Agreeing(y)'
  <2>1. Agreeing(y)
    BY <1>2 DEF AgreeInv
  <2>2. Copied(y)' => Copied(y)
    BY <1>0, <1>1, <1>3, CopiedLess
  <2>3. y = z => Copied(y)
    BY <1>2 DEF Copied
  <2>4. dns[y] = None => (\E o \in Ops : Leaves(op[o], y)) \/ (db'[y] = db[y] /\ (Copied(y)' => Copied(y)))
    BY <1>5, <2>1, <2>2, <2>3 DEF Agreeing
  <2>5. dns[y] # None /\ y = z => Dirty(y) \/ g.recs = dns[y]
    BY <1>2, <2>1 DEF Agreeing, Copying
  <2>6. dns[y] # None /\ (db'[y] # db[y] \/ (y = z /\ k = "task" /\ NoJob.pc = "idle")) =>
                    Dirty(y) \/ y \in queued' \/ job'["task"][y].pc # "idle" \/ db'[y] = dns[y]
    BY <1>5, <2>5
  <2> QED
    BY <1>0, <1>1, <1>2, <1>3, <2>1, <2>4, <2>6, JobKeeps DEF Copying
<1> QED
  BY <1>6 DEF AgreeInv

\* Steps of syncDNS outside its list and its pool.
LEMMA SyncStill ==
    ASSUME NEW z \in Zones, Agreeing(z), UNCHANGED <<dns, db, op, job, owed, queued>>, sync'.pc # "replace"
    PROVE  Agreeing(z)'
<1>1. Dirty(z)' = Dirty(z)
  BY DEF Dirty
<1>2. Copied(z)' => Copied(z)
  BY DEF Copied
<1> QED
  BY <1>1, <1>2 DEF Agreeing

\* SyncList: it lists exactly the zones there are.
LEMMA SyncListAgrees ==
    ASSUME ShapeInv, AgreeInv, SyncList
    PROVE  AgreeInv'
<1> DEFINE found == {z \in Zones : Exists(z, dns)}
<1>1. /\ sync' = [sync EXCEPT !.pc = "replace", !.listed = found]
      /\ UNCHANGED <<dns, db, op, owed, queued, job, excused>>
  BY DEF SyncList, server, tasks, history
<1>2. found \subseteq Zones /\ \A z \in Zones : z \in found <=> dns[z] # None
  BY DEF Exists
<1> HIDE DEF found
<1>3. sync'.pc = "replace" /\ sync'.listed = found
  BY <1>1 DEF ShapeInv, Typed, Synchronisation
<1>4. ASSUME NEW z \in Zones \ excused' PROVE Agreeing(z)'
  <2>1. Agreeing(z)
    BY <1>1 DEF AgreeInv
  <2>2. Dirty(z)' = Dirty(z)
    BY <1>1 DEF Dirty
  <2>3. dns[z] = None => (Copied(z)' => Copied(z))
    BY <1>1, <1>2, <1>3 DEF Copied
  <2> QED
    BY <1>1, <1>2, <1>3, <2>1, <2>2, <2>3 DEF Agreeing
<1> QED
  BY <1>4 DEF AgreeInv

\* SyncReplace: the zones it drops are gone or owed, and those it adds are
\* there or leaving.
LEMMA SyncReplaceAgrees ==
    ASSUME ShapeInv, AgreeInv, SyncReplace
    PROVE  AgreeInv'
<1>1. /\ sync.pc = "replace" /\ db' = Listed(sync.listed)
      /\ sync' = [sync EXCEPT !.pc = "pool", !.todo = sync.listed]
      /\ UNCHANGED <<dns, op, owed, queued, job, excused>>
  BY DEF SyncReplace, tasks, history
<1>2. sync'.pc = "pool"
  BY <1>1 DEF ShapeInv, Typed, Synchronisation
<1>3. \A z \in Zones : db'[z] = IF z \notin sync.listed THEN None ELSE Rows(z, db)
  BY <1>1 DEF Listed
<1>4. ASSUME NEW z \in Zones \ excused' PROVE Agreeing(z)'
  <2>1. Agreeing(z)
    BY <1>1 DEF AgreeInv
  <2>2. Dirty(z)' = Dirty(z) /\ (Copied(z)' => Copied(z))
    BY <1>1, <1>2 DEF Dirty, Copied
  <2>3. CASE z \in sync.listed
    <3>1. Copied(z)
      BY <1>1, <2>3 DEF Copied
    <3>2. db[z] = dns[z] /\ dns[z] # None => db'[z] = dns[z]
      BY <1>3, <2>3 DEF Rows
    <3> QED
      BY <1>1, <1>2, <2>1, <2>2, <3>1, <3>2 DEF Agreeing
  <2>4. CASE z \notin sync.listed
    <3>1. db'[z] = None
      BY <1>3, <2>4
    <3> QED
      BY <1>1, <1>2, <2>1, <2>2, <2>4, <3>1 DEF Agreeing
  <2> QED
    BY <2>3, <2>4
<1> QED
  BY <1>4 DEF AgreeInv

\* The other steps of syncDNS.
LEMMA PoolAgrees ==
    ASSUME ShapeInv, AgreeInv, SyncStart \/ SyncFails \/ SyncJoin \/ SyncEnd
    PROVE  AgreeInv'
<1>1. UNCHANGED <<dns, db, op, job, owed, queued, excused>>
  BY DEF SyncStart, SyncFails, SyncJoin, SyncEnd, server, tasks, history
<1>2. sync'.pc # "replace"
  <2>1. sync \in Synchronisation
    BY DEF ShapeInv, Typed
  <2>2. [NoSync EXCEPT !.pc = "list"].pc = "list" /\ NoSync.pc = "idle"
    BY DEF NoSync
  <2>3. [sync EXCEPT !.pc = "end", !.failed = TRUE].pc = "end" /\ [sync EXCEPT !.pc = "end"].pc = "end"
    BY <2>1 DEF Synchronisation
  <2> QED
    BY <2>2, <2>3 DEF SyncStart, SyncFails, SyncJoin, SyncEnd
<1>3. ASSUME NEW z \in Zones \ excused' PROVE Agreeing(z)'
  BY <1>1, <1>2, SyncStill DEF AgreeInv
<1> QED
  BY <1>3 DEF AgreeInv

\* SyncZone.
LEMMA SyncZoneAgrees ==
    ASSUME ShapeInv, AgreeInv, NEW z \in Zones, SyncZone(z)
    PROVE  AgreeInv'
<1> DEFINE j == JobAt("fetch", job["full"][z].recs, job["full"][z].rev, job["full"][z].ptrs)
<1>0. job \in [Sides -> [Zones -> Job]] /\ "full" \in Sides /\ sync \in Synchronisation
  BY DEF ShapeInv, Typed, Sides
<1>1. Works("full", z, j)
  BY SyncZoneWorks
<1>2. j.pc = "fetch"
  BY DEF JobAt
<1> HIDE DEF j
<1>3. sync' = [sync EXCEPT !.todo = @ \ {z}] /\ UNCHANGED <<dns, db, op, owed, queued, excused>>
  BY DEF SyncZone, server, tasks, history
<1>4. sync'.pc = sync.pc /\ sync'.listed = sync.listed
  BY <1>0, <1>3 DEF Synchronisation
<1>5. ASSUME NEW y \in Zones \ excused' PROVE Agreeing(y)'
  <2>1. Agreeing(y)
    BY <1>3 DEF AgreeInv
  <2>2. Copied(y)' => Copied(y)
    BY <1>0, <1>1, <1>2, <1>4, CopiedLess
  <2> QED
    BY <1>0, <1>1, <1>2, <1>3, <1>4, <2>1, <2>2, JobKeeps DEF Copying
<1> QED
  BY <1>5 DEF AgreeInv

\* The initial states, in which the snapshot holds what the server holds.
LEMMA AgreeInit == Init => AgreeInv
<1> SUFFICES ASSUME Init PROVE AgreeInv
  OBVIOUS
<1>1. db = dns /\ sync = NoSync
  BY DEF Init
<1>2. \A k \in Sides, z \in Zones : job[k][z] = NoJob
  BY DEF Init
<1>3. \A o \in Ops : op[o] = NoOp
  BY DEF Init
<1>4. NoJob.pc = "idle" /\ NoSync.pc = "idle" /\ NoOp.pc = "idle"
  BY DEF NoJob, NoSync, NoOp
<1>5. ASSUME NEW z \in Zones PROVE ~Copied(z) /\ \A o \in Ops : ~Holds(op[o], z)
  BY <1>1, <1>2, <1>3, <1>4 DEF Copied, Holds, Zones
<1>6. ASSUME NEW z \in Zones PROVE Agreeing(z)
  BY <1>1, <1>2, <1>4, <1>5 DEF Agreeing, Copying
<1> QED
  BY <1>6 DEF AgreeInv

\* All steps.
LEMMA AgreeNext == ShapeInv /\ AgreeInv /\ [Next]_vars => AgreeInv'
<1> SUFFICES ASSUME ShapeInv, AgreeInv, [Next]_vars PROVE AgreeInv'
  OBVIOUS
<1>0. Handlers /\ scenario \in Scene
  BY DEF ShapeInv, Typed
<1>1. ASSUME NEW o \in Ops, NEW k \in RecordKinds, NEW x \in scenario.recs, NEW y \in scenario.recs,
             NEW p \in BOOLEAN, StartRecord(o, k, x, y, p)
      PROVE  AgreeInv'
  <2>1. \E h : Becomes(o, h) /\ h.pc = "read"
    BY <1>0, <1>1, StartRecordMoves
  <2>2. \E new : Start(o, new)
    BY <1>1 DEF StartRecord
  <2> QED
    BY <2>1, <2>2, StartAgrees
<1>2. ASSUME NEW o \in Ops, NEW k \in ZoneKinds, NEW z \in Zones, StartZone(o, k, z)
      PROVE  AgreeInv'
  <2>1. \E h : Becomes(o, h) /\ h.pc = "call"
    BY <1>0, <1>2, StartZoneMoves
  <2>2. \E new : Start(o, new)
    BY <1>2 DEF StartZone
  <2> QED
    BY <2>1, <2>2, StartAgrees
<1>3. ASSUME NEW o \in Ops, OpStep(o) PROVE AgreeInv'
  BY <1>3, OpAgrees
<1>4. ASSUME NEW z \in Zones, Fire(z) \/ RequestRefresh(z) \/ StartTask(z) PROVE AgreeInv'
  BY <1>4, FireAgrees, RequestAgrees, StartTaskAgrees
<1>5. ASSUME NEW k \in Sides, NEW z \in Zones, JobStep(k, z) PROVE AgreeInv'
  BY <1>5, FetchZoneAgrees, FetchReverseAgrees, StoreReverseAgrees, StoreZoneAgrees DEF JobStep
<1>6. CASE SyncStart \/ SyncStep
  BY <1>6, SyncListAgrees, SyncReplaceAgrees, PoolAgrees, SyncZoneAgrees DEF SyncStep
<1>7. CASE UNCHANGED vars
  <2>1. UNCHANGED <<dns, db, op, job, sync, owed, queued, excused>>
    BY <1>7 DEF vars, server, tasks, history
  <2>2. ASSUME NEW z \in Zones \ excused' PROVE Agreeing(z)'
    BY <2>1, StillAgrees DEF AgreeInv
  <2> QED
    BY <2>2 DEF AgreeInv
<1> QED
  BY <1>1, <1>2, <1>3, <1>4, <1>5, <1>6, <1>7 DEF Next

\* Whatever the order of handlers, their patches, refreshes of both zones, the
\* copies of R that refreshes of F store and a full synchronisation: when nothing
\* is at work on a zone and none is owed, its snapshot holds what the DNS server
\* holds, unless the zone was excused.
THEOREM ZonesAgree == Spec => []AgreesUnlessExcused
<1>1. ShapeInv /\ AgreeInv => AgreesUnlessExcused
  <2> SUFFICES ASSUME ShapeInv, AgreeInv, NEW z \in Zones, Settled(z), z \notin excused
               PROVE  db[z] = dns[z]
    BY DEF AgreesUnlessExcused
  <2>1. Agreeing(z)
    BY DEF AgreeInv
  <2>2. /\ z \notin owed /\ z \notin queued /\ job["task"][z].pc = "idle"
        /\ \A o \in Ops : op[o].pc \in {"idle", "done"}
    BY DEF Settled, Sides
  <2>3. ~Dirty(z) /\ \A o \in Ops : ~Leaves(op[o], z)
    BY <2>2, EarlyOwes DEF Dirty
  <2> QED
    BY <2>1, <2>2, <2>3 DEF Agreeing
<1> QED
  BY <1>1, ShapeInit, ShapeNext, AgreeInit, AgreeNext, PTL DEF Spec

-----------------------------------------------------------------------------
(***************************************************************************)
(* The answer of syncDNS.  Of every zone nobody else has changed since it   *)
(* began, what it has listed, fetched and stored is what the zone holds.    *)
(***************************************************************************)
\* The records of F that have a PTR record.
Flagged == Rows("F", dns) \cap Rows("R", dns)

\* What syncDNS knows of a zone, and has made of its snapshot.
Exact(z) ==
    /\ sync.pc \in {"replace", "pool"} => (z \in sync.listed <=> dns[z] # None)
    /\ job["full"][z].pc \in Copying => dns[z] # None /\ job["full"][z].recs = dns[z]
    /\ sync.pc = "pool" =>
          /\ dns[z] = None <=> db[z] = None
          /\ z \in sync.todo \/ job["full"][z].pc # "idle" \/ sync.failed \/ db[z] = dns[z]
    /\ sync.pc = "end" /\ ~sync.failed => db[z] = dns[z]

\* Its copy of R, and the flags it derives from it.
ExactCopy == job["full"]["F"].pc = "storeR" => dns["R"] # None /\ job["full"]["F"].rev = dns["R"]
ExactFlags ==
    /\ job["full"]["F"].pc \in {"storeR", "store"} => job["full"]["F"].ptrs = Flagged
    /\ sync.pc = "pool" =>
          "F" \in sync.todo \/ job["full"]["F"].pc # "idle" \/ sync.failed \/ flags = Flagged
    /\ sync.pc = "end" /\ ~sync.failed => flags = Flagged

ExactInv ==
    /\ \A z \in Zones \ touched : Exact(z)
    /\ "R" \notin touched => ExactCopy
    /\ touched = {} /\ ~sync.blind => ExactFlags

\* Before the pool, nothing is claimed.
LEMMA NothingClaimed ==
    ASSUME sync.pc \in {"idle", "list"}, job["full"]["F"].pc = "idle", job["full"]["R"].pc = "idle"
    PROVE  ExactInv
BY DEF ExactInv, Exact, ExactCopy, ExactFlags, Copying, Zones

\* Handlers and tasks change no zone syncDNS counts on.
LEMMA Outside ==
    ASSUME ShapeInv, ExactInv, sync' = sync, \A z \in Zones : job'["full"][z] = job["full"][z],
           Syncing => /\ touched \subseteq touched'
                      /\ \A z \in Zones \ touched' : dns'[z] = dns[z] /\ db'[z] = db[z]
                      /\ touched' = {} => flags' = flags
    PROVE  ExactInv'
<1>0. "F" \in Zones /\ "R" \in Zones
  BY DEF Zones
<1>1. CASE Syncing
  <2>1. ASSUME NEW z \in Zones \ touched' PROVE Exact(z)'
    <3>1. Exact(z) /\ dns'[z] = dns[z] /\ db'[z] = db[z] /\ job'["full"][z] = job["full"][z]
      BY <1>1 DEF ExactInv
    <3> QED
      BY <3>1 DEF Exact
  <2>2. ASSUME "R" \notin touched' PROVE ExactCopy'
    <3>1. ExactCopy /\ dns'["R"] = dns["R"] /\ job'["full"]["F"] = job["full"]["F"]
      BY <1>0, <1>1, <2>2 DEF ExactInv
    <3> QED
      BY <3>1 DEF ExactCopy
  <2>3. ASSUME touched' = {}, ~sync'.blind PROVE ExactFlags'
    <3>1. ExactFlags
      BY <1>1, <2>3 DEF ExactInv
    <3>2. dns'["R"] = dns["R"] /\ dns'["F"] = dns["F"] /\ flags' = flags /\ job'["full"]["F"] = job["full"]["F"]
      BY <1>0, <1>1, <2>3
    <3>3. Flagged' = Flagged
      BY <3>2 DEF Flagged, Rows
    <3> QED
      BY <3>1, <3>2, <3>3 DEF ExactFlags
  <2> QED
    BY <2>1, <2>2, <2>3 DEF ExactInv
<1>2. CASE ~Syncing
  <2>1. sync.pc = "idle" /\ \A z \in Zones : job["full"][z].pc = "idle"
    BY <1>2 DEF Syncing, ShapeInv, SyncShape
  <2>2. job'["full"]["F"].pc = "idle" /\ job'["full"]["R"].pc = "idle" /\ sync'.pc = "idle"
    BY <1>0, <2>1
  <2> QED
    BY <2>2 DEF ExactInv, Exact, ExactCopy, ExactFlags, Copying, Zones
<1> QED
  BY <1>1, <1>2

\* A handler that touches the zone it changes.
LEMMA TouchOutside ==
    ASSUME ShapeInv, ExactInv, UNCHANGED <<job, sync>>, NEW x \in Zones, Touch({x}),
           \A z \in Zones \ {x} : dns'[z] = dns[z] /\ db'[z] = db[z]
    PROVE  ExactInv'
<1>1. Syncing => touched \subseteq touched' /\ x \in touched'
  BY DEF Touch
<1>2. \A z \in Zones : job'["full"][z] = job["full"][z]
  OBVIOUS
<1> QED
  BY <1>1, <1>2, Outside

\* Every step of a handler.
LEMMA OpExact ==
    ASSUME ShapeInv, ExactInv, NEW o \in Ops, OpStep(o)
    PROVE  ExactInv'
<1> DEFINE g == op[o]
<1>0. Handlers /\ dns \in Content /\ db \in Content /\ Flagging /\ "R" \in Zones
  BY DEF ShapeInv, Typed, Zones
<1>1. UNCHANGED <<job, sync>>
  BY DEF OpStep, ReadForCreate, ReadForDelete, ReadForUpdate, CallAgent, AddNew, DeletePTR, CreatePTR,
         CreatePTRWarns, ChangePTRAlone, CallFails, SaveRecord, SavePTR, SaveZone, FetchFirst, StoreFirst,
         DropZone, MarkDirty
<1>2. CASE UNCHANGED <<server, touched>>
  BY <1>1, <1>2, Outside DEF server
<1>3. CASE CallAgent(o)
  <2>1. g.zone \in Zones /\ \A y \in Zones \ {g.zone} : dns'[y] = dns[y]
    BY <1>0, <1>3, CallAgentEffect
  <2> QED
    BY <1>1, <1>3, <2>1, TouchOutside DEF CallAgent
<1>4. CASE AddNew(o)
  <2>1. g.zone \in Zones /\ \A y \in Zones \ {g.zone} : dns'[y] = dns[y]
    BY <1>0, <1>4, AddNewEffect DEF Changes
  <2> QED
    BY <1>1, <1>4, <2>1, TouchOutside DEF AddNew
<1>5. CASE DeletePTR(o) \/ CreatePTR(o) \/ CreatePTRWarns(o) \/ ChangePTRAlone(o)
  <2>1. \A y \in Zones \ {"R"} : dns'[y] = dns[y]
    BY <1>0, <1>5, PTREffect DEF Changes
  <2>2. Touch({"R"}) /\ db' = db
    BY <1>5 DEF DeletePTR, CreatePTR, CreatePTRWarns, ChangePTRAlone
  <2> QED
    BY <1>0, <1>1, <2>1, <2>2, TouchOutside
<1>6. CASE SaveRecord(o)
  <2>1. g.zone \in Zones /\ \A y \in Zones \ {g.zone} : db'[y] = db[y]
    BY <1>0, <1>6, SaveRecordEffect DEF Changes
  <2> QED
    BY <1>1, <1>6, <2>1, TouchOutside DEF SaveRecord
<1>7. CASE SavePTR(o)
  <2>1. \A y \in Zones \ {"R"} : db'[y] = db[y]
    BY <1>0, <1>7, SavePTREffect DEF Changes
  <2> QED
    BY <1>0, <1>1, <1>7, <2>1, TouchOutside DEF SavePTR
<1>8. CASE SaveZone(o)
  <2>1. g.zone \in Zones /\ \A y \in Zones \ {g.zone} : db'[y] = db[y]
    BY <1>0, <1>8, SaveZoneEffect
  <2> QED
    BY <1>1, <1>8, <2>1, TouchOutside DEF SaveZone
<1>9. CASE StoreFirst(o)
  <2>1. g.zone \in Zones /\ \A y \in Zones \ {g.zone} : db'[y] = db[y]
    BY <1>0, <1>9, StoreFirstEffect
  <2> QED
    BY <1>1, <1>9, <2>1, TouchOutside DEF StoreFirst
<1>10. CASE DropZone(o)
  <2>1. g.zone \in Zones /\ \A y \in Zones \ {g.zone} : db'[y] = db[y]
    BY <1>0, <1>10, DropZoneEffect
  <2> QED
    BY <1>1, <1>10, <2>1, TouchOutside DEF DropZone
<1>11. CASE \/ ReadForCreate(o) \/ ReadForDelete(o) \/ ReadForUpdate(o)
            \/ CallFails(o) \/ FetchFirst(o) \/ MarkDirty(o)
  BY <1>2, <1>11 DEF ReadForCreate, ReadForDelete, ReadForUpdate, CallFails, FetchFirst, MarkDirty, history
<1> QED
  BY <1>3, <1>4, <1>5, <1>6, <1>7, <1>8, <1>9, <1>10, <1>11 DEF OpStep

\* The scheduler, and the tasks.
LEMMA TaskExact ==
    ASSUME ShapeInv, ExactInv, NEW z \in Zones, Fire(z) \/ RequestRefresh(z) \/ StartTask(z)
    PROVE  ExactInv'
<1>1. UNCHANGED <<server, sync, touched>>
  BY DEF Fire, RequestRefresh, StartTask, history
<1>2. \A y \in Zones : job'["full"][y] = job["full"][y]
  <2>1. CASE Fire(z) \/ RequestRefresh(z)
    BY <2>1 DEF Fire, RequestRefresh
  <2>2. CASE StartTask(z)
    BY <2>2, StartTaskWorks, JobsStay DEF ShapeInv, Typed, Sides
  <2> QED
    BY <2>1, <2>2
<1> QED
  BY <1>1, <1>2, Outside DEF server

\* The jobs of tasks.
LEMMA TaskJobExact ==
    ASSUME ShapeInv, ExactInv, NEW z \in Zones, JobStep("task", z)
    PROVE  ExactInv'
<1>0. /\ job \in [Sides -> [Zones -> Job]] /\ "task" \in Sides /\ "full" \in Sides /\ "R" \in Zones
      /\ db \in Content
  BY DEF ShapeInv, Typed, Sides, Zones
<1>1. ASSUME NEW j, Works("task", z, j) PROVE \A y \in Zones : job'["full"][y] = job["full"][y]
  BY <1>0, <1>1, JobsStay
<1>2. CASE FetchZone("task", z) \/ FetchReverse("task", z)
  <2>1. UNCHANGED <<server, sync, touched>>
    BY <1>2 DEF FetchZone, FetchReverse, JobFails
  <2>2. \E j : Works("task", z, j)
    BY <1>0, <1>2, FetchZoneWorks, FetchReverseWorks
  <2> QED
    BY <1>1, <2>1, <2>2, Outside DEF server
<1>3. CASE StoreReverse("task", z)
  <2> DEFINE g == job["task"][z]
  <2>1. \E j : Works("task", z, j)
    BY <1>0, <1>3, StoreReverseWorks
  <2>2. UNCHANGED <<dns, flags, sync>>
    BY <1>3 DEF StoreReverse
  <2>3. (db' = [db EXCEPT !["R"] = g.rev] /\ Touch({"R"})) \/ UNCHANGED <<db, touched>>
    BY <1>3 DEF StoreReverse
  <2>4. \A y \in Zones \ {"R"} : db'[y] = db[y]
    BY <1>0, <2>3 DEF Content, Zones
  <2>5. Syncing => touched \subseteq touched' /\ ("R" \in touched' \/ db' = db)
    BY <2>3 DEF Touch
  <2>6. Syncing => /\ touched \subseteq touched'
                   /\ \A y \in Zones \ touched' : dns'[y] = dns[y] /\ db'[y] = db[y]
                   /\ touched' = {} => flags' = flags
    BY <2>2, <2>4, <2>5
  <2> QED
    BY <1>1, <2>1, <2>2, <2>6, Outside
<1>4. CASE StoreZone("task", z)
  <2> DEFINE g == job["task"][z]
  <2>1. Works("task", z, NoJob)
    BY <1>0, <1>4, StoreZoneWorks
  <2>2. UNCHANGED <<dns, sync>>
    BY <1>4 DEF StoreZone, JobFails
  <2>3. (db' = [db EXCEPT ![z] = g.recs] /\ Touch({z})) \/ UNCHANGED <<db, flags, touched>>
    BY <1>4 DEF StoreZone
  <2>4. \A y \in Zones \ {z} : db'[y] = db[y]
    BY <1>0, <2>3 DEF Content, Zones
  <2>5. Syncing => touched \subseteq touched' /\ (z \in touched' \/ UNCHANGED <<db, flags>>)
    BY <2>3 DEF Touch
  <2>6. Syncing => /\ touched \subseteq touched'
                   /\ \A y \in Zones \ touched' : dns'[y] = dns[y] /\ db'[y] = db[y]
                   /\ touched' = {} => flags' = flags
    BY <2>2, <2>4, <2>5
  <2> QED
    BY <1>1, <2>1, <2>2, <2>6, Outside
<1> QED
  BY <1>2, <1>3, <1>4 DEF JobStep

\* A step of a goroutine of syncDNS: what it has read and what it stores of its
\* zone is what the zone holds.
LEMMA FullKeeps ==
    ASSUME ShapeInv, ExactInv, NEW z \in Zones, NEW j, Works("full", z, j), job["full"][z].pc # "idle",
           UNCHANGED <<dns, touched>>, sync'.pc = sync.pc, sync'.listed = sync.listed, sync'.todo = sync.todo,
           sync.failed => sync'.failed, sync.blind => sync'.blind,
           z \notin touched =>
              /\ j.pc \in Copying => dns[z] # None /\ j.recs = dns[z]
              /\ j.pc # "idle" \/ sync'.failed \/ db'[z] = dns[z],
           \A y \in Zones \ touched : db'[y] = db[y] \/ db'[y] = dns[y],
           z = "F" /\ j.pc = "storeR" /\ "R" \notin touched => dns["R"] # None /\ j.rev = dns["R"],
           touched = {} /\ ~sync'.blind =>
              /\ z = "F" => /\ j.pc \in {"storeR", "store"} => j.ptrs = Flagged
                            /\ j.pc # "idle" \/ sync'.failed \/ flags' = Flagged
              /\ z # "F" => flags' = flags
    PROVE  ExactInv'
<1>0. job \in [Sides -> [Zones -> Job]] /\ "full" \in Sides /\ "F" \in Zones /\ "R" \in Zones
  BY DEF ShapeInv, Typed, Sides, Zones
<1>1. job'["full"][z] = j /\ \A y \in Zones \ {z} : job'["full"][y] = job["full"][y]
  BY <1>0, JobsStay
<1>2. sync.pc = "pool" /\ z \notin sync.todo
  BY DEF ShapeInv, SyncShape
<1>3. ASSUME NEW y \in Zones \ touched' PROVE Exact(y)'
  <2>1. Exact(y)
    BY DEF ExactInv
  <2>2. db'[y] = db[y] \/ db'[y] = dns[y]
    OBVIOUS
  <2>3. CASE y = z
    BY <1>1, <1>2, <2>1, <2>2, <2>3 DEF Exact
  <2>4. CASE y # z
    <3>1. job'["full"][y] = job["full"][y]
      BY <1>1, <2>4
    <3> QED
      BY <1>2, <2>1, <2>2, <3>1 DEF Exact
  <2> QED
    BY <2>3, <2>4
<1>4. ASSUME "R" \notin touched' PROVE ExactCopy'
  <2>1. ExactCopy
    BY <1>4 DEF ExactInv
  <2>2. CASE z = "F"
    BY <1>1, <1>4, <2>2 DEF ExactCopy
  <2>3. CASE z # "F"
    <3>1. job'["full"]["F"] = job["full"]["F"]
      BY <1>0, <1>1, <2>3
    <3> QED
      BY <2>1, <3>1 DEF ExactCopy
  <2> QED
    BY <2>2, <2>3
<1>5. ASSUME touched' = {}, ~sync'.blind PROVE ExactFlags'
  <2>1. ExactFlags
    BY <1>5 DEF ExactInv
  <2>2. Flagged' = Flagged
    BY DEF Flagged, Rows
  <2>3. CASE z = "F"
    BY <1>1, <1>2, <1>5, <2>2, <2>3 DEF ExactFlags
  <2>4. CASE z # "F"
    <3>1. job'["full"]["F"] = job["full"]["F"] /\ flags' = flags
      BY <1>0, <1>1, <1>5, <2>4
    <3> QED
      BY <1>2, <2>1, <2>2, <3>1 DEF ExactFlags
  <2> QED
    BY <2>3, <2>4
<1> QED
  BY <1>3, <1>4, <1>5 DEF ExactInv

\* A synchronisation with a failure, or without the records of R.
LEMMA SyncMarks ==
    ASSUME sync \in Synchronisation
    PROVE  /\ sync' = [sync EXCEPT !.failed = TRUE] => sync'.failed /\ sync'.blind = sync.blind
           /\ sync' = [sync EXCEPT !.blind = TRUE] => sync'.blind /\ sync'.failed = sync.failed
BY DEF Synchronisation

\* FetchZone of a goroutine.
LEMMA FullFetchExact ==
    ASSUME ShapeInv, ExactInv, NEW z \in Zones, FetchZone("full", z)
    PROVE  ExactInv'
<1> DEFINE g == job["full"][z]
<1>0. "full" \in Sides /\ sync \in Synchronisation
  BY DEF ShapeInv, Typed, Sides
<1>1. g.pc # "idle" /\ UNCHANGED <<dns, db, flags, touched>>
  BY DEF FetchZone, server
<1>2. \/ /\ dns[z] # None /\ UNCHANGED <<sync, excused>>
         /\ Works("full", z, JobAt(IF z = "F" THEN "reverse" ELSE "store", dns[z], g.rev, g.ptrs))
      \/ Works("full", z, NoJob) /\ JobFails("full", z)
  BY <1>0, FetchZoneWorks
<1>3. CASE /\ dns[z] # None /\ UNCHANGED <<sync, excused>>
           /\ Works("full", z, JobAt(IF z = "F" THEN "reverse" ELSE "store", dns[z], g.rev, g.ptrs))
  <2> DEFINE j == JobAt(IF z = "F" THEN "reverse" ELSE "store", dns[z], g.rev, g.ptrs)
  <2>1. j.pc = (IF z = "F" THEN "reverse" ELSE "store") /\ j.recs = dns[z] /\ Works("full", z, j)
    BY <1>3 DEF JobAt
  <2> HIDE DEF j
  <2> QED
    BY <1>1, <1>3, <2>1, FullKeeps
<1>4. CASE Works("full", z, NoJob) /\ JobFails("full", z)
  <2>1. NoJob.pc = "idle"
    BY DEF NoJob
  <2>2. sync' = [sync EXCEPT !.failed = TRUE]
    BY <1>4 DEF JobFails
  <2>3. sync'.failed /\ sync'.blind = sync.blind
    BY <1>0, <2>2, SyncMarks
  <2>4. sync'.pc = sync.pc /\ sync'.listed = sync.listed /\ sync'.todo = sync.todo
    BY <1>0, <2>2, SyncMarked
  <2> QED
    BY <1>1, <1>4, <2>1, <2>3, <2>4, FullKeeps DEF Copying
<1> QED
  BY <1>2, <1>3, <1>4

\* A PTR record has an address.
LEMMA PTRsAreA == \A x \in PTRs : IsA(x)
BY DEF PTRs, IsA

\* FetchReverse of a goroutine.
LEMMA FullReverseExact ==
    ASSUME ShapeInv, ExactInv, NEW z \in Zones, FetchReverse("full", z)
    PROVE  ExactInv'
<1> DEFINE g == job["full"][z]
<1>0. /\ "full" \in Sides /\ "R" \in Zones /\ sync \in Synchronisation /\ dns \in Content
      /\ job \in [Sides -> [Zones -> Job]]
  BY DEF ShapeInv, Typed, Sides, Zones
<1>1. g.pc = "reverse" /\ UNCHANGED <<dns, db, flags, touched>>
  BY DEF FetchReverse, server
<1>2. /\ z = "F"
      /\ \/ /\ Works("full", z, JobAt("storeR", g.recs, dns["R"], dns["R"] \cap g.recs))
            /\ dns["R"] # None /\ UNCHANGED <<sync, apart>>
         \/ /\ Works("full", z, JobAt("store", g.recs, g.rev, g.ptrs))
            /\ \/ /\ UNCHANGED <<sync, apart>>
                  /\ db["R"] = None \/ \A x \in g.recs : ~IsA(x)
               \/ sync' = [sync EXCEPT !.blind = TRUE]
  BY <1>0, FetchReverseWorks
<1>3. sync.pc = "pool"
  BY <1>1 DEF ShapeInv, SyncShape
<1>4. z \notin touched => dns[z] # None /\ g.recs = dns[z]
  BY <1>1 DEF ExactInv, Exact, Copying
<1>5. CASE /\ Works("full", z, JobAt("storeR", g.recs, dns["R"], dns["R"] \cap g.recs))
           /\ dns["R"] # None /\ UNCHANGED <<sync, apart>>
  <2> DEFINE j == JobAt("storeR", g.recs, dns["R"], dns["R"] \cap g.recs)
  <2>1. /\ j.pc = "storeR" /\ j.recs = g.recs /\ j.rev = dns["R"] /\ j.ptrs = dns["R"] \cap g.recs
        /\ Works("full", z, j)
    BY <1>5 DEF JobAt
  <2> HIDE DEF j
  <2>2. touched = {} => j.ptrs = Flagged
    BY <1>2, <1>4, <1>5, <2>1 DEF Flagged, Rows
  <2>3. ~(j.pc = "idle")
    BY <2>1
  <2> QED
    BY <1>1, <1>2, <1>4, <1>5, <2>1, <2>2, FullKeeps
<1>6. CASE /\ Works("full", z, JobAt("store", g.recs, g.rev, g.ptrs))
           /\ \/ /\ UNCHANGED <<sync, apart>>
                 /\ db["R"] = None \/ \A x \in g.recs : ~IsA(x)
              \/ sync' = [sync EXCEPT !.blind = TRUE]
  <2> DEFINE j == JobAt("store", g.recs, g.rev, g.ptrs)
  <2>1. /\ j.pc = "store" /\ j.recs = g.recs /\ j.ptrs = g.ptrs
        /\ Works("full", z, j)
    BY <1>6 DEF JobAt
  <2> HIDE DEF j
  <2>2. g.ptrs = {}
    BY <1>0, <1>1, <1>2 DEF ShapeInv, JobShape, JobFits
  <2>3. /\ sync'.pc = sync.pc /\ sync'.listed = sync.listed /\ sync'.todo = sync.todo
        /\ sync.failed => sync'.failed
        /\ sync.blind => sync'.blind
    BY <1>0, <1>6, SyncMarked, SyncMarks
  <2>4. ASSUME touched = {}, ~sync'.blind PROVE j.ptrs = Flagged
    <3>1. db["R"] = None \/ \A x \in g.recs : ~IsA(x)
      BY <1>0, <1>6, <2>4, SyncMarks
    <3>2. CASE db["R"] = None
      <4>1. dns["R"] = None
        BY <1>0, <1>3, <2>4, <3>2 DEF ExactInv, Exact
      <4>2. Flagged = {}
        BY <4>1 DEF Flagged, Rows
      <4> QED
        BY <2>1, <2>2, <4>2
    <3>3. CASE \A x \in g.recs : ~IsA(x)
      <4>1. Rows("F", dns) = g.recs
        BY <1>2, <1>4, <2>4 DEF Rows
      <4>2. Rows("R", dns) \subseteq PTRs
        BY <1>0, Contents
      <4>3. Flagged = {}
        BY <3>3, <4>1, <4>2, PTRsAreA DEF Flagged
      <4> QED
        BY <2>1, <2>2, <4>3
    <3> QED
      BY <3>1, <3>2, <3>3
  <2> QED
    BY <1>1, <1>2, <1>4, <2>1, <2>3, <2>4, FullKeeps
<1> QED
  BY <1>2, <1>5, <1>6

\* StoreReverse of a goroutine: its copy of R is what R holds.
LEMMA FullStoreReverseExact ==
    ASSUME ShapeInv, ExactInv, NEW z \in Zones, StoreReverse("full", z)
    PROVE  ExactInv'
<1> DEFINE g == job["full"][z]
           j == JobAt("store", g.recs, {}, g.ptrs)
<1>0. "full" \in Sides /\ "R" \in Zones /\ db \in Content
  BY DEF ShapeInv, Typed, Sides, Zones
<1>1. z = "F" /\ Works("full", z, j)
  BY <1>0, StoreReverseWorks
<1>2. j.pc = "store" /\ j.recs = g.recs /\ j.ptrs = g.ptrs
  BY DEF JobAt
<1> HIDE DEF j
<1>3. /\ g.pc = "storeR" /\ UNCHANGED <<dns, flags, sync, touched>>
      /\ db' = [db EXCEPT !["R"] = g.rev] \/ db' = db
  BY DEF StoreReverse
<1>4. z \notin touched => dns[z] # None /\ g.recs = dns[z]
  BY <1>3 DEF ExactInv, Exact, Copying
<1>5. "R" \notin touched => g.rev = dns["R"]
  BY <1>1, <1>3 DEF ExactInv, ExactCopy
<1>6. touched = {} /\ ~sync.blind => g.ptrs = Flagged
  BY <1>1, <1>3 DEF ExactInv, ExactFlags
<1>7. \A y \in Zones : db'[y] = db[y] \/ (y = "R" /\ db'[y] = g.rev)
  BY <1>0, <1>3 DEF Content, Zones
<1>8. \A y \in Zones \ touched : db'[y] = db[y] \/ db'[y] = dns[y]
  BY <1>5, <1>7
<1> QED
  BY <1>1, <1>2, <1>3, <1>4, <1>6, <1>8, FullKeeps

\* StoreZone of a goroutine.
LEMMA FullStoreExact ==
    ASSUME ShapeInv, ExactInv, NEW z \in Zones, StoreZone("full", z)
    PROVE  ExactInv'
<1> DEFINE g == job["full"][z]
<1>0. "full" \in Sides /\ db \in Content /\ sync \in Synchronisation
  BY DEF ShapeInv, Typed, Sides
<1>1. Works("full", z, NoJob) /\ NoJob.pc = "idle"
  BY <1>0, StoreZoneWorks DEF NoJob
<1>2. /\ g.pc = "store" /\ UNCHANGED <<dns, touched>>
      /\ \/ /\ db' = [db EXCEPT ![z] = g.recs] /\ flags' = (IF z = "F" THEN g.ptrs ELSE flags)
            /\ sync' = sync
         \/ sync' = [sync EXCEPT !.failed = TRUE] /\ UNCHANGED <<db, flags>>
  BY DEF StoreZone, StoredFlags, JobFails
<1>3. z \notin touched => dns[z] # None /\ g.recs = dns[z]
  BY <1>2 DEF ExactInv, Exact, Copying
<1>4. touched = {} /\ ~sync.blind /\ z = "F" => g.ptrs = Flagged
  BY <1>2 DEF ExactInv, ExactFlags
<1>5. CASE /\ db' = [db EXCEPT ![z] = g.recs] /\ flags' = (IF z = "F" THEN g.ptrs ELSE flags)
           /\ sync' = sync
  <2>1. \A y \in Zones : IF y = z THEN db'[y] = g.recs ELSE db'[y] = db[y]
    BY <1>0, <1>5 DEF Content, Zones
  <2>2. \A y \in Zones \ touched : db'[y] = db[y] \/ db'[y] = dns[y]
    BY <1>3, <2>1
  <2>3. z \notin touched => db'[z] = dns[z]
    BY <1>3, <2>1
  <2> QED
    BY <1>1, <1>2, <1>4, <1>5, <2>2, <2>3, FullKeeps DEF Copying
<1>6. CASE sync' = [sync EXCEPT !.failed = TRUE] /\ UNCHANGED <<db, flags>>
  <2>1. sync'.failed /\ sync'.blind = sync.blind
    BY <1>0, <1>6, SyncMarks
  <2>2. sync'.pc = sync.pc /\ sync'.listed = sync.listed /\ sync'.todo = sync.todo
    BY <1>0, <1>6, SyncMarked
  <2> QED
    BY <1>1, <1>2, <1>6, <2>1, <2>2, FullKeeps DEF Copying
<1> QED
  BY <1>2, <1>5, <1>6

\* SyncStart and SyncEnd claim nothing; SyncFails and SyncJoin are its answer.
LEMMA EndsExact ==
    ASSUME ShapeInv, ExactInv, SyncStart \/ SyncFails \/ SyncJoin \/ SyncEnd
    PROVE  ExactInv'
<1>0. sync \in Synchronisation
  BY DEF ShapeInv, Typed
<1>1. CASE SyncStart \/ SyncEnd
  <2>1. job' = job /\ sync.pc # "pool"
    BY <1>1 DEF SyncStart, SyncEnd
  <2>2. \A z \in Zones : job["full"][z].pc = "idle"
    BY <2>1 DEF ShapeInv, SyncShape
  <2>3. sync'.pc \in {"idle", "list"}
    BY <1>1 DEF SyncStart, SyncEnd, NoSync
  <2>4. "F" \in Zones /\ "R" \in Zones
    BY DEF Zones
  <2>5. job'["full"]["F"].pc = "idle" /\ job'["full"]["R"].pc = "idle"
    BY <2>1, <2>2, <2>4
  <2> QED
    BY <2>3, <2>5 DEF ExactInv, Exact, ExactCopy, ExactFlags, Copying, Zones
<1>2. CASE SyncFails
  <2>1. sync.pc # "pool" /\ sync' = [sync EXCEPT !.pc = "end", !.failed = TRUE] /\ job' = job
    BY <1>2 DEF SyncFails
  <2>2. sync'.pc = "end" /\ sync'.failed
    BY <1>0, <2>1 DEF Synchronisation
  <2>3. \A z \in Zones : job["full"][z].pc = "idle"
    BY <2>1 DEF ShapeInv, SyncShape
  <2>4. "F" \in Zones
    BY DEF Zones
  <2> QED
    BY <2>1, <2>2, <2>3, <2>4 DEF ExactInv, Exact, ExactCopy, ExactFlags, Copying
<1>3. CASE SyncJoin
  <2>1. /\ sync.pc = "pool" /\ sync.todo = {} /\ \A z \in Zones : job["full"][z].pc = "idle"
        /\ sync' = [sync EXCEPT !.pc = "end"] /\ UNCHANGED <<dns, db, flags, job, touched>>
    BY <1>3 DEF SyncJoin, server, history
  <2>2. sync'.pc = "end" /\ sync'.failed = sync.failed /\ sync'.blind = sync.blind
    BY <1>0, <2>1 DEF Synchronisation
  <2>3. "F" \in Zones
    BY DEF Zones
  <2>4. ASSUME NEW z \in Zones \ touched' PROVE Exact(z)'
    BY <2>1, <2>2 DEF ExactInv, Exact, Copying
  <2>5. ExactCopy'
    BY <2>1, <2>3 DEF ExactCopy
  <2>6. ASSUME touched' = {}, ~sync'.blind PROVE ExactFlags'
    <3>1. ExactFlags
      BY <2>1, <2>2, <2>6 DEF ExactInv
    <3>2. Flagged' = Flagged
      BY <2>1 DEF Flagged, Rows
    <3> QED
      BY <2>1, <2>2, <2>3, <3>1, <3>2 DEF ExactFlags
  <2> QED
    BY <2>4, <2>5, <2>6 DEF ExactInv
<1> QED
  BY <1>1, <1>2, <1>3

\* SyncList, SyncReplace and SyncZone.
LEMMA ListExact ==
    ASSUME ShapeInv, ExactInv, SyncList
    PROVE  ExactInv'
<1> DEFINE found == {z \in Zones : Exists(z, dns)}
<1>1. /\ sync.pc = "list" /\ sync' = [sync EXCEPT !.pc = "replace", !.listed = found]
      /\ UNCHANGED <<dns, job>>
  BY DEF SyncList, server, history
<1>2. \A z \in Zones : z \in found <=> dns[z] # None
  BY DEF Exists
<1> HIDE DEF found
<1>3. sync'.pc = "replace" /\ sync'.listed = found
  BY <1>1 DEF ShapeInv, Typed, Synchronisation
<1>4. \A z \in Zones : job["full"][z].pc = "idle"
  BY <1>1 DEF ShapeInv, SyncShape
<1>5. "F" \in Zones
  BY DEF Zones
<1> QED
  BY <1>1, <1>2, <1>3, <1>4, <1>5 DEF ExactInv, Exact, ExactCopy, ExactFlags, Copying

\* SyncReplace: the zones that are listed are those that have a row.
LEMMA ReplaceExact ==
    ASSUME ShapeInv, ExactInv, SyncReplace
    PROVE  ExactInv'
<1>1. /\ sync.pc = "replace" /\ db' = Listed(sync.listed)
      /\ flags' = IF "F" \in sync.listed THEN flags ELSE {}
      /\ sync' = [sync EXCEPT !.pc = "pool", !.todo = sync.listed] /\ UNCHANGED <<dns, job, touched>>
  BY DEF SyncReplace, history
<1>2. sync'.pc = "pool" /\ sync'.listed = sync.listed /\ sync'.todo = sync.listed /\ sync'.blind = sync.blind
  BY <1>1 DEF ShapeInv, Typed, Synchronisation
<1>3. \A z \in Zones : job["full"][z].pc = "idle"
  BY <1>1 DEF ShapeInv, SyncShape
<1>4. "F" \in Zones /\ db \in Content
  BY DEF Zones, ShapeInv, Typed
<1>5. ASSUME NEW z \in Zones \ touched' PROVE Exact(z)'
  <2>1. z \in sync.listed <=> dns[z] # None
    BY <1>1 DEF ExactInv, Exact
  <2>2. db'[z] = IF z \notin sync.listed THEN None ELSE Rows(z, db)
    BY <1>1 DEF Listed
  <2>3. Rows(z, db) # None
    <3>1. Rows(z, db) \subseteq Records
      BY <1>4, Contents
    <3> QED
      BY <3>1, NoneAssumption
  <2> QED
    BY <1>1, <1>2, <1>3, <2>1, <2>2, <2>3 DEF Exact, Copying
<1>6. ExactCopy'
  BY <1>1, <1>3, <1>4 DEF ExactCopy
<1>7. ASSUME touched' = {} PROVE ExactFlags'
  <2>1. "F" \notin sync.listed => dns["F"] = None
    BY <1>1, <1>4, <1>7 DEF ExactInv, Exact
  <2>2. "F" \notin sync.listed => flags' = Flagged'
    BY <1>1, <2>1 DEF Flagged, Rows
  <2> QED
    BY <1>1, <1>2, <1>3, <1>4, <2>2 DEF ExactFlags
<1> QED
  BY <1>5, <1>6, <1>7 DEF ExactInv

\* SyncZone.
LEMMA SyncZoneExact ==
    ASSUME ShapeInv, ExactInv, NEW z \in Zones, SyncZone(z)
    PROVE  ExactInv'
<1> DEFINE j == JobAt("fetch", job["full"][z].recs, job["full"][z].rev, job["full"][z].ptrs)
<1>0. /\ job \in [Sides -> [Zones -> Job]] /\ "full" \in Sides /\ sync \in Synchronisation
      /\ "F" \in Zones /\ "R" \in Zones
  BY DEF ShapeInv, Typed, Sides, Zones
<1>1. Works("full", z, j)
  BY SyncZoneWorks
<1>2. j.pc = "fetch"
  BY DEF JobAt
<1> HIDE DEF j
<1>3. /\ sync.pc = "pool" /\ sync' = [sync EXCEPT !.todo = @ \ {z}]
      /\ UNCHANGED <<dns, db, flags, touched>>
  BY DEF SyncZone, server, history
<1>4. /\ sync'.pc = "pool" /\ sync'.listed = sync.listed /\ sync'.todo = sync.todo \ {z}
      /\ sync'.failed = sync.failed /\ sync'.blind = sync.blind
  BY <1>0, <1>3 DEF Synchronisation
<1>5. job'["full"][z] = j /\ \A y \in Zones \ {z} : job'["full"][y] = job["full"][y]
  BY <1>0, <1>1, JobsStay
<1>6. ASSUME NEW y \in Zones \ touched' PROVE Exact(y)'
  <2>1. Exact(y)
    BY <1>3 DEF ExactInv
  <2> QED
    BY <1>2, <1>3, <1>4, <1>5, <2>1 DEF Exact, Copying
<1>7. ASSUME "R" \notin touched' PROVE ExactCopy'
  <2>1. ExactCopy
    BY <1>3, <1>7 DEF ExactInv
  <2> QED
    BY <1>0, <1>2, <1>3, <1>5, <2>1 DEF ExactCopy
<1>8. ASSUME touched' = {}, ~sync'.blind PROVE ExactFlags'
  <2>1. ExactFlags
    BY <1>3, <1>4, <1>8 DEF ExactInv
  <2>2. Flagged' = Flagged
    BY <1>3 DEF Flagged, Rows
  <2> QED
    BY <1>0, <1>2, <1>3, <1>4, <1>5, <2>1, <2>2 DEF ExactFlags
<1> QED
  BY <1>6, <1>7, <1>8 DEF ExactInv

\* The initial states.
LEMMA ExactInit == Init => ExactInv
<1> SUFFICES ASSUME Init PROVE ExactInv
  OBVIOUS
<1>1. sync.pc = "idle" /\ job["full"]["F"].pc = "idle" /\ job["full"]["R"].pc = "idle"
  BY DEF Init, NoSync, NoJob, Sides, Zones
<1> QED
  BY <1>1, NothingClaimed

\* All steps.
LEMMA ExactNext == ShapeInv /\ ExactInv /\ [Next]_vars => ExactInv'
<1> SUFFICES ASSUME ShapeInv, ExactInv, [Next]_vars PROVE ExactInv'
  OBVIOUS
<1>1. ASSUME NEW o \in Ops, NEW new, Start(o, new) PROVE ExactInv'
  BY <1>1, Outside DEF Start
<1>2. ASSUME NEW o \in Ops, OpStep(o) PROVE ExactInv'
  BY <1>2, OpExact
<1>3. ASSUME NEW z \in Zones, Fire(z) \/ RequestRefresh(z) \/ StartTask(z) PROVE ExactInv'
  BY <1>3, TaskExact
<1>4. ASSUME NEW k \in Sides, NEW z \in Zones, JobStep(k, z) PROVE ExactInv'
  <2>1. CASE k = "task"
    BY <1>4, <2>1, TaskJobExact
  <2>2. CASE k = "full"
    BY <1>4, <2>2, FullFetchExact, FullReverseExact, FullStoreReverseExact, FullStoreExact DEF JobStep
  <2> QED
    BY <2>1, <2>2 DEF Sides
<1>5. CASE SyncStart \/ SyncStep
  BY <1>5, EndsExact, ListExact, ReplaceExact, SyncZoneExact DEF SyncStep
<1>6. CASE UNCHANGED vars
  BY <1>6, Outside DEF vars, server, history
<1>7. \A o \in Ops : \A k, x, y, p : StartRecord(o, k, x, y, p) => \E new : Start(o, new)
  BY DEF StartRecord
<1>8. \A o \in Ops : \A k, z : StartZone(o, k, z) => \E new : Start(o, new)
  BY DEF StartZone
<1> QED
  BY <1>1, <1>2, <1>3, <1>4, <1>5, <1>6, <1>7, <1>8 DEF Next

\* When syncDNS returns nil, every zone that neither a handler nor a task has
\* changed since it began is exact in the snapshot, and so are the flags unless
\* R could not be fetched: the goroutines store the copies of R and of F in any
\* order, and none of the results is lost.
THEOREM SyncExact == Spec => []NilMeansExact
<1>1. ExactInv => NilMeansExact
  <2> SUFFICES ASSUME ExactInv, sync.pc = "end", ~sync.failed
               PROVE  /\ \A z \in Zones \ touched : db[z] = dns[z]
                      /\ touched = {} /\ ~sync.blind => flags = Rows("F", db) \cap Rows("R", db)
    BY DEF NilMeansExact
  <2>1. \A z \in Zones \ touched : db[z] = dns[z]
    BY DEF ExactInv, Exact
  <2>2. ASSUME touched = {}, ~sync.blind PROVE flags = Rows("F", db) \cap Rows("R", db)
    <3>1. flags = Flagged
      BY <2>2 DEF ExactInv, ExactFlags
    <3>2. db["F"] = dns["F"] /\ db["R"] = dns["R"]
      BY <2>1, <2>2 DEF Zones
    <3> QED
      BY <3>1, <3>2 DEF Flagged, Rows
  <2> QED
    BY <2>1, <2>2
<1> QED
  BY <1>1, ShapeInit, ShapeNext, ExactInit, ExactNext, PTL DEF Spec

-----------------------------------------------------------------------------
(***************************************************************************)
(* The flags.  While R is only changed together with F, no zone comes or    *)
(* goes, and the flags are those of the PTR records there are unless F is   *)
(* going to be refreshed.                                                   *)
(***************************************************************************)
\* Nothing on the way creates or deletes a zone, or changes R alone.
Steady ==
    /\ \A z \in Zones : db[z] = None <=> dns[z] = None
    /\ \A o \in Ops : /\ Active(op[o]) /\ op[o].kind \in ZoneKinds => op[o].pc = "call"
                      /\ op[o].pc = "add" => op[o].zone = "F"
    /\ sync.pc = "replace" => \A z \in Zones : z \in sync.listed <=> dns[z] # None
    /\ \A k \in Sides, z \in Zones : job[k][z].pc \in Copying => dns[z] # None
    /\ \A k \in Sides : job[k]["F"].pc = "storeR" => dns["R"] # None

FlagsRight ==
    /\ Dirty("F") \/ "F" \in queued \/ job["task"]["F"].pc # "idle" \/ flags = Flagged
    /\ \A k \in Sides : job[k]["F"].pc \in {"storeR", "store"} => Dirty("F") \/ job[k]["F"].ptrs = Flagged

FlagsInv == ~apart => Steady /\ (excused = {} => FlagsRight)

\* The same zones are there, and the same have rows.
SameZones == \A z \in Zones : (dns'[z] = None <=> dns[z] = None) /\ (db'[z] = None <=> db[z] = None)

\* Without F there is no flag.
LEMMA NoFlags ==
    ASSUME Steady, Flagging, dns["F"] = None
    PROVE  flags = {} /\ Flagged = {} /\ \A k \in Sides : job[k]["F"].pc \notin Copying
<1>1. "F" \in Zones
  BY DEF Zones
<1>2. db["F"] = None
  BY <1>1 DEF Steady
<1> QED
  BY <1>1, <1>2 DEF Steady, Flagging, Rows, Flagged

\* A step of a handler that changes the PTR records or the flags owes F.
LEMMA HandlerFlags ==
    ASSUME ShapeInv, FlagsInv, Flagging', ~apart, NEW o \in Ops, NEW h, Becomes(o, h), KeepsAll(o),
           UNCHANGED <<job, sync, queued>>, owed \subseteq owed', excused \subseteq excused', SameZones,
           Active(h) /\ h.kind \in ZoneKinds => h.pc = "call", h.pc = "add" => h.zone = "F",
           (dns' = dns /\ flags' = flags) \/ Owes(h, "F")
    PROVE  FlagsInv'
<1>0. Handlers /\ "F" \in Zones /\ "R" \in Zones /\ Flagging
  BY DEF ShapeInv, Typed, Zones
<1>1. op'[o] = h /\ \A p \in Ops \ {o} : op'[p] = op[p]
  BY <1>0, OthersStay
<1>2. Steady
  BY DEF FlagsInv
<1>3. Steady'
  <2>1. \A p \in Ops : /\ Active(op'[p]) /\ op'[p].kind \in ZoneKinds => op'[p].pc = "call"
                       /\ op'[p].pc = "add" => op'[p].zone = "F"
    BY <1>1, <1>2 DEF Steady
  <2>2. \A z \in Zones : db'[z] = None <=> dns'[z] = None
    BY <1>2 DEF Steady, SameZones
  <2>3. sync.pc = "replace" => \A z \in Zones : z \in sync.listed <=> dns'[z] # None
    BY <1>2 DEF Steady, SameZones
  <2>4. \A k \in Sides, z \in Zones : job[k][z].pc \in Copying => dns'[z] # None
    BY <1>2 DEF Steady, SameZones
  <2>5. \A k \in Sides : job[k]["F"].pc = "storeR" => dns'["R"] # None
    BY <1>0, <1>2 DEF Steady, SameZones
  <2> QED
    BY <2>1, <2>2, <2>3, <2>4, <2>5 DEF Steady
<1>4. ASSUME excused' = {} PROVE FlagsRight'
  <2>1. FlagsRight
    BY <1>4 DEF FlagsInv
  <2>2. CASE dns["F"] = None
    <3>1. db["F"] = None
      BY <1>0, <1>2, <2>2 DEF Steady
    <3>2. dns'["F"] = None /\ db'["F"] = None
      BY <1>0, <2>2, <3>1 DEF SameZones
    <3>3. flags' = {} /\ Flagged' = {}
      BY <3>2 DEF Flagging, Rows, Flagged
    <3>4. \A k \in Sides : job[k]["F"].pc \notin Copying
      BY <1>0, <1>2, <2>2 DEF Steady
    <3> QED
      BY <3>3, <3>4 DEF FlagsRight, Copying
  <2>3. CASE dns["F"] # None
    <3>1. PICK g : Becomes(o, g) /\ \A z \in Zones \ excused' : Keeps(o, g, z)
      BY DEF KeepsAll
    <3>2. op'[o] = g
      BY <1>0, <3>1, OthersStay
    <3>3. Keeps(o, h, "F")
      BY <1>0, <1>1, <1>4, <3>1, <3>2
    <3>4. dns'["F"] # None
      BY <1>0, <2>3 DEF SameZones
    <3>5. Owes(op[o], "F") => Owes(h, "F") \/ "F" \in owed'
      BY <3>3, <3>4 DEF Keeps
    <3>6. Dirty("F") => Dirty("F")'
      BY <1>1, <3>5 DEF Dirty
    <3>7. CASE Owes(h, "F")
      <4>1. Dirty("F")'
        BY <1>1, <3>7 DEF Dirty
      <4> QED
        BY <4>1 DEF FlagsRight
    <3>8. CASE dns' = dns /\ flags' = flags
      <4>1. Flagged' = Flagged
        BY <3>8 DEF Flagged, Rows
      <4> QED
        BY <2>1, <3>6, <3>8, <4>1 DEF FlagsRight
    <3> QED
      BY <3>7, <3>8
  <2> QED
    BY <2>2, <2>3
<1> QED
  BY <1>3, <1>4 DEF FlagsInv

\* The same for the steps of OpStep.
LEMMA StepFlags ==
    ASSUME ShapeInv, FlagsInv, ~apart, NEW o \in Ops, OpStep(o), NEW h, Becomes(o, h), SameZones,
           Active(h) /\ h.kind \in ZoneKinds => h.pc = "call", h.pc = "add" => h.zone = "F",
           (dns' = dns /\ flags' = flags) \/ Owes(h, "F")
    PROVE  FlagsInv'
<1>1. ShapeInv'
  BY OpShape
<1>2. Flagging'
  BY <1>1 DEF ShapeInv, Typed
<1>3. KeepsAll(o) /\ UNCHANGED <<job, sync, queued>> /\ owed \subseteq owed' /\ excused \subseteq excused'
  BY OpKeeps, OpLeaves
<1> QED
  BY <1>2, <1>3, HandlerFlags

\* A handler of a record of F that has called the Agent owes F.
LEMMA ForwardOwes ==
    ASSUME NEW h \in Handler, Shaped(h), h.kind \in RecordKinds, h.zone = "F",
           h.pc \notin {"idle", "done", "read", "call"}
    PROVE  Owes(h, "F")
BY RecordOwes DEF Zones

\* A change of one zone.
LEMMA ChangesSame ==
    ASSUME NEW z \in Zones, (Changes(dns, dns', z) /\ db' = db) \/ (Changes(db, db', z) /\ dns' = dns)
    PROVE  SameZones
BY DEF Changes, SameZones

\* The steps that read, fail or mark change nothing.
LEMMA QuietFlags ==
    ASSUME ShapeInv, FlagsInv, ~apart, NEW o \in Ops,
           \/ ReadForCreate(o) \/ ReadForDelete(o) \/ ReadForUpdate(o)
           \/ CallFails(o) \/ MarkDirty(o)
    PROVE  FlagsInv'
<1>0. Handlers /\ OpStep(o)
  BY DEF ShapeInv, OpStep
<1>1. UNCHANGED server
  BY DEF ReadForCreate, ReadForDelete, ReadForUpdate, CallFails, MarkDirty
<1>2. SameZones
  BY <1>1 DEF SameZones, server
<1>3. ~Active(Ended) /\ Ended.pc # "add"
  BY EndedShape
<1>4. CASE Becomes(o, Ended)
  BY <1>0, <1>1, <1>2, <1>3, <1>4, StepFlags DEF server
<1>5. CASE ReadForCreate(o) \/ ReadForDelete(o) \/ ReadForUpdate(o)
  <2>1. op[o].kind \in RecordKinds
    BY <1>5 DEF ReadForCreate, ReadForDelete, ReadForUpdate, RecordKinds
  <2>2. Becomes(o, Ended) \/ \E h : Becomes(o, h) /\ h.kind = op[o].kind /\ h.pc \in {"call", "alone", "save"}
    BY <1>0, <1>5, ReadForCreateMoves, ReadForDeleteMoves, ReadForUpdateMoves
  <2>3. ASSUME NEW h, Becomes(o, h), h.kind = op[o].kind, h.pc \in {"call", "alone", "save"}
        PROVE  FlagsInv'
    <3>1. h.kind \notin ZoneKinds /\ h.pc # "add"
      BY <2>1, <2>3 DEF RecordKinds, ZoneKinds
    <3> QED
      BY <1>0, <1>1, <1>2, <2>3, <3>1, StepFlags DEF server
  <2> QED
    BY <1>4, <2>2, <2>3
<1>6. CASE CallFails(o) \/ MarkDirty(o)
  <2>1. Becomes(o, Ended)
    BY <1>0, <1>6, MovesDone DEF CallFails, MarkDirty
  <2> QED
    BY <1>4, <2>1
<1> QED
  BY <1>5, <1>6

\* CallAgent: R alone, or a zone as a whole, sets apart.
LEMMA CallAgentFlags ==
    ASSUME ShapeInv, FlagsInv, ~apart', NEW o \in Ops, CallAgent(o)
    PROVE  FlagsInv'
<1> DEFINE g == op[o]
           h == At(g, AfterCall(g))
<1>0. Handlers /\ dns \in Content /\ OpStep(o)
  BY DEF ShapeInv, Typed, OpStep
<1>1. Becomes(o, h) /\ h \in Handler /\ Shaped(h)
  BY <1>0, CallAgentMoves DEF Becomes
<1>2. h.pc = AfterCall(g) /\ h.kind = g.kind /\ h.zone = g.zone
  BY WithFields DEF At
<1> HIDE DEF h
<1>3. ~apart /\ g.zone # "R" /\ g.kind \notin ZoneKinds /\ db' = db
  BY DEF CallAgent, Apart
<1>4. /\ g.zone \in Zones /\ g.kind \in AllKinds
      /\ \A y \in Zones \ {g.zone} : dns'[y] = dns[y]
      /\ g.kind \in RecordKinds => dns[g.zone] # None /\ dns'[g.zone] # None
  BY <1>0, CallAgentEffect
<1>5. g.zone = "F" /\ g.kind \in RecordKinds
  BY <1>3, <1>4 DEF Zones, AllKinds
<1>6. h.pc \in {"add", "unptr", "ptr", "save"}
  BY <1>2 DEF AfterCall
<1>7. Owes(h, "F")
  BY <1>1, <1>2, <1>5, <1>6, ForwardOwes
<1>8. SameZones
  BY <1>3, <1>4, <1>5 DEF SameZones
<1> QED
  BY <1>0, <1>1, <1>2, <1>3, <1>5, <1>7, <1>8, StepFlags

\* AddNew.
LEMMA AddNewFlags ==
    ASSUME ShapeInv, FlagsInv, ~apart, NEW o \in Ops, AddNew(o)
    PROVE  FlagsInv'
<1> DEFINE g == op[o]
<1>0. Handlers /\ dns \in Content /\ OpStep(o)
  BY DEF ShapeInv, Typed, OpStep
<1>1. PICK pc \in {"unptr", "ptr", "save"} : Becomes(o, At(g, pc))
  BY <1>0, AddNewMoves
<1> DEFINE h == At(g, pc)
<1>2. h \in Handler /\ Shaped(h) /\ Becomes(o, h) /\ h.pc = pc /\ h.kind = g.kind /\ h.zone = g.zone
  <2>1. h.pc = pc /\ h.kind = g.kind /\ h.zone = g.zone
    BY WithFields DEF At
  <2> HIDE DEF h
  <2>2. Becomes(o, h)
    BY <1>1 DEF h
  <2> QED
    BY <2>1, <2>2 DEF Becomes
<1> HIDE DEF h
<1>3. g.pc = "add" /\ db' = db
  BY DEF AddNew
<1>4. g.kind \in RecordKinds \ ZoneKinds
  BY <1>0, AddNewMoves DEF RecordKinds, ZoneKinds
<1>5. g.zone = "F"
  BY <1>3 DEF FlagsInv, Steady
<1>6. Changes(dns, dns', g.zone) /\ g.zone \in Zones
  BY <1>0, AddNewEffect
<1>7. Owes(h, "F")
  BY <1>1, <1>2, <1>4, <1>5, ForwardOwes
<1>8. SameZones
  BY <1>3, <1>6, ChangesSame
<1> QED
  BY <1>0, <1>1, <1>2, <1>4, <1>7, <1>8, StepFlags

\* The steps on PTR records belong to handlers of records of F.
LEMMA PTRFlags ==
    ASSUME ShapeInv, FlagsInv, ~apart, NEW o \in Ops,
           DeletePTR(o) \/ CreatePTR(o) \/ CreatePTRWarns(o) \/ ChangePTRAlone(o)
    PROVE  FlagsInv'
<1> DEFINE g == op[o]
<1>0. Handlers /\ dns \in Content /\ OpStep(o) /\ g \in Handler /\ Shaped(g)
  BY DEF ShapeInv, Typed, OpStep, Handlers
<1>1. Changes(dns, dns', "R")
  BY <1>0, PTREffect
<1>2. db' = db
  BY DEF DeletePTR, CreatePTR, CreatePTRWarns, ChangePTRAlone
<1>3. SameZones
  <2>1. "R" \in Zones
    BY DEF Zones
  <2> QED
    BY <1>1, <1>2, <2>1, ChangesSame
<1>4. g.kind \in {"create", "delete", "update"}
  BY <1>0, DeletePTRMoves, CreatePTRMoves, ChangePTRAloneMoves DEF CreatePTRWarns
<1>5. Active(g) /\ g.kind \in RecordKinds
  BY <1>4 DEF Active, RecordKinds, DeletePTR, CreatePTR, CreatePTRWarns, ChangePTRAlone
<1>6. g.zone = "F"
  BY <1>0, <1>4, <1>5, RecordZone
<1>7. ASSUME NEW h, Becomes(o, h), h.kind = g.kind, h.zone = g.zone, h.pc \in {"ptr", "save"}
      PROVE  FlagsInv'
  <2>1. h \in Handler /\ Shaped(h)
    BY <1>7 DEF Becomes
  <2>2. Owes(h, "F")
    BY <1>5, <1>6, <1>7, <2>1, ForwardOwes
  <2>3. h.kind \notin ZoneKinds /\ h.pc # "add"
    BY <1>5, <1>7 DEF RecordKinds, ZoneKinds
  <2> QED
    BY <1>0, <1>3, <1>7, <2>2, <2>3, StepFlags
<1>8. CASE DeletePTR(o)
  <2>1. PICK pc \in {"ptr", "save"} : Becomes(o, At(g, pc))
    BY <1>0, <1>8, DeletePTRMoves
  <2> DEFINE h == At(g, pc)
  <2>2. Becomes(o, h) /\ h.pc = pc /\ h.kind = g.kind /\ h.zone = g.zone
    BY <2>1, WithFields DEF At
  <2> HIDE DEF h
  <2> QED
    BY <1>7, <2>2
<1>9. CASE CreatePTR(o) \/ CreatePTRWarns(o) \/ ChangePTRAlone(o)
  <2>1. PICK warn : Becomes(o, Warned(g, "save", warn))
    BY <1>0, <1>9, CreatePTRMoves, CreatePTRWarnsMoves, ChangePTRAloneMoves
  <2> DEFINE h == Warned(g, "save", warn)
  <2>2. Becomes(o, h) /\ h.pc = "save" /\ h.kind = g.kind /\ h.zone = g.zone
    BY <2>1 DEF Warned, With
  <2> HIDE DEF h
  <2> QED
    BY <1>7, <2>2
<1> QED
  BY <1>8, <1>9

\* SaveRecord: the row and the flag of a record of F; a row of R has no flag.
LEMMA SaveRecordFlags ==
    ASSUME ShapeInv, FlagsInv, ~apart, NEW o \in Ops, SaveRecord(o)
    PROVE  FlagsInv'
<1> DEFINE g == op[o]
           h == At(g, "savePTR")
<1>0. Handlers /\ db \in Content /\ Flagging /\ OpStep(o)
  BY DEF ShapeInv, Typed, OpStep
<1>1. Becomes(o, h) /\ h \in Handler /\ Shaped(h)
  BY <1>0, SaveRecordMoves DEF Becomes
<1>2. h.pc = "savePTR" /\ h.kind = g.kind /\ h.zone = g.zone
  BY WithFields DEF At
<1> HIDE DEF h
<1>3. g.kind \in RecordKinds \ ZoneKinds /\ dns' = dns
  BY DEF SaveRecord, RecordKinds, ZoneKinds
<1>4. g.zone \in Zones /\ Changes(db, db', g.zone) /\ (g.zone = "R" => flags' = flags)
  BY <1>0, SaveRecordEffect
<1>5. SameZones
  BY <1>3, <1>4, ChangesSame
<1>6. (dns' = dns /\ flags' = flags) \/ Owes(h, "F")
  BY <1>1, <1>2, <1>3, <1>4, ForwardOwes DEF Zones
<1> QED
  BY <1>0, <1>1, <1>2, <1>3, <1>5, <1>6, StepFlags

\* SavePTR: the rows of R have no flags.
LEMMA SavePTRFlags ==
    ASSUME ShapeInv, FlagsInv, ~apart, NEW o \in Ops, SavePTR(o)
    PROVE  FlagsInv'
<1> DEFINE g == op[o]
<1>0. Handlers /\ db \in Content /\ Flagging /\ OpStep(o) /\ "R" \in Zones
  BY DEF ShapeInv, Typed, OpStep, Zones
<1>1. g.kind \in RecordKinds \ ZoneKinds /\ \E t : Becomes(o, Told(g, "mark", t))
  BY <1>0, SavePTRMoves DEF RecordKinds, ZoneKinds
<1>2. PICK tell : Becomes(o, Told(g, "mark", tell))
  BY <1>1
<1> DEFINE h == Told(g, "mark", tell)
<1>3. Becomes(o, h) /\ h.pc = "mark" /\ h.kind = g.kind
  BY <1>2 DEF Told, With
<1> HIDE DEF h
<1>4. dns' = dns /\ flags' = flags
  BY DEF SavePTR
<1>5. SameZones
  BY <1>0, <1>4, SavePTREffect, ChangesSame
<1> QED
  BY <1>0, <1>1, <1>3, <1>4, <1>5, StepFlags

\* There is no handler that stores or drops a zone.
LEMMA NoZoneSteps ==
    ASSUME ShapeInv, FlagsInv, ~apart, NEW o \in Ops
    PROVE  ~SaveZone(o) /\ ~FetchFirst(o) /\ ~StoreFirst(o) /\ ~DropZone(o)
<1>1. Handlers /\ dns \in Content /\ db \in Content /\ Flagging
  BY DEF ShapeInv, Typed
<1>2. Active(op[o]) /\ op[o].kind \in ZoneKinds => op[o].pc = "call"
  BY DEF FlagsInv, Steady
<1>3. ~SaveZone(o) /\ ~DropZone(o)
  BY <1>2 DEF SaveZone, DropZone, Active, ZoneKinds
<1>4. ~FetchFirst(o)
  <2>1. FetchFirst(o) => op[o].kind = "createZone" /\ op[o].pc = "first"
    BY <1>1, FetchFirstMoves DEF FetchFirst
  <2> QED
    BY <1>2, <2>1 DEF Active, ZoneKinds
<1>5. ~StoreFirst(o)
  <2>1. StoreFirst(o) => op[o].kind = "createZone" /\ op[o].pc = "replace"
    BY <1>1, StoreFirstEffect DEF StoreFirst
  <2> QED
    BY <1>2, <2>1 DEF Active, ZoneKinds
<1> QED
  BY <1>3, <1>4, <1>5

\* Every step of a handler.
LEMMA OpFlags ==
    ASSUME ShapeInv, FlagsInv, ~apart', NEW o \in Ops, OpStep(o)
    PROVE  FlagsInv'
<1>1. ~apart
  BY DEF OpStep, ReadForCreate, ReadForDelete, ReadForUpdate, CallAgent, Apart, AddNew, DeletePTR, CreatePTR,
         CreatePTRWarns, ChangePTRAlone, CallFails, SaveRecord, SavePTR, SaveZone, FetchFirst, StoreFirst,
         DropZone, MarkDirty, history
<1> QED
  BY <1>1, QuietFlags, CallAgentFlags, AddNewFlags, PTRFlags, SaveRecordFlags, SavePTRFlags, NoZoneSteps DEF OpStep

\* A request changes nothing.
LEMMA StartFlags ==
    ASSUME ShapeInv, FlagsInv, ~apart, NEW o \in Ops, NEW new, Start(o, new), NEW h, Becomes(o, h),
           (h.pc = "read" /\ h.kind \in RecordKinds) \/ h.pc = "call"
    PROVE  FlagsInv'
<1>1. op[o].pc = "idle" /\ UNCHANGED <<server, job, sync, queued, owed, excused>>
  BY DEF Start, tasks, history
<1>2. UNCHANGED <<dns, db, flags>> /\ SameZones
  BY <1>1 DEF server, SameZones
<1>3. h.pc # "replace" /\ h.pc # "save" /\ h.pc # "add"
  OBVIOUS
<1>4. KeepsAll(o)
  BY <1>1, <1>3, EarlyKeeps
<1>5. Flagging'
  BY <1>2 DEF ShapeInv, Typed, Flagging, Rows
<1>6. Active(h) /\ h.kind \in ZoneKinds => h.pc = "call"
  BY DEF RecordKinds, ZoneKinds
<1> QED
  BY <1>1, <1>2, <1>3, <1>4, <1>5, <1>6, HandlerFlags

\* What a step of a refresh has to give.
LEMMA WorkFlags ==
    ASSUME ShapeInv, FlagsInv, ~apart, NEW k \in Sides, NEW z \in Zones, NEW j, Works(k, z, j),
           UNCHANGED <<dns, op, owed>>, sync'.pc = sync.pc, sync'.listed = sync.listed, excused \subseteq excused',
           \A y \in Zones : db'[y] = None <=> db[y] = None,
           j.pc \in Copying => dns[z] # None,
           z = "F" /\ j.pc = "storeR" => dns["R"] # None,
           excused' = {} /\ FlagsRight =>
              /\ Dirty("F") \/ "F" \in queued' \/ job'["task"]["F"].pc # "idle" \/ flags' = Flagged
              /\ z = "F" /\ j.pc \in {"storeR", "store"} => Dirty("F") \/ j.ptrs = Flagged
    PROVE  FlagsInv'
<1>0. job \in [Sides -> [Zones -> Job]] /\ "F" \in Zones
  BY DEF ShapeInv, Typed, Zones
<1>1. job'[k][z] = j /\ \A i \in Sides, y \in Zones : i # k \/ y # z => job'[i][y] = job[i][y]
  BY <1>0, JobsStay
<1>2. Steady
  BY DEF FlagsInv
<1>3. Steady'
  <2>1. \A i \in Sides, y \in Zones : job'[i][y].pc \in Copying => dns'[y] # None
    BY <1>1, <1>2 DEF Steady
  <2>2. \A i \in Sides : job'[i]["F"].pc = "storeR" => dns'["R"] # None
    BY <1>0, <1>1, <1>2 DEF Steady
  <2>3. \A y \in Zones : db'[y] = None <=> dns'[y] = None
    BY <1>2 DEF Steady
  <2>4. \A o \in Ops : /\ Active(op'[o]) /\ op'[o].kind \in ZoneKinds => op'[o].pc = "call"
                       /\ op'[o].pc = "add" => op'[o].zone = "F"
    BY <1>2 DEF Steady
  <2>5. sync'.pc = "replace" => \A y \in Zones : y \in sync'.listed <=> dns'[y] # None
    BY <1>2 DEF Steady
  <2> QED
    BY <2>1, <2>2, <2>3, <2>4, <2>5 DEF Steady
<1>4. ASSUME excused' = {} PROVE FlagsRight'
  <2>1. FlagsRight
    BY <1>4 DEF FlagsInv
  <2>2. Flagged' = Flagged
    BY DEF Flagged, Rows
  <2>3. Dirty("F")' <=> Dirty("F")
    BY DEF Dirty
  <2>4. Dirty("F")' \/ "F" \in queued' \/ job'["task"]["F"].pc # "idle" \/ flags' = Flagged'
    BY <1>4, <2>1, <2>2, <2>3
  <2>5. ASSUME NEW i \in Sides, job'[i]["F"].pc \in {"storeR", "store"}
        PROVE  Dirty("F")' \/ job'[i]["F"].ptrs = Flagged'
    <3>1. CASE i = k /\ z = "F"
      BY <1>1, <1>4, <2>1, <2>2, <2>3, <2>5, <3>1
    <3>2. CASE i # k \/ z # "F"
      <4>1. job'[i]["F"] = job[i]["F"]
        BY <1>0, <1>1, <3>2
      <4> QED
        BY <2>1, <2>2, <2>3, <2>5, <4>1 DEF FlagsRight
    <3> QED
      BY <3>1, <3>2
  <2> QED
    BY <2>4, <2>5 DEF FlagsRight
<1> QED
  BY <1>3, <1>4 DEF FlagsInv

\* A refresh that starts.
LEMMA StartTaskFlags ==
    ASSUME ShapeInv, FlagsInv, ~apart, NEW z \in Zones, StartTask(z)
    PROVE  FlagsInv'
<1> DEFINE i == job["task"][z]
           j == JobAt("fetch", i.recs, i.rev, i.ptrs)
<1>0. job \in [Sides -> [Zones -> Job]] /\ "F" \in Zones /\ "task" \in Sides
  BY DEF ShapeInv, Typed, Zones, Sides
<1>1. Works("task", z, j)
  BY StartTaskWorks
<1>2. j.pc = "fetch"
  BY DEF JobAt
<1> HIDE DEF j
<1>3. UNCHANGED <<dns, db, flags, op, owed, sync, excused>> /\ queued' = queued \ {z}
  BY DEF StartTask, server, history
<1>4. job'["task"][z] = j /\ (z # "F" => job'["task"]["F"] = job["task"]["F"])
  BY <1>0, <1>1, JobsStay
<1>5. FlagsRight => Dirty("F") \/ "F" \in queued' \/ job'["task"]["F"].pc # "idle" \/ flags' = Flagged
  BY <1>2, <1>3, <1>4 DEF FlagsRight
<1>6. j.pc \notin Copying /\ j.pc \notin {"storeR", "store"}
  BY <1>2 DEF Copying
<1> QED
  BY <1>0, <1>1, <1>3, <1>5, <1>6, WorkFlags

\* The task of F stays, or was another job's: the flags are as right as they were.
LEMMA FlagsStay ==
    ASSUME ShapeInv, NEW k \in Sides, NEW z \in Zones, NEW j, Works(k, z, j), UNCHANGED <<queued, flags>>,
           k # "task" \/ z # "F" \/ j.pc # "idle", FlagsRight
    PROVE  Dirty("F") \/ "F" \in queued' \/ job'["task"]["F"].pc # "idle" \/ flags' = Flagged
<1>0. job \in [Sides -> [Zones -> Job]] /\ "F" \in Zones /\ "task" \in Sides
  BY DEF ShapeInv, Typed, Zones, Sides
<1>1. job'[k][z] = j /\ (k # "task" \/ z # "F" => job'["task"]["F"] = job["task"]["F"])
  BY <1>0, JobsStay
<1> QED
  BY <1>1 DEF FlagsRight

\* A refresh that fails excuses its zone, or there is no zone.
LEMMA FailFlags ==
    ASSUME ShapeInv, FlagsInv, ~apart, NEW k \in Sides, NEW z \in Zones, Works(k, z, NoJob), JobFails(k, z),
           UNCHANGED <<dns, db, flags, op, owed, queued>>
    PROVE  FlagsInv'
<1>1. NoJob.pc = "idle"
  BY DEF NoJob
<1>2. sync'.pc = sync.pc /\ sync'.listed = sync.listed
  <2>1. sync \in Synchronisation /\ (sync' = sync \/ sync' = [sync EXCEPT !.failed = TRUE])
    BY DEF ShapeInv, Typed, JobFails
  <2> QED
    BY <2>1, SyncMarked
<1>3. excused \subseteq excused'
  BY DEF JobFails
<1>4. ASSUME excused' = {}, FlagsRight
      PROVE  Dirty("F") \/ "F" \in queued' \/ job'["task"]["F"].pc # "idle" \/ flags' = Flagged
  <2>1. CASE k # "task" \/ z # "F"
    BY <1>4, <2>1, FlagsStay
  <2>2. CASE k = "task" /\ z = "F"
    <3>1. dns["F"] = None
      BY <1>4, <2>2 DEF JobFails, Exists
    <3>2. flags = {} /\ Flagged = {}
      <4>1. Steady /\ Flagging
        BY DEF FlagsInv, ShapeInv, Typed
      <4> QED
        BY <3>1, <4>1, NoFlags
    <3> QED
      BY <3>2
  <2> QED
    BY <2>1, <2>2
<1>5. NoJob.pc \notin Copying /\ NoJob.pc \notin {"storeR", "store"}
  BY <1>1 DEF Copying
<1> QED
  BY <1>2, <1>3, <1>4, <1>5, WorkFlags

\* The records of a zone are there.
LEMMA FetchZoneFlags ==
    ASSUME ShapeInv, FlagsInv, ~apart, NEW k \in Sides, NEW z \in Zones, FetchZone(k, z)
    PROVE  FlagsInv'
<1> DEFINE i == job[k][z]
           j == JobAt(IF z = "F" THEN "reverse" ELSE "store", dns[z], i.rev, i.ptrs)
<1>1. UNCHANGED <<dns, db, flags, op, owed, queued>>
  BY DEF FetchZone, server, tasks
<1>2. \/ dns[z] # None /\ UNCHANGED <<sync, excused>> /\ Works(k, z, j)
      \/ Works(k, z, NoJob) /\ JobFails(k, z)
  BY FetchZoneWorks
<1>3. CASE Works(k, z, NoJob) /\ JobFails(k, z)
  BY <1>1, <1>3, FailFlags
<1>4. CASE dns[z] # None /\ UNCHANGED <<sync, excused>> /\ Works(k, z, j)
  <2>1. j.pc = IF z = "F" THEN "reverse" ELSE "store"
    BY DEF JobAt
  <2>2. Works(k, z, j)
    BY <1>4
  <2> HIDE DEF j
  <2>3. j.pc # "idle" /\ j.pc # "storeR" /\ ~(z = "F" /\ j.pc \in {"storeR", "store"})
    BY <2>1
  <2>4. FlagsRight => Dirty("F") \/ "F" \in queued' \/ job'["task"]["F"].pc # "idle" \/ flags' = Flagged
    BY <1>1, <2>2, <2>3, FlagsStay
  <2> QED
    BY <1>1, <1>4, <2>2, <2>3, <2>4, WorkFlags
<1> QED
  BY <1>2, <1>3, <1>4

\* The copy of R that is read agrees with the records of F, or F is owed.
LEMMA FetchReverseFlags ==
    ASSUME ShapeInv, AgreeInv, FlagsInv, ~apart', NEW k \in Sides, NEW z \in Zones, FetchReverse(k, z)
    PROVE  FlagsInv'
<1> DEFINE g == job[k][z]
<1>0. "F" \in Zones /\ "R" \in Zones /\ dns \in Content
  BY DEF ShapeInv, Typed, Zones
<1>1. g.pc = "reverse" /\ UNCHANGED <<dns, db, flags, op, owed, queued, excused>>
  BY DEF FetchReverse, server, tasks
<1>2. /\ z = "F"
      /\ \/ /\ Works(k, z, JobAt("storeR", g.recs, dns["R"], dns["R"] \cap g.recs))
            /\ dns["R"] # None /\ UNCHANGED <<sync, apart>>
         \/ /\ Works(k, z, JobAt("store", g.recs, g.rev, g.ptrs))
            /\ UNCHANGED <<sync, apart>>
            /\ db["R"] = None \/ \A x \in g.recs : ~IsA(x)
  BY FetchReverseWorks
<1>3. ~apart /\ sync' = sync
  BY <1>2
<1>4. Steady /\ (excused = {} => FlagsRight)
  BY <1>3 DEF FlagsInv
<1>5. dns["F"] # None
  BY <1>1, <1>2, <1>4 DEF Steady, Copying
<1>6. excused = {} => Dirty("F") \/ g.recs = dns["F"]
  BY <1>0, <1>1, <1>2, <1>5 DEF AgreeInv, Agreeing, Copying
<1>7. ASSUME NEW j, Works(k, z, j), j.pc \in {"storeR", "store"}, j.pc = "storeR" => dns["R"] # None,
             excused = {} => Dirty("F") \/ j.ptrs = Flagged
      PROVE  FlagsInv'
  <2>1. FlagsRight => Dirty("F") \/ "F" \in queued' \/ job'["task"]["F"].pc # "idle" \/ flags' = Flagged
    BY <1>1, <1>7, FlagsStay
  <2> QED
    BY <1>1, <1>2, <1>3, <1>5, <1>7, <2>1, WorkFlags
<1>8. CASE /\ Works(k, z, JobAt("storeR", g.recs, dns["R"], dns["R"] \cap g.recs))
           /\ dns["R"] # None
  <2> DEFINE j == JobAt("storeR", g.recs, dns["R"], dns["R"] \cap g.recs)
  <2>1. j.pc = "storeR" /\ j.ptrs = dns["R"] \cap g.recs /\ Works(k, z, j)
    BY <1>8 DEF JobAt
  <2> HIDE DEF j
  <2>2. excused = {} => Dirty("F") \/ j.ptrs = Flagged
    BY <1>5, <1>6, <1>8, <2>1 DEF Flagged, Rows
  <2> QED
    BY <1>7, <1>8, <2>1, <2>2
<1>9. CASE /\ Works(k, z, JobAt("store", g.recs, g.rev, g.ptrs))
           /\ db["R"] = None \/ \A x \in g.recs : ~IsA(x)
  <2> DEFINE j == JobAt("store", g.recs, g.rev, g.ptrs)
  <2>1. j.pc = "store" /\ j.ptrs = g.ptrs /\ Works(k, z, j)
    BY <1>9 DEF JobAt
  <2> HIDE DEF j
  <2>2. g.ptrs = {}
    BY <1>1, <1>2 DEF ShapeInv, JobShape, JobFits
  <2>3. ASSUME excused = {}, ~Dirty("F") PROVE Flagged = {}
    <3>1. CASE db["R"] = None
      <4>1. dns["R"] = None
        BY <1>0, <1>4, <3>1 DEF Steady
      <4> QED
        BY <4>1 DEF Flagged, Rows
    <3>2. CASE \A x \in g.recs : ~IsA(x)
      <4>1. Rows("F", dns) = g.recs
        BY <1>5, <1>6, <2>3 DEF Rows
      <4>2. Rows("R", dns) \subseteq PTRs
        BY <1>0, Contents
      <4> QED
        BY <3>2, <4>1, <4>2, PTRsAreA DEF Flagged
    <3> QED
      BY <1>9, <3>1, <3>2
  <2> QED
    BY <1>7, <2>1, <2>2, <2>3
<1> QED
  BY <1>2, <1>8, <1>9

\* The copy of R is stored where R has a row.
LEMMA StoreReverseFlags ==
    ASSUME ShapeInv, FlagsInv, ~apart, NEW k \in Sides, NEW z \in Zones, StoreReverse(k, z)
    PROVE  FlagsInv'
<1> DEFINE g == job[k][z]
           j == JobAt("store", g.recs, {}, g.ptrs)
<1>0. /\ job \in [Sides -> [Zones -> Job]] /\ db \in Content /\ g \in Job
      /\ "F" \in Zones /\ "R" \in Zones
  BY DEF ShapeInv, Typed, Zones
<1>1. z = "F" /\ Works(k, z, j)
  BY StoreReverseWorks
<1>2. j.pc = "store" /\ j.ptrs = g.ptrs
  BY DEF JobAt
<1> HIDE DEF j
<1>3. g.pc = "storeR" /\ UNCHANGED <<dns, flags, op, owed, queued, sync>> /\ excused \subseteq excused'
  BY DEF StoreReverse, tasks
<1>4. db' = db \/ db' = [db EXCEPT !["R"] = g.rev]
  BY DEF StoreReverse
<1>5. Steady
  BY DEF FlagsInv
<1>6. dns["F"] # None /\ dns["R"] # None /\ db["R"] # None
  BY <1>0, <1>1, <1>3, <1>5 DEF Steady, Copying
<1>7. \A y \in Zones : db'[y] = None <=> db[y] = None
  <2>1. g.rev \subseteq Records /\ g.rev \subseteq PTRs
    BY <1>0 DEF Job, PTRs, Records
  <2>2. Changes(db, [db EXCEPT !["R"] = g.rev], "R")
    <3>1. ASSUME NEW v, v \subseteq Records, v \subseteq PTRs PROVE Changes(db, [db EXCEPT !["R"] = v], "R")
      <4>1. Changes(db, [db EXCEPT !["R"] = v], "R") /\ [db EXCEPT !["R"] = v]["R"] = v
        <5>1. db \in Content /\ "R" \in Zones /\ db["R"] # None
          BY <1>0, <1>6
        <5> QED
          BY <3>1, <5>1, ChangesZone
      <4> QED
        BY <4>1
    <3> QED
      BY <2>1, <3>1
  <2> QED
    BY <1>4, <2>2 DEF Changes
<1>8. FlagsRight => Dirty("F") \/ "F" \in queued' \/ job'["task"]["F"].pc # "idle" \/ flags' = Flagged
  BY <1>1, <1>2, <1>3, FlagsStay
<1>9. FlagsRight => Dirty("F") \/ j.ptrs = Flagged
  BY <1>1, <1>2, <1>3 DEF FlagsRight
<1> QED
  BY <1>1, <1>2, <1>3, <1>6, <1>7, <1>8, <1>9, WorkFlags

\* The flags of the copy are stored with the records.
LEMMA StoreZoneFlags ==
    ASSUME ShapeInv, FlagsInv, ~apart, NEW k \in Sides, NEW z \in Zones, StoreZone(k, z)
    PROVE  FlagsInv'
<1> DEFINE g == job[k][z]
<1>0. job \in [Sides -> [Zones -> Job]] /\ db \in Content /\ g \in Job
  BY DEF ShapeInv, Typed
<1>1. Works(k, z, NoJob) /\ NoJob.pc = "idle"
  BY StoreZoneWorks DEF NoJob
<1>2. g.pc = "store" /\ UNCHANGED <<dns, op, owed, queued>>
  BY DEF StoreZone, tasks
<1>3. CASE UNCHANGED <<db, flags>> /\ JobFails(k, z)
  BY <1>1, <1>2, <1>3, FailFlags
<1>4. CASE /\ UNCHANGED <<sync, excused>> /\ db' = [db EXCEPT ![z] = g.recs]
           /\ flags' = IF z = "F" THEN g.ptrs ELSE flags
  <2>1. Steady
    BY DEF FlagsInv
  <2>2. dns[z] # None /\ db[z] # None
    BY <1>2, <2>1 DEF Steady, Copying
  <2>3. g.recs \subseteq Records /\ (z = "R" => g.recs \subseteq PTRs)
    BY <1>0 DEF Job, ShapeInv, JobShape, JobFits
  <2>4. Changes(db, [db EXCEPT ![z] = g.recs], z)
    <3>1. ASSUME NEW v, v \subseteq Records, z = "R" => v \subseteq PTRs PROVE Changes(db, [db EXCEPT ![z] = v], z)
      <4>1. Changes(db, [db EXCEPT ![z] = v], z) /\ [db EXCEPT ![z] = v][z] = v
        <5>1. db \in Content /\ db[z] # None
          BY <1>0, <2>2
        <5> QED
          BY <3>1, <5>1, ChangesZone
      <4> QED
        BY <4>1
    <3> QED
      BY <2>3, <3>1
  <2>5. \A y \in Zones : db'[y] = None <=> db[y] = None
    BY <1>4, <2>4 DEF Changes
  <2>6. ASSUME FlagsRight
        PROVE  Dirty("F") \/ "F" \in queued' \/ job'["task"]["F"].pc # "idle" \/ flags' = Flagged
    <3>1. CASE z = "F"
      BY <1>2, <1>4, <2>6, <3>1 DEF FlagsRight
    <3>2. CASE z # "F"
      BY <1>1, <1>2, <1>4, <2>6, <3>2, FlagsStay
    <3> QED
      BY <3>1, <3>2
  <2>7. NoJob.pc \notin Copying /\ NoJob.pc \notin {"storeR", "store"}
    BY <1>1 DEF Copying
  <2> QED
    BY <1>1, <1>2, <1>4, <2>5, <2>6, <2>7, WorkFlags
<1> QED
  BY <1>3, <1>4 DEF StoreZone, StoredFlags

\* Every step of a refresh.
LEMMA JobFlags ==
    ASSUME ShapeInv, AgreeInv, FlagsInv, ~apart', NEW k \in Sides, NEW z \in Zones, JobStep(k, z)
    PROVE  FlagsInv'
<1>1. apart' = apart \/ FetchReverse(k, z)
  BY DEF JobStep, FetchZone, StoreReverse, StoreZone
<1> QED
  BY <1>1, FetchReverseFlags, FetchZoneFlags, StoreReverseFlags, StoreZoneFlags DEF JobStep

\* Outside handlers and refreshes neither the flags nor the copies change.
LEMMA StillFlags ==
    ASSUME FlagsInv, ~apart, UNCHANGED <<dns, op, job, flags>>, excused \subseteq excused',
           \A z \in Zones : db'[z] = None <=> db[z] = None,
           sync'.pc = "replace" => \A z \in Zones : z \in sync'.listed <=> dns[z] # None,
           excused' = {} => /\ "F" \in queued => "F" \in queued'
                            /\ \/ "F" \in owed => "F" \in owed'
                               \/ "F" \in queued' /\ \A k \in Sides : job[k]["F"].pc = "idle"
    PROVE  FlagsInv'
<1>1. Steady
  BY DEF FlagsInv
<1>2. Steady'
  <2>1. \A k \in Sides, z \in Zones : job'[k][z].pc \in Copying => dns'[z] # None
    BY <1>1 DEF Steady
  <2>2. \A k \in Sides : job'[k]["F"].pc = "storeR" => dns'["R"] # None
    BY <1>1 DEF Steady
  <2>3. \A z \in Zones : db'[z] = None <=> dns'[z] = None
    BY <1>1 DEF Steady
  <2>4. \A o \in Ops : /\ Active(op'[o]) /\ op'[o].kind \in ZoneKinds => op'[o].pc = "call"
                       /\ op'[o].pc = "add" => op'[o].zone = "F"
    BY <1>1 DEF Steady
  <2> QED
    BY <2>1, <2>2, <2>3, <2>4 DEF Steady
<1>3. ASSUME excused' = {} PROVE FlagsRight'
  <2>1. FlagsRight
    BY <1>3 DEF FlagsInv
  <2>2. Flagged' = Flagged
    BY DEF Flagged, Rows
  <2>3. CASE "F" \in owed => "F" \in owed'
    <3>1. Dirty("F") => Dirty("F")'
      BY <2>3 DEF Dirty
    <3> QED
      BY <1>3, <2>1, <2>2, <3>1 DEF FlagsRight
  <2>4. CASE "F" \in queued' /\ \A k \in Sides : job[k]["F"].pc = "idle"
    BY <2>4 DEF FlagsRight
  <2> QED
    BY <1>3, <2>3, <2>4
<1> QED
  BY <1>2, <1>3 DEF FlagsInv

\* Fire: the task it creates will see to the flags; nobody has a copy of R.
LEMMA FireFlags ==
    ASSUME ShapeInv, FlagsInv, ~apart, NEW z \in Zones, Fire(z)
    PROVE  FlagsInv'
<1>1. /\ owed' = owed \ {z} /\ UNCHANGED <<dns, db, flags, op, job, sync>>
      /\ \/ /\ ~Syncing /\ job["task"][z].pc = "idle" /\ queued' = queued \cup {z}
            /\ excused' = excused
         \/ excused' = excused \cup {z} /\ queued' = queued
  BY DEF Fire, server
<1>2. ~Syncing => job["full"]["F"].pc = "idle"
  BY DEF ShapeInv, SyncShape, Syncing, Zones
<1>3. excused' = {} /\ z = "F" => "F" \in queued' /\ \A k \in Sides : job[k]["F"].pc = "idle"
  BY <1>1, <1>2 DEF Sides
<1>4. sync'.pc = "replace" => \A y \in Zones : y \in sync'.listed <=> dns[y] # None
  BY <1>1 DEF FlagsInv, Steady
<1>5. "F" \in queued => "F" \in queued'
  BY <1>1
<1>6. excused' = {} => \/ "F" \in owed => "F" \in owed'
                       \/ "F" \in queued' /\ \A k \in Sides : job[k]["F"].pc = "idle"
  BY <1>1, <1>3
<1>7. excused \subseteq excused' /\ \A y \in Zones : db'[y] = None <=> db[y] = None
  BY <1>1
<1> QED
  BY <1>1, <1>4, <1>5, <1>6, <1>7, StillFlags

\* A requested refresh; syncDNS outside its replacement; no step at all.
LEMMA QuietStepFlags ==
    ASSUME ShapeInv, FlagsInv, ~apart,
           \/ \E z \in Zones : RequestRefresh(z)
           \/ SyncStart \/ SyncList \/ SyncFails \/ SyncJoin \/ SyncEnd \/ UNCHANGED vars
    PROVE  FlagsInv'
<1>1. UNCHANGED <<dns, db, flags, op, job, excused, owed>> /\ ("F" \in queued => "F" \in queued')
  BY DEF RequestRefresh, SyncStart, SyncList, SyncFails, SyncJoin, SyncEnd, vars, server, tasks, history
<1>2. sync'.pc = "replace" => \A z \in Zones : z \in sync'.listed <=> dns[z] # None
  <2>0. sync \in Synchronisation
    BY DEF ShapeInv, Typed
  <2>1. CASE sync' = sync
    BY <2>1 DEF FlagsInv, Steady
  <2>2. CASE SyncList
    <3> DEFINE found == {z \in Zones : Exists(z, dns)}
    <3>1. sync' = [sync EXCEPT !.pc = "replace", !.listed = found]
      BY <2>2 DEF SyncList
    <3>2. \A z \in Zones : z \in found <=> dns[z] # None
      BY DEF Exists
    <3> HIDE DEF found
    <3>3. sync'.listed = found
      BY <2>0, <3>1 DEF Synchronisation
    <3> QED
      BY <3>2, <3>3
  <2>3. CASE SyncStart \/ SyncFails \/ SyncJoin \/ SyncEnd
    <3>1. [NoSync EXCEPT !.pc = "list"].pc = "list" /\ NoSync.pc = "idle"
      BY DEF NoSync
    <3>2. [sync EXCEPT !.pc = "end", !.failed = TRUE].pc = "end" /\ [sync EXCEPT !.pc = "end"].pc = "end"
      BY <2>0 DEF Synchronisation
    <3>3. sync'.pc # "replace"
      BY <2>3, <3>1, <3>2 DEF SyncStart, SyncFails, SyncJoin, SyncEnd
    <3> QED
      BY <3>3
  <2> QED
    BY <2>1, <2>2, <2>3 DEF RequestRefresh, vars
<1> QED
  BY <1>1, <1>2, StillFlags

\* SyncReplace: the zones that are listed are those that have a row.
LEMMA SyncReplaceFlags ==
    ASSUME ShapeInv, FlagsInv, ~apart, SyncReplace
    PROVE  FlagsInv'
<1>0. db \in Content /\ Flagging /\ sync \in Synchronisation /\ "F" \in Zones
  BY DEF ShapeInv, Typed, Zones
<1>1. /\ sync.pc = "replace" /\ db' = Listed(sync.listed)
      /\ flags' = IF "F" \in sync.listed THEN flags ELSE {}
      /\ sync' = [sync EXCEPT !.pc = "pool", !.todo = sync.listed]
      /\ UNCHANGED <<dns, op, owed, queued, job, excused>>
  BY DEF SyncReplace, tasks, history
<1>2. sync'.pc = "pool"
  BY <1>0, <1>1 DEF Synchronisation
<1>3. Steady
  BY DEF FlagsInv
<1>4. ASSUME NEW z \in Zones PROVE db'[z] = None <=> db[z] = None
  <2>1. z \in sync.listed <=> db[z] # None
    BY <1>1, <1>3 DEF Steady
  <2>2. Rows(z, db) \subseteq Records
    BY <1>0, Contents
  <2>3. Rows(z, db) # None
    BY <2>2, NoneAssumption
  <2>4. db'[z] = IF z \notin sync.listed THEN None ELSE Rows(z, db)
    BY <1>1 DEF Listed
  <2> QED
    BY <2>1, <2>3, <2>4
<1>5. flags' = flags
  <2>1. CASE "F" \in sync.listed
    BY <1>1, <2>1
  <2>2. CASE "F" \notin sync.listed
    <3>1. dns["F"] = None
      BY <1>0, <1>1, <1>3, <2>2 DEF Steady
    <3>2. flags = {}
      BY <1>0, <1>3, <3>1, NoFlags
    <3> QED
      BY <1>1, <2>2, <3>2
  <2> QED
    BY <2>1, <2>2
<1> QED
  BY <1>1, <1>2, <1>4, <1>5, StillFlags

\* SyncZone.
LEMMA SyncZoneFlags ==
    ASSUME ShapeInv, FlagsInv, ~apart, NEW z \in Zones, SyncZone(z)
    PROVE  FlagsInv'
<1> DEFINE j == JobAt("fetch", job["full"][z].recs, job["full"][z].rev, job["full"][z].ptrs)
<1>0. "full" \in Sides /\ "full" # "task" /\ sync \in Synchronisation
  BY DEF ShapeInv, Typed, Sides
<1>1. Works("full", z, j)
  BY SyncZoneWorks
<1>2. j.pc = "fetch"
  BY DEF JobAt
<1> HIDE DEF j
<1>3. sync' = [sync EXCEPT !.todo = @ \ {z}] /\ UNCHANGED <<dns, db, flags, op, owed, queued, excused>>
  BY DEF SyncZone, server, tasks, history
<1>4. sync'.pc = sync.pc /\ sync'.listed = sync.listed
  BY <1>0, <1>3 DEF Synchronisation
<1>5. FlagsRight => Dirty("F") \/ "F" \in queued' \/ job'["task"]["F"].pc # "idle" \/ flags' = Flagged
  BY <1>0, <1>1, <1>3, FlagsStay
<1>6. j.pc \notin Copying /\ j.pc \notin {"storeR", "store"}
  BY <1>2 DEF Copying
<1> QED
  BY <1>0, <1>1, <1>3, <1>4, <1>5, <1>6, WorkFlags

\* The initial states, in which the flags are those of the PTR records.
LEMMA FlagsInit == Init => FlagsInv
<1> SUFFICES ASSUME Init PROVE FlagsInv
  OBVIOUS
<1>1. db = dns /\ sync = NoSync /\ (\A k \in Sides, z \in Zones : job[k][z] = NoJob) /\ \A o \in Ops : op[o] = NoOp
  BY DEF Init
<1>2. NoJob.pc = "idle" /\ NoSync.pc = "idle" /\ NoOp.pc = "idle"
  BY DEF NoJob, NoSync, NoOp
<1>3. "F" \in Zones
  BY DEF Zones
<1>4. flags = Flagged
  BY DEF Init, Flagged, Rows
<1>5. Steady
  BY <1>1, <1>2, <1>3 DEF Steady, Active, Copying
<1>6. FlagsRight
  BY <1>1, <1>2, <1>3, <1>4 DEF FlagsRight
<1> QED
  BY <1>5, <1>6 DEF FlagsInv

\* Nothing undoes apart.
LEMMA ApartStays == ShapeInv /\ [Next]_vars /\ ~apart' => ~apart
<1> SUFFICES ASSUME ShapeInv, [Next]_vars, ~apart' PROVE ~apart
  OBVIOUS
<1>1. \A o \in Ops : \A h : Start(o, h) => apart' = apart
  BY DEF Start, history
<1>2. ASSUME NEW o \in Ops, OpStep(o) PROVE ~apart
  BY <1>2 DEF OpStep, ReadForCreate, ReadForDelete, ReadForUpdate, CallAgent, Apart, AddNew, DeletePTR, CreatePTR,
         CreatePTRWarns, ChangePTRAlone, CallFails, SaveRecord, SavePTR, SaveZone, FetchFirst, StoreFirst,
         DropZone, MarkDirty, history
<1>3. ASSUME NEW z \in Zones, Fire(z) \/ RequestRefresh(z) \/ StartTask(z) PROVE apart' = apart
  BY <1>3 DEF Fire, RequestRefresh, StartTask, history
<1>4. ASSUME NEW k \in Sides, NEW z \in Zones, JobStep(k, z) PROVE ~apart
  <2>1. CASE FetchReverse(k, z)
    BY <2>1, FetchReverseWorks
  <2>2. CASE FetchZone(k, z) \/ StoreReverse(k, z) \/ StoreZone(k, z)
    BY <2>2 DEF FetchZone, StoreReverse, StoreZone
  <2> QED
    BY <1>4, <2>1, <2>2 DEF JobStep
<1>5. SyncStart \/ SyncStep => apart' = apart
  BY DEF SyncStart, SyncStep, SyncList, SyncReplace, SyncFails, SyncJoin, SyncEnd, SyncZone, history
<1>6. CASE Next
  <2>1. ASSUME NEW o \in Ops, NEW k \in RecordKinds, NEW x \in scenario.recs, NEW y \in scenario.recs,
               NEW p \in BOOLEAN, StartRecord(o, k, x, y, p)
        PROVE  apart' = apart
    BY <1>1, <2>1 DEF StartRecord
  <2>2. ASSUME NEW o \in Ops, NEW k \in ZoneKinds, NEW z \in Zones, StartZone(o, k, z)
        PROVE  apart' = apart
    BY <1>1, <2>2 DEF StartZone
  <2> QED
    BY <1>2, <1>3, <1>4, <1>5, <1>6, <2>1, <2>2 DEF Next
<1>7. CASE UNCHANGED vars
  BY <1>7 DEF vars, history
<1> QED
  BY <1>6, <1>7

\* All steps.
LEMMA FlagsNext == ShapeInv /\ AgreeInv /\ FlagsInv /\ [Next]_vars => FlagsInv'
<1> SUFFICES ASSUME ShapeInv, AgreeInv, FlagsInv, [Next]_vars, ~apart' PROVE FlagsInv'
  BY DEF FlagsInv
<1>0. Handlers /\ scenario \in Scene /\ ~apart
  BY ApartStays DEF ShapeInv, Typed
<1>1. ASSUME NEW o \in Ops, NEW k \in RecordKinds, NEW x \in scenario.recs, NEW y \in scenario.recs,
             NEW p \in BOOLEAN, StartRecord(o, k, x, y, p)
      PROVE  FlagsInv'
  <2>1. \E h : Becomes(o, h) /\ h.pc = "read" /\ h.kind = k
    BY <1>0, <1>1, StartRecordMoves
  <2>2. \E new : Start(o, new)
    BY <1>1 DEF StartRecord
  <2> QED
    BY <1>0, <2>1, <2>2, StartFlags
<1>2. ASSUME NEW o \in Ops, NEW k \in ZoneKinds, NEW z \in Zones, StartZone(o, k, z)
      PROVE  FlagsInv'
  <2>1. \E h : Becomes(o, h) /\ h.pc = "call"
    BY <1>0, <1>2, StartZoneMoves
  <2>2. \E new : Start(o, new)
    BY <1>2 DEF StartZone
  <2> QED
    BY <1>0, <2>1, <2>2, StartFlags
<1>3. ASSUME NEW o \in Ops, OpStep(o) PROVE FlagsInv'
  BY <1>3, OpFlags
<1>4. ASSUME NEW z \in Zones, Fire(z) \/ RequestRefresh(z) \/ StartTask(z) PROVE FlagsInv'
  BY <1>0, <1>4, FireFlags, QuietStepFlags, StartTaskFlags
<1>5. ASSUME NEW k \in Sides, NEW z \in Zones, JobStep(k, z) PROVE FlagsInv'
  BY <1>5, JobFlags
<1>6. CASE SyncStart \/ SyncStep \/ UNCHANGED vars
  BY <1>0, <1>6, QuietStepFlags, SyncReplaceFlags, SyncZoneFlags DEF SyncStep
<1> QED
  BY <1>1, <1>2, <1>3, <1>4, <1>5, <1>6 DEF Next

\* Whatever the order of handlers, the copies of R that refreshes of F read and
\* the flags they derive: when nothing is at work on F or R, the create_ptr flags
\* say which records of F have a PTR record, unless a zone was excused or R was
\* changed without F.
THEOREM FlagsShowPTRs == Spec => []FlagsAgree
<1>1. ShapeInv /\ AgreeInv /\ FlagsInv => FlagsAgree
  <2> SUFFICES ASSUME ShapeInv, AgreeInv, FlagsInv, Settled("F"), Settled("R"), excused = {}, ~apart
               PROVE  flags = Rows("F", db) \cap Rows("R", db)
    BY DEF FlagsAgree
  <2>0. "F" \in Zones /\ "R" \in Zones
    BY DEF Zones
  <2>1. /\ \A z \in Zones : z \notin owed /\ z \notin queued /\ job["task"][z].pc = "idle"
        /\ \A o \in Ops : op[o].pc \in {"idle", "done"}
    BY DEF Settled, Sides, Zones
  <2>2. \A z \in Zones : ~Dirty(z) /\ \A o \in Ops : ~Leaves(op[o], z)
    BY <2>1, EarlyOwes DEF Dirty
  <2>3. \A z \in Zones : db[z] = dns[z]
    BY <2>1, <2>2 DEF AgreeInv, Agreeing
  <2>4. flags = Flagged
    BY <2>0, <2>1, <2>2 DEF FlagsInv, FlagsRight
  <2> QED
    BY <2>0, <2>3, <2>4 DEF Flagged, Rows
<1> QED
  BY <1>1, ShapeInit, ShapeNext, AgreeInit, AgreeNext, FlagsInit, FlagsNext, PTL DEF Spec
=============================================================================
