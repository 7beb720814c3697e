---------------------------- MODULE DNSSnapshot ----------------------------
(***************************************************************************)
(* A forward zone F of one DNS Agent, the reverse zone R of its addresses, *)
(* and their snapshot in PostgreSQL.  Handlers change both zones on the    *)
(* server, patch both snapshots and owe both zones a refresh; a refresh of *)
(* F also reads R and replaces the snapshot of R, from which it derives    *)
(* the create_ptr flags of F; a full synchronisation does the same for all *)
(* zones with a pool of goroutines.                                        *)
(*                                                                         *)
(* A record <<h, v>> of F is the A or CNAME record of host h with value v; *)
(* in R the same pair is the PTR record of address v that points to h.     *)
(* The scheduler of owed refreshes and the tasks are abstracted as they    *)
(* are in DHCPSnapshot.                                                    *)
(***************************************************************************)
EXTENDS Naturals, FiniteSets

CONSTANTS
    Hosts, Addrs, Aliases, \* names of F, values of A and of CNAME records
    Ops,           \* bound: operations users request
    Scenarios,     \* bound: what the zones hold at the start, on both sides, which
                   \* handlers are called for which records, who else is active
    Concurrency,   \* DNSRecordConcurrency
    None

Zones == {"F", "R"}
Records == Hosts \X (Addrs \cup Aliases)
PTRs == Hosts \X Addrs
RecordKinds == {"create", "delete", "update", "deletePTR", "updatePTR"}
ZoneKinds == {"createZone", "deleteZone"}
AllKinds == RecordKinds \cup ZoneKinds
Content == [F : (SUBSET Records) \cup {None}, R : (SUBSET PTRs) \cup {None}]

\* What stands for no contents is not a set of records.
ASSUME NoneAssumption == \A c \in SUBSET Records : c # None
ASSUME ConcurrencyAssumption == Concurrency \in Nat \ {0}
ASSUME ScenariosAssumption == Scenarios \subseteq
    [start : SUBSET Content, recs : SUBSET Records, kinds : SUBSET AllKinds, ops : SUBSET Ops,
     manual : BOOLEAN, syncs : BOOLEAN, faults : Nat]

VARIABLES
    dns,      \* what the DNS server holds, None for a zone that does not exist
    db,       \* dns_zones and dns_records
    flags,    \* rows of F with create_ptr
    op,       \* a handler
    owed,     \* the scheduler has a dirty entry for the zone
    queued,   \* a refresh task of the zone waits to start
    job,      \* syncDNSZoneRecords, for a task or for the full synchronisation
    sync,     \* syncDNS of the Agent
    scenario, \* what is left of it
    excused,  \* history: zones excused at AgreesUnlessExcused
    apart,    \* history: R was changed without F, see FlagsAgree
    touched   \* history: zones that others changed while sync runs

server == <<dns, db, flags>>
tasks == <<owed, queued>>
history == <<excused, apart, touched>>
vars == <<server, op, tasks, job, sync, scenario, history>>

Sides == {"task", "full"}
NoOp == [pc |-> "idle", kind |-> None, zone |-> None, rec |-> None, new |-> None, old |-> FALSE,
         want |-> FALSE, unptr |-> FALSE, ptr |-> FALSE, rel |-> FALSE, warn |-> FALSE,
         tell |-> {}, seen |-> {}]
NoJob == [pc |-> "idle", recs |-> {}, rev |-> {}, ptrs |-> {}]
NoSync == [pc |-> "idle", listed |-> {}, todo |-> {}, failed |-> FALSE, blind |-> FALSE]

TypeOK ==
    /\ dns \in Content /\ db \in Content
    /\ flags \subseteq (IF db["F"] = None THEN {} ELSE db["F"])
    /\ \A o \in Ops : /\ op[o].kind \in AllKinds \cup {None}
                      /\ op[o].zone \in Zones \cup {None}
                      /\ op[o].rec \in Records \cup {None} /\ op[o].new \in Records \cup {None}
                      /\ op[o].tell \subseteq Zones
    /\ owed \subseteq Zones /\ queued \subseteq Zones
    /\ \A k \in Sides, z \in Zones :
          /\ job[k][z].pc \in {"idle", "fetch", "reverse", "storeR", "store"}
          /\ job[k][z].recs \subseteq Records /\ job[k][z].rev \subseteq PTRs
    /\ sync.pc \in {"idle", "list", "replace", "pool", "end"}
    /\ sync.listed \subseteq Zones /\ sync.todo \subseteq Zones
    /\ excused \subseteq Zones /\ touched \subseteq Zones /\ apart \in BOOLEAN

Init ==
    /\ scenario \in Scenarios
    /\ dns \in scenario.start
    /\ db = dns
    /\ flags = IF dns["F"] = None \/ dns["R"] = None THEN {} ELSE dns["F"] \cap dns["R"]
    /\ op = [o \in Ops |-> NoOp]
    /\ owed = {} /\ queued = {}
    /\ job = [k \in Sides |-> [z \in Zones |-> NoJob]]
    /\ sync = NoSync
    /\ excused = {} /\ apart = FALSE /\ touched = {}

Fault == scenario.faults > 0 /\ scenario' = [scenario EXCEPT !.faults = @ - 1]
NoFault == UNCHANGED scenario
Syncing == sync.pc # "idle"
Touch(zones) == touched' = IF Syncing THEN touched \cup zones ELSE touched
Exists(z, where) == where[z] # None
Rows(z, where) == IF where[z] = None THEN {} ELSE where[z]

-----------------------------------------------------------------------------
(***************************************************************************)
(* The DNS Agent: PowerShell on the records c of a zone.                   *)
(***************************************************************************)
IsA(x) == x[2] \in Addrs
SameName(z, x, c) == {y \in c : IF z = "R" THEN y[2] = x[2] ELSE y[1] = x[1] /\ IsA(y) = IsA(x)}

\* The record a script removes: the one with that value, else the only one
\* with that name and type, else none ("DNS record not found").
Target(z, x, c) ==
    IF x \in c THEN {x} ELSE IF Cardinality(SameName(z, x, c)) = 1 THEN SameName(z, x, c) ELSE {}

\* Add-DnsServerResourceRecord* refuses duplicates and company for a CNAME.
Fits(z, x, c) == x \notin c /\ (z = "F" => \A y \in c : y[1] = x[1] => IsA(y) /\ IsA(x))

Reverse(x) == [dns EXCEPT !["R"] = IF @ = None THEN None ELSE @ \cup {x}]
Unreverse(x) == [dns EXCEPT !["R"] = IF @ = None THEN None ELSE @ \ {x}]

-----------------------------------------------------------------------------
(***************************************************************************)
(* Handlers.                                                               *)
(***************************************************************************)
OpTo(o, pc) == op' = [op EXCEPT ![o].pc = pc]
OpDone(o) == op' = [op EXCEPT ![o] = [NoOp EXCEPT !.pc = "done"]]
ZoneOf(k) == IF k \in {"deletePTR", "updatePTR"} THEN "R" ELSE "F"

\* The steps of handlers: records are read, the Agent called (in parts, for
\* its scripts are not atomic), the snapshot patched, the zones marked.
Start(o, new) ==
    /\ op[o].pc = "idle" /\ o \in scenario.ops /\ new.kind \in scenario.kinds
    /\ ~Syncing
    /\ op' = [op EXCEPT ![o] = new]
    /\ UNCHANGED <<server, tasks, job, sync, scenario, history>>

\* Decoding, ensureAgentNotSyncing and refresh.begin.
StartRecord(o, k, x, y, p) ==
    /\ k \in {"update", "updatePTR"} => IF k = "update" THEN x[1] = y[1] /\ IsA(x) = IsA(y)
                                                        ELSE x[2] = y[2]
    /\ k \notin {"update", "updatePTR"} => x = y
    /\ k \in {"deletePTR", "updatePTR"} => x \in PTRs
    /\ p => k \in {"create", "update"} /\ IsA(x)
    /\ Start(o, [NoOp EXCEPT !.pc = "read", !.kind = k, !.zone = ZoneOf(k), !.rec = x, !.new = y,
                             !.want = p, !.tell = {ZoneOf(k)}])

\* createZone and deleteZone call the Agent before anything else.
StartZone(o, k, z) == Start(o, [NoOp EXCEPT !.pc = "call", !.kind = k, !.zone = z])

\* validateDNSRecordCreate, dnsRecordCreateWarnings.
ReadForCreate(o) ==
    LET h == op[o] IN
    /\ h.pc = "read" /\ h.kind = "create"
    /\ IF Exists("F", db) /\ Fits("F", h.rec, db["F"])
       THEN op' = [op EXCEPT ![o].pc = "call", ![o].ptr = h.want /\ Exists("R", db)]
       ELSE OpDone(o)
    /\ UNCHANGED <<server, tasks, job, sync, scenario, history>>

\* GetDNSRecord, relatedPTRRecordForDNSRecord.
ReadForDelete(o) ==
    LET h == op[o]
        rel == h.kind = "delete" /\ h.rec \in Rows("R", db)
        old == h.kind = "delete" /\ h.rec \in flags IN
    /\ h.pc = "read" /\ h.kind \in {"delete", "deletePTR"}
    /\ IF h.rec \in Rows(h.zone, db)
       THEN op' = [op EXCEPT ![o].pc = "call", ![o].rel = rel, ![o].old = old, ![o].unptr = rel \/ old]
       ELSE OpDone(o)
    /\ UNCHANGED <<server, tasks, job, sync, scenario, history>>

\* GetDNSRecord, validateDNSRecordUpdate, dnsRecordCreateWarnings.  Without a
\* new value the Agent is asked for the PTR record only, if at all.
ReadForUpdate(o) ==
    LET h == op[o]
        old == h.kind = "update" /\ h.rec \in flags
        valid == (h.rec = h.new /\ old = h.want) \/ Fits(h.zone, h.new, Rows(h.zone, db) \ {h.rec})
        next == IF h.rec # h.new THEN "call" ELSE IF old = h.want THEN "save" ELSE "alone" IN
    /\ h.pc = "read" /\ h.kind \in {"update", "updatePTR"}
    /\ IF h.rec \in Rows(h.zone, db) /\ valid
       THEN op' = [op EXCEPT ![o].pc = next, ![o].old = old, ![o].unptr = old,
                             ![o].ptr = h.want /\ Exists("R", db)]
       ELSE OpDone(o)
    /\ UNCHANGED <<server, tasks, job, sync, scenario, history>>

\* May the first statement of the Agent's script succeed?
CallSucceeds(h) ==
    CASE h.kind = "create" -> Exists("F", dns) /\ Fits("F", h.rec, dns["F"])
      [] h.kind = "createZone" -> ~Exists(h.zone, dns)
      [] h.kind = "deleteZone" -> Exists(h.zone, dns)
      [] OTHER -> Target(h.zone, h.rec, Rows(h.zone, dns)) # {}

Called(h) ==
    CASE h.kind = "create" -> [dns EXCEPT !["F"] = @ \cup {h.rec}]
      [] h.kind = "createZone" -> [dns EXCEPT ![h.zone] = {}]
      [] h.kind = "deleteZone" -> [dns EXCEPT ![h.zone] = None]
      [] OTHER -> [dns EXCEPT ![h.zone] = @ \ Target(h.zone, h.rec, @)]

AfterCall(h) ==
    IF h.kind \in {"update", "updatePTR"} THEN "add"
    ELSE IF h.unptr THEN "unptr" ELSE IF h.ptr THEN "ptr" ELSE "save"

\* R is changed by an operation that does not refresh F.
Apart(h) == apart' = (apart \/ (h.zone = "R" \/ h.kind \in ZoneKinds))

CallAgent(o) ==
    /\ op[o].pc = "call" /\ CallSucceeds(op[o])
    /\ dns' = Called(op[o])
    /\ OpTo(o, AfterCall(op[o]))
    /\ Apart(op[o]) /\ Touch({op[o].zone})
    /\ UNCHANGED <<db, flags, tasks, job, sync, scenario, excused>>

\* updateRecordScript removes the old record, then adds the new one.
AddNew(o) ==
    LET h == op[o] IN
    /\ h.pc = "add" /\ Exists(h.zone, dns) /\ Fits(h.zone, h.new, dns[h.zone])
    /\ dns' = [dns EXCEPT ![h.zone] = @ \cup {h.new}]
    /\ OpTo(o, IF h.unptr THEN "unptr" ELSE IF h.ptr THEN "ptr" ELSE "save")
    /\ Touch({h.zone})
    /\ UNCHANGED <<db, flags, tasks, job, sync, scenario, excused, apart>>

\* deletePTRBestEffort, in a script of its own.
DeletePTR(o) ==
    LET h == op[o] IN
    /\ h.pc = "unptr"
    /\ \/ NoFault /\ dns' = Unreverse(h.rec)
       \/ Fault /\ UNCHANGED dns
    /\ OpTo(o, IF h.ptr THEN "ptr" ELSE "save")
    /\ Touch({"R"})
    /\ UNCHANGED <<db, flags, tasks, job, sync, excused, apart>>

\* The PTR record of a new value: the rest of createRecordScript, or
\* createPTRBestEffort.  A missing reverse zone is a warning.
CreatePTR(o) ==
    LET h == op[o] IN
    /\ h.pc = "ptr"
    /\ dns' = Reverse(h.new)
    /\ op' = [op EXCEPT ![o].pc = "save", ![o].warn = ~Exists("R", dns)]
    /\ Touch({"R"})
    /\ UNCHANGED <<db, flags, tasks, job, sync, scenario, excused, apart>>

\* Is the PTR row of the old record deleted?  updateDNSRecord goes by the
\* stored flag, deleteDNSRecord by the row it found.
DropsPTR(h) == IF h.kind = "update" THEN h.old /\ (h.rec # h.new \/ h.old # h.want) ELSE h.rel

\* Mutant: a zone is refreshed only for a row that was found.
TellFound(h) == h.rel

\* Is R refreshed for a deleted PTR record?
TellDeleted(h) == IF h.kind = "update" THEN DropsPTR(h) ELSE h.rel \/ (h.old /\ Exists("R", db))

\* The PTR record was made although its creation is reported as failed: the
\* handler stores nothing of it, and marks R only for a deleted PTR record.
MadeUnknown(h) ==
    /\ dns' = Reverse(h.new)
    /\ excused' = IF dns' = dns \/ TellDeleted(h) THEN excused ELSE excused \cup {"R"}

\* createPTRBestEffort fails: a warning, whether or not the record was added
\* before its script timed out or its output was lost.
CreatePTRWarns(o) ==
    LET h == op[o] IN
    /\ h.pc = "ptr" /\ h.kind = "update" /\ Fault
    /\ op' = [op EXCEPT ![o].pc = "save", ![o].warn = TRUE]
    /\ UNCHANGED <<dns, excused>> \/ MadeUnknown(h)
    /\ Touch({"R"})
    /\ UNCHANGED <<db, flags, tasks, job, sync, apart>>

\* Only the PTR option changed: the handler creates or deletes the PTR record
\* itself, with the scripts for records and their refusals.  An error of the
\* call is a warning, also when the script had run.
ChangePTRAlone(o) ==
    LET h == op[o]
        c == Rows("R", dns)
        deleted == h.unptr /\ Target("R", h.rec, c) # {}
                   /\ dns' = [dns EXCEPT !["R"] = @ \ Target("R", h.rec, @)]
        warned == op' = [op EXCEPT ![o].pc = "save", ![o].warn = TRUE] IN
    /\ h.pc = "alone"
    /\ \/ /\ h.ptr /\ Exists("R", dns) /\ h.new \notin c /\ NoFault
          /\ dns' = Reverse(h.new) /\ OpTo(o, "save") /\ UNCHANGED excused
       \/ deleted /\ NoFault /\ OpTo(o, "save") /\ UNCHANGED excused
       \/ /\ IF h.ptr THEN ~Exists("R", dns) \/ h.new \in c ELSE h.unptr => Target("R", h.rec, c) = {}
          /\ op' = [op EXCEPT ![o].pc = "save", ![o].warn = h.ptr \/ h.unptr]
          /\ NoFault /\ UNCHANGED <<dns, excused>>
       \/ Fault /\ warned /\ UNCHANGED <<dns, excused>>
       \/ Fault /\ warned /\ h.ptr /\ MadeUnknown(h)
       \/ Fault /\ warned /\ deleted /\ UNCHANGED excused
    /\ Touch({"R"})
    /\ UNCHANGED <<db, flags, tasks, job, sync, apart>>

\* What the script has changed when it fails at this step.
Changed(h) ==
    CASE h.pc \in {"add", "ptr"} -> {h.zone}
      [] h.pc = "save" -> {h.zone} \cup IF h.ptr \/ h.unptr THEN {"R"} ELSE {}
      [] OTHER -> {}

\* The Agent refuses, a statement of its script fails, or its answer is lost
\* (agentOperationTimeout): the handler returns 502 and marks nothing.
CallFails(o) ==
    LET h == op[o]
        refused == \/ h.pc = "call" /\ ~CallSucceeds(h)
                   \/ h.pc = "add" /\ ~(Exists(h.zone, dns) /\ Fits(h.zone, h.new, dns[h.zone])) IN
    /\ \/ h.pc \in {"call", "add"} /\ (IF refused THEN NoFault ELSE Fault)
       \/ h.pc = "ptr" /\ h.kind = "create" /\ Fault
       \/ h.pc = "save" /\ (h.kind \in {"update", "updatePTR"} => h.rec # h.new) /\ Fault
    /\ OpDone(o)
    /\ excused' = excused \cup Changed(h)
    /\ UNCHANGED <<server, tasks, job, sync, apart, touched>>

-----------------------------------------------------------------------------
\* Deletion of the old row, upsert of the new one.
Patched(h, c) == IF h.kind \in {"delete", "deletePTR"} THEN c \ {h.rec} ELSE (c \ {h.rec}) \cup {h.new}

PatchedFlags(h) ==
    (flags \ {h.rec}) \cup (IF h.kind \in {"create", "update"} /\ h.want THEN {h.new} ELSE {})

\* The snapshot of the zone is patched; an error is ignored, as is a zone
\* without a row.
SaveRecord(o) ==
    LET h == op[o]
        row == Exists(h.zone, db) IN
    /\ h.pc = "save" /\ h.kind \in RecordKinds
    /\ \/ /\ NoFault
          /\ db' = [db EXCEPT ![h.zone] = IF row THEN Patched(h, @) ELSE @]
          /\ flags' = IF h.zone = "F" /\ row THEN PatchedFlags(h) ELSE flags
       \/ Fault /\ UNCHANGED <<db, flags>>
    /\ OpTo(o, "savePTR")
    /\ Touch({h.zone})
    /\ UNCHANGED <<dns, tasks, job, sync, excused, apart>>

\* The rows of the PTR records, and whether R is owed a refresh.
SavePTR(o) ==
    LET h == op[o]
        add == h.ptr /\ ~h.warn
        drop == h.kind \in {"delete", "update"} /\ DropsPTR(h)
        tell == add \/ (h.kind \in {"delete", "update"} /\ TellDeleted(h)) IN
    /\ h.pc = "savePTR"
    /\ db' = [db EXCEPT !["R"] = IF @ = None THEN None
                 ELSE (IF drop THEN @ \ {h.rec} ELSE @) \cup (IF add THEN {h.new} ELSE {})]
    /\ op' = [op EXCEPT ![o].pc = "mark", ![o].tell = @ \cup (IF tell THEN {"R"} ELSE {})]
    /\ excused' = IF h.kind = "delete" /\ h.unptr /\ ~tell /\ Exists("R", dns)
                  THEN excused \cup {"R"} ELSE excused
    /\ Touch({"R"})
    /\ UNCHANGED <<dns, flags, tasks, job, sync, scenario, apart>>

\* createZone stores the zone, then fetches and stores its first records.
SaveZone(o) ==
    LET z == op[o].zone IN
    /\ op[o].pc = "save" /\ op[o].kind = "createZone"
    /\ \/ NoFault /\ db' = [db EXCEPT ![z] = IF @ = None THEN {} ELSE @]
       \/ Fault /\ UNCHANGED db
    /\ OpTo(o, "first")
    /\ Touch({z})
    /\ UNCHANGED <<dns, flags, tasks, job, sync, excused, apart>>

FetchFirst(o) ==
    LET z == op[o].zone IN
    /\ op[o].pc = "first"
    /\ \/ Exists(z, dns) /\ NoFault /\ op' = [op EXCEPT ![o].pc = "replace", ![o].seen = dns[z]]
       \/ ~Exists(z, dns) /\ NoFault /\ op' = [op EXCEPT ![o].pc = "mark", ![o].tell = {z}]
       \/ Fault /\ op' = [op EXCEPT ![o].pc = "mark", ![o].tell = {z}]
    /\ UNCHANGED <<server, tasks, job, sync, history>>

StoreFirst(o) ==
    LET z == op[o].zone IN
    /\ op[o].pc = "replace"
    /\ \/ /\ NoFault
          /\ db' = [db EXCEPT ![z] = op[o].seen]
          /\ flags' = IF z = "F" THEN {} ELSE flags
       \/ Fault /\ UNCHANGED <<db, flags>>
    /\ op' = [op EXCEPT ![o].pc = "mark", ![o].tell = {z}]
    /\ Touch({z})
    /\ UNCHANGED <<dns, tasks, job, sync, excused, apart>>

\* Somebody has read zone z from the Agent and has yet to store it.
CopyInFlight(z) ==
    \/ \E k \in Sides : \/ job[k][z].pc \in {"reverse", "store"}
                        \/ job[k]["F"].pc = "storeR"
    \/ sync.pc = "replace" /\ z \in sync.listed
    \/ \E o \in Ops : op[o].zone = z /\ (op[o].pc = "replace" \/ (op[o].kind = "createZone" /\ op[o].pc = "save"))

\* deleteZone deletes the row of the zone, with its records, and marks nothing.
DropZone(o) ==
    LET z == op[o].zone IN
    /\ op[o].pc = "save" /\ op[o].kind = "deleteZone"
    /\ \/ /\ NoFault
          /\ db' = [db EXCEPT ![z] = None]
          /\ flags' = IF z = "F" THEN {} ELSE flags
          /\ excused' = IF CopyInFlight(z) \/ Exists(z, dns) THEN excused \cup {z} ELSE excused
       \/ Fault /\ excused' = excused \cup {z} /\ UNCHANGED <<db, flags>>
    /\ OpDone(o)
    /\ Touch({z})
    /\ UNCHANGED <<dns, tasks, job, sync, apart>>

MarkDirty(o) ==
    /\ op[o].pc = "mark"
    /\ owed' = owed \cup op[o].tell
    /\ OpDone(o)
    /\ UNCHANGED <<server, queued, job, sync, scenario, history>>

-----------------------------------------------------------------------------
(***************************************************************************)
(* Owed and requested refreshes.                                           *)
(***************************************************************************)
\* refresh.begin: deleteZone has none, createZone begins after its call, and
\* an update of the PTR option begins on R too.
Begun(o, z) ==
    LET h == op[o] IN
    \/ h.kind \in RecordKinds /\ h.zone = z /\ h.pc \notin {"idle", "done"}
    \/ h.kind = "createZone" /\ h.zone = z /\ h.pc \in {"save", "first", "replace", "mark"}
    \/ /\ z = "R" /\ h.kind = "update" /\ h.rec = h.new /\ h.old # h.want /\ (h.ptr \/ h.unptr)
       /\ h.pc \in {"save", "savePTR", "mark"}

MayFire(z) == z \in owed /\ \A o \in Ops : ~Begun(o, z)

\* fire, and the creation of the task, which fails if the zone is refreshed
\* already; it is dropped while the Agent is synchronised.
Fire(z) ==
    /\ MayFire(z)
    /\ owed' = owed \ {z}
    /\ \/ /\ ~Syncing /\ job["task"][z].pc = "idle" /\ NoFault
          /\ queued' = queued \cup {z}
          /\ UNCHANGED excused
       \/ /\ IF Syncing \/ job["task"][z].pc # "idle" THEN NoFault ELSE Fault
          /\ excused' = excused \cup {z}
          /\ UNCHANGED queued
    /\ UNCHANGED <<server, op, job, sync, apart, touched>>

\* zoneAction.
RequestRefresh(z) ==
    /\ scenario.manual /\ Exists(z, db) /\ ~Syncing /\ job["task"][z].pc = "idle"
    /\ queued' = queued \cup {z}
    /\ UNCHANGED <<server, op, owed, job, sync, scenario, history>>

\* RunRefreshTask takes the refresh lock of the zone, or drops the task.
StartTask(z) ==
    /\ z \in queued
    /\ queued' = queued \ {z}
    /\ job' = IF job["task"][z].pc = "idle" THEN [job EXCEPT !["task"][z].pc = "fetch"] ELSE job
    /\ UNCHANGED <<server, op, owed, sync, scenario, history>>

-----------------------------------------------------------------------------
(***************************************************************************)
(* syncDNSZoneRecords for zone z, of a task or of the full synchronisation *)
(***************************************************************************)
JobEnds(k, z) == job' = [job EXCEPT ![k][z] = NoJob]
JobFails(k, z) ==
    /\ JobEnds(k, z)
    /\ IF k = "full" THEN sync' = [sync EXCEPT !.failed = TRUE] /\ UNCHANGED excused
       ELSE UNCHANGED sync /\ excused' = (IF Exists(z, dns) THEN excused \cup {z} ELSE excused)

FetchZone(k, z) ==
    /\ job[k][z].pc = "fetch"
    /\ \/ /\ Exists(z, dns) /\ NoFault
          /\ job' = [job EXCEPT ![k][z].pc = IF z = "F" THEN "reverse" ELSE "store",
                                ![k][z].recs = dns[z]]
          /\ UNCHANGED <<sync, excused>>
       \/ (IF Exists(z, dns) THEN Fault ELSE NoFault) /\ JobFails(k, z)
    /\ UNCHANGED <<server, op, tasks, apart, touched>>

\* annotateDNSRecordsFromReverseZones: of the reverse zones of the addresses
\* those in the snapshot are fetched; without their records no flag is set.
FetchReverse(k, z) ==
    LET known == Exists("R", db) /\ \E x \in job[k][z].recs : IsA(x)
        fails == /\ job' = [job EXCEPT ![k][z].pc = "store"]
                 /\ apart' = TRUE IN
    /\ job[k][z].pc = "reverse"
    /\ IF ~known THEN job' = [job EXCEPT ![k][z].pc = "store"] /\ NoFault /\ UNCHANGED <<sync, apart>>
       ELSE \/ /\ Exists("R", dns) /\ NoFault
               /\ job' = [job EXCEPT ![k][z].pc = "storeR", ![k][z].rev = dns["R"],
                                     ![k][z].ptrs = dns["R"] \cap job[k][z].recs]
               /\ UNCHANGED <<sync, apart>>
            \/ /\ IF Exists("R", dns) THEN Fault ELSE NoFault
               /\ fails
               /\ sync' = IF k = "full" THEN [sync EXCEPT !.blind = TRUE] ELSE sync
    /\ UNCHANGED <<server, op, tasks, excused, touched>>

\* Somebody has changed zone z and a refresh of it will still follow.
WillTell(h, z) ==
    \/ h.kind \in RecordKinds /\ h.pc \in {"save", "savePTR", "mark"} /\ z \in h.tell
    \/ z = "R" /\ h.pc \in {"save", "savePTR"}
       /\ ((h.ptr /\ ~h.warn) \/ (h.kind \in {"delete", "update"} /\ TellDeleted(h)))
    \/ h.kind = "createZone" /\ h.zone = z /\ h.pc \in {"save", "first", "replace", "mark"}

Pending(z) ==
    \/ z \in owed \cup queued \/ job["task"][z].pc # "idle"
    \/ \E o \in Ops : WillTell(op[o], z)

\* The snapshot of R is replaced without its refresh lock; errors are ignored.
StoreReverse(k, z) ==
    /\ job[k][z].pc = "storeR"
    /\ \/ /\ NoFault
          /\ db' = [db EXCEPT !["R"] = job[k][z].rev]
          /\ excused' = IF job[k][z].rev = dns["R"] \/ Pending("R") THEN excused
                        ELSE excused \cup {"R"}
          /\ IF k = "task" THEN Touch({"R"}) ELSE UNCHANGED touched
       \/ Fault /\ UNCHANGED <<db, excused, touched>>
    /\ job' = [job EXCEPT ![k][z].pc = "store", ![k][z].rev = {}]
    /\ UNCHANGED <<dns, flags, op, tasks, sync, apart>>

\* Mutant: the flags that are stored are kept.
StoredFlagsKept(z, recs, ptrs) == IF z = "F" THEN (flags \cap recs) \cup ptrs ELSE flags

StoredFlags(z, recs, ptrs) == IF z = "F" THEN ptrs ELSE flags

\* ReplaceDNSZoneRecords stores the zone and exactly these records.
StoreZone(k, z) ==
    /\ job[k][z].pc = "store"
    /\ \/ /\ NoFault
          /\ db' = [db EXCEPT ![z] = job[k][z].recs]
          /\ flags' = StoredFlags(z, job[k][z].recs, job[k][z].ptrs)
          /\ JobEnds(k, z)
          /\ IF k = "task" THEN Touch({z}) ELSE UNCHANGED touched
          /\ UNCHANGED <<sync, excused>>
       \/ Fault /\ JobFails(k, z) /\ UNCHANGED <<db, flags, touched>>
    /\ UNCHANGED <<dns, op, tasks, apart>>

-----------------------------------------------------------------------------
(***************************************************************************)
(* syncDNS.                                                                *)
(***************************************************************************)
SyncStart ==
    /\ scenario.syncs /\ sync.pc = "idle"
    /\ sync' = [NoSync EXCEPT !.pc = "list"]
    /\ touched' = {}
    /\ UNCHANGED <<server, op, tasks, job, scenario, excused, apart>>

\* GET /dns/zones.
SyncList ==
    /\ sync.pc = "list"
    /\ sync' = [sync EXCEPT !.pc = "replace", !.listed = {z \in Zones : Exists(z, dns)}]
    /\ UNCHANGED <<server, op, tasks, job, scenario, history>>

\* Mutant: zones that are not listed stay.
ListedKeeps(listed) == [z \in Zones |-> IF z \in listed /\ db[z] = None THEN {} ELSE db[z]]

\* ReplaceDNSZones: zones that are not listed disappear with their records.
Listed(listed) == [z \in Zones |-> IF z \notin listed THEN None ELSE Rows(z, db)]

SyncReplace ==
    /\ sync.pc = "replace"
    /\ db' = Listed(sync.listed)
    /\ flags' = IF "F" \in sync.listed THEN flags ELSE {}
    /\ sync' = [sync EXCEPT !.pc = "pool", !.todo = sync.listed]
    /\ UNCHANGED <<dns, op, tasks, job, scenario, history>>

\* The list or its transaction fails: syncDNS returns the error.
SyncFails ==
    /\ sync.pc \in {"list", "replace"} /\ Fault
    /\ sync' = [sync EXCEPT !.pc = "end", !.failed = TRUE]
    /\ UNCHANGED <<server, op, tasks, job, history>>

\* The goroutine of a zone gets one of the slots.
SyncZone(z) ==
    /\ sync.pc = "pool" /\ z \in sync.todo
    /\ Cardinality({y \in Zones : job["full"][y].pc # "idle"}) < Concurrency
    /\ sync' = [sync EXCEPT !.todo = @ \ {z}]
    /\ job' = [job EXCEPT !["full"][z].pc = "fetch"]
    /\ UNCHANGED <<server, op, tasks, scenario, history>>

SyncJoin ==
    /\ sync.pc = "pool" /\ sync.todo = {} /\ \A z \in Zones : job["full"][z].pc = "idle"
    /\ sync' = [sync EXCEPT !.pc = "end"]
    /\ UNCHANGED <<server, op, tasks, job, scenario, history>>

SyncEnd ==
    /\ sync.pc = "end"
    /\ sync' = NoSync /\ touched' = {}
    /\ UNCHANGED <<server, op, tasks, job, scenario, excused, apart>>

-----------------------------------------------------------------------------
OpStep(o) ==
    \/ ReadForCreate(o) \/ ReadForDelete(o) \/ ReadForUpdate(o)
    \/ CallAgent(o) \/ AddNew(o) \/ DeletePTR(o) \/ CreatePTR(o) \/ CreatePTRWarns(o)
    \/ ChangePTRAlone(o) \/ CallFails(o) \/ SaveRecord(o) \/ SavePTR(o) \/ SaveZone(o)
    \/ FetchFirst(o) \/ StoreFirst(o) \/ DropZone(o) \/ MarkDirty(o)

JobStep(k, z) == FetchZone(k, z) \/ FetchReverse(k, z) \/ StoreReverse(k, z) \/ StoreZone(k, z)
SyncStep == SyncList \/ SyncReplace \/ SyncFails \/ SyncJoin \/ SyncEnd \/ \E z \in Zones : SyncZone(z)

Next ==
    \/ \E o \in Ops, k \in RecordKinds, x, y \in scenario.recs, p \in BOOLEAN : StartRecord(o, k, x, y, p)
    \/ \E o \in Ops, k \in ZoneKinds, z \in Zones : StartZone(o, k, z)
    \/ \E o \in Ops : OpStep(o)
    \/ \E z \in Zones : Fire(z) \/ RequestRefresh(z) \/ StartTask(z)
    \/ \E k \in Sides, z \in Zones : JobStep(k, z)
    \/ SyncStart \/ SyncStep

Spec == Init /\ [][Next]_vars

-----------------------------------------------------------------------------
(***************************************************************************)
(* Properties                                                              *)
(***************************************************************************)
Settled(z) ==
    /\ ~Syncing /\ z \notin owed \cup queued
    /\ \A k \in Sides : job[k][z].pc = "idle" /\ job[k]["F"].pc = "idle"
    /\ \A o \in Ops : op[o].pc \in {"idle", "done"}

\* Once nothing is at work on a zone and none is owed, its snapshot holds
\* exactly what the DNS server holds: every order of handlers, of their patches
\* with the refreshes of both zones, of the copy of R that a refresh of F
\* stores (annotateDNSRecordsFromReverseZones) and of a full synchronisation comes out the same.
\* Excused are the zones of an operation whose Agent call failed after it had
\* changed something, for the handler then marks nothing; of a deleteZone that
\* failed to delete the rows or let a copy in flight bring them back; of a
\* refresh that was dropped or failed; R when a refresh of F stores a copy of it
\* that is out of date and no refresh of R follows; R when the creation of a PTR
\* record is reported as failed though the record was made (createPTRBestEffort,
\* resources_dns_records.go:291), until a refresh of F reads R; and R when a deletion of a
\* record with a stored flag removes a PTR record that is not stored, in a zone
\* that is not stored either: shouldRefreshDeletedARecordPTRZone
\* (resources_dns_records.go:373) then marks nothing.
AgreesUnlessExcused == \A z \in Zones : Settled(z) /\ z \notin excused => db[z] = dns[z]

\* The create_ptr flags a user sees say which A records have a PTR record,
\* unless R was changed by an operation on R itself or on a zone as a whole, or
\* could not be fetched: nothing then refreshes the flags of F.
FlagsAgree ==
    Settled("F") /\ Settled("R") /\ excused = {} /\ ~apart => flags = Rows("F", db) \cap Rows("R", db)

\* When syncDNS returns nil, every zone that nobody else changed meanwhile is
\* exact in the snapshot, and so are the flags unless R could not be fetched.
NilMeansExact ==
    sync.pc = "end" /\ ~sync.failed =>
        /\ \A z \in Zones \ touched : db[z] = dns[z]
        /\ touched = {} /\ ~sync.blind => flags = Rows("F", db) \cap Rows("R", db)

\* The documentation says that deleteRecordScript falls back to the only record
\* of that name for domain values (CNAME, PTR, NS): an A record is removed from
\* F by an operation on that very record, or with the zone.
RemovesWhatItNames ==
    [][\A x \in Rows("F", dns) \ Rows("F", dns') :
          IsA(x) => \E o \in Ops : op[o].pc = "call" /\ (op[o].rec = x \/ op[o].kind = "deleteZone")]_vars
=============================================================================
