------------------------------ MODULE DNSNames ------------------------------
(***************************************************************************)
(* The names of PTR records on their way from the DNS server to a row of   *)
(* the snapshot and back.  The server names a record relative to its zone  *)
(* ("5" in "0.0.10.in-addr.arpa"), the list script of the DNS Agent turns  *)
(* that into an address ("10.0.0.5."), the backend stores the address,     *)
(* builds it itself for the PTR record of an A record, finds the PTR       *)
(* record of an A record by it, and turns it back into a relative name     *)
(* when the record is deleted; the Agent does so once more.                *)
(*                                                                         *)
(* A name is the sequence of its labels as they are written, the name of   *)
(* the zone itself the empty sequence; a reverse zone is named without     *)
(* in-addr.arpa.  Calls succeed, refreshes are complete: what failures do  *)
(* to the snapshot is in DNSSnapshot.                                      *)
(***************************************************************************)
EXTENDS Naturals, Sequences

CONSTANTS
    Octets,         \* the octets of addresses
    ReverseZones,   \* reverse zones on the server
    Names,          \* names of records of the forward zone, Apex among them
    Apex,           \* "@"
    NameBudgets     \* bound: the addresses and foreign records that come up, or {}

ASSUME OctetsAssumption == Octets \subseteq 0..255
ASSUME ReverseZonesAssumption ==
    ReverseZones \subseteq Seq(Octets) /\ \A z \in ReverseZones : Len(z) \in 1..3
ASSUME NameBudgetsAssumption ==
    NameBudgets \subseteq [addresses : SUBSET {a \in Seq(Octets) : Len(a) = 4},
                          names : SUBSET Seq(Octets)]

VARIABLES
    ptrs,     \* PTR records of the server: zone, name and target
    ptrRows,  \* their rows
    aRows,    \* rows of A records <<name, address>>, which are also on the server
    coming    \* the addresses and foreign names that may still come up

nmVars == <<ptrs, ptrRows, aRows, coming>>

Record(z, n, to) == [zone |-> z, name |-> n, to |-> to]

-----------------------------------------------------------------------------
(* What the code computes *)

\* The labels of a zone in the order of an address, and back.
Reversed(s) == [j \in 1..Len(s) |-> s[Len(s) - j + 1]]

\* Mutant: the octets of the zone are not reversed.
ListedNameUnreversed(z, n) == IF Len(n) = 1 THEN z \o n ELSE n

\* The list script: a name of one number is completed with the octets of its zone.
ListedName(z, n) == IF Len(n) = 1 THEN Reversed(z) \o n ELSE n
AsListed(p) == [p EXCEPT !.name = ListedName(p.zone, p.name)]

IsAddress(n) == Len(n) = 4

\* Mutant: the name is sent as it is listed.
RelativeNameAbsolute(z, n) == n

\* dnsRecordAgentName of the backend, ptrRecordRelativeName of the Agent.
RelativeName(z, n) ==
    IF IsAddress(n) /\ SubSeq(n, 1, Len(z)) = Reversed(z) THEN <<n[Len(z) + 1]>> ELSE n

\* The name that arrives at the script of a deletion or an update.
Sent(row) == RelativeName(row.zone, RelativeName(row.zone, row.name))

\* ipv4ReverseZone, and the same expression in the scripts of the Agent.
ZoneOfAddress(a) == <<a[3], a[2], a[1]>>

\* ptrRecordFQDN: the apex of a zone is named by the zone.
FQDN(n) == IF n = Apex THEN <<>> ELSE <<n>>

\* ptrRecordForARecord, dnsPTRRecordForARecord: the row of the PTR record.
PTRRowOf(x) == Record(ZoneOfAddress(x[2]), x[2], FQDN(x[1]))

\* createRecordScript, createPTRBestEffort: the record itself.
PTROf(x) == Record(ZoneOfAddress(x[2]), <<x[2][4]>>, FQDN(x[1]))

\* annotateDNSPTRRecords.
Flagged(rows) == {x \in aRows : PTRRowOf(x) \in rows}

\* filterSyncableDNSZones, on both sides.
Syncable(z) == z \notin {<<0>>, <<127>>, <<255>>}

-----------------------------------------------------------------------------
NmInit == ptrs = {} /\ ptrRows = {} /\ aRows = {} /\ coming \in NameBudgets

\* createDNSRecord of an A record with its PTR record.
CreateA(n, a) ==
    /\ a \in coming.addresses /\ ZoneOfAddress(a) \in ReverseZones /\ <<n, a>> \notin aRows
    /\ ptrs' = ptrs \cup {PTROf(<<n, a>>)}
    /\ ptrRows' = ptrRows \cup {PTRRowOf(<<n, a>>)}
    /\ aRows' = aRows \cup {<<n, a>>}
    /\ coming' = [coming EXCEPT !.addresses = @ \ {a}]

\* deleteDNSRecord of an A record: deletePTRBestEffort, and the row found for it.
DeleteA(x) ==
    /\ x \in aRows
    /\ ptrs' = ptrs \ {PTROf(x)}
    /\ ptrRows' = ptrRows \ {PTRRowOf(x)}
    /\ aRows' = aRows \ {x}
    /\ UNCHANGED coming

\* Somebody else adds a record to a zone: for an address, a subnet or the apex.
Foreign(z, n) ==
    /\ n \in coming.names /\ Len(z) + Len(n) <= 4
    /\ ptrs' = ptrs \cup {Record(z, n, FQDN(Apex))}
    /\ coming' = [coming EXCEPT !.names = @ \ {n}]
    /\ UNCHANGED <<ptrRows, aRows>>

\* Somebody else deletes a record.
ForeignDelete(p) ==
    /\ p \in ptrs /\ coming.names # {}
    /\ ptrs' = ptrs \ {p}
    /\ UNCHANGED <<ptrRows, aRows, coming>>

InZone(z, rows) == {r \in rows : r.zone = z}

\* A refresh of a zone, or a full synchronisation of all of them.
RefreshNames(z) ==
    /\ Syncable(z)
    /\ ptrRows' = (ptrRows \ InZone(z, ptrRows)) \cup {AsListed(p) : p \in InZone(z, ptrs)}
    /\ UNCHANGED <<ptrs, aRows, coming>>

\* deleteDNSRecord of a PTR row: the script looks for the name it is sent.
DeleteRow(row) ==
    LET target == Record(row.zone, Sent(row), row.to) IN
    /\ row \in ptrRows /\ target \in ptrs
    /\ ptrs' = ptrs \ {target}
    /\ ptrRows' = ptrRows \ {row}
    /\ UNCHANGED <<aRows, coming>>

NmNext ==
    \/ \E n \in Names, a \in coming.addresses : CreateA(n, a)
    \/ \E x \in aRows : DeleteA(x)
    \/ \E z \in ReverseZones, n \in coming.names : Foreign(z, n)
    \/ \E p \in ptrs : ForeignDelete(p)
    \/ \E z \in ReverseZones : RefreshNames(z)
    \/ \E row \in ptrRows : DeleteRow(row)

NmSpec == NmInit /\ [][NmNext]_nmVars

-----------------------------------------------------------------------------
(* Properties *)

\* Records for addresses and for the zone itself.  A record that stands for a
\* subnet in a zone above it ("5" in "0.10.in-addr.arpa") is listed as "10.0.5."
\* and sent as a name of three labels: such a row can be shown but not changed.
ForAddress(p) == p.name = <<>> \/ Len(p.zone) + Len(p.name) = 4

\* Whatever put a PTR row there, the backend's own derivation or the list of the
\* Agent, a deletion or an update of it sends the name that its record has on the
\* server, so that no other record is changed in its place.
RowsAddressTheirRecord ==
    \A p \in ptrs : AsListed(p) \in ptrRows /\ ForAddress(p) => Sent(AsListed(p)) = p.name

\* Over a complete copy of the reverse zones, create_ptr is set for exactly the A
\* records whose PTR record exists on the server.
FlagsMeanPTR ==
    (\A z \in ReverseZones : Syncable(z) => {AsListed(p) : p \in InZone(z, ptrs)} = InZone(z, ptrRows))
    => Flagged(ptrRows) = {x \in aRows : PTROf(x) \in ptrs}
=============================================================================
