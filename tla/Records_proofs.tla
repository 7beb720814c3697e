--------------------------- MODULE Records_proofs ---------------------------
(***************************************************************************)
(* What is sent for a row reaches its record: the names of PTR records     *)
(* (DNSNames) and the forms of DHCP scopes (ScopeForm).                     *)
(***************************************************************************)
EXTENDS DNSNames, ScopeForm, SequenceTheorems, TLAPS

-----------------------------------------------------------------------------
(***************************************************************************)
(* Names of PTR records.                                                   *)
(***************************************************************************)
Addresses == {a \in Seq(Octets) : Len(a) = 4}

\* A record of the server lies in one of its zones, and its name and its zone
\* together are no longer than an address.
IsPTR(p) ==
    /\ p = Record(p.zone, p.name, p.to)
    /\ p.zone \in ReverseZones /\ p.name \in Seq(Octets) /\ Len(p.zone) + Len(p.name) <= 4

NamesInv ==
    /\ \A p \in ptrs : IsPTR(p)
    /\ \A x \in aRows : /\ x = <<x[1], x[2]>> /\ x[2] \in Addresses
                        /\ ZoneOfAddress(x[2]) \in ReverseZones
    /\ coming \in [addresses : SUBSET Addresses, names : SUBSET Seq(Octets)]

\* The octets of a zone in the order of an address.
LEMMA ReversedZone ==
    ASSUME NEW z \in ReverseZones
    PROVE  /\ z \in Seq(Octets) /\ Len(z) \in 1..3
           /\ Reversed(z) \in Seq(Octets) /\ Len(Reversed(z)) = Len(z)
<1>1. z \in Seq(Octets) /\ Len(z) \in 1..3
  BY ReverseZonesAssumption
<1>2. \A j \in 1..Len(z) : z[Len(z) - j + 1] \in Octets
  BY <1>1
<1> QED
  BY <1>1, <1>2 DEF Reversed

\* The lengths of a zone and of a name in it.
LEMMA Lengths ==
    ASSUME NEW k \in Nat, NEW l \in Nat
    PROVE  /\ (k + l = 4 /\ l = 1) => k = 3
           /\ (k + l <= 4 /\ k > 0) => l # 4
           /\ (k + l <= 4 /\ k = 3) => (l = 0 \/ l = 1)
OBVIOUS

\* Sequences of the same length are equal when their elements are.
LEMMA SameElements ==
    ASSUME NEW S, NEW n, NEW s \in Seq(S), NEW t \in Seq(S), Len(s) = n, Len(t) = n,
           \A j \in 1..n : s[j] = t[j]
    PROVE  s = t
BY SeqEqual

\* Sequences of a few labels, whatever they are.
LEMMA FewLabels ==
    ASSUME NEW a, NEW b, NEW c, NEW d
    PROVE  /\ <<a, b, c>> \o <<d>> = <<a, b, c, d>>
           /\ SubSeq(<<a, b, c, d>>, 1, 3) = <<a, b, c>>
           /\ Len(<<a, b, c, d>>) = 4 /\ Len(<<a, b, c>>) = 3 /\ Len(<<d>>) = 1
<1> DEFINE S == {a, b, c, d}
<1>1. <<a, b, c>> \in Seq(S) /\ <<d>> \in Seq(S) /\ <<a, b, c, d>> \in Seq(S)
  OBVIOUS
<1>2. /\ Len(<<a, b, c, d>>) = 4 /\ Len(<<a, b, c>>) = 3 /\ Len(<<d>>) = 1
  OBVIOUS
<1> HIDE DEF S
<1>3. <<a, b, c>> \o <<d>> = <<a, b, c, d>>
  <2> DEFINE t == <<a, b, c>> \o <<d>>
             u == <<a, b, c, d>>
  <2>1. t \in Seq(S) /\ Len(t) = 4 /\ u \in Seq(S) /\ Len(u) = 4
    BY <1>1, <1>2
  <2>2. t[1] = a /\ t[2] = b /\ t[3] = c /\ t[4] = d
    BY <1>1, <1>2
  <2>3. \A j \in 1..4 : j = 1 \/ j = 2 \/ j = 3 \/ j = 4
    OBVIOUS
  <2>4. \A j \in 1..4 : t[j] = u[j]
    BY <2>2, <2>3
  <2> HIDE DEF t, u
  <2>5. t = u
    BY <2>1, <2>4, SameElements, Zenon
  <2> QED
    BY <2>5 DEF t, u
<1>4. SubSeq(<<a, b, c, d>>, 1, 3) = <<a, b, c>>
  <2> DEFINE t == SubSeq(<<a, b, c, d>>, 1, 3)
             u == <<a, b, c>>
  <2>1. t \in Seq(S) /\ Len(t) = 3 /\ u \in Seq(S) /\ Len(u) = 3
    BY <1>1, <1>2
  <2>2. t[1] = a /\ t[2] = b /\ t[3] = c
    BY <1>1, <1>2
  <2>3. \A j \in 1..3 : j = 1 \/ j = 2 \/ j = 3
    OBVIOUS
  <2>4. \A j \in 1..3 : t[j] = u[j]
    BY <2>2, <2>3
  <2> HIDE DEF t, u
  <2>5. t = u
    BY <2>1, <2>4, SameElements, Zenon
  <2> QED
    BY <2>5 DEF t, u
<1> QED
  BY <1>1, <1>2, <1>3, <1>4

\* A name of one label in a zone of three is listed as the address it stands for.
LEMMA ListedAddress ==
    ASSUME NEW z \in ReverseZones, Len(z) = 3, NEW o \in Octets
    PROVE  ListedName(z, <<o>>) = <<z[3], z[2], z[1], o>>
<1>1. z \in Seq(Octets) /\ Len(z) = 3
  BY ReversedZone
<1>2. Reversed(z) = <<z[3], z[2], z[1]>>
  BY <1>1 DEF Reversed
<1>3. Len(<<o>>) = 1 /\ <<z[3], z[2], z[1]>> \o <<o>> = <<z[3], z[2], z[1], o>>
  BY FewLabels
<1> QED
  BY <1>2, <1>3 DEF ListedName

\* Its address is sent as the name that the server has.
LEMMA AddressSent ==
    ASSUME NEW z \in ReverseZones, Len(z) = 3, NEW o \in Octets
    PROVE  RelativeName(z, RelativeName(z, <<z[3], z[2], z[1], o>>)) = <<o>>
<1> DEFINE a == <<z[3], z[2], z[1], o>>
<1>1. z \in Seq(Octets) /\ Len(z) = 3
  BY ReversedZone
<1>2. Len(a) = 4 /\ SubSeq(a, 1, 3) = <<z[3], z[2], z[1]>> /\ a[4] = o
  BY FewLabels
<1>3. Reversed(z) = <<z[3], z[2], z[1]>>
  BY <1>1 DEF Reversed
<1>4. RelativeName(z, a) = <<o>>
  BY <1>1, <1>2, <1>3 DEF RelativeName, IsAddress
<1>5. Len(<<o>>) # 4
  OBVIOUS
<1> QED
  BY <1>4, <1>5 DEF RelativeName, IsAddress

\* A row whose record stands for an address, or for the zone, is sent under the
\* name that the record has on the server.
LEMMA SentIsName ==
    ASSUME NEW p, IsPTR(p), ForAddress(p)
    PROVE  Sent(AsListed(p)) = p.name
<1>1. /\ p.zone \in ReverseZones /\ Len(p.zone) \in Nat /\ Len(p.zone) > 0
      /\ p.name \in Seq(Octets) /\ Len(p.name) \in Nat
      /\ Len(p.zone) + Len(p.name) <= 4
      /\ p.name = <<>> \/ Len(p.zone) + Len(p.name) = 4
  <2>1. p.zone \in ReverseZones /\ p.name \in Seq(Octets)
    BY DEF IsPTR
  <2>2. Len(p.zone) \in Nat /\ Len(p.zone) > 0
    <3>1. Len(p.zone) \in 1..3
      BY <2>1, ReverseZonesAssumption
    <3> QED
      BY <3>1
  <2>3. Len(p.name) \in Nat
    BY <2>1, LenProperties
  <2> QED
    BY <2>1, <2>2, <2>3 DEF IsPTR, ForAddress
<1>2. /\ AsListed(p).zone = p.zone
      /\ AsListed(p).name = ListedName(p.zone, p.name)
  BY DEF IsPTR, AsListed, Record
<1>3. CASE Len(p.name) = 1
  <2>1. Len(p.zone) = 3
    <3>1. p.name # <<>>
      BY <1>3
    <3>2. Len(p.zone) + Len(p.name) = 4 /\ Len(p.name) = 1
      BY <1>1, <1>3, <3>1
    <3> QED
      BY <1>1, <3>2, Lengths, Zenon
  <2>2. PICK o \in Octets : p.name = <<o>>
    <3>1. p.name[1] \in Octets /\ p.name = <<p.name[1]>>
      BY <1>1, <1>3
    <3> QED
      BY <3>1
  <2>3. /\ ListedName(p.zone, p.name) = <<p.zone[3], p.zone[2], p.zone[1], o>>
        /\ RelativeName(p.zone, RelativeName(p.zone, <<p.zone[3], p.zone[2], p.zone[1], o>>)) = <<o>>
    BY <1>1, <2>1, <2>2, ListedAddress, AddressSent
  <2> QED
    BY <1>2, <2>2, <2>3 DEF Sent
<1>4. CASE Len(p.name) # 1
  <2>1. ListedName(p.zone, p.name) = p.name
    BY <1>4 DEF ListedName
  <2>2. Len(p.name) # 4
    BY <1>1, Lengths, Zenon
  <2>3. RelativeName(p.zone, p.name) = p.name
    BY <2>2 DEF RelativeName, IsAddress
  <2> QED
    BY <1>2, <2>1, <2>3 DEF Sent
<1> QED
  BY <1>3, <1>4

\* The parts of an address are octets.
LEMMA AddressParts ==
    ASSUME NEW a \in Addresses
    PROVE  /\ a[1] \in Octets /\ a[2] \in Octets /\ a[3] \in Octets /\ a[4] \in Octets
           /\ a = <<a[1], a[2], a[3], a[4]>>
           /\ Len(ZoneOfAddress(a)) = 3
<1>1. a \in Seq(Octets) /\ Len(a) = 4
  BY DEF Addresses
<1>2. a[1] \in Octets /\ a[2] \in Octets /\ a[3] \in Octets /\ a[4] \in Octets
  <2>1. 1 \in 1..Len(a) /\ 2 \in 1..Len(a) /\ 3 \in 1..Len(a) /\ 4 \in 1..Len(a)
    BY <1>1
  <2> QED
    BY <1>1, <2>1, ElementOfSeq
<1>3. a = <<a[1], a[2], a[3], a[4]>>
  <2> DEFINE s == <<a[1], a[2], a[3], a[4]>>
  <2>1. s \in Seq(Octets) /\ Len(s) = 4
    BY <1>2
  <2>2. \A j \in 1..4 : j = 1 \/ j = 2 \/ j = 3 \/ j = 4
    OBVIOUS
  <2>3. \A j \in 1..4 : a[j] = s[j]
    BY <2>2
  <2> HIDE DEF s
  <2>4. a = s
    BY <1>1, <2>1, <2>3, SeqEqual
  <2> QED
    BY <2>4 DEF s
<1>4. Len(ZoneOfAddress(a)) = 3
  BY DEF ZoneOfAddress
<1> QED
  BY <1>2, <1>3, <1>4

\* The record of a row lies in the zone of the address, which is synchronised.
LEMMA RecordOfAddress ==
    ASSUME NEW x, x[2] \in Addresses, ZoneOfAddress(x[2]) \in ReverseZones
    PROVE  IsPTR(PTROf(x)) /\ Syncable(ZoneOfAddress(x[2]))
<1> DEFINE z == ZoneOfAddress(x[2])
<1>1. x[2][4] \in Octets /\ Len(z) = 3
  BY AddressParts
<1>2. <<x[2][4]>> \in Seq(Octets) /\ Len(<<x[2][4]>>) = 1
  BY <1>1
<1>3. IsPTR(PTROf(x))
  BY <1>1, <1>2 DEF IsPTR, PTROf, Record
<1>4. \A o : <<o>> # z
  BY <1>1
<1> QED
  BY <1>3, <1>4 DEF Syncable

\* A record is listed as the row that the backend derives from an A record
\* exactly when it is the PTR record that belongs to it.
LEMMA ListedIsDerived ==
    ASSUME NEW p, IsPTR(p), NEW x, x[2] \in Addresses, ZoneOfAddress(x[2]) \in ReverseZones
    PROVE  AsListed(p) = PTRRowOf(x) <=> p = PTROf(x)
<1> DEFINE z == ZoneOfAddress(x[2])
           a == x[2]
<1>1. /\ a[1] \in Octets /\ a[2] \in Octets /\ a[3] \in Octets /\ a[4] \in Octets
      /\ a = <<a[1], a[2], a[3], a[4]>> /\ Len(z) = 3
      /\ z[1] = a[3] /\ z[2] = a[2] /\ z[3] = a[1]
  BY AddressParts DEF ZoneOfAddress
<1>2. ListedName(z, <<a[4]>>) = a
  <2>1. ListedName(z, <<a[4]>>) = <<z[3], z[2], z[1], a[4]>>
    BY <1>1, ListedAddress
  <2> QED
    BY <1>1, <2>1
<1>3. ASSUME p = PTROf(x) PROVE AsListed(p) = PTRRowOf(x)
  BY <1>2, <1>3 DEF PTROf, PTRRowOf, AsListed, Record
<1>4. ASSUME AsListed(p) = PTRRowOf(x) PROVE p = PTROf(x)
  <2>1. p.zone = z /\ p.to = FQDN(x[1]) /\ ListedName(p.zone, p.name) = a
    <3>1. /\ AsListed(p).zone = p.zone /\ AsListed(p).to = p.to
          /\ AsListed(p).name = ListedName(p.zone, p.name)
      BY DEF IsPTR, AsListed, Record
    <3>2. /\ PTRRowOf(x).zone = z /\ PTRRowOf(x).to = FQDN(x[1])
          /\ PTRRowOf(x).name = a
      BY DEF PTRRowOf, Record
    <3> QED
      BY <1>4, <3>1, <3>2
  <2>2. p.name \in Seq(Octets) /\ (Len(p.name) = 0 \/ Len(p.name) = 1)
    <3>1. p.name \in Seq(Octets) /\ Len(p.zone) + Len(p.name) <= 4
      BY DEF IsPTR
    <3>2. Len(p.name) \in Nat
      BY <3>1, LenProperties
    <3>3. Len(p.zone) = 3
      BY <1>1, <2>1
    <3>4. Len(p.zone) \in Nat
      BY <3>3
    <3> QED
      BY <3>1, <3>2, <3>3, <3>4, Lengths, Zenon
  <2>3. Len(p.name) = 1
    <3>1. Len(p.name) # 1 => p.name = a
      BY <2>1 DEF ListedName
    <3>2. Len(a) = 4
      BY DEF Addresses
    <3>3. Len(p.name) # 1 => Len(p.name) = 4
      BY <3>1, <3>2
    <3>4. ~(0 = 4)
      OBVIOUS
    <3> QED
      BY <2>2, <3>3, <3>4, Zenon
  <2>4. PICK o \in Octets : p.name = <<o>>
    <3>1. p.name[1] \in Octets /\ p.name = <<p.name[1]>>
      BY <2>2, <2>3
    <3> QED
      BY <3>1
  <2>5. <<z[3], z[2], z[1], o>> = a
    BY <1>1, <2>1, <2>4, ListedAddress
  <2>6. o = a[4]
    BY <1>1, <2>5
  <2> QED
    BY <2>1, <2>4, <2>6 DEF IsPTR, PTROf, Record
<1> QED
  BY <1>3, <1>4

\* The invariant of the names holds on an empty server.
LEMMA NamesInit == NmInit => NamesInv
BY NameBudgetsAssumption DEF NmInit, NamesInv, Addresses

\* No creation, deletion or refresh, and nobody else, breaks it.
LEMMA NamesStep == NamesInv /\ [NmNext]_nmVars => NamesInv'
<1> SUFFICES ASSUME NamesInv, [NmNext]_nmVars PROVE NamesInv'
  OBVIOUS
<1>1. ASSUME NEW n \in Names, NEW a \in coming.addresses, CreateA(n, a) PROVE NamesInv'
  <2>1. a \in Addresses /\ ZoneOfAddress(a) \in ReverseZones
    BY <1>1 DEF NamesInv, CreateA
  <2>2. IsPTR(PTROf(<<n, a>>))
    BY <2>1, RecordOfAddress
  <2>3. \A p \in ptrs' : IsPTR(p)
    BY <1>1, <2>2 DEF CreateA, NamesInv
  <2>4. coming' \in [addresses : SUBSET Addresses, names : SUBSET Seq(Octets)]
    BY <1>1 DEF CreateA, NamesInv
  <2>5. \A x \in aRows' : /\ x = <<x[1], x[2]>> /\ x[2] \in Addresses
                          /\ ZoneOfAddress(x[2]) \in ReverseZones
    BY <1>1, <2>1 DEF CreateA, NamesInv
  <2> QED
    BY <2>3, <2>4, <2>5 DEF NamesInv, IsPTR, Record, ZoneOfAddress
<1>2. ASSUME NEW x \in aRows, DeleteA(x) PROVE NamesInv'
  BY <1>2 DEF DeleteA, NamesInv, IsPTR, Record, ZoneOfAddress
<1>3. ASSUME NEW z \in ReverseZones, NEW n \in coming.names, Foreign(z, n) PROVE NamesInv'
  <2>1. n \in Seq(Octets) /\ Len(z) + Len(n) <= 4
    BY <1>3 DEF NamesInv, Foreign
  <2>2. IsPTR(Record(z, n, FQDN(Apex)))
    BY <2>1 DEF IsPTR, Record
  <2>3. \A p \in ptrs' : IsPTR(p)
    BY <1>3, <2>2 DEF Foreign, NamesInv
  <2>4. coming' \in [addresses : SUBSET Addresses, names : SUBSET Seq(Octets)]
    BY <1>3 DEF Foreign, NamesInv
  <2> QED
    BY <1>3, <2>3, <2>4 DEF Foreign, NamesInv, IsPTR, Record, ZoneOfAddress
<1>4. ASSUME NEW p \in ptrs, ForeignDelete(p) PROVE NamesInv'
  BY <1>4 DEF ForeignDelete, NamesInv, IsPTR, Record, ZoneOfAddress
<1>5. ASSUME NEW z \in ReverseZones, RefreshNames(z) PROVE NamesInv'
  BY <1>5 DEF RefreshNames, NamesInv, IsPTR, Record, ZoneOfAddress
<1>6. ASSUME NEW r \in ptrRows, DeleteRow(r) PROVE NamesInv'
  BY <1>6 DEF DeleteRow, NamesInv, IsPTR, Record, ZoneOfAddress
<1>7. ASSUME UNCHANGED nmVars PROVE NamesInv'
  BY <1>7 DEF nmVars, NamesInv, IsPTR, Record, ZoneOfAddress
<1> QED
  BY <1>1, <1>2, <1>3, <1>4, <1>5, <1>6, <1>7 DEF NmNext

\* A change or a deletion of a PTR row reaches its own record, for any zones,
\* octets and foreign records.
THEOREM RowsReachTheirRecord == NmSpec => []RowsAddressTheirRecord
<1>1. NamesInv => RowsAddressTheirRecord
  BY SentIsName DEF NamesInv, RowsAddressTheirRecord
<1> QED
  BY <1>1, NamesInit, NamesStep, PTL DEF NmSpec

\* The flag create_ptr says what the server holds, as soon as the rows of the
\* reverse zones do.
THEOREM FlagsAreTrue == NmSpec => []FlagsMeanPTR
<1>1. ASSUME NamesInv,
             \A z \in ReverseZones : Syncable(z) =>
                {AsListed(p) : p \in InZone(z, ptrs)} = InZone(z, ptrRows),
             NEW x \in aRows
      PROVE  PTRRowOf(x) \in ptrRows <=> PTROf(x) \in ptrs
  <2> DEFINE z == ZoneOfAddress(x[2])
  <2>1. x[2] \in Addresses /\ z \in ReverseZones /\ Syncable(z)
    BY <1>1, RecordOfAddress DEF NamesInv
  <2>2. {AsListed(p) : p \in InZone(z, ptrs)} = InZone(z, ptrRows)
    BY <1>1, <2>1
  <2>3. PTRRowOf(x).zone = z /\ PTROf(x).zone = z
    BY DEF PTRRowOf, PTROf, Record
  <2>4. PTRRowOf(x) \in ptrRows <=> \E p \in InZone(z, ptrs) : AsListed(p) = PTRRowOf(x)
    BY <2>2, <2>3 DEF InZone
  <2>5. \A p \in ptrs : AsListed(p) = PTRRowOf(x) <=> p = PTROf(x)
    BY <1>1, <2>1, ListedIsDerived DEF NamesInv
  <2> QED
    BY <2>3, <2>4, <2>5 DEF InZone
<1>2. NamesInv => FlagsMeanPTR
  BY <1>1 DEF FlagsMeanPTR, Flagged
<1> QED
  BY <1>2, NamesInit, NamesStep, PTL DEF NmSpec

-----------------------------------------------------------------------------
(***************************************************************************)
(* Forms of scopes.                                                        *)
(***************************************************************************)
Bounds == Int \cup {Blank}
WellTyped == [kind : STRING, id : Int, prefix : 0..Width, first : Bounds, last : Bounds,
              gateway : Int, secs : Int, hours : Int, tidy : BOOLEAN, label : Labels,
              state : STRING \cup States \cup {Blank}]

\* The lease of a form after the first normalisation, which a second one leaves
\* as it is.
Normal(f) == (f.secs = -1 /\ f.hours = 0) \/ (f.secs > 0 /\ f.hours > 0)

\* What the server holds once the form has been carried out.
Asked(f) == [id |-> f.id, prefix |-> f.prefix, first |-> f.first, last |-> f.last,
             secs |-> f.secs, gateway |-> f.gateway, label |-> TrimSpace(f.label),
             state |-> IF f.kind = "create" THEN "Active" ELSE f.state]

InSubnet(a, s) == s.id <= a /\ a < s.id + 2^(Width - s.prefix)

RangeUsable(s) == s.first <= s.last /\ InSubnet(s.first, s) /\ InSubnet(s.last, s)
RouterUsable(s) ==
    s.gateway # Blank => s.id < s.gateway /\ s.gateway < s.id + 2^(Width - s.prefix) - 1

FormTyped ==
    /\ form \in WellTyped
    /\ stage \in {"backend", "agent", "save", "saved", "done", "failed"}
    /\ form.kind = "create" => form.first # Blank /\ form.last # Blank
    /\ stage \in {"agent", "save", "saved"} =>
          /\ form.kind \in {"create", "update"}
          /\ form.first # Blank /\ form.last # Blank /\ Normal(form)

\* An edit starts from a scope that the row agrees with, whose id is its network.
Editing ==
    form.kind = "update" =>
        /\ onServer # Blank
        /\ Network(onServer.id, onServer.prefix) = onServer.id
        /\ stage \in {"backend", "agent"} =>
              row = Read(onServer) /\ TrimSpace(onServer.label) = onServer.label
        /\ stage = "agent" => form.id = onServer.id /\ form.prefix = onServer.prefix

FormInv ==
    /\ FormTyped
    /\ onServer # Blank => /\ onServer \in Scopes /\ RouterUsable(onServer)
                           /\ form.kind = "create" => RangeUsable(onServer)
    /\ Editing
    /\ stage \in {"save", "saved"} => onServer = Asked(form)
    /\ PatchIsExact

\* The size of a subnet.
LEMMA SizeOf ==
    ASSUME NEW p \in 0..Width
    PROVE  2^(Width - p) \in Nat /\ 2^(Width - p) > 0
<1>1. Width - p \in 0..Width
  BY NumbersAssumption
<1> QED
  BY <1>1, SizesAssumption

\* An address lies in its network.
LEMMA NetworkOf ==
    ASSUME NEW p \in 0..Width, NEW a \in Int
    PROVE  /\ Network(a, p) \in Int
           /\ Network(a, p) <= a /\ a < Network(a, p) + 2^(Width - p)
<1> DEFINE d == 2^(Width - p)
<1>1. d \in Nat /\ d > 0
  BY SizeOf
<1> HIDE DEF d
<1>2. a % d \in Int /\ 0 <= a % d /\ a % d < d
  BY <1>1
<1>3. a - (a % d) \in Int /\ a - (a % d) <= a /\ a < (a - (a % d)) + d
  BY <1>1, <1>2
<1> QED
  BY <1>3 DEF Network, d

\* A lease is normalised to one without end or to a positive one, in seconds
\* and in hours; the rest of the form stays.
LEMMA LeaseNormalised ==
    ASSUME NEW f \in WellTyped
    PROVE  /\ normalizeLease(f) \in WellTyped /\ Normal(normalizeLease(f))
           /\ normalizeLease(f).kind = f.kind
           /\ normalizeLease(f).id = f.id /\ normalizeLease(f).prefix = f.prefix
           /\ normalizeLease(f).first = f.first /\ normalizeLease(f).last = f.last
           /\ normalizeLease(f).gateway = f.gateway
           /\ normalizeLease(f).label = f.label /\ normalizeLease(f).state = f.state
<1> DEFINE given == IF f.secs <= 0 /\ f.hours > 0 THEN f.hours * Hour ELSE f.secs
           up == IF f.hours <= 0 /\ given > 0 THEN HoursUp(given) ELSE f.hours
           hours == IF up <= 0 THEN Day ELSE up
           secs == IF given <= 0 THEN hours * Hour ELSE given
<1>1. f.secs \in Int /\ f.hours \in Int /\ Hour \in Nat /\ Hour > 0 /\ Day \in Nat /\ Day > 0
  BY NumbersAssumption DEF WellTyped
<1>2. given \in Int
  BY <1>1
<1>3. up \in Int
  <2>1. HoursUp(given) \in Int
    BY <1>1, <1>2 DEF HoursUp
  <2> QED
    BY <1>1, <2>1
<1>4. hours \in Int /\ hours > 0
  BY <1>1, <1>3
<1>5. secs \in Int /\ secs > 0
  <2>1. \A x \in Int, y \in Nat : (x > 0 /\ y > 0) => x * y \in Int /\ x * y > 0
    OBVIOUS
  <2>2. hours * Hour \in Int /\ hours * Hour > 0
    BY <1>1, <1>4, <2>1
  <2> QED
    BY <1>2, <2>2
<1>6. normalizeLease(f) = IF f.secs = -1 THEN [f EXCEPT !.hours = 0]
                          ELSE [f EXCEPT !.hours = hours, !.secs = secs]
  BY DEF normalizeLease
<1> HIDE DEF given, up, hours, secs
<1>7. CASE f.secs = -1
  BY <1>6, <1>7 DEF WellTyped, Normal
<1>8. CASE f.secs # -1
  BY <1>4, <1>5, <1>6, <1>8 DEF WellTyped, Normal
<1> QED
  BY <1>7, <1>8

\* A second normalisation, that of the store, changes nothing.
LEMMA LeaseStays ==
    ASSUME NEW f \in WellTyped, Normal(f)
    PROVE  normalizeScopeLeaseDuration(f) = f
<1>1. f.secs \in Int /\ f.hours \in Int
  BY DEF WellTyped
<1>2. CASE f.secs = -1 /\ f.hours = 0
  <2>1. normalizeLease(f) = [f EXCEPT !.hours = 0]
    BY <1>2 DEF normalizeLease
  <2> QED
    BY <1>2, <2>1 DEF WellTyped, normalizeScopeLeaseDuration
<1>3. CASE f.secs > 0 /\ f.hours > 0
  <2>1. ~(f.secs = -1) /\ ~(f.secs <= 0) /\ ~(f.hours <= 0)
    BY <1>1, <1>3
  <2>2. normalizeLease(f) = [f EXCEPT !.hours = f.hours, !.secs = f.secs]
    BY <2>1 DEF normalizeLease
  <2> QED
    BY <2>2 DEF WellTyped, normalizeScopeLeaseDuration
<1> QED
  BY <1>2, <1>3 DEF Normal

\* A checked range lies in the subnet.
LEMMA CheckedRange ==
    ASSUME NEW s \in Scopes,
           Network(s.first, s.prefix) = s.id, Network(s.last, s.prefix) = s.id,
           s.first <= s.last
    PROVE  RangeUsable(s)
<1>1. s.prefix \in 0..Width /\ s.first \in Int /\ s.last \in Int /\ s.id \in Int
  BY DEF Scopes
<1> QED
  BY <1>1, NetworkOf DEF InSubnet, RangeUsable

\* A checked router lies in the subnet, off its two ends.
LEMMA CheckedRouter ==
    ASSUME NEW s \in Scopes,
           s.gateway # Blank => /\ Network(s.gateway, s.prefix) = s.id
                                /\ s.gateway # s.id
                                /\ s.gateway # s.id + 2^(Width - s.prefix) - 1
    PROVE  RouterUsable(s)
<1>1. s.prefix \in 0..Width /\ s.id \in Int /\ (s.gateway # Blank => s.gateway \in Int)
  BY DEF Scopes
<1>2. 2^(Width - s.prefix) \in Nat
  BY <1>1, SizeOf
<1> SUFFICES ASSUME s.gateway # Blank
             PROVE  s.id < s.gateway /\ s.gateway < s.id + 2^(Width - s.prefix) - 1
  BY DEF RouterUsable
<1>3. s.id <= s.gateway /\ s.gateway < s.id + 2^(Width - s.prefix)
  BY <1>1, NetworkOf
<1> QED
  BY <1>1, <1>2, <1>3

\* What the assumption says of a form, in integers.
LEMMA FormsTyped ==
    ASSUME NEW f \in Forms
    PROVE  /\ f \in WellTyped
           /\ f.kind = "create" => f.first # Blank /\ f.last # Blank
           /\ f.kind = "update" => /\ Network(f.id, f.prefix) = f.id
                                   /\ 2^(Width - f.prefix) > 2
<1>1. /\ f \in [kind : STRING, id : IPv4, prefix : 0..Width,
                first : IPv4 \cup {Blank}, last : IPv4 \cup {Blank}, gateway : IPv4,
                secs : Int, hours : Int, tidy : BOOLEAN, label : Labels,
                state : STRING \cup {Blank}]
      /\ f.kind = "create" => Blank \notin {f.first, f.last}
      /\ f.kind = "update" => /\ Network(f.id, f.prefix) = f.id
                              /\ 2^(Width - f.prefix) > 2
  BY FormsAssumption
<1>2. \A a : a \in IPv4 => a \in Int
  <2>1. 2^Width \in Nat
    BY SizesAssumption, NumbersAssumption
  <2> QED
    BY <2>1 DEF IPv4
<1>3. f \in WellTyped
  BY <1>1, <1>2 DEF WellTyped, Bounds
<1> QED
  BY <1>1, <1>3

\* The invariant of the forms holds when a form is sent.
LEMMA FormStarts == FormInit => FormInv
<1> SUFFICES ASSUME FormInit PROVE FormInv
  OBVIOUS
<1>1. /\ form \in WellTyped /\ stage = "backend"
      /\ form.kind = "create" => form.first # Blank /\ form.last # Blank
  BY FormsTyped DEF FormInit
<1>2. FormTyped
  BY <1>1 DEF FormTyped
<1>3. CASE form.kind # "update"
  <2>1. onServer = Blank
    BY <1>3 DEF FormInit
  <2> QED
    BY <1>1, <1>2, <1>3, <2>1 DEF FormInv, Editing, PatchIsExact
<1>4. CASE form.kind = "update"
  <2> DEFINE s == [id |-> form.id, prefix |-> form.prefix, first |-> form.id + 1,
                   last |-> form.id + 2, secs |-> Hour, gateway |-> form.id + 1,
                   label |-> OldLabel, state |-> "Active"]
  <2>1. onServer = s
    BY <1>4 DEF FormInit
  <2>2. form.id \in Int /\ form.prefix \in 0..Width /\ Hour \in Int
    BY <1>1, NumbersAssumption DEF WellTyped
  <2>3. s \in Scopes /\ TrimSpace(s.label) = s.label
    <3>1. OldLabel \in Labels
      BY DEF OldLabel, Labels
    <3>2. TrimSpace(OldLabel) = OldLabel
      BY DEF OldLabel, TrimSpace
    <3> QED
      BY <2>2, <3>1, <3>2 DEF Scopes, States
  <2>4. onServer # Blank /\ onServer \in Scopes
    BY <2>1, <2>3, BlankAssumption
  <2>5. row = Read(onServer)
    BY <2>4 DEF FormInit
  <2>6. Network(form.id, form.prefix) = form.id /\ 2^(Width - form.prefix) > 2
    BY <1>4, FormsTyped DEF FormInit
  <2>7. 2^(Width - form.prefix) \in Nat
    BY <2>2, SizeOf
  <2>8. RouterUsable(s) /\ TrimSpace(onServer.label) = onServer.label
    BY <2>1, <2>2, <2>3, <2>6, <2>7 DEF RouterUsable
  <2> HIDE DEF s
  <2>9. Network(onServer.id, onServer.prefix) = onServer.id
    BY <2>1, <2>6 DEF s
  <2> QED
    <3>1. Editing
      BY <1>1, <2>4, <2>5, <2>8, <2>9 DEF Editing
    <3> QED
      BY <1>1, <1>2, <1>4, <2>1, <2>4, <2>8, <3>1 DEF FormInv, PatchIsExact
<1> QED
  BY <1>3, <1>4

\* The backend lets a form through with a normalised lease.
LEMMA BackendKeeps ==
    ASSUME FormInv, BackendCreates \/ BackendUpdates
    PROVE  FormInv'
<1>1. form \in WellTyped /\ FormTyped /\ Editing
  BY DEF FormInv, FormTyped
<1>2. ASSUME Fail PROVE FormInv'
  BY <1>2 DEF Fail, FormInv, FormTyped, Editing, PatchIsExact
<1>3. ASSUME BackendCreates, ~Fail PROVE FormInv'
  <2>1. /\ stage' = "agent" /\ form' = normalizeLease(form) /\ UNCHANGED <<onServer, row>>
        /\ form.kind = "create"
    BY <1>3 DEF BackendCreates
  <2>2. /\ form' \in WellTyped /\ Normal(form') /\ form'.kind = "create"
        /\ form'.first # Blank /\ form'.last # Blank
    BY <1>1, <2>1, LeaseNormalised DEF FormTyped
  <2> QED
    BY <2>1, <2>2 DEF FormInv, FormTyped, Editing, PatchIsExact
<1>4. ASSUME BackendUpdates, ~Fail PROVE FormInv'
  <2> DEFINE f == [form EXCEPT !.id = row.id, !.prefix = row.prefix,
                               !.first = IF @ = Blank THEN row.first ELSE @,
                               !.last = IF @ = Blank THEN row.last ELSE @,
                               !.state = IF @ = Blank THEN row.state ELSE @]
  <2>1. /\ stage = "backend" /\ form.kind = "update" /\ row = Read(onServer)
        /\ onServer \in Scopes /\ onServer # Blank
        /\ Network(onServer.id, onServer.prefix) = onServer.id
    BY <1>1, <1>4 DEF BackendUpdates, Editing, FormInv
  <2>2. /\ row.id = onServer.id /\ row.prefix = onServer.prefix
        /\ row.first = onServer.first /\ row.last = onServer.last /\ row.state = onServer.state
    BY <2>1 DEF Read
  <2>3. /\ f \in WellTyped /\ f.kind = "update" /\ f.first # Blank /\ f.last # Blank
        /\ f.id = onServer.id /\ f.prefix = onServer.prefix
    <3>1. /\ row.id \in Int /\ row.prefix \in 0..Width /\ row.first \in Int /\ row.last \in Int
          /\ row.state \in States
      <4>1. /\ onServer.id \in Int /\ onServer.prefix \in 0..Width
            /\ onServer.first \in Int /\ onServer.last \in Int /\ onServer.state \in States
        BY <2>1 DEF Scopes
      <4> QED
        BY <2>2, <4>1
    <3>2. row.first # Blank /\ row.last # Blank
      BY <3>1, BlankAssumption
    <3>3. form \in WellTyped
      BY <1>1
    <3> DEFINE a == IF form.first = Blank THEN row.first ELSE form.first
               b == IF form.last = Blank THEN row.last ELSE form.last
               st == IF form.state = Blank THEN row.state ELSE form.state
               g == [form EXCEPT !.id = row.id, !.prefix = row.prefix, !.first = a,
                                 !.last = b, !.state = st]
    <3>4. a \in Bounds /\ b \in Bounds /\ a # Blank /\ b # Blank
      BY <3>1, <3>2, <3>3 DEF WellTyped, Bounds
    <3>5. st \in STRING \cup States \cup {Blank}
      BY <3>1, <3>3 DEF WellTyped
    <3>6. f = g
      OBVIOUS
    <3> HIDE DEF a, b, st, f
    <3>7. g \in WellTyped
      BY <3>1, <3>3, <3>4, <3>5 DEF WellTyped
    <3>8. g.kind = form.kind /\ g.first = a /\ g.last = b /\ g.id = row.id /\ g.prefix = row.prefix
      BY <3>3 DEF WellTyped
    <3> QED
      BY <2>1, <2>2, <3>4, <3>6, <3>7, <3>8
  <2>4. \/ stage' = "done" /\ UNCHANGED <<form, onServer, row>>
        \/ stage' = "agent" /\ form' = normalizeLease(f) /\ UNCHANGED <<onServer, row>>
    BY <1>4 DEF BackendUpdates
  <2> HIDE DEF f
  <2>5. CASE stage' = "done" /\ UNCHANGED <<form, onServer, row>>
    BY <2>5 DEF FormInv, FormTyped, Editing, PatchIsExact
  <2>6. CASE stage' = "agent" /\ form' = normalizeLease(f) /\ UNCHANGED <<onServer, row>>
    <3>1. /\ form' \in WellTyped /\ Normal(form') /\ form'.kind = "update"
          /\ form'.first # Blank /\ form'.last # Blank
          /\ form'.id = onServer.id /\ form'.prefix = onServer.prefix
      BY <2>3, <2>6, LeaseNormalised
    <3> QED
      BY <2>1, <2>6, <3>1 DEF FormInv, FormTyped, Editing, PatchIsExact
  <2> QED
    BY <2>4, <2>5, <2>6
<1> QED
  BY <1>2, <1>3, <1>4

\* The Agent creates a scope that can be used, with or without its router.
LEMMA AgentCreatesUsable ==
    ASSUME FormInv, AgentCreates
    PROVE  FormInv'
<1>1. /\ form \in WellTyped /\ FormTyped /\ stage = "agent" /\ form.kind = "create"
      /\ form.first # Blank /\ form.last # Blank
  BY DEF FormInv, FormTyped, AgentCreates
<1>2. ASSUME Fail PROVE FormInv'
  BY <1>2 DEF Fail, FormInv, FormTyped, Editing, PatchIsExact
<1>3. ASSUME ~Fail PROVE FormInv'
  <2> DEFINE p == form.prefix
             s == Added(form)
             t == [s EXCEPT !.gateway = form.gateway]
             u == [t EXCEPT !.secs = form.secs]
             n == Network(form.first, p)
  <2>1. /\ form.first \in Int /\ form.last \in Int /\ form.gateway \in Int /\ p \in 0..Width
        /\ form.id \in Int /\ form.secs \in Int /\ n \in Int /\ Day * Hour \in Int
        /\ TrimSpace(form.label) \in Labels
    <3>1. /\ form.first \in Int /\ form.last \in Int /\ form.gateway \in Int /\ p \in 0..Width
          /\ form.id \in Int /\ form.secs \in Int /\ form.label \in Labels
      BY <1>1 DEF WellTyped, Bounds
    <3>2. Day * Hour \in Int
      BY NumbersAssumption
    <3>3. TrimSpace(form.label) \in Labels
      BY <3>1 DEF TrimSpace, Labels
    <3> QED
      BY <3>1, <3>2, <3>3, NetworkOf
  <2>2. /\ Network(form.last, p) = n /\ Network(form.id, p) = n /\ form.first <= form.last
        /\ Network(form.gateway, p) = n
        /\ form.gateway # n /\ form.gateway # n + 2^(Width - p) - 1
    BY <1>3 DEF AgentCreates, normalizeScope, validateIPv4RangeInScope, validateIPv4InScope,
                Broadcast
  <2>3. /\ s.id = n /\ s.prefix = p /\ s.first = form.first /\ s.last = form.last
        /\ s.gateway = Blank /\ s \in Scopes
        /\ t.id = n /\ t.prefix = p /\ t.first = form.first /\ t.last = form.last
        /\ t.gateway = form.gateway /\ t \in Scopes
        /\ u.id = n /\ u.prefix = p /\ u.first = form.first /\ u.last = form.last
        /\ u.gateway = form.gateway /\ u \in Scopes
    BY <2>1 DEF Added, Scopes, States
  <2>4. \A x \in {s, t, u} : RangeUsable(x) /\ RouterUsable(x)
    BY <2>2, <2>3, CheckedRange, CheckedRouter
  <2>5. s # Blank /\ t # Blank /\ u # Blank
    BY <2>3, BlankAssumption
  <2>6. /\ UNCHANGED <<form, row>>
        /\ \/ form.id = s.id /\ onServer' = u /\ stage' = "save"
           \/ onServer' \in {s, t} /\ stage' = "failed"
    BY <1>3 DEF AgentCreates, ScopeID
  <2>7. form.id = s.id => u = Asked(form)
    <3>1. u = [id |-> n, prefix |-> p, first |-> form.first, last |-> form.last,
               secs |-> form.secs, gateway |-> form.gateway, label |-> TrimSpace(form.label),
               state |-> "Active"]
      <4> DEFINE lease == IF form.secs = -1 THEN Day * Hour ELSE form.secs
      <4>1. s = [id |-> n, prefix |-> p, first |-> form.first, last |-> form.last,
                 secs |-> lease, gateway |-> Blank, label |-> TrimSpace(form.label),
                 state |-> "Active"]
        BY DEF Added
      <4>2. /\ u.id = n /\ u.prefix = p /\ u.first = form.first /\ u.last = form.last
            /\ u.secs = form.secs /\ u.gateway = form.gateway
            /\ u.label = TrimSpace(form.label) /\ u.state = "Active"
        BY <4>1
      <4> HIDE DEF u
      <4>3. u = [id |-> u.id, prefix |-> u.prefix, first |-> u.first, last |-> u.last,
                 secs |-> u.secs, gateway |-> u.gateway, label |-> u.label, state |-> u.state]
        BY <2>3 DEF Scopes
      <4> QED
        BY <4>2, <4>3
    <3>2. form.id = n => Asked(form) =
              [id |-> n, prefix |-> p, first |-> form.first, last |-> form.last,
               secs |-> form.secs, gateway |-> form.gateway, label |-> TrimSpace(form.label),
               state |-> "Active"]
      BY <1>1 DEF Asked
    <3>3. s.id = n
      BY DEF Added
    <3> HIDE DEF s, t, u, n, p
    <3> QED
      BY <3>1, <3>2, <3>3
  <2> HIDE DEF s, t, u, n, p
  <2>8. CASE form.id = s.id /\ onServer' = u /\ stage' = "save"
    BY <1>1, <2>3, <2>4, <2>5, <2>6, <2>7, <2>8
       DEF FormInv, FormTyped, Editing, PatchIsExact, Asked
  <2>9. CASE onServer' \in {s, t} /\ stage' = "failed"
    BY <1>1, <2>3, <2>4, <2>5, <2>6, <2>9 DEF FormInv, FormTyped, Editing, PatchIsExact
  <2> QED
    BY <2>6, <2>8, <2>9
<1> QED
  BY <1>2, <1>3

\* After the Agent's change the scope has every field of the form; when a
\* statement has failed, its router is the old one.
LEMMA AgentUpdatesUsable ==
    ASSUME FormInv, AgentUpdates
    PROVE  FormInv'
<1>1. /\ form \in WellTyped /\ FormTyped /\ stage = "agent" /\ form.kind = "update"
      /\ form.first # Blank /\ form.last # Blank
      /\ onServer # Blank /\ onServer \in Scopes /\ RouterUsable(onServer)
      /\ Network(onServer.id, onServer.prefix) = onServer.id /\ row = Read(onServer)
      /\ TrimSpace(onServer.label) = onServer.label
      /\ form.id = onServer.id /\ form.prefix = onServer.prefix
  BY DEF FormInv, FormTyped, Editing, AgentUpdates
<1>2. ASSUME Fail PROVE FormInv'
  BY <1>2 DEF Fail, FormInv, FormTyped, Editing, PatchIsExact
<1>3. ASSUME ~Fail PROVE FormInv'
  <2> DEFINE changed == dhcpScopeChangedFields(row, form)
             endless == "lease" \in changed /\ form.secs = -1
             s == SetScope(changed)
             t == [s EXCEPT !.secs = IF endless THEN -1 ELSE @]
             u == [t EXCEPT !.gateway = IF "gateway" \in changed THEN form.gateway ELSE @]
  <2>1. /\ validateIPv4InScope(form)
        /\ "state" \in changed => form.state \in States
        /\ \/ onServer' \in {s, t} /\ stage' = "failed"
           \/ onServer' = u /\ stage' = "save"
        /\ UNCHANGED <<form, row>>
    BY <1>3 DEF AgentUpdates, normalizeScopeUpdate
  <2>2. /\ row.first = onServer.first /\ row.last = onServer.last /\ row.secs = onServer.secs
        /\ row.gateway = onServer.gateway /\ row.label = onServer.label /\ row.state = onServer.state
    BY <1>1 DEF Read
  <2>3. /\ "range" \notin changed => form.first = onServer.first /\ form.last = onServer.last
        /\ "lease" \notin changed => form.secs = onServer.secs
        /\ "gateway" \notin changed => form.gateway = onServer.gateway
        /\ "state" \notin changed => form.state = onServer.state
        /\ "label" \notin changed => TrimSpace(form.label) = onServer.label
    BY <1>1, <2>2 DEF dhcpScopeChangedFields
  <2>4. /\ form.first \in Int /\ form.last \in Int /\ form.secs \in Int
        /\ form.gateway \in Int /\ TrimSpace(form.label) \in Labels
    BY <1>1 DEF WellTyped, Bounds, Labels, TrimSpace
  <2>5. s \in Scopes /\ t \in Scopes /\ u \in Scopes
    <3>1. s \in Scopes
      BY <1>1, <2>1, <2>4 DEF Scopes, SetScope
    <3> HIDE DEF s
    <3> QED
      BY <2>4, <3>1 DEF Scopes
  <2>6. /\ s.id = onServer.id /\ s.prefix = onServer.prefix /\ s.gateway = onServer.gateway
        /\ t.id = onServer.id /\ t.prefix = onServer.prefix /\ t.gateway = onServer.gateway
    BY <1>1 DEF Scopes, SetScope
  <2>7. /\ u.id = form.id /\ u.prefix = form.prefix /\ u.first = form.first /\ u.last = form.last
        /\ u.secs = form.secs /\ u.gateway = form.gateway /\ u.label = TrimSpace(form.label)
        /\ u.state = form.state
    BY <1>1, <2>3 DEF Scopes, SetScope
  <2>8. u = Asked(form)
    <3> HIDE DEF u
    <3>1. u = [id |-> u.id, prefix |-> u.prefix, first |-> u.first, last |-> u.last,
               secs |-> u.secs, gateway |-> u.gateway, label |-> u.label, state |-> u.state]
      BY <2>5 DEF Scopes
    <3> QED
      BY <1>1, <2>7, <3>1 DEF Asked
  <2> HIDE DEF changed, endless, s, t, u
  <2>9. RouterUsable(s) /\ RouterUsable(t)
    BY <1>1, <2>6 DEF RouterUsable
  <2>10. RouterUsable(u)
    <3>1. /\ Network(u.gateway, u.prefix) = u.id
          /\ u.gateway # u.id /\ u.gateway # u.id + 2^(Width - u.prefix) - 1
      BY <1>1, <2>1, <2>7 DEF validateIPv4InScope, Broadcast
    <3> QED
      BY <2>5, <3>1, CheckedRouter
  <2>11. s # Blank /\ t # Blank /\ u # Blank
    BY <2>5, BlankAssumption
  <2>12. FormTyped'
    BY <1>1, <2>1 DEF FormTyped
  <2>13. CASE onServer' \in {s, t} /\ stage' = "failed"
    <3>1. Editing'
      BY <1>1, <2>1, <2>6, <2>11, <2>13 DEF Editing
    <3> QED
      BY <1>1, <2>1, <2>5, <2>9, <2>12, <2>13, <3>1 DEF FormInv, PatchIsExact
  <2>14. CASE onServer' = u /\ stage' = "save"
    <3>1. Editing'
      BY <1>1, <2>1, <2>7, <2>11, <2>14 DEF Editing
    <3>2. Asked(form)' = Asked(form)
      BY <2>1 DEF Asked
    <3> QED
      BY <1>1, <2>1, <2>5, <2>8, <2>10, <2>12, <2>14, <3>1, <3>2 DEF FormInv, PatchIsExact
  <2> QED
    BY <2>1, <2>13, <2>14
<1> QED
  BY <1>2, <1>3

\* What is stored is what the server holds, but for what is stored as typed.
LEMMA SaveExact ==
    ASSUME FormInv, Save
    PROVE  FormInv'
<1>1. /\ form \in WellTyped /\ FormTyped /\ Normal(form) /\ onServer = Asked(form)
      /\ stage = "save" /\ stage' = "saved" /\ UNCHANGED <<form, onServer>>
      /\ form.kind \in {"create", "update"} /\ form.first # Blank /\ form.last # Blank
      /\ form.kind = "update" => onServer \in Scopes
  BY DEF FormInv, FormTyped, Editing, Save
<1> DEFINE kept == IF form.state = Blank THEN "Active" ELSE form.state
<1>2. row' = [id |-> form.id, prefix |-> form.prefix, first |-> form.first, last |-> form.last,
              secs |-> form.secs, hours |-> form.hours, gateway |-> form.gateway,
              label |-> form.label, state |-> kept]
  <2>1. normalizeScopeLeaseDuration(form) = form
    BY <1>1, LeaseStays
  <2> QED
    BY <2>1 DEF Save
<1>3. form.hours = IF form.secs > 0 THEN form.hours ELSE 0
  <2>1. ~(-1 > 0)
    OBVIOUS
  <2> QED
    BY <1>1, <2>1 DEF Normal
<1>4. form.kind = "update" => kept = form.state /\ Asked(form).state = form.state
  <2>1. ASSUME form.kind = "update" PROVE form.state # Blank /\ Asked(form).state = form.state
    <3>1. Asked(form).state = form.state /\ Asked(form) \in Scopes
      BY <1>1, <2>1 DEF Asked
    <3> QED
      BY <3>1, BlankAssumption DEF Scopes
  <2> QED
    BY <2>1
<1> HIDE DEF kept
<1>5. PatchIsExact'
  <2> DEFINE read == Read(onServer)
  <2>1. /\ read = [id |-> form.id, prefix |-> form.prefix, first |-> form.first, last |-> form.last,
                   secs |-> form.secs, hours |-> read.hours, gateway |-> form.gateway,
                   label |-> TrimSpace(form.label), state |-> Asked(form).state]
    BY <1>1 DEF Read, Asked
  <2>2. read' = read
    BY <1>1 DEF Read
  <2>3. row'.label = form.label /\ row'.state = kept
    BY <1>2
  <2> HIDE DEF read
  <2>4. /\ \A k \in {"id", "prefix", "first", "last", "secs", "gateway"} : row'[k] = read[k]
        /\ row'.hours = IF form.secs > 0 THEN form.hours ELSE 0
        /\ form.kind = "update" => row'.state = read.state
    BY <1>2, <1>3, <1>4, <2>1, <2>3
  <2>5. TrimSpace(row'.label) = read.label
    BY <2>1, <2>3
  <2> QED
    BY <1>1, <2>2, <2>4, <2>5 DEF PatchIsExact, read, TrimSpace
<1>6. FormTyped'
  BY <1>1 DEF FormTyped
<1> QED
  BY <1>1, <1>5, <1>6 DEF FormInv, Editing, Asked

\* No step of a request breaks the invariant.
LEMMA FormKeeps == FormInv /\ [FormNext]_formVars => FormInv'
<1>1. ASSUME FormInv, Refresh PROVE FormInv'
  BY <1>1 DEF Refresh, FormInv, FormTyped, Editing, PatchIsExact
<1>2. ASSUME FormInv, UNCHANGED formVars PROVE FormInv'
  <2>1. UNCHANGED <<form, stage, onServer, row>>
    BY <1>2 DEF formVars
  <2>2. Read(onServer)' = Read(onServer) /\ Asked(form)' = Asked(form)
    BY <2>1 DEF Read, Asked
  <2>3. FormTyped' /\ Editing' /\ PatchIsExact'
    BY <1>2, <2>1, <2>2 DEF FormInv, FormTyped, Editing, PatchIsExact
  <2> QED
    BY <1>2, <2>1, <2>2, <2>3 DEF FormInv
<1> QED
  BY <1>1, <1>2, BackendKeeps, AgentCreatesUsable, AgentUpdatesUsable, SaveExact DEF FormNext

\* Whatever the forms, the width of an address, the lease and the statements
\* that fail, a scope that was created leases addresses of its own subnet, and
\* a scope on the server names a router that can have its address.
THEOREM ScopesStayUsable == FormSpec => []ScopeUsable
<1>1. ASSUME FormInv, onServer # Blank
      PROVE  LET size == 2^(Width - onServer.prefix)
                 subnet == {onServer.id + k : k \in 0..(size - 1)} IN
             /\ form.kind = "create" => /\ onServer.first..onServer.last # {}
                                        /\ onServer.first..onServer.last \subseteq subnet
             /\ onServer.gateway \in {Blank} \cup {onServer.id + k : k \in 1..(size - 2)}
  <2> DEFINE size == 2^(Width - onServer.prefix)
  <2>1. /\ onServer.id \in Int /\ onServer.first \in Int /\ onServer.last \in Int
        /\ onServer.gateway # Blank => onServer.gateway \in Int
        /\ onServer.prefix \in 0..Width
    BY <1>1 DEF FormInv, Scopes
  <2>2. size \in Nat
    BY <2>1, SizeOf
  <2>3. /\ form.kind = "create" => /\ onServer.first <= onServer.last /\ onServer.id <= onServer.first
                                   /\ onServer.last < onServer.id + size
        /\ onServer.gateway # Blank => /\ onServer.id < onServer.gateway
                                       /\ onServer.gateway < onServer.id + size - 1
    BY <1>1 DEF FormInv, RangeUsable, RouterUsable, InSubnet
  <2> HIDE DEF size
  <2>4. form.kind = "create" => onServer.first \in onServer.first..onServer.last
    BY <2>1, <2>3
  <2>5. ASSUME form.kind = "create", NEW x \in onServer.first..onServer.last
        PROVE  x \in {onServer.id + k : k \in 0..(size - 1)}
    <3>1. x - onServer.id \in 0..(size - 1) /\ x = onServer.id + (x - onServer.id)
      BY <2>1, <2>2, <2>3, <2>5
    <3> QED
      BY <3>1
  <2>6. ASSUME onServer.gateway # Blank
        PROVE  onServer.gateway \in {onServer.id + k : k \in 1..(size - 2)}
    <3>1. /\ onServer.gateway - onServer.id \in 1..(size - 2)
          /\ onServer.gateway = onServer.id + (onServer.gateway - onServer.id)
      BY <2>1, <2>2, <2>3, <2>6
    <3> QED
      BY <3>1
  <2> QED
    BY <2>4, <2>5, <2>6 DEF size
<1>2. FormInv => ScopeUsable
  BY <1>1 DEF ScopeUsable
<1> QED
  BY <1>2, FormStarts, FormKeeps, PTL DEF FormSpec

\* What the handler stores after the Agent's success is what the server holds,
\* but for the hours, the blanks and the state that PatchIsExact names.
THEOREM StoredIsHeld == FormSpec => []PatchIsExact
<1>1. FormInv => PatchIsExact
  BY DEF FormInv
<1> QED
  BY <1>1, FormStarts, FormKeeps, PTL DEF FormSpec
=============================================================================
