--------------------------- MODULE MCDNSSnapshot ---------------------------
(***************************************************************************)
(* Instances of DNSSnapshot for TLC.                                       *)
(***************************************************************************)
EXTENDS DNSSnapshot, TLC

CONSTANTS h1, h2, a1, a2, c1, o1, o2

Both(f, r) == [F |-> f, R |-> r]
Scenario(i, recs, k, os, m, s, f) ==
    [start |-> i, recs |-> recs, kinds |-> k, ops |-> os, manual |-> m, syncs |-> s, faults |-> f]
\* Two addresses of one host, with and without PTR records.
Host == {<<h1, a1>>, <<h1, a2>>}
OneHost == {Both({<<h1, a1>>}, {<<h1, a1>>}), Both({<<h1, a1>>}, {}),
            Both(Host, {<<h1, a1>>}), Both({<<h1, a1>>}, None)}
\* Two hosts with one address.
Address == {<<h1, a1>>, <<h2, a1>>}
OneAddress == {Both({<<h1, a1>>}, Address), Both(Address, {<<h2, a1>>})}
\* An alias and a host of the same name.
Name == {<<h1, a1>>, <<h1, c1>>}
OneName == {Both({<<h1, c1>>}, {<<h1, a1>>}), Both({<<h1, a1>>}, {<<h1, a1>>})}

MCScenarios == {
    Scenario(OneHost, Host, RecordKinds, Ops, FALSE, FALSE, 1),
    Scenario(OneAddress, Address, RecordKinds, Ops, FALSE, FALSE, 1),
    Scenario(OneName, Name, {"create", "delete", "update"}, Ops, FALSE, FALSE, 1),
    Scenario(OneHost, Host, AllKinds, Ops, FALSE, FALSE, 0),
    Scenario(OneAddress, Address, {"delete", "update"}, Ops, TRUE, FALSE, 0),
    Scenario(OneHost, Host, AllKinds, {o1}, FALSE, TRUE, 1),
    Scenario(OneHost, Host, AllKinds, {o1}, TRUE, FALSE, 1),
    Scenario({Both({<<h1, a1>>}, {<<h1, a1>>})}, Host, {"delete", "deleteZone"}, {o1}, TRUE, TRUE, 0)}

\* A retried deletion of one of two addresses.
MCTwoAddresses == { Scenario({Both(Host, {})}, Host, {"delete"}, Ops, FALSE, FALSE, 0) }

\* A zone stays excused, and FlagsAgree says nothing from then on: such states
\* need no successors.
Expected == excused = {}
Symmetry == Permutations(Ops)
=============================================================================
