------------------------------- MODULE MCDNS -------------------------------
(***************************************************************************)
(* DNSSnapshot, DNSNames and ScopeForm for TLC.  They share no state, so a *)
(* behaviour is one of one of them.                                        *)
(***************************************************************************)
EXTENDS MCDNSSnapshot, DNSNames, ScopeForm

\* 10.in-addr.arpa to 10.0.0 in small octets, and a zone that is not synchronised.
MCReverseZones == {<<1>>, <<0, 1>>, <<0, 0, 1>>, <<1, 0, 1>>, <<0>>}
NoNames == [addresses |-> {}, names |-> {}]
MCNameBudgets ==
    { NoNames, [addresses |-> {<<1, 0, 0, 1>>, <<1, 0, 1, 0>>, <<1, 1, 0, 0>>},
                names |-> {<<>>, <<1>>, <<0, 1>>}] }

\* Forms to create or edit a scope: every address, every lease, every label and state.
Label(w, b) == [words |-> w, blanks |-> b]
Form(k, c, p, a, b, g, s, h, t, l, st) ==
    [kind |-> k, id |-> c, prefix |-> p, first |-> a, last |-> b, gateway |-> g,
     secs |-> s, hours |-> h, tidy |-> t, label |-> l, state |-> st]
NoForm == Form("none", 0, 0, 0, 0, 0, 0, 0, TRUE, OldLabel, Blank)
AnyAddress == { Form("create", c, p, a, b, g, Hour, 1, TRUE, OldLabel, "Active") :
                    c, a, b, g \in IPv4, p \in 0..Width }
AnyLease == { Form("create", 0, 1, 1, 2, 1, s, h, t, OldLabel, "Active") :
                  s \in -2..5, h \in -1..2, t \in BOOLEAN }
AnyUpdate == { Form("update", 4, 1, a, b, g, s, h, TRUE, OldLabel, Blank) :
                   a, b \in IPv4 \cup {Blank}, g \in IPv4, s \in {-1, 0, Hour, 3}, h \in 0..2 }
AnyText == { Form(k, 4, 1, 5, 6, g, Hour, 1, TRUE, Label(w, b), st) :
                 k \in {"create", "update"}, g \in {5, 6}, w \in {0, 1}, b \in {0, 1},
                 st \in States \cup {Blank, "Paused"} }
MCForms == {NoForm} \cup AnyAddress \cup AnyLease \cup AnyUpdate \cup AnyText

Quiet == [start |-> {Both({}, {})}, recs |-> {}, kinds |-> {}, ops |-> {}, manual |-> FALSE,
          syncs |-> FALSE, faults |-> 0]
DNSInit ==
    /\ FormInit
    /\ form # NoForm => scenario = Quiet /\ coming = NoNames
    /\ Init /\ NmInit
    /\ coming = NoNames \/ scenario.ops = {}
DNSNext ==
    \/ Next /\ UNCHANGED <<nmVars, formVars>>
    \/ NmNext /\ UNCHANGED <<vars, formVars>>
    \/ FormNext /\ UNCHANGED <<vars, nmVars>>
DNSSpec == DNSInit /\ [][DNSNext]_<<vars, nmVars, formVars>>

MCWithQuiet == MCScenarios \cup {Quiet}
=============================================================================
