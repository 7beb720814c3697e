--------------------------- MODULE MCDHCPSnapshot ---------------------------
(***************************************************************************)
(* Instances of DHCPSnapshot for TLC.                                      *)
(***************************************************************************)
EXTENDS DHCPSnapshot, TLC

CONSTANTS s1, s2, i1, w1, w2, o1, o2

Empty == [state |-> 1, items |-> NoItems]
Full == [state |-> 1, items |-> [i \in Items |-> 1]]
Old == [state |-> 2, items |-> [i \in Items |-> 2]]

OnlyFull == {Full}
FullOrNone == {Full, None}
AnySnap == {Empty, Old, None}
DeleteOnly == {"deleteScope"}

\* With one scope AgreesUnlessExcused says nothing once the scope is excused,
\* and a scope stays excused: such states need no successors.
Expected == excused = {}

Symmetry == Permutations(Ops)
=============================================================================
