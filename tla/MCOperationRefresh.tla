------------------------- MODULE MCOperationRefresh -------------------------
(***************************************************************************)
(* Instances of OperationRefresh for TLC.                                  *)
(***************************************************************************)
EXTENDS OperationRefresh, TLC

CONSTANTS i1, i2, z1, r1, c1, o1, o2, o3, f1, f2

MCReverse == [k \in Targets |-> IF k = z1 /\ r1 \in Zones THEN {r1} ELSE {}]

\* Instances, operations and fires are interchangeable.
Symmetry == Permutations(Instances) \cup Permutations(Ops) \cup Permutations(Fires)
=============================================================================
