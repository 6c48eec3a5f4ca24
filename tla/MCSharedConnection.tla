------------------------- MODULE MCSharedConnection -------------------------
(* A small instance of SharedConnection for TLC. *)
EXTENDS SharedConnection, TLC

CONSTANTS t1, t2, t3, s1, s2

(* Two conversations hash to one stripe, the third to another. *)
TwoStripes == [t \in Tasks |-> IF t = t3 THEN s2 ELSE s1]

TaskSymmetry == Permutations({t1, t2})
=============================================================================
