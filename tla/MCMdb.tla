-------------------------------- MODULE MCMdb --------------------------------
(***************************************************************************)
(* Instances of MdbTransactions for TLC.                                   *)
(***************************************************************************)
EXTENDS MdbTransactions

CONSTANTS t1, t2, k1, k2, v1, v2, r1, r2, r3, r4

Symmetry == Permutations(Rows)
=============================================================================
