----------------------------- MODULE MCTableWatch -----------------------------
(***************************************************************************)
(* Instances of TableWatch for TLC: one proxy watches one table.           *)
(***************************************************************************)
EXTENDS TableWatch

CONSTANTS t1, k1, v1, v2, r1, r2, r3, p1

WatchAll == [p \in Proxies |-> Tables]
=============================================================================
