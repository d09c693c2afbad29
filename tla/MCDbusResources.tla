---------------------------- MODULE MCDbusResources ----------------------------
(***************************************************************************)
(* One client on the bus with two sets.                         *)
(***************************************************************************)
EXTENDS DbusResources

CONSTANTS c1, c2, play, rec, odd
=============================================================================
