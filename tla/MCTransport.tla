---------------------------- MODULE MCTransport ----------------------------
(***************************************************************************)
(* A listening transport, a connection it accepts and one that is made     *)
(* from here.                                                              *)
(***************************************************************************)
EXTENDS Transport

CONSTANTS t1, t2
=============================================================================
