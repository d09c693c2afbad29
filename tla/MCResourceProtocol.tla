------------------------- MODULE MCResourceProtocol -------------------------
(***************************************************************************)
(* The protocol on small instances, one connection at a time: c1 makes     *)
(* many requests about one set and may break off at any moment, c2 has two *)
(* sets, and c3 asks for a class the server does not know.  The other      *)
(* front ends, which take resources and give them back, are always there.  *)
(***************************************************************************)
EXTENDS ResourceProtocol, TLC

CONSTANTS c1, c2, c3, s1, s2, s3, s4

Owners   == s1 :> c1 @@ s2 :> c2 @@ s3 :> c2 @@ s4 :> c3
Requests == c1 :> 4 @@ c2 :> 2 @@ c3 :> 2
Copies   == [s \in Sets |-> IF s = s1 THEN 2 ELSE 1]
OneByOne == {{c1}, {c2}, {c3}}
=============================================================================
