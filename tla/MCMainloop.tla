------------------------------ MODULE MCMainloop ------------------------------
(***************************************************************************)
(* Instances of Mainloop for TLC.  An application uses one of a few mixes  *)
(* of objects, so that the cases of one kind of object are not multiplied  *)
(* by those of all the others.                                             *)
(***************************************************************************)
EXTENDS Mainloop

CONSTANTS t1, t2, d1, d2, d3, w1, w2, w3, k1, s1, f1, f2

Reading == {"in", "rdhup"}
Writing == {"out"}
BothWays == {Reading, Writing}
ReadOnly == {Reading}

KernelEvents == {{"in"}, {"out"}, {"in", "out"}, {"in", "rdhup"}, {"hup"}}

AllMixes == {{t1, t2, d1}, {t1, k1}, {d1, d2, t1}, {w1, w2, w3, f1}, {w1, w2, f1, f2},
             {w1, f1, t1}, {w1, f1, d1}, {k1, s1, d1}, {s1, t1}}
=============================================================================
