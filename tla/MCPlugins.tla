------------------------------- MODULE MCPlugins -------------------------------
(***************************************************************************)
(* Two descriptors: lib exports a method; app, a singleton, imports it,    *)
(* once from anybody and once from the instance n1.                        *)
(***************************************************************************)
EXTENDS Plugins, TLC

CONSTANTS c1, c2, c3, lib, app, n1, n2, n3, m1, w1, w2

MCPlans   == {<<lib, n1>>, <<lib, n3>>, <<app, n2>>, <<app, n3>>}
MCExports == lib :> <<m1>> @@ app :> <<>>
MCImports == lib :> <<>> @@ app :> <<[from |-> None, name |-> m1], [from |-> n1, name |-> m1]>>
MCMask    == w1 :> {"loaded"} @@ w2 :> {"started", "stopped"}
Symmetry == Permutations(Cells)
=============================================================================
