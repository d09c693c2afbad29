----------------------------- MODULE MCResolver -----------------------------
(* Small rulesets for the resolver, for TLC.                                 *)
EXTENDS Resolver

Graphs(F, T) ==
    {[facts |-> F, targets |-> T, depends |-> d] :
        d \in {e \in [T -> SUBSET (F \union T)] : \A t \in T : t \notin e[t]}}

(* Every ruleset in which no target depends on itself, the cyclic ones        *)
(* included, of two facts and two targets, and of one fact and three targets. *)
Small == Graphs(1..2, 3..4) \union Graphs({1}, 3..5)

=============================================================================
