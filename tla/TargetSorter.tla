---------------------------- MODULE TargetSorter ----------------------------
(* The dependency graph of a ruleset and its topological sort               *)
(* (resolver/target-sorter.c).  A graph is a record: its facts, its targets *)
(* and what each target depends on.  Nodes are numbered as node_id numbers   *)
(* them: facts first, then targets in the order they were created.          *)
EXTENDS Naturals, FiniteSets, SequencesExt

Nodes(g) == g.facts \union g.targets

(* An edge runs from a node to every target that depends on it. *)
DependsOn(g, n) == IF n \in g.targets THEN g.depends[n] ELSE {}

InOrder(S) == SetToSortSeq(S, <)

(* The diagonal of the edge matrix marks the nodes of the subgraph being     *)
(* sorted, so a target that depends on itself is marked from the start.      *)
SelfMarked(g) == {t \in g.targets : t \in g.depends[t]}

(* mark_present_nodes: what the target reaches; a marked node is not         *)
(* entered again.                                                            *)
Present(g, t) ==
    LET Mark(S, k) == S \union UNION {DependsOn(g, n) : n \in S \ SelfMarked(g)}
    IN  SelfMarked(g) \union FoldLeft(Mark, {t} \ SelfMarked(g), InOrder(Nodes(g)))

(* A ring of one slot per node: with all of them taken head meets tail, and  *)
(* the queue looks empty.                                                    *)
QuePush(g, q, n) == IF Len(q) + 1 = Cardinality(Nodes(g)) THEN <<>> ELSE Append(q, n)

(* mutant: only facts enter the queue, targets without dependencies do not *)
Roots_Facts(g, t) == Present(g, t) \intersect g.facts

(* Present facts and present targets without dependencies enter the queue.   *)
Roots(g, t) == {n \in Present(g, t) : DependsOn(g, n) = {}}

StartSort(g, t) ==
    LET Push(q, n) == QuePush(g, q, n)
    IN  [sorted  |-> <<>>,
         queue   |-> FoldLeft(Push, <<>>, InOrder(Roots(g, t))),
         present |-> Present(g, t) \ Roots(g, t)]

(* Nothing that is still marked points to the node. *)
NoEdgesTo(g, present, n) == DependsOn(g, n) \intersect (present \ {n}) = {}

(* One turn of the sorting loop: pop a node, push those it leaves without     *)
(* incoming edges.                                                           *)
SortStep(g, s) ==
    LET Offer(r, n) ==
            IF n \in r.present /\ NoEdgesTo(g, r.present, n)
            THEN [r EXCEPT !.queue = QuePush(g, @, n), !.present = @ \ {n}]
            ELSE r
    IN  IF s.queue = <<>> THEN s
        ELSE FoldLeft(Offer, [s EXCEPT !.sorted = Append(@, Head(s.queue)),
                                       !.queue = Tail(@)], InOrder(Nodes(g)))

(* sort_graph: the facts and the targets to check when the target is         *)
(* updated, or the news that the subgraph is cyclic.                         *)
SortGraph(g, t) ==
    LET Step(s, k) == SortStep(g, s)
        end        == FoldLeft(Step, StartSort(g, t), InOrder(Nodes(g)))
        nfact      == Cardinality({i \in DOMAIN end.sorted : end.sorted[i] \in g.facts})
    IN  [update_facts   |-> SubSeq(end.sorted, 1, nfact),
         update_targets |-> SubSeq(end.sorted, nfact + 1, Len(end.sorted)),
         looped         |-> \E n \in end.present : ~NoEdgesTo(g, end.present, n)]

SortTargets(g) == [t \in g.targets |-> SortGraph(g, t)]

Sortable(g) == \A t \in g.targets : ~SortGraph(g, t).looped

-----------------------------------------------------------------------------
(* The reference: what a node depends on, directly or not.                   *)
Reached(g, n) ==
    LET More(S, k) == S \union UNION {DependsOn(g, m) : m \in S}
    IN  FoldLeft(More, DependsOn(g, n), InOrder(Nodes(g)))

(* That it is the least set of nodes with everything they depend on.         *)
ReachedIsLeast(g, n) ==
    LET Full(S) == DependsOn(g, n) \subseteq S /\ \A m \in S : DependsOn(g, m) \subseteq S
    IN  /\ Full(Reached(g, n))
        /\ \A S \in SUBSET Nodes(g) : Full(S) => Reached(g, n) \subseteq S

Acyclic(g) == \A t \in g.targets : t \notin Reached(g, t)

(* An update order is right when it lists what the target reaches and, last,  *)
(* the target, each once and after what it depends on.                       *)
RightOrder(g, t, o) ==
    LET all == o.update_facts \o o.update_targets
    IN  /\ IsInjective(all)
        /\ ToSet(o.update_facts) = Reached(g, t) \intersect g.facts
        /\ ToSet(o.update_targets) = {t} \union (Reached(g, t) \intersect g.targets)
        /\ all[Len(all)] = t
        /\ \A i, j \in DOMAIN all : all[j] \in DependsOn(g, all[i]) => j < i
=============================================================================
