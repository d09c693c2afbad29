--------------------------- MODULE ResolverProofs ---------------------------
(***************************************************************************)
(* What the resolver keeps, for any rulesets that sort right, any numbers  *)
(* of changes and customary habits: what is stale is known by the stamps,  *)
(* has an update coming, and that update leaves nothing behind             *)
(* (StaleIsKnown).                                                         *)
(***************************************************************************)
EXTENDS Resolver, SequenceTheorems, FiniteSetTheorems, TLAPS

Entries == [stamp : Nat, version : Nat]

Logs == UNION {[D -> Entries] : D \in SUBSET Facts}

Transactions == [log : Logs, inner : BOOLEAN]

(* What the tables were before what a log tells of. *)
StampsBefore(log, st) == Over([f \in DOMAIN log |-> log[f].stamp], st)

VersionsBefore(log, ver) == Over([f \in DOMAIN log |-> log[f].version], ver)

(* What an accepted and sorted ruleset gives an update to rely on.            *)
Shape ==
    /\ loaded.facts \subseteq Facts
    /\ loaded.facts \intersect loaded.targets = {}
    /\ DOMAIN order = loaded.targets /\ AutoTarget \in loaded.targets
    /\ \A t \in loaded.targets :
          /\ order[t].update_targets \in Seq(loaded.targets)
          /\ FactsOf(t) \subseteq loaded.facts
          /\ t \in Checked(t)
          /\ \A d \in Checked(t) : Checked(d) \subseteq Checked(t) /\ FactsOf(d) \subseteq FactsOf(t)
          /\ DependsOn(loaded, t) \ loaded.facts \subseteq Checked(t) \ {t, AutoTarget}
          /\ FactsOf(t) # {} => t \in Checked(AutoTarget)
          /\ AutoTarget \in Checked(t) => t = AutoTarget
          /\ \A i, j \in DOMAIN order[t].update_targets :
                order[t].update_targets[j] \in Checked(order[t].update_targets[i]) => j <= i

(* Stamps and contents, of n there have been, that fit what targets remember  *)
(* of them: nobody remembers what has not been, what differs is newer, and no *)
(* target remembers less than those that depend on it.                        *)
Fit(n, st, ver, fs, sn) ==
    /\ st \in [Facts -> 1..(n + 1)]
    /\ ver \in [Facts -> 0..n]
    /\ fs \in [DOMAIN order -> [Facts -> Nat]]
    /\ sn \in [DOMAIN order -> [Facts -> 0..n]]
    /\ \A t \in DOMAIN order : \A f \in Facts : fs[t][f] <= st[f]
    /\ \A t \in DOMAIN order : \A f \in FactsOf(t) : ver[f] # sn[t][f] => st[f] > fs[t][f]
    /\ \A t \in DOMAIN order : \A d \in DependsOn(loaded, t) \ loaded.facts :
          \A f \in FactsOf(d) : fs[t][f] <= fs[d][f]

(* A target has not seen the contents ver of a table that matters to it.      *)
Behind(t, ver, sn) == \E f \in FactsOf(t) : ver[f] # sn[t][f]

(* The contents with every open transaction of the application undone.        *)
Original ==
    [f \in Facts |->
        IF txs # <<>> /\ f \in DOMAIN txs[1].log THEN txs[1].log[f].version
        ELSE IF Len(txs) = 2 /\ f \in DOMAIN txs[2].log THEN txs[2].log[f].version
        ELSE version[f]]

(* No target has seen the tables S by their stamps.                           *)
IsNews(S, st, fs) == \A t \in DOMAIN order : \A f \in S : st[f] > fs[t][f]

TransactionsFit ==
    /\ txs \in Seq(Transactions) /\ Len(txs) <= 2
    /\ \A i \in DOMAIN txs :
          /\ DOMAIN txs[i].log \subseteq loaded.facts
          /\ Fit(changes, StampsBefore(txs[i].log, stamp), VersionsBefore(txs[i].log, version),
                 factStamps, seen)
          /\ IsNews(DOMAIN txs[i].log, stamp, factStamps)
          /\ txs[i].inner => txs[i].log # <<>>
    /\ Len(txs) = 2 =>
          /\ ~txs[2].inner
          /\ txs[2].log # <<>> => txs[1].log # <<>>
          /\ DOMAIN txs[1].log \intersect DOMAIN txs[2].log = {}

(* Between updates, what a target did not know before the open transactions   *)
(* has an update coming, or it would not be rolled back.                      *)
PendingIsScheduled ==
    \A t \in DOMAIN order \ {AutoTarget} :
        Behind(t, Original, seen) => scheduled \/ gaveUp \/ (txs # <<>> /\ txs[1].inner)

(* What an update u still has to visit, and which of it to update.            *)
Todo(u, t) == \E k \in u.at..Len(order[u.target].update_targets) :
                 order[u.target].update_targets[k] = t

Older(t, st, fs) == FactsOf(t) = {} \/ \E f \in FactsOf(t) : st[f] > fs[t][f]

Wants(u, t, st, fs) == IF t = u.target THEN u.needs_update ELSE Older(t, st, fs)

(* An update u of which no script failed: who has been visited is up to date, *)
(* who is behind will be visited, or the end of the update is an event, the   *)
(* dependents of who was updated have been updated or will be, and what was   *)
(* written has been seen by nobody but those visited.                         *)
GoesWell(u, st, ver, fs, sn, coming) ==
    /\ \A t \in DOMAIN order \ {AutoTarget} :
          Behind(t, ver, sn) => coming \/ u.log # <<>> \/ Todo(u, t)
    /\ ~u.needs_update => ~Older(u.target, st, fs)
    /\ \A k \in 1..(u.at - 1) : \A t \in loaded.targets \ {AutoTarget} :
          t = order[u.target].update_targets[k] => \A f \in FactsOf(t) : fs[t][f] >= st[f]
    /\ \A i \in DOMAIN u.ran : \A t \in Checked(u.target) :
          u.ran[i] \in DependsOn(loaded, t) =>
              \/ \E j \in DOMAIN u.ran : j > i /\ u.ran[j] = t
              \/ Todo(u, t) /\ Wants(u, t, st, fs)
    /\ \A f \in DOMAIN u.log : \A t \in DOMAIN order :
          st[f] > fs[t][f] \/ \E k \in 1..(u.at - 1) : order[u.target].update_targets[k] = t

Updates(t) ==
    [target : {t}, at : 1..(Len(order[t].update_targets) + 1),
     needs_update : BOOLEAN, ok : BOOLEAN, log : Logs, ran : Seq(Checked(t)),
     fact_stamps : [Checked(t) -> [Facts -> Nat]], seen : [Checked(t) -> [Facts -> Nat]]]

(* An update u that can be undone.                                            *)
CanFail(u, n, st, ver, fs, sn) ==
    /\ u.target \in loaded.targets
    /\ u \in Updates(u.target)
    /\ DOMAIN u.log \subseteq loaded.facts
    /\ Fit(n, StampsBefore(u.log, st), VersionsBefore(u.log, ver),
           Over(u.fact_stamps, fs), Over(u.seen, sn))

Inv ==
    /\ Running => Shape
    /\ txs # <<>> \/ update # NoUpdate \/ scheduled => Anchored
    /\ scheduled \in BOOLEAN /\ gaveUp \in BOOLEAN
    /\ changes \in 0..MaxChanges
    /\ Fit(changes, stamp, version, factStamps, seen)
    /\ TransactionsFit
    /\ update = NoUpdate => PendingIsScheduled
    /\ update # NoUpdate =>
          /\ txs = <<>>
          /\ CanFail(update, changes, stamp, version, factStamps, seen)
          /\ update.ok => GoesWell(update, stamp, version, factStamps, seen, scheduled \/ gaveUp)

-----------------------------------------------------------------------------
(* Rulesets and their order *)

LEMMA AutoGraph ==
    ASSUME NEW g \in Rulesets
    PROVE  /\ WithAuto(g).facts = g.facts
           /\ WithAuto(g).targets = g.targets \union {AutoTarget}
           /\ \A t \in g.targets : DependsOn(WithAuto(g), t) = g.depends[t]
           /\ DependsOn(WithAuto(g), AutoTarget) = Autoupdated(g)
           /\ \A t \in WithAuto(g).targets : DependsOn(WithAuto(g), t) \subseteq Nodes(g)
           /\ g.facts \subseteq Facts
           /\ g.facts \intersect WithAuto(g).targets = {}
           /\ AutoTarget \notin Nodes(g)
           /\ Nodes(WithAuto(g)) = Nodes(g) \union {AutoTarget}
<1> DEFINE D == [t \in g.targets \union {AutoTarget} |->
                    IF t = AutoTarget THEN Autoupdated(g) ELSE g.depends[t]]
<1>1. /\ WithAuto(g).facts = g.facts
      /\ WithAuto(g).targets = g.targets \union {AutoTarget}
      /\ WithAuto(g).depends = D
  <2>1. g = [facts |-> g.facts, targets |-> g.targets, depends |-> g.depends]
    BY RulesetsAreGraphs
  <2>2. /\ DOMAIN g = {"facts", "targets", "depends"}
        /\ "facts" \in DOMAIN g /\ "targets" \in DOMAIN g /\ "depends" \in DOMAIN g
    BY <2>1
  <2>3. QED BY <2>1, <2>2 DEF WithAuto
<1>2. g.facts \subseteq Facts /\ \A n \in Nodes(g) : n < AutoTarget
  BY AutoIsLast
<1>3. Autoupdated(g) \subseteq g.targets
  BY DEF Autoupdated
<1>4. g.depends \in [g.targets -> SUBSET Nodes(g)] /\ g.facts \intersect g.targets = {}
  BY RulesetsAreGraphs
<1>5. AutoTarget \notin Nodes(g)
  BY <1>2, RulesetsAreGraphs
<1> HIDE DEF D
<1>6. /\ \A t \in g.targets : D[t] = g.depends[t]
      /\ D[AutoTarget] = Autoupdated(g)
  BY <1>5 DEF D, Nodes
<1>7. /\ \A t \in g.targets : DependsOn(WithAuto(g), t) = g.depends[t]
      /\ DependsOn(WithAuto(g), AutoTarget) = Autoupdated(g)
  BY <1>1, <1>6 DEF DependsOn
<1>8. /\ g.facts \intersect WithAuto(g).targets = {}
      /\ Nodes(WithAuto(g)) = Nodes(g) \union {AutoTarget}
  BY <1>1, <1>4, <1>5 DEF Nodes
<1>9. \A t \in WithAuto(g).targets : DependsOn(WithAuto(g), t) \subseteq Nodes(g)
  BY <1>1, <1>7, <1>3, <1>4 DEF Nodes
<1>10. QED BY <1>1, <1>2, <1>5, <1>7, <1>8, <1>9

\* What SortsRight says of one target.
LEMMA SortIsRight ==
    ASSUME SortsRight(Rulesets), NEW g \in Rulesets, Accepted(g),
           NEW G, G = WithAuto(g), NEW t \in G.targets, NEW o, o = SortGraph(G, t)
    PROVE  /\ o.update_facts \in Seq(Nodes(G)) /\ o.update_targets \in Seq(Nodes(G))
           /\ IsInjective(o.update_facts \o o.update_targets)
           /\ ToSet(o.update_facts) = Reached(G, t) \intersect G.facts
           /\ ToSet(o.update_targets) = {t} \union (Reached(G, t) \intersect G.targets)
           /\ \A i, j \in DOMAIN (o.update_facts \o o.update_targets) :
                 (o.update_facts \o o.update_targets)[j]
                    \in DependsOn(G, (o.update_facts \o o.update_targets)[i]) => j < i
           /\ ReachedIsLeast(G, t)
           /\ o.update_facts # <<>> => t \in ToSet(SortGraph(G, AutoTarget).update_targets)
<1>1. /\ o.update_facts \in Seq(Nodes(G)) /\ o.update_targets \in Seq(Nodes(G))
      /\ RightOrder(G, t, o)
      /\ ReachedIsLeast(G, t)
      /\ o.update_facts # <<>> => t \in ToSet(SortGraph(G, AutoTarget).update_targets)
  <2>1. OrdersRight(G, SortTargets(G))
    BY DEF SortsRight
  <2>2. AutoTarget \in G.targets
    BY AutoGraph
  <2>3. SortTargets(G)[t] = SortGraph(G, t) /\ SortTargets(G)[AutoTarget] = SortGraph(G, AutoTarget)
    BY <2>2 DEF SortTargets
  <2>4. QED BY <2>1, <2>3 DEF OrdersRight
<1>2. QED BY <1>1 DEF RightOrder

\* What a target reaches: all its nodes depend on, and nothing it need not.
LEMMA ReachIsClosed ==
    ASSUME SortsRight(Rulesets), NEW g \in Rulesets, Accepted(g),
           NEW G, G = WithAuto(g), NEW t \in G.targets
    PROVE  /\ DependsOn(G, t) \subseteq Reached(G, t)
           /\ \A m \in Reached(G, t) : DependsOn(G, m) \subseteq Reached(G, t)
           /\ Reached(G, t) \subseteq Nodes(g)
           /\ \A S \in SUBSET Nodes(G) :
                 (/\ DependsOn(G, t) \subseteq S
                  /\ \A m \in S : DependsOn(G, m) \subseteq S) => Reached(G, t) \subseteq S
<1>1. ReachedIsLeast(G, t)
  BY SortIsRight
<1>2. /\ DependsOn(G, t) \subseteq Reached(G, t)
      /\ \A m \in Reached(G, t) : DependsOn(G, m) \subseteq Reached(G, t)
      /\ \A S \in SUBSET Nodes(G) :
            (/\ DependsOn(G, t) \subseteq S
             /\ \A m \in S : DependsOn(G, m) \subseteq S) => Reached(G, t) \subseteq S
  BY <1>1, Zenon DEF ReachedIsLeast
<1>3. /\ Nodes(g) \in SUBSET Nodes(G)
      /\ DependsOn(G, t) \subseteq Nodes(g)
      /\ \A m \in Nodes(g) : DependsOn(G, m) \subseteq Nodes(g)
  <2>1. \A m \in G.targets : DependsOn(G, m) \subseteq Nodes(g)
    BY AutoGraph
  <2>2. \A m : m \notin G.targets => DependsOn(G, m) = {}
    BY DEF DependsOn
  <2>3. Nodes(G) = Nodes(g) \union {AutoTarget}
    BY AutoGraph
  <2>4. QED BY <2>1, <2>2, <2>3
<1>4. Reached(G, t) \subseteq Nodes(g)
  BY <1>2, <1>3
<1>5. QED BY <1>2, <1>4

LEMMA ReachIsTransitive ==
    ASSUME SortsRight(Rulesets), NEW g \in Rulesets, Accepted(g),
           NEW G, G = WithAuto(g), NEW t \in G.targets, NEW d \in Reached(G, t) \intersect G.targets
    PROVE  Reached(G, d) \subseteq Reached(G, t)
<1>1. /\ \A m \in Reached(G, t) : DependsOn(G, m) \subseteq Reached(G, t)
      /\ Reached(G, t) \subseteq Nodes(g)
  BY ReachIsClosed
<1>2. \A S \in SUBSET Nodes(G) :
         (/\ DependsOn(G, d) \subseteq S
          /\ \A m \in S : DependsOn(G, m) \subseteq S) => Reached(G, d) \subseteq S
  BY ReachIsClosed
<1>3. Reached(G, t) \in SUBSET Nodes(G)
  BY <1>1, AutoGraph
<1>4. QED BY <1>1, <1>2, <1>3

\* Where the elements of two sequences are in their concatenation.
LEMMA Placed ==
    ASSUME NEW S, NEW F \in Seq(S), NEW L \in Seq(S)
    PROVE  /\ DOMAIN (F \o L) = 1..(Len(F) + Len(L))
           /\ \A k \in DOMAIN F : k \in DOMAIN (F \o L) /\ (F \o L)[k] = F[k]
           /\ \A k \in DOMAIN L : /\ Len(F) + k \in DOMAIN (F \o L)
                                 /\ (F \o L)[Len(F) + k] = L[k]
           /\ Len(F) \in Nat /\ Len(L) \in Nat
           /\ DOMAIN L = 1..Len(L) /\ DOMAIN F = 1..Len(F)
<1> DEFINE all == F \o L
<1>1. /\ all \in Seq(S)
      /\ Len(all) = Len(F) + Len(L)
      /\ \A k \in 1..(Len(F) + Len(L)) :
            all[k] = IF k <= Len(F) THEN F[k] ELSE L[k - Len(F)]
  BY ConcatProperties
<1> HIDE DEF all
<1>2. /\ Len(F) \in Nat /\ Len(L) \in Nat
      /\ DOMAIN L = 1..Len(L) /\ DOMAIN F = 1..Len(F)
      /\ DOMAIN all = 1..Len(all)
  BY <1>1
<1>3. ASSUME NEW k \in DOMAIN L
      PROVE  Len(F) + k \in DOMAIN all /\ all[Len(F) + k] = L[k]
  <2>1. /\ Len(F) + k \in 1..(Len(F) + Len(L)) /\ ~(Len(F) + k <= Len(F))
        /\ Len(F) + k - Len(F) = k
    BY <1>2
  <2>2. QED BY <1>1, <1>2, <2>1
<1>4. DOMAIN all = 1..(Len(F) + Len(L)) /\ \A k \in DOMAIN F : k \in DOMAIN all /\ all[k] = F[k]
  BY <1>1, <1>2
<1>5. QED BY <1>2, <1>3, <1>4 DEF all

\* In an order, what a target reaches comes before it.
LEMMA ReachedComesFirst ==
    ASSUME SortsRight(Rulesets), NEW g \in Rulesets, Accepted(g),
           NEW G, G = WithAuto(g), NEW t \in G.targets, NEW o, o = SortGraph(G, t),
           NEW i \in DOMAIN o.update_targets, NEW j \in DOMAIN o.update_targets,
           \/ o.update_targets[j] = o.update_targets[i]
           \/ o.update_targets[j] \in Reached(G, o.update_targets[i])
    PROVE  j <= i
<1> DEFINE F   == o.update_facts
           L   == o.update_targets
           all == F \o L
           S   == {n \in Nodes(G) : \E k \in DOMAIN all : k < Len(F) + i /\ all[k] = n}
<1>1. F \in Seq(Nodes(G)) /\ L \in Seq(Nodes(G))
  BY SortIsRight
<1>2. IsInjective(all)
  BY SortIsRight
<1>3. \A k, m \in DOMAIN all : all[m] \in DependsOn(G, all[k]) => m < k
  BY SortIsRight
<1>4. /\ ToSet(F) = Reached(G, t) \intersect G.facts
      /\ ToSet(L) = {t} \union (Reached(G, t) \intersect G.targets)
  BY SortIsRight
<1>5. /\ DependsOn(G, t) \subseteq Reached(G, t)
      /\ \A m \in Reached(G, t) : DependsOn(G, m) \subseteq Reached(G, t)
      /\ Reached(G, t) \subseteq Nodes(g)
  BY ReachIsClosed
<1>5a. i \in DOMAIN L /\ j \in DOMAIN L
  OBVIOUS
<1> HIDE DEF F, L
<1>6. /\ DOMAIN all = 1..(Len(F) + Len(L))
      /\ \A k \in DOMAIN F : k \in DOMAIN all /\ all[k] = F[k]
      /\ \A k \in DOMAIN L : Len(F) + k \in DOMAIN all /\ all[Len(F) + k] = L[k]
      /\ Len(F) \in Nat /\ Len(L) \in Nat
      /\ DOMAIN L = 1..Len(L) /\ DOMAIN F = 1..Len(F)
  BY <1>1, Placed
<1> HIDE DEF all, S
<1>7. \A n \in {t} \union Reached(G, t) : \E k \in DOMAIN all : all[k] = n
  <2>1. Nodes(g) \subseteq G.facts \union G.targets
    BY AutoGraph DEF Nodes
  <2>2. SUFFICES ASSUME NEW n \in ToSet(F) \union ToSet(L)
                 PROVE  \E k \in DOMAIN all : all[k] = n
    BY <1>4, <1>5, <2>1
  <2>3. \/ \E k \in DOMAIN F : F[k] = n
        \/ \E k \in DOMAIN L : L[k] = n
    BY <2>2 DEF ToSet
  <2>4. QED BY <2>3, <1>6
<1>8. \A k \in DOMAIN all : all[k] \in {t} \union Reached(G, t)
  <2>1. SUFFICES ASSUME NEW k \in DOMAIN all PROVE all[k] \in ToSet(F) \union ToSet(L)
    BY <1>4
  <2>2. CASE k \in DOMAIN F
    BY <2>2, <1>6 DEF ToSet
  <2>3. CASE k \notin DOMAIN F
    <3>1. k - Len(F) \in DOMAIN L
      BY <2>1, <2>3, <1>6
    <3>2. all[k] = L[k - Len(F)]
      BY <3>1, <1>6
    <3>3. QED BY <3>1, <3>2 DEF ToSet
  <2>4. QED BY <2>2, <2>3
<1>9. \A k \in DOMAIN all : \A n \in DependsOn(G, all[k]) : \E m \in DOMAIN all : all[m] = n /\ m < k
  BY <1>3, <1>5, <1>7, <1>8
<1>10. L[i] = all[Len(F) + i] /\ Len(F) + i \in DOMAIN all /\ L[i] \in G.targets
  BY <1>5a, <1>6, <1>4 DEF ToSet
<1>11. DependsOn(G, L[i]) \subseteq S /\ \A m \in S : DependsOn(G, m) \subseteq S
  <2>1. \A n : DependsOn(G, n) \subseteq Nodes(G)
    <3>1. \A m \in G.targets : DependsOn(G, m) \subseteq Nodes(g)
      BY AutoGraph
    <3>2. QED BY <3>1, AutoGraph DEF DependsOn
  <2>2. DependsOn(G, L[i]) \subseteq S
    BY <2>1, <1>9, <1>10, <1>6 DEF S
  <2>3. ASSUME NEW m \in S, NEW n \in DependsOn(G, m) PROVE n \in S
    <3>1. PICK k \in DOMAIN all : k < Len(F) + i /\ all[k] = m
      BY <2>3 DEF S
    <3>2. PICK q \in DOMAIN all : all[q] = n /\ q < k
      BY <3>1, <2>3, <1>9
    <3>3. q < Len(F) + i
      BY <3>1, <3>2, <1>6, <1>5a
    <3>4. QED BY <3>2, <3>3, <2>1, <2>3 DEF S
  <2>4. QED BY <2>2, <2>3
<1>12. Reached(G, L[i]) \subseteq S
  <2>1. \A Q \in SUBSET Nodes(G) :
           (/\ DependsOn(G, L[i]) \subseteq Q
            /\ \A m \in Q : DependsOn(G, m) \subseteq Q) => Reached(G, L[i]) \subseteq Q
    BY <1>10, ReachIsClosed
  <2>2. S \in SUBSET Nodes(G)
    BY DEF S
  <2>3. QED BY <1>11, <2>1, <2>2
<1>13. L[j] = all[Len(F) + j] /\ Len(F) + j \in DOMAIN all
  BY <1>6, <1>5a
<1>14. CASE L[j] = L[i]
  <2>1. Len(F) + j = Len(F) + i
    BY <1>14, <1>10, <1>13, <1>2 DEF IsInjective
  <2>2. QED BY <2>1, <1>6, <1>5a
<1>15. CASE L[j] \in Reached(G, L[i])
  <2>1. PICK k \in DOMAIN all : k < Len(F) + i /\ all[k] = L[j]
    BY <1>12, <1>15 DEF S
  <2>2. k = Len(F) + j
    BY <2>1, <1>13, <1>2 DEF IsInjective
  <2>3. QED BY <2>1, <2>2, <1>6, <1>5a
<1>16. QED BY <1>14, <1>15 DEF L

\* No target depends on itself, nor does one reach its own dependents.
LEMMA NoSelfDependence ==
    ASSUME SortsRight(Rulesets), NEW g \in Rulesets, Accepted(g),
           NEW G, G = WithAuto(g), NEW t \in G.targets
    PROVE  t \notin DependsOn(G, t)
<1> DEFINE o   == SortGraph(G, t)
           F   == o.update_facts
           L   == o.update_targets
           all == F \o L
<1>1. /\ F \in Seq(Nodes(G)) /\ L \in Seq(Nodes(G))
      /\ ToSet(L) = {t} \union (Reached(G, t) \intersect G.targets)
      /\ \A k, m \in DOMAIN all : all[m] \in DependsOn(G, all[k]) => m < k
  BY SortIsRight
<1> HIDE DEF F, L
<1>2. PICK k \in DOMAIN L : L[k] = t
  BY <1>1 DEF ToSet
<1>3. Len(F) + k \in DOMAIN all /\ all[Len(F) + k] = t
  BY <1>1, <1>2, Placed
<1>4. DOMAIN all = 1..(Len(F) + Len(L)) /\ Len(F) \in Nat /\ Len(L) \in Nat
  BY <1>1, Placed
<1> HIDE DEF all
<1>5. t \in DependsOn(G, t) => Len(F) + k < Len(F) + k
  BY <1>1, <1>3
<1>6. Len(F) + k \in Nat
  BY <1>3, <1>4
<1>7. QED BY <1>5, <1>6

LEMMA GraphHasShape ==
    ASSUME SortsRight(Rulesets), NEW g \in Rulesets, Accepted(g),
           loaded = WithAuto(g), order = SortTargets(WithAuto(g))
    PROVE  Shape
<1>1. /\ loaded.facts = g.facts /\ loaded.facts \subseteq Facts
      /\ loaded.facts \intersect loaded.targets = {}
      /\ loaded.targets = g.targets \union {AutoTarget}
      /\ AutoTarget \notin Nodes(g)
  BY AutoGraph
<1>2. /\ DOMAIN order = loaded.targets
      /\ \A t \in loaded.targets : order[t] = SortGraph(loaded, t)
  BY DEF SortTargets
<1>3. \A t \in loaded.targets :
         /\ order[t].update_facts \in Seq(Nodes(loaded))
         /\ order[t].update_targets \in Seq(Nodes(loaded))
         /\ FactsOf(t) = Reached(loaded, t) \intersect loaded.facts
         /\ Checked(t) = {t} \union (Reached(loaded, t) \intersect loaded.targets)
  BY <1>2, SortIsRight DEF FactsOf, Checked
<1>4. ASSUME NEW t \in loaded.targets
      PROVE  order[t].update_targets \in Seq(loaded.targets)
  <2> DEFINE L == order[t].update_targets
  <2>1. L \in Seq(Nodes(loaded)) /\ ToSet(L) \subseteq loaded.targets
    BY <1>3 DEF Checked
  <2> HIDE DEF L
  <2>2. \A k \in 1..Len(L) : L[k] \in loaded.targets
    BY <2>1 DEF ToSet
  <2>3. L \in [1..Len(L) -> loaded.targets] /\ Len(L) \in Nat
    BY <2>1, <2>2
  <2>4. QED BY <2>3 DEF L
<1>5. ASSUME NEW t \in loaded.targets, NEW d \in Checked(t)
      PROVE  Checked(d) \subseteq Checked(t) /\ FactsOf(d) \subseteq FactsOf(t)
  <2>1. d \in loaded.targets
    BY <1>3, <1>5
  <2>2. CASE d = t
    BY <2>2
  <2>3. CASE d # t
    <3>1. d \in Reached(loaded, t) \intersect loaded.targets
      BY <1>3, <2>3, <1>5
    <3>2. Reached(loaded, d) \subseteq Reached(loaded, t)
      BY <3>1, ReachIsTransitive
    <3>3. QED BY <1>3, <2>1, <3>1, <3>2
  <2>4. QED BY <2>2, <2>3
<1>6. ASSUME NEW t \in loaded.targets
      PROVE  DependsOn(loaded, t) \ loaded.facts \subseteq Checked(t) \ {t, AutoTarget}
  <2>1. DependsOn(loaded, t) \subseteq Nodes(g)
    BY AutoGraph
  <2>2. DependsOn(loaded, t) \subseteq Reached(loaded, t)
    BY ReachIsClosed
  <2>3. t \notin DependsOn(loaded, t)
    BY NoSelfDependence
  <2>4. QED BY <1>1, <1>3, <2>1, <2>2, <2>3 DEF Nodes
<1>7. ASSUME NEW t \in loaded.targets, FactsOf(t) # {}
      PROVE  t \in Checked(AutoTarget)
  <2>1. order[t].update_facts # <<>>
    BY <1>7 DEF FactsOf, ToSet
  <2>2. AutoTarget \in loaded.targets
    BY <1>1
  <2>3. order[t].update_facts # <<>> => t \in ToSet(SortGraph(loaded, AutoTarget).update_targets)
    BY <1>2, SortIsRight
  <2>4. QED BY <1>2, <2>1, <2>2, <2>3 DEF Checked
<1>8. ASSUME NEW t \in loaded.targets,
             NEW i \in DOMAIN order[t].update_targets, NEW j \in DOMAIN order[t].update_targets,
             order[t].update_targets[j] \in Checked(order[t].update_targets[i])
      PROVE  j <= i
  <2> DEFINE L == order[t].update_targets
  <2>1. L[i] \in loaded.targets
    BY <1>3 DEF Checked, ToSet
  <2>2. L[j] = L[i] \/ L[j] \in Reached(loaded, L[i])
    BY <2>1, <1>3, <1>8
  <2>3. QED BY <2>2, <1>2, <1>8, ReachedComesFirst
<1>9. ASSUME NEW t \in loaded.targets, AutoTarget \in Checked(t)
      PROVE  t = AutoTarget
  <2>1. Reached(loaded, t) \subseteq Nodes(g)
    BY ReachIsClosed
  <2>2. QED BY <1>1, <1>3, <1>9, <2>1
<1>10. QED BY <1>1, <1>2, <1>3, <1>4, <1>5, <1>6, <1>7, <1>8, <1>9 DEF Shape

-----------------------------------------------------------------------------
(* Logs and what they undo *)

\* A log is a function from tables to how they were.
LEMMA LogHolds ==
    ASSUME NEW log \in Logs
    PROVE  /\ log = [f \in DOMAIN log |-> log[f]] /\ DOMAIN log \subseteq Facts
           /\ \A f \in DOMAIN log : log[f] \in Entries
           /\ \A f \in DOMAIN log : log[f].stamp \in Nat /\ log[f].version \in Nat
BY DEF Logs, Entries

LEMMA EmptyLog ==
    /\ <<>> \in Logs /\ DOMAIN <<>> = {}
    /\ \A f, g : [stamp |-> f, version |-> g].stamp = f /\ [stamp |-> f, version |-> g].version = g
<1> DEFINE e == [f \in {} |-> [stamp |-> 0, version |-> 0]]
<1>1. <<>> = e /\ DOMAIN <<>> = {}
  OBVIOUS
<1>2. e \in [{} -> Entries]
  OBVIOUS
<1>3. QED BY <1>1, <1>2 DEF Logs

\* What Logged adds: the tables changed for the first time, as they are.
LEMMA LoggedAdds ==
    ASSUME NEW log \in Logs, NEW S \in SUBSET Facts,
           stamp \in [Facts -> Nat], version \in [Facts -> Nat]
    PROVE  /\ Logged(log, S) \in Logs
           /\ DOMAIN Logged(log, S) = DOMAIN log \union S
           /\ \A f \in DOMAIN log : Logged(log, S)[f] = log[f]
           /\ \A f \in S \ DOMAIN log : /\ Logged(log, S)[f].stamp = stamp[f]
                                        /\ Logged(log, S)[f].version = version[f]
<1> DEFINE e == [f \in S |-> [stamp |-> stamp[f], version |-> version[f]]]
<1>1. /\ DOMAIN log \in SUBSET Facts
      /\ \A f \in DOMAIN log : log[f] \in Entries
  BY LogHolds
<1>2. /\ DOMAIN e = S
      /\ \A f \in S : e[f] \in Entries /\ e[f].stamp = stamp[f] /\ e[f].version = version[f]
  BY DEF Entries
<1>3. Logged(log, S) = [f \in DOMAIN log \union DOMAIN e |-> IF f \in DOMAIN log THEN log[f] ELSE e[f]]
  BY DEF Logged, Over
<1> HIDE DEF e
<1>4. Logged(log, S) \in [DOMAIN log \union S -> Entries]
  BY <1>1, <1>2, <1>3
<1>5. DOMAIN log \union S \in SUBSET Facts
  BY <1>1
<1>6. Logged(log, S) \in Logs
  BY <1>4, <1>5, Zenon DEF Logs
<1>7. QED BY <1>2, <1>3, <1>6

\* What is undone is as the log has it, and the rest as it is.
LEMMA BeforeHolds ==
    ASSUME NEW log \in Logs, NEW st, DOMAIN st = Facts, NEW ver, DOMAIN ver = Facts
    PROVE  /\ StampsBefore(log, st)
                = [f \in Facts |-> IF f \in DOMAIN log THEN log[f].stamp ELSE st[f]]
           /\ VersionsBefore(log, ver)
                = [f \in Facts |-> IF f \in DOMAIN log THEN log[f].version ELSE ver[f]]
<1>1. DOMAIN log \subseteq Facts
  BY LogHolds
<1>2. DOMAIN st = Facts /\ DOMAIN ver = Facts /\ DOMAIN log \union Facts = Facts
  BY <1>1
<1> DEFINE a == [f \in DOMAIN log |-> log[f].stamp]
           b == [f \in DOMAIN log |-> log[f].version]
<1>3. DOMAIN a = DOMAIN log /\ DOMAIN b = DOMAIN log
      /\ \A f \in DOMAIN log : a[f] = log[f].stamp /\ b[f] = log[f].version
  OBVIOUS
<1>4. /\ StampsBefore(log, st) = [f \in DOMAIN a \union DOMAIN st |-> IF f \in DOMAIN a THEN a[f] ELSE st[f]]
      /\ VersionsBefore(log, ver)
           = [f \in DOMAIN b \union DOMAIN ver |-> IF f \in DOMAIN b THEN b[f] ELSE ver[f]]
  BY DEF StampsBefore, VersionsBefore, Over
<1> HIDE DEF a, b
<1>5. QED BY <1>2, <1>3, <1>4

-----------------------------------------------------------------------------
(* Changes *)

\* Customarily a change moves the stamp on by one, and its contents are new.
LEMMA ChangeMovesOn ==
    ASSUME Habits = {}, NEW S \in SUBSET Facts, NEW log, ChangeTables(S, log),
           changes \in Nat, stamp \in [Facts -> Nat], version \in [Facts -> Nat]
    PROVE  /\ changes' \in Nat /\ changes <= changes' /\ changes' <= MaxChanges
           /\ stamp' \in [Facts -> Nat] /\ version' \in [Facts -> Nat]
           /\ \A f \in S : /\ stamp'[f] = IF f \in DOMAIN log THEN stamp[f] ELSE stamp[f] + 1
                           /\ version'[f] \in (changes + 1)..changes'
           /\ \A f \in Facts \ S : stamp'[f] = stamp[f] /\ version'[f] = version[f]
<1> DEFINE upto(f) == {e \in S : e <= f}
<1>1. IsFiniteSet(S) /\ Cardinality(S) \in Nat
  BY RulesetsAreGraphs, FS_Subset, FS_CardinalityType
<1>2. ASSUME NEW f \in S PROVE Cardinality(upto(f)) \in 1..Cardinality(S)
  <2>1. f \in upto(f) /\ upto(f) \in SUBSET S
    BY RulesetsAreGraphs
  <2> HIDE DEF upto
  <2>2. /\ IsFiniteSet(upto(f)) /\ Cardinality(upto(f)) <= Cardinality(S)
    BY <1>1, <2>1, FS_Subset
  <2>3. Cardinality(upto(f)) \in Nat /\ Cardinality(upto(f)) # 0
    BY <2>1, <2>2, FS_CardinalityType, FS_EmptySet
  <2>4. QED BY <1>1, <2>2, <2>3
<1>3. /\ changes + Cardinality(S) <= MaxChanges
      /\ changes' = changes + Cardinality(S)
      /\ version' = [f \in Facts |-> IF f \in S THEN changes + Cardinality(upto(f)) ELSE version[f]]
      /\ stamp' = [f \in Facts |-> IF f \in S \ DOMAIN log THEN stamp[f] + 1 ELSE stamp[f]]
  <2>1. PICK dropped \in SUBSET (IF "drop" \in Habits THEN S ELSE {}) :
           stamp' = [f \in Facts |-> IF f \in dropped THEN 1
                                     ELSE IF f \in S \ DOMAIN log THEN stamp[f] + 1 ELSE stamp[f]]
    BY DEF ChangeTables
  <2>2. dropped = {}
    OBVIOUS
  <2>3. stamp' = [f \in Facts |-> IF f \in S \ DOMAIN log THEN stamp[f] + 1 ELSE stamp[f]]
    BY <2>1, <2>2
  <2>4. QED BY <2>3 DEF ChangeTables
<1> HIDE DEF upto
<1>4. QED
  <2>1. changes' \in Nat /\ changes <= changes' /\ changes' <= MaxChanges
    BY <1>1, <1>3
  <2>2. ASSUME NEW f \in S
        PROVE  /\ stamp'[f] = IF f \in DOMAIN log THEN stamp[f] ELSE stamp[f] + 1
               /\ version'[f] \in (changes + 1)..changes'
    BY <1>1, <1>2, <1>3
  <2>3. \A f \in Facts \ S : stamp'[f] = stamp[f] /\ version'[f] = version[f]
    BY <1>3
  <2>4. \A f \in Facts : stamp'[f] \in Nat /\ version'[f] \in Nat
    BY <2>2, <2>3
  <2>5. stamp' \in [Facts -> Nat] /\ version' \in [Facts -> Nat]
    BY <1>3, <2>4
  <2>6. QED BY <2>1, <2>2, <2>3, <2>5

-----------------------------------------------------------------------------
(* What fits *)

LEMMA FitHolds ==
    ASSUME NEW n, NEW st, NEW ver, NEW fs, NEW sn, Fit(n, st, ver, fs, sn)
    PROVE  /\ st \in [Facts -> 1..(n + 1)]
           /\ ver \in [Facts -> 0..n]
           /\ fs \in [DOMAIN order -> [Facts -> Nat]]
           /\ sn \in [DOMAIN order -> [Facts -> 0..n]]
           /\ \A t \in DOMAIN order : \A f \in Facts : fs[t][f] <= st[f]
           /\ \A t \in DOMAIN order : \A f \in FactsOf(t) : ver[f] # sn[t][f] => st[f] > fs[t][f]
           /\ \A t \in DOMAIN order : \A d \in DependsOn(loaded, t) \ loaded.facts :
                 \A f \in FactsOf(d) : fs[t][f] <= fs[d][f]
BY DEF Fit

\* A changed table has moved on, or is news at its stamp to whom it matters.
MovesOn(f, st, st2, fs) ==
    \/ st2[f] = st[f] + 1
    \/ st2[f] = st[f] /\ \A t \in DOMAIN order : f \in FactsOf(t) => st[f] > fs[t][f]

\* Nothing more fits when tables are changed, nor less.
LEMMA FitAfterChange ==
    ASSUME Shape, NEW n \in Nat, NEW m \in Nat, n <= m, NEW S \in SUBSET Facts,
           NEW st, NEW ver, NEW fs, NEW sn, Fit(n, st, ver, fs, sn),
           NEW st2 \in [Facts -> Nat], NEW ver2 \in [Facts -> Nat],
           \A f \in S : MovesOn(f, st, st2, fs) /\ ver2[f] \in (n + 1)..m,
           \A f \in Facts \ S : st2[f] = st[f] /\ ver2[f] = ver[f]
    PROVE  Fit(m, st2, ver2, fs, sn)
<1>1. /\ st \in [Facts -> 1..(n + 1)]
      /\ ver \in [Facts -> 0..n]
      /\ fs \in [DOMAIN order -> [Facts -> Nat]]
      /\ sn \in [DOMAIN order -> [Facts -> 0..n]]
      /\ \A t \in DOMAIN order : \A f \in Facts : fs[t][f] <= st[f]
      /\ \A t \in DOMAIN order : \A f \in FactsOf(t) : ver[f] # sn[t][f] => st[f] > fs[t][f]
  BY FitHolds
<1>2. ASSUME NEW f \in Facts PROVE st2[f] \in 1..(m + 1) /\ ver2[f] \in 0..m /\ st[f] <= st2[f]
  <2>1. st[f] \in 1..(n + 1) /\ ver[f] \in 0..n
    BY <1>1
  <2>2. CASE f \in S
    BY <2>1, <2>2 DEF MovesOn
  <2>3. CASE f \notin S
    BY <2>1, <2>3
  <2>4. QED BY <2>2, <2>3
<1>3. st2 \in [Facts -> 1..(m + 1)] /\ ver2 \in [Facts -> 0..m]
  BY <1>2
<1>4. sn \in [DOMAIN order -> [Facts -> 0..m]]
  <2>1. \A t \in DOMAIN order : \A f \in Facts : sn[t][f] \in 0..m
    BY <1>1
  <2>2. \A t \in DOMAIN order : sn[t] \in [Facts -> 0..m]
    BY <1>1, <2>1
  <2>3. QED BY <1>1, <2>2
<1>5. ASSUME NEW t \in DOMAIN order, NEW f \in Facts
      PROVE  /\ fs[t][f] <= st2[f]
             /\ f \in FactsOf(t) /\ ver2[f] # sn[t][f] => st2[f] > fs[t][f]
  <2>1. /\ st[f] \in Nat /\ st2[f] \in Nat /\ fs[t][f] \in Nat /\ fs[t][f] <= st[f]
        /\ f \in FactsOf(t) /\ ver[f] # sn[t][f] => st[f] > fs[t][f]
    BY <1>1, <1>2
  <2>2. CASE f \in S
    BY <2>1, <2>2 DEF MovesOn
  <2>3. CASE f \notin S
    BY <2>1, <2>3
  <2>4. QED BY <2>2, <2>3
<1>6. \A t \in DOMAIN order : FactsOf(t) \subseteq Facts
  BY DEF Shape
<1>7. \A t \in DOMAIN order : \A f \in Facts : fs[t][f] <= st2[f]
  BY <1>5
<1>8. \A t \in DOMAIN order : \A f \in FactsOf(t) : ver2[f] # sn[t][f] => st2[f] > fs[t][f]
  BY <1>5, <1>6
<1>9. \A t \in DOMAIN order : \A d \in DependsOn(loaded, t) \ loaded.facts :
         \A f \in FactsOf(d) : fs[t][f] <= fs[d][f]
  BY FitHolds
<1>10. QED BY <1>1, <1>3, <1>4, <1>7, <1>8, <1>9 DEF Fit

\* What fits goes on fitting as more changes come.
LEMMA FitLater ==
    ASSUME Shape, NEW n \in Nat, NEW m \in Nat, n <= m,
           NEW st, NEW ver, NEW fs, NEW sn, Fit(n, st, ver, fs, sn)
    PROVE  Fit(m, st, ver, fs, sn)
<1>1. st \in [Facts -> Nat] /\ ver \in [Facts -> Nat]
  <2>1. st \in [Facts -> 1..(n + 1)] /\ ver \in [Facts -> 0..n]
    BY FitHolds
  <2>2. QED BY <2>1
<1>2. /\ \A f \in {} : MovesOn(f, st, st, fs) /\ ver[f] \in (n + 1)..m
      /\ \A f \in Facts \ {} : st[f] = st[f] /\ ver[f] = ver[f]
      /\ {} \in SUBSET Facts
  OBVIOUS
<1>3. QED BY ONLY <1>1, <1>2, FitAfterChange, Shape, n \in Nat, m \in Nat, n <= m,
          Fit(n, st, ver, fs, sn)

\* Two pasts that fit, mixed table by table, fit.
LEMMA FitMixed ==
    ASSUME Shape, NEW n \in Nat, NEW fs, NEW sn,
           NEW st, NEW ver, Fit(n, st, ver, fs, sn),
           NEW st2, NEW ver2, Fit(n, st2, ver2, fs, sn),
           NEW D,
           NEW st3, st3 = [f \in Facts |-> IF f \in D THEN st[f] ELSE st2[f]],
           NEW ver3, ver3 = [f \in Facts |-> IF f \in D THEN ver[f] ELSE ver2[f]]
    PROVE  Fit(n, st3, ver3, fs, sn)
<1>1. /\ st \in [Facts -> 1..(n + 1)]
      /\ ver \in [Facts -> 0..n]
      /\ fs \in [DOMAIN order -> [Facts -> Nat]]
      /\ sn \in [DOMAIN order -> [Facts -> 0..n]]
      /\ \A t \in DOMAIN order : \A f \in Facts : fs[t][f] <= st[f]
      /\ \A t \in DOMAIN order : \A f \in FactsOf(t) : ver[f] # sn[t][f] => st[f] > fs[t][f]
      /\ \A t \in DOMAIN order : \A d \in DependsOn(loaded, t) \ loaded.facts :
            \A f \in FactsOf(d) : fs[t][f] <= fs[d][f]
  BY FitHolds
<1>2. /\ st2 \in [Facts -> 1..(n + 1)]
      /\ ver2 \in [Facts -> 0..n]
      /\ \A t \in DOMAIN order : \A f \in Facts : fs[t][f] <= st2[f]
      /\ \A t \in DOMAIN order : \A f \in FactsOf(t) : ver2[f] # sn[t][f] => st2[f] > fs[t][f]
  BY FitHolds
<1>3. \A f \in Facts : \/ st3[f] = st[f] /\ ver3[f] = ver[f]
                       \/ st3[f] = st2[f] /\ ver3[f] = ver2[f]
  OBVIOUS
<1>4. st3 \in [Facts -> 1..(n + 1)] /\ ver3 \in [Facts -> 0..n]
  BY <1>1, <1>2
<1>5. \A t \in DOMAIN order : \A f \in Facts : fs[t][f] <= st3[f]
  BY <1>1, <1>2, <1>3
<1>6. \A t \in DOMAIN order : FactsOf(t) \subseteq Facts
  BY DEF Shape
<1>7. \A t \in DOMAIN order : \A f \in FactsOf(t) : ver3[f] # sn[t][f] => st3[f] > fs[t][f]
  BY <1>1, <1>2, <1>3, <1>6
<1>8. QED BY <1>1, <1>4, <1>5, <1>7 DEF Fit

\* What is left behind by a change fits with it: the log has what it was.
LEMMA FitSame ==
    ASSUME UNCHANGED <<loaded, order>>
    PROVE  /\ Fit(changes, stamp, version, factStamps, seen)'
                <=> Fit(changes', stamp', version', factStamps', seen')
           /\ \A t : FactsOf(t)' = FactsOf(t) /\ Checked(t)' = Checked(t)
           /\ \A t : DependsOn(loaded, t)' = DependsOn(loaded, t)
           /\ Shape' <=> Shape
           /\ Running' <=> Running
           /\ Anchored' <=> Anchored
<1>1. \A t : FactsOf(t)' = FactsOf(t) /\ Checked(t)' = Checked(t)
  BY DEF FactsOf, Checked
<1>2. \A t : DependsOn(loaded, t)' = DependsOn(loaded, t)
  BY DEF DependsOn
<1>3. Running' <=> Running
  BY DEF Running
<1>4. Shape' <=> Shape
  BY <1>1, <1>2 DEF Shape
<1>5. Anchored' <=> Anchored
  BY <1>1, <1>3 DEF Anchored
<1>6. Fit(changes, stamp, version, factStamps, seen)'
         <=> Fit(changes', stamp', version', factStamps', seen')
  BY <1>1, <1>2 DEF Fit
<1>7. QED BY <1>1, <1>2, <1>3, <1>4, <1>5, <1>6

-----------------------------------------------------------------------------
(* Logs through changes *)

\* A change that is logged leaves what was before the log as it was.
LEMMA LoggedIsBefore ==
    ASSUME NEW log \in Logs, NEW S \in SUBSET Facts,
           stamp \in [Facts -> Nat], version \in [Facts -> Nat],
           stamp' \in [Facts -> Nat], version' \in [Facts -> Nat],
           \A f \in Facts \ S : stamp'[f] = stamp[f] /\ version'[f] = version[f]
    PROVE  /\ StampsBefore(Logged(log, S), stamp') = StampsBefore(log, stamp)
           /\ VersionsBefore(Logged(log, S), version') = VersionsBefore(log, version)
<1> DEFINE l == Logged(log, S)
<1>0. DOMAIN stamp = Facts /\ DOMAIN version = Facts /\ DOMAIN stamp' = Facts /\ DOMAIN version' = Facts
  OBVIOUS
<1>1. /\ l \in Logs
      /\ DOMAIN l = DOMAIN log \union S
      /\ \A f \in DOMAIN log : l[f] = log[f]
      /\ \A f \in S \ DOMAIN log : l[f].stamp = stamp[f] /\ l[f].version = version[f]
  BY LoggedAdds
<1> HIDE DEF l
<1>2. /\ StampsBefore(l, stamp')
           = [f \in Facts |-> IF f \in DOMAIN l THEN l[f].stamp ELSE stamp'[f]]
      /\ VersionsBefore(l, version')
           = [f \in Facts |-> IF f \in DOMAIN l THEN l[f].version ELSE version'[f]]
  BY ONLY <1>0, <1>1, BeforeHolds
<1>3. /\ StampsBefore(log, stamp)
           = [f \in Facts |-> IF f \in DOMAIN log THEN log[f].stamp ELSE stamp[f]]
      /\ VersionsBefore(log, version)
           = [f \in Facts |-> IF f \in DOMAIN log THEN log[f].version ELSE version[f]]
  BY ONLY <1>0, log \in Logs, BeforeHolds
<1>4. \A f \in Facts :
         /\ (IF f \in DOMAIN l THEN l[f].stamp ELSE stamp'[f])
              = (IF f \in DOMAIN log THEN log[f].stamp ELSE stamp[f])
         /\ (IF f \in DOMAIN l THEN l[f].version ELSE version'[f])
              = (IF f \in DOMAIN log THEN log[f].version ELSE version[f])
  BY <1>1
<1>5. QED BY <1>2, <1>3, <1>4 DEF l

\* What was before a log fits after a change that is logged, and after one of
\* other tables that is not.
LEMMA BeforeFitsAfterChange ==
    ASSUME Shape, NEW log \in Logs, NEW S \in SUBSET Facts, NEW fs, NEW sn,
           changes \in Nat, changes' \in Nat, changes <= changes',
           stamp \in [Facts -> Nat], version \in [Facts -> Nat],
           stamp' \in [Facts -> Nat], version' \in [Facts -> Nat],
           \A f \in S : MovesOn(f, stamp, stamp', fs) /\ version'[f] \in (changes + 1)..changes',
           \A f \in Facts \ S : stamp'[f] = stamp[f] /\ version'[f] = version[f],
           Fit(changes, StampsBefore(log, stamp), VersionsBefore(log, version), fs, sn)
    PROVE  /\ Fit(changes', StampsBefore(Logged(log, S), stamp'),
                            VersionsBefore(Logged(log, S), version'), fs, sn)
           /\ S \intersect DOMAIN log = {} =>
                 Fit(changes', StampsBefore(log, stamp'), VersionsBefore(log, version'), fs, sn)
<1> DEFINE st  == StampsBefore(log, stamp)
           ver == VersionsBefore(log, version)
           st2  == StampsBefore(log, stamp')
           ver2 == VersionsBefore(log, version')
<1>1. /\ st = [f \in Facts |-> IF f \in DOMAIN log THEN log[f].stamp ELSE stamp[f]]
      /\ ver = [f \in Facts |-> IF f \in DOMAIN log THEN log[f].version ELSE version[f]]
  BY BeforeHolds
<1>2. /\ st2 = [f \in Facts |-> IF f \in DOMAIN log THEN log[f].stamp ELSE stamp'[f]]
      /\ ver2 = [f \in Facts |-> IF f \in DOMAIN log THEN log[f].version ELSE version'[f]]
  BY BeforeHolds
<1>3. \A f \in DOMAIN log : log[f].stamp \in Nat /\ log[f].version \in Nat
  BY LogHolds
<1> HIDE DEF st, ver, st2, ver2
<1>4. /\ st \in [Facts -> Nat] /\ ver \in [Facts -> Nat]
      /\ st2 \in [Facts -> Nat] /\ ver2 \in [Facts -> Nat]
  BY <1>1, <1>2, <1>3
<1>5. Fit(changes, st, ver, fs, sn)
  BY DEF st, ver
<1>6. Fit(changes', st, ver, fs, sn)
  BY ONLY <1>5, FitLater, Shape, changes \in Nat, changes' \in Nat, changes <= changes'
<1>7. /\ StampsBefore(Logged(log, S), stamp') = st
      /\ VersionsBefore(Logged(log, S), version') = ver
  BY LoggedIsBefore DEF st, ver
<1>8. ASSUME S \intersect DOMAIN log = {} PROVE Fit(changes', st2, ver2, fs, sn)
  <2>1. /\ \A f \in S : MovesOn(f, st, st2, fs) /\ ver2[f] \in (changes + 1)..changes'
        /\ \A f \in Facts \ S : st2[f] = st[f] /\ ver2[f] = ver[f]
    BY <1>1, <1>2, <1>8 DEF MovesOn
  <2>2. QED BY ONLY <1>4, <1>5, <2>1, FitAfterChange, Shape, S \in SUBSET Facts,
            changes \in Nat, changes' \in Nat, changes <= changes'
<1>9. QED BY <1>6, <1>7, <1>8 DEF st2, ver2

-----------------------------------------------------------------------------
(* The invariant at rest *)

\* What a step between updates must see to.
LEMMA RestStep ==
    ASSUME Inv, UNCHANGED <<loaded, order>>, update' = NoUpdate, Anchored,
           scheduled' \in BOOLEAN, gaveUp' \in BOOLEAN, changes' \in 0..MaxChanges,
           Fit(changes', stamp', version', factStamps', seen'),
           TransactionsFit', PendingIsScheduled'
    PROVE  Inv'
<1>1. /\ Fit(changes, stamp, version, factStamps, seen)'
      /\ Shape' <=> Shape
      /\ Running' <=> Running
      /\ Anchored'
  BY FitSame
<1>2. Running => Shape
  BY DEF Inv
<1>3. (update = NoUpdate)' /\ NoUpdate' = NoUpdate
  BY DEF NoUpdate
<1>4. QED BY <1>1, <1>2, <1>3 DEF Inv

LEMMA TransactionsStep ==
    ASSUME UNCHANGED <<loaded, order, factStamps, seen>>,
           txs' \in Seq(Transactions), Len(txs') <= 2,
           \A i \in DOMAIN txs' :
              /\ DOMAIN txs'[i].log \subseteq loaded.facts
              /\ Fit(changes', StampsBefore(txs'[i].log, stamp'), VersionsBefore(txs'[i].log, version'),
                     factStamps, seen)
              /\ IsNews(DOMAIN txs'[i].log, stamp', factStamps)
              /\ txs'[i].inner => txs'[i].log # <<>>,
           Len(txs') = 2 =>
              /\ ~txs'[2].inner
              /\ txs'[2].log # <<>> => txs'[1].log # <<>>
              /\ DOMAIN txs'[1].log \intersect DOMAIN txs'[2].log = {}
    PROVE  TransactionsFit'
<1>1. ASSUME NEW i \in DOMAIN txs'
      PROVE  Fit(changes, StampsBefore(txs[i].log, stamp), VersionsBefore(txs[i].log, version),
                 factStamps, seen)'
  <2>1. Fit(changes', StampsBefore(txs'[i].log, stamp'), VersionsBefore(txs'[i].log, version'),
            factStamps, seen)
    OBVIOUS
  <2>2. \A t : FactsOf(t)' = FactsOf(t) /\ DependsOn(loaded, t)' = DependsOn(loaded, t)
    BY DEF FactsOf, DependsOn
  <2>3. /\ StampsBefore(txs[i].log, stamp)' = StampsBefore(txs'[i].log, stamp')
        /\ VersionsBefore(txs[i].log, version)' = VersionsBefore(txs'[i].log, version')
    BY DEF StampsBefore, VersionsBefore, Over
  <2>4. QED BY <2>1, <2>2, <2>3 DEF Fit
<1>2. \A i \in DOMAIN txs' : IsNews(DOMAIN txs[i].log, stamp, factStamps)'
  BY DEF IsNews
<1>3. QED BY <1>1, <1>2 DEF TransactionsFit

\* What the invariant says between updates.
LEMMA AtRest ==
    ASSUME Inv, Anchored
    PROVE  /\ Shape /\ changes \in Nat /\ changes <= MaxChanges
           /\ stamp \in [Facts -> Nat] /\ version \in [Facts -> Nat]
           /\ Fit(changes, stamp, version, factStamps, seen)
           /\ txs \in Seq(Transactions)
           /\ \A i \in DOMAIN txs : /\ txs[i].log \in Logs /\ txs[i].inner \in BOOLEAN
                                    /\ txs[i] = [log |-> txs[i].log, inner |-> txs[i].inner]
           /\ scheduled \in BOOLEAN /\ gaveUp \in BOOLEAN
<1>1. Shape /\ changes \in Nat /\ changes <= MaxChanges
  BY RulesetsAreGraphs DEF Inv, Anchored
<1>2. Fit(changes, stamp, version, factStamps, seen) /\ txs \in Seq(Transactions)
  BY DEF Inv, TransactionsFit
<1>3. stamp \in [Facts -> 1..(changes + 1)] /\ version \in [Facts -> 0..changes]
  BY <1>2, FitHolds
<1>4. stamp \in [Facts -> Nat] /\ version \in [Facts -> Nat]
  BY <1>1, <1>3
<1>5. \A i \in DOMAIN txs : txs[i] \in Transactions
  BY <1>2
<1>6. \A i \in DOMAIN txs : /\ txs[i].log \in Logs /\ txs[i].inner \in BOOLEAN
                            /\ txs[i] = [log |-> txs[i].log, inner |-> txs[i].inner]
  BY <1>5 DEF Transactions
<1>7. QED BY <1>1, <1>2, <1>4, <1>6 DEF Inv

LEMMA NothingBefore ==
    ASSUME stamp \in [Facts -> Nat], version \in [Facts -> Nat]
    PROVE  StampsBefore(<<>>, stamp) = stamp /\ VersionsBefore(<<>>, version) = version
<1>0. DOMAIN stamp = Facts /\ DOMAIN version = Facts /\ <<>> \in Logs
  BY EmptyLog
<1>1. /\ StampsBefore(<<>>, stamp)
           = [f \in Facts |-> IF f \in DOMAIN <<>> THEN <<>>[f].stamp ELSE stamp[f]]
      /\ VersionsBefore(<<>>, version)
           = [f \in Facts |-> IF f \in DOMAIN <<>> THEN <<>>[f].version ELSE version[f]]
  BY ONLY <1>0, BeforeHolds
<1>2. DOMAIN <<>> = {}
  BY EmptyLog
<1>3. QED BY <1>1, <1>2

-----------------------------------------------------------------------------
(* The application's transactions *)

\* What was before the open transactions, table by table.
LEMMA OriginalIs ==
    ASSUME txs \in Seq(Transactions), NEW f \in Facts
    PROVE  /\ Len(txs) = 0 => Original[f] = version[f]
           /\ Len(txs) = 1 => Original[f] = IF f \in DOMAIN txs[1].log THEN txs[1].log[f].version
                                            ELSE version[f]
           /\ Len(txs) = 2 => Original[f] = IF f \in DOMAIN txs[1].log THEN txs[1].log[f].version
                                            ELSE IF f \in DOMAIN txs[2].log THEN txs[2].log[f].version
                                            ELSE version[f]
<1>1. txs # <<>> <=> Len(txs) # 0
  BY EmptySeq
<1>2. QED BY <1>1 DEF Original

\* Whoever waits for an update goes on waiting, or has one coming.
LEMMA PendingStep ==
    ASSUME Shape, UNCHANGED <<loaded, order, seen>>, PendingIsScheduled,
           scheduled \/ gaveUp => scheduled' \/ gaveUp',
           \/ scheduled'
           \/ txs' # <<>> /\ txs'[1].inner
           \/ /\ \A f \in Facts : Original'[f] = Original[f]
              /\ txs # <<>> /\ txs[1].inner => txs' # <<>> /\ txs'[1].inner
    PROVE  PendingIsScheduled'
<1>1. SUFFICES ASSUME NEW t \in DOMAIN order \ {AutoTarget}, Behind(t, Original, seen)',
                      ~scheduled', ~(txs' # <<>> /\ txs'[1].inner)
               PROVE  gaveUp'
  BY DEF PendingIsScheduled
<1>2. FactsOf(t)' = FactsOf(t) /\ FactsOf(t) \subseteq Facts
  BY DEF FactsOf, Shape
<1>3. Behind(t, Original, seen)
  BY <1>1, <1>2 DEF Behind
<1>4. scheduled \/ gaveUp \/ (txs # <<>> /\ txs[1].inner)
  BY <1>1, <1>3 DEF PendingIsScheduled
<1>5. QED BY <1>1, <1>4

LEMMA BeginStep ==
    ASSUME Inv, Begin
    PROVE  Inv'
<1> DEFINE x == [log |-> <<>>, inner |-> FALSE]
<1>1. /\ Anchored /\ update = NoUpdate /\ Len(txs) < 2
      /\ txs' = Append(txs, x)
      /\ UNCHANGED <<loaded, order, stamp, factStamps, update, scheduled,
                     version, changes, seen, gaveUp>>
  BY DEF Begin
<1>2. /\ Shape /\ changes \in Nat /\ changes <= MaxChanges
      /\ stamp \in [Facts -> Nat] /\ version \in [Facts -> Nat]
      /\ Fit(changes, stamp, version, factStamps, seen)
      /\ txs \in Seq(Transactions)
      /\ scheduled \in BOOLEAN /\ gaveUp \in BOOLEAN
  BY <1>1, AtRest
<1>3. /\ x \in Transactions /\ x.log = <<>> /\ ~x.inner
      /\ DOMAIN x.log = {}
  BY EmptyLog DEF Transactions
<1> HIDE DEF x
<1>4. /\ txs' \in Seq(Transactions) /\ Len(txs') = Len(txs) + 1 /\ Len(txs') <= 2
      /\ DOMAIN txs' = 1..(Len(txs) + 1) /\ DOMAIN txs = 1..Len(txs) /\ Len(txs) \in Nat
      /\ \A i \in DOMAIN txs : txs'[i] = txs[i]
      /\ txs'[Len(txs) + 1] = x
  BY <1>1, <1>2, <1>3
<1>5. TransactionsFit
  BY DEF Inv
<1>6. ASSUME NEW i \in DOMAIN txs'
      PROVE  /\ DOMAIN txs'[i].log \subseteq loaded.facts
             /\ Fit(changes', StampsBefore(txs'[i].log, stamp'), VersionsBefore(txs'[i].log, version'),
                    factStamps, seen)
             /\ IsNews(DOMAIN txs'[i].log, stamp', factStamps)
             /\ txs'[i].inner => txs'[i].log # <<>>
  <2>1. CASE i \in DOMAIN txs
    BY <1>1, <1>4, <1>5, <2>1 DEF TransactionsFit
  <2>2. CASE i \notin DOMAIN txs
    <3>1. txs'[i] = x
      BY <1>4, <2>2
    <3>2. StampsBefore(<<>>, stamp) = stamp /\ VersionsBefore(<<>>, version) = version
      BY <1>2, NothingBefore
    <3>3. IsNews({}, stamp', factStamps)
      BY DEF IsNews
    <3>4. QED BY <1>1, <1>2, <1>3, <3>1, <3>2, <3>3
  <2>3. QED BY <2>1, <2>2
<1>7. Len(txs') = 2 =>
         /\ ~txs'[2].inner
         /\ txs'[2].log # <<>> => txs'[1].log # <<>>
         /\ DOMAIN txs'[1].log \intersect DOMAIN txs'[2].log = {}
  BY <1>3, <1>4
<1>8. TransactionsFit'
  BY <1>1, <1>4, <1>6, <1>7, TransactionsStep
<1>9. \A f \in Facts : Original'[f] = Original[f]
  <2>1. TAKE f \in Facts
  <2>2. /\ Len(txs) = 0 => Original[f] = version[f]
        /\ Len(txs) = 1 => Original[f] = IF f \in DOMAIN txs[1].log THEN txs[1].log[f].version
                                         ELSE version[f]
    BY <1>2, OriginalIs
  <2>3. /\ txs' # <<>>
        /\ Original'[f] = IF f \in DOMAIN txs'[1].log THEN txs'[1].log[f].version
                          ELSE IF Len(txs') = 2 /\ f \in DOMAIN txs'[2].log THEN txs'[2].log[f].version
                          ELSE version'[f]
    BY <1>4 DEF Original
  <2>4. CASE Len(txs) = 0
    BY <1>1, <1>3, <1>4, <2>2, <2>3, <2>4
  <2>5. CASE Len(txs) = 1
    BY <1>1, <1>3, <1>4, <2>2, <2>3, <2>5
  <2>6. QED BY <1>1, <1>4, <2>4, <2>5
<1>10. txs # <<>> /\ txs[1].inner => txs' # <<>> /\ txs'[1].inner
  BY <1>4
<1>11. PendingIsScheduled'
  <2>1. PendingIsScheduled
    BY <1>1 DEF Inv
  <2>2. QED BY <1>1, <1>2, <1>9, <1>10, <2>1, PendingStep
<1>12. QED BY <1>1, <1>2, <1>8, <1>11, RestStep, RulesetsAreGraphs

LEMMA ChangeStep ==
    ASSUME Habits = {}, Inv, Change
    PROVE  Inv'
<1>1. /\ update = NoUpdate /\ txs # <<>>
      /\ UNCHANGED <<loaded, order, factStamps, update, scheduled, seen, gaveUp>>
  BY DEF Change
<1>2. PICK f \in loaded.facts :
         /\ \A i \in 1..(Len(txs) - 1) : f \notin DOMAIN txs[i].log /\ txs[i].log # <<>>
         /\ ChangeTables({f}, Last(txs).log)
         /\ txs' = [txs EXCEPT ![Len(txs)].log = Logged(@, {f})]
  BY DEF Change
<1>3. Anchored
  BY <1>1 DEF Inv
<1>4. /\ Shape /\ changes \in Nat /\ changes <= MaxChanges
      /\ stamp \in [Facts -> Nat] /\ version \in [Facts -> Nat]
      /\ Fit(changes, stamp, version, factStamps, seen)
      /\ txs \in Seq(Transactions)
      /\ \A i \in DOMAIN txs : /\ txs[i].log \in Logs /\ txs[i].inner \in BOOLEAN
                               /\ txs[i] = [log |-> txs[i].log, inner |-> txs[i].inner]
      /\ scheduled \in BOOLEAN /\ gaveUp \in BOOLEAN
  BY <1>3, AtRest
<1>5. {f} \in SUBSET Facts /\ f \in Facts
  BY <1>2, <1>4 DEF Shape
<1>6. /\ changes' \in Nat /\ changes <= changes' /\ changes' <= MaxChanges
      /\ stamp' \in [Facts -> Nat] /\ version' \in [Facts -> Nat]
      /\ \A e \in {f} : /\ stamp'[e] = IF e \in DOMAIN Last(txs).log THEN stamp[e] ELSE stamp[e] + 1
                        /\ version'[e] \in (changes + 1)..changes'
      /\ \A e \in Facts \ {f} : stamp'[e] = stamp[e] /\ version'[e] = version[e]
  BY <1>2, <1>4, <1>5, ChangeMovesOn
<1> DEFINE n == Len(txs)
           l == Logged(txs[n].log, {f})
<1>7. TransactionsFit
  BY DEF Inv
<1>8. n \in {1, 2} /\ DOMAIN txs = 1..n /\ Last(txs) = txs[n]
  <2>1. n <= 2
    BY <1>7 DEF TransactionsFit
  <2>2. Len(txs) \in Nat /\ Len(txs) # 0 /\ DOMAIN txs = 1..Len(txs)
    BY <1>1, <1>4, EmptySeq
  <2>3. QED BY <2>1, <2>2 DEF Last
<1>9. /\ MovesOn(f, stamp, stamp', factStamps)
      /\ IsNews({f}, stamp', factStamps)
      /\ \A i \in DOMAIN txs : IsNews(DOMAIN txs[i].log, stamp', factStamps)
  <2>1. /\ \A t \in DOMAIN order : \A e \in Facts : factStamps[t][e] \in Nat /\ factStamps[t][e] <= stamp[e]
        /\ \A e \in Facts : stamp[e] \in Nat /\ stamp'[e] \in Nat
    BY <1>4, <1>6, FitHolds
  <2>2. \A i \in DOMAIN txs : /\ DOMAIN txs[i].log \subseteq Facts
                              /\ IsNews(DOMAIN txs[i].log, stamp, factStamps)
    BY <1>4, <1>7 DEF TransactionsFit, Shape
  <2>3. /\ stamp'[f] = IF f \in DOMAIN txs[n].log THEN stamp[f] ELSE stamp[f] + 1
        /\ n \in DOMAIN txs
    BY <1>6, <1>8
  <2> HIDE DEF n
  <2>4. \A e \in Facts : stamp'[e] >= stamp[e]
    BY <1>6, <2>1, <2>3
  <2>5. \A i \in DOMAIN txs : IsNews(DOMAIN txs[i].log, stamp', factStamps)
    BY <2>1, <2>2, <2>4 DEF IsNews
  <2>6. CASE f \in DOMAIN txs[n].log
    <3>1. stamp'[f] = stamp[f] /\ \A t \in DOMAIN order : stamp[f] > factStamps[t][f]
      BY <2>2, <2>3, <2>6 DEF IsNews
    <3>2. QED BY <2>5, <3>1 DEF IsNews, MovesOn
  <2>7. CASE f \notin DOMAIN txs[n].log
    BY <1>5, <2>1, <2>3, <2>5, <2>7 DEF IsNews, MovesOn
  <2>8. QED BY <2>6, <2>7
<1>10. /\ l \in Logs
       /\ DOMAIN l = DOMAIN txs[n].log \union {f}
       /\ \A e \in DOMAIN txs[n].log : l[e] = txs[n].log[e]
       /\ \A e \in {f} \ DOMAIN txs[n].log : l[e].stamp = stamp[e] /\ l[e].version = version[e]
  <2>1. n \in DOMAIN txs
    BY <1>8
  <2>2. txs[n].log \in Logs
    BY <2>1, <1>4
  <2>3. QED BY ONLY <2>2, <1>4, <1>5, LoggedAdds
<1>11. /\ Len(txs') = n /\ DOMAIN txs' = 1..n
       /\ \A i \in 1..(n - 1) : txs'[i] = txs[i]
       /\ txs'[n] = [log |-> l, inner |-> txs[n].inner]
       /\ txs'[n].log = l /\ txs'[n].inner = txs[n].inner
  <2>1. txs' = [txs EXCEPT ![n] = [txs[n] EXCEPT !.log = l]]
    BY <1>2
  <2>2. [txs[n] EXCEPT !.log = l] = [log |-> l, inner |-> txs[n].inner]
    <3>1. n \in DOMAIN txs
      BY <1>8
    <3> HIDE DEF n, l
    <3>2. txs[n] = [log |-> txs[n].log, inner |-> txs[n].inner]
      BY <1>4, <3>1
    <3>3. QED BY ONLY <3>2
  <2> HIDE DEF l
  <2>3. txs' = [txs EXCEPT ![n] = [log |-> l, inner |-> txs[n].inner]]
    BY <2>1, <2>2
  <2>4. QED BY <2>3, <1>4, <1>8
<1> HIDE DEF l
<1>12. txs' \in Seq(Transactions)
  <2>1. \A i \in 1..n : txs'[i] \in Transactions
    BY <1>4, <1>8, <1>10, <1>11 DEF Transactions
  <2>2. txs' = [i \in 1..n |-> txs'[i]]
    BY <1>2, <1>8, <1>11
  <2>3. txs' \in [1..n -> Transactions]
    BY <2>1, <2>2
  <2>4. QED BY <2>3, <1>8
<1>13. ASSUME NEW i \in DOMAIN txs'
       PROVE  /\ DOMAIN txs'[i].log \subseteq loaded.facts
              /\ Fit(changes', StampsBefore(txs'[i].log, stamp'), VersionsBefore(txs'[i].log, version'),
                     factStamps, seen)
              /\ IsNews(DOMAIN txs'[i].log, stamp', factStamps)
              /\ txs'[i].inner => txs'[i].log # <<>>
  <2>1. i \in DOMAIN txs /\ txs[i].log \in Logs
    BY <1>4, <1>8, <1>11
  <2>2. /\ DOMAIN txs[i].log \subseteq loaded.facts
        /\ Fit(changes, StampsBefore(txs[i].log, stamp), VersionsBefore(txs[i].log, version),
               factStamps, seen)
        /\ txs[i].inner => txs[i].log # <<>>
    BY <1>7, <2>1 DEF TransactionsFit
  <2>3. /\ Fit(changes', StampsBefore(Logged(txs[i].log, {f}), stamp'),
                         VersionsBefore(Logged(txs[i].log, {f}), version'), factStamps, seen)
        /\ {f} \intersect DOMAIN txs[i].log = {} =>
              Fit(changes', StampsBefore(txs[i].log, stamp'),
                            VersionsBefore(txs[i].log, version'), factStamps, seen)
    <3> DEFINE S   == {f}
               log == txs[i].log
    <3>1. /\ S \in SUBSET Facts
          /\ \A e \in S : /\ MovesOn(e, stamp, stamp', factStamps)
                         /\ version'[e] \in (changes + 1)..changes'
          /\ \A e \in Facts \ S : stamp'[e] = stamp[e] /\ version'[e] = version[e]
      BY <1>5, <1>6, <1>9
    <3>2. log \in Logs /\ Fit(changes, StampsBefore(log, stamp), VersionsBefore(log, version), factStamps, seen)
      BY <2>1, <2>2
    <3> HIDE DEF S, log
    <3>3. /\ Fit(changes', StampsBefore(Logged(log, S), stamp'),
                           VersionsBefore(Logged(log, S), version'), factStamps, seen)
          /\ S \intersect DOMAIN log = {} =>
                Fit(changes', StampsBefore(log, stamp'), VersionsBefore(log, version'), factStamps, seen)
      BY ONLY <1>4, <1>6, <3>1, <3>2, BeforeFitsAfterChange
    <3>4. QED BY <3>3 DEF S, log
  <2>4. CASE i = n
    <3>1. txs'[i].log = l /\ l # <<>>
      BY <1>10, <1>11, <2>4, EmptyLog
    <3>2. Fit(changes', StampsBefore(l, stamp'), VersionsBefore(l, version'), factStamps, seen)
      BY <2>3, <2>4 DEF l
    <3>3. DOMAIN l \subseteq loaded.facts
      BY <1>10, <1>2, <2>2, <2>4
    <3>4. IsNews(DOMAIN l, stamp', factStamps)
      BY <1>9, <1>10, <2>1, <2>4 DEF IsNews
    <3>5. QED BY <3>1, <3>2, <3>3, <3>4
  <2>5. CASE i # n
    <3>1. txs'[i] = txs[i] /\ i \in 1..(Len(txs) - 1)
      BY <1>8, <1>11, <2>1, <2>5
    <3>2. {f} \intersect DOMAIN txs[i].log = {}
      BY <1>2, <3>1
    <3>3. QED BY <1>9, <2>1, <2>2, <2>3, <3>1, <3>2
  <2>6. QED BY <2>4, <2>5
<1>14. Len(txs') = 2 =>
          /\ ~txs'[2].inner
          /\ txs'[2].log # <<>> => txs'[1].log # <<>>
          /\ DOMAIN txs'[1].log \intersect DOMAIN txs'[2].log = {}
  <2>1. SUFFICES ASSUME n = 2
                 PROVE  /\ ~txs'[2].inner /\ txs'[1].log # <<>>
                        /\ DOMAIN txs'[1].log \intersect DOMAIN txs'[2].log = {}
    BY <1>11
  <2>2. ~txs[2].inner /\ DOMAIN txs[1].log \intersect DOMAIN txs[2].log = {}
    BY <1>7, <2>1 DEF TransactionsFit
  <2>3. f \notin DOMAIN txs[1].log /\ txs[1].log # <<>>
    BY <1>2, <2>1
  <2>4. txs'[1] = txs[1] /\ txs'[2].log = l /\ txs'[2].inner = txs[2].inner
    BY <1>11, <2>1
  <2>5. DOMAIN l = DOMAIN txs[2].log \union {f}
    BY <1>10, <2>1
  <2>6. QED BY <2>2, <2>3, <2>4, <2>5
<1>15. TransactionsFit'
  BY <1>1, <1>8, <1>11, <1>12, <1>13, <1>14, TransactionsStep
<1>16. \A e \in Facts : Original'[e] = Original[e]
  <2>1. TAKE e \in Facts
  <2>2. /\ n = 1 => Original[e] = IF e \in DOMAIN txs[1].log THEN txs[1].log[e].version
                                  ELSE version[e]
        /\ n = 2 => Original[e] = IF e \in DOMAIN txs[1].log THEN txs[1].log[e].version
                                  ELSE IF e \in DOMAIN txs[2].log THEN txs[2].log[e].version
                                  ELSE version[e]
    BY <1>4, OriginalIs
  <2>3. txs' # <<>>
    BY <1>8, <1>11, <1>12, EmptySeq
  <2>4. Original'[e] = IF e \in DOMAIN txs'[1].log THEN txs'[1].log[e].version
                       ELSE IF Len(txs') = 2 /\ e \in DOMAIN txs'[2].log THEN txs'[2].log[e].version
                       ELSE version'[e]
    BY <2>3 DEF Original
  <2>5. e # f => version'[e] = version[e]
    BY <1>6
  <2>6. CASE n = 1
    BY <1>10, <1>11, <2>2, <2>4, <2>5, <2>6
  <2>7. CASE n = 2
    BY <1>10, <1>11, <2>2, <2>4, <2>5, <2>7
  <2>8. QED BY <1>8, <2>6, <2>7
<1>17. txs # <<>> /\ txs[1].inner => txs' # <<>> /\ txs'[1].inner
  BY <1>8, <1>11, <1>12, EmptySeq
<1>18. PendingIsScheduled'
  <2>1. PendingIsScheduled
    BY <1>1 DEF Inv
  <2>2. QED BY <1>1, <1>4, <1>16, <1>17, <2>1, PendingStep
<1>19. Fit(changes', stamp', version', factStamps', seen')
  <2>1. Fit(changes', stamp', version', factStamps, seen)
    <3> DEFINE S == {f}
    <3>1. /\ S \in SUBSET Facts
          /\ \A e \in S : /\ MovesOn(e, stamp, stamp', factStamps)
                         /\ version'[e] \in (changes + 1)..changes'
          /\ \A e \in Facts \ S : stamp'[e] = stamp[e] /\ version'[e] = version[e]
      BY <1>5, <1>6, <1>9
    <3> HIDE DEF S
    <3>2. /\ Shape /\ Fit(changes, stamp, version, factStamps, seen)
          /\ changes \in Nat /\ changes' \in Nat /\ changes <= changes'
          /\ stamp' \in [Facts -> Nat] /\ version' \in [Facts -> Nat]
      BY <1>4, <1>6
    <3>3. QED BY ONLY <3>1, <3>2, FitAfterChange
  <2>2. factStamps' = factStamps /\ seen' = seen
    BY <1>1
  <2>3. QED BY <2>1, <2>2
<1>20. QED BY <1>1, <1>3, <1>4, <1>6, <1>15, <1>18, <1>19, RestStep, RulesetsAreGraphs

LEMMA CommitStep ==
    ASSUME Inv, Commit
    PROVE  Inv'
<1> DEFINE n       == Len(txs)
           changed == txs[n].log # <<>>
           ended   == Ended(txs[n].log, n)
<1>1. /\ update = NoUpdate /\ txs # <<>>
      /\ scheduled' = (scheduled \/ ended)
      /\ gaveUp' = (gaveUp /\ ~ended)
      /\ txs' = Outer(changed)
      /\ UNCHANGED <<loaded, order, stamp, factStamps, update, version, changes, seen>>
  BY DEF Commit, Schedule, Last
<1>2. ended = (changed /\ n = 1)
  BY DEF Ended
<1> HIDE DEF ended
<1>3. Anchored
  BY <1>1 DEF Inv
<1>4. /\ Shape /\ changes \in Nat /\ changes <= MaxChanges
      /\ stamp \in [Facts -> Nat] /\ version \in [Facts -> Nat]
      /\ Fit(changes, stamp, version, factStamps, seen)
      /\ txs \in Seq(Transactions)
      /\ \A i \in DOMAIN txs : /\ txs[i].log \in Logs /\ txs[i].inner \in BOOLEAN
                               /\ txs[i] = [log |-> txs[i].log, inner |-> txs[i].inner]
      /\ scheduled \in BOOLEAN /\ gaveUp \in BOOLEAN
  BY <1>3, AtRest
<1>5. TransactionsFit
  BY DEF Inv
<1>6. n \in {1, 2} /\ DOMAIN txs = 1..n
  <2>1. n <= 2
    BY <1>5 DEF TransactionsFit
  <2>2. Len(txs) \in Nat /\ Len(txs) # 0 /\ DOMAIN txs = 1..Len(txs)
    BY <1>1, <1>4, EmptySeq
  <2>3. QED BY <2>1, <2>2
<1>7. Fit(changes', stamp', version', factStamps', seen')
  BY <1>1, <1>4
<1>8. scheduled' \in BOOLEAN /\ gaveUp' \in BOOLEAN /\ changes' \in 0..MaxChanges
  BY <1>1, <1>2, <1>4, RulesetsAreGraphs
<1>9. PendingIsScheduled
  BY <1>1 DEF Inv
<1>10. scheduled \/ gaveUp => scheduled' \/ gaveUp'
  BY <1>1
<1>11. CASE n = 1
  <2>1. txs' = <<>> /\ Len(txs') = 0 /\ DOMAIN txs' = {}
    BY <1>1, <1>11 DEF Outer
  <2>2. txs' \in Seq(Transactions)
    BY <2>1
  <2>3. TransactionsFit'
    <3>1. /\ Len(txs') <= 2 /\ ~(Len(txs') = 2)
          /\ \A i : i \notin DOMAIN txs'
      BY <2>1
    <3>2. QED BY <1>1, <2>2, <3>1, TransactionsStep
  <2>4. CASE changed
    <3>1. scheduled'
      BY <1>1, <1>2, <1>11, <2>4
    <3>2. PendingIsScheduled'
      BY <1>1, <1>4, <1>9, <1>10, <3>1, PendingStep
    <3>3. QED BY <1>1, <1>3, <1>7, <1>8, <2>3, <3>2, RestStep
  <2>5. CASE ~changed
    <3>1. txs[1].log = <<>> /\ ~txs[1].inner
      BY <1>5, <1>6, <1>11, <2>5 DEF TransactionsFit
    <3>2. DOMAIN txs[1].log = {}
      BY <3>1, EmptyLog
    <3>3. \A f \in Facts : Original'[f] = Original[f]
      <4>1. TAKE f \in Facts
      <4>2. Original[f] = IF f \in DOMAIN txs[1].log THEN txs[1].log[f].version ELSE version[f]
        BY <1>4, <1>11, OriginalIs
      <4>3. Original[f] = version[f]
        BY <4>2, <3>2
      <4>4. Original'[f] = version'[f]
        BY <2>1 DEF Original
      <4>5. QED BY <1>1, <4>3, <4>4
    <3>4. PendingIsScheduled'
      BY <1>1, <1>4, <1>9, <1>10, <3>1, <3>3, PendingStep
    <3>5. QED BY <1>1, <1>3, <1>7, <1>8, <2>3, <3>4, RestStep
  <2>6. QED BY <2>4, <2>5
<1>12. CASE n = 2
  <2> DEFINE x == [txs[1] EXCEPT !.inner = @ \/ changed]
  <2>1. x = [log |-> txs[1].log, inner |-> txs[1].inner \/ changed]
    BY <1>4, <1>6, <1>12
  <2>2. x \in Transactions /\ x.log = txs[1].log /\ x.inner = (txs[1].inner \/ changed)
    <3>1. (txs[1].inner \/ changed) \in BOOLEAN
      OBVIOUS
    <3> HIDE DEF changed, x
    <3>2. txs[1].log \in Logs
      BY <1>4, <1>6, <1>12
    <3>3. QED BY <2>1, <3>1, <3>2 DEF Transactions
  <2>3. txs' = <<x>>
    BY <1>1, <1>12 DEF Outer
  <2> HIDE DEF x
  <2>4. /\ txs' \in Seq(Transactions) /\ Len(txs') = 1 /\ DOMAIN txs' = {1} /\ txs'[1] = x
        /\ txs' # <<>>
    BY <2>2, <2>3
  <2>5. /\ DOMAIN txs[1].log \subseteq loaded.facts
        /\ Fit(changes, StampsBefore(txs[1].log, stamp), VersionsBefore(txs[1].log, version),
               factStamps, seen)
        /\ IsNews(DOMAIN txs[1].log, stamp, factStamps)
        /\ txs[1].inner => txs[1].log # <<>>
        /\ txs[2].log # <<>> => txs[1].log # <<>>
    BY <1>5, <1>6, <1>12 DEF TransactionsFit
  <2>6. TransactionsFit'
    <3>1. changed <=> txs[2].log # <<>>
      BY <1>12
    <3>2. /\ DOMAIN txs'[1].log \subseteq loaded.facts
          /\ Fit(changes', StampsBefore(txs'[1].log, stamp'), VersionsBefore(txs'[1].log, version'),
                 factStamps, seen)
          /\ IsNews(DOMAIN txs'[1].log, stamp', factStamps)
          /\ txs'[1].inner => txs'[1].log # <<>>
      BY <1>1, <2>2, <2>4, <2>5, <3>1
    <3>3. /\ Len(txs') <= 2 /\ ~(Len(txs') = 2)
          /\ \A i \in DOMAIN txs' : i = 1
      BY <2>4
    <3>4. QED BY <1>1, <2>4, <3>2, <3>3, TransactionsStep
  <2>7. PendingIsScheduled'
    <3>1. CASE changed
      BY <1>1, <1>4, <1>9, <1>10, <2>2, <2>4, <3>1, PendingStep
    <3>2. CASE ~changed
      <4>1. DOMAIN txs[2].log = {}
        BY <1>12, <3>2, EmptyLog
      <4>2. \A f \in Facts : Original'[f] = Original[f]
        <5>1. TAKE f \in Facts
        <5>2. Original[f] = IF f \in DOMAIN txs[1].log THEN txs[1].log[f].version
                            ELSE IF f \in DOMAIN txs[2].log THEN txs[2].log[f].version
                            ELSE version[f]
          BY <1>4, <1>12, OriginalIs
        <5>3. Original'[f] = IF f \in DOMAIN x.log THEN x.log[f].version ELSE version'[f]
          BY <2>4 DEF Original
        <5>4. QED BY <1>1, <2>2, <4>1, <5>2, <5>3
      <4>3. txs[1].inner => txs' # <<>> /\ txs'[1].inner
        BY <2>2, <2>4
      <4>4. QED BY <1>1, <1>4, <1>9, <1>10, <4>2, <4>3, PendingStep
    <3>3. QED BY <3>1, <3>2
  <2>8. QED BY <1>1, <1>3, <1>7, <1>8, <2>6, <2>7, RestStep
<1>13. QED BY <1>6, <1>11, <1>12

LEMMA RollbackStep ==
    ASSUME Habits = {}, Inv, Rollback
    PROVE  Inv'
<1> DEFINE n   == Len(txs)
           log == txs[n].log
<1>1. /\ update = NoUpdate /\ txs # <<>> /\ ~txs[n].inner
      /\ stamp' = StampsBefore(log, stamp)
      /\ version' = VersionsBefore(log, version)
      /\ txs' = Outer(FALSE)
      /\ UNCHANGED <<loaded, order, factStamps, update, scheduled, changes, seen, gaveUp>>
  BY DEF Rollback, Undo, Last, StampsBefore, VersionsBefore
<1>2. Anchored
  BY <1>1 DEF Inv
<1>3. /\ Shape /\ changes \in Nat /\ changes <= MaxChanges
      /\ stamp \in [Facts -> Nat] /\ version \in [Facts -> Nat]
      /\ Fit(changes, stamp, version, factStamps, seen)
      /\ txs \in Seq(Transactions)
      /\ \A i \in DOMAIN txs : /\ txs[i].log \in Logs /\ txs[i].inner \in BOOLEAN
                               /\ txs[i] = [log |-> txs[i].log, inner |-> txs[i].inner]
      /\ scheduled \in BOOLEAN /\ gaveUp \in BOOLEAN
  BY <1>2, AtRest
<1>4. TransactionsFit
  BY DEF Inv
<1>5. n \in {1, 2} /\ DOMAIN txs = 1..n
  <2>1. n <= 2
    BY <1>4 DEF TransactionsFit
  <2>2. Len(txs) \in Nat /\ Len(txs) # 0 /\ DOMAIN txs = 1..Len(txs)
    BY <1>1, <1>3, EmptySeq
  <2>3. QED BY <2>1, <2>2
<1>6. log \in Logs /\ Fit(changes, stamp', version', factStamps, seen)
  BY <1>1, <1>3, <1>4, <1>5 DEF TransactionsFit
<1>7. Fit(changes', stamp', version', factStamps', seen')
  BY <1>1, <1>6
<1>8. scheduled' \in BOOLEAN /\ gaveUp' \in BOOLEAN /\ changes' \in 0..MaxChanges
  BY <1>1, <1>3, RulesetsAreGraphs
<1>9. PendingIsScheduled
  BY <1>1 DEF Inv
<1> HIDE DEF log
<1>10. /\ stamp' = [f \in Facts |-> IF f \in DOMAIN log THEN log[f].stamp ELSE stamp[f]]
       /\ version' = [f \in Facts |-> IF f \in DOMAIN log THEN log[f].version ELSE version[f]]
  <2>1. DOMAIN stamp = Facts /\ DOMAIN version = Facts
    BY <1>3
  <2>2. QED BY ONLY <2>1, <1>1, <1>6, BeforeHolds
<1>11. CASE n = 1
  <2>1. txs' = <<>> /\ Len(txs') = 0 /\ DOMAIN txs' = {}
    BY <1>1, <1>11 DEF Outer
  <2>2. txs' \in Seq(Transactions)
    BY <2>1
  <2>3. TransactionsFit'
    <3>1. /\ Len(txs') <= 2 /\ ~(Len(txs') = 2)
          /\ \A i : i \notin DOMAIN txs'
      BY <2>1
    <3>2. QED BY <1>1, <2>2, <3>1, TransactionsStep
  <2>4. \A f \in Facts : Original'[f] = Original[f]
    <3>1. TAKE f \in Facts
    <3>2. Original[f] = IF f \in DOMAIN txs[1].log THEN txs[1].log[f].version ELSE version[f]
      BY <1>3, <1>11, OriginalIs
    <3>3. Original'[f] = version'[f]
      BY <2>1 DEF Original
    <3>4. QED BY <1>10, <1>11, <3>2, <3>3 DEF log
  <2>5. PendingIsScheduled'
    BY <1>1, <1>3, <1>9, <1>11, <2>4, PendingStep
  <2>6. QED BY <1>1, <1>2, <1>7, <1>8, <2>3, <2>5, RestStep
<1>12. CASE n = 2
  <2> DEFINE x == [txs[1] EXCEPT !.inner = @ \/ FALSE]
             l == txs[1].log
  <2>1. x = [log |-> l, inner |-> txs[1].inner]
    BY <1>3, <1>5, <1>12
  <2>2. x \in Transactions /\ x.log = l /\ x.inner = txs[1].inner /\ l \in Logs
    BY <2>1, <1>3, <1>5, <1>12 DEF Transactions
  <2>3. txs' = <<x>>
    BY <1>1, <1>12 DEF Outer
  <2> HIDE DEF x
  <2>4. /\ txs' \in Seq(Transactions) /\ Len(txs') = 1 /\ DOMAIN txs' = {1} /\ txs'[1] = x
        /\ txs' # <<>>
    BY <2>2, <2>3
  <2>5. /\ DOMAIN l \subseteq loaded.facts
        /\ Fit(changes, StampsBefore(l, stamp), VersionsBefore(l, version), factStamps, seen)
        /\ IsNews(DOMAIN l, stamp, factStamps) /\ DOMAIN l \intersect DOMAIN log = {}
        /\ txs[1].inner => l # <<>>
    BY <1>4, <1>5, <1>12 DEF TransactionsFit, log
  <2> HIDE DEF l
  <2>6. Fit(changes', StampsBefore(l, stamp'), VersionsBefore(l, version'), factStamps, seen)
    <3> DEFINE st   == StampsBefore(l, stamp)
               ver  == VersionsBefore(l, version)
               st3  == StampsBefore(l, stamp')
               ver3 == VersionsBefore(l, version')
    <3>1. /\ DOMAIN stamp = Facts /\ DOMAIN version = Facts
          /\ DOMAIN stamp' = Facts /\ DOMAIN version' = Facts
      BY <1>3, <1>10
    <3>2. /\ st = [f \in Facts |-> IF f \in DOMAIN l THEN l[f].stamp ELSE stamp[f]]
          /\ ver = [f \in Facts |-> IF f \in DOMAIN l THEN l[f].version ELSE version[f]]
      BY ONLY <3>1, <2>2, BeforeHolds
    <3>3. /\ st3 = [f \in Facts |-> IF f \in DOMAIN l THEN l[f].stamp ELSE stamp'[f]]
          /\ ver3 = [f \in Facts |-> IF f \in DOMAIN l THEN l[f].version ELSE version'[f]]
      BY ONLY <3>1, <2>2, BeforeHolds
    <3> HIDE DEF st, ver, st3, ver3
    <3> DEFINE D == DOMAIN l
    <3>4. /\ st3 = [f \in Facts |-> IF f \in D THEN st[f] ELSE stamp'[f]]
          /\ ver3 = [f \in Facts |-> IF f \in D THEN ver[f] ELSE version'[f]]
      BY <3>2, <3>3
    <3> HIDE DEF D
    <3>5. Fit(changes, st, ver, factStamps, seen)
      BY <2>5 DEF st, ver
    <3>6. Fit(changes, st3, ver3, factStamps, seen)
      <4>1. Shape /\ changes \in Nat /\ Fit(changes, stamp', version', factStamps, seen)
        BY <1>3, <1>6
      <4>2. QED BY ONLY <3>4, <3>5, <4>1, FitMixed
    <3>7. QED BY <1>1, <3>6 DEF st3, ver3
  <2>7. TransactionsFit'
    <3>1. /\ DOMAIN txs'[1].log \subseteq loaded.facts
          /\ Fit(changes', StampsBefore(txs'[1].log, stamp'), VersionsBefore(txs'[1].log, version'),
                 factStamps, seen)
          /\ txs'[1].inner => txs'[1].log # <<>>
      BY <2>2, <2>4, <2>5, <2>6
    <3>2. IsNews(DOMAIN txs'[1].log, stamp', factStamps)
      <4>1. DOMAIN l \subseteq Facts /\ txs'[1].log = l
        BY <1>3, <2>2, <2>4, <2>5 DEF Shape
      <4>2. \A f \in DOMAIN l : stamp'[f] = stamp[f]
        BY <1>10, <2>5, <4>1
      <4>3. QED BY <2>5, <4>1, <4>2 DEF IsNews
    <3>3. /\ Len(txs') <= 2 /\ ~(Len(txs') = 2)
          /\ \A i \in DOMAIN txs' : i = 1
      BY <2>4
    <3>4. QED BY <1>1, <2>4, <3>1, <3>2, <3>3, TransactionsStep
  <2>8. \A f \in Facts : Original'[f] = Original[f]
    <3>1. TAKE f \in Facts
    <3>2. Original[f] = IF f \in DOMAIN l THEN l[f].version
                        ELSE IF f \in DOMAIN log THEN log[f].version
                        ELSE version[f]
      BY <1>3, <1>12, OriginalIs DEF log, l
    <3>3. Original'[f] = IF f \in DOMAIN x.log THEN x.log[f].version ELSE version'[f]
      BY <2>4 DEF Original
    <3>4. QED BY <1>10, <2>2, <3>2, <3>3
  <2>9. txs[1].inner => txs' # <<>> /\ txs'[1].inner
    BY <2>2, <2>4
  <2>10. PendingIsScheduled'
    BY <1>1, <1>3, <1>9, <2>8, <2>9, PendingStep
  <2>11. QED BY <1>1, <1>2, <1>7, <1>8, <2>7, <2>10, RestStep
<1>13. QED BY <1>5, <1>11, <1>12

-----------------------------------------------------------------------------
(* The invariant in updates *)

LEMMA OlderHolds ==
    /\ \A t : OlderThanFacts(t) <=> Older(t, stamp, factStamps)
    /\ \A d : Wanted(d) <=> IF d = update.target THEN update.needs_update
                            ELSE Older(d, stamp, factStamps)
BY DEF Wanted, OlderThanFacts, Older

\* What the invariant says during an update.
LEMMA InUpdate ==
    ASSUME Inv, update # NoUpdate
    PROVE  /\ Shape /\ Anchored /\ changes \in Nat /\ changes <= MaxChanges
           /\ stamp \in [Facts -> Nat] /\ version \in [Facts -> Nat]
           /\ Fit(changes, stamp, version, factStamps, seen)
           /\ txs = <<>>
           /\ scheduled \in BOOLEAN /\ gaveUp \in BOOLEAN
           /\ update.target \in loaded.targets /\ update.target \in DOMAIN order
           /\ update \in Updates(update.target)
           /\ update.log \in Logs /\ DOMAIN update.log \subseteq loaded.facts
           /\ Fit(changes, StampsBefore(update.log, stamp), VersionsBefore(update.log, version),
                  Over(update.fact_stamps, factStamps), Over(update.seen, seen))
           /\ Listed \in Seq(loaded.targets) /\ Len(Listed) \in Nat
           /\ update.at \in 1..(Len(Listed) + 1)
           /\ update.ok \in BOOLEAN /\ update.needs_update \in BOOLEAN
           /\ update.ran \in Seq(Checked(update.target))
<1>1. /\ Anchored /\ txs = <<>>
      /\ CanFail(update, changes, stamp, version, factStamps, seen)
      /\ scheduled \in BOOLEAN /\ gaveUp \in BOOLEAN
  BY DEF Inv
<1>2. /\ Shape /\ changes \in Nat /\ changes <= MaxChanges
      /\ stamp \in [Facts -> Nat] /\ version \in [Facts -> Nat]
      /\ Fit(changes, stamp, version, factStamps, seen)
  BY <1>1, AtRest
<1>3. /\ update.target \in loaded.targets
      /\ update \in Updates(update.target)
      /\ DOMAIN update.log \subseteq loaded.facts
      /\ Fit(changes, StampsBefore(update.log, stamp), VersionsBefore(update.log, version),
             Over(update.fact_stamps, factStamps), Over(update.seen, seen))
  BY <1>1 DEF CanFail
<1>4. /\ update.target \in DOMAIN order
      /\ order[update.target].update_targets \in Seq(loaded.targets)
  BY <1>2, <1>3 DEF Shape
<1>5. Listed \in Seq(loaded.targets) /\ Len(Listed) \in Nat
  BY <1>4 DEF Listed
<1>6. /\ update.log \in Logs
      /\ update.at \in 1..(Len(Listed) + 1)
      /\ update.ok \in BOOLEAN /\ update.needs_update \in BOOLEAN
      /\ update.ran \in Seq(Checked(update.target))
  BY <1>3 DEF Updates, Listed
<1>7. QED BY <1>1, <1>2, <1>3, <1>4, <1>5, <1>6

\* What a step to or within an update must see to.
LEMMA UpdateStep ==
    ASSUME Inv, UNCHANGED <<loaded, order>>, Anchored, txs' = <<>>,
           scheduled' \in BOOLEAN, gaveUp' \in BOOLEAN, changes' \in 0..MaxChanges,
           Fit(changes', stamp', version', factStamps', seen'),
           CanFail(update', changes', stamp', version', factStamps', seen'),
           update'.ok => GoesWell(update', stamp', version', factStamps', seen', scheduled' \/ gaveUp')
    PROVE  Inv'
<1>1. /\ Fit(changes, stamp, version, factStamps, seen)'
      /\ Shape' <=> Shape
      /\ Running' <=> Running
      /\ Anchored'
      /\ \A t : FactsOf(t)' = FactsOf(t) /\ Checked(t)' = Checked(t)
      /\ \A t : DependsOn(loaded, t)' = DependsOn(loaded, t)
  BY FitSame
<1>2. Running => Shape
  BY DEF Inv
<1>3. update' # NoUpdate
  <2>1. update' \in Updates(update'.target)
    BY DEF CanFail
  <2>2. "ok" \in DOMAIN update'
    BY <2>1 DEF Updates
  <2>3. "ok" \notin DOMAIN NoUpdate
    BY DEF NoUpdate
  <2>4. QED BY <2>2, <2>3
<1>4. CanFail(update, changes, stamp, version, factStamps, seen)'
  <2>1. /\ update'.target \in loaded'.targets
        /\ DOMAIN update'.log \subseteq loaded'.facts
    BY DEF CanFail
  <2>2. (update \in Updates(update.target))'
    BY <1>1 DEF CanFail, Updates
  <2>3. /\ StampsBefore(update.log, stamp)' = StampsBefore(update'.log, stamp')
        /\ VersionsBefore(update.log, version)' = VersionsBefore(update'.log, version')
        /\ Over(update.fact_stamps, factStamps)' = Over(update'.fact_stamps, factStamps')
        /\ Over(update.seen, seen)' = Over(update'.seen, seen')
    BY DEF StampsBefore, VersionsBefore, Over
  <2>4. Fit(changes, StampsBefore(update.log, stamp), VersionsBefore(update.log, version),
            Over(update.fact_stamps, factStamps), Over(update.seen, seen))'
    <3>1. Fit(changes', StampsBefore(update'.log, stamp'), VersionsBefore(update'.log, version'),
              Over(update'.fact_stamps, factStamps'), Over(update'.seen, seen'))
      BY DEF CanFail
    <3>2. QED BY <1>1, <2>3, <3>1 DEF Fit
  <2>5. QED BY <2>1, <2>2, <2>4 DEF CanFail
<1>5. ASSUME update'.ok
      PROVE  GoesWell(update, stamp, version, factStamps, seen, scheduled \/ gaveUp)'
  <2>1. \A t : Todo(update, t)' <=> Todo(update', t)
    BY DEF Todo
  <2>2. \A t : /\ Older(t, stamp, factStamps)' <=> Older(t, stamp', factStamps')
               /\ Older(update.target, stamp, factStamps)'
                    <=> Older(update'.target, stamp', factStamps')
    BY <1>1 DEF Older
  <2>3. \A t : Wants(update, t, stamp, factStamps)' <=> Wants(update', t, stamp', factStamps')
    BY <2>2 DEF Wants
  <2>4. \A t : Behind(t, version, seen)' <=> Behind(t, version', seen')
    BY <1>1 DEF Behind
  <2>5. GoesWell(update', stamp', version', factStamps', seen', scheduled' \/ gaveUp')
    BY <1>5
  <2>6. (\A f \in DOMAIN update.log : \A t \in DOMAIN order :
            stamp[f] > factStamps[t][f]
              \/ \E k \in 1..(update.at - 1) : order[update.target].update_targets[k] = t)'
    BY <2>5 DEF GoesWell
  <2>7. QED BY <1>1, <2>1, <2>2, <2>3, <2>4, <2>5, <2>6 DEF GoesWell
<1>6. TransactionsFit'
  <2>1. txs' \in Seq(Transactions) /\ Len(txs') = 0 /\ DOMAIN txs' = {}
    OBVIOUS
  <2>2. QED BY <2>1 DEF TransactionsFit
<1>7. (update # NoUpdate)'
  BY <1>3 DEF NoUpdate
<1>8. QED BY <1>1, <1>2, <1>4, <1>5, <1>6, <1>7 DEF Inv

\* An update begins with nothing done, and everything behind on its way.
LEMMA UpdateBegins ==
    ASSUME Inv, Anchored, update = NoUpdate, txs = <<>>, NEW t \in loaded.targets, UpdateTarget(t),
           UNCHANGED <<loaded, order, stamp, factStamps, txs, version, changes, seen, gaveUp>>,
           scheduled' \in BOOLEAN,
           \A u \in DOMAIN order \ {AutoTarget} :
              Behind(u, version, seen) => scheduled' \/ gaveUp \/ u \in Checked(t)
    PROVE  Inv'
<1> DEFINE L == order[t].update_targets
           s == [d \in Checked(t) |-> factStamps[d]]
           w == [d \in Checked(t) |-> seen[d]]
           n == OlderThanFacts(t)
<1>1. /\ Shape /\ changes \in Nat /\ changes <= MaxChanges
      /\ stamp \in [Facts -> Nat] /\ version \in [Facts -> Nat]
      /\ Fit(changes, stamp, version, factStamps, seen)
      /\ gaveUp \in BOOLEAN
  BY AtRest
<1>2. /\ factStamps \in [DOMAIN order -> [Facts -> Nat]]
      /\ seen \in [DOMAIN order -> [Facts -> 0..changes]]
  BY <1>1, FitHolds
<1>3. /\ DOMAIN order = loaded.targets
      /\ L \in Seq(loaded.targets) /\ Len(L) \in Nat /\ DOMAIN L = 1..Len(L)
      /\ Checked(t) \subseteq loaded.targets
  BY <1>1 DEF Shape, Checked, ToSet
<1>4. /\ n \in BOOLEAN
      /\ s \in [Checked(t) -> [Facts -> Nat]]
      /\ w \in [Checked(t) -> [Facts -> Nat]]
  <2>1. \A d \in Checked(t) : factStamps[d] \in [Facts -> Nat] /\ seen[d] \in [Facts -> Nat]
    BY <1>1, <1>2, <1>3
  <2>2. QED BY <2>1 DEF OlderThanFacts
<1>5. /\ Over(s, factStamps) = factStamps
      /\ Over(w, seen) = seen
  <2>1. /\ \A d \in Checked(t) : s[d] = factStamps[d] /\ w[d] = seen[d]
        /\ DOMAIN s = Checked(t) /\ DOMAIN w = Checked(t)
        /\ DOMAIN factStamps = loaded.targets /\ DOMAIN seen = loaded.targets
        /\ factStamps = [d \in loaded.targets |-> factStamps[d]]
        /\ seen = [d \in loaded.targets |-> seen[d]]
    BY <1>2, <1>3
  <2>2. Checked(t) \union loaded.targets = loaded.targets
    BY <1>3
  <2> HIDE DEF s, w
  <2>3. QED BY <2>1, <2>2 DEF Over
<1>6. update' = [target |-> t, at |-> 1, needs_update |-> n, ok |-> TRUE,
                 log |-> <<>>, ran |-> <<>>, fact_stamps |-> s, seen |-> w]
  BY DEF UpdateTarget
<1> HIDE DEF s, w, n
<1>7. /\ update'.target = t /\ update'.at = 1 /\ update'.needs_update = n /\ update'.ok
      /\ update'.log = <<>> /\ update'.ran = <<>> /\ update'.fact_stamps = s /\ update'.seen = w
  BY <1>6
<1>8. update' \in Updates(t)
  <2>1. <<>> \in Logs /\ <<>> \in Seq(Checked(t))
    BY EmptyLog
  <2>2. 1 \in 1..(Len(order[t].update_targets) + 1)
    BY <1>3
  <2>3. QED BY <1>4, <1>6, <2>1, <2>2 DEF Updates
<1>9. CanFail(update', changes', stamp', version', factStamps', seen')
  <2>1. StampsBefore(<<>>, stamp) = stamp /\ VersionsBefore(<<>>, version) = version
    BY <1>1, NothingBefore
  <2>2. Fit(changes', StampsBefore(update'.log, stamp'), VersionsBefore(update'.log, version'),
            Over(update'.fact_stamps, factStamps'), Over(update'.seen, seen'))
    BY <1>1, <1>5, <1>7, <2>1
  <2>3. DOMAIN update'.log \subseteq loaded.facts
    BY <1>7, EmptyLog
  <2>4. QED BY <1>7, <1>8, <2>2, <2>3 DEF CanFail
<1>10. GoesWell(update', stamp', version', factStamps', seen', scheduled' \/ gaveUp')
  <2>1. ASSUME NEW u \in DOMAIN order \ {AutoTarget}, Behind(u, version', seen')
        PROVE  scheduled' \/ gaveUp' \/ Todo(update', u)
    <3>1. Behind(u, version, seen)
      BY <2>1
    <3>2. scheduled' \/ gaveUp \/ u \in Checked(t)
      BY <3>1
    <3>3. u \in Checked(t) => Todo(update', u)
      BY <1>3, <1>7 DEF Todo, Checked, ToSet
    <3>4. QED BY <3>2, <3>3
  <2>2. ~update'.needs_update => ~Older(update'.target, stamp', factStamps')
    BY <1>7, OlderHolds DEF n
  <2>3. 1..(update'.at - 1) = {} /\ DOMAIN update'.ran = {} /\ DOMAIN update'.log = {}
    BY <1>7, EmptyLog
  <2>4. QED BY <2>1, <2>2, <2>3 DEF GoesWell
<1>11. changes' \in 0..MaxChanges /\ gaveUp' \in BOOLEAN
  BY <1>1, RulesetsAreGraphs
<1>12. Fit(changes', stamp', version', factStamps', seen')
  BY <1>1
<1>13. QED BY <1>9, <1>10, <1>11, <1>12, UpdateStep

\* Without a transaction what is behind has an update coming.
LEMMA BehindIsScheduled ==
    ASSUME Inv, Anchored, update = NoUpdate, txs = <<>>,
           NEW u \in DOMAIN order \ {AutoTarget}, Behind(u, version, seen)
    PROVE  scheduled \/ gaveUp
<1>1. PendingIsScheduled
  BY DEF Inv
<1>2. FactsOf(u) \subseteq Facts
  BY AtRest DEF Shape
<1>3. \A f \in Facts : Original[f] = version[f]
  BY DEF Original
<1>4. Behind(u, Original, seen)
  BY <1>2, <1>3 DEF Behind
<1>5. QED BY <1>1, <1>4 DEF PendingIsScheduled

LEMMA ResolveStep ==
    ASSUME Habits = {}, Inv, Resolve
    PROVE  Inv'
<1>1. /\ Anchored /\ update = NoUpdate /\ txs = <<>>
      /\ UNCHANGED <<loaded, order, stamp, factStamps, txs, scheduled,
                     version, changes, seen, gaveUp>>
  BY DEF Resolve
<1>2. PICK t \in loaded.targets : UpdateTarget(t)
  BY DEF Resolve
<1>3. \A u \in DOMAIN order \ {AutoTarget} :
         Behind(u, version, seen) => scheduled' \/ gaveUp \/ u \in Checked(t)
  BY <1>1, BehindIsScheduled
<1>4. scheduled' \in BOOLEAN
  BY <1>1 DEF Inv
<1>5. QED BY <1>1, <1>2, <1>3, <1>4, UpdateBegins

LEMMA AutoUpdateStep ==
    ASSUME Habits = {}, Inv, AutoUpdate
    PROVE  Inv'
<1>1. /\ update = NoUpdate /\ scheduled /\ txs = <<>>
      /\ scheduled' = FALSE
      /\ UpdateTarget(AutoTarget)
      /\ UNCHANGED <<loaded, order, stamp, factStamps, txs, version, changes, seen, gaveUp>>
  BY DEF AutoUpdate
<1>2. Anchored
  BY <1>1 DEF Inv
<1>3. Shape
  BY <1>2, AtRest
<1>4. AutoTarget \in loaded.targets
  BY <1>3 DEF Shape
<1>5. \A u \in DOMAIN order \ {AutoTarget} : Behind(u, version, seen) => u \in Checked(AutoTarget)
  BY <1>3 DEF Shape, Behind
<1>6. QED BY <1>1, <1>2, <1>4, <1>5, UpdateBegins

LEMMA UpdateIsRecord ==
    ASSUME NEW t, NEW u \in Updates(t)
    PROVE  /\ u = [target |-> u.target, at |-> u.at, needs_update |-> u.needs_update, ok |-> u.ok,
                   log |-> u.log, ran |-> u.ran, fact_stamps |-> u.fact_stamps, seen |-> u.seen]
           /\ u.target = t
           /\ u.at \in 1..(Len(order[t].update_targets) + 1)
           /\ u.needs_update \in BOOLEAN /\ u.ok \in BOOLEAN
           /\ u.log \in Logs /\ u.ran \in Seq(Checked(t))
           /\ u.fact_stamps \in [Checked(t) -> [Facts -> Nat]]
           /\ u.seen \in [Checked(t) -> [Facts -> Nat]]
BY DEF Updates

\* Who does not fit the tables is older than its facts.
LEMMA BehindIsOlder ==
    ASSUME NEW n, NEW st, NEW ver, NEW fs, NEW sn, Fit(n, st, ver, fs, sn),
           NEW t \in DOMAIN order, Behind(t, ver, sn)
    PROVE  Older(t, st, fs)
BY FitHolds DEF Behind, Older

LEMMA SkipStep ==
    ASSUME Inv, Skip
    PROVE  Inv'
<1> DEFINE d == Listed[update.at]
           T == update.target
<1>1. /\ update # NoUpdate /\ update.ok /\ update.at <= Len(Listed)
      /\ ~Wanted(d)
      /\ update' = [update EXCEPT !.at = @ + 1]
      /\ UNCHANGED <<loaded, order, stamp, factStamps, txs, scheduled, version, changes, seen, gaveUp>>
  BY DEF Skip, Visiting
<1>2. /\ Shape /\ Anchored /\ changes \in Nat /\ changes <= MaxChanges
      /\ Fit(changes, stamp, version, factStamps, seen)
      /\ txs = <<>>
      /\ scheduled \in BOOLEAN /\ gaveUp \in BOOLEAN
      /\ T \in loaded.targets /\ T \in DOMAIN order
      /\ update \in Updates(T)
      /\ DOMAIN update.log \subseteq loaded.facts
      /\ Fit(changes, StampsBefore(update.log, stamp), VersionsBefore(update.log, version),
             Over(update.fact_stamps, factStamps), Over(update.seen, seen))
      /\ Listed \in Seq(loaded.targets) /\ Len(Listed) \in Nat
      /\ update.at \in 1..(Len(Listed) + 1)
  BY <1>1, InUpdate
<1>3. /\ update = [target |-> update.target, at |-> update.at, needs_update |-> update.needs_update,
                   ok |-> update.ok, log |-> update.log, ran |-> update.ran,
                   fact_stamps |-> update.fact_stamps, seen |-> update.seen]
      /\ update.needs_update \in BOOLEAN /\ update.ok \in BOOLEAN
      /\ update.log \in Logs /\ update.ran \in Seq(Checked(T))
      /\ update.fact_stamps \in [Checked(T) -> [Facts -> Nat]]
      /\ update.seen \in [Checked(T) -> [Facts -> Nat]]
  BY <1>2, UpdateIsRecord
<1>4. update' = [target |-> T, at |-> update.at + 1, needs_update |-> update.needs_update,
                 ok |-> update.ok, log |-> update.log, ran |-> update.ran,
                 fact_stamps |-> update.fact_stamps, seen |-> update.seen]
  BY <1>1, <1>3
<1>5. /\ update'.target = T /\ update'.at = update.at + 1
      /\ update'.needs_update = update.needs_update
      /\ update'.ok = update.ok /\ update'.log = update.log /\ update'.ran = update.ran
      /\ update'.fact_stamps = update.fact_stamps /\ update'.seen = update.seen
  BY <1>4
<1>6. CanFail(update', changes', stamp', version', factStamps', seen')
  <2>1. update.at + 1 \in 1..(Len(order[T].update_targets) + 1)
    BY <1>1, <1>2 DEF Listed
  <2>2. update' \in Updates(T)
    BY <1>3, <1>4, <2>1 DEF Updates
  <2>3. QED BY <1>1, <1>2, <1>5, <2>2 DEF CanFail
<1>7. GoesWell(update, stamp, version, factStamps, seen, scheduled \/ gaveUp)
  BY <1>1 DEF Inv
<1>8. ~Wants(update, d, stamp, factStamps) /\ ~Older(d, stamp, factStamps)
  <2>1. ~Wants(update, d, stamp, factStamps)
    BY <1>1, OlderHolds DEF Wants
  <2>2. ~update.needs_update => ~Older(T, stamp, factStamps)
    BY <1>7 DEF GoesWell
  <2>3. QED BY <2>1, <2>2 DEF Wants
<1>9. \A t : Todo(update, t) => t = d \/ Todo(update', t)
  <2>1. SUFFICES ASSUME NEW t, NEW k \in update.at..Len(order[T].update_targets),
                        order[T].update_targets[k] = t, t # d
                 PROVE  Todo(update', t)
    BY DEF Todo
  <2>2. k \in (update.at + 1)..Len(order[T].update_targets)
    BY <1>2, <2>1 DEF Listed
  <2>3. QED BY <1>5, <2>1, <2>2 DEF Todo
<1> DEFINE coming == scheduled \/ gaveUp
<1>10. GoesWell(update', stamp', version', factStamps', seen', coming')
  <2>1. ASSUME NEW t \in DOMAIN order \ {AutoTarget}, Behind(t, version, seen)
        PROVE  coming \/ update.log # <<>> \/ Todo(update', t)
    <3>1. coming \/ update.log # <<>> \/ Todo(update, t)
      BY <1>7, <2>1 DEF GoesWell
    <3>2. Older(t, stamp, factStamps)
      BY <1>2, <2>1, BehindIsOlder
    <3>3. QED BY <1>8, <1>9, <3>1, <3>2
  <2>2. ASSUME NEW k \in 1..update.at, NEW t \in loaded.targets \ {AutoTarget},
               t = order[T].update_targets[k], NEW f \in FactsOf(t)
        PROVE  factStamps[t][f] >= stamp[f]
    <3>1. CASE k = update.at
      <4>1. ~(stamp[f] > factStamps[t][f])
        BY <1>8, <2>2, <3>1 DEF Older, Listed
      <4>2. stamp[f] \in Nat /\ factStamps[t][f] \in Nat
        <5>1. /\ stamp \in [Facts -> 1..(changes + 1)]
              /\ factStamps \in [DOMAIN order -> [Facts -> Nat]]
          BY <1>2, FitHolds
        <5>2. f \in Facts /\ t \in DOMAIN order
          BY <1>2, <2>2 DEF Shape
        <5>3. QED BY <1>2, <5>1, <5>2
      <4>3. QED BY <4>1, <4>2
    <3>2. CASE k # update.at
      <4>1. k \in 1..(update.at - 1)
        BY <1>2, <2>2, <3>2
      <4>2. QED BY <1>7, <2>2, <4>1 DEF GoesWell
    <3>3. QED BY <3>1, <3>2
  <2>3. ASSUME NEW i \in DOMAIN update.ran, NEW t \in Checked(T),
               update.ran[i] \in DependsOn(loaded, t)
        PROVE  \/ \E j \in DOMAIN update.ran : j > i /\ update.ran[j] = t
               \/ Todo(update', t) /\ Wants(update', t, stamp, factStamps)
    <3>1. \/ \E j \in DOMAIN update.ran : j > i /\ update.ran[j] = t
          \/ Todo(update, t) /\ Wants(update, t, stamp, factStamps)
      BY <1>7, <2>3 DEF GoesWell
    <3>2. Wants(update', t, stamp, factStamps) <=> Wants(update, t, stamp, factStamps)
      BY <1>5 DEF Wants
    <3>3. QED BY <1>8, <1>9, <3>1, <3>2
  <2>4. ~update.needs_update => ~Older(T, stamp, factStamps)
    BY <1>7 DEF GoesWell
  <2>5. update'.at - 1 = update.at
    BY <1>2, <1>5
  <2>6. ASSUME NEW f \in DOMAIN update.log, NEW t \in DOMAIN order
        PROVE  stamp[f] > factStamps[t][f] \/ \E k \in 1..update.at : order[T].update_targets[k] = t
    <3>1. \/ stamp[f] > factStamps[t][f]
          \/ \E k \in 1..(update.at - 1) : order[T].update_targets[k] = t
      BY <1>7 DEF GoesWell
    <3>2. 1..(update.at - 1) \subseteq 1..update.at
      BY <1>2
    <3>3. QED BY <3>1, <3>2
  <2>7. GoesWell(update', stamp, version, factStamps, seen, coming)
    BY <1>5, <2>1, <2>2, <2>3, <2>4, <2>5, <2>6 DEF GoesWell
  <2>8. coming' = coming
    BY <1>1
  <2>9. QED BY <1>1, <2>7, <2>8
<1>11. changes' \in 0..MaxChanges /\ scheduled' \in BOOLEAN /\ gaveUp' \in BOOLEAN
  BY <1>1, <1>2, RulesetsAreGraphs
<1>12. Fit(changes', stamp', version', factStamps', seen') /\ txs' = <<>>
  BY <1>1, <1>2
<1>13. QED BY <1>1, <1>2, <1>6, <1>10, <1>11, <1>12, UpdateStep

LEMMA UpdateDoneStep ==
    ASSUME Inv, UpdateDone
    PROVE  Inv'
<1> DEFINE ended == Ended(update.log, Len(txs) + 1)
<1>1. /\ update # NoUpdate /\ update.ok /\ update.at > Len(Listed)
      /\ scheduled' = (scheduled \/ ended)
      /\ gaveUp' = (gaveUp /\ ~ended)
      /\ update' = NoUpdate
      /\ UNCHANGED <<loaded, order, stamp, factStamps, txs, version, changes, seen>>
  BY DEF UpdateDone, Schedule
<1>2. /\ Shape /\ Anchored /\ changes \in Nat /\ changes <= MaxChanges
      /\ Fit(changes, stamp, version, factStamps, seen)
      /\ txs = <<>>
      /\ scheduled \in BOOLEAN /\ gaveUp \in BOOLEAN
      /\ Len(Listed) \in Nat /\ update.at \in 1..(Len(Listed) + 1)
  BY <1>1, InUpdate
<1>3. ended = (update.log # <<>>)
  BY <1>2 DEF Ended
<1> HIDE DEF ended
<1>4. GoesWell(update, stamp, version, factStamps, seen, scheduled \/ gaveUp)
  BY <1>1 DEF Inv
<1>5. \A t : ~Todo(update, t)
  BY <1>1, <1>2 DEF Todo, Listed
<1>6. PendingIsScheduled'
  <2>1. SUFFICES ASSUME NEW t \in DOMAIN order \ {AutoTarget}, Behind(t, Original, seen)'
                 PROVE  scheduled' \/ gaveUp'
    BY <1>1 DEF PendingIsScheduled
  <2>2. \A f \in Facts : Original'[f] = version[f]
    BY <1>1, <1>2 DEF Original
  <2>3. FactsOf(t)' = FactsOf(t) /\ FactsOf(t) \subseteq Facts
    BY <1>1, <1>2 DEF FactsOf, Shape
  <2>4. Behind(t, version, seen)
    BY <1>1, <2>1, <2>2, <2>3 DEF Behind
  <2>5. scheduled \/ gaveUp \/ update.log # <<>>
    BY <1>4, <1>5, <2>4 DEF GoesWell
  <2>6. QED BY <1>1, <1>3, <2>5
<1>7. TransactionsFit'
  <2>1. txs' = <<>>
    BY <1>1, <1>2
  <2>2. txs' \in Seq(Transactions) /\ Len(txs') = 0 /\ DOMAIN txs' = {}
    BY <2>1
  <2>3. QED BY <2>2 DEF TransactionsFit
<1>8. /\ changes' \in 0..MaxChanges /\ scheduled' \in BOOLEAN /\ gaveUp' \in BOOLEAN
      /\ Fit(changes', stamp', version', factStamps', seen')
  BY <1>1, <1>2, <1>3, RulesetsAreGraphs
<1>9. QED BY <1>1, <1>2, <1>6, <1>7, <1>8, RestStep

LEMMA UpdateFailedStep ==
    ASSUME Inv, UpdateFailed
    PROVE  Inv'
<1>1. /\ update # NoUpdate
      /\ stamp' = StampsBefore(update.log, stamp)
      /\ version' = VersionsBefore(update.log, version)
      /\ factStamps' = Over(update.fact_stamps, factStamps)
      /\ seen' = Over(update.seen, seen)
      /\ update' = NoUpdate
      /\ gaveUp' = TRUE
      /\ UNCHANGED <<loaded, order, txs, scheduled, changes>>
  BY DEF UpdateFailed, Undo, Restored, StampsBefore, VersionsBefore
<1>2. /\ Shape /\ Anchored /\ changes \in Nat /\ changes <= MaxChanges
      /\ txs = <<>> /\ scheduled \in BOOLEAN
      /\ Fit(changes, StampsBefore(update.log, stamp), VersionsBefore(update.log, version),
             Over(update.fact_stamps, factStamps), Over(update.seen, seen))
  BY <1>1, InUpdate
<1>3. Fit(changes', stamp', version', factStamps', seen')
  BY <1>1, <1>2
<1>4. PendingIsScheduled'
  BY <1>1 DEF PendingIsScheduled
<1>5. TransactionsFit'
  <2>1. txs' = <<>>
    BY <1>1, <1>2
  <2>2. txs' \in Seq(Transactions) /\ Len(txs') = 0 /\ DOMAIN txs' = {}
    BY <2>1
  <2>3. QED BY <2>2 DEF TransactionsFit
<1>6. changes' \in 0..MaxChanges /\ scheduled' \in BOOLEAN /\ gaveUp' \in BOOLEAN
  BY <1>1, <1>2, RulesetsAreGraphs
<1>7. QED BY <1>1, <1>2, <1>3, <1>4, <1>5, <1>6, RestStep

-----------------------------------------------------------------------------
(* Scripts *)

\* Where an update finds the targets that matter to the one it visits.
LEMMA OrderOfVisits ==
    ASSUME Shape, NEW T \in loaded.targets, NEW at \in DOMAIN order[T].update_targets,
           NEW d, d = order[T].update_targets[at]
    PROVE  /\ at \in Nat /\ d \in Checked(T) /\ d \in loaded.targets
           /\ \A u \in Checked(T) : d \in Checked(u) /\ u # d =>
                 \E k \in (at + 1)..Len(order[T].update_targets) : order[T].update_targets[k] = u
           /\ \A k \in 1..(at - 1) : d \notin Checked(order[T].update_targets[k])
           /\ \A e \in Checked(d) : e # d =>
                 \E k \in 1..(at - 1) : order[T].update_targets[k] = e
<1> DEFINE L == order[T].update_targets
<1>1. /\ L \in Seq(loaded.targets)
      /\ Checked(T) = {L[k] : k \in DOMAIN L}
      /\ \A i, j \in DOMAIN L : L[j] \in Checked(L[i]) => j <= i
      /\ \A e \in Checked(T) : Checked(e) \subseteq Checked(T)
  BY DEF Shape, Checked, ToSet
<1>2. \A e \in loaded.targets : e \in Checked(e)
  BY DEF Shape
<1> HIDE DEF L
<1>3. DOMAIN L = 1..Len(L) /\ Len(L) \in Nat /\ at \in 1..Len(L) /\ d = L[at]
  BY <1>1 DEF L
<1>4. d \in Checked(T) /\ d \in loaded.targets
  BY <1>1, <1>3
<1>5. ASSUME NEW u \in Checked(T), d \in Checked(u), u # d
      PROVE  \E k \in (at + 1)..Len(L) : L[k] = u
  <2>1. PICK k \in 1..Len(L) : L[k] = u
    BY <1>1, <1>3
  <2>2. at <= k /\ k # at
    BY <1>1, <1>3, <1>5, <2>1
  <2>3. k \in (at + 1)..Len(L)
    BY <1>3, <2>2
  <2>4. QED BY <2>1, <2>3
<1>6. ASSUME NEW k \in 1..(at - 1) PROVE d \notin Checked(L[k])
  <2>1. k \in DOMAIN L /\ at \in DOMAIN L /\ ~(at <= k)
    BY <1>3
  <2>2. QED BY <1>1, <1>3, <2>1
<1>7. ASSUME NEW e \in Checked(d), e # d
      PROVE  \E k \in 1..(at - 1) : L[k] = e
  <2>1. e \in Checked(T)
    BY <1>1, <1>4
  <2>2. PICK k \in 1..Len(L) : L[k] = e
    BY <1>1, <1>3, <2>1
  <2>3. k <= at /\ k # at
    BY <1>1, <1>3, <1>7, <2>2
  <2>4. k \in 1..(at - 1)
    BY <1>3, <2>3
  <2>5. QED BY <2>2, <2>4
<1>8. QED BY <1>3, <1>4, <1>5, <1>6, <1>7 DEF L

LEMMA CheckedAreTargets ==
    ASSUME Shape, NEW t \in loaded.targets
    PROVE  Checked(t) \subseteq loaded.targets /\ DOMAIN order = loaded.targets
<1>1. order[t].update_targets \in Seq(loaded.targets) /\ DOMAIN order = loaded.targets
  BY DEF Shape
<1>2. \A k \in DOMAIN order[t].update_targets : order[t].update_targets[k] \in loaded.targets
  BY <1>1
<1>3. QED BY <1>1, <1>2 DEF Checked, ToSet

\* What a script may write to.
Writes(d, S) ==
    \A f \in S : /\ d # AutoTarget
                 /\ \A t \in loaded.targets \ {AutoTarget} :
                       f \in FactsOf(t) => d # t /\ d \in Checked(t)

\* The tables an inner transaction writes to stay written.
WritesInner(S) ==
    \A f \in S : /\ f \notin DOMAIN update.log
                 /\ \A t \in loaded.targets \ {AutoTarget} :
                       f \in FactsOf(t) => t \in Checked(update.target)

\* What the change of the tables S does, where log tells of those changed before.
Changes(S, log) ==
    /\ changes' \in Nat /\ changes <= changes' /\ changes' <= MaxChanges
    /\ stamp' \in [Facts -> Nat] /\ version' \in [Facts -> Nat]
    /\ \A f \in S : /\ stamp'[f] = IF f \in DOMAIN log THEN stamp[f] ELSE stamp[f] + 1
                    /\ version'[f] \in (changes + 1)..changes'
    /\ \A f \in Facts \ S : stamp'[f] = stamp[f] /\ version'[f] = version[f]

\* Of what this update has written, a script writes again only what is news to
\* whom it matters.
Rewrites(S) ==
    \A f \in S \intersect DOMAIN update.log : \A t \in DOMAIN order :
        f \in FactsOf(t) => stamp[f] > factStamps[t][f]

\* One script run, in full.
LEMMA ScriptDoes ==
    ASSUME Habits = {}, Inv, update # NoUpdate, NEW d, NEW ok \in BOOLEAN, Execute(d, ok)
    PROVE  \E S \in SUBSET loaded.facts : \E inner \in BOOLEAN :
              /\ Writes(d, S) /\ (inner => WritesInner(S)) /\ (S = {} => inner)
              /\ Changes(S, IF inner THEN <<>> ELSE update.log)
              /\ update' = [target |-> update.target, at |-> update.at + 1, needs_update |-> TRUE,
                            ok |-> ok,
                            log |-> IF inner THEN update.log ELSE Logged(update.log, S),
                            ran |-> IF ok THEN Append(update.ran, d) ELSE update.ran,
                            fact_stamps |-> update.fact_stamps, seen |-> update.seen]
<1>1. PICK S \in SUBSET loaded.facts, inner \in BOOLEAN :
         /\ \A f \in S : MayWrite(d, f, inner)
         /\ S = {} => inner
         /\ ChangeTables(S, IF inner THEN <<>> ELSE update.log)
         /\ update' = [update EXCEPT !.at = @ + 1, !.ok = ok, !.needs_update = TRUE,
                                     !.log = IF inner THEN @ ELSE Logged(@, S),
                                     !.ran = IF ok THEN Append(@, d) ELSE @]
  BY DEF Execute
<1>2. /\ Shape /\ changes \in Nat /\ update \in Updates(update.target)
      /\ stamp \in [Facts -> Nat] /\ version \in [Facts -> Nat]
  BY InUpdate
<1>3. S \in SUBSET Facts
  BY <1>2 DEF Shape
<1>4. Changes(S, IF inner THEN <<>> ELSE update.log)
  BY <1>1, <1>2, <1>3, ChangeMovesOn DEF Changes
<1>5. Writes(d, S) /\ (inner => WritesInner(S))
  BY <1>1 DEF MayWrite, Readers, Writes, WritesInner
<1>6. update = [target |-> update.target, at |-> update.at, needs_update |-> update.needs_update,
                ok |-> update.ok, log |-> update.log, ran |-> update.ran,
                fact_stamps |-> update.fact_stamps, seen |-> update.seen]
  BY <1>2, UpdateIsRecord
<1>7. update' = [target |-> update.target, at |-> update.at + 1, needs_update |-> TRUE,
                 ok |-> ok,
                 log |-> IF inner THEN update.log ELSE Logged(update.log, S),
                 ran |-> IF ok THEN Append(update.ran, d) ELSE update.ran,
                 fact_stamps |-> update.fact_stamps, seen |-> update.seen]
  BY <1>1, <1>6
<1>8. QED BY <1>1, <1>4, <1>5, <1>7

\* Who has been visited does not read what a script writes.
LEMMA VisitedIsLeftAlone ==
    ASSUME Shape, NEW T \in loaded.targets, NEW at \in DOMAIN order[T].update_targets,
           NEW S, Writes(order[T].update_targets[at], S),
           NEW k \in 1..(at - 1), NEW u \in loaded.targets \ {AutoTarget},
           u = order[T].update_targets[k], NEW f \in FactsOf(u)
    PROVE  f \notin S
<1>1. order[T].update_targets[at] \notin Checked(u)
  BY OrderOfVisits
<1>2. QED BY <1>1 DEF Writes

\* Whom an update has visited does not read what its script writes now: what it
\* writes again is still news to all others.
LEMMA ScriptWritesNews ==
    ASSUME Shape, NEW T \in loaded.targets, NEW at \in DOMAIN order[T].update_targets,
           NEW S, Writes(order[T].update_targets[at], S),
           GoesWell(update, stamp, version, factStamps, seen, scheduled \/ gaveUp),
           update.target = T, update.at = at
    PROVE  Rewrites(S)
<1>1. SUFFICES ASSUME NEW f \in S, f \in DOMAIN update.log, NEW t \in DOMAIN order, f \in FactsOf(t),
                      NEW k \in 1..(at - 1), order[T].update_targets[k] = t
               PROVE  FALSE
  BY DEF Rewrites, GoesWell
<1>2. t \in loaded.targets
  BY DEF Shape
<1>3. CASE t # AutoTarget
  BY <1>1, <1>2, <1>3, VisitedIsLeftAlone
<1>4. CASE t = AutoTarget
  <2>1. /\ at \in Nat /\ order[T].update_targets[at] \in Checked(T)
        /\ order[T].update_targets[at] \notin Checked(t)
    BY <1>1, OrderOfVisits
  <2>2. k \in DOMAIN order[T].update_targets
    <3>1. order[T].update_targets \in Seq(loaded.targets)
      BY DEF Shape
    <3>2. QED BY <2>1, <3>1
  <2>3. t \in Checked(T)
    BY <1>1, <2>2 DEF Checked, ToSet
  <2>4. T = AutoTarget
    BY <1>4, <2>3 DEF Shape
  <2>5. QED BY <1>4, <2>1, <2>4
<1>5. QED BY <1>3, <1>4

\* Then every table changed has moved on.
LEMMA ChangesMoveOn ==
    ASSUME NEW S, NEW log, Changes(S, log), log = <<>> \/ (log = update.log /\ Rewrites(S))
    PROVE  \A f \in S : MovesOn(f, stamp, stamp', factStamps) /\ version'[f] \in (changes + 1)..changes'
<1>1. TAKE f \in S
<1>2. CASE f \in DOMAIN log
  <2>1. log = update.log /\ Rewrites(S)
    BY <1>2, EmptyLog
  <2>2. QED BY <1>2, <2>1 DEF Changes, Rewrites, MovesOn
<1>3. CASE f \notin DOMAIN log
  BY <1>3 DEF Changes, MovesOn
<1>4. QED BY <1>2, <1>3

\* The target updated has seen everything, no less than those that depend on it
\* and no more than those it depends on.
LEMMA ScriptFits ==
    ASSUME Shape, NEW T \in loaded.targets, NEW at \in DOMAIN order[T].update_targets,
           NEW d, d = order[T].update_targets[at],
           NEW S \in SUBSET Facts, Writes(d, S), NEW log, Changes(S, log),
           log = <<>> \/ (log = update.log /\ Rewrites(S)), changes \in Nat,
           stamp \in [Facts -> Nat],
           Fit(changes, stamp, version, factStamps, seen),
           \A k \in 1..(at - 1) : \A t \in loaded.targets \ {AutoTarget} :
              t = order[T].update_targets[k] => \A f \in FactsOf(t) : factStamps[t][f] >= stamp[f],
           factStamps' = [factStamps EXCEPT ![d] = Stamped(d, stamp')],
           seen' = [seen EXCEPT ![d] = Stamped(d, version')]
    PROVE  Fit(changes', stamp', version', factStamps', seen')
<1>1. Fit(changes', stamp', version', factStamps, seen)
  <2>1. /\ changes' \in Nat /\ changes <= changes'
        /\ stamp' \in [Facts -> Nat] /\ version' \in [Facts -> Nat]
        /\ \A f \in S : /\ MovesOn(f, stamp, stamp', factStamps)
                        /\ version'[f] \in (changes + 1)..changes'
        /\ \A f \in Facts \ S : stamp'[f] = stamp[f] /\ version'[f] = version[f]
    BY ChangesMoveOn DEF Changes
  <2>2. QED BY ONLY <2>1, FitAfterChange, Shape, S \in SUBSET Facts, changes \in Nat,
            Fit(changes, stamp, version, factStamps, seen)
<1>2. /\ stamp' \in [Facts -> 1..(changes' + 1)]
      /\ version' \in [Facts -> 0..changes']
      /\ factStamps \in [DOMAIN order -> [Facts -> Nat]]
      /\ seen \in [DOMAIN order -> [Facts -> 0..changes']]
      /\ \A t \in DOMAIN order : \A f \in Facts : factStamps[t][f] <= stamp'[f]
      /\ \A t \in DOMAIN order : \A f \in FactsOf(t) :
            version'[f] # seen[t][f] => stamp'[f] > factStamps[t][f]
      /\ \A t \in DOMAIN order : \A e \in DependsOn(loaded, t) \ loaded.facts :
            \A f \in FactsOf(e) : factStamps[t][f] <= factStamps[e][f]
  BY <1>1, FitHolds
<1>3. changes' \in Nat /\ \A f \in Facts : stamp'[f] \in Nat
  BY DEF Changes
<1>4. /\ at \in Nat /\ d \in Checked(T) /\ d \in loaded.targets /\ d \in DOMAIN order
      /\ \A e \in Checked(d) : e # d => \E k \in 1..(at - 1) : order[T].update_targets[k] = e
  <2>1. /\ at \in Nat /\ d \in Checked(T) /\ d \in loaded.targets
        /\ \A e \in Checked(d) : e # d => \E k \in 1..(at - 1) : order[T].update_targets[k] = e
    BY ONLY OrderOfVisits, Shape, T \in loaded.targets, at \in DOMAIN order[T].update_targets,
            d = order[T].update_targets[at]
  <2>2. QED BY <2>1, CheckedAreTargets
<1>5. /\ Stamped(d, stamp') \in [Facts -> Nat]
      /\ Stamped(d, version') \in [Facts -> 0..changes']
      /\ \A f \in FactsOf(d) : Stamped(d, stamp')[f] = stamp'[f] /\ Stamped(d, version')[f] = version'[f]
      /\ \A f \in Facts : Stamped(d, stamp')[f] <= stamp'[f]
  <2>1. FactsOf(d) \subseteq Facts
    BY <1>4 DEF Shape
  <2>2. QED BY <1>2, <1>3, <2>1 DEF Stamped
<1>6. /\ factStamps' \in [DOMAIN order -> [Facts -> Nat]]
      /\ seen' \in [DOMAIN order -> [Facts -> 0..changes']]
      /\ factStamps'[d] = Stamped(d, stamp') /\ seen'[d] = Stamped(d, version')
      /\ \A t \in DOMAIN order : t # d => factStamps'[t] = factStamps[t] /\ seen'[t] = seen[t]
  BY <1>2, <1>4, <1>5
<1>7. \A t \in DOMAIN order : \A f \in Facts : factStamps'[t][f] <= stamp'[f]
  BY <1>2, <1>5, <1>6
<1>8. \A t \in DOMAIN order : \A f \in FactsOf(t) :
         version'[f] # seen'[t][f] => stamp'[f] > factStamps'[t][f]
  BY <1>2, <1>5, <1>6
<1>9. ASSUME NEW t \in DOMAIN order, NEW e \in DependsOn(loaded, t) \ loaded.facts, NEW f \in FactsOf(e)
      PROVE  factStamps'[t][f] <= factStamps'[e][f]
  <2>1. /\ e \in Checked(t) \ {t, AutoTarget} /\ e \in loaded.targets /\ t \in loaded.targets
        /\ f \in FactsOf(t) /\ f \in Facts /\ e \in DOMAIN order
    <3>1. t \in loaded.targets /\ DOMAIN order = loaded.targets
      BY DEF Shape
    <3>2. e \in Checked(t) \ {t, AutoTarget}
      BY <1>9, <3>1 DEF Shape
    <3>3. e \in loaded.targets
      BY <3>1, <3>2, CheckedAreTargets
    <3>4. FactsOf(e) \subseteq FactsOf(t) /\ FactsOf(e) \subseteq Facts
      BY <3>1, <3>2, <3>3 DEF Shape
    <3>5. QED BY <1>9, <3>1, <3>2, <3>3, <3>4
  <2>2. factStamps[t][f] <= factStamps[e][f]
    BY <1>2
  <2>3. CASE t = d
    <3>1. PICK k \in 1..(at - 1) : order[T].update_targets[k] = e
      BY <1>4, <2>1, <2>3
    <3>2. factStamps[e][f] >= stamp[f]
      BY <2>1, <3>1
    <3>3. f \notin S
      BY <2>1, <3>1, VisitedIsLeftAlone
    <3>4. stamp'[f] = stamp[f]
      BY <2>1, <3>3 DEF Changes
    <3>5. factStamps'[t][f] = stamp'[f] /\ factStamps'[e] = factStamps[e]
      BY <1>5, <1>6, <2>1, <2>3
    <3>6. stamp[f] \in Nat /\ factStamps[e][f] \in Nat
      BY <1>2, <2>1
    <3>7. QED BY <3>2, <3>4, <3>5, <3>6
  <2>4. CASE e = d
    <3>1. factStamps'[e][f] = stamp'[f] /\ factStamps'[t] = factStamps[t]
      BY <1>5, <1>6, <2>1, <2>4
    <3>2. factStamps[t][f] <= stamp'[f]
      BY <1>2, <2>1
    <3>3. QED BY <3>1, <3>2
  <2>5. CASE t # d /\ e # d
    BY <1>6, <2>1, <2>2, <2>5
  <2>6. QED BY <2>3, <2>4, <2>5
<1>10. QED BY <1>2, <1>6, <1>7, <1>8, <1>9 DEF Fit

\* After a script that succeeded the update still goes well.
LEMMA ScriptGoesWell ==
    ASSUME Habits = {}, Shape, Anchored, NEW T \in loaded.targets, NEW at \in DOMAIN order[T].update_targets,
           NEW d, d = order[T].update_targets[at],
           NEW S \in SUBSET Facts, Writes(d, S), NEW log, Changes(S, log),
           changes \in Nat, stamp \in [Facts -> Nat],
           Fit(changes, stamp, version, factStamps, seen),
           GoesWell(update, stamp, version, factStamps, seen, scheduled \/ gaveUp),
           Wants(update, d, stamp, factStamps),
           update.target = T, update.at = at, update.log \in Logs, update.ran \in Seq(Checked(T)),
           update'.target = T, update'.at = at + 1, update'.needs_update,
           \/ WritesInner(S) /\ update'.log = update.log /\ log = <<>>
           \/ S # {} /\ DOMAIN update'.log = DOMAIN update.log \union S /\ log = update.log,
           update'.ran = Append(update.ran, d),
           factStamps' = [factStamps EXCEPT ![d] = Stamped(d, stamp')],
           seen' = [seen EXCEPT ![d] = Stamped(d, version')]
    PROVE  GoesWell(update', stamp', version', factStamps', seen', scheduled \/ gaveUp)
<1> DEFINE L == order[T].update_targets
           coming == scheduled \/ gaveUp
<1>1. /\ at \in Nat /\ d \in Checked(T) /\ d \in loaded.targets
      /\ \A u \in Checked(T) : d \in Checked(u) /\ u # d => \E k \in (at + 1)..Len(L) : L[k] = u
      /\ \A k \in 1..(at - 1) : d \notin Checked(L[k])
  BY OrderOfVisits
<1>2. /\ stamp \in [Facts -> 1..(changes + 1)]
      /\ factStamps \in [DOMAIN order -> [Facts -> Nat]]
      /\ seen \in [DOMAIN order -> [Facts -> 0..changes]]
      /\ \A t \in DOMAIN order : \A e \in DependsOn(loaded, t) \ loaded.facts :
            \A f \in FactsOf(e) : factStamps[t][f] <= factStamps[e][f]
  BY FitHolds
<1>3. /\ DOMAIN order = loaded.targets
      /\ \A t \in loaded.targets : FactsOf(t) \subseteq Facts
      /\ \A t \in loaded.targets : t \in Checked(t)
  BY DEF Shape
<1>4. Checked(T) \subseteq loaded.targets
  BY CheckedAreTargets
<1>5. /\ factStamps'[d] = Stamped(d, stamp') /\ seen'[d] = Stamped(d, version')
      /\ \A t \in DOMAIN order : t # d => factStamps'[t] = factStamps[t] /\ seen'[t] = seen[t]
      /\ \A f \in FactsOf(d) : Stamped(d, stamp')[f] = stamp'[f] /\ Stamped(d, version')[f] = version'[f]
  BY <1>1, <1>2, <1>3 DEF Stamped
<1>6. \A f \in Facts : stamp[f] \in Nat /\ stamp'[f] \in Nat /\ stamp[f] <= stamp'[f]
  <2>1. TAKE f \in Facts
  <2>2. CASE f \in S
    BY <2>2 DEF Changes
  <2>3. CASE f \notin S
    BY <2>3 DEF Changes
  <2>4. QED BY <2>2, <2>3
<1>7. \A f \in Facts \ S : stamp'[f] = stamp[f] /\ version'[f] = version[f]
  BY DEF Changes
<1>8. L \in Seq(loaded.targets) /\ DOMAIN L = 1..Len(L) /\ Len(L) \in Nat
  BY DEF Shape
<1>9. \A t : Todo(update', t) <=> \E k \in (at + 1)..Len(L) : L[k] = t
  BY DEF Todo
<1>10. \A t : Todo(update, t) /\ t # d => Todo(update', t)
  <2>1. SUFFICES ASSUME NEW t, t # d, NEW k \in at..Len(L), L[k] = t
                 PROVE  Todo(update', t)
    BY DEF Todo
  <2>2. k \in (at + 1)..Len(L)
    BY <1>1, <1>8, <2>1
  <2>3. QED BY <1>9, <2>1, <2>2
<1>11. ASSUME NEW t \in DOMAIN order \ {AutoTarget}, Behind(t, version', seen')
       PROVE  coming \/ update'.log # <<>> \/ Todo(update', t)
  <2>1. PICK f \in FactsOf(t) : version'[f] # seen'[t][f]
    BY <1>11 DEF Behind
  <2>2. t # d /\ seen'[t] = seen[t] /\ t \in loaded.targets
    BY <1>3, <1>5, <2>1
  <2>3. CASE f \in S
    <3>1. t \in Checked(t) /\ d \in Checked(t)
      BY <1>3, <2>2, <2>3 DEF Writes
    <3>2. CASE WritesInner(S)
      <4>1. t \in Checked(T)
        BY <2>2, <2>3, <3>2 DEF WritesInner
      <4>2. QED BY <1>1, <1>9, <2>2, <3>1, <4>1
    <3>3. CASE ~WritesInner(S)
      BY <2>3, <3>3, EmptyLog
    <3>4. QED BY <3>2, <3>3
  <2>4. CASE f \notin S
    <3>1. f \in Facts
      BY <1>3, <2>2
    <3>2. Behind(t, version, seen)
      BY <1>7, <2>1, <2>2, <2>4, <3>1 DEF Behind
    <3>3. coming \/ update.log # <<>> \/ Todo(update, t)
      BY <3>2 DEF GoesWell
    <3>4. update.log # <<>> => update'.log # <<>>
      BY EmptyLog
    <3>5. QED BY <1>10, <2>2, <3>3, <3>4
  <2>5. QED BY <2>3, <2>4
<1>12. ASSUME NEW k \in 1..at, NEW t \in loaded.targets \ {AutoTarget}, t = L[k], NEW f \in FactsOf(t)
       PROVE  factStamps'[t][f] >= stamp'[f]
  <2>1. f \in Facts /\ t \in DOMAIN order
    BY <1>3
  <2>2. CASE k = at
    BY <1>5, <1>6, <1>12, <2>1, <2>2
  <2>3. CASE k # at
    <3>1. k \in 1..(at - 1)
      BY <1>1, <2>3
    <3>2. f \notin S
      BY <1>12, <3>1, VisitedIsLeftAlone
    <3>3. t # d
      BY <1>1, <1>3, <1>12, <3>1
    <3>4. factStamps[t][f] >= stamp[f]
      BY <1>12, <3>1 DEF GoesWell
    <3>5. QED BY <1>5, <1>7, <2>1, <3>2, <3>3, <3>4
  <2>4. QED BY <2>2, <2>3
<1>13. ASSUME NEW t \in loaded.targets, t # d, NEW f \in FactsOf(t), stamp[f] > factStamps[t][f]
       PROVE  Wants(update', t, stamp', factStamps')
  <2>1. f \in Facts /\ factStamps'[t] = factStamps[t] /\ factStamps[t][f] \in Nat
    BY <1>2, <1>3, <1>5, <1>13
  <2>2. stamp'[f] > factStamps'[t][f]
    BY <1>6, <1>13, <2>1
  <2>3. QED BY <2>2 DEF Wants, Older
<1>14. ASSUME NEW t \in Checked(T), d \in DependsOn(loaded, t)
       PROVE  Todo(update', t) /\ Wants(update', t, stamp', factStamps')
  <2>1. /\ t \in loaded.targets /\ d \notin loaded.facts
        /\ d \in DependsOn(loaded, t) \ loaded.facts
    BY <1>1, <1>4, <1>14 DEF Shape
  <2>2. d \in Checked(t) \ {t, AutoTarget} /\ FactsOf(d) \subseteq FactsOf(t)
    BY <2>1 DEF Shape
  <2>3. Todo(update', t)
    BY <1>1, <1>9, <1>14, <2>2
  <2>4. CASE d = T
    <3>1. PICK k \in (at + 1)..Len(L) : L[k] = t
      BY <1>9, <2>3
    <3>2. \A i, j \in DOMAIN L : L[j] \in Checked(L[i]) => j <= i
      BY DEF Shape
    <3>3. t \in Checked(L[at])
      BY <2>4, <1>14
    <3>4. k \in DOMAIN L /\ at \in DOMAIN L /\ L[k] \in Checked(L[at])
      BY <1>1, <1>8, <3>1, <3>3
    <3>5. k <= at
      BY <3>2, <3>4
    <3>6. QED BY <1>1, <1>8, <3>1, <3>5
  <2>5. CASE d # T
    <3>1. Older(d, stamp, factStamps)
      BY <2>5 DEF Wants
    <3>2. FactsOf(d) # {}
      <4>1. \A u \in loaded.targets : \A e \in loaded.depends[u] \ loaded.facts : FactsOf(e) # {}
        BY DEF Anchored
      <4>2. d \in loaded.depends[t] \ loaded.facts
        BY <2>1 DEF DependsOn
      <4>3. QED BY <2>1, <4>1, <4>2
    <3>3. PICK f \in FactsOf(d) : stamp[f] > factStamps[d][f]
      BY <3>1, <3>2 DEF Older
    <3>4. factStamps[t][f] <= factStamps[d][f] /\ f \in FactsOf(t) /\ f \in Facts
      BY <1>2, <1>3, <2>1, <2>2
    <3>5. factStamps[t][f] \in Nat /\ factStamps[d][f] \in Nat /\ stamp[f] \in Nat
      BY <1>1, <1>2, <1>3, <1>6, <2>1, <3>4
    <3>6. stamp[f] > factStamps[t][f]
      BY <3>3, <3>4, <3>5
    <3>7. QED BY <1>13, <2>1, <2>2, <2>3, <3>4, <3>6
  <2>6. QED BY <2>4, <2>5
<1>15. ASSUME NEW i \in DOMAIN update'.ran, NEW t \in Checked(T), update'.ran[i] \in DependsOn(loaded, t)
       PROVE  \/ \E j \in DOMAIN update'.ran : j > i /\ update'.ran[j] = t
              \/ Todo(update', t) /\ Wants(update', t, stamp', factStamps')
  <2> DEFINE n == Len(update.ran)
  <2>1. /\ n \in Nat /\ DOMAIN update.ran = 1..n /\ DOMAIN update'.ran = 1..(n + 1)
        /\ update'.ran[n + 1] = d /\ \A j \in 1..n : update'.ran[j] = update.ran[j]
    OBVIOUS
  <2> HIDE DEF n
  <2>2. CASE i = n + 1
    BY <1>14, <1>15, <2>1, <2>2
  <2>3. CASE i # n + 1
    <3>1. i \in DOMAIN update.ran /\ i \in 1..n /\ update.ran[i] \in DependsOn(loaded, t)
      BY <1>15, <2>1, <2>3
    <3>2. \/ \E j \in DOMAIN update.ran : j > i /\ update.ran[j] = t
          \/ Todo(update, t) /\ Wants(update, t, stamp, factStamps)
      BY <3>1 DEF GoesWell
    <3>3. CASE t = d
      <4>1. n + 1 \in DOMAIN update'.ran /\ n + 1 > i /\ update'.ran[n + 1] = t
        BY <2>1, <3>1, <3>3
      <4>2. QED BY <4>1
    <3>4. CASE \E j \in DOMAIN update.ran : j > i /\ update.ran[j] = t
      <4>1. PICK j \in 1..n : j > i /\ update.ran[j] = t
        BY <2>1, <3>4
      <4>2. j \in DOMAIN update'.ran /\ update'.ran[j] = t
        BY <2>1, <4>1
      <4>3. QED BY <4>1, <4>2
    <3>5. CASE t # d /\ Todo(update, t) /\ Wants(update, t, stamp, factStamps)
      <4>1. Todo(update', t)
        BY <1>10, <3>5
      <4>2. t \in loaded.targets
        BY <1>4
      <4>3. CASE t = T
        BY <4>1, <4>3 DEF Wants
      <4>4. CASE t # T
        <5>1. Older(t, stamp, factStamps)
          BY <3>5, <4>4 DEF Wants
        <5>2. CASE FactsOf(t) = {}
          BY <4>1, <5>2 DEF Wants, Older
        <5>3. CASE FactsOf(t) # {}
          <6>1. PICK f \in FactsOf(t) : stamp[f] > factStamps[t][f]
            BY <5>1, <5>3 DEF Older
          <6>2. QED BY <1>13, <3>5, <4>1, <4>2, <6>1
        <5>4. QED BY <5>2, <5>3
      <4>5. QED BY <4>3, <4>4
    <3>6. QED BY <3>2, <3>3, <3>4, <3>5
  <2>4. QED BY <2>2, <2>3
<1>16. update'.at - 1 = at
  BY <1>1
<1>17. ASSUME NEW f \in DOMAIN update'.log, NEW t \in DOMAIN order
       PROVE  stamp'[f] > factStamps'[t][f] \/ \E k \in 1..at : L[k] = t
  <2>1. f \in Facts /\ factStamps[t][f] \in Nat /\ factStamps[t][f] <= stamp[f]
    <3>1. DOMAIN update.log \subseteq Facts
      BY LogHolds
    <3>2. f \in Facts
      BY <3>1
    <3>3. QED BY <1>2, <3>2, FitHolds
  <2>2. CASE t = d
    <3>1. at \in 1..at /\ L[at] = t
      BY <1>1, <1>8, <2>2
    <3>2. QED BY <3>1
  <2>3. CASE t # d /\ f \in DOMAIN update.log
    <3>1. stamp[f] > factStamps[t][f] \/ \E k \in 1..(at - 1) : L[k] = t
      BY <2>3 DEF GoesWell
    <3>2. 1..(at - 1) \subseteq 1..at
      BY <1>1
    <3>3. stamp[f] > factStamps[t][f] => stamp'[f] > factStamps'[t][f]
      BY <1>5, <1>6, <2>1, <2>3
    <3>4. QED BY <3>1, <3>2, <3>3
  <2>4. CASE t # d /\ f \notin DOMAIN update.log
    <3>1. f \in S /\ log = update.log
      BY <2>4
    <3>2. stamp'[f] = stamp[f] + 1
      BY <2>4, <3>1 DEF Changes
    <3>3. QED BY <1>5, <1>6, <2>1, <2>4, <3>2
  <2>5. QED BY <2>2, <2>3, <2>4
<1>18. /\ \A t \in DOMAIN order \ {AutoTarget} :
             Behind(t, version', seen') => coming \/ update'.log # <<>> \/ Todo(update', t)
       /\ \A k \in 1..(update'.at - 1) : \A t \in loaded.targets \ {AutoTarget} :
             t = order[update'.target].update_targets[k] => \A f \in FactsOf(t) : factStamps'[t][f] >= stamp'[f]
  BY <1>11, <1>12, <1>16
<1>19. \A f \in DOMAIN update'.log : \A t \in DOMAIN order :
          \/ stamp'[f] > factStamps'[t][f]
          \/ \E k \in 1..(update'.at - 1) : order[update'.target].update_targets[k] = t
  BY <1>16, <1>17
<1>20. QED BY <1>15, <1>18, <1>19 DEF GoesWell

\* A script run leaves what an update can be undone to as it was, but for the
\* tables written for good.
LEMMA ScriptCanFail ==
    ASSUME Habits = {}, Inv, update # NoUpdate, update.ok, update.at <= Len(Listed),
           NEW d, d = Listed[update.at], NEW ok \in BOOLEAN,
           NEW S \in SUBSET loaded.facts, NEW inner \in BOOLEAN,
           Writes(d, S), inner => WritesInner(S), Changes(S, IF inner THEN <<>> ELSE update.log),
           update' = [target |-> update.target, at |-> update.at + 1, needs_update |-> TRUE,
                      ok |-> ok,
                      log |-> IF inner THEN update.log ELSE Logged(update.log, S),
                      ran |-> IF ok THEN Append(update.ran, d) ELSE update.ran,
                      fact_stamps |-> update.fact_stamps, seen |-> update.seen],
           factStamps' = IF ok THEN [factStamps EXCEPT ![d] = Stamped(d, stamp')] ELSE factStamps,
           seen' = IF ok THEN [seen EXCEPT ![d] = Stamped(d, version')] ELSE seen
    PROVE  CanFail(update', changes', stamp', version', factStamps', seen')
<1> DEFINE T  == update.target
           l  == IF inner THEN update.log ELSE Logged(update.log, S)
           r  == IF ok THEN Append(update.ran, d) ELSE update.ran
           fs == Over(update.fact_stamps, factStamps)
           sn == Over(update.seen, seen)
<1>1. /\ Shape /\ changes \in Nat
      /\ stamp \in [Facts -> Nat] /\ version \in [Facts -> Nat]
      /\ Fit(changes, stamp, version, factStamps, seen)
      /\ T \in loaded.targets /\ T \in DOMAIN order
      /\ update \in Updates(T)
      /\ update.log \in Logs /\ DOMAIN update.log \subseteq loaded.facts
      /\ Fit(changes, StampsBefore(update.log, stamp), VersionsBefore(update.log, version), fs, sn)
      /\ Listed \in Seq(loaded.targets) /\ Len(Listed) \in Nat
      /\ update.at \in 1..(Len(Listed) + 1)
      /\ update.ran \in Seq(Checked(T))
  BY InUpdate
<1>2. /\ update.fact_stamps \in [Checked(T) -> [Facts -> Nat]]
      /\ update.seen \in [Checked(T) -> [Facts -> Nat]]
  BY <1>1, UpdateIsRecord
<1> HIDE DEF fs, sn
<1>3. S \in SUBSET Facts
  BY <1>1 DEF Shape
<1>4. d \in Checked(T)
  <2>1. update.at \in DOMAIN Listed
    BY <1>1
  <2>2. QED BY <2>1 DEF Listed, Checked, ToSet
<1>5. /\ Logged(update.log, S) \in Logs
      /\ DOMAIN Logged(update.log, S) = DOMAIN update.log \union S
  BY ONLY <1>1, <1>3, LoggedAdds
<1>6. l \in Logs /\ DOMAIN l \subseteq loaded.facts
  BY <1>1, <1>5
<1>7. Fit(changes', StampsBefore(l, stamp'), VersionsBefore(l, version'), fs, sn)
  <2>1. /\ changes' \in Nat /\ changes <= changes'
        /\ stamp' \in [Facts -> Nat] /\ version' \in [Facts -> Nat]
        /\ \A f \in Facts \ S : stamp'[f] = stamp[f] /\ version'[f] = version[f]
    BY DEF Changes
  <2>2. /\ Shape /\ changes \in Nat /\ update.log \in Logs
        /\ stamp \in [Facts -> Nat] /\ version \in [Facts -> Nat]
        /\ Fit(changes, StampsBefore(update.log, stamp), VersionsBefore(update.log, version), fs, sn)
    BY <1>1
  <2>3. CASE inner
    <3>1. \A f \in S : /\ MovesOn(f, stamp, stamp', fs)
                       /\ version'[f] \in (changes + 1)..changes'
      BY <2>3, EmptyLog DEF Changes, MovesOn
    <3>2. S \intersect DOMAIN update.log = {}
      BY <2>3 DEF WritesInner
    <3>3. Fit(changes', StampsBefore(update.log, stamp'), VersionsBefore(update.log, version'), fs, sn)
      BY ONLY <1>3, <2>1, <2>2, <3>1, <3>2, BeforeFitsAfterChange
    <3>4. QED BY <2>3, <3>3
  <2>4. CASE ~inner
    <3>1. /\ StampsBefore(Logged(update.log, S), stamp') = StampsBefore(update.log, stamp)
          /\ VersionsBefore(Logged(update.log, S), version') = VersionsBefore(update.log, version)
      BY ONLY <1>3, <2>1, <2>2, LoggedIsBefore
    <3>2. Fit(changes', StampsBefore(update.log, stamp), VersionsBefore(update.log, version), fs, sn)
      BY ONLY <2>1, <2>2, FitLater
    <3>3. QED BY <2>4, <3>1, <3>2
  <2>5. QED BY <2>3, <2>4
<1>8. Over(update.fact_stamps, factStamps') = fs /\ Over(update.seen, seen') = sn
  <2>1. /\ factStamps \in [DOMAIN order -> [Facts -> Nat]]
        /\ seen \in [DOMAIN order -> [Facts -> 0..changes]]
    BY <1>1, FitHolds
  <2>2. /\ DOMAIN factStamps' = DOMAIN factStamps /\ DOMAIN seen' = DOMAIN seen
        /\ \A t \in DOMAIN factStamps : t # d => factStamps'[t] = factStamps[t]
        /\ \A t \in DOMAIN seen : t # d => seen'[t] = seen[t]
    BY <2>1
  <2>3. d \in DOMAIN update.fact_stamps /\ d \in DOMAIN update.seen
    BY <1>2, <1>4
  <2>4. Over(update.fact_stamps, factStamps') = fs
    BY ONLY <2>2, <2>3 DEF Over, fs
  <2>5. Over(update.seen, seen') = sn
    BY ONLY <2>2, <2>3 DEF Over, sn
  <2>6. QED BY <2>4, <2>5
<1>9. r \in Seq(Checked(T))
  <2>1. Append(update.ran, d) \in Seq(Checked(T))
    BY ONLY <1>1, <1>4, AppendProperties
  <2>2. QED BY <1>1, <2>1
<1>10. update.at + 1 \in 1..(Len(order[T].update_targets) + 1)
  BY <1>1 DEF Listed
<1> HIDE DEF l, r
<1>11. update' = [target |-> T, at |-> update.at + 1, needs_update |-> TRUE, ok |-> ok,
                  log |-> l, ran |-> r, fact_stamps |-> update.fact_stamps, seen |-> update.seen]
  BY DEF l, r
<1>12. /\ update'.target = T /\ update'.log = l
       /\ update'.fact_stamps = update.fact_stamps /\ update'.seen = update.seen
  BY <1>11
<1>13. update' \in Updates(T)
  <2>1. TRUE \in BOOLEAN /\ ok \in BOOLEAN
    OBVIOUS
  <2> HIDE DEF T
  <2>2. QED BY ONLY <1>2, <1>6, <1>9, <1>10, <1>11, <2>1 DEF Updates
<1>14. QED BY <1>1, <1>6, <1>7, <1>8, <1>12, <1>13 DEF CanFail

LEMMA ScriptStep ==
    ASSUME Habits = {}, Inv, Script
    PROVE  Inv'
<1> DEFINE d == Listed[update.at]
           T == update.target
<1>1. /\ update # NoUpdate /\ update.ok /\ update.at <= Len(Listed)
      /\ Wanted(d)
  BY DEF Script, Visiting
<1>2. PICK ok \in BOOLEAN : Execute(d, ok)
  BY DEF Script
<1>3. /\ factStamps' = IF ok THEN [factStamps EXCEPT ![d] = Stamped(d, stamp')] ELSE factStamps
      /\ seen' = IF ok THEN [seen EXCEPT ![d] = Stamped(d, version')] ELSE seen
      /\ UNCHANGED <<loaded, order, txs, scheduled, gaveUp>>
  BY <1>2 DEF Execute
<1> HIDE DEF d
<1>4. PICK S \in SUBSET loaded.facts, inner \in BOOLEAN :
         /\ Writes(d, S) /\ (inner => WritesInner(S)) /\ (S = {} => inner)
         /\ Changes(S, IF inner THEN <<>> ELSE update.log)
         /\ update' = [target |-> update.target, at |-> update.at + 1, needs_update |-> TRUE,
                       ok |-> ok,
                       log |-> IF inner THEN update.log ELSE Logged(update.log, S),
                       ran |-> IF ok THEN Append(update.ran, d) ELSE update.ran,
                       fact_stamps |-> update.fact_stamps, seen |-> update.seen]
  BY ONLY <1>1, <1>2, Inv, Habits = {}, ScriptDoes
<1>5. /\ Shape /\ Anchored /\ changes \in Nat
      /\ stamp \in [Facts -> Nat] /\ version \in [Facts -> Nat]
      /\ Fit(changes, stamp, version, factStamps, seen)
      /\ txs = <<>> /\ scheduled \in BOOLEAN /\ gaveUp \in BOOLEAN
      /\ T \in loaded.targets
      /\ update.log \in Logs
      /\ Listed \in Seq(loaded.targets) /\ Len(Listed) \in Nat
      /\ update.at \in 1..(Len(Listed) + 1)
      /\ update.ran \in Seq(Checked(T))
  BY <1>1, InUpdate
<1>6. S \in SUBSET Facts
  BY <1>5 DEF Shape
<1>7. CanFail(update', changes', stamp', version', factStamps', seen')
  BY ONLY <1>1, <1>3, <1>4, Inv, Habits = {}, ScriptCanFail DEF d
<1>8. /\ update.at \in DOMAIN order[T].update_targets
      /\ d = order[T].update_targets[update.at]
  BY <1>1, <1>5 DEF Listed, d
<1>9. GoesWell(update, stamp, version, factStamps, seen, scheduled \/ gaveUp)
  BY <1>1 DEF Inv
<1> DEFINE log == IF inner THEN <<>> ELSE update.log
<1>10. Changes(S, log) /\ (log = <<>> \/ (log = update.log /\ Rewrites(S)))
  BY <1>1, <1>4, <1>5, <1>8, <1>9, ScriptWritesNews
<1> HIDE DEF log
<1>11. Fit(changes', stamp', version', factStamps', seen')
  <2>1. CASE ok
    <3>1. \A k \in 1..(update.at - 1) : \A t \in loaded.targets \ {AutoTarget} :
             t = order[T].update_targets[k] =>
                \A f \in FactsOf(t) : factStamps[t][f] >= stamp[f]
      BY <1>9 DEF GoesWell
    <3>2. /\ factStamps' = [factStamps EXCEPT ![d] = Stamped(d, stamp')]
          /\ seen' = [seen EXCEPT ![d] = Stamped(d, version')]
      BY <1>3, <2>1
    <3>3. Writes(d, S) /\ Changes(S, log) /\ (log = <<>> \/ (log = update.log /\ Rewrites(S)))
      BY <1>4, <1>10
    <3>4. /\ Shape /\ changes \in Nat /\ stamp \in [Facts -> Nat] /\ T \in loaded.targets
          /\ Fit(changes, stamp, version, factStamps, seen)
      BY <1>5
    <3>5. QED BY ONLY <1>6, <1>8, <3>1, <3>2, <3>3, <3>4, ScriptFits
  <2>2. CASE ~ok
    <3>1. /\ changes' \in Nat /\ changes <= changes'
          /\ stamp' \in [Facts -> Nat] /\ version' \in [Facts -> Nat]
          /\ \A f \in S : /\ MovesOn(f, stamp, stamp', factStamps)
                          /\ version'[f] \in (changes + 1)..changes'
          /\ \A f \in Facts \ S : stamp'[f] = stamp[f] /\ version'[f] = version[f]
      BY <1>10, ChangesMoveOn DEF Changes
    <3>2. /\ Shape /\ changes \in Nat
          /\ Fit(changes, stamp, version, factStamps, seen)
      BY <1>5
    <3>3. Fit(changes', stamp', version', factStamps, seen)
      BY ONLY <1>6, <3>1, <3>2, FitAfterChange
    <3>4. QED BY <1>3, <2>2, <3>3
  <2>3. QED BY <2>1, <2>2
<1>12. update'.ok = ok
  BY <1>4
<1> DEFINE coming == scheduled \/ gaveUp
<1>13. ASSUME ok
       PROVE  GoesWell(update', stamp', version', factStamps', seen', coming')
  <2>1. coming' = coming
    BY <1>3
  <2>3. Wants(update, d, stamp, factStamps)
    BY <1>1, OlderHolds DEF Wants, d
  <2>4. /\ update'.target = T /\ update'.at = update.at + 1 /\ update'.needs_update
        /\ update'.ran = Append(update.ran, d)
    BY <1>4, <1>13
  <2>5. \/ WritesInner(S) /\ update'.log = update.log /\ log = <<>>
        \/ S # {} /\ DOMAIN update'.log = DOMAIN update.log \union S /\ log = update.log
    <3>1. DOMAIN Logged(update.log, S) = DOMAIN update.log \union S
      BY ONLY <1>5, <1>6, LoggedAdds
    <3>2. update'.log = (IF inner THEN update.log ELSE Logged(update.log, S))
      BY <1>4
    <3>3. QED BY <1>4, <3>1, <3>2 DEF log
  <2>6. /\ factStamps' = [factStamps EXCEPT ![d] = Stamped(d, stamp')]
        /\ seen' = [seen EXCEPT ![d] = Stamped(d, version')]
    BY <1>3, <1>13
  <2>7. Writes(d, S) /\ Changes(S, log)
    BY <1>4, <1>10
  <2>8. /\ Shape /\ Anchored /\ changes \in Nat /\ stamp \in [Facts -> Nat] /\ T \in loaded.targets
        /\ Fit(changes, stamp, version, factStamps, seen)
        /\ update.log \in Logs /\ update.ran \in Seq(Checked(T))
    BY <1>5
  <2> DEFINE at == update.at
  <2>9. at \in DOMAIN order[T].update_targets /\ d = order[T].update_targets[at]
    BY <1>8
  <2>10. update.target = T /\ update.at = at /\ update'.at = at + 1
    BY <2>4
  <2> HIDE DEF at, T
  <2>11. GoesWell(update', stamp', version', factStamps', seen', scheduled \/ gaveUp)
    BY ONLY <1>6, <1>9, <2>3, <2>4, <2>5, <2>6, <2>7, <2>8, <2>9, <2>10,
            Habits = {}, ScriptGoesWell
  <2>12. QED BY <2>1, <2>11
<1>14. changes' \in 0..MaxChanges /\ scheduled' \in BOOLEAN /\ gaveUp' \in BOOLEAN
  BY <1>3, <1>4, <1>5, RulesetsAreGraphs DEF Changes
<1>15. txs' = <<>> /\ UNCHANGED <<loaded, order>>
  BY <1>3, <1>5
<1>16. update'.ok => GoesWell(update', stamp', version', factStamps', seen', scheduled' \/ gaveUp')
  BY <1>12, <1>13
<1>17. Anchored
  BY <1>5
<1>18. QED BY ONLY <1>7, <1>11, <1>14, <1>15, <1>16, <1>17, Inv, UpdateStep

-----------------------------------------------------------------------------
(* The theorem *)

LEMMA InitInv ==
    ASSUME SortsRight(Rulesets), Init
    PROVE  Inv
<1>1. PICK g \in Rulesets :
         /\ loaded = IF Accepted(g) THEN WithAuto(g) ELSE g
         /\ order = IF Accepted(g) THEN SortTargets(WithAuto(g)) ELSE <<>>
         /\ stamp = [f \in Facts |-> 1]
         /\ factStamps = [t \in DOMAIN order |-> [f \in Facts |-> 0]]
         /\ txs = <<>>
         /\ update = NoUpdate
         /\ scheduled = FALSE
         /\ version = [f \in Facts |-> 0]
         /\ changes = 0
         /\ seen = [t \in DOMAIN order |-> [f \in Facts |-> 0]]
         /\ gaveUp = FALSE
  BY DEF Init
<1>2. Running => Shape
  <2>1. SUFFICES ASSUME Accepted(g) PROVE Shape
    BY <1>1 DEF Running
  <2>2. loaded = WithAuto(g) /\ order = SortTargets(WithAuto(g))
    BY <1>1, <2>1
  <2>3. QED BY ONLY <2>1, <2>2, SortsRight(Rulesets), g \in Rulesets, GraphHasShape
<1>3. \A t \in DOMAIN order : FactsOf(t) \subseteq Facts
  BY <1>2 DEF Running, Shape
<1>4. Fit(changes, stamp, version, factStamps, seen)
  <2>1. \A t \in DOMAIN order : \A d \in DependsOn(loaded, t) \ loaded.facts :
           \A f \in FactsOf(d) : factStamps[t][f] <= factStamps[d][f]
    <3>1. SUFFICES ASSUME NEW t \in DOMAIN order, NEW d \in DependsOn(loaded, t) \ loaded.facts,
                          NEW f \in FactsOf(d)
                   PROVE  factStamps[t][f] <= factStamps[d][f]
      OBVIOUS
    <3>2. Shape /\ t \in loaded.targets /\ DOMAIN order = loaded.targets
      BY <1>1, <1>2, <3>1 DEF Running, Shape
    <3>3. d \in Checked(t)
      BY <3>1, <3>2 DEF Shape
    <3>4. d \in DOMAIN order
      BY <3>2, <3>3, CheckedAreTargets
    <3>5. f \in Facts
      BY <1>3, <3>1, <3>4
    <3>6. QED BY <1>1, <3>1, <3>4, <3>5
  <2>2. QED BY <1>1, <1>3, <2>1 DEF Fit
<1>5. TransactionsFit
  <2>1. txs \in Seq(Transactions) /\ Len(txs) = 0 /\ DOMAIN txs = {}
    BY <1>1
  <2>2. QED BY <2>1 DEF TransactionsFit
<1>6. PendingIsScheduled
  <2>1. \A f \in Facts : Original[f] = 0
    BY <1>1 DEF Original
  <2>2. \A t \in DOMAIN order : ~Behind(t, Original, seen)
    BY <1>1, <1>3, <2>1 DEF Behind
  <2>3. QED BY <2>2 DEF PendingIsScheduled
<1>7. changes \in 0..MaxChanges
  BY <1>1, RulesetsAreGraphs
<1>8. QED BY <1>1, <1>2, <1>4, <1>5, <1>6, <1>7 DEF Inv

LEMMA NextInv ==
    ASSUME Habits = {}, Inv, [Next]_vars
    PROVE  Inv'
<1>1. CASE Begin
  BY <1>1, BeginStep
<1>2. CASE Change
  BY <1>2, ChangeStep
<1>3. CASE Commit
  BY <1>3, CommitStep
<1>4. CASE Rollback
  BY <1>4, RollbackStep
<1>5. CASE Resolve
  BY <1>5, ResolveStep
<1>6. CASE AutoUpdate
  BY <1>6, AutoUpdateStep
<1>7. CASE Skip
  BY <1>7, SkipStep
<1>8. CASE Script
  BY <1>8, ScriptStep
<1>9. CASE UpdateDone
  BY <1>9, UpdateDoneStep
<1>10. CASE UpdateFailed
  BY <1>10, UpdateFailedStep
<1>11. CASE UNCHANGED vars
  <2>1. UNCHANGED <<loaded, order, stamp, factStamps, txs, update, scheduled,
                    version, changes, seen, gaveUp>>
    BY <1>11 DEF vars
  <2>2. /\ Shape' <=> Shape
        /\ Running' <=> Running
        /\ Anchored' <=> Anchored
        /\ \A t : FactsOf(t)' = FactsOf(t) /\ Checked(t)' = Checked(t)
        /\ \A t : DependsOn(loaded, t)' = DependsOn(loaded, t)
        /\ Fit(changes, stamp, version, factStamps, seen)'
              <=> Fit(changes', stamp', version', factStamps', seen')
    BY <2>1, FitSame
  <2>3. CASE update # NoUpdate
    <3>1. /\ Anchored /\ txs = <<>> /\ changes \in 0..MaxChanges
          /\ scheduled \in BOOLEAN /\ gaveUp \in BOOLEAN
          /\ Fit(changes, stamp, version, factStamps, seen)
          /\ CanFail(update, changes, stamp, version, factStamps, seen)
          /\ update.ok => GoesWell(update, stamp, version, factStamps, seen, scheduled \/ gaveUp)
      BY <2>3 DEF Inv
    <3>2. /\ UNCHANGED <<loaded, order>> /\ txs' = <<>> /\ changes' \in 0..MaxChanges
          /\ scheduled' \in BOOLEAN /\ gaveUp' \in BOOLEAN
          /\ Fit(changes', stamp', version', factStamps', seen')
          /\ CanFail(update', changes', stamp', version', factStamps', seen')
          /\ update'.ok =>
                GoesWell(update', stamp', version', factStamps', seen', scheduled' \/ gaveUp')
      BY <2>1, <3>1
    <3>3. QED BY ONLY <3>1, <3>2, Inv, UpdateStep
  <2>4. CASE update = NoUpdate
    <3>1. TransactionsFit /\ PendingIsScheduled
      BY <2>4 DEF Inv
    <3>2. TransactionsFit'
      <4>1. /\ txs' \in Seq(Transactions) /\ Len(txs') <= 2
            /\ \A i \in DOMAIN txs' :
                  /\ DOMAIN txs'[i].log \subseteq loaded.facts
                  /\ Fit(changes', StampsBefore(txs'[i].log, stamp'),
                         VersionsBefore(txs'[i].log, version'), factStamps, seen)
                  /\ IsNews(DOMAIN txs'[i].log, stamp', factStamps)
                  /\ txs'[i].inner => txs'[i].log # <<>>
            /\ Len(txs') = 2 =>
                  /\ ~txs'[2].inner
                  /\ txs'[2].log # <<>> => txs'[1].log # <<>>
                  /\ DOMAIN txs'[1].log \intersect DOMAIN txs'[2].log = {}
        BY <2>1, <3>1 DEF TransactionsFit
      <4>2. QED BY ONLY <2>1, <4>1, TransactionsStep
    <3>3. PendingIsScheduled'
      <4>1. SUFFICES ASSUME NEW t \in DOMAIN order \ {AutoTarget}, Behind(t, Original, seen)'
                     PROVE  scheduled \/ gaveUp \/ (txs # <<>> /\ txs[1].inner)
        BY <2>1 DEF PendingIsScheduled
      <4>2. Original' = Original
        BY <2>1 DEF Original
      <4>3. Behind(t, Original, seen)
        BY <2>1, <2>2, <4>1, <4>2 DEF Behind
      <4>4. QED BY <3>1, <4>1, <4>3 DEF PendingIsScheduled
    <3>4. QED BY <2>1, <2>2, <2>4, <3>2, <3>3 DEF Inv, NoUpdate
  <2>5. QED BY <2>3, <2>4
<1>12. QED BY <1>1, <1>2, <1>3, <1>4, <1>5, <1>6, <1>7, <1>8, <1>9, <1>10, <1>11
     DEF Next, Application, Continue

LEMMA InvType ==
    ASSUME Inv
    PROVE  TypeOK
<1>1. /\ Fit(changes, stamp, version, factStamps, seen)
      /\ TransactionsFit
      /\ scheduled \in BOOLEAN /\ gaveUp \in BOOLEAN
      /\ changes \in 0..MaxChanges /\ MaxChanges \in Nat
      /\ Running => Shape
  BY RulesetsAreGraphs DEF Inv
<1>2. /\ stamp \in [Facts -> 1..(changes + 1)]
      /\ version \in [Facts -> 0..changes]
      /\ factStamps \in [DOMAIN order -> [Facts -> Nat]]
      /\ seen \in [DOMAIN order -> [Facts -> 0..changes]]
      /\ \A t \in DOMAIN order : \A f \in Facts : factStamps[t][f] <= stamp[f]
  BY <1>1, FitHolds
<1>3. stamp \in [Facts -> 0..(MaxChanges + 1)]
  BY <1>1, <1>2
<1>4. factStamps \in [DOMAIN order -> [Facts -> 0..(MaxChanges + 1)]]
  <2>1. \A t \in DOMAIN order : \A f \in Facts : factStamps[t][f] \in 0..(MaxChanges + 1)
    BY <1>1, <1>2, <1>3
  <2>2. \A t \in DOMAIN order : factStamps[t] \in [Facts -> 0..(MaxChanges + 1)]
    BY <1>2, <2>1
  <2>3. QED BY <1>2, <2>2
<1>5. Len(txs) <= 2 /\ \A i \in DOMAIN txs : DOMAIN txs[i].log \subseteq loaded.facts
  BY <1>1 DEF TransactionsFit
<1>6. Running => DOMAIN order = loaded.targets /\ AutoTarget \in loaded.targets
  BY <1>1 DEF Shape
<1>7. ASSUME update # NoUpdate
      PROVE  /\ update.at \in 1..(Len(Listed) + 1)
             /\ DOMAIN update.log \subseteq loaded.facts
             /\ ToSet(update.ran) \subseteq Checked(update.target)
  <2>1. /\ update.at \in 1..(Len(Listed) + 1)
        /\ DOMAIN update.log \subseteq loaded.facts
        /\ update.ran \in Seq(Checked(update.target))
    BY <1>7, InUpdate
  <2>2. ToSet(update.ran) \subseteq Checked(update.target)
    BY <2>1 DEF ToSet
  <2>3. QED BY <2>1, <2>2
<1>8. QED BY <1>1, <1>2, <1>3, <1>4, <1>5, <1>6, <1>7 DEF TypeOK

LEMMA InvKnown ==
    ASSUME Inv
    PROVE  StaleIsKnown
<1>1. Fit(changes, stamp, version, factStamps, seen) /\ (Running => Shape)
  BY DEF Inv
<1>2. StaleIsNoticed
  BY <1>1, FitHolds DEF StaleIsNoticed
<1>3. StaleIsScheduled
  <2>1. SUFFICES ASSUME NEW t \in DOMAIN order \ {AutoTarget}, NEW f \in FactsOf(t),
                        version[f] # seen[t][f], update = NoUpdate, txs = <<>>
                 PROVE  scheduled \/ gaveUp
    BY DEF StaleIsScheduled, Stale
  <2>2. PendingIsScheduled
    BY <2>1 DEF Inv
  <2>3. f \in Facts
    BY <1>1, <2>1 DEF Running, Shape
  <2>4. Original[f] = version[f]
    BY <2>1, <2>3 DEF Original
  <2>5. Behind(t, Original, seen)
    BY <2>1, <2>4 DEF Behind
  <2>6. QED BY <2>1, <2>2, <2>5 DEF PendingIsScheduled
<1>4. DependentsFollow
  <2>1. SUFFICES ASSUME update # NoUpdate, update.ok, update.at > Len(Listed),
                        NEW i \in DOMAIN update.ran, NEW t \in Checked(update.target),
                        update.ran[i] \in DependsOn(loaded, t)
                 PROVE  \E j \in DOMAIN update.ran : j > i /\ update.ran[j] = t
    BY DEF DependentsFollow
  <2>2. GoesWell(update, stamp, version, factStamps, seen, scheduled \/ gaveUp)
    BY <2>1 DEF Inv
  <2>3. Len(Listed) \in Nat /\ update.at \in 1..(Len(Listed) + 1)
    BY <2>1, InUpdate
  <2>4. ~Todo(update, t)
    BY <2>1, <2>3 DEF Todo, Listed
  <2>5. QED BY <2>1, <2>2, <2>4 DEF GoesWell
<1>5. QED BY <1>2, <1>3, <1>4, InvType DEF StaleIsKnown

(* Nothing goes stale unnoticed, for any rulesets that sort right and any     *)
(* number of changes, with customary habits: a table that differs from what  *)
(* a target's script saw is newer by the stamps (older_than_facts), has an   *)
(* update scheduled unless one failed over it (transaction_event), and an    *)
(* update that succeeds has updated, after each target, what depends on it   *)
(* (update_target), through any roll-backs.                                  *)
THEOREM StaleStaysKnown ==
    ASSUME Habits = {}, SortsRight(Rulesets)
    PROVE  Spec => []StaleIsKnown
<1>1. Init => Inv
  BY InitInv
<1>2. Inv /\ [Next]_vars => Inv'
  BY NextInv
<1>3. Inv => StaleIsKnown
  BY InvKnown
<1>4. QED BY <1>1, <1>2, <1>3, PTL DEF Spec
=============================================================================
