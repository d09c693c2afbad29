------------------------------ MODULE Resolver ------------------------------
(* The resolver (resolver/target.c, fact.c, resolver.c): targets with update  *)
(* scripts, the facts (database tables) they depend on, and the update that  *)
(* runs, inside one transaction, the scripts of everything a target depends  *)
(* on that is older than its facts.  Transactions on the database, of the    *)
(* application and of the scripts, end with an event that schedules the      *)
(* update of the generated autoupdate target from the main loop.             *)
(* version and seen are history: what the tables really hold, and what each  *)
(* target's script really saw when it last succeeded.                        *)
EXTENDS TargetSorter

CONSTANTS Facts,        \* the tables rulesets depend on, numbered
          Rulesets,     \* the graphs a ruleset file or Lua code may declare
          AutoTarget,   \* the number of the generated target
          MaxChanges,   \* bound: changes of tables in a behaviour
          Habits        \* what is not customary: drop, inside, inner_only,
                        \* partial, feedback, factless

ASSUME AutoIsLast ==
    \A g \in Rulesets : /\ g.facts \subseteq Facts
                        /\ \A n \in Nodes(g) : n < AutoTarget

ASSUME RulesetsAreGraphs ==
    /\ Facts \subseteq Nat /\ IsFiniteSet(Facts)
    /\ AutoTarget \in Nat /\ MaxChanges \in Nat
    /\ \A g \in Rulesets :
          /\ g = [facts |-> g.facts, targets |-> g.targets, depends |-> g.depends]
          /\ g.facts \intersect g.targets = {}
          /\ g.depends \in [g.targets -> SUBSET Nodes(g)]

NoUpdate == [target |-> 0]

VARIABLES
    loaded,       \* the ruleset, with its autoupdate target when accepted
    order,        \* update_facts and update_targets of its targets, if accepted
    stamp,        \* the stamp of each table
    factStamps,   \* fact_stamps: the stamps at each target's last update
    txs,          \* the application's open transactions: log, and whether an
                  \* inner one committed changes
    update,       \* the update in progress, or NoUpdate
    scheduled,    \* auto_scheduled is enabled
    version,      \* history: the content of each table
    changes,      \* history: how many contents there have been
    seen,         \* history: the contents each target's script has dealt with
    gaveUp        \* history: an update failed since the last one was scheduled

vars == <<loaded, order, stamp, factStamps, txs, update, scheduled,
          version, changes, seen, gaveUp>>

-----------------------------------------------------------------------------
(* generate_autoupdate_target: it depends on every target some fact matters  *)
(* to; without any such target it cannot be created.                         *)
Autoupdated(g) == {t \in g.targets : SortGraph(g, t).update_facts # <<>>}

WithAuto(g) ==
    [g EXCEPT !.targets = @ \union {AutoTarget},
              !.depends = [t \in g.targets \union {AutoTarget} |->
                              IF t = AutoTarget THEN Autoupdated(g) ELSE g.depends[t]]]

Accepted(g) == Sortable(g) /\ Autoupdated(g) # {} /\ Sortable(WithAuto(g))

(* The daemon loads the ruleset, sorts it, adds the autoupdate target and    *)
(* sorts again; a ruleset it cannot sort ends it.  Tables count from 1.      *)
Init ==
    \E g \in Rulesets :
        /\ loaded = IF Accepted(g) THEN WithAuto(g) ELSE g
        /\ order = IF Accepted(g) THEN SortTargets(WithAuto(g)) ELSE <<>>
        /\ stamp = [f \in Facts |-> 1]
        /\ factStamps = [t \in DOMAIN order |-> [f \in Facts |-> 0]]
        /\ txs = <<>>
        /\ update = NoUpdate
        /\ scheduled = FALSE
        /\ version = [f \in Facts |-> 0]
        /\ changes = 0
        /\ seen = [t \in DOMAIN order |-> [f \in Facts |-> 0]]
        /\ gaveUp = FALSE

Running == order # <<>>

FactsOf(t) == ToSet(order[t].update_facts)

(* The targets an update of t checks, t among them. *)
Checked(t) == ToSet(order[t].update_targets)

(* Customarily only targets that lead to facts are depended on. *)
Anchored ==
    /\ Running
    /\ "factless" \in Habits
          \/ \A t \in loaded.targets : \A d \in loaded.depends[t] \ loaded.facts : FactsOf(d) # {}

-----------------------------------------------------------------------------
(* f, and g where f has nothing. *)
Over(f, g) == [x \in DOMAIN f \union DOMAIN g |-> IF x \in DOMAIN f THEN f[x] ELSE g[x]]

(* Transactions.  A log holds, for each table changed, how it was before.     *)
Logged(log, S) == Over(log, [f \in S |-> [stamp |-> stamp[f], version |-> version[f]]])

(* The first change of a table in a transaction, the one that makes its log,  *)
(* moves the stamp on; a table dropped and created again starts anew.         *)
ChangeTables(S, log) ==
    /\ changes + Cardinality(S) <= MaxChanges
    /\ changes' = changes + Cardinality(S)
    /\ version' = [f \in Facts |->
                     IF f \in S THEN changes + Cardinality({e \in S : e <= f})
                     ELSE version[f]]
    /\ \E dropped \in SUBSET (IF "drop" \in Habits THEN S ELSE {}) :
          stamp' = [f \in Facts |-> IF f \in dropped THEN 1
                                   ELSE IF f \in S \ DOMAIN log THEN stamp[f] + 1
                                   ELSE stamp[f]]

Undo(log) ==
    /\ stamp' = Over([f \in DOMAIN log |-> log[f].stamp], stamp)
    /\ version' = Over([f \in DOMAIN log |-> log[f].version], version)

(* mutant: the test on the depth counts the transaction as already over *)
Ended_Over(log, depth) == log # <<>> /\ depth - 1 = 1

(* transaction_event: the end of a transaction that changed something, and   *)
(* is not nested, schedules the update (schedule_target_autoupdate).         *)
Ended(log, depth) == log # <<>> /\ depth = 1

Schedule(ended) ==
    /\ scheduled' = (scheduled \/ ended)
    /\ gaveUp' = (gaveUp /\ ~ended)

Begin ==
    /\ Anchored /\ update = NoUpdate
    /\ Len(txs) < 2 /\ changes < MaxChanges
    /\ txs' = Append(txs, [log |-> <<>>, inner |-> FALSE])
    /\ UNCHANGED <<loaded, order, stamp, factStamps, update, scheduled,
                   version, changes, seen, gaveUp>>

(* The application changes a table.  An inner transaction leaves alone what   *)
(* the outer one changed.  Its changes stay, without an event, whatever        *)
(* becomes of the outer one; customarily that one has changes too, and is      *)
(* committed.                                                                *)
Change ==
    /\ update = NoUpdate /\ txs # <<>>
    /\ \E f \in loaded.facts :
          /\ \A i \in 1..(Len(txs) - 1) :
                /\ f \notin DOMAIN txs[i].log
                /\ txs[i].log # <<>> \/ "inner_only" \in Habits
          /\ ChangeTables({f}, Last(txs).log)
          /\ txs' = [txs EXCEPT ![Len(txs)].log = Logged(@, {f})]
    /\ UNCHANGED <<loaded, order, factStamps, update, scheduled, seen, gaveUp>>

Outer(changed) ==
    IF Len(txs) = 1 THEN <<>> ELSE <<[txs[1] EXCEPT !.inner = @ \/ changed]>>

Commit ==
    /\ update = NoUpdate /\ txs # <<>>
    /\ Schedule(Ended(Last(txs).log, Len(txs)))
    /\ txs' = Outer(Last(txs).log # <<>>)
    /\ UNCHANGED <<loaded, order, stamp, factStamps, update, version, changes, seen>>

Rollback ==
    /\ update = NoUpdate /\ txs # <<>>
    /\ Last(txs).inner => "inner_only" \in Habits
    /\ Undo(Last(txs).log)
    /\ txs' = Outer(FALSE)
    /\ UNCHANGED <<loaded, order, factStamps, update, scheduled, changes, seen, gaveUp>>

-----------------------------------------------------------------------------
(* Updates.  update_target is one call of the single thread: only its own    *)
(* scripts change tables while it runs.                                      *)

(* mutant: only the facts the target names itself count *)
OlderThanFacts_Named(t) ==
    FactsOf(t) = {} \/ \E f \in loaded.depends[t] \intersect loaded.facts :
                          stamp[f] > factStamps[t][f]

(* mutant: a table one change ahead is not newer *)
OlderThanFacts_Lax(t) ==
    FactsOf(t) = {} \/ \E f \in FactsOf(t) : stamp[f] > factStamps[t][f] + 1

OlderThanFacts(t) ==
    FactsOf(t) = {} \/ \E f \in FactsOf(t) : stamp[f] > factStamps[t][f]

(* mutant: records the stamp the next change will have *)
Stamped_Ahead(t, values) ==
    [f \in Facts |-> IF f \in FactsOf(t) THEN values[f] + 1 ELSE 0]

Stamped(t, values) ==
    [f \in Facts |-> IF f \in FactsOf(t) THEN values[f] ELSE 0]

UpdateTarget(t) ==
    update' = [target |-> t, at |-> 1, needs_update |-> OlderThanFacts(t), ok |-> TRUE,
               log |-> <<>>, ran |-> <<>>,
               fact_stamps |-> [d \in Checked(t) |-> factStamps[d]],
               seen |-> [d \in Checked(t) |-> seen[d]]]

(* mrp_resolver_update_target, of a target by name; customarily outside the   *)
(* application's transactions.                                               *)
Resolve ==
    /\ Anchored /\ update = NoUpdate
    /\ txs = <<>> \/ "inside" \in Habits
    /\ \E t \in loaded.targets : UpdateTarget(t)
    /\ UNCHANGED <<loaded, order, stamp, factStamps, txs, scheduled,
                   version, changes, seen, gaveUp>>

(* autoupdate_cb: the main loop runs the deferred callback, which disables    *)
(* itself first.  A transaction does not outlive the callback that began it.  *)
AutoUpdate ==
    /\ update = NoUpdate /\ scheduled
    /\ txs = <<>> \/ "inside" \in Habits
    /\ scheduled' = FALSE
    /\ UpdateTarget(AutoTarget)
    /\ UNCHANGED <<loaded, order, stamp, factStamps, txs,
                   version, changes, seen, gaveUp>>

Listed == order[update.target].update_targets

Visiting == update # NoUpdate /\ update.ok /\ update.at <= Len(Listed)

Wanted(d) == IF d = update.target THEN update.needs_update ELSE OlderThanFacts(d)

Skip ==
    /\ Visiting
    /\ ~Wanted(Listed[update.at])
    /\ update' = [update EXCEPT !.at = @ + 1]
    /\ UNCHANGED <<loaded, order, stamp, factStamps, txs, scheduled,
                   version, changes, seen, gaveUp>>

(* What the script of a target may write: tables that only targets that       *)
(* depend on it read; in a transaction of its own (as the Lua tables do) only *)
(* if this update gets to all of them, and not what was written without one.  *)
Readers(f) == {t \in loaded.targets \ {AutoTarget} : f \in FactsOf(t)}

MayWrite(d, f, inner) ==
    /\ d # AutoTarget
    /\ "feedback" \in Habits \/ \A t \in Readers(f) : d # t /\ d \in Checked(t)
    /\ inner => /\ "partial" \in Habits \/ Readers(f) \subseteq Checked(update.target)
                /\ f \notin DOMAIN update.log

(* Run a script; when it succeeds the target has seen its facts as they are   *)
(* now (update_target_stamps).                                               *)
Execute(d, ok) ==
    /\ \E S \in SUBSET loaded.facts, inner \in BOOLEAN :
          /\ \A f \in S : MayWrite(d, f, inner)
          /\ S = {} => inner
          /\ ChangeTables(S, IF inner THEN <<>> ELSE update.log)
          /\ update' = [update EXCEPT !.at = @ + 1, !.ok = ok, !.needs_update = TRUE,
                                      !.log = IF inner THEN @ ELSE Logged(@, S),
                                      !.ran = IF ok THEN Append(@, d) ELSE @]
    /\ factStamps' = IF ok THEN [factStamps EXCEPT ![d] = Stamped(d, stamp')] ELSE factStamps
    /\ seen' = IF ok THEN [seen EXCEPT ![d] = Stamped(d, version')] ELSE seen
    /\ UNCHANGED <<loaded, order, txs, scheduled, gaveUp>>

Script ==
    /\ Visiting
    /\ Wanted(Listed[update.at])
    /\ \/ Execute(Listed[update.at], TRUE)
       \/ Listed[update.at] # AutoTarget /\ Execute(Listed[update.at], FALSE)

(* Every script succeeded: commit. *)
UpdateDone ==
    /\ update # NoUpdate /\ update.ok /\ update.at > Len(Listed)
    /\ Schedule(Ended(update.log, Len(txs) + 1))
    /\ update' = NoUpdate
    /\ UNCHANGED <<loaded, order, stamp, factStamps, txs, version, changes, seen>>

(* mutant: only the target asked for gets its stamps back *)
Restored_One ==
    [factStamps EXCEPT ![update.target] = update.fact_stamps[update.target]]

(* A script failed: roll back, and restore the stamps of every target checked. *)
Restored == Over(update.fact_stamps, factStamps)

UpdateFailed ==
    /\ update # NoUpdate /\ ~update.ok
    /\ Undo(update.log)
    /\ factStamps' = Restored
    /\ seen' = Over(update.seen, seen)
    /\ update' = NoUpdate
    /\ gaveUp' = TRUE
    /\ UNCHANGED <<loaded, order, txs, scheduled, changes>>

Application == Begin \/ Change \/ Commit \/ Rollback \/ Resolve

Continue == Skip \/ Script \/ UpdateDone \/ UpdateFailed

Next == Application \/ AutoUpdate \/ Continue

Spec == Init /\ [][Next]_vars

(* Scripts return; transactions are ended by those who began them; and the    *)
(* main loop comes back to the deferred callback between any two callbacks of  *)
(* the application, however many there are.                                  *)
FairSpec ==
    /\ Spec
    /\ WF_vars(Continue) /\ SF_vars(AutoUpdate)
    /\ \A n \in 1..2 : SF_vars(Len(txs) = n /\ (Commit \/ Rollback))

-----------------------------------------------------------------------------
(* Stamps only grow, transactions and updates are of the accepted ruleset,    *)
(* and nobody has seen what no table ever held.                              *)
TypeOK ==
    /\ Running => /\ DOMAIN order = loaded.targets
                  /\ AutoTarget \in loaded.targets
    /\ stamp \in [Facts -> 0..(MaxChanges + 1)]
    /\ version \in [Facts -> 0..changes] /\ changes \in 0..MaxChanges
    /\ factStamps \in [DOMAIN order -> [Facts -> 0..(MaxChanges + 1)]]
    /\ seen \in [DOMAIN order -> [Facts -> 0..changes]]
    /\ Len(txs) <= 2 /\ \A i \in DOMAIN txs : DOMAIN txs[i].log \subseteq loaded.facts
    /\ update # NoUpdate => /\ update.at \in 1..(Len(Listed) + 1)
                            /\ DOMAIN update.log \subseteq loaded.facts
                            /\ ToSet(update.ran) \subseteq Checked(update.target)
    /\ scheduled \in BOOLEAN /\ gaveUp \in BOOLEAN

(* What an update relies on: for each target of g, o lists what it reaches    *)
(* and nothing else, dependencies first and the target last, and the          *)
(* autoupdate target leads to everything some fact matters to.                *)
OrdersRight(g, o) ==
    \A t \in g.targets :
        /\ o[t].update_facts \in Seq(Nodes(g)) /\ o[t].update_targets \in Seq(Nodes(g))
        /\ RightOrder(g, t, o[t])
        /\ ReachedIsLeast(g, t)
        /\ o[t].update_facts # <<>> => t \in ToSet(o[AutoTarget].update_targets)

(* A ruleset is accepted only if it is acyclic, an acyclic one that leads to  *)
(* facts is, and then the order of each target is what sort_graph promises    *)
(* and update_target walks without looking back (target-sorter.c).            *)
SortedRight ==
    changes = 0 /\ txs = <<>> /\ update = NoUpdate =>    \* it stays as loaded
        /\ Running <=> /\ Acyclic(loaded)
                       /\ \E t \in loaded.targets :
                              Reached(loaded, t) \intersect loaded.facts # {}
        /\ Running => OrdersRight(loaded, order)

(* What SortedRight says of the accepted rulesets, before anything runs: the  *)
(* hypothesis of the proofs about updates.                                    *)
SortsRight(rulesets) ==
    \A g \in rulesets : Accepted(g) => OrdersRight(WithAuto(g), SortTargets(WithAuto(g)))

(* Whatever a target's script has not dealt with is news by the stamps too: a *)
(* table whose content differs from what the target saw at its last committed *)
(* update has a newer stamp than the target remembers, through roll-backs of  *)
(* the application and of updates (older_than_facts, restore_target_stamps).  *)
StaleIsNoticed ==
    \A t \in DOMAIN order : \A f \in FactsOf(t) :
        version[f] # seen[t][f] => stamp[f] > factStamps[t][f]

(* The autoupdate target has no script: nothing waits for it. *)
Stale == \E t \in DOMAIN order \ {AutoTarget} : \E f \in FactsOf(t) : version[f] # seen[t][f]

(* When no transaction is open and no update runs, a change no script has     *)
(* dealt with has an update scheduled, unless an update failed over it: the   *)
(* autoupdate target is the "target to resolve on fact changes"              *)
(* (resolver-types.h), though only ends of outermost transactions count.     *)
StaleIsScheduled ==
    (Stale /\ update = NoUpdate /\ txs = <<>>) => (scheduled \/ gaveUp)

(* An update leaves no target behind what it depends on: when it succeeds, a  *)
(* checked target whose dependency was updated has been updated too, after it *)
(* (update_target, whose comparison of target stamps never tells anything).   *)
DependentsFollow ==
    (update # NoUpdate /\ update.ok /\ update.at > Len(Listed)) =>
        \A i \in DOMAIN update.ran : \A t \in Checked(update.target) :
            update.ran[i] \in DependsOn(loaded, t) =>
                \E j \in DOMAIN update.ran : j > i /\ update.ran[j] = t

(* Nothing goes stale unnoticed: what differs is newer by the stamps, has an  *)
(* update coming, and that update leaves nothing behind.                      *)
StaleIsKnown == TypeOK /\ StaleIsNoticed /\ StaleIsScheduled /\ DependentsFollow

(* Every change is dealt with in the end, unless an update fails over it.     *)
StaleIsResolved == Stale ~> (~Stale \/ gaveUp)

=============================================================================
