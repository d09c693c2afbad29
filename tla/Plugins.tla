-------------------------------- MODULE Plugins --------------------------------
(***************************************************************************)
(* The plugins of the daemon (src/murphy-0.0.24/src/core): how they are    *)
(* loaded, started, stopped and unloaded (plugin.c), the methods they      *)
(* export to and import from each other (method.c), the events that tell   *)
(* of all this (event.c), and how the daemon comes up (daemon.c).          *)
(*                                                                         *)
(* Everything is one thread, but the init and exit functions of plugins    *)
(* and the callbacks of events may load plugins and watch events           *)
(* themselves: the stack of the calls in progress is part of the state.    *)
(*                                                                         *)
(* Nothing in src/ stops a plugin.  mrp_stop_plugin and mrp_unload_plugin  *)
(* are modelled for users who call them when the daemon runs, on built-in  *)
(* plugins that run and have no call of theirs in progress.  The events of  *)
(* the daemon itself are left out.                                         *)
(*                                                                         *)
(* A definition X_Y in front of X is X with the fault Y: a mutant that     *)
(* some property below must catch.  Nothing refers to it.                  *)
(***************************************************************************)
EXTENDS Naturals, Sequences, FiniteSets, SequencesExt

CONSTANTS
    Cells,          \* the memory of plugins
    Descrs, Names,  \* plugin descriptors, instance names
    Plans,          \* the loads that are tried: descriptor and instance name
    Methods,
    Exports,        \* of a descriptor: a sequence of methods
    Imports,        \* of a descriptor: a sequence of [from, name], where from
                    \* is the instance meant or None (mrp_import_method)
    Singletons,     \* the descriptors with MRP_SINGLETON
    Watches,
    Mask,           \* the events a watch is for
    None,           \* the NULL pointer
    Habits,         \* what the plugins and their users do, see HabitsAssumption
    InstanceLimit,  \* bound: no load once ninstance has this value
    DepthLimit      \* bound: plugins and callbacks call nothing in deeper calls

Events == {"loaded", "started", "failed", "stopping", "stopped", "unloaded"}

ASSUME PluginsAssumption ==
    /\ None \notin Cells \cup Names
    /\ Plans \subseteq Descrs \X Names
    /\ Exports \in [Descrs -> Seq(Methods)]
    /\ Imports \in [Descrs -> Seq([from : Names \cup {None}, name : Methods])]
    /\ Singletons \subseteq Descrs
    /\ Mask \in [Watches -> SUBSET Events]
    /\ InstanceLimit \in Nat /\ DepthLimit \in Nat

\* stop         stops and unloads plugins
\* twins        loads a library that imports methods twice: both instances have
\*              their pointers in the same variables
\* drop_inside  deletes event watches while an event is emitted
ASSUME HabitsAssumption == Habits \subseteq {"stop", "twins", "drop_inside"}

VARIABLES
    ctx,        \* ctx->state, and exited after exit(1)
    obj,        \* the plugins in memory; uses and early are history: the
                \* plugins its imports hold, it was loaded before RUNNING
    plugins,    \* ctx->plugins
    ninstance,  \* of the descriptors
    methods,    \* the exporters of each method, in the order of its list
    native,     \* the variables the methods are imported to: whose code they
                \* point to, by descriptor
    links,      \* the plugins that linked script calls hold
    watches,    \* the lists of the watches: of single events, and of several
    gone,       \* the watches that were deleted
    stack       \* the calls in progress, the innermost first

vars == <<ctx, obj, plugins, ninstance, methods, native, links, watches, gone, stack>>

memory == <<obj, plugins, ninstance, methods, native, links>>
told   == <<watches, gone>>

Init ==
    /\ ctx = "loading"
    /\ obj = << >>
    /\ plugins = <<>>
    /\ ninstance = [d \in Descrs |-> 0]
    /\ methods = [m \in Methods |-> <<>>]
    /\ native = [d \in Descrs |-> [k \in DOMAIN Imports[d] |-> None]]
    /\ links = [m \in Methods |-> None]
    /\ watches = [l \in Events \cup {"any"} |-> <<>>]
    /\ gone = {}
    /\ stack = <<>>

Top  == Head(stack)
Rest == Tail(stack)
In(op) == stack # <<>> /\ Top.op = op

\* Code of plugins, of event callbacks, of the configuration or the console.
UserRuns == IF stack = <<>> THEN ctx \in {"loading", "running"}
            ELSE Top.op \in {"init", "exit", "callback"} /\ Len(stack) <= DepthLimit

Busy == {stack[i].p : i \in {j \in DOMAIN stack :
                               stack[j].op \in {"load", "init", "loop", "stop",
                                                "exit", "unload"}}}

-----------------------------------------------------------------------------
(* Events *)

\* mrp_add_event_watch, single_event
ListOf(w) == IF Cardinality(Mask[w]) = 1 THEN (CHOOSE e \in Mask[w] : TRUE) ELSE "any"

Listed(w) == Contains(watches[ListOf(w)], w)

AddWatch(w) ==
    /\ UserRuns
    /\ ~Listed(w)
    /\ w \notin gone
    /\ watches' = [watches EXCEPT ![ListOf(w)] = Append(@, w)]
    /\ UNCHANGED <<ctx, memory, gone, stack>>

\* nemit > 0
Emission == \E i \in DOMAIN stack : stack[i].op = "emit"

\* mrp_del_event_watch.  During an emission the watch is kept for
\* purge_deleted, which is never reached: it stays in its list.
DelWatch(w) ==
    /\ UserRuns
    /\ Listed(w)
    /\ w \notin gone
    /\ Emission => "drop_inside" \in Habits
    /\ gone' = gone \cup {w}
    /\ watches' = IF Emission THEN watches
                  ELSE [watches EXCEPT ![ListOf(w)] = Remove(@, w)]
    /\ UNCHANGED <<ctx, memory, stack>>

First(l) == IF watches[l] = <<>> THEN 0 ELSE 1

\* The call of mrp_emit_event_msg: a walk over the list of the event and the
\* list of the watches of several.  The next entry is taken before the callback
\* of an entry runs.  Nothing happens when there are no watches.
Emit(e) ==
    IF First(e) + First("any") = 0 THEN <<>>
    ELSE <<[op |-> "emit", event |-> e, list |-> e, next |-> First(e)]>>

EmitCall ==
    /\ In("emit")
    /\ Top.next # 0
    /\ LET l    == Top.list
           w    == watches[l][Top.next]
           next == IF Top.next < Len(watches[l]) THEN Top.next + 1 ELSE 0
           call == IF Top.event \in Mask[w]
                   THEN <<[op |-> "callback", w |-> w, dead |-> w \in gone]>>
                   ELSE <<>>
       IN  stack' = call \o <<[Top EXCEPT !.next = next]>> \o Rest
    /\ UNCHANGED <<ctx, memory, told>>

EmitRest ==
    /\ In("emit")
    /\ Top.next = 0
    /\ stack' = IF Top.list = "any" THEN Rest
                ELSE <<[Top EXCEPT !.list = "any", !.next = First("any")]>> \o Rest
    /\ UNCHANGED <<ctx, memory, told>>

CallbackReturns ==
    /\ In("callback")
    /\ stack' = Rest
    /\ UNCHANGED <<ctx, memory, told>>

-----------------------------------------------------------------------------
(* Methods *)

\* find_method: the first exporter in the list, or the first of the instance.
Exporters(i) == {k \in DOMAIN methods[i.name] :
                   i.from \in {None, obj[methods[i.name][k]].name}}
Find(i) == IF Exporters(i) = {} THEN None
           ELSE methods[i.name][CHOOSE k \in Exporters(i) :
                                  \A j \in Exporters(i) : k <= j]

\* export_plugin_methods and remove_plugin_methods; the references are taken in
\* Load and no longer matter in UnloadEnds.
Exporting(p, d) ==
    [m \in Methods |->
       IF Contains(Exports[d], m) THEN Append(methods[m], p) ELSE methods[m]]
Removing(p) == [m \in Methods |-> Remove(methods[m], p)]

\* How many of the imports numbered by K find q.
Hits(d, K, q) == Cardinality({k \in K : Find(Imports[d][k]) = q})

\* import_plugin_methods: up to the first import that fails.
Found(p) == LET d == obj[p].descr IN
    {k \in DOMAIN Imports[d] : \A j \in 1..k : Find(Imports[d][j]) # None}
Complete(p) == Found(p) = DOMAIN Imports[obj[p].descr]

Import_NoRef(p) ==
    LET d == obj[p].descr IN
    /\ obj' = [obj EXCEPT ![p].uses =
                 [k \in DOMAIN @ |-> IF k \in Found(p) THEN Find(Imports[d][k]) ELSE @[k]]]
    /\ native' = [native EXCEPT ![d] =
                    [k \in DOMAIN @ |-> IF k \in Found(p)
                                        THEN obj[Find(Imports[d][k])].descr ELSE @[k]]]
Import(p) ==
    LET d == obj[p].descr IN
    /\ obj' = [q \in DOMAIN obj |->
                 [obj[q] EXCEPT
                    !.refcnt = @ + Hits(d, Found(p), q),
                    !.uses = IF q # p THEN @ ELSE
                               [k \in DOMAIN @ |-> IF k \in Found(p)
                                                   THEN Find(Imports[d][k]) ELSE @[k]]]]
    /\ native' = [native EXCEPT ![d] =
                    [k \in DOMAIN @ |-> IF k \in Found(p)
                                        THEN obj[Find(Imports[d][k])].descr ELSE @[k]]]

\* link_call: the plugin of a script call is never released again.
LinkCall(m) ==
    /\ stack = <<>>
    /\ ctx \in {"starting", "running"}
    /\ links[m] = None
    /\ LET q == Find([from |-> None, name |-> m]) IN
         /\ q # None
         /\ links' = [links EXCEPT ![m] = q]
         /\ obj' = [obj EXCEPT ![q].refcnt = @ + 1]
    /\ UNCHANGED <<ctx, plugins, ninstance, methods, native, told, stack>>

-----------------------------------------------------------------------------
(* Loading *)

\* find_plugin_instance
InUse(i) == \E k \in DOMAIN plugins : obj[plugins[k]].name = i

Fresh(d, i) == [descr |-> d, name |-> i, state |-> "loaded",
                refcnt |-> 1 + Len(Exports[d]), may_fail |-> FALSE,
                uses |-> [k \in DOMAIN Imports[d] |-> None],
                early |-> ctx # "running"]

MayLoad(d, i) ==
    /\ UserRuns
    /\ <<d, i>> \in Plans
    /\ ninstance[d] < InstanceLimit
    /\ \/ Imports[d] = <<>>
       \/ "twins" \in Habits
       \/ \A p \in DOMAIN obj : obj[p].descr # d

Free == Cells \ DOMAIN obj

With(p, x) == [q \in DOMAIN obj \cup {p} |-> IF q = p THEN x ELSE obj[q]]

\* mrp_load_plugin, up to the end of the event.
Load_Late(d, i, try, p) ==
    /\ MayLoad(d, i)
    /\ p \in Free
    /\ d \in Singletons => ninstance[d] = 0
    /\ obj' = With(p, Fresh(d, i))
    /\ plugins' = Append(plugins, p)
    /\ ninstance' = [ninstance EXCEPT ![d] = @ + 1]
    /\ methods' = Exporting(p, d)
    /\ stack' = Emit("loaded") \o
                <<[op |-> "load", p |-> p, try |-> try, started |-> FALSE, ok |-> TRUE]>>
                \o stack
    /\ UNCHANGED <<ctx, native, links, told>>
Load(d, i, try, p) ==
    /\ MayLoad(d, i)
    /\ p \in Free
    /\ ~InUse(i)
    /\ d \in Singletons => ninstance[d] = 0
    /\ obj' = With(p, Fresh(d, i))
    /\ plugins' = Append(plugins, p)
    /\ ninstance' = [ninstance EXCEPT ![d] = @ + 1]
    /\ methods' = Exporting(p, d)
    /\ stack' = Emit("loaded") \o
                <<[op |-> "load", p |-> p, try |-> try, started |-> FALSE, ok |-> TRUE]>>
                \o stack
    /\ UNCHANGED <<ctx, native, links, told>>

\* mrp_load_plugin fails: the instance exists, a singleton exists, or the
\* arguments are not those of the plugin.  In the last two cases ninstance keeps
\* counting the plugin: mrp_unload_plugin is called with NULL, or refuses because
\* the plugin has a reference.  exec_load stops the daemon, unless told to try.
LoadFails(d, i, try, args) ==
    /\ MayLoad(d, i)
    /\ \/ InUse(i)
       \/ d \in Singletons /\ ninstance[d] > 0
       \/ ~args
    /\ ninstance' = IF InUse(i) THEN ninstance ELSE [ninstance EXCEPT ![d] = @ + 1]
    /\ ctx' = IF stack = <<>> /\ ctx = "loading" /\ ~try THEN "exited" ELSE ctx
    /\ UNCHANGED <<obj, plugins, methods, native, links, told, stack>>

Inits(p) == IF obj[p].state = "loaded" THEN <<[op |-> "init", p |-> p]>> ELSE <<>>

\* A plugin that comes when others are started already is started at once; its
\* methods are not imported.
LoadStarts ==
    /\ In("load")
    /\ ~Top.started
    /\ stack' = (IF ctx = "loading" THEN <<>> ELSE Inits(Top.p))
                \o <<[Top EXCEPT !.started = TRUE]>> \o Rest
    /\ UNCHANGED <<ctx, memory, told>>

\* exec_load, load (lua-plugin.c)
LoadReturns ==
    /\ In("load")
    /\ Top.started
    /\ obj' = [obj EXCEPT ![Top.p].may_fail = Top.try]
    /\ stack' = Rest
    /\ UNCHANGED <<ctx, plugins, ninstance, methods, native, links, told>>

\* The rest of mrp_start_plugin, whose result goes to the caller.
InitReturns(ok) ==
    /\ In("init")
    /\ obj' = IF ok THEN [obj EXCEPT ![Top.p].state = "running"] ELSE obj
    /\ stack' = Emit(IF ok THEN "started" ELSE "failed")
                \o <<[Head(Rest) EXCEPT !.ok = ok]>> \o Tail(Rest)
    /\ UNCHANGED <<ctx, plugins, ninstance, methods, native, links, told>>

-----------------------------------------------------------------------------
(* Starting the daemon *)

After(p) == LET k == CHOOSE k \in DOMAIN plugins : plugins[k] = p IN
            IF k < Len(plugins) THEN plugins[k + 1] ELSE None

Visit(p) == [op |-> "loop", p |-> p, next |-> None, started |-> FALSE, ok |-> TRUE]

Exit == ctx' = "exited" /\ stack' = <<>>

\* start_plugins
StartPlugins ==
    /\ stack = <<>>
    /\ ctx = "loading"
    /\ ctx' = "starting"
    /\ stack' = <<Visit(IF plugins = <<>> THEN None ELSE Head(plugins))>>
    /\ UNCHANGED <<memory, told>>

\* One round of mrp_start_plugins: import, then start.
LoopStarts ==
    /\ In("loop")
    /\ Top.p # None
    /\ ~Top.started
    /\ Import(Top.p)
    /\ IF Complete(Top.p) THEN
         /\ stack' = Inits(Top.p) \o
                     <<[Top EXCEPT !.started = TRUE, !.next = After(Top.p)]>> \o Rest
         /\ UNCHANGED ctx
       ELSE IF obj[Top.p].may_fail THEN
         /\ stack' = <<Visit(After(Top.p))>> \o Rest
         /\ UNCHANGED ctx
       ELSE Exit
    /\ UNCHANGED <<plugins, ninstance, methods, links, told>>

\* The end of the round.  mrp_unload_plugin refuses to unload a plugin that
\* failed, which has a reference.  The next plugin is looked up again: init may
\* have loaded plugins.
LoopGoesOn_Saved ==
    /\ In("loop")
    /\ Top.started
    /\ IF Top.ok \/ obj[Top.p].may_fail
       THEN stack' = <<Visit(Top.next)>> \o Rest /\ UNCHANGED ctx
       ELSE Exit
    /\ UNCHANGED <<memory, told>>
LoopGoesOn ==
    /\ In("loop")
    /\ Top.started
    /\ IF Top.ok \/ obj[Top.p].may_fail
       THEN /\ stack' = <<Visit(IF After(Top.p) # Top.next THEN After(Top.p)
                                ELSE Top.next)>> \o Rest
            /\ UNCHANGED ctx
       ELSE Exit
    /\ UNCHANGED <<memory, told>>

LoopEnds ==
    /\ In("loop")
    /\ Top.p = None
    /\ stack' = Rest
    /\ UNCHANGED <<ctx, memory, told>>

RunMainloop ==
    /\ stack = <<>>
    /\ ctx = "starting"
    /\ ctx' = "running"
    /\ UNCHANGED <<memory, told, stack>>

-----------------------------------------------------------------------------
(* Stopping and unloading *)

\* mrp_stop_plugin
Stop_OneUser(p) ==
    /\ UserRuns
    /\ ctx = "running" /\ "stop" \in Habits
    /\ Contains(plugins, p) /\ p \notin Busy
    /\ obj[p].state = "running"
    /\ obj[p].refcnt <= 2
    /\ stack' = Emit("stopping") \o <<[op |-> "stop", p |-> p, exited |-> FALSE]>> \o stack
    /\ UNCHANGED <<ctx, memory, told>>
Stop(p) ==
    /\ UserRuns
    /\ ctx = "running" /\ "stop" \in Habits
    /\ Contains(plugins, p) /\ p \notin Busy
    /\ obj[p].state = "running"
    /\ obj[p].refcnt <= 1
    /\ stack' = Emit("stopping") \o <<[op |-> "stop", p |-> p, exited |-> FALSE]>> \o stack
    /\ UNCHANGED <<ctx, memory, told>>

StopExits ==
    /\ In("stop")
    /\ ~Top.exited
    /\ stack' = <<[op |-> "exit", p |-> Top.p], [Top EXCEPT !.exited = TRUE]>> \o Rest
    /\ UNCHANGED <<ctx, memory, told>>

ExitReturns ==
    /\ In("exit")
    /\ stack' = Rest
    /\ UNCHANGED <<ctx, memory, told>>

StopEnds ==
    /\ In("stop")
    /\ Top.exited
    /\ obj' = [obj EXCEPT ![Top.p].refcnt = 0, ![Top.p].state = "stopped"]
    /\ stack' = Emit("stopped") \o Rest
    /\ UNCHANGED <<ctx, plugins, ninstance, methods, native, links, told>>

\* mrp_unload_plugin, up to the end of the event.
Unload(p) ==
    /\ UserRuns
    /\ ctx = "running" /\ "stop" \in Habits
    /\ Contains(plugins, p) /\ p \notin Busy
    /\ obj[p].refcnt = 0
    /\ plugins' = Remove(plugins, p)
    /\ ninstance' = [ninstance EXCEPT ![obj[p].descr] = @ - 1]
    /\ stack' = Emit("unloaded") \o <<[op |-> "unload", p |-> p]>> \o stack
    /\ UNCHANGED <<ctx, obj, methods, native, links, told>>

\* mrp_release_method gives up the imports whose variable still points to the
\* method found under the name.
Released(d) == {k \in DOMAIN Imports[d] :
    LET q == Find(Imports[d][k]) IN q # None /\ native[d][k] = obj[q].descr}

\* release_plugin_methods, remove_plugin_methods, and the plugin is freed.
UnloadEnds_Kept ==
    /\ In("unload")
    /\ LET p == Top.p
           d == obj[p].descr IN
         /\ obj' = [q \in DOMAIN obj \ {p} |-> obj[q]]
         /\ native' = [native EXCEPT ![d] =
                         [k \in DOMAIN @ |-> IF k \in Released(d) THEN None ELSE @[k]]]
         /\ methods' = Removing(p)
    /\ stack' = Rest
    /\ UNCHANGED <<ctx, plugins, ninstance, links, told>>
UnloadEnds ==
    /\ In("unload")
    /\ LET p == Top.p
           d == obj[p].descr IN
         /\ obj' = [q \in DOMAIN obj \ {p} |->
                      [obj[q] EXCEPT !.refcnt = @ - Hits(d, Released(d), q)]]
         /\ native' = [native EXCEPT ![d] =
                         [k \in DOMAIN @ |-> IF k \in Released(d) THEN None ELSE @[k]]]
         /\ methods' = Removing(p)
    /\ stack' = Rest
    /\ UNCHANGED <<ctx, plugins, ninstance, links, told>>

-----------------------------------------------------------------------------
Next ==
    \/ \E w \in Watches : AddWatch(w) \/ DelWatch(w)
    \/ EmitCall \/ EmitRest \/ CallbackReturns
    \/ \E m \in Methods : LinkCall(m)
    \/ \E d \in Descrs, i \in Names, try \in BOOLEAN :
         \/ \E p \in Cells : Load(d, i, try, p)
         \/ \E args \in BOOLEAN : LoadFails(d, i, try, args)
    \/ LoadStarts \/ LoadReturns
    \/ \E ok \in BOOLEAN : InitReturns(ok)
    \/ StartPlugins \/ LoopStarts \/ LoopGoesOn \/ LoopEnds \/ RunMainloop
    \/ \E p \in Cells : Stop(p) \/ Unload(p)
    \/ StopExits \/ ExitReturns \/ StopEnds \/ UnloadEnds

Spec == Init /\ [][Next]_vars

-----------------------------------------------------------------------------
TypeOK ==
    /\ ctx \in {"loading", "starting", "running", "exited"}
    /\ DOMAIN obj \subseteq Cells
    /\ \A p \in DOMAIN obj :
         /\ obj[p].descr \in Descrs /\ obj[p].name \in Names
         /\ obj[p].state \in {"loaded", "running", "stopped"}
         /\ obj[p].refcnt \in Nat
    /\ plugins \in Seq(Cells)
    /\ ninstance \in [Descrs -> Nat]
    /\ methods \in [Methods -> Seq(Cells)]
    /\ native \in [Descrs -> Seq(Descrs \cup {None})]
    /\ links \in [Methods -> Cells \cup {None}]
    /\ watches \in [Events \cup {"any"} -> Seq(Watches)]
    /\ gone \subseteq Watches

Used(q) == UNION {{p} \X {k \in DOMAIN obj[p].uses : obj[p].uses[k] = q} : p \in DOMAIN obj}
Exported(q) == {m \in Methods : Contains(methods[m], q)}
Linked(q)   == {m \in Methods : links[m] = q}

\* The references of a plugin are its own, one for each method it exports, and
\* one for each import and link that holds it.  A stopped plugin has none.
RefsCounted ==
    \A q \in DOMAIN obj :
      LET held == Cardinality(Used(q)) + Cardinality(Exported(q)) + Cardinality(Linked(q)) IN
      IF obj[q].state = "stopped" THEN obj[q].refcnt = 0 /\ held = 0
                                  ELSE obj[q].refcnt = 1 + held

\* No list, import, link or call refers to a plugin that was freed.
NothingDangles ==
    /\ ToSet(plugins) \subseteq DOMAIN obj
    /\ \A m \in Methods : ToSet(methods[m]) \cup ({links[m]} \ {None}) \subseteq DOMAIN obj
    /\ \A p \in DOMAIN obj : ToSet(obj[p].uses) \subseteq DOMAIN obj \cup {None}
    /\ Busy \ {None} \subseteq DOMAIN obj

\* A variable that a method was imported to points into code that is loaded,
\* of a plugin that exports the method.
PointersLive ==
    \A d \in Descrs : \A k \in DOMAIN native[d] :
      native[d][k] # None =>
        \E q \in DOMAIN obj : /\ obj[q].descr = native[d][k]
                              /\ Contains(methods[Imports[d][k].name], q)

\* Two plugins never have the same instance name, two of a singleton are never
\* loaded, and no event is told to a watch that was deleted.
OneOfEach ==
    \A i, j \in DOMAIN plugins : i # j =>
      LET p == obj[plugins[i]]
          q == obj[plugins[j]] IN
      p.name # q.name /\ (p.descr = q.descr => p.descr \notin Singletons)
NoneToldLate ==
    \A i \in DOMAIN stack : stack[i].op = "callback" => ~stack[i].dead

\* However plugins, their init and exit functions and event callbacks load, stop
\* and unload each other, the references are counted, and nothing refers to what
\* is gone.
Sound == TypeOK /\ RefsCounted /\ NothingDangles /\ PointersLive /\ OneOfEach /\ NoneToldLate

\* When the daemon runs, every plugin that was loaded before, by the
\* configuration or by the init of another plugin, was started with all its
\* methods imported (or was stopped since), but for those that may fail.
AllStarted ==
    ctx = "running" =>
      \A i \in DOMAIN plugins :
        LET p == obj[plugins[i]] IN
        p.early => \/ p.state = "running" /\ \A k \in DOMAIN p.uses :
                        p.uses[k] # None /\ native[p.descr][k] # None
                   \/ p.state = "stopped"
                   \/ p.may_fail
=============================================================================
