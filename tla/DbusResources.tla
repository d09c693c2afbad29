---------------------------- MODULE DbusResources ----------------------------
(***************************************************************************)
(* The D-Bus resource front end (plugins/plugin-resource-dbus.c): clients  *)
(* on the bus create resource set objects, add resource objects to them,   *)
(* request and release them, and read the outcome from status properties.  *)
(* The daemon follows the bus names of its clients (common/dbus.c) and     *)
(* removes the sets of those that leave the bus.                           *)
(*                                                                         *)
(* The arbitration behind it is what ResourceGrants has it to be, less     *)
(* who may have what together: an update of the zone gives each set that   *)
(* asks all of its mandatory resources and any others, or nothing.  The    *)
(* plugin never numbers its requests, so a set has an event only when an   *)
(* update changes it.                                                      *)
(***************************************************************************)
EXTENDS Naturals, Sequences, SequencesExt, FiniteSetsExt

CONSTANTS Clients,     \* unique names on the bus, which are never used again
          Resources,   \* names of resources the daemon knows
          Unknown,     \* names of resources it does not
          Classes, KnownClasses, DefaultClass,
          MaxSets,     \* bound: sets created
          MaxObjects,  \* bound: resource objects of the sets there are
          MaxCalls,    \* bound: messages waiting when a client calls
          Habits,      \* what clients do that the plugin mistakes
          None

HabitNames == {"same_name", "late_edit", "retry"}

ASSUME DbusAssumption ==
    /\ KnownClasses \subseteq Classes /\ DefaultClass \in Classes
    /\ Resources \cap Unknown = {}
    /\ {MaxSets, MaxObjects, MaxCalls} \subseteq Nat
    /\ Habits \subseteq HabitNames
    /\ None \notin Nat

VARIABLES
    alive,      \* the clients on the bus
    rules,      \* [Clients -> match rules the bus keeps for the end of a name]
    asked,      \* GetNameOwner calls the bus has not answered: set and name
    inbox,      \* what the bus has sent to the daemon, in order
    next_id,    \* the number of the next set
    rsets,      \* mgr->rsets, by number
    trackers,   \* name_tracker_t, by the number of the set they are for
    set,        \* the sets of the arbitration, by the number of their object
    acquiring,  \* the set whose request is between its two updates, or None
    broken      \* freed memory was used

bus == <<alive, rules, asked>>
objects == <<next_id, rsets, trackers, set, acquiring, broken>>
vars == <<bus, inbox, objects>>

Paths == 0..(MaxSets - 1)
Names == Resources \cup Unknown

\* The messages of clients.  prop is the property that is set.
Call(type, path) == [type |-> type, path |-> path]
Create(c) == [type |-> "create", from |-> c]
Add(p, n) == [type |-> "add", path |-> p, name |-> n]
SetClass(p, v) == [type |-> "class", path |-> p, value |-> v]
SetMandatory(p, i, v) == [type |-> "mandatory", path |-> p, object |-> i, value |-> v]
DeleteResource(p, i) == [type |-> "delete resource", path |-> p, object |-> i]

\* The messages of the bus: NameOwnerChanged, and the answer to GetNameOwner.
Gone(c) == [type |-> "gone", name |-> c]
Owner(p, up) == [type |-> "owner", path |-> p, up |-> up]

Without(f, x) == [y \in DOMAIN f \ {x} |-> f[y]]
With(f, x, v) == [y \in DOMAIN f \cup {x} |-> IF y = x THEN v ELSE f[y]]

Init ==
    /\ alive = Clients
    /\ rules = [c \in Clients |-> 0]
    /\ asked = <<>>
    /\ inbox = <<>>
    /\ next_id = 0
    /\ rsets = <<>> /\ trackers = <<>> /\ set = <<>>
    /\ acquiring = None
    /\ broken = FALSE

-----------------------------------------------------------------------------
(* The bus and its clients *)

Waiting(type) == Cardinality({i \in DOMAIN inbox : inbox[i].type = type})

\* A first request that fails, for a class nobody defined, is not answered;
\* customarily it is not repeated.
Requested(p) == set[p].list # <<>> \/ Contains(inbox, Call("request", p))

NamesOf(p) == {rsets[p].resources[i].name : i \in DOMAIN rsets[p].resources}
              \cup {m.name : m \in {k \in ToSet(inbox) : k.type = "add" /\ k.path = p}}

\* Customarily resources have different names and stay as they are from the
\* first request on.
Early(p) == "late_edit" \in Habits \/ (~rsets[p].locked /\ ~Requested(p))

Objects == MapThenSumSet(LAMBDA p : rsets[p].next_id, DOMAIN rsets)

CallsOn(p) ==
    {Call("release", p), Call("delete", p)}
    \cup {m \in {Call("request", p)} : "retry" \in Habits \/ rsets[p].locked \/ ~Requested(p)}
    \cup {Add(p, n) : n \in {x \in Names : /\ Early(p) /\ Objects + Waiting("add") < MaxObjects
                                           /\ "same_name" \in Habits \/ x \notin NamesOf(p)}}
    \cup {SetClass(p, v) : v \in Classes}
    \cup {SetMandatory(p, i, v) : i \in DOMAIN rsets[p].resources, v \in BOOLEAN}
    \cup {DeleteResource(p, i) : i \in {j \in DOMAIN rsets[p].resources : Early(p)}}

\* Clients know the names of sets there were.
CallsOf(c) ==
    (UNION {CallsOn(p) : p \in {q \in DOMAIN rsets : rsets[q].owner = c}})
    \cup {Create(c)} \cup {Call("release", p) : p \in 0..(next_id - 1) \ DOMAIN rsets}

\* What is sent between the two updates of a request is read after them.
ClientCalls ==
    /\ Len(inbox) < MaxCalls /\ acquiring = None
    /\ \E c \in alive : \E m \in CallsOf(c) :
         /\ m.type = "create" => next_id + Waiting("create") < MaxSets
         /\ inbox' = Append(inbox, m)
    /\ UNCHANGED <<bus, objects>>

\* A client leaves the bus, which tells those who have a rule for it.
Leave(c) ==
    /\ c \in alive
    /\ alive' = alive \ {c}
    /\ inbox' = IF rules[c] > 0 THEN Append(inbox, Gone(c)) ELSE inbox
    /\ UNCHANGED <<rules, asked, objects>>

BusAnswers(p) ==
    /\ p \in DOMAIN asked
    /\ inbox' = Append(inbox, Owner(p, asked[p] \in alive))
    /\ asked' = Without(asked, p)
    /\ UNCHANGED <<alive, rules, objects>>

-----------------------------------------------------------------------------
(* The arbitration *)

NewSet == [state |-> "none", attached |-> FALSE, list |-> <<>>, mandatory |-> {},
           grant |-> {}, advice |-> {}]

\* What a set may be given: all its mandatory resources, or nothing.
Offers(x) == {{}} \cup {G \in SUBSET ToSet(x.list) : x.mandatory \subseteq G}

\* A modal owner may end the request of a set.
Decisions(x) ==
    {d \in [state : {x.state, "release"}, grant : Offers(x), advice : Offers(x)] :
       d.grant # {} => (d.state = "acquire" /\ d.advice = d.grant)}

\* A set after an update of the zone.
Outcomes(x) ==
    IF x.attached
    THEN {[x EXCEPT !.state = d.state, !.grant = d.grant, !.advice = d.advice] :
            d \in Decisions(x)}
    ELSE {x}

Updates(S) ==
    {T \in [DOMAIN S -> UNION {Outcomes(S[p]) : p \in DOMAIN S}] :
       \A p \in DOMAIN S : T[p] \in Outcomes(S[p])}

-----------------------------------------------------------------------------
(* Events *)

Status(grant, advice) ==
    IF grant THEN "acquired" ELSE IF advice THEN "available" ELSE "lost"

\* get_resource_by_name: one of the objects of that name.
ByName(r, n) ==
    LET same == {i \in DOMAIN r.resources : r.resources[i].name = n}
    IN IF same = {} THEN {} ELSE {Min(same)}

EventCb_Unfiltered(r, x) ==
    [r EXCEPT !.status = Status(x.grant # {}, x.advice # {})]

\* event_cb; events before the request are filtered out.
EventCb(r, x) ==
    IF ~r.acquired THEN r
    ELSE [r EXCEPT
            !.status = Status(x.grant # {}, x.advice # {}),
            !.resources = [i \in DOMAIN @ |->
               LET n == r.resources[i].name IN
               IF n \in ToSet(x.list) /\ i \in ByName(r, n)
               THEN [r.resources[i] EXCEPT !.status = Status(n \in x.grant, n \in x.advice)]
               ELSE r.resources[i]]]

\* The objects after an update from S to T: events go to the sets it changed.
Told(R, S, T) ==
    [p \in DOMAIN R |-> IF T[p] # S[p] THEN EventCb(R[p], T[p]) ELSE R[p]]

UpdateZone(R, S) ==
    \E T \in Updates(S) : set' = T /\ rsets' = Told(R, S, T)

-----------------------------------------------------------------------------
(* Followed names *)

\* mrp_dbus_follow_name: a rule, and the question whether the name exists.
Follow(p, c) ==
    /\ rules' = [rules EXCEPT ![c] = @ + 1]
    /\ trackers' = With(trackers, p, [name |-> c, cb |-> TRUE, qid |-> TRUE])
    /\ asked' = With(asked, p, c)

Forgotten_Freed(F, p) == Without(F, p)

\* A tracker is freed by the answer to its question while that is due.
Forgotten(F, p) == IF F[p].qid THEN [F EXCEPT ![p].cb = FALSE] ELSE Without(F, p)

\* mrp_dbus_forget_name
Forget(F, p) ==
    /\ rules' = [rules EXCEPT ![F[p].name] = @ - 1]
    /\ trackers' = Forgotten(F, p)

\* destroy_rset: mrp_resource_set_destroy silences the set, and updates the zone
\* if it was asking; F are the trackers.
DestroyRset(p, F) ==
    /\ Forget(F, p)
    /\ LET S == [set EXCEPT ![p].state = "release"] IN
       \E T \in IF set[p].state = "acquire" THEN Updates(S) ELSE {S} :
         /\ set' = Without(T, p)
         /\ rsets' = Told(Without(rsets, p), S, T)
    /\ UNCHANGED <<asked, next_id>>

-----------------------------------------------------------------------------
(* The handlers of calls *)

Handling(type) ==
    /\ acquiring = None /\ ~broken
    /\ inbox # <<>> /\ Head(inbox).type = type
    /\ inbox' = Tail(inbox)
    /\ UNCHANGED alive

\* A call on an object that exists; others are ignored.
Serving(type) ==
    /\ Handling(type)
    /\ Head(inbox).path \in DOMAIN rsets
    /\ UNCHANGED broken

KeepNames == UNCHANGED <<rules, asked, next_id, trackers>>
KeepRest == KeepNames /\ UNCHANGED <<set, acquiring>>

NewRset(c) == [owner |-> c, class |-> DefaultClass, status |-> "pending",
               locked |-> FALSE, acquired |-> FALSE, next_id |-> 0, resources |-> <<>>]

NewResource(n) == [name |-> n, mandatory |-> TRUE, status |-> "pending"]

\* createResourceSet
ServeCreate ==
    /\ Handling("create")
    /\ rsets' = With(rsets, next_id, NewRset(Head(inbox).from))
    /\ set' = With(set, next_id, NewSet)
    /\ Follow(next_id, Head(inbox).from)
    /\ next_id' = next_id + 1
    /\ UNCHANGED <<acquiring, broken>>

Added(r, n) == [r EXCEPT !.resources = With(@, r.next_id, NewResource(n)),
                         !.next_id = @ + 1]

\* addResource
ServeAdd ==
    /\ Serving("add")
    /\ rsets' = [rsets EXCEPT ![Head(inbox).path] = Added(@, Head(inbox).name)]
    /\ KeepRest

\* setProperty of a set; refused after the request.
ServeClass ==
    /\ Serving("class")
    /\ LET p == Head(inbox).path IN
       rsets' = IF rsets[p].locked THEN rsets
                ELSE [rsets EXCEPT ![p].class = Head(inbox).value]
    /\ KeepRest

SetMandatoryOf_Always(r, i, v) == [r EXCEPT !.resources[i].mandatory = v]
SetMandatoryOf(r, i, v) ==
    IF r.locked \/ i \notin DOMAIN r.resources THEN r
    ELSE [r EXCEPT !.resources[i].mandatory = v]

\* setProperty of a resource; refused after the request.
ServeMandatory ==
    /\ Serving("mandatory")
    /\ LET p == Head(inbox).path IN
       rsets' = [rsets EXCEPT ![p] = SetMandatoryOf(@, Head(inbox).object, Head(inbox).value)]
    /\ KeepRest

Deleted(r, i) == [r EXCEPT !.resources = Without(@, i)]

\* delete of a resource
ServeDeleteResource ==
    /\ Serving("delete resource")
    /\ rsets' = [rsets EXCEPT ![Head(inbox).path] = Deleted(@, Head(inbox).object)]
    /\ KeepRest

\* add_resource_cb for each resource; the arbitration takes those it knows.
Known(r) == {i \in DOMAIN r.resources : r.resources[i].name \in Resources}

WithResources(x, r) ==
    [x EXCEPT
       !.list = @ \o [k \in 1..Cardinality(Known(r)) |->
                        r.resources[SetToSeq(Known(r))[k]].name],
       !.mandatory = @ \cup {r.resources[i].name :
                               i \in {j \in Known(r) : r.resources[j].mandatory}}]

\* mrp_application_class_add_resource_set
Attached(x) == [x EXCEPT !.attached = TRUE, !.state = "release"]

\* request, up to mrp_resource_set_acquire.  For a class that does not exist it
\* ends without an answer, and with the resources added.
ServeRequest ==
    /\ Serving("request")
    /\ LET p == Head(inbox).path
           x == WithResources(set[p], rsets[p])
       IN \/ /\ rsets[p].locked
             /\ acquiring' = p
             /\ UNCHANGED <<rsets, set>>
          \/ /\ ~rsets[p].locked /\ rsets[p].class \in KnownClasses
             /\ UpdateZone(rsets, [set EXCEPT ![p] = Attached(x)])
             /\ acquiring' = p
          \/ /\ ~rsets[p].locked /\ rsets[p].class \notin KnownClasses
             /\ set' = [set EXCEPT ![p] = x]
             /\ UNCHANGED <<rsets, acquiring>>
    /\ KeepNames

Acquiring_LateFlag(r) == [r EXCEPT !.locked = TRUE]

\* acquired is set before the update, locked after it.
Acquiring(r) == [r EXCEPT !.acquired = TRUE, !.locked = TRUE]

\* The rest of the request.
Acquire ==
    /\ acquiring # None
    /\ UpdateZone([rsets EXCEPT ![acquiring] = Acquiring(@)],
                  [set EXCEPT ![acquiring].state = "acquire"])
    /\ acquiring' = None
    /\ UNCHANGED <<alive, inbox, broken>> /\ KeepNames

\* release: a set that is released already is only told how things are.
ServeRelease ==
    /\ Serving("release")
    /\ LET p == Head(inbox).path
           S == [set EXCEPT ![p].state = "release"]
       IN \/ /\ ~set[p].attached
             /\ set' = S /\ UNCHANGED rsets
          \/ /\ set[p].attached /\ set[p].state = "release"
             /\ rsets' = [rsets EXCEPT ![p] = EventCb(@, set[p])]
             /\ UNCHANGED set
          \/ /\ set[p].attached /\ set[p].state # "release"
             /\ UpdateZone(rsets, S)
    /\ KeepNames /\ UNCHANGED acquiring

\* delete of a set
ServeDelete ==
    /\ Serving("delete")
    /\ DestroyRset(Head(inbox).path, trackers)
    /\ UNCHANGED acquiring

Ignore ==
    /\ acquiring = None /\ ~broken
    /\ inbox # <<>> /\ "path" \in DOMAIN Head(inbox) /\ Head(inbox).type # "owner"
    /\ Head(inbox).path \notin DOMAIN rsets
    /\ inbox' = Tail(inbox)
    /\ UNCHANGED <<bus, objects>>

-----------------------------------------------------------------------------
(* The end of clients *)

\* The trackers dbus_name_cb is called for.
Following(c) == {p \in DOMAIN trackers : trackers[p].cb /\ trackers[p].name = c}

\* name_owner_change_cb, one tracker of the list per step; dbus_name_cb removes
\* the set it is for.
ServeGone ==
    /\ acquiring = None /\ ~broken
    /\ inbox # <<>> /\ Head(inbox).type = "gone"
    /\ LET F == Following(Head(inbox).name) IN
       \/ /\ F = {}
          /\ inbox' = Tail(inbox)
          /\ UNCHANGED <<rules, asked, next_id, rsets, trackers, set>>
       \/ /\ F # {}
          /\ DestroyRset(Min(F), trackers)
          /\ UNCHANGED inbox
    /\ UNCHANGED <<alive, acquiring, broken>>

\* name_owner_query_cb calls dbus_name_cb, unless the name was forgotten; then it
\* frees the tracker.
Answered_OnlyFreed(p, up) ==
    /\ trackers' = IF trackers[p].cb THEN [trackers EXCEPT ![p].qid = FALSE]
                   ELSE Without(trackers, p)
    /\ UNCHANGED <<rules, asked, next_id, rsets, set>>

Answered(p, up) ==
    LET F == [trackers EXCEPT ![p].qid = FALSE] IN
    \/ /\ ~trackers[p].cb
       /\ trackers' = Without(trackers, p)
       /\ UNCHANGED <<rules, asked, next_id, rsets, set>>
    \/ /\ trackers[p].cb /\ up
       /\ trackers' = F
       /\ UNCHANGED <<rules, asked, next_id, rsets, set>>
    \/ /\ trackers[p].cb /\ ~up
       /\ DestroyRset(p, F)

ServeOwner ==
    /\ Handling("owner")
    /\ LET p == Head(inbox).path IN
       /\ broken' = (p \notin DOMAIN trackers)
       /\ IF broken' THEN UNCHANGED <<rules, asked, next_id, rsets, trackers, set>>
          ELSE Answered(p, Head(inbox).up)
    /\ UNCHANGED acquiring

\* The other front ends ask, and give back.
OthersUpdate ==
    /\ acquiring = None /\ ~broken
    /\ inbox # <<>> => Head(inbox).type # "gone"
    /\ UpdateZone(rsets, set)
    /\ UNCHANGED <<alive, inbox, acquiring, broken>> /\ KeepNames

-----------------------------------------------------------------------------
Daemon == \/ ServeCreate \/ ServeAdd \/ ServeClass \/ ServeMandatory
          \/ ServeDeleteResource \/ ServeRequest \/ Acquire \/ ServeRelease
          \/ ServeDelete \/ Ignore \/ ServeGone \/ ServeOwner

Next ==
    \/ Daemon \/ OthersUpdate \/ ClientCalls
    \/ \E c \in Clients : Leave(c)
    \/ \E p \in Paths : BusAnswers(p)

Spec == Init /\ [][Next]_vars

\* The daemon reads what the bus sends, and the bus answers.
FairSpec == Spec /\ WF_vars(Daemon) /\ \A p \in Paths : WF_vars(BusAnswers(p))

-----------------------------------------------------------------------------
(* Properties *)

Statuses == {"pending", "acquired", "available", "lost"}

TypeOK ==
    /\ alive \subseteq Clients
    /\ next_id \in 0..MaxSets /\ DOMAIN rsets \subseteq 0..(next_id - 1)
    /\ \A p \in DOMAIN rsets :
         /\ rsets[p].owner \in Clients /\ rsets[p].class \in Classes
         /\ rsets[p].status \in Statuses
         /\ {rsets[p].locked, rsets[p].acquired} \subseteq BOOLEAN
         /\ \A i \in DOMAIN rsets[p].resources :
              rsets[p].resources[i] \in [name : Names, mandatory : BOOLEAN, status : Statuses]
    /\ \A p \in DOMAIN set :
         /\ set[p].state \in {"none", "acquire", "release"}
         /\ {set[p].mandatory, set[p].grant, set[p].advice} \subseteq SUBSET ToSet(set[p].list)
    /\ acquiring \in DOMAIN rsets \cup {None}

\* A set object, its set in the arbitration, the tracker of its owner and the
\* rule on the bus come and go together, in whatever order the end of the
\* client, the answer about its name and its last calls arrive.  A tracker
\* outlives its set only until the bus has answered, and is freed then.
OneToOne ==
    /\ DOMAIN set = DOMAIN rsets
    /\ {p \in DOMAIN trackers : trackers[p].cb} = DOMAIN rsets
    /\ \A p \in DOMAIN rsets : trackers[p].name = rsets[p].owner
    /\ \A c \in Clients : rules[c] = Cardinality(Following(c))
    /\ {p \in DOMAIN trackers : trackers[p].qid} =
         DOMAIN asked \cup {m.path : m \in {k \in ToSet(inbox) : k.type = "owner"}}

\* Nothing is freed early, and nothing left behind.
Sound == TypeOK /\ ~broken /\ OneToOne

\* The status a set shows on the bus is the one it has, and its resources show
\* which of them are granted; it is pending until the request is processed
\* (dbus-api-resource.txt), and may stay so as long as nothing is granted.
StatusIsTrue ==
    \A p \in DOMAIN rsets :
      LET r == rsets[p]
          x == set[p]
          shown == {i \in DOMAIN r.resources : r.resources[i].name \in Resources}
      IN IF r.status = "pending"
         THEN /\ x.grant = {}
              /\ \A i \in shown : r.resources[i].status = "pending"
         ELSE /\ r.acquired
              /\ r.status = Status(x.grant # {}, x.advice # {})
              /\ \A i \in shown : r.resources[i].status =
                   Status(r.resources[i].name \in x.grant, r.resources[i].name \in x.advice)

\* After the request the objects show the set that the arbitration decides
\* about: "this resource set cannot be changed anymore" (the comment in rset_cb).
ObjectsMatch ==
    \A p \in DOMAIN rsets :
      LET r == rsets[p] IN
      /\ r.locked => set[p].attached
      /\ set[p].attached =>
           /\ IsInjective(set[p].list)
           /\ ToSet(set[p].list) = {r.resources[i].name : i \in Known(r)}
           /\ set[p].mandatory = {r.resources[i].name :
                                    i \in {j \in Known(r) : r.resources[j].mandatory}}

\* What the bus is shown of a set is what the arbitration has of it.
ObjectsAreTrue == StatusIsTrue /\ ObjectsMatch

\* The sets of a client that has left the bus are removed for good, though it may
\* have left before the daemon read its calls, or asked for its name.
LeaversAreForgotten == <>[](\A p \in DOMAIN rsets : rsets[p].owner \in alive)
=============================================================================
