--------------------------- MODULE ResourceManager ---------------------------
(***************************************************************************)
(* The arbitration core of the Murphy daemon (src/murphy-0.0.24/src/       *)
(* resource): resource sets, the per-class lists that order them, the      *)
(* owners of every resource in every zone, and the recomputation of all    *)
(* grants that each acquire, release or destroy triggers.                  *)
(*                                                                         *)
(* The daemon is single threaded.  An operation of the API runs to its end *)
(* before the next one starts; the recomputation it triggers is a loop     *)
(* over resource sets followed by a loop over queued events, and each      *)
(* iteration is one step here, so that what the loops maintain can be      *)
(* stated (and proved) as ordinary invariants.  No API operation is        *)
(* enabled between BeginUpdate and the end of the update.                  *)
(*                                                                         *)
(* A definition X_Y in front of X is X with the fault Y: a mutant that     *)
(* some property below must catch.  Nothing refers to it.                  *)
(***************************************************************************)
EXTENDS Integers, Sequences, FiniteSets, Lists

CONSTANTS
    Sets,          \* resource set objects
    Clients,       \* resource clients (one per connection)
    Classes,       \* application classes
    Zones,
    Resources,     \* resource definitions
    None,          \* the NULL pointer
    ClassList,     \* class_list: the classes in ascending priority
    Modal,         \* classes created with modal = true
    ClassShare,    \* classes created with share = true
    Lifo,          \* classes ordered LIFO, the others are FIFO
    Shareable,     \* resources defined with shareable = true
    Managed,       \* resources with a manager that may refuse them
    HasVeto,       \* is a Lua veto method installed
    Profiles,      \* what a client may ask of a new resource set
    ReqIds,        \* request numbers clients use, 0 asks for no reply
    InvalidReqno,  \* MRP_RESOURCE_REQNO_INVALID
    StampMax       \* request stamps are smaller than this (2^27)

Profile ==
    [client      : Clients,
     class       : Classes,
     zone        : Zones,
     priority    : 0..7,
     all         : SUBSET Resources,
     mandatory   : SUBSET Resources,
     shared      : SUBSET Resources,
     autorelease : BOOLEAN,
     events      : BOOLEAN]

ASSUME ConfigAssumption ==
    /\ Modal \cap ClassShare = {}
    /\ Lifo \subseteq Classes
    /\ Shareable \subseteq Resources
    /\ None \notin Sets \cup Clients \cup Classes
    /\ HasVeto \in BOOLEAN
    /\ ReqIds \subseteq Nat
    /\ InvalidReqno \in Nat \ (ReqIds \cup {0})
    /\ StampMax \in Nat \ {0}

ASSUME ClassListAssumption ==
    /\ ClassList \in Seq(Classes)
    /\ \A c \in Classes : \E i \in DOMAIN ClassList : ClassList[i] = c

ASSUME ProfileAssumption ==
    /\ Profiles # {}
    /\ Profiles \subseteq Profile
    /\ \A p \in Profiles : /\ p.mandatory \subseteq p.all
                           /\ p.shared \subseteq p.all \cap Shareable

VARIABLES
    clientSets,  \* client.resource_sets, in order of creation
    profile,     \* the immutable part of each set
    attached,    \* the sets with class.ptr # NULL
    state,       \* rset.state
    grant,       \* rset.resource.mask.grant
    advice,      \* rset.resource.mask.advice
    request,     \* rset.request.id
    stamp,       \* rset.request.stamp
    nextStamp,   \* the static counter of get_request_stamp
    lists,       \* class.resource_sets[zone], in list order
    owner,       \* resource_owners[zone][resource]
    ownerRow,    \* the row of the zone in the <resource>_owner table
    userRow,     \* the row of the set in the <resource>_user tables
    view,        \* what the last event told the client of the set
    awaiting,    \* the set whose request has not been answered yet
    phase,       \* where the daemon is
    update,      \* the arguments of mrp_resource_owner_update_zone
    todo,        \* sets the scan has still to process
    events,      \* queued events
    oldOwner,    \* owners of the zone before the update
    dying,       \* the set being destroyed
    leaving      \* the client being destroyed

requestVars == <<clientSets, profile, attached, request, stamp, nextStamp>>
grantVars   == <<state, grant, advice>>
clientVars  == <<view, awaiting>>
dbVars      == <<ownerRow, userRow>>
loopVars    == <<update, todo, events, oldOwner>>
deathVars   == <<dying, leaving>>

vars == <<clientSets, profile, attached, state, grant, advice, request, stamp,
          nextStamp, lists, owner, ownerRow, userRow, view, awaiting, phase,
          update, todo, events, oldOwner, dying, leaving>>

-----------------------------------------------------------------------------
(* Owners *)

Owner == [set : Sets \cup {None}, class : Classes \cup {None},
          modal : BOOLEAN, share : BOOLEAN]

\* The zero-initialised static array, and what reset_owners leaves.
ZeroOwner  == [set |-> None, class |-> None, modal |-> FALSE, share |-> FALSE]
ResetOwner == [ZeroOwner EXCEPT !.share = TRUE]

NoRow  == [class |-> None, set |-> None]
NoView == [state |-> "no_request", grant |-> {}, advice |-> {}]
NoUpdate == [zone |-> None, set |-> None, reqid |-> 0]

NoProfile == CHOOSE p \in Profiles : TRUE

Live == {s \in Sets : \E c \in Clients : Has(clientSets[c], s)}

\* mrp_get_resource_set_count, the capacity of the event array of an update
SetCount == Cardinality(Live)

-----------------------------------------------------------------------------
(* The lists that order the sets of a class in a zone *)

\* mrp_application_class_get_sorting_key: priority, then usage, then state,
\* then the stamp in the class's order, packed from the high bits down.
SortingKey(s, st, sp) ==
    LET p == profile[s]
        usage == IF p.shared # {} THEN 1 ELSE 0
        acquiring == IF st[s] = "acquire" THEN 1 ELSE 0
        age == IF p.class \in Lifo THEN sp[s] ELSE (StampMax - 1) - sp[s]
    IN  ((p.priority * 2 + usage) * 2 + acquiring) * StampMax + age

\* mrp_application_class_move_resource_set: s is unlinked and put after the
\* last entry of the list whose key does not exceed its own.
Move(s, st, sp) ==
    LET z == profile[s].zone
        c == profile[s].class
        q == Unlink(lists[z][c], s)
        key(t) == SortingKey(t, st, sp)
    IN  \E i \in 0..Len(q) :
          /\ i > 0 => key(q[i]) <= key(s)
          /\ \A j \in (i + 1)..Len(q) : key(q[j]) > key(s)
          /\ lists' = [lists EXCEPT ![z][c] =
                         Insert(q, i, s)]

Members(z, ls) ==
    {s \in Sets : \E c \in Classes : Has(ls[z][c], s)}

ClassRank(c) == CHOOSE i \in DOMAIN ClassList : ClassList[i] = c

\* The order of the two nested iterations: classes from the highest priority
\* down, the list of each class from its tail.
Ahead(s, t) ==
    LET z == profile[s].zone
        c == profile[s].class
        d == profile[t].class
    IN  \/ ClassRank(c) > ClassRank(d)
        \/ /\ c = d
           /\ Position(lists[z][c], s) > Position(lists[z][c], t)

-----------------------------------------------------------------------------
(* Request stamps *)

\* get_request_stamp rebases every stamp by the smallest one when the counter
\* has reached its limit.
StampBase_Counter(b) == b = IF nextStamp < StampMax THEN 0 ELSE nextStamp
StampBase(b) ==
    IF nextStamp < StampMax
    THEN b = 0
    ELSE /\ b = nextStamp \/ \E s \in Live : b = stamp[s]
         /\ b <= nextStamp
         /\ \A s \in Live : b <= stamp[s]

Stamped(s, b) ==
    [t \in Sets |-> IF t = s THEN nextStamp - b
                    ELSE IF t \in Live THEN stamp[t] - b ELSE stamp[t]]

-----------------------------------------------------------------------------
(* The head of mrp_resource_owner_update_zone *)

BeginUpdate(s, reqid) ==
    LET z == profile[s].zone
    IN  /\ phase' = "scan"
        /\ update' = [zone |-> z, set |-> s, reqid |-> reqid]
        /\ oldOwner' = owner[z]
        /\ owner' = [owner EXCEPT ![z] = [r \in Resources |-> ResetOwner]]
        /\ todo' = Members(z, lists')
        /\ events' = <<>>
        /\ awaiting' = IF reqid # 0 /\ profile[s].events /\ dying' # s
                       THEN s ELSE awaiting

\* The tail that acquire and release share: stamp the request, sort the set
\* into its class, recompute the zone.  An exhausted stamp counter fails the
\* assertion in get_request_stamp and the daemon aborts.
Request(s, newState, reqid) ==
    /\ state' = [state EXCEPT ![s] = newState]
    /\ request' = [request EXCEPT ![s] = reqid]
    /\ \E b \in 0..nextStamp :
         /\ StampBase(b)
         /\ IF nextStamp - b < StampMax
            THEN /\ nextStamp' = nextStamp - b + 1
                 /\ stamp' = Stamped(s, b)
                 /\ Move(s, state', stamp')
                 /\ BeginUpdate(s, reqid)
            ELSE /\ phase' = "aborted"
                 /\ UNCHANGED <<nextStamp, stamp, lists, owner, awaiting>>
                 /\ UNCHANGED loopVars

-----------------------------------------------------------------------------
NoUserRow == [state |-> "no_request", grant |-> {}]

Init ==
    /\ clientSets = [c \in Clients |-> <<>>]
    /\ profile = [s \in Sets |-> NoProfile]
    /\ attached = {}
    /\ state = [s \in Sets |-> "no_request"]
    /\ grant = [s \in Sets |-> {}]
    /\ advice = [s \in Sets |-> {}]
    /\ request = [s \in Sets |-> 0]
    /\ stamp = [s \in Sets |-> 0]
    /\ nextStamp = 0
    /\ lists = [z \in Zones |-> [c \in Classes |-> <<>>]]
    /\ owner = [z \in Zones |-> [r \in Resources |-> ZeroOwner]]
    /\ ownerRow = [z \in Zones |-> [r \in Resources |-> NoRow]]
    /\ userRow = [s \in Sets |-> NoUserRow]
    /\ view = [s \in Sets |-> NoView]
    /\ awaiting = None
    /\ phase = "idle"
    /\ update = NoUpdate
    /\ todo = {}
    /\ events = <<>>
    /\ oldOwner = [r \in Resources |-> ZeroOwner]
    /\ dying = None
    /\ leaving = None
-----------------------------------------------------------------------------
(* The API of resource sets; each is entered only when no update runs *)

\* mrp_resource_set_create and the mrp_resource_set_add_resource calls that
\* follow it: a client asks for a set with the given profile.
Create(s, p) ==
    /\ phase = "idle"
    /\ s \notin Live
    /\ profile' = [profile EXCEPT ![s] = p]
    /\ clientSets' = [clientSets EXCEPT ![p.client] = Append(@, s)]
    /\ UNCHANGED <<attached, request, stamp, nextStamp, lists, owner, phase>>
    /\ UNCHANGED <<grantVars, clientVars, dbVars, loopVars, deathVars>>

\* mrp_application_class_add_resource_set.  A set that was acquired before it
\* had a class is acquired now; any other set is recomputed without a new stamp.
AddToClass(s, reqid) ==
    /\ phase = "idle"
    /\ s \in Live \ attached
    /\ attached' = attached \cup {s}
    /\ UNCHANGED <<clientSets, profile, grant, advice, view, dbVars, deathVars>>
    /\ \/ /\ state[s] = "acquire"
          /\ Request(s, "acquire", reqid)
       \/ /\ state[s] # "acquire"
          /\ state' = [state EXCEPT ![s] = "release"]
          /\ request' = [request EXCEPT ![s] = reqid]
          /\ UNCHANGED <<stamp, nextStamp>>
          /\ Move(s, state', stamp)
          /\ BeginUpdate(s, reqid)

\* mrp_resource_set_acquire: without a class only the state is recorded.
Acquire(s, reqid) ==
    /\ phase = "idle"
    /\ s \in Live
    /\ UNCHANGED <<clientSets, profile, attached, grant, advice, view>>
    /\ UNCHANGED <<dbVars, deathVars>>
    /\ \/ /\ s \in attached
          /\ Request(s, "acquire", reqid)
       \/ /\ s \notin attached
          /\ state' = [state EXCEPT ![s] = "acquire"]
          /\ UNCHANGED <<request, stamp, nextStamp, lists, owner, awaiting, phase>>
          /\ UNCHANGED loopVars

\* The event callback: the client learns the state and the masks of its set.
Notify(s) ==
    view' = IF profile[s].events /\ dying # s
            THEN [view EXCEPT ![s] = [state  |-> state[s],
                                      grant  |-> grant[s],
                                      advice |-> advice[s]]]
            ELSE view

\* mrp_resource_set_release: a set that is released already only gets its
\* event back, with the number of the request.
Release(s, reqid) ==
    /\ phase = "idle"
    /\ s \in Live
    /\ UNCHANGED <<clientSets, profile, attached, grant, advice>>
    /\ UNCHANGED <<dbVars, deathVars>>
    /\ \/ /\ s \in attached /\ state[s] # "release"
          /\ UNCHANGED view
          /\ Request(s, "release", reqid)
       \/ /\ s \in attached /\ state[s] = "release"
          /\ Notify(s)
          /\ UNCHANGED <<state, request, stamp, nextStamp, lists, owner>>
          /\ UNCHANGED <<awaiting, phase, loopVars>>
       \/ /\ s \notin attached
          /\ state' = [state EXCEPT ![s] = "release"]
          /\ UNCHANGED <<request, stamp, nextStamp, lists, owner, view>>
          /\ UNCHANGED <<awaiting, phase, loopVars>>

\* A destroyed set gives its resources back when it still asks for them.
MustRelease_Inverted(s) == s \in attached /\ state[s] = "release"
MustRelease(s) == s \in attached /\ state[s] = "acquire"

\* mrp_resource_set_destroy up to the update its release triggers; events to
\* the dying set are cut first.  Only a set in the acquire state is released.
StartDestroy(s) ==
    /\ dying' = s
    /\ UNCHANGED <<clientSets, profile, attached, grant, advice, view, dbVars>>
    /\ \/ /\ MustRelease(s)
          /\ Request(s, "release", InvalidReqno)
       \/ /\ ~MustRelease(s)
          /\ phase' = "free"
          /\ UNCHANGED <<state, request, stamp, nextStamp, lists, owner>>
          /\ UNCHANGED <<awaiting, loopVars>>

Destroy(s) ==
    /\ phase = "idle"
    /\ s \in Live
    /\ StartDestroy(s)
    /\ UNCHANGED leaving

\* mrp_resource_client_destroy: the sets of the client are destroyed in order.
ClientDestroy(c) ==
    /\ phase = "idle"
    /\ clientSets[c] # <<>>
    /\ StartDestroy(Head(clientSets[c]))
    /\ leaving' = c

\* The set leaves the list of its client and the list of its class.
SetsWithout(c, s) == Unlink(clientSets[c], s)
ListsWithout(s) == [z \in Zones |-> [k \in Classes |-> Unlink(lists[z][k], s)]]

\* The rest of mrp_resource_set_destroy: the rows and the set are freed.
FreeSet ==
    /\ phase = "free"
    /\ LET s == dying
           c == profile[s].client
       IN  /\ clientSets' = [clientSets EXCEPT ![c] = SetsWithout(c, s)]
           /\ lists' = ListsWithout(s)
           /\ attached' = attached \ {s}
           /\ profile' = [profile EXCEPT ![s] = NoProfile]
           /\ state' = [state EXCEPT ![s] = "no_request"]
           /\ grant' = [grant EXCEPT ![s] = {}]
           /\ advice' = [advice EXCEPT ![s] = {}]
           /\ request' = [request EXCEPT ![s] = 0]
           /\ stamp' = [stamp EXCEPT ![s] = 0]
           /\ userRow' = [userRow EXCEPT ![s] = NoUserRow]
           /\ view' = [view EXCEPT ![s] = NoView]
           /\ dying' = None
           /\ IF leaving # None /\ clientSets'[leaving] # <<>>
              THEN phase' = "next" /\ UNCHANGED leaving
              ELSE phase' = "idle" /\ leaving' = None
    /\ UNCHANGED <<nextStamp, owner, ownerRow, awaiting, loopVars>>

\* mrp_resource_client_destroy goes on to the next set of the client.
DestroyNext ==
    /\ phase = "next"
    /\ StartDestroy(Head(clientSets[leaving]))
    /\ UNCHANGED leaving

-----------------------------------------------------------------------------
(* The loop over the sets of the zone *)

\* grant_ownership, but for the answer of the resource's manager
MayGrant_Unshared(s, r) ==
    LET o == owner[profile[s].zone][r]
    IN  ~o.modal /\ (o.set \in {None, s} \/ r \in Shareable)
MayGrant_Classmate(s, r) ==
    LET o == owner[profile[s].zone][r]
    IN  ~o.modal /\ (o.set \in {None, s} \/ o.class = profile[s].class)
MayGrant(s, r) ==
    LET o == owner[profile[s].zone][r]
    IN  /\ ~o.modal
        /\ \/ o.set = None
           \/ o.set = s
           \/ r \in Shareable /\ o.share

\* The owner record after a successful grant_ownership.  Whoever shares the
\* resource last decides whether it can be shared further.
Granted_NoModal(s, r) ==
    LET o == owner[profile[s].zone][r]
        c == profile[s].class
        sharing == c \in ClassShare /\ r \in profile[s].shared
    IN  IF o.set = None
        THEN [set |-> s, class |-> c, modal |-> FALSE, share |-> sharing]
        ELSE [o EXCEPT !.share = sharing]
Granted(s, r) ==
    LET o == owner[profile[s].zone][r]
        c == profile[s].class
        sharing == c \in ClassShare /\ r \in profile[s].shared
    IN  IF o.set = None
        THEN [set |-> s, class |-> c, modal |-> c \in Modal, share |-> sharing]
        ELSE [o EXCEPT !.share = sharing]

\* advice_ownership, but for the answer of the resource's manager
MayAdvise(s, r) ==
    LET o == owner[profile[s].zone][r]
    IN  /\ ~o.modal
        /\ \/ o.set = None
           \/ o.share
           \/ /\ o.class = profile[s].class
              /\ profile[o.set].priority = profile[s].priority

\* (grant & mandatory) == mandatory, and the same of the advice
Satisfies_Any(s, rs) == profile[s].mandatory \cap rs # {}
Satisfies_All(s, rs) == profile[s].all = rs
Satisfies(s, rs) == profile[s].mandatory \subseteq rs

\* Does the stored set differ from what the client and the tables were told?
Changed_GrantOnly(s, g, a) == g # grant[s]
Changed(s, g, a) == g # grant[s] \/ a # advice[s]

\* The request an event answers: the one the update was started by.
ReplyTo_Acquire(s) ==
    IF update.set = s /\ state[s] = "acquire" THEN update.reqid ELSE 0
ReplyTo(s) ==
    IF update.set = s /\ update.reqid = request[s] THEN update.reqid ELSE 0

Event(s, released) ==
    [set |-> s, replyid |-> ReplyTo(s), shuffle |-> released]

\* What one iteration stores in a set, and the event it queues.
Store(s, g, a, forced) ==
    LET newGrant == IF forced THEN {} ELSE g
        released == IF forced THEN state[s] # "release"
                    ELSE g = {} /\ grant[s] # {} /\ profile[s].autorelease
    IN  /\ state' = IF forced \/ released
                    THEN [state EXCEPT ![s] = "release"] ELSE state
        /\ grant' = [grant EXCEPT ![s] = newGrant]
        /\ advice' = [advice EXCEPT ![s] = a]
        /\ events' = IF ReplyTo(s) # 0 \/ released \/ Changed(s, newGrant, a)
                     THEN Append(events, Event(s, released))
                     ELSE events

\* The owners of the zone after all resources of a set were tried: with a
\* failure the backed up records are restored.
OwnersAfter_Kept(s, g, ok) ==
    [r \in Resources |-> IF r \in g THEN Granted(s, r)
                         ELSE owner[profile[s].zone][r]]
OwnersAfter(s, g, ok) ==
    [r \in Resources |-> IF ok /\ r \in g THEN Granted(s, r)
                         ELSE owner[profile[s].zone][r]]

Advisable(s, unadvised) ==
    LET a == {r \in profile[s].all \ unadvised : MayAdvise(s, r)}
    IN  IF Satisfies(s, a) THEN a ELSE {}

\* The acquire case.  All resources are granted one by one; when a mandatory
\* one is missing, or Lua vetoes the result, the owners are rolled back and
\* the set is only advised.  A set that ran into a modal owner is released.
ScanAcquiring(s) ==
    LET p == profile[s]
        o == owner[p.zone]
    IN  \E refused \in SUBSET (p.all \cap Managed),
           unadvised \in SUBSET (p.all \cap Managed),
           veto \in (IF HasVeto THEN BOOLEAN ELSE {FALSE}) :
          LET g == {r \in p.all \ refused : MayGrant(s, r)}
              ok == Satisfies(s, g) /\ ~veto
              forced == \E r \in p.all \ g : o[r].set # s /\ o[r].modal
          IN  /\ owner' = [owner EXCEPT ![p.zone] = OwnersAfter(s, g, ok)]
              /\ \/ ok /\ Store(s, g, g, forced)
                 \/ ~ok /\ Store(s, {}, Advisable(s, unadvised), forced)

\* The release case only recomputes the advice.
ScanReleased(s) ==
    \E unadvised \in SUBSET (profile[s].all \cap Managed) :
      /\ UNCHANGED owner
      /\ Store(s, {}, Advisable(s, unadvised), FALSE)

\* One iteration for the set next in order.
Scan(s) ==
    /\ phase = "scan"
    /\ s \in todo
    /\ \A t \in todo \ {s} : Ahead(s, t)
    /\ \/ state[s] = "acquire" /\ ScanAcquiring(s)
       \/ state[s] = "release" /\ ScanReleased(s)
       \/ state[s] = "no_request" /\ UNCHANGED owner /\ Store(s, {}, {}, FALSE)
    /\ todo' = todo \ {s}
    /\ phase' = IF todo' = {} THEN "notify" ELSE "scan"
    /\ UNCHANGED <<requestVars, lists, clientVars, dbVars>>
    /\ UNCHANGED <<update, oldOwner, deathVars>>

-----------------------------------------------------------------------------
(* The loop over the events, and the end of the update *)

\* One queued event: a set that was released by the update is sorted anew, its
\* user rows are refreshed and its client is told.
Deliver ==
    /\ phase = "notify"
    /\ events # <<>>
    /\ LET e == Head(events)
           s == e.set
       IN  /\ IF e.shuffle THEN Move(s, state, stamp) ELSE UNCHANGED lists
           /\ userRow' = [userRow EXCEPT ![s] = [state |-> state[s],
                                                 grant |-> grant[s]]]
           /\ Notify(s)
           /\ awaiting' = IF e.replyid # 0 /\ awaiting = s THEN None ELSE awaiting
    /\ events' = Tail(events)
    /\ UNCHANGED <<requestVars, grantVars, owner, ownerRow, phase, update>>
    /\ UNCHANGED <<todo, oldOwner, deathVars>>

OwnerChanged_ClassOnly(z, r) == owner[z][r].class # oldOwner[r].class
OwnerChanged(z, r) == \/ owner[z][r].class # oldOwner[r].class
                      \/ owner[z][r].set # oldOwner[r].set

\* The owner tables follow the owners whose class or set changed.
FinishUpdate ==
    /\ phase = "notify"
    /\ events = <<>>
    /\ LET z == update.zone
       IN  ownerRow' = [ownerRow EXCEPT ![z] =
                          [r \in Resources |->
                             IF OwnerChanged(z, r)
                             THEN [class |-> owner[z][r].class,
                                   set   |-> owner[z][r].set]
                             ELSE @[r]]]
    /\ phase' = IF dying # None THEN "free" ELSE "idle"
    /\ update' = NoUpdate
    /\ oldOwner' = [r \in Resources |-> ZeroOwner]
    /\ UNCHANGED <<requestVars, grantVars, lists, owner, userRow, clientVars>>
    /\ UNCHANGED <<todo, events, deathVars>>

-----------------------------------------------------------------------------
\* The daemon is gone once an assertion failed.
Aborted == phase = "aborted" /\ UNCHANGED vars

Operation ==
    \/ \E s \in Sets : \/ \E p \in Profiles : Create(s, p)
                       \/ \E n \in ReqIds : \/ AddToClass(s, n)
                                            \/ Acquire(s, n)
                                            \/ Release(s, n)
                       \/ Destroy(s)
    \/ \E c \in Clients : ClientDestroy(c)

Internal ==
    \/ \E s \in Sets : Scan(s)
    \/ Deliver
    \/ FinishUpdate
    \/ FreeSet
    \/ DestroyNext

Next == Operation \/ Internal \/ Aborted

Spec == Init /\ [][Next]_vars

-----------------------------------------------------------------------------
(* Properties.  "Settled" states are those no update or destruction is in    *)
(* progress in: the only states another part of the daemon acts in.          *)

Settled == phase = "idle"

Waiting(s) == s \in attached /\ state[s] = "acquire"
Holders(z, r) == {s \in attached : profile[s].zone = z /\ r \in grant[s]}
Willing(s, r) == profile[s].class \in ClassShare /\ r \in profile[s].shared

\* Every variable has the shape the code declares it with.
TypeOK ==
    /\ clientSets \in [Clients -> Seq(Sets)]
    /\ profile \in [Sets -> Profiles]
    /\ attached \in SUBSET Sets
    /\ state \in [Sets -> {"no_request", "release", "acquire"}]
    /\ grant \in [Sets -> SUBSET Resources]
    /\ advice \in [Sets -> SUBSET Resources]
    /\ request \in [Sets -> ReqIds \cup {0, InvalidReqno}]
    /\ stamp \in [Sets -> Nat]
    /\ nextStamp \in 0..StampMax
    /\ lists \in [Zones -> [Classes -> Seq(Sets)]]
    /\ owner \in [Zones -> [Resources -> Owner]]
    /\ ownerRow \in [Zones -> [Resources -> [class : Classes \cup {None},
                                             set   : Sets \cup {None}]]]
    /\ userRow \in [Sets -> [state : {"no_request", "release", "acquire"},
                             grant : SUBSET Resources]]
    /\ view \in [Sets -> [state  : {"no_request", "release", "acquire"},
                          grant  : SUBSET Resources,
                          advice : SUBSET Resources]]
    /\ awaiting \in Sets \cup {None}
    /\ phase \in {"idle", "scan", "notify", "free", "next", "aborted"}
    /\ update \in [zone : Zones \cup {None}, set : Sets \cup {None},
                   reqid : ReqIds \cup {0, InvalidReqno}]
    /\ todo \in SUBSET Sets
    /\ events \in Seq([set : Sets, replyid : ReqIds \cup {0, InvalidReqno},
                       shuffle : BOOLEAN])
    /\ oldOwner \in [Resources -> Owner]
    /\ dying \in Sets \cup {None}
    /\ leaving \in Clients \cup {None}

\* A resource that is not shareable is granted to one set of a zone at most
\* (grant_ownership and the rollback in mrp_resource_owner_update_zone).
ExclusiveGrants ==
    Settled => \A z \in Zones, r \in Resources \ Shareable :
                 \A s, t \in Holders(z, r) : s = t

\* A set is granted all of its mandatory resources or nothing, and only while
\* it is acquiring.  (README.md:16-17: "taking a single one away from it should
\* result in the release of the entire set of resources")
AllOrNothing ==
    Settled => \A s \in Sets :
                 grant[s] # {} => /\ Waiting(s)
                                  /\ profile[s].mandatory \subseteq grant[s]
                                  /\ grant[s] \subseteq profile[s].all

\* What nobody ahead of s holds, or all holders ahead of it share.
Reachable(s) ==
    {r \in profile[s].all :
       \A t \in Holders(profile[s].zone, r) \ {s} :
         Ahead(t, s) => r \in Shareable /\ Willing(t, r)}

\* A set of a modal class holds something in the zone.
ModalHeld(z) ==
    \E r \in Resources : \E t \in Holders(z, r) : profile[t].class \in Modal

\* A set that waits has all it can reach and no manager refuses, unless
\* something mandatory is missing or Lua vetoes.
Allotted(s) ==
    \E refused \in SUBSET Managed :
      LET g == Reachable(s) \ refused
      IN  IF profile[s].mandatory \subseteq g
          THEN grant[s] = g \/ (HasVeto /\ grant[s] = {})
          ELSE grant[s] = {}

\* A set that is still acquiring never wants what a modal set ahead of it
\* holds: the update that met the modal owner has released it.  (A modal class
\* below one that shares joins what is shared, and silences nobody by that.)
ModalSilences ==
    \A z \in Zones, r \in Resources : \A t \in Holders(z, r), s \in attached :
      (/\ s # t
       /\ profile[t].class \in Modal
       /\ \/ r \notin Shareable
          \/ \A d \in ClassShare : ClassRank(d) < ClassRank(profile[t].class)
       /\ profile[s].zone = z
       /\ r \in profile[s].all
       /\ Ahead(t, s)) => state[s] # "acquire"

\* The part of the sorting key that belongs to the set for good.
Level(s) == profile[s].priority * 2 + (IF profile[s].shared # {} THEN 1 ELSE 0)

\* Each class list holds each set of its class and zone exactly once, sorted by
\* priority and usage, whatever states and stamps changed since the last
\* insertion.  (States and stamps sort the sets of a level only as long as no
\* update releases sets by itself.)
ListsOrdered ==
    \A z \in Zones, c \in Classes :
      LET q == lists[z][c]
      IN  /\ \A i, j \in DOMAIN q : i < j => Level(q[i]) <= Level(q[j])
          /\ NoRepeat(q)
          /\ \A s \in Sets : Has(q, s) <=> /\ s \in attached
                                           /\ profile[s].class = c
                                           /\ profile[s].zone = z

\* The reference definition of the arbitration: going down the order, a set
\* gets every resource it can reach, provided no mandatory one is missing, and
\* a set that meets a modal one stops asking.  The order is that of the class
\* lists.  Next to a set of a modal class the owner records may name sets that
\* were released for meeting it, and others then get less, never more.
GreedyGrants ==
    Settled => /\ \A s \in attached :
                     Waiting(s) => /\ grant[s] \subseteq Reachable(s)
                                   /\ ModalHeld(profile[s].zone) \/ Allotted(s)
               /\ ModalSilences
               /\ ListsOrdered

\* A set that waits for resources nobody else holds has them, where managers
\* and Lua do not interfere.  (README.md:8-10: "resources are given to
\* applications that request them in a priority order")
FreeIsGiven ==
    Settled => \A s \in attached :
      (/\ Waiting(s)
       /\ \A r \in profile[s].all : Holders(profile[s].zone, r) \subseteq {s})
      => grant[s] = profile[s].all

\* What resource_owners says about a zone: the owner of a resource is a set that
\* holds it (resource-owner.h:39: "owner resource set"), so that no record
\* outlives its set: mrp_resource_owner_print follows owner->res and asserts on
\* what it finds (resource-owner.c:409).  The exception are zones with a set of
\* a modal class that holds something.
OwnersHold ==
    Settled => \A z \in Zones, r \in Resources :
                 owner[z][r].set # None =>
                   owner[z][r].set \in Holders(z, r) \/ ModalHeld(z)

\* The event array of an update has one slot per existing set.
EventsFit == Len(events) <= SetCount

\* The owner tables say what the owner records say.
OwnerTableInSync ==
    Settled => \A z \in Zones, r \in Resources :
                 /\ ownerRow[z][r].set = owner[z][r].set
                 /\ ownerRow[z][r].class = owner[z][r].class

\* The user and owner tables and the clients know the state, the masks and the
\* owners, although only differences are sent; a numbered request has been
\* answered when its operation returns; and the array the events wait in is never
\* overrun.
EveryoneInformed ==
    /\ Settled => \A s \in attached :
                    /\ userRow[s] = [state |-> state[s], grant |-> grant[s]]
                    /\ profile[s].events =>
                         view[s] = [state  |-> state[s],
                                    grant  |-> grant[s],
                                    advice |-> advice[s]]
    /\ Settled => awaiting = None
    /\ OwnerTableInSync
    /\ EventsFit

\* What s cannot do without: its mandatory resources, or any that it has.
Needed(s) == IF profile[s].mandatory = {} THEN grant[s] ELSE profile[s].mandatory

\* Whoever loses a grant in an update it did not ask for lost it to the sets
\* ahead of it: one of them now holds a resource it needs, or is of a modal
\* class and holds something in the zone.  The exceptions are a resource whose
\* manager may refuse it, and a veto.
LossIsPreemption ==
    [][\A s \in Sets :
         LET z == profile[s].zone
             ahead == Sets \ (todo \cup {s})
         IN (/\ phase = "scan"
             /\ s \in todo \ todo'
             /\ grant[s] # {}
             /\ grant'[s] = {}
             /\ state[s] = "acquire")
            => \/ HasVeto \/ Needed(s) \cap Managed # {}
               \/ \E r \in Needed(s) : ahead \cap Holders(z, r) # {}
               \/ \E r \in Resources : \E t \in ahead \cap Holders(z, r) :
                    profile[t].class \in Modal]_vars

-----------------------------------------------------------------------------
(* The abstract arbitration this implements.  While a zone is recomputed, a  *)
(* set that was not reached yet holds nothing: its owners have been reset.   *)

Holds(s) ==
    IF phase = "scan" /\ s \in todo
    THEN {}
    ELSE {profile[s].zone} \X grant[s]

Grants == INSTANCE ResourceGrants WITH holds <- [s \in Sets |-> Holds(s)]

\* Every step of the daemon takes grants back or gives what is free.
GrantsSpec == Grants!Spec
=============================================================================
