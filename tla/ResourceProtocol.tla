-------------------------- MODULE ResourceProtocol --------------------------
(***************************************************************************)
(* The native resource protocol: the library applications link with        *)
(* (libmurphy-resource), the plugin that serves it and the two ordered     *)
(* byte streams between them.  The arbitration behind the plugin is taken  *)
(* as ResourceGrants has it: any update of the zone may take resources     *)
(* back and give them to others, as long as it never gives one twice.      *)
(*                                                                         *)
(* An application owns copies of sets; the library keeps one set of its    *)
(* own per set of the server, counts the copies, and asks the server for   *)
(* the set only at the first acquisition.  Between the request and the     *)
(* reply the set waits in pending_sets under the number of its request;    *)
(* afterwards events find it by the identifier the server gave it.         *)
(***************************************************************************)
EXTENDS Naturals, Sequences, FiniteSets

CONSTANTS Clients,      \* connections, each a context of the library
          Sets,         \* the sets the applications make
          OwnerOf,      \* the client of each set
          Refused,      \* sets of a class the server does not know
          Resources,    \* the resources every set lists
          Mandatory,    \* those it cannot do without
          Populations,  \* who may be connected at first; the others have been
          Ready,        \* clients that have had the answers to their queries
          Fragile,      \* bound: the clients whose connection may end
          MaxRefs,      \* bound: [Sets -> copies of a set]
          MaxSeqno,     \* bound: [Clients -> requests the application starts]
          MaxQueue,     \* bound: events waiting when others change the zone
          Habits,       \* what applications do that the library mistakes
          None

HabitNames == {"reacquire", "early_delete", "early_release", "edit"}

ASSUME ProtocolAssumption ==
    /\ OwnerOf \in [Sets -> Clients]
    /\ Refused \subseteq Sets /\ Ready \subseteq Clients
    /\ Populations \subseteq SUBSET Clients /\ Fragile \subseteq Clients
    /\ Mandatory \subseteq Resources /\ Mandatory # {}
    /\ MaxRefs \in [Sets -> Nat \ {0}] /\ MaxSeqno \in [Clients -> Nat] /\ MaxQueue \in Nat
    /\ Habits \subseteq HabitNames

VARIABLES
    requests,     \* [Clients -> messages on their way to the server]
    replies,      \* [Clients -> messages on their way to the client]
    link,         \* [Clients -> "up", or "down" once either end is gone]
    served,       \* the clients the server keeps a client_t for
    closing,      \* the client whose connection the server is cleaning up
    rset,         \* the server's sets, by identifier
    nextId,       \* the identifier of the next one
    context,      \* [Clients -> mrp_res_context_t]
    lib,          \* [Sets -> the library's set]
    wants         \* [Sets -> does the application want the set granted?]

serverVars == <<served, closing, rset, nextId>>
clientVars == <<context, lib, wants>>
vars == <<requests, replies, link, served, closing, rset, nextId, context,
          lib, wants>>

Queries == {"classes", "resources"}

\* Messages of the protocol, both ways; fields a message lacks are empty.
Message == [req : Queries \cup {"create", "destroy", "acquire", "release",
                                "event"},
            seqno : Nat, id : Nat, ok : BOOLEAN,
            grant : SUBSET Resources, advice : SUBSET Resources]

Msg(req, seqno, id, ok) == [req |-> req, seqno |-> seqno, id |-> id, ok |-> ok,
                            grant |-> {}, advice |-> {}]

NoSet == [refs |-> 0, id |-> 0, seqno |-> 0, state |-> "pending",
          pending |-> FALSE, edited |-> FALSE, told |-> "pending"]

SetsOf(c) == {s \in Sets : OwnerOf[s] = c}
Alive(s)  == lib[s].refs > 0
Usable(c) == context[c].state = "connected"

\* mrp_res_create has sent its two queries and waits for the answers.
NewContext(c) ==
    [state |-> IF c \in Ready THEN "connected" ELSE "disconnected",
     got |-> IF c \in Ready THEN Queries ELSE {},
     connected |-> TRUE, seqno |-> 1]

OldContext == [state |-> "gone", got |-> Queries, connected |-> FALSE, seqno |-> 1]

InitialQueries(c) == IF c \in Ready THEN <<>>
                     ELSE <<Msg("classes", 0, 0, TRUE), Msg("resources", 0, 0, TRUE)>>

Init ==
    /\ served \in Populations
    /\ link = [c \in Clients |-> IF c \in served THEN "up" ELSE "down"]
    /\ requests = [c \in Clients |-> IF c \in served THEN InitialQueries(c) ELSE <<>>]
    /\ context = [c \in Clients |-> IF c \in served THEN NewContext(c) ELSE OldContext]
    /\ replies = [c \in Clients |-> <<>>]
    /\ closing = None
    /\ rset = <<>> /\ nextId = 1
    /\ lib = [s \in Sets |-> NoSet]
    /\ wants = [s \in Sets |-> FALSE]

-----------------------------------------------------------------------------
(* The server *)

\* What a set may be given: all its mandatory resources, or nothing.
Offers == {{}} \cup {G \in SUBSET Resources : Mandatory \subseteq G}

\* Grants of mrp_resource_owner_update_zone: only sets that ask are granted,
\* and no resource twice.
GrantsOf(S) ==
    {g \in [DOMAIN S -> Offers] :
       /\ \A i \in DOMAIN S : S[i].state = "release" => g[i] = {}
       /\ \A i, j \in DOMAIN S : i # j => g[i] \cap g[j] = {}}

\* A granted set is advised what it has.
AdvicesOf(g) ==
    {a \in [DOMAIN g -> Offers] : \A i \in DOMAIN g : g[i] # {} => a[i] = g[i]}

\* The sets after an update; a modal owner may end the request of any set
\* that is not granted.
Updated(S, g, a, forced) ==
    [i \in DOMAIN S |-> [S[i] EXCEPT !.grant = g[i], !.advice = a[i],
                          !.state = IF i \in forced THEN "release" ELSE @]]

\* The number of the request it answers is left out: no library looks at it.
Event(i, x) == [Msg("event", 0, i, TRUE) EXCEPT !.grant = x.grant,
                                                !.advice = x.advice]

HasChanged_Grant(x, y) == x.grant # y.grant
HasChanged(x, y) == x # y

\* Identifiers in the order the sets are looked at.
InOrder(ids) ==
    CHOOSE q \in [1..Cardinality(ids) -> ids] :
        \A j, k \in 1..Cardinality(ids) : j < k => q[j] < q[k]

\* The sets of client c that are told of an update from S to T: the set that
\* asked always, the others when something changed for them.
ToldOf(c, S, T, asker) ==
    {i \in DOMAIN T : T[i].client = c /\ (i = asker \/ HasChanged(S[i], T[i]))}

EventsTo(c, S, T, asker) ==
    LET told == ToldOf(c, S, T, asker)
    IN [k \in 1..Cardinality(told) |-> Event(InOrder(told)[k], T[InOrder(told)[k]])]

\* mrp_transport_send fails once the connection is down.
Sent(queue, c, ms) == IF link[c] = "up" THEN queue \o ms ELSE queue

\* The zone is updated from S for a request of set asker; the client that
\* asked gets one message before the events or one after them.
UpdateZone(S, asker, c, before, after) ==
    \E g \in GrantsOf(S) :
      \E a \in AdvicesOf(g),
         forced \in SUBSET {i \in DOMAIN S : S[i].state = "acquire" /\ g[i] = {}} :
        LET T == Updated(S, g, a, forced)
        IN /\ rset' = T
           /\ replies' = [d \in Clients |-> Sent(replies[d], d,
                (IF d = c THEN before ELSE <<>>) \o EventsTo(d, S, T, asker)
                  \o (IF d = c THEN after ELSE <<>>))]

ServerIdle == closing = None

\* The server takes the next request of c.
Serving(c, req) ==
    /\ ServerIdle /\ c \in served
    /\ requests[c] # <<>> /\ Head(requests[c]).req = req
    /\ requests' = [requests EXCEPT ![c] = Tail(@)]
    /\ UNCHANGED <<link, served, closing, clientVars>>

Reply(c, m) == replies' = [replies EXCEPT ![c] = Sent(@, c, <<m>>)]

ServeQuery(c) ==
    \E q \in Queries :
      /\ Serving(c, q)
      /\ Reply(c, Head(requests[c]))
      /\ UNCHANGED <<rset, nextId>>

\* A request sent back with a status; its number is looked at no more.
Answer(m) == [m EXCEPT !.seqno = 0]

\* The new set joins its class, which updates the zone: its events go out
\* before the reply that tells the client its identifier.
ServeCreate(c) ==
    LET m == Head(requests[c])
        new == [client |-> c, state |-> "release", grant |-> {}, advice |-> {}]
        S == [i \in DOMAIN rset \cup {nextId} |->
                IF i = nextId THEN new ELSE rset[i]]
    IN /\ Serving(c, "create")
       /\ nextId' = nextId + 1
       /\ IF m.ok
          THEN UpdateZone(S, nextId, c, <<>>,
                          <<Msg("create", m.seqno, nextId, TRUE)>>)
          ELSE /\ Reply(c, Msg("create", m.seqno, nextId, FALSE))
               /\ UNCHANGED rset

\* mrp_resource_client_find_set looks among the sets of this client only.
Finds(c, id) == id \in DOMAIN rset /\ rset[id].client = c

Without(id) == [i \in DOMAIN rset \ {id} |-> rset[i]]

\* mrp_resource_set_destroy: a set that asks gives up its request first.
DestroySet(c, id, before) ==
    IF rset[id].state = "acquire"
    THEN UpdateZone(Without(id), 0, c, before, <<>>)
    ELSE /\ rset' = Without(id)
         /\ replies' = [replies EXCEPT ![c] = Sent(@, c, before)]

Rejected(c) ==
    LET m == Head(requests[c])
    IN /\ ~Finds(c, m.id)
       /\ Reply(c, [Answer(m) EXCEPT !.ok = FALSE])
       /\ UNCHANGED <<rset, nextId>>

ServeDestroy(c) ==
    LET m == Head(requests[c])
    IN /\ Serving(c, "destroy")
       /\ \/ Rejected(c)
          \/ /\ Finds(c, m.id)
             /\ DestroySet(c, m.id, <<Answer(m)>>)
             /\ UNCHANGED nextId

ServeAcquire(c) ==
    LET m == Head(requests[c])
    IN /\ Serving(c, "acquire")
       /\ \/ Rejected(c)
          \/ /\ Finds(c, m.id)
             /\ UpdateZone([rset EXCEPT ![m.id].state = "acquire"], m.id,
                           c, <<Answer(m)>>, <<>>)
             /\ UNCHANGED nextId

Released_Kept(id) == rset
Released(id) == [rset EXCEPT ![id].state = "release"]

\* A set that does not ask is told its state again, without an update.
ServeRelease(c) ==
    LET m == Head(requests[c])
    IN /\ Serving(c, "release")
       /\ \/ Rejected(c)
          \/ /\ Finds(c, m.id) /\ rset[m.id].state = "release"
             /\ replies' = [replies EXCEPT ![c] =
                  Sent(@, c, <<Answer(m), Event(m.id, rset[m.id])>>)]
             /\ UNCHANGED <<rset, nextId>>
          \/ /\ Finds(c, m.id) /\ rset[m.id].state = "acquire"
             /\ UpdateZone(Released(m.id), m.id,
                           c, <<Answer(m)>>, <<>>)
             /\ UNCHANGED nextId

\* Another front end changes the zone.
OthersUpdate ==
    /\ ServerIdle
    /\ \A c \in Clients : Len(replies[c]) < MaxQueue
    /\ UpdateZone(rset, 0, None, <<>>, <<>>)
    /\ rset' # rset
    /\ UNCHANGED <<requests, link, served, closing, nextId, clientVars>>

\* closed_evt: the sets of the client are destroyed one after the other;
\* what it had sent and was not read is lost.
ServerClosed(c) ==
    /\ ServerIdle /\ c \in served /\ link[c] = "down"
    /\ closing' = c
    /\ requests' = [requests EXCEPT ![c] = <<>>]
    /\ UNCHANGED <<replies, link, served, rset, nextId, clientVars>>

LeftBy_Asking(c) == {i \in DOMAIN rset : rset[i].client = c /\ rset[i].state = "acquire"}
LeftBy(c) == {i \in DOMAIN rset : rset[i].client = c}

ServerCleans ==
    /\ closing # None
    /\ LET left == LeftBy(closing)
       IN IF left # {}
          THEN /\ \E i \in left :
                    /\ \A j \in left : i <= j
                    /\ DestroySet(closing, i, <<>>)
               /\ UNCHANGED <<served, closing>>
          ELSE /\ served' = served \ {closing} /\ closing' = None
               /\ UNCHANGED <<rset, replies>>
    /\ UNCHANGED <<requests, link, nextId, clientVars>>

-----------------------------------------------------------------------------
(* The library *)

\* Every request carries the next number, which the set remembers.
Numbered(c, s) == [lib EXCEPT ![s].seqno = context[c].seqno]

\* acquire_resource_set_request and its like.
Request(c, req, id, known) ==
    /\ requests' = [requests EXCEPT ![c] =
         Sent(@, c, <<Msg(req, context[c].seqno, id, known)>>)]
    /\ context' = [context EXCEPT ![c].seqno = @ + 1]

\* The library's state of a set from the masks of an event.
StateOf(grant, advice) ==
    IF grant # {} THEN "acquired"
    ELSE IF advice = Mandatory THEN "available" ELSE "lost"

Receiving(c, req) ==
    /\ context[c].connected
    /\ replies[c] # <<>> /\ Head(replies[c]).req = req
    /\ replies' = [replies EXCEPT ![c] = Tail(@)]
    /\ UNCHANGED <<link, serverVars, wants>>

ReceiveQuery(c) ==
    \E q \in Queries :
      /\ Receiving(c, q)
      /\ LET got == context[c].got \cup {q}
         IN context' = [context EXCEPT ![c].got = got,
              ![c].state = IF got = Queries THEN "connected" ELSE @]
      /\ UNCHANGED <<requests, lib>>

\* The set whose creation a reply answers.
Pending(c, seqno) == {s \in SetsOf(c) : lib[s].pending /\ lib[s].seqno = seqno}

\* The library knows the set by its identifier (rset_mapping).
Mapped(c, id) == {s \in SetsOf(c) : Alive(s) /\ lib[s].id = id}

\* The reply gives the set its identifier, and the acquisition goes on.
ReceiveCreate(c) ==
    LET m == Head(replies[c])
    IN /\ Receiving(c, "create")
       /\ IF Pending(c, m.seqno) = {}
          THEN UNCHANGED <<requests, context, lib>>
          ELSE \E s \in Pending(c, m.seqno) :
                 IF m.ok
                 THEN /\ lib' = [Numbered(c, s) EXCEPT ![s].pending = FALSE,
                                                       ![s].id = m.id]
                      /\ Request(c, "acquire", m.id, TRUE)
                 ELSE /\ lib' = [lib EXCEPT ![s].pending = FALSE]
                      /\ UNCHANGED <<requests, context>>

AfterAnswer_Untold(s, req) == [lib[s] EXCEPT !.seqno = 0]
AfterAnswer_Acquired(s, req) ==
    [lib[s] EXCEPT !.seqno = IF req = "acquire" THEN 0 ELSE @, !.told = lib[s].state]
AfterAnswer(s, req) == [lib[s] EXCEPT !.seqno = 0, !.told = lib[s].state]

\* The answer to an acquisition or a release: from now on events reach the
\* application, and it is told what the library knows.
ReceiveAnswer(c) ==
    \E req \in {"acquire", "release"} :
      /\ Receiving(c, req)
      /\ LET m == Head(replies[c])
             of == IF m.ok THEN Mapped(c, m.id) ELSE {}
         IN lib' = [s \in Sets |->
              IF s \in of THEN AfterAnswer(s, req) ELSE lib[s]]
      /\ UNCHANGED <<requests, context>>

\* An event that names a resource the library's set no longer has is dropped.
Understood(s, m) == lib[s].edited => m.grant \cup m.advice = {}

\* The application is told of an event unless an answer is still to come.
ReceiveEvent(c) ==
    /\ Receiving(c, "event")
    /\ LET m == Head(replies[c])
           st == StateOf(m.grant, m.advice)
       IN lib' = [s \in Sets |->
            IF s \in Mapped(c, m.id) /\ Understood(s, m)
            THEN [lib[s] EXCEPT !.state = st,
                                !.told = IF lib[s].seqno = 0 THEN st ELSE @]
            ELSE lib[s]]
    /\ UNCHANGED <<requests, context>>

\* The library ignores the answer to a destruction.
ReceiveDestroy(c) ==
    /\ Receiving(c, "destroy")
    /\ UNCHANGED <<requests, context, lib>>

\* closed_evt: the library remembers, and tells nobody.
ClientClosed(c) ==
    /\ context[c].connected /\ link[c] = "down"
    /\ context' = [context EXCEPT ![c].connected = FALSE]
    /\ replies' = [replies EXCEPT ![c] = <<>>]
    /\ UNCHANGED <<requests, link, serverVars, lib, wants>>

-----------------------------------------------------------------------------
(* The application *)

AppVars == <<replies, link, serverVars>>

CreateResourceSet(s) ==
    /\ Usable(OwnerOf[s]) /\ ~Alive(s)
    /\ context[OwnerOf[s]].seqno <= MaxSeqno[OwnerOf[s]]
    /\ lib' = [lib EXCEPT ![s] = [NoSet EXCEPT !.refs = 1]]
    /\ wants' = [wants EXCEPT ![s] = FALSE]
    /\ UNCHANGED <<requests, context, AppVars>>

CopyResourceSet(s) ==
    /\ Usable(OwnerOf[s]) /\ Alive(s) /\ lib[s].refs < MaxRefs[s]
    /\ lib' = [lib EXCEPT ![s].refs = @ + 1]
    /\ UNCHANGED <<requests, context, wants, AppVars>>

DestroyRequest_Silent(c, id) == UNCHANGED <<requests, context>>
DestroyRequest(c, id) ==
    IF context[c].connected THEN Request(c, "destroy", id, TRUE)
    ELSE UNCHANGED <<requests, context>>

\* The last copy takes the library's set and the server's with it.
DeleteResourceSet(s) ==
    LET c == OwnerOf[s]
    IN /\ Usable(c) /\ Alive(s)
       /\ IF lib[s].refs > 1
          THEN /\ lib' = [lib EXCEPT ![s].refs = @ - 1]
               /\ UNCHANGED <<requests, context>>
          ELSE /\ lib[s].pending => "early_delete" \in Habits
               /\ lib' = [lib EXCEPT ![s] = NoSet]
               /\ DestroyRequest(c, lib[s].id)
       /\ UNCHANGED <<wants, AppVars>>

\* A set the server knows is asked for again unless it is granted; any other
\* is created first.  The call fails, and changes nothing, without a
\* connection.  The application may have changed the list of resources.
AcquireResourceSet(s) ==
    LET c == OwnerOf[s]
    IN /\ Usable(c) /\ Alive(s) /\ context[c].connected
       /\ context[c].seqno <= MaxSeqno[c]
       /\ \E edited \in {lib[s].edited} \cup
                        IF "edit" \in Habits /\ lib[s].id # 0 THEN {TRUE} ELSE {} :
            \/ /\ lib[s].id # 0 /\ lib[s].state # "acquired"
               /\ lib' = [Numbered(c, s) EXCEPT ![s].edited = edited]
               /\ Request(c, "acquire", lib[s].id, TRUE)
            \/ /\ lib[s].id = 0
               /\ lib[s].pending => "reacquire" \in Habits
               /\ lib' = [Numbered(c, s) EXCEPT ![s].pending = TRUE]
               /\ Request(c, "create", 0, s \notin Refused)
       /\ wants' = [wants EXCEPT ![s] = TRUE]
       /\ UNCHANGED AppVars

\* The library passes on a release only of a set it believes granted; for
\* any other the call does nothing and reports success.
ReleaseResourceSet(s) ==
    LET c == OwnerOf[s]
    IN /\ Usable(c) /\ Alive(s) /\ context[c].connected
       /\ context[c].seqno <= MaxSeqno[c]
       /\ wants[s]
       /\ IF lib[s].state = "acquired"
          THEN /\ lib' = Numbered(c, s)
               /\ Request(c, "release", lib[s].id, TRUE)
          ELSE /\ "early_release" \in Habits
               /\ UNCHANGED <<requests, context, lib>>
       /\ wants' = [wants EXCEPT ![s] = FALSE]
       /\ UNCHANGED AppVars

\* The application ends (mrp_res_destroy, or its process dies).
Gone(c) ==
    /\ c \in Fragile /\ context[c].state # "gone"
    /\ context' = [context EXCEPT ![c].state = "gone", ![c].connected = FALSE]
    /\ link' = [link EXCEPT ![c] = "down"]
    /\ replies' = [replies EXCEPT ![c] = <<>>]
    /\ lib' = [s \in Sets |-> IF s \in SetsOf(c) THEN NoSet ELSE lib[s]]
    /\ wants' = [s \in Sets |-> IF s \in SetsOf(c) THEN FALSE ELSE wants[s]]
    /\ UNCHANGED <<requests, serverVars>>

\* The connection breaks; each end notices in its own time.
Break(c) ==
    /\ c \in Fragile /\ link[c] = "up"
    /\ link' = [link EXCEPT ![c] = "down"]
    /\ UNCHANGED <<requests, replies, serverVars, clientVars>>

-----------------------------------------------------------------------------
Serve(c) == \/ ServeQuery(c)   \/ ServeCreate(c) \/ ServeDestroy(c)
            \/ ServeAcquire(c) \/ ServeRelease(c)

Receive(c) == \/ ReceiveQuery(c) \/ ReceiveCreate(c) \/ ReceiveAnswer(c)
              \/ ReceiveEvent(c) \/ ReceiveDestroy(c)

Application ==
    \/ \E s \in Sets : \/ CreateResourceSet(s)  \/ CopyResourceSet(s)
                       \/ DeleteResourceSet(s)  \/ AcquireResourceSet(s)
                       \/ ReleaseResourceSet(s)
    \/ \E c \in Clients : Gone(c) \/ Break(c)

Next ==
    \/ \E c \in Clients : \/ Serve(c) \/ Receive(c)
                          \/ ServerClosed(c) \/ ClientClosed(c)
    \/ ServerCleans \/ OthersUpdate \/ Application

Spec == Init /\ [][Next]_vars

\* Both main loops come round: a message that waits is read, a connection
\* that is gone is noticed.
Server(c)  == Serve(c) \/ ServerClosed(c) \/ (closing = c /\ ServerCleans)
Library(c) == Receive(c) \/ ClientClosed(c)

FairSpec ==
    Spec /\ \A c \in Clients : WF_vars(Server(c)) /\ WF_vars(Library(c))

-----------------------------------------------------------------------------
(* Properties *)

TypeOK ==
    /\ \A c \in Clients : /\ \A k \in DOMAIN requests[c] : requests[c][k] \in Message
                          /\ \A k \in DOMAIN replies[c] : replies[c][k] \in Message
    /\ link \in [Clients -> {"up", "down"}]
    /\ served \subseteq Clients /\ closing \in served \cup {None}
    /\ nextId \in Nat \ {0} /\ DOMAIN rset \subseteq 1..(nextId - 1)
    /\ \A i \in DOMAIN rset :
         rset[i] \in [client : served, state : {"acquire", "release"},
                      grant : Offers, advice : Offers]
    /\ context \in [Clients -> [state : {"disconnected", "connected", "gone"},
                                got : SUBSET Queries, connected : BOOLEAN,
                                seqno : Nat]]
    /\ lib \in [Sets -> [refs : Nat, id : Nat, seqno : Nat,
                         state : {"pending", "acquired", "available", "lost"},
                         pending : BOOLEAN, edited : BOOLEAN,
                         told : {"pending", "acquired", "available", "lost"}]]
    /\ \A s \in Sets : lib[s].refs <= MaxRefs[s]
    /\ wants \in [Sets -> BOOLEAN]

\* The connection of c works and both ends know it.
Connected(c) == link[c] = "up" /\ context[c].connected /\ c \in served

\* Such a message about identifier id is in the queue.
InFlight(queue, req, id) ==
    \E k \in DOMAIN queue : queue[k].req = req /\ queue[k].id = id

\* Where the events about identifier id wait that have not reached client c.
EventsAhead(c, id) ==
    {k \in DOMAIN replies[c] : replies[c][k].req = "event" /\ replies[c][k].id = id}

LastOf(ks) == CHOOSE k \in ks : \A j \in ks : j <= k

\* What the library will believe of s once everything sent has arrived.
Eventual(s) ==
    LET ahead == EventsAhead(OwnerOf[s], lib[s].id)
        last  == replies[OwnerOf[s]][LastOf(ahead)]
    IN IF ahead = {} THEN lib[s].state ELSE StateOf(last.grant, last.advice)

Asked(s, req) == InFlight(requests[OwnerOf[s]], req, lib[s].id)

\* No event is lost, ignored or overtaken: what a library believes of a set,
\* or will once the events on their way have arrived, is what the server
\* last decided; only a set whose first acquisition is still on its way to
\* the server may wait.
LastWord ==
    \A s \in Sets : (Alive(s) /\ lib[s].id # 0 /\ Connected(OwnerOf[s])) =>
      /\ lib[s].id \in DOMAIN rset
      /\ \/ Eventual(s) = "pending" /\ Asked(s, "acquire")
         \/ Eventual(s) = StateOf(rset[lib[s].id].grant, rset[lib[s].id].advice)

\* Events held back while an answer is awaited are not forgotten: whenever
\* the library awaits none, the application has been told what it knows.
ToldIsCurrent ==
    \A s \in Sets : lib[s].seqno = 0 => lib[s].told = lib[s].state

\* The application believes of its sets what the server last decided, or what it
\* decides is on its way.
BeliefsAreRight == TypeOK /\ LastWord /\ ToldIsCurrent

\* The sets of the server and of a library correspond one to one, except for
\* those being made or destroyed: no set of the server is left without one
\* who knows it, and no two sets of the library share one.
OneToOne ==
    /\ \A i \in DOMAIN rset : LET c == rset[i].client IN Connected(c) =>
         \/ Mapped(c, i) # {}
         \/ \E k \in DOMAIN replies[c] : /\ replies[c][k].req = "create" /\ replies[c][k].id = i
                                         /\ Pending(c, replies[c][k].seqno) # {}
         \/ InFlight(requests[c], "destroy", i)
    /\ \A s, t \in Sets : s # t /\ OwnerOf[s] = OwnerOf[t] /\ lib[s].id # 0
                            => lib[s].id # lib[t].id

\* A set the application has released is not asked for at the server, once
\* the release has got there.
ReleasesHonoured ==
    \A s \in Sets :
      (/\ Alive(s) /\ lib[s].id \in DOMAIN rset /\ Connected(OwnerOf[s])
       /\ ~wants[s] /\ ~Asked(s, "release")) => rset[lib[s].id].state = "release"

\* Server and library agree on which sets there are and which of them ask: no
\* set asks for resources on behalf of nobody.
SetsCorrespond == OneToOne /\ ReleasesHonoured

\* The resources of a client that is gone go back to the others.
GoneAreForgotten ==
    \A c \in Clients : link[c] = "down" ~>
      \A i \in DOMAIN rset : rset[i].client # c

\* Every request is answered while the connection lasts: the library does
\* not withhold events from an application for ever.
Answered ==
    \A s \in Sets \ Refused :
      lib[s].seqno # 0 ~> lib[s].seqno = 0 \/ link[OwnerOf[s]] = "down"
=============================================================================
