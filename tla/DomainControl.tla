----------------------------- MODULE DomainControl -----------------------------
(***************************************************************************)
(* The domain control plugin and its client library                        *)
(* (src/murphy-0.0.24/src/plugins/domain-control): controllers connect to  *)
(* the daemon, register the tables they export and the tables they watch,  *)
(* replace the content of what they export, and are told what the watched  *)
(* tables hold.  The library tries to connect again when the daemon goes   *)
(* away; the daemon drops the tables of a controller that goes away.       *)
(* A controller and the daemon have a main loop of one thread each, a      *)
(* handler is one step; a connection delivers in order until it is cut.    *)
(* A table holds one row at most, which stands for its whole content.      *)
(***************************************************************************)
EXTENDS Naturals, Sequences, SequencesExt, FiniteSetsExt

CONSTANTS
    Clients,    \* controllers
    Tables,     \* names of tables
    Exports,    \* what the controllers may export: functions from each to
                \* the tables it registers, in this order
    Watches,    \* Watches[c]: the set of tables c watches
    Vals,       \* contents the storage accepts
    Bad,        \* a content it refuses (duplicate key, wrong columns)
    Empty,      \* no row
    None,
    Errors,     \* the ways a connection ends: TRUE with an error of the socket
    Requests,   \* Requests[c]: the contents c may ask for
    MaxSets,    \* MaxSets[c]: bound on the requests of c
    MaxLinks,   \* MaxLinks[c]: bound on the connections of c
    MaxUnread,  \* bound on the messages a controller leaves unread
    MaxCrashes, \* bound on the crashes of the daemon
    Habits      \* what applications do that the library does not survive

ASSUME DomainAssumption ==
    /\ \A e \in Exports : e \in [Clients -> Seq(Tables)]
    /\ Watches \in [Clients -> SUBSET Tables]
    /\ \A c \in Clients :
         Requests[c] \subseteq [Tables -> Vals \cup {Empty, Bad}]
    /\ MaxSets \in [Clients -> Nat]
    /\ MaxLinks \in [Clients -> Nat \ {0}]
    /\ Errors \subseteq BOOLEAN
    /\ None \notin [owner : Clients \X Nat, data : Vals \cup {Empty}]
    /\ Habits \subseteq {"drop_while_trying", "drop_on_close"}

\* A connection whose end one side has not seen yet keeps its place.
Links(c) == 1..MaxLinks[c]

VARIABLES
    exports,   \* exports[c]: the tables c was created with
    dc,        \* dc[c]: the controller's mrp_domctl_t
    wanted,    \* the controllers whose application wants a connection
    promised,  \* promised[c]: what c was told its tables hold
    seen,      \* seen[c]: what watch_cb told c last
    broken,    \* freed memory was used
    link,      \* link[c][k]: connections, the messages on their way
    proxy,     \* proxy[c][k]: the daemon's pep_proxy_t of a connection
    table,     \* table[t]: the table t of the database
    handle,    \* handle[t]: the handle in the entry of pdp.watched for t
    flagged,   \* the entries with notify_all set
    scheduled, \* the deferred callback pdp.notify is enabled
    up,        \* the daemon runs
    crashes

client == <<exports, dc, wanted, promised, seen, broken>>
server == <<proxy, table, handle, flagged, scheduled, up, crashes>>
vars == <<client, link, server>>

NoLink == [open |-> FALSE, up |-> <<>>, down |-> <<>>, cut |-> {}]
NoProxy == [state |-> "none", tables |-> {}, fresh |-> FALSE]

\* mrp_domctl_create.  A t of 0 is NULL.
NewDomctl == [life |-> "live", t |-> 0, timer |-> FALSE, connected |-> FALSE,
              seqno |-> 1, pending |-> <<>>]

Own(c) == ToSet(exports[c])

Blank(c) == [t \in Own(c) |-> Empty]

Fresh == [proxy |-> [c \in Clients |-> [k \in Links(c) |-> NoProxy]],
          table |-> [t \in Tables |-> None],
          handle |-> [t \in Tables |-> "none"]]

Init ==
    /\ exports \in Exports
    /\ dc = [c \in Clients |-> NewDomctl]
    /\ wanted = {}
    /\ promised = [c \in Clients |-> Blank(c)]
    /\ seen = [c \in Clients |-> [t \in Watches[c] |-> Empty]]
    /\ broken = FALSE
    /\ link = [c \in Clients |-> [k \in Links(c) |-> NoLink]]
    /\ proxy = Fresh.proxy /\ table = Fresh.table /\ handle = Fresh.handle
    /\ flagged = {}
    /\ scheduled = FALSE
    /\ up = TRUE
    /\ crashes = 0

-----------------------------------------------------------------------------
(* The connection.                                                         *)

Register == [type |-> "register"]
SetTables(n, data) == [type |-> "set", seq |-> n, data |-> data]
Ack(n) == [type |-> "ack", seq |-> n]
Nak(n) == [type |-> "nak", seq |-> n]
Notify(told) == [type |-> "notify", told |-> told]

\* What a side that closes leaves: nobody reads what was on its way to it.
CutByClient(l) ==
    IF ~l.open \/ "server" \in l.cut THEN NoLink
    ELSE [l EXCEPT !.cut = {"client"}, !.down = <<>>]
CutByServer(l) ==
    IF ~l.open \/ "client" \in l.cut THEN NoLink
    ELSE [l EXCEPT !.cut = {"server"}, !.up = <<>>]

\* A side sends a message, if the other has not gone, or takes the first one.
Upward(l, m) == IF "server" \in l.cut THEN l ELSE [l EXCEPT !.up = Append(@, m)]
Down(l, m) == IF "client" \in l.cut THEN l ELSE [l EXCEPT !.down = Append(@, m)]
TakeUp(l) == [l EXCEPT !.up = Tail(@)]
TakeDown(l) == [l EXCEPT !.down = Tail(@)]

\* The transport dc.t of c, unless c has seen its end.
Live(c) == dc[c].t # 0 /\ link[c][dc[c].t].open
                       /\ "client" \notin link[c][dc[c].t].cut

FreeLinks(c) == {k \in Links(c) : ~link[c][k].open}

-----------------------------------------------------------------------------
(* The client library.                                                     *)

\* mrp_domctl_disconnect: without a transport it leaves the timer alone.
Disconnected_KeepsTimer(d) ==
    IF d.t = 0 THEN d ELSE [d EXCEPT !.t = 0, !.connected = FALSE]
Disconnected(d) ==
    IF d.t = 0 THEN d
    ELSE [d EXCEPT !.timer = FALSE, !.t = 0, !.connected = FALSE]

Destroyed(d) == [Disconnected(d) EXCEPT !.life = "freed", !.pending = <<>>]

\* A callback in which the application may drop the controller: whether it
\* runs with busy counted up or last, a destroyed controller is freed after it.
Callback(d, choice) ==
    CASE choice = "nothing" -> d
      [] choice = "disconnect" -> Disconnected(d)
      [] choice = "destroy" -> Destroyed(d)

Reactions == {"nothing", "disconnect", "destroy"}

WantedAfter(c, choice) ==
    wanted' = IF choice = "nothing" THEN wanted ELSE wanted \ {c}

\* c has become d and closed its transport if it has let it go.
Becomes(c, d) ==
    /\ dc' = [dc EXCEPT ![c] = d]
    /\ link' = IF dc[c].t \in {0, d.t} THEN link
               ELSE [link EXCEPT ![c][dc[c].t] = CutByClient(@)]

\* Requests of an earlier connection stay in the list, never to be answered.
Forsaken(pending) == [i \in DOMAIN pending |->
    [pending[i] EXCEPT !.link = 0, !.data = <<>>]]

\* try_connect with a daemon to connect to, and domctl_register.
Connected(c) ==
    LET k == Min(FreeLinks(c)) IN
    /\ dc' = [dc EXCEPT ![c].t = k, ![c].timer = FALSE,
                        ![c].pending = Forsaken(@)]
    /\ link' = [link EXCEPT ![c][k] =
                  [NoLink EXCEPT !.open = TRUE, !.up = <<Register>>]]

\* mrp_domctl_connect with an interval.  Only a connection that is free again
\* in any case is left to reconnect_cb (the bound on connections).
Connect(c) ==
    /\ dc[c].life = "live"
    /\ c \notin wanted
    /\ dc[c].t = 0 /\ ~dc[c].timer
    /\ FreeLinks(c) # {}
    /\ wanted' = wanted \cup {c}
    /\ IF up THEN Connected(c)
             ELSE dc' = [dc EXCEPT ![c].timer = TRUE] /\ UNCHANGED link
    /\ UNCHANGED <<exports, promised, seen, broken, server>>

\* reconnect_cb: a failed attempt clears dc.t and keeps the timer.
Reconnect_Once(c) ==
    /\ dc[c].timer
    /\ IF dc[c].life = "freed" THEN broken' = TRUE /\ UNCHANGED <<dc, link>>
       ELSE IF up THEN Connected(c) /\ UNCHANGED broken
       ELSE /\ dc' = [dc EXCEPT ![c].t = 0, ![c].timer = FALSE]
            /\ UNCHANGED <<link, broken>>
    /\ UNCHANGED <<exports, wanted, promised, seen, server>>
Reconnect(c) ==
    /\ dc[c].timer
    /\ IF dc[c].life = "freed" THEN broken' = TRUE /\ UNCHANGED <<dc, link>>
       ELSE IF up THEN Connected(c) /\ UNCHANGED broken
       ELSE dc' = [dc EXCEPT ![c].t = 0] /\ UNCHANGED <<link, broken>>
    /\ UNCHANGED <<exports, wanted, promised, seen, server>>

\* mrp_domctl_disconnect and mrp_domctl_destroy, outside of callbacks.
Drop(c, choice) ==
    /\ dc[c].life = "live"
    /\ dc[c].t = 0 /\ dc[c].timer => "drop_while_trying" \in Habits
    /\ Becomes(c, Callback(dc[c], choice))
    /\ WantedAfter(c, choice)
    /\ UNCHANGED <<exports, promised, seen, broken, server>>

\* mrp_domctl_set_data: a table that is not given is emptied.
SetData(c, data) ==
    /\ dc[c].life = "live"
    /\ dc[c].connected
    /\ dc[c].seqno <= MaxSets[c]
    /\ LET k == dc[c].t
           m == SetTables(dc[c].seqno, [t \in Own(c) |-> data[t]]) IN
       /\ dc' = [dc EXCEPT ![c].seqno = @ + 1, ![c].pending =
                   Append(@, [seq |-> m.seq, link |-> k, data |-> m.data])]
       /\ link' = [link EXCEPT ![c][k] = Upward(@, m)]
    /\ UNCHANGED <<exports, wanted, promised, seen, broken, server>>

\* notify_pending: the request leaves the list.
Places(d, n) == {i \in DOMAIN d.pending : d.pending[i].seq = n}
Answered_First(d, n) == [d EXCEPT !.pending = IF @ = <<>> THEN @ ELSE Tail(@)]
Answered(d, n) ==
    IF Places(d, n) = {} THEN d
    ELSE [d EXCEPT !.pending = RemoveAt(@, Min(Places(d, n)))]
RequestOf(d, n) == d.pending[Min(Places(d, n))]

\* recv_cb, process_ack, process_nak, process_notify.
Receive(c, choice) ==
    /\ Live(c)
    /\ link[c][dc[c].t].down # <<>>
    /\ LET k == dc[c].t
           m == Head(link[c][k].down)
           d == CASE m.type = "notify" -> dc[c]
                  [] m.type # "notify" /\ m.seq = 0 ->
                       [dc[c] EXCEPT !.connected = (m.type = "ack")]
                  [] OTHER -> Answered(dc[c], m.seq)
           e == Callback(d, choice) IN
       /\ dc' = [dc EXCEPT ![c] = e]
       /\ link' = [link EXCEPT ![c][k] =
                     IF e.t = 0 THEN CutByClient(@)
                     ELSE TakeDown(@)]
       /\ promised' = IF m.type # "ack" THEN promised
                      ELSE [promised EXCEPT ![c] =
                              IF m.seq = 0 THEN Blank(c)
                              ELSE RequestOf(dc[c], m.seq).data]
       /\ seen' = IF m.type # "notify" THEN seen ELSE [seen EXCEPT ![c] = m.told]
    /\ WantedAfter(c, choice)
    /\ UNCHANGED <<exports, broken, server>>

\* strm_recv_cb at the end of the stream or with an error, closed_cb: dc.t stays.
Closed(c, error, choice) ==
    /\ Live(c)
    /\ ~error => link[c][dc[c].t].cut = {"server"} /\ link[c][dc[c].t].down = <<>>
    /\ choice # "nothing" => "drop_on_close" \in Habits
    /\ LET d == Callback([dc[c] EXCEPT !.connected = FALSE], choice) IN
       /\ broken' = (d.life = "freed" /\ ~error)
       /\ dc' = [dc EXCEPT ![c] = [d EXCEPT !.timer = @ \/ ~error]]
    /\ link' = [link EXCEPT ![c][dc[c].t] = CutByClient(@)]
    /\ WantedAfter(c, choice)
    /\ UNCHANGED <<exports, promised, seen, server>>

-----------------------------------------------------------------------------
(* The plugin.                                                             *)

\* What a select on t finds.
Reading(t) == IF table[t] = None THEN Empty ELSE table[t].data

\* msg_connect_cb
Accept(c, k) ==
    /\ up
    /\ link[c][k].open /\ "server" \notin link[c][k].cut
    /\ proxy[c][k] = NoProxy
    /\ proxy' = [proxy EXCEPT ![c][k].state = "accepted"]
    /\ UNCHANGED <<client, link, table, handle, flagged, scheduled, up, crashes>>

\* The tables register_proxy creates: up to the first that exists.
Made(c) == {exports[c][i] : i \in {i \in DOMAIN exports[c] :
              \A j \in 1..i : table[exports[c][j]] = None}}

\* table_event_cb: the entry of a watched table gets the table's new handle, or
\* the handle of the dropped one, and is to be looked up again.
TableEvents_Unchecked(changed, kind, entries) ==
    /\ handle' = [t \in Tables |-> IF t \in changed /\ handle[t] # "none" THEN kind
                                   ELSE IF t \in entries THEN
                                     IF table'[t] = None THEN "invalid" ELSE "live"
                                   ELSE handle[t]]
    /\ flagged' = flagged \cup changed
TableEvents(changed, kind, entries) ==
    /\ handle' = [t \in Tables |-> IF t \in changed /\ handle[t] # "none" THEN kind
                                   ELSE IF t \in entries THEN
                                     IF table'[t] = None THEN "invalid" ELSE "live"
                                   ELSE handle[t]]
    /\ flagged' = flagged \cup {t \in changed : handle[t] # "none"}

\* process_register, register_proxy
ServeRegister_Anew(c, k) ==
    LET made == Own(c) IN
    /\ Head(link[c][k].up).type = "register"
    /\ table' = [t \in Tables |->
                   IF t \in made THEN [owner |-> <<c, k>>, data |-> Empty]
                   ELSE table[t]]
    /\ TableEvents(made, "live", {t \in Watches[c] : handle[t] = "none"})
    /\ scheduled' = TRUE
    /\ proxy' = [proxy EXCEPT ![c][k] =
                   [state |-> "registered", tables |-> made, fresh |-> TRUE]]
    /\ link' = [link EXCEPT ![c][k] = Down(TakeUp(@), Ack(0))]
ServeRegister(c, k) ==
    LET made == Made(c)
        ok == made = Own(c) IN
    /\ Head(link[c][k].up).type = "register"
    /\ table' = [t \in Tables |->
                   IF t \in made THEN [owner |-> <<c, k>>, data |-> Empty]
                   ELSE table[t]]
    /\ TableEvents(made, "live",
         IF ok THEN {t \in Watches[c] : handle[t] = "none"} ELSE {})
    /\ scheduled' = (scheduled \/ ok \/ made # {})
    /\ proxy' = [proxy EXCEPT ![c][k] =
                   [state |-> IF ok THEN "registered" ELSE "rejected",
                    tables |-> made, fresh |-> ok]]
    /\ link' = [link EXCEPT ![c][k] =
                  Down(TakeUp(@), IF ok THEN Ack(0) ELSE Nak(0))]

\* set_proxy_tables: the transaction of a content the storage refuses is rolled
\* back.
Stored_Partly(data) == [t \in Tables |->
    IF t \in DOMAIN data THEN [table[t] EXCEPT !.data =
                                 IF data[t] = Bad THEN Empty ELSE data[t]]
    ELSE table[t]]
Stored(data) == [t \in Tables |->
    IF t \in DOMAIN data /\ \A u \in DOMAIN data : data[u] # Bad
    THEN [table[t] EXCEPT !.data = data[t]]
    ELSE table[t]]

\* process_set.  transaction_event_cb is called when a transaction that changed
\* something is committed.
ServeSet(c, k) ==
    LET m == Head(link[c][k].up)
        ok == \A t \in Own(c) : m.data[t] # Bad IN
    /\ m.type = "set"
    /\ table' = Stored(m.data)
    /\ scheduled' = (scheduled \/
         (ok /\ \E t \in Own(c) : Reading(t) # Empty \/ m.data[t] # Empty))
    /\ link' = [link EXCEPT ![c][k] =
         Down(TakeUp(@), IF ok THEN Ack(m.seq) ELSE Nak(m.seq))]
    /\ UNCHANGED <<proxy, handle, flagged>>

\* msg_recv_cb
Serve(c, k) ==
    /\ proxy[c][k] # NoProxy
    /\ link[c][k].up # <<>>
    /\ ServeRegister(c, k) \/ ServeSet(c, k)
    /\ UNCHANGED <<client, up, crashes>>

\* msg_closed_cb, destroy_proxy.  What the controller sent last may be lost.
Leave_Tables(c, k) ==
    /\ proxy[c][k] # NoProxy
    /\ "client" \in link[c][k].cut
    /\ LET gone == IF proxy[c][k].state = "rejected" THEN {}
                   ELSE proxy[c][k].tables IN
       /\ table' = [t \in Tables |-> IF t \in gone THEN None ELSE table[t]]
       /\ TableEvents(gone, "dead", {})
       /\ scheduled' = (scheduled \/ gone # {})
    /\ proxy' = [proxy EXCEPT ![c][k] = NoProxy]
    /\ link' = [link EXCEPT ![c][k] = NoLink]
    /\ UNCHANGED <<client, up, crashes>>
Leave(c, k) ==
    /\ proxy[c][k] # NoProxy
    /\ "client" \in link[c][k].cut
    /\ LET gone == proxy[c][k].tables IN
       /\ table' = [t \in Tables |-> IF t \in gone THEN None ELSE table[t]]
       /\ TableEvents(gone, "dead", {})
       /\ scheduled' = (scheduled \/ gone # {})
    /\ proxy' = [proxy EXCEPT ![c][k] = NoProxy]
    /\ link' = [link EXCEPT ![c][k] = NoLink]
    /\ UNCHANGED <<client, up, crashes>>

Watching(c, k) == proxy[c][k].state = "registered"

Watched == UNION {Watches[c] : c \in {c \in Clients :
             \E k \in Links(c) : Watching(c, k)}}

\* check_watch_notification looks a flagged table up again, but only for a
\* watch: the entry of a table nobody watches keeps the handle of the event.
LookedUp(t) ==
    IF t \in flagged \cap Watched
    THEN IF table[t] = None THEN "invalid" ELSE "live"
    ELSE handle[t]

\* The stamp of a watch stays 0, and any handle but the invalid one has a
\* stamp above it, be it the error of a dropped table.
Due_Flagged(c, k) ==
    \/ proxy[c][k].fresh
    \/ \E t \in Watches[c] : t \in flagged
Due(c, k) ==
    \/ proxy[c][k].fresh
    \/ \E t \in Watches[c] : t \in flagged \/ handle[t] # "invalid"

\* collect_watch_notification: a select from a table that is gone fails, and
\* with it the whole notification.
Collected(c) == \A t \in Watches[c] : LookedUp(t) # "dead"

\* notify_cb, notify_table_changes, send_proxy_notification
NotifyChanges ==
    /\ up
    /\ scheduled
    /\ \A c \in Clients : \A k \in Links(c) : Len(link[c][k].down) < MaxUnread
    /\ scheduled' = FALSE
    /\ LET told(c, k) == Watching(c, k) /\ Watches[c] # {} /\ Due(c, k)
                                        /\ Collected(c) IN
       /\ link' = [c \in Clients |-> [k \in Links(c) |->
            IF told(c, k)
            THEN Down(link[c][k], Notify([t \in Watches[c] |-> Reading(t)]))
            ELSE link[c][k]]]
       /\ proxy' = [c \in Clients |-> [k \in Links(c) |->
            [proxy[c][k] EXCEPT !.fresh = @ /\ ~told(c, k)]]]
    /\ handle' = [t \in Tables |-> LookedUp(t)]
    /\ flagged' = {}
    /\ UNCHANGED <<client, table, up, crashes>>

\* The daemon dies; its connections end, its temporary tables are gone.
Crash ==
    /\ up
    /\ crashes < MaxCrashes
    /\ up' = FALSE
    /\ crashes' = crashes + 1
    /\ link' = [c \in Clients |-> [k \in Links(c) |-> CutByServer(link[c][k])]]
    /\ proxy' = Fresh.proxy /\ table' = Fresh.table /\ handle' = Fresh.handle
    /\ flagged' = {}
    /\ scheduled' = FALSE
    /\ UNCHANGED client

\* create_domain_control
Restart ==
    /\ ~up
    /\ up' = TRUE
    /\ UNCHANGED <<client, link, proxy, table, handle, flagged, scheduled, crashes>>

-----------------------------------------------------------------------------

Application(c) ==
    \/ Connect(c)
    \/ \E choice \in Reactions \ {"nothing"} : Drop(c, choice)
    \/ \E data \in Requests[c] : SetData(c, data)

Library(c) ==
    \/ \E choice \in Reactions :
         \/ Receive(c, choice)
         \/ \E error \in Errors : Closed(c, error, choice)

Server(c, k) == Accept(c, k) \/ Serve(c, k) \/ Leave(c, k)

Next ==
    /\ ~broken
    /\ \/ \E c \in Clients : Application(c) \/ Library(c) \/ Reconnect(c)
       \/ \E c \in Clients : \E k \in Links(c) : Server(c, k)
       \/ NotifyChanges
       \/ Crash
       \/ Restart

Spec == Init /\ [][Next]_vars

\* Both main loops deliver what arrives and run their timers; somebody starts
\* the daemon again.
Fairness ==
    /\ \A c \in Clients :
         /\ WF_vars(~broken /\ (Library(c) \/ Reconnect(c)))
         /\ WF_vars(~broken /\ \E k \in Links(c) : Server(c, k))
    /\ WF_vars(~broken /\ Restart)

FairSpec == Spec /\ Fairness

-----------------------------------------------------------------------------
(* Properties.                                                             *)

Contents == Vals \cup {Empty}

TypeOK ==
    /\ \A c \in Clients :
         /\ dc[c].life \in {"live", "freed"}
         /\ dc[c].t \in Links(c) \cup {0}
         /\ dc[c].timer \in BOOLEAN /\ dc[c].connected \in BOOLEAN
         /\ dc[c].seqno \in 1..(MaxSets[c] + 1)
         /\ Len(dc[c].pending) <= MaxSets[c]
         /\ promised[c] \in [Own(c) -> Contents]
         /\ seen[c] \in [Watches[c] -> Contents]
         /\ \A k \in Links(c) :
              /\ link[c][k].cut \in {{}, {"client"}, {"server"}}
              /\ ~link[c][k].open => link[c][k] = NoLink
              /\ proxy[c][k].state \in {"none", "accepted", "registered", "rejected"}
              /\ proxy[c][k].tables \subseteq Own(c)
    /\ wanted \subseteq Clients
    /\ \A t \in Tables : table[t] # None => table[t].data \in Contents
    /\ handle \in [Tables -> {"none", "invalid", "live", "dead"}]
    /\ flagged \subseteq {t \in Tables : handle[t] # "none"}
    /\ {scheduled, up, broken} \subseteq BOOLEAN

\* A controller that was freed is not touched again: not by its timer, not by
\* the callback in which it was destroyed.
NothingFreedIsUsed == ~broken

\* An application that has dropped its connection gets no other: neither a
\* transport nor a timer that would make one is left.
DropIsFinal ==
    \A c \in Clients \ wanted : dc[c].t = 0 /\ ~dc[c].timer /\ ~dc[c].connected

\* "it will be used to automatically attempt re-connecting to the server this
\* often (in seconds) whenever the connection goes down" (client.h); after an
\* error of the socket closed_cb does not, so this needs Errors = {FALSE}.
KeepsTrying == \A c \in wanted : Live(c) \/ dc[c].timer

\* Dropped and destroyed controllers are left alone for good, the others have a
\* connection or a timer to try again.
Sound == TypeOK /\ NothingFreedIsUsed /\ DropIsFinal /\ KeepsTrying

\* A controller that believes to be connected, to a daemon that has not gone,
\* is registered there and all the tables it exports are its own.
ConnectedIsServed ==
    \A c \in Clients : dc[c].connected =>
      /\ Live(c)
      /\ link[c][dc[c].t].cut = {} =>
           /\ Watching(c, dc[c].t)
           /\ \A t \in Own(c) : table[t] # None /\ table[t].owner = <<c, dc[c].t>>

\* A table lives exactly as long as the connection that made it: no name stays
\* taken after its owner has gone, and nobody drops the table of another.
TablesHaveOwners ==
    /\ \A t \in Tables : table[t] # None =>
         t \in proxy[table[t].owner[1]][table[t].owner[2]].tables
    /\ \A c \in Clients : \A k \in Links(c) : \A t \in proxy[c][k].tables :
         table[t] # None /\ table[t].owner = <<c, k>>

\* Connections, registrations and tables agree, at both ends.
Served == ConnectedIsServed /\ TablesHaveOwners

\* Every request on a connection that holds is on its way to the daemon or its
\* answer is on its way back, once, and in the order of the requests: the
\* answers, and behind them the requests, have the numbers of the pending ones.
Answers(c) == {i \in DOMAIN link[c][dc[c].t].down : link[c][dc[c].t].down[i].type # "notify"}

Ascending(q, I) == \A i, j \in I : i < j => q[i].seq < q[j].seq

OneToOne ==
    \A c \in Clients : dc[c].connected /\ link[c][dc[c].t].cut = {} =>
      LET l == link[c][dc[c].t]
          pending == dc[c].pending
          asked == {i \in DOMAIN pending : pending[i].link = dc[c].t} IN
      /\ Ascending(pending, asked)
      /\ Ascending(l.down, Answers(c)) /\ Ascending(l.up, DOMAIN l.up)
      /\ \A i \in Answers(c), j \in DOMAIN l.up : l.down[i].seq < l.up[j].seq
      /\ {pending[i].seq : i \in asked} =
           {l.down[i].seq : i \in Answers(c)} \cup {l.up[j].seq : j \in DOMAIN l.up}

\* When no request is under way, the tables of a controller hold what the last
\* one that was granted asked for: refused ones changed nothing, and what a
\* granted one left out is empty.
AckedIsStored ==
    \A c \in Clients :
      /\ dc[c].connected /\ link[c][dc[c].t].cut = {}
      /\ \A i \in DOMAIN dc[c].pending : dc[c].pending[i].link # dc[c].t
      => \A t \in Own(c) : Reading(t) = promised[c][t]

\* Answers are to the request they name, and tell what became of the data.
AnswersAreTrue == OneToOne /\ AckedIsStored

\* What a controller will have been told when all that was sent has arrived.
LastTold(c, k) ==
    LET q == link[c][k].down
        tells == {i \in DOMAIN q : q[i].type = "notify"} IN
    IF tells = {} THEN seen[c] ELSE q[Max(tells)].told

Dead(c) == \E t \in Watches[c] : handle[t] = "dead"

\* With no notification scheduled every registered controller has been sent
\* what its tables hold, those that were made or dropped since included.  Left
\* out is a controller that watches a table which was dropped while nobody
\* watched it: it is told nothing until that table is made again.
ToldIsCurrent ==
    ~scheduled =>
      \A c \in Clients : \A k \in Links(c) :
        Watching(c, k) /\ link[c][k].cut = {} /\ ~Dead(c) =>
          \A t \in Watches[c] : LastTold(c, k)[t] = Reading(t)

Rejected(c) == Live(c) /\ proxy[c][dc[c].t].state = "rejected"

\* A controller that wants a connection gets one when the daemon is back, unless
\* it is refused because its tables exist.
ComesBack == \A c \in Clients :
    c \in wanted ~> dc[c].connected \/ c \notin wanted \/ Rejected(c)
=============
