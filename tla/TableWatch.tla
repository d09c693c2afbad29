------------------------------ MODULE TableWatch ------------------------------
(***************************************************************************)
(* The domain control plugin (src/murphy-0.0.24/src/plugins/               *)
(* domain-control) tells its clients about the tables they watch: the end  *)
(* of an outermost transaction schedules a notification, and the main loop *)
(* delivers it later, when no transaction is open any more.  Composed with *)
(* the storage, whose triggers it listens to.                              *)
(***************************************************************************)
EXTENDS MdbTransactions

CONSTANTS
    Proxies,   \* connected domain controllers
    Watches    \* Watches[p]: the tables p watches

ASSUME WatchAssumption == Watches \in [Proxies -> SUBSET Tables]

VARIABLES
    registered,  \* the proxies in pdp.proxies that have registered
    fresh,       \* proxies with notify_all set
    scheduled,   \* the deferred callback pdp.notify is enabled
    told         \* the last content of each watched table a proxy was sent

watchVars == <<registered, fresh, scheduled, told>>

\* The result of a select on t.
Reading(t) == Count([r \in Visible(t) |-> cell[r]])

Untold == Count(<<>>)

WatchInit ==
    /\ Init
    /\ registered = {}
    /\ fresh = {}
    /\ scheduled = FALSE
    /\ told = [p \in Proxies |-> [t \in Tables |-> Untold]]

\* transaction_event_cb, which mdb_trigger_transaction_end calls before the
\* depth is decremented.
TransactionEnd_Inner == scheduled' = (scheduled \/ depth > 1)
TransactionEnd == scheduled' = (scheduled \/ depth = 1)

\* The storage goes on; it calls the plugin if the committed transaction had
\* changes of its own.
Store ==
    /\ Next
    /\ IF phase = "commit" /\ Top.order = <<>> /\ started
       THEN TransactionEnd
       ELSE UNCHANGED scheduled
    /\ UNCHANGED <<registered, fresh, told>>

\* The main loop runs callbacks between the operations of others only.
InMainLoop == phase = "idle" /\ tx = <<>> /\ ~broken

\* process_register
Register(p) ==
    /\ InMainLoop
    /\ p \notin registered
    /\ registered' = registered \cup {p}
    /\ fresh' = fresh \cup {p}
    /\ scheduled' = TRUE
    /\ UNCHANGED <<told, vars>>

\* msg_closed_cb
Closed(p) ==
    /\ InMainLoop
    /\ p \in registered
    /\ registered' = registered \ {p}
    /\ fresh' = fresh \ {p}
    /\ told' = [told EXCEPT ![p] = [t \in Tables |-> Untold]]
    /\ UNCHANGED <<scheduled, vars>>

\* check_watch_notification.  The stamp kept in a watch is never assigned, it
\* stays 0, so a table of any stamp counts as updated.
Due(p) == p \in fresh \/ \E t \in Watches[p] : 0 < stamp[t]

\* notify_cb and notify_table_changes.  A proxy without watches is sent nothing
\* and keeps its flag.
Notify_FreshOnly ==
    /\ InMainLoop
    /\ scheduled
    /\ scheduled' = FALSE
    /\ told' = [p \in Proxies |->
                  IF p \in fresh THEN [t \in Tables |->
                    IF t \in Watches[p] THEN Reading(t) ELSE told[p][t]]
                  ELSE told[p]]
    /\ fresh' = {p \in fresh : Watches[p] = {}}
    /\ UNCHANGED <<registered, vars>>
Notify ==
    /\ InMainLoop
    /\ scheduled
    /\ scheduled' = FALSE
    /\ told' = [p \in Proxies |->
                  IF p \in registered /\ Due(p)
                  THEN [t \in Tables |->
                          IF t \in Watches[p] THEN Reading(t) ELSE told[p][t]]
                  ELSE told[p]]
    /\ fresh' = {p \in fresh : Watches[p] = {}}
    /\ UNCHANGED <<registered, vars>>

WatchNext ==
    \/ Store
    \/ \E p \in Proxies : Register(p) \/ Closed(p)
    \/ Notify

\* The loops over the log end, whoever begins a transaction ends it in the same
\* function, and the main loop runs the deferred callbacks in every iteration.
Fairness ==
    /\ WF_<<vars, watchVars>>(Store /\ phase # "idle")
    /\ \A d \in 1..MaxDepth :
         SF_<<vars, watchVars>>(Store /\ depth = d /\ (Commit \/ Rollback))
    /\ SF_<<vars, watchVars>>(Notify)

WatchSpec == WatchInit /\ [][WatchNext]_<<vars, watchVars>> /\ Fairness

-----------------------------------------------------------------------------

Stale(p) ==
    p \in registered /\ \E t \in Watches[p] : told[p][t] # Reading(t)

\* Between transactions, a client that does not know what a table holds has a
\* notification coming: no committed change goes unnoticed, however the
\* changes are spread over nested transactions and rollbacks.
NoMissedChange ==
    InMainLoop /\ ~scheduled => \A p \in Proxies : ~Stale(p)

\* A change reaches the clients that stay connected.
ChangesAreTold == \A p \in Proxies : Stale(p) ~> ~Stale(p)
=============================================================================
