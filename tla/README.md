# Murphy, modelled in TLA+

Murphy (`src/murphy-0.0.24`) is a resource policy daemon: applications ask it
for sets of resources (audio playback, a camera, ...), and it decides who may use
what, by application class, priority and the policies of the resources. The same
repository holds three small projects (`src/bluehfp`, `src/ModemSms`,
`src/ModemSmsC++`): a library and two programs that drive a modem on a serial port.

This directory holds specifications of the daemon in TLA+, the TLC instances that
check them, and TLAPS proofs of what matters most. Every definition of a module is
a translation of C code; the table `map` of `PROJECT.json` names the lines.

    tlc -workers 2 -config MCMixed.cfg MCResourceManager.tla
    tlapm ResourceManagerProofs.tla

Theorems are in `ResourceManagerProofs`, `MdbProofs`, `MainloopProofs`, `TransportProofs`,
`ResourceProtocolProofs`, `DomainControlProofs`, `DbusResourcesProofs` and `ResolverProofs`.

## 1. The system

The daemon is one thread around an event loop (`common/mainloop.c`). Everything
below runs in callbacks of that loop: no code is interrupted by other code, and
"concurrency" means that callbacks of different clients, timers and external
services come in any order, that a callback is entered while a function further up
the stack is in the middle of a change, and that a peer in another process sees
the messages late.

    applications --- native protocol / D-Bus / ASM / WRT / telephony (plugins)
                          |  acquire, release, destroy          ^  events
                          v                                     |
                     resource arbitration  ---- owner and user rows ---> murphy-db
                     (src/resource)                                        |  triggers
                                                                           v
                     resolver (targets, facts) <--- events ---  domain control --- domain
                     transports, plugins, Lua, console                            controllers

| component | state | operations | what is hard | correct when | module |
|---|---|---|---|---|---|
| resource arbitration (`resource/resource-owner.c`, `resource-set.c`, `application-class.c`, `resource-client.c`) | resource sets with state, grant and advice masks and request stamps; one sorted list of sets per class and zone; one owner record per zone and resource; owner and user tables | create, add to class, acquire, release, destroy a set; destroy a client; recompute a zone | an update re-decides all sets in an order made of four earlier decisions; partial grants are rolled back by hand; stamps run out; sets die while others are decided | exclusive resources have one holder; sets get all they must have or nothing; lists stay sorted; tables, clients and records agree; every request is answered | `ResourceManager`, `ResourceGrants` |
| resource configuration (`resource.c`, `zone.c`, `config-lua.c`, `attribute.c`) | definitions of resources, classes, zones, attributes | define | fixed before clients come | names and ids are unique | constants of `ResourceManager` |
| murphy-db storage (`murphy-db/mdb`) | tables, rows, indexes, a stack of transactions with a log, triggers | insert, update, delete, begin, commit, rollback | undo in the right order; nested transactions; triggers that change the database while a log is consumed | a rollback restores the tables; a trigger sees each change once | `MdbTransactions`, `NestedTransactions` |
| murphy-db query (`murphy-db/mqi`, `mql`) | statement handles, transaction handles | parse, execute | stale handles | an outdated handle is refused | none |
| native protocol, server (`plugins/resource-native`) | one client per connection, one user datum per set | create, acquire, release, destroy, event | reply and event order; a connection closed inside a request | a client's view follows the set | `ResourceProtocol` |
| native client library (`libmurphy-resource`) | sets with a server id, a pending sequence number, reference counts | create, acquire, release, delete, callbacks | requests before the reply to create, events that overtake replies | a callback reports the latest state | `ResourceProtocol` |
| D-Bus front end (`plugins/plugin-resource-dbus.c`, `common/dbus.c`) | set and resource objects with their properties, followed bus names | create, add, request, release, delete, set a property, owner of a name lost | events in the middle of a request; clients that leave before, while or after they are followed | properties show what the arbitration has; nothing is left of who has left | `DbusResources` |
| other front ends (ASM, WRT, telephony) | the mapping of their objects to resource sets | as above | as above | as above | none |
| resolver (`resolver`) | targets, facts with stamps, dependency graph, a transaction | update a target | partial failure of an update; staleness | facts change only if all scripts succeed | `TargetSorter`, `Resolver` |
| main loop, transports (`common`) | watches, timers, deferred callbacks, subloops; connections with a busy count | add, delete, iterate, send, receive, disconnect, destroy | deletion from callbacks | nothing is called after its deletion, nothing is freed in use | `Mainloop`, `Transport`, `Connections` |
| plugins, events, start-up (`core/plugin.c`, `method.c`, `event.c`, `daemon`) | loaded plugins with references, method tables, event watches | load, start, stop, unload, import, emit | plugins that load plugins, callbacks of events, removal during an emission | a used plugin is not unloaded, every plugin is started | `Plugins` |
| domain control (`plugins/domain-control`) | proxies and their tables, table watches, pending requests, reconnect timers | register, set, notify, connect again | changes during a notification, connections that break at any point, a daemon that dies | each watcher gets each change; answers match requests; everyone comes back | `TableWatch`, `DomainControl` |
| Lua glue, console, parsers | | | | | none |
| bluehfp, ModemSms, ModemSms C++ | queues of messages and AT commands, states of SIM and calls | serial port reader thread, timers, API or D-Bus requests | the threads share all of it without a lock | nothing can be promised, see section 15 | none |

`PROJECT.json` lists the same components with their files and status, and under
`hazards` each place of the code where something hard to test can go wrong, with
the properties that watch it, or the reason why nothing watches it yet.

## 2. Plan

In the order of importance. Done so far: 1 to 5 and 7 to 12.

1. `Lists`, `ResourceManager`: the arbitration. Abstract specification
   `ResourceGrants`: revoke, and give without conflict. Runs on two and three sets.
2. `ResourceManagerProofs`: types, exclusive and whole grants, the implementation of
   `ResourceGrants`; tables and clients are told; grants follow the order, and the lists
   keep it.
3. `MdbTransactions`: tables, rows, indexes, the log, commit and rollback. Abstract
   specification `NestedTransactions`, a stack of database copies. `TableWatch`: the
   notifications of domain control, composed with the storage.
4. `MdbProofs`: types, and the index leads to rows.
5. `MdbProofs` again: a rollback restores the tables, no freed row is touched and none
   leaks, and `NestedTransactions` is implemented, for users with the habits of the run
   `nested`. And about `TableWatch`: no change is missed.
6. To do. `TransactionHandles` (the use counts of `mqi.c`, the named transactions of `mql`), the
   row counter, the contents of triggers.
7. `ResourceProtocol` composes the server's plugin and the client library over two
   channels, and uses what `ResourceGrants` promises in place of the arbitration.
   `ResourceProtocolProofs`: both its safety properties.
8. `TargetSorter`, `Resolver`: the sort of the dependency graph, stamps, updates and their
   rollback, scheduling. `ResolverProofs`: `StaleIsKnown`.
9. `Mainloop`: lists that are changed while they are walked, timers, descriptors.
   `MainloopProofs`: both its safety properties.
   `Transport` with its abstract specification `Connections`, which is what `ResourceProtocol`
   and `DomainControl` take a connection for. `TransportProofs`: all its safety properties, and
   `Connections` is implemented.
10. `DomainControl` (proxies, their tables, reconnecting, a daemon that dies).
   `DomainControlProofs`: all its safety properties.
11. `DbusResources` (the D-Bus front end and the names it follows). `DbusResourcesProofs`:
   both its safety properties.
12. `Plugins`: the life cycle of plugins, methods, events, start-up. To prove: `RefsCounted`.
13. To do. The remaining front ends (ASM, web runtime, telephony).

## 3. Resource arbitration: `ResourceManager`

### State

| variable | code |
|---|---|
| `clientSets` | `client->resource_sets`, a list in order of creation; a set is `Live` while it is in one |
| `profile` | what never changes in a set: client, class, zone, priority, the masks `all`, `mandatory` and `share`, `auto_release.client`, whether it has an event callback |
| `attached` | `rset->class.ptr` is not NULL |
| `state`, `grant`, `advice` | `rset->state`, `rset->resource.mask.grant` and `.advice` |
| `request`, `stamp`, `nextStamp` | `rset->request.id`, `.stamp`, the static counter in `get_request_stamp` |
| `lists` | `class->resource_sets[zone]` |
| `owner` | `resource_owners[zone][resource]`; `set` stands for the pair `rset`, `res`, which the code sets and clears together |
| `ownerRow`, `userRow` | the rows of the tables `<resource>_owner` and `<resource>_user` |
| `view`, `awaiting` | what the last event told a set's client; the set whose numbered request has not been answered |
| `phase`, `update`, `todo`, `events`, `oldOwner` | the locals of `mrp_resource_owner_update_zone` while it runs |
| `dying`, `leaving` | the arguments of `mrp_resource_set_destroy` and `mrp_resource_client_destroy` while they run |

### Actions

An operation of the API is one action up to the point where it recomputes a zone.
That update is a loop over the sets of the zone (`Scan`, one set per step), a loop
over queued events (`Deliver`), and the write of the owner tables (`FinishUpdate`).
Nothing runs between these steps in the daemon, and no API action is enabled
between them in the model; they are steps of their own so that what a loop
maintains is an invariant. A destruction goes on with `FreeSet`, and that of a
client with `DestroyNext`.

| action | code |
|---|---|
| `Create` | `mrp_resource_set_create` and the `add_resource` calls of the same request |
| `AddToClass`, `Acquire`, `Release` | `mrp_application_class_add_resource_set`, `mrp_resource_set_acquire`, `mrp_resource_set_release`, with the stamp, the move in the class list and the head of the update |
| `Destroy`, `ClientDestroy`, `FreeSet`, `DestroyNext` | `mrp_resource_set_destroy`, `mrp_resource_client_destroy` |
| `Scan` | one pass of the inner loop of `mrp_resource_owner_update_zone` with `grant_ownership`, the rollback of a partial grant and `advice_ownership` |
| `Deliver` | one event: sort a released set, refresh its user rows, tell the client |
| `FinishUpdate` | the owner rows that changed |
| `Aborted` | a failed assertion stops the daemon |

Data are abstracted as follows. A mask is a set of resources. A sorting key is the
number the code packs, with `StampMax` in place of 2^27; the usage bits say only
whether a set shares. The reference definition of "next" in the scan (`Ahead`) is
the order the two nested iterators walk in. Managers of resources (`Managed`) and
the Lua veto (`HasVeto`) answer as they like. In `src/` no manager is registered
(`config-lua.c:953` passes none), but the interface is there, so the runs check both.

A definition named `X_Y` that stands before `X` is a mutated form of `X`: the
fault `Y` some property must catch. Nothing refers to these definitions except the
list `mutants` of `PROJECT.json`.

### Assumptions on the constants

A class is not both modal and sharing (`config-lua.c` refuses it); mandatory and
shared resources are among the resources of a set, and only shareable resources
are shared (`mrp_resource_create`); the number that stands for "no request" is no
client's request number.

### Properties

Most of them speak of *settled* states, the ones between two operations.

- `ExclusiveGrants`, `AllOrNothing`: who may hold what.
- `GreedyGrants`: the grants are those of a reference definition that goes down the
  order once and gives each set what it can reach (`Reachable`), less what managers refuse, or
  nothing if something mandatory is missing or Lua vetoes (`Allotted`); and no set goes on asking
  for what a modal set ahead of it holds (`ModalSilences`). It would fail if an owner record
  survived an update, a rollback missed a record, or the order was wrong. And each class
  list, which that order is read from, is complete and sorted by priority and usage (`ListsOrdered`), after any
  history of stamps, rebasing, forced releases and moves. Next to a modal set that holds
  something (`ModalHeld`) sets may get less than they can reach, see section 14.
- `FreeIsGiven`: who waits for what nobody else holds has it. Violated next to modal sets (run `modal`).
- `EveryoneInformed`: clients know the full state of their sets and the user tables hold
  it, although only differences are sent; a numbered request has been answered when its
  call returns; the event array, one slot per existing set, is never overrun; the owner
  tables follow the owner records, although only changed records are written
  (`OwnerTableInSync`).
- `LossIsPreemption` (a step property): a set that still asks and loses its grant in an update
  loses it to a set ahead of it that now holds something it cannot do without (`Needed`), to a
  modal one, to a manager of something it cannot do without, or to a veto.
- `OwnersHold`: an owner record names a live set, and that set holds the resource, in zones in
  which no modal set holds anything.
- `GrantsSpec`: the refinement, see section 13.

## 4. Storage: `MdbTransactions` and `TableWatch`

### State

| variable | code |
|---|---|
| `cell` | the allocated rows and their data; `heap` is its domain |
| `linked` | `tbl->rows`, as a set |
| `index` | `tbl->index`: hash and sequence, which the code changes together |
| `stamp` | `tbl->stamp` |
| `tx` | the stack of `tx_log_t`; `order` is the list `hlink` of a transaction's tables, `log[t]` the list `changes` of a table in it |
| `phase`, `table`, `started` | which loop runs, the table that `delete_all` is at, `start_triggered` |
| `broken` | a freed row was read; the model stops, as anything may follow |

`found` in a transaction and `was` in an entry are history: what a table held before.
The properties and proofs speak of them, no action reads them.

Rows are addresses, because the log keeps addresses: whether an address is still a row
is the question. `calloc` (`Free`) returns no address that the log still mentions. The
real one might; then a stale address would lead to a stranger's row, and no step could
be told to be wrong by looking at the heap. With the restriction every touch of a freed
row sets `broken`, so a model that never breaks is one where the restriction changes
nothing.

### Actions

`InsertRow`, `ReplaceRow`, `ReplaceOutside`, `UpdateRow`, `UpdateOntoTaken`, `DeleteRow` are the
cases of `mdb_table_insert`, `mdb_table_update`, `mdb_table_delete` for one row, with the
index and the log entry; a statement that matches several rows is several of them.
`Clear` and `ClearRow` are `delete_all`. `Begin`, `Commit`, `CommitEntry`, `CommitEnd`, `Rollback`,
`RollbackEntry` and `RollbackEnd` are `mdb_transaction_begin`, `_commit` and `_rollback` with one
entry of `mdb_log_transaction_iterate` per step. The library has one thread, so nothing
else is enabled during a loop.

`remove_row` and `copy_row` give up when the index has another row under the key, and
`copy_row` when the copy is linked. Neither happens in any state of the instances
without `broken`, and the actions leave these returns out.

What the users of the library do is a constant, `Habits`, since most properties hold for
some users only: changes outside of transactions (`bare`), row and column triggers,
`MQI_REPLACE` on rows the open transactions have not touched (`replace`) or have
(`replace_own`), updates to a key in use (`rekey_taken`), commits inside of open
transactions (`inner_commit`). Code in `src/` has all of them; the Lua bindings run each
change in a transaction of its own, often inside that of the resolver.

`TableWatch` adds the domain control plugin: the transaction-end callback schedules a
notification when the outermost transaction ends; the main loop runs it later and sends
every registered proxy the contents of the tables it watches; proxies register and
disconnect. The stamp a watch keeps is never assigned in the code, so each table counts
as changed.

### Properties

- `RollbackRestores`: when a rollback is through, each table holds what it held when the
  transaction began, and has its stamp.
- `RowsAccounted`: no freed row is read (`NothingFreedIsUsed`); each allocated row is in one
  table or kept by the log, and in one of them only, and an indexed table finds each of
  its rows (`RowsAreIndexed`).
- `IndexPointsToRows`: what an index leads to is a row of the table with that key.
- `StampTellsChange`: whoever remembers the stamp of a table can tell whether the
  transaction has changed it.
- `NestedSpec`: the refinement of `NestedTransactions`, under the mapping that takes a rollback
  to happen when it starts.
- `NoMissedChange`, `ChangesAreTold`: a client that does not know the current contents has a
  notification coming, and gets it.

## 5. The main loop: `Mainloop`

One iteration prepares (asks the subloops for timeouts), polls, dispatches wakeups,
deferred callbacks, timers, I/O and subloops, and frees what was deleted meanwhile.
The application calls the loop's API before and after it runs and from every callback,
while a list it changes is being walked.

| variable | code |
|---|---|
| `state`, `deleted` | of each object: free, allocated, or marked by `mark_deleted`; `ml->deleted` |
| `timers`, `next_timer`, `left`, `msecs` | `ml->timers`, `ml->next_timer`, the time until `t->expire`, `t->msecs` |
| `deferred`, `inactive_deferred`, `disabled` | the two lists, and the flag `inactive` |
| `wakeups`, `subloops` | the lists of that name |
| `watch`, `iowatches`, `slaves`, `fdtbl`, `epoll` | a watch's descriptor, events and hang-up count; the masters, linked to `ml->iowatches`; the watches linked behind a master; the descriptor table; what the kernel was told |
| `stage`, `next`, `calling`, `due`, `ready`, `master`, `events`, `poll_timeout`, `ext_timeout` | the locals of `mrp_mainloop_iterate` and what it calls: the phase, the saved next entry of the list that is walked, the object whose callback runs, ... |
| `quit`, `broken` | `ml->quit`; a block was freed twice or a NULL pointer followed |
| `used`, `budget` | bounds: the objects this application has, the calls a callback may still make |

A step is one API call (`AddTimer`, `DelTimer`, `AddDeferred`, `DelDeferred`, `DisableDeferred`,
`EnableDeferred`, `AddWatch`, `DelWatch`, `Reopen` of a descriptor, `AddWakeup`, `DelWakeup`,
`AddSubloop`, `DelSubloop`, `MainloopQuit`), the passing of time in a callback (`TakeTime`), or one
entry of a list: `Visit...` for the entry at `next`, `...Done` at the end of a list, `Return` when
a callback returns. `Run`, `Prepare`, `Poll` and `Destroy` are the functions of that name. `Purge` frees one entry of
`ml->deleted`, for a watch with `FreeIoWatch`; at the end of that list, `PurgeDone`, the iteration is over.

- `Sound`: types, and whatever the loop still points at is allocated; nothing is freed twice.
- `NothingForgotten`: a live timer is on the sorted list, an enabled deferred callback on the
  active one, each once; every live watch is reached by the events of its descriptor, and the
  kernel was told exactly the events the live watches ask for, although the watch in the
  descriptor table may be deleted while others share it (`FdsArePolled`); and the loop sleeps
  without a timeout only if nothing waits for it.
- `DueIsServed`: an expired timer and an enabled deferred callback get called, or go away.
  It assumes that iterations end: an application can keep the loop in one iteration for
  ever, by a deferred callback that enables itself again each time, and nothing is promised then.
- `WakesInTime`: does not hold, see section 14.

## 6. Transports: `Transport`, `Connections`

| variable | code |
|---|---|
| `tp` | `mrp_transport_t` and `strm_t`: allocated, freed or neither, `destroyed`, `busy`, `connected`, `listened`, `sock`, `iow`, `buf` |
| `watch`, `sock` | the live watch of a descriptor with its user data; the kernel's side of it: kind, unread units, whether the peer hung up or stopped inside a frame, a peer that waits to connect |
| `run` | the handler that runs, `strm_recv_cb`, and the callback it is in |
| `fault` | freed memory was used |
| `sent`, `delivered`, `closes` | history: what the peer handed over, what the application was given, how often it was told of the end |

A frame is two units, its size and its contents, as a read or a write may split it there.
`Create`, `Bind`, `Listen`, `Connect`, `Accept`, `Disconnect` and `Destroy` are calls of the
application, from outside or from a callback on any transport; `PeerConnect`, `PeerSend`
and `PeerClose` the other end; `Dispatch` the head of `strm_recv_cb` up to its first
callback, `Pull` one frame of its loop, `Return` the end of a callback with
`MRP_TRANSPORT_BUSY` and what follows it.

- `Sound`: types; no handler runs on a freed transport; a destroyed transport is freed when
  the last call in progress ends and not later; each open descriptor and each watch has a
  transport that will let go of it.
- `EndsAreClean`: between events no complete frame waits in a buffer; the application is told
  of the end of a connection once, because the peer ended it, and, unless it disconnected the
  transport itself meanwhile, not before it was given every message that was written whole.
- `ImplementsConnections`: the refinement of `Connections`: messages are delivered in order, each
  once, none after the end was told, and the end is told once.
- `EndIsNoticed`: if the peer hangs up, the application is told, unless it ends the connection first.

## 7. The native protocol: `ResourceProtocol`

Server plugin and client libraries, each with a single thread, joined by two ordered
channels per connection (`Connections`). The arbitration is what `ResourceGrants` has it to
be: an update may take resources back and give them to any set that asks, as long
as it never gives one twice and each set gets all its mandatory resources or none.

| variable | code |
|---|---|
| `requests`, `replies`, `link` | the messages under way to the server and to the client; whether the connection holds |
| `served`, `closing` | the server's `client_t`s; the one whose sets `mrp_resource_client_destroy` is at |
| `rset`, `nextId` | the server's sets by identifier; the next identifier |
| `context` | `mrp_res_context_t` with its state, whether it is connected, `next_seqno`, and the queries answered |
| `lib` | the library's set: copies (`refs`), identifier, number of the request it waits for, state, whether it is in `pending_sets`, what the application was told last |
| `wants` | history: whether the application wants the set granted |

| action | code |
|---|---|
| `ServeQuery`, `ServeCreate`, `ServeDestroy`, `ServeAcquire`, `ServeRelease` | the handlers of `plugin-resource-native.c`, with the update of the zone and the events it sends |
| `OthersUpdate` | requests of other front ends, which take resources and give them back |
| `ServerClosed`, `ServerCleans` | `closed_evt`, and the destruction of one set after the other |
| `ReceiveQuery`, `ReceiveCreate`, `ReceiveAnswer`, `ReceiveEvent`, `ReceiveDestroy`, `ClientClosed` | `recvfrom_msg` of the library with its handlers, `closed_evt` |
| `CreateResourceSet`, `CopyResourceSet`, `DeleteResourceSet`, `AcquireResourceSet`, `ReleaseResourceSet` | the API of the library |
| `Gone`, `Break` | the application ends; the connection breaks |

- `BeliefsAreRight`: what a library believes of a set, or will believe once the events
  under way have arrived, is what the server decided last; and whenever it awaits no answer
  the application has been told what it knows.
- `SetsCorrespond`: the sets of the server and of a library correspond one to one, but for
  those being made or destroyed; a set the application has released does not go on asking.
- `GoneAreForgotten`: the sets of a client whose connection ended go away.
- `Answered`: a request is answered while the connection lasts.

## 8. The resolver: `TargetSorter`, `Resolver`

`TargetSorter` has the algorithms of `target-sorter.c` as operators: the subgraph marked on the
diagonal of the edge matrix (`Present`), the ring of one slot per node (`QuePush`), the loop
that pops and pushes (`SortStep`). Next to them stands the reference: `Reached`, `Acyclic` and
`RightOrder`.

| variable | code |
|---|---|
| `loaded`, `order` | the ruleset with its generated target; `update_facts` and `update_targets` of each target |
| `stamp`, `factStamps` | the stamps of the tables; `fact_stamps` of each target |
| `txs` | the application's open transactions with what they changed |
| `update` | the locals of `update_target` while it walks its targets: the saved stamps, the script it is at, what changed in its transaction |
| `scheduled` | `auto_scheduled` is enabled |
| `version`, `changes`, `seen`, `gaveUp` | history: what the tables hold, what each script has dealt with, whether an update failed since the last was scheduled |

`Begin`, `Change`, `Commit` and `Rollback` are transactions of an application, `Resolve` a call of
`mrp_resolver_update_target`, `AutoUpdate` the deferred callback. An update then goes on with
`Skip` or `Script` for each target in the order, and ends in `UpdateDone` or `UpdateFailed`.
Scripts may change tables, in the transaction of the update or in one of their own.
The first change of a table in a transaction makes its log and moves its stamp (`get_tbl_log`: `ChangeTables`), later
ones do not; the log keeps what was there before (`mdb_log_change`: `Logged`), and a roll-back puts it back
(`mdb_transaction_rollback`: `Undo`). `MdbTransactions` has the same code row by row.

- `SortedRight`: a ruleset in which no target depends on itself is accepted if and only if it is acyclic and leads to a fact; then the
  order of each target lists what it reaches and nothing else, dependencies first, and the generated
  target reaches every target some fact matters to (`OrdersRight`). `ReachedIsLeast` checks the reference itself.
- `StaleIsKnown`: a table that does not hold what a target's script dealt with has a newer
  stamp than the target remembers, whatever was rolled back; outside of transactions an
  update is scheduled for it, unless one failed over it; and when an update succeeds, a checked
  target whose dependency was updated was updated after it (`DependentsFollow`).
- `StaleIsResolved`: what is stale is dealt with, unless an update fails over it.

## 9. Domain control: `DomainControl`

The library of the controllers and the daemon's plugin over connections that break, with a daemon
that dies and is started again. `TableWatch` of section 4 is the other half of the plugin,
the notifications with the storage in all detail; here a table holds one row at most.

| variable | code |
|---|---|
| `exports`, `dc` | `mrp_domctl_t`: the tables it was created with; allocated or freed, transport, reconnect timer, `connected`, `seqno`, pending requests |
| `wanted`, `promised`, `seen`, `broken` | history: who wants a connection, what a controller was told its tables hold, what `watch_cb` told it; freed memory was used |
| `link` | connections with the messages under way, and which ends are closed |
| `proxy` | `pep_proxy_t`: state, tables, whether it is owed a first notification |
| `table`, `handle`, `flagged`, `scheduled` | the tables of the database; the handle in the entry of `pdp.watched`; its `notify_all`; the deferred callback |
| `up`, `crashes` | whether the daemon runs, how often it died |

| action | code |
|---|---|
| `Connect`, `Drop`, `SetData` | `mrp_domctl_connect`, `mrp_domctl_disconnect` or `_destroy`, `mrp_domctl_set_data` |
| `Reconnect` | `reconnect_cb` |
| `Receive`, `Closed` | `recv_cb` with the three kinds of messages, `closed_cb` |
| `Accept`, `Serve`, `Leave` | `msg_connect_cb`, `msg_recv_cb` (`ServeRegister`, `ServeSet`), `msg_closed_cb` with the destruction of the proxy and its tables |
| `NotifyChanges` | `notify_table_changes` |
| `Crash`, `Restart` | the daemon dies with proxies and tables; it is back |

- `Sound`: types; a freed controller is not touched; who has dropped its connection gets no other,
  and who has not has a connection or a timer that tries again (`KeepsTrying`).
- `Served`: a controller that believes to be connected is registered and owns the tables it
  exports; a table lives exactly as long as the connection that made it.
- `AnswersAreTrue`: requests and answers correspond one to one and in order; when none is under
  way the tables hold what the last granted request asked for, refused ones having changed nothing.
- `ToldIsCurrent`: with no notification scheduled, everyone registered has been sent what the
  tables it watches hold.
- `ComesBack`: who wants a connection gets one, unless its tables exist already.

## 10. The D-Bus front end: `DbusResources`

Clients on the bus create set objects (`/org/murphy/resource/<number>`), add resource objects,
and read the outcome from properties. The daemon asks the bus who owns each client's name, and to
be told when nobody does any more. The arbitration is again what `ResourceGrants` has it to be; an
update gives a set all that is mandatory and any of the rest, or nothing, and never a reply, as this
front end numbers no requests.

| variable | code |
|---|---|
| `alive`, `rules`, `asked` | the bus: its clients, the match rules for `NameOwnerChanged`, `GetNameOwner` calls without an answer |
| `inbox` | what the bus has sent to the daemon: calls of clients, ends of names, answers |
| `next_id`, `rsets` | `mgr->next_id`, `mgr->rsets` with each object's owner, class, status, `locked`, `acquired`, `next_id` and resource objects |
| `trackers` | the `name_tracker_t`s, those out of `dbus->name_trackers` included that wait for their answer |
| `set` | `rset->set`: the state, resources, mandatory ones, grant and advice that the arbitration has |
| `acquiring` | the set whose request is between its two updates of the zone |
| `broken` | freed memory was used |

| action | code |
|---|---|
| `ServeCreate` | `mgr_cb` with `create_rset` and `mrp_dbus_follow_name` |
| `ServeAdd`, `ServeClass`, `ServeDelete`, `Ignore` | `rset_cb`: `addResource`, `setProperty`, `delete`, a set that is gone |
| `ServeMandatory`, `ServeDeleteResource` | `resource_cb`: `setProperty`, `delete` |
| `ServeRequest`, `Acquire` | `rset_cb`: `request` up to the first update (`mrp_application_class_add_resource_set`), and the rest with the second |
| `ServeRelease` | `rset_cb`: `release`, with `mrp_resource_set_release` |
| `ServeGone`, `ServeOwner` | `name_owner_change_cb`, one tracker per step; `name_owner_query_cb`; both with `dbus_name_cb` and `destroy_rset` |
| `OthersUpdate` | an update that another front end starts |
| `ClientCalls`, `Leave`, `BusAnswers` | the clients and the bus |

- `Sound`: types; a set object, its set, its tracker and its rule on the bus come and go together
  (`OneToOne`), whatever the order of calls, answers and ends; a tracker that was forgotten is freed by the answer.
- `ObjectsAreTrue`: a status shown on the bus is that of the set (`StatusIsTrue`), and from the request on
  the objects are the resources the arbitration decides about (`ObjectsMatch`).
- `LeaversAreForgotten`: in the end no set belongs to a client that has left.

## 11. Plugins and start-up: `Plugins`

The daemon loads the plugins its configuration names, then starts them in order, importing the
methods each one takes from others. The init of a plugin (Lua scripts in particular) may load more, at
that time or when the daemon runs. Each step of a plugin's life is told to those who watch events,
and what they do happens in the middle of it: the model keeps the stack of the calls in progress.

| variable | code |
|---|---|
| `ctx` | `ctx->state`; `exited` after `exit(1)` |
| `obj`, `plugins` | the `mrp_plugin_t`s in memory, `ctx->plugins`; `uses`, `early` are history: the plugins an instance imports from, whether it was loaded before `RUNNING` |
| `ninstance` | `descriptor->ninstance` |
| `methods`, `native`, `links` | the table of methods; what the `native_ptr` variables of a descriptor point to; the `plugin` of linked script calls |
| `watches`, `gone` | the lists of event watches; those that were deleted |
| `stack` | the calls of `mrp_load_plugin`, `init`, `mrp_start_plugins`, `mrp_stop_plugin`, `exit`, `mrp_unload_plugin`, `mrp_emit_event_msg` and its callbacks |

| action | code |
|---|---|
| `Load`, `LoadFails`, `LoadStarts`, `LoadReturns` | `mrp_load_plugin` and its callers `exec_load` and `load` (Lua) |
| `StartPlugins`, `LoopStarts`, `LoopGoesOn`, `LoopEnds`, `InitReturns` | `start_plugins`, `mrp_start_plugins`, `mrp_start_plugin` |
| `Stop`, `StopExits`, `ExitReturns`, `StopEnds`, `Unload`, `UnloadEnds` | `mrp_stop_plugin`, `mrp_unload_plugin` |
| `AddWatch`, `DelWatch`, `EmitCall`, `EmitRest`, `CallbackReturns` | `mrp_add_event_watch`, `mrp_del_event_watch`, `mrp_emit_event_msg` |
| `LinkCall`, `RunMainloop` | `link_call` of the resolver's scripts, `run_mainloop` |

Nothing in `src/` calls `mrp_stop_plugin` or `mrp_unload_plugin` on a plugin that was loaded; they
are modelled as the interface they are, for plugins that run and have no call in progress.

- `Sound`: types; the references of a plugin are its own, one per exported method, one per import and
  link that holds it, and a stopped one has none (`RefsCounted`); no list, import, link or call refers to
  a plugin that was freed (`NothingDangles`), and no imported pointer to code nobody exports
  (`PointersLive`); instance names and singletons are unique (`OneOfEach`); no deleted watch is called
  (`NoneToldLate`).
- `AllStarted`: when the daemon runs, each plugin loaded before was started with all its methods
  imported, also one that was loaded while the list was walked, unless it may fail.

## 12. Runs

| run | instance | what it shows |
|---|---|---|
| `mixed` | `MCMixed.cfg`: three sets of four profiles; a LIFO class, a sharing FIFO class and a modal one; one shareable resource, and an exclusive one whose manager may refuse it | grants, lists, events, answers, owner records and owner tables are right after any sequence of operations, and the grants implement `ResourceGrants` |
| `modal` | `MCModal.cfg`: three sets, one of them modal, that want one or two exclusive resources | violates `FreeIsGiven`: section 14 |
| `nested` | `MCNested.cfg`: an indexed and a plain table, two keys, three rows, two transactions deep | everything section 4 promises, as long as only the outermost transaction commits and nobody replaces rows of the own transaction |
| `habits` | `MCHabits.cfg`: all habits but `replace_own` | the index is right even when the rollback is not |
| `watch` | `MCWatch.cfg`: one proxy, one table, `WatchSpec` | committed changes are notified |
| `loop` | `MCLoop.cfg`: nine mixes of up to four objects and descriptors, two calls per callback | section 5 |
| `protocol` | `MCProtocol.cfg`: a client with two copies of a set that may break off at any point, one with two sets, one with a class the server does not know | section 7 |
| `transport` | `MCTransport.cfg`: two transports, three descriptors, three messages | section 6 |
| `resolver` | `MCResolver.cfg`: all rulesets of two facts and two targets, or one fact and three targets, in which no target depends on itself; longer cycles included | section 8 |
| `domain` | `MCDomain.cfg`: a controller with two tables and two requests, one that watches and may claim a table of the first; one crash | section 9 |
| `dbus` | `MCDbus.cfg`: a client with two sets and one resource, which the daemon may not know; a class that does not exist | section 10 |
| `plugins` | `MCPlugins.cfg`: two descriptors, a singleton that imports one method twice and one that exports it, four loads, three plugins at a time, two watches | section 11 |

*Bounds of the arbitration.* `Sets`, `Clients`, `Classes`, `Zones`, `Resources`, `Profiles`, `ReqIds` and
`StampMax` are the only ones. Zones never meet in the code: all state is indexed by
the zone, and one is enough. Three sets are needed for one set to lose its grant to a
second and thereby free a resource for a third; two resources to have a partial grant
to roll back; two classes for the two levels of the order, the modal one above them. `StampMax` is
3 or 4, so stamps run out and are rebased within a run. It also bounds the runs: when rebasing
makes no room the daemon aborts (section 14). Symmetry is over the sets: no
definition orders or names them. No passing run has a Lua veto or requests without a number;
the theorems of section 13 have them, except where they say so.

*Bounds of the storage.* `Rows` bounds how many rows exist, `LogLimit` how many changes a
transaction makes to a table (entries of the log, the one with the stamp included),
`MaxDepth` the nesting, `StampLimit` the stamps. An entry is undone without a look at the
entries before it, so what can go wrong takes two changes of one row, or of two rows
with one key, in one or two transactions. Three rows are two linked ones and a
copy. Tables meet in the order of the log only. Rows are
interchangeable, hence the symmetry; there is none in the run of `TableWatch`.

*Bounds of the loop.* An application has one of the nine `Mixes` of objects, chosen at the start,
as the kinds of objects meet in few places: timers and deferred callbacks in the timeout of the
poll, watches in the descriptors they share (three on one descriptor, so that a deleted
master has a slave to promote and one to carry over). `Calls` is 2: enough to delete the
entry being called and the next one, or to delete and add. Time is counted in ticks; `MaxInterval`
2 has a timer that is due and one that is not. `HupLimit` is 5 in the code.

*Bounds of the connections.* In `transport`, a listening transport, what it accepts and what connects
share two objects; three descriptors serve one after the other, and `Room` 3 lets a frame be
cut in the middle. `protocol` has one connection at a time (`Populations`): sets of two connections meet
in the arbitration only, for which `OthersUpdate` stands. `MaxSeqno` bounds the requests, `MaxQueue` the
events that wait when others change the zone, `MaxRefs` the copies. In `domain`, `MaxUnread` bounds the
messages a controller leaves unread; one crash is enough as nothing survives it.

*Bounds of the D-Bus front end.* The sets of one client are what the walk over the trackers, and the updates in the middle of
it, have to do with each other; two clients meet in the arbitration only. One resource object
moves between the two sets, as the sets do not compete here (`OthersUpdate` takes and gives at will). With one set,
`MaxObjects` 2 is as quick to check. `MaxCalls` bounds the messages that wait when a client calls; ends of names and answers
come on top.

*Bounds of the resolver.* `MaxChanges` 2 has a change before and one inside of an update or its transaction.
Four and five nodes include chains, diamonds and every cycle of up to three targets; the generated target is one more.

*Bounds of the plugins.* Three plugins are an exporter, who imports from it, and a third that the
init of one of them loads, or a second exporter. `DepthLimit` 5 has a callback of an event of a
plugin that another one loads in its init during start-up. `InstanceLimit` bounds the loads that fail and go on counting. Symmetry
is over the memory of the plugins.

*Habits.* Most properties hold for users that keep to some customs the code relies on without checking
them. What breaks the custom is an element of the constant `Habits` that the runs leave out;
section 14 lists them.

*Fairness* assumes that the main loop comes round and that callbacks return, never that an
application does anything new. `WatchSpec`: the loops over the log are through in the end. Whoever begins a
transaction ends it: each caller in `src/` does in the same function, and the parts that
call others inside do after a bounded number of calls. As an end at depth 2 can be
followed by another beginning, this is strong fairness, for each depth. Last, strong
fairness of `Notify`: the main loop runs the enabled deferred callbacks in each iteration,
and it is enabled only between transactions. `Resolver` assumes the same of its transactions and of
`AutoUpdate`, and weak fairness of `Continue`, the loop over the targets. `Mainloop`: weak fairness of the loop's own
steps, `Return` from a callback included. `Transport`: weak fairness of `Pull` and `Return`, and of `Listen`, which whoever
binds a transport calls next; strong fairness of `Dispatch` of each descriptor, since the loop polls all of them, but callbacks of
others come between and may take the watch away. `ResourceProtocol` and `DomainControl`: weak fairness per client and per connection:
a message that waits is read, an end noticed, a timer run; and somebody starts the daemon again. `DbusResources`: weak
fairness of the daemon, which reads what the bus sends, and of each answer of the bus.

*Deadlock* is checked in `mixed`, `modal`, `nested` and `watch`: a client can always do something, and an
aborted daemon stutters explicitly. In `habits` the model stops when a freed row is touched; in the other runs
everything may have been destroyed, or a bound on the requests be reached.

A definition named `X_Y` that stands before `X` is a mutated form of `X`: the
fault `Y` some property must catch. Nothing refers to these definitions except the
list `mutants` of `PROJECT.json`, which has one at least for each property of each passing run.

## 13. Proofs

`ResourceManagerProofs` begins with what unlinking and inserting do to the elements of a list
without repetitions, and to their order. The proofs about the arbitration have one lemma per
action and invariant. The assumptions are the three `ASSUME`s of `ResourceManager`;
nothing bounds the numbers of sets, classes, zones, resources or stamps.

- `TypeCorrect`: `Spec => []TypeOK`. The inductive invariant is `TInv`, `TypeOK` with
  `DeathInv`: while a set is freed there is a set being destroyed, which
  `FreeSet` needs to index by `dying`.
- `GrantsAreExclusive`: `Spec => []ExclusiveGrants`,
  `GrantsAreWhole`: `Spec => []AllOrNothing`. Neither is inductive: during an update the
  grants of sets the scan has not reached are left over from the last update and
  conflict with new ones. `GrantInv` therefore says: (`Linked`) the class lists hold the
  attached sets of their class and zone, each once, so that the scan reaches every
  set that has a grant; (`AttachedInv`) others hold nothing; (`LoopInv`) the loops
  work on attached sets and leave nothing behind; (`OwnerInv`) for each set the scan
  is done with, the owner record of every exclusive resource it holds names it;
  (`WholeInv`) those sets hold all that is mandatory or nothing. Exclusion follows
  since a record names one set. An aborted daemon may leave a set out of its list,
  hence the condition on `phase`. `GrantInv` was checked with TLC, on instances
  with and without a modal class, before it was proved.
- `GrantsImplemented`: `Spec => GrantsSpec`. `ResourceGrants` says what is promised, with
  no lists, stamps, owners or events: some sets lose what they have (`Revoke`), or a set
  that holds nothing is given what conflicts with nobody (`Give`). The refinement
  mapping takes a set that the running scan has not reached to hold nothing: starting
  an update is a `Revoke` of the zone, each `Scan` is a `Give`, everything else stutters
  or revokes.

- `InformCorrect`: `Spec => []EveryoneInformed`, if requests are numbered and there are finitely many
  sets. Only differences are sent, so the invariant (`InformInv`) follows them through the update:
  a set of which a table or its client does not know everything has an event in the queue, or is
  the one whose request the scan will answer (`ToldInv`); the owner tables show the copy taken when the update
  began (`RowsInv`); the request that awaits its answer is ahead of the scan or in the
  queue (`AnswerInv`); and events and sets to scan are together no more than there are slots (`FitInv`). Numbers are needed:
  a release that changes no mask and asks for no reply queues no event, and its state is told to
  nobody (D-Bus and telephony ask in this way).
- `GrantsAreGreedy`: `Spec => []GreedyGrants`, `OwnersAreHolders`: `Spec => []OwnersHold`,
  `LossesArePreemptions`: `Spec => LossIsPreemption`, with vetoes, managers, modal classes and all. The
  invariant `OrderInv` adds to `GrantInv`: (`ScanInv`) the sets the scan is done with are ahead of all
  others; (`ZoneRight`) for these sets, the owner records name their holders and say whether they share
  (`RecordsRight`), the grants are those of the reference definition (`GrantsRight`), and modal sets
  silence the others (`Silenced`); (`ListsInv`) the lists are in the order of the levels; (`AskedInv`) grants
  are among what was asked for; (`DyingInv`) a set that is about to be destroyed asks for nothing. The
  heart of the proof is one `Scan`: a record may refuse more than the holders it stands for, but
  only next to a modal one, and never less.
- `ListsKeepTheOrder`: without modal classes and sets that release themselves (`NothingForced`) the
  lists are sorted by the whole key of `mrp_application_class_get_sorting_key`, the state and the stamp included,
  also over a rebasing, which moves no set. Without the hypothesis it is false (section 14).

`MdbProofs` is about the storage, under the assumptions `StorageAssumption` and
`HabitsAssumption`, for any tables, keys, rows, depth and log length, and, in both theorems,
for all users that do not replace rows of their own.

- `MdbTypeCorrect`: `Spec => []TypeOK`. `IndexCorrect`: `Spec => []IndexPointsToRows`. They share one
  inductive invariant, `Inv`, since already the types need more: to undo an entry is to
  read the rows it names. (`OrderInv`) a transaction lists the tables with a log, once each;
  (`LinkInv`) linked rows are allocated, each in one table; (`EmptyInv`) the index of a
  table that is being cleared is empty; (`KeepInv`) a row the log keeps is linked nowhere,
  and kept by one entry; (`CopyInv`) what an update keeps is not a row that another entry
  changed; (`HomeInv`) the rows in the log of a table are in no other; (`AfterInv`) a row
  that was inserted or updated is linked, or a later entry keeps it, or it is gone. Hence
  undoing an entry takes from the index the row that is there, and puts in
  one that is linked. All parts were checked with TLC first. With `replace_own` the claim is false: after an
  inner commit an undone update may put an unlinked row into the index.

Its second half is about users with the customs `Careful`, which are those of the run
`nested`: they change tables in and outside of transactions, have triggers, and replace rows
that the open transactions have not changed; they do not replace rows of their own or outside
of transactions, do not rekey a row onto another, and commit the outermost transaction only.
The run `habits` has the other habits: there only the index stays right.

- `RollbackCorrect`: `Spec => []RollbackRestores`. `RowsCorrect`: `Spec => []RowsAccounted`. `StampCorrect`:
  `Spec => []StampTellsChange`. They share the inductive invariant `RollInv`, which adds to `Inv`:
  (`SoundInv`) nothing is broken, commits are outermost; (`HeapInv`) the rows of the log are
  allocated; (`SpanInv`) the entries of a row lie between its insertion and its deletion;
  (`LeakInv`) a row is linked or kept; (`UniqueInv`) no two rows have the same key, of what a table holds, of
  what an entry or a transaction found, and of what an entry wrote, so that undoing a deletion or an update never
  meets a taken key; (`ChainInv`) the log is a chain: what an entry made of the rows it
  found is what the next one found, or the table holds, and the first one found what
  the transaction did; (`StampInv`) the stamp moves with the first entry and no other;
  (`FoundInv`) an inner transaction that finds the stamp an outer one found finds
  the same rows. The chain holds only up to addresses (`Alike`): when the replacement of a
  row is undone, the old data come back at the address of the new row, while the entries
  before may say otherwise of a row they do not name; that is why the invariant compares the
  contents of an indexed table, and addresses only for the rows that earlier entries touched.
  A change adds one or two links (`LoggedAs`, `Longer`, `LeadsOn`), an undo or an end takes
  them off (`Shortened`), and the lemmas about both do not depend on the operation; per operation
  there is one lemma on what it does to the rows (`Changes`, `Restored`). `RollInv` was checked with
  TLC on the instance of `nested` and on one with a single table and four rows.
- `NestedImplemented`: `Spec => NestedSpec`, if `Rows` is finite, which `NestedTransactions` needs to count
  with. The mapping takes a rollback to happen when it starts; that the loop arrives at
  the same tables is `RollbackRestores` again, at `RollbackEnd`. A change moves the abstract stamp
  exactly if the log of the table was empty, which are `StampInv` and `FoundInv`.

About `TableWatch`, at the end of `MdbProofs`: `NothingMissed`, `WatchSpec => []NoMissedChange`, for users of the storage that
change tables in transactions only and commit the outermost one (`Transactional`). `WatchInv` says that
a client knows what the tables held when the outermost transaction began, or has a
notification scheduled (`ToldInv`); that a commit at depth 1 with an empty log has nothing to
tell, since what was changed inside was rolled back (`IdleCommitInv`), for which it needs `RollInv` of the storage,
`StampTellsChange` in particular.

`MainloopProofs`, under `LoopAssumption` (the kinds of objects are disjoint; a watch asks for some event, and a report of the
kernel is of some event), for any number of timers, deferred callbacks, watches, wakeups, subloops and descriptors, and
any bounds on intervals, hang-ups and calls in a callback. Of the habits of an application two are excluded where
the code does not bear them (section 14): `busy_subloop`, a subloop that calls the loop while `prepare_subloop` asks it, and
`late_slave`, the deletion of a slave watch after the last iteration.

- `LoopIsSound`: `Spec => []Sound`, without either habit. `NothingIsForgotten`: `Spec => []NothingForgotten`, without the first.
  Both come from `LoopInvariant`: `Spec => []Inv`. Neither property is inductive, since what is safe to free and what
  is still served depends on what the walk in progress has saved. `Inv` has three parts.
  - `Data`, what the lists hold at any time, also in the middle of a callback: (`StateInv`) `ml->deleted` lists what is marked, once;
    (`TimerInv`) the list of timers has every allocated one once, deleted ones included, the live ones sorted by the time
    left, and `next_timer` is live, and set if a timer is; (`DeferredInv`) a deferred callback is on one of two lists, and an
    enabled one on the active list; (`WatchInv`) a watch is the master of its descriptor or the slave of one master; the
    table leads to the master, deleted or not; and the kernel was told what the live watches of the descriptor ask for together
    (`FdsArePolled`); (`OtherInv`) wakeups and subloops.
  - (`WalkInv`) The saved next entry, the entry that is called, the master being dispatched and what is due are still
    on the list that the stage walks: a callback may delete any of them, but only `Purge` frees, and no walk is in progress then.
  - (`IdleInv`) From the choice to sleep without a timeout to the poll, no timer is armed and no deferred callback
    enabled, as the subloops that are asked in between change nothing; and nothing is freed twice.

  The lists are changed by appending, by unlinking and by the insertion in order of `AddTimer`; what these do to membership,
  to `NoRepeat` and to sortedness are lemmas stated once, and used by every call. The step that needs most is
  `FreeIoWatch`: when a master goes, its first slave takes over the other slaves and the place in the table, and what the kernel was told
  must still be right. For the proof, `Purge` frees one entry of `ml->deleted` per step, as its loop does, so that this is one lemma and no fold.
  `Inv` was checked with TLC on the instance of `loop` before, and on one with `late_slave`.

`TransportProofs`, for any number of transports, descriptors and messages and any room in the sockets,
under `TransportAssumption`:

- `TransportsAreSound`: `Spec => []Sound`, if applications connect no transport that has a descriptor (`Tidy`; peers
  may send on). A transport is in one of four stages (`ShapeInv`): fresh, gone, without a descriptor, or holding one
  in the way of its kind; the calls in progress are the one in `run` and nothing else (`BusyInv`), so
  the memory lives as long as the call; descriptors and watches name their transport and the
  transport them (`OwnInv`, one descriptor is held by one transport).
- `EndsCleanly`: `Spec => []EndsAreClean`. `ConnectionsAreKept`: `Spec => ImplementsConnections`. Both if, moreover, peers do not
  go on after a frame they wrote in part (`Habits = {}`), and the NULL pointer is no buffer (`NoBuffer`). What makes them
  inductive is `StreamOf`: what the application was given, the buffer and the socket hold the
  units of the messages sent in order and without a gap, the one in hand counted where it is
  (`Right`). So two units at the head of a buffer are one message, the next one; a buffer with
  fewer of them and an empty socket lack at most the contents of a frame that was cut. `EndInv` has the
  rest: the end is told at a descriptor that is no longer read, and told once, and the handler that was told of
  the hang-up has read all there was.

`ResourceProtocolProofs`: `BeliefsStayRight`, `Spec => []BeliefsAreRight`, and `SetsStayInCorrespondence`,
`Spec => []SetsCorrespond`, under `ProtocolAssumption`, for any clients, library sets, copies, resources and bounds
on requests and queues, if applications have none of the habits the library mistakes (`Habits = {}`). Neither
is inductive: both speak of a set the library knows, and so of the message that will make it known. `IInv`
says, of every client, (`IdsInv`) that an identifier is given once: no set has the one that a reply to a creation still
carries; and, while its connection holds, (`CreateInv`) that a creation under way, there or back, is that of one pending
set; (`SetInv`) that a set of the server is known to the library, or in such a reply, or in a request to
destroy it, and never in two of these; (`EventInv`) that the last event under way about a set carries what the server
decided last, and without one the library knows it, or awaits the answer to an acquisition; (`ReleaseInv`) that behind a
request to acquire a set its application has released there is a release. An end of the connection takes these parts
away at once, and leaves the rest. What an update of the zone does to a queue, for each client and each set, is a
lemma of its own (`EventsTo` lists the sets told, each once; `Sent` appends, and nothing is inserted), so that the
proofs of the five server handlers only say what came before and after the events. The events are listed in the order
of identifiers, which takes the enumeration of a finite set of numbers: `Smallest`, `Greatest` and
`EnumerationExists` get it from the well-foundedness of inclusion among finite sets, without induction.

`DomainControlProofs`: `ConnectionsAreServed`, `Spec => []Served`, `AnswersStayTrue`, `Spec => []AnswersAreTrue`, and
`TellsWhatIs`, `Spec => []ToldIsCurrent`, under `DomainAssumption`, for any controllers, tables, contents and
numbers of requests, connections and crashes. Applications may have any habits and connections may end with errors:
what a library does to memory it has freed is not described, but until then it and the daemon agree. All
three come from one invariant, `DomainInv` (`DomainAgrees`), as they need each other: that an answer is to the request it names
needs what an earlier connection left in the list of pending requests (`Forsaken`), and that what was acknowledged is
stored needs that nobody else writes the tables. (`LinkInv`) The two ends of a connection know of each other what order
and cuts allow: before the registration is served nothing else is under way, after it was refused nothing
is; a connection that is not the transport of its controller has been closed by it. (`PendingInv`) Pending requests are numbered as
they were made. (`TimerInv`) A timer is set only with no connection, and one free. (`EarlyInv`, `AskedInv`)
A controller that is not connected awaits the answer to its registration; one that is has its requests, or their
answers, under way, once each and in order. (`StoredInv`) Its tables hold what the last acknowledgement is about, be it on its way
or read. (`OwnerInv`) Every table is that of one registration. (`HandleInv`, `ToldInv`) What a watch was sent last is what the table
holds, or a notification is scheduled, or the handle of the watched table shows that there is something to tell;
a registration that was told nothing yet is flagged, and stays so while a table it watches is dead.

- `DroppedIsLeftAlone`: `Spec => [](NothingFreedIsUsed /\ DropIsFinal)`, if applications have none of the habits
  the library does not survive (`Habits = {}`); a controller is freed only after it was dropped, and a dropped one has no timer (`AloneInv`).
- `DomainIsSound`: `Spec => []Sound`, if moreover connections end without an error of the socket (`Errors = {FALSE}`), after
  which `closed_cb` starts no timer (section 14).

`DomainInv` and these two were checked with TLC on the instance of `domain` before they were proved, and the proof
goes by handler: what it makes of a sequence of messages or of pending requests (`AppendIs`, `TailIs`, `RemoveIs`, `Others`)
is stated apart from what the controllers and the daemon make of that.

`DbusResourcesProofs`: `FollowedNames`, `Spec => []Sound`, under `DbusAssumption`, for any clients, names, classes and
bounds, and whatever the clients' habits. What makes `OneToOne` inductive (`DbusInv`) is a count of the answers:
a question is answered once, so that an answer under way belongs to one tracker that waits for it (`AnswersInv`), and
a tracker is freed exactly by the later of the answer and the call that forgets it (`TrackerInv`). That a rule is kept for each tracker is a count of sets,
followed through the handlers that take one off. The types need that sets are numbered as they are created, that no more are under way than the
bound allows (`CountInv`), and that an update gives a set only what is in its list.

- `ObjectsShowWhatIs`: `Spec => []ObjectsAreTrue`, if clients have none of the habits the plugin mistakes (`Habits = {}`,
  section 10). `ObjectsAreTrue` says nothing of the calls under way, on which everything depends: an edit that is read after
  the request parts the objects from the set. `ShownInv` adds, for each set: (`Fit`) `locked` and
  `acquired` are one, a set that asks had its request, what is granted is asked for, and the names of its resources differ, so
  that an event finds the resource it is about (`EventFits`); (`Orderly`) once a set has resources in the arbitration, or had its request,
  no edit of it is under way, and before that one request is, behind the edits; (`Fresh`) what is still
  to be added has other names. Between the two updates of a request `acquired` is not set yet, and the set is
  attached (`held` in `Ready`). What an update of the zone does is one lemma about one set (`UpdateFits`), for whichever
  handler made it (`ZoneStep`, `DestroyShows`). `ShownInv` was checked with TLC before, on the instance of `dbus` and with
  one set, two objects and three calls under way.

`ResolverProofs`: `StaleStaysKnown`, `Spec => []StaleIsKnown`, under `AutoIsLast` and `RulesetsAreGraphs`, for any
number of facts, targets and changes, if application and scripts have customary habits (`Habits = {}`, section 15 lists what
the others lose) and the accepted rulesets are sorted right (`SortsRight`). The second hypothesis is what `SortedRight`
says of a ruleset that was just loaded, which the run `resolver` checks of all rulesets of its size in which no target depends on itself: what a fold computes for every
graph is not within reach of the provers. From it follows what an update relies on (`Shape`): checked targets have checked dependencies,
ahead of them, and no facts that the target has not. `StaleIsKnown` is about stamps that go back when a transaction is rolled
back, so that alone it says nothing of a transaction under way. The inductive invariant `Inv` says it (`Fit`) of the tables as they are
and as they would be after each roll-back that may still come (`StampsBefore`, `VersionsBefore`): of one or two transactions of the application
(`TransactionsFit`), or of the update, with the fact stamps it saved put back (`CanFail`). A table written again in a transaction
keeps its stamp, so nobody may have seen what the transaction wrote before: no target at all in one of the application (`IsNews`), none
but those visited in an update (the end of `GoesWell`), and these do not read what the script writes (`ScriptWritesNews`). `Fit` adds that no target remembers
less than those that depend on it, without which an update would not go on to dependents. (`PendingIsScheduled`)
Between updates, what a target did not know before the open transactions has an update coming, or they are sure to be
committed. (`GoesWell`) In an update of which no script failed, who was visited is up to date, who is
behind is still to be visited or there will be an event at the end of its transaction, and the dependents of who was updated
have been updated since or will be. `Inv` was checked with TLC on the instance of `resolver` before.

Only model-checked altogether: `TargetSorter` and `Plugins`.
Their liveness properties, and those of `TableWatch`, `Transport`, `ResourceProtocol` and `DomainControl` (`ChangesAreTold`, `DueIsServed`, `EndIsNoticed`,
`GoneAreForgotten`, `Answered`, `StaleIsResolved`, `ComesBack`, `LeaversAreForgotten`), are beyond the prover, as it has no rules
for fairness and `ENABLED`, and so is what the folds of `TargetSorter` compute, which takes an induction over
the graph.

## 14. Findings

One run ends in a violation:

- Arbitration (`resource-owner.c:296`): a set that meets a modal owner is released on the spot, but the owner
  records that its grants were just written to stay as they are; only the branch at line 242 restores them. Sets
  behind it are refused for an owner that holds nothing, or lose what they had, until the next update of the
  zone, although "resources are given to applications that request them in a priority order" (`README.md:8`). Run `modal`,
  `FreeIsGiven`. `GrantsAreGreedy` and `OwnersAreHolders` say that this is the only way it happens.

Two more statements do not hold, and no run checks them:

- Arbitration (`resource-owner.c:330`): when one update releases two sets of a list, each is moved to its new place
  only when its event is delivered, with the other one still out of place; the order by stamps within
  a priority may break, and a later request then gets ahead of an earlier one in a FIFO class. TLC finds it
  on three sets with a modal class or `autorelease`, when `ListsExact` is added to the invariants;
  `ListsKeepTheOrder` proves that it takes one of these two.

- Loop (`mainloop.c:610`): `insert_timer` replaces `next_timer` ("next expiring timer") only by one that
  expires earlier. When `rearm_timer` re-arms `next_timer` itself it is compared with itself and stays,
  though another timer comes first now; the loop sleeps until the old one expires. TLC shows it with two
  timers when `WakesInTime` is added to the invariants of `MCLoop.cfg`.

What the customs of section 12 exclude. Each can be seen by adding the habit to the constant of a run.

- Arbitration. A record that a modal owner left behind can point to freed memory until the next update: a released
  set is destroyed without one. Rebasing makes no room while some set was never acquired, as its stamp is 0; the
  request that exhausts the counter then fails the assertion in `resource-set.c:550`.
- Storage. `inner_commit`: the commit of an inner transaction throws its log away (`transaction.c:115`), so a rollback of
  the outer one leaves its changes and meets rows that were freed; and its changes are not notified when the outer one has
  none (`domain-control/table.c:94`). `replace_own`: a row inserted or updated and then replaced in one transaction is
  freed by undoing the replacement, and used to undo the rest (`index.c:247`).
- Loop. `busy_subloop`: a subloop that deletes itself while it is prepared is asked for its descriptors through a NULL pointer
  (`mainloop.c:1449`). `late_slave`: a slave watch deleted after the last iteration is freed twice (line 1221). A subloop whose
  timeout is -1 makes the loop sleep without one, even if another subloop wants less.
- Transport. `reconnect`: connecting a transport that was disconnected leaks its descriptor; `rebind`: connecting a bound one leaks its watch
  (`stream-transport.c:495`). `send_on`: after a frame was written in part, the next one is out of step (line 583).
  `strm_accept` leaks its buffer when it fails, and a transport made from a descriptor has no description.
- Protocol. `early_release`: a release before the set is believed granted is dropped (`rset.c:571`). `reacquire`, `early_delete`: acquiring
  twice or deleting while the creation is pending creates a second set or leaves one behind. `edit`: an event that names
  a resource the application has removed is ignored. When the connection ends, the library tells nobody.
- Resolver. `inner_only`, `partial`, `feedback`: what only an inner transaction commits, or a script of an update writes
  for targets it does not get to, or for those before it, schedules nothing. `drop`, `inside`: stamps that go back (a table
  made anew, a transaction rolled back around an update) hide a change. `factless`: no target is ever given a stamp of
  its own, so a target without facts below it does not follow what it depends on (`target.c:304`). A ruleset none of
  whose targets leads to a fact ends the daemon. A target that depends on itself is accepted, though "no target can
  depend on itself" (`target-sorter.c:319`): its edge is a mark on the diagonal, so it is taken for present in every
  subgraph, and what it depends on is not followed. The order of another target may end with it, although "our target is the
  last item" (line 338), and its own be empty, which updates read through a NULL pointer. TLC shows it when `Graphs` of
  `MCResolver` has such rulesets too: `SortedRight` is violated at once.
- Domain control. `drop_while_trying`, `drop_on_close`: who is dropped between connections keeps its timer, and is connected again or,
  when destroyed, touched by it (`client.c:332`). A request whose connection broke stays in the list for good.
  The stamp a watch keeps is never assigned, so each table counts as changed.
  After a connection that ends with an error of the socket no timer is started (`client.c:477`), though `client.h:138`
  promises one "whenever the connection goes down": with `TRUE` in `Errors`, `KeepsTrying` is violated.
- D-Bus. `late_edit`: after the request, when "this resource set cannot be changed anymore" (`plugin-resource-dbus.c:1682`),
  resources are still added and deleted, and their objects show what the set does not have. `retry`: a request for an
  unknown class is not answered, and leaves its resources in the set; the next one adds them again, and the backup
  of an owner is then overwritten (`resource-owner.c:227`). `same_name`: of two objects with one name, one stays
  pending. A set that gets nothing in its request stays "pending", which the interface has for requests not
  "called or processed yet" (`dbus-api-resource.txt:88`), and resource objects become "available", which is "not needed" there
  (line 111). A `GetNameOwner` call without an answer for 5 seconds removes the set of a living client.
- Plugins. `twins`: two instances of a descriptor that imports methods share the variables for them; the first to be unloaded
  clears these, the second releases nothing, and the exporter keeps a reference for good. `drop_inside`: `purge_deleted` stands behind the
  returns of `mrp_emit_event_msg` (`event.c:271`), so a watch deleted during an emission is called again. A plugin loaded when the
  daemon runs is started without its methods imported (`plugin.c:302`); one with exported methods can never be stopped, as each has a
  reference to it; one that may fail and did stays loaded; and a load that fails for its arguments, or because a
  singleton exists, counts an instance that never goes, so the singleton is refused from then on (line 231).

## 15. Not modelled

- Arbitration: attributes of resources (they decide nothing here), printing, the text of rows; a set that lists the same
  resource twice, a second `add_to_class`, calls into the API from an event callback (no callback in `src/` does it);
  liveness beyond the end of an update: the daemon promises no one a resource.
- Storage: creating and dropping tables, conditions and column formats, the hash and the
  sorted sequence under an index, the order of rows, the row counter, stamps
  that wrap around at 32 bits, and what triggers do beyond reading the rows they get.
- Main loop: signal handlers, the loop as a guest of another one, masks of wakeups. Transports: datagram, D-Bus, internal and
  websocket transports. Messages: how they are encoded.
- Protocol: attributes, the zones query, the wrap of request numbers; the copies of a set, which differ in what the
  application attached to them only.
- Resolver: aliases, variables, events of the resolver, updates that scripts start, a second ruleset.
- D-Bus: attributes and the shared flag, `getProperties`, the signals that tell clients of changes, the
  time limit of calls, failed exports of methods, the end of the daemon.
- Domain control: the JSON and web runtime variants, unregistering (nobody sends it), failed sends.
- Failed allocations, everywhere.
- Parsers of rule files, statements and configuration; the data structures of `common` and wrappers of system libraries; Lua
  bindings; adapters to other main loops: sequential code that keeps no state over a callback, or state another
  library owns.
- Plugins: dynamic ones, which are closed before their descriptor is read for the last time (`plugin.c:433`), the values of arguments, events
  of the daemon, the console.
- `bluehfp` and the SMS programs. They drive a modem by AT commands. A thread reads the serial port (`serial_read_data`), timers of
  the main loop send what is queued, and both work on `smsQueue`, `sms_id`, `process_id`, `sim_id` and `send_sms` without a lock. Every
  access of one is a data race with the other: undefined behaviour, beyond which nothing can be
  stated; a model of the steps in between would promise an order the code does not have. The copies
  differ in the handling of strings; in `ModemSmsC++` the delivery of received messages is commented out.
- The front ends for ASM, the web runtime and telephony, the query interfaces: section 2.
