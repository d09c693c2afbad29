------------------------------- MODULE Mainloop -------------------------------
(***************************************************************************)
(* The main loop (src/murphy-0.0.24/src/common/mainloop.c): timers,        *)
(* deferred callbacks, I/O watches that share descriptors, wakeup          *)
(* notifications and pumped subloops.  One thread: the loop calls back the *)
(* application, and the application calls the loop from its callbacks,     *)
(* while the loop is walking the very lists those calls change.            *)
(***************************************************************************)
EXTENDS Lists, FiniteSets, SequencesExt

CONSTANTS
    Timers, Deferreds, Watches, Wakeups, Subloops,  \* what can be allocated
    Fds,          \* file descriptors
    Masks,        \* the event masks of watches
    Reported,     \* the combinations of events the kernel reports
    Mixes,        \* what an application uses: subsets of these objects and of Fds
    Habits,       \* what an application does besides, see the operations
    Calls,        \* calls one callback makes at most
    MaxInterval,  \* the longest timer interval, in ticks
    HupLimit,     \* hang-ups delivered before a watch is dropped (5 in the code)
    None

Objects == Timers \cup Deferreds \cup Watches \cup Wakeups \cup Subloops
Events == {"in", "out", "rdhup", "hup"}
InOut == {"in", "out"}
Forever == -1

INT_MAX == MaxInterval + 1  \* more than any timeout

ASSUME LoopAssumption ==
    /\ Mixes \subseteq SUBSET (Objects \cup Fds)
    /\ Masks \subseteq (SUBSET (Events \ {"hup"})) \ {{}}    \* nobody watches for nothing
    /\ Reported \subseteq (SUBSET Events) \ {{}}
    /\ {Calls, MaxInterval, HupLimit} \subseteq Nat
    /\ None \notin Objects \cup Fds /\ \A e \in SUBSET Events : e # None
    /\ Timers \cap (Deferreds \cup Watches \cup Wakeups \cup Subloops) = {}
    /\ Deferreds \cap (Watches \cup Wakeups \cup Subloops) = {}
    /\ Watches \cap (Wakeups \cup Subloops) = {} /\ Wakeups \cap Subloops = {}

VARIABLES
    used,                 \* the objects and descriptors this application uses
    state,                \* of each object: "free", "live", "deleted"
    deleted,              \* ml->deleted, what purge_deleted will free
    timers, next_timer,   \* ml->timers, ml->next_timer
    left, msecs,          \* ticks until t expires, its interval
    deferred, inactive_deferred,
    disabled,             \* deferred callbacks with the inactive flag
    wakeups, subloops,
    watch,                \* of a watch: descriptor, events, hang-ups delivered
    iowatches,            \* watches linked to ml->iowatches: the masters
    slaves,               \* slaves[w]: the watches linked behind master w
    fdtbl,                \* the watch events of a descriptor are looked up by
    epoll,                \* the mask registered with the kernel, or None
    hung,                 \* descriptors whose hang-up has been dispatched
    stage,                \* where the loop is
    next,                 \* the saved next entry of the list walked, or None
    calling,              \* the object whose callback runs, or None
    budget,               \* calls the application may still make
    due,                  \* timers expired when dispatch_timers read the clock
    ready,                \* ml->events: descriptors and events not dispatched
    master, events,       \* w and the events of dispatch_slaves
    poll_timeout,
    ext_timeout,          \* the least timeout a subloop wants
    quit,
    broken                \* a block was freed again, or a NULL pointer followed

timerVars == <<timers, next_timer, left, msecs>>
deferredVars == <<deferred, inactive_deferred, disabled>>
watchVars == <<watch, iowatches, slaves, fdtbl, epoll, hung>>
otherVars == <<wakeups, subloops>>
loopVars == <<stage, next, calling, due, ready, master, events, poll_timeout,
              ext_timeout>>
vars == <<used, state, deleted, timerVars, deferredVars, watchVars, otherVars,
          loopVars, budget, quit, broken>>

Live(o) == state[o] = "live"

First(q) == IF q = <<>> THEN None ELSE q[1]
After(q, o) == LET i == Position(q, o) IN IF i = Len(q) THEN None ELSE q[i + 1]

Init ==
    /\ used \in Mixes
    /\ state = [o \in Objects |-> "free"]
    /\ deleted = <<>>
    /\ timers = <<>> /\ next_timer = None
    /\ left = [t \in Timers |-> 0] /\ msecs = [t \in Timers |-> 0]
    /\ deferred = <<>> /\ inactive_deferred = <<>> /\ disabled = {}
    /\ wakeups = <<>> /\ subloops = <<>>
    /\ watch = [w \in Watches |-> [fd |-> None, events |-> {}, wrhup |-> 0]]
    /\ iowatches = {}
    /\ slaves = [w \in Watches |-> <<>>]
    /\ fdtbl = [f \in Fds |-> None] /\ epoll = [f \in Fds |-> None]
    /\ hung = {}
    /\ stage = "setup" /\ next = None /\ calling = None
    /\ budget = Calls + 1
    /\ due = {} /\ ready = <<>> /\ master = None /\ events = {}
    /\ poll_timeout = Forever /\ ext_timeout = INT_MAX
    /\ quit = FALSE /\ broken = FALSE

-----------------------------------------------------------------------------
(* What the application calls, before and after the loop runs and from its   *)
(* callbacks.                                                                *)

Running == stage \in {"setup", "exit"} \/ calling # None

App ==
    /\ Running
    /\ budget > 0
    /\ budget' = budget - 1
    /\ UNCHANGED <<used, loopVars, broken>>

Allocate(o) ==
    /\ o \in used
    /\ state[o] = "free"
    /\ state' = [state EXCEPT ![o] = "live"]
    /\ UNCHANGED <<deleted, quit>>

\* mark_deleted: an application deletes an object once.
MarkDeleted(o) ==
    /\ Live(o)
    /\ state' = [state EXCEPT ![o] = "deleted"]
    /\ deleted' = Append(deleted, o)
    /\ UNCHANGED quit

Keep == UNCHANGED <<state, deleted>>

\* insert_timer: before the first live timer that does not expire earlier.
InsertTimer(q, t, at, is) ==
    LET later == {i \in DOMAIN q : is[q[i]] = "live" /\ at[t] <= at[q[i]]}
    IN IF later = {} THEN Append(q, t)
       ELSE LET i == CHOOSE j \in later : \A k \in later : j <= k
            IN Insert(q, i - 1, t)

\* The same function's last test; t may be next_timer itself.
NextAfterInsert(t, at) ==
    IF next_timer = None \/ at[t] < at[next_timer] THEN t ELSE next_timer

AddTimer(t, n) ==
    /\ App /\ Allocate(t)
    /\ left' = [left EXCEPT ![t] = n]
    /\ msecs' = [msecs EXCEPT ![t] = n]
    /\ timers' = InsertTimer(timers, t, left', state')
    /\ next_timer' = NextAfterInsert(t, left')
    /\ UNCHANGED <<deferredVars, watchVars, otherVars>>

FindNextTimer_First(is) == First(timers)

\* find_next_timer
FindNextTimer(is) ==
    LET live == {i \in DOMAIN timers : is[timers[i]] = "live"}
    IN IF live = {} THEN None ELSE timers[CHOOSE i \in live : \A j \in live : i <= j]

DelTimer(t) ==
    /\ App /\ MarkDeleted(t)
    /\ next_timer' = IF next_timer = t THEN FindNextTimer(state') ELSE next_timer
    /\ UNCHANGED <<timers, left, msecs, deferredVars, watchVars, otherVars>>

AddDeferred(d) ==
    /\ App /\ Allocate(d)
    /\ deferred' = Append(deferred, d)
    /\ disabled' = disabled \ {d}
    /\ UNCHANGED <<inactive_deferred, timerVars, watchVars, otherVars>>

DelDeferred(d) ==
    /\ App /\ MarkDeleted(d)
    /\ UNCHANGED <<timerVars, deferredVars, watchVars, otherVars>>

DisableDeferred(d) ==
    /\ App /\ Keep
    /\ Live(d) /\ d \notin disabled
    /\ disabled' = disabled \cup {d}
    /\ UNCHANGED <<quit, deferred, inactive_deferred, timerVars, watchVars, otherVars>>

EnableDeferred_FlagOnly(d) ==
    /\ App /\ Keep
    /\ Live(d)
    /\ disabled' = disabled \ {d}
    /\ UNCHANGED <<quit, deferred, inactive_deferred, timerVars, watchVars, otherVars>>

\* mrp_enable_deferred: moved to the end of the active list from wherever it is.
EnableDeferred(d) ==
    /\ App /\ Keep
    /\ Live(d)
    /\ disabled' = disabled \ {d}
    /\ deferred' = Append(Unlink(deferred, d), d)
    /\ inactive_deferred' = Unlink(inactive_deferred, d)
    /\ UNCHANGED <<quit, timerVars, watchVars, otherVars>>

AddWakeup(w) ==
    /\ App /\ Allocate(w)
    /\ wakeups' = Append(wakeups, w)
    /\ UNCHANGED <<subloops, timerVars, deferredVars, watchVars>>

DelWakeup(w) ==
    /\ App /\ MarkDeleted(w)
    /\ UNCHANGED <<timerVars, deferredVars, watchVars, otherVars>>

\* The watch of the subloop's own epoll descriptor only sets its poll flag.
AddSubloop(s) ==
    /\ App /\ Allocate(s)
    /\ subloops' = Append(subloops, s)
    /\ UNCHANGED <<wakeups, timerVars, deferredVars, watchVars>>

DelSubloop(s) ==
    /\ App /\ MarkDeleted(s)
    /\ UNCHANGED <<timerVars, deferredVars, watchVars, otherVars>>

MainloopQuit ==
    /\ App /\ Keep
    /\ stage \notin {"setup", "exit"} /\ ~quit
    /\ quit' = TRUE
    /\ UNCHANGED <<timerVars, deferredVars, watchVars, otherVars>>

Earlier_Wraps(n) == [t \in Timers |-> left[t] - n]

Earlier(n) == [t \in Timers |-> IF left[t] <= n THEN 0 ELSE left[t] - n]

\* A callback that takes a tick of time.
TakeTime ==
    /\ App /\ Keep
    /\ \E t \in Timers : left[t] > 0
    /\ left' = Earlier(1)
    /\ UNCHANGED <<quit, timers, next_timer, msecs, deferredVars, watchVars, otherVars>>

-----------------------------------------------------------------------------
(* I/O watches.                                                              *)

LiveOn(f) == {w \in Watches : Live(w) /\ watch[w].fd = f}

\* epoll_event_mask of a master's list, but for one watch.
EventMask(m, ignore, of) ==
    UNION {of[w].events : w \in ({m} \cup Range(slaves[m])) \ {ignore}}

\* mrp_add_io_watch, epoll_add, epoll_add_slave
AddWatch(w, f, mask) ==
    /\ App /\ Allocate(w)
    /\ f \in used
    /\ watch' = [watch EXCEPT ![w] = [fd |-> f, events |-> mask, wrhup |-> 0]]
    /\ \/ /\ fdtbl[f] = None
          /\ epoll[f] = None
          /\ fdtbl' = [fdtbl EXCEPT ![f] = w]
          /\ epoll' = [epoll EXCEPT ![f] = mask]
          /\ iowatches' = iowatches \cup {w}
          /\ slaves' = [slaves EXCEPT ![w] = <<>>]
       \/ /\ fdtbl[f] # None
          /\ epoll[f] # None
          /\ epoll' = [epoll EXCEPT ![f] = EventMask(fdtbl[f], None, watch) \cup mask]
          /\ slaves' = [slaves EXCEPT ![fdtbl[f]] = Append(@, w), ![w] = <<>>]
          /\ UNCHANGED <<fdtbl, iowatches>>
    /\ UNCHANGED <<hung, timerVars, deferredVars, otherVars>>

\* mrp_del_io_watch, epoll_del
DelWatch(w) ==
    LET f == watch[w].fd
        m == IF w \in iowatches THEN w ELSE fdtbl[f]
        mask == IF m = None THEN {} ELSE EventMask(m, w, watch')
    IN
    /\ App /\ MarkDeleted(w)
    /\ watch' = [watch EXCEPT ![w].events = {}]
    /\ fdtbl' = IF m # None /\ mask = {} THEN [fdtbl EXCEPT ![f] = None] ELSE fdtbl
    /\ epoll' = [epoll EXCEPT ![f] = IF m = None \/ @ = None THEN @
                                     ELSE IF mask = {} THEN None ELSE mask]
    /\ UNCHANGED <<iowatches, slaves, hung, timerVars, deferredVars, otherVars>>

\* The application closes a descriptor nobody watches any more and opens another
\* file, which gets the same number; not while events of the old file wait to be
\* dispatched, which would be taken for events of the new one.
Reopen(f) ==
    /\ App /\ Keep
    /\ f \in hung
    /\ LiveOn(f) = {}
    /\ \A i \in DOMAIN ready : ready[i].fd # f
    /\ stage \notin {"io", "master", "slaves"}
    /\ hung' = hung \ {f}
    /\ epoll' = [epoll EXCEPT ![f] = None]
    /\ UNCHANGED <<quit, watch, iowatches, slaves, fdtbl, timerVars, deferredVars, otherVars>>

-----------------------------------------------------------------------------
(* One iteration: prepare, poll, dispatch, purge.                            *)

AppVars == <<used, state, deleted, timerVars, deferredVars, watchVars, otherVars, quit, broken>>

\* The loop calls o back, or passes it by.
Call(o) == calling' = o /\ budget' = Calls
Skip == UNCHANGED <<calling, budget>>

\* The pass over a list is over, or was broken off: go on with the next stage.
Enter(s, o) == stage' = s /\ next' = o

Walking(s) == stage = s /\ calling = None

Run ==
    /\ stage = "setup"
    /\ stage' = "prepare"
    /\ budget' = 0
    /\ UNCHANGED <<AppVars, next, calling, due, ready, master, events, poll_timeout,
                   ext_timeout>>

Timeout_TimersOnly == IF next_timer = None THEN Forever ELSE left[next_timer]

\* mrp_mainloop_prepare computes the timeout first, and asks the subloops then.
Timeout ==
    IF deferred # <<>> THEN 0
    ELSE IF next_timer = None THEN Forever
    ELSE left[next_timer]

Prepare ==
    /\ stage = "prepare"
    /\ poll_timeout' = Timeout
    /\ ext_timeout' = INT_MAX
    /\ Enter("query", First(subloops))
    /\ UNCHANGED <<AppVars, budget, calling, due, ready, master, events>>

\* When a subloop wants to be polled again, if ever.
Wanted == {Forever} \cup 0..MaxInterval

Least(a, b) == IF a < b THEN a ELSE b

\* prepare_subloop: a subloop that is ready is dispatched at once, and queried
\* for its descriptors and its timeout then, even if it was deleted meanwhile.
\* What runs inside calls the loop only with the habit "busy_subloop".
Query(s) ==
    \/ /\ Live(s)
       /\ \E e \in Wanted : ext_timeout' = Least(ext_timeout, e)
       /\ UNCHANGED broken
    \/ /\ ~Live(s)
       /\ broken' = TRUE
       /\ UNCHANGED ext_timeout

VisitQuery ==
    /\ Walking("query") /\ next # None
    /\ next' = After(subloops, next)
    /\ \/ ~Live(next) /\ Skip /\ UNCHANGED <<ext_timeout, broken>>
       \/ Live(next) /\ Skip /\ Query(next)
       \/ /\ Live(next)
          /\ calling' = next
          /\ budget' = IF "busy_subloop" \in Habits THEN Calls ELSE 0
          /\ UNCHANGED <<ext_timeout, broken>>
    /\ UNCHANGED <<used, state, deleted, timerVars, deferredVars, watchVars, otherVars, quit,
                   stage, due, ready, master, events, poll_timeout>>

QueryDone ==
    /\ Walking("query") /\ next = None
    /\ poll_timeout' = IF ext_timeout = Forever THEN poll_timeout
                       ELSE Least(poll_timeout, ext_timeout)
    /\ Enter("poll", None)
    /\ UNCHANGED <<AppVars, budget, calling, due, ready, master, events, ext_timeout>>

\* What the kernel may report: some of the registered descriptors, each with
\* some of the events it is registered for or a hang-up of both ends.
Reports ==
    LET Some == {f \in Fds : epoll[f] # None}
        Report == {r \in [fd : Some, ev : Reported] : r.ev \subseteq epoll[r.fd] \cup {"hup"}}
    IN {<<>>} \cup {<<r>> : r \in Report}
       \cup {p \in Report \X Report : p[1].fd # p[2].fd}

\* mrp_mainloop_poll: until the timeout, or until there are events, or until a
\* signal interrupts the wait, which looks like a timeout.  Then dispatch_wakeup
\* starts, unless the timeout was 0.
Poll ==
    /\ stage = "poll"
    /\ \E n \in 0..(IF poll_timeout = Forever THEN MaxInterval ELSE poll_timeout) :
          left' = Earlier(n)
    /\ ready' \in Reports
    /\ Enter("wakeup", IF poll_timeout = 0 THEN None ELSE First(wakeups))
    /\ UNCHANGED <<used, state, deleted, timers, next_timer, msecs, deferredVars,
                   watchVars, otherVars, quit, broken, budget, calling, due, master,
                   events, poll_timeout,
                   ext_timeout>>

VisitWakeup ==
    /\ Walking("wakeup") /\ next # None
    /\ next' = After(wakeups, next)
    /\ IF Live(next) THEN Call(next) ELSE Skip
    /\ UNCHANGED <<AppVars, stage, due, ready, master, events, poll_timeout,
                   ext_timeout>>

WakeupsDone ==
    /\ Walking("wakeup") /\ next = None
    /\ Enter("deferred", First(deferred))
    /\ UNCHANGED <<AppVars, budget, calling, due, ready, master, events, poll_timeout,
                   ext_timeout>>

Deactivate_Unasked(d) ==
    IF Live(d)
    THEN /\ deferred' = Unlink(deferred, d)
         /\ inactive_deferred' = Append(Unlink(inactive_deferred, d), d)
    ELSE UNCHANGED <<deferred, inactive_deferred>>

\* disable_deferred
Deactivate(d) ==
    IF Live(d) /\ d \in disabled
    THEN /\ deferred' = Unlink(deferred, d)
         /\ inactive_deferred' = Append(Unlink(inactive_deferred, d), d)
    ELSE UNCHANGED <<deferred, inactive_deferred>>

VisitDeferred ==
    /\ Walking("deferred") /\ next # None
    /\ next' = After(deferred, next)
    /\ IF Live(next) /\ next \notin disabled
       THEN Call(next) /\ UNCHANGED <<deferred, inactive_deferred>>
       ELSE Skip /\ Deactivate(next)
    /\ UNCHANGED <<used, state, deleted, timerVars, disabled, watchVars, otherVars, quit,
                   broken, stage, due, ready, master, events, poll_timeout,
                   ext_timeout>>

\* dispatch_timers reads the clock once.
DeferredsDone ==
    /\ Walking("deferred") /\ next = None
    /\ Enter("timers", First(timers))
    /\ due' = {t \in Timers : left[t] = 0}
    /\ UNCHANGED <<AppVars, budget, calling, ready, master, events, poll_timeout,
                   ext_timeout>>

\* The walk ends at the first live timer that has not expired.
TimersOver == next # None => (Live(next) /\ next \notin due)

VisitTimer ==
    /\ Walking("timers") /\ ~TimersOver
    /\ next' = After(timers, next)
    /\ IF Live(next) THEN Call(next) ELSE Skip
    /\ UNCHANGED <<AppVars, stage, due, ready, master, events, poll_timeout,
                   ext_timeout>>

TimersDone ==
    /\ Walking("timers") /\ TimersOver
    /\ Enter("io", None)
    /\ due' = {}
    /\ UNCHANGED <<AppVars, budget, calling, ready, master, events, poll_timeout,
                   ext_timeout>>

Rearm_Unlinked(t) ==
    /\ left' = [left EXCEPT ![t] = msecs[t]]
    /\ timers' = Unlink(timers, t)
    /\ due' = due \ {t}
    /\ UNCHANGED next_timer

\* rearm_timer: next_timer is only replaced by an earlier one.
Rearm(t) ==
    IF Live(t)
    THEN /\ left' = [left EXCEPT ![t] = msecs[t]]
         /\ timers' = InsertTimer(Unlink(timers, t), t, left', state)
         /\ next_timer' = NextAfterInsert(t, left')
         /\ due' = due \ {t}
    ELSE UNCHANGED <<timers, next_timer, left, due>>

\* dispatch_slaves: a slave is not told what the master or an earlier slave
\* reads or writes.
StartSlaves(w) ==
    /\ Enter("slaves", First(slaves[w]))
    /\ events' = Head(ready).ev \ (InOut \cap watch[w].events)

\* dispatch_poll_events: the descriptor is looked up again for each event.
VisitEvent ==
    /\ Walking("io") /\ ready # <<>>
    /\ LET w == fdtbl[Head(ready).fd] IN
       \/ /\ w = None
          /\ ready' = Tail(ready)
          /\ Skip /\ UNCHANGED <<stage, next, master, events>>
       \/ /\ w # None
          /\ master' = w
          /\ IF Live(w) THEN /\ Call(w)
                             /\ Enter("master", None) /\ UNCHANGED events
                        ELSE Skip /\ StartSlaves(w)
          /\ UNCHANGED ready
    /\ UNCHANGED <<AppVars, due, poll_timeout,
                   ext_timeout>>

VisitSlave ==
    /\ Walking("slaves") /\ next # None /\ events # {}
    /\ next' = After(slaves[master], next)
    /\ IF Live(next) THEN Call(next) ELSE Skip
    /\ UNCHANGED <<AppVars, stage, due, ready, master, events, poll_timeout,
                   ext_timeout>>

\* A descriptor that hung up is not polled any more; nor is one whose watch
\* does not react to hang-ups of both ends.
EventDone ==
    LET e == Head(ready)
        f == watch[master].fd
        both == "rdhup" \notin e.ev /\ "hup" \in e.ev /\ Live(master)
        drop == "rdhup" \in e.ev \/ (both /\ watch[master].wrhup > HupLimit)
    IN
    /\ Walking("slaves") /\ (next = None \/ events = {})
    /\ fdtbl' = IF drop THEN [fdtbl EXCEPT ![f] = None] ELSE fdtbl
    /\ epoll' = IF drop THEN [epoll EXCEPT ![f] = None] ELSE epoll
    /\ hung' = IF drop THEN hung \cup {f} ELSE hung
    /\ watch' = IF both THEN [watch EXCEPT ![master].wrhup = Least(@ + 1, HupLimit + 1)]
                ELSE watch
    /\ ready' = Tail(ready)
    /\ Enter(IF quit THEN "purge" ELSE "io", None)
    /\ master' = None /\ events' = {}
    /\ UNCHANGED <<used, state, deleted, timerVars, deferredVars, iowatches, slaves,
                   otherVars, quit, broken, budget, calling, due, poll_timeout,
                   ext_timeout>>

IoDone ==
    /\ Walking("io") /\ ready = <<>>
    /\ Enter("subloops", First(subloops))
    /\ UNCHANGED <<AppVars, budget, calling, due, ready, master, events, poll_timeout,
                   ext_timeout>>

\* dispatch_subloops: check tells whether there is something to dispatch.
VisitSubloop ==
    /\ Walking("subloops") /\ next # None
    /\ next' = After(subloops, next)
    /\ Skip \/ (Live(next) /\ Call(next))
    /\ UNCHANGED <<AppVars, stage, due, ready, master, events, poll_timeout,
                   ext_timeout>>

SubloopsDone ==
    /\ Walking("subloops") /\ next = None
    /\ Enter("purge", None)
    /\ UNCHANGED <<AppVars, budget, calling, due, ready, master, events, poll_timeout,
                   ext_timeout>>

\* The callback returns: what its list's walk does then, and the test for quit,
\* which the walk over the slaves and over the subloops leaves out.
Return ==
    /\ calling # None
    /\ calling' = None /\ budget' = 0
    /\ IF stage \in {"wakeup", "deferred", "timers"} /\ quit
       THEN Enter("purge", None)
       ELSE (stage = "master" \/ UNCHANGED <<stage, next>>)
    /\ IF stage = "timers" THEN Rearm(calling)
                           ELSE UNCHANGED <<timers, next_timer, left, due>>
    /\ IF stage = "deferred" THEN Deactivate(calling)
                             ELSE UNCHANGED <<deferred, inactive_deferred>>
    /\ IF stage = "query" THEN Query(calling) ELSE UNCHANGED <<ext_timeout, broken>>
    /\ CASE stage = "master" -> StartSlaves(calling)
         [] stage = "slaves" -> events' = events \ (InOut \cap watch[calling].events)
         [] OTHER -> UNCHANGED events
    /\ UNCHANGED <<used, state, deleted, msecs, disabled, watchVars, otherVars, quit,
                   ready, master, poll_timeout>>

FreeIoWatch_NoHeir(o) ==
    /\ iowatches' = iowatches \ {o}
    /\ fdtbl' = IF o \notin Watches THEN fdtbl
                ELSE [fdtbl EXCEPT ![watch[o].fd] = IF @ = o THEN None ELSE @]
    /\ slaves' = [w \in Watches |-> IF w = o THEN <<>> ELSE Unlink(slaves[w], o)]

\* free_io_watch, for a watch: the first slave of a master takes its place.
FreeIoWatch(o) ==
    LET f == watch[o].fd
        q == slaves[o]
    IN
    IF o \in Watches /\ fdtbl[f] = o /\ q # <<>>
    THEN /\ iowatches' = (iowatches \ {o}) \cup {q[1]}
         /\ fdtbl' = [fdtbl EXCEPT ![f] = q[1]]
         /\ slaves' = [slaves EXCEPT ![q[1]] = Tail(q), ![o] = <<>>]
    ELSE /\ iowatches' = iowatches \ {o}
         /\ fdtbl' = IF o \in Watches THEN [fdtbl EXCEPT ![f] = IF @ = o THEN None ELSE @]
                     ELSE fdtbl
         /\ slaves' = [w \in Watches |-> IF w = o THEN <<>> ELSE Unlink(slaves[w], o)]

\* One entry of ml->deleted in purge_deleted: it is in one of the lists.
Purge ==
    /\ stage = "purge" /\ deleted # <<>>
    /\ LET o == Head(deleted) IN
       /\ FreeIoWatch(o)
       /\ state' = [state EXCEPT ![o] = "free"]
       /\ timers' = Unlink(timers, o)
       /\ deferred' = Unlink(deferred, o)
       /\ inactive_deferred' = Unlink(inactive_deferred, o)
       /\ wakeups' = Unlink(wakeups, o) /\ subloops' = Unlink(subloops, o)
       /\ disabled' = disabled \ {o}
       /\ left' = [t \in Timers |-> IF t = o THEN 0 ELSE left[t]]
       /\ msecs' = [t \in Timers |-> IF t = o THEN 0 ELSE msecs[t]]
       /\ watch' = [w \in Watches |-> IF w = o THEN [fd |-> None, events |-> {}, wrhup |-> 0]
                                      ELSE watch[w]]
    /\ deleted' = Tail(deleted)
    /\ UNCHANGED <<used, next_timer, epoll, hung, quit, broken, loopVars, budget>>

\* The iteration is over.
PurgeDone ==
    /\ stage = "purge" /\ deleted = <<>>
    /\ stage' = IF quit THEN "exit" ELSE "prepare"
    /\ budget' = IF quit THEN Calls ELSE 0
    /\ ready' = <<>>
    /\ UNCHANGED <<AppVars, next, calling, due, master, events, poll_timeout, ext_timeout>>

\* mrp_mainloop_destroy: every list is freed, then what is left of ml->deleted.
\* purge_io_watches takes masters off ml->deleted before it frees them, but not
\* their slaves: one deleted after the last iteration is freed again.
DoomedSlaves ==
    {s \in Watches : state[s] = "deleted" /\ \E w \in iowatches : Has(slaves[w], s)}

Destroy ==
    /\ stage = "exit"
    /\ DoomedSlaves = {} \/ "late_slave" \in Habits
    /\ broken' = (DoomedSlaves # {})
    /\ stage' = "over"
    /\ budget' = 0
    /\ UNCHANGED <<used, state, deleted, timerVars, deferredVars, watchVars, otherVars, quit,
                   next, calling, due, ready, master, events, poll_timeout,
                   ext_timeout>>

-----------------------------------------------------------------------------
Application ==
    \/ \E t \in Timers : DelTimer(t) \/ \E n \in 1..MaxInterval : AddTimer(t, n)
    \/ \E d \in Deferreds : AddDeferred(d) \/ DelDeferred(d) \/ DisableDeferred(d)
                            \/ EnableDeferred(d)
    \/ \E w \in Watches : DelWatch(w) \/ \E f \in Fds, m \in Masks : AddWatch(w, f, m)
    \/ \E f \in Fds : Reopen(f)
    \/ \E w \in Wakeups : AddWakeup(w) \/ DelWakeup(w)
    \/ \E s \in Subloops : AddSubloop(s) \/ DelSubloop(s)
    \/ MainloopQuit \/ TakeTime

Dispatch ==
    \/ VisitQuery \/ QueryDone
    \/ VisitWakeup \/ WakeupsDone \/ VisitDeferred \/ DeferredsDone
    \/ VisitTimer \/ TimersDone \/ VisitEvent \/ VisitSlave \/ EventDone \/ IoDone
    \/ VisitSubloop \/ SubloopsDone \/ Return

Loop == Run \/ Prepare \/ Poll \/ Dispatch \/ Purge \/ PurgeDone

Next == Application \/ Loop \/ Destroy

Spec == Init /\ [][Next]_vars

-----------------------------------------------------------------------------
TypeOK ==
    /\ used \in Mixes
    /\ state \in [Objects -> {"free", "live", "deleted"}]
    /\ deleted \in Seq(Objects)
    /\ timers \in Seq(Timers) /\ next_timer \in Timers \cup {None}
    /\ {left, msecs} \subseteq [Timers -> 0..MaxInterval]
    /\ {deferred, inactive_deferred} \subseteq Seq(Deferreds)
    /\ disabled \subseteq Deferreds
    /\ wakeups \in Seq(Wakeups) /\ subloops \in Seq(Subloops)
    /\ watch \in [Watches -> [fd : Fds \cup {None}, events : SUBSET Events,
                              wrhup : 0..HupLimit + 1]]
    /\ iowatches \subseteq Watches
    /\ slaves \in [Watches -> Seq(Watches)]
    /\ fdtbl \in [Fds -> Watches \cup {None}]
    /\ epoll \in [Fds -> (SUBSET Events) \cup {None}]
    /\ hung \subseteq Fds
    /\ next \in Objects \cup {None} /\ calling \in Objects \cup {None}
    /\ budget \in 0..Calls + 1
    /\ due \subseteq Timers
    /\ ready \in Seq([fd : Fds, ev : SUBSET Events])
    /\ master \in Watches \cup {None} /\ events \subseteq Events
    /\ poll_timeout \in {Forever} \cup 0..MaxInterval
    /\ ext_timeout \in {Forever} \cup 0..INT_MAX
    /\ {quit, broken} \subseteq BOOLEAN
\* Whatever the loop still points at is allocated: the entries of its lists and
\* tables, the saved next entry of the list it walks, the watch whose event it
\* dispatches, the next timer.  Objects are deleted by callbacks in the middle
\* of these walks, and freed when an iteration ends (purge_deleted); nothing is
\* freed twice.
Pointers ==
    {next_timer, next, calling, master} \cup Range(fdtbl) \cup iowatches
    \cup UNION {Range(q) : q \in {timers, deferred, inactive_deferred, wakeups, subloops,
                                  deleted} \cup Range(slaves)}

NothingFreedIsUsed ==
    /\ ~broken
    /\ \A o \in Pointers \ {None} : state[o] # "free"

\* The loop survives what its callbacks do to it: see the two parts.
Sound == TypeOK /\ NothingFreedIsUsed

\* Every live watch is reached by the events of its descriptor: it is the watch
\* in the descriptor table or a slave of it, and the kernel has exactly the
\* events the live watches of the descriptor ask for.  The master may be deleted
\* with slaves left, and slaves be added behind a deleted master, before a slave
\* takes its place.  Excepted are descriptors that hung up.
FdsArePolled ==
    \A f \in Fds \ hung :
        IF LiveOn(f) = {} THEN epoll[f] = None
        ELSE /\ fdtbl[f] # None
             /\ LiveOn(f) \subseteq {fdtbl[f]} \cup Range(slaves[fdtbl[f]])
             /\ epoll[f] = UNION {watch[w].events : w \in LiveOn(f)}

\* What is armed is never forgotten: a live timer is on the sorted list, and
\* next_timer is set; a deferred callback is on one list, and if it is enabled on
\* the one that is dispatched, however it was disabled and enabled by its own or
\* by other callbacks.
Queued ==
    /\ \A t \in Timers : Live(t) => Has(timers, t)
    /\ \A i, j \in DOMAIN timers :
          (i < j /\ Live(timers[i]) /\ Live(timers[j])) => left[timers[i]] <= left[timers[j]]
    /\ (next_timer # None) <=> (\E t \in Timers : Live(t))
    /\ NoRepeat(timers) /\ NoRepeat(deferred \o inactive_deferred)
    /\ \A d \in Deferreds : Live(d) =>
          Has(IF d \in disabled THEN deferred \o inactive_deferred ELSE deferred, d)

\* The loop sleeps without a timeout only if there is nothing to wait for.
SleepsOnlyIdle ==
    (stage = "poll" /\ poll_timeout = Forever) =>
        /\ \A t \in Timers : ~Live(t)
        /\ \A d \in Deferreds : Live(d) => d \in disabled

\* What is armed is never forgotten: neither lost from the lists the loop walks,
\* nor from the kernel's table of descriptors, nor slept through.
NothingForgotten == Queued /\ FdsArePolled /\ SleepsOnlyIdle

\* The loop wakes up when the first timer expires (the comment on next_timer:
\* "next expiring timer").  It does NOT hold and no run checks it: a timer that
\* is re-armed while it is next_timer stays next_timer.
WakesInTime ==
    (stage = "poll" /\ poll_timeout # 0) =>
        \A t \in Timers : Live(t) => (poll_timeout # Forever /\ poll_timeout <= left[t])

-----------------------------------------------------------------------------
(* The loop goes on whenever it can; callbacks return.                       *)

FairSpec == Spec /\ WF_vars(Loop)

\* As long as iterations end, a timer that has expired is called, or gone.
IterationsEnd == []<>(stage = "purge")

TimersServed ==
    IterationsEnd =>
        \A t \in Timers : (Live(t) /\ left[t] = 0) ~> (calling = t \/ ~Live(t) \/ quit)

\* As long as iterations end, a deferred callback that is enabled is called, or
\* disabled, or gone, whatever the callbacks before it in the list do to the list.
DeferredsServed ==
    IterationsEnd =>
        \A d \in Deferreds :
            (Live(d) /\ d \notin disabled)
                ~> (calling = d \/ ~Live(d) \/ d \in disabled \/ quit)

\* Timers and deferred callbacks are served, together: neither starves the other.
DueIsServed == TimersServed /\ DeferredsServed
=============================================================================
