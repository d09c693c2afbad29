---------------------------- MODULE MainloopProofs ----------------------------
(***************************************************************************)
(* Proofs about the main loop, for any objects, descriptors, intervals and *)
(* callbacks: whatever callbacks add, delete, enable and disable while the *)
(* loop walks its lists, it never touches what was freed, and what is      *)
(* armed stays on the lists it walks and in the table of the kernel.       *)
(***************************************************************************)
EXTENDS Mainloop, SequenceTheorems, FiniteSetTheorems, WellFoundedInduction, TLAPS

(* The list q has every allocated object of S once, deleted ones included.    *)
Holds(q, S) ==
    /\ q \in Seq(S) /\ NoRepeat(q)
    /\ \A o \in S : Has(q, o) <=> state[o] # "free"

(* What was deleted waits for purge_deleted, once.                            *)
StateInv ==
    /\ state \in [Objects -> {"free", "live", "deleted"}]
    /\ deleted \in Seq(Objects) /\ NoRepeat(deleted)
    /\ \A o \in Objects : Has(deleted, o) <=> state[o] = "deleted"

Sorted ==
    \A i, j \in DOMAIN timers :
        (i < j /\ Live(timers[i]) /\ Live(timers[j])) => left[timers[i]] <= left[timers[j]]

TimerInv ==
    /\ Holds(timers, Timers)
    /\ left \in [Timers -> 0..MaxInterval] /\ msecs \in [Timers -> 0..MaxInterval]
    /\ Sorted
    /\ next_timer \in Timers \cup {None}
    /\ next_timer # None => Live(next_timer)
    /\ next_timer = None => \A t \in Timers : ~Live(t)

DeferredInv ==
    /\ deferred \in Seq(Deferreds) /\ NoRepeat(deferred)
    /\ inactive_deferred \in Seq(Deferreds) /\ NoRepeat(inactive_deferred)
    /\ disabled \subseteq Deferreds
    /\ \A d \in Deferreds :
          /\ ~(Has(deferred, d) /\ Has(inactive_deferred, d))
          /\ (Has(deferred, d) \/ Has(inactive_deferred, d)) <=> state[d] # "free"
          /\ Live(d) /\ d \notin disabled => Has(deferred, d)

OtherInv == Holds(wakeups, Wakeups) /\ Holds(subloops, Subloops)

WatchTypes ==
    /\ watch \in [Watches -> [fd : Fds \cup {None}, events : SUBSET Events,
                              wrhup : 0..(HupLimit + 1)]]
    /\ iowatches \subseteq Watches
    /\ slaves \in [Watches -> Seq(Watches)]
    /\ fdtbl \in [Fds -> Watches \cup {None}]
    /\ epoll \in [Fds -> (SUBSET Events) \cup {None}]
    /\ hung \subseteq Fds

(* A watch is of a descriptor until it is freed and asks for events until it  *)
(* is deleted.  The table of descriptors leads to masters, the slaves of a    *)
(* master are of its descriptor, and no watch is behind two.                  *)
WatchInv ==
    /\ WatchTypes
    /\ \A w \in Watches : /\ state[w] # "free" => watch[w].fd \in Fds
                          /\ Live(w) <=> watch[w].events # {}
    /\ \A f \in Fds : fdtbl[f] # None => fdtbl[f] \in iowatches /\ watch[fdtbl[f]].fd = f
    /\ \A w \in iowatches : state[w] # "free"
    /\ \A m \in Watches : NoRepeat(slaves[m])
    /\ \A m, s \in Watches : Has(slaves[m], s) =>
          /\ state[s] # "free" /\ watch[s].fd = watch[m].fd
          /\ m \in iowatches /\ s \notin iowatches
          /\ \A n \in Watches : Has(slaves[n], s) => n = m
    /\ FdsArePolled

Stages == {"setup", "prepare", "query", "poll", "wakeup", "deferred", "timers", "io",
           "master", "slaves", "subloops", "purge", "exit", "over"}

(* The list that a stage walks: o is on it.                                   *)
OnWalk(o) ==
    \/ stage \in {"query", "subloops"} /\ Has(subloops, o)
    \/ stage = "wakeup" /\ Has(wakeups, o)
    \/ stage = "deferred" /\ Has(deferred, o) /\ o # calling
    \/ stage = "timers" /\ Has(timers, o)
    \/ stage = "slaves" /\ Has(slaves[master], o)

(* Whose callbacks a stage runs.                                              *)
Called(o) ==
    \/ stage \in {"query", "subloops"} /\ o \in Subloops
    \/ stage = "wakeup" /\ o \in Wakeups
    \/ stage = "deferred" /\ o \in Deferreds
    \/ stage = "timers" /\ o \in Timers
    \/ stage = "master" /\ o = master
    \/ stage = "slaves" /\ o \in Watches

(* What the loop keeps while callbacks run is still there when they return.   *)
WalkInv ==
    /\ used \in Mixes /\ stage \in Stages
    /\ next # None => OnWalk(next)
    /\ calling # None => Called(calling) /\ state[calling] # "free"
    /\ master # None => master \in iowatches /\ stage \in {"master", "slaves"}
    /\ stage \in {"master", "slaves"} => master # None /\ ready # <<>>
    /\ budget \in 0..(Calls + 1)
    /\ due \subseteq Timers
    /\ ready \in Seq([fd : Fds, ev : SUBSET Events]) /\ events \subseteq Events
    /\ poll_timeout \in {Forever} \cup 0..MaxInterval
    /\ ext_timeout \in {Forever} \cup 0..INT_MAX
    /\ quit \in BOOLEAN /\ broken \in BOOLEAN

(* The subloops that are asked change nothing, and nothing is pending when the *)
(* loop is about to sleep without a timeout.                                  *)
IdleInv ==
    /\ "late_slave" \notin Habits => ~broken
    /\ stage = "query" /\ calling # None => budget = 0 /\ Live(calling)
    /\ stage \in {"query", "poll"} /\ poll_timeout = Forever =>
          deferred = <<>> /\ next_timer = None

(* The lists and tables.                                                      *)
Data == StateInv /\ TimerInv /\ DeferredInv /\ OtherInv /\ WatchInv

Inv == Data /\ WalkInv /\ IdleInv

-----------------------------------------------------------------------------
(* Lists *)

\* mrp_list_delete, element by element.
LEMMA UnlinkElements ==
    ASSUME NEW S, NEW q \in Seq(S), NEW s, NEW p \in 1..Len(q), q[p] = s,
           p = Position(q, s)
    PROVE  /\ Unlink(q, s) \in Seq(S)
           /\ Len(Unlink(q, s)) = Len(q) - 1
           /\ \A j \in 1..(Len(q) - 1) :
                Unlink(q, s)[j] = IF j < p THEN q[j] ELSE q[j + 1]
<1> DEFINE a == SubSeq(q, 1, p - 1)
           b == SubSeq(q, p + 1, Len(q))
<1>1. Unlink(q, s) = a \o b
  <2>1. Has(q, s)
    BY DEF Has
  <2>2. QED BY <2>1 DEF Unlink
<1>2. /\ a \in Seq(S) /\ Len(a) = p - 1
      /\ \A j \in 1..(p - 1) : a[j] = q[j]
  OBVIOUS
<1>3. /\ b \in Seq(S) /\ Len(b) = Len(q) - p
      /\ \A j \in 1..(Len(q) - p) : b[j] = q[p + j]
  OBVIOUS
<1> HIDE DEF a, b
<1>4. /\ a \o b \in Seq(S)
      /\ Len(a \o b) = Len(q) - 1
      /\ \A j \in 1..(Len(q) - 1) :
           (a \o b)[j] = IF j < p THEN a[j] ELSE b[j - p + 1]
  BY <1>2, <1>3, ConcatProperties
<1>5. ASSUME NEW j \in 1..(Len(q) - 1)
      PROVE  (a \o b)[j] = IF j < p THEN q[j] ELSE q[j + 1]
  <2>1. CASE j < p
    BY <2>1, <1>2, <1>4
  <2>2. CASE ~(j < p)
    <3>1. j - p + 1 \in 1..(Len(q) - p) /\ p + (j - p + 1) = j + 1
      BY <2>2
    <3>2. QED BY <2>2, <3>1, <1>3, <1>4
  <2>3. QED BY <2>1, <2>2
<1>6. QED BY <1>1, <1>4, <1>5

\* Deleting an element keeps all others, and leaves no trace of a single one.
LEMMA UnlinkMembers ==
    ASSUME NEW S, NEW q \in Seq(S), NEW s
    PROVE  /\ Unlink(q, s) \in Seq(S)
           /\ \A t : t # s => (Has(Unlink(q, s), t) <=> Has(q, t))
           /\ NoRepeat(q) => NoRepeat(Unlink(q, s)) /\ ~Has(Unlink(q, s), s)
<1>1. CASE ~Has(q, s)
  BY <1>1 DEF Has, Unlink
<1>2. CASE Has(q, s)
  <2> DEFINE u == Unlink(q, s)
             p == Position(q, s)
  <2>1. p \in 1..Len(q) /\ q[p] = s
    BY <1>2 DEF Has, Position
  <2>2. /\ u \in Seq(S) /\ Len(u) = Len(q) - 1
        /\ \A j \in 1..(Len(q) - 1) : u[j] = IF j < p THEN q[j] ELSE q[j + 1]
    BY <2>1, UnlinkElements
  <2> HIDE DEF u, p
  <2>3. ASSUME NEW t, t # s, Has(q, t)
        PROVE  Has(u, t)
    <3>1. PICK i \in 1..Len(q) : q[i] = t
      BY <2>3 DEF Has
    <3>2. CASE i < p
      BY <3>1, <3>2, <2>1, <2>2 DEF Has
    <3>3. CASE i > p
      <4>1. i - 1 \in 1..(Len(q) - 1) /\ u[i - 1] = t
        BY <3>1, <3>3, <2>1, <2>2
      <4>2. QED BY <4>1, <2>2 DEF Has
    <3>4. i # p
      BY <3>1, <2>1, <2>3
    <3>5. QED BY <3>1, <3>2, <3>3, <3>4, <2>1
  <2>4. ASSUME NEW t, Has(u, t)
        PROVE  Has(q, t)
    BY <2>4, <2>1, <2>2 DEF Has
  <2>5. ASSUME NoRepeat(q)
        PROVE  NoRepeat(u) /\ ~Has(u, s)
    <3>1. ~Has(u, s)
      BY <2>5, <2>1, <2>2 DEF Has, NoRepeat
    <3>2. ASSUME NEW i \in 1..(Len(q) - 1), NEW j \in 1..(Len(q) - 1),
                 u[i] = u[j]
          PROVE  i = j
      <4> DEFINE n(k) == IF k < p THEN k ELSE k + 1
      <4>1. \A k \in 1..(Len(q) - 1) : n(k) \in 1..Len(q) /\ u[k] = q[n(k)]
        BY <2>1, <2>2
      <4>2. n(i) = n(j)
        <5> HIDE DEF n
        <5> QED BY <4>1, <3>2, <2>5 DEF NoRepeat
      <4>3. QED BY <4>2, <2>1
    <3>3. QED BY <3>1, <3>2, <2>2 DEF NoRepeat
  <2>6. QED BY <2>2, <2>3, <2>4, <2>5 DEF u
<1>3. QED BY <1>1, <1>2

\* mrp_list_append, element by element.
LEMMA InsertElements ==
    ASSUME NEW S, NEW q \in Seq(S), NEW s \in S, NEW i \in 0..Len(q)
    PROVE  /\ Insert(q, i, s) \in Seq(S)
           /\ Len(Insert(q, i, s)) = Len(q) + 1
           /\ \A j \in 1..(Len(q) + 1) :
                Insert(q, i, s)[j] = IF j <= i THEN q[j]
                                     ELSE IF j = i + 1 THEN s ELSE q[j - 1]
<1> DEFINE a == SubSeq(q, 1, i)
           b == SubSeq(q, i + 1, Len(q))
           m == a \o <<s>> \o b
<1>1. /\ a \in Seq(S) /\ Len(a) = i
      /\ \A j \in 1..i : a[j] = q[j]
  OBVIOUS
<1>2. /\ b \in Seq(S) /\ Len(b) = Len(q) - i
      /\ \A j \in 1..(Len(q) - i) : b[j] = q[i + j]
  OBVIOUS
<1>3. /\ m \in Seq(S) /\ Len(m) = Len(q) + 1
      /\ \A j \in 1..(Len(q) + 1) :
           m[j] = IF j <= i THEN a[j] ELSE IF j = i + 1 THEN s ELSE b[j - i - 1]
  <2> HIDE DEF a, b
  <2>1. /\ a \o <<s>> \in Seq(S) /\ Len(a \o <<s>>) = i + 1
        /\ \A j \in 1..(i + 1) : (a \o <<s>>)[j] = IF j <= i THEN a[j] ELSE s
    BY <1>1, ConcatProperties, <<s>> \in Seq(S)
  <2> DEFINE as == a \o <<s>>
  <2> HIDE DEF as
  <2>2. /\ as \o b \in Seq(S) /\ Len(as \o b) = Len(q) + 1
        /\ \A j \in 1..(Len(q) + 1) :
             (as \o b)[j] = IF j <= i + 1 THEN as[j] ELSE b[j - i - 1]
    <3>1. /\ as \in Seq(S) /\ Len(as) = i + 1
          /\ \A j \in 1..(i + 1) : as[j] = IF j <= i THEN a[j] ELSE s
      BY <2>1 DEF as
    <3>2. /\ as \o b \in Seq(S) /\ Len(as \o b) = Len(as) + Len(b)
          /\ \A j \in 1..(Len(as) + Len(b)) :
               (as \o b)[j] = IF j <= Len(as) THEN as[j] ELSE b[j - Len(as)]
      BY <3>1, <1>2, ConcatProperties
    <3>3. Len(as) + Len(b) = Len(q) + 1
      BY <3>1, <1>2
    <3>4. \A j \in 1..(Len(q) + 1) : j - Len(as) = j - i - 1
      BY <3>1
    <3>5. QED BY <3>1, <3>2, <3>3, <3>4
  <2>3. QED BY <2>1, <2>2 DEF as
<1>4. \A j \in 1..(Len(q) + 1) :
        m[j] = IF j <= i THEN q[j] ELSE IF j = i + 1 THEN s ELSE q[j - 1]
  <2> HIDE DEF a, b, m
  <2> SUFFICES ASSUME NEW j \in 1..(Len(q) + 1)
               PROVE  m[j] = IF j <= i THEN q[j]
                             ELSE IF j = i + 1 THEN s ELSE q[j - 1]
    OBVIOUS
  <2>1. CASE j <= i + 1
    BY <2>1, <1>1, <1>3
  <2>2. CASE j > i + 1
    <3>1. j - i - 1 \in 1..(Len(q) - i) /\ i + (j - i - 1) = j - 1
      BY <2>2
    <3>2. b[j - i - 1] = q[i + (j - i - 1)]
      BY <3>1, <1>2
    <3>3. m[j] = b[j - i - 1]
      BY <2>2, <1>3
    <3>4. QED BY <2>2, <3>1, <3>2, <3>3
  <2>3. QED BY <2>1, <2>2
<1> HIDE DEF m
<1>5. QED BY <1>3, <1>4 DEF m, Insert

\* Inserting an element keeps all others, and repeats none but itself.
LEMMA InsertMembers ==
    ASSUME NEW S, NEW q \in Seq(S), NEW s \in S, NEW i \in 0..Len(q)
    PROVE  /\ Insert(q, i, s) \in Seq(S)
           /\ \A t : Has(Insert(q, i, s), t) <=> (t = s \/ Has(q, t))
           /\ NoRepeat(q) /\ ~Has(q, s) => NoRepeat(Insert(q, i, s))
<1> DEFINE m == Insert(q, i, s)
<1>3. /\ m \in Seq(S) /\ Len(m) = Len(q) + 1
      /\ DOMAIN m = 1..(Len(q) + 1)
  BY InsertElements
<1>4. \A j \in 1..(Len(q) + 1) :
        m[j] = IF j <= i THEN q[j] ELSE IF j = i + 1 THEN s ELSE q[j - 1]
  BY InsertElements
<1> HIDE DEF m
<1>5. ASSUME NEW t
      PROVE  Has(m, t) <=> (t = s \/ Has(q, t))
  <2>1. ASSUME Has(m, t) PROVE t = s \/ Has(q, t)
    BY <2>1, <1>3, <1>4 DEF Has
  <2>2. Has(m, s)
    <3>1. i + 1 \in DOMAIN m /\ m[i + 1] = s
      BY <1>3, <1>4
    <3>2. QED BY <3>1 DEF Has
  <2>3. ASSUME NEW j \in 1..Len(q), q[j] = t PROVE Has(m, t)
    <3>1. CASE j <= i
      <4>1. j \in DOMAIN m /\ m[j] = t
        BY <3>1, <2>3, <1>3, <1>4
      <4>2. QED BY <4>1 DEF Has
    <3>2. CASE j > i
      <4>1. j + 1 \in DOMAIN m /\ m[j + 1] = t
        BY <3>2, <2>3, <1>3, <1>4
      <4>2. QED BY <4>1 DEF Has
    <3>3. QED BY <3>1, <3>2
  <2>4. QED BY <2>1, <2>2, <2>3 DEF Has
<1>6. ASSUME NoRepeat(q), ~Has(q, s)
      PROVE  NoRepeat(m)
  <2> SUFFICES ASSUME NEW j \in 1..(Len(q) + 1), NEW k \in 1..(Len(q) + 1),
                      m[j] = m[k]
               PROVE  j = k
    BY <1>3 DEF NoRepeat
  <2>1. \A l \in 1..Len(q) : q[l] # s
    BY <1>6 DEF Has
  <2>2. \A l, n \in 1..Len(q) : q[l] = q[n] => l = n
    BY <1>6 DEF NoRepeat
  <2> DEFINE n(x) == IF x <= i THEN x ELSE x - 1
  <2>3. \A k1 \in 1..(Len(q) + 1) :
          k1 # i + 1 => n(k1) \in 1..Len(q) /\ m[k1] = q[n(k1)]
    BY <1>4
  <2>4. m[i + 1] = s
    BY <1>4
  <2>5. CASE j = i + 1 \/ k = i + 1
    <3> HIDE DEF n
    <3> QED BY <2>1, <2>3, <2>4, <2>5
  <2>6. CASE j # i + 1 /\ k # i + 1
    <3>1. n(j) = n(k)
      <4> HIDE DEF n
      <4> QED BY <2>6, <2>2, <2>3
    <3>2. QED BY <3>1, <2>6
  <2>7. QED BY <2>5, <2>6
<1>7. QED BY <1>3, <1>5, <1>6 DEF m

-----------------------------------------------------------------------------
(* The order of a list *)

\* s comes before t.
Precedes(q, s, t) == \E i, j \in DOMAIN q : i < j /\ q[i] = s /\ q[j] = t

\* Deleting an entry keeps the order of the others.
LEMMA UnlinkOrder ==
    ASSUME NEW S, NEW q \in Seq(S), NEW s, NEW t, NEW u,
           Precedes(Unlink(q, s), t, u)
    PROVE  Precedes(q, t, u)
<1> DEFINE m == Unlink(q, s)
           p == Position(q, s)
<1>1. CASE ~Has(q, s)
  BY <1>1 DEF Unlink
<1>2. CASE Has(q, s)
  <2>1. p \in DOMAIN q /\ q[p] = s
    BY <1>2 DEF Has, Position
  <2>2. p \in 1..Len(q)
    BY <2>1
  <2>3. /\ m \in Seq(S) /\ Len(m) = Len(q) - 1
        /\ \A j \in 1..(Len(q) - 1) : m[j] = IF j < p THEN q[j] ELSE q[j + 1]
    BY <2>1, <2>2, UnlinkElements
  <2> DEFINE n(x) == IF x < p THEN x ELSE x + 1
  <2> HIDE DEF m, p
  <2>4. PICK i, j \in 1..(Len(q) - 1) : i < j /\ m[i] = t /\ m[j] = u
    BY <2>3 DEF Precedes, m
  <2>5. n(i) \in DOMAIN q /\ n(j) \in DOMAIN q /\ n(i) < n(j)
    BY <2>2, <2>4
  <2>6. q[n(i)] = t /\ q[n(j)] = u
    BY <2>3, <2>4
  <2>7. QED BY <2>5, <2>6 DEF Precedes
<1>3. QED BY <1>1, <1>2

\* Inserting an entry keeps the order of the others; the new one follows the
\* first i of them.
LEMMA InsertOrder ==
    ASSUME NEW S, NEW q \in Seq(S), NEW s \in S, NEW i \in 0..Len(q),
           ~Has(q, s), NEW t, NEW u, Precedes(Insert(q, i, s), t, u)
    PROVE  \/ Precedes(q, t, u)
           \/ u = s /\ \E j \in DOMAIN q : j <= i /\ q[j] = t
           \/ t = s /\ \E j \in DOMAIN q : j > i /\ q[j] = u
<1> DEFINE m == Insert(q, i, s)
           n(x) == IF x <= i THEN x ELSE x - 1
<1>1. /\ m \in Seq(S)
      /\ Len(m) = Len(q) + 1
      /\ \A x \in 1..(Len(q) + 1) :
           m[x] = IF x <= i THEN q[x] ELSE IF x = i + 1 THEN s ELSE q[x - 1]
  <2> HIDE DEF n
  <2>1. m \in Seq(S) /\ Len(m) = Len(q) + 1
    BY InsertElements
  <2>2. \A x \in 1..(Len(q) + 1) :
          m[x] = IF x <= i THEN q[x] ELSE IF x = i + 1 THEN s ELSE q[x - 1]
    BY InsertElements
  <2>3. QED BY <2>1, <2>2
<1> HIDE DEF m
<1>2. PICK j, k \in 1..(Len(q) + 1) : j < k /\ m[j] = t /\ m[k] = u
  BY <1>1 DEF Precedes, m
<1>3. \A x \in 1..(Len(q) + 1) :
        x # i + 1 => n(x) \in DOMAIN q /\ m[x] = q[n(x)]
  BY <1>1
<1>4. m[i + 1] = s
  BY <1>1
<1>5. CASE j = i + 1
  <2>1. k > i + 1
    BY <1>2, <1>5
  <2>2. n(k) \in DOMAIN q /\ n(k) > i /\ q[n(k)] = u
    BY <1>2, <1>3, <2>1
  <2>3. t = s
    BY <1>2, <1>4, <1>5
  <2> HIDE DEF n
  <2>4. QED BY <2>2, <2>3
<1>6. CASE k = i + 1
  <2>1. j <= i /\ j # i + 1
    BY <1>2, <1>6
  <2>2. n(j) \in DOMAIN q /\ n(j) <= i /\ q[n(j)] = t
    BY <1>2, <1>3, <2>1
  <2>3. u = s
    BY <1>2, <1>4, <1>6
  <2> HIDE DEF n
  <2>4. QED BY <2>2, <2>3
<1>7. CASE j # i + 1 /\ k # i + 1
  <2>1. n(j) < n(k)
    BY <1>2, <1>7
  <2>2. n(j) \in DOMAIN q /\ n(k) \in DOMAIN q /\ q[n(j)] = t /\ q[n(k)] = u
    BY <1>2, <1>3, <1>7
  <2> HIDE DEF n
  <2>3. QED BY <2>1, <2>2 DEF Precedes
<1>8. QED BY <1>5, <1>6, <1>7

\* Every set of natural numbers that is not empty has a least element: initial
\* segments are finite, and the finite sets are well-founded under inclusion.
LEMMA Smallest ==
    ASSUME NEW S \in SUBSET Nat, S # {}
    PROVE  \E n \in S : \A m \in S : n <= m
<1>. DEFINE T == {0..m : m \in S}
            R == StrictSubsetOrdering(Nat)
<1>1. IsWellFoundedOn(R, FiniteSubsetsOf(Nat))
  BY FS_StrictSubsetOrderingWellFounded
<1>2. T \subseteq FiniteSubsetsOf(Nat)
  <2>1. SUFFICES ASSUME NEW m \in S
                 PROVE  0..m \in FiniteSubsetsOf(Nat)
    OBVIOUS
  <2>2. IsFiniteSet(0..m)
    BY FS_Interval
  <2>3. 0..m \in SUBSET Nat
    OBVIOUS
  <2>4. QED BY <2>2, <2>3 DEF FiniteSubsetsOf
<1>3. T # {}
  OBVIOUS
<1>4. \E x \in T : \A y \in T : ~ (<<y, x>> \in R)
  <2>. HIDE DEF T, R
  <2>1. QED BY <1>1, <1>2, <1>3, WFMin
<1>5. PICK n \in S : \A m \in S : <<0..m, 0..n>> \notin R
  BY <1>4
<1>6. ASSUME NEW m \in S, m < n
      PROVE  FALSE
  <2>1. /\ 0..m \subseteq 0..n /\ 0..m # 0..n
        /\ 0..m \in SUBSET Nat /\ 0..n \in SUBSET Nat
    BY <1>6
  <2>2. <<0..m, 0..n>> \in R
    BY <2>1 DEF StrictSubsetOrdering
  <2>3. QED BY <1>5, <2>2
<1>7. QED BY <1>6

-----------------------------------------------------------------------------
(* What walks and queues do with lists *)

LEMMA AppendMembers ==
    ASSUME NEW S, NEW q \in Seq(S), NEW s \in S
    PROVE  /\ Append(q, s) \in Seq(S)
           /\ \A t : Has(Append(q, s), t) <=> (t = s \/ Has(q, t))
           /\ NoRepeat(q) /\ ~Has(q, s) => NoRepeat(Append(q, s))
<1>1. /\ Append(q, s) \in Seq(S) /\ DOMAIN Append(q, s) = 1..(Len(q) + 1)
      /\ DOMAIN q = 1..Len(q) /\ Len(q) \in Nat
      /\ \A i \in 1..Len(q) : Append(q, s)[i] = q[i]
      /\ Append(q, s)[Len(q) + 1] = s
  OBVIOUS
<1>2. ASSUME NEW t PROVE Has(Append(q, s), t) <=> (t = s \/ Has(q, t))
  BY <1>1 DEF Has
<1>3. ASSUME NoRepeat(q), ~Has(q, s) PROVE NoRepeat(Append(q, s))
  BY <1>1, <1>3 DEF Has, NoRepeat
<1>4. QED BY <1>1, <1>2, <1>3

\* Appending is inserting after the last entry.
LEMMA AppendOrder ==
    ASSUME NEW S, NEW q \in Seq(S), NEW s \in S
    PROVE  Append(q, s) = Insert(q, Len(q), s)
<1>0. \A i \in 0..Len(q) :
         /\ Insert(q, i, s) \in Seq(S) /\ Len(Insert(q, i, s)) = Len(q) + 1
         /\ \A j \in 1..(Len(q) + 1) :
               Insert(q, i, s)[j] = IF j <= i THEN q[j] ELSE IF j = i + 1 THEN s ELSE q[j - 1]
  BY InsertElements
<1>1. /\ Insert(q, Len(q), s) \in Seq(S)
      /\ Len(Insert(q, Len(q), s)) = Len(q) + 1
      /\ \A j \in 1..(Len(q) + 1) :
            Insert(q, Len(q), s)[j] = IF j <= Len(q) THEN q[j]
                                      ELSE IF j = Len(q) + 1 THEN s ELSE q[j - 1]
  <2>1. Len(q) \in 0..Len(q)
    OBVIOUS
  <2>2. QED BY ONLY <1>0, <2>1
<1>2. Append(q, s) \in Seq(S) /\ Len(Append(q, s)) = Len(q) + 1
  OBVIOUS
<1>3. \A j \in 1..(Len(q) + 1) : Append(q, s)[j] = Insert(q, Len(q), s)[j]
  BY <1>1
<1> DEFINE a == Append(q, s)
           b == Insert(q, Len(q), s)
<1> HIDE DEF a, b
<1>4. a = b
  <2>1. a \in Seq(S) /\ b \in Seq(S) /\ Len(a) = Len(b) /\ \A j \in 1..Len(a) : a[j] = b[j]
    BY <1>1, <1>2, <1>3 DEF a, b
  <2>2. QED BY <2>1, SeqEqual
<1>5. QED BY <1>4 DEF a, b

\* The next entry of a walk is another one on the list, if there is one.
LEMMA AfterIsOn ==
    ASSUME NEW S, NEW q \in Seq(S), NoRepeat(q), NEW o, Has(q, o)
    PROVE  After(q, o) # None => Has(q, After(q, o)) /\ After(q, o) # o
<1>1. Position(q, o) \in DOMAIN q /\ q[Position(q, o)] = o
  BY DEF Has, Position
<1>2. DOMAIN q = 1..Len(q) /\ Len(q) \in Nat
  OBVIOUS
<1>3. CASE Position(q, o) # Len(q)
  <2>1. Position(q, o) + 1 \in DOMAIN q
    BY <1>1, <1>2, <1>3
  <2>2. After(q, o) = q[Position(q, o) + 1]
    BY <1>3 DEF After
  <2>3. QED BY <1>1, <1>2, <2>1, <2>2 DEF Has, NoRepeat
<1>4. QED BY <1>3 DEF After

LEMMA FirstIsOn ==
    ASSUME NEW S, NEW q \in Seq(S)
    PROVE  First(q) # None => Has(q, First(q))
BY DEF First, Has

\* The entries of a queue without repetitions behind its head.
LEMMA TailMembers ==
    ASSUME NEW S, NEW q \in Seq(S), NoRepeat(q), q # <<>>
    PROVE  /\ Head(q) \in S /\ Has(q, Head(q))
           /\ Tail(q) \in Seq(S) /\ NoRepeat(Tail(q))
           /\ \A t : Has(Tail(q), t) <=> Has(q, t) /\ t # Head(q)
<1>1. /\ Len(q) \in Nat \ {0} /\ DOMAIN q = 1..Len(q)
      /\ Head(q) = q[1] /\ Tail(q) \in Seq(S)
      /\ DOMAIN Tail(q) = 1..(Len(q) - 1)
      /\ \A i \in 1..(Len(q) - 1) : Tail(q)[i] = q[i + 1]
  OBVIOUS
<1>2. \A i \in 1..(Len(q) - 1) : i + 1 \in 1..Len(q) /\ i + 1 # 1
  BY <1>1
<1>3. NoRepeat(Tail(q))
  BY <1>1, <1>2 DEF NoRepeat
<1>4. Head(q) \in S /\ Has(q, Head(q))
  BY <1>1 DEF Has
<1>5. ASSUME NEW t PROVE Has(Tail(q), t) <=> Has(q, t) /\ t # Head(q)
  <2>1. ASSUME Has(Tail(q), t) PROVE Has(q, t) /\ t # Head(q)
    BY <1>1, <1>2, <2>1 DEF Has, NoRepeat
  <2>2. ASSUME Has(q, t), t # Head(q) PROVE Has(Tail(q), t)
    <3>1. PICK i \in 1..Len(q) : q[i] = t
      BY <1>1, <2>2 DEF Has
    <3>2. i - 1 \in 1..(Len(q) - 1) /\ Tail(q)[i - 1] = q[i]
      BY <1>1, <3>1, <2>2
    <3>3. QED BY <1>1, <3>1, <3>2 DEF Has
  <2>3. QED BY <2>1, <2>2
<1>6. QED BY <1>1, <1>3, <1>4, <1>5

-----------------------------------------------------------------------------
(* The list of timers *)

\* Expiry times at, of those timers that are live, in the order of q.
Ordered(q, at, is) ==
    \A s, t : Precedes(q, s, t) /\ is[s] = "live" /\ is[t] = "live" => at[s] <= at[t]

LEMMA SortedIsOrdered ==
    Sorted <=> Ordered(timers, left, state)
BY DEF Sorted, Ordered, Precedes, Live

\* insert_timer keeps the list sorted.
LEMMA TimerInserted ==
    ASSUME NEW q \in Seq(Timers), NoRepeat(q), NEW t \in Timers, ~Has(q, t),
           NEW at \in [Timers -> Nat], NEW is, Ordered(q, at, is)
    PROVE  /\ InsertTimer(q, t, at, is) \in Seq(Timers)
           /\ NoRepeat(InsertTimer(q, t, at, is))
           /\ \A o : Has(InsertTimer(q, t, at, is), o) <=> (o = t \/ Has(q, o))
           /\ Ordered(InsertTimer(q, t, at, is), at, is)
<1> DEFINE later == {i \in DOMAIN q : is[q[i]] = "live" /\ at[t] <= at[q[i]]}
<1>1. DOMAIN q = 1..Len(q) /\ Len(q) \in Nat /\ \A i \in DOMAIN q : q[i] \in Timers
  OBVIOUS
<1>2. \E i \in 0..Len(q) :
         /\ InsertTimer(q, t, at, is) = Insert(q, i, t)
         /\ \A j \in DOMAIN q : (j <= i /\ is[q[j]] = "live") => at[q[j]] <= at[t]
         /\ \A j \in DOMAIN q : (j > i /\ is[q[j]] = "live") => at[t] <= at[q[j]]
  <2>1. CASE later = {}
    <3>1. InsertTimer(q, t, at, is) = Insert(q, Len(q), t)
      BY <2>1, AppendOrder DEF InsertTimer
    <3>2. \A j \in DOMAIN q : is[q[j]] = "live" => at[q[j]] <= at[t]
      BY <1>1, <2>1
    <3>3. QED BY <1>1, <3>1, <3>2
  <2>2. CASE later # {}
    <3>1. later \in SUBSET Nat
      BY <1>1
    <3>2. PICK m \in later : \A k \in later : m <= k
      <4> HIDE DEF later
      <4>1. QED BY <2>2, <3>1, Smallest
    <3>3. (CHOOSE j \in later : \A k \in later : j <= k) = m
      <4>1. \A n \in later : (\A k \in later : n <= k) => n = m
        BY <3>1, <3>2
      <4> HIDE DEF later
      <4>2. QED BY <3>2, <4>1
    <3>4. InsertTimer(q, t, at, is) = Insert(q, m - 1, t)
      BY <2>2, <3>3 DEF InsertTimer
    <3>5. m \in DOMAIN q /\ is[q[m]] = "live" /\ at[t] <= at[q[m]]
      BY <3>2
    <3>6. m - 1 \in 0..Len(q)
      BY <1>1, <3>5
    <3>7. ASSUME NEW j \in DOMAIN q, j <= m - 1, is[q[j]] = "live" PROVE at[q[j]] <= at[t]
      <4>1. j \notin later
        BY <1>1, <3>2, <3>5, <3>7
      <4>2. QED BY <1>1, <3>7, <4>1
    <3>8. ASSUME NEW j \in DOMAIN q, j > m - 1, is[q[j]] = "live" PROVE at[t] <= at[q[j]]
      <4>1. j = m \/ m < j
        BY <1>1, <3>5, <3>8
      <4>2. CASE m < j
        <5>1. Precedes(q, q[m], q[j])
          BY <3>5, <4>2 DEF Precedes
        <5>2. at[q[m]] <= at[q[j]]
          BY <3>5, <3>8, <5>1 DEF Ordered
        <5>3. QED BY <1>1, <3>5, <5>2
      <4>3. QED BY <3>5, <4>1, <4>2
    <3>9. QED BY <3>4, <3>6, <3>7, <3>8
  <2>3. QED BY <2>1, <2>2
<1> HIDE DEF later
<1>3. PICK i \in 0..Len(q) :
         /\ InsertTimer(q, t, at, is) = Insert(q, i, t)
         /\ \A j \in DOMAIN q : (j <= i /\ is[q[j]] = "live") => at[q[j]] <= at[t]
         /\ \A j \in DOMAIN q : (j > i /\ is[q[j]] = "live") => at[t] <= at[q[j]]
  BY <1>2
<1>4. ASSUME NEW r, NEW s, Precedes(Insert(q, i, t), r, s), is[r] = "live", is[s] = "live"
      PROVE  at[r] <= at[s]
  <2>1. \/ Precedes(q, r, s)
        \/ s = t /\ \E j \in DOMAIN q : j <= i /\ q[j] = r
        \/ r = t /\ \E j \in DOMAIN q : j > i /\ q[j] = s
    BY <1>4, InsertOrder
  <2>2. QED BY <1>3, <1>4, <2>1 DEF Ordered
<1>5. QED BY <1>3, <1>4, InsertMembers DEF Ordered

\* find_next_timer finds a live timer if there is one on the list.
LEMMA NextTimerFound ==
    ASSUME timers \in Seq(Timers), NEW is
    PROVE  /\ FindNextTimer(is) \in Timers \cup {None}
           /\ FindNextTimer(is) # None => is[FindNextTimer(is)] = "live"
           /\ FindNextTimer(is) = None => \A t \in Timers : Has(timers, t) => is[t] # "live"
<1> DEFINE live == {i \in DOMAIN timers : is[timers[i]] = "live"}
<1>1. live \in SUBSET Nat /\ \A i \in DOMAIN timers : timers[i] \in Timers
  OBVIOUS
<1>2. CASE live = {}
  BY <1>2 DEF FindNextTimer, Has
<1>3. CASE live # {}
  <2>1. \E i \in live : \A j \in live : i <= j
    <3> HIDE DEF live
    <3>1. QED BY <1>1, <1>3, Smallest
  <2>2. (CHOOSE i \in live : \A j \in live : i <= j) \in live
    <3> HIDE DEF live
    <3>1. QED BY <2>1
  <2>3. \E i \in live : FindNextTimer(is) = timers[i]
    BY <1>3, <2>2 DEF FindNextTimer
  <2>4. FindNextTimer(is) \in Timers /\ is[FindNextTimer(is)] = "live"
    BY <1>1, <2>3
  <2>5. None \notin Timers
    BY LoopAssumption DEF Objects
  <2>6. QED BY <2>4, <2>5
<1>4. QED BY <1>2, <1>3

-----------------------------------------------------------------------------
(* Objects *)

LEMMA AllocateIs ==
    ASSUME StateInv, NEW o \in Objects, Allocate(o)
    PROVE  /\ StateInv'
           /\ state[o] = "free" /\ state'[o] = "live"
           /\ \A x \in Objects \ {o} : state'[x] = state[x]
<1>1. /\ state[o] = "free" /\ state'[o] = "live" /\ deleted' = deleted
      /\ \A x \in Objects \ {o} : state'[x] = state[x]
      /\ state' \in [Objects -> {"free", "live", "deleted"}]
  BY DEF Allocate, StateInv
<1>2. QED BY <1>1 DEF StateInv

LEMMA MarkDeletedIs ==
    ASSUME StateInv, NEW o \in Objects, MarkDeleted(o)
    PROVE  /\ StateInv'
           /\ state[o] = "live" /\ state'[o] = "deleted"
           /\ \A x \in Objects \ {o} : state'[x] = state[x]
<1>1. /\ state[o] = "live" /\ state'[o] = "deleted" /\ deleted' = Append(deleted, o)
      /\ \A x \in Objects \ {o} : state'[x] = state[x]
      /\ state' \in [Objects -> {"free", "live", "deleted"}]
  BY DEF MarkDeleted, StateInv, Live
<1>2. deleted \in Seq(Objects) /\ NoRepeat(deleted) /\ ~Has(deleted, o)
  BY <1>1 DEF StateInv
<1>3. /\ deleted' \in Seq(Objects) /\ NoRepeat(deleted')
      /\ \A t : Has(deleted', t) <=> (t = o \/ Has(deleted, t))
  BY <1>1, <1>2, AppendMembers
<1>4. \A x \in Objects : Has(deleted', x) <=> state'[x] = "deleted"
  BY <1>1, <1>3 DEF StateInv
<1>5. QED BY <1>1, <1>3, <1>4 DEF StateInv

LEMMA StateFrame ==
    ASSUME StateInv, UNCHANGED <<state, deleted>>
    PROVE  StateInv'
BY DEF StateInv

\* A list keeps what it has when its objects are neither allocated nor freed.
LEMMA HoldsFrame ==
    ASSUME NEW q, NEW S, Holds(q, S),
           \A o \in S : state'[o] # "free" <=> state[o] # "free"
    PROVE  /\ q \in Seq(S) /\ NoRepeat(q)
           /\ \A o \in S : Has(q, o) <=> state'[o] # "free"
BY DEF Holds

\* One more object, appended.
LEMMA HoldsAppend ==
    ASSUME NEW q, NEW S, Holds(q, S), NEW o \in S, state[o] = "free", state'[o] # "free",
           \A x \in S \ {o} : state'[x] = state[x]
    PROVE  /\ Append(q, o) \in Seq(S) /\ NoRepeat(Append(q, o))
           /\ \A x \in S : Has(Append(q, o), x) <=> state'[x] # "free"
           /\ \A x : Has(q, x) => Has(Append(q, o), x)
<1>1. q \in Seq(S) /\ NoRepeat(q) /\ ~Has(q, o)
  BY DEF Holds
<1>2. /\ Append(q, o) \in Seq(S) /\ NoRepeat(Append(q, o))
      /\ \A x : Has(Append(q, o), x) <=> (x = o \/ Has(q, x))
  BY <1>1, AppendMembers
<1>3. QED BY <1>2 DEF Holds

\* One object less, if it was on the list.
LEMMA HoldsUnlink ==
    ASSUME NEW q, NEW S, Holds(q, S), NEW o, o \in S => state'[o] = "free",
           \A x \in S \ {o} : state'[x] = state[x]
    PROVE  /\ Unlink(q, o) \in Seq(S) /\ NoRepeat(Unlink(q, o))
           /\ \A x \in S : Has(Unlink(q, o), x) <=> state'[x] # "free"
<1>1. q \in Seq(S) /\ NoRepeat(q)
  BY DEF Holds
<1>2. /\ Unlink(q, o) \in Seq(S) /\ NoRepeat(Unlink(q, o)) /\ ~Has(Unlink(q, o), o)
      /\ \A x : x # o => (Has(Unlink(q, o), x) <=> Has(q, x))
  BY <1>1, UnlinkMembers
<1>3. QED BY <1>2 DEF Holds

\* The kinds of objects are different.
LEMMA Kinds ==
    /\ Timers \subseteq Objects /\ Deferreds \subseteq Objects /\ Watches \subseteq Objects
    /\ Wakeups \subseteq Objects /\ Subloops \subseteq Objects /\ None \notin Objects
    /\ Timers \cap (Deferreds \cup Watches \cup Wakeups \cup Subloops) = {}
    /\ Deferreds \cap (Watches \cup Wakeups \cup Subloops) = {}
    /\ Watches \cap (Wakeups \cup Subloops) = {} /\ Wakeups \cap Subloops = {}
    /\ None \notin Fds /\ \A e \in SUBSET Events : e # None
    /\ Calls \in Nat /\ MaxInterval \in Nat /\ HupLimit \in Nat
BY LoopAssumption DEF Objects

-----------------------------------------------------------------------------
(* Timers *)

LEMMA TimersFrame ==
    ASSUME TimerInv, UNCHANGED timerVars, \A t \in Timers : state'[t] = state[t]
    PROVE  TimerInv'
<1>1. /\ Holds(timers, Timers) /\ Ordered(timers, left, state)
      /\ timers' = timers /\ left' = left /\ msecs' = msecs /\ next_timer' = next_timer
  BY SortedIsOrdered DEF TimerInv, timerVars
<1>2. Holds(timers, Timers)'
  BY <1>1, HoldsFrame DEF Holds
<1>3. \A i \in DOMAIN timers : timers[i] \in Timers
  BY <1>1 DEF Holds
<1>4. Sorted'
  BY <1>1, <1>3 DEF Sorted, Live, TimerInv
<1>5. next_timer' # None => Live(next_timer)'
  BY <1>1 DEF TimerInv, Live
<1>6. next_timer' = None => \A t \in Timers : ~Live(t)'
  BY <1>1 DEF TimerInv, Live
<1>7. QED BY <1>1, <1>2, <1>4, <1>5, <1>6 DEF TimerInv

\* A timer t is put on a list without it: a new one, or one that is armed again.
LEMMA TimerArmed ==
    ASSUME NEW q \in Seq(Timers), NoRepeat(q), NEW t \in Timers, NEW n \in 0..MaxInterval,
           \A o \in Timers : Has(q, o) <=> state[o] # "free" /\ o # t,
           left \in [Timers -> 0..MaxInterval], Ordered(q, left, state),
           msecs' \in [Timers -> 0..MaxInterval],
           left' = [left EXCEPT ![t] = n],
           timers' = InsertTimer(q, t, left', state'),
           next_timer' = NextAfterInsert(t, left'),
           state'[t] = "live", \A o \in Timers \ {t} : state'[o] = state[o],
           next_timer \in Timers \cup {None},
           next_timer # None => Live(next_timer)
    PROVE  TimerInv'
<1>1. /\ left' \in [Timers -> 0..MaxInterval] /\ left' \in [Timers -> Nat]
      /\ \A o \in Timers \ {t} : left'[o] = left[o]
  BY Kinds
<1>2. ~Has(q, t)
  OBVIOUS
<1>3. Ordered(q, left', state')
  <2>1. ASSUME NEW r, NEW s, Precedes(q, r, s), state'[r] = "live", state'[s] = "live"
        PROVE  left'[r] <= left'[s]
    <3>1. r \in Timers \ {t} /\ s \in Timers \ {t}
      BY <1>2, <2>1 DEF Precedes, Has
    <3>2. state[r] = "live" /\ state[s] = "live"
      BY <2>1, <3>1
    <3>3. QED BY <1>1, <2>1, <3>1, <3>2 DEF Ordered
  <2>2. QED BY <2>1 DEF Ordered
<1> DEFINE r == InsertTimer(q, t, left', state')
<1>4. /\ r \in Seq(Timers) /\ NoRepeat(r)
      /\ \A o : Has(r, o) <=> (o = t \/ Has(q, o))
      /\ Ordered(r, left', state')
  BY <1>1, <1>2, <1>3, TimerInserted
<1>5. timers' = r
  OBVIOUS
<1> HIDE DEF r
<1>6. Holds(timers, Timers)'
  BY <1>4, <1>5 DEF Holds
<1>7. Sorted'
  BY <1>4, <1>5 DEF Sorted, Ordered, Precedes, Live
<1>8. next_timer' = t \/ (next_timer # None /\ next_timer' = next_timer)
  BY DEF NextAfterInsert
<1>9. next_timer' \in Timers /\ next_timer' # None /\ Live(next_timer)'
  BY <1>8, Kinds DEF Live
<1>10. QED BY <1>1, <1>6, <1>7, <1>9 DEF TimerInv

LEMMA AddTimerKeeps ==
    ASSUME StateInv, TimerInv, NEW t \in Timers, NEW n \in 1..MaxInterval, AddTimer(t, n)
    PROVE  TimerInv'
<1>1. /\ Allocate(t) /\ left' = [left EXCEPT ![t] = n] /\ msecs' = [msecs EXCEPT ![t] = n]
      /\ timers' = InsertTimer(timers, t, left', state')
      /\ next_timer' = NextAfterInsert(t, left')
  BY DEF AddTimer
<1>2. state[t] = "free" /\ state'[t] = "live" /\ \A o \in Timers \ {t} : state'[o] = state[o]
  BY <1>1, AllocateIs, Kinds
<1>3. /\ timers \in Seq(Timers) /\ NoRepeat(timers)
      /\ \A o \in Timers : Has(timers, o) <=> state[o] # "free" /\ o # t
  BY <1>2 DEF TimerInv, Holds
<1>4. /\ left \in [Timers -> 0..MaxInterval] /\ Ordered(timers, left, state)
      /\ msecs' \in [Timers -> 0..MaxInterval]
      /\ next_timer \in Timers \cup {None} /\ (next_timer # None => Live(next_timer))
  <2>1. n \in 0..MaxInterval
    BY Kinds
  <2>2. QED BY <1>1, <2>1, SortedIsOrdered DEF TimerInv
<1>5. n \in 0..MaxInterval
  BY Kinds
<1>6. QED BY <1>1, <1>2, <1>3, <1>4, <1>5, TimerArmed

LEMMA DelTimerKeeps ==
    ASSUME StateInv, TimerInv, NEW t \in Timers, DelTimer(t)
    PROVE  TimerInv'
<1>1. /\ MarkDeleted(t) /\ UNCHANGED <<timers, left, msecs>>
      /\ next_timer' = IF next_timer = t THEN FindNextTimer(state') ELSE next_timer
  BY DEF DelTimer
<1>2. /\ state[t] = "live" /\ state'[t] = "deleted"
      /\ \A o \in Timers \ {t} : state'[o] = state[o]
  BY <1>1, MarkDeletedIs, Kinds
<1>3. Holds(timers, Timers)'
  <2>1. \A o \in Timers : state'[o] # "free" <=> state[o] # "free"
    BY <1>2
  <2>2. QED BY <1>1, <2>1, HoldsFrame DEF TimerInv, Holds
<1>4. timers \in Seq(Timers) /\ \A i \in DOMAIN timers : timers[i] \in Timers
  BY DEF TimerInv, Holds
<1>5. Sorted'
  <2>1. \A o \in Timers : Live(o)' => Live(o)
    BY <1>2 DEF Live
  <2>2. QED BY <1>1, <1>4, <2>1 DEF Sorted, TimerInv
<1>6. CASE next_timer = t
  <2>1. /\ FindNextTimer(state') \in Timers \cup {None}
        /\ FindNextTimer(state') # None => state'[FindNextTimer(state')] = "live"
        /\ FindNextTimer(state') = None =>
              \A o \in Timers : Has(timers, o) => state'[o] # "live"
    BY <1>4, NextTimerFound
  <2>2. next_timer' = FindNextTimer(state')
    BY <1>1, <1>6
  <2>3. \A o \in Timers : ~Has(timers, o) => state'[o] # "live"
    BY <1>2 DEF TimerInv, Holds
  <2>4. /\ next_timer' \in Timers \cup {None}
        /\ next_timer' # None => Live(next_timer)'
        /\ next_timer' = None => \A o \in Timers : ~Live(o)'
    BY <2>1, <2>2, <2>3 DEF Live
  <2>5. QED BY <1>1, <1>3, <1>5, <2>4 DEF TimerInv
<1>7. CASE next_timer # t
  <2>1. /\ next_timer' = next_timer
        /\ next_timer' # None => Live(next_timer)'
        /\ next_timer' = None => \A o \in Timers : ~Live(o)'
    BY <1>1, <1>2, <1>7 DEF TimerInv, Live
  <2>2. QED BY <1>1, <1>3, <1>5, <2>1 DEF TimerInv
<1>8. QED BY <1>6, <1>7

\* Time passes for all timers alike.
LEMMA TimePasses ==
    ASSUME TimerInv, NEW n \in Nat, left' = Earlier(n),
           UNCHANGED <<timers, next_timer, msecs, state>>
    PROVE  TimerInv'
<1>1. left' = [t \in Timers |-> IF left[t] <= n THEN 0 ELSE left[t] - n]
  BY DEF Earlier
<1>2. left' \in [Timers -> 0..MaxInterval]
  BY <1>1, Kinds DEF TimerInv
<1>3. \A s, t \in Timers : left[s] <= left[t] => left'[s] <= left'[t]
  BY <1>1, Kinds DEF TimerInv
<1>4. \A i \in DOMAIN timers : timers[i] \in Timers
  BY DEF TimerInv, Holds
<1>5. Sorted'
  BY <1>3, <1>4 DEF Sorted, TimerInv, Live
<1>6. QED BY <1>2, <1>5 DEF TimerInv, Holds, Live

LEMMA RearmKeeps ==
    ASSUME TimerInv, NEW t \in Timers, Rearm(t), UNCHANGED <<msecs, state>>
    PROVE  TimerInv'
<1>1. CASE ~Live(t)
  BY <1>1, TimersFrame DEF Rearm, timerVars
<1>2. CASE Live(t)
  <2> DEFINE q == Unlink(timers, t)
  <2>1. /\ left' = [left EXCEPT ![t] = msecs[t]] /\ msecs' = msecs /\ state' = state
        /\ timers' = InsertTimer(q, t, left', state')
        /\ next_timer' = NextAfterInsert(t, left')
    BY <1>2 DEF Rearm
  <2>2. timers \in Seq(Timers) /\ NoRepeat(timers)
    BY DEF TimerInv, Holds
  <2>3. q \in Seq(Timers) /\ NoRepeat(q)
    BY <2>2, UnlinkMembers
  <2>4. ~Has(q, t) /\ \A o : o # t => (Has(q, o) <=> Has(timers, o))
    BY <2>2, UnlinkMembers
  <2>5. \A r, s : Precedes(q, r, s) => Precedes(timers, r, s)
    BY <2>2, UnlinkOrder
  <2> HIDE DEF q
  <2>6. \A o \in Timers : Has(q, o) <=> state[o] # "free" /\ o # t
    BY <2>4 DEF TimerInv, Holds
  <2>7. Ordered(q, left, state)
    <3>1. Ordered(timers, left, state)
      BY SortedIsOrdered DEF TimerInv
    <3>2. QED BY <2>5, <3>1 DEF Ordered
  <2>8. /\ msecs[t] \in 0..MaxInterval /\ msecs' \in [Timers -> 0..MaxInterval]
        /\ left \in [Timers -> 0..MaxInterval]
        /\ next_timer \in Timers \cup {None} /\ (next_timer # None => Live(next_timer))
    BY <2>1 DEF TimerInv
  <2>9. state'[t] = "live" /\ \A o \in Timers \ {t} : state'[o] = state[o]
    BY <1>2, <2>1 DEF Live
  <2>10. QED BY <2>1, <2>3, <2>6, <2>7, <2>8, <2>9, TimerArmed
<1>3. QED BY <1>1, <1>2

\* An entry of ml->deleted is freed.
LEMMA PurgedIs ==
    ASSUME StateInv, Purge, NEW o, o = Head(deleted)
    PROVE  /\ StateInv'
           /\ o \in Objects /\ state[o] = "deleted" /\ state'[o] = "free"
           /\ \A x \in Objects \ {o} : state'[x] = state[x]
<1>1. /\ deleted # <<>> /\ deleted' = Tail(deleted) /\ state' = [state EXCEPT ![o] = "free"]
      /\ state \in [Objects -> {"free", "live", "deleted"}]
  BY DEF Purge, StateInv
<1>2. /\ o \in Objects /\ Has(deleted, o)
      /\ deleted' \in Seq(Objects) /\ NoRepeat(deleted')
      /\ \A t : Has(deleted', t) <=> Has(deleted, t) /\ t # o
  BY <1>1, TailMembers DEF StateInv
<1>3. state[o] = "deleted" /\ state'[o] = "free" /\ \A x \in Objects \ {o} : state'[x] = state[x]
  BY <1>1, <1>2 DEF StateInv
<1>4. state' \in [Objects -> {"free", "live", "deleted"}]
  BY <1>1
<1>5. \A x \in Objects : Has(deleted', x) <=> state'[x] = "deleted"
  BY <1>2, <1>3 DEF StateInv
<1>6. QED BY <1>2, <1>3, <1>4, <1>5 DEF StateInv

LEMMA TimerPurged ==
    ASSUME StateInv, TimerInv, Purge
    PROVE  TimerInv'
<1> DEFINE o == Head(deleted)
<1>1. /\ timers' = Unlink(timers, o) /\ next_timer' = next_timer
      /\ left' = [t \in Timers |-> IF t = o THEN 0 ELSE left[t]]
      /\ msecs' = [t \in Timers |-> IF t = o THEN 0 ELSE msecs[t]]
  BY DEF Purge
<1>2. /\ o \in Objects /\ state[o] = "deleted" /\ state'[o] = "free"
      /\ \A x \in Objects \ {o} : state'[x] = state[x]
  BY PurgedIs
<1> HIDE DEF o
<1>3. /\ \A t \in Timers \ {o} : state'[t] = state[t]
      /\ \A t \in Timers : Live(t)' <=> Live(t)
  BY <1>2, Kinds DEF Live
<1>4. Holds(timers, Timers)'
  <2>1. /\ Unlink(timers, o) \in Seq(Timers) /\ NoRepeat(Unlink(timers, o))
        /\ \A x \in Timers : Has(Unlink(timers, o), x) <=> state'[x] # "free"
    BY <1>2, <1>3, HoldsUnlink DEF TimerInv
  <2>2. QED BY <1>1, <2>1 DEF Holds
<1>5. left' \in [Timers -> 0..MaxInterval] /\ msecs' \in [Timers -> 0..MaxInterval]
  BY <1>1, Kinds DEF TimerInv
<1>6. Sorted'
  <2>1. timers \in Seq(Timers) /\ Ordered(timers, left, state)
    BY SortedIsOrdered DEF TimerInv, Holds
  <2>2. ASSUME NEW r, NEW s, Precedes(timers', r, s), state'[r] = "live", state'[s] = "live"
        PROVE  left'[r] <= left'[s]
    <3>1. Precedes(timers, r, s)
      BY <1>1, <2>1, <2>2, UnlinkOrder
    <3>2. r \in Timers /\ s \in Timers
      BY <2>1, <3>1 DEF Precedes
    <3>3. r # o /\ s # o /\ state[r] = "live" /\ state[s] = "live"
      BY <1>2, <1>3, <2>2, <3>2
    <3>4. left[r] <= left[s]
      BY <2>1, <3>1, <3>3 DEF Ordered
    <3>5. QED BY <1>1, <3>2, <3>3, <3>4
  <2>3. QED BY <2>2 DEF Sorted, Precedes, Live
<1>7. /\ next_timer' # None => Live(next_timer)'
      /\ next_timer' = None => \A t \in Timers : ~Live(t)'
  <2>1. next_timer # None => state'[next_timer] = "live"
    BY <1>3 DEF TimerInv, Live
  <2>2. QED BY <1>1, <1>3, <2>1 DEF TimerInv, Live
<1>8. QED BY <1>1, <1>4, <1>5, <1>6, <1>7 DEF TimerInv

-----------------------------------------------------------------------------
(* Deferred callbacks *)

LEMMA DeferredsFrame ==
    ASSUME DeferredInv, UNCHANGED deferredVars,
           \A d \in Deferreds : (state'[d] # "free" <=> state[d] # "free") /\ (Live(d)' => Live(d))
    PROVE  DeferredInv'
BY DEF DeferredInv, deferredVars

LEMMA AddDeferredKeeps ==
    ASSUME StateInv, DeferredInv, NEW d \in Deferreds, AddDeferred(d)
    PROVE  DeferredInv'
<1>1. /\ Allocate(d) /\ deferred' = Append(deferred, d) /\ disabled' = disabled \ {d}
      /\ inactive_deferred' = inactive_deferred
  BY DEF AddDeferred
<1>2. /\ state[d] = "free" /\ state'[d] = "live"
      /\ \A o \in Deferreds \ {d} : state'[o] = state[o]
  BY <1>1, AllocateIs, Kinds
<1>3. /\ deferred' \in Seq(Deferreds)
      /\ \A t : Has(deferred', t) <=> (t = d \/ Has(deferred, t))
      /\ NoRepeat(deferred')
  <2>1. deferred \in Seq(Deferreds) /\ NoRepeat(deferred) /\ ~Has(deferred, d)
    BY <1>2 DEF DeferredInv
  <2>2. QED BY <1>1, <2>1, AppendMembers
<1>4. ~Has(inactive_deferred, d)
  BY <1>2 DEF DeferredInv
<1>5. disabled' \subseteq Deferreds
  BY <1>1 DEF DeferredInv
<1>6. ASSUME NEW x \in Deferreds
      PROVE  /\ ~(Has(deferred', x) /\ Has(inactive_deferred', x))
             /\ (Has(deferred', x) \/ Has(inactive_deferred', x)) <=> state'[x] # "free"
             /\ state'[x] = "live" /\ x \notin disabled' => Has(deferred', x)
  BY <1>1, <1>2, <1>3, <1>4 DEF DeferredInv, Live
<1>7. QED BY <1>1, <1>3, <1>5, <1>6 DEF DeferredInv, Live

LEMMA EnableDeferredKeeps ==
    ASSUME DeferredInv, NEW d \in Deferreds, EnableDeferred(d)
    PROVE  DeferredInv'
<1> DEFINE u == Unlink(deferred, d)
           i == Unlink(inactive_deferred, d)
<1>1. /\ Live(d) /\ deferred' = Append(u, d) /\ inactive_deferred' = i
      /\ disabled' = disabled \ {d} /\ state' = state
  BY DEF EnableDeferred, Keep
<1>2. /\ deferred \in Seq(Deferreds) /\ NoRepeat(deferred)
      /\ inactive_deferred \in Seq(Deferreds) /\ NoRepeat(inactive_deferred)
  BY DEF DeferredInv
<1>3. /\ u \in Seq(Deferreds) /\ NoRepeat(u) /\ ~Has(u, d)
      /\ \A t : t # d => (Has(u, t) <=> Has(deferred, t))
  BY <1>2, UnlinkMembers
<1>4. /\ i \in Seq(Deferreds) /\ NoRepeat(i) /\ ~Has(i, d)
      /\ \A t : t # d => (Has(i, t) <=> Has(inactive_deferred, t))
  BY <1>2, UnlinkMembers
<1> HIDE DEF u, i
<1>5. /\ deferred' \in Seq(Deferreds) /\ NoRepeat(deferred')
      /\ \A t : Has(deferred', t) <=> (t = d \/ Has(u, t))
  BY <1>1, <1>3, AppendMembers
<1>6. ASSUME NEW x \in Deferreds
      PROVE  /\ ~(Has(deferred', x) /\ Has(inactive_deferred', x))
             /\ (Has(deferred', x) \/ Has(inactive_deferred', x)) <=> state'[x] # "free"
             /\ state'[x] = "live" /\ x \notin disabled' => Has(deferred', x)
  BY <1>1, <1>3, <1>4, <1>5 DEF DeferredInv, Live
<1>7. disabled' \subseteq Deferreds
  BY <1>1 DEF DeferredInv
<1>8. QED BY <1>1, <1>4, <1>5, <1>6, <1>7 DEF DeferredInv, Live

LEMMA DisableDeferredKeeps ==
    ASSUME DeferredInv, NEW d \in Deferreds, DisableDeferred(d)
    PROVE  DeferredInv'
BY DEF DisableDeferred, Keep, DeferredInv, Live

\* A disabled callback moves to the inactive list; other entries stay.
LEMMA DeactivateKeeps ==
    ASSUME DeferredInv, NEW d \in Deferreds, Deactivate(d), UNCHANGED <<state, disabled>>
    PROVE  /\ DeferredInv'
           /\ \A x : x # d /\ Has(deferred, x) => Has(deferred', x)
<1>1. CASE ~(Live(d) /\ d \in disabled)
  <2>1. UNCHANGED <<deferred, inactive_deferred>>
    BY <1>1 DEF Deactivate
  <2>2. QED BY <2>1 DEF DeferredInv, Live
<1>2. CASE Live(d) /\ d \in disabled
  <2> DEFINE u == Unlink(deferred, d)
             i == Unlink(inactive_deferred, d)
  <2>1. deferred' = u /\ inactive_deferred' = Append(i, d)
    BY <1>2 DEF Deactivate
  <2>2. /\ deferred \in Seq(Deferreds) /\ NoRepeat(deferred)
        /\ inactive_deferred \in Seq(Deferreds) /\ NoRepeat(inactive_deferred)
    BY DEF DeferredInv
  <2>3. /\ u \in Seq(Deferreds) /\ NoRepeat(u) /\ ~Has(u, d)
        /\ \A t : t # d => (Has(u, t) <=> Has(deferred, t))
    BY <2>2, UnlinkMembers
  <2>4. /\ i \in Seq(Deferreds) /\ NoRepeat(i) /\ ~Has(i, d)
        /\ \A t : t # d => (Has(i, t) <=> Has(inactive_deferred, t))
    BY <2>2, UnlinkMembers
  <2> HIDE DEF u, i
  <2>5. /\ inactive_deferred' \in Seq(Deferreds) /\ NoRepeat(inactive_deferred')
        /\ \A t : Has(inactive_deferred', t) <=> (t = d \/ Has(i, t))
    BY <2>1, <2>4, AppendMembers
  <2>6. ASSUME NEW x \in Deferreds
        PROVE  /\ ~(Has(deferred', x) /\ Has(inactive_deferred', x))
               /\ (Has(deferred', x) \/ Has(inactive_deferred', x)) <=> state'[x] # "free"
               /\ state'[x] = "live" /\ x \notin disabled' => Has(deferred', x)
    BY <1>2, <2>1, <2>3, <2>4, <2>5 DEF DeferredInv, Live
  <2>7. QED BY <2>1, <2>3, <2>5, <2>6 DEF DeferredInv, Live
<1>3. QED BY <1>1, <1>2

LEMMA DeferredPurged ==
    ASSUME StateInv, DeferredInv, Purge
    PROVE  DeferredInv'
<1> DEFINE o == Head(deleted)
<1>1. /\ deferred' = Unlink(deferred, o) /\ inactive_deferred' = Unlink(inactive_deferred, o)
      /\ disabled' = disabled \ {o}
  BY DEF Purge
<1>2. /\ o \in Objects /\ state[o] = "deleted" /\ state'[o] = "free"
      /\ \A x \in Deferreds \ {o} : state'[x] = state[x]
  BY PurgedIs, Kinds
<1> HIDE DEF o
<1>3. /\ deferred \in Seq(Deferreds) /\ NoRepeat(deferred)
      /\ inactive_deferred \in Seq(Deferreds) /\ NoRepeat(inactive_deferred)
  BY DEF DeferredInv
<1>4. /\ deferred' \in Seq(Deferreds) /\ NoRepeat(deferred') /\ ~Has(deferred', o)
      /\ \A t : t # o => (Has(deferred', t) <=> Has(deferred, t))
  BY <1>1, <1>3, UnlinkMembers
<1>5. /\ inactive_deferred' \in Seq(Deferreds) /\ NoRepeat(inactive_deferred')
      /\ ~Has(inactive_deferred', o)
      /\ \A t : t # o => (Has(inactive_deferred', t) <=> Has(inactive_deferred, t))
  BY <1>1, <1>3, UnlinkMembers
<1>6. ASSUME NEW x \in Deferreds
      PROVE  /\ ~(Has(deferred', x) /\ Has(inactive_deferred', x))
             /\ (Has(deferred', x) \/ Has(inactive_deferred', x)) <=> state'[x] # "free"
             /\ state'[x] = "live" /\ x \notin disabled' => Has(deferred', x)
  BY <1>1, <1>2, <1>4, <1>5 DEF DeferredInv, Live
<1>7. disabled' \subseteq Deferreds
  BY <1>1 DEF DeferredInv
<1>8. QED BY <1>4, <1>5, <1>6, <1>7 DEF DeferredInv, Live

-----------------------------------------------------------------------------
(* Wakeups and subloops *)

LEMMA OthersFrame ==
    ASSUME OtherInv, UNCHANGED otherVars,
           \A o \in Wakeups \cup Subloops : state'[o] # "free" <=> state[o] # "free"
    PROVE  OtherInv'
<1>1. /\ Holds(wakeups, Wakeups) /\ wakeups' = wakeups
      /\ Holds(subloops, Subloops) /\ subloops' = subloops
  BY DEF OtherInv, otherVars
<1>2. Holds(wakeups, Wakeups)' /\ Holds(subloops, Subloops)'
  BY <1>1 DEF Holds
<1>3. QED BY <1>2 DEF OtherInv

LEMMA AddWakeupKeeps ==
    ASSUME StateInv, OtherInv, NEW w \in Wakeups, AddWakeup(w)
    PROVE  OtherInv' /\ \A x : Has(wakeups, x) => Has(wakeups', x)
<1>1. /\ Allocate(w) /\ wakeups' = Append(wakeups, w) /\ subloops' = subloops
  BY DEF AddWakeup
<1>2. /\ state[w] = "free" /\ state'[w] # "free"
      /\ \A x \in Wakeups \ {w} : state'[x] = state[x]
      /\ \A x \in Subloops : state'[x] = state[x]
  BY <1>1, AllocateIs, Kinds
<1>3. /\ Append(wakeups, w) \in Seq(Wakeups) /\ NoRepeat(Append(wakeups, w))
      /\ \A x \in Wakeups : Has(Append(wakeups, w), x) <=> state'[x] # "free"
      /\ \A x : Has(wakeups, x) => Has(Append(wakeups, w), x)
  BY <1>2, HoldsAppend DEF OtherInv
<1>4. Holds(wakeups, Wakeups)' /\ Holds(subloops, Subloops)'
  BY <1>1, <1>2, <1>3 DEF OtherInv, Holds
<1>5. QED BY <1>1, <1>3, <1>4 DEF OtherInv

LEMMA AddSubloopKeeps ==
    ASSUME StateInv, OtherInv, NEW s \in Subloops, AddSubloop(s)
    PROVE  OtherInv' /\ \A x : Has(subloops, x) => Has(subloops', x)
<1>1. /\ Allocate(s) /\ subloops' = Append(subloops, s) /\ wakeups' = wakeups
  BY DEF AddSubloop
<1>2. /\ state[s] = "free" /\ state'[s] # "free"
      /\ \A x \in Subloops \ {s} : state'[x] = state[x]
      /\ \A x \in Wakeups : state'[x] = state[x]
  BY <1>1, AllocateIs, Kinds
<1>3. /\ Append(subloops, s) \in Seq(Subloops) /\ NoRepeat(Append(subloops, s))
      /\ \A x \in Subloops : Has(Append(subloops, s), x) <=> state'[x] # "free"
      /\ \A x : Has(subloops, x) => Has(Append(subloops, s), x)
  BY <1>2, HoldsAppend DEF OtherInv
<1>4. Holds(wakeups, Wakeups)' /\ Holds(subloops, Subloops)'
  BY <1>1, <1>2, <1>3 DEF OtherInv, Holds
<1>5. QED BY <1>1, <1>3, <1>4 DEF OtherInv

LEMMA OthersPurged ==
    ASSUME StateInv, OtherInv, Purge
    PROVE  OtherInv'
<1> DEFINE o == Head(deleted)
<1>1. wakeups' = Unlink(wakeups, o) /\ subloops' = Unlink(subloops, o)
  BY DEF Purge
<1>2. /\ state'[o] = "free"
      /\ \A x \in Wakeups \ {o} : state'[x] = state[x]
      /\ \A x \in Subloops \ {o} : state'[x] = state[x]
  BY PurgedIs, Kinds
<1> HIDE DEF o
<1>3. /\ Unlink(wakeups, o) \in Seq(Wakeups) /\ NoRepeat(Unlink(wakeups, o))
      /\ \A x \in Wakeups : Has(Unlink(wakeups, o), x) <=> state'[x] # "free"
  BY <1>2, HoldsUnlink DEF OtherInv
<1>4. /\ Unlink(subloops, o) \in Seq(Subloops) /\ NoRepeat(Unlink(subloops, o))
      /\ \A x \in Subloops : Has(Unlink(subloops, o), x) <=> state'[x] # "free"
  BY <1>2, HoldsUnlink DEF OtherInv
<1>5. QED BY <1>1, <1>3, <1>4 DEF OtherInv, Holds

-----------------------------------------------------------------------------
(* I/O watches *)

LEMMA RangeIsHas ==
    ASSUME NEW q
    PROVE  \A x : x \in Range(q) <=> Has(q, x)
BY DEF Range, Has

LEMMA WatchFrame ==
    ASSUME WatchInv, UNCHANGED watchVars, \A w \in Watches : state'[w] = state[w]
    PROVE  WatchInv'
<1>1. /\ watch' = watch /\ iowatches' = iowatches /\ slaves' = slaves /\ fdtbl' = fdtbl
      /\ epoll' = epoll /\ hung' = hung
  BY DEF watchVars
<1>2. \A w \in Watches : Live(w)' <=> Live(w)
  BY DEF Live
<1>3. \A f \in Fds : LiveOn(f)' = LiveOn(f)
  BY <1>1, <1>2 DEF LiveOn
<1>4. WatchTypes'
  BY <1>1 DEF WatchInv, WatchTypes
<1>5. FdsArePolled'
  BY <1>1, <1>3 DEF WatchInv, FdsArePolled
<1>6. \A w \in Watches : /\ state'[w] # "free" => watch'[w].fd \in Fds
                         /\ Live(w)' <=> watch'[w].events # {}
  BY <1>1, <1>2 DEF WatchInv
<1>7. \A w \in iowatches' : state'[w] # "free"
  BY <1>1 DEF WatchInv, WatchTypes
<1>8. \A m, s \in Watches : Has(slaves'[m], s) =>
          /\ state'[s] # "free" /\ watch'[s].fd = watch'[m].fd
          /\ m \in iowatches' /\ s \notin iowatches'
          /\ \A n \in Watches : Has(slaves'[n], s) => n = m
  BY <1>1 DEF WatchInv
<1>9. /\ \A f \in Fds : fdtbl'[f] # None => fdtbl'[f] \in iowatches' /\ watch'[fdtbl'[f]].fd = f
      /\ \A m \in Watches : NoRepeat(slaves'[m])
  BY <1>1 DEF WatchInv
<1>10. QED BY <1>4, <1>5, <1>6, <1>7, <1>8, <1>9 DEF WatchInv

\* The watches that a descriptor's entry leads to are of that descriptor.
LEMMA EntryLeads ==
    ASSUME WatchInv, NEW f \in Fds, NEW m, m = fdtbl[f], m # None
    PROVE  /\ m \in iowatches /\ m \in Watches
           /\ \A x \in {m} \cup Range(slaves[m]) :
                 x \in Watches /\ watch[x].fd = f /\ (x \in LiveOn(f) <=> watch[x].events # {})
<1>1. /\ m \in Watches /\ m \in iowatches /\ watch[m].fd = f
      /\ slaves[m] \in Seq(Watches)
  BY DEF WatchInv, WatchTypes
<1>2. \A x \in Range(slaves[m]) : x \in Watches /\ Has(slaves[m], x)
  BY <1>1, RangeIsHas DEF Has
<1>3. \A x \in Range(slaves[m]) : watch[x].fd = f
  BY <1>1, <1>2 DEF WatchInv
<1>4. \A x \in Watches : watch[x].fd = f => (x \in LiveOn(f) <=> watch[x].events # {})
  BY DEF WatchInv, LiveOn
<1>5. QED BY <1>1, <1>2, <1>3, <1>4

\* A new watch is nowhere yet, and only its own descriptor has one more.
LEMMA WatchAllocated ==
    ASSUME StateInv, WatchInv, NEW w \in Watches, NEW f \in Fds, NEW mask \in Masks,
           AddWatch(w, f, mask)
    PROVE  /\ state[w] = "free" /\ state'[w] = "live"
           /\ \A x \in Watches \ {w} : state'[x] = state[x] /\ watch'[x] = watch[x]
           /\ watch'[w] = [fd |-> f, events |-> mask, wrhup |-> 0]
           /\ mask \in SUBSET Events /\ mask # {}
           /\ w \notin iowatches /\ \A m \in Watches : ~Has(slaves[m], w)
           /\ LiveOn(f)' = LiveOn(f) \cup {w} /\ w \notin LiveOn(f)
           /\ \A g \in Fds \ {f} : LiveOn(g)' = LiveOn(g) /\ w \notin LiveOn(g)
<1>1. /\ state[w] = "free" /\ state'[w] = "live"
      /\ \A x \in Watches \ {w} : state'[x] = state[x]
  BY AllocateIs, Kinds DEF AddWatch
<1>2. /\ \A x \in Watches \ {w} : watch'[x] = watch[x]
      /\ watch'[w] = [fd |-> f, events |-> mask, wrhup |-> 0]
  BY DEF AddWatch, WatchInv, WatchTypes
<1>3. mask \in SUBSET Events /\ mask # {}
  <2>1. Masks \subseteq (SUBSET (Events \ {"hup"})) \ {{}}
    BY LoopAssumption
  <2>2. mask \in (SUBSET (Events \ {"hup"})) \ {{}}
    BY <2>1
  <2>3. mask \subseteq Events
    BY <2>2
  <2>4. mask # {}
    BY <2>2
  <2>5. QED BY <2>3, <2>4
<1>4. w \notin iowatches /\ \A m \in Watches : ~Has(slaves[m], w)
  BY <1>1 DEF WatchInv
<1>5. /\ \A x \in Watches \ {w} : Live(x)' <=> Live(x)
      /\ Live(w)' /\ ~Live(w)
  BY <1>1 DEF Live
<1>6. LiveOn(f)' = LiveOn(f) \cup {w} /\ w \notin LiveOn(f)
  BY <1>2, <1>5 DEF LiveOn
<1>7. \A g \in Fds \ {f} : LiveOn(g)' = LiveOn(g) /\ w \notin LiveOn(g)
  BY <1>2, <1>5 DEF LiveOn
<1>8. QED BY <1>1, <1>2, <1>3, <1>4, <1>6, <1>7

\* A watch of a descriptor that nobody has an entry for.
LEMMA MasterAdded ==
    ASSUME StateInv, WatchInv, NEW w \in Watches, NEW f \in Fds, NEW mask \in Masks,
           AddWatch(w, f, mask), fdtbl[f] = None
    PROVE  /\ WatchInv' /\ iowatches \subseteq iowatches'
           /\ \A m \in iowatches : \A x : Has(slaves[m], x) => Has(slaves'[m], x)
<1>1. /\ epoll[f] = None /\ fdtbl' = [fdtbl EXCEPT ![f] = w] /\ epoll' = [epoll EXCEPT ![f] = mask]
      /\ iowatches' = iowatches \cup {w} /\ slaves' = [slaves EXCEPT ![w] = <<>>] /\ hung' = hung
      /\ watch' = [watch EXCEPT ![w] = [fd |-> f, events |-> mask, wrhup |-> 0]]
  BY DEF AddWatch
<1>2. /\ state[w] = "free" /\ state'[w] = "live"
      /\ \A x \in Watches \ {w} : state'[x] = state[x] /\ watch'[x] = watch[x]
      /\ watch'[w] = [fd |-> f, events |-> mask, wrhup |-> 0]
      /\ mask \in SUBSET Events /\ mask # {}
      /\ w \notin iowatches /\ \A m \in Watches : ~Has(slaves[m], w)
      /\ LiveOn(f)' = LiveOn(f) \cup {w} /\ w \notin LiveOn(f)
      /\ \A g \in Fds \ {f} : LiveOn(g)' = LiveOn(g) /\ w \notin LiveOn(g)
  BY WatchAllocated
<1>3. /\ fdtbl'[f] = w /\ epoll'[f] = mask /\ slaves'[w] = <<>>
      /\ \A g \in Fds \ {f} : fdtbl'[g] = fdtbl[g] /\ epoll'[g] = epoll[g]
      /\ \A m \in Watches \ {w} : slaves'[m] = slaves[m]
  BY <1>1 DEF WatchInv, WatchTypes
<1>4. WatchTypes'
  <2>1. 0 \in 0..(HupLimit + 1)
    BY Kinds
  <2>2. watch' \in [Watches -> [fd : Fds \cup {None}, events : SUBSET Events,
                                wrhup : 0..(HupLimit + 1)]]
    BY <1>1, <1>2, <2>1 DEF WatchInv, WatchTypes
  <2>3. slaves' \in [Watches -> Seq(Watches)] /\ epoll' \in [Fds -> (SUBSET Events) \cup {None}]
    BY <1>1, <1>2 DEF WatchInv, WatchTypes
  <2>4. QED BY <1>1, <2>2, <2>3 DEF WatchInv, WatchTypes
<1>5. \A x \in Watches : /\ state'[x] # "free" => watch'[x].fd \in Fds
                         /\ Live(x)' <=> watch'[x].events # {}
  BY <1>2 DEF WatchInv, Live
<1>6. \A g \in Fds : fdtbl'[g] # None => fdtbl'[g] \in iowatches' /\ watch'[fdtbl'[g]].fd = g
  <2>1. \A g \in Fds \ {f} : fdtbl[g] # None =>
           fdtbl[g] \in iowatches /\ fdtbl[g] \in Watches /\ fdtbl[g] # w /\ watch[fdtbl[g]].fd = g
    BY <1>2 DEF WatchInv, WatchTypes
  <2>2. QED BY <1>1, <1>2, <1>3, <2>1
<1>7. \A x \in iowatches' : state'[x] # "free"
  <2>1. \A x \in iowatches : x \in Watches /\ x # w /\ state[x] # "free"
    BY <1>2 DEF WatchInv, WatchTypes
  <2>2. QED BY <1>1, <1>2, <2>1
<1>8. ~Has(slaves'[w], w) /\ \A s : ~Has(slaves'[w], s)
  BY <1>3 DEF Has
<1>9. \A m \in Watches : NoRepeat(slaves'[m])
  BY <1>3 DEF WatchInv, NoRepeat
<1>10. ASSUME NEW m \in Watches, NEW s \in Watches, Has(slaves'[m], s)
       PROVE  /\ state'[s] # "free" /\ watch'[s].fd = watch'[m].fd
              /\ m \in iowatches' /\ s \notin iowatches'
              /\ \A n \in Watches : Has(slaves'[n], s) => n = m
  <2>1. m # w /\ Has(slaves[m], s) /\ s # w
    BY <1>2, <1>3, <1>8, <1>10
  <2>2. \A n \in Watches : Has(slaves'[n], s) => Has(slaves[n], s)
    BY <1>3, <1>8
  <2>3. /\ state[s] # "free" /\ watch[s].fd = watch[m].fd
        /\ m \in iowatches /\ s \notin iowatches
        /\ \A n \in Watches : Has(slaves[n], s) => n = m
    BY <2>1 DEF WatchInv
  <2>4. QED BY <1>1, <1>2, <2>1, <2>2, <2>3
<1>11. FdsArePolled'
  <2>1. ASSUME f \notin hung
        PROVE  /\ LiveOn(f)' # {} /\ LiveOn(f)' \subseteq {fdtbl'[f]}
               /\ epoll'[f] = UNION {watch'[x].events : x \in LiveOn(f)'}
    <3>1. LiveOn(f) = {}
      BY <2>1 DEF WatchInv, FdsArePolled
    <3>2. LiveOn(f)' = {w}
      BY <1>2, <3>1
    <3>3. {watch'[x].events : x \in {w}} = {mask}
      BY <1>2
    <3>4. QED BY <1>3, <3>2, <3>3
  <2>2. ASSUME NEW g \in Fds, g \notin hung, g # f
        PROVE  IF LiveOn(g)' = {} THEN epoll'[g] = None
               ELSE /\ fdtbl'[g] # None
                    /\ LiveOn(g)' \subseteq {fdtbl'[g]} \cup Range(slaves'[fdtbl'[g]])
                    /\ epoll'[g] = UNION {watch'[x].events : x \in LiveOn(g)'}
    <3>1. IF LiveOn(g) = {} THEN epoll[g] = None
          ELSE /\ fdtbl[g] # None
               /\ LiveOn(g) \subseteq {fdtbl[g]} \cup Range(slaves[fdtbl[g]])
               /\ epoll[g] = UNION {watch[x].events : x \in LiveOn(g)}
      BY <2>2 DEF WatchInv, FdsArePolled
    <3>2. LiveOn(g)' = LiveOn(g) /\ \A x \in LiveOn(g) : watch'[x] = watch[x]
      BY <1>2, <2>2 DEF LiveOn
    <3>3. {watch'[x].events : x \in LiveOn(g)} = {watch[x].events : x \in LiveOn(g)}
      BY <3>2
    <3>4. fdtbl[g] # None => fdtbl[g] \in Watches \ {w}
      BY <1>2 DEF WatchInv, WatchTypes
    <3>5. QED BY <1>3, <2>2, <3>1, <3>2, <3>3, <3>4
  <2>3. None \notin Watches
    BY LoopAssumption DEF Objects
  <2>4. QED BY <1>1, <1>3, <2>1, <2>2, <2>3 DEF FdsArePolled
<1>12. \A m \in iowatches : \A x : Has(slaves[m], x) => Has(slaves'[m], x)
  BY <1>2, <1>3 DEF WatchInv, WatchTypes
<1>13. iowatches \subseteq iowatches'
  BY <1>1
<1>14. QED BY <1>4, <1>5, <1>6, <1>7, <1>9, <1>10, <1>11, <1>12, <1>13 DEF WatchInv

\* A watch of a descriptor that has an entry: it joins the slaves of that one.
LEMMA SlaveAdded ==
    ASSUME StateInv, WatchInv, NEW w \in Watches, NEW f \in Fds, NEW mask \in Masks,
           AddWatch(w, f, mask), NEW h, h = fdtbl[f], h # None
    PROVE  /\ WatchInv' /\ iowatches \subseteq iowatches'
           /\ \A m \in iowatches : \A x : Has(slaves[m], x) => Has(slaves'[m], x)
<1>1. /\ epoll' = [epoll EXCEPT ![f] = EventMask(h, None, watch) \cup mask]
      /\ slaves' = [slaves EXCEPT ![h] = Append(@, w), ![w] = <<>>]
      /\ fdtbl' = fdtbl /\ iowatches' = iowatches /\ hung' = hung
      /\ watch' = [watch EXCEPT ![w] = [fd |-> f, events |-> mask, wrhup |-> 0]]
  BY DEF AddWatch
<1>2. /\ state[w] = "free" /\ state'[w] = "live"
      /\ \A x \in Watches \ {w} : state'[x] = state[x] /\ watch'[x] = watch[x]
      /\ watch'[w] = [fd |-> f, events |-> mask, wrhup |-> 0]
      /\ mask \in SUBSET Events /\ mask # {}
      /\ w \notin iowatches /\ \A m \in Watches : ~Has(slaves[m], w)
      /\ LiveOn(f)' = LiveOn(f) \cup {w} /\ w \notin LiveOn(f)
      /\ \A g \in Fds \ {f} : LiveOn(g)' = LiveOn(g) /\ w \notin LiveOn(g)
  BY WatchAllocated
<1>3. /\ h \in iowatches /\ h \in Watches
      /\ \A x \in {h} \cup Range(slaves[h]) :
            x \in Watches /\ watch[x].fd = f /\ (x \in LiveOn(f) <=> watch[x].events # {})
  BY EntryLeads
<1>4. h # w /\ h = fdtbl[f] /\ watch[h].fd = f
  BY <1>2, <1>3
<1>5. /\ slaves'[h] = Append(slaves[h], w) /\ slaves'[w] = <<>>
      /\ \A m \in Watches \ {h, w} : slaves'[m] = slaves[m]
      /\ slaves' \in [Watches -> Seq(Watches)]
  <2>1. slaves \in [Watches -> Seq(Watches)]
    BY DEF WatchInv, WatchTypes
  <2>2. Append(slaves[h], w) \in Seq(Watches) /\ <<>> \in Seq(Watches)
    BY <1>3, <2>1
  <2>3. slaves' = [[slaves EXCEPT ![h] = Append(slaves[h], w)] EXCEPT ![w] = <<>>]
    BY <1>1, <1>3, <2>1
  <2>4. QED BY <1>3, <1>4, <2>1, <2>2, <2>3
<1>6. /\ \A x : Has(slaves'[h], x) <=> (x = w \/ Has(slaves[h], x))
      /\ NoRepeat(slaves'[h])
      /\ \A x : ~Has(slaves'[w], x)
  <2>1. slaves[h] \in Seq(Watches) /\ NoRepeat(slaves[h]) /\ ~Has(slaves[h], w)
    BY <1>2, <1>3 DEF WatchInv, WatchTypes
  <2>2. QED
    <3>1. /\ \A x : Has(slaves'[h], x) <=> (x = w \/ Has(slaves[h], x))
          /\ NoRepeat(slaves'[h])
      BY <1>5, <2>1, AppendMembers
    <3>2. \A x : ~Has(slaves'[w], x)
      BY <1>5 DEF Has
    <3>3. QED BY <3>1, <3>2
<1>7. /\ epoll'[f] = EventMask(h, None, watch) \cup mask
      /\ \A g \in Fds \ {f} : epoll'[g] = epoll[g]
  BY <1>1 DEF WatchInv, WatchTypes
<1>8. EventMask(h, None, watch) = UNION {watch[x].events : x \in LiveOn(f) \cap ({h} \cup Range(slaves[h]))}
  <2>1. None \notin {h} \cup Range(slaves[h])
    BY <1>3, Kinds
  <2>2. EventMask(h, None, watch) = UNION {watch[x].events : x \in {h} \cup Range(slaves[h])}
    BY <2>1 DEF EventMask
  <2>3. QED BY <1>3, <2>2
<1>9. EventMask(h, None, watch) \in SUBSET Events
  <2>1. \A x \in Watches : watch[x].events \subseteq Events
    BY DEF WatchInv, WatchTypes
  <2>2. \A x \in LiveOn(f) : x \in Watches
    BY DEF LiveOn
  <2>3. QED BY <1>8, <2>1, <2>2
<1>10. WatchTypes'
  <2>1. 0 \in 0..(HupLimit + 1)
    BY Kinds
  <2>2. watch' \in [Watches -> [fd : Fds \cup {None}, events : SUBSET Events,
                                wrhup : 0..(HupLimit + 1)]]
    BY <1>1, <1>2, <2>1 DEF WatchInv, WatchTypes
  <2>3. epoll' \in [Fds -> (SUBSET Events) \cup {None}]
    BY <1>1, <1>2, <1>9 DEF WatchInv, WatchTypes
  <2>4. QED BY <1>1, <1>5, <2>2, <2>3 DEF WatchInv, WatchTypes
<1>11. \A x \in Watches : /\ state'[x] # "free" => watch'[x].fd \in Fds
                          /\ Live(x)' <=> watch'[x].events # {}
  BY <1>2 DEF WatchInv, Live
<1>12. \A g \in Fds : fdtbl'[g] # None => fdtbl'[g] \in iowatches' /\ watch'[fdtbl'[g]].fd = g
  <2>1. \A g \in Fds : fdtbl[g] # None =>
           fdtbl[g] \in iowatches /\ fdtbl[g] \in Watches /\ fdtbl[g] # w /\ watch[fdtbl[g]].fd = g
    BY <1>2 DEF WatchInv, WatchTypes
  <2>2. QED BY <1>1, <1>2, <2>1
<1>13. \A x \in iowatches' : state'[x] # "free"
  <2>1. \A x \in iowatches : x \in Watches /\ x # w /\ state[x] # "free"
    BY <1>2 DEF WatchInv, WatchTypes
  <2>2. QED BY <1>1, <1>2, <2>1
<1>14. \A m \in Watches : NoRepeat(slaves'[m])
  <2>1. NoRepeat(slaves'[w])
    BY <1>5 DEF NoRepeat
  <2>2. QED BY <1>5, <1>6, <2>1 DEF WatchInv
<1>15. ASSUME NEW m \in Watches, NEW s \in Watches, Has(slaves'[m], s)
       PROVE  /\ state'[s] # "free" /\ watch'[s].fd = watch'[m].fd
              /\ m \in iowatches' /\ s \notin iowatches'
              /\ \A n \in Watches : Has(slaves'[n], s) => n = m
  <2>1. m # w /\ (Has(slaves[m], s) \/ (m = h /\ s = w))
    BY <1>5, <1>6, <1>15
  <2>2. \A n \in Watches : Has(slaves'[n], s) => Has(slaves[n], s) \/ (n = h /\ s = w)
    BY <1>5, <1>6
  <2>3. CASE s = w
    <3>1. m = h /\ \A n \in Watches : Has(slaves'[n], s) => n = h
      BY <1>2, <2>1, <2>2, <2>3
    <3>2. QED
      <4>1. watch'[h] = watch[h] /\ h \in iowatches' /\ w \notin iowatches'
        BY <1>1, <1>2, <1>3, <1>4
      <4>2. QED BY <1>2, <1>4, <2>3, <3>1, <4>1
  <2>4. CASE s # w
    <3>1. Has(slaves[m], s)
      BY <2>1, <2>4
    <3>2. /\ state[s] # "free" /\ watch[s].fd = watch[m].fd
          /\ m \in iowatches /\ s \notin iowatches
          /\ \A n \in Watches : Has(slaves[n], s) => n = m
      BY <3>1 DEF WatchInv
    <3>3. QED BY <1>1, <1>2, <2>1, <2>2, <2>4, <3>2
  <2>5. QED BY <2>3, <2>4
<1>16. FdsArePolled'
  <2>1. ASSUME f \notin hung
        PROVE  /\ LiveOn(f)' # {} /\ fdtbl'[f] # None
               /\ LiveOn(f)' \subseteq {fdtbl'[f]} \cup Range(slaves'[fdtbl'[f]])
               /\ epoll'[f] = UNION {watch'[x].events : x \in LiveOn(f)'}
    <3>1. LiveOn(f) \subseteq {h} \cup Range(slaves[h])
      BY <1>4, <2>1 DEF WatchInv, FdsArePolled
    <3>2. LiveOn(f)' \subseteq {h} \cup Range(slaves'[h])
      BY <1>2, <1>6, <3>1, RangeIsHas
    <3>3. EventMask(h, None, watch) = UNION {watch[x].events : x \in LiveOn(f)}
      BY <1>8, <3>1
    <3>4. \A x \in LiveOn(f) : watch'[x] = watch[x]
      BY <1>2 DEF LiveOn
    <3>5. {watch'[x].events : x \in LiveOn(f) \cup {w}}
            = {watch[x].events : x \in LiveOn(f)} \cup {mask}
      BY <1>2, <3>4
    <3>6. epoll'[f] = UNION {watch'[x].events : x \in LiveOn(f)'}
      <4>1. epoll'[f] = UNION ({watch[x].events : x \in LiveOn(f)} \cup {mask})
        BY <1>7, <3>3
      <4>2. QED BY <1>2, <3>5, <4>1
    <3>7. QED BY <1>1, <1>2, <1>4, <3>2, <3>6
  <2>2. ASSUME NEW g \in Fds, g \notin hung, g # f
        PROVE  IF LiveOn(g)' = {} THEN epoll'[g] = None
               ELSE /\ fdtbl'[g] # None
                    /\ LiveOn(g)' \subseteq {fdtbl'[g]} \cup Range(slaves'[fdtbl'[g]])
                    /\ epoll'[g] = UNION {watch'[x].events : x \in LiveOn(g)'}
    <3>1. IF LiveOn(g) = {} THEN epoll[g] = None
          ELSE /\ fdtbl[g] # None
               /\ LiveOn(g) \subseteq {fdtbl[g]} \cup Range(slaves[fdtbl[g]])
               /\ epoll[g] = UNION {watch[x].events : x \in LiveOn(g)}
      BY <2>2 DEF WatchInv, FdsArePolled
    <3>2. LiveOn(g)' = LiveOn(g) /\ \A x \in LiveOn(g) : watch'[x] = watch[x]
      BY <1>2, <2>2 DEF LiveOn
    <3>3. {watch'[x].events : x \in LiveOn(g)} = {watch[x].events : x \in LiveOn(g)}
      BY <3>2
    <3>4. fdtbl[g] # None => fdtbl[g] \in Watches \ {h, w}
      BY <1>2, <1>3, <2>2 DEF WatchInv, WatchTypes
    <3>5. QED BY <1>1, <1>5, <1>7, <2>2, <3>1, <3>2, <3>3, <3>4
  <2>3. QED BY <1>1, <2>1, <2>2 DEF FdsArePolled
<1>17. \A m \in iowatches : \A x : Has(slaves[m], x) => Has(slaves'[m], x)
  BY <1>2, <1>5, <1>6 DEF WatchInv, WatchTypes
<1>18. iowatches \subseteq iowatches'
  BY <1>1
<1>19. QED BY <1>10, <1>11, <1>12, <1>13, <1>14, <1>15, <1>16, <1>17, <1>18 DEF WatchInv

\* The kernel is told what the live watches that are left ask for.
LEMMA DelWatchKeeps ==
    ASSUME StateInv, WatchInv, NEW w \in Watches, DelWatch(w),
           NEW f, f = watch[w].fd,
           NEW h, h = IF w \in iowatches THEN w ELSE fdtbl[f],
           NEW mask, mask = IF h = None THEN {} ELSE EventMask(h, w, watch')
    PROVE  WatchInv'
<1>1. /\ MarkDeleted(w) /\ watch' = [watch EXCEPT ![w].events = {}]
      /\ fdtbl' = IF h # None /\ mask = {} THEN [fdtbl EXCEPT ![f] = None] ELSE fdtbl
      /\ epoll' = [epoll EXCEPT ![f] = IF h = None \/ @ = None THEN @
                                       ELSE IF mask = {} THEN None ELSE mask]
      /\ iowatches' = iowatches /\ slaves' = slaves /\ hung' = hung
  BY DEF DelWatch
<1>2. /\ state[w] = "live" /\ state'[w] = "deleted"
      /\ \A x \in Watches \ {w} : state'[x] = state[x]
  BY <1>1, MarkDeletedIs, Kinds
<1>3. /\ \A x \in Watches \ {w} : watch'[x] = watch[x]
      /\ watch'[w].fd = f /\ watch'[w].events = {} /\ watch'[w].wrhup = watch[w].wrhup
      /\ watch' \in [Watches -> [fd : Fds \cup {None}, events : SUBSET Events,
                                 wrhup : 0..(HupLimit + 1)]]
  <2>1. watch \in [Watches -> [fd : Fds \cup {None}, events : SUBSET Events,
                               wrhup : 0..(HupLimit + 1)]]
    BY DEF WatchInv, WatchTypes
  <2>2. watch' = [watch EXCEPT ![w] = [watch[w] EXCEPT !.events = {}]]
    BY <1>1, <2>1
  <2>3. [watch[w] EXCEPT !.events = {}] \in [fd : Fds \cup {None}, events : SUBSET Events,
                                            wrhup : 0..(HupLimit + 1)]
    BY <2>1
  <2>4. QED BY <2>1, <2>2, <2>3
<1>4. f \in Fds /\ w \in LiveOn(f) /\ f # None
  BY <1>2, Kinds DEF WatchInv, LiveOn, Live
<1>5. /\ h \in Watches \cup {None}
      /\ h # None => \A x \in {h} \cup Range(slaves[h]) : x \in Watches
  <2>1. h \in Watches \cup {None} /\ (h # None => slaves[h] \in Seq(Watches))
    BY <1>4 DEF WatchInv, WatchTypes
  <2>2. h # None => \A x \in Range(slaves[h]) : x \in Watches
    BY <2>1, RangeIsHas DEF Has
  <2>3. QED BY <2>1, <2>2
<1>6. mask \in SUBSET Events
  BY <1>3, <1>5 DEF EventMask
<1>7. WatchTypes'
  <2>1. epoll' \in [Fds -> (SUBSET Events) \cup {None}]
    <3>1. epoll \in [Fds -> (SUBSET Events) \cup {None}]
      BY DEF WatchInv, WatchTypes
    <3> DEFINE e == IF h = None \/ epoll[f] = None THEN epoll[f]
                    ELSE IF mask = {} THEN None ELSE mask
    <3>2. e \in (SUBSET Events) \cup {None}
      BY <1>4, <1>6, <3>1
    <3>3. epoll' = [epoll EXCEPT ![f] = e]
      BY <1>1, <1>4, <3>1
    <3> HIDE DEF e
    <3>4. QED BY <3>1, <3>2, <3>3
  <2>2. fdtbl' \in [Fds -> Watches \cup {None}]
    BY <1>1 DEF WatchInv, WatchTypes
  <2>3. QED BY <1>1, <1>3, <2>1, <2>2 DEF WatchInv, WatchTypes
<1>8. \A x \in Watches : watch'[x].fd = watch[x].fd
  BY <1>3
<1>9. \A x \in Watches : /\ state'[x] # "free" => watch'[x].fd \in Fds
                         /\ Live(x)' <=> watch'[x].events # {}
  BY <1>2, <1>3, <1>8 DEF WatchInv, Live
<1>10. \A g \in Fds : fdtbl'[g] # None => fdtbl'[g] \in iowatches' /\ watch'[fdtbl'[g]].fd = g
  <2>1. \A g \in Fds : fdtbl'[g] # None => fdtbl'[g] = fdtbl[g]
    BY <1>1 DEF WatchInv, WatchTypes
  <2>2. \A g \in Fds : fdtbl[g] # None =>
           fdtbl[g] \in iowatches /\ fdtbl[g] \in Watches /\ watch[fdtbl[g]].fd = g
    BY DEF WatchInv, WatchTypes
  <2>3. QED BY <1>1, <1>8, <2>1, <2>2
<1>11. \A x \in iowatches' : state'[x] # "free"
  <2>1. \A x \in iowatches : x \in Watches /\ state[x] # "free"
    BY DEF WatchInv, WatchTypes
  <2>2. QED BY <1>1, <1>2, <2>1
<1>12. /\ \A m \in Watches : NoRepeat(slaves'[m])
       /\ \A m, s \in Watches : Has(slaves'[m], s) =>
             /\ state'[s] # "free" /\ watch'[s].fd = watch'[m].fd
             /\ m \in iowatches' /\ s \notin iowatches'
             /\ \A n \in Watches : Has(slaves'[n], s) => n = m
  <2>1. \A x \in Watches : state'[x] # "free" <=> state[x] # "free"
    BY <1>2
  <2>2. QED BY <1>1, <1>8, <2>1 DEF WatchInv
<1>13. /\ LiveOn(f)' = LiveOn(f) \ {w}
       /\ \A g \in Fds \ {f} : LiveOn(g)' = LiveOn(g) /\ w \notin LiveOn(g)
  <2>1. \A x \in Watches : Live(x)' <=> Live(x) /\ x # w
    BY <1>2 DEF Live
  <2>2. \A g : LiveOn(g)' = LiveOn(g) \ {w}
    BY <1>8, <2>1 DEF LiveOn
  <2>3. \A g \in Fds \ {f} : w \notin LiveOn(g)
    BY DEF LiveOn
  <2>4. QED BY <2>2, <2>3
<1>14. ASSUME f \notin hung
       PROVE  IF LiveOn(f)' = {} THEN epoll'[f] = None
              ELSE /\ fdtbl'[f] # None
                   /\ LiveOn(f)' \subseteq {fdtbl'[f]} \cup Range(slaves'[fdtbl'[f]])
                   /\ epoll'[f] = UNION {watch'[x].events : x \in LiveOn(f)'}
  <2>1. /\ fdtbl[f] # None
        /\ LiveOn(f) \subseteq {fdtbl[f]} \cup Range(slaves[fdtbl[f]])
        /\ epoll[f] = UNION {watch[x].events : x \in LiveOn(f)}
    BY <1>4, <1>14 DEF WatchInv, FdsArePolled
  <2>2. /\ fdtbl[f] \in iowatches
        /\ \A x \in {fdtbl[f]} \cup Range(slaves[fdtbl[f]]) :
              x \in Watches /\ watch[x].fd = f /\ (x \in LiveOn(f) <=> watch[x].events # {})
    BY <1>4, <2>1, EntryLeads
  <2>3. h = fdtbl[f]
    <3>1. CASE w \in iowatches
      <4>1. fdtbl[f] \in Watches
        BY <2>2
      <4>2. ~Has(slaves[fdtbl[f]], w)
        BY <3>1, <4>1 DEF WatchInv
      <4>3. QED BY <1>4, <2>1, <3>1, <4>2, RangeIsHas
    <3>2. CASE w \notin iowatches
      BY <3>2
    <3>3. QED BY <3>1, <3>2
  <2>4. mask = UNION {watch'[x].events : x \in LiveOn(f) \ {w}}
    <3>1. mask = UNION {watch'[x].events : x \in ({h} \cup Range(slaves[h])) \ {w}}
      BY <1>1, <2>1, <2>3 DEF EventMask
    <3>2. \A x \in ({h} \cup Range(slaves[h])) \ {w} :
             watch'[x].events # {} => x \in LiveOn(f) \ {w}
      BY <1>3, <2>2, <2>3
    <3>3. LiveOn(f) \ {w} \subseteq ({h} \cup Range(slaves[h])) \ {w}
      BY <2>1, <2>3
    <3>4. QED BY <3>1, <3>2, <3>3
  <2>5. \A x \in LiveOn(f) \ {w} : watch'[x].events # {}
    BY <1>3 DEF WatchInv, LiveOn
  <2>6. mask = {} <=> LiveOn(f) \ {w} = {}
    BY <2>4, <2>5
  <2>7. epoll[f] # None
    <3>1. \A x \in LiveOn(f) : watch[x].events \subseteq Events
      BY DEF WatchInv, WatchTypes, LiveOn
    <3>2. epoll[f] \in SUBSET Events
      BY <2>1, <3>1
    <3>3. QED BY <3>2, Kinds
  <2>8. epoll'[f] = IF mask = {} THEN None ELSE mask
    <3>1. h # None /\ f \in DOMAIN epoll
      BY <1>4, <2>1, <2>3 DEF WatchInv, WatchTypes
    <3>2. epoll'[f] = IF h = None \/ epoll[f] = None THEN epoll[f]
                      ELSE IF mask = {} THEN None ELSE mask
      BY <1>1, <3>1
    <3>3. QED BY <2>7, <3>1, <3>2
  <2>9. mask # {} => fdtbl' = fdtbl
    BY <1>1
  <2>10. QED BY <1>1, <1>13, <2>1, <2>4, <2>6, <2>8, <2>9
<1>15. ASSUME NEW g \in Fds, g \notin hung, g # f
       PROVE  IF LiveOn(g)' = {} THEN epoll'[g] = None
              ELSE /\ fdtbl'[g] # None
                   /\ LiveOn(g)' \subseteq {fdtbl'[g]} \cup Range(slaves'[fdtbl'[g]])
                   /\ epoll'[g] = UNION {watch'[x].events : x \in LiveOn(g)'}
  <2>1. IF LiveOn(g) = {} THEN epoll[g] = None
        ELSE /\ fdtbl[g] # None
             /\ LiveOn(g) \subseteq {fdtbl[g]} \cup Range(slaves[fdtbl[g]])
             /\ epoll[g] = UNION {watch[x].events : x \in LiveOn(g)}
    BY <1>15 DEF WatchInv, FdsArePolled
  <2>2. LiveOn(g)' = LiveOn(g) /\ \A x \in LiveOn(g) : watch'[x] = watch[x]
    BY <1>3, <1>13, <1>15 DEF LiveOn
  <2>3. {watch'[x].events : x \in LiveOn(g)} = {watch[x].events : x \in LiveOn(g)}
    BY <2>2
  <2>4. fdtbl'[g] = fdtbl[g] /\ epoll'[g] = epoll[g]
    BY <1>1, <1>15 DEF WatchInv, WatchTypes
  <2>5. QED BY <1>1, <2>1, <2>2, <2>3, <2>4
<1>16. FdsArePolled'
  BY <1>1, <1>14, <1>15 DEF FdsArePolled
<1>17. QED BY <1>7, <1>9, <1>10, <1>11, <1>12, <1>16 DEF WatchInv

\* A descriptor nobody watches is closed: its entry is not looked at.
LEMMA ReopenKeeps ==
    ASSUME WatchInv, NEW f \in Fds, Reopen(f)
    PROVE  WatchInv'
<1>1. /\ LiveOn(f) = {} /\ hung' = hung \ {f} /\ epoll' = [epoll EXCEPT ![f] = None]
      /\ UNCHANGED <<watch, iowatches, slaves, fdtbl, state>>
  BY DEF Reopen, Keep
<1>2. WatchTypes'
  BY <1>1 DEF WatchInv, WatchTypes
<1>3. /\ epoll'[f] = None
      /\ \A g \in Fds \ {f} : epoll'[g] = epoll[g]
  BY <1>1 DEF WatchInv, WatchTypes
<1>4. \A g : LiveOn(g)' = LiveOn(g)
  BY <1>1 DEF LiveOn, Live
<1>5. FdsArePolled'
  BY <1>1, <1>3, <1>4 DEF WatchInv, FdsArePolled
<1>6. QED BY <1>1, <1>2, <1>5 DEF WatchInv, Live

\* A descriptor that hung up loses its entry, and is excepted from then on.
LEMMA EventDoneKeeps ==
    ASSUME WatchInv, master \in iowatches, EventDone
    PROVE  WatchInv'
<1>1. PICK drop \in BOOLEAN, both \in BOOLEAN :
         /\ fdtbl' = IF drop THEN [fdtbl EXCEPT ![watch[master].fd] = None] ELSE fdtbl
         /\ epoll' = IF drop THEN [epoll EXCEPT ![watch[master].fd] = None] ELSE epoll
         /\ hung' = IF drop THEN hung \cup {watch[master].fd} ELSE hung
         /\ watch' = IF both THEN [watch EXCEPT ![master].wrhup = Least(@ + 1, HupLimit + 1)]
                     ELSE watch
  BY DEF EventDone
<1>2. UNCHANGED <<iowatches, slaves, state>>
  BY DEF EventDone
<1>3. master \in Watches /\ watch[master].fd \in Fds
  BY DEF WatchInv, WatchTypes
<1>4. PICK f \in Fds : f = watch[master].fd
  BY <1>3
<1>5. /\ watch' \in [Watches -> [fd : Fds \cup {None}, events : SUBSET Events,
                                 wrhup : 0..(HupLimit + 1)]]
      /\ \A w \in Watches : watch'[w].fd = watch[w].fd /\ watch'[w].events = watch[w].events
  <2>1. watch \in [Watches -> [fd : Fds \cup {None}, events : SUBSET Events,
                               wrhup : 0..(HupLimit + 1)]]
    BY DEF WatchInv, WatchTypes
  <2>2. Least(watch[master].wrhup + 1, HupLimit + 1) \in 0..(HupLimit + 1)
    <3>1. watch[master].wrhup \in 0..(HupLimit + 1)
      BY <1>3, <2>1
    <3>2. QED BY <3>1, Kinds DEF Least
  <2>3. CASE both
    <3>1. watch' = [watch EXCEPT ![master] =
                       [watch[master] EXCEPT !.wrhup = Least(watch[master].wrhup + 1,
                                                             HupLimit + 1)]]
      BY <1>1, <1>3, <2>1, <2>3
    <3>2. QED BY <1>3, <2>1, <2>2, <3>1
  <2>4. CASE ~both
    BY <1>1, <2>1, <2>4
  <2>5. QED BY <2>3, <2>4
<1>6. WatchTypes'
  BY <1>1, <1>2, <1>4, <1>5 DEF WatchInv, WatchTypes
<1>7. \A g \in Fds : /\ fdtbl'[g] # None => fdtbl'[g] = fdtbl[g]
                     /\ g \notin hung' => /\ g \notin hung
                                          /\ fdtbl'[g] = fdtbl[g] /\ epoll'[g] = epoll[g]
  BY <1>1, <1>4 DEF WatchInv, WatchTypes
<1>8. \A g : LiveOn(g)' = LiveOn(g)
  BY <1>2, <1>5 DEF LiveOn, Live
<1>9. ASSUME NEW g \in Fds, g \notin hung'
      PROVE  IF LiveOn(g)' = {} THEN epoll'[g] = None
             ELSE /\ fdtbl'[g] # None
                  /\ LiveOn(g)' \subseteq {fdtbl'[g]} \cup Range(slaves'[fdtbl'[g]])
                  /\ epoll'[g] = UNION {watch'[w].events : w \in LiveOn(g)'}
  <2>1. IF LiveOn(g) = {} THEN epoll[g] = None
        ELSE /\ fdtbl[g] # None
             /\ LiveOn(g) \subseteq {fdtbl[g]} \cup Range(slaves[fdtbl[g]])
             /\ epoll[g] = UNION {watch[w].events : w \in LiveOn(g)}
    BY <1>7, <1>9 DEF WatchInv, FdsArePolled
  <2>2. \A w \in LiveOn(g) : w \in Watches
    BY DEF LiveOn
  <2>3. {watch'[w].events : w \in LiveOn(g)} = {watch[w].events : w \in LiveOn(g)}
    BY <1>5, <2>2
  <2>4. QED BY <1>2, <1>7, <1>8, <1>9, <2>1, <2>3
<1>10. FdsArePolled'
  BY <1>9 DEF FdsArePolled
<1>11. \A w \in Watches : /\ state'[w] # "free" => watch'[w].fd \in Fds
                          /\ Live(w)' <=> watch'[w].events # {}
  BY <1>2, <1>5 DEF WatchInv, Live
<1>12. \A g \in Fds : fdtbl'[g] # None => fdtbl'[g] \in iowatches' /\ watch'[fdtbl'[g]].fd = g
  <2>1. \A g \in Fds : fdtbl[g] # None =>
           fdtbl[g] \in iowatches /\ fdtbl[g] \in Watches /\ watch[fdtbl[g]].fd = g
    BY DEF WatchInv, WatchTypes
  <2>2. QED BY <1>2, <1>5, <1>7, <2>1
<1>13. /\ \A w \in iowatches' : state'[w] # "free"
       /\ \A m \in Watches : NoRepeat(slaves'[m])
       /\ \A m, s \in Watches : Has(slaves'[m], s) =>
             /\ state'[s] # "free" /\ watch'[s].fd = watch'[m].fd
             /\ m \in iowatches' /\ s \notin iowatches'
             /\ \A n \in Watches : Has(slaves'[n], s) => n = m
  BY <1>2, <1>5 DEF WatchInv
<1>14. QED BY <1>6, <1>10, <1>11, <1>12, <1>13 DEF WatchInv

\* What is freed was not live: no descriptor has one live watch more or less.
LEMMA WatchPurged ==
    ASSUME StateInv, WatchInv, Purge, NEW o, o = Head(deleted)
    PROVE  /\ state'[o] = "free" /\ \A x \in Watches \ {o} : state'[x] = state[x]
           /\ \A x \in Watches \ {o} : watch'[x] = watch[x]
           /\ o \in Watches => /\ watch'[o] = [fd |-> None, events |-> {}, wrhup |-> 0]
                               /\ watch[o].fd \in Fds
           /\ watch' \in [Watches -> [fd : Fds \cup {None}, events : SUBSET Events,
                                      wrhup : 0..(HupLimit + 1)]]
           /\ \A x \in Watches : /\ state'[x] # "free" => watch'[x].fd \in Fds
                                 /\ Live(x)' <=> watch'[x].events # {}
           /\ \A g : LiveOn(g)' = LiveOn(g) /\ o \notin LiveOn(g)
           /\ \A g : {watch'[x].events : x \in LiveOn(g)} = {watch[x].events : x \in LiveOn(g)}
<1>1. /\ o \in Objects /\ state[o] = "deleted" /\ state'[o] = "free"
      /\ \A x \in Objects \ {o} : state'[x] = state[x]
  BY PurgedIs
<1>2. watch' = [w \in Watches |-> IF w = o THEN [fd |-> None, events |-> {}, wrhup |-> 0]
                                  ELSE watch[w]]
  BY DEF Purge
<1>3. \A x \in Watches \ {o} : state'[x] = state[x] /\ watch'[x] = watch[x]
  BY <1>1, <1>2, Kinds
<1>4. o \in Watches => /\ watch'[o] = [fd |-> None, events |-> {}, wrhup |-> 0]
                       /\ watch[o].fd \in Fds
  BY <1>1, <1>2 DEF WatchInv
<1>5. watch' \in [Watches -> [fd : Fds \cup {None}, events : SUBSET Events,
                              wrhup : 0..(HupLimit + 1)]]
  <2>1. [fd |-> None, events |-> {}, wrhup |-> 0]
           \in [fd : Fds \cup {None}, events : SUBSET Events, wrhup : 0..(HupLimit + 1)]
    BY Kinds
  <2>2. QED BY <1>2, <2>1 DEF WatchInv, WatchTypes
<1>6. \A x \in Watches : /\ Live(x)' <=> Live(x)
                         /\ Live(x) => x # o
  BY <1>1, <1>3 DEF Live
<1>7. \A x \in Watches : /\ state'[x] # "free" => watch'[x].fd \in Fds
                         /\ Live(x)' <=> watch'[x].events # {}
  BY <1>1, <1>3, <1>4, <1>6 DEF WatchInv, Live
<1>8. \A g : LiveOn(g)' = LiveOn(g) /\ o \notin LiveOn(g)
  BY <1>3, <1>6 DEF LiveOn
<1>9. \A g : {watch'[x].events : x \in LiveOn(g)} = {watch[x].events : x \in LiveOn(g)}
  <2>1. ASSUME NEW g PROVE \A x \in LiveOn(g) : watch'[x] = watch[x]
    <3>1. \A x \in LiveOn(g) : x \in Watches \ {o}
      BY <1>8 DEF LiveOn
    <3>2. QED BY <1>3, <3>1
  <2>2. QED BY <2>1
<1>10. QED BY <1>1, <1>3, <1>4, <1>5, <1>7, <1>8, <1>9

\* The first slave of a freed master takes over the others.
LEMMA HeirFound ==
    ASSUME StateInv, WatchInv, Purge, NEW o, o = Head(deleted),
           o \in Watches, NEW f, f = watch[o].fd, fdtbl[f] = o,
           NEW q, q = slaves[o], q # <<>>, NEW h, h = q[1]
    PROVE  WatchInv'
<1>1. /\ iowatches' = (iowatches \ {o}) \cup {h}
      /\ fdtbl' = [fdtbl EXCEPT ![f] = h]
      /\ slaves' = [slaves EXCEPT ![h] = Tail(q), ![o] = <<>>]
      /\ epoll' = epoll /\ hung' = hung
  BY DEF Purge, FreeIoWatch
<1>2. /\ state'[o] = "free" /\ \A x \in Watches \ {o} : state'[x] = state[x]
      /\ \A x \in Watches \ {o} : watch'[x] = watch[x]
      /\ f \in Fds
      /\ watch' \in [Watches -> [fd : Fds \cup {None}, events : SUBSET Events,
                                 wrhup : 0..(HupLimit + 1)]]
      /\ \A x \in Watches : /\ state'[x] # "free" => watch'[x].fd \in Fds
                            /\ Live(x)' <=> watch'[x].events # {}
      /\ \A g : LiveOn(g)' = LiveOn(g) /\ o \notin LiveOn(g)
      /\ \A g : {watch'[x].events : x \in LiveOn(g)} = {watch[x].events : x \in LiveOn(g)}
  BY WatchPurged
<1>3. /\ slaves \in [Watches -> Seq(Watches)] /\ fdtbl \in [Fds -> Watches \cup {None}]
      /\ iowatches \subseteq Watches
  BY DEF WatchInv, WatchTypes
<1>4. /\ q \in Seq(Watches) /\ NoRepeat(q)
      /\ h \in Watches /\ Has(q, h)
      /\ Tail(q) \in Seq(Watches) /\ NoRepeat(Tail(q))
      /\ \A x : Has(Tail(q), x) <=> Has(q, x) /\ x # h
  <2>1. q \in Seq(Watches) /\ NoRepeat(q)
    BY <1>3 DEF WatchInv
  <2>2. Head(q) = h
    BY <2>1
  <2>3. QED BY <2>1, <2>2, TailMembers
<1>5. o \in iowatches /\ o # None
  BY <1>2, Kinds DEF WatchInv
<1>6. /\ state[h] # "free" /\ watch[h].fd = f /\ h \notin iowatches /\ h # o
      /\ \A n \in Watches : Has(slaves[n], h) => n = o
      /\ \A n, s \in Watches : Has(slaves[n], s) => n # h /\ s # o
  BY <1>4, <1>5 DEF WatchInv
<1>7. /\ slaves'[h] = Tail(q) /\ slaves'[o] = <<>>
      /\ \A m \in Watches \ {h, o} : slaves'[m] = slaves[m]
      /\ slaves' \in [Watches -> Seq(Watches)]
  <2>1. slaves' = [[slaves EXCEPT ![h] = Tail(q)] EXCEPT ![o] = <<>>]
    BY <1>1, <1>3, <1>4
  <2>2. <<>> \in Seq(Watches)
    OBVIOUS
  <2>3. QED BY <1>3, <1>4, <1>6, <2>1, <2>2
<1>8. fdtbl'[f] = h /\ \A g \in Fds \ {f} : fdtbl'[g] = fdtbl[g]
  BY <1>1, <1>2, <1>3
<1>9. WatchTypes'
  BY <1>1, <1>2, <1>3, <1>4, <1>7 DEF WatchInv, WatchTypes
<1>10. \A x : ~Has(slaves'[o], x)
  BY <1>7 DEF Has
<1>11. \A g \in Fds : fdtbl'[g] # None => fdtbl'[g] \in iowatches' /\ watch'[fdtbl'[g]].fd = g
  <2>1. \A g \in Fds \ {f} : fdtbl[g] # None =>
           fdtbl[g] \in iowatches /\ fdtbl[g] \in Watches /\ fdtbl[g] # o /\ watch[fdtbl[g]].fd = g
    BY <1>3 DEF WatchInv
  <2>2. watch'[h].fd = f
    BY <1>2, <1>4, <1>6
  <2>3. QED BY <1>1, <1>2, <1>8, <2>1, <2>2
<1>12. \A x \in iowatches' : state'[x] # "free"
  <2>1. \A x \in iowatches : x \in Watches /\ state[x] # "free"
    BY <1>3 DEF WatchInv
  <2>2. state'[h] = state[h]
    BY <1>2, <1>4, <1>6
  <2>3. \A x \in iowatches \ {o} : state'[x] = state[x]
    BY <1>2, <2>1
  <2>4. QED BY <1>1, <1>6, <2>1, <2>2, <2>3
<1>13. \A m \in Watches : NoRepeat(slaves'[m])
  <2>1. NoRepeat(slaves'[o])
    BY <1>7 DEF NoRepeat
  <2>2. QED BY <1>4, <1>7, <2>1 DEF WatchInv
<1>14. ASSUME NEW m \in Watches, NEW s \in Watches, Has(slaves'[m], s)
       PROVE  /\ state'[s] # "free" /\ watch'[s].fd = watch'[m].fd
              /\ m \in iowatches' /\ s \notin iowatches'
              /\ \A n \in Watches : Has(slaves'[n], s) => n = m
  <2>1. m # o /\ \E p \in Watches : Has(slaves[p], s) /\ m = (IF p = o THEN h ELSE p) /\ s # h
    <3>1. CASE m = h
      BY <1>4, <1>6, <1>7, <1>14, <3>1
    <3>2. CASE m # h
      BY <1>6, <1>7, <1>10, <1>14, <3>2
    <3>3. QED BY <3>1, <3>2
  <2>2. PICK p \in Watches : Has(slaves[p], s) /\ m = (IF p = o THEN h ELSE p) /\ s # h
    BY <2>1
  <2>3. /\ state[s] # "free" /\ watch[s].fd = watch[p].fd
        /\ p \in iowatches /\ s \notin iowatches
        /\ \A n \in Watches : Has(slaves[n], s) => n = p
    BY <2>2 DEF WatchInv
  <2>4. s # o
    BY <1>5, <2>3
  <2>5. watch[m].fd = watch[p].fd
    BY <1>6, <2>2
  <2>6. \A n \in Watches : Has(slaves'[n], s) =>
           n # o /\ (IF n = h THEN Has(slaves[o], s) ELSE Has(slaves[n], s))
    BY <1>4, <1>7, <1>10
  <2>7. state'[s] # "free" /\ watch'[s].fd = watch'[m].fd
    <3>1. state'[s] = state[s] /\ watch'[s] = watch[s] /\ watch'[m] = watch[m]
      BY <1>2, <2>1, <2>4
    <3>2. QED BY <2>3, <2>5, <3>1
  <2>8. m \in iowatches' /\ s \notin iowatches'
    BY <1>1, <2>1, <2>2, <2>3
  <2>9. ASSUME NEW n \in Watches, Has(slaves'[n], s) PROVE n = m
    <3>1. n # o /\ (IF n = h THEN p = o ELSE p = n)
      BY <2>3, <2>6, <2>9
    <3>2. QED BY <2>2, <3>1
  <2>10. QED BY <2>7, <2>8, <2>9
<1>15. ASSUME NEW g \in Fds, g \notin hung
       PROVE  IF LiveOn(g)' = {} THEN epoll'[g] = None
              ELSE /\ fdtbl'[g] # None
                   /\ LiveOn(g)' \subseteq {fdtbl'[g]} \cup Range(slaves'[fdtbl'[g]])
                   /\ epoll'[g] = UNION {watch'[x].events : x \in LiveOn(g)'}
  <2>0. /\ LiveOn(g)' = LiveOn(g) /\ epoll'[g] = epoll[g]
        /\ {watch'[x].events : x \in LiveOn(g)} = {watch[x].events : x \in LiveOn(g)}
    BY <1>1, <1>2
  <2>1. IF LiveOn(g) = {} THEN epoll[g] = None
        ELSE /\ fdtbl[g] # None
             /\ LiveOn(g) \subseteq {fdtbl[g]} \cup Range(slaves[fdtbl[g]])
             /\ epoll[g] = UNION {watch[x].events : x \in LiveOn(g)}
    BY <1>15 DEF WatchInv, FdsArePolled
  <2>2. CASE g = f
    <3>1. LiveOn(f) # {} => LiveOn(f) \subseteq {h} \cup Range(slaves'[h])
      <4>1. LiveOn(f) # {} => \A x \in LiveOn(f) : x = o \/ Has(q, x)
        BY <2>1, <2>2, RangeIsHas
      <4>2. LiveOn(f) # {} => \A x \in LiveOn(f) : x = h \/ Has(slaves'[h], x)
        BY <1>2, <1>4, <1>7, <4>1
      <4>3. QED BY <4>2, RangeIsHas
    <3>2. h # None
      BY <1>4, Kinds
    <3>3. QED
      <4>1. /\ fdtbl'[g] = h /\ fdtbl'[g] # None
            /\ LiveOn(g) # {} => LiveOn(g) \subseteq {fdtbl'[g]} \cup Range(slaves'[fdtbl'[g]])
        BY <1>8, <2>2, <3>1, <3>2
      <4>2. /\ LiveOn(g) = {} => epoll[g] = None
            /\ LiveOn(g) # {} => epoll[g] = UNION {watch[x].events : x \in LiveOn(g)}
        BY <2>1
      <4>3. QED BY <2>0, <4>1, <4>2
  <2>3. CASE g # f
    <3>1. fdtbl[g] # None => fdtbl[g] \in Watches \ {h, o}
      BY <1>3, <1>6, <2>3 DEF WatchInv
    <3>2. fdtbl'[g] = fdtbl[g] /\ (fdtbl[g] # None => slaves'[fdtbl[g]] = slaves[fdtbl[g]])
      BY <1>7, <1>8, <2>3, <3>1
    <3>3. QED BY <2>0, <2>1, <3>2
  <2>4. QED BY <2>2, <2>3
<1>16. FdsArePolled'
  BY <1>1, <1>15 DEF FdsArePolled
<1>17. QED BY <1>2, <1>9, <1>11, <1>12, <1>13, <1>14, <1>16 DEF WatchInv

\* Another object is only taken off the lists; an entry that leads to it has
\* nothing left that is live.
LEMMA WatchUnlinked ==
    ASSUME StateInv, WatchInv, Purge, NEW o, o = Head(deleted),
           ~(o \in Watches /\ fdtbl[watch[o].fd] = o /\ slaves[o] # <<>>)
    PROVE  WatchInv'
<1>1. /\ iowatches' = iowatches \ {o}
      /\ fdtbl' = IF o \in Watches
                  THEN [fdtbl EXCEPT ![watch[o].fd] = IF @ = o THEN None ELSE @]
                  ELSE fdtbl
      /\ slaves' = [w \in Watches |-> IF w = o THEN <<>> ELSE Unlink(slaves[w], o)]
      /\ epoll' = epoll /\ hung' = hung
  BY DEF Purge, FreeIoWatch
<1>2. /\ state'[o] = "free" /\ \A x \in Watches \ {o} : state'[x] = state[x]
      /\ \A x \in Watches \ {o} : watch'[x] = watch[x]
      /\ o \in Watches => watch[o].fd \in Fds
      /\ watch' \in [Watches -> [fd : Fds \cup {None}, events : SUBSET Events,
                                 wrhup : 0..(HupLimit + 1)]]
      /\ \A x \in Watches : /\ state'[x] # "free" => watch'[x].fd \in Fds
                            /\ Live(x)' <=> watch'[x].events # {}
      /\ \A g : LiveOn(g)' = LiveOn(g) /\ o \notin LiveOn(g)
      /\ \A g : {watch'[x].events : x \in LiveOn(g)} = {watch[x].events : x \in LiveOn(g)}
  BY WatchPurged
<1>3. /\ slaves \in [Watches -> Seq(Watches)] /\ fdtbl \in [Fds -> Watches \cup {None}]
      /\ iowatches \subseteq Watches
  BY DEF WatchInv, WatchTypes
<1>4. ASSUME NEW m \in Watches
      PROVE  /\ slaves'[m] \in Seq(Watches) /\ NoRepeat(slaves'[m])
             /\ \A s : Has(slaves'[m], s) <=> Has(slaves[m], s) /\ m # o /\ s # o
  <2>1. CASE m = o
    <3>1. slaves'[m] = <<>>
      BY <1>1, <2>1
    <3>2. QED BY <2>1, <3>1 DEF Has, NoRepeat
  <2>2. CASE m # o
    <3>1. slaves[m] \in Seq(Watches) /\ NoRepeat(slaves[m])
      BY <1>3 DEF WatchInv
    <3>2. slaves'[m] = Unlink(slaves[m], o)
      BY <1>1, <2>2
    <3>3. QED BY <2>2, <3>1, <3>2, UnlinkMembers
  <2>3. QED BY <2>1, <2>2
<1>5. \A g \in Fds : \/ fdtbl'[g] = fdtbl[g] /\ fdtbl[g] # o
                     \/ fdtbl'[g] = None /\ fdtbl[g] = o /\ o \in Watches /\ slaves[o] = <<>>
  <2>1. \A g \in Fds : fdtbl[g] # None => fdtbl[g] \in Watches /\ watch[fdtbl[g]].fd = g
    BY <1>3 DEF WatchInv
  <2>2. o # None
    BY PurgedIs, Kinds
  <2>3. CASE o \in Watches
    BY <1>1, <1>2, <1>3, <2>1, <2>2, <2>3
  <2>4. CASE o \notin Watches
    BY <1>1, <2>1, <2>2, <2>4
  <2>5. QED BY <2>3, <2>4
<1>6. WatchTypes'
  <2>1. slaves' \in [Watches -> Seq(Watches)]
    BY <1>1, <1>4
  <2>2. fdtbl' \in [Fds -> Watches \cup {None}]
    BY <1>1, <1>3
  <2>3. QED BY <1>1, <1>2, <1>3, <2>1, <2>2 DEF WatchInv, WatchTypes
<1>7. \A g \in Fds : fdtbl'[g] # None => fdtbl'[g] \in iowatches' /\ watch'[fdtbl'[g]].fd = g
  <2>1. \A g \in Fds : fdtbl[g] # None =>
           fdtbl[g] \in iowatches /\ fdtbl[g] \in Watches /\ watch[fdtbl[g]].fd = g
    BY <1>3 DEF WatchInv
  <2>2. QED BY <1>1, <1>2, <1>5, <2>1
<1>8. \A x \in iowatches' : state'[x] # "free"
  <2>1. \A x \in iowatches : x \in Watches /\ state[x] # "free"
    BY <1>3 DEF WatchInv
  <2>2. QED BY <1>1, <1>2, <2>1
<1>9. ASSUME NEW m \in Watches, NEW s \in Watches, Has(slaves'[m], s)
      PROVE  /\ state'[s] # "free" /\ watch'[s].fd = watch'[m].fd
             /\ m \in iowatches' /\ s \notin iowatches'
             /\ \A n \in Watches : Has(slaves'[n], s) => n = m
  <2>1. Has(slaves[m], s) /\ m # o /\ s # o
    BY <1>4, <1>9
  <2>2. /\ state[s] # "free" /\ watch[s].fd = watch[m].fd
        /\ m \in iowatches /\ s \notin iowatches
        /\ \A n \in Watches : Has(slaves[n], s) => n = m
    BY <2>1 DEF WatchInv
  <2>3. QED BY <1>1, <1>2, <1>4, <2>1, <2>2
<1>10. ASSUME NEW g \in Fds, g \notin hung
       PROVE  IF LiveOn(g)' = {} THEN epoll'[g] = None
              ELSE /\ fdtbl'[g] # None
                   /\ LiveOn(g)' \subseteq {fdtbl'[g]} \cup Range(slaves'[fdtbl'[g]])
                   /\ epoll'[g] = UNION {watch'[x].events : x \in LiveOn(g)'}
  <2>1. IF LiveOn(g) = {} THEN epoll[g] = None
        ELSE /\ fdtbl[g] # None
             /\ LiveOn(g) \subseteq {fdtbl[g]} \cup Range(slaves[fdtbl[g]])
             /\ epoll[g] = UNION {watch[x].events : x \in LiveOn(g)}
    BY <1>10 DEF WatchInv, FdsArePolled
  <2>2. ASSUME LiveOn(g) # {}
        PROVE  /\ fdtbl'[g] = fdtbl[g]
               /\ LiveOn(g) \subseteq {fdtbl'[g]} \cup Range(slaves'[fdtbl'[g]])
    <3>1. fdtbl[g] # o
      <4>1. slaves[o] = <<>> => \A x : x \notin Range(slaves[o])
        BY DEF Range
      <4>2. QED BY <1>2, <1>5, <2>1, <2>2, <4>1
    <3>2. fdtbl[g] \in Watches /\ fdtbl'[g] = fdtbl[g]
      BY <1>3, <1>5, <2>1, <2>2, <3>1
    <3>3. \A x : x \in LiveOn(g) => x = fdtbl[g] \/ Has(slaves[fdtbl[g]], x)
      BY <2>1, <2>2, RangeIsHas
    <3>4. \A x : x \in LiveOn(g) => x = fdtbl[g] \/ Has(slaves'[fdtbl[g]], x)
      BY <1>2, <1>4, <3>1, <3>2, <3>3
    <3>5. QED BY <3>2, <3>4, RangeIsHas
  <2>3. QED BY <1>1, <1>2, <2>1, <2>2
<1>11. FdsArePolled'
  BY <1>1, <1>10 DEF FdsArePolled
<1>12. QED BY <1>2, <1>4, <1>6, <1>7, <1>8, <1>9, <1>11 DEF WatchInv

LEMMA WatchesPurged ==
    ASSUME StateInv, WatchInv, Purge
    PROVE  WatchInv'
BY HeirFound, WatchUnlinked

-----------------------------------------------------------------------------
(* What the application does between two steps of the loop *)

\* Callbacks add to the lists the loop walks, but nothing leaves them.
Grown ==
    /\ \A x : Has(timers, x) => Has(timers', x)
    /\ \A x : Has(deferred, x) => Has(deferred', x)
    /\ \A x : Has(wakeups, x) => Has(wakeups', x)
    /\ \A x : Has(subloops, x) => Has(subloops', x)
    /\ iowatches \subseteq iowatches'
    /\ \A m \in iowatches : \A x : Has(slaves[m], x) => Has(slaves'[m], x)
    /\ \A o \in Objects : state[o] # "free" => state'[o] # "free"

\* Nothing but the loop itself is touched.
LEMMA DataFrame ==
    ASSUME Data, UNCHANGED <<state, deleted, timerVars, deferredVars, watchVars, otherVars>>
    PROVE  Data' /\ Grown
<1>1. /\ UNCHANGED <<state, deleted>> /\ UNCHANGED timerVars /\ UNCHANGED deferredVars
      /\ UNCHANGED watchVars /\ UNCHANGED otherVars
  OBVIOUS
<1>2. StateInv' /\ TimerInv'
  BY <1>1, StateFrame, TimersFrame DEF Data
<1>3. DeferredInv'
  BY <1>1, DeferredsFrame DEF Data, Live
<1>4. OtherInv' /\ WatchInv'
  BY <1>1, OthersFrame, WatchFrame DEF Data
<1>5. Grown
  BY <1>1 DEF Grown, timerVars, deferredVars, watchVars, otherVars
<1>6. QED BY <1>2, <1>3, <1>4, <1>5 DEF Data

LEMMA TimersApplied ==
    ASSUME Data, NEW t \in Timers, DelTimer(t) \/ \E n \in 1..MaxInterval : AddTimer(t, n)
    PROVE  Data' /\ Grown
<1>1. /\ UNCHANGED deferredVars /\ UNCHANGED watchVars /\ UNCHANGED otherVars
      /\ Allocate(t) \/ MarkDeleted(t)
  BY DEF DelTimer, AddTimer
<1>2. /\ StateInv' /\ (state[t] = "live" \/ state'[t] = "live")
      /\ \A o \in Objects \ {t} : state'[o] = state[o]
      /\ state'[t] # "free"
  BY <1>1, AllocateIs, MarkDeletedIs, Kinds DEF Data
<1>3. TimerInv'
  BY AddTimerKeeps, DelTimerKeeps DEF Data
<1>4. \A o \in Deferreds \cup Watches \cup Wakeups \cup Subloops : state'[o] = state[o]
  BY <1>2, Kinds
<1>5. DeferredInv' /\ OtherInv' /\ WatchInv'
  BY <1>1, <1>4, DeferredsFrame, OthersFrame, WatchFrame DEF Data, Live
<1>6. \A x : Has(timers, x) => Has(timers', x)
  <2>1. \A x : Has(timers, x) => x \in Timers /\ state[x] # "free"
    BY DEF Data, TimerInv, Holds, Has
  <2>2. \A x \in Timers : state'[x] # "free" => Has(timers', x)
    BY <1>3 DEF TimerInv, Holds
  <2>3. \A x \in Timers : state[x] # "free" => state'[x] # "free"
    BY <1>2, Kinds
  <2>4. QED BY <2>1, <2>2, <2>3
<1>7. Grown
  BY <1>1, <1>2, <1>6 DEF Grown, deferredVars, watchVars, otherVars
<1>8. QED BY <1>2, <1>3, <1>5, <1>7 DEF Data

LEMMA DeferredsApplied ==
    ASSUME Data, NEW d \in Deferreds,
           AddDeferred(d) \/ DelDeferred(d) \/ DisableDeferred(d) \/ EnableDeferred(d)
    PROVE  Data' /\ Grown
<1>1. UNCHANGED timerVars /\ UNCHANGED watchVars /\ UNCHANGED otherVars
  BY DEF AddDeferred, DelDeferred, DisableDeferred, EnableDeferred
<1>2. Allocate(d) \/ MarkDeleted(d) \/ UNCHANGED <<state, deleted>>
  BY DEF AddDeferred, DelDeferred, DisableDeferred, EnableDeferred, Keep
<1>3. /\ StateInv' /\ \A o \in Objects \ {d} : state'[o] = state[o]
      /\ state[d] # "free" => state'[d] # "free"
  BY <1>2, AllocateIs, MarkDeletedIs, StateFrame, Kinds DEF Data
<1>4. \A o \in Timers \cup Watches \cup Wakeups \cup Subloops : state'[o] = state[o]
  BY <1>3, Kinds
<1>5. TimerInv' /\ OtherInv' /\ WatchInv'
  BY <1>1, <1>4, TimersFrame, OthersFrame, WatchFrame DEF Data
<1>6. deferred \in Seq(Deferreds)
  BY DEF Data, DeferredInv
<1>7. DeferredInv' /\ \A x : Has(deferred, x) => Has(deferred', x)
  <2>1. CASE AddDeferred(d)
    <3>1. deferred' = Append(deferred, d)
      BY <2>1 DEF AddDeferred
    <3>2. QED BY <1>6, <2>1, <3>1, AddDeferredKeeps, AppendMembers DEF Data
  <2>2. CASE DelDeferred(d)
    <3>1. MarkDeleted(d) /\ UNCHANGED deferredVars /\ deferred' = deferred
      BY <2>2 DEF DelDeferred, deferredVars
    <3>2. state[d] = "live" /\ state'[d] = "deleted"
      BY <3>1, MarkDeletedIs, Kinds DEF Data
    <3>3. \A x \in Deferreds : (state'[x] # "free" <=> state[x] # "free") /\ (Live(x)' => Live(x))
      BY <1>3, <3>2, Kinds DEF Live
    <3>4. QED BY <3>1, <3>3, DeferredsFrame DEF Data
  <2>3. CASE DisableDeferred(d)
    <3>1. deferred' = deferred
      BY <2>3 DEF DisableDeferred
    <3>2. QED BY <2>3, <3>1, DisableDeferredKeeps DEF Data
  <2>4. CASE EnableDeferred(d)
    <3>1. deferred' = Append(Unlink(deferred, d), d)
      BY <2>4 DEF EnableDeferred
    <3>2. /\ Unlink(deferred, d) \in Seq(Deferreds)
          /\ \A x : x # d => (Has(Unlink(deferred, d), x) <=> Has(deferred, x))
      BY <1>6, UnlinkMembers
    <3>3. \A x : Has(deferred', x) <=> (x = d \/ Has(Unlink(deferred, d), x))
      BY <3>1, <3>2, AppendMembers
    <3>4. QED BY <2>4, <3>2, <3>3, EnableDeferredKeeps DEF Data
  <2>5. QED BY <2>1, <2>2, <2>3, <2>4
<1>8. Grown
  BY <1>1, <1>3, <1>7, Kinds DEF Grown, timerVars, watchVars, otherVars
<1>9. QED BY <1>3, <1>5, <1>7, <1>8 DEF Data

LEMMA WatchesApplied ==
    ASSUME Data, NEW w \in Watches,
           DelWatch(w) \/ \E f \in Fds, m \in Masks : AddWatch(w, f, m)
    PROVE  Data' /\ Grown
<1>1. UNCHANGED timerVars /\ UNCHANGED deferredVars /\ UNCHANGED otherVars
  BY DEF DelWatch, AddWatch
<1>2. Allocate(w) \/ MarkDeleted(w)
  BY DEF DelWatch, AddWatch
<1>3. /\ StateInv' /\ \A o \in Objects \ {w} : state'[o] = state[o]
      /\ state'[w] # "free"
  BY <1>2, AllocateIs, MarkDeletedIs, Kinds DEF Data
<1>4. \A o \in Timers \cup Deferreds \cup Wakeups \cup Subloops : state'[o] = state[o]
  BY <1>3, Kinds
<1>5. TimerInv' /\ DeferredInv' /\ OtherInv'
  BY <1>1, <1>4, TimersFrame, DeferredsFrame, OthersFrame DEF Data, Live
<1>6. /\ WatchInv' /\ iowatches \subseteq iowatches'
      /\ \A m \in iowatches : \A x : Has(slaves[m], x) => Has(slaves'[m], x)
  <2>1. CASE DelWatch(w)
    <3>1. iowatches' = iowatches /\ slaves' = slaves
      BY <2>1 DEF DelWatch
    <3>2. QED BY <2>1, <3>1, DelWatchKeeps DEF Data
  <2>2. CASE \E f \in Fds, m \in Masks : AddWatch(w, f, m)
    BY <2>2, MasterAdded, SlaveAdded DEF Data
  <2>3. QED BY <2>1, <2>2
<1>7. Grown
  BY <1>1, <1>3, <1>6 DEF Grown, timerVars, deferredVars, otherVars
<1>8. QED BY <1>3, <1>5, <1>6, <1>7 DEF Data

LEMMA OthersApplied ==
    ASSUME Data, NEW o \in Wakeups \cup Subloops,
           \/ o \in Wakeups /\ (AddWakeup(o) \/ DelWakeup(o))
           \/ o \in Subloops /\ (AddSubloop(o) \/ DelSubloop(o))
    PROVE  Data' /\ Grown
<1>1. UNCHANGED timerVars /\ UNCHANGED deferredVars /\ UNCHANGED watchVars
  BY DEF AddWakeup, DelWakeup, AddSubloop, DelSubloop
<1>2. o \in Objects /\ (Allocate(o) \/ MarkDeleted(o))
  BY Kinds DEF AddWakeup, DelWakeup, AddSubloop, DelSubloop
<1>3. /\ StateInv' /\ \A x \in Objects \ {o} : state'[x] = state[x]
      /\ state'[o] # "free"
  BY <1>2, AllocateIs, MarkDeletedIs DEF Data
<1>4. \A x \in Timers \cup Deferreds \cup Watches : state'[x] = state[x]
  BY <1>3, Kinds
<1>5. TimerInv' /\ DeferredInv' /\ WatchInv'
  BY <1>1, <1>4, TimersFrame, DeferredsFrame, WatchFrame DEF Data, Live
<1>6. /\ OtherInv'
      /\ \A x : Has(wakeups, x) => Has(wakeups', x)
      /\ \A x : Has(subloops, x) => Has(subloops', x)
  <2>1. CASE o \in Wakeups /\ AddWakeup(o)
    BY <2>1, AddWakeupKeeps DEF Data, AddWakeup
  <2>2. CASE o \in Subloops /\ AddSubloop(o)
    BY <2>2, AddSubloopKeeps DEF Data, AddSubloop
  <2>3. CASE DelWakeup(o) \/ DelSubloop(o)
    <3>1. MarkDeleted(o) /\ UNCHANGED otherVars
      BY <2>3 DEF DelWakeup, DelSubloop
    <3>2. state[o] = "live"
      BY <3>1 DEF MarkDeleted, Live
    <3>3. \A x \in Wakeups \cup Subloops : state'[x] # "free" <=> state[x] # "free"
      BY <1>3, <3>2, Kinds
    <3>4. QED BY <3>1, <3>3, OthersFrame DEF Data, otherVars
  <2>4. QED BY <2>1, <2>2, <2>3
<1>7. Grown
  BY <1>1, <1>3, <1>6 DEF Grown, timerVars, deferredVars, watchVars
<1>8. QED BY <1>3, <1>5, <1>6, <1>7 DEF Data

LEMMA RestApplied ==
    ASSUME Data, MainloopQuit \/ TakeTime \/ \E f \in Fds : Reopen(f)
    PROVE  Data' /\ Grown
<1>1. CASE MainloopQuit
  BY <1>1, DataFrame DEF MainloopQuit, Keep
<1>2. CASE TakeTime
  <2>1. /\ left' = Earlier(1) /\ UNCHANGED <<timers, next_timer, msecs, state, deleted>>
        /\ UNCHANGED deferredVars /\ UNCHANGED watchVars /\ UNCHANGED otherVars
    BY <1>2 DEF TakeTime, Keep
  <2>2. StateInv' /\ TimerInv'
    BY <2>1, StateFrame, TimePasses DEF Data
  <2>3. DeferredInv' /\ OtherInv' /\ WatchInv'
    BY <2>1, DeferredsFrame, OthersFrame, WatchFrame DEF Data, Live
  <2>4. Grown
    BY <2>1 DEF Grown, deferredVars, watchVars, otherVars
  <2>5. QED BY <2>2, <2>3, <2>4 DEF Data
<1>3. CASE \E f \in Fds : Reopen(f)
  <2>1. PICK f \in Fds : Reopen(f)
    BY <1>3
  <2>2. /\ UNCHANGED <<state, deleted, iowatches, slaves>>
        /\ UNCHANGED timerVars /\ UNCHANGED deferredVars /\ UNCHANGED otherVars
    BY <2>1 DEF Reopen, Keep
  <2>3. StateInv' /\ TimerInv' /\ DeferredInv' /\ OtherInv'
    BY <2>2, StateFrame, TimersFrame, DeferredsFrame, OthersFrame DEF Data, Live
  <2>4. WatchInv'
    BY <2>1, ReopenKeeps DEF Data
  <2>5. Grown
    BY <2>2 DEF Grown, timerVars, deferredVars, otherVars
  <2>6. QED BY <2>3, <2>4, <2>5 DEF Data
<1>4. QED BY <1>1, <1>2, <1>3

LEMMA ApplicationKeepsData ==
    ASSUME Data, Application
    PROVE  Data' /\ Grown
<1>1. CASE \E t \in Timers : DelTimer(t) \/ \E n \in 1..MaxInterval : AddTimer(t, n)
  BY <1>1, TimersApplied
<1>2. CASE \E d \in Deferreds : AddDeferred(d) \/ DelDeferred(d) \/ DisableDeferred(d)
                                \/ EnableDeferred(d)
  BY <1>2, DeferredsApplied
<1>3. CASE \E w \in Watches : DelWatch(w) \/ \E f \in Fds, m \in Masks : AddWatch(w, f, m)
  BY <1>3, WatchesApplied
<1>4. CASE \E w \in Wakeups : AddWakeup(w) \/ DelWakeup(w)
  BY <1>4, OthersApplied
<1>5. CASE \E s \in Subloops : AddSubloop(s) \/ DelSubloop(s)
  BY <1>5, OthersApplied
<1>6. CASE MainloopQuit \/ TakeTime \/ \E f \in Fds : Reopen(f)
  BY <1>6, RestApplied
<1>7. QED BY <1>1, <1>2, <1>3, <1>4, <1>5, <1>6 DEF Application

\* All of it waits for the loop to call back.
LEMMA ApplicationIsApp ==
    ASSUME Application
    PROVE  App /\ (quit' = quit \/ quit' = TRUE)
BY DEF Application, AddTimer, DelTimer, AddDeferred, DelDeferred, DisableDeferred,
       EnableDeferred, AddWatch, DelWatch, Reopen, AddWakeup, DelWakeup, AddSubloop,
       DelSubloop, MainloopQuit, TakeTime, Allocate, MarkDeleted, Keep

-----------------------------------------------------------------------------
(* The walk over the lists *)

\* What the application does leaves the loop where it is, on lists that grow.
LEMMA ApplicationKeepsWalk ==
    ASSUME Data, WalkInv, Application
    PROVE  WalkInv'
<1>1. /\ Data' /\ Grown /\ App /\ (quit' = quit \/ quit' = TRUE)
  BY ApplicationKeepsData, ApplicationIsApp
<1>2. /\ UNCHANGED <<used, loopVars, broken>> /\ UNCHANGED loopVars
      /\ budget' = budget - 1 /\ budget > 0
  BY <1>1 DEF App
<1>3. /\ used' = used /\ stage' = stage /\ next' = next /\ calling' = calling /\ due' = due
      /\ ready' = ready /\ master' = master /\ events' = events /\ poll_timeout' = poll_timeout
      /\ ext_timeout' = ext_timeout /\ broken' = broken
  BY <1>2 DEF loopVars
<1>4. budget' \in 0..(Calls + 1)
  BY <1>2, Kinds DEF WalkInv
<1>5. master # None => master \in iowatches
  BY DEF WalkInv
<1>6. (next # None => OnWalk(next))'
  <2>1. next # None => OnWalk(next) /\ (stage = "slaves" => master \in iowatches)
    BY <1>5 DEF WalkInv
  <2>2. QED BY <1>1, <1>3, <2>1 DEF OnWalk, Grown
<1>7. calling' # None => Called(calling)' /\ state'[calling'] # "free"
  <2>1. calling # None => Called(calling) /\ calling \in Objects
    BY Kinds DEF WalkInv, Called, Data, WatchInv, WatchTypes
  <2>2. QED BY <1>1, <1>3, <2>1 DEF WalkInv, Grown, Called
<1>8. /\ master' # None => master' \in iowatches' /\ stage' \in {"master", "slaves"}
      /\ stage' \in {"master", "slaves"} => master' # None /\ ready' # <<>>
  BY <1>1, <1>3 DEF WalkInv, Grown
<1>9. QED BY <1>1, <1>3, <1>4, <1>6, <1>7, <1>8 DEF WalkInv

\* Between callbacks, the loop only has a saved entry in the stages that walk a
\* list, and a watch only while it dispatches an event.
LEMMA AtRest ==
    ASSUME WalkInv
    PROVE  /\ stage \in {"setup", "prepare", "poll", "io", "purge", "exit", "over"} =>
                 next = None /\ calling = None /\ master = None
           /\ stage \in {"query", "wakeup", "deferred", "timers", "subloops"} => master = None
           /\ stage = "master" => next = None
BY DEF WalkInv, OnWalk, Called

\* The types of what a step of the loop computes, the rest being as it was.
LoopTypes ==
    /\ budget \in 0..(Calls + 1)
    /\ due \subseteq Timers
    /\ ready \in Seq([fd : Fds, ev : SUBSET Events]) /\ events \subseteq Events
    /\ poll_timeout \in {Forever} \cup 0..MaxInterval
    /\ ext_timeout \in {Forever} \cup 0..INT_MAX
    /\ used \in Mixes /\ quit \in BOOLEAN /\ broken \in BOOLEAN

LEMMA WalkTypes ==
    /\ WalkInv => LoopTypes
    /\ /\ LoopTypes /\ stage \in Stages
       /\ next # None => OnWalk(next)
       /\ calling # None => Called(calling) /\ state[calling] # "free"
       /\ master # None => master \in iowatches /\ stage \in {"master", "slaves"}
       /\ stage \in {"master", "slaves"} => master # None /\ ready # <<>>
       => WalkInv
BY DEF WalkInv, LoopTypes

LEMMA Budgets ==
    0 \in 0..(Calls + 1) /\ Calls \in 0..(Calls + 1)
BY Kinds

\* A stage of which no list is walked and nobody is called.
LEMMA Rests ==
    ASSUME LoopTypes', next' = None, calling' = None, master' = None,
           stage' \in {"setup", "prepare", "query", "poll", "wakeup", "deferred", "timers",
                       "io", "subloops", "purge", "exit", "over"}
    PROVE  WalkInv'
BY WalkTypes DEF WalkInv, LoopTypes, Stages

\* The steps outside the walks.
LEMMA SimpleSteps ==
    ASSUME Data, WalkInv,
           Run \/ QueryDone \/ TimersDone \/ SubloopsDone \/ Purge \/ PurgeDone \/ Destroy
    PROVE  WalkInv'
<1>0. LoopTypes
  BY WalkTypes
<1>1. CASE Run
  <2>1. LoopTypes'
    BY <1>0, <1>1, Budgets DEF Run, LoopTypes, AppVars
  <2>2. stage' = "prepare" /\ next' = next /\ calling' = calling /\ master' = master
    BY <1>1 DEF Run
  <2>3. next = None /\ calling = None /\ master = None
    BY <1>1, AtRest DEF Run
  <2>4. QED BY <2>1, <2>2, <2>3, Rests
<1>2. CASE QueryDone
  <2>1. poll_timeout' \in {Forever} \cup 0..MaxInterval
    BY <1>0, <1>2, Kinds DEF QueryDone, LoopTypes, Least, Forever, INT_MAX
  <2>2. LoopTypes'
    BY <1>0, <1>2, <2>1 DEF QueryDone, LoopTypes, AppVars
  <2>3. stage' = "poll" /\ next' = None /\ calling' = None /\ master' = None
    BY <1>2, AtRest DEF QueryDone, Walking, Enter
  <2>4. QED BY <2>2, <2>3, Rests
<1>3. CASE TimersDone
  <2>1. LoopTypes'
    BY <1>0, <1>3 DEF TimersDone, LoopTypes, AppVars
  <2>2. stage' = "io" /\ next' = None /\ calling' = None /\ master' = None
    BY <1>3, AtRest DEF TimersDone, Walking, Enter
  <2>3. QED BY <2>1, <2>2, Rests
<1>4. CASE SubloopsDone
  <2>1. LoopTypes'
    BY <1>0, <1>4 DEF SubloopsDone, LoopTypes, AppVars
  <2>2. stage' = "purge" /\ next' = None /\ calling' = None /\ master' = None
    BY <1>4, AtRest DEF SubloopsDone, Walking, Enter
  <2>3. QED BY <2>1, <2>2, Rests
<1>5. CASE Purge
  <2>1. LoopTypes'
    BY <1>0, <1>5 DEF Purge, LoopTypes, loopVars
  <2>2. stage' = "purge" /\ next' = next /\ calling' = calling /\ master' = master
    BY <1>5 DEF Purge, loopVars
  <2>3. next = None /\ calling = None /\ master = None
    BY <1>5, AtRest DEF Purge
  <2>4. QED BY <2>1, <2>2, <2>3, Rests
<1>6. CASE PurgeDone
  <2>1. LoopTypes'
    BY <1>0, <1>6, Budgets DEF PurgeDone, LoopTypes, AppVars
  <2>2. stage' \in {"exit", "prepare"} /\ next' = next /\ calling' = calling /\ master' = master
    BY <1>6 DEF PurgeDone
  <2>3. next = None /\ calling = None /\ master = None
    BY <1>6, AtRest DEF PurgeDone
  <2>4. QED BY <2>1, <2>2, <2>3, Rests
<1>7. CASE Destroy
  <2>1. LoopTypes'
    BY <1>0, <1>7, Budgets DEF Destroy, LoopTypes
  <2>2. stage' = "over" /\ next' = next /\ calling' = calling /\ master' = master
    BY <1>7 DEF Destroy
  <2>3. next = None /\ calling = None /\ master = None
    BY <1>7, AtRest DEF Destroy
  <2>4. QED BY <2>1, <2>2, <2>3, Rests
<1>8. QED BY <1>1, <1>2, <1>3, <1>4, <1>5, <1>6, <1>7

\* A stage that walks a list, from an entry of the list.
LEMMA Walks ==
    ASSUME LoopTypes', master' = None,
           stage' \in {"query", "wakeup", "deferred", "timers", "subloops"},
           (next # None => OnWalk(next))',
           (calling # None => Called(calling) /\ state[calling] # "free")'
    PROVE  WalkInv'
BY DEF WalkInv, LoopTypes, Stages

LEMMA ListsAre ==
    ASSUME Data
    PROVE  /\ Holds(timers, Timers) /\ Holds(wakeups, Wakeups) /\ Holds(subloops, Subloops)
           /\ deferred \in Seq(Deferreds) /\ NoRepeat(deferred)
           /\ \A d \in Deferreds : Has(deferred, d) => state[d] # "free"
           /\ \A t : Has(timers, t) => t \in Timers /\ state[t] # "free"
           /\ \A w : Has(wakeups, w) => w \in Wakeups /\ state[w] # "free"
           /\ \A s : Has(subloops, s) => s \in Subloops /\ state[s] # "free"
           /\ \A d : Has(deferred, d) => d \in Deferreds /\ state[d] # "free"
<1>1. /\ Holds(timers, Timers) /\ Holds(wakeups, Wakeups) /\ Holds(subloops, Subloops)
      /\ deferred \in Seq(Deferreds) /\ NoRepeat(deferred)
      /\ \A d \in Deferreds : Has(deferred, d) => state[d] # "free"
  BY DEF Data, TimerInv, OtherInv, DeferredInv
<1>2. \A S, q : q \in Seq(S) => \A o : Has(q, o) => o \in S
  BY DEF Has
<1>3. QED BY <1>1, <1>2 DEF Holds

LEMMA PrepareWalks ==
    ASSUME Data, WalkInv, Prepare
    PROVE  WalkInv'
<1>1. poll_timeout' \in {Forever} \cup 0..MaxInterval
  BY Kinds DEF Prepare, Timeout, Data, TimerInv
<1>2. ext_timeout' \in {Forever} \cup 0..INT_MAX
  BY Kinds DEF Prepare, INT_MAX
<1>3. LoopTypes'
  BY <1>1, <1>2, WalkTypes DEF Prepare, LoopTypes, AppVars
<1>4. /\ stage' = "query" /\ next' = First(subloops) /\ subloops' = subloops
      /\ calling' = None /\ master' = None
  BY AtRest DEF Prepare, Enter, AppVars, otherVars
<1>5. subloops \in Seq(Subloops)
  BY ListsAre DEF Holds
<1>6. (next # None => OnWalk(next))'
  BY <1>4, <1>5, FirstIsOn DEF OnWalk
<1>7. QED BY <1>3, <1>4, <1>6, Walks

\* What a subloop wants.
LEMMA QueryTypes ==
    ASSUME LoopTypes, NEW s, Query(s), Live(s)
    PROVE  ext_timeout' \in {Forever} \cup 0..INT_MAX /\ broken' = broken
<1>1. PICK e \in Wanted : ext_timeout' = Least(ext_timeout, e)
  BY DEF Query
<1>2. QED BY <1>1, Kinds DEF Query, Wanted, Least, LoopTypes, INT_MAX, Forever

LEMMA VisitQueryWalks ==
    ASSUME Data, WalkInv, "busy_subloop" \notin Habits, VisitQuery
    PROVE  /\ WalkInv' /\ broken' = broken
           /\ calling' # None => budget' = 0 /\ Live(calling)'
<1>1. /\ stage = "query" /\ calling = None /\ next # None /\ next' = After(subloops, next)
      /\ stage' = stage /\ master' = None /\ subloops' = subloops /\ state' = state
  BY AtRest DEF VisitQuery, Walking, otherVars
<1>2. /\ Has(subloops, next) /\ next \in Subloops /\ state[next] # "free"
      /\ subloops \in Seq(Subloops) /\ NoRepeat(subloops)
  BY <1>1, ListsAre DEF WalkInv, OnWalk, Holds
<1>3. (next # None => OnWalk(next))'
  BY <1>1, <1>2, AfterIsOn DEF OnWalk
<1>4. /\ ext_timeout' \in {Forever} \cup 0..INT_MAX /\ broken' = broken
      /\ calling' = None \/ (calling' = next /\ budget' = 0 /\ Live(next))
      /\ budget' \in 0..(Calls + 1)
  <2>1. LoopTypes
    BY WalkTypes
  <2>2. CASE ~Live(next) /\ Skip /\ UNCHANGED <<ext_timeout, broken>>
    BY <1>1, <2>1, <2>2 DEF Skip, LoopTypes
  <2>3. CASE Live(next) /\ Skip /\ Query(next)
    BY <1>1, <2>1, <2>3, QueryTypes DEF Skip, LoopTypes
  <2>4. CASE /\ Live(next)
             /\ calling' = next
             /\ budget' = IF "busy_subloop" \in Habits THEN Calls ELSE 0
             /\ UNCHANGED <<ext_timeout, broken>>
    BY <1>1, <2>1, <2>4, Budgets DEF LoopTypes
  <2>5. QED BY <2>2, <2>3, <2>4 DEF VisitQuery
<1>5. LoopTypes'
  BY <1>4, WalkTypes DEF VisitQuery, LoopTypes
<1>6. (calling # None => Called(calling) /\ state[calling] # "free")'
  BY <1>1, <1>2, <1>4 DEF Called
<1>7. WalkInv'
  BY <1>1, <1>3, <1>5, <1>6, Walks
<1>8. QED BY <1>1, <1>4, <1>7 DEF Live

LEMMA ReportTypes ==
    ASSUME NEW q \in Reports
    PROVE  q \in Seq([fd : Fds, ev : SUBSET Events])
<1> DEFINE R == [fd : Fds, ev : SUBSET Events]
           Some == {f \in Fds : epoll[f] # None}
           Report == {r \in [fd : Some, ev : Reported] : r.ev \subseteq epoll[r.fd] \cup {"hup"}}
<1>1. Reported \subseteq SUBSET Events
  BY LoopAssumption
<1>2. Report \subseteq R
  BY <1>1
<1>3. \/ q = <<>>
      \/ \E r \in Report : q = <<r>>
      \/ q \in Report \X Report
  BY DEF Reports
<1> HIDE DEF Report, R
<1>4. q \in Seq(R)
  <2>1. CASE q = <<>>
    BY <2>1
  <2>2. CASE \E r \in Report : q = <<r>>
    BY <1>2, <2>2
  <2>3. CASE q \in Report \X Report
    <3>1. q = <<q[1], q[2]>> /\ q[1] \in R /\ q[2] \in R
      BY <1>2, <2>3
    <3>2. <<q[1], q[2]>> \in Seq(R)
      BY <3>1
    <3>3. QED BY <3>1, <3>2
  <2>4. QED BY <1>3, <2>1, <2>2, <2>3
<1>5. QED BY <1>4 DEF R

LEMMA PollWalks ==
    ASSUME Data, WalkInv, Poll
    PROVE  WalkInv'
<1>1. ready' \in Seq([fd : Fds, ev : SUBSET Events])
  BY ReportTypes DEF Poll
<1>2. LoopTypes'
  BY <1>1, WalkTypes DEF Poll, LoopTypes
<1>3. /\ stage' = "wakeup" /\ (next' = None \/ next' = First(wakeups)) /\ wakeups' = wakeups
      /\ calling' = None /\ master' = None
  BY AtRest DEF Poll, Enter, otherVars
<1>4. wakeups \in Seq(Wakeups)
  BY ListsAre DEF Holds
<1>5. (next # None => OnWalk(next))'
  BY <1>3, <1>4, FirstIsOn DEF OnWalk
<1>6. QED BY <1>2, <1>3, <1>5, Walks

\* The loop calls the entry that it saved, or passes it by.
LEMMA CallTypes ==
    ASSUME WalkInv, NEW o, Call(o) \/ Skip, UNCHANGED AppVars,
           UNCHANGED <<due, poll_timeout, ext_timeout>>
    PROVE  budget' \in 0..(Calls + 1) /\ (calling' = o \/ calling' = calling)
BY Budgets DEF Call, Skip, WalkInv

LEMMA WakeupWalks ==
    ASSUME Data, WalkInv, VisitWakeup \/ WakeupsDone
    PROVE  WalkInv'
<1>1. CASE VisitWakeup
  <2>1. /\ stage = "wakeup" /\ calling = None /\ next # None /\ next' = After(wakeups, next)
        /\ stage' = stage /\ master' = None /\ wakeups' = wakeups /\ state' = state
    BY <1>1, AtRest DEF VisitWakeup, Walking, AppVars, otherVars
  <2>2. /\ Has(wakeups, next) /\ next \in Wakeups /\ state[next] # "free"
        /\ wakeups \in Seq(Wakeups) /\ NoRepeat(wakeups)
    BY <2>1, ListsAre DEF WalkInv, OnWalk, Holds
  <2>3. (next # None => OnWalk(next))'
    BY <2>1, <2>2, AfterIsOn DEF OnWalk
  <2>4. budget' \in 0..(Calls + 1) /\ (calling' = next \/ calling' = None)
    BY <1>1, <2>1, CallTypes DEF VisitWakeup
  <2>5. LoopTypes'
    BY <1>1, <2>4, WalkTypes DEF VisitWakeup, LoopTypes, AppVars
  <2>6. (calling # None => Called(calling) /\ state[calling] # "free")'
    BY <2>1, <2>2, <2>4 DEF Called
  <2>7. QED BY <2>1, <2>3, <2>5, <2>6, Walks
<1>2. CASE WakeupsDone
  <2>1. LoopTypes'
    BY <1>2, WalkTypes DEF WakeupsDone, LoopTypes, AppVars
  <2>2. /\ stage' = "deferred" /\ next' = First(deferred) /\ deferred' = deferred
        /\ calling' = None /\ master' = None
    BY <1>2, AtRest DEF WakeupsDone, Walking, Enter, AppVars, deferredVars
  <2>3. deferred \in Seq(Deferreds)
    BY ListsAre
  <2>4. (next # None => OnWalk(next))'
    BY <2>2, <2>3, FirstIsOn DEF OnWalk
  <2>5. QED BY <2>1, <2>2, <2>4, Walks
<1>3. QED BY <1>1, <1>2

LEMMA TimerWalks ==
    ASSUME Data, WalkInv, DeferredsDone \/ VisitTimer
    PROVE  WalkInv'
<1>1. CASE VisitTimer
  <2>1. /\ stage = "timers" /\ calling = None /\ next # None /\ next' = After(timers, next)
        /\ stage' = stage /\ master' = None /\ timers' = timers /\ state' = state
    BY <1>1, AtRest DEF VisitTimer, Walking, TimersOver, AppVars, timerVars
  <2>2. /\ Has(timers, next) /\ next \in Timers /\ state[next] # "free"
        /\ timers \in Seq(Timers) /\ NoRepeat(timers)
    BY <2>1, ListsAre DEF WalkInv, OnWalk, Holds
  <2>3. (next # None => OnWalk(next))'
    BY <2>1, <2>2, AfterIsOn DEF OnWalk
  <2>4. budget' \in 0..(Calls + 1) /\ (calling' = next \/ calling' = None)
    BY <1>1, <2>1, CallTypes DEF VisitTimer
  <2>5. LoopTypes'
    BY <1>1, <2>4, WalkTypes DEF VisitTimer, LoopTypes, AppVars
  <2>6. (calling # None => Called(calling) /\ state[calling] # "free")'
    BY <2>1, <2>2, <2>4 DEF Called
  <2>7. QED BY <2>1, <2>3, <2>5, <2>6, Walks
<1>2. CASE DeferredsDone
  <2>1. LoopTypes'
    BY <1>2, WalkTypes DEF DeferredsDone, LoopTypes, AppVars
  <2>2. /\ stage' = "timers" /\ next' = First(timers) /\ timers' = timers
        /\ calling' = None /\ master' = None
    BY <1>2, AtRest DEF DeferredsDone, Walking, Enter, AppVars, timerVars
  <2>3. timers \in Seq(Timers)
    BY ListsAre DEF Holds
  <2>4. (next # None => OnWalk(next))'
    BY <2>2, <2>3, FirstIsOn DEF OnWalk
  <2>5. QED BY <2>1, <2>2, <2>4, Walks
<1>3. QED BY <1>1, <1>2

LEMMA SubloopWalks ==
    ASSUME Data, WalkInv, IoDone \/ VisitSubloop
    PROVE  WalkInv'
<1>1. CASE VisitSubloop
  <2>1. /\ stage = "subloops" /\ calling = None /\ next # None /\ next' = After(subloops, next)
        /\ stage' = stage /\ master' = None /\ subloops' = subloops /\ state' = state
    BY <1>1, AtRest DEF VisitSubloop, Walking, AppVars, otherVars
  <2>2. /\ Has(subloops, next) /\ next \in Subloops /\ state[next] # "free"
        /\ subloops \in Seq(Subloops) /\ NoRepeat(subloops)
    BY <2>1, ListsAre DEF WalkInv, OnWalk, Holds
  <2>3. (next # None => OnWalk(next))'
    BY <2>1, <2>2, AfterIsOn DEF OnWalk
  <2>4. budget' \in 0..(Calls + 1) /\ (calling' = next \/ calling' = None)
    BY <1>1, <2>1, CallTypes DEF VisitSubloop
  <2>5. LoopTypes'
    BY <1>1, <2>4, WalkTypes DEF VisitSubloop, LoopTypes, AppVars
  <2>6. (calling # None => Called(calling) /\ state[calling] # "free")'
    BY <2>1, <2>2, <2>4 DEF Called
  <2>7. QED BY <2>1, <2>3, <2>5, <2>6, Walks
<1>2. CASE IoDone
  <2>1. LoopTypes'
    BY <1>2, WalkTypes DEF IoDone, LoopTypes, AppVars
  <2>2. /\ stage' = "subloops" /\ next' = First(subloops) /\ subloops' = subloops
        /\ calling' = None /\ master' = None
    BY <1>2, AtRest DEF IoDone, Walking, Enter, AppVars, otherVars
  <2>3. subloops \in Seq(Subloops)
    BY ListsAre DEF Holds
  <2>4. (next # None => OnWalk(next))'
    BY <2>2, <2>3, FirstIsOn DEF OnWalk
  <2>5. QED BY <2>1, <2>2, <2>4, Walks
<1>3. QED BY <1>1, <1>2

LEMMA DeferredWalks ==
    ASSUME Data, WalkInv, VisitDeferred
    PROVE  Data' /\ WalkInv'
<1>1. /\ stage = "deferred" /\ calling = None /\ next # None /\ next' = After(deferred, next)
      /\ stage' = stage /\ master' = None /\ state' = state /\ deleted' = deleted
      /\ disabled' = disabled
      /\ UNCHANGED timerVars /\ UNCHANGED watchVars /\ UNCHANGED otherVars
  BY AtRest DEF VisitDeferred, Walking
<1>2. /\ Has(deferred, next) /\ next \in Deferreds /\ state[next] # "free"
      /\ deferred \in Seq(Deferreds) /\ NoRepeat(deferred)
  BY <1>1, ListsAre DEF WalkInv, OnWalk
<1>3. next' # None => Has(deferred, next') /\ next' # next
  BY <1>1, <1>2, AfterIsOn
<1>4. \/ calling' = next /\ budget' = Calls /\ UNCHANGED <<deferred, inactive_deferred>>
      \/ calling' = None /\ budget' = budget /\ Deactivate(next)
  BY <1>1 DEF VisitDeferred, Call, Skip
<1>5. DeferredInv' /\ \A x : x # next /\ Has(deferred, x) => Has(deferred', x)
  BY <1>1, <1>2, <1>4, DeferredsFrame, DeactivateKeeps DEF Data, deferredVars, Live
<1>6. Data'
  BY <1>1, <1>5, StateFrame, TimersFrame, WatchFrame, OthersFrame DEF Data
<1>7. (next # None => OnWalk(next))'
  <2>1. next' # None => Has(deferred', next') /\ next' # calling'
    BY <1>2, <1>3, <1>4, <1>5
  <2>2. QED BY <1>1, <2>1 DEF OnWalk
<1>8. LoopTypes'
  <2>1. budget' \in 0..(Calls + 1)
    BY <1>4, Budgets DEF WalkInv
  <2>2. QED BY <2>1, WalkTypes DEF VisitDeferred, LoopTypes
<1>9. (calling # None => Called(calling) /\ state[calling] # "free")'
  BY <1>1, <1>2, <1>4 DEF Called
<1>10. QED BY <1>1, <1>6, <1>7, <1>8, <1>9, Walks

\* An event is dispatched by the watch that its descriptor's entry led to.
LEMMA Dispatches ==
    ASSUME LoopTypes', master' # None, master' \in iowatches', ready' # <<>>,
           stage' \in {"master", "slaves"},
           (next # None => OnWalk(next))',
           (calling # None => Called(calling) /\ state[calling] # "free")'
    PROVE  WalkInv'
BY DEF WalkInv, LoopTypes, Stages

LEMMA EventTypes ==
    ASSUME WalkInv, ready # <<>>
    PROVE  /\ Head(ready) \in [fd : Fds, ev : SUBSET Events]
           /\ Tail(ready) \in Seq([fd : Fds, ev : SUBSET Events])
<1> DEFINE R == [fd : Fds, ev : SUBSET Events]
<1>1. ready \in Seq(R)
  BY DEF WalkInv
<1> HIDE DEF R
<1>2. Head(ready) \in R /\ Tail(ready) \in Seq(R)
  BY <1>1
<1>3. QED BY <1>2 DEF R

\* The entry of a descriptor leads to a watch that is allocated.
LEMMA EventWalks ==
    ASSUME Data, WalkInv, VisitEvent
    PROVE  WalkInv'
<1>1. /\ stage = "io" /\ next = None /\ calling = None /\ master = None /\ ready # <<>>
      /\ state' = state /\ iowatches' = iowatches /\ slaves' = slaves
      /\ UNCHANGED <<used, quit, broken, due, poll_timeout, ext_timeout>>
  BY AtRest DEF VisitEvent, Walking, AppVars, watchVars
<1>2. /\ Head(ready) \in [fd : Fds, ev : SUBSET Events]
      /\ Tail(ready) \in Seq([fd : Fds, ev : SUBSET Events])
  BY <1>1, EventTypes
<1>3. PICK f \in Fds : f = Head(ready).fd
  BY <1>2
<1>4. PICK w : w = fdtbl[f]
  OBVIOUS
<1>5. LoopTypes
  BY WalkTypes
<1>6. CASE w = None
  <2>1. /\ ready' = Tail(ready) /\ calling' = None /\ budget' = budget
        /\ UNCHANGED <<stage, next, master, events>>
    BY <1>1, <1>3, <1>4, <1>6 DEF VisitEvent, Skip
  <2>2. LoopTypes'
    BY <1>1, <1>2, <1>5, <2>1 DEF LoopTypes
  <2>3. QED BY <1>1, <2>1, <2>2, Rests
<1>7. CASE w # None
  <2>1. w \in iowatches /\ w \in Watches /\ state[w] # "free" /\ slaves[w] \in Seq(Watches)
    BY <1>4, <1>7 DEF Data, WatchInv, WatchTypes
  <2>2. master' = w /\ ready' = ready
    BY <1>3, <1>4, <1>7 DEF VisitEvent
  <2>3. CASE Live(w)
    <3>1. /\ calling' = w /\ budget' = Calls /\ stage' = "master" /\ next' = None
          /\ events' = events
      BY <1>3, <1>4, <1>7, <2>3 DEF VisitEvent, Call, Enter
    <3>2. QED
      <4>1. LoopTypes'
        BY <1>1, <1>5, <2>2, <3>1, Budgets DEF LoopTypes
      <4>2. (calling # None => Called(calling) /\ state[calling] # "free")'
        BY <1>1, <2>1, <2>2, <3>1 DEF Called
      <4>3. QED BY <1>1, <1>7, <2>1, <2>2, <3>1, <4>1, <4>2, Dispatches
  <2>4. CASE ~Live(w)
    <3>1. /\ calling' = None /\ budget' = budget /\ stage' = "slaves"
          /\ next' = First(slaves[w])
          /\ events' = Head(ready).ev \ (InOut \cap watch[w].events)
      BY <1>1, <1>3, <1>4, <1>7, <2>4 DEF VisitEvent, Skip, StartSlaves, Enter
    <3>2. events' \subseteq Events
      BY <1>2, <3>1
    <3>3. LoopTypes'
      BY <1>1, <1>5, <2>2, <3>1, <3>2 DEF LoopTypes
    <3>4. (next # None => OnWalk(next))'
      BY <1>1, <2>1, <2>2, <3>1, FirstIsOn DEF OnWalk
    <3>5. QED BY <1>1, <1>7, <2>1, <2>2, <3>1, <3>3, <3>4, Dispatches
  <2>5. QED BY <2>3, <2>4
<1>8. QED BY <1>6, <1>7

LEMMA SlaveWalks ==
    ASSUME Data, WalkInv, VisitSlave
    PROVE  WalkInv'
<1>1. /\ stage = "slaves" /\ next # None /\ calling = None /\ next' = After(slaves[master], next)
      /\ stage' = stage /\ master' = master /\ ready' = ready /\ events' = events
      /\ state' = state /\ iowatches' = iowatches /\ slaves' = slaves
  BY DEF VisitSlave, Walking, AppVars, watchVars
<1>2. master \in iowatches /\ master # None /\ ready # <<>> /\ Has(slaves[master], next)
  BY <1>1 DEF WalkInv, OnWalk
<1>3. /\ slaves[master] \in Seq(Watches) /\ NoRepeat(slaves[master])
      /\ next \in Watches /\ state[next] # "free"
  <2>1. master \in Watches /\ slaves[master] \in Seq(Watches) /\ NoRepeat(slaves[master])
    BY <1>2 DEF Data, WatchInv, WatchTypes
  <2>2. next \in Watches
    BY <1>2, <2>1 DEF Has
  <2>3. QED BY <1>2, <2>1, <2>2 DEF Data, WatchInv
<1>4. (next # None => OnWalk(next))'
  BY <1>1, <1>2, <1>3, AfterIsOn DEF OnWalk
<1>5. budget' \in 0..(Calls + 1) /\ (calling' = next \/ calling' = None)
  BY <1>1, CallTypes DEF VisitSlave
<1>6. LoopTypes'
  BY <1>5, WalkTypes DEF VisitSlave, LoopTypes, AppVars
<1>7. (calling # None => Called(calling) /\ state[calling] # "free")'
  BY <1>1, <1>3, <1>5 DEF Called
<1>8. QED BY <1>1, <1>2, <1>4, <1>6, <1>7, Dispatches

LEMMA EventEnds ==
    ASSUME Data, WalkInv, EventDone
    PROVE  Data' /\ WalkInv'
<1>1. /\ stage = "slaves" /\ calling' = None /\ next' = None /\ master' = None /\ events' = {}
      /\ stage' \in {"purge", "io"} /\ ready' = Tail(ready)
      /\ UNCHANGED <<used, state, deleted, quit, broken, budget, due, poll_timeout, ext_timeout>>
      /\ UNCHANGED timerVars /\ UNCHANGED deferredVars /\ UNCHANGED otherVars
  BY DEF EventDone, Walking, Enter
<1>2. master \in iowatches /\ ready # <<>>
  BY <1>1 DEF WalkInv
<1>3. Data'
  BY <1>1, <1>2, StateFrame, TimersFrame, DeferredsFrame, OthersFrame, EventDoneKeeps
     DEF Data, Live
<1>4. Tail(ready) \in Seq([fd : Fds, ev : SUBSET Events])
  BY <1>2 DEF WalkInv
<1>5. LoopTypes'
  BY <1>1, <1>4, WalkTypes DEF LoopTypes
<1>6. QED BY <1>1, <1>3, <1>5, Rests

\* A callback returns: the entry that the loop saved is still on its list.
LEMMA Returns ==
    ASSUME Data, WalkInv, IdleInv, Return
    PROVE  Data' /\ WalkInv' /\ broken' = broken
<1>1. /\ calling # None /\ calling' = None /\ budget' = 0
      /\ UNCHANGED <<used, state, deleted, msecs, disabled, quit, ready, master, poll_timeout>>
      /\ UNCHANGED watchVars /\ UNCHANGED otherVars
      /\ iowatches' = iowatches /\ slaves' = slaves
      /\ wakeups' = wakeups /\ subloops' = subloops
  BY DEF Return, watchVars, otherVars
<1>2. Called(calling) /\ state[calling] # "free"
  BY <1>1 DEF WalkInv
<1>3. /\ TimerInv' /\ \A x : Has(timers, x) => Has(timers', x)
      /\ due' \subseteq due
  <2>1. CASE stage = "timers"
    <3>1. calling \in Timers /\ Rearm(calling)
      BY <1>2, <2>1 DEF Called, Return
    <3>2. TimerInv'
      BY <1>1, <3>1, RearmKeeps DEF Data
    <3>3. \A x : Has(timers, x) => Has(timers', x)
      <4>1. \A x : Has(timers, x) => x \in Timers /\ state[x] # "free"
        BY ListsAre
      <4>2. \A x \in Timers : state'[x] # "free" => Has(timers', x)
        BY <3>2 DEF TimerInv, Holds
      <4>3. QED BY <1>1, <4>1, <4>2
    <3>4. due' \subseteq due
      BY <3>1 DEF Rearm
    <3>5. QED BY <3>2, <3>3, <3>4
  <2>2. CASE stage # "timers"
    <3>1. UNCHANGED <<timers, next_timer, left, due>>
      BY <2>2 DEF Return
    <3>2. QED BY <1>1, <3>1, TimersFrame DEF Data, timerVars
  <2>3. QED BY <2>1, <2>2
<1>4. DeferredInv' /\ \A x : x # calling /\ Has(deferred, x) => Has(deferred', x)
  <2>1. CASE stage = "deferred"
    <3>1. calling \in Deferreds /\ Deactivate(calling)
      BY <1>2, <2>1 DEF Called, Return
    <3>2. QED BY <1>1, <3>1, DeactivateKeeps DEF Data
  <2>2. CASE stage # "deferred"
    <3>1. UNCHANGED <<deferred, inactive_deferred>>
      BY <2>2 DEF Return
    <3>2. QED BY <1>1, <3>1, DeferredsFrame DEF Data, deferredVars, Live
  <2>3. QED BY <2>1, <2>2
<1>5. Data'
  BY <1>1, <1>3, <1>4, StateFrame, WatchFrame, OthersFrame DEF Data
<1>6. ext_timeout' \in {Forever} \cup 0..INT_MAX /\ broken' = broken
  <2>1. LoopTypes
    BY WalkTypes
  <2>2. CASE stage = "query"
    <3>1. Query(calling) /\ Live(calling)
      BY <1>1, <2>2 DEF Return, IdleInv
    <3>2. QED BY <2>1, <3>1, QueryTypes
  <2>3. CASE stage # "query"
    BY <2>1, <2>3 DEF Return, LoopTypes
  <2>4. QED BY <2>2, <2>3
<1>7. CASE stage = "master"
  <2>1. calling = master /\ master \in iowatches /\ master # None /\ ready # <<>>
    BY <1>2, <1>7 DEF WalkInv, Called
  <2>2. /\ stage' = "slaves" /\ next' = First(slaves[calling])
        /\ events' = Head(ready).ev \ (InOut \cap watch[calling].events)
    BY <1>7 DEF Return, StartSlaves, Enter
  <2>3. slaves[master] \in Seq(Watches)
    BY <2>1 DEF Data, WatchInv, WatchTypes
  <2>4. (next # None => OnWalk(next))'
    BY <1>1, <2>1, <2>2, <2>3, FirstIsOn DEF OnWalk
  <2>5. events' \subseteq Events
    <3>1. Head(ready) \in [fd : Fds, ev : SUBSET Events]
      BY <2>1, EventTypes
    <3>2. QED BY <2>2, <3>1
  <2>6. LoopTypes'
    BY <1>1, <1>3, <1>6, <2>5, Budgets, WalkTypes DEF LoopTypes
  <2>7. QED BY <1>1, <1>5, <1>6, <2>1, <2>2, <2>4, <2>6, Dispatches
<1>8. CASE stage # "master"
  <2>1. events' \subseteq events
    BY <1>8 DEF Return
  <2>2. LoopTypes'
    BY <1>1, <1>3, <1>6, <2>1, Budgets, WalkTypes DEF LoopTypes
  <2>3. CASE stage \in {"wakeup", "deferred", "timers"} /\ quit
    <3>1. stage' = "purge" /\ next' = None /\ master' = None
      BY <1>1, <2>3, AtRest DEF Return, Enter
    <3>2. QED BY <1>1, <1>5, <1>6, <2>2, <3>1, Rests
  <2>4. CASE ~(stage \in {"wakeup", "deferred", "timers"} /\ quit)
    <3>1. stage' = stage /\ next' = next
      BY <1>8, <2>4 DEF Return
    <3>2. (next # None => OnWalk(next))'
      <4>1. next # None => OnWalk(next)
        BY DEF WalkInv
      <4>2. QED BY <1>1, <1>3, <1>4, <3>1, <4>1 DEF OnWalk
    <3>3. QED BY <1>1, <1>5, <1>6, <2>2, <3>1, <3>2 DEF WalkInv, LoopTypes
  <2>5. QED BY <2>3, <2>4
<1>9. QED BY <1>7, <1>8

-----------------------------------------------------------------------------
(* The invariant *)

LEMMA InitInv ==
    ASSUME Init
    PROVE  Inv
<1>1. \A o : ~Has(<<>>, o)
  BY DEF Has
<1>2. NoRepeat(<<>>)
  BY DEF NoRepeat
<1>3. \A o \in Objects : state[o] = "free"
  BY DEF Init
<1>4. StateInv
  BY <1>1, <1>2, <1>3 DEF Init, StateInv
<1>5. TimerInv
  <2>1. Holds(timers, Timers)
    BY <1>1, <1>2, <1>3, Kinds DEF Init, Holds
  <2>2. left \in [Timers -> 0..MaxInterval] /\ msecs \in [Timers -> 0..MaxInterval]
    BY Kinds DEF Init
  <2>3. Sorted
    BY DEF Init, Sorted
  <2>4. QED BY <1>3, <2>1, <2>2, <2>3, Kinds DEF Init, TimerInv, Live
<1>6. DeferredInv
  BY <1>1, <1>2, <1>3, Kinds DEF Init, DeferredInv, Live
<1>7. OtherInv
  BY <1>1, <1>2, <1>3, Kinds DEF Init, OtherInv, Holds
<1>8. WatchInv
  <2>1. \A w \in Watches : /\ state[w] = "free" /\ watch[w].events = {} /\ slaves[w] = <<>>
                           /\ ~Live(w)
    BY <1>3, Kinds DEF Init, Live
  <2>2. WatchTypes
    BY Kinds DEF Init, WatchTypes
  <2>3. FdsArePolled
    <3>1. \A f : LiveOn(f) = {}
      BY <2>1 DEF LiveOn
    <3>2. QED BY <3>1 DEF Init, FdsArePolled
  <2>4. \A m \in Watches : NoRepeat(slaves[m]) /\ \A s : ~Has(slaves[m], s)
    BY <1>1, <1>2, <2>1
  <2>5. iowatches = {} /\ \A f \in Fds : fdtbl[f] = None
    BY DEF Init
  <2>6. QED BY <2>1, <2>2, <2>3, <2>4, <2>5 DEF WatchInv
<1>9. WalkInv
  <2>1. /\ budget \in 0..(Calls + 1) /\ ext_timeout \in {Forever} \cup 0..INT_MAX
        /\ poll_timeout \in {Forever} \cup 0..MaxInterval
    BY Kinds DEF Init, INT_MAX
  <2>2. ready \in Seq([fd : Fds, ev : SUBSET Events])
    BY DEF Init
  <2>3. /\ stage = "setup" /\ next = None /\ calling = None /\ master = None
        /\ used \in Mixes /\ due = {} /\ events = {} /\ quit = FALSE /\ broken = FALSE
    BY DEF Init
  <2>4. QED BY <2>1, <2>2, <2>3 DEF WalkInv, Stages
<1>10. IdleInv
  BY DEF Init, IdleInv
<1>11. QED BY <1>4, <1>5, <1>6, <1>7, <1>8, <1>9, <1>10 DEF Inv, Data

\* A subloop that is being asked does not call the application.
LEMMA ApplicationKeepsIdle ==
    ASSUME WalkInv, IdleInv, Application
    PROVE  IdleInv'
<1>1. App /\ broken' = broken /\ stage' = stage
  BY ApplicationIsApp DEF App, loopVars
<1>2. stage \notin {"query", "poll"}
  <2>1. stage \in {"query", "poll"} => calling # None /\ budget > 0
    BY <1>1 DEF App, Running
  <2>2. ~(stage = "poll" /\ calling # None)
    BY DEF WalkInv, Called
  <2>3. QED BY <2>1, <2>2 DEF IdleInv
<1>3. QED BY <1>1, <1>2 DEF IdleInv

\* The timeout is computed when nothing is pending, or it is no more than now.
LEMMA PrepareIdles ==
    ASSUME Data, WalkInv, IdleInv, Prepare
    PROVE  IdleInv'
<1>1. /\ stage' = "query" /\ calling' = None /\ broken' = broken /\ poll_timeout' = Timeout
      /\ deferred' = deferred /\ next_timer' = next_timer
  BY AtRest DEF Prepare, Enter, AppVars, deferredVars, timerVars
<1>2. Timeout = Forever => deferred = <<>> /\ next_timer = None
  <2>1. next_timer # None => left[next_timer] \in 0..MaxInterval
    BY DEF Data, TimerInv
  <2>2. QED BY <2>1, Kinds DEF Timeout, Forever
<1>3. QED BY <1>1, <1>2 DEF IdleInv

LEMMA QueryDoneIdles ==
    ASSUME WalkInv, IdleInv, QueryDone
    PROVE  IdleInv'
<1>1. /\ stage = "query" /\ stage' = "poll" /\ broken' = broken
      /\ poll_timeout' = IF ext_timeout = Forever THEN poll_timeout
                         ELSE Least(poll_timeout, ext_timeout)
      /\ deferred' = deferred /\ next_timer' = next_timer
  BY DEF QueryDone, Walking, Enter, AppVars, deferredVars, timerVars
<1>2. poll_timeout' = Forever => poll_timeout = Forever
  BY <1>1, Kinds DEF WalkInv, Least, Forever, INT_MAX
<1>3. QED BY <1>1, <1>2 DEF IdleInv

\* The steps that neither ask a subloop nor go to sleep.
LEMMA BusyIdles ==
    ASSUME IdleInv, broken' = broken, stage' \notin {"query", "poll"}
    PROVE  IdleInv'
BY DEF IdleInv

LEMMA ReturnIdles ==
    ASSUME WalkInv, IdleInv, Return, broken' = broken
    PROVE  IdleInv'
<1>1. calling # None /\ calling' = None /\ Called(calling) /\ poll_timeout' = poll_timeout
  BY DEF Return, WalkInv
<1>2. CASE stage = "query"
  <2>1. stage' = stage /\ deferred' = deferred /\ next_timer' = next_timer
    BY <1>2 DEF Return
  <2>2. QED BY <1>1, <1>2, <2>1 DEF IdleInv
<1>3. CASE stage # "query"
  <2>1. stage # "poll"
    BY <1>1 DEF Called
  <2>2. stage' \in {stage, "purge", "slaves"}
    BY <1>3 DEF Return, StartSlaves, Enter
  <2>3. QED BY <1>3, <2>1, <2>2, BusyIdles
<1>4. QED BY <1>2, <1>3

LEMMA PurgeKeeps ==
    ASSUME Data, Purge
    PROVE  Data'
BY PurgedIs, TimerPurged, DeferredPurged, OthersPurged, WatchesPurged DEF Data

LEMMA PollKeeps ==
    ASSUME Data, WalkInv, Poll
    PROVE  Data'
<1>1. PICK n \in 0..(IF poll_timeout = Forever THEN MaxInterval ELSE poll_timeout) :
         left' = Earlier(n)
  BY DEF Poll
<1>2. n \in Nat
  BY <1>1, Kinds DEF WalkInv, Forever
<1>3. /\ UNCHANGED <<state, deleted, timers, next_timer, msecs>>
      /\ UNCHANGED deferredVars /\ UNCHANGED watchVars /\ UNCHANGED otherVars
  BY DEF Poll
<1>4. QED BY <1>1, <1>2, <1>3, StateFrame, TimePasses, DeferredsFrame, WatchFrame, OthersFrame
     DEF Data, Live

LEMMA NextInv ==
    ASSUME "busy_subloop" \notin Habits, Inv, [Next]_vars
    PROVE  Inv'
<1>1. Data /\ WalkInv /\ IdleInv
  BY DEF Inv
<1>2. ASSUME UNCHANGED AppVars PROVE Data' /\ broken' = broken
  BY <1>1, <1>2, DataFrame DEF AppVars
<1>3. CASE Application
  BY <1>1, <1>3, ApplicationKeepsData, ApplicationKeepsWalk, ApplicationKeepsIdle DEF Inv
<1>4. CASE Run \/ TimersDone \/ SubloopsDone \/ PurgeDone
  <2>1. UNCHANGED AppVars /\ stage' \notin {"query", "poll"}
    BY <1>4 DEF Run, TimersDone, SubloopsDone, PurgeDone, Enter
  <2>2. WalkInv'
    BY <1>1, <1>4, SimpleSteps
  <2>3. QED BY <1>1, <1>2, <2>1, <2>2, BusyIdles DEF Inv
<1>5. CASE Prepare
  BY <1>1, <1>2, <1>5, PrepareWalks, PrepareIdles DEF Prepare, Inv
<1>6. CASE VisitQuery
  <2>1. /\ WalkInv' /\ broken' = broken
        /\ calling' # None => budget' = 0 /\ Live(calling)'
    BY <1>1, <1>6, VisitQueryWalks
  <2>2. Data'
    BY <1>1, <1>6, DataFrame DEF VisitQuery
  <2>3. /\ stage = "query" /\ stage' = stage /\ poll_timeout' = poll_timeout
        /\ deferred' = deferred /\ next_timer' = next_timer
    BY <1>6 DEF VisitQuery, Walking, deferredVars, timerVars
  <2>4. IdleInv'
    BY <1>1, <2>1, <2>3 DEF IdleInv
  <2>5. QED BY <2>1, <2>2, <2>4 DEF Inv
<1>7. CASE QueryDone
  <2>1. UNCHANGED AppVars
    BY <1>7 DEF QueryDone
  <2>2. QED BY <1>1, <1>2, <1>7, <2>1, SimpleSteps, QueryDoneIdles DEF Inv
<1>8. CASE Poll
  <2>1. broken' = broken /\ stage' = "wakeup"
    BY <1>8 DEF Poll, Enter
  <2>2. QED BY <1>1, <1>8, <2>1, PollKeeps, PollWalks, BusyIdles DEF Inv
<1>9. CASE VisitWakeup \/ WakeupsDone \/ DeferredsDone \/ VisitTimer \/ IoDone \/ VisitSubloop
  <2>1. UNCHANGED AppVars /\ stage' \notin {"query", "poll"}
    BY <1>9 DEF VisitWakeup, WakeupsDone, DeferredsDone, VisitTimer, IoDone, VisitSubloop,
                Walking, Enter
  <2>2. WalkInv'
    BY <1>1, <1>9, WakeupWalks, TimerWalks, SubloopWalks
  <2>3. QED BY <1>1, <1>2, <2>1, <2>2, BusyIdles DEF Inv
<1>10. CASE VisitDeferred
  <2>1. broken' = broken /\ stage' = "deferred"
    BY <1>10 DEF VisitDeferred, Walking
  <2>2. QED BY <1>1, <1>10, <2>1, DeferredWalks, BusyIdles DEF Inv
<1>11. CASE VisitEvent
  <2>1. UNCHANGED AppVars /\ stage' \notin {"query", "poll"}
    BY <1>11 DEF VisitEvent, Walking, StartSlaves, Enter
  <2>2. QED BY <1>1, <1>2, <1>11, <2>1, EventWalks, BusyIdles DEF Inv
<1>12. CASE VisitSlave
  <2>1. UNCHANGED AppVars /\ stage' \notin {"query", "poll"}
    BY <1>12 DEF VisitSlave, Walking
  <2>2. QED BY <1>1, <1>2, <1>12, <2>1, SlaveWalks, BusyIdles DEF Inv
<1>13. CASE EventDone
  <2>1. broken' = broken /\ stage' \in {"purge", "io"}
    BY <1>13 DEF EventDone, Enter
  <2>2. QED BY <1>1, <1>13, <2>1, EventEnds, BusyIdles DEF Inv
<1>14. CASE Return
  BY <1>1, <1>14, Returns, ReturnIdles DEF Inv
<1>15. CASE Purge
  <2>1. broken' = broken /\ stage' = "purge"
    BY <1>15 DEF Purge, loopVars
  <2>2. QED BY <1>1, <1>15, <2>1, PurgeKeeps, SimpleSteps, BusyIdles DEF Inv
<1>16. CASE Destroy
  <2>1. "late_slave" \notin Habits => ~broken'
    BY <1>16 DEF Destroy
  <2>2. stage' = "over"
    BY <1>16 DEF Destroy
  <2>3. IdleInv'
    BY <2>1, <2>2 DEF IdleInv
  <2>4. Data'
    BY <1>1, <1>16, DataFrame DEF Destroy
  <2>5. QED BY <1>1, <1>16, <2>3, <2>4, SimpleSteps DEF Inv
<1>17. CASE UNCHANGED vars
  <2>1. /\ UNCHANGED <<state, deleted, timerVars, deferredVars, watchVars, otherVars>>
        /\ UNCHANGED <<used, state, budget, quit, broken>>
        /\ UNCHANGED loopVars /\ UNCHANGED watchVars /\ UNCHANGED timerVars
        /\ UNCHANGED deferredVars /\ UNCHANGED otherVars
    BY <1>17 DEF vars
  <2>2. Data'
    BY <1>1, <2>1, DataFrame
  <2>3. WalkInv' /\ IdleInv'
    BY <1>1, <2>1 DEF WalkInv, IdleInv, OnWalk, Called, Live, loopVars, watchVars, timerVars,
                      deferredVars, otherVars
  <2>4. QED BY <2>2, <2>3 DEF Inv
<1>18. QED
  BY <1>3, <1>4, <1>5, <1>6, <1>7, <1>8, <1>9, <1>10, <1>11, <1>12, <1>13, <1>14, <1>15, <1>16,
<1>17 DEF Next, Loop, Dispatch

-----------------------------------------------------------------------------
(* What it implies *)

LEMMA TypesHold ==
    ASSUME Inv
    PROVE  TypeOK
<1>1. Data /\ WalkInv
  BY DEF Inv
<1>2. /\ state \in [Objects -> {"free", "live", "deleted"}] /\ deleted \in Seq(Objects)
      /\ timers \in Seq(Timers) /\ next_timer \in Timers \cup {None}
      /\ left \in [Timers -> 0..MaxInterval] /\ msecs \in [Timers -> 0..MaxInterval]
      /\ deferred \in Seq(Deferreds) /\ inactive_deferred \in Seq(Deferreds)
      /\ disabled \subseteq Deferreds
      /\ wakeups \in Seq(Wakeups) /\ subloops \in Seq(Subloops)
  BY <1>1 DEF Data, StateInv, TimerInv, DeferredInv, OtherInv, Holds
<1>3. WatchTypes
  BY <1>1 DEF Data, WatchInv
<1>4. master \in Watches \cup {None}
  BY <1>1, <1>3 DEF WalkInv, WatchTypes
<1>5. calling \in Objects \cup {None}
  BY <1>1, <1>4, Kinds DEF WalkInv, Called
<1>6. next \in Objects \cup {None}
  <2>1. \A S, q : q \in Seq(S) => \A o : Has(q, o) => o \in S
    BY DEF Has
  <2>2. stage = "slaves" => slaves[master] \in Seq(Watches)
    BY <1>1, <1>3, <1>4 DEF WalkInv, WatchTypes
  <2>3. next # None => OnWalk(next)
    BY <1>1 DEF WalkInv
  <2>4. QED BY <1>2, <2>1, <2>2, <2>3, Kinds DEF OnWalk
<1>7. LoopTypes
  BY <1>1, WalkTypes
<1>8. QED BY <1>2, <1>3, <1>4, <1>5, <1>6, <1>7 DEF TypeOK, WatchTypes, LoopTypes

\* Whatever is pointed at is on a list, and the lists hold what is allocated.
LEMMA PointersHold ==
    ASSUME Inv, "late_slave" \notin Habits
    PROVE  NothingFreedIsUsed
<1>1. Data /\ WalkInv /\ ~broken
  BY DEF Inv, IdleInv
<1>2. /\ \A t : Has(timers, t) => state[t] # "free"
      /\ \A w : Has(wakeups, w) => state[w] # "free"
      /\ \A s : Has(subloops, s) => state[s] # "free"
      /\ \A d : Has(deferred, d) => state[d] # "free"
  BY <1>1, ListsAre
<1>3. \A d : Has(inactive_deferred, d) => state[d] # "free"
  <2>1. inactive_deferred \in Seq(Deferreds)
    BY <1>1 DEF Data, DeferredInv
  <2>2. \A d : Has(inactive_deferred, d) => d \in Deferreds
    BY <2>1 DEF Has
  <2>3. QED BY <1>1, <2>2 DEF Data, DeferredInv
<1>4. \A o : Has(deleted, o) => state[o] # "free"
  <2>1. deleted \in Seq(Objects)
    BY <1>1 DEF Data, StateInv
  <2>2. \A o : Has(deleted, o) => o \in Objects
    BY <2>1 DEF Has
  <2>3. QED BY <1>1, <2>2 DEF Data, StateInv
<1>5. WatchTypes /\ \A w \in iowatches : state[w] # "free"
  BY <1>1 DEF Data, WatchInv
<1>6. \A m \in Watches : \A s : Has(slaves[m], s) => state[s] # "free"
  <2>1. \A m \in Watches : slaves[m] \in Seq(Watches)
    BY <1>5 DEF WatchTypes
  <2>2. \A m \in Watches : \A s : Has(slaves[m], s) => s \in Watches
    BY <2>1 DEF Has
  <2>3. QED BY <1>1, <2>2 DEF Data, WatchInv
<1>7. \A o \in Range(fdtbl) : o # None => state[o] # "free"
  <2>1. \A o \in Range(fdtbl) : \E f \in Fds : o = fdtbl[f]
    BY <1>5 DEF Range, WatchTypes
  <2>2. \A f \in Fds : fdtbl[f] # None => fdtbl[f] \in iowatches
    BY <1>1 DEF Data, WatchInv
  <2>3. QED BY <1>5, <2>1, <2>2
<1>8. next_timer # None => state[next_timer] # "free"
  BY <1>1 DEF Data, TimerInv, Live
<1>9. master # None => master \in Watches /\ state[master] # "free"
  BY <1>1, <1>5 DEF WalkInv, WatchTypes
<1>10. calling # None => state[calling] # "free"
  BY <1>1 DEF WalkInv
<1>11. next # None => state[next] # "free"
  <2>1. next # None => OnWalk(next)
    BY <1>1 DEF WalkInv
  <2>2. stage = "slaves" => master \in Watches
    BY <1>1, <1>9 DEF WalkInv
  <2>3. QED BY <1>2, <1>6, <2>1, <2>2 DEF OnWalk
<1>12. ASSUME NEW q \in {timers, deferred, inactive_deferred, wakeups, subloops, deleted}
                         \cup Range(slaves),
              NEW o \in Range(q)
       PROVE  state[o] # "free"
  <2>1. Has(q, o)
    BY <1>12, RangeIsHas
  <2>2. q \in Range(slaves) => \E m \in Watches : q = slaves[m]
    BY <1>5 DEF Range, WatchTypes
  <2>3. QED BY <1>2, <1>3, <1>4, <1>6, <1>12, <2>1, <2>2
<1>13. ASSUME NEW o \in Pointers, o # None
       PROVE  state[o] # "free"
  <2>1. \/ o \in {next_timer, next, calling, master} \/ o \in Range(fdtbl) \/ o \in iowatches
        \/ \E q \in {timers, deferred, inactive_deferred, wakeups, subloops, deleted}
                    \cup Range(slaves) : o \in Range(q)
    BY <1>13 DEF Pointers
  <2>2. QED BY <1>5, <1>7, <1>8, <1>9, <1>10, <1>11, <1>12, <1>13, <2>1
<1>14. QED BY <1>1, <1>13 DEF NothingFreedIsUsed

\* Two lists, one after the other.
LEMMA Concatenated ==
    ASSUME NEW S, NEW a \in Seq(S), NEW b \in Seq(S), NoRepeat(a), NoRepeat(b),
           \A x \in S : ~(Has(a, x) /\ Has(b, x))
    PROVE  /\ NoRepeat(a \o b)
           /\ \A x : Has(a \o b, x) <=> Has(a, x) \/ Has(b, x)
<1> DEFINE c == a \o b
<1>1. /\ Len(a) \in Nat /\ Len(b) \in Nat
      /\ DOMAIN a = 1..Len(a) /\ DOMAIN b = 1..Len(b) /\ DOMAIN c = 1..(Len(a) + Len(b))
      /\ \A i \in 1..(Len(a) + Len(b)) : c[i] = IF i <= Len(a) THEN a[i] ELSE b[i - Len(a)]
      /\ \A i \in DOMAIN a : a[i] \in S
      /\ \A i \in DOMAIN b : b[i] \in S
  OBVIOUS
<1> HIDE DEF c
<1>2. \A i \in DOMAIN c : \/ i \in DOMAIN a /\ c[i] = a[i]
                          \/ i - Len(a) \in DOMAIN b /\ c[i] = b[i - Len(a)] /\ ~(i <= Len(a))
  BY <1>1
<1>3. \A i \in DOMAIN a, j \in DOMAIN b : a[i] # b[j]
  BY <1>1 DEF Has
<1>4. NoRepeat(c)
  <2>1. SUFFICES ASSUME NEW i \in DOMAIN c, NEW j \in DOMAIN c, c[i] = c[j] PROVE i = j
    BY DEF NoRepeat
  <2>2. CASE i <= Len(a) /\ j <= Len(a)
    BY <1>1, <1>2, <2>1, <2>2 DEF NoRepeat
  <2>3. CASE ~(i <= Len(a)) /\ ~(j <= Len(a))
    <3>1. b[i - Len(a)] = b[j - Len(a)] /\ i - Len(a) \in DOMAIN b /\ j - Len(a) \in DOMAIN b
      BY <1>1, <2>1, <2>3
    <3>2. i - Len(a) = j - Len(a)
      BY <3>1 DEF NoRepeat
    <3>3. QED BY <1>1, <2>1, <3>2
  <2>4. CASE (i <= Len(a)) # (j <= Len(a))
    BY <1>1, <1>3, <2>1, <2>4
  <2>5. QED BY <2>2, <2>3, <2>4
<1>5. ASSUME NEW x PROVE Has(c, x) <=> Has(a, x) \/ Has(b, x)
  <2>1. Has(c, x) => Has(a, x) \/ Has(b, x)
    BY <1>2 DEF Has
  <2>2. Has(a, x) => Has(c, x)
    BY <1>1 DEF Has
  <2>3. ASSUME Has(b, x) PROVE Has(c, x)
    <3>1. PICK j \in DOMAIN b : b[j] = x
      BY <2>3 DEF Has
    <3>2. Len(a) + j \in DOMAIN c /\ c[Len(a) + j] = b[j]
      BY <1>1, <3>1
    <3>3. QED BY <3>1, <3>2 DEF Has
  <2>4. QED BY <2>1, <2>2, <2>3
<1>6. QED BY <1>4, <1>5 DEF c

LEMMA NothingIsForgottenIn ==
    ASSUME Inv
    PROVE  NothingForgotten
<1>1. Data /\ WalkInv /\ IdleInv /\ TimerInv /\ DeferredInv
  BY DEF Inv, Data
<1>2. /\ NoRepeat(deferred \o inactive_deferred)
      /\ \A x : Has(deferred \o inactive_deferred, x)
                   <=> Has(deferred, x) \/ Has(inactive_deferred, x)
  BY <1>1, Concatenated DEF DeferredInv
<1>3. /\ \A t \in Timers : Live(t) => Has(timers, t)
      /\ NoRepeat(timers)
      /\ (next_timer # None) <=> (\E t \in Timers : Live(t))
  BY <1>1 DEF TimerInv, Holds, Live
<1>4. \A d \in Deferreds : Live(d) =>
         Has(IF d \in disabled THEN deferred \o inactive_deferred ELSE deferred, d)
  BY <1>1, <1>2 DEF DeferredInv, Live
<1>5. Queued
  BY <1>1, <1>2, <1>3, <1>4 DEF Queued, TimerInv, Sorted
<1>6. FdsArePolled
  BY <1>1 DEF Data, WatchInv
<1>7. SleepsOnlyIdle
  <2>1. ASSUME stage = "poll", poll_timeout = Forever
        PROVE  /\ \A t \in Timers : ~Live(t)
               /\ \A d \in Deferreds : Live(d) => d \in disabled
    <3>1. deferred = <<>> /\ next_timer = None
      BY <1>1, <2>1 DEF IdleInv
    <3>2. \A d : ~Has(deferred, d)
      BY <3>1 DEF Has
    <3>3. QED BY <1>1, <3>1, <3>2 DEF TimerInv, DeferredInv
  <2>2. QED BY <2>1 DEF SleepsOnlyIdle
<1>8. QED BY <1>5, <1>6, <1>7 DEF NothingForgotten

\* What the loop keeps is well formed between any two steps, unless a subloop
\* calls the loop while prepare_subloop asks it: the invariant.
THEOREM LoopInvariant ==
    ASSUME "busy_subloop" \notin Habits
    PROVE  Spec => []Inv
<1>1. Init => Inv
  BY InitInv
<1>2. Inv /\ [Next]_vars => Inv'
  BY NextInv
<1>3. QED BY <1>1, <1>2, PTL DEF Spec

\* What is armed stays armed, then: every live timer is on the sorted list and
\* every enabled deferred callback on the list that is dispatched, the kernel
\* polls a descriptor for exactly what its live watches ask for and its events
\* reach them all, and the loop sleeps without a timeout only when nothing waits.
THEOREM NothingIsForgotten ==
    ASSUME "busy_subloop" \notin Habits
    PROVE  Spec => []NothingForgotten
<1>1. Inv => NothingForgotten
  BY NothingIsForgottenIn
<1>2. QED BY <1>1, LoopInvariant, PTL

\* Callbacks may delete what the loop walks, calls or is about to visit: what
\* mark_deleted leaves to purge_deleted is never freed while an entry of a list,
\* of the descriptor table or of ml->deleted, a saved next entry, the watch that
\* is dispatched or next_timer still points at it; nothing is freed twice, unless
\* a slave is deleted after the last iteration (mrp_mainloop_destroy).
THEOREM LoopIsSound ==
    ASSUME "busy_subloop" \notin Habits, "late_slave" \notin Habits
    PROVE  Spec => []Sound
<1>1. Inv => Sound
  BY TypesHold, PointersHold DEF Sound
<1>2. QED BY <1>1, LoopInvariant, PTL
=============================================================================
