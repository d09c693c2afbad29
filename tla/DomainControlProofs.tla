------------------------- MODULE DomainControlProofs -------------------------
(***************************************************************************)
(* What domain control keeps, for any controllers, tables and numbers of   *)
(* requests, connections and crashes: connections, registrations and       *)
(* tables agree (Served), answers are true (AnswersAreTrue), what was told *)
(* is current (ToldIsCurrent); and dropped controllers are left alone      *)
(* (Sound), if applications have none of the habits the library does not   *)
(* survive and connections end without an error of the socket.             *)
(***************************************************************************)
EXTENDS DomainControl, SequenceTheorems, FiniteSetTheorems, WellFoundedInduction, TLAPS

Data(c) == [Own(c) -> Vals \cup {Empty, Bad}]
Request(c) == [seq : Nat \ {0}, link : Nat, data : Data(c) \cup {<<>>}]

Domctl(c) ==
    [life : {"live", "freed"}, t : Links(c) \cup {0}, timer : BOOLEAN,
     connected : BOOLEAN, seqno : Nat \ {0}, pending : Seq(Request(c))]

Up(c) == {Register} \cup [type : {"set"}, seq : Nat \ {0}, data : Data(c)]
Answer == [type : {"ack", "nak"}, seq : Nat]
Notice(c) == [type : {"notify"}, told : [Watches[c] -> Contents]]

Link(c) == [open : BOOLEAN, up : Seq(Up(c)), down : Seq(Answer \cup Notice(c)),
            cut : {{}, {"client"}, {"server"}}]

Proxy(c) == [state : {"none", "accepted", "registered", "rejected"},
             tables : SUBSET Own(c), fresh : BOOLEAN]

Table == [owner : Clients \X Nat, data : Contents]

Types ==
    /\ exports \in Exports
    /\ dc = [c \in Clients |-> dc[c]] /\ \A c \in Clients : dc[c] \in Domctl(c)
    /\ wanted \subseteq Clients
    /\ promised = [c \in Clients |-> promised[c]]
    /\ \A c \in Clients : promised[c] \in [Own(c) -> Contents]
    /\ seen = [c \in Clients |-> seen[c]]
    /\ \A c \in Clients : seen[c] \in [Watches[c] -> Contents]
    /\ link = [c \in Clients |-> [k \in Links(c) |-> link[c][k]]]
    /\ \A c \in Clients : \A k \in Links(c) : link[c][k] \in Link(c)
    /\ proxy = [c \in Clients |-> [k \in Links(c) |-> proxy[c][k]]]
    /\ \A c \in Clients : \A k \in Links(c) : proxy[c][k] \in Proxy(c)
    /\ table \in [Tables -> Table \cup {None}]
    /\ handle \in [Tables -> {"none", "invalid", "live", "dead"}]
    /\ flagged \subseteq {t \in Tables : handle[t] # "none"}
    /\ scheduled \in BOOLEAN /\ up \in BOOLEAN /\ broken \in BOOLEAN
    /\ crashes \in Nat

\* The two ends of a connection.
LinkInv(c, k) ==
    LET l == link[c][k]
        p == proxy[c][k] IN
    /\ ~l.open => l = NoLink /\ p = NoProxy
    /\ l.cut = {"server"} => l.up = <<>> /\ p = NoProxy
    /\ l.cut = {"client"} => l.down = <<>>
    /\ l.open /\ l.cut # {"client"} => k = dc[c].t
    /\ ~up => p = NoProxy /\ (l.open => l.cut = {"server"})
    /\ p.state \in {"none", "accepted"} => p.tables = {}
    /\ p.state = "registered" => p.tables = Own(c)
    /\ p.state # "registered" => ~p.fresh
    /\ l.open /\ l.cut # {"server"} /\ p.state \in {"none", "accepted"}
         => l.up = <<Register>> /\ l.down = <<>>
    /\ p.state = "registered" => \A i \in DOMAIN l.up : l.up[i].type = "set"
    /\ p.state = "rejected" => l.up = <<>> /\ l.down \in {<<>>, <<Nak(0)>>}

\* The requests a controller waits for are numbered as they were made.
Numbered(c, d) ==
    LET q == d.pending IN
    /\ Len(q) < d.seqno
    /\ d.seqno <= MaxSets[c] + 1
    /\ \A i \in DOMAIN q : q[i].seq < d.seqno
    /\ \A i, j \in DOMAIN q : i < j => q[i].seq < q[j].seq
    /\ \A i \in DOMAIN q : q[i].link # 0 => q[i].data \in Data(c)

PendingInv(c) == Numbered(c, dc[c])

\* A timer is set only when a connection is free, and there is none.
TimerInv(c) == dc[c].timer => FreeLinks(c) # {} /\ ~Live(c)

\* A controller that is not connected yet awaits the answer to its registration.
EarlyOn(d, l) ==
    /\ \A i \in DOMAIN l.down : l.down[i].type # "notify" => i = 1 /\ l.down[i].seq = 0
    /\ \A i \in DOMAIN l.up : l.up[i].type = "register"
    /\ \A i \in DOMAIN d.pending : d.pending[i].link = 0

EarlyInv(c) ==
    LET l == link[c][dc[c].t] IN
    Live(c) /\ ~dc[c].connected =>
      /\ EarlyOn(dc[c], l)
      /\ l.cut = {} /\ l.down # <<>> /\ l.down[1].type = "ack" => Watching(c, dc[c].t)

\* What is under way on l between a connected controller d and the daemon: the
\* requests, or their answers.
AskedOn(d, l) ==
    LET q == d.pending IN
    /\ \A i \in DOMAIN q : q[i].link \in {0, d.t}
    /\ \A i \in DOMAIN l.down : l.down[i].type # "notify" =>
         \E j \in DOMAIN q :
           /\ q[j].seq = l.down[i].seq /\ q[j].link = d.t
           /\ l.down[i].type = "ack" => \A t \in DOMAIN q[j].data : q[j].data[t] \in Contents
    /\ \A i \in DOMAIN l.up :
         \E j \in DOMAIN q : /\ q[j].seq = l.up[i].seq /\ q[j].link = d.t
                             /\ q[j].data = l.up[i].data
    /\ \A i, j \in DOMAIN l.down : /\ i < j
                                   /\ l.down[i].type # "notify" /\ l.down[j].type # "notify"
                                   => l.down[i].seq < l.down[j].seq
    /\ \A i, j \in DOMAIN l.up : i < j => l.up[i].seq < l.up[j].seq
    /\ \A i \in DOMAIN l.down, j \in DOMAIN l.up :
         l.down[i].type # "notify" => l.down[i].seq < l.up[j].seq
    /\ l.cut = {} => \A j \in DOMAIN q : q[j].link # 0 =>
         \/ \E i \in DOMAIN l.down : l.down[i].type # "notify" /\ l.down[i].seq = q[j].seq
         \/ \E i \in DOMAIN l.up : l.up[i].seq = q[j].seq

AskedInv(c) ==
    dc[c].connected =>
      /\ Live(c)
      /\ link[c][dc[c].t].cut = {} => Watching(c, dc[c].t)
      /\ AskedOn(dc[c], link[c][dc[c].t])

\* The tables of a controller hold what the last acknowledgement is about, be
\* it on its way or read.
StoredInv(c) ==
    LET l == link[c][dc[c].t] IN
    Live(c) /\ l.cut = {} /\ Watching(c, dc[c].t) =>
      /\ dc[c].connected /\ (\A i \in DOMAIN l.down : l.down[i].type # "ack")
           => \A t \in Own(c) : Reading(t) = promised[c][t]
      /\ \A i \in DOMAIN l.down :
           l.down[i].type = "ack" /\ (\A j \in DOMAIN l.down : l.down[j].type = "ack" => j <= i)
             => \A t \in Own(c) :
                  /\ l.down[i].seq = 0 => Reading(t) = Empty
                  /\ \A j \in DOMAIN dc[c].pending :
                       dc[c].pending[j].seq = l.down[i].seq
                         => Reading(t) = dc[c].pending[j].data[t]
      /\ ~dc[c].connected => \E i \in DOMAIN l.down : l.down[i].type = "ack"

\* Every table has its owner, and every registration its tables.
OwnerInv ==
    /\ \A t \in Tables : table[t] # None =>
         \E c \in Clients : \E k \in Links(c) :
           table[t].owner = <<c, k>> /\ t \in proxy[c][k].tables
    /\ \A c \in Clients : \A k \in Links(c) : \A t \in proxy[c][k].tables :
         table[t] # None /\ table[t].owner = <<c, k>>

\* What the daemon knows of the handles of the tables.
HandleInv ==
    /\ \A t \in Tables : handle[t] = "invalid" => t \notin flagged /\ table[t] = None
    /\ \A c \in Clients : \A k \in Links(c) : Watching(c, k) =>
         \A t \in Watches[c] : handle[t] # "none"

\* What a registered controller was told, or will be.
ToldInv(c, k) ==
    Watching(c, k) /\ link[c][k].cut = {} =>
      IF proxy[c][k].fresh
      THEN ~scheduled => Watches[c] = {} \/ Dead(c)
      ELSE \A t \in Watches[c] :
             /\ handle[t] = "dead" => t \in flagged
             /\ handle[t] = "invalid" => LastTold(c, k)[t] = Empty
             /\ ~scheduled => LastTold(c, k)[t] = Reading(t)

\* What holds of one controller and its connections.
ClientInv(c) ==
    /\ \A k \in Links(c) : LinkInv(c, k)
    /\ PendingInv(c) /\ TimerInv(c) /\ EarlyInv(c) /\ AskedInv(c) /\ StoredInv(c)
    /\ \A k \in Links(c) : ToldInv(c, k)

\* The inductive invariant.
DomainInv ==
    /\ Types
    /\ \A c \in Clients : ClientInv(c)
    /\ OwnerInv
    /\ HandleInv

\* A controller is left alone, or goes on trying.
Alone(c) ==
    /\ c \notin wanted => dc[c].t = 0 /\ ~dc[c].timer /\ ~dc[c].connected
    /\ dc[c].life = "freed" => c \notin wanted

AloneInv == ~broken /\ \A c \in Clients : Alone(c)

Trying(c) == c \in wanted => Live(c) \/ dc[c].timer

-----------------------------------------------------------------------------
(* Numbers and sequences *)

\* Every set of natural numbers that is not empty has a least element: initial
\* segments are finite, and the finite sets are well-founded under inclusion.
LEMMA Smallest ==
    ASSUME NEW S \in SUBSET Nat, S # {}
    PROVE  \E n \in S : \A m \in S : n <= m
<1>. DEFINE T == {0..m : m \in S}
            R == StrictSubsetOrdering(Nat)
<1>1. IsWellFoundedOn(R, FiniteSubsetsOf(Nat))
  BY FS_StrictSubsetOrderingWellFounded
<1>2. T \subseteq FiniteSubsetsOf(Nat)
  <2>1. SUFFICES ASSUME NEW m \in S
                 PROVE  0..m \in FiniteSubsetsOf(Nat)
    OBVIOUS
  <2>2. IsFiniteSet(0..m)
    BY FS_Interval
  <2>3. 0..m \in SUBSET Nat
    OBVIOUS
  <2>4. QED BY <2>2, <2>3 DEF FiniteSubsetsOf
<1>3. T # {}
  OBVIOUS
<1>4. \E x \in T : \A y \in T : ~ (<<y, x>> \in R)
  <2>. HIDE DEF T, R
  <2>1. QED BY <1>1, <1>2, <1>3, WFMin
<1>5. PICK n \in S : \A m \in S : <<0..m, 0..n>> \notin R
  BY <1>4
<1>6. ASSUME NEW m \in S, m < n
      PROVE  FALSE
  <2>1. /\ 0..m \subseteq 0..n /\ 0..m # 0..n
        /\ 0..m \in SUBSET Nat /\ 0..n \in SUBSET Nat
    BY <1>6
  <2>2. <<0..m, 0..n>> \in R
    BY <2>1 DEF StrictSubsetOrdering
  <2>3. QED BY <1>5, <2>2
<1>7. QED BY <1>6

LEMMA Least ==
    ASSUME NEW S \in SUBSET Nat, S # {}
    PROVE  Min(S) \in S /\ \A j \in S : Min(S) <= j
  BY Smallest DEF Min

LEMMA Greatest ==
    ASSUME NEW n \in Nat, NEW S \in SUBSET (1..n), S # {}
    PROVE  Max(S) \in S /\ \A j \in S : j <= Max(S)
<1>. DEFINE D == {n - k : k \in S}
<1>1. D \in SUBSET Nat /\ D # {}
  <2>1. ASSUME NEW k \in S
        PROVE  n - k \in Nat
    <3>1. k \in 1..n
      OBVIOUS
    <3>2. QED BY <3>1
  <2>2. PICK k : k \in S
    OBVIOUS
  <2>3. n - k \in D
    BY <2>2
  <2>4. QED BY <2>1, <2>3
<1>2. PICK d \in D : \A e \in D : d <= e
  BY <1>1, Smallest
<1>3. PICK k \in S : d = n - k
  BY <1>2
<1>4. ASSUME NEW j \in S
      PROVE  j <= k
  <2>1. n - k <= n - j
    BY <1>2, <1>3
  <2>2. QED BY <2>1
<1>5. QED BY <1>4 DEF Max

\* What appending to a sequence and taking its first entry do.
LEMMA AppendIs ==
    ASSUME NEW S, NEW q \in Seq(S), NEW m \in S
    PROVE  /\ Append(q, m) \in Seq(S) /\ Append(q, m) # <<>>
           /\ DOMAIN Append(q, m) = 1..(Len(q) + 1)
           /\ DOMAIN q = 1..Len(q) /\ Len(q) \in Nat
           /\ \A i \in DOMAIN q : Append(q, m)[i] = q[i]
           /\ Append(q, m)[Len(q) + 1] = m
  OBVIOUS

LEMMA TailIs ==
    ASSUME NEW S, NEW q \in Seq(S), q # <<>>
    PROVE  /\ Tail(q) \in Seq(S)
           /\ Len(q) \in Nat \ {0} /\ Len(Tail(q)) = Len(q) - 1
           /\ DOMAIN q = 1..Len(q) /\ DOMAIN Tail(q) = 1..(Len(q) - 1)
           /\ Head(q) = q[1] /\ Head(q) \in S
           /\ \A i \in DOMAIN Tail(q) : Tail(q)[i] = q[i + 1]
  OBVIOUS

LEMMA RemoveIs ==
    ASSUME NEW S, NEW q \in Seq(S), NEW i \in DOMAIN q
    PROVE  /\ RemoveAt(q, i) \in Seq(S)
           /\ Len(q) \in Nat \ {0} /\ Len(RemoveAt(q, i)) = Len(q) - 1
           /\ DOMAIN q = 1..Len(q) /\ DOMAIN RemoveAt(q, i) = 1..(Len(q) - 1)
           /\ \A j \in 1..(Len(q) - 1) :
                RemoveAt(q, i)[j] = IF j < i THEN q[j] ELSE q[j + 1]
<1>. DEFINE a == SubSeq(q, 1, i - 1)
            b == SubSeq(q, i + 1, Len(q))
<1>1. Len(q) \in Nat \ {0} /\ DOMAIN q = 1..Len(q) /\ i \in 1..Len(q)
  OBVIOUS
<1>2. a \in Seq(S) /\ Len(a) = i - 1 /\ \A j \in 1..(i - 1) : a[j] = q[j]
  BY <1>1
<1>3. b \in Seq(S) /\ Len(b) = Len(q) - i /\ \A j \in 1..(Len(q) - i) : b[j] = q[i + j]
  BY <1>1
<1>4. a \o b \in Seq(S) /\ Len(a \o b) = Len(q) - 1
  BY <1>1, <1>2, <1>3
<1>. HIDE DEF a, b
<1>5. ASSUME NEW j \in 1..(Len(q) - 1)
      PROVE  (a \o b)[j] = IF j < i THEN q[j] ELSE q[j + 1]
  <2>1. CASE j < i
    BY <1>1, <1>2, <1>3, <2>1
  <2>2. CASE ~(j < i)
    <3>1. (a \o b)[j] = b[j - (i - 1)]
      <4>1. j \in 1..(Len(a) + Len(b)) /\ ~(j <= Len(a))
        BY <1>1, <1>2, <1>3, <2>2
      <4>2. QED BY <1>2, <1>3, <4>1, ConcatProperties
    <3>2. b[j - (i - 1)] = q[i + (j - (i - 1))]
      BY <1>1, <1>3, <2>2
    <3>3. QED BY <1>1, <2>2, <3>1, <3>2
  <2>3. QED BY <2>1, <2>2
<1>6. DOMAIN (a \o b) = 1..(Len(q) - 1)
  BY <1>4
<1>7. RemoveAt(q, i) = a \o b
  BY DEF RemoveAt, a, b
<1>8. QED BY <1>1, <1>4, <1>5, <1>6, <1>7

LEMMA JustOne ==
    ASSUME NEW S, NEW m \in S
    PROVE  <<m>> \in Seq(S) /\ DOMAIN <<m>> = {1} /\ <<m>>[1] = m /\ Len(<<m>>) = 1
           /\ Head(<<m>>) = m /\ Tail(<<m>>) = <<>> /\ <<m>> # <<>>
  OBVIOUS

-----------------------------------------------------------------------------
(* One side takes a step *)

ClientStep(c, k, d, l) ==
    /\ dc' = [dc EXCEPT ![c] = d]
    /\ link' = [link EXCEPT ![c][k] = l]

ServerStep(c, k, p, l) ==
    /\ proxy' = [proxy EXCEPT ![c][k] = p]
    /\ link' = [link EXCEPT ![c][k] = l]

LEMMA OwnTables ==
    ASSUME exports \in Exports, NEW c \in Clients
    PROVE  exports[c] \in Seq(Tables) /\ Own(c) \subseteq Tables
  BY DomainAssumption DEF Own, ToSet

\* What a controller exports never changes.
LEMMA SameOwn ==
    ASSUME exports' = exports, NEW c
    PROVE  /\ Own(c)' = Own(c) /\ Data(c)' = Data(c) /\ Request(c)' = Request(c)
           /\ Domctl(c)' = Domctl(c) /\ Up(c)' = Up(c) /\ Link(c)' = Link(c)
           /\ Proxy(c)' = Proxy(c) /\ Blank(c)' = Blank(c)
  BY DEF Own, Data, Request, Domctl, Up, Link, Proxy, Blank

\* F has one value for every connection, and G is F with x at the connection k
\* of c.
PerLink(F) == F = [e \in Clients |-> [j \in Links(e) |-> F[e][j]]]

Placed(F, G, c, k, x) == PerLink(F) /\ G = [F EXCEPT ![c][k] = x]

LEMMA PlaceChanged ==
    ASSUME NEW F, NEW G, NEW c \in Clients, NEW k \in Links(c), NEW x,
           Placed(F, G, c, k, x)
    PROVE  /\ G[c][k] = x /\ \A j \in Links(c) : j # k => G[c][j] = F[c][j]
           /\ \A e \in Clients : e # c => G[e] = F[e]
           /\ PerLink(G)
<1>. USE DEF Placed, PerLink
<1>1. DOMAIN F = Clients /\ \A e \in Clients : DOMAIN F[e] = Links(e)
  OBVIOUS
<1>2. G = [F EXCEPT ![c] = [F[c] EXCEPT ![k] = x]]
  OBVIOUS
<1>3. G[c] = [F[c] EXCEPT ![k] = x] /\ \A e \in Clients : e # c => G[e] = F[e]
  BY <1>1, <1>2
<1>4. G[c][k] = x /\ \A j \in Links(c) : j # k => G[c][j] = F[c][j]
  BY <1>1, <1>3
<1>5. \A e \in Clients : G[e] = [j \in Links(e) |-> G[e][j]]
  <2>1. \A e \in Clients : e # c => G[e] = [j \in Links(e) |-> G[e][j]]
    <3>1. \A e \in Clients : F[e] = [j \in Links(e) |-> F[e][j]]
      OBVIOUS
    <3>2. QED BY <1>3, <3>1
  <2>2. G[c] = [j \in Links(c) |-> G[c][j]]
    BY <1>1, <1>3
  <2>3. QED BY <2>1, <2>2
<1>6. G = [e \in Clients |-> G[e]]
  BY <1>1, <1>2
<1>7. G = [e \in Clients |-> [j \in Links(e) |-> G[e][j]]]
  BY <1>5, <1>6
<1>8. QED BY <1>3, <1>4, <1>7

LEMMA ClientFrame ==
    ASSUME Types, NEW c \in Clients, NEW k \in Links(c), NEW d, NEW l,
           ClientStep(c, k, d, l)
    PROVE  /\ dc'[c] = d /\ \A e \in Clients : e # c => dc'[e] = dc[e]
           /\ dc' = [e \in Clients |-> dc'[e]]
           /\ link'[c][k] = l /\ \A j \in Links(c) : j # k => link'[c][j] = link[c][j]
           /\ \A e \in Clients : e # c => link'[e] = link[e]
           /\ link' = [e \in Clients |-> [j \in Links(e) |-> link'[e][j]]]
<1>1. /\ dc = [e \in Clients |-> dc[e]]
      /\ link = [e \in Clients |-> [j \in Links(e) |-> link[e][j]]]
  BY DEF Types
<1>2. dc' = [dc EXCEPT ![c] = d] /\ link' = [link EXCEPT ![c][k] = l]
  BY DEF ClientStep
<1>3. /\ link'[c][k] = l /\ \A j \in Links(c) : j # k => link'[c][j] = link[c][j]
      /\ \A e \in Clients : e # c => link'[e] = link[e]
      /\ PerLink(link')
  <2>1. Placed(link, link', c, k, l)
    BY <1>1, <1>2 DEF Placed, PerLink
  <2>2. QED BY <2>1, PlaceChanged
<1>4. /\ dc'[c] = d /\ \A e \in Clients : e # c => dc'[e] = dc[e]
      /\ dc' = [e \in Clients |-> dc'[e]]
  BY <1>1, <1>2
<1>5. QED BY <1>3, <1>4 DEF PerLink

LEMMA ServerFrame ==
    ASSUME Types, NEW c \in Clients, NEW k \in Links(c), NEW p, NEW l,
           ServerStep(c, k, p, l)
    PROVE  /\ proxy'[c][k] = p /\ \A j \in Links(c) : j # k => proxy'[c][j] = proxy[c][j]
           /\ \A e \in Clients : e # c => proxy'[e] = proxy[e]
           /\ proxy' = [e \in Clients |-> [j \in Links(e) |-> proxy'[e][j]]]
           /\ link'[c][k] = l /\ \A j \in Links(c) : j # k => link'[c][j] = link[c][j]
           /\ \A e \in Clients : e # c => link'[e] = link[e]
           /\ link' = [e \in Clients |-> [j \in Links(e) |-> link'[e][j]]]
<1>1. /\ link = [e \in Clients |-> [j \in Links(e) |-> link[e][j]]]
      /\ proxy = [e \in Clients |-> [j \in Links(e) |-> proxy[e][j]]]
  BY DEF Types
<1>2. link' = [link EXCEPT ![c][k] = l] /\ proxy' = [proxy EXCEPT ![c][k] = p]
  BY DEF ServerStep
<1>3. /\ link'[c][k] = l /\ \A j \in Links(c) : j # k => link'[c][j] = link[c][j]
      /\ \A e \in Clients : e # c => link'[e] = link[e]
      /\ PerLink(link')
  <2>1. Placed(link, link', c, k, l)
    BY <1>1, <1>2 DEF Placed, PerLink
  <2>2. QED BY <2>1, PlaceChanged
<1>4. /\ proxy'[c][k] = p /\ \A j \in Links(c) : j # k => proxy'[c][j] = proxy[c][j]
      /\ \A e \in Clients : e # c => proxy'[e] = proxy[e]
      /\ PerLink(proxy')
  <2>1. Placed(proxy, proxy', c, k, p)
    BY <1>1, <1>2 DEF Placed, PerLink
  <2>2. QED BY <2>1, PlaceChanged
<1>5. QED BY <1>3, <1>4 DEF PerLink

LEMMA ClientTypes ==
    ASSUME Types, NEW c \in Clients, NEW k \in Links(c), NEW d \in Domctl(c),
           NEW l \in Link(c), ClientStep(c, k, d, l),
           exports' = exports, UNCHANGED server, wanted' \subseteq Clients,
           promised' = [e \in Clients |-> promised'[e]],
           seen' = [e \in Clients |-> seen'[e]],
           promised'[c] \in [Own(c) -> Contents], seen'[c] \in [Watches[c] -> Contents],
           \A e \in Clients : e # c => promised'[e] = promised[e] /\ seen'[e] = seen[e],
           broken' \in BOOLEAN
    PROVE  Types'
<1>1. \A e \in Clients : /\ Own(e)' = Own(e) /\ Domctl(e)' = Domctl(e)
                         /\ Link(e)' = Link(e) /\ Proxy(e)' = Proxy(e)
  BY SameOwn
<1>. /\ \A e \in Clients : dc[e] \in Domctl(e)
     /\ \A e \in Clients : \A j \in Links(e) : link[e][j] \in Link(e)
  BY DEF Types
<1>2. \A e \in Clients : dc'[e] \in Domctl(e)
  <2>1. dc'[c] = d /\ \A e \in Clients : e # c => dc'[e] = dc[e]
    BY ClientFrame
  <2>2. QED BY <2>1
<1>3. \A e \in Clients : \A j \in Links(e) : link'[e][j] \in Link(e)
  <2>1. /\ link'[c][k] = l /\ \A j \in Links(c) : j # k => link'[c][j] = link[c][j]
        /\ \A e \in Clients : e # c => link'[e] = link[e]
    BY ClientFrame
  <2>2. QED BY <2>1
<1>4. \A e \in Clients : promised'[e] \in [Own(e) -> Contents]
  BY DEF Types
<1>5. \A e \in Clients : seen'[e] \in [Watches[e] -> Contents]
  BY DEF Types
<1>6. dc' = [e \in Clients |-> dc'[e]]
  BY ClientFrame
<1>7. link' = [e \in Clients |-> [j \in Links(e) |-> link'[e][j]]]
  BY ClientFrame
<1>8. /\ proxy' = proxy /\ table' = table /\ handle' = handle /\ flagged' = flagged
      /\ scheduled' = scheduled /\ up' = up /\ crashes' = crashes
  BY DEF server
<1>9. /\ exports' \in Exports
      /\ proxy' = [e \in Clients |-> [j \in Links(e) |-> proxy'[e][j]]]
      /\ \A e \in Clients : \A j \in Links(e) : proxy'[e][j] \in Proxy(e)
      /\ table' \in [Tables -> Table \cup {None}]
      /\ handle' \in [Tables -> {"none", "invalid", "live", "dead"}]
      /\ flagged' \subseteq {t \in Tables : handle'[t] # "none"}
      /\ scheduled' \in BOOLEAN /\ up' \in BOOLEAN /\ crashes' \in Nat
  BY <1>8 DEF Types
<1>10. QED BY <1>1, <1>2, <1>3, <1>4, <1>5, <1>6, <1>7, <1>9 DEF Types, Table

\* What does not change for a controller and one of its connections.
SameEnds(e) ==
    /\ exports' = exports /\ up' = up
    /\ dc'[e] = dc[e] /\ link'[e] = link[e] /\ proxy'[e] = proxy[e]

LEMMA SameEndsKeep ==
    ASSUME NEW e \in Clients, SameEnds(e)
    PROVE  /\ \A k \in Links(e) : LinkInv(e, k) => LinkInv(e, k)'
           /\ PendingInv(e) => PendingInv(e)'
           /\ TimerInv(e) => TimerInv(e)'
           /\ EarlyInv(e) => EarlyInv(e)'
           /\ AskedInv(e) => AskedInv(e)'
           /\ Live(e)' = Live(e) /\ \A k \in Links(e) : Watching(e, k)' = Watching(e, k)
<1>1. /\ exports' = exports /\ up' = up
      /\ dc'[e] = dc[e] /\ link'[e] = link[e] /\ proxy'[e] = proxy[e]
      /\ Own(e)' = Own(e) /\ Data(e)' = Data(e)
  BY SameOwn DEF SameEnds
<1>2. \A k \in Links(e) : LinkInv(e, k) => LinkInv(e, k)'
  BY <1>1 DEF LinkInv
<1>3. PendingInv(e) => PendingInv(e)'
  BY <1>1 DEF PendingInv, Numbered
<1>4. /\ Live(e)' = Live(e) /\ \A k : Watching(e, k)' = Watching(e, k)
  BY <1>1 DEF Live, Watching
<1>5. FreeLinks(e)' = FreeLinks(e)
  BY <1>1 DEF FreeLinks
<1>6. TimerInv(e) => TimerInv(e)'
  BY <1>1, <1>4, <1>5 DEF TimerInv
<1>7. EarlyInv(e) => EarlyInv(e)'
  BY <1>1, <1>4 DEF EarlyInv
<1>8. AskedInv(e) => AskedInv(e)'
  BY <1>1, <1>4 DEF AskedInv
<1>9. QED BY <1>2, <1>3, <1>4, <1>6, <1>7, <1>8

LEMMA SameStored ==
    ASSUME NEW e \in Clients, SameEnds(e), promised'[e] = promised[e],
           Live(e) /\ Watching(e, dc[e].t) => \A t \in Own(e) : Reading(t)' = Reading(t),
           StoredInv(e)
    PROVE  StoredInv(e)'
<1>1. /\ exports' = exports /\ dc'[e] = dc[e] /\ link'[e] = link[e] /\ proxy'[e] = proxy[e]
      /\ Own(e)' = Own(e)
  BY SameOwn DEF SameEnds
<1>2. Live(e)' = Live(e) /\ \A k : Watching(e, k)' = Watching(e, k)
  BY <1>1 DEF Live, Watching
<1>3. QED BY <1>1, <1>2, SMTT(30) DEF StoredInv

LEMMA SameLast ==
    ASSUME NEW e, NEW k, link'[e][k].down = link[e][k].down, seen'[e] = seen[e]
    PROVE  LastTold(e, k)' = LastTold(e, k)
  BY DEF LastTold

LEMMA SameTold ==
    ASSUME NEW e \in Clients, NEW k \in Links(e),
           proxy'[e][k] = proxy[e][k], link'[e][k] = link[e][k], seen'[e] = seen[e],
           UNCHANGED <<table, handle, flagged, scheduled>>, ToldInv(e, k)
    PROVE  ToldInv(e, k)'
<1>1. LastTold(e, k)' = LastTold(e, k)
  BY SameLast
<1>2. Watching(e, k)' = Watching(e, k) /\ Dead(e)' = Dead(e)
  BY DEF Watching, Dead
<1>3. \A t : Reading(t)' = Reading(t)
  BY DEF Reading
<1>4. QED BY <1>1, <1>2, <1>3 DEF ToldInv

\* Nobody else notices what one controller does.
LEMMA ClientRest ==
    ASSUME DomainInv, NEW c \in Clients, NEW k \in Links(c), NEW d, NEW l,
           ClientStep(c, k, d, l), exports' = exports, UNCHANGED server,
           \A e \in Clients : e # c => promised'[e] = promised[e] /\ seen'[e] = seen[e]
    PROVE  /\ \A e \in Clients : e # c => ClientInv(e)'
           /\ OwnerInv' /\ HandleInv'
<1>1. /\ proxy' = proxy /\ table' = table /\ handle' = handle /\ flagged' = flagged
      /\ scheduled' = scheduled /\ up' = up
  BY DEF server
<1>2. OwnerInv'
  BY <1>1 DEF DomainInv, OwnerInv
<1>3. HandleInv'
  BY <1>1 DEF DomainInv, HandleInv, Watching
<1>4. ASSUME NEW e \in Clients, e # c
      PROVE  ClientInv(e)'
  <2>1. dc'[e] = dc[e] /\ link'[e] = link[e]
    BY <1>4, ClientFrame DEF DomainInv
  <2>2. SameEnds(e)
    BY <1>1, <2>1 DEF SameEnds
  <2>3. ClientInv(e)
    BY DEF DomainInv
  <2>4. /\ \A j \in Links(e) : LinkInv(e, j)'
        /\ PendingInv(e)' /\ TimerInv(e)' /\ EarlyInv(e)' /\ AskedInv(e)'
    BY <2>2, <2>3, SameEndsKeep DEF ClientInv
  <2>5. \A t : Reading(t)' = Reading(t)
    BY <1>1 DEF Reading
  <2>6. StoredInv(e)'
    BY <1>4, <2>2, <2>3, <2>5, SameStored DEF ClientInv
  <2>7. ASSUME NEW j \in Links(e)
        PROVE  ToldInv(e, j)'
    <3>1. proxy'[e][j] = proxy[e][j] /\ link'[e][j] = link[e][j] /\ seen'[e] = seen[e]
      BY <1>1, <1>4, <2>1
    <3>2. ToldInv(e, j)
      BY <2>3 DEF ClientInv
    <3>3. QED BY <1>1, <3>1, <3>2, SameTold
  <2>8. QED BY <2>4, <2>6, <2>7 DEF ClientInv
<1>5. QED BY <1>2, <1>3, <1>4

-----------------------------------------------------------------------------
(* Steps of a controller *)

LEMMA PlaceIs ==
    ASSUME Types, NEW c \in Clients
    PROVE  /\ dc[c] \in Domctl(c)
           /\ \A k \in Links(c) : link[c][k] \in Link(c) /\ proxy[c][k] \in Proxy(c)
           /\ promised[c] \in [Own(c) -> Contents] /\ seen[c] \in [Watches[c] -> Contents]
  BY DEF Types

\* Only the transport of a controller is of use to it.
LEMMA OtherLinks ==
    ASSUME Types, NEW c \in Clients, NEW k \in Links(c), LinkInv(c, k),
           k # dc[c].t \/ ~Live(c)
    PROVE  ~link[c][k].open \/ link[c][k].cut = {"client"}
<1>1. link[c][k].cut \in {{}, {"client"}, {"server"}}
  BY PlaceIs DEF Link
<1>2. CASE k # dc[c].t
  BY <1>2 DEF LinkInv
<1>3. CASE k = dc[c].t /\ ~Live(c)
  <2>1. k # 0
    BY DomainAssumption DEF Links
  <2>2. QED BY <1>1, <1>3, <2>1 DEF Live
<1>4. QED BY <1>2, <1>3

LEMMA OtherTold ==
    ASSUME NEW c \in Clients, NEW k \in Links(c), LinkInv(c, k)', k # dc'[c].t
    PROVE  ToldInv(c, k)'
  BY DEF LinkInv, ToldInv, Watching, NoProxy

\* A connection the controller lets go of.
LEMMA CutKeepsLink ==
    ASSUME Types, NEW c \in Clients, NEW k \in Links(c), LinkInv(c, k),
           exports' = exports, up' = up, proxy'[c][k] = proxy[c][k],
           link'[c][k] = CutByClient(link[c][k])
    PROVE  /\ LinkInv(c, k)'
           /\ ~link'[c][k].open \/ link'[c][k].cut = {"client"}
           /\ CutByClient(link[c][k]) \in Link(c)
<1>1. link[c][k] \in Link(c) /\ proxy[c][k] \in Proxy(c) /\ Own(c)' = Own(c)
  BY PlaceIs, SameOwn
<1>2. CASE ~link[c][k].open \/ "server" \in link[c][k].cut
  <2>1. link'[c][k] = NoLink
    BY <1>2 DEF CutByClient
  <2>2. proxy[c][k] = NoProxy
    BY <1>1, <1>2 DEF LinkInv, Link
  <2>3. QED BY <1>1, <2>1, <2>2 DEF LinkInv, NoLink, NoProxy, Link
<1>3. CASE link[c][k].open /\ "server" \notin link[c][k].cut
  <2>1. link'[c][k] = [link[c][k] EXCEPT !.cut = {"client"}, !.down = <<>>]
    BY <1>3 DEF CutByClient
  <2>2. /\ link'[c][k].open /\ link'[c][k].up = link[c][k].up
        /\ link'[c][k].down = <<>> /\ link'[c][k].cut = {"client"}
        /\ link'[c][k] \in Link(c)
    <3>1. <<>> \in Seq(Answer \cup Notice(c))
      OBVIOUS
    <3>2. QED BY <1>1, <1>3, <2>1, <3>1 DEF Link
  <2>3. link[c][k].cut # {"server"} /\ "client" # "server"
    BY <1>3
  <2>4. QED BY <1>1, <1>3, <2>2, <2>3 DEF LinkInv
<1>4. QED BY <1>2, <1>3

\* A connection that is cut or free already stays what it is.
LEMMA CutTwice ==
    ASSUME Types, NEW c \in Clients, NEW k \in Links(c), LinkInv(c, k),
           ~link[c][k].open \/ link[c][k].cut = {"client"}
    PROVE  CutByClient(link[c][k]) = link[c][k]
<1>1. link[c][k] \in Link(c)
  BY PlaceIs
<1>2. CASE ~link[c][k].open
  BY <1>2 DEF CutByClient, LinkInv
<1>3. CASE link[c][k].open /\ link[c][k].cut = {"client"}
  BY <1>1, <1>3 DEF CutByClient, LinkInv, Link
<1>4. QED BY <1>2, <1>3

LEMMA CutKeeps ==
    ASSUME DomainInv, NEW c \in Clients, NEW k \in Links(c), NEW d \in Domctl(c),
           ClientStep(c, k, d, CutByClient(link[c][k])),
           exports' = exports, UNCHANGED server, wanted' \subseteq Clients, broken' \in BOOLEAN,
           promised' = [e \in Clients |-> promised'[e]],
           seen' = [e \in Clients |-> seen'[e]],
           promised'[c] \in [Own(c) -> Contents], seen'[c] \in [Watches[c] -> Contents],
           \A e \in Clients : e # c => promised'[e] = promised[e] /\ seen'[e] = seen[e],
           k = dc[c].t \/ ~Live(c),
           ~d.connected, Numbered(c, d), d.timer => FreeLinks(c)' # {}
    PROVE  DomainInv' /\ ~Live(c)'
<1>. DEFINE l == CutByClient(link[c][k])
<1>1. /\ dc'[c] = d /\ link'[c][k] = l
      /\ \A j \in Links(c) : j # k => link'[c][j] = link[c][j]
  BY ClientFrame DEF DomainInv
<1>2. proxy' = proxy /\ up' = up /\ Types /\ ClientInv(c)
  BY DEF server, DomainInv
<1>3. ASSUME NEW j \in Links(c)
      PROVE  /\ LinkInv(c, j)'
             /\ ~link'[c][j].open \/ link'[c][j].cut = {"client"}
             /\ link'[c][j] = CutByClient(link[c][j])
  <2>1. LinkInv(c, j)
    BY <1>2 DEF ClientInv
  <2>2. link'[c][j] = CutByClient(link[c][j])
    <3>1. CASE j = k
      BY <1>1, <3>1
    <3>2. CASE j # k
      <4>1. ~link[c][j].open \/ link[c][j].cut = {"client"}
        BY <1>2, <2>1, <3>2, OtherLinks
      <4>2. QED BY <1>1, <1>2, <2>1, <3>2, <4>1, CutTwice
    <3>3. QED BY <3>1, <3>2
  <2>3. QED BY <1>2, <2>1, <2>2, CutKeepsLink
<1>4. ~Live(c)'
  <2>1. dc'[c].t \in Links(c) \cup {0}
    BY <1>1 DEF Domctl
  <2>2. QED BY <1>3, <2>1 DEF Live
<1>5. Types'
  <2>1. l \in Link(c)
    <3>1. LinkInv(c, k)
      BY <1>2 DEF ClientInv
    <3>2. QED BY <1>1, <1>2, <3>1, CutKeepsLink
  <2>2. QED BY <1>2, <2>1, ClientTypes
<1>6. PendingInv(c)'
  <2>1. Data(c)' = Data(c)
    BY SameOwn
  <2>2. QED BY <1>1, <2>1 DEF PendingInv, Numbered
<1>7. TimerInv(c)' /\ EarlyInv(c)' /\ AskedInv(c)' /\ StoredInv(c)'
  BY <1>1, <1>4 DEF TimerInv, EarlyInv, AskedInv, StoredInv
<1>8. \A j \in Links(c) : ToldInv(c, j)'
  <2>1. SUFFICES ASSUME NEW j \in Links(c)
                 PROVE  ~(Watching(c, j)' /\ link'[c][j].cut = {})
    BY DEF ToldInv
  <2>2. QED BY <1>3 DEF LinkInv, Watching, NoProxy
<1>9. ClientInv(c)'
  <2>1. \A j \in Links(c) : LinkInv(c, j)'
    BY <1>3
  <2>2. QED BY <1>6, <1>7, <1>8, <2>1, Zenon DEF ClientInv
<1>10. (\A e \in Clients : e # c => ClientInv(e)') /\ OwnerInv' /\ HandleInv'
  BY ClientRest
<1>11. QED BY <1>4, <1>5, <1>9, <1>10 DEF DomainInv

\* What an application makes of its controller in a callback.
LEMMA CallbackIs ==
    ASSUME NEW c \in Clients, NEW d \in Domctl(c), Numbered(c, d),
           NEW choice \in Reactions, d.t = 0 => ~d.connected
    PROVE  LET e == Callback(d, choice) IN
           /\ e \in Domctl(c) /\ Numbered(c, e)
           /\ choice = "nothing" => e = d
           /\ choice # "nothing" => e.t = 0 /\ ~e.connected /\ (d.t # 0 => ~e.timer)
           /\ e.timer => d.timer
           /\ choice # "destroy" => e.life = d.life
           /\ e.t \in {0, d.t}
<1>. DEFINE u == Disconnected(d)
<1>1. /\ u \in Domctl(c) /\ u.t = 0 /\ ~u.connected /\ (d.t # 0 => ~u.timer)
      /\ u.timer => d.timer
      /\ u.life = d.life /\ u.pending = d.pending /\ u.seqno = d.seqno
  <2>1. CASE d.t = 0
    BY <2>1 DEF Disconnected, Domctl
  <2>2. CASE d.t # 0
    BY <2>2 DEF Disconnected, Domctl
  <2>3. QED BY <2>1, <2>2
<1>2. Numbered(c, u)
  BY <1>1 DEF Numbered
<1>3. CASE choice = "nothing"
  BY <1>3 DEF Callback
<1>4. CASE choice = "disconnect"
  BY <1>1, <1>2, <1>4 DEF Callback
<1>5. CASE choice = "destroy"
  <2>. DEFINE e == [u EXCEPT !.life = "freed", !.pending = <<>>]
  <2>1. Callback(d, choice) = e
    BY <1>5 DEF Callback, Destroyed
  <2>2. <<>> \in Seq(Request(c)) /\ Len(<<>>) = 0 /\ DOMAIN <<>> = {}
    OBVIOUS
  <2>3. /\ e \in Domctl(c) /\ e.pending = <<>> /\ e.seqno = u.seqno /\ e.t = u.t
        /\ e.connected = u.connected /\ e.timer = u.timer
    BY <1>1, <2>2 DEF Domctl
  <2>4. Numbered(c, e)
    BY <1>1, <1>2, <2>2, <2>3 DEF Numbered, Domctl
  <2>5. QED BY <1>1, <1>5, <2>1, <2>3, <2>4
<1>6. QED BY <1>3, <1>4, <1>5 DEF Reactions

\* A controller without a transport it can use loses nothing more.
LEMMA IdleStep ==
    ASSUME DomainInv, NEW c \in Clients, ~Live(c), NEW d,
           dc' = [dc EXCEPT ![c] = d], link' = link
    PROVE  \E k \in Links(c) : ClientStep(c, k, d, CutByClient(link[c][k]))
<1>1. 1 \in Links(c)
  BY DomainAssumption DEF Links
<1>2. Types /\ LinkInv(c, 1)
  BY <1>1 DEF DomainInv, ClientInv
<1>3. CutByClient(link[c][1]) = link[c][1]
  BY <1>1, <1>2, OtherLinks, CutTwice
<1>4. link = [link EXCEPT ![c][1] = link[c][1]]
  <2>1. link = [e \in Clients |-> [j \in Links(e) |-> link[e][j]]]
    BY <1>2 DEF Types
  <2>2. link[c] = [link[c] EXCEPT ![1] = link[c][1]]
    BY <1>1, <2>1
  <2>3. link = [link EXCEPT ![c] = link[c]]
    BY <2>1
  <2>4. QED BY <2>2, <2>3
<1>5. QED BY <1>1, <1>3, <1>4 DEF ClientStep

LEMMA WantedIs ==
    ASSUME wanted \subseteq Clients, NEW c, NEW choice, WantedAfter(c, choice)
    PROVE  wanted' \subseteq Clients
  BY DEF WantedAfter

\* The types a step may leave alone.
LEMMA SameRest ==
    ASSUME Types, NEW c \in Clients
    PROVE  /\ promised' = promised =>
                /\ promised' = [e \in Clients |-> promised'[e]]
                /\ promised'[c] \in [Own(c) -> Contents]
                /\ \A e \in Clients : promised'[e] = promised[e]
           /\ seen' = seen =>
                /\ seen' = [e \in Clients |-> seen'[e]]
                /\ seen'[c] \in [Watches[c] -> Contents]
                /\ \A e \in Clients : seen'[e] = seen[e]
           /\ broken' = broken => broken' \in BOOLEAN
           /\ wanted \subseteq Clients
  BY DEF Types

\* mrp_domctl_disconnect and mrp_domctl_destroy.
LEMMA DropKeeps ==
    ASSUME DomainInv, NEW c \in Clients, NEW choice \in Reactions \ {"nothing"}, Drop(c, choice)
    PROVE  DomainInv' /\ ~Live(c)'
<1>. DEFINE e == Callback(dc[c], choice)
<1>1. Types /\ ClientInv(c) /\ dc[c] \in Domctl(c)
  BY PlaceIs DEF DomainInv
<1>2. dc[c].t = 0 => ~dc[c].connected
  BY <1>1 DEF ClientInv, AskedInv, Live
<1>3. /\ e \in Domctl(c) /\ Numbered(c, e) /\ e.t = 0 /\ ~e.connected
      /\ e.timer => dc[c].timer /\ dc[c].t = 0
  BY <1>1, <1>2, CallbackIs DEF ClientInv, PendingInv
<1>4. /\ dc' = [dc EXCEPT ![c] = e]
      /\ dc[c].t = 0 => link' = link
      /\ dc[c].t # 0 => link' = [link EXCEPT ![c][dc[c].t] = CutByClient(link[c][dc[c].t])]
      /\ exports' = exports /\ UNCHANGED server /\ promised' = promised /\ seen' = seen
      /\ broken' = broken /\ WantedAfter(c, choice)
  BY <1>3 DEF Drop, Becomes
<1>5. \E k \in Links(c) : /\ ClientStep(c, k, e, CutByClient(link[c][k]))
                          /\ k = dc[c].t \/ ~Live(c)
  <2>1. CASE dc[c].t = 0
    <3>1. ~Live(c)
      BY <2>1 DEF Live
    <3>2. QED BY <1>4, <2>1, <3>1, IdleStep
  <2>2. CASE dc[c].t # 0
    BY <1>1, <1>4, <2>2 DEF ClientStep, Domctl
  <2>3. QED BY <2>1, <2>2
<1>6. PICK k \in Links(c) : /\ ClientStep(c, k, e, CutByClient(link[c][k]))
                            /\ k = dc[c].t \/ ~Live(c)
  BY <1>5
<1>7. e.timer => FreeLinks(c)' # {}
  <2>1. ASSUME e.timer
        PROVE  FreeLinks(c)' # {}
    <3>1. link' = link /\ FreeLinks(c) # {}
      BY <1>1, <1>3, <1>4, <2>1 DEF ClientInv, TimerInv
    <3>2. QED BY <3>1 DEF FreeLinks
  <2>2. QED BY <2>1
<1>8. wanted' \subseteq Clients
  BY <1>1, <1>4, WantedIs DEF Types
<1>. HIDE DEF e
<1>9. QED BY <1>1, <1>3, <1>4, <1>6, <1>7, <1>8, SameRest, CutKeeps

\* The end of the connection.
LEMMA ClosedKeeps ==
    ASSUME DomainInv, NEW c \in Clients, NEW error \in Errors, NEW choice \in Reactions,
           Closed(c, error, choice)
    PROVE  DomainInv' /\ ~Live(c)'
<1>. DEFINE b == [dc[c] EXCEPT !.connected = FALSE]
            d == Callback(b, choice)
            e == [d EXCEPT !.timer = @ \/ ~error]
            k == dc[c].t
<1>1. Types /\ ClientInv(c) /\ dc[c] \in Domctl(c) /\ error \in BOOLEAN
  BY PlaceIs, DomainAssumption DEF DomainInv
<1>2. /\ Live(c)
      /\ ~error => link[c][k].cut = {"server"}
      /\ dc' = [dc EXCEPT ![c] = e]
      /\ link' = [link EXCEPT ![c][k] = CutByClient(link[c][k])]
      /\ broken' \in BOOLEAN /\ WantedAfter(c, choice)
      /\ exports' = exports /\ promised' = promised /\ seen' = seen /\ UNCHANGED server
  BY DEF Closed
<1>3. /\ b \in Domctl(c) /\ ~b.connected /\ Numbered(c, b) /\ b.timer = dc[c].timer
      /\ b.t = k
  <2>1. /\ b \in Domctl(c) /\ ~b.connected /\ b.pending = dc[c].pending
        /\ b.seqno = dc[c].seqno /\ b.timer = dc[c].timer /\ b.t = k
    BY <1>1 DEF Domctl
  <2>2. QED BY <1>1, <2>1 DEF ClientInv, PendingInv, Numbered
<1>4. /\ d \in Domctl(c) /\ Numbered(c, d) /\ ~d.connected /\ ~d.timer
  <2>1. ~b.timer
    BY <1>1, <1>2, <1>3 DEF ClientInv, TimerInv
  <2>2. QED BY <1>3, <2>1, CallbackIs
<1>. HIDE DEF b, d
<1>5. /\ e \in Domctl(c) /\ ~e.connected /\ Numbered(c, e) /\ e.timer = ~error
  <2>1. /\ e \in Domctl(c) /\ e.connected = d.connected /\ e.pending = d.pending
        /\ e.seqno = d.seqno /\ e.timer = ~error
    BY <1>1, <1>4 DEF Domctl
  <2>2. QED BY <1>4, <2>1 DEF Numbered
<1>6. k \in Links(c) /\ k # 0
  BY <1>1, <1>2 DEF Live, Domctl
<1>7. ClientStep(c, k, e, CutByClient(link[c][k]))
  BY <1>2 DEF ClientStep
<1>8. e.timer => FreeLinks(c)' # {}
  <2>1. ASSUME ~error
        PROVE  FreeLinks(c)' # {}
    <3>1. CutByClient(link[c][k]) = NoLink
      BY <1>2, <2>1 DEF CutByClient
    <3>2. link'[c][k] = NoLink
      BY <1>1, <1>6, <1>7, <3>1, ClientFrame
    <3>3. QED BY <1>6, <3>2 DEF FreeLinks, NoLink
  <2>2. QED BY <1>5, <2>1
<1>9. wanted' \subseteq Clients
  BY <1>1, <1>2, WantedIs DEF Types
<1>. HIDE DEF e, k
<1>10. k = dc[c].t
  BY DEF k
<1>11. QED BY <1>1, <1>2, <1>5, <1>6, <1>7, <1>8, <1>9, <1>10, SameRest, CutKeeps

\* try_connect, when the daemon accepts.
LEMMA ConnectedKeeps ==
    ASSUME DomainInv, NEW c \in Clients, ~Live(c), FreeLinks(c) # {}, up, Connected(c),
           exports' = exports, UNCHANGED server, wanted' \subseteq Clients, broken' \in BOOLEAN,
           promised' = promised, seen' = seen
    PROVE  DomainInv' /\ Live(c)'
<1>1. Types /\ ClientInv(c) /\ dc[c] \in Domctl(c) /\ ~dc[c].connected
  BY PlaceIs DEF DomainInv, ClientInv, AskedInv
<1>2. PICK k \in Links(c) : k = Min(FreeLinks(c)) /\ ~link[c][k].open /\ k # 0
  <2>1. FreeLinks(c) \subseteq Links(c) /\ Links(c) \subseteq Nat \ {0}
    BY DEF FreeLinks, Links
  <2>2. Min(FreeLinks(c)) \in FreeLinks(c)
    BY <2>1, Least
  <2>3. QED BY <2>1, <2>2 DEF FreeLinks
<1>. DEFINE d == [dc[c] EXCEPT !.t = k, !.timer = FALSE, !.pending = Forsaken(@)]
            l == [NoLink EXCEPT !.open = TRUE, !.up = <<Register>>]
<1>3. ClientStep(c, k, d, l)
  <2>1. dc' = [dc EXCEPT ![c] = d]
    BY <1>2 DEF Connected
  <2>2. QED BY <1>2, <2>1 DEF Connected, ClientStep
<1>. DEFINE q == dc[c].pending
            f == Forsaken(q)
<1>4. q \in Seq(Request(c)) /\ Len(q) \in Nat /\ DOMAIN q = 1..Len(q)
  BY <1>1 DEF Domctl
<1>5. /\ f \in Seq(Request(c)) /\ DOMAIN f = DOMAIN q /\ Len(f) = Len(q)
      /\ \A i \in DOMAIN f : f[i].seq = q[i].seq /\ f[i].link = 0
  <2>1. \A i \in DOMAIN q : /\ [q[i] EXCEPT !.link = 0, !.data = <<>>] \in Request(c)
                            /\ [q[i] EXCEPT !.link = 0, !.data = <<>>].seq = q[i].seq
                            /\ [q[i] EXCEPT !.link = 0, !.data = <<>>].link = 0
    <3>. HIDE DEF q
    <3>1. ASSUME NEW r \in Request(c)
          PROVE  /\ [r EXCEPT !.link = 0, !.data = <<>>] \in Request(c)
                 /\ [r EXCEPT !.link = 0, !.data = <<>>].seq = r.seq
                 /\ [r EXCEPT !.link = 0, !.data = <<>>].link = 0
      BY DEF Request
    <3>2. \A i \in DOMAIN q : q[i] \in Request(c)
      BY <1>4
    <3>3. QED BY <3>1, <3>2
  <2>2. f = [i \in DOMAIN q |-> [q[i] EXCEPT !.link = 0, !.data = <<>>]]
    BY DEF Forsaken
  <2>3. f \in [1..Len(q) -> Request(c)] /\ DOMAIN f = DOMAIN q
        /\ \A i \in DOMAIN f : f[i].seq = q[i].seq /\ f[i].link = 0
    <3>. HIDE DEF f, q
    <3>1. QED BY <1>4, <2>1, <2>2
  <2>4. QED BY <1>4, <2>3
<1>6. /\ d \in Domctl(c) /\ d.t = k /\ ~d.timer /\ ~d.connected /\ d.pending = f
      /\ d.seqno = dc[c].seqno
  BY <1>1, <1>2, <1>5 DEF Domctl
<1>7. Numbered(c, d)
  BY <1>1, <1>4, <1>5, <1>6 DEF ClientInv, PendingInv, Numbered
<1>8. /\ l.open /\ l.up = <<Register>> /\ l.down = <<>> /\ l.cut = {}
      /\ l \in Link(c)
  <2>1. <<Register>> \in Seq(Up(c)) /\ <<>> \in Seq(Answer \cup Notice(c))
    BY JustOne DEF Up
  <2>2. QED BY <2>1 DEF NoLink, Link
<1>. HIDE DEF d, l, f
<1>9. /\ dc'[c] = d /\ link'[c][k] = l
      /\ \A j \in Links(c) : j # k => link'[c][j] = link[c][j]
  BY <1>1, <1>2, <1>3, ClientFrame
<1>10. proxy' = proxy /\ up' = up /\ proxy[c][k] = NoProxy /\ Own(c)' = Own(c)
  BY <1>1, <1>2, SameOwn DEF server, ClientInv, LinkInv
<1>11. Live(c)'
  BY <1>2, <1>6, <1>8, <1>9 DEF Live
<1>12. Types'
  <2>1. \A e \in Clients : e # c => promised'[e] = promised[e] /\ seen'[e] = seen[e]
    OBVIOUS
  <2>2. QED BY <1>1, <1>2, <1>3, <1>6, <1>8, <2>1, SameRest, ClientTypes
<1>13. \A j \in Links(c) : LinkInv(c, j)'
  <2>1. LinkInv(c, k)'
    BY <1>2, <1>6, <1>8, <1>9, <1>10 DEF LinkInv, NoProxy
  <2>2. ASSUME NEW j \in Links(c), j # k
        PROVE  LinkInv(c, j)'
    <3>1. /\ LinkInv(c, j) /\ link'[c][j] = link[c][j]
          /\ ~link[c][j].open \/ link[c][j].cut = {"client"}
      BY <1>1, <1>9, <2>2, OtherLinks DEF ClientInv
    <3>2. QED BY <1>10, <3>1 DEF LinkInv
  <2>3. QED BY <2>1, <2>2
<1>14. ~Watching(c, k)'
  BY <1>10 DEF Watching, NoProxy
<1>15. PendingInv(c)'
  <2>1. Data(c)' = Data(c)
    BY SameOwn
  <2>2. QED BY <1>7, <1>9, <2>1 DEF PendingInv, Numbered
<1>16. TimerInv(c)' /\ AskedInv(c)' /\ StoredInv(c)'
  BY <1>6, <1>9, <1>14 DEF TimerInv, AskedInv, StoredInv
<1>17. EarlyInv(c)'
  <2>1. EarlyOn(d, l)
    <3>1. DOMAIN l.down = {} /\ DOMAIN l.up = {1} /\ l.up[1].type = "register"
      BY <1>8 DEF Register
    <3>2. QED BY <1>5, <1>6, <3>1 DEF EarlyOn
  <2>2. QED BY <1>6, <1>8, <1>9, <2>1 DEF EarlyInv
<1>18. \A j \in Links(c) : ToldInv(c, j)'
  <2>1. ToldInv(c, k)'
    BY <1>14 DEF ToldInv
  <2>2. \A j \in Links(c) : j # k => ToldInv(c, j)'
    BY <1>6, <1>9, <1>13, OtherTold
  <2>3. QED BY <2>1, <2>2
<1>19. ClientInv(c)'
  BY <1>13, <1>15, <1>16, <1>17, <1>18, Zenon DEF ClientInv
<1>20. (\A e \in Clients : e # c => ClientInv(e)') /\ OwnerInv' /\ HandleInv'
  BY <1>2, <1>3, ClientRest
<1>21. QED BY <1>11, <1>12, <1>19, <1>20 DEF DomainInv

\* A controller without a transport it can use changes, and nothing is sent.
LEMMA IdleKeeps ==
    ASSUME DomainInv, NEW c \in Clients, ~Live(c), NEW d \in Domctl(c),
           dc' = [dc EXCEPT ![c] = d], link' = link,
           exports' = exports, UNCHANGED server, wanted' \subseteq Clients, broken' \in BOOLEAN,
           promised' = promised, seen' = seen,
           ~d.connected, d.pending = dc[c].pending, d.seqno = dc[c].seqno,
           FreeLinks(c) # {}
    PROVE  DomainInv' /\ ~Live(c)'
<1>1. PICK k \in Links(c) : ClientStep(c, k, d, CutByClient(link[c][k]))
  BY IdleStep
<1>2. Types /\ Numbered(c, dc[c])
  BY DEF DomainInv, ClientInv, PendingInv
<1>3. Numbered(c, d)
  BY <1>2 DEF Numbered
<1>4. FreeLinks(c)' # {}
  BY DEF FreeLinks
<1>5. QED BY <1>1, <1>2, <1>3, <1>4, SameRest, CutKeeps

\* mrp_domctl_connect
LEMMA ConnectKeeps ==
    ASSUME DomainInv, NEW c \in Clients, Connect(c)
    PROVE  DomainInv' /\ (Live(c)' \/ dc'[c].timer)
<1>1. Types /\ dc[c] \in Domctl(c) /\ dc = [e \in Clients |-> dc[e]]
  BY PlaceIs DEF DomainInv, Types
<1>2. /\ ~Live(c) /\ FreeLinks(c) # {} /\ wanted' \subseteq Clients
      /\ exports' = exports /\ UNCHANGED server /\ promised' = promised /\ seen' = seen
      /\ broken' = broken /\ broken' \in BOOLEAN
  BY <1>1 DEF Connect, Live, Types
<1>3. CASE up
  <2>1. Connected(c)
    BY <1>3 DEF Connect
  <2>2. QED BY <1>2, <1>3, <2>1, ConnectedKeeps
<1>4. CASE ~up
  <2>. DEFINE d == [dc[c] EXCEPT !.timer = TRUE]
  <2>1. dc' = [dc EXCEPT ![c] = d] /\ link' = link
    BY <1>4 DEF Connect
  <2>2. /\ d \in Domctl(c) /\ d.connected = dc[c].connected /\ d.pending = dc[c].pending
        /\ d.seqno = dc[c].seqno /\ d.timer
    BY <1>1 DEF Domctl
  <2>3. ~dc[c].connected
    BY <1>2 DEF DomainInv, ClientInv, AskedInv
  <2>4. dc'[c].timer
    BY <1>1, <2>1, <2>2
  <2>. HIDE DEF d
  <2>5. QED BY <1>2, <2>1, <2>2, <2>3, <2>4, IdleKeeps
<1>5. QED BY <1>3, <1>4

\* reconnect_cb
LEMMA ReconnectKeeps ==
    ASSUME DomainInv, NEW c \in Clients, Reconnect(c)
    PROVE  DomainInv' /\ (dc[c].life = "live" => Live(c)' \/ dc'[c].timer)
<1>1. Types /\ dc[c] \in Domctl(c) /\ dc = [e \in Clients |-> dc[e]] /\ ClientInv(c)
  BY PlaceIs DEF DomainInv, Types
<1>2. /\ ~Live(c) /\ FreeLinks(c) # {} /\ wanted' \subseteq Clients
      /\ exports' = exports /\ UNCHANGED server /\ promised' = promised /\ seen' = seen
      /\ broken' \in BOOLEAN /\ dc[c].timer
  <2>1. dc[c].timer /\ TimerInv(c) /\ broken \in BOOLEAN
    BY <1>1 DEF Reconnect, ClientInv, Types
  <2>2. broken' \in BOOLEAN
    BY <2>1 DEF Reconnect
  <2>3. QED BY <1>1, <2>1, <2>2 DEF Reconnect, TimerInv, Types
<1>3. ~dc[c].connected
  BY <1>1, <1>2 DEF ClientInv, AskedInv
<1>4. CASE dc[c].life = "freed"
  <2>1. dc' = [dc EXCEPT ![c] = dc[c]] /\ link' = link
    BY <1>1, <1>4 DEF Reconnect
  <2>2. QED BY <1>1, <1>2, <1>3, <1>4, <2>1, IdleKeeps
<1>5. CASE dc[c].life # "freed" /\ up
  <2>1. Connected(c)
    BY <1>5 DEF Reconnect
  <2>2. QED BY <1>2, <1>5, <2>1, ConnectedKeeps
<1>6. CASE dc[c].life # "freed" /\ ~up
  <2>. DEFINE d == [dc[c] EXCEPT !.t = 0]
  <2>1. dc' = [dc EXCEPT ![c] = d] /\ link' = link
    BY <1>6 DEF Reconnect
  <2>2. /\ d \in Domctl(c) /\ d.connected = dc[c].connected /\ d.pending = dc[c].pending
        /\ d.seqno = dc[c].seqno /\ d.timer = dc[c].timer
    BY <1>1 DEF Domctl
  <2>3. dc'[c].timer
    BY <1>1, <1>2, <2>1, <2>2
  <2>. HIDE DEF d
  <2>4. QED BY <1>2, <1>3, <2>1, <2>2, <2>3, IdleKeeps
<1>7. QED BY <1>4, <1>5, <1>6

\* A controller uses the transport it has.
LEMMA LiveStep ==
    ASSUME DomainInv, NEW c \in Clients, NEW k \in Links(c), k = dc[c].t, Live(c),
           NEW d \in Domctl(c), NEW l \in Link(c), ClientStep(c, k, d, l),
           exports' = exports, UNCHANGED server, wanted' \subseteq Clients, broken' \in BOOLEAN,
           promised' = [e \in Clients |-> promised'[e]],
           seen' = [e \in Clients |-> seen'[e]],
           promised'[c] \in [Own(c) -> Contents], seen'[c] \in [Watches[c] -> Contents],
           \A e \in Clients : e # c => promised'[e] = promised[e] /\ seen'[e] = seen[e],
           d.t = k, d.timer = dc[c].timer, l.open, l.cut = link[c][k].cut,
           Numbered(c, d), LinkInv(c, k)',
           ~d.connected =>
             /\ EarlyOn(d, l)
             /\ l.cut = {} /\ l.down # <<>> /\ l.down[1].type = "ack" => Watching(c, k),
           d.connected => (l.cut = {} => Watching(c, k)) /\ AskedOn(d, l),
           StoredInv(c)', ToldInv(c, k)'
    PROVE  DomainInv' /\ Live(c)'
<1>1. /\ dc'[c] = d /\ link'[c][k] = l
      /\ \A j \in Links(c) : j # k => link'[c][j] = link[c][j]
  BY ClientFrame DEF DomainInv
<1>2. proxy' = proxy /\ up' = up /\ Types /\ ClientInv(c) /\ Own(c)' = Own(c)
  BY SameOwn DEF server, DomainInv
<1>3. Live(c)'
  BY <1>1 DEF Live
<1>4. Types'
  BY <1>2, ClientTypes
<1>5. ASSUME NEW j \in Links(c), j # k
      PROVE  LinkInv(c, j)'
  <2>1. /\ LinkInv(c, j) /\ link'[c][j] = link[c][j]
        /\ ~link[c][j].open \/ link[c][j].cut = {"client"}
    BY <1>1, <1>2, <1>5, OtherLinks DEF ClientInv
  <2>2. QED BY ONLY <1>2, <2>1 DEF LinkInv
<1>6. \A j \in Links(c) : LinkInv(c, j)'
  BY <1>5
<1>7. \A j \in Links(c) : ToldInv(c, j)'
  BY <1>1, <1>6, OtherTold
<1>8. PendingInv(c)'
  <2>1. Data(c)' = Data(c)
    BY SameOwn
  <2>2. QED BY <1>1, <2>1 DEF PendingInv, Numbered
<1>9. TimerInv(c)'
  <2>1. ~d.timer
    BY <1>2 DEF ClientInv, TimerInv
  <2>2. QED BY <1>1, <2>1 DEF TimerInv
<1>10. Watching(c, k)' = Watching(c, k)
  BY <1>2 DEF Watching
<1>11. EarlyInv(c)'
  BY <1>1, <1>10 DEF EarlyInv
<1>12. AskedInv(c)'
  BY <1>1, <1>3, <1>10 DEF AskedInv
<1>13. ClientInv(c)'
  BY <1>6, <1>7, <1>8, <1>9, <1>11, <1>12, Zenon DEF ClientInv
<1>14. (\A e \in Clients : e # c => ClientInv(e)') /\ OwnerInv' /\ HandleInv'
  BY ClientRest
<1>15. QED BY <1>3, <1>4, <1>13, <1>14 DEF DomainInv

\* mrp_domctl_set_data
LEMMA SetDataKeeps ==
    ASSUME DomainInv, NEW c \in Clients, NEW data \in Requests[c], SetData(c, data)
    PROVE  DomainInv' /\ Live(c)'
<1>1. PICK k : k = dc[c].t
  OBVIOUS
<1>2. /\ Types /\ ClientInv(c) /\ dc[c] \in Domctl(c) /\ dc[c].connected
      /\ Live(c) /\ k \in Links(c) /\ k # 0 /\ link[c][k] \in Link(c)
  <2>1. Types /\ ClientInv(c) /\ dc[c] \in Domctl(c) /\ dc[c].connected
    BY PlaceIs DEF DomainInv, SetData
  <2>2. Live(c) /\ k # 0
    BY <1>1, <2>1 DEF ClientInv, AskedInv, Live
  <2>3. k \in Links(c)
    BY <1>1, <2>1, <2>2 DEF Domctl
  <2>4. QED BY <2>1, <2>2, <2>3, PlaceIs
<1>. DEFINE n == dc[c].seqno
            q == dc[c].pending
            x == [t \in Own(c) |-> data[t]]
            r == [seq |-> n, link |-> k, data |-> x]
            m == [type |-> "set", seq |-> n, data |-> x]
            d == [dc[c] EXCEPT !.seqno = n + 1, !.pending = Append(q, r)]
            b == link[c][k]
            l == Upward(b, m)
<1>3. /\ ClientStep(c, k, d, l) /\ n <= MaxSets[c]
      /\ exports' = exports /\ UNCHANGED server /\ promised' = promised /\ seen' = seen
      /\ broken' = broken /\ wanted' = wanted
  <2>1. dc' = [dc EXCEPT ![c].seqno = @ + 1, ![c].pending =
                 Append(@, [seq |-> m.seq, link |-> dc[c].t, data |-> m.data])]
    BY DEF SetData, SetTables
  <2>2. dc' = [dc EXCEPT ![c] = d]
    <3>1. [seq |-> m.seq, link |-> dc[c].t, data |-> m.data] = r
      BY <1>1
    <3>2. QED BY <2>1, <3>1
  <2>3. link' = [link EXCEPT ![c][k] = l]
    BY <1>1 DEF SetData, SetTables
  <2>4. QED BY <2>2, <2>3 DEF SetData, ClientStep
<1>4. x \in Data(c)
  <2>1. data \in [Tables -> Vals \cup {Empty, Bad}] /\ Own(c) \subseteq Tables
    BY <1>2, DomainAssumption, OwnTables DEF Types
  <2>2. QED BY <2>1 DEF Data
<1>5. /\ q \in Seq(Request(c)) /\ n \in Nat \ {0} /\ r \in Request(c) /\ m \in Up(c)
      /\ r.seq = n /\ r.link = k /\ r.data = x /\ m.type = "set" /\ m.seq = n /\ m.data = x
  <2>1. k \in Nat
    BY <1>2 DEF Links
  <2>2. QED BY <1>2, <1>4, <2>1 DEF Domctl, Request, Up
<1>. HIDE DEF x, r, m
<1>6. /\ Append(q, r) \in Seq(Request(c)) /\ Len(Append(q, r)) = Len(q) + 1
      /\ DOMAIN Append(q, r) = 1..(Len(q) + 1)
      /\ DOMAIN q = 1..Len(q) /\ Len(q) \in Nat
      /\ \A i \in DOMAIN q : Append(q, r)[i] = q[i]
      /\ Append(q, r)[Len(q) + 1] = r
  BY <1>5, AppendIs
<1>7. /\ d \in Domctl(c) /\ d.t = k /\ d.timer = dc[c].timer /\ d.connected
      /\ d.pending = Append(q, r) /\ d.seqno = n + 1
  <2>. DEFINE a == Append(q, r)
  <2>1. n + 1 \in Nat \ {0} /\ a \in Seq(Request(c))
    BY <1>5, <1>6
  <2>2. d = [dc[c] EXCEPT !.seqno = n + 1, !.pending = a]
    OBVIOUS
  <2>. HIDE DEF n, q, a, d
  <2>3. /\ d \in Domctl(c) /\ d.t = k /\ d.timer = dc[c].timer /\ d.connected
        /\ d.pending = a /\ d.seqno = n + 1
    BY <1>1, <1>2, <2>1, <2>2 DEF Domctl
  <2>4. QED BY <2>3 DEF a
<1>8. b.cut \in {{}, {"server"}}
  BY <1>1, <1>2 DEF Live, Link
<1>9. /\ l \in Link(c) /\ l.open /\ l.cut = b.cut /\ l.down = b.down
      /\ b.cut = {"server"} => l = b
      /\ b.cut = {} => l.up = Append(b.up, m)
  <2>1. b.open
    BY <1>1, <1>2 DEF Live
  <2>2. CASE b.cut = {"server"}
    BY <1>2, <2>1, <2>2 DEF Upward
  <2>3. CASE b.cut = {}
    <3>1. b.up \in Seq(Up(c)) /\ Append(b.up, m) \in Seq(Up(c))
      BY <1>2, <1>5, AppendIs DEF Link
    <3>2. l = [b EXCEPT !.up = Append(b.up, m)]
      BY <2>3 DEF Upward
    <3>3. QED BY <1>2, <2>1, <2>3, <3>1, <3>2 DEF Link
  <2>4. QED BY <1>8, <2>2, <2>3
<1>10. /\ b.cut = {} => /\ DOMAIN l.up = 1..(Len(b.up) + 1) /\ DOMAIN b.up = 1..Len(b.up)
                        /\ Len(b.up) \in Nat
                        /\ \A i \in DOMAIN b.up : l.up[i] = b.up[i]
                        /\ l.up[Len(b.up) + 1] = m
       /\ b.cut = {"server"} => l.up = <<>> /\ DOMAIN l.up = {}
  <2>1. LinkInv(c, k) /\ b.up \in Seq(Up(c))
    BY <1>2 DEF ClientInv, Link
  <2>2. b.cut = {"server"} => b.up = <<>>
    BY <2>1 DEF LinkInv
  <2>. DEFINE o == b.up
  <2>3. o \in Seq(Up(c)) /\ m \in Up(c)
    BY <1>5, <2>1
  <2>. HIDE DEF l, b, o
  <2>4. /\ DOMAIN Append(o, m) = 1..(Len(o) + 1) /\ DOMAIN o = 1..Len(o)
        /\ Len(o) \in Nat
        /\ \A i \in DOMAIN o : Append(o, m)[i] = o[i]
        /\ Append(o, m)[Len(o) + 1] = m
    BY <2>3, AppendIs
  <2>5. b.cut = {} => l.up = Append(o, m)
    BY <1>9 DEF o
  <2>6. b.cut = {"server"} => l.up = <<>> /\ DOMAIN l.up = {}
    BY <1>9, <2>2
  <2>7. QED BY <2>4, <2>5, <2>6 DEF o
<1>11. Numbered(c, dc[c]) /\ AskedOn(dc[c], b) /\ (b.cut = {} => Watching(c, k))
  BY <1>1, <1>2 DEF ClientInv, PendingInv, AskedInv
<1>. HIDE DEF d, l, b, q, n
<1>12. Numbered(c, d)
  <2>1. \A i \in DOMAIN d.pending : \/ i \in DOMAIN q /\ d.pending[i] = q[i]
                                    \/ i = Len(q) + 1 /\ d.pending[i] = r
    BY <1>6, <1>7
  <2>2. Len(q) < n /\ \A i \in DOMAIN q : q[i].seq < n /\ q[i].seq \in Nat
    <3>1. Len(q) < n /\ \A i \in DOMAIN q : q[i].seq < n
      BY <1>11 DEF Numbered, q, n
    <3>2. \A i \in DOMAIN q : q[i] \in Request(c)
      BY <1>5, <1>6
    <3>3. QED BY <3>1, <3>2 DEF Request
  <2>3. \A i, j \in DOMAIN q : i < j => q[i].seq < q[j].seq
    BY <1>11 DEF Numbered, q
  <2>4. MaxSets[c] \in Nat
    BY DomainAssumption
  <2>5. \A i \in DOMAIN q : q[i].link # 0 => q[i].data \in Data(c)
    BY <1>11 DEF Numbered, q
  <2>6. \A i, j \in DOMAIN d.pending : i < j => d.pending[i].seq < d.pending[j].seq
    BY <1>5, <1>6, <1>7, <2>1, <2>2, <2>3
  <2>7. QED BY <1>3, <1>4, <1>5, <1>6, <1>7, <2>1, <2>2, <2>4, <2>5, <2>6 DEF Numbered
<1>13. LinkInv(c, k)'
  <2>1. /\ dc'[c] = d /\ link'[c][k] = l /\ proxy' = proxy /\ up' = up
        /\ Own(c)' = Own(c) /\ LinkInv(c, k)
    BY <1>2, <1>3, ClientFrame, SameOwn DEF server, ClientInv
  <2>2. CASE b.cut = {"server"}
    BY <1>7, <1>9, <2>1, <2>2 DEF LinkInv, b
  <2>3. CASE b.cut = {}
    <3>1. proxy[c][k].state = "registered"
      BY <1>11, <2>3 DEF Watching
    <3>2. \A i \in DOMAIN b.up : b.up[i].type = "set"
      BY <2>1, <3>1 DEF LinkInv, b
    <3>3. \A i \in DOMAIN l.up : l.up[i].type = "set"
      BY <1>5, <1>10, <2>3, <3>2
    <3>4. /\ up /\ proxy[c][k].tables = Own(c)
      BY <2>1, <2>3, <3>1 DEF LinkInv, NoProxy, b
    <3>5. k = dc'[c].t /\ l.open /\ l.cut = {}
      BY <1>7, <1>9, <2>1, <2>3
    <3>6. QED BY <2>1, <3>1, <3>3, <3>4, <3>5 DEF LinkInv
  <2>4. QED BY <1>8, <2>2, <2>3
<1>14. AskedOn(d, l)
  <2>1. /\ \A i \in DOMAIN q : i \in DOMAIN d.pending /\ d.pending[i] = q[i]
        /\ Len(q) + 1 \in DOMAIN d.pending /\ d.pending[Len(q) + 1] = r
        /\ \A i \in DOMAIN d.pending : i \in DOMAIN q \/ i = Len(q) + 1
        /\ dc[c].pending = q /\ dc[c].t = k
    BY <1>1, <1>6, <1>7 DEF q
  <2>2. \A i \in DOMAIN q : q[i].seq < n
    BY <1>11, <2>1 DEF Numbered, n
  <2>3. \A i \in DOMAIN d.pending : d.pending[i].link \in {0, d.t}
    BY <1>5, <1>7, <1>11, <2>1 DEF AskedOn
  <2>4. \A i \in DOMAIN l.down : l.down[i].type # "notify" =>
          \E j \in DOMAIN d.pending :
            /\ d.pending[j].seq = l.down[i].seq /\ d.pending[j].link = d.t
            /\ l.down[i].type = "ack" =>
                 \A t \in DOMAIN d.pending[j].data : d.pending[j].data[t] \in Contents
    <3>1. SUFFICES ASSUME NEW i \in DOMAIN b.down, b.down[i].type # "notify"
                   PROVE  \E j \in DOMAIN d.pending :
            /\ d.pending[j].seq = b.down[i].seq /\ d.pending[j].link = d.t
            /\ b.down[i].type = "ack" =>
                 \A t \in DOMAIN d.pending[j].data : d.pending[j].data[t] \in Contents
      BY <1>9
    <3>2. PICK j \in DOMAIN q : /\ q[j].seq = b.down[i].seq /\ q[j].link = k
                                /\ b.down[i].type = "ack" =>
                                     \A t \in DOMAIN q[j].data : q[j].data[t] \in Contents
      BY <1>11, <2>1, <3>1 DEF AskedOn
    <3>3. QED BY <1>7, <2>1, <3>2
  <2>5. \A i \in DOMAIN b.down : b.down[i].type # "notify" => b.down[i].seq < n
    BY <1>11, <2>1, <2>2 DEF AskedOn
  <2>6. \A i \in DOMAIN b.up : b.up[i].seq < n
    BY <1>11, <2>1, <2>2 DEF AskedOn
  <2>7. \A i \in DOMAIN l.up : \E j \in DOMAIN d.pending :
          /\ d.pending[j].seq = l.up[i].seq /\ d.pending[j].link = d.t
          /\ d.pending[j].data = l.up[i].data
    <3>1. ASSUME NEW i \in DOMAIN l.up, i \in DOMAIN b.up, b.cut = {}
          PROVE  \E j \in DOMAIN d.pending :
                   /\ d.pending[j].seq = l.up[i].seq /\ d.pending[j].link = d.t
                   /\ d.pending[j].data = l.up[i].data
      <4>1. PICK j \in DOMAIN q : /\ q[j].seq = b.up[i].seq /\ q[j].link = k
                                  /\ q[j].data = b.up[i].data
        BY <1>11, <2>1, <3>1 DEF AskedOn
      <4>2. QED BY <1>7, <1>10, <2>1, <3>1, <4>1
    <3>2. ASSUME b.cut = {}
          PROVE  \A i \in DOMAIN l.up : i \in DOMAIN b.up \/ l.up[i] = m
      BY <1>10, <3>2
    <3>3. QED BY <1>5, <1>7, <1>8, <1>10, <2>1, <3>1, <3>2
  <2>8. \A i, j \in DOMAIN l.up : i < j => l.up[i].seq < l.up[j].seq
    <3>1. \A i, j \in DOMAIN b.up : i < j => b.up[i].seq < b.up[j].seq
      BY <1>11 DEF AskedOn
    <3>2. QED BY <1>5, <1>8, <1>10, <2>6, <3>1
  <2>9. \A i \in DOMAIN l.down, j \in DOMAIN l.up :
          l.down[i].type # "notify" => l.down[i].seq < l.up[j].seq
    <3>1. \A i \in DOMAIN b.down, j \in DOMAIN b.up :
            b.down[i].type # "notify" => b.down[i].seq < b.up[j].seq
      BY <1>11 DEF AskedOn
    <3>2. QED BY <1>5, <1>8, <1>9, <1>10, <2>5, <3>1
  <2>10. l.cut = {} => \A j \in DOMAIN d.pending : d.pending[j].link # 0 =>
           \/ \E i \in DOMAIN l.down :
                l.down[i].type # "notify" /\ l.down[i].seq = d.pending[j].seq
           \/ \E i \in DOMAIN l.up : l.up[i].seq = d.pending[j].seq
    <3>1. SUFFICES ASSUME b.cut = {}, NEW j \in DOMAIN d.pending, d.pending[j].link # 0
                   PROVE
           \/ \E i \in DOMAIN l.down :
                l.down[i].type # "notify" /\ l.down[i].seq = d.pending[j].seq
           \/ \E i \in DOMAIN l.up : l.up[i].seq = d.pending[j].seq
      BY <1>9
    <3>2. CASE j \in DOMAIN q
      <4>1. \/ \E i \in DOMAIN b.down :
                 b.down[i].type # "notify" /\ b.down[i].seq = q[j].seq
            \/ \E i \in DOMAIN b.up : b.up[i].seq = q[j].seq
        BY <1>11, <2>1, <3>1, <3>2 DEF AskedOn
      <4>2. \A i \in DOMAIN b.up : i \in DOMAIN l.up /\ l.up[i] = b.up[i]
        BY <1>10, <3>1
      <4>3. QED BY <1>9, <2>1, <3>2, <4>1, <4>2
    <3>3. CASE j = Len(q) + 1
      <4>1. Len(b.up) + 1 \in DOMAIN l.up /\ l.up[Len(b.up) + 1] = m
        BY <1>10, <3>1
      <4>2. QED BY <1>5, <2>1, <3>3, <4>1
    <3>4. QED BY <2>1, <3>2, <3>3
  <2>11. \A i, j \in DOMAIN l.down : /\ i < j
                                     /\ l.down[i].type # "notify" /\ l.down[j].type # "notify"
                                     => l.down[i].seq < l.down[j].seq
    BY <1>9, <1>11 DEF AskedOn
  <2>12. QED BY <2>3, <2>4, <2>7, <2>8, <2>9, <2>10, <2>11 DEF AskedOn
<1>15. /\ dc'[c] = d /\ link'[c][k] = l /\ proxy' = proxy /\ Own(c)' = Own(c)
       /\ \A t : Reading(t)' = Reading(t)
       /\ handle' = handle /\ flagged' = flagged /\ scheduled' = scheduled
  BY <1>2, <1>3, ClientFrame, SameOwn DEF server, Reading
<1>16. StoredInv(c)'
  <2>1. SUFFICES ASSUME b.cut = {}
                 PROVE  StoredInv(c)'
    BY <1>7, <1>8, <1>9, <1>15 DEF StoredInv
  <2>2. Watching(c, k) /\ StoredInv(c)
    BY <1>2, <1>11, <2>1 DEF ClientInv
  <2>3. /\ (\A i \in DOMAIN b.down : b.down[i].type # "ack")
             => \A t \in Own(c) : Reading(t) = promised[c][t]
        /\ \A i \in DOMAIN b.down :
             b.down[i].type = "ack" /\ (\A j \in DOMAIN b.down : b.down[j].type = "ack" => j <= i)
               => \A t \in Own(c) :
                    /\ b.down[i].seq = 0 => Reading(t) = Empty
                    /\ \A j \in DOMAIN q :
                         q[j].seq = b.down[i].seq => Reading(t) = q[j].data[t]
    BY <1>1, <1>2, <2>1, <2>2 DEF StoredInv, b, q
  <2>4. \A i \in DOMAIN b.down : b.down[i].type = "ack" => b.down[i].seq # r.seq
    <3>1. \A i \in DOMAIN q : q[i].seq < n
      BY <1>11 DEF Numbered, n, q
    <3>2. \A i \in DOMAIN b.down : b.down[i].type = "ack" => b.down[i].seq < n
      BY <1>11, <3>1 DEF AskedOn, q
    <3>3. QED BY <1>5, <3>2
  <2>5. \A i \in DOMAIN d.pending : \/ i \in DOMAIN q /\ d.pending[i] = q[i]
                                    \/ d.pending[i] = r
    BY <1>6, <1>7
  <2>6. \A i \in DOMAIN b.down :
             b.down[i].type = "ack" /\ (\A j \in DOMAIN b.down : b.down[j].type = "ack" => j <= i)
               => \A t \in Own(c) :
                    /\ b.down[i].seq = 0 => Reading(t) = Empty
                    /\ \A j \in DOMAIN d.pending :
                         d.pending[j].seq = b.down[i].seq => Reading(t) = d.pending[j].data[t]
    BY <2>3, <2>4, <2>5
  <2>7. QED
    <3>1. /\ link'[c][dc'[c].t] = l /\ dc'[c].connected /\ promised' = promised
          /\ Own(c)' = Own(c) /\ l.down = b.down /\ dc'[c].pending = d.pending
      BY <1>3, <1>7, <1>9, <1>15
    <3>2. (\A i \in DOMAIN b.down : b.down[i].type # "ack")
             => \A t \in Own(c) : Reading(t)' = promised'[c][t]
      BY <1>15, <2>3, <3>1
    <3>3. \A i \in DOMAIN b.down :
             b.down[i].type = "ack" /\ (\A j \in DOMAIN b.down : b.down[j].type = "ack" => j <= i)
               => \A t \in Own(c) :
                    /\ b.down[i].seq = 0 => Reading(t)' = Empty
                    /\ \A j \in DOMAIN d.pending :
                         d.pending[j].seq = b.down[i].seq => Reading(t)' = d.pending[j].data[t]
      BY <1>15, <2>6
    <3>4. QED BY <3>1, <3>2, <3>3 DEF StoredInv
<1>17. ToldInv(c, k)'
  <2>1. LastTold(c, k)' = LastTold(c, k) /\ ToldInv(c, k)
    BY <1>2, <1>3, <1>9, <1>15, SameLast DEF b, ClientInv
  <2>2. QED BY <1>9, <1>15, <2>1 DEF ToldInv, Watching, Dead, b
<1>18. wanted' \subseteq Clients /\ broken' \in BOOLEAN
       /\ promised' = [e \in Clients |-> promised'[e]]
       /\ seen' = [e \in Clients |-> seen'[e]]
       /\ promised'[c] \in [Own(c) -> Contents] /\ seen'[c] \in [Watches[c] -> Contents]
       /\ \A e \in Clients : e # c => promised'[e] = promised[e] /\ seen'[e] = seen[e]
  BY <1>2, <1>3, SameRest
<1>19. l.cut = link[c][k].cut
  BY <1>9 DEF b
<1>20. l.cut = {} => Watching(c, k)
  BY <1>9, <1>11
<1>21. QED BY <1>1, <1>2, <1>3, <1>7, <1>9, <1>12, <1>13, <1>14, <1>16, <1>17, <1>18, <1>19, <1>20,
     LiveStep

\* Removing an entry leaves the others, in their order.
LEMMA Others ==
    ASSUME NEW S, NEW q \in Seq(S), NEW j \in DOMAIN q
    PROVE  LET r == RemoveAt(q, j) IN
           /\ r \in Seq(S) /\ Len(r) \in Nat /\ Len(r) < Len(q)
           /\ \A a \in DOMAIN r : \E b \in DOMAIN q : b # j /\ r[a] = q[b]
           /\ \A b \in DOMAIN q : b # j => \E a \in DOMAIN r : r[a] = q[b]
           /\ \A a1, a2 \in DOMAIN r : a1 < a2 =>
                \E b1, b2 \in DOMAIN q : b1 < b2 /\ r[a1] = q[b1] /\ r[a2] = q[b2]
<1>. DEFINE r == RemoveAt(q, j)
<1>1. /\ r \in Seq(S) /\ Len(q) \in Nat \ {0} /\ Len(r) = Len(q) - 1
      /\ DOMAIN q = 1..Len(q) /\ DOMAIN r = 1..(Len(q) - 1)
      /\ \A a \in 1..(Len(q) - 1) : r[a] = IF a < j THEN q[a] ELSE q[a + 1]
  BY RemoveIs
<1>. HIDE DEF r
<1>2. ASSUME NEW a \in DOMAIN r
      PROVE  \E b \in DOMAIN q : b # j /\ r[a] = q[b]
  <2>1. CASE a < j
    BY <1>1, <2>1
  <2>2. CASE ~(a < j)
    <3>1. a + 1 \in DOMAIN q /\ a + 1 # j /\ r[a] = q[a + 1]
      BY <1>1, <2>2
    <3>2. QED BY <3>1
  <2>3. QED BY <2>1, <2>2
<1>3. ASSUME NEW b \in DOMAIN q, b # j
      PROVE  \E a \in DOMAIN r : r[a] = q[b]
  <2>1. CASE b < j
    BY <1>1, <2>1
  <2>2. CASE b > j
    <3>1. b - 1 \in DOMAIN r /\ r[b - 1] = q[b]
      BY <1>1, <2>2
    <3>2. QED BY <3>1
  <2>3. QED BY <1>1, <1>3, <2>1, <2>2
<1>4. ASSUME NEW a1 \in DOMAIN r, NEW a2 \in DOMAIN r, a1 < a2
      PROVE  \E b1, b2 \in DOMAIN q : b1 < b2 /\ r[a1] = q[b1] /\ r[a2] = q[b2]
  <2>. DEFINE f(a) == IF a < j THEN a ELSE a + 1
  <2>1. \A a \in DOMAIN r : f(a) \in DOMAIN q /\ r[a] = q[f(a)]
    BY <1>1
  <2>2. f(a1) < f(a2)
    BY <1>1, <1>4
  <2>3. QED BY <2>1, <2>2
<1>5. QED BY <1>1, <1>2, <1>3, <1>4 DEF r

\* The request an answer names is the only one with its number.
LEMMA AnsweredIs ==
    ASSUME NEW c \in Clients, NEW d \in Domctl(c), Numbered(c, d),
           NEW j \in DOMAIN d.pending
    PROVE  LET n == d.pending[j].seq IN
           /\ RequestOf(d, n) = d.pending[j]
           /\ Answered(d, n) = [d EXCEPT !.pending = RemoveAt(d.pending, j)]
<1>. DEFINE n == d.pending[j].seq
<1>1. d.pending \in Seq(Request(c)) /\ DOMAIN d.pending \subseteq Nat
  BY DEF Domctl
<1>2. \A i \in DOMAIN d.pending : d.pending[i].seq \in Nat
  <2>1. \A i \in DOMAIN d.pending : d.pending[i] \in Request(c)
    BY <1>1
  <2>2. QED BY <2>1 DEF Request
<1>3. Places(d, n) \subseteq Nat /\ j \in Places(d, n)
  BY <1>1 DEF Places
<1>4. \A i \in Places(d, n) : i = j
  <2>1. SUFFICES ASSUME NEW i \in DOMAIN d.pending, d.pending[i].seq = n, i # j
                 PROVE  FALSE
    BY DEF Places
  <2>2. i < j \/ j < i
    BY <1>1, <2>1
  <2>3. d.pending[i].seq < d.pending[j].seq \/ d.pending[j].seq < d.pending[i].seq
    BY <2>2 DEF Numbered
  <2>4. QED BY <1>2, <2>1, <2>3
<1>5. Min(Places(d, n)) = j
  BY <1>3, <1>4, Least
<1>6. QED BY <1>3, <1>5 DEF RequestOf, Answered

\* What a request that was granted asked for is what the storage accepts.
LEMMA GrantedIs ==
    ASSUME NEW c \in Clients, NEW d \in Domctl(c), Numbered(c, d),
           NEW j \in DOMAIN d.pending, d.pending[j].link # 0,
           \A t \in DOMAIN d.pending[j].data : d.pending[j].data[t] \in Contents
    PROVE  d.pending[j].data \in [Own(c) -> Contents]
<1>1. d.pending[j].data \in [Own(c) -> Vals \cup {Empty, Bad}]
  BY DEF Numbered, Data
<1>2. QED BY <1>1

\* What a controller finds in its connection.
LEMMA HeadIs ==
    ASSUME DomainInv, NEW c \in Clients, NEW k \in Links(c), k = dc[c].t, Live(c),
           link[c][k].down # <<>>
    PROVE  LET m == Head(link[c][k].down) IN
           /\ m \in Answer \/ m \in Notice(c)
           /\ m \in Answer => m.type # "notify"
           /\ m \in Notice(c) => m.type = "notify"
           /\ m \in Answer /\ m.seq = 0 => ~dc[c].connected /\ EarlyOn(dc[c], link[c][k])
           /\ m \in Answer /\ m.seq # 0 =>
                /\ dc[c].connected /\ AskedOn(dc[c], link[c][k])
                /\ \E j \in DOMAIN dc[c].pending :
                     /\ dc[c].pending[j].seq = m.seq /\ dc[c].pending[j].link = k
                     /\ m.type = "ack" => dc[c].pending[j].data \in [Own(c) -> Contents]
<1>. DEFINE b == link[c][k]
            m == Head(b.down)
<1>1. Types /\ ClientInv(c) /\ dc[c] \in Domctl(c) /\ b \in Link(c) /\ k # 0
  BY PlaceIs DEF DomainInv, Live
<1>2. /\ b.down \in Seq(Answer \cup Notice(c)) /\ 1 \in DOMAIN b.down /\ m = b.down[1]
      /\ m \in Answer \cup Notice(c)
  <2>1. b.down \in Seq(Answer \cup Notice(c)) /\ b.down # <<>>
    BY <1>1 DEF Link
  <2>. HIDE DEF b
  <2>2. QED BY <2>1, TailIs
<1>3. /\ m \in Answer => m.type # "notify"
      /\ m \in Notice(c) => m.type = "notify"
  BY DEF Answer, Notice
<1>. HIDE DEF m
<1>4. ~dc[c].connected /\ m \in Answer => m.seq = 0 /\ EarlyOn(dc[c], b)
  BY <1>1, <1>2, <1>3 DEF ClientInv, EarlyInv, EarlyOn
<1>5. ASSUME dc[c].connected, m \in Answer
      PROVE  /\ AskedOn(dc[c], b) /\ m.seq # 0
             /\ \E j \in DOMAIN dc[c].pending :
                   /\ dc[c].pending[j].seq = m.seq /\ dc[c].pending[j].link = k
                   /\ m.type = "ack" => dc[c].pending[j].data \in [Own(c) -> Contents]
  <2>1. AskedOn(dc[c], b)
    BY <1>1, <1>5 DEF ClientInv, AskedInv
  <2>. DEFINE q == dc[c].pending
  <2>2. PICK j \in DOMAIN q :
          /\ q[j].seq = m.seq /\ q[j].link = k
          /\ m.type = "ack" => \A t \in DOMAIN q[j].data : q[j].data[t] \in Contents
    BY <1>2, <1>3, <1>5, <2>1 DEF AskedOn
  <2>3. q[j].seq # 0
    <3>1. q[j] \in Request(c)
      BY <1>1 DEF Domctl
    <3>2. QED BY <3>1 DEF Request
  <2>4. m.type = "ack" => q[j].data \in [Own(c) -> Contents]
    BY <1>1, <2>2, GrantedIs DEF ClientInv, PendingInv
  <2>5. QED BY <2>1, <2>2, <2>3, <2>4
<1>6. QED BY <1>2, <1>3, <1>4, <1>5 DEF m

\* What an answer or a notification m makes of a controller d.
Reply(d, m) ==
    CASE m.type = "notify" -> d
      [] m.type # "notify" /\ m.seq = 0 -> [d EXCEPT !.connected = (m.type = "ack")]
      [] OTHER -> Answered(d, m.seq)

\* m answers the request j of d0 on k, and leaves d.
Grants(c, k, m, d0, d, j) ==
    /\ d0.pending[j].seq = m.seq /\ d0.pending[j].link = k
    /\ RequestOf(d0, m.seq) = d0.pending[j]
    /\ m.type = "ack" => d0.pending[j].data \in [Own(c) -> Contents]
    /\ d.pending = RemoveAt(d0.pending, j)

LEMMA ReplyIs ==
    ASSUME DomainInv, NEW c \in Clients, NEW k \in Links(c), k = dc[c].t, Live(c),
           link[c][k].down # <<>>, NEW m, m = Head(link[c][k].down)
    PROVE  LET d == Reply(dc[c], m) IN
           /\ d \in Domctl(c) /\ Numbered(c, d) /\ d.t = k /\ d.timer = dc[c].timer
           /\ d.life = dc[c].life /\ d.seqno = dc[c].seqno
           /\ m \in Notice(c) => d = dc[c]
           /\ m \in Answer /\ m.seq = 0 =>
                d.pending = dc[c].pending /\ (d.connected <=> m.type = "ack")
           /\ m \in Answer /\ m.seq # 0 =>
                d.connected /\ \E j \in DOMAIN dc[c].pending : Grants(c, k, m, dc[c], d, j)
<1>. DEFINE d == Reply(dc[c], m)
            p == dc[c].pending
<1>1. Types /\ Numbered(c, dc[c]) /\ dc[c] \in Domctl(c)
  BY PlaceIs DEF DomainInv, ClientInv, PendingInv
<1>2. /\ m \in Answer \/ m \in Notice(c)
      /\ m \in Answer => m.type # "notify"
      /\ m \in Notice(c) => m.type = "notify"
      /\ m \in Answer /\ m.seq # 0 =>
           /\ dc[c].connected
           /\ \E j \in DOMAIN p :
                /\ p[j].seq = m.seq /\ p[j].link = k
                /\ m.type = "ack" => p[j].data \in [Own(c) -> Contents]
  BY HeadIs
<1>3. CASE m \in Notice(c)
  BY <1>1, <1>2, <1>3 DEF Reply
<1>4. CASE m \in Answer /\ m.seq = 0
  <2>1. d = [dc[c] EXCEPT !.connected = (m.type = "ack")]
    BY <1>2, <1>4 DEF Reply
  <2>2. /\ d \in Domctl(c) /\ d.pending = p /\ d.seqno = dc[c].seqno /\ d.t = dc[c].t
        /\ d.timer = dc[c].timer /\ d.life = dc[c].life /\ (d.connected <=> m.type = "ack")
    BY <1>1, <2>1 DEF Domctl
  <2>. HIDE DEF d
  <2>3. Numbered(c, d)
    BY <1>1, <2>2 DEF Numbered
  <2>4. QED BY <1>2, <1>4, <2>2, <2>3 DEF d
<1>5. CASE m \in Answer /\ m.seq # 0
  <2>1. PICK j \in DOMAIN p :
          /\ p[j].seq = m.seq /\ p[j].link = k
          /\ m.type = "ack" => p[j].data \in [Own(c) -> Contents]
    BY <1>2, <1>5
  <2>2. d = [dc[c] EXCEPT !.pending = RemoveAt(p, j)] /\ RequestOf(dc[c], m.seq) = p[j]
    <3>1. d = Answered(dc[c], m.seq)
      BY <1>2, <1>5 DEF Reply
    <3>2. QED BY <1>1, <2>1, <3>1, AnsweredIs
  <2>. DEFINE r == RemoveAt(p, j)
  <2>3. p \in Seq(Request(c))
    BY <1>1 DEF Domctl
  <2>4. /\ r \in Seq(Request(c)) /\ Len(r) \in Nat /\ Len(r) < Len(p) /\ Len(p) \in Nat
        /\ \A a \in DOMAIN r : \E b \in DOMAIN p : b # j /\ r[a] = p[b]
        /\ \A a1, a2 \in DOMAIN r : a1 < a2 =>
              \E b1, b2 \in DOMAIN p : b1 < b2 /\ r[a1] = p[b1] /\ r[a2] = p[b2]
    <3>1. Len(p) \in Nat
      BY <2>3
    <3>. HIDE DEF p
    <3>2. QED BY <2>1, <2>3, <3>1, Others, Zenon
  <2>. HIDE DEF r
  <2>5. /\ d \in Domctl(c) /\ d.pending = r /\ d.seqno = dc[c].seqno /\ d.t = dc[c].t
        /\ d.timer = dc[c].timer /\ d.life = dc[c].life /\ d.connected = dc[c].connected
    BY <1>1, <2>2, <2>4 DEF Domctl, r
  <2>. HIDE DEF d, p
  <2>6. Numbered(c, d)
    <3>1. /\ Len(p) < dc[c].seqno /\ dc[c].seqno <= MaxSets[c] + 1
          /\ \A i \in DOMAIN p : p[i].seq < dc[c].seqno
          /\ \A i, i2 \in DOMAIN p : i < i2 => p[i].seq < p[i2].seq
          /\ \A i \in DOMAIN p : p[i].link # 0 => p[i].data \in Data(c)
          /\ dc[c].seqno \in Nat
      BY <1>1 DEF Numbered, p, Domctl
    <3>2. Len(r) < d.seqno /\ d.seqno <= MaxSets[c] + 1
      BY <2>4, <2>5, <3>1
    <3>3. \A a \in DOMAIN r : /\ r[a].seq < d.seqno
                              /\ r[a].link # 0 => r[a].data \in Data(c)
      BY <2>4, <2>5, <3>1
    <3>4. \A a1, a2 \in DOMAIN r : a1 < a2 => r[a1].seq < r[a2].seq
      BY <2>4, <3>1
    <3>5. QED BY <2>5, <3>2, <3>3, <3>4 DEF Numbered
  <2>7. QED
    <3>1. Grants(c, k, m, dc[c], d, j)
      BY <2>1, <2>2, <2>5 DEF Grants, p, r
    <3>2. QED BY <1>2, <1>5, <2>1, <2>5, <2>6, <3>1 DEF d, p
<1>6. QED BY <1>2, <1>3, <1>4, <1>5

\* What recv_cb does, by parts.
Learns(c, m) ==
    /\ promised' = IF m.type # "ack" THEN promised
                   ELSE [promised EXCEPT ![c] = IF m.seq = 0 THEN Blank(c)
                                                ELSE RequestOf(dc[c], m.seq).data]
    /\ seen' = IF m.type # "notify" THEN seen ELSE [seen EXCEPT ![c] = m.told]

Received(c, choice, k, m) ==
    LET b == link[c][k]
        d == Reply(dc[c], m)
        e == Callback(d, choice) IN
    /\ k = dc[c].t /\ Live(c) /\ b.down # <<>> /\ m = Head(b.down)
    /\ ClientStep(c, k, e, IF e.t = 0 THEN CutByClient(b) ELSE TakeDown(b))
    /\ Learns(c, m)
    /\ WantedAfter(c, choice) /\ wanted' \subseteq Clients
    /\ exports' = exports /\ broken' = broken /\ broken' \in BOOLEAN
    /\ UNCHANGED server

LEMMA ReceiveIs ==
    ASSUME DomainInv, NEW c \in Clients, NEW choice \in Reactions, Receive(c, choice)
    PROVE  \E k \in Links(c) : \E m : Received(c, choice, k, m)
<1>1. dc[c] \in Domctl(c) /\ Live(c) /\ Types
  BY PlaceIs DEF DomainInv, Receive
<1>2. dc[c].t \in Links(c)
  BY <1>1 DEF Live, Domctl
<1>3. wanted' \subseteq Clients /\ broken' \in BOOLEAN
  BY <1>1, WantedIs DEF Receive, Types
<1>4. PICK k \in Links(c) : k = dc[c].t
  BY <1>2
<1>5. PICK m : m = Head(link[c][k].down)
  OBVIOUS
<1>. DEFINE b == link[c][k]
            d == Reply(dc[c], m)
            e == Callback(d, choice)
<1>6. dc' = [dc EXCEPT ![c] = e]
  BY <1>4, <1>5 DEF Receive, Reply
<1>7. link' = [link EXCEPT ![c][k] = IF e.t = 0 THEN CutByClient(b) ELSE TakeDown(b)]
  BY <1>4, <1>5 DEF Receive, Reply
<1>8. Learns(c, m)
  BY <1>4, <1>5 DEF Receive, Learns
<1>9. b.down # <<>> /\ WantedAfter(c, choice) /\ exports' = exports /\ broken' = broken
      /\ UNCHANGED server
  BY <1>4 DEF Receive
<1>10. QED BY <1>1, <1>3, <1>4, <1>5, <1>6, <1>7, <1>8, <1>9 DEF ClientStep, Received

LEMMA BlankIs ==
    ASSUME NEW c
    PROVE  Blank(c) \in [Own(c) -> Contents] /\ \A t \in Own(c) : Blank(c)[t] = Empty
  BY DEF Blank, Contents

LEMMA ReceivedTypes ==
    ASSUME DomainInv, NEW c \in Clients, NEW k \in Links(c), k = dc[c].t, Live(c),
           link[c][k].down # <<>>, NEW m, m = Head(link[c][k].down),
           Learns(c, m)
    PROVE  /\ promised' = [e \in Clients |-> promised'[e]]
           /\ seen' = [e \in Clients |-> seen'[e]]
           /\ promised'[c] \in [Own(c) -> Contents]
           /\ seen'[c] \in [Watches[c] -> Contents]
           /\ \A e \in Clients : e # c => promised'[e] = promised[e] /\ seen'[e] = seen[e]
           /\ m.type # "ack" => promised'[c] = promised[c]
           /\ m.type = "ack" /\ m.seq = 0 => promised'[c] = Blank(c)
           /\ m.type = "ack" /\ m.seq # 0 => promised'[c] = RequestOf(dc[c], m.seq).data
           /\ m.type # "notify" => seen'[c] = seen[c]
           /\ m.type = "notify" => seen'[c] = m.told
<1>1. /\ promised = [e \in Clients |-> promised[e]] /\ seen = [e \in Clients |-> seen[e]]
      /\ promised[c] \in [Own(c) -> Contents] /\ seen[c] \in [Watches[c] -> Contents]
  BY DEF DomainInv, Types
<1>2. m.type = "ack" /\ m.seq # 0 =>
        RequestOf(dc[c], m.seq).data \in [Own(c) -> Contents]
  <2>1. m \in Answer \/ m \in Notice(c)
    BY HeadIs
  <2>2. m \in Notice(c) => m.type # "ack"
    BY DEF Notice
  <2>3. ASSUME m.type = "ack", m.seq # 0
        PROVE  RequestOf(dc[c], m.seq).data \in [Own(c) -> Contents]
    <3>1. m \in Answer
      BY <2>1, <2>2, <2>3
    <3>2. PICK j \in DOMAIN dc[c].pending : Grants(c, k, m, dc[c], Reply(dc[c], m), j)
      BY <2>3, <3>1, ReplyIs
    <3>3. QED BY <2>3, <3>2 DEF Grants
  <2>4. QED BY <2>3
<1>3. m.type = "notify" => m.told \in [Watches[c] -> Contents]
  <2>1. m \in Answer \/ m \in Notice(c)
    BY HeadIs
  <2>2. /\ m \in Answer => m.type # "notify"
        /\ m \in Notice(c) => m.told \in [Watches[c] -> Contents]
    BY DEF Notice, Answer
  <2>3. QED BY <2>1, <2>2
<1>4. /\ promised' = [e \in Clients |-> promised'[e]]
      /\ promised'[c] \in [Own(c) -> Contents]
      /\ \A e \in Clients : e # c => promised'[e] = promised[e]
      /\ m.type # "ack" => promised'[c] = promised[c]
      /\ m.type = "ack" /\ m.seq = 0 => promised'[c] = Blank(c)
      /\ m.type = "ack" /\ m.seq # 0 => promised'[c] = RequestOf(dc[c], m.seq).data
  BY <1>1, <1>2, BlankIs DEF Learns
<1>5. /\ seen' = [e \in Clients |-> seen'[e]]
      /\ seen'[c] \in [Watches[c] -> Contents]
      /\ \A e \in Clients : e # c => seen'[e] = seen[e]
      /\ m.type # "notify" => seen'[c] = seen[c]
      /\ m.type = "notify" => seen'[c] = m.told
  BY <1>1, <1>3 DEF Learns
<1>6. QED BY <1>4, <1>5

\* An answer or a notification in whose callback the application lets go.
LEMMA ReceiveCut ==
    ASSUME DomainInv, NEW c \in Clients, NEW choice \in Reactions, Receive(c, choice),
           choice # "nothing"
    PROVE  DomainInv' /\ ~Live(c)'
<1>1. PICK k \in Links(c) : \E m : Received(c, choice, k, m)
  BY ReceiveIs
<1>2. PICK m : Received(c, choice, k, m)
  BY <1>1
<1>. DEFINE d == Reply(dc[c], m)
            e == Callback(d, choice)
<1>3. d \in Domctl(c) /\ Numbered(c, d) /\ d.t = k /\ k # 0 /\ d.timer = dc[c].timer
  <2>1. k = dc[c].t /\ Live(c) /\ link[c][k].down # <<>> /\ m = Head(link[c][k].down)
    BY <1>2 DEF Received
  <2>2. QED BY <2>1, ReplyIs DEF Live
<1>. HIDE DEF d
<1>4. e \in Domctl(c) /\ Numbered(c, e) /\ e.t = 0 /\ ~e.connected /\ ~e.timer
  BY <1>3, CallbackIs
<1>5. ClientStep(c, k, e, CutByClient(link[c][k]))
  BY <1>2, <1>4 DEF d, Received
<1>6. /\ promised' = [x \in Clients |-> promised'[x]]
      /\ seen' = [x \in Clients |-> seen'[x]]
      /\ promised'[c] \in [Own(c) -> Contents]
      /\ seen'[c] \in [Watches[c] -> Contents]
      /\ \A x \in Clients : x # c => promised'[x] = promised[x] /\ seen'[x] = seen[x]
  BY <1>2, ReceivedTypes DEF Received
<1>. HIDE DEF e
<1>7. QED BY <1>2, <1>4, <1>5, <1>6, CutKeeps DEF Received

\* The first message is taken.
LEMMA TakenIs ==
    ASSUME NEW c \in Clients, NEW b \in Link(c), b.down # <<>>
    PROVE  LET l == TakeDown(b) IN
           /\ l \in Link(c) /\ l.open = b.open /\ l.cut = b.cut /\ l.up = b.up
           /\ l.down = Tail(b.down) /\ Head(b.down) = b.down[1] /\ 1 \in DOMAIN b.down
           /\ DOMAIN b.down \subseteq Nat /\ DOMAIN l.down \subseteq Nat
           /\ \A i \in DOMAIN l.down : i + 1 \in DOMAIN b.down /\ l.down[i] = b.down[i + 1]
           /\ \A i \in DOMAIN b.down :
                i # 1 => i - 1 \in DOMAIN l.down /\ b.down[i] = l.down[i - 1]
<1>. DEFINE q == b.down
            l == TakeDown(b)
<1>1. q \in Seq(Answer \cup Notice(c)) /\ q # <<>>
  BY DEF Link
<1>. HIDE DEF q
<1>2. /\ Tail(q) \in Seq(Answer \cup Notice(c))
      /\ Len(q) \in Nat \ {0} /\ Len(Tail(q)) = Len(q) - 1
      /\ DOMAIN q = 1..Len(q) /\ DOMAIN Tail(q) = 1..(Len(q) - 1)
      /\ Head(q) = q[1]
      /\ \A i \in DOMAIN Tail(q) : Tail(q)[i] = q[i + 1]
  BY <1>1, TailIs
<1>3. l = [b EXCEPT !.down = Tail(q)]
  BY DEF TakeDown, q
<1>4. /\ l \in Link(c) /\ l.open = b.open /\ l.cut = b.cut /\ l.up = b.up
      /\ l.down = Tail(q)
  <2>. DEFINE r == Tail(q)
  <2>1. r \in Seq(Answer \cup Notice(c))
    BY <1>2
  <2>. HIDE DEF r
  <2>2. l = [b EXCEPT !.down = r]
    BY <1>3 DEF r
  <2>. HIDE DEF l
  <2>3. /\ l \in Link(c) /\ l.open = b.open /\ l.cut = b.cut /\ l.up = b.up /\ l.down = r
    BY <2>1, <2>2 DEF Link
  <2>4. QED BY <2>3 DEF r
<1>. HIDE DEF l
<1>5. /\ 1 \in DOMAIN q /\ DOMAIN q \subseteq Nat /\ DOMAIN l.down \subseteq Nat
      /\ \A i \in DOMAIN l.down : i + 1 \in DOMAIN q /\ l.down[i] = q[i + 1]
  BY <1>2, <1>4
<1>6. \A i \in DOMAIN q : i # 1 => i - 1 \in DOMAIN l.down /\ q[i] = l.down[i - 1]
  BY <1>2, <1>4
<1>7. QED BY <1>2, <1>4, <1>5, <1>6 DEF q, l

LEMMA TakenLast ==
    ASSUME NEW c \in Clients, NEW k, link[c][k] \in Link(c), link[c][k].down # <<>>,
           link'[c][k] = TakeDown(link[c][k]), NEW m, m = Head(link[c][k].down),
           m.type = "notify" => seen'[c] = m.told,
           m.type # "notify" => seen'[c] = seen[c]
    PROVE  LastTold(c, k)' = LastTold(c, k)
<1>. DEFINE q == link[c][k].down
            r == link'[c][k].down
            before == {i \in DOMAIN q : q[i].type = "notify"}
            after == {i \in DOMAIN r : r[i].type = "notify"}
<1>1. /\ m = q[1] /\ 1 \in DOMAIN q
      /\ DOMAIN q \subseteq Nat /\ DOMAIN r \subseteq Nat
      /\ \A i \in DOMAIN r : i + 1 \in DOMAIN q /\ r[i] = q[i + 1]
      /\ \A i \in DOMAIN q : i # 1 => i - 1 \in DOMAIN r /\ q[i] = r[i - 1]
  BY TakenIs
<1>2. link'[c][k] \in Link(c)
  BY TakenIs
<1>3. before \subseteq 1..Len(q) /\ Len(q) \in Nat /\ after \subseteq 1..Len(r) /\ Len(r) \in Nat
  <2>1. q \in Seq(Answer \cup Notice(c)) /\ r \in Seq(Answer \cup Notice(c))
    BY <1>2 DEF Link
  <2>. HIDE DEF q, r
  <2>2. QED BY <2>1
<1>4. /\ LastTold(c, k) = IF before = {} THEN seen[c] ELSE q[Max(before)].told
      /\ LastTold(c, k)' = IF after = {} THEN seen'[c] ELSE r[Max(after)].told
  BY DEF LastTold
<1>. HIDE DEF q, r
<1>5. CASE after = {}
  <2>1. \A i \in before : i = 1
    BY <1>1, <1>5
  <2>2. CASE m.type = "notify"
    <3>1. 1 \in before
      BY <1>1, <2>2
    <3>. HIDE DEF before
    <3>2. Max(before) \in before
      BY <1>3, <3>1, Greatest
    <3>3. QED BY <1>1, <1>4, <1>5, <2>1, <2>2, <3>1, <3>2
  <2>3. CASE m.type # "notify"
    <3>1. before = {}
      BY <1>1, <2>1, <2>3
    <3>2. QED BY <1>4, <1>5, <2>3, <3>1
  <2>4. QED BY <2>2, <2>3
<1>6. CASE after # {}
  <2>. DEFINE x == Max(after)
  <2>1. x \in after /\ \A i \in after : i <= x
    <3>. HIDE DEF after
    <3>1. QED BY <1>3, <1>6, Greatest
  <2>2. x \in Nat /\ x + 1 \in before /\ q[x + 1] = r[x]
    BY <1>1, <2>1
  <2>3. \A i \in before : i <= x + 1
    <3>1. SUFFICES ASSUME NEW i \in before, i # 1
                   PROVE  i <= x + 1
      BY <2>2
    <3>2. i - 1 \in after /\ i \in Nat
      BY <1>1, <3>1
    <3>. HIDE DEF after, x
    <3>3. QED BY <2>1, <2>2, <3>2
  <2>. HIDE DEF before, after, x
  <2>4. Max(before) \in before /\ \A i \in before : i <= Max(before)
    BY <1>3, <2>2, Greatest
  <2>5. Max(before) = x + 1
    <3>1. Max(before) \in Nat
      <4>1. before \subseteq Nat
        BY <1>1 DEF before
      <4>2. QED BY <2>4, <4>1
    <3>2. Max(before) <= x + 1 /\ x + 1 <= Max(before)
      BY <2>2, <2>3, <2>4
    <3>3. QED BY <2>2, <3>1, <3>2
  <2>6. QED BY <1>4, <1>6, <2>2, <2>5 DEF x
<1>7. QED BY <1>5, <1>6

LEMMA TakenEarly ==
    ASSUME NEW c \in Clients, NEW b \in Link(c), b.down # <<>>, NEW d0, NEW d,
           EarlyOn(d0, b), d.pending = d0.pending
    PROVE  /\ EarlyOn(d, TakeDown(b))
           /\ \A i \in DOMAIN TakeDown(b).down : TakeDown(b).down[i].type = "notify"
<1>. DEFINE l == TakeDown(b)
<1>1. /\ l.up = b.up /\ DOMAIN l.down \subseteq Nat
      /\ \A i \in DOMAIN l.down : i + 1 \in DOMAIN b.down /\ l.down[i] = b.down[i + 1]
  BY TakenIs
<1>. HIDE DEF l
<1>2. ASSUME NEW i \in DOMAIN l.down, l.down[i].type # "notify"
      PROVE  FALSE
  <2>1. i + 1 = 1 /\ i \in Nat
    BY <1>1, <1>2 DEF EarlyOn
  <2>2. DOMAIN l.down \subseteq Nat \ {0}
    <3>1. l.down \in Seq(Answer \cup Notice(c))
      BY TakenIs DEF Link, l
    <3>2. QED BY <3>1
  <2>3. QED BY <1>2, <2>1, <2>2
<1>3. EarlyOn(d, l)
  BY <1>1, <1>2 DEF EarlyOn
<1>4. QED BY <1>2, <1>3 DEF l

LEMMA TakenAsked ==
    ASSUME NEW c \in Clients, NEW b \in Link(c), b.down # <<>>, NEW d,
           AskedOn(d, b), b.down[1].type = "notify"
    PROVE  AskedOn(d, TakeDown(b))
<1>. DEFINE l == TakeDown(b)
            q == d.pending
<1>1. /\ l.up = b.up /\ l.cut = b.cut /\ DOMAIN l.down \subseteq Nat
      /\ \A i \in DOMAIN l.down : i + 1 \in DOMAIN b.down /\ l.down[i] = b.down[i + 1]
      /\ \A i \in DOMAIN b.down :
           i # 1 => i - 1 \in DOMAIN l.down /\ b.down[i] = l.down[i - 1]
  BY TakenIs
<1>. HIDE DEF l
<1>2. \A i \in DOMAIN l.down : l.down[i].type # "notify" =>
        \E j \in DOMAIN q :
          /\ q[j].seq = l.down[i].seq /\ q[j].link = d.t
          /\ l.down[i].type = "ack" => \A t \in DOMAIN q[j].data : q[j].data[t] \in Contents
  <2>1. SUFFICES ASSUME NEW i \in DOMAIN l.down, l.down[i].type # "notify"
                 PROVE  \E j \in DOMAIN q :
          /\ q[j].seq = l.down[i].seq /\ q[j].link = d.t
          /\ l.down[i].type = "ack" => \A t \in DOMAIN q[j].data : q[j].data[t] \in Contents
    OBVIOUS
  <2>2. PICK x \in DOMAIN b.down : l.down[i] = b.down[x] /\ b.down[x].type # "notify"
    BY <1>1, <2>1
  <2>3. \E j \in DOMAIN q :
          /\ q[j].seq = b.down[x].seq /\ q[j].link = d.t
          /\ b.down[x].type = "ack" => \A t \in DOMAIN q[j].data : q[j].data[t] \in Contents
    BY <2>2 DEF AskedOn
  <2>4. QED BY <2>2, <2>3
<1>3. \A i, j \in DOMAIN l.down : /\ i < j
                                  /\ l.down[i].type # "notify" /\ l.down[j].type # "notify"
                                  => l.down[i].seq < l.down[j].seq
  <2>1. \A i, j \in DOMAIN l.down : i < j => i + 1 < j + 1
    BY <1>1
  <2>2. QED BY <1>1, <2>1 DEF AskedOn
<1>4. \A i \in DOMAIN l.down, j \in DOMAIN l.up :
        l.down[i].type # "notify" => l.down[i].seq < l.up[j].seq
  BY <1>1 DEF AskedOn
<1>5. l.cut = {} => \A j \in DOMAIN q : q[j].link # 0 =>
       \/ \E i \in DOMAIN l.down : l.down[i].type # "notify" /\ l.down[i].seq = q[j].seq
       \/ \E i \in DOMAIN l.up : l.up[i].seq = q[j].seq
  <2>1. \A i \in DOMAIN b.down : b.down[i].type # "notify" =>
          \E x \in DOMAIN l.down : l.down[x] = b.down[i]
    BY <1>1
  <2>2. QED BY <1>1, <2>1 DEF AskedOn
<1>6. QED BY <1>1, <1>2, <1>3, <1>4, <1>5 DEF AskedOn, l

LEMMA TakenAnswer ==
    ASSUME NEW c \in Clients, NEW b \in Link(c), b.down # <<>>,
           NEW d \in Domctl(c), Numbered(c, d), NEW j \in DOMAIN d.pending, NEW e,
           AskedOn(d, b), b.down[1].type # "notify", d.pending[j].seq = b.down[1].seq,
           e.pending = RemoveAt(d.pending, j), e.t = d.t
    PROVE  AskedOn(e, TakeDown(b))
<1>. DEFINE l == TakeDown(b)
            q == d.pending
            r == e.pending
            n == b.down[1].seq
<1>1. /\ l.up = b.up /\ l.cut = b.cut /\ DOMAIN l.down \subseteq Nat \ {0}
      /\ 1 \in DOMAIN b.down /\ DOMAIN b.down \subseteq Nat /\ l \in Link(c)
      /\ \A i \in DOMAIN l.down : i + 1 \in DOMAIN b.down /\ l.down[i] = b.down[i + 1]
      /\ \A i \in DOMAIN b.down :
           i # 1 => i - 1 \in DOMAIN l.down /\ b.down[i] = l.down[i - 1]
  <2>1. l \in Link(c)
    BY TakenIs
  <2>2. l.down \in Seq(Answer \cup Notice(c))
    BY <2>1 DEF Link
  <2>. HIDE DEF l
  <2>3. DOMAIN l.down \subseteq Nat \ {0}
    BY <2>2
  <2>4. QED BY <2>1, <2>3, TakenIs DEF l
<1>2. q \in Seq(Request(c))
  BY DEF Domctl
<1>3. /\ \A x \in DOMAIN r : \E y \in DOMAIN q : y # j /\ r[x] = q[y]
      /\ \A y \in DOMAIN q : y # j => \E x \in DOMAIN r : r[x] = q[y]
  <2>. HIDE DEF q
  <2>1. j \in DOMAIN q /\ r = RemoveAt(q, j)
    BY DEF q
  <2>2. LET o == RemoveAt(q, j) IN
        /\ \A x \in DOMAIN o : \E y \in DOMAIN q : y # j /\ o[x] = q[y]
        /\ \A y \in DOMAIN q : y # j => \E x \in DOMAIN o : o[x] = q[y]
    BY <1>2, <2>1, Others, Zenon
  <2>3. QED BY <2>1, <2>2
<1>4. /\ \A i \in DOMAIN b.down : b.down[i].type # "notify" => b.down[i].seq \in Nat
      /\ \A i \in DOMAIN b.up : b.up[i].type = "set" => b.up[i].seq \in Nat
  <2>1. /\ \A i \in DOMAIN b.down : b.down[i] \in Answer \cup Notice(c)
        /\ \A i \in DOMAIN b.up : b.up[i] \in Up(c)
    <3>. DEFINE p == b.down
                u == b.up
    <3>1. p \in Seq(Answer \cup Notice(c)) /\ u \in Seq(Up(c))
      BY DEF Link
    <3>. HIDE DEF p, u
    <3>2. /\ \A i \in DOMAIN p : p[i] \in Answer \cup Notice(c)
          /\ \A i \in DOMAIN u : u[i] \in Up(c)
      BY <3>1
    <3>3. QED BY <3>2 DEF p, u
  <2>2. QED BY <2>1 DEF Answer, Notice, Up, Register
<1>. HIDE DEF l
<1>5. /\ \A i \in DOMAIN l.down : l.down[i].type # "notify" => n < l.down[i].seq
      /\ \A i \in DOMAIN l.up : n < l.up[i].seq
  <2>1. \A i \in DOMAIN l.down : 1 < i + 1
    BY <1>1
  <2>2. QED BY <1>1, <2>1 DEF AskedOn
<1>6. n \in Nat /\ ~(n < n)
  BY <1>1, <1>4
<1>. HIDE DEF n
<1>7. q[j].seq = n
  BY DEF n
<1>. HIDE DEF q, r
<1>8. \A i \in DOMAIN l.down : l.down[i].type # "notify" =>
        \E x \in DOMAIN r :
          /\ r[x].seq = l.down[i].seq /\ r[x].link = e.t
          /\ l.down[i].type = "ack" => \A t \in DOMAIN r[x].data : r[x].data[t] \in Contents
  <2>1. SUFFICES ASSUME NEW i \in DOMAIN l.down, l.down[i].type # "notify"
                 PROVE  \E x \in DOMAIN r :
          /\ r[x].seq = l.down[i].seq /\ r[x].link = e.t
          /\ l.down[i].type = "ack" => \A t \in DOMAIN r[x].data : r[x].data[t] \in Contents
    OBVIOUS
  <2>2. PICK y \in DOMAIN q :
          /\ q[y].seq = l.down[i].seq /\ q[y].link = d.t
          /\ l.down[i].type = "ack" => \A t \in DOMAIN q[y].data : q[y].data[t] \in Contents
    <3>1. PICK x \in DOMAIN b.down : l.down[i] = b.down[x] /\ b.down[x].type # "notify"
      BY <1>1, <2>1
    <3>2. \E y \in DOMAIN q :
            /\ q[y].seq = b.down[x].seq /\ q[y].link = d.t
            /\ b.down[x].type = "ack" =>
                 \A t \in DOMAIN q[y].data : q[y].data[t] \in Contents
      BY <3>1 DEF AskedOn, q
    <3>3. QED BY <3>1, <3>2
  <2>3. y # j
    BY <1>5, <1>6, <1>7, <2>1, <2>2
  <2>4. PICK x \in DOMAIN r : r[x] = q[y]
    BY <1>3, <2>3
  <2>5. QED BY <2>2, <2>4
<1>9. \A i \in DOMAIN l.up : \E x \in DOMAIN r :
        /\ r[x].seq = l.up[i].seq /\ r[x].link = e.t /\ r[x].data = l.up[i].data
  <2>1. SUFFICES ASSUME NEW i \in DOMAIN l.up
                 PROVE  \E x \in DOMAIN r :
        /\ r[x].seq = l.up[i].seq /\ r[x].link = e.t /\ r[x].data = l.up[i].data
    OBVIOUS
  <2>2. PICK y \in DOMAIN q :
          q[y].seq = l.up[i].seq /\ q[y].link = d.t /\ q[y].data = l.up[i].data
    BY <1>1, <2>1 DEF AskedOn, q
  <2>3. y # j
    BY <1>5, <1>6, <1>7, <2>1, <2>2
  <2>4. PICK x \in DOMAIN r : r[x] = q[y]
    BY <1>3, <2>3
  <2>5. QED BY <2>2, <2>4
<1>10. \A i, x \in DOMAIN l.down : /\ i < x
                                   /\ l.down[i].type # "notify" /\ l.down[x].type # "notify"
                                   => l.down[i].seq < l.down[x].seq
  <2>1. \A i, x \in DOMAIN l.down : i < x => i + 1 < x + 1
    BY <1>1
  <2>2. QED BY <1>1, <2>1 DEF AskedOn
<1>11. /\ \A i \in DOMAIN l.down, x \in DOMAIN l.up :
            l.down[i].type # "notify" => l.down[i].seq < l.up[x].seq
       /\ \A i, x \in DOMAIN l.up : i < x => l.up[i].seq < l.up[x].seq
  BY <1>1 DEF AskedOn
<1>12. l.cut = {} => \A x \in DOMAIN r : r[x].link # 0 =>
       \/ \E i \in DOMAIN l.down : l.down[i].type # "notify" /\ l.down[i].seq = r[x].seq
       \/ \E i \in DOMAIN l.up : l.up[i].seq = r[x].seq
  <2>1. SUFFICES ASSUME b.cut = {}, NEW x \in DOMAIN r, r[x].link # 0
                 PROVE
       \/ \E i \in DOMAIN l.down : l.down[i].type # "notify" /\ l.down[i].seq = r[x].seq
       \/ \E i \in DOMAIN l.up : l.up[i].seq = r[x].seq
    BY <1>1
  <2>2. PICK y \in DOMAIN q : y # j /\ r[x] = q[y]
    BY <1>3
  <2>3. CASE \E i \in DOMAIN b.up : b.up[i].seq = q[y].seq
    BY <1>1, <2>2, <2>3
  <2>4. CASE \E i \in DOMAIN b.down : b.down[i].type # "notify" /\ b.down[i].seq = q[y].seq
    <3>1. PICK i \in DOMAIN b.down : b.down[i].type # "notify" /\ b.down[i].seq = q[y].seq
      BY <2>4
    <3>2. i # 1
      <4>1. q[y].seq # q[j].seq
        <5>1. DOMAIN q \subseteq Nat /\ q[y] \in Request(c) /\ q[j] \in Request(c)
              /\ j \in DOMAIN q
          BY <1>2 DEF q
        <5>2. q[y].seq \in Nat /\ q[j].seq \in Nat
          BY <5>1 DEF Request
        <5>3. y < j \/ j < y
          BY <2>2, <5>1
        <5>4. q[y].seq < q[j].seq \/ q[j].seq < q[y].seq
          BY <5>1, <5>3 DEF Numbered, q
        <5>5. QED BY <5>2, <5>4
      <4>2. QED BY <1>7, <3>1, <4>1 DEF n
    <3>3. QED BY <1>1, <2>2, <3>1, <3>2
  <2>5. QED BY <2>1, <2>2, <2>3, <2>4 DEF AskedOn, q
<1>13. \A x \in DOMAIN r : r[x].link \in {0, e.t}
  BY <1>3 DEF AskedOn, q
<1>14. QED BY <1>8, <1>9, <1>10, <1>11, <1>12, <1>13 DEF AskedOn, l, r

\* What the tables of c hold agrees with what c was told, when it has read more.
LEMMA ReadStored ==
    ASSUME DomainInv, NEW c \in Clients, NEW k \in Links(c), k = dc[c].t, Live(c),
           link[c][k].down # <<>>, NEW m, m = Head(link[c][k].down), Learns(c, m),
           dc'[c] = Reply(dc[c], m), link'[c][k] = TakeDown(link[c][k]),
           UNCHANGED <<exports, proxy, table>>
    PROVE  StoredInv(c)'
<1>. DEFINE b == link[c][k]
            l == TakeDown(b)
            d == Reply(dc[c], m)
            p == dc[c].pending
<1>1. /\ b \in Link(c) /\ ClientInv(c) /\ Own(c)' = Own(c) /\ Types
      /\ \A t : Reading(t)' = Reading(t)
      /\ Watching(c, k)' = Watching(c, k)
  BY PlaceIs, SameOwn DEF DomainInv, Reading, Watching
<1>2. /\ l.open = b.open /\ l.cut = b.cut /\ m = b.down[1] /\ 1 \in DOMAIN b.down
      /\ DOMAIN b.down \subseteq Nat /\ DOMAIN l.down \subseteq Nat
      /\ \A i \in DOMAIN l.down : i + 1 \in DOMAIN b.down /\ l.down[i] = b.down[i + 1]
      /\ \A i \in DOMAIN b.down :
           i # 1 => i - 1 \in DOMAIN l.down /\ b.down[i] = l.down[i - 1]
  BY <1>1, TakenIs
<1>3. /\ m \in Answer \/ m \in Notice(c)
      /\ m \in Answer => m.type # "notify"
      /\ m \in Notice(c) => m.type = "notify"
      /\ m \in Answer /\ m.seq = 0 => ~dc[c].connected /\ EarlyOn(dc[c], b)
      /\ m \in Answer /\ m.seq # 0 => dc[c].connected
  BY HeadIs
<1>4. /\ d.t = k
      /\ m \in Notice(c) => d = dc[c]
      /\ m \in Answer /\ m.seq = 0 => d.pending = p /\ (d.connected <=> m.type = "ack")
      /\ m \in Answer /\ m.seq # 0 =>
           d.connected /\ \E j \in DOMAIN p : Grants(c, k, m, dc[c], d, j)
  BY ReplyIs
<1>5. /\ m.type # "ack" => promised'[c] = promised[c]
      /\ m.type = "ack" /\ m.seq = 0 => promised'[c] = Blank(c)
      /\ m.type = "ack" /\ m.seq # 0 => promised'[c] = RequestOf(dc[c], m.seq).data
  BY ReceivedTypes, SMTT(30)
<1>6. \A i \in DOMAIN d.pending : \E j \in DOMAIN p : d.pending[i] = p[j]
  <2>1. p \in Seq(Request(c))
    BY <1>1, PlaceIs DEF Domctl
  <2>2. ASSUME NEW j \in DOMAIN p
        PROVE  \A i \in DOMAIN RemoveAt(p, j) : \E x \in DOMAIN p : RemoveAt(p, j)[i] = p[x]
    <3>. HIDE DEF p
    <3>1. \A i \in DOMAIN RemoveAt(p, j) :
            \E x \in DOMAIN p : x # j /\ RemoveAt(p, j)[i] = p[x]
      BY ONLY <2>1, <2>2, Others, ZenonT(30)
    <3>2. QED BY <3>1
  <2>. HIDE DEF d
  <2>3. CASE d.pending = p
    BY <2>3
  <2>4. CASE \E j \in DOMAIN p : Grants(c, k, m, dc[c], d, j)
    <3>1. PICK j \in DOMAIN p : Grants(c, k, m, dc[c], d, j)
      BY <2>4
    <3>2. d.pending = RemoveAt(p, j)
      BY <3>1 DEF Grants
    <3>3. QED BY <2>2, <3>2
  <2>5. d = dc[c] => d.pending = p
    OBVIOUS
  <2>6. QED BY <1>3, <1>4, <2>3, <2>4, <2>5
<1>. HIDE DEF l, d, b, p
<1>7. SUFFICES ASSUME b.cut = {}, Watching(c, k)
               PROVE  StoredInv(c)'
  BY <1>1, <1>2, <1>4 DEF StoredInv, l, d, b
<1>8. StoredInv(c)
  BY <1>1 DEF ClientInv
<1>. DEFINE LastAck(i) == /\ b.down[i].type = "ack"
                          /\ \A j \in DOMAIN b.down : b.down[j].type = "ack" => j <= i
<1>9. /\ dc[c].connected /\ (\A i \in DOMAIN b.down : b.down[i].type # "ack")
             => \A t \in Own(c) : Reading(t) = promised[c][t]
      /\ \A i \in DOMAIN b.down : LastAck(i) =>
           \A t \in Own(c) : /\ b.down[i].seq = 0 => Reading(t) = Empty
                             /\ \A j \in DOMAIN p :
                                  p[j].seq = b.down[i].seq => Reading(t) = p[j].data[t]
      /\ ~dc[c].connected => \E i \in DOMAIN b.down : b.down[i].type = "ack"
  BY <1>1, <1>7, <1>8 DEF StoredInv, b, p
<1>10. \A i \in DOMAIN l.down :
         l.down[i].type = "ack" /\ (\A j \in DOMAIN l.down : l.down[j].type = "ack" => j <= i)
           => LastAck(i + 1) /\ i + 1 \in DOMAIN b.down /\ l.down[i] = b.down[i + 1]
  <2>1. SUFFICES ASSUME NEW i \in DOMAIN l.down, l.down[i].type = "ack",
                        \A j \in DOMAIN l.down : l.down[j].type = "ack" => j <= i
                 PROVE  LastAck(i + 1)
    BY <1>2
  <2>2. SUFFICES ASSUME NEW j \in DOMAIN b.down, b.down[j].type = "ack"
                 PROVE  j <= i + 1
    BY <1>2, <2>1
  <2>3. CASE j = 1
    BY <1>2, <2>3
  <2>4. CASE j # 1
    <3>1. j - 1 <= i
      BY <1>2, <2>1, <2>2, <2>4
    <3>2. QED BY <1>2, <3>1
  <2>5. QED BY <2>3, <2>4
<1>11. \A i \in DOMAIN l.down :
         l.down[i].type = "ack" /\ (\A j \in DOMAIN l.down : l.down[j].type = "ack" => j <= i)
           => \A t \in Own(c) : /\ l.down[i].seq = 0 => Reading(t) = Empty
                                /\ \A j \in DOMAIN d.pending :
                                     d.pending[j].seq = l.down[i].seq
                                       => Reading(t) = d.pending[j].data[t]
  <2>1. SUFFICES ASSUME NEW i \in DOMAIN b.down, LastAck(i), NEW t \in Own(c)
                 PROVE  /\ b.down[i].seq = 0 => Reading(t) = Empty
                        /\ \A j \in DOMAIN d.pending :
                             d.pending[j].seq = b.down[i].seq
                               => Reading(t) = d.pending[j].data[t]
    <3>. HIDE DEF LastAck
    <3>1. QED BY <1>10
  <2>2. QED BY <1>6, <1>9, <2>1
<1>12. d.connected /\ (\A i \in DOMAIN l.down : l.down[i].type # "ack")
         => \A t \in Own(c) : Reading(t) = promised'[c][t]
  <2>1. SUFFICES ASSUME d.connected, \A i \in DOMAIN l.down : l.down[i].type # "ack"
                 PROVE  \A t \in Own(c) : Reading(t) = promised'[c][t]
    OBVIOUS
  <2>2. \A i \in DOMAIN b.down : b.down[i].type = "ack" => i = 1
    BY <1>2, <2>1
  <2>3. CASE m.type # "ack"
    <3>1. dc[c].connected
      BY <1>3, <1>4, <2>1, <2>3
    <3>2. QED BY <1>2, <1>5, <1>9, <2>2, <2>3, <3>1
  <2>4. CASE m.type = "ack" /\ m.seq = 0
    <3>1. LastAck(1)
      BY <1>2, <2>2, <2>4
    <3>2. \A t \in Own(c) : Reading(t) = Empty
      BY <1>2, <1>9, <2>4, <3>1
    <3>3. QED BY <1>5, <2>4, <3>2, BlankIs
  <2>5. CASE m.type = "ack" /\ m.seq # 0
    <3>1. LastAck(1)
      BY <1>2, <2>2, <2>5
    <3>2. m \in Answer
      BY <1>3, <2>5
    <3>3. PICK j \in DOMAIN p : p[j].seq = m.seq /\ RequestOf(dc[c], m.seq) = p[j]
      BY <1>4, <2>5, <3>2 DEF Grants, p
    <3>4. \A t \in Own(c) : Reading(t) = p[j].data[t]
      BY <1>2, <1>9, <3>1, <3>3
    <3>5. QED BY <1>5, <2>5, <3>3, <3>4
  <2>6. QED BY <2>3, <2>4, <2>5
<1>13. ~d.connected => \E i \in DOMAIN l.down : l.down[i].type = "ack"
  <2>1. SUFFICES ASSUME ~d.connected
                 PROVE  \E i \in DOMAIN l.down : l.down[i].type = "ack"
    OBVIOUS
  <2>2. m.type # "ack" /\ ~dc[c].connected
    BY <1>3, <1>4, <2>1
  <2>3. PICK i \in DOMAIN b.down : b.down[i].type = "ack"
    BY <1>9, <2>2
  <2>4. i # 1
    BY <1>2, <2>2, <2>3
  <2>5. QED BY <1>2, <2>3, <2>4
<1>14. link'[c][dc'[c].t] = l /\ dc'[c] = d
  BY <1>4 DEF l, d, b
<1>15. /\ dc'[c].connected = d.connected /\ dc'[c].pending = d.pending
       /\ link'[c][dc'[c].t].down = l.down
  BY <1>14
<1>16. QED
  <2>1. \A i \in DOMAIN l.down :
         l.down[i].type = "ack" /\ (\A j \in DOMAIN l.down : l.down[j].type = "ack" => j <= i)
           => \A t \in Own(c) : /\ l.down[i].seq = 0 => Reading(t)' = Empty
                                /\ \A j \in DOMAIN d.pending :
                                     d.pending[j].seq = l.down[i].seq
                                       => Reading(t)' = d.pending[j].data[t]
    BY <1>1, <1>11
  <2>2. d.connected /\ (\A i \in DOMAIN l.down : l.down[i].type # "ack")
         => \A t \in Own(c) : Reading(t)' = promised'[c][t]
    BY <1>1, <1>12
  <2>3. Own(c)' = Own(c)
    BY <1>1
  <2>. HIDE DEF LastAck
  <2>4. ~d.connected => \E i \in DOMAIN l.down : l.down[i].type = "ack"
    BY <1>13
  <2>5. QED BY ONLY <1>15, <2>1, <2>2, <2>3, <2>4 DEF StoredInv

\* An answer or a notification, when the application keeps the connection.
LEMMA ReceiveOn ==
    ASSUME DomainInv, NEW c \in Clients, Receive(c, "nothing")
    PROVE  DomainInv' /\ Live(c)'
<1>1. PICK k \in Links(c) : \E m : Received(c, "nothing", k, m)
  BY ReceiveIs DEF Reactions
<1>2. PICK m : Received(c, "nothing", k, m)
  BY <1>1
<1>. DEFINE b == link[c][k]
            d == Reply(dc[c], m)
            l == TakeDown(b)
<1>3. /\ k = dc[c].t /\ Live(c) /\ b.down # <<>> /\ m = Head(b.down) /\ k # 0
      /\ b \in Link(c) /\ Types /\ ClientInv(c) /\ dc[c] \in Domctl(c)
      /\ Numbered(c, dc[c])
  BY <1>2, PlaceIs DEF Received, Live, DomainInv, ClientInv, PendingInv
<1>4. /\ m \in Answer \/ m \in Notice(c)
      /\ m \in Answer => m.type # "notify"
      /\ m \in Notice(c) => m.type = "notify"
      /\ m \in Answer /\ m.seq = 0 => ~dc[c].connected /\ EarlyOn(dc[c], b)
      /\ m \in Answer /\ m.seq # 0 => dc[c].connected /\ AskedOn(dc[c], b)
  BY <1>3, HeadIs
<1>5. /\ d \in Domctl(c) /\ Numbered(c, d) /\ d.t = k /\ d.timer = dc[c].timer
      /\ m \in Notice(c) => d = dc[c]
      /\ m \in Answer /\ m.seq = 0 =>
           d.pending = dc[c].pending /\ (d.connected <=> m.type = "ack")
      /\ m \in Answer /\ m.seq # 0 =>
           d.connected /\ \E j \in DOMAIN dc[c].pending : Grants(c, k, m, dc[c], d, j)
  BY <1>3, ReplyIs, SMTT(30)
<1>6. /\ l \in Link(c) /\ l.open = b.open /\ l.cut = b.cut /\ l.up = b.up /\ m = b.down[1]
  BY <1>3, TakenIs
<1>7. /\ ClientStep(c, k, d, l) /\ Learns(c, m) /\ wanted' \subseteq Clients
      /\ exports' = exports /\ broken' \in BOOLEAN /\ UNCHANGED server
  <2>1. Callback(d, "nothing") = d
    BY DEF Callback
  <2>2. QED BY <1>2, <1>3, <1>5, <2>1 DEF Received
<1>8. /\ promised' = [e \in Clients |-> promised'[e]]
      /\ seen' = [e \in Clients |-> seen'[e]]
      /\ promised'[c] \in [Own(c) -> Contents]
      /\ seen'[c] \in [Watches[c] -> Contents]
      /\ \A e \in Clients : e # c => promised'[e] = promised[e] /\ seen'[e] = seen[e]
      /\ m.type # "notify" => seen'[c] = seen[c]
      /\ m.type = "notify" => seen'[c] = m.told
  BY <1>3, <1>7, ReceivedTypes, SMTT(30)
<1>. HIDE DEF d, l
<1>9. /\ dc'[c] = d /\ link'[c][k] = l /\ proxy' = proxy /\ table' = table /\ up' = up
      /\ handle' = handle /\ flagged' = flagged /\ scheduled' = scheduled
      /\ Own(c)' = Own(c)
  BY <1>3, <1>7, ClientFrame, SameOwn DEF server
<1>10. StoredInv(c)'
  BY <1>3, <1>7, <1>9, ReadStored DEF d, l
<1>11. ToldInv(c, k)'
  <2>1. LastTold(c, k)' = LastTold(c, k) /\ ToldInv(c, k)
    BY <1>3, <1>8, <1>9, TakenLast DEF ClientInv, l
  <2>2. \A t : Reading(t)' = Reading(t)
    BY <1>9 DEF Reading
  <2>3. Watching(c, k)' = Watching(c, k) /\ Dead(c)' = Dead(c)
    BY <1>9 DEF Watching, Dead
  <2>4. QED BY <1>6, <1>9, <2>1, <2>2, <2>3 DEF ToldInv
<1>12. l.open /\ (b.cut = {} \/ b.cut = {"server"})
  BY <1>3, <1>6 DEF Live, Link
<1>13. EarlyInv(c) /\ AskedInv(c) /\ LinkInv(c, k)
  BY <1>3 DEF ClientInv
<1>14. ~dc[c].connected => EarlyOn(dc[c], b)
  BY <1>3, <1>13 DEF EarlyInv
<1>15. dc[c].connected => AskedOn(dc[c], b) /\ (b.cut = {} => Watching(c, k))
  BY <1>3, <1>13 DEF AskedInv
<1>16. ~d.connected =>
         /\ EarlyOn(d, l)
         /\ l.cut = {} /\ l.down # <<>> /\ l.down[1].type = "ack" => Watching(c, k)
  <2>1. SUFFICES ASSUME ~d.connected
                 PROVE  /\ EarlyOn(d, l)
                        /\ l.down # <<>> => l.down[1].type # "ack"
    OBVIOUS
  <2>2. ~dc[c].connected /\ d.pending = dc[c].pending
    BY <1>4, <1>5, <2>1
  <2>3. EarlyOn(d, l) /\ \A i \in DOMAIN l.down : l.down[i].type = "notify"
    BY <1>3, <1>14, <2>2, TakenEarly DEF l
  <2>4. l.down # <<>> => 1 \in DOMAIN l.down
    <3>1. l.down \in Seq(Answer \cup Notice(c))
      BY <1>6 DEF Link
    <3>2. QED BY <3>1
  <2>5. QED BY <2>3, <2>4
<1>17. d.connected => (l.cut = {} => Watching(c, k)) /\ AskedOn(d, l)
  <2>1. CASE m \in Notice(c)
    <3>1. dc[c].connected => AskedOn(dc[c], l)
      BY <1>3, <1>4, <1>6, <1>15, <2>1, TakenAsked DEF l
    <3>2. QED BY <1>5, <1>6, <1>15, <2>1, <3>1
  <2>2. CASE m \in Answer /\ m.seq # 0
    <3>1. PICK j \in DOMAIN dc[c].pending : Grants(c, k, m, dc[c], d, j)
      BY <1>5, <2>2
    <3>2. d.pending = RemoveAt(dc[c].pending, j) /\ dc[c].pending[j].seq = b.down[1].seq
      BY <1>6, <3>1 DEF Grants
    <3>3. b.down[1].type # "notify" /\ d.t = dc[c].t
      BY <1>3, <1>4, <1>5, <1>6, <2>2
    <3>4. AskedOn(d, l)
      BY <1>3, <1>4, <2>2, <3>2, <3>3, TakenAnswer DEF l
    <3>5. QED BY <1>4, <1>6, <1>15, <2>2, <3>4
  <2>3. CASE m \in Answer /\ m.seq = 0
    <3>1. SUFFICES ASSUME m.type = "ack"
                   PROVE  (l.cut = {} => Watching(c, k)) /\ AskedOn(d, l)
      BY <1>5, <2>3
    <3>2. l.cut = {} => Watching(c, k)
      BY <1>3, <1>4, <1>6, <1>13, <2>3, <3>1 DEF EarlyInv
    <3>3. EarlyOn(d, l) /\ \A i \in DOMAIN l.down : l.down[i].type = "notify"
      BY <1>3, <1>4, <1>5, <2>3, TakenEarly DEF l
    <3>4. DOMAIN l.up = {}
      <4>1. CASE b.cut = {"server"}
        <5>1. l.up = <<>>
          BY <1>6, <1>13, <4>1 DEF LinkInv
        <5>2. QED BY <5>1
      <4>2. CASE b.cut = {}
        <5>1. \A i \in DOMAIN b.up : b.up[i].type = "set"
          BY <1>6, <1>13, <3>2, <4>2 DEF LinkInv, Watching
        <5>2. \A i \in DOMAIN b.up : b.up[i].type = "register"
          BY <1>6, <3>3 DEF EarlyOn
        <5>3. QED BY <1>6, <5>1, <5>2
      <4>3. QED BY <1>12, <4>1, <4>2
    <3>5. AskedOn(d, l)
      BY <3>3, <3>4 DEF EarlyOn, AskedOn
    <3>6. QED BY <3>2, <3>5
  <2>4. QED BY <1>4, <2>1, <2>2, <2>3
<1>18. LinkInv(c, k)'
  <2>1. /\ proxy[c][k].state \in {"none", "accepted"} /\ l.open /\ l.cut # {"server"} => FALSE
        /\ proxy[c][k].state = "rejected" => l.down = <<>>
    <3>1. proxy[c][k].state = "rejected" => l.down = <<>>
      <4>1. proxy[c][k].state = "rejected" => b.down = <<Nak(0)>>
        BY <1>3, <1>13 DEF LinkInv
      <4>2. b.down = <<Nak(0)>> => Tail(b.down) = <<>>
        BY JustOne
      <4>3. QED BY <1>3, <4>1, <4>2, TakenIs DEF l
    <3>2. QED BY <1>3, <1>6, <1>12, <1>13, <3>1 DEF LinkInv
  <2>2. dc'[c].t = k /\ l.cut # {"client"}
    BY <1>5, <1>6, <1>9, <1>12
  <2>3. QED BY <1>6, <1>9, <1>12, <1>13, <2>1, <2>2 DEF LinkInv
<1>19. l.cut = link[c][k].cut
  BY <1>6
<1>20. QED
  BY <1>3, <1>5, <1>6, <1>7, <1>8, <1>10, <1>11, <1>12, <1>16, <1>17, <1>18, <1>19, LiveStep

-----------------------------------------------------------------------------
(* Steps of the daemon *)

\* A controller whose own transport is left alone notices nothing.
LEMMA SameTransport ==
    ASSUME NEW e \in Clients, exports' = exports, dc'[e] = dc[e], promised'[e] = promised[e],
           dc[e].t # 0 => /\ link'[e][dc[e].t] = link[e][dc[e].t]
                          /\ proxy'[e][dc[e].t] = proxy[e][dc[e].t],
           Live(e) /\ Watching(e, dc[e].t) => \A t \in Own(e) : Reading(t)' = Reading(t)
    PROVE  /\ Live(e)' = Live(e)
           /\ EarlyInv(e) => EarlyInv(e)'
           /\ AskedInv(e) => AskedInv(e)'
           /\ StoredInv(e) => StoredInv(e)'
<1>1. Live(e)' = Live(e)
  BY DEF Live
<1>2. dc[e].t # 0 => Watching(e, dc[e].t)' = Watching(e, dc[e].t)
  BY DEF Watching
<1>3. Own(e)' = Own(e)
  BY SameOwn
<1>4. CASE Live(e)
  <2>1. dc[e].t # 0
    BY <1>4 DEF Live
  <2>. DEFINE k == dc[e].t
  <2>2. /\ dc'[e].t = dc[e].t /\ link'[e][dc[e].t] = link[e][dc[e].t]
        /\ Watching(e, dc[e].t)' = Watching(e, dc[e].t)
    BY <1>2, <2>1
  <2>3. EarlyInv(e) => EarlyInv(e)'
    BY <1>1, <2>2 DEF EarlyInv
  <2>4. AskedInv(e) => AskedInv(e)'
    BY <1>1, <2>2 DEF AskedInv
  <2>5. StoredInv(e) => StoredInv(e)'
    BY <1>1, <1>3, <1>4, <2>2, SMTT(30) DEF StoredInv
  <2>6. QED BY <1>1, <2>3, <2>4, <2>5
<1>5. CASE ~Live(e)
  BY <1>1, <1>5 DEF EarlyInv, AskedInv, StoredInv
<1>6. QED BY <1>4, <1>5

LEMMA ServerTypes ==
    ASSUME Types, NEW c \in Clients, NEW k \in Links(c), NEW p \in Proxy(c),
           NEW l \in Link(c), ServerStep(c, k, p, l), UNCHANGED client,
           table' \in [Tables -> Table \cup {None}],
           handle' \in [Tables -> {"none", "invalid", "live", "dead"}],
           flagged' \subseteq {t \in Tables : handle'[t] # "none"},
           scheduled' \in BOOLEAN, up' = up, crashes' = crashes
    PROVE  Types'
<1>1. \A e \in Clients : /\ Own(e)' = Own(e) /\ Domctl(e)' = Domctl(e)
                         /\ Link(e)' = Link(e) /\ Proxy(e)' = Proxy(e)
  BY SameOwn DEF client
<1>2. /\ exports' = exports /\ dc' = dc /\ wanted' = wanted /\ promised' = promised
      /\ seen' = seen /\ broken' = broken
  BY DEF client
<1>3. /\ \A e \in Clients : \A j \in Links(e) : link[e][j] \in Link(e)
      /\ \A e \in Clients : \A j \in Links(e) : proxy[e][j] \in Proxy(e)
  BY DEF Types
<1>4. /\ \A e \in Clients : \A j \in Links(e) : link'[e][j] \in Link(e)
      /\ \A e \in Clients : \A j \in Links(e) : proxy'[e][j] \in Proxy(e)
  <2>1. /\ link'[c][k] = l /\ \A j \in Links(c) : j # k => link'[c][j] = link[c][j]
        /\ \A e \in Clients : e # c => link'[e] = link[e]
        /\ proxy'[c][k] = p /\ \A j \in Links(c) : j # k => proxy'[c][j] = proxy[c][j]
        /\ \A e \in Clients : e # c => proxy'[e] = proxy[e]
    BY ServerFrame
  <2>2. QED BY <1>3, <2>1
<1>5. /\ link' = [e \in Clients |-> [j \in Links(e) |-> link'[e][j]]]
      /\ proxy' = [e \in Clients |-> [j \in Links(e) |-> proxy'[e][j]]]
  BY ServerFrame
<1>6. /\ dc' = [e \in Clients |-> dc'[e]] /\ promised' = [e \in Clients |-> promised'[e]]
      /\ seen' = [e \in Clients |-> seen'[e]]
      /\ \A e \in Clients : dc'[e] \in Domctl(e)
      /\ \A e \in Clients : promised'[e] \in [Own(e) -> Contents]
      /\ \A e \in Clients : seen'[e] \in [Watches[e] -> Contents]
      /\ exports' \in Exports /\ wanted' \subseteq Clients /\ broken' \in BOOLEAN
      /\ up' \in BOOLEAN /\ crashes' \in Nat
  BY <1>2 DEF Types
<1>7. QED BY <1>1, <1>4, <1>5, <1>6 DEF Types, Table

LEMMA ServerKeeps ==
    ASSUME DomainInv, NEW c \in Clients, NEW k \in Links(c), NEW p \in Proxy(c),
           NEW l \in Link(c), ServerStep(c, k, p, l), UNCHANGED client,
           table' \in [Tables -> Table \cup {None}],
           handle' \in [Tables -> {"none", "invalid", "live", "dead"}],
           flagged' \subseteq {t \in Tables : handle'[t] # "none"},
           scheduled' \in BOOLEAN, up' = up, crashes' = crashes,
           LinkInv(c, k)', ~link[c][k].open => ~l.open,
           \A e \in Clients : Live(e) /\ Watching(e, dc[e].t) /\ ~(e = c /\ dc[e].t = k)
                                => \A t \in Own(e) : Reading(t)' = Reading(t),
           k = dc[c].t => /\ Live(c)' = Live(c)
                          /\ EarlyInv(c)' /\ AskedInv(c)' /\ StoredInv(c)',
           OwnerInv', HandleInv',
           \A e \in Clients : \A j \in Links(e) : ToldInv(e, j)'
    PROVE  DomainInv' /\ \A e \in Clients : Live(e)' = Live(e)
<1>1. Types /\ \A e \in Clients : ClientInv(e)
  BY DEF DomainInv
<1>2. Types'
  BY <1>1, ServerTypes
<1>3. /\ exports' = exports /\ dc' = dc /\ promised' = promised
  BY DEF client
<1>4. /\ link'[c][k] = l /\ \A j \in Links(c) : j # k => link'[c][j] = link[c][j]
      /\ \A e \in Clients : e # c => link'[e] = link[e]
      /\ proxy'[c][k] = p /\ \A j \in Links(c) : j # k => proxy'[c][j] = proxy[c][j]
      /\ \A e \in Clients : e # c => proxy'[e] = proxy[e]
  BY <1>1, ServerFrame
<1>5. ASSUME NEW e \in Clients
      PROVE  ClientInv(e)' /\ Live(e)' = Live(e)
  <2>1. ClientInv(e) /\ dc[e].t \in Links(e) \cup {0} /\ Own(e)' = Own(e)
        /\ Data(e)' = Data(e)
    BY <1>1, <1>3, PlaceIs, SameOwn DEF Domctl
  <2>2. \A j \in Links(e) : LinkInv(e, j)'
    <3>1. SUFFICES ASSUME NEW j \in Links(e), ~(e = c /\ j = k)
                   PROVE  LinkInv(e, j)'
      OBVIOUS
    <3>2. link'[e][j] = link[e][j] /\ proxy'[e][j] = proxy[e][j] /\ LinkInv(e, j)
      BY <1>4, <2>1, <3>1 DEF ClientInv
    <3>3. QED BY <1>3, <2>1, <3>2 DEF LinkInv
  <2>3. PendingInv(e)'
    BY <1>3, <2>1 DEF ClientInv, PendingInv, Numbered
  <2>4. Live(e)' = Live(e) /\ EarlyInv(e)' /\ AskedInv(e)' /\ StoredInv(e)'
    <3>1. CASE e = c /\ dc[e].t = k
      BY <3>1
    <3>2. CASE ~(e = c /\ dc[e].t = k)
      <4>1. dc[e].t # 0 => /\ link'[e][dc[e].t] = link[e][dc[e].t]
                           /\ proxy'[e][dc[e].t] = proxy[e][dc[e].t]
        BY <1>4, <2>1, <3>2
      <4>2. dc'[e] = dc[e] /\ promised'[e] = promised[e]
        BY <1>3
      <4>3. EarlyInv(e) /\ AskedInv(e) /\ StoredInv(e)
        BY <2>1 DEF ClientInv
      <4>4. Live(e) /\ Watching(e, dc[e].t) => \A t \in Own(e) : Reading(t)' = Reading(t)
        BY <3>2
      <4>5. QED BY <1>3, <4>1, <4>2, <4>3, <4>4, SameTransport
    <3>3. QED BY <3>1, <3>2
  <2>5. TimerInv(e)'
    <3>1. FreeLinks(e) \subseteq FreeLinks(e)'
      BY <1>4 DEF FreeLinks
    <3>2. QED BY <1>3, <2>1, <2>4, <3>1 DEF ClientInv, TimerInv
  <2>6. \A j \in Links(e) : ToldInv(e, j)'
    OBVIOUS
  <2>7. QED BY <2>2, <2>3, <2>4, <2>5, <2>6, Zenon DEF ClientInv
<1>6. \A e \in Clients : ClientInv(e)'
  BY <1>5
<1>7. QED BY <1>2, <1>5, <1>6 DEF DomainInv

LEMMA SamePlace ==
    ASSUME Types, NEW c \in Clients, NEW k \in Links(c)
    PROVE  link = [link EXCEPT ![c][k] = link[c][k]]
<1>1. link = [e \in Clients |-> [j \in Links(e) |-> link[e][j]]]
  BY DEF Types
<1>2. link[c] = [link[c] EXCEPT ![k] = link[c][k]]
  BY <1>1
<1>3. link = [link EXCEPT ![c] = link[c]]
  BY <1>1
<1>4. QED BY <1>2, <1>3

\* msg_connect_cb
LEMMA AcceptKeeps ==
    ASSUME DomainInv, NEW c \in Clients, NEW k \in Links(c), Accept(c, k)
    PROVE  DomainInv' /\ \A e \in Clients : Live(e)' = Live(e)
<1>. DEFINE p == [proxy[c][k] EXCEPT !.state = "accepted"]
            l == link[c][k]
<1>1. /\ Types /\ \A e \in Clients : ClientInv(e)
      /\ proxy[c][k] = NoProxy /\ up /\ l.open /\ "server" \notin l.cut
      /\ exports' = exports /\ dc' = dc /\ promised' = promised /\ seen' = seen
      /\ table' = table /\ handle' = handle /\ flagged' = flagged /\ scheduled' = scheduled
      /\ up' = up /\ crashes' = crashes /\ link' = link /\ UNCHANGED client
      /\ proxy' = [proxy EXCEPT ![c][k] = p]
  BY DEF DomainInv, Accept, client
<1>2. /\ p.state = "accepted" /\ p.tables = {} /\ p.fresh = FALSE
      /\ p \in Proxy(c) /\ l \in Link(c)
  <2>1. l \in Link(c) /\ proxy[c][k] \in Proxy(c)
    BY <1>1, PlaceIs
  <2>2. /\ p \in Proxy(c) /\ p.state = "accepted"
        /\ p.tables = proxy[c][k].tables /\ p.fresh = proxy[c][k].fresh
    BY <2>1 DEF Proxy
  <2>3. proxy[c][k].tables = {} /\ proxy[c][k].fresh = FALSE
    BY <1>1 DEF NoProxy
  <2>4. QED BY <2>1, <2>2, <2>3
<1>. HIDE DEF p, l
<1>3. ServerStep(c, k, p, l)
  BY <1>1, SamePlace DEF ServerStep, l
<1>4. /\ proxy'[c][k] = p /\ \A j \in Links(c) : j # k => proxy'[c][j] = proxy[c][j]
      /\ \A e \in Clients : e # c => proxy'[e] = proxy[e]
  <2>1. Types
    BY <1>1
  <2>2. QED BY <1>3, <2>1, ServerFrame
<1>5. /\ \A e \in Clients : \A j \in Links(e) : Watching(e, j)' = Watching(e, j)
      /\ \A e \in Clients : \A j \in Links(e) : proxy'[e][j].tables = proxy[e][j].tables
      /\ \A e \in Clients : \A j \in Links(e) : proxy'[e][j].fresh = proxy[e][j].fresh
  <2>1. /\ Watching(c, k)' = Watching(c, k)
        /\ proxy'[c][k].tables = proxy[c][k].tables
        /\ proxy'[c][k].fresh = proxy[c][k].fresh
    <3>1. proxy'[c][k] = p /\ proxy[c][k] = NoProxy
      BY <1>1, <1>4
    <3>2. p.state # "registered"
      BY <1>2
    <3>3. /\ NoProxy.state # "registered" /\ NoProxy.tables = {}
          /\ NoProxy.fresh = FALSE
      BY DEF NoProxy
    <3>4. Watching(c, k)' = FALSE /\ Watching(c, k) = FALSE
      BY <3>1, <3>2, <3>3 DEF Watching
    <3>5. QED BY <1>2, <3>1, <3>3, <3>4
  <2>2. \A e \in Clients : \A j \in Links(e) : ~(e = c /\ j = k) =>
          Watching(e, j)' = Watching(e, j) /\ proxy'[e][j] = proxy[e][j]
    BY <1>4 DEF Watching
  <2>3. QED BY <2>1, <2>2
<1>6. \A t : Reading(t)' = Reading(t)
  BY <1>1 DEF Reading
<1>7. LinkInv(c, k)'
  <2>1. LinkInv(c, k) /\ Own(c)' = Own(c)
    BY <1>1, SameOwn DEF ClientInv
  <2>2. QED BY <1>1, <1>2, <1>4, <2>1 DEF LinkInv, NoProxy, l
<1>8. \A e \in Clients : Live(e)' = Live(e)
  BY <1>1 DEF Live
<1>9. k = dc[c].t => EarlyInv(c)' /\ AskedInv(c)' /\ StoredInv(c)'
  <2>1. EarlyInv(c) /\ AskedInv(c) /\ StoredInv(c) /\ Own(c)' = Own(c)
    BY <1>1, SameOwn DEF ClientInv
  <2>2. k = dc[c].t => Watching(c, dc[c].t)' = Watching(c, dc[c].t)
    <3>1. k = dc[c].t => dc'[c].t = dc[c].t
      BY <1>1
    <3>2. QED BY <1>1, <1>5, <3>1 DEF Watching
  <2>3. k = dc[c].t => EarlyInv(c)'
    BY <1>1, <1>8, <2>1, <2>2 DEF EarlyInv
  <2>4. k = dc[c].t => AskedInv(c)'
    BY <1>1, <1>8, <2>1, <2>2 DEF AskedInv
  <2>5. ASSUME k = dc[c].t
        PROVE  StoredInv(c)'
    <3>1. /\ dc' = dc /\ link' = link /\ promised' = promised
          /\ Watching(c, k)' = Watching(c, k)
      BY <1>1, <1>5
    <3>2. (proxy'[c][dc'[c].t].state = "registered")
            = (proxy[c][dc[c].t].state = "registered")
      BY <2>5, <3>1 DEF Watching
    <3>3. QED BY <1>6, <1>8, <2>1, <3>1, <3>2, SMTT(30) DEF StoredInv, Watching
  <2>6. QED BY <2>3, <2>4, <2>5
<1>10. OwnerInv'
  BY <1>1, <1>5 DEF DomainInv, OwnerInv
<1>11. HandleInv'
  BY <1>1, <1>5 DEF DomainInv, HandleInv
<1>12. ASSUME NEW e \in Clients, NEW j \in Links(e)
       PROVE  ToldInv(e, j)'
  <2>1. LastTold(e, j)' = LastTold(e, j)
    BY <1>1, SameLast
  <2>2. Dead(e)' = Dead(e)
    BY <1>1 DEF Dead
  <2>3. ToldInv(e, j)
    BY <1>1 DEF ClientInv
  <2>4. QED BY <1>1, <1>5, <1>6, <2>1, <2>2, <2>3 DEF ToldInv
<1>13. /\ table \in [Tables -> Table \cup {None}]
       /\ handle \in [Tables -> {"none", "invalid", "live", "dead"}]
       /\ flagged \subseteq {t \in Tables : handle[t] # "none"}
       /\ scheduled \in BOOLEAN
  BY <1>1 DEF Types
<1>14. link[c][k].open => l.open
  BY DEF l
<1>15. /\ table' \in [Tables -> Table \cup {None}]
       /\ handle' \in [Tables -> {"none", "invalid", "live", "dead"}]
       /\ flagged' \subseteq {t \in Tables : handle'[t] # "none"}
       /\ scheduled' \in BOOLEAN
  BY <1>1, <1>13
<1>16. ~link[c][k].open => ~l.open
  BY DEF l
<1>17. QED BY <1>1, <1>2, <1>3, <1>6, <1>7, <1>8, <1>9, <1>10, <1>11, <1>12, <1>15, <1>16,
     ServerKeeps

\* The daemon takes a message and answers it.
LEMMA ServedIs ==
    ASSUME NEW c \in Clients, NEW b \in Link(c), b.up # <<>>, NEW m \in Answer
    PROVE  LET l == Down(TakeUp(b), m) IN
           /\ l \in Link(c) /\ l.open = b.open /\ l.cut = b.cut
           /\ l.up = Tail(b.up)
           /\ b.cut = {"client"} => l.down = b.down
           /\ "client" \notin b.cut => l.down = Append(b.down, m)
<1>. DEFINE u == TakeUp(b)
            q == Tail(b.up)
            a == Append(b.down, m)
            l == Down(u, m)
<1>1. q \in Seq(Up(c)) /\ a \in Seq(Answer \cup Notice(c)) /\ b.cut \in {{}, {"client"}, {"server"}}
  <2>1. /\ b.up \in Seq(Up(c)) /\ b.down \in Seq(Answer \cup Notice(c))
        /\ b.cut \in {{}, {"client"}, {"server"}}
    BY DEF Link
  <2>2. q \in Seq(Up(c))
    BY <2>1, TailIs
  <2>3. m \in Answer \cup Notice(c)
    OBVIOUS
  <2>4. a \in Seq(Answer \cup Notice(c))
    BY <2>1, <2>3, AppendIs
  <2>5. QED BY <2>1, <2>2, <2>4
<1>2. u = [b EXCEPT !.up = q]
  BY DEF TakeUp
<1>. HIDE DEF q, u
<1>3. /\ u \in Link(c) /\ u.open = b.open /\ u.cut = b.cut /\ u.up = q
      /\ u.down = b.down
  BY <1>1, <1>2 DEF Link
<1>4. CASE "client" \in b.cut
  <2>1. l = u
    BY <1>3, <1>4 DEF Down
  <2>2. QED BY <1>3, <1>4, <2>1 DEF l, q, u
<1>5. CASE "client" \notin b.cut
  <2>1. l = [u EXCEPT !.down = a]
    BY <1>3, <1>5 DEF Down
  <2>. HIDE DEF a, l
  <2>2. l \in Link(c) /\ l.open = b.open /\ l.cut = b.cut /\ l.up = q /\ l.down = a
    BY <1>1, <1>3, <2>1 DEF Link
  <2>3. b.cut # {"client"}
    BY <1>5
  <2>4. QED BY <1>5, <2>2, <2>3 DEF l, q, u, a
<1>6. QED BY <1>4, <1>5

\* Whom the daemon serves, and what it knows of the connection.
LEMMA ServedAt ==
    ASSUME DomainInv, NEW c \in Clients, NEW k \in Links(c),
           proxy[c][k] # NoProxy, link[c][k].up # <<>>
    PROVE  /\ link[c][k].open /\ link[c][k].cut \in {{}, {"client"}} /\ up
           /\ 1 \in DOMAIN link[c][k].up
           /\ Head(link[c][k].up) = link[c][k].up[1] /\ Head(link[c][k].up) \in Up(c)
           /\ proxy[c][k].state \in {"accepted", "registered"}
           /\ proxy[c][k].state = "accepted" =>
                link[c][k].up = <<Register>> /\ link[c][k].down = <<>>
           /\ Live(c) /\ k = dc[c].t => link[c][k].cut = {}
<1>. DEFINE b == link[c][k]
            p == proxy[c][k]
<1>1. b \in Link(c) /\ p \in Proxy(c) /\ LinkInv(c, k)
  BY PlaceIs DEF DomainInv, ClientInv
<1>2. b.open /\ b.cut # {"server"} /\ up
  BY <1>1 DEF LinkInv
<1>3. b.cut \in {{}, {"client"}}
  BY <1>1, <1>2 DEF Link
<1>4. 1 \in DOMAIN b.up /\ Head(b.up) = b.up[1] /\ Head(b.up) \in Up(c)
  <2>1. b.up \in Seq(Up(c))
    BY <1>1 DEF Link
  <2>2. QED BY <2>1, TailIs
<1>5. p.state # "none"
  <2>1. SUFFICES ASSUME p.state = "none"
                 PROVE  FALSE
    OBVIOUS
  <2>2. p.tables = {} /\ p.fresh = FALSE
    BY <1>1, <2>1 DEF LinkInv, Proxy
  <2>3. p = [state |-> p.state, tables |-> p.tables, fresh |-> p.fresh]
    BY <1>1 DEF Proxy
  <2>4. QED BY <2>1, <2>2, <2>3 DEF NoProxy
<1>6. p.state # "rejected"
  BY <1>1 DEF LinkInv
<1>7. p.state \in {"accepted", "registered"}
  BY <1>1, <1>5, <1>6 DEF Proxy
<1>8. p.state = "accepted" => b.up = <<Register>> /\ b.down = <<>>
  BY <1>1, <1>2 DEF LinkInv
<1>9. Live(c) /\ k = dc[c].t => b.cut = {}
  BY <1>3 DEF Live
<1>10. QED BY <1>2, <1>3, <1>4, <1>7, <1>8, <1>9

\* What the events of tables do to the entries of the watched ones.
LEMMA EventsAre ==
    ASSUME Types, NEW changed \in SUBSET Tables, NEW kind \in {"live", "dead"},
           NEW entries \in SUBSET Tables, \A t \in entries : handle[t] = "none",
           TableEvents(changed, kind, entries)
    PROVE  /\ handle' \in [Tables -> {"none", "invalid", "live", "dead"}]
           /\ flagged' \subseteq {t \in Tables : handle'[t] # "none"}
           /\ flagged \subseteq flagged'
           /\ \A t \in changed : handle[t] # "none" => handle'[t] = kind /\ t \in flagged'
           /\ \A t \in entries : /\ t \notin flagged'
                                 /\ handle'[t] = IF table'[t] = None THEN "invalid" ELSE "live"
           /\ \A t \in Tables :
                handle[t] = "none" \/ t \notin changed =>
                  /\ t \notin entries => handle'[t] = handle[t]
                  /\ t \in flagged' => t \in flagged
<1>1. /\ handle' = [t \in Tables |-> IF t \in changed /\ handle[t] # "none" THEN kind
                                     ELSE IF t \in entries THEN
                                       IF table'[t] = None THEN "invalid" ELSE "live"
                                     ELSE handle[t]]
      /\ flagged' = flagged \cup {t \in changed : handle[t] # "none"}
  BY DEF TableEvents
<1>2. /\ handle \in [Tables -> {"none", "invalid", "live", "dead"}]
      /\ flagged \subseteq {t \in Tables : handle[t] # "none"}
  BY DEF Types
<1>3. \A t \in Tables : handle'[t] = IF t \in changed /\ handle[t] # "none" THEN kind
                                     ELSE IF t \in entries THEN
                                       IF table'[t] = None THEN "invalid" ELSE "live"
                                     ELSE handle[t]
  BY <1>1
<1>4. handle' \in [Tables -> {"none", "invalid", "live", "dead"}]
  <2>1. \A t \in Tables : handle'[t] \in {"none", "invalid", "live", "dead"}
    BY <1>2, <1>3
  <2>2. handle' = [t \in Tables |-> handle'[t]]
    BY <1>1
  <2>3. QED BY <2>1, <2>2
<1>5. flagged' \subseteq {t \in Tables : handle'[t] # "none"}
  BY <1>1, <1>2, <1>3
<1>6. \A t \in entries : /\ t \notin flagged'
                         /\ handle'[t] = IF table'[t] = None THEN "invalid" ELSE "live"
  BY <1>1, <1>2, <1>3
<1>7. QED BY <1>1, <1>2, <1>3, <1>4, <1>5, <1>6

\* The tables a registration makes did not exist.
LEMMA MadeIs ==
    ASSUME Types, NEW c \in Clients
    PROVE  /\ Made(c) \subseteq Own(c) /\ Own(c) \subseteq Tables
           /\ \A t \in Made(c) : table[t] = None
<1>1. exports[c] \in Seq(Tables) /\ Own(c) \subseteq Tables
  BY OwnTables DEF Types
<1>2. \A t \in Made(c) : t \in Own(c) /\ table[t] = None
  <2>1. SUFFICES ASSUME NEW i \in DOMAIN exports[c],
                        \A j \in 1..i : table[exports[c][j]] = None
                 PROVE  exports[c][i] \in Own(c) /\ table[exports[c][i]] = None
    BY DEF Made
  <2>2. exports[c][i] \in Own(c)
    BY DEF Own, ToSet
  <2>3. i \in 1..i
    BY <1>1
  <2>4. QED BY <2>1, <2>2, <2>3
<1>3. QED BY <1>1, <1>2

\* What a registration makes of the tables, the entries and the proxy.
RegisterStep(c, k, made, ok, l) ==
    LET p == [state |-> IF ok THEN "registered" ELSE "rejected", tables |-> made, fresh |-> ok]
    IN
    /\ made \subseteq Own(c) /\ Own(c) \subseteq Tables /\ \A t \in made : table[t] = None
    /\ ok \in BOOLEAN /\ (ok => made = Own(c))
    /\ ServerStep(c, k, p, l) /\ p \in Proxy(c)
    /\ l \in Link(c) /\ l.open /\ l.up = <<>> /\ l.cut = link[c][k].cut
    /\ l.down = IF l.cut = {"client"} THEN <<>> ELSE IF ok THEN <<Ack(0)>> ELSE <<Nak(0)>>
    /\ table' = [t \in Tables |-> IF t \in made THEN [owner |-> <<c, k>>, data |-> Empty]
                                  ELSE table[t]]
    /\ TableEvents(made, "live", IF ok THEN {t \in Watches[c] : handle[t] = "none"} ELSE {})
    /\ scheduled' = (scheduled \/ ok \/ made # {})
    /\ proxy[c][k].state = "accepted" /\ link[c][k].cut \in {{}, {"client"}} /\ up

LEMMA RegisterIs ==
    ASSUME DomainInv, NEW c \in Clients, NEW k \in Links(c),
           proxy[c][k] # NoProxy, link[c][k].up # <<>>, ServeRegister(c, k)
    PROVE  \E made, ok, l : RegisterStep(c, k, made, ok, l)
<1>. DEFINE b == link[c][k]
            made == Made(c)
            ok == made = Own(c)
            m == IF ok THEN Ack(0) ELSE Nak(0)
            l == Down(TakeUp(b), m)
            p == [state |-> IF ok THEN "registered" ELSE "rejected",
                  tables |-> made, fresh |-> ok]
<1>1. /\ b.open /\ b.cut \in {{}, {"client"}} /\ up
      /\ 1 \in DOMAIN b.up /\ Head(b.up) = b.up[1]
      /\ proxy[c][k].state \in {"accepted", "registered"}
      /\ proxy[c][k].state = "accepted" => b.up = <<Register>> /\ b.down = <<>>
      /\ LinkInv(c, k) /\ Types /\ b \in Link(c)
  BY ServedAt, PlaceIs DEF DomainInv, ClientInv
<1>2. proxy[c][k].state = "accepted" /\ b.up = <<Register>> /\ b.down = <<>>
  <2>1. b.up[1].type = "register"
    BY <1>1 DEF ServeRegister
  <2>2. QED BY <1>1, <2>1 DEF LinkInv
<1>3. m \in Answer /\ Ack(0) \in Answer /\ Nak(0) \in Answer
  BY DEF Ack, Nak, Answer
<1>4. /\ l \in Link(c) /\ l.open = b.open /\ l.cut = b.cut /\ l.up = Tail(b.up)
      /\ b.cut = {"client"} => l.down = b.down
      /\ "client" \notin b.cut => l.down = Append(b.down, m)
  <2>1. b.up # <<>>
    OBVIOUS
  <2>. HIDE DEF m, b
  <2>2. QED BY <1>1, <1>3, <2>1, ServedIs
<1>5. Tail(<<Register>>) = <<>> /\ \A x : Append(<<>>, x) = <<x>>
  OBVIOUS
<1>6. made \subseteq Own(c) /\ Own(c) \subseteq Tables /\ \A t \in made : table[t] = None
  BY <1>1, MadeIs
<1>7. /\ table' = [t \in Tables |-> IF t \in made THEN [owner |-> <<c, k>>, data |-> Empty]
                                    ELSE table[t]]
      /\ TableEvents(made, "live", IF ok THEN {t \in Watches[c] : handle[t] = "none"} ELSE {})
      /\ scheduled' = (scheduled \/ ok \/ made # {})
      /\ ServerStep(c, k, p, l)
  BY DEF ServeRegister, ServerStep
<1>. HIDE DEF made
<1>8. p \in Proxy(c)
  BY <1>6 DEF Proxy
<1>9. ok \in BOOLEAN /\ (ok => made = Own(c))
  OBVIOUS
<1>. HIDE DEF ok
<1>10. l.down = IF l.cut = {"client"} THEN <<>> ELSE IF ok THEN <<Ack(0)>> ELSE <<Nak(0)>>
  BY <1>1, <1>2, <1>4, <1>5
<1>11. l.up = <<>>
  BY <1>2, <1>4, <1>5
<1>. HIDE DEF l
<1>12. RegisterStep(c, k, made, ok, l)
  BY <1>1, <1>2, <1>4, <1>6, <1>7, <1>8, <1>9, <1>10, <1>11 DEF RegisterStep
<1>13. QED BY <1>12

\* process_register
LEMMA RegisterKeeps ==
    ASSUME DomainInv, NEW c \in Clients, NEW k \in Links(c),
           proxy[c][k] # NoProxy, link[c][k].up # <<>>, ServeRegister(c, k),
           UNCHANGED <<client, up, crashes>>
    PROVE  DomainInv' /\ \A e \in Clients : Live(e)' = Live(e)
<1>1. PICK made, ok, l : RegisterStep(c, k, made, ok, l)
  BY RegisterIs
<1>. DEFINE p == [state |-> IF ok THEN "registered" ELSE "rejected",
                  tables |-> made, fresh |-> ok]
            entries == IF ok THEN {t \in Watches[c] : handle[t] = "none"} ELSE {}
            b == link[c][k]
<1>2. /\ made \subseteq Own(c) /\ Own(c) \subseteq Tables /\ \A t \in made : table[t] = None
      /\ ok \in BOOLEAN /\ (ok => made = Own(c))
      /\ ServerStep(c, k, p, l) /\ p \in Proxy(c)
      /\ l \in Link(c) /\ l.open /\ l.up = <<>> /\ l.cut = b.cut
      /\ l.down = IF l.cut = {"client"} THEN <<>> ELSE IF ok THEN <<Ack(0)>> ELSE <<Nak(0)>>
      /\ table' = [t \in Tables |-> IF t \in made THEN [owner |-> <<c, k>>, data |-> Empty]
                                    ELSE table[t]]
      /\ TableEvents(made, "live", entries)
      /\ scheduled' = (scheduled \/ ok \/ made # {})
      /\ proxy[c][k].state = "accepted" /\ b.cut \in {{}, {"client"}} /\ up
  BY <1>1 DEF RegisterStep
<1>3. /\ p.state = (IF ok THEN "registered" ELSE "rejected")
      /\ p.tables = made /\ p.fresh = ok
  OBVIOUS
<1>. HIDE DEF p
<1>4. /\ Types /\ \A e \in Clients : ClientInv(e)
      /\ exports' = exports /\ dc' = dc /\ promised' = promised /\ seen' = seen
      /\ up' = up /\ crashes' = crashes /\ UNCHANGED client
      /\ Own(c)' = Own(c)
  BY SameOwn DEF DomainInv, client
<1>5. /\ proxy'[c][k] = p /\ \A j \in Links(c) : j # k => proxy'[c][j] = proxy[c][j]
      /\ \A e \in Clients : e # c => proxy'[e] = proxy[e]
      /\ link'[c][k] = l /\ \A j \in Links(c) : j # k => link'[c][j] = link[c][j]
      /\ \A e \in Clients : e # c => link'[e] = link[e]
  BY <1>2, <1>4, ServerFrame
<1>6. \A e \in Clients : \A j \in Links(e) : ~(e = c /\ j = k) =>
        proxy'[e][j] = proxy[e][j] /\ link'[e][j] = link[e][j]
  BY <1>5
<1>7. /\ \A t \in made : t \in Tables /\ table'[t] = [owner |-> <<c, k>>, data |-> Empty]
      /\ \A t \in Tables : t \notin made => table'[t] = table[t]
  BY <1>2
<1>8. /\ <<c, k>> \in Clients \X Nat /\ [owner |-> <<c, k>>, data |-> Empty] \in Table
      /\ [owner |-> <<c, k>>, data |-> Empty] # None
      /\ [owner |-> <<c, k>>, data |-> Empty].owner = <<c, k>>
      /\ [owner |-> <<c, k>>, data |-> Empty].data = Empty
  <2>1. k \in Nat
    BY DomainAssumption DEF Links
  <2>2. QED BY <2>1, DomainAssumption DEF Table, Contents
<1>9. \A t \in Tables : Reading(t)' = Reading(t)
  <2>1. ASSUME NEW t \in Tables
        PROVE  Reading(t)' = Reading(t)
    <3>1. CASE t \in made
      <4>1. Reading(t) = Empty
        BY <1>2, <3>1 DEF Reading
      <4>2. Reading(t)' = Empty
        BY <1>7, <1>8, <3>1 DEF Reading
      <4>3. QED BY <4>1, <4>2
    <3>2. CASE t \notin made
      BY <1>7, <3>2 DEF Reading
    <3>3. QED BY <3>1, <3>2
  <2>2. QED BY <2>1
<1>10. /\ handle' \in [Tables -> {"none", "invalid", "live", "dead"}]
       /\ flagged' \subseteq {t \in Tables : handle'[t] # "none"}
       /\ flagged \subseteq flagged'
       /\ \A t \in made : handle[t] # "none" => handle'[t] = "live" /\ t \in flagged'
       /\ \A t \in entries : /\ t \notin flagged'
                             /\ handle'[t] = IF table'[t] = None THEN "invalid" ELSE "live"
       /\ \A t \in Tables :
            handle[t] = "none" \/ t \notin made =>
              /\ t \notin entries => handle'[t] = handle[t]
              /\ t \in flagged' => t \in flagged
  <2>1. made \in SUBSET Tables /\ entries \in SUBSET Tables
    BY <1>2, DomainAssumption
  <2>2. \A t \in entries : handle[t] = "none"
    OBVIOUS
  <2>. HIDE DEF entries
  <2>3. Types /\ TableEvents(made, "live", entries)
    BY <1>2, <1>4
  <2>4. QED BY <2>1, <2>2, <2>3, EventsAre
<1>11. Watching(c, k)' = ok /\ ~Watching(c, k)
  BY <1>2, <1>3, <1>5 DEF Watching
<1>12. \A e \in Clients : \A j \in Links(e) : ~(e = c /\ j = k) =>
         Watching(e, j)' = Watching(e, j)
  BY <1>6 DEF Watching
<1>13. proxy[c][k].tables = {} /\ LinkInv(c, k)
  <2>1. LinkInv(c, k)
    BY <1>4 DEF ClientInv
  <2>2. QED BY <1>2, <2>1 DEF LinkInv
<1>14. LinkInv(c, k)'
  BY <1>2, <1>3, <1>4, <1>5, <1>13 DEF LinkInv
<1>15. OwnerInv'
  <2>1. \A t \in Tables : table'[t] # None =>
          \E e \in Clients : \E j \in Links(e) :
            table'[t].owner = <<e, j>> /\ t \in proxy'[e][j].tables
    <3>1. SUFFICES ASSUME NEW t \in Tables, table'[t] # None
                   PROVE  \E e \in Clients : \E j \in Links(e) :
                            table'[t].owner = <<e, j>> /\ t \in proxy'[e][j].tables
      OBVIOUS
    <3>2. CASE t \in made
      BY <1>3, <1>5, <1>7, <1>8, <3>2
    <3>3. CASE t \notin made
      <4>1. table'[t] = table[t]
        BY <1>7, <3>3
      <4>2. PICK e \in Clients : \E j \in Links(e) :
              table[t].owner = <<e, j>> /\ t \in proxy[e][j].tables
        BY <3>1, <4>1 DEF DomainInv, OwnerInv
      <4>3. PICK j \in Links(e) : table[t].owner = <<e, j>> /\ t \in proxy[e][j].tables
        BY <4>2
      <4>4. ~(e = c /\ j = k)
        BY <1>13, <4>3
      <4>5. QED BY <1>6, <4>1, <4>3, <4>4
    <3>4. QED BY <3>2, <3>3
  <2>2. \A e \in Clients : \A j \in Links(e) : \A t \in proxy'[e][j].tables :
          table'[t] # None /\ table'[t].owner = <<e, j>>
    <3>1. SUFFICES ASSUME NEW e \in Clients, NEW j \in Links(e), ~(e = c /\ j = k),
                          NEW t \in proxy[e][j].tables
                   PROVE  table'[t] # None /\ table'[t].owner = <<e, j>>
      BY <1>3, <1>5, <1>6, <1>7, <1>8
    <3>2. table[t] # None /\ table[t].owner = <<e, j>>
      BY <3>1 DEF DomainInv, OwnerInv
    <3>3. t \in Tables
      BY <1>4, PlaceIs, OwnTables DEF Proxy, Types
    <3>4. QED BY <1>2, <1>7, <3>2, <3>3
  <2>3. QED BY <2>1, <2>2 DEF OwnerInv
<1>16. HandleInv'
  <2>1. /\ \A t \in Tables : handle[t] = "invalid" => t \notin flagged /\ table[t] = None
        /\ \A e \in Clients : \A j \in Links(e) : Watching(e, j) =>
             \A t \in Watches[e] : handle[t] # "none"
    BY DEF DomainInv, HandleInv
  <2>2. ASSUME NEW t \in Tables, handle'[t] = "invalid"
        PROVE  t \notin flagged' /\ table'[t] = None
    <3>1. CASE t \in entries
      BY <1>10, <2>2, <3>1
    <3>2. CASE t \notin entries /\ t \in made
      BY <1>10, <2>2, <3>2
    <3>3. CASE t \notin entries /\ t \notin made
      BY <1>7, <1>10, <2>1, <2>2, <3>3
    <3>4. QED BY <3>1, <3>2, <3>3
  <2>3. ASSUME NEW t \in Tables, handle[t] # "none"
        PROVE  handle'[t] # "none"
    <3>1. t \notin entries
      BY <2>3
    <3>2. QED BY <1>10, <2>3, <3>1
  <2>4. ASSUME ok, NEW t \in Watches[c], t \in Tables
        PROVE  handle'[t] # "none"
    <3>1. CASE handle[t] = "none"
      BY <1>10, <2>4, <3>1
    <3>2. QED BY <2>3, <2>4, <3>1
  <2>5. \A e \in Clients : \A t \in Watches[e] : t \in Tables
    BY DomainAssumption
  <2>6. \A e \in Clients : \A j \in Links(e) : Watching(e, j)' =>
          \A t \in Watches[e] : handle'[t] # "none"
    BY <1>11, <1>12, <2>1, <2>3, <2>4, <2>5
  <2>7. QED BY <2>2, <2>6 DEF HandleInv
<1>17. ASSUME NEW e \in Clients, NEW j \in Links(e)
       PROVE  ToldInv(e, j)'
  <2>1. CASE e = c /\ j = k
    <3>1. ok => scheduled' /\ proxy'[e][j].fresh
      BY <1>2, <1>3, <1>5, <2>1
    <3>2. QED BY <1>11, <2>1, <3>1 DEF ToldInv
  <2>2. CASE ~(e = c /\ j = k)
    <3>1. /\ proxy'[e][j] = proxy[e][j] /\ link'[e][j] = link[e][j] /\ seen'[e] = seen[e]
          /\ Watching(e, j)' = Watching(e, j) /\ ToldInv(e, j)
      BY <1>4, <1>6, <1>12, <2>2 DEF ClientInv
    <3>2. LastTold(e, j)' = LastTold(e, j)
      BY <3>1, SameLast
    <3>3. SUFFICES ASSUME Watching(e, j), link[e][j].cut = {}
                   PROVE  IF proxy[e][j].fresh
                          THEN ~scheduled' => Watches[e] = {} \/ Dead(e)'
                          ELSE \A t \in Watches[e] :
                                 /\ handle'[t] = "dead" => t \in flagged'
                                 /\ handle'[t] = "invalid" => LastTold(e, j)[t] = Empty
                                 /\ ~scheduled' => LastTold(e, j)[t] = Reading(t)'
      BY <3>1, <3>2 DEF ToldInv
    <3>4. \A t \in Watches[e] : t \in Tables /\ handle[t] # "none"
      BY <3>3, DomainAssumption DEF DomainInv, HandleInv
    <3>5. CASE proxy[e][j].fresh
      <4>1. SUFFICES ASSUME ~scheduled'
                     PROVE  Watches[e] = {} \/ Dead(e)'
        BY <3>5
      <4>2. ~scheduled /\ made = {} /\ ~ok
        BY <1>2, <4>1
      <4>3. Watches[e] = {} \/ Dead(e)
        BY <3>1, <3>3, <3>5, <4>2 DEF ToldInv
      <4>4. \A t \in Watches[e] : handle'[t] = handle[t]
        BY <1>10, <3>4, <4>2
      <4>5. QED BY <4>3, <4>4 DEF Dead
    <3>6. CASE ~proxy[e][j].fresh
      <4>1. SUFFICES ASSUME NEW t \in Watches[e]
                     PROVE  /\ handle'[t] = "dead" => t \in flagged'
                            /\ handle'[t] = "invalid" => LastTold(e, j)[t] = Empty
                            /\ ~scheduled' => LastTold(e, j)[t] = Reading(t)'
        BY <3>6
      <4>2. /\ handle[t] = "dead" => t \in flagged
            /\ handle[t] = "invalid" => LastTold(e, j)[t] = Empty
            /\ ~scheduled => LastTold(e, j)[t] = Reading(t)
        BY <3>1, <3>3, <3>6 DEF ToldInv
      <4>3. t \notin entries /\ t \in Tables /\ handle[t] # "none"
        BY <3>4
      <4>4. handle'[t] \in {handle[t], "live"}
        BY <1>10, <4>3
      <4>5. QED BY <1>2, <1>9, <1>10, <4>2, <4>3, <4>4
    <3>7. QED BY <3>5, <3>6
  <2>3. QED BY <2>1, <2>2
<1>18. \A e \in Clients : Live(e)' = Live(e)
  <2>1. ASSUME NEW e \in Clients
        PROVE  Live(e)' = Live(e)
    <3>1. dc[e].t \in Links(e) \cup {0}
      BY <1>4, PlaceIs DEF Domctl
    <3>2. CASE e = c /\ dc[e].t = k
      <4>1. b.open
        BY <1>2, <1>13 DEF LinkInv, NoProxy
      <4>2. QED BY <1>2, <1>4, <1>5, <3>2, <4>1 DEF Live
    <3>3. CASE ~(e = c /\ dc[e].t = k)
      BY <1>4, <1>6, <3>1, <3>3 DEF Live
    <3>4. QED BY <3>2, <3>3
  <2>2. QED BY <2>1
<1>19. ASSUME k = dc[c].t
       PROVE  EarlyInv(c)' /\ AskedInv(c)' /\ StoredInv(c)'
  <2>1. /\ dc'[c] = dc[c] /\ link'[c][dc'[c].t] = l /\ Live(c)' = Live(c)
        /\ (proxy'[c][dc'[c].t].state = "registered") = ok
    <3>1. dc'[c].t = k
      BY <1>4, <1>19
    <3>2. proxy'[c][dc'[c].t] = p
      BY <1>5, <3>1
    <3>3. QED BY <1>2, <1>3, <1>4, <1>5, <1>18, <3>1, <3>2
  <2>2. EarlyInv(c) /\ AskedInv(c)
    BY <1>4 DEF ClientInv
  <2>3. ~dc[c].connected
    <3>1. Live(c) => b.cut = {}
      BY <1>2, <1>19 DEF Live
    <3>2. QED BY <1>11, <1>19, <2>2, <3>1 DEF AskedInv
  <2>4. /\ DOMAIN l.up = {} /\ DOMAIN l.down \subseteq {1}
        /\ Live(c) => l.down # <<>>
        /\ l.down # <<>> => l.down[1].seq = 0 /\ 1 \in DOMAIN l.down
        /\ l.down # <<>> => (l.down[1].type = "ack" <=> ok)
        /\ \A i \in DOMAIN l.down : l.down # <<>>
    <3>1. Live(c) => l.cut = {}
      BY <1>2, <1>19 DEF Live
    <3>2. l.down \in {<<>>, <<Ack(0)>>, <<Nak(0)>>} /\ (l.cut = {} => l.down # <<>>)
          /\ (l.down = <<Ack(0)>> => ok) /\ (l.down = <<Nak(0)>> => ~ok)
      <4>1. l.down = IF l.cut = {"client"} THEN <<>> ELSE IF ok THEN <<Ack(0)>> ELSE <<Nak(0)>>
        BY <1>2
      <4>2. /\ <<Ack(0)>> # <<>> /\ <<Nak(0)>> # <<>>
            /\ <<Ack(0)>> # <<Nak(0)>>
        <5>1. <<Ack(0)>>[1] # <<Nak(0)>>[1]
          BY DEF Ack, Nak
        <5>2. QED BY <5>1
      <4>3. QED BY <4>1, <4>2
    <3>3. /\ DOMAIN <<>> = {} /\ DOMAIN <<Ack(0)>> = {1} /\ DOMAIN <<Nak(0)>> = {1}
          /\ <<Ack(0)>>[1].seq = 0 /\ <<Nak(0)>>[1].seq = 0
          /\ <<Ack(0)>>[1].type = "ack" /\ <<Nak(0)>>[1].type = "nak"
      BY DEF Ack, Nak
    <3>4. QED BY <1>2, <3>1, <3>2, <3>3
  <2>5. EarlyInv(c)'
    <3>1. Live(c) => EarlyOn(dc[c], l)
      <4>1. SUFFICES ASSUME Live(c)
                     PROVE  EarlyOn(dc[c], l)
        OBVIOUS
      <4>2. \A i \in DOMAIN dc[c].pending : dc[c].pending[i].link = 0
        BY <2>2, <2>3, <4>1 DEF EarlyInv, EarlyOn
      <4>3. QED BY <2>4, <4>2 DEF EarlyOn
    <3>2. QED BY <2>1, <2>4, <3>1 DEF EarlyInv, Watching
  <2>6. AskedInv(c)'
    BY <2>1, <2>3 DEF AskedInv
  <2>7. StoredInv(c)'
    <3>1. SUFFICES ASSUME Live(c), ok
                   PROVE  StoredInv(c)'
      BY <2>1 DEF StoredInv, Watching
    <3>2. \A t \in Own(c) : Reading(t)' = Empty
      BY <1>2, <1>7, <1>8, <3>1 DEF Reading
    <3>3. \A i \in DOMAIN dc[c].pending : dc[c].pending[i].seq # 0
      <4>1. dc[c].pending \in Seq(Request(c))
        BY <1>4, PlaceIs DEF Domctl
      <4>2. \A i \in DOMAIN dc[c].pending : dc[c].pending[i] \in Request(c)
        BY <4>1
      <4>3. QED BY <4>2 DEF Request
    <3>4. \A i \in DOMAIN l.down : l.down[i].type = "ack" /\ l.down[i].seq = 0
      BY <2>4, <3>1
    <3>5. 1 \in DOMAIN l.down
      BY <2>4, <3>1
    <3>6. QED BY <1>4, <2>1, <2>3, <3>2, <3>3, <3>4, <3>5 DEF StoredInv
  <2>8. QED BY <2>5, <2>6, <2>7
<1>20. /\ table' \in [Tables -> Table \cup {None}]
       /\ scheduled' \in BOOLEAN
  <2>1. table \in [Tables -> Table \cup {None}] /\ scheduled \in BOOLEAN
    BY <1>4 DEF Types
  <2>2. QED BY <1>2, <1>8, <2>1
<1>21. \A e \in Clients : Live(e) /\ Watching(e, dc[e].t) /\ ~(e = c /\ dc[e].t = k)
                            => \A t \in Own(e) : Reading(t)' = Reading(t)
  <2>1. \A e \in Clients : Own(e) \subseteq Tables
    BY <1>4, OwnTables DEF Types
  <2>2. QED BY <1>9, <2>1
<1>. HIDE DEF entries, b
<1>22. /\ handle' \in [Tables -> {"none", "invalid", "live", "dead"}]
       /\ flagged' \subseteq {t \in Tables : handle'[t] # "none"}
  BY <1>10
<1>23. l \in Link(c) /\ p \in Proxy(c) /\ ServerStep(c, k, p, l) /\ l.open
  BY <1>2
<1>24. k = dc[c].t => Live(c)' = Live(c) /\ EarlyInv(c)' /\ AskedInv(c)' /\ StoredInv(c)'
  BY <1>18, <1>19
<1>25. \A e \in Clients : \A j \in Links(e) : ToldInv(e, j)'
  BY <1>17
<1>26. ~link[c][k].open => ~l.open
  BY <1>2, <1>13 DEF LinkInv, NoProxy, b
<1>27. QED
  BY <1>26, <1>4, <1>14, <1>15, <1>16, <1>20, <1>21, <1>22, <1>23, <1>24, <1>25, ServerKeeps

\* Where the messages are after the daemon has taken one and answered it.
LEMMA ServedPlaces ==
    ASSUME NEW c \in Clients, NEW b \in Link(c), b.up # <<>>, "client" \notin b.cut,
           NEW m \in Answer
    PROVE  LET l == Down(TakeUp(b), m)
               n == Len(b.down) + 1 IN
           /\ DOMAIN l.up \subseteq Nat /\ 1 \in DOMAIN b.up /\ Head(b.up) = b.up[1]
           /\ \A i \in DOMAIN l.up : i + 1 \in DOMAIN b.up /\ l.up[i] = b.up[i + 1] /\ i >= 1
           /\ \A i \in DOMAIN b.up : i # 1 => i - 1 \in DOMAIN l.up /\ b.up[i] = l.up[i - 1]
           /\ DOMAIN b.up \subseteq Nat
           /\ n \in DOMAIN l.down /\ l.down[n] = m /\ n \in Nat /\ n \notin DOMAIN b.down
           /\ \A i \in DOMAIN l.down : i = n \/ i \in DOMAIN b.down
           /\ \A i \in DOMAIN b.down :
                i \in Nat /\ i < n /\ i \in DOMAIN l.down /\ l.down[i] = b.down[i]
<1>. DEFINE l == Down(TakeUp(b), m)
            n == Len(b.down) + 1
<1>1. /\ b.up \in Seq(Up(c)) /\ b.down \in Seq(Answer \cup Notice(c))
      /\ m \in Answer \cup Notice(c)
  BY DEF Link
<1>2. l.up = Tail(b.up) /\ l.down = Append(b.down, m)
  BY ServedIs
<1>. HIDE DEF l
<1>. DEFINE q == b.down
            r == b.up
<1>3. q \in Seq(Answer \cup Notice(c)) /\ r \in Seq(Up(c)) /\ r # <<>>
  BY <1>1
<1>. HIDE DEF q, r
<1>4. /\ DOMAIN Tail(r) \subseteq Nat /\ 1 \in DOMAIN r /\ Head(r) = r[1]
      /\ \A i \in DOMAIN Tail(r) : i + 1 \in DOMAIN r /\ Tail(r)[i] = r[i + 1] /\ i >= 1
      /\ \A i \in DOMAIN r : i # 1 => i - 1 \in DOMAIN Tail(r) /\ r[i] = Tail(r)[i - 1]
      /\ DOMAIN r \subseteq Nat
  <2>1. /\ Len(r) \in Nat \ {0} /\ DOMAIN r = 1..Len(r) /\ DOMAIN Tail(r) = 1..(Len(r) - 1)
        /\ Head(r) = r[1]
        /\ \A i \in DOMAIN Tail(r) : Tail(r)[i] = r[i + 1]
    BY <1>3, TailIs
  <2>2. QED BY <2>1
<1>5. /\ Len(q) + 1 \in DOMAIN Append(q, m) /\ Append(q, m)[Len(q) + 1] = m
      /\ Len(q) + 1 \in Nat /\ Len(q) + 1 \notin DOMAIN q
      /\ \A i \in DOMAIN Append(q, m) : i = Len(q) + 1 \/ i \in DOMAIN q
      /\ \A i \in DOMAIN q :
           i \in Nat /\ i < Len(q) + 1 /\ i \in DOMAIN Append(q, m) /\ Append(q, m)[i] = q[i]
  <2>1. /\ DOMAIN Append(q, m) = 1..(Len(q) + 1)
        /\ DOMAIN q = 1..Len(q) /\ Len(q) \in Nat
        /\ \A i \in DOMAIN q : Append(q, m)[i] = q[i]
        /\ Append(q, m)[Len(q) + 1] = m
    BY <1>1, <1>3, AppendIs
  <2>2. QED BY <2>1
<1>6. QED BY <1>2, <1>4, <1>5 DEF q, r, l

LEMMA ServedLast ==
    ASSUME NEW c \in Clients, NEW k, link[c][k] \in Link(c), link[c][k].up # <<>>,
           "client" \notin link[c][k].cut, NEW m \in Answer,
           link'[c][k] = Down(TakeUp(link[c][k]), m), seen'[c] = seen[c]
    PROVE  LastTold(c, k)' = LastTold(c, k)
<1>. DEFINE q == link[c][k].down
            r == link'[c][k].down
            before == {i \in DOMAIN q : q[i].type = "notify"}
            after == {i \in DOMAIN r : r[i].type = "notify"}
            n == Len(q) + 1
<1>1. /\ n \in DOMAIN r /\ r[n] = m /\ n \in Nat /\ n \notin DOMAIN q
      /\ \A i \in DOMAIN r : i = n \/ i \in DOMAIN q
      /\ \A i \in DOMAIN q : i \in Nat /\ i < n /\ i \in DOMAIN r /\ r[i] = q[i]
  BY ServedPlaces
<1>2. q \in Seq(Answer \cup Notice(c))
  BY DEF Link
<1>3. /\ LastTold(c, k) = IF before = {} THEN seen[c] ELSE q[Max(before)].told
      /\ LastTold(c, k)' = IF after = {} THEN seen'[c] ELSE r[Max(after)].told
  BY DEF LastTold
<1>. HIDE DEF q, r, n
<1>4. after = before
  <2>1. m.type # "notify"
    BY DEF Answer
  <2>2. QED BY <1>1, <2>1
<1>5. before # {} => Max(before) \in before
  <2>1. before \in SUBSET (1..Len(q)) /\ Len(q) \in Nat
    BY <1>2
  <2>. HIDE DEF before
  <2>2. QED BY <2>1, Greatest
<1>6. before # {} => r[Max(before)] = q[Max(before)]
  BY <1>1, <1>5
<1>. HIDE DEF before, after
<1>7. QED BY <1>3, <1>4, <1>6

\* The answer takes the place of the request.
LEMMA ServedAsked ==
    ASSUME NEW c \in Clients, NEW b \in Link(c), b.up # <<>>, b.cut = {}, NEW d,
           AskedOn(d, b), NEW m \in Answer, m.seq = b.up[1].seq,
           m.type = "ack" => \A t \in DOMAIN b.up[1].data : b.up[1].data[t] \in Contents
    PROVE  AskedOn(d, Down(TakeUp(b), m))
<1>. DEFINE l == Down(TakeUp(b), m)
            n == Len(b.down) + 1
            q == d.pending
<1>1. /\ DOMAIN l.up \subseteq Nat /\ 1 \in DOMAIN b.up
      /\ \A i \in DOMAIN l.up : i + 1 \in DOMAIN b.up /\ l.up[i] = b.up[i + 1] /\ i >= 1
      /\ \A i \in DOMAIN b.up : i # 1 => i - 1 \in DOMAIN l.up /\ b.up[i] = l.up[i - 1]
      /\ DOMAIN b.up \subseteq Nat
      /\ n \in DOMAIN l.down /\ l.down[n] = m /\ n \in Nat /\ n \notin DOMAIN b.down
      /\ \A i \in DOMAIN l.down : i = n \/ i \in DOMAIN b.down
      /\ \A i \in DOMAIN b.down :
           i \in Nat /\ i < n /\ i \in DOMAIN l.down /\ l.down[i] = b.down[i]
  BY ServedPlaces
<1>2. l.cut = b.cut
  BY ServedIs
<1>. HIDE DEF l, n
<1>3. m.type # "notify"
  BY DEF Answer
<1>4. \A i \in DOMAIN l.down : l.down[i].type # "notify" =>
        \E j \in DOMAIN q :
          /\ q[j].seq = l.down[i].seq /\ q[j].link = d.t
          /\ l.down[i].type = "ack" => \A t \in DOMAIN q[j].data : q[j].data[t] \in Contents
  <2>1. PICK j \in DOMAIN q : /\ q[j].seq = b.up[1].seq /\ q[j].link = d.t
                              /\ q[j].data = b.up[1].data
    BY <1>1 DEF AskedOn
  <2>2. \A i \in DOMAIN b.down : b.down[i].type # "notify" =>
          \E x \in DOMAIN q :
            /\ q[x].seq = b.down[i].seq /\ q[x].link = d.t
            /\ b.down[i].type = "ack" => \A t \in DOMAIN q[x].data : q[x].data[t] \in Contents
    BY DEF AskedOn
  <2>3. /\ q[j].seq = m.seq /\ q[j].link = d.t
        /\ m.type = "ack" => \A t \in DOMAIN q[j].data : q[j].data[t] \in Contents
    BY <2>1
  <2>4. ASSUME NEW i \in DOMAIN l.down, l.down[i].type # "notify"
        PROVE  \E x \in DOMAIN q :
          /\ q[x].seq = l.down[i].seq /\ q[x].link = d.t
          /\ l.down[i].type = "ack" => \A t \in DOMAIN q[x].data : q[x].data[t] \in Contents
    <3>1. CASE i = n
      BY <1>1, <2>3, <3>1
    <3>2. CASE i \in DOMAIN b.down
      <4>1. l.down[i] = b.down[i] /\ b.down[i].type # "notify"
        BY <1>1, <2>4, <3>2
      <4>2. PICK x \in DOMAIN q :
              /\ q[x].seq = b.down[i].seq /\ q[x].link = d.t
              /\ b.down[i].type = "ack" => \A t \in DOMAIN q[x].data : q[x].data[t] \in Contents
        BY <2>2, <3>2, <4>1
      <4>3. QED BY <4>1, <4>2
    <3>3. QED BY <1>1, <2>4, <3>1, <3>2
  <2>5. QED BY <2>4
<1>5. \A i \in DOMAIN l.up :
        \E j \in DOMAIN q : /\ q[j].seq = l.up[i].seq /\ q[j].link = d.t
                            /\ q[j].data = l.up[i].data
  BY <1>1 DEF AskedOn
<1>6. \A i \in DOMAIN b.down : b.down[i].type # "notify" =>
        \A j \in DOMAIN b.up : b.down[i].seq < b.up[j].seq
  BY DEF AskedOn
<1>7. \A i, j \in DOMAIN l.down : /\ i < j
                                  /\ l.down[i].type # "notify" /\ l.down[j].type # "notify"
                                  => l.down[i].seq < l.down[j].seq
  <2>1. SUFFICES ASSUME NEW i \in DOMAIN l.down, NEW j \in DOMAIN l.down, i < j,
                        l.down[i].type # "notify", l.down[j].type # "notify"
                 PROVE  l.down[i].seq < l.down[j].seq
    OBVIOUS
  <2>2. i \in DOMAIN b.down
    <3>1. i # n
      BY <1>1, <2>1
    <3>2. QED BY <1>1, <3>1
  <2>3. CASE j = n
    BY <1>1, <1>6, <2>1, <2>2, <2>3
  <2>4. CASE j \in DOMAIN b.down
    <3>1. \A x, y \in DOMAIN b.down :
            /\ x < y
            /\ b.down[x].type # "notify" /\ b.down[y].type # "notify"
            => b.down[x].seq < b.down[y].seq
      BY DEF AskedOn
    <3>2. QED BY <1>1, <2>1, <2>2, <2>4, <3>1
  <2>5. QED BY <1>1, <2>3, <2>4
<1>8. \A i, j \in DOMAIN b.up : i < j => b.up[i].seq < b.up[j].seq
  BY DEF AskedOn
<1>9. \A i, j \in DOMAIN l.up : i < j => l.up[i].seq < l.up[j].seq
  <2>1. \A i, j \in DOMAIN l.up : i < j => i + 1 < j + 1
    BY <1>1
  <2>2. QED BY <1>1, <1>8, <2>1
<1>10. \A i \in DOMAIN l.down, j \in DOMAIN l.up :
         l.down[i].type # "notify" => l.down[i].seq < l.up[j].seq
  <2>1. \A j \in DOMAIN l.up : m.seq < l.up[j].seq
    <3>1. \A j \in DOMAIN l.up : 1 < j + 1
      BY <1>1
    <3>2. QED BY <1>1, <1>8, <3>1
  <2>2. QED BY <1>1, <1>6, <2>1
<1>11. \A j \in DOMAIN q : q[j].link # 0 =>
         \/ \E i \in DOMAIN l.down : l.down[i].type # "notify" /\ l.down[i].seq = q[j].seq
         \/ \E i \in DOMAIN l.up : l.up[i].seq = q[j].seq
  <2>1. SUFFICES ASSUME NEW j \in DOMAIN q, q[j].link # 0
                 PROVE  \/ \E i \in DOMAIN l.down :
                             l.down[i].type # "notify" /\ l.down[i].seq = q[j].seq
                        \/ \E i \in DOMAIN l.up : l.up[i].seq = q[j].seq
    OBVIOUS
  <2>2. \/ \E i \in DOMAIN b.down : b.down[i].type # "notify" /\ b.down[i].seq = q[j].seq
        \/ \E i \in DOMAIN b.up : b.up[i].seq = q[j].seq
    BY <2>1 DEF AskedOn
  <2>3. ASSUME NEW i \in DOMAIN b.up, b.up[i].seq = q[j].seq
        PROVE  \/ \E x \in DOMAIN l.down :
                    l.down[x].type # "notify" /\ l.down[x].seq = q[j].seq
               \/ \E x \in DOMAIN l.up : l.up[x].seq = q[j].seq
    <3>1. CASE i = 1
      BY <1>1, <1>3, <2>3, <3>1
    <3>2. CASE i # 1
      BY <1>1, <2>3, <3>2
    <3>3. QED BY <3>1, <3>2
  <2>4. QED BY <1>1, <2>2, <2>3
<1>12. \A i \in DOMAIN q : q[i].link \in {0, d.t}
  BY DEF AskedOn
<1>13. AskedOn(d, l)
  BY <1>4, <1>5, <1>7, <1>9, <1>10, <1>11, <1>12 DEF AskedOn
<1>14. QED BY <1>13 DEF l

\* What a request makes of the tables.
LEMMA StoredIs ==
    ASSUME DomainInv, NEW c \in Clients, NEW k \in Links(c), Watching(c, k),
           NEW data \in Data(c), table' = Stored(data), NEW ok \in BOOLEAN,
           ok <=> \A t \in Own(c) : data[t] # Bad
    PROVE  /\ table' \in [Tables -> Table \cup {None}]
           /\ \A t \in Own(c) : t \in Tables /\ table[t] # None /\ table[t].owner = <<c, k>>
           /\ \A t \in Tables : table'[t] = None <=> table[t] = None
           /\ \A t \in Tables : table[t] # None => table'[t].owner = table[t].owner
           /\ \A t \in Tables : t \notin Own(c) \/ ~ok => Reading(t)' = Reading(t)
           /\ ok => \A t \in Own(c) : Reading(t)' = data[t] /\ data[t] \in Contents
<1>1. /\ Own(c) \subseteq Tables /\ table \in [Tables -> Table \cup {None}]
      /\ LinkInv(c, k) /\ OwnerInv
  BY OwnTables DEF DomainInv, ClientInv, Types
<1>2. \A t \in Own(c) : table[t] # None /\ table[t].owner = <<c, k>>
  BY <1>1 DEF LinkInv, OwnerInv, Watching
<1>3. DOMAIN data = Own(c) /\ \A t \in Own(c) : data[t] \in Vals \cup {Empty, Bad}
  BY DEF Data
<1>4. /\ table' = [t \in Tables |-> IF t \in Own(c) /\ ok
                                    THEN [table[t] EXCEPT !.data = data[t]] ELSE table[t]]
      /\ \A t \in Tables : table'[t] = IF t \in Own(c) /\ ok
                                       THEN [table[t] EXCEPT !.data = data[t]] ELSE table[t]
  BY <1>3 DEF Stored
<1>5. ok => \A t \in Own(c) : data[t] \in Contents
  BY <1>3 DEF Contents
<1>6. \A r \in Table : \A x \in Contents :
        /\ [r EXCEPT !.data = x] \in Table
        /\ [r EXCEPT !.data = x].owner = r.owner /\ [r EXCEPT !.data = x].data = x
  BY DEF Table
<1>7. None \notin Table
  BY DomainAssumption DEF Table, Contents
<1>8. ASSUME NEW t \in Tables
      PROVE  /\ table'[t] \in Table \cup {None}
             /\ table'[t] = None <=> table[t] = None
             /\ table[t] # None => table'[t].owner = table[t].owner
             /\ t \notin Own(c) \/ ~ok => Reading(t)' = Reading(t)
             /\ ok /\ t \in Own(c) => Reading(t)' = data[t]
  <2>1. CASE t \in Own(c) /\ ok
    <3>1. table[t] \in Table /\ data[t] \in Contents /\ table[t] # None
      BY <1>1, <1>2, <1>5, <2>1
    <3>2. table'[t] = [table[t] EXCEPT !.data = data[t]]
      BY <1>4, <2>1
    <3>3. /\ table'[t] \in Table /\ table'[t].owner = table[t].owner
          /\ table'[t].data = data[t]
      BY <1>6, <3>1, <3>2
    <3>4. QED BY <1>7, <2>1, <3>1, <3>3 DEF Reading
  <2>2. CASE ~(t \in Own(c) /\ ok)
    <3>1. table'[t] = table[t]
      BY <1>4, <2>2
    <3>2. QED BY <1>1, <2>2, <3>1 DEF Reading
  <2>3. QED BY <2>1, <2>2
<1>9. table' \in [Tables -> Table \cup {None}]
  BY <1>4, <1>8
<1>10. QED BY <1>1, <1>2, <1>5, <1>8, <1>9

\* Two registrations share no table.
LEMMA Disjoint ==
    ASSUME DomainInv, NEW c \in Clients, NEW k \in Links(c), Watching(c, k),
           NEW e \in Clients, NEW j \in Links(e), Watching(e, j), ~(e = c /\ j = k)
    PROVE  \A t \in Own(e) : t \notin Own(c)
<1>1. OwnerInv /\ LinkInv(c, k) /\ LinkInv(e, j)
  BY DEF DomainInv, ClientInv
<1>2. proxy[c][k].tables = Own(c) /\ proxy[e][j].tables = Own(e)
  BY <1>1 DEF LinkInv, Watching
<1>3. /\ \A t \in Own(c) : table[t].owner = <<c, k>>
      /\ \A t \in Own(e) : table[t].owner = <<e, j>>
  BY <1>1, <1>2 DEF OwnerInv
<1>4. <<e, j>> # <<c, k>>
  OBVIOUS
<1>5. QED BY <1>3, <1>4

\* An acknowledgement on its way is about what was stored last.
LEMMA ServedStored ==
    ASSUME DomainInv, NEW c \in Clients, NEW k \in Links(c), k = dc[c].t, Live(c),
           Watching(c, k), NEW b, b = link[c][k], b.up # <<>>, b.cut = {},
           dc[c].connected, NEW m \in Answer, m.seq = b.up[1].seq, m.seq # 0,
           dc' = dc, promised' = promised, exports' = exports,
           link'[c][k] = Down(TakeUp(b), m),
           m.type = "ack" => \A t \in Own(c) : Reading(t)' = b.up[1].data[t],
           m.type # "ack" => \A t \in Own(c) : Reading(t)' = Reading(t)
    PROVE  StoredInv(c)'
<1>. DEFINE l == Down(TakeUp(b), m)
            n == Len(b.down) + 1
            q == dc[c].pending
<1>1. /\ b \in Link(c) /\ ClientInv(c) /\ Own(c)' = Own(c)
      /\ q \in Seq(Request(c))
  BY PlaceIs, SameOwn DEF DomainInv, Domctl
<1>2. /\ 1 \in DOMAIN b.up
      /\ n \in DOMAIN l.down /\ l.down[n] = m /\ n \in Nat /\ n \notin DOMAIN b.down
      /\ \A i \in DOMAIN l.down : i = n \/ i \in DOMAIN b.down
      /\ \A i \in DOMAIN b.down :
           i \in Nat /\ i < n /\ i \in DOMAIN l.down /\ l.down[i] = b.down[i]
  <2>1. b \in Link(c) /\ b.up # <<>> /\ "client" \notin b.cut
    BY <1>1
  <2>2. m \in Answer
    OBVIOUS
  <2>3. QED BY ONLY <2>1, <2>2, c \in Clients, ServedPlaces
<1>. HIDE DEF n, l, q
<1>. DEFINE LastAck(i) == /\ l.down[i].type = "ack"
                          /\ \A j \in DOMAIN l.down : l.down[j].type = "ack" => j <= i
<1>3. /\ (\A i \in DOMAIN b.down : b.down[i].type # "ack")
           => \A t \in Own(c) : Reading(t) = promised[c][t]
      /\ \A i \in DOMAIN b.down :
           b.down[i].type = "ack" /\ (\A j \in DOMAIN b.down : b.down[j].type = "ack" => j <= i)
             => \A t \in Own(c) :
                  /\ b.down[i].seq = 0 => Reading(t) = Empty
                  /\ \A j \in DOMAIN q : q[j].seq = b.down[i].seq => Reading(t) = q[j].data[t]
  <2>1. StoredInv(c) /\ Live(c) /\ Watching(c, k) /\ dc[c].connected
    BY <1>1 DEF ClientInv
  <2>2. QED BY ONLY <2>1, b = link[c][k], b.cut = {}, k = dc[c].t DEF StoredInv, q
<1>4. (\A i \in DOMAIN l.down : l.down[i].type # "ack")
        => \A t \in Own(c) : Reading(t)' = promised[c][t]
  <2>1. SUFFICES ASSUME \A i \in DOMAIN l.down : l.down[i].type # "ack"
                 PROVE  \A t \in Own(c) : Reading(t)' = promised[c][t]
    OBVIOUS
  <2>2. m.type # "ack" /\ \A i \in DOMAIN b.down : b.down[i].type # "ack"
    BY ONLY <1>2, <2>1
  <2>3. \A t \in Own(c) : Reading(t)' = Reading(t)
    BY <2>2
  <2>4. QED BY ONLY <1>3, <2>2, <2>3
<1>5. ASSUME NEW i \in DOMAIN l.down, LastAck(i)
      PROVE  \A t \in Own(c) :
               /\ l.down[i].seq = 0 => Reading(t)' = Empty
               /\ \A j \in DOMAIN q : q[j].seq = l.down[i].seq => Reading(t)' = q[j].data[t]
  <2>1. CASE m.type = "ack"
    <3>1. i = n
      <4>1. n <= i
        BY ONLY <1>2, <1>5, <2>1
      <4>2. i \in DOMAIN b.down => i < n /\ i \in Nat
        BY ONLY <1>2
      <4>3. QED BY ONLY <1>2, <1>5, <4>1, <4>2
    <3>2. PICK x \in DOMAIN q : q[x].seq = m.seq /\ q[x].data = b.up[1].data
      <4>1. AskedOn(dc[c], b)
        BY <1>1 DEF ClientInv, AskedInv
      <4>2. \A i1 \in DOMAIN b.up :
              \E j \in DOMAIN q : q[j].seq = b.up[i1].seq /\ q[j].data = b.up[i1].data
        BY ONLY <4>1 DEF AskedOn, q
      <4>3. QED BY ONLY <1>2, <4>2, m.seq = b.up[1].seq
    <3>3. \A j \in DOMAIN q : q[j].seq = m.seq => j = x
      <4>1. \A i1, j \in DOMAIN q : i1 < j => q[i1].seq < q[j].seq
        BY <1>1 DEF ClientInv, PendingInv, Numbered, q
      <4>2. m.seq \in Nat
        BY DEF Answer
      <4>3. DOMAIN q \subseteq Nat
        BY ONLY <1>1
      <4>4. ASSUME NEW j \in DOMAIN q, q[j].seq = m.seq
            PROVE  j = x
        <5>1. ~(j < x) /\ ~(x < j)
          BY ONLY <3>2, <4>1, <4>2, <4>4
        <5>2. QED BY ONLY <4>3, <5>1
      <4>5. QED BY <4>4
    <3>4. l.down[i] = m
      BY <1>2, <3>1
    <3>5. QED BY <2>1, <3>2, <3>3, <3>4
  <2>2. CASE m.type # "ack"
    <3>1. i \in DOMAIN b.down /\ l.down[i] = b.down[i]
      BY <1>2, <1>5, <2>2
    <3>2. b.down[i].type = "ack" /\ \A j \in DOMAIN b.down : b.down[j].type = "ack" => j <= i
      BY <1>2, <1>5, <3>1
    <3>3. QED
      <4>1. \A t \in Own(c) : Reading(t)' = Reading(t)
        BY <2>2
      <4>2. QED BY ONLY <1>3, <3>1, <3>2, <4>1
  <2>3. QED BY <2>1, <2>2
<1>6. /\ dc'[c].connected = TRUE /\ dc'[c].pending = q /\ promised'[c] = promised[c]
      /\ link'[c][dc'[c].t].down = l.down
  <2>1. dc[c].connected \in BOOLEAN
    BY PlaceIs DEF DomainInv, Domctl
  <2>2. link'[c][dc'[c].t] = l
    BY DEF l
  <2>3. QED BY <2>1, <2>2 DEF q
<1>7. \A i \in DOMAIN l.down :
         l.down[i].type = "ack" /\ (\A j \in DOMAIN l.down : l.down[j].type = "ack" => j <= i)
           => \A t \in Own(c) : /\ l.down[i].seq = 0 => Reading(t)' = Empty
                                /\ \A j \in DOMAIN q :
                                     q[j].seq = l.down[i].seq
                                       => Reading(t)' = q[j].data[t]
  BY <1>5
<1>8. Own(c)' = Own(c)
  BY <1>1
<1>. HIDE DEF LastAck
<1>9. QED BY ONLY <1>4, <1>6, <1>7, <1>8 DEF StoredInv

\* process_set
LEMMA ServeSetKeeps ==
    ASSUME DomainInv, NEW c \in Clients, NEW k \in Links(c),
           proxy[c][k] # NoProxy, link[c][k].up # <<>>, ServeSet(c, k),
           UNCHANGED <<client, up, crashes>>
    PROVE  DomainInv' /\ \A e \in Clients : Live(e)' = Live(e)
<1>. DEFINE m == Head(link[c][k].up)
            ok == \A t \in Own(c) : m.data[t] # Bad
            x == IF ok THEN Ack(m.seq) ELSE Nak(m.seq)
            b == link[c][k]
            p == proxy[c][k]
            l == Down(TakeUp(b), x)
<1>1. /\ Types /\ \A e \in Clients : ClientInv(e)
      /\ exports' = exports /\ dc' = dc /\ promised' = promised /\ seen' = seen
      /\ up' = up /\ crashes' = crashes /\ UNCHANGED client
      /\ Own(c)' = Own(c)
      /\ proxy' = proxy /\ handle' = handle /\ flagged' = flagged
      /\ b \in Link(c) /\ p \in Proxy(c) /\ LinkInv(c, k)
  BY SameOwn, PlaceIs DEF DomainInv, client, ServeSet, ClientInv
<1>2. /\ b.open /\ b.cut \in {{}, {"client"}} /\ up
      /\ m = b.up[1] /\ m \in Up(c)
      /\ p.state \in {"accepted", "registered"}
      /\ p.state = "accepted" => b.up = <<Register>>
      /\ Live(c) /\ k = dc[c].t => b.cut = {}
  BY ServedAt
<1>3. /\ m.type = "set" /\ table' = Stored(m.data)
      /\ scheduled' = (scheduled \/
           (ok /\ \E t \in Own(c) : Reading(t) # Empty \/ m.data[t] # Empty))
      /\ link' = [link EXCEPT ![c][k] = l]
  BY DEF ServeSet
<1>4. p.state = "registered" /\ Watching(c, k)
  <2>1. p.state # "accepted"
    <3>1. <<Register>>[1].type = "register"
      BY DEF Register
    <3>2. QED BY <1>2, <1>3, <3>1
  <2>2. QED BY <1>2, <2>1 DEF Watching
<1>5. m.seq \in Nat \ {0} /\ m.data \in Data(c)
  BY <1>2, <1>3, SMTT(30) DEF Up, Register
<1>6. /\ x \in Answer /\ x.seq = m.seq /\ (x.type = "ack" <=> ok)
  <2>1. /\ Ack(m.seq) \in Answer /\ Ack(m.seq).seq = m.seq /\ Ack(m.seq).type = "ack"
        /\ Nak(m.seq) \in Answer /\ Nak(m.seq).seq = m.seq /\ Nak(m.seq).type = "nak"
    BY <1>5 DEF Ack, Nak, Answer
  <2>2. QED BY <2>1
<1>7. b.up # <<>>
  OBVIOUS
<1>. HIDE DEF m, ok, x
<1>8. /\ l \in Link(c) /\ l.open = b.open /\ l.cut = b.cut /\ l.up = Tail(b.up)
      /\ b.cut = {"client"} => l.down = b.down
  <2>. HIDE DEF b
  <2>1. QED BY <1>1, <1>6, <1>7, ServedIs
<1>9. ServerStep(c, k, p, l)
  <2>1. proxy' = [proxy EXCEPT ![c][k] = p]
    <3>1. proxy = [e \in Clients |-> [j \in Links(e) |-> proxy[e][j]]]
      BY <1>1 DEF Types
    <3>2. proxy[c] = [proxy[c] EXCEPT ![k] = proxy[c][k]]
      BY <3>1
    <3>3. proxy = [proxy EXCEPT ![c] = proxy[c]]
      BY <3>1
    <3>4. QED BY <1>1, <3>2, <3>3
  <2>2. QED BY <1>3, <2>1 DEF ServerStep
<1>10. /\ link'[c][k] = l /\ \A j \in Links(c) : j # k => link'[c][j] = link[c][j]
       /\ \A e \in Clients : e # c => link'[e] = link[e]
  BY <1>1, <1>9, ServerFrame
<1>11. /\ table' \in [Tables -> Table \cup {None}]
       /\ \A t \in Own(c) : t \in Tables /\ table[t] # None /\ table[t].owner = <<c, k>>
       /\ \A t \in Tables : table'[t] = None <=> table[t] = None
       /\ \A t \in Tables : table[t] # None => table'[t].owner = table[t].owner
       /\ \A t \in Tables : t \notin Own(c) \/ ~ok => Reading(t)' = Reading(t)
       /\ ok => \A t \in Own(c) : Reading(t)' = m.data[t] /\ m.data[t] \in Contents
  <2>1. ok \in BOOLEAN /\ (ok <=> \A t \in Own(c) : m.data[t] # Bad)
    BY DEF ok
  <2>2. m.data \in Data(c) /\ table' = Stored(m.data) /\ Watching(c, k)
    BY <1>3, <1>4, <1>5
  <2>3. QED BY ONLY <2>1, <2>2, DomainInv, c \in Clients, k \in Links(c), StoredIs
<1>. HIDE DEF l, p, b
<1>12. \A e : \A j : Watching(e, j)' = Watching(e, j)
  BY <1>1 DEF Watching
<1>13. ~scheduled' => ~scheduled /\ \A t \in Tables : Reading(t)' = Reading(t)
  <2>1. SUFFICES ASSUME ~scheduled', ok
                 PROVE  \A t \in Own(c) : Reading(t)' = Reading(t)
    BY <1>3, <1>11
  <2>2. \A t \in Own(c) : Reading(t) = Empty /\ m.data[t] = Empty
    BY <1>3, <2>1
  <2>3. QED BY <1>11, <2>1, <2>2
<1>14. LinkInv(c, k)'
  <2>1. \A i \in DOMAIN l.up : l.up[i].type = "set"
    <3>1. b.up \in Seq(Up(c))
      BY <1>1 DEF Link
    <3>2. \A i \in DOMAIN b.up : b.up[i].type = "set"
      BY <1>1, <1>4 DEF LinkInv, b, p
    <3>3. \A i \in DOMAIN Tail(b.up) : i + 1 \in DOMAIN b.up /\ Tail(b.up)[i] = b.up[i + 1]
      BY <1>7, <3>1
    <3>4. QED BY <1>8, <3>2, <3>3
  <2>2. link'[c][k] = l /\ proxy'[c][k] = p /\ up' = up /\ dc' = dc /\ p = proxy[c][k]
        /\ b = link[c][k]
    BY <1>1, <1>10 DEF p, b
  <2>3. p.tables = Own(c) /\ (b.cut = {"client"} => b.down = <<>>)
        /\ (b.open /\ b.cut # {"client"} => k = dc[c].t) /\ Own(c)' = Own(c)
    BY <1>1, <1>4, <2>2 DEF LinkInv
  <2>4. l.open /\ l.cut \in {{}, {"client"}} /\ (l.cut = {"client"} => l.down = <<>>)
        /\ (l.open /\ l.cut # {"client"} => k = dc[c].t) /\ up
    BY <1>2, <1>8, <2>3
  <2>5. QED BY ONLY <1>4, <2>1, <2>2, <2>3, <2>4 DEF LinkInv
<1>15. OwnerInv'
  <2>1. OwnerInv
    BY DEF DomainInv
  <2>2. \A e \in Clients : \A j \in Links(e) : \A t \in proxy[e][j].tables : t \in Tables
    BY <1>1, PlaceIs, OwnTables DEF Proxy, Types
  <2>3. QED BY <1>1, <1>11, <2>1, <2>2 DEF OwnerInv
<1>16. HandleInv'
  <2>1. HandleInv
    BY DEF DomainInv
  <2>2. QED BY <1>1, <1>11, <1>12, <2>1 DEF HandleInv
<1>17. \A e \in Clients : Live(e)' = Live(e)
  <2>1. ASSUME NEW e \in Clients
        PROVE  Live(e)' = Live(e)
    <3>1. dc[e].t \in Links(e) \cup {0}
      BY <1>1, PlaceIs DEF Domctl
    <3>2. CASE e = c /\ dc[e].t = k
      BY <1>1, <1>8, <1>10, <3>2 DEF Live, b
    <3>3. CASE ~(e = c /\ dc[e].t = k)
      BY <1>1, <1>10, <3>1, <3>3 DEF Live
    <3>4. QED BY <3>2, <3>3
  <2>2. QED BY <2>1
<1>18. ASSUME NEW e \in Clients, NEW j \in Links(e)
       PROVE  ToldInv(e, j)'
  <2>1. SUFFICES ASSUME Watching(e, j), link'[e][j].cut = {}
                 PROVE  IF proxy[e][j].fresh
                        THEN ~scheduled' => Watches[e] = {} \/ Dead(e)'
                        ELSE \A t \in Watches[e] :
                               /\ handle[t] = "dead" => t \in flagged
                               /\ handle[t] = "invalid" => LastTold(e, j)'[t] = Empty
                               /\ ~scheduled' => LastTold(e, j)'[t] = Reading(t)'
    BY <1>1, <1>12 DEF ToldInv
  <2>2. LastTold(e, j)' = LastTold(e, j) /\ link[e][j].cut = {}
    <3>1. CASE e = c /\ j = k
      <4>1. /\ link[c][k] \in Link(c) /\ link[c][k].up # <<>> /\ link[c][k].cut = {}
            /\ link'[c][k] = Down(TakeUp(link[c][k]), x) /\ seen'[c] = seen[c]
        BY <1>1, <1>7, <1>8, <1>10, <2>1, <3>1 DEF b, l
      <4>2. "client" \notin link[c][k].cut
        BY <4>1
      <4>3. QED BY ONLY <1>6, <3>1, <4>1, <4>2, c \in Clients, ServedLast
    <3>2. CASE ~(e = c /\ j = k)
      <4>1. link'[e][j] = link[e][j] /\ seen'[e] = seen[e]
        BY <1>1, <1>10, <3>2
      <4>2. QED BY <2>1, <4>1, SameLast
    <3>3. QED BY <3>1, <3>2
  <2>3. Dead(e)' = Dead(e) /\ ToldInv(e, j)
    BY <1>1 DEF Dead, ClientInv
  <2>4. \A t \in Watches[e] : t \in Tables
    BY DomainAssumption
  <2>5. QED BY <1>13, <2>1, <2>2, <2>3, <2>4 DEF ToldInv
<1>19. ASSUME k = dc[c].t
       PROVE  EarlyInv(c)' /\ AskedInv(c)' /\ StoredInv(c)'
  <2>1. /\ dc'[c] = dc[c] /\ link'[c][dc'[c].t] = l /\ Live(c)' = Live(c)
        /\ proxy'[c][dc'[c].t].state = "registered"
    BY <1>1, <1>4, <1>10, <1>17, <1>19 DEF p
  <2>2. EarlyInv(c) /\ AskedInv(c)
    BY <1>1 DEF ClientInv
  <2>3. CASE Live(c)
    <3>1. b.cut = {} /\ b = link[c][k]
      BY <1>2, <1>19, <2>3 DEF b
    <3>2. dc[c].connected
      <4>1. SUFFICES ASSUME ~dc[c].connected
                     PROVE  FALSE
        OBVIOUS
      <4>2. EarlyOn(dc[c], b)
        BY <1>19, <2>2, <2>3, <4>1 DEF EarlyInv, b
      <4>3. 1 \in DOMAIN b.up
        BY ServedAt DEF b
      <4>4. QED BY <1>2, <1>3, <4>2, <4>3 DEF EarlyOn
    <3>3. AskedOn(dc[c], b)
      BY <1>19, <2>2, <3>2 DEF AskedInv, b
    <3>4. EarlyInv(c)'
      BY <2>1, <3>2 DEF EarlyInv
    <3>5. x.type = "ack" => \A t \in DOMAIN b.up[1].data : b.up[1].data[t] \in Contents
      <4>1. DOMAIN m.data = Own(c)
        BY <1>5 DEF Data
      <4>2. QED BY <1>2, <1>6, <1>11, <4>1
    <3>6. AskedOn(dc[c], l)
      <4>1. b \in Link(c) /\ b.up # <<>> /\ b.cut = {} /\ x \in Answer /\ x.seq = b.up[1].seq
        BY <1>1, <1>2, <1>6, <1>7, <3>1
      <4>2. QED BY ONLY <3>3, <3>5, <4>1, c \in Clients, ServedAsked DEF l
    <3>7. AskedInv(c)'
      BY <2>1, <2>3, <3>6 DEF AskedInv, Watching
    <3>8. StoredInv(c)'
      <4>1. /\ x.type = "ack" => \A t \in Own(c) : Reading(t)' = b.up[1].data[t]
            /\ x.type # "ack" => \A t \in Own(c) : Reading(t)' = Reading(t)
        BY <1>2, <1>6, <1>11
      <4>2. /\ b.up # <<>> /\ x \in Answer /\ x.seq = b.up[1].seq /\ x.seq # 0
            /\ dc' = dc /\ promised' = promised /\ exports' = exports
            /\ link'[c][k] = Down(TakeUp(b), x)
        BY <1>1, <1>2, <1>5, <1>6, <1>7, <1>10 DEF l
      <4>3. QED BY ONLY DomainInv, c \in Clients, k \in Links(c), <1>19, <2>3, <1>4, <3>1, <3>2,
      <4>1, <4>2, ServedStored
    <3>9. QED BY <3>4, <3>7, <3>8
  <2>4. CASE ~Live(c)
    <3>1. ~dc[c].connected
      BY <2>2, <2>4 DEF AskedInv
    <3>2. QED BY <2>1, <2>4, <3>1 DEF EarlyInv, AskedInv, StoredInv
  <2>5. QED BY <2>3, <2>4
<1>20. \A e \in Clients : Live(e) /\ Watching(e, dc[e].t) /\ ~(e = c /\ dc[e].t = k)
                            => \A t \in Own(e) : Reading(t)' = Reading(t)
  <2>1. SUFFICES ASSUME NEW e \in Clients, Live(e), Watching(e, dc[e].t),
                        ~(e = c /\ dc[e].t = k), NEW t \in Own(e)
                 PROVE  Reading(t)' = Reading(t)
    OBVIOUS
  <2>2. dc[e].t \in Links(e) /\ t \in Tables
    BY <1>1, <2>1, PlaceIs, OwnTables DEF Live, Domctl, Types
  <2>3. t \notin Own(c)
    BY <1>4, <2>1, <2>2, Disjoint
  <2>4. QED BY <1>11, <2>2, <2>3
<1>21. /\ handle' \in [Tables -> {"none", "invalid", "live", "dead"}]
       /\ flagged' \subseteq {t \in Tables : handle'[t] # "none"}
       /\ scheduled' \in BOOLEAN
  <2>1. /\ handle \in [Tables -> {"none", "invalid", "live", "dead"}]
        /\ flagged \subseteq {t \in Tables : handle[t] # "none"} /\ scheduled \in BOOLEAN
    BY <1>1 DEF Types
  <2>2. QED BY <1>1, <1>3, <2>1
<1>22. ~link[c][k].open => ~l.open
  BY <1>8 DEF b
<1>23. k = dc[c].t => Live(c)' = Live(c) /\ EarlyInv(c)' /\ AskedInv(c)' /\ StoredInv(c)'
  BY <1>17, <1>19
<1>24. \A e \in Clients : \A j \in Links(e) : ToldInv(e, j)'
  BY <1>18
<1>25. table' \in [Tables -> Table \cup {None}] /\ p \in Proxy(c) /\ l \in Link(c)
  BY <1>1, <1>8, <1>11
<1>26. QED BY <1>1, <1>9, <1>14, <1>15, <1>16, <1>20, <1>21, <1>22, <1>23, <1>24, <1>25,
     ServerKeeps

\* msg_closed_cb, destroy_proxy
LEMMA LeaveKeeps ==
    ASSUME DomainInv, NEW c \in Clients, NEW k \in Links(c), Leave(c, k)
    PROVE  DomainInv' /\ \A e \in Clients : Live(e)' = Live(e)
<1>. DEFINE gone == proxy[c][k].tables
<1>1. /\ Types /\ \A e \in Clients : ClientInv(e)
      /\ exports' = exports /\ dc' = dc /\ promised' = promised /\ seen' = seen
      /\ up' = up /\ crashes' = crashes /\ UNCHANGED client
      /\ Own(c)' = Own(c) /\ OwnerInv /\ HandleInv
      /\ link[c][k] \in Link(c) /\ proxy[c][k] \in Proxy(c) /\ LinkInv(c, k)
  BY SameOwn, PlaceIs DEF DomainInv, client, Leave, ClientInv
<1>2. /\ proxy[c][k] # NoProxy /\ "client" \in link[c][k].cut
      /\ table' = [t \in Tables |-> IF t \in gone THEN None ELSE table[t]]
      /\ TableEvents(gone, "dead", {})
      /\ scheduled' = (scheduled \/ gone # {})
      /\ ServerStep(c, k, NoProxy, NoLink)
  BY DEF Leave, ServerStep
<1>3. gone \subseteq Tables
  BY <1>1, OwnTables DEF Proxy, Types
<1>4. \A t \in gone : table[t].owner = <<c, k>>
  BY <1>1 DEF OwnerInv
<1>. HIDE DEF gone
<1>5. /\ proxy'[c][k] = NoProxy /\ \A j \in Links(c) : j # k => proxy'[c][j] = proxy[c][j]
      /\ \A e \in Clients : e # c => proxy'[e] = proxy[e]
      /\ link'[c][k] = NoLink /\ \A j \in Links(c) : j # k => link'[c][j] = link[c][j]
      /\ \A e \in Clients : e # c => link'[e] = link[e]
  BY <1>1, <1>2, ServerFrame
<1>6. \A e \in Clients : \A j \in Links(e) : ~(e = c /\ j = k) =>
        proxy'[e][j] = proxy[e][j] /\ link'[e][j] = link[e][j]
  BY <1>5
<1>7. NoProxy \in Proxy(c) /\ NoLink \in Link(c)
  BY DEF NoProxy, NoLink, Proxy, Link
<1>8. /\ handle' \in [Tables -> {"none", "invalid", "live", "dead"}]
      /\ flagged' \subseteq {t \in Tables : handle'[t] # "none"}
      /\ flagged \subseteq flagged'
      /\ \A t \in gone : handle[t] # "none" => handle'[t] = "dead" /\ t \in flagged'
      /\ \A t \in Tables :
           handle[t] = "none" \/ t \notin gone =>
             /\ handle'[t] = handle[t]
             /\ t \in flagged' => t \in flagged
  <2>. DEFINE nothing == {}
  <2>1. /\ gone \in SUBSET Tables /\ Types
        /\ TableEvents(gone, "dead", nothing) /\ nothing \in SUBSET Tables
        /\ \A t \in nothing : handle[t] = "none"
        /\ \A t : t \notin nothing
    BY <1>1, <1>2, <1>3
  <2>. HIDE DEF nothing
  <2>2. "dead" \in {"live", "dead"}
    OBVIOUS
  <2>3. QED BY ONLY <2>1, <2>2, EventsAre, ZenonT(30)
<1>9. /\ \A t \in gone : t \in Tables /\ table'[t] = None
      /\ \A t \in Tables : t \notin gone => table'[t] = table[t] /\ Reading(t)' = Reading(t)
  BY <1>2, <1>3 DEF Reading
<1>10. table' \in [Tables -> Table \cup {None}] /\ scheduled' \in BOOLEAN
  <2>1. table \in [Tables -> Table \cup {None}] /\ scheduled \in BOOLEAN
    BY <1>1 DEF Types
  <2>2. QED BY <1>2, <2>1
<1>11. ~Watching(c, k)' /\ NoProxy.tables = {} /\ ~NoLink.open
  BY <1>5 DEF Watching, NoProxy, NoLink
<1>12. \A e \in Clients : \A j \in Links(e) : ~(e = c /\ j = k) =>
         Watching(e, j)' = Watching(e, j)
  BY <1>6 DEF Watching
<1>13. \A e \in Clients : \A j \in Links(e) : ~(e = c /\ j = k) =>
         \A t \in proxy[e][j].tables : t \notin gone /\ t \in Tables
  <2>1. SUFFICES ASSUME NEW e \in Clients, NEW j \in Links(e), ~(e = c /\ j = k),
                        NEW t \in proxy[e][j].tables
                 PROVE  t \notin gone /\ t \in Tables
    OBVIOUS
  <2>2. table[t].owner = <<e, j>>
    BY <1>1 DEF OwnerInv
  <2>3. <<e, j>> # <<c, k>>
    BY <2>1
  <2>4. t \in Tables
    BY <1>1, PlaceIs, OwnTables DEF Proxy, Types
  <2>5. QED BY <1>4, <2>2, <2>3, <2>4
<1>14. LinkInv(c, k)'
  BY <1>5, <1>11 DEF LinkInv, NoProxy, NoLink
<1>15. OwnerInv'
  <2>1. \A t \in Tables : table'[t] # None =>
          \E e \in Clients : \E j \in Links(e) :
            table'[t].owner = <<e, j>> /\ t \in proxy'[e][j].tables
    <3>1. SUFFICES ASSUME NEW t \in Tables, table'[t] # None
                   PROVE  \E e \in Clients : \E j \in Links(e) :
                            table'[t].owner = <<e, j>> /\ t \in proxy'[e][j].tables
      OBVIOUS
    <3>2. t \notin gone /\ table'[t] = table[t]
      BY <1>9, <3>1
    <3>3. PICK e \in Clients : \E j \in Links(e) :
            table[t].owner = <<e, j>> /\ t \in proxy[e][j].tables
      BY <1>1, <3>1, <3>2 DEF OwnerInv
    <3>4. PICK j \in Links(e) : table[t].owner = <<e, j>> /\ t \in proxy[e][j].tables
      BY <3>3
    <3>5. ~(e = c /\ j = k)
      BY <3>2, <3>4 DEF gone
    <3>6. QED BY <1>6, <3>2, <3>4, <3>5
  <2>2. \A e \in Clients : \A j \in Links(e) : \A t \in proxy'[e][j].tables :
          table'[t] # None /\ table'[t].owner = <<e, j>>
    <3>1. SUFFICES ASSUME NEW e \in Clients, NEW j \in Links(e), ~(e = c /\ j = k),
                          NEW t \in proxy[e][j].tables
                   PROVE  table'[t] # None /\ table'[t].owner = <<e, j>>
      BY <1>5, <1>6, <1>11
    <3>2. table[t] # None /\ table[t].owner = <<e, j>>
      BY <1>1 DEF OwnerInv
    <3>3. QED BY <1>9, <1>13, <3>1, <3>2
  <2>3. QED BY <2>1, <2>2 DEF OwnerInv
<1>16. HandleInv'
  <2>1. ASSUME NEW t \in Tables, handle'[t] = "invalid"
        PROVE  t \notin flagged' /\ table'[t] = None
    <3>1. t \notin gone
      BY <1>8, <2>1
    <3>2. QED BY <1>1, <1>8, <1>9, <2>1, <3>1 DEF HandleInv
  <2>2. \A t \in Tables : handle[t] # "none" => handle'[t] # "none"
    BY <1>8
  <2>3. \A e \in Clients : \A t \in Watches[e] : t \in Tables
    BY DomainAssumption
  <2>4. \A e \in Clients : \A j \in Links(e) : Watching(e, j)' =>
          \A t \in Watches[e] : handle'[t] # "none"
    BY <1>1, <1>11, <1>12, <2>2, <2>3 DEF HandleInv
  <2>5. QED BY <2>1, <2>4 DEF HandleInv
<1>17. ASSUME NEW e \in Clients, NEW j \in Links(e)
       PROVE  ToldInv(e, j)'
  <2>1. CASE e = c /\ j = k
    BY <1>11, <2>1 DEF ToldInv
  <2>2. CASE ~(e = c /\ j = k)
    <3>1. /\ proxy'[e][j] = proxy[e][j] /\ link'[e][j] = link[e][j] /\ seen'[e] = seen[e]
          /\ Watching(e, j)' = Watching(e, j) /\ ToldInv(e, j)
      BY <1>1, <1>6, <1>12, <2>2 DEF ClientInv
    <3>2. LastTold(e, j)' = LastTold(e, j)
      BY <3>1, SameLast
    <3>3. SUFFICES ASSUME Watching(e, j), link[e][j].cut = {}
                   PROVE  IF proxy[e][j].fresh
                          THEN ~scheduled' => Watches[e] = {} \/ Dead(e)'
                          ELSE \A t \in Watches[e] :
                                 /\ handle'[t] = "dead" => t \in flagged'
                                 /\ handle'[t] = "invalid" => LastTold(e, j)[t] = Empty
                                 /\ ~scheduled' => LastTold(e, j)[t] = Reading(t)'
      BY <3>1, <3>2 DEF ToldInv
    <3>4. \A t \in Watches[e] : t \in Tables /\ handle[t] # "none"
      BY <1>1, <3>3, DomainAssumption DEF HandleInv
    <3>5. CASE proxy[e][j].fresh
      <4>1. SUFFICES ASSUME ~scheduled'
                     PROVE  Watches[e] = {} \/ Dead(e)'
        BY <3>5
      <4>2. ~scheduled /\ gone = {}
        BY <1>2, <4>1
      <4>3. Watches[e] = {} \/ Dead(e)
        BY <3>1, <3>3, <3>5, <4>2 DEF ToldInv
      <4>4. \A t \in Watches[e] : handle'[t] = handle[t]
        BY <1>8, <3>4, <4>2
      <4>5. QED BY <4>3, <4>4 DEF Dead
    <3>6. CASE ~proxy[e][j].fresh
      <4>1. SUFFICES ASSUME NEW t \in Watches[e]
                     PROVE  /\ handle'[t] = "dead" => t \in flagged'
                            /\ handle'[t] = "invalid" => LastTold(e, j)[t] = Empty
                            /\ ~scheduled' => LastTold(e, j)[t] = Reading(t)'
        BY <3>6
      <4>2. /\ handle[t] = "dead" => t \in flagged
            /\ handle[t] = "invalid" => LastTold(e, j)[t] = Empty
            /\ ~scheduled => LastTold(e, j)[t] = Reading(t)
        BY <3>1, <3>3, <3>6 DEF ToldInv
      <4>3. t \in Tables /\ handle[t] # "none"
        BY <3>4
      <4>4. CASE t \in gone
        BY <1>2, <1>8, <4>3, <4>4
      <4>5. CASE t \notin gone
        BY <1>2, <1>8, <1>9, <4>2, <4>3, <4>5
      <4>6. QED BY <4>4, <4>5
    <3>7. QED BY <3>5, <3>6
  <2>3. QED BY <2>1, <2>2
<1>18. ASSUME k = dc[c].t
       PROVE  Live(c)' = Live(c) /\ EarlyInv(c)' /\ AskedInv(c)' /\ StoredInv(c)'
  <2>1. ~Live(c)
    BY <1>2, <1>18 DEF Live
  <2>2. ~Live(c)'
    BY <1>1, <1>5, <1>11, <1>18 DEF Live
  <2>3. ~dc[c].connected
    BY <1>1, <2>1 DEF ClientInv, AskedInv
  <2>4. EarlyInv(c)' /\ StoredInv(c)'
    BY <2>2 DEF EarlyInv, StoredInv
  <2>5. AskedInv(c)'
    BY <1>1, <2>3 DEF AskedInv
  <2>6. Live(c)' = FALSE /\ Live(c) = FALSE
    BY <2>1, <2>2 DEF Live
  <2>7. QED BY <2>4, <2>5, <2>6
<1>19. \A e \in Clients : Live(e) /\ Watching(e, dc[e].t) /\ ~(e = c /\ dc[e].t = k)
                            => \A t \in Own(e) : Reading(t)' = Reading(t)
  <2>1. SUFFICES ASSUME NEW e \in Clients, Live(e), Watching(e, dc[e].t),
                        ~(e = c /\ dc[e].t = k), NEW t \in Own(e)
                 PROVE  Reading(t)' = Reading(t)
    OBVIOUS
  <2>2. dc[e].t \in Links(e)
    BY <1>1, <2>1, PlaceIs DEF Live, Domctl
  <2>3. t \in proxy[e][dc[e].t].tables
    BY <1>1, <2>1, <2>2 DEF ClientInv, LinkInv, Watching
  <2>4. QED BY <1>9, <1>13, <2>1, <2>2, <2>3
<1>20. ~link[c][k].open => ~NoLink.open
  BY <1>11
<1>21. /\ handle' \in [Tables -> {"none", "invalid", "live", "dead"}]
       /\ flagged' \subseteq {t \in Tables : handle'[t] # "none"}
  BY <1>8
<1>22. \A e \in Clients : \A j \in Links(e) : ToldInv(e, j)'
  BY <1>17
<1>23. ServerStep(c, k, NoProxy, NoLink)
  BY <1>2
<1>24. QED BY <1>1, <1>7, <1>10, <1>14, <1>15, <1>16, <1>18, <1>19, <1>20, <1>21, <1>22, <1>23,
     ServerKeeps

\* A notification is sent.
LEMMA NotifiedIs ==
    ASSUME NEW c \in Clients, NEW b \in Link(c), NEW m \in Notice(c)
    PROVE  LET l == Down(b, m)
               n == Len(b.down) + 1 IN
           /\ l \in Link(c) /\ l.open = b.open /\ l.cut = b.cut /\ l.up = b.up
           /\ "client" \in b.cut => l = b
           /\ "client" \notin b.cut =>
                /\ n \in DOMAIN l.down /\ l.down[n] = m /\ n \in Nat /\ n \notin DOMAIN b.down
                /\ \A i \in DOMAIN l.down : i = n \/ i \in DOMAIN b.down
                /\ \A i \in DOMAIN b.down :
                     i \in Nat /\ i < n /\ i \in DOMAIN l.down /\ l.down[i] = b.down[i]
<1>. DEFINE l == Down(b, m)
            a == Append(b.down, m)
            q == b.down
<1>1. q \in Seq(Answer \cup Notice(c)) /\ m \in Answer \cup Notice(c)
  BY DEF Link
<1>2. CASE "client" \in b.cut
  BY <1>2 DEF Down
<1>3. CASE "client" \notin b.cut
  <2>1. l = [b EXCEPT !.down = a]
    BY <1>3 DEF Down
  <2>2. a \in Seq(Answer \cup Notice(c))
    BY <1>1, AppendIs
  <2>. HIDE DEF a, l
  <2>3. l \in Link(c) /\ l.open = b.open /\ l.cut = b.cut /\ l.up = b.up /\ l.down = a
    BY <2>1, <2>2 DEF Link
  <2>. HIDE DEF q
  <2>4. /\ Len(q) + 1 \in DOMAIN Append(q, m) /\ Append(q, m)[Len(q) + 1] = m
        /\ Len(q) + 1 \in Nat /\ Len(q) + 1 \notin DOMAIN q
        /\ \A i \in DOMAIN Append(q, m) : i = Len(q) + 1 \/ i \in DOMAIN q
        /\ \A i \in DOMAIN q :
             i \in Nat /\ i < Len(q) + 1 /\ i \in DOMAIN Append(q, m) /\ Append(q, m)[i] = q[i]
    <3>1. /\ DOMAIN Append(q, m) = 1..(Len(q) + 1)
          /\ DOMAIN q = 1..Len(q) /\ Len(q) \in Nat
          /\ \A i \in DOMAIN q : Append(q, m)[i] = q[i]
          /\ Append(q, m)[Len(q) + 1] = m
      BY <1>1, AppendIs
    <3>2. QED BY <3>1
  <2>5. QED BY <1>3, <2>3, <2>4 DEF a, q, l
<1>4. QED BY <1>2, <1>3

LEMMA NotifiedLast ==
    ASSUME NEW c \in Clients, NEW k, link[c][k] \in Link(c), "client" \notin link[c][k].cut,
           NEW m \in Notice(c), link'[c][k] = Down(link[c][k], m)
    PROVE  LastTold(c, k)' = m.told
<1>. DEFINE q == link[c][k].down
            r == link'[c][k].down
            after == {i \in DOMAIN r : r[i].type = "notify"}
            n == Len(q) + 1
<1>1. /\ n \in DOMAIN r /\ r[n] = m /\ n \in Nat
      /\ \A i \in DOMAIN r : i = n \/ i \in DOMAIN q
      /\ \A i \in DOMAIN q : i \in Nat /\ i < n
      /\ link'[c][k] \in Link(c)
  BY NotifiedIs
<1>2. LastTold(c, k)' = IF after = {} THEN seen'[c] ELSE r[Max(after)].told
  BY DEF LastTold
<1>3. n \in after
  BY <1>1 DEF Notice
<1>4. r \in Seq(Answer \cup Notice(c))
  BY <1>1 DEF Link
<1>. HIDE DEF q, r, n
<1>5. Max(after) \in after /\ \A i \in after : i <= Max(after)
  <2>1. after \in SUBSET (1..Len(r)) /\ Len(r) \in Nat /\ after # {}
    BY <1>3, <1>4
  <2>. HIDE DEF after
  <2>2. QED BY <2>1, Greatest
<1>6. Max(after) = n
  <2>. DEFINE x == Max(after)
  <2>1. x \in DOMAIN r /\ n <= x
    BY <1>3, <1>5
  <2>. HIDE DEF x
  <2>2. x \in DOMAIN q => x \in Nat /\ x < n
    BY <1>1
  <2>3. x = n
    BY <1>1, <2>1, <2>2
  <2>4. QED BY <2>3 DEF x
<1>7. QED BY <1>1, <1>2, <1>3, <1>6

\* A notification is no answer.
LEMMA NotifiedAsked ==
    ASSUME NEW c \in Clients, NEW b \in Link(c), NEW d, NEW m \in Notice(c)
    PROVE  /\ AskedOn(d, b) => AskedOn(d, Down(b, m))
           /\ EarlyOn(d, b) => EarlyOn(d, Down(b, m))
<1>. DEFINE l == Down(b, m)
            n == Len(b.down) + 1
<1>1. m.type = "notify"
  BY DEF Notice
<1>2. CASE "client" \in b.cut
  BY <1>2, NotifiedIs
<1>3. CASE "client" \notin b.cut
  <2>1. /\ l.cut = b.cut /\ l.up = b.up
        /\ n \in DOMAIN l.down /\ l.down[n] = m /\ n \in Nat /\ n \notin DOMAIN b.down
        /\ \A i \in DOMAIN l.down : i = n \/ i \in DOMAIN b.down
        /\ \A i \in DOMAIN b.down :
             i \in Nat /\ i < n /\ i \in DOMAIN l.down /\ l.down[i] = b.down[i]
    BY <1>3, NotifiedIs
  <2>. HIDE DEF l, n
  <2>2. /\ \A i \in DOMAIN l.down : l.down[i].type # "notify" =>
             i \in DOMAIN b.down /\ l.down[i] = b.down[i]
        /\ \A i \in DOMAIN b.down : i \in DOMAIN l.down /\ l.down[i] = b.down[i]
    BY <1>1, <2>1
  <2>3. EarlyOn(d, b) => EarlyOn(d, l)
    BY ONLY <2>1, <2>2 DEF EarlyOn
  <2>4. ASSUME AskedOn(d, b)
        PROVE  AskedOn(d, l)
    <3>. DEFINE q == d.pending
    <3>1. \A i \in DOMAIN l.down : l.down[i].type # "notify" =>
            \E j \in DOMAIN q :
              /\ q[j].seq = l.down[i].seq /\ q[j].link = d.t
              /\ l.down[i].type = "ack" =>
                   \A t \in DOMAIN q[j].data : q[j].data[t] \in Contents
      <4>1. \A i \in DOMAIN b.down : b.down[i].type # "notify" =>
            \E j \in DOMAIN q :
              /\ q[j].seq = b.down[i].seq /\ q[j].link = d.t
              /\ b.down[i].type = "ack" =>
                   \A t \in DOMAIN q[j].data : q[j].data[t] \in Contents
        BY <2>4 DEF AskedOn
      <4>2. SUFFICES ASSUME NEW i \in DOMAIN l.down, l.down[i].type # "notify"
                     PROVE  \E j \in DOMAIN q :
                              /\ q[j].seq = l.down[i].seq /\ q[j].link = d.t
                              /\ l.down[i].type = "ack" =>
                                   \A t \in DOMAIN q[j].data : q[j].data[t] \in Contents
        OBVIOUS
      <4>3. i \in DOMAIN b.down /\ l.down[i] = b.down[i]
        BY <2>2, <4>2
      <4>4. QED BY <4>1, <4>2, <4>3
    <3>2. \A i, j \in DOMAIN l.down : /\ i < j
                                      /\ l.down[i].type # "notify" /\ l.down[j].type # "notify"
                                      => l.down[i].seq < l.down[j].seq
      BY ONLY <2>2, <2>4 DEF AskedOn
    <3>3. \A i \in DOMAIN l.down, j \in DOMAIN l.up :
            l.down[i].type # "notify" => l.down[i].seq < l.up[j].seq
      BY ONLY <2>1, <2>2, <2>4 DEF AskedOn
    <3>4. l.cut = {} => \A j \in DOMAIN q : q[j].link # 0 =>
            \/ \E i \in DOMAIN l.down : l.down[i].type # "notify" /\ l.down[i].seq = q[j].seq
            \/ \E i \in DOMAIN l.up : l.up[i].seq = q[j].seq
      BY ONLY <2>1, <2>2, <2>4 DEF AskedOn
    <3>5. /\ \A i \in DOMAIN q : q[i].link \in {0, d.t}
          /\ \A i \in DOMAIN l.up :
               \E j \in DOMAIN q : /\ q[j].seq = l.up[i].seq /\ q[j].link = d.t
                                   /\ q[j].data = l.up[i].data
          /\ \A i, j \in DOMAIN l.up : i < j => l.up[i].seq < l.up[j].seq
      BY ONLY <2>1, <2>4 DEF AskedOn
    <3>6. QED BY ONLY <3>1, <3>2, <3>3, <3>4, <3>5 DEF AskedOn
  <2>5. QED BY <2>3, <2>4 DEF l
<1>4. QED BY <1>2, <1>3

\* Whom notify_cb tells, and what.
Tells(c, k) == Watching(c, k) /\ Watches[c] # {} /\ Due(c, k) /\ Collected(c)

News(c) == Notify([t \in Watches[c] |-> Reading(t)])

LEMMA NewsIs ==
    ASSUME Types, NEW c \in Clients
    PROVE  News(c) \in Notice(c) /\ News(c).told = [t \in Watches[c] |-> Reading(t)]
<1>1. \A t \in Watches[c] : Reading(t) \in Contents
  <2>1. table \in [Tables -> Table \cup {None}] /\ Watches[c] \subseteq Tables
    BY DomainAssumption DEF Types
  <2>2. Empty \in Contents
    BY DEF Contents
  <2>3. QED BY <2>1, <2>2 DEF Reading, Table
<1>2. [t \in Watches[c] |-> Reading(t)] \in [Watches[c] -> Contents]
  BY <1>1
<1>3. QED BY <1>2 DEF News, Notify, Notice

LEMMA NotifyPlaces ==
    ASSUME NotifyChanges
    PROVE  /\ link' = [c \in Clients |-> [k \in Links(c) |->
                IF Tells(c, k) THEN Down(link[c][k], News(c)) ELSE link[c][k]]]
           /\ proxy' = [c \in Clients |-> [k \in Links(c) |->
                [proxy[c][k] EXCEPT !.fresh = @ /\ ~Tells(c, k)]]]
  BY DEF NotifyChanges, Tells, News

LEMMA NotifyIs ==
    ASSUME DomainInv, NotifyChanges, NEW c \in Clients, NEW k \in Links(c)
    PROVE  /\ Tells(c, k) => link'[c][k] = Down(link[c][k], News(c))
           /\ ~Tells(c, k) => link'[c][k] = link[c][k]
           /\ link'[c][k] \in Link(c) /\ link'[c][k].open = link[c][k].open
           /\ link'[c][k].cut = link[c][k].cut /\ link'[c][k].up = link[c][k].up
           /\ proxy'[c][k] \in Proxy(c) /\ proxy'[c][k].state = proxy[c][k].state
           /\ proxy'[c][k].tables = proxy[c][k].tables
           /\ proxy'[c][k].fresh = (proxy[c][k].fresh /\ ~Tells(c, k))
           /\ proxy[c][k] = NoProxy => proxy'[c][k] = NoProxy
           /\ Tells(c, k) => link[c][k].open /\ link[c][k].cut # {"server"}
<1>1. link[c][k] \in Link(c) /\ proxy[c][k] \in Proxy(c) /\ Types /\ LinkInv(c, k)
  BY PlaceIs DEF DomainInv, ClientInv
<1>2. News(c) \in Notice(c)
  BY <1>1, NewsIs
<1>3. link'[c][k] = IF Tells(c, k) THEN Down(link[c][k], News(c)) ELSE link[c][k]
  BY NotifyPlaces
<1>4. /\ link'[c][k] \in Link(c) /\ link'[c][k].open = link[c][k].open
      /\ link'[c][k].cut = link[c][k].cut /\ link'[c][k].up = link[c][k].up
  <2>1. CASE Tells(c, k)
    <3>. DEFINE b == link[c][k]
                m == News(c)
    <3>1. b \in Link(c) /\ m \in Notice(c)
      BY <1>1, <1>2
    <3>. HIDE DEF b, m
    <3>2. /\ Down(b, m) \in Link(c) /\ Down(b, m).open = b.open /\ Down(b, m).cut = b.cut
          /\ Down(b, m).up = b.up
      BY <3>1, NotifiedIs
    <3>3. QED BY <1>3, <2>1, <3>2 DEF b, m
  <2>2. CASE ~Tells(c, k)
    BY <1>1, <1>3, <2>2
  <2>3. QED BY <2>1, <2>2
<1>5. /\ proxy'[c][k] \in Proxy(c) /\ proxy'[c][k].state = proxy[c][k].state
      /\ proxy'[c][k].tables = proxy[c][k].tables
      /\ proxy'[c][k].fresh = (proxy[c][k].fresh /\ ~Tells(c, k))
  <2>. DEFINE p == proxy[c][k]
              f == p.fresh /\ ~Tells(c, k)
  <2>1. proxy'[c][k] = [p EXCEPT !.fresh = f]
    BY NotifyPlaces
  <2>2. f \in BOOLEAN /\ p \in Proxy(c)
    BY <1>1 DEF Proxy
  <2>. HIDE DEF f, p
  <2>3. /\ proxy'[c][k] \in Proxy(c) /\ proxy'[c][k].state = p.state
        /\ proxy'[c][k].tables = p.tables /\ proxy'[c][k].fresh = f
    BY <2>1, <2>2 DEF Proxy
  <2>4. QED BY <2>3 DEF f, p
<1>6. proxy[c][k] = NoProxy => proxy'[c][k] = NoProxy
  <2>1. SUFFICES ASSUME proxy[c][k] = NoProxy
                 PROVE  proxy'[c][k] = NoProxy
    OBVIOUS
  <2>2. /\ proxy'[c][k].state = "none" /\ proxy'[c][k].tables = {}
        /\ proxy'[c][k].fresh = FALSE
    <3>1. NoProxy.state = "none" /\ NoProxy.tables = {} /\ ~NoProxy.fresh
      BY DEF NoProxy
    <3>2. ~proxy'[c][k].fresh
      BY <1>5, <2>1, <3>1
    <3>3. proxy'[c][k].fresh \in BOOLEAN
      BY <1>5 DEF Proxy
    <3>4. QED BY <1>5, <2>1, <3>1, <3>2, <3>3
  <2>3. proxy'[c][k] = [state |-> proxy'[c][k].state, tables |-> proxy'[c][k].tables,
                        fresh |-> proxy'[c][k].fresh]
    BY <1>5 DEF Proxy
  <2>4. QED BY <2>2, <2>3 DEF NoProxy
<1>7. Tells(c, k) => link[c][k].open /\ link[c][k].cut # {"server"}
  <2>1. NoProxy.state # "registered"
    BY DEF NoProxy
  <2>2. QED BY <1>1, <2>1 DEF LinkInv, Tells, Watching
<1>8. QED BY <1>3, <1>4, <1>5, <1>6, <1>7

\* What the notifications leave of the handles.
LEMMA LooksUp ==
    ASSUME DomainInv, NotifyChanges
    PROVE  /\ \A t \in Tables : handle'[t] = LookedUp(t)
           /\ handle' \in [Tables -> {"none", "invalid", "live", "dead"}]
           /\ \A t \in Tables : /\ handle'[t] = "invalid" => table[t] = None
                                /\ handle[t] # "none" => handle'[t] # "none"
           /\ \A c \in Clients : \A k \in Links(c) : Watching(c, k) =>
                \A t \in Watches[c] : t \in Watched
<1>1. handle \in [Tables -> {"none", "invalid", "live", "dead"}] /\ HandleInv
  BY DEF DomainInv, Types
<1>2. handle' = [t \in Tables |-> LookedUp(t)]
  BY DEF NotifyChanges
<1>3. \A t \in Tables : LookedUp(t) \in {"none", "invalid", "live", "dead"}
  BY <1>1 DEF LookedUp
<1>4. \A t \in Tables : /\ LookedUp(t) = "invalid" => table[t] = None
                        /\ handle[t] # "none" => LookedUp(t) # "none"
  BY <1>1 DEF LookedUp, HandleInv
<1>5. \A c \in Clients : \A k \in Links(c) : Watching(c, k) =>
        \A t \in Watches[c] : t \in Watched
  BY DEF Watched
<1>6. \A t \in Tables : handle'[t] = LookedUp(t)
  BY <1>2
<1>7. handle' \in [Tables -> {"none", "invalid", "live", "dead"}]
  BY <1>2, <1>3
<1>8. QED BY <1>4, <1>5, <1>6, <1>7

\* Notifications leave what was acknowledged, and who is told nothing had
\* nothing to be told.
LEMMA NotifiedInv ==
    ASSUME DomainInv, NotifyChanges, NEW c \in Clients
    PROVE  ClientInv(c)' /\ Live(c)' = Live(c)
<1>1. /\ Types /\ ClientInv(c) /\ HandleInv
      /\ exports' = exports /\ dc' = dc /\ promised' = promised /\ seen' = seen
      /\ table' = table /\ up' = up /\ Own(c)' = Own(c) /\ Data(c)' = Data(c)
      /\ flagged' = {} /\ up /\ News(c) \in Notice(c)
      /\ News(c).told = [t \in Watches[c] |-> Reading(t)]
  BY SameOwn, NewsIs DEF DomainInv, NotifyChanges, client
<1>2. /\ dc[c] \in Domctl(c)
      /\ \A k \in Links(c) : link[c][k] \in Link(c) /\ proxy[c][k] \in Proxy(c) /\ LinkInv(c, k)
  BY <1>1, PlaceIs DEF ClientInv
<1>3. \A k \in Links(c) :
        /\ link'[c][k] \in Link(c) /\ link'[c][k].open = link[c][k].open
        /\ link'[c][k].cut = link[c][k].cut /\ link'[c][k].up = link[c][k].up
        /\ proxy'[c][k].state = proxy[c][k].state
        /\ proxy'[c][k].tables = proxy[c][k].tables
        /\ proxy'[c][k].fresh = (proxy[c][k].fresh /\ ~Tells(c, k))
        /\ proxy[c][k] = NoProxy => proxy'[c][k] = NoProxy
  BY NotifyIs
<1>4. /\ \A t : Reading(t)' = Reading(t)
      /\ \A k \in Links(c) : Watching(c, k)' = Watching(c, k)
  BY <1>1, <1>3 DEF Reading, Watching
<1>5. Live(c)' = Live(c)
  BY <1>1, <1>2, <1>3 DEF Live, Domctl
<1>6. ASSUME NEW k \in Links(c)
      PROVE  LinkInv(c, k)'
  <2>1. CASE Tells(c, k)
    <3>1. proxy[c][k].state = "registered" /\ link[c][k].open /\ link[c][k].cut # {"server"}
      BY <2>1, NotifyIs DEF Tells, Watching
    <3>2. link[c][k].cut = {"client"} => link'[c][k].down = link[c][k].down
      <4>1. link'[c][k] = Down(link[c][k], News(c))
        BY <2>1, NotifyIs
      <4>2. QED BY <4>1 DEF Down
    <3>3. LinkInv(c, k)
      BY <1>2
    <3>4. QED BY <1>1, <1>3, <3>1, <3>2, <3>3 DEF LinkInv
  <2>2. CASE ~Tells(c, k)
    <3>1. link'[c][k] = link[c][k] /\ LinkInv(c, k)
      BY <1>2, <2>2, NotifyIs
    <3>2. QED BY <1>1, <1>3, <3>1 DEF LinkInv
  <2>3. QED BY <2>1, <2>2
<1>7. PendingInv(c)'
  BY <1>1 DEF ClientInv, PendingInv, Numbered
<1>8. TimerInv(c)'
  <2>1. FreeLinks(c)' = FreeLinks(c)
    BY <1>3 DEF FreeLinks
  <2>2. TimerInv(c)
    BY <1>1 DEF ClientInv
  <2>3. QED BY <1>1, <1>5, <2>1, <2>2 DEF TimerInv
<1>9. EarlyInv(c) /\ AskedInv(c) /\ StoredInv(c)
  BY <1>1 DEF ClientInv
<1>10. ASSUME NEW k \in Links(c), k = dc[c].t
       PROVE  /\ \A i \in DOMAIN link'[c][k].down : link'[c][k].down[i].type # "notify" =>
                   i \in DOMAIN link[c][k].down /\ link'[c][k].down[i] = link[c][k].down[i]
              /\ \A i \in DOMAIN link[c][k].down :
                   i \in DOMAIN link'[c][k].down /\ link'[c][k].down[i] = link[c][k].down[i]
              /\ EarlyOn(dc[c], link[c][k]) => EarlyOn(dc[c], link'[c][k])
              /\ AskedOn(dc[c], link[c][k]) => AskedOn(dc[c], link'[c][k])
  <2>1. CASE Tells(c, k) /\ "client" \notin link[c][k].cut
    <3>. DEFINE b == link[c][k]
                m == News(c)
                l == link'[c][k]
    <3>1. b \in Link(c) /\ m \in Notice(c) /\ l = Down(b, m) /\ "client" \notin b.cut
      BY <1>1, <1>2, <2>1, NotifyIs
    <3>2. m.type = "notify"
      BY <1>1 DEF Notice
    <3>. HIDE DEF b, m, l
    <3>3. /\ l.down[Len(b.down) + 1] = m
          /\ \A i \in DOMAIN l.down : i = Len(b.down) + 1 \/ i \in DOMAIN b.down
          /\ \A i \in DOMAIN b.down : i \in DOMAIN l.down /\ l.down[i] = b.down[i]
      BY <3>1, NotifiedIs
    <3>4. /\ EarlyOn(dc[c], b) => EarlyOn(dc[c], l)
          /\ AskedOn(dc[c], b) => AskedOn(dc[c], l)
      BY <3>1, NotifiedAsked
    <3>5. /\ \A i \in DOMAIN l.down : l.down[i].type # "notify" =>
               i \in DOMAIN b.down /\ l.down[i] = b.down[i]
          /\ \A i \in DOMAIN b.down : i \in DOMAIN l.down /\ l.down[i] = b.down[i]
      BY ONLY <3>2, <3>3
    <3>6. QED BY <3>4, <3>5 DEF b, l
  <2>2. CASE ~(Tells(c, k) /\ "client" \notin link[c][k].cut)
    <3>1. link'[c][k] = link[c][k]
      BY <2>2, NotifyIs DEF Down
    <3>2. QED BY <3>1
  <2>3. QED BY <2>1, <2>2
<1>11. EarlyInv(c)' /\ AskedInv(c)' /\ StoredInv(c)'
  <2>1. CASE ~Live(c)
    <3>1. ~dc[c].connected
      BY <1>9, <2>1 DEF AskedInv
    <3>2. QED BY <1>1, <1>5, <2>1, <3>1 DEF EarlyInv, AskedInv, StoredInv
  <2>2. CASE Live(c)
    <3>1. PICK k \in Links(c) : k = dc[c].t
      BY <1>2, <2>2 DEF Live, Domctl
    <3>. DEFINE b == link[c][k]
                l == link'[c][k]
                d == dc[c]
    <3>2. /\ \A i \in DOMAIN l.down : l.down[i].type # "notify" =>
               i \in DOMAIN b.down /\ l.down[i] = b.down[i]
          /\ \A i \in DOMAIN b.down : i \in DOMAIN l.down /\ l.down[i] = b.down[i]
          /\ EarlyOn(d, b) => EarlyOn(d, l)
          /\ AskedOn(d, b) => AskedOn(d, l)
      BY <1>10, <3>1
    <3>3. /\ link'[c][dc'[c].t] = l /\ dc'[c] = d /\ l.cut = b.cut
          /\ (proxy'[c][dc'[c].t].state = "registered") = (proxy[c][k].state = "registered")
      BY <1>1, <1>3, <3>1
    <3>4. l.down \in Seq(Answer \cup Notice(c)) /\ b.down \in Seq(Answer \cup Notice(c))
      BY <1>2, <1>3 DEF Link
    <3>5. /\ ~d.connected =>
               /\ EarlyOn(d, b)
               /\ b.cut = {} /\ b.down # <<>> /\ b.down[1].type = "ack"
                    => proxy[c][k].state = "registered"
          /\ d.connected => (b.cut = {} => proxy[c][k].state = "registered") /\ AskedOn(d, b)
      BY <1>9, <2>2, <3>1 DEF EarlyInv, AskedInv, Watching
    <3>6. b.cut = {} /\ proxy[c][k].state = "registered" =>
            /\ d.connected /\ (\A i \in DOMAIN b.down : b.down[i].type # "ack")
                 => \A t \in Own(c) : Reading(t) = promised[c][t]
            /\ \A i \in DOMAIN b.down :
                 b.down[i].type = "ack" /\ (\A j \in DOMAIN b.down : b.down[j].type = "ack" => j <= i)
                   => \A t \in Own(c) :
                        /\ b.down[i].seq = 0 => Reading(t) = Empty
                        /\ \A j \in DOMAIN d.pending :
                             d.pending[j].seq = b.down[i].seq
                               => Reading(t) = d.pending[j].data[t]
            /\ ~d.connected => \E i \in DOMAIN b.down : b.down[i].type = "ack"
      BY <1>9, <2>2, <3>1 DEF StoredInv, Watching
    <3>. HIDE DEF l, b, d
    <3>7. Live(c)' = TRUE
      BY <1>5, <2>2 DEF Live
    <3>8. EarlyInv(c)'
      <4>1. l.down # <<>> /\ l.down[1].type = "ack" => b.down # <<>> /\ b.down[1].type = "ack"
        <5>1. SUFFICES ASSUME l.down # <<>>, l.down[1].type = "ack"
                       PROVE  b.down # <<>> /\ b.down[1].type = "ack"
          OBVIOUS
        <5>2. 1 \in DOMAIN l.down
          BY <3>4, <5>1
        <5>3. 1 \in DOMAIN b.down /\ b.down[1] = l.down[1]
          BY ONLY <3>2, <5>1, <5>2
        <5>4. b.down # <<>>
          BY ONLY <3>4, <5>3
        <5>5. QED BY <5>1, <5>3, <5>4
      <4>2. QED BY ONLY <3>2, <3>3, <3>5, <3>7, <4>1 DEF EarlyInv, Watching
    <3>9. AskedInv(c)'
      BY ONLY <3>2, <3>3, <3>5, <3>7 DEF AskedInv, Watching
    <3>10. StoredInv(c)'
      <4>1. /\ \A i \in DOMAIN l.down : l.down[i].type = "ack" =>
                 i \in DOMAIN b.down /\ b.down[i] = l.down[i]
            /\ \A i \in DOMAIN b.down : i \in DOMAIN l.down /\ b.down[i] = l.down[i]
        BY ONLY <3>2
      <4>2. l.cut = {} /\ proxy[c][k].state = "registered" =>
            /\ d.connected /\ (\A i \in DOMAIN l.down : l.down[i].type # "ack")
                 => \A t \in Own(c) : Reading(t) = promised[c][t]
            /\ \A i \in DOMAIN l.down :
                 l.down[i].type = "ack" /\ (\A j \in DOMAIN l.down : l.down[j].type = "ack" => j <= i)
                   => \A t \in Own(c) :
                        /\ l.down[i].seq = 0 => Reading(t) = Empty
                        /\ \A j \in DOMAIN d.pending :
                             d.pending[j].seq = l.down[i].seq
                               => Reading(t) = d.pending[j].data[t]
            /\ ~d.connected => \E i \in DOMAIN l.down : l.down[i].type = "ack"
        <5>1. SUFFICES ASSUME b.cut = {}, proxy[c][k].state = "registered"
                       PROVE
            /\ d.connected /\ (\A i \in DOMAIN l.down : l.down[i].type # "ack")
                 => \A t \in Own(c) : Reading(t) = promised[c][t]
            /\ \A i \in DOMAIN l.down :
                 l.down[i].type = "ack" /\ (\A j \in DOMAIN l.down : l.down[j].type = "ack" => j <= i)
                   => \A t \in Own(c) :
                        /\ l.down[i].seq = 0 => Reading(t) = Empty
                        /\ \A j \in DOMAIN d.pending :
                             d.pending[j].seq = l.down[i].seq
                               => Reading(t) = d.pending[j].data[t]
            /\ ~d.connected => \E i \in DOMAIN l.down : l.down[i].type = "ack"
          BY <3>3
        <5>2. d.connected /\ (\A i \in DOMAIN l.down : l.down[i].type # "ack")
                => \A t \in Own(c) : Reading(t) = promised[c][t]
          BY ONLY <3>6, <4>1, <5>1
        <5>3. ~d.connected => \E i \in DOMAIN l.down : l.down[i].type = "ack"
          BY ONLY <3>6, <4>1, <5>1
        <5>4. ASSUME NEW i \in DOMAIN l.down, l.down[i].type = "ack",
                     \A j \in DOMAIN l.down : l.down[j].type = "ack" => j <= i
              PROVE  \A t \in Own(c) :
                        /\ l.down[i].seq = 0 => Reading(t) = Empty
                        /\ \A j \in DOMAIN d.pending :
                             d.pending[j].seq = l.down[i].seq
                               => Reading(t) = d.pending[j].data[t]
          <6>1. /\ i \in DOMAIN b.down /\ b.down[i] = l.down[i]
                /\ \A j \in DOMAIN b.down : b.down[j].type = "ack" => j <= i
            BY ONLY <4>1, <5>4
          <6>2. b.down[i].type = "ack"
            BY <5>4, <6>1
          <6>3. QED BY ONLY <3>6, <5>1, <6>1, <6>2
        <5>5. QED BY <5>2, <5>3, <5>4
      <4>3. promised'[c] = promised[c] /\ Own(c)' = Own(c) /\ \A t : Reading(t)' = Reading(t)
        BY <1>1, <1>4
      <4>4. QED BY ONLY <3>3, <3>7, <4>2, <4>3 DEF StoredInv, Watching
    <3>11. QED BY <3>8, <3>9, <3>10
  <2>3. QED BY <2>1, <2>2
<1>12. ASSUME NEW k \in Links(c)
       PROVE  ToldInv(c, k)'
  <2>1. /\ \A t \in Tables : handle'[t] = LookedUp(t)
        /\ \A t \in Tables : handle'[t] = "invalid" => table[t] = None
        /\ \A t \in Watches[c] : t \in Tables
        /\ Watching(c, k) => \A t \in Watches[c] : t \in Watched
    BY LooksUp, DomainAssumption
  <2>2. SUFFICES ASSUME Watching(c, k), link[c][k].cut = {}
                 PROVE  ToldInv(c, k)'
    BY <1>3, <1>4 DEF ToldInv
  <2>3. ToldInv(c, k) /\ proxy[c][k] \in Proxy(c)
    BY <1>1, <1>2 DEF ClientInv
  <2>4. CASE Tells(c, k)
    <3>1. LastTold(c, k)' = News(c).told
      <4>1. /\ link[c][k] \in Link(c) /\ "client" \notin link[c][k].cut
            /\ link'[c][k] = Down(link[c][k], News(c)) /\ News(c) \in Notice(c)
        BY <1>1, <1>2, <2>2, <2>4, NotifyIs
      <4>2. QED BY ONLY <4>1, c \in Clients, NotifiedLast
    <3>2. \A t \in Watches[c] : LastTold(c, k)'[t] = Reading(t)
      BY <1>1, <3>1
    <3>3. \A t \in Watches[c] : /\ handle'[t] # "dead"
                                /\ handle'[t] = "invalid" => Reading(t) = Empty
      BY <2>1, <2>4 DEF Tells, Collected, Reading
    <3>4. ~proxy'[c][k].fresh
      BY <1>3, <2>4
    <3>5. QED BY <1>4, <3>2, <3>3, <3>4 DEF ToldInv
  <2>5. CASE ~Tells(c, k) /\ proxy[c][k].fresh
    <3>1. Watches[c] = {} \/ ~Collected(c)
      BY <2>2, <2>5 DEF Tells, Due
    <3>2. Watches[c] = {} \/ \E t \in Watches[c] : handle'[t] = "dead"
      BY <2>1, <3>1 DEF Collected
    <3>3. proxy'[c][k].fresh
      BY <1>3, <2>5
    <3>4. QED BY <3>2, <3>3 DEF ToldInv, Dead
  <2>6. CASE ~Tells(c, k) /\ ~proxy[c][k].fresh
    <3>1. \A t \in Watches[c] : /\ handle[t] = "dead" => t \in flagged
                                /\ handle[t] = "invalid" => LastTold(c, k)[t] = Empty
      BY <2>2, <2>3, <2>6 DEF ToldInv
    <3>2. Collected(c)
      BY <2>1, <2>2, <3>1 DEF Collected, LookedUp
    <3>3. \A t \in Watches[c] : t \notin flagged /\ handle[t] = "invalid"
      BY <2>2, <2>6, <3>2 DEF Tells, Due
    <3>4. \A t \in Watches[c] : /\ LastTold(c, k)[t] = Empty /\ Reading(t) = Empty
                                /\ handle'[t] # "dead"
      BY <1>1, <2>1, <3>1, <3>3 DEF HandleInv, Reading, LookedUp
    <3>5. link'[c][k] = link[c][k] /\ seen'[c] = seen[c]
      BY <1>1, <2>6, NotifyIs
    <3>6. LastTold(c, k)' = LastTold(c, k)
      BY <3>5, SameLast
    <3>7. ~proxy'[c][k].fresh
      BY <1>3, <2>6
    <3>8. QED BY <1>4, <3>4, <3>6, <3>7 DEF ToldInv
  <2>7. QED BY <2>4, <2>5, <2>6
<1>13. ClientInv(c)'
  BY <1>6, <1>7, <1>8, <1>11, <1>12, Zenon DEF ClientInv
<1>14. QED BY <1>5, <1>13

\* notify_cb
LEMMA NotifyKeeps ==
    ASSUME DomainInv, NotifyChanges
    PROVE  DomainInv' /\ \A c \in Clients : Live(c)' = Live(c)
<1>1. /\ Types /\ OwnerInv /\ HandleInv
      /\ exports' = exports /\ dc' = dc /\ wanted' = wanted /\ promised' = promised
      /\ seen' = seen /\ broken' = broken /\ table' = table /\ up' = up /\ crashes' = crashes
      /\ scheduled' = FALSE /\ flagged' = {}
  BY DEF DomainInv, NotifyChanges, client
<1>2. \A c \in Clients : ClientInv(c)' /\ Live(c)' = Live(c)
  BY NotifiedInv
<1>3. \A c \in Clients : \A k \in Links(c) :
        /\ link'[c][k] \in Link(c) /\ proxy'[c][k] \in Proxy(c)
        /\ proxy'[c][k].state = proxy[c][k].state /\ proxy'[c][k].tables = proxy[c][k].tables
  BY NotifyIs
<1>4. /\ link' = [c \in Clients |-> [k \in Links(c) |-> link'[c][k]]]
      /\ proxy' = [c \in Clients |-> [k \in Links(c) |-> proxy'[c][k]]]
  <2>1. /\ link' = [c \in Clients |-> [k \in Links(c) |->
              IF Tells(c, k) THEN Down(link[c][k], News(c)) ELSE link[c][k]]]
        /\ proxy' = [c \in Clients |-> [k \in Links(c) |->
              [proxy[c][k] EXCEPT !.fresh = @ /\ ~Tells(c, k)]]]
    BY NotifyPlaces
  <2>2. link' = [c \in Clients |-> [k \in Links(c) |-> link'[c][k]]]
    BY ONLY <2>1
  <2>3. proxy' = [c \in Clients |-> [k \in Links(c) |-> proxy'[c][k]]]
    BY ONLY <2>1
  <2>4. QED BY <2>2, <2>3
<1>5. \A c \in Clients : /\ Own(c)' = Own(c) /\ Domctl(c)' = Domctl(c)
                         /\ Link(c)' = Link(c) /\ Proxy(c)' = Proxy(c)
  BY <1>1, SameOwn
<1>6. Types'
  <2>1. handle' \in [Tables -> {"none", "invalid", "live", "dead"}]
    BY LooksUp
  <2>2. /\ exports' \in Exports
        /\ dc' = [c \in Clients |-> dc'[c]] /\ \A c \in Clients : dc'[c] \in Domctl(c)
        /\ wanted' \subseteq Clients
        /\ promised' = [c \in Clients |-> promised'[c]]
        /\ \A c \in Clients : promised'[c] \in [Own(c) -> Contents]
        /\ seen' = [c \in Clients |-> seen'[c]]
        /\ \A c \in Clients : seen'[c] \in [Watches[c] -> Contents]
        /\ table' \in [Tables -> Table \cup {None}]
        /\ up' \in BOOLEAN /\ broken' \in BOOLEAN /\ crashes' \in Nat
    BY <1>1 DEF Types
  <2>3. scheduled' \in BOOLEAN /\ flagged' \subseteq {t \in Tables : handle'[t] # "none"}
    BY <1>1
  <2>4. QED BY <1>3, <1>4, <1>5, <2>1, <2>2, <2>3 DEF Types, Table
<1>7. OwnerInv'
  BY <1>1, <1>3 DEF OwnerInv
<1>8. HandleInv'
  <2>1. \A c \in Clients : \A k \in Links(c) : Watching(c, k)' = Watching(c, k)
    BY <1>3 DEF Watching
  <2>2. /\ \A t \in Tables : /\ handle'[t] = "invalid" => table[t] = None
                             /\ handle[t] # "none" => handle'[t] # "none"
        /\ \A c \in Clients : \A t \in Watches[c] : t \in Tables
    BY LooksUp, DomainAssumption
  <2>3. QED BY <1>1, <2>1, <2>2 DEF HandleInv
<1>9. QED BY <1>2, <1>6, <1>7, <1>8 DEF DomainInv

LEMMA ServerCuts ==
    ASSUME NEW c \in Clients, NEW b \in Link(c)
    PROVE  LET l == CutByServer(b) IN
           /\ l \in Link(c)
           /\ ~b.open \/ "client" \in b.cut => l = NoLink
           /\ b.open /\ "client" \notin b.cut =>
                l.open /\ l.cut = {"server"} /\ l.up = <<>> /\ l.down = b.down
<1>1. CASE ~b.open \/ "client" \in b.cut
  <2>1. NoLink \in Link(c)
    BY DEF NoLink, Link
  <2>2. QED BY <1>1, <2>1 DEF CutByServer
<1>2. CASE b.open /\ "client" \notin b.cut
  <2>. DEFINE l == CutByServer(b)
  <2>1. l = [b EXCEPT !.cut = {"server"}, !.up = <<>>]
    BY <1>2 DEF CutByServer
  <2>2. <<>> \in Seq(Up(c))
    OBVIOUS
  <2>. HIDE DEF l
  <2>3. l \in Link(c) /\ l.open = b.open /\ l.cut = {"server"} /\ l.up = <<>> /\ l.down = b.down
    BY <2>1, <2>2 DEF Link
  <2>4. QED BY <1>2, <2>3 DEF l
<1>3. QED BY <1>1, <1>2

LEMMA CrashClient ==
    ASSUME DomainInv, Crash, NEW c \in Clients
    PROVE  ClientInv(c)' /\ Live(c)' = Live(c)
<1>1. /\ Types /\ ClientInv(c)
      /\ exports' = exports /\ dc' = dc /\ promised' = promised /\ seen' = seen
      /\ Own(c)' = Own(c) /\ Data(c)' = Data(c)
  BY SameOwn DEF DomainInv, Crash, client
<1>2. /\ dc[c] \in Domctl(c)
      /\ \A k \in Links(c) : link[c][k] \in Link(c) /\ LinkInv(c, k)
  BY <1>1, PlaceIs DEF ClientInv
<1>3. \A k \in Links(c) : proxy'[c][k] = NoProxy /\ link'[c][k] = CutByServer(link[c][k])
  BY DEF Crash, Fresh
<1>4. \A k \in Links(c) :
        /\ ~link[c][k].open \/ "client" \in link[c][k].cut => link'[c][k] = NoLink
        /\ link[c][k].open /\ "client" \notin link[c][k].cut =>
             /\ link'[c][k].open /\ link'[c][k].cut = {"server"}
             /\ link'[c][k].up = <<>> /\ link'[c][k].down = link[c][k].down
  BY <1>2, <1>3, ServerCuts
<1>5. /\ NoLink.open = FALSE /\ NoLink.cut = {} /\ NoProxy.state = "none"
      /\ NoProxy.tables = {} /\ NoProxy.fresh = FALSE /\ up' = FALSE
  BY DEF NoLink, NoProxy, Crash
<1>6. \A k \in Links(c) : (link'[c][k].open /\ "client" \notin link'[c][k].cut)
                            = (link[c][k].open /\ "client" \notin link[c][k].cut)
  BY <1>4, <1>5
<1>7. Live(c)' = Live(c)
  <2>1. CASE dc[c].t = 0
    BY <1>1, <2>1 DEF Live
  <2>2. CASE dc[c].t \in Links(c)
    BY <1>1, <1>6, <2>2 DEF Live
  <2>3. QED BY <1>2, <2>1, <2>2 DEF Domctl
<1>8. ASSUME NEW k \in Links(c)
      PROVE  LinkInv(c, k)'
  <2>1. CASE ~link[c][k].open \/ "client" \in link[c][k].cut
    <3>1. link'[c][k] = NoLink /\ proxy'[c][k] = NoProxy
      BY <1>3, <1>4, <2>1
    <3>2. QED BY ONLY <1>5, <3>1 DEF LinkInv
  <2>2. CASE link[c][k].open /\ "client" \notin link[c][k].cut
    <3>1. /\ link'[c][k].open /\ link'[c][k].cut = {"server"} /\ link'[c][k].up = <<>>
          /\ proxy'[c][k] = NoProxy
      BY <1>3, <1>4, <2>2
    <3>2. k = dc'[c].t
      <4>1. link[c][k].cut # {"client"}
        BY <2>2
      <4>2. QED BY <1>1, <1>2, <2>2, <4>1 DEF LinkInv
    <3>3. {"server"} # {"client"}
      BY "server" # "client"
    <3>4. QED BY ONLY <1>5, <3>1, <3>2, <3>3 DEF LinkInv
  <2>3. QED BY <2>1, <2>2
<1>9. PendingInv(c)'
  BY <1>1 DEF ClientInv, PendingInv, Numbered
<1>10. TimerInv(c)'
  <2>1. FreeLinks(c) \subseteq FreeLinks(c)'
    BY <1>4, <1>5 DEF FreeLinks
  <2>2. QED BY <1>1, <1>7, <2>1 DEF ClientInv, TimerInv
<1>11. EarlyInv(c)' /\ AskedInv(c)' /\ StoredInv(c)'
  <2>1. EarlyInv(c) /\ AskedInv(c)
    BY <1>1 DEF ClientInv
  <2>2. CASE ~Live(c)
    <3>1. ~dc[c].connected
      BY <2>1, <2>2 DEF AskedInv
    <3>2. QED BY <1>1, <1>7, <2>2, <3>1 DEF EarlyInv, AskedInv, StoredInv
  <2>3. CASE Live(c)
    <3>1. PICK k \in Links(c) : k = dc[c].t
      BY <1>2, <2>3 DEF Live, Domctl
    <3>2. /\ link'[c][dc'[c].t].cut = {"server"} /\ link'[c][dc'[c].t].up = <<>>
          /\ link'[c][dc'[c].t].down = link[c][k].down /\ dc'[c] = dc[c]
      BY <1>1, <1>4, <2>3, <3>1 DEF Live
    <3>3. /\ ~dc[c].connected => EarlyOn(dc[c], link[c][k])
          /\ dc[c].connected => AskedOn(dc[c], link[c][k])
      BY <2>1, <2>3, <3>1 DEF EarlyInv, AskedInv
    <3>4. ~dc[c].connected => EarlyOn(dc[c], link'[c][dc'[c].t])
      BY ONLY <3>2, <3>3 DEF EarlyOn
    <3>5. dc[c].connected => AskedOn(dc[c], link'[c][dc'[c].t])
      BY ONLY <3>2, <3>3 DEF AskedOn
    <3>6. {"server"} # {}
      OBVIOUS
    <3>7. Live(c)' = TRUE
      BY <1>7, <2>3 DEF Live
    <3>8. EarlyInv(c)'
      BY ONLY <3>2, <3>4, <3>6, <3>7 DEF EarlyInv
    <3>9. AskedInv(c)'
      BY ONLY <3>2, <3>5, <3>6, <3>7 DEF AskedInv
    <3>10. StoredInv(c)'
      BY ONLY <3>2, <3>6 DEF StoredInv
    <3>11. QED BY <3>8, <3>9, <3>10
  <2>4. QED BY <2>2, <2>3
<1>12. \A k \in Links(c) : ToldInv(c, k)'
  BY <1>3, <1>5 DEF ToldInv, Watching
<1>13. ClientInv(c)'
  BY <1>8, <1>9, <1>10, <1>11, <1>12, Zenon DEF ClientInv
<1>14. QED BY <1>7, <1>13

\* The daemon dies.
LEMMA CrashKeeps ==
    ASSUME DomainInv, Crash
    PROVE  DomainInv' /\ \A c \in Clients : Live(c)' = Live(c)
<1>1. /\ Types
      /\ exports' = exports /\ dc' = dc /\ wanted' = wanted /\ promised' = promised
      /\ seen' = seen /\ broken' = broken
      /\ link' = [c \in Clients |-> [k \in Links(c) |-> CutByServer(link[c][k])]]
      /\ proxy' = [c \in Clients |-> [k \in Links(c) |-> NoProxy]]
      /\ table' = [t \in Tables |-> None] /\ handle' = [t \in Tables |-> "none"]
      /\ flagged' = {} /\ scheduled' = FALSE /\ up' = FALSE /\ crashes' = crashes + 1
  BY DEF DomainInv, Crash, client, Fresh
<1>2. \A c \in Clients : ClientInv(c)' /\ Live(c)' = Live(c)
  BY CrashClient
<1>3. \A c \in Clients : \A k \in Links(c) : link'[c][k] \in Link(c) /\ proxy'[c][k] \in Proxy(c)
  <2>1. ASSUME NEW c \in Clients, NEW k \in Links(c)
        PROVE  link'[c][k] \in Link(c) /\ proxy'[c][k] \in Proxy(c)
    <3>1. link[c][k] \in Link(c)
      BY <1>1, PlaceIs
    <3>2. link'[c][k] = CutByServer(link[c][k]) /\ proxy'[c][k] = NoProxy
      BY <1>1
    <3>3. NoProxy \in Proxy(c)
      BY DEF NoProxy, Proxy
    <3>4. QED BY <3>1, <3>2, <3>3, ServerCuts
  <2>2. QED BY <2>1
<1>4. \A c \in Clients : /\ Own(c)' = Own(c) /\ Domctl(c)' = Domctl(c)
                         /\ Link(c)' = Link(c) /\ Proxy(c)' = Proxy(c)
  BY <1>1, SameOwn
<1>5. Types'
  <2>1. /\ link' = [c \in Clients |-> [k \in Links(c) |-> link'[c][k]]]
        /\ proxy' = [c \in Clients |-> [k \in Links(c) |-> proxy'[c][k]]]
    <3>1. link' = [c \in Clients |-> [k \in Links(c) |-> link'[c][k]]]
      BY <1>1
    <3>2. proxy' = [c \in Clients |-> [k \in Links(c) |-> proxy'[c][k]]]
      BY <1>1
    <3>3. QED BY <3>1, <3>2
  <2>2. /\ exports' \in Exports
        /\ dc' = [c \in Clients |-> dc'[c]] /\ \A c \in Clients : dc'[c] \in Domctl(c)
        /\ wanted' \subseteq Clients
        /\ promised' = [c \in Clients |-> promised'[c]]
        /\ \A c \in Clients : promised'[c] \in [Own(c) -> Contents]
        /\ seen' = [c \in Clients |-> seen'[c]]
        /\ \A c \in Clients : seen'[c] \in [Watches[c] -> Contents]
        /\ broken' \in BOOLEAN
    <3>1. /\ exports \in Exports
          /\ dc = [c \in Clients |-> dc[c]] /\ \A c \in Clients : dc[c] \in Domctl(c)
          /\ wanted \subseteq Clients
          /\ promised = [c \in Clients |-> promised[c]]
          /\ \A c \in Clients : promised[c] \in [Own(c) -> Contents]
          /\ seen = [c \in Clients |-> seen[c]]
          /\ \A c \in Clients : seen[c] \in [Watches[c] -> Contents]
          /\ broken \in BOOLEAN
      BY <1>1 DEF Types
    <3>2. /\ exports' = exports /\ dc' = dc /\ wanted' = wanted /\ promised' = promised
          /\ seen' = seen /\ broken' = broken
      BY <1>1
    <3>3. QED BY ONLY <3>1, <3>2
  <2>3. /\ table' \in [Tables -> Table \cup {None}]
        /\ handle' \in [Tables -> {"none", "invalid", "live", "dead"}]
        /\ scheduled' \in BOOLEAN /\ flagged' \subseteq {t \in Tables : handle'[t] # "none"}
        /\ up' \in BOOLEAN
    BY <1>1
  <2>4. crashes' \in Nat
    BY <1>1 DEF Types
  <2>5. QED BY <1>3, <1>4, <2>1, <2>2, <2>3, <2>4 DEF Types, Table
<1>6. NoProxy.tables = {} /\ NoProxy.state # "registered"
  BY DEF NoProxy
<1>7. OwnerInv'
  BY <1>1, <1>6 DEF OwnerInv
<1>8. HandleInv'
  BY <1>1, <1>6 DEF HandleInv, Watching
<1>9. QED BY <1>2, <1>5, <1>7, <1>8 DEF DomainInv

\* create_domain_control
LEMMA RestartKeeps ==
    ASSUME DomainInv, Restart
    PROVE  DomainInv' /\ \A c \in Clients : Live(c)' = Live(c)
<1>1. /\ UNCHANGED <<client, link, proxy, table, handle, flagged, scheduled, crashes>>
      /\ up' = TRUE
  BY DEF Restart
<1>2. /\ exports' = exports /\ dc' = dc /\ wanted' = wanted /\ promised' = promised
      /\ seen' = seen /\ broken' = broken /\ link' = link /\ proxy' = proxy
      /\ table' = table /\ handle' = handle /\ flagged' = flagged
      /\ scheduled' = scheduled /\ crashes' = crashes
  BY <1>1 DEF client
<1>3. \A c : /\ Own(c)' = Own(c) /\ Domctl(c)' = Domctl(c) /\ Data(c)' = Data(c)
             /\ Link(c)' = Link(c) /\ Proxy(c)' = Proxy(c)
  BY <1>2, SameOwn
<1>4. Types'
  BY <1>1, <1>2, <1>3 DEF DomainInv, Types, Table
<1>5. ASSUME NEW c \in Clients
      PROVE  ClientInv(c)' /\ Live(c)' = Live(c)
  <2>1. ClientInv(c)
    BY DEF DomainInv
  <2>2. \A k \in Links(c) : LinkInv(c, k)'
    BY <1>1, <1>2, <1>3, <2>1 DEF ClientInv, LinkInv
  <2>3. Live(c)' = Live(c) /\ FreeLinks(c)' = FreeLinks(c)
    BY <1>2 DEF Live, FreeLinks
  <2>4. /\ \A k : Watching(c, k)' = Watching(c, k)
        /\ \A t : Reading(t)' = Reading(t)
    BY <1>2 DEF Watching, Reading
  <2>5. PendingInv(c)' /\ TimerInv(c)'
    BY <1>2, <1>3, <2>1, <2>3 DEF ClientInv, PendingInv, Numbered, TimerInv
  <2>6. EarlyInv(c)'
    BY <1>2, <2>1, <2>3, <2>4 DEF ClientInv, EarlyInv
  <2>7. AskedInv(c)'
    BY <1>2, <2>1, <2>3, <2>4 DEF ClientInv, AskedInv
  <2>8. StoredInv(c)'
    BY <1>2, <1>3, <2>1, <2>3, <2>4, SMTT(30) DEF ClientInv, StoredInv
  <2>9. ASSUME NEW k \in Links(c)
        PROVE  ToldInv(c, k)'
    <3>1. ToldInv(c, k)
      BY <2>1 DEF ClientInv
    <3>2. QED BY <1>2, <3>1, SameTold
  <2>10. QED BY <2>2, <2>3, <2>5, <2>6, <2>7, <2>8, <2>9, Zenon DEF ClientInv
<1>6. OwnerInv' /\ HandleInv'
  BY <1>2 DEF DomainInv, OwnerInv, HandleInv, Watching
<1>7. QED BY <1>4, <1>5, <1>6 DEF DomainInv

LEMMA IdleKeepsAll ==
    ASSUME DomainInv, UNCHANGED vars
    PROVE  DomainInv' /\ \A c \in Clients : Live(c)' = Live(c)
<1>1. /\ exports' = exports /\ dc' = dc /\ wanted' = wanted /\ promised' = promised
      /\ seen' = seen /\ broken' = broken /\ link' = link /\ UNCHANGED server
  BY DEF vars, client
<1>2. /\ proxy' = proxy /\ table' = table /\ handle' = handle /\ flagged' = flagged
      /\ scheduled' = scheduled /\ up' = up /\ crashes' = crashes
  BY <1>1 DEF server
<1>3. \A c : /\ Own(c)' = Own(c) /\ Domctl(c)' = Domctl(c) /\ Data(c)' = Data(c)
             /\ Link(c)' = Link(c) /\ Proxy(c)' = Proxy(c)
  BY <1>1, SameOwn
<1>4. Types'
  BY <1>1, <1>2, <1>3 DEF DomainInv, Types, Table
<1>5. ASSUME NEW c \in Clients
      PROVE  ClientInv(c)' /\ Live(c)' = Live(c)
  <2>1. SameEnds(c) /\ ClientInv(c)
    BY <1>1, <1>2 DEF SameEnds, DomainInv
  <2>2. /\ \A k \in Links(c) : LinkInv(c, k)'
        /\ PendingInv(c)' /\ TimerInv(c)' /\ EarlyInv(c)' /\ AskedInv(c)'
        /\ Live(c)' = Live(c)
    BY <2>1, SameEndsKeep DEF ClientInv
  <2>3. \A t : Reading(t)' = Reading(t)
    BY <1>2 DEF Reading
  <2>4. StoredInv(c)'
    BY <1>1, <2>1, <2>3, SameStored DEF ClientInv
  <2>5. ASSUME NEW k \in Links(c)
        PROVE  ToldInv(c, k)'
    <3>1. ToldInv(c, k)
      BY <2>1 DEF ClientInv
    <3>2. QED BY <1>1, <1>2, <3>1, SameTold
  <2>6. QED BY <2>2, <2>4, <2>5, Zenon DEF ClientInv
<1>6. OwnerInv' /\ HandleInv'
  BY <1>2 DEF DomainInv, OwnerInv, HandleInv, Watching
<1>7. QED BY <1>4, <1>5, <1>6 DEF DomainInv

-----------------------------------------------------------------------------
(* The invariant *)

LEMMA DomainInit ==
    ASSUME Init
    PROVE  DomainInv /\ AloneInv /\ \A c \in Clients : Trying(c)
<1>1. /\ exports \in Exports
      /\ dc = [c \in Clients |-> NewDomctl] /\ wanted = {}
      /\ promised = [c \in Clients |-> Blank(c)]
      /\ seen = [c \in Clients |-> [t \in Watches[c] |-> Empty]]
      /\ broken = FALSE
      /\ link = [c \in Clients |-> [k \in Links(c) |-> NoLink]]
      /\ proxy = [c \in Clients |-> [k \in Links(c) |-> NoProxy]]
      /\ table = [t \in Tables |-> None] /\ handle = [t \in Tables |-> "none"]
      /\ flagged = {} /\ scheduled = FALSE /\ up = TRUE /\ crashes = 0
  BY DEF Init, Fresh
<1>2. /\ NewDomctl.t = 0 /\ ~NewDomctl.timer /\ ~NewDomctl.connected
      /\ NewDomctl.life = "live" /\ NewDomctl.pending = <<>> /\ NewDomctl.seqno = 1
      /\ \A c : NewDomctl \in Domctl(c)
  <2>1. \A c : <<>> \in Seq(Request(c))
    OBVIOUS
  <2>2. QED BY <2>1 DEF NewDomctl, Domctl
<1>3. \A c \in Clients : dc[c] = NewDomctl
  BY <1>1
<1>4. \A c \in Clients : \A k \in Links(c) : link[c][k] = NoLink /\ proxy[c][k] = NoProxy
  BY <1>1
<1>5. /\ ~NoLink.open /\ NoLink.cut = {} /\ NoProxy.state = "none"
      /\ NoProxy.tables = {} /\ NoProxy.fresh = FALSE
      /\ \A c : NoLink \in Link(c) /\ NoProxy \in Proxy(c)
  <2>1. \A c : <<>> \in Seq(Up(c)) /\ <<>> \in Seq(Answer \cup Notice(c))
    OBVIOUS
  <2>2. QED BY <2>1 DEF NoLink, NoProxy, Link, Proxy
<1>6. Types
  <2>1. Empty \in Contents
    BY DEF Contents
  <2>2. \A c \in Clients : /\ promised[c] \in [Own(c) -> Contents]
                           /\ seen[c] \in [Watches[c] -> Contents]
    BY <1>1, <2>1 DEF Blank
  <2>3. /\ dc = [c \in Clients |-> dc[c]] /\ promised = [c \in Clients |-> promised[c]]
        /\ seen = [c \in Clients |-> seen[c]]
    BY <1>1
  <2>4. /\ link = [c \in Clients |-> [k \in Links(c) |-> link[c][k]]]
        /\ proxy = [c \in Clients |-> [k \in Links(c) |-> proxy[c][k]]]
    BY <1>1
  <2>5. /\ table \in [Tables -> Table \cup {None}]
        /\ handle \in [Tables -> {"none", "invalid", "live", "dead"}]
        /\ flagged \subseteq {t \in Tables : handle[t] # "none"}
        /\ scheduled \in BOOLEAN /\ up \in BOOLEAN /\ broken \in BOOLEAN
        /\ crashes \in Nat /\ wanted \subseteq Clients /\ exports \in Exports
    BY <1>1
  <2>6. /\ \A c \in Clients : dc[c] \in Domctl(c)
        /\ \A c \in Clients : \A k \in Links(c) : link[c][k] \in Link(c) /\ proxy[c][k] \in Proxy(c)
    BY <1>2, <1>3, <1>4, <1>5
  <2>7. QED BY <2>2, <2>3, <2>4, <2>5, <2>6 DEF Types
<1>7. ASSUME NEW c \in Clients
      PROVE  ClientInv(c)
  <2>1. \A k \in Links(c) : LinkInv(c, k)
    <3>1. SUFFICES ASSUME NEW k \in Links(c)
                   PROVE  LinkInv(c, k)
      OBVIOUS
    <3>2. link[c][k] = NoLink /\ proxy[c][k] = NoProxy /\ up = TRUE
      BY <1>1, <1>4
    <3>3. {} # {"server"} /\ {} # {"client"}
      OBVIOUS
    <3>4. QED BY ONLY <1>5, <3>2, <3>3 DEF LinkInv
  <2>2. PendingInv(c)
    <3>1. MaxSets[c] \in Nat /\ 1 <= MaxSets[c] + 1
      BY DomainAssumption
    <3>2. /\ dc[c].pending = <<>> /\ dc[c].seqno = 1
      BY <1>2, <1>3
    <3>3. DOMAIN <<>> = {} /\ Len(<<>>) = 0
      OBVIOUS
    <3>4. QED BY <3>1, <3>2, <3>3 DEF PendingInv, Numbered
  <2>3. ~Live(c) /\ ~dc[c].timer /\ ~dc[c].connected
    BY <1>2, <1>3 DEF Live
  <2>4. TimerInv(c) /\ EarlyInv(c) /\ AskedInv(c) /\ StoredInv(c)
    BY <2>3 DEF TimerInv, EarlyInv, AskedInv, StoredInv
  <2>5. \A k \in Links(c) : ToldInv(c, k)
    BY <1>4, <1>5 DEF ToldInv, Watching
  <2>6. QED BY <2>1, <2>2, <2>4, <2>5 DEF ClientInv
<1>8. OwnerInv
  BY <1>1, <1>4, <1>5 DEF OwnerInv
<1>9. HandleInv
  BY <1>1, <1>4, <1>5 DEF HandleInv, Watching
<1>10. AloneInv /\ \A c \in Clients : Trying(c)
  BY <1>1, <1>2, <1>3 DEF AloneInv, Alone, Trying
<1>11. QED BY <1>6, <1>7, <1>8, <1>9, <1>10 DEF DomainInv

\* What the daemon does leaves the controllers alone.
LEMMA ServerSteps ==
    ASSUME DomainInv,
           \/ \E c \in Clients : \E k \in Links(c) : Server(c, k)
           \/ NotifyChanges
           \/ Crash
           \/ Restart
           \/ UNCHANGED vars
    PROVE  /\ DomainInv' /\ \A c \in Clients : Live(c)' = Live(c)
           /\ dc' = dc /\ wanted' = wanted /\ broken' = broken
<1>1. ASSUME NEW c \in Clients, NEW k \in Links(c), Server(c, k)
      PROVE  /\ DomainInv' /\ \A e \in Clients : Live(e)' = Live(e)
             /\ UNCHANGED client
  <2>1. CASE Accept(c, k)
    BY <2>1, AcceptKeeps DEF Accept
  <2>2. CASE Serve(c, k)
    <3>1. /\ proxy[c][k] # NoProxy /\ link[c][k].up # <<>>
          /\ ServeRegister(c, k) \/ ServeSet(c, k)
          /\ UNCHANGED <<client, up, crashes>>
      BY <2>2 DEF Serve
    <3>2. DomainInv' /\ \A e \in Clients : Live(e)' = Live(e)
      BY <3>1, RegisterKeeps, ServeSetKeeps
    <3>3. QED BY <3>1, <3>2
  <2>3. CASE Leave(c, k)
    BY <2>3, LeaveKeeps DEF Leave
  <2>4. QED BY <1>1, <2>1, <2>2, <2>3 DEF Server
<1>2. CASE NotifyChanges
  BY <1>2, NotifyKeeps DEF NotifyChanges, client
<1>3. CASE Crash
  BY <1>3, CrashKeeps DEF Crash, client
<1>4. CASE Restart
  BY <1>4, RestartKeeps DEF Restart, client
<1>5. CASE UNCHANGED vars
  BY <1>5, IdleKeepsAll DEF vars, client
<1>6. UNCHANGED client => dc' = dc /\ wanted' = wanted /\ broken' = broken
  BY DEF client
<1>7. QED BY <1>1, <1>2, <1>3, <1>4, <1>5, <1>6

LEMMA DomainStep ==
    ASSUME DomainInv, [Next]_vars
    PROVE  DomainInv'
<1>1. ASSUME NEW c \in Clients, Application(c)
      PROVE  DomainInv'
  <2>1. CASE Connect(c)
    BY <2>1, ConnectKeeps
  <2>2. ASSUME NEW choice \in Reactions \ {"nothing"}, Drop(c, choice)
        PROVE  DomainInv'
    BY <2>2, DropKeeps
  <2>3. ASSUME NEW data \in Requests[c], SetData(c, data)
        PROVE  DomainInv'
    BY <2>3, SetDataKeeps
  <2>4. QED BY <1>1, <2>1, <2>2, <2>3 DEF Application
<1>2. ASSUME NEW c \in Clients, Library(c)
      PROVE  DomainInv'
  <2>1. ASSUME NEW choice \in Reactions, Receive(c, choice)
        PROVE  DomainInv'
    <3>1. CASE choice = "nothing"
      BY <2>1, <3>1, ReceiveOn
    <3>2. CASE choice # "nothing"
      BY <2>1, <3>2, ReceiveCut
    <3>3. QED BY <3>1, <3>2
  <2>2. ASSUME NEW choice \in Reactions, NEW error \in Errors, Closed(c, error, choice)
        PROVE  DomainInv'
    BY <2>2, ClosedKeeps
  <2>3. QED BY <1>2, <2>1, <2>2 DEF Library
<1>3. ASSUME NEW c \in Clients, Reconnect(c)
      PROVE  DomainInv'
  BY <1>3, ReconnectKeeps
<1>4. QED BY <1>1, <1>2, <1>3, ServerSteps DEF Next

-----------------------------------------------------------------------------
(* Controllers are left alone, or go on trying *)

\* What c does is no business of the other controllers.
Apart(c) == \A e \in Clients : e # c =>
    dc'[e] = dc[e] /\ link'[e] = link[e] /\ (e \in wanted' <=> e \in wanted)

LEMMA WantedApart ==
    ASSUME NEW c, NEW choice, WantedAfter(c, choice)
    PROVE  /\ \A e : e # c => (e \in wanted' <=> e \in wanted)
           /\ choice = "nothing" => wanted' = wanted
           /\ choice # "nothing" => c \notin wanted'
  BY DEF WantedAfter

LEMMA PlacesApart ==
    ASSUME Types, NEW c \in Clients
    PROVE  /\ \A d : dc' = [dc EXCEPT ![c] = d] =>
                dc'[c] = d /\ \A e \in Clients : e # c => dc'[e] = dc[e]
           /\ \A k, l : link' = [link EXCEPT ![c][k] = l] =>
                \A e \in Clients : e # c => link'[e] = link[e]
<1>1. dc = [e \in Clients |-> dc[e]]
  BY DEF Types
<1>2. link = [e \in Clients |-> [k \in Links(e) |-> link[e][k]]]
  BY DEF Types
<1>3. QED BY <1>1, <1>2

\* try_connect makes a transport in place of a timer.
LEMMA ConnectedApart ==
    ASSUME Types, NEW c \in Clients, Connected(c), wanted' \ {c} = wanted \ {c}
    PROVE  Apart(c) /\ dc'[c].life = dc[c].life /\ ~dc'[c].timer
           /\ dc'[c].connected = dc[c].connected
<1>1. dc[c] \in Domctl(c)
  BY PlaceIs
<1>2. PICK k : k = Min(FreeLinks(c))
  OBVIOUS
<1>. DEFINE d == [dc[c] EXCEPT !.t = k, !.timer = FALSE, !.pending = Forsaken(@)]
            l == [NoLink EXCEPT !.open = TRUE, !.up = <<Register>>]
<1>3. dc' = [dc EXCEPT ![c] = d] /\ link' = [link EXCEPT ![c][k] = l]
  BY <1>2 DEF Connected
<1>4. d.life = dc[c].life /\ ~d.timer /\ d.connected = dc[c].connected
  BY <1>1 DEF Domctl
<1>. HIDE DEF d, l
<1>5. QED BY <1>3, <1>4, PlacesApart DEF Apart

LEMMA AloneKept ==
    ASSUME Types, AloneInv, NEW c \in Clients, Apart(c), Alone(c)', ~broken'
    PROVE  AloneInv'
<1>1. ASSUME NEW e \in Clients, e # c
      PROVE  Alone(e)'
  <2>1. Alone(e) /\ dc'[e] = dc[e] /\ (e \in wanted' <=> e \in wanted)
    BY <1>1 DEF AloneInv, Apart
  <2>2. QED BY <2>1 DEF Alone
<1>2. QED BY <1>1 DEF AloneInv

LEMMA TryingKept ==
    ASSUME Types, NEW c \in Clients, Apart(c), Trying(c)', \A e \in Clients : Trying(e)
    PROVE  \A e \in Clients : Trying(e)'
<1>1. ASSUME NEW e \in Clients, e # c
      PROVE  Trying(e)'
  <2>1. Trying(e) /\ dc'[e] = dc[e] /\ link'[e] = link[e] /\ (e \in wanted' <=> e \in wanted)
    BY <1>1 DEF Apart
  <2>2. QED BY <2>1 DEF Trying, Live
<1>2. QED BY <1>1

\* What a step of c leaves of c, and that it leaves the others.
Left(c) == Apart(c) /\ Alone(c)' /\ ~broken'

LEMMA ConnectLeft ==
    ASSUME DomainInv, AloneInv, NEW c \in Clients, Connect(c)
    PROVE  Left(c) /\ (Live(c)' \/ dc'[c].timer)
<1>1. Types /\ dc[c] \in Domctl(c) /\ ~broken
  BY PlaceIs DEF DomainInv, AloneInv
<1>2. /\ dc[c].life = "live" /\ wanted' = wanted \cup {c} /\ broken' = broken
      /\ up => Connected(c)
      /\ ~up => dc' = [dc EXCEPT ![c].timer = TRUE] /\ link' = link
  BY DEF Connect
<1>3. Apart(c) /\ dc'[c].life = "live"
  <2>1. CASE up
    BY <1>1, <1>2, <2>1, ConnectedApart
  <2>2. CASE ~up
    <3>. DEFINE d == [dc[c] EXCEPT !.timer = TRUE]
    <3>1. dc' = [dc EXCEPT ![c] = d] /\ link' = link
      BY <1>2, <2>2
    <3>2. d.life = dc[c].life
      BY <1>1 DEF Domctl
    <3>. HIDE DEF d
    <3>3. QED BY <1>1, <1>2, <3>1, <3>2, PlacesApart DEF Apart
  <2>3. QED BY <2>1, <2>2
<1>4. QED BY <1>1, <1>2, <1>3, ConnectKeeps DEF Left, Alone

\* The timer of a controller that is not wanted, or is freed, does not run.
LEMMA ReconnectLeft ==
    ASSUME DomainInv, AloneInv, NEW c \in Clients, Reconnect(c)
    PROVE  Left(c) /\ (Live(c)' \/ dc'[c].timer)
<1>1. Types /\ dc[c] \in Domctl(c) /\ ~broken /\ Alone(c)
  BY PlaceIs DEF DomainInv, AloneInv
<1>2. c \in wanted /\ dc[c].life = "live" /\ wanted' = wanted
  BY <1>1 DEF Reconnect, Alone, Domctl
<1>3. /\ broken' = broken
      /\ up => Connected(c)
      /\ ~up => dc' = [dc EXCEPT ![c].t = 0] /\ link' = link
  BY <1>2 DEF Reconnect
<1>4. Apart(c) /\ dc'[c].life = "live"
  <2>1. CASE up
    BY <1>1, <1>2, <1>3, <2>1, ConnectedApart
  <2>2. CASE ~up
    <3>. DEFINE d == [dc[c] EXCEPT !.t = 0]
    <3>1. dc' = [dc EXCEPT ![c] = d] /\ link' = link
      BY <1>3, <2>2
    <3>2. d.life = dc[c].life
      BY <1>1 DEF Domctl
    <3>. HIDE DEF d
    <3>3. QED BY <1>1, <1>2, <3>1, <3>2, PlacesApart DEF Apart
  <2>3. QED BY <2>1, <2>2
<1>5. QED BY <1>1, <1>2, <1>3, <1>4, ReconnectKeeps DEF Left, Alone

\* An application that drops a controller does not do so while it only tries.
LEMMA DropLeft ==
    ASSUME Habits = {}, DomainInv, AloneInv, NEW c \in Clients,
           NEW choice \in Reactions \ {"nothing"}, Drop(c, choice)
    PROVE  Left(c) /\ c \notin wanted'
<1>. DEFINE e == Callback(dc[c], choice)
<1>1. Types /\ ClientInv(c) /\ dc[c] \in Domctl(c) /\ ~broken
  BY PlaceIs DEF DomainInv, AloneInv
<1>2. dc[c].t = 0 => ~dc[c].connected /\ ~dc[c].timer
  <2>1. dc[c].t = 0 => ~dc[c].connected
    BY <1>1 DEF ClientInv, AskedInv, Live
  <2>2. ~(dc[c].t = 0 /\ dc[c].timer)
    BY DEF Drop
  <2>3. QED BY <2>1, <2>2
<1>3. e.t = 0 /\ ~e.connected /\ ~e.timer
  BY <1>1, <1>2, CallbackIs DEF ClientInv, PendingInv
<1>4. /\ dc' = [dc EXCEPT ![c] = e]
      /\ \/ link' = link
         \/ link' = [link EXCEPT ![c][dc[c].t] = CutByClient(link[c][dc[c].t])]
      /\ broken' = broken /\ WantedAfter(c, choice)
  BY DEF Drop, Becomes
<1>. HIDE DEF e
<1>5. dc'[c] = e /\ \A x \in Clients : x # c => dc'[x] = dc[x] /\ link'[x] = link[x]
  <2>1. dc'[c] = e /\ \A x \in Clients : x # c => dc'[x] = dc[x]
    BY ONLY <1>1, <1>4, c \in Clients, PlacesApart
  <2>2. PICK l : l = CutByClient(link[c][dc[c].t])
    OBVIOUS
  <2>3. link' = link \/ link' = [link EXCEPT ![c][dc[c].t] = l]
    BY ONLY <1>4, <2>2
  <2>4. \A x \in Clients : x # c => link'[x] = link[x]
    BY ONLY <1>1, <2>3, c \in Clients, PlacesApart
  <2>5. QED BY <2>1, <2>4
<1>6. (\A x : x # c => (x \in wanted' <=> x \in wanted)) /\ c \notin wanted'
  BY <1>4, WantedApart
<1>7. QED BY <1>1, <1>3, <1>4, <1>5, <1>6 DEF Left, Apart, Alone

LEMMA SetDataLeft ==
    ASSUME DomainInv, AloneInv, NEW c \in Clients, NEW data \in Requests[c], SetData(c, data)
    PROVE  Left(c) /\ Live(c)'
<1>1. Types /\ dc[c] \in Domctl(c) /\ ~broken /\ Alone(c)
  BY PlaceIs DEF DomainInv, AloneInv
<1>2. dc[c].connected /\ wanted' = wanted /\ broken' = broken
  BY DEF SetData
<1>3. PICK k, m : k = dc[c].t /\ m = SetTables(dc[c].seqno, [t \in Own(c) |-> data[t]])
  OBVIOUS
<1>. DEFINE r == [seq |-> m.seq, link |-> k, data |-> m.data]
            d == [dc[c] EXCEPT !.seqno = @ + 1, !.pending = Append(@, r)]
<1>4. dc' = [dc EXCEPT ![c] = d] /\ link' = [link EXCEPT ![c][k] = Upward(@, m)]
  BY <1>3 DEF SetData
<1>5. d.life = dc[c].life
  BY <1>1 DEF Domctl
<1>. HIDE DEF d
<1>6. Apart(c) /\ dc'[c].life = dc[c].life
  BY <1>1, <1>2, <1>4, <1>5, PlacesApart DEF Apart
<1>7. c \in wanted /\ dc[c].life # "freed"
  BY <1>1, <1>2 DEF Alone
<1>8. QED BY <1>1, <1>2, <1>6, <1>7, SetDataKeeps DEF Left, Alone

\* recv_cb leaves the timer alone, and a controller that reads is wanted.
LEMMA ReceiveLeft ==
    ASSUME DomainInv, AloneInv, NEW c \in Clients, NEW choice \in Reactions, Receive(c, choice)
    PROVE  Left(c) /\ (choice = "nothing" => Live(c)') /\ (choice # "nothing" => c \notin wanted')
<1>1. Types /\ dc[c] \in Domctl(c) /\ ~broken /\ Alone(c)
  BY PlaceIs DEF DomainInv, AloneInv
<1>2. PICK k \in Links(c) : \E m : Received(c, choice, k, m)
  BY ReceiveIs
<1>3. PICK m : Received(c, choice, k, m)
  BY <1>2
<1>. DEFINE d == Reply(dc[c], m)
            e == Callback(d, choice)
<1>4. k = dc[c].t /\ Live(c) /\ link[c][k].down # <<>> /\ m = Head(link[c][k].down)
  BY <1>3 DEF Received
<1>5. /\ d \in Domctl(c) /\ Numbered(c, d) /\ d.t = k /\ k # 0 /\ d.timer = dc[c].timer
      /\ d.life = dc[c].life
  BY <1>4, ReplyIs DEF Live
<1>6. ~dc[c].timer /\ c \in wanted /\ dc[c].life # "freed"
  <2>1. ~dc[c].timer
    BY <1>4 DEF DomainInv, ClientInv, TimerInv
  <2>2. QED BY <1>1, <1>4, <2>1 DEF Alone, Live
<1>. HIDE DEF d
<1>7. /\ choice = "nothing" => e = d
      /\ choice # "nothing" => e.t = 0 /\ ~e.connected /\ ~e.timer
  BY <1>5, CallbackIs
<1>. HIDE DEF e
<1>8. PICK l : ClientStep(c, k, e, l)
  BY <1>3 DEF Received, d, e
<1>9. /\ broken' = broken /\ WantedAfter(c, choice)
  BY <1>3 DEF Received
<1>10. dc'[c] = e /\ \A x \in Clients : x # c => dc'[x] = dc[x] /\ link'[x] = link[x]
  BY ONLY <1>1, <1>8, c \in Clients, PlacesApart DEF ClientStep
<1>11. /\ \A x : x # c => (x \in wanted' <=> x \in wanted)
       /\ choice = "nothing" => wanted' = wanted
       /\ choice # "nothing" => c \notin wanted'
  BY <1>9, WantedApart
<1>12. Apart(c)
  BY <1>10, <1>11 DEF Apart
<1>13. CASE choice = "nothing"
  BY <1>1, <1>5, <1>6, <1>7, <1>9, <1>10, <1>11, <1>12, <1>13, ReceiveOn DEF Left, Alone
<1>14. CASE choice # "nothing"
  BY <1>1, <1>7, <1>9, <1>10, <1>11, <1>12, <1>14 DEF Left, Alone
<1>15. QED BY <1>13, <1>14

\* closed_cb: the application does nothing in it, and a controller whose
\* connection ends without an error has its timer set.
LEMMA ClosedLeft ==
    ASSUME Habits = {}, DomainInv, AloneInv, NEW c \in Clients, NEW error \in Errors,
           NEW choice \in Reactions, Closed(c, error, choice)
    PROVE  Left(c) /\ (~error => dc'[c].timer)
<1>. DEFINE b == [dc[c] EXCEPT !.connected = FALSE]
            e == [b EXCEPT !.timer = @ \/ ~error]
            k == dc[c].t
<1>1. Types /\ dc[c] \in Domctl(c) /\ ~broken /\ Alone(c) /\ error \in BOOLEAN
  BY PlaceIs, DomainAssumption DEF DomainInv, AloneInv
<1>2. Live(c) /\ choice = "nothing"
  BY DEF Closed
<1>3. c \in wanted /\ dc[c].life # "freed"
  BY <1>1, <1>2 DEF Alone, Live
<1>4. Callback(b, choice) = b
  BY <1>2 DEF Callback
<1>5. b.life = dc[c].life /\ e.life = dc[c].life /\ (~error => e.timer)
  BY <1>1 DEF Domctl
<1>6. /\ broken' = (b.life = "freed" /\ ~error)
      /\ dc' = [dc EXCEPT ![c] = e]
      /\ link' = [link EXCEPT ![c][k] = CutByClient(link[c][k])]
      /\ WantedAfter(c, choice)
  BY <1>4 DEF Closed
<1>7. ~broken' /\ wanted' = wanted
  BY <1>2, <1>3, <1>5, <1>6, WantedApart
<1>8. PICK l : link' = [link EXCEPT ![c][k] = l]
  BY <1>6
<1>. HIDE DEF b, e, k
<1>9. dc'[c] = e /\ \A x \in Clients : x # c => dc'[x] = dc[x] /\ link'[x] = link[x]
  <2>1. dc'[c] = e /\ \A x \in Clients : x # c => dc'[x] = dc[x]
    BY ONLY <1>1, <1>6, c \in Clients, PlacesApart
  <2>2. \A x \in Clients : x # c => link'[x] = link[x]
    BY ONLY <1>1, <1>8, c \in Clients, PlacesApart
  <2>3. QED BY <2>1, <2>2
<1>10. QED BY <1>3, <1>5, <1>7, <1>9 DEF Left, Apart, Alone

LEMMA AloneStep ==
    ASSUME Habits = {}, DomainInv, AloneInv, [Next]_vars
    PROVE  AloneInv'
<1>1. ASSUME NEW c \in Clients, Application(c) \/ Library(c) \/ Reconnect(c)
      PROVE  Left(c)
  BY <1>1, ConnectLeft, DropLeft, SetDataLeft, ReceiveLeft, ClosedLeft, ReconnectLeft
     DEF Application, Library
<1>2. ASSUME NEW c \in Clients, Application(c) \/ Library(c) \/ Reconnect(c)
      PROVE  AloneInv'
  <2>1. Left(c) /\ Types
    BY <1>1, <1>2 DEF DomainInv
  <2>2. QED BY <2>1, AloneKept DEF Left
<1>3. ASSUME \/ \E c \in Clients : \E k \in Links(c) : Server(c, k)
             \/ NotifyChanges \/ Crash \/ Restart \/ UNCHANGED vars
      PROVE  AloneInv'
  <2>1. dc' = dc /\ wanted' = wanted /\ broken' = broken
    BY <1>3, ServerSteps
  <2>2. QED BY <2>1 DEF AloneInv, Alone
<1>4. QED BY <1>2, <1>3 DEF Next

\* With no error of the socket a controller that is wanted goes on trying.
LEMMA TryingStep ==
    ASSUME Habits = {}, Errors = {FALSE}, DomainInv, AloneInv,
           \A c \in Clients : Trying(c), [Next]_vars
    PROVE  \A c \in Clients : Trying(c)'
<1>1. ASSUME NEW c \in Clients, Application(c) \/ Library(c) \/ Reconnect(c)
      PROVE  Apart(c) /\ Trying(c)'
  <2>1. CASE Application(c)
    <3>1. CASE Connect(c)
      BY <3>1, ConnectLeft DEF Left, Trying
    <3>2. ASSUME NEW choice \in Reactions \ {"nothing"}, Drop(c, choice)
          PROVE  Apart(c) /\ Trying(c)'
      BY <3>2, DropLeft DEF Left, Trying
    <3>3. ASSUME NEW data \in Requests[c], SetData(c, data)
          PROVE  Apart(c) /\ Trying(c)'
      BY <3>3, SetDataLeft DEF Left, Trying
    <3>4. QED BY <2>1, <3>1, <3>2, <3>3 DEF Application
  <2>2. CASE Library(c)
    <3>1. ASSUME NEW choice \in Reactions, Receive(c, choice)
          PROVE  Apart(c) /\ Trying(c)'
      BY <3>1, ReceiveLeft DEF Left, Trying
    <3>2. ASSUME NEW choice \in Reactions, NEW error \in Errors, Closed(c, error, choice)
          PROVE  Apart(c) /\ Trying(c)'
      BY <3>2, ClosedLeft DEF Left, Trying
    <3>3. QED BY <2>2, <3>1, <3>2 DEF Library
  <2>3. CASE Reconnect(c)
    BY <2>3, ReconnectLeft DEF Left, Trying
  <2>4. QED BY <1>1, <2>1, <2>2, <2>3
<1>2. ASSUME NEW c \in Clients, Application(c) \/ Library(c) \/ Reconnect(c)
      PROVE  \A e \in Clients : Trying(e)'
  <2>1. Apart(c) /\ Trying(c)' /\ Types
    BY <1>1, <1>2 DEF DomainInv
  <2>2. QED BY <2>1, TryingKept
<1>3. ASSUME \/ \E c \in Clients : \E k \in Links(c) : Server(c, k)
             \/ NotifyChanges \/ Crash \/ Restart \/ UNCHANGED vars
      PROVE  \A e \in Clients : Trying(e)'
  <2>1. /\ dc' = dc /\ wanted' = wanted
        /\ \A c \in Clients : Live(c)' = Live(c)
    BY <1>3, ServerSteps
  <2>2. QED BY <2>1 DEF Trying
<1>4. QED BY <1>2, <1>3 DEF Next

-----------------------------------------------------------------------------
(* What the invariant says *)

LEMMA TypesAreOK ==
    ASSUME DomainInv
    PROVE  TypeOK
<1>1. Types
  BY DEF DomainInv
<1>2. ASSUME NEW c \in Clients
      PROVE  /\ dc[c].life \in {"live", "freed"}
             /\ dc[c].t \in Links(c) \cup {0}
             /\ dc[c].timer \in BOOLEAN /\ dc[c].connected \in BOOLEAN
             /\ dc[c].seqno \in 1..(MaxSets[c] + 1)
             /\ Len(dc[c].pending) <= MaxSets[c]
             /\ promised[c] \in [Own(c) -> Contents]
             /\ seen[c] \in [Watches[c] -> Contents]
  <2>1. /\ dc[c] \in Domctl(c) /\ promised[c] \in [Own(c) -> Contents]
        /\ seen[c] \in [Watches[c] -> Contents]
    BY <1>1, PlaceIs
  <2>2. Numbered(c, dc[c]) /\ MaxSets[c] \in Nat
    BY DomainAssumption DEF DomainInv, ClientInv, PendingInv
  <2>3. dc[c].seqno \in Nat \ {0} /\ dc[c].pending \in Seq(Request(c))
    BY <2>1 DEF Domctl
  <2>4. dc[c].seqno \in 1..(MaxSets[c] + 1) /\ Len(dc[c].pending) <= MaxSets[c]
    <3>1. Len(dc[c].pending) \in Nat
      BY <2>3
    <3>2. Len(dc[c].pending) < dc[c].seqno /\ dc[c].seqno <= MaxSets[c] + 1
      BY <2>2 DEF Numbered
    <3>3. QED BY ONLY <2>2, <2>3, <3>1, <3>2
  <2>5. QED BY <2>1, <2>4 DEF Domctl
<1>3. ASSUME NEW c \in Clients, NEW k \in Links(c)
      PROVE  /\ link[c][k].cut \in {{}, {"client"}, {"server"}}
             /\ ~link[c][k].open => link[c][k] = NoLink
             /\ proxy[c][k].state \in {"none", "accepted", "registered", "rejected"}
             /\ proxy[c][k].tables \subseteq Own(c)
  <2>1. link[c][k] \in Link(c) /\ proxy[c][k] \in Proxy(c) /\ LinkInv(c, k)
    BY <1>1, PlaceIs DEF DomainInv, ClientInv
  <2>2. ~link[c][k].open => link[c][k] = NoLink
    BY <2>1 DEF LinkInv
  <2>3. QED BY <2>1, <2>2 DEF Link, Proxy
<1>4. ASSUME NEW t \in Tables, table[t] # None
      PROVE  table[t].data \in Contents
  <2>1. table[t] \in Table
    BY <1>1, <1>4 DEF Types
  <2>2. QED BY <2>1 DEF Table
<1>5. /\ wanted \subseteq Clients
      /\ handle \in [Tables -> {"none", "invalid", "live", "dead"}]
      /\ flagged \subseteq {t \in Tables : handle[t] # "none"}
      /\ {scheduled, up, broken} \subseteq BOOLEAN
  BY <1>1 DEF Types
<1>6. QED BY <1>2, <1>3, <1>4, <1>5 DEF TypeOK

LEMMA InvServes ==
    ASSUME DomainInv
    PROVE  Served
<1>1. ASSUME NEW c \in Clients, dc[c].connected
      PROVE  /\ Live(c)
             /\ link[c][dc[c].t].cut = {} =>
                  /\ Watching(c, dc[c].t)
                  /\ \A t \in Own(c) :
                       table[t] # None /\ table[t].owner = <<c, dc[c].t>>
  <2>1. dc[c] \in Domctl(c) /\ AskedInv(c)
    BY PlaceIs DEF DomainInv, ClientInv
  <2>2. Live(c) /\ (link[c][dc[c].t].cut = {} => Watching(c, dc[c].t))
    BY <1>1, <2>1 DEF AskedInv
  <2>3. dc[c].t \in Links(c)
    BY <2>1, <2>2 DEF Live, Domctl
  <2>4. Watching(c, dc[c].t) => proxy[c][dc[c].t].tables = Own(c)
    BY <2>3 DEF DomainInv, ClientInv, LinkInv, Watching
  <2>5. QED BY <2>2, <2>3, <2>4 DEF DomainInv, OwnerInv
<1>2. ConnectedIsServed
  BY <1>1 DEF ConnectedIsServed
<1>3. ASSUME NEW t \in Tables, table[t] # None
      PROVE  t \in proxy[table[t].owner[1]][table[t].owner[2]].tables
  <2>1. PICK c \in Clients : \E k \in Links(c) :
          table[t].owner = <<c, k>> /\ t \in proxy[c][k].tables
    BY <1>3 DEF DomainInv, OwnerInv
  <2>2. PICK k \in Links(c) : table[t].owner = <<c, k>> /\ t \in proxy[c][k].tables
    BY <2>1
  <2>3. QED BY <2>2
<1>4. TablesHaveOwners
  BY <1>3 DEF DomainInv, OwnerInv, TablesHaveOwners
<1>5. QED BY <1>2, <1>4 DEF Served

LEMMA InvAnswers ==
    ASSUME DomainInv
    PROVE  AnswersAreTrue
<1>1. ASSUME NEW c \in Clients, dc[c].connected, link[c][dc[c].t].cut = {}
      PROVE  /\ Live(c) /\ dc[c].t # 0 /\ Watching(c, dc[c].t)
             /\ AskedOn(dc[c], link[c][dc[c].t]) /\ Numbered(c, dc[c])
  BY <1>1 DEF DomainInv, ClientInv, AskedInv, PendingInv, Live
<1>2. OneToOne
  <2>1. SUFFICES ASSUME NEW c \in Clients, dc[c].connected, link[c][dc[c].t].cut = {}
                 PROVE  LET l == link[c][dc[c].t]
                            pending == dc[c].pending
                            asked == {i \in DOMAIN pending : pending[i].link = dc[c].t} IN
                        /\ Ascending(pending, asked)
                        /\ Ascending(l.down, Answers(c)) /\ Ascending(l.up, DOMAIN l.up)
                        /\ \A i \in Answers(c), j \in DOMAIN l.up :
                             l.down[i].seq < l.up[j].seq
                        /\ {pending[i].seq : i \in asked} =
                             {l.down[i].seq : i \in Answers(c)}
                               \cup {l.up[j].seq : j \in DOMAIN l.up}
    BY DEF OneToOne
  <2>. DEFINE l == link[c][dc[c].t]
              pending == dc[c].pending
              asked == {i \in DOMAIN pending : pending[i].link = dc[c].t}
  <2>2. /\ l.cut = {} /\ pending = dc[c].pending
        /\ asked = {i \in DOMAIN pending : pending[i].link = dc[c].t}
        /\ AskedOn(dc[c], l) /\ Numbered(c, dc[c]) /\ dc[c].t # 0
        /\ Answers(c) = {i \in DOMAIN l.down : l.down[i].type # "notify"}
    BY <1>1, <2>1 DEF Answers
  <2>. HIDE DEF l, pending, asked
  <2>3. \A i, j \in DOMAIN pending : i < j => pending[i].seq < pending[j].seq
    BY <2>2 DEF Numbered
  <2>4. Ascending(pending, asked)
    BY <2>2, <2>3 DEF Ascending
  <2>5. /\ Ascending(l.down, Answers(c)) /\ Ascending(l.up, DOMAIN l.up)
        /\ \A i \in Answers(c), j \in DOMAIN l.up : l.down[i].seq < l.up[j].seq
    BY <2>2 DEF AskedOn, Ascending
  <2>6. \A i \in Answers(c) : \E j \in asked : pending[j].seq = l.down[i].seq
    BY <2>2 DEF AskedOn
  <2>7. \A i \in DOMAIN l.up : \E j \in asked : pending[j].seq = l.up[i].seq
    BY <2>2 DEF AskedOn
  <2>8. \A j \in asked : \/ \E i \in Answers(c) : l.down[i].seq = pending[j].seq
                         \/ \E i \in DOMAIN l.up : l.up[i].seq = pending[j].seq
    BY <2>2 DEF AskedOn
  <2>9. {pending[i].seq : i \in asked} =
          {l.down[i].seq : i \in Answers(c)} \cup {l.up[j].seq : j \in DOMAIN l.up}
    BY ONLY <2>6, <2>7, <2>8
  <2>10. QED BY <2>4, <2>5, <2>9 DEF l, pending, asked
<1>3. ASSUME NEW c \in Clients, dc[c].connected, link[c][dc[c].t].cut = {},
             \A i \in DOMAIN dc[c].pending : dc[c].pending[i].link # dc[c].t,
             NEW t \in Own(c)
      PROVE  Reading(t) = promised[c][t]
  <2>1. /\ Live(c) /\ dc[c].t # 0 /\ Watching(c, dc[c].t)
        /\ AskedOn(dc[c], link[c][dc[c].t]) /\ StoredInv(c)
    BY <1>1, <1>3 DEF DomainInv, ClientInv
  <2>2. \A i \in DOMAIN link[c][dc[c].t].down : link[c][dc[c].t].down[i].type = "notify"
    BY <1>3, <2>1 DEF AskedOn
  <2>3. QED BY <1>3, <2>1, <2>2 DEF StoredInv
<1>4. AckedIsStored
  BY <1>3 DEF AckedIsStored
<1>5. QED BY <1>2, <1>4 DEF AnswersAreTrue

LEMMA InvTells ==
    ASSUME DomainInv
    PROVE  ToldIsCurrent
<1>1. ASSUME ~scheduled, NEW c \in Clients, NEW k \in Links(c),
             Watching(c, k), link[c][k].cut = {}, ~Dead(c), NEW t \in Watches[c]
      PROVE  LastTold(c, k)[t] = Reading(t)
  <2>1. ToldInv(c, k)
    BY DEF DomainInv, ClientInv
  <2>2. QED BY <1>1, <2>1 DEF ToldInv
<1>2. QED BY <1>1 DEF ToldIsCurrent

-----------------------------------------------------------------------------
(* The theorems *)

\* Whatever applications do, however often the daemon dies and connections end:
\* what is under way, what is pending, what is stored and what was told agree.
THEOREM DomainAgrees == Spec => []DomainInv
<1>1. Init => DomainInv
  BY DomainInit
<1>2. DomainInv /\ [Next]_vars => DomainInv'
  BY DomainStep
<1>3. QED BY <1>1, <1>2, PTL DEF Spec

\* A controller that believes to be connected is registered with a daemon that
\* runs and owns the tables it exports; a table lives as long as the connection
\* that made it.
THEOREM ConnectionsAreServed == Spec => []Served
<1>1. DomainInv => Served
  BY InvServes
<1>2. QED BY <1>1, DomainAgrees, PTL

\* Every request has one answer, in the order of the requests, and when none is
\* under way the tables hold what was granted last.
THEOREM AnswersStayTrue == Spec => []AnswersAreTrue
<1>1. DomainInv => AnswersAreTrue
  BY InvAnswers
<1>2. QED BY <1>1, DomainAgrees, PTL

\* With no notification scheduled every registered controller has been sent what
\* its tables hold, but for tables that were dropped while nobody watched them.
THEOREM TellsWhatIs == Spec => []ToldIsCurrent
<1>1. DomainInv => ToldIsCurrent
  BY InvTells
<1>2. QED BY <1>1, DomainAgrees, PTL

\* An application that drops its controller neither while it only tries to
\* connect nor in closed_cb is rid of it for good, however connections end:
\* nothing freed is touched, no timer is left to connect again.
THEOREM DroppedIsLeftAlone ==
    ASSUME Habits = {}
    PROVE  Spec => [](NothingFreedIsUsed /\ DropIsFinal)
<1>1. Init => DomainInv /\ AloneInv
  BY DomainInit
<1>2. DomainInv /\ AloneInv /\ [Next]_vars => DomainInv' /\ AloneInv'
  BY AloneStep, DomainStep
<1>3. AloneInv => NothingFreedIsUsed /\ DropIsFinal
  BY DEF AloneInv, Alone, NothingFreedIsUsed, DropIsFinal
<1>4. QED BY <1>1, <1>2, <1>3, PTL DEF Spec

\* If moreover connections end without an error of the socket, a controller the
\* application has not dropped has a connection or a timer to try again.
THEOREM DomainIsSound ==
    ASSUME Habits = {}, Errors = {FALSE}
    PROVE  Spec => []Sound
<1>. DEFINE Inv == DomainInv /\ AloneInv /\ \A c \in Clients : Trying(c)
<1>1. Init => Inv
  BY DomainInit
<1>2. Inv /\ [Next]_vars => Inv'
  <2>1. SUFFICES ASSUME Inv, [Next]_vars
                 PROVE  DomainInv' /\ AloneInv' /\ \A c \in Clients : Trying(c)'
    OBVIOUS
  <2>2. QED BY <2>1, AloneStep, DomainStep, TryingStep
<1>3. Inv => Sound
  <2>1. SUFFICES ASSUME Inv
                 PROVE  Sound
    OBVIOUS
  <2>2. TypeOK
    BY <2>1, TypesAreOK
  <2>3. NothingFreedIsUsed /\ DropIsFinal
    BY <2>1 DEF AloneInv, Alone, NothingFreedIsUsed, DropIsFinal
  <2>4. KeepsTrying
    BY <2>1 DEF Types, DomainInv, Trying, KeepsTrying
  <2>5. QED BY <2>2, <2>3, <2>4 DEF Sound
<1>. HIDE DEF Inv
<1>4. QED BY <1>1, <1>2, <1>3, PTL DEF Spec
=============================================================================
