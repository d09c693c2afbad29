----------------------- MODULE ResourceProtocolProofs -----------------------
(***************************************************************************)
(* What the native resource protocol keeps, for any clients, sets and      *)
(* resources: what an application believes of its sets is the server's     *)
(* last word (BeliefsAreRight), and the sets of the server and of the      *)
(* libraries correspond (SetsCorrespond).  Applications have none of the   *)
(* habits the library mistakes.                                            *)
(***************************************************************************)
EXTENDS ResourceProtocol, SequenceTheorems, FiniteSetTheorems, WellFoundedInduction, TLAPS

ServerSet == [client : Clients, state : {"acquire", "release"},
              grant : Offers, advice : Offers]

States == {"pending", "acquired", "available", "lost"}

Types ==
    /\ requests \in [Clients -> Seq(Message)]
    /\ replies \in [Clients -> Seq(Message)]
    /\ link \in [Clients -> {"up", "down"}]
    /\ served \subseteq Clients
    /\ closing \in served \cup {None}
    /\ nextId \in Nat \ {0}
    /\ DOMAIN rset \subseteq 1..(nextId - 1)
    /\ rset \in [DOMAIN rset -> ServerSet]
    /\ context \in [Clients -> [state : {"disconnected", "connected", "gone"},
                                got : SUBSET Queries, connected : BOOLEAN,
                                seqno : Nat \ {0}]]
    /\ lib \in [Sets -> [refs : Nat, id : Nat, seqno : Nat, state : States,
                         pending : BOOLEAN, edited : BOOLEAN, told : States]]
    /\ wants \in [Sets -> BOOLEAN]

\* The server keeps no sets for clients it has forgotten, and forgets only
\* those whose connection has ended.
ServerInv ==
    /\ \A i \in DOMAIN rset : rset[i].client \in served
    /\ closing # None => link[closing] = "down"

\* What the library knows of one set.
LibInv(s) ==
    /\ lib[s].refs <= MaxRefs[s]
    /\ lib[s].refs = 0 => lib[s] = NoSet
    /\ ~lib[s].edited
    /\ lib[s].id < nextId
    /\ lib[s].seqno < context[OwnerOf[s]].seqno
    /\ lib[s].id = 0 => lib[s].state = "pending"
    /\ lib[s].pending => lib[s].id = 0 /\ wants[s] /\ lib[s].seqno # 0
    /\ lib[s].seqno = 0 => lib[s].told = lib[s].state

IsA(q, k, req) == k \in DOMAIN q /\ q[k].req = req
Made(q, k) == IsA(q, k, "create") /\ q[k].ok

\* Identifiers come from the server, and each is given once.
IdsInv(c) ==
    /\ \A k \in DOMAIN replies[c] :
         /\ replies[c][k].req = "event" => replies[c][k].id \in 1..(nextId - 1)
         /\ replies[c][k].req \in {"create", "acquire", "release"} /\ replies[c][k].ok
              => replies[c][k].id \in 1..(nextId - 1)
    /\ \A k \in DOMAIN replies[c] : Made(replies[c], k) =>
         /\ \A s \in SetsOf(c) : lib[s].id # replies[c][k].id
         /\ \A j \in DOMAIN replies[c] :
              Made(replies[c], j) /\ replies[c][j].id = replies[c][k].id => j = k
    /\ \A s, t \in SetsOf(c) : s # t /\ lib[s].id # 0 => lib[s].id # lib[t].id
    /\ \A s, t \in SetsOf(c) : s # t /\ lib[s].pending /\ lib[t].pending
                                 => lib[s].seqno # lib[t].seqno

\* A creation on its way, there or back, is that of one pending set.
CreateInv(c) ==
    /\ \A k \in DOMAIN requests[c] : requests[c][k].req = "create" =>
         /\ Pending(c, requests[c][k].seqno) # {}
         /\ \A j \in DOMAIN requests[c] :
              IsA(requests[c], j, "create") /\ requests[c][j].seqno = requests[c][k].seqno => j = k
         /\ \A j \in DOMAIN replies[c] :
              IsA(replies[c], j, "create") => replies[c][j].seqno # requests[c][k].seqno
    /\ \A k \in DOMAIN replies[c] : replies[c][k].req = "create" =>
         /\ Pending(c, replies[c][k].seqno) # {}
         /\ \A j \in DOMAIN replies[c] :
              IsA(replies[c], j, "create") /\ replies[c][j].seqno = replies[c][k].seqno => j = k

\* The sets of the server and those of the library, and what is under way
\* between them.
SetInv(c) ==
    /\ \A k \in DOMAIN replies[c] : Made(replies[c], k) => Finds(c, replies[c][k].id)
    /\ \A s \in SetsOf(c) : lib[s].id # 0 => Finds(c, lib[s].id)
    /\ \A k \in DOMAIN requests[c] : requests[c][k].req = "destroy" /\ requests[c][k].id # 0 =>
         /\ requests[c][k].id < nextId
         /\ \A s \in SetsOf(c) : lib[s].id # requests[c][k].id
         /\ \A j \in DOMAIN replies[c] : Made(replies[c], j) => replies[c][j].id # requests[c][k].id
    /\ \A i \in DOMAIN rset : rset[i].client = c =>
         \/ Mapped(c, i) # {}
         \/ \E k \in DOMAIN replies[c] : Made(replies[c], k) /\ replies[c][k].id = i
         \/ \E k \in DOMAIN requests[c] : requests[c][k].req = "destroy" /\ requests[c][k].id = i

\* The last event about a set on its way, and what the library knows when
\* there is none, are what the server decided last.
EventInv(c) ==
    /\ \A i \in DOMAIN rset, k \in DOMAIN replies[c] :
         (/\ rset[i].client = c
          /\ k \in EventsAhead(c, i)
          /\ \A j \in EventsAhead(c, i) : j <= k)
           => replies[c][k].grant = rset[i].grant /\ replies[c][k].advice = rset[i].advice
    /\ \A s \in SetsOf(c) : lib[s].id # 0 /\ EventsAhead(c, lib[s].id) = {} =>
         \/ lib[s].state = StateOf(rset[lib[s].id].grant, rset[lib[s].id].advice)
         \/ lib[s].state = "pending" /\ Asked(s, "acquire")

\* A set its application does not want is not asked for, or will not be once
\* the releases on their way have arrived: no acquisition is behind the last.
ReleaseInv(c) ==
    \A s \in SetsOf(c) : lib[s].id # 0 /\ ~wants[s] =>
      /\ \A k \in DOMAIN requests[c] :
           requests[c][k].req = "acquire" /\ requests[c][k].id = lib[s].id =>
             \E j \in DOMAIN requests[c] : /\ j > k
                                           /\ requests[c][j].req = "release"
                                           /\ requests[c][j].id = lib[s].id
      /\ Asked(s, "release") \/ rset[lib[s].id].state = "release"

Together(c) == CreateInv(c) /\ SetInv(c) /\ EventInv(c) /\ ReleaseInv(c)

\* The inductive invariant.
IInv ==
    /\ Types
    /\ ServerInv
    /\ \A s \in Sets : LibInv(s)
    /\ \A c \in Clients : IdsInv(c)
    /\ \A c \in Clients : Connected(c) => Together(c)

-----------------------------------------------------------------------------
(* Numbers and sequences *)

\* Every set of natural numbers that is not empty has a least element: initial
\* segments are finite, and the finite sets are well-founded under inclusion.
LEMMA Smallest ==
    ASSUME NEW S \in SUBSET Nat, S # {}
    PROVE  \E n \in S : \A m \in S : n <= m
<1>. DEFINE T == {0..m : m \in S}
            R == StrictSubsetOrdering(Nat)
<1>1. IsWellFoundedOn(R, FiniteSubsetsOf(Nat))
  BY FS_StrictSubsetOrderingWellFounded
<1>2. T \subseteq FiniteSubsetsOf(Nat)
  <2>1. SUFFICES ASSUME NEW m \in S
                 PROVE  0..m \in FiniteSubsetsOf(Nat)
    OBVIOUS
  <2>2. IsFiniteSet(0..m)
    BY FS_Interval
  <2>3. 0..m \in SUBSET Nat
    OBVIOUS
  <2>4. QED BY <2>2, <2>3 DEF FiniteSubsetsOf
<1>3. T # {}
  OBVIOUS
<1>4. \E x \in T : \A y \in T : ~ (<<y, x>> \in R)
  <2>. HIDE DEF T, R
  <2>1. QED BY <1>1, <1>2, <1>3, WFMin
<1>5. PICK n \in S : \A m \in S : <<0..m, 0..n>> \notin R
  BY <1>4
<1>6. ASSUME NEW m \in S, m < n
      PROVE  FALSE
  <2>1. /\ 0..m \subseteq 0..n /\ 0..m # 0..n
        /\ 0..m \in SUBSET Nat /\ 0..n \in SUBSET Nat
    BY <1>6
  <2>2. <<0..m, 0..n>> \in R
    BY <2>1 DEF StrictSubsetOrdering
  <2>3. QED BY <1>5, <2>2
<1>7. QED BY <1>6

LEMMA Greatest ==
    ASSUME NEW n \in Nat, NEW S \in SUBSET (1..n), S # {}
    PROVE  LastOf(S) \in S /\ \A j \in S : j <= LastOf(S)
<1>. DEFINE D == {n - k : k \in S}
<1>1. D \in SUBSET Nat /\ D # {}
  <2>1. ASSUME NEW k \in S
        PROVE  n - k \in Nat
    <3>1. k \in 1..n
      OBVIOUS
    <3>2. QED BY <3>1
  <2>2. PICK k : k \in S
    OBVIOUS
  <2>3. n - k \in D
    BY <2>2
  <2>4. QED BY <2>1, <2>3
<1>2. PICK d \in D : \A e \in D : d <= e
  BY <1>1, Smallest
<1>3. PICK k \in S : d = n - k
  BY <1>2
<1>4. ASSUME NEW j \in S
      PROVE  j <= k
  <2>1. n - k <= n - j
    BY <1>2, <1>3
  <2>2. QED BY <2>1
<1>5. QED BY <1>4 DEF LastOf

\* An ascending enumeration of I.
Enumerates(m, q, I) ==
    /\ q \in [1..m -> I]
    /\ \A j, k \in 1..m : j < k => q[j] < q[k]
    /\ \A i \in I : \E k \in 1..m : q[k] = i

LEMMA EnumerationExists ==
    ASSUME NEW n \in Nat, NEW I \in SUBSET (1..n)
    PROVE  \E m \in Nat : \E q \in [1..m -> I] : Enumerates(m, q, I)
<1>. DEFINE Good(J) == \E m \in Nat : \E q \in [1..m -> J] : Enumerates(m, q, J)
            Bad == {b \in Nat : \E J \in SUBSET (1..b) : ~Good(J)}
<1>1. SUFFICES ASSUME Bad # {}
               PROVE  FALSE
  BY DEF Bad
<1>2. PICK b \in Bad : \A a \in Bad : b <= a
  BY <1>1, Smallest
<1>3. PICK J \in SUBSET (1..b) : ~Good(J)
  BY <1>2
<1>4. CASE b = 0
  <2>1. J = {}
    BY <1>4
  <2>2. PICK q \in [1..0 -> J] : TRUE
    <3>1. [k \in 1..0 |-> 0] \in [1..0 -> J]
      OBVIOUS
    <3>2. QED BY <3>1
  <2>3. Enumerates(0, q, J)
    BY <2>1, <2>2 DEF Enumerates
  <2>4. QED BY <2>3, <1>3
<1>5. CASE b # 0
  <2>1. b - 1 \in Nat /\ b - 1 \notin Bad
    <3>1. b \in Nat
      OBVIOUS
    <3>2. b - 1 \in Nat /\ ~(b <= b - 1)
      BY <3>1, <1>5
    <3>3. QED BY <3>2, <1>2
  <2>2. J \ {b} \in SUBSET (1..(b - 1))
    BY <1>5
  <2>3. PICK m \in Nat : \E q \in [1..m -> J \ {b}] : Enumerates(m, q, J \ {b})
    BY <2>1, <2>2
  <2>4. PICK q \in [1..m -> J \ {b}] : Enumerates(m, q, J \ {b})
    BY <2>3
  <2>5. CASE b \notin J
    <3>1. J \ {b} = J
      BY <2>5
    <3>2. QED BY <3>1, <2>4, <1>3
  <2>6. CASE b \in J
    <3>. DEFINE p == [k \in 1..(m + 1) |-> IF k = m + 1 THEN b ELSE q[k]]
    <3>1. p \in [1..(m + 1) -> J]
      BY <2>6
    <3>2. ASSUME NEW j \in 1..(m + 1), NEW k \in 1..(m + 1), j < k
          PROVE  p[j] < p[k]
      <4>1. p[j] = q[j] /\ q[j] \in J \ {b} /\ j \in 1..m
        BY <3>2
      <4>2. CASE k = m + 1
        <5>1. p[k] = b
          BY <4>2
        <5>2. q[j] \in 1..b /\ q[j] # b
          BY <4>1
        <5>3. QED BY <4>1, <5>1, <5>2
      <4>3. CASE k # m + 1
        <5>1. k \in 1..m /\ p[k] = q[k]
          BY <4>3
        <5>2. QED BY <3>2, <4>1, <5>1, <2>4 DEF Enumerates
      <4>4. QED BY <4>2, <4>3
    <3>3. ASSUME NEW i \in J
          PROVE  \E k \in 1..(m + 1) : p[k] = i
      <4>1. CASE i = b
        BY <4>1
      <4>2. CASE i # b
        <5>1. PICK k \in 1..m : q[k] = i
          BY <2>4, <4>2 DEF Enumerates
        <5>2. k \in 1..(m + 1) /\ p[k] = i
          BY <5>1
        <5>3. QED BY <5>2
      <4>3. QED BY <4>1, <4>2
    <3>. HIDE DEF p
    <3>4. Enumerates(m + 1, p, J)
      BY <3>1, <3>2, <3>3 DEF Enumerates
    <3>5. QED BY <3>1, <3>4, <1>3
  <2>7. QED BY <2>5, <2>6
<1>6. QED BY <1>4, <1>5

\* InOrder enumerates a set of identifiers.
LEMMA OrderIsRight ==
    ASSUME NEW n \in Nat, NEW I \in SUBSET (1..n)
    PROVE  /\ Cardinality(I) \in Nat
           /\ InOrder(I) \in [1..Cardinality(I) -> I]
           /\ \A i \in I : \E k \in 1..Cardinality(I) : InOrder(I)[k] = i
<1>. DEFINE N == Cardinality(I)
            Asc(q) == \A j, k \in 1..N : j < k => q[j] < q[k]
<1>1. PICK m \in Nat : \E q \in [1..m -> I] : Enumerates(m, q, I)
  BY EnumerationExists
<1>2. PICK q \in [1..m -> I] : Enumerates(m, q, I)
  BY <1>1
<1>3. q \in Bijection(1..m, I)
  <2>1. ASSUME NEW a \in 1..m, NEW b \in 1..m, q[a] = q[b]
        PROVE  a = b
    <3>1. q[a] \in Nat
      <4>1. q[a] \in I
        OBVIOUS
      <4>2. q[a] \in 1..n
        BY <4>1
      <4>3. QED BY <4>2
    <3>2. (a < b => q[a] < q[b]) /\ (b < a => q[b] < q[a])
      BY <1>2 DEF Enumerates
    <3>3. QED BY <2>1, <3>1, <3>2
  <2>2. q \in Injection(1..m, I)
    <3>. HIDE <1>2
    <3>1. QED BY <2>1 DEF Injection, IsInjective
  <2>3. q \in Surjection(1..m, I)
    BY <1>2 DEF Surjection, Enumerates
  <2>4. QED BY <2>2, <2>3 DEF Bijection
<1>4. N = m
  <2>1. ExistsBijection(1..m, I)
    BY <1>3 DEF ExistsBijection
  <2>2. QED BY <2>1, FS_CountingElements
<1>5. InOrder(I) \in [1..N -> I] /\ Asc(InOrder(I))
  <2>1. q \in [1..N -> I] /\ Asc(q)
    BY <1>2, <1>4 DEF Enumerates
  <2>. DEFINE E == {p \in [1..N -> I] : Asc(p)}
  <2>2. InOrder(I) = CHOOSE p \in [1..N -> I] : Asc(p)
    BY DEF InOrder
  <2>. HIDE DEF N, Asc
  <2>3. QED BY <2>1, <2>2
<1>6. InOrder(I) \in Injection(1..N, I)
  <2>. DEFINE p == InOrder(I)
  <2>1. ASSUME NEW a \in 1..N, NEW b \in 1..N, p[a] = p[b]
        PROVE  a = b
    <3>1. N \in Nat
      BY <1>4
    <3>2. p[a] \in I
      BY <1>5
    <3>3. p[a] \in Nat
      <4>1. p[a] \in 1..n
        BY <3>2
      <4>2. QED BY <4>1
    <3>4. (a < b => p[a] < p[b]) /\ (b < a => p[b] < p[a])
      BY <1>5
    <3>5. QED BY <2>1, <3>1, <3>3, <3>4
  <2>. HIDE DEF p, N
  <2>2. p \in [1..N -> I]
    BY <1>5 DEF p
  <2>3. p \in Injection(1..N, I)
    BY <2>1, <2>2, Zenon DEF Injection, IsInjective
  <2>4. QED BY <2>3 DEF p
<1>7. InOrder(I) \in Surjection(1..N, I)
  <2>1. IsFiniteSet(I)
    <3>1. IsFiniteSet(1..n)
      BY FS_Interval
    <3>2. QED BY <3>1, FS_Subset
  <2>2. Cardinality(1..N) = N
    <3>1. N \in Nat
      BY <1>4
    <3>2. QED BY <3>1, FS_Interval
  <2>3. QED BY <1>6, <2>1, <2>2, FS_Injection
<1>8. QED BY <1>4, <1>5, <1>7 DEF Surjection

\* Where the messages of a queue are once the first was taken.
LEMMA TailPlaces ==
    ASSUME NEW M, NEW q \in Seq(M), q # <<>>
    PROVE  /\ Tail(q) \in Seq(M) /\ Head(q) \in M /\ Head(q) = q[1]
           /\ 1 \in DOMAIN q /\ DOMAIN q \subseteq Nat /\ DOMAIN Tail(q) \subseteq Nat
           /\ \A k \in DOMAIN Tail(q) : k + 1 \in DOMAIN q /\ Tail(q)[k] = q[k + 1]
           /\ \A k \in DOMAIN q : k # 1 => k - 1 \in DOMAIN Tail(q) /\ Tail(q)[k - 1] = q[k]
<1>1. /\ Head(q) \in M /\ Tail(q) \in Seq(M) /\ Len(Tail(q)) = Len(q) - 1
      /\ \A i \in 1..Len(Tail(q)) : Tail(q)[i] = q[i + 1]
  BY HeadTailProperties
<1>2. Head(q) = q[1]
  OBVIOUS
<1>3. PICK n \in Nat : n = Len(q) /\ n # 0 /\ DOMAIN q = 1..n
  BY EmptySeq, LenProperties
<1>4. DOMAIN Tail(q) = 1..(n - 1)
  BY <1>1, <1>3, LenProperties
<1>5. \A i \in 1..(n - 1) : Tail(q)[i] = q[i + 1]
  BY <1>1, <1>3
<1>6. QED BY <1>1, <1>2, <1>3, <1>4, <1>5

\* Where they are once others were sent.
LEMMA AddedPlaces ==
    ASSUME NEW M, NEW q \in Seq(M), NEW r \in Seq(M)
    PROVE  /\ q \o r \in Seq(M)
           /\ DOMAIN q \subseteq Nat /\ DOMAIN r \subseteq Nat /\ DOMAIN (q \o r) \subseteq Nat
           /\ Len(q) \in Nat /\ DOMAIN q = 1..Len(q)
           /\ \A k \in DOMAIN q : k \in DOMAIN (q \o r) /\ (q \o r)[k] = q[k]
           /\ \A k \in DOMAIN r : /\ Len(q) + k \in DOMAIN (q \o r)
                                  /\ (q \o r)[Len(q) + k] = r[k]
           /\ \A k \in DOMAIN (q \o r) : k \notin DOMAIN q =>
                k > Len(q) /\ k - Len(q) \in DOMAIN r /\ (q \o r)[k] = r[k - Len(q)]
<1>1. /\ q \o r \in Seq(M) /\ Len(q \o r) = Len(q) + Len(r)
      /\ \A i \in 1..Len(q) + Len(r) :
           (q \o r)[i] = IF i <= Len(q) THEN q[i] ELSE r[i - Len(q)]
  BY ConcatProperties
<1>2. PICK n \in Nat : n = Len(q) /\ DOMAIN q = 1..n
  BY LenProperties
<1>3. PICK m \in Nat : m = Len(r) /\ DOMAIN r = 1..m
  BY LenProperties
<1>4. DOMAIN (q \o r) = 1..(n + m)
  BY <1>1, <1>2, <1>3, LenProperties
<1>5. \A i \in 1..(n + m) : (q \o r)[i] = IF i <= n THEN q[i] ELSE r[i - n]
  BY <1>1, <1>2, <1>3
<1>6. QED BY <1>1, <1>2, <1>3, <1>4, <1>5

LEMMA OneMessage ==
    ASSUME NEW M, NEW x \in M
    PROVE  <<x>> \in Seq(M) /\ DOMAIN <<x>> = {1} /\ <<x>>[1] = x /\ Len(<<x>>) = 1
  OBVIOUS

LEMMA NoMessage ==
    ASSUME NEW M
    PROVE  <<>> \in Seq(M) /\ DOMAIN <<>> = {}
           /\ \A q \in Seq(M) : q \o <<>> = q /\ <<>> \o q = q
  BY EmptySeq, ConcatEmptySeq

-----------------------------------------------------------------------------
(* Updates of the zone *)

\* What an event says.
EventOf(m, i, x) ==
    /\ m \in Message /\ m.req = "event" /\ m.id = i /\ m.ok
    /\ m.grant = x.grant /\ m.advice = x.advice

LEMMA MsgIs ==
    ASSUME NEW req \in Queries \cup {"create", "destroy", "acquire", "release", "event"},
           NEW n \in Nat, NEW i \in Nat, NEW ok \in BOOLEAN
    PROVE  /\ Msg(req, n, i, ok) \in Message
           /\ Msg(req, n, i, ok).req = req /\ Msg(req, n, i, ok).seqno = n
           /\ Msg(req, n, i, ok).id = i /\ Msg(req, n, i, ok).ok = ok
  BY DEF Msg, Message

LEMMA EventIs ==
    ASSUME NEW i \in Nat, NEW x \in ServerSet
    PROVE  EventOf(Event(i, x), i, x)
<1>1. x.grant \in SUBSET Resources /\ x.advice \in SUBSET Resources
  BY ProtocolAssumption DEF ServerSet, Offers
<1>2. PICK z : z = Msg("event", 0, i, TRUE)
  OBVIOUS
<1>3. z = [req |-> "event", seqno |-> 0, id |-> i, ok |-> TRUE, grant |-> {}, advice |-> {}]
  BY <1>2 DEF Msg
<1>4. z \in Message /\ z.req = "event" /\ z.id = i /\ z.ok = TRUE
  BY <1>3 DEF Message
<1>5. PICK e : e = [z EXCEPT !.grant = x.grant, !.advice = x.advice]
  OBVIOUS
<1>6. /\ e \in Message /\ e.req = z.req /\ e.id = z.id /\ e.ok = z.ok
      /\ e.grant = x.grant /\ e.advice = x.advice
  BY <1>1, <1>4, <1>5 DEF Message
<1>7. Event(i, x) = e
  BY <1>2, <1>5 DEF Event
<1>8. QED BY <1>4, <1>6, <1>7 DEF EventOf

\* The events evs that client d gets of an update from S.
EventsFor(d, evs, S, asker) ==
    /\ evs \in Seq(Message)
    /\ \A k \in DOMAIN evs : \E i \in DOMAIN rset' :
         rset'[i].client = d /\ EventOf(evs[k], i, rset'[i])
    /\ \A i \in DOMAIN rset' :
         rset'[i].client = d /\ (i = asker \/ rset'[i] # S[i]) =>
           \E k \in DOMAIN evs : EventOf(evs[k], i, rset'[i])

\* What an update may do.
ZoneStep(S, asker, c, before, after) ==
    /\ DOMAIN rset' = DOMAIN S
    /\ rset' \in [DOMAIN S -> ServerSet]
    /\ \A i \in DOMAIN S : /\ rset'[i].client = S[i].client
                           /\ rset'[i].state \in {S[i].state, "release"}
    /\ replies' \in [Clients -> Seq(Message)]
    /\ \A d \in Clients : \E evs \in Seq(Message) :
         /\ replies'[d] = Sent(replies[d], d, (IF d = c THEN before ELSE <<>>) \o evs
                                                \o (IF d = c THEN after ELSE <<>>))
         /\ EventsFor(d, evs, S, asker)

LEMMA EventsToRight ==
    ASSUME NEW n \in Nat, NEW S, NEW T, DOMAIN T \subseteq 1..n,
           T \in [DOMAIN T -> ServerSet], rset' = T, NEW asker, NEW d
    PROVE  EventsFor(d, EventsTo(d, S, T, asker), S, asker)
<1>. DEFINE told == ToldOf(d, S, T, asker)
            evs == EventsTo(d, S, T, asker)
<1>1. told \in SUBSET (1..n) /\ told \subseteq DOMAIN T
  BY DEF ToldOf
<1>2. PICK m \in Nat : m = Cardinality(told)
  BY <1>1, OrderIsRight
<1>3. PICK q \in [1..m -> told] : q = InOrder(told) /\ \A i \in told : \E k \in 1..m : q[k] = i
  BY <1>1, <1>2, OrderIsRight
<1>4. evs = [k \in 1..m |-> Event(q[k], T[q[k]])]
  BY <1>2, <1>3 DEF EventsTo
<1>5. \A k \in 1..m : q[k] \in told /\ q[k] \in DOMAIN T /\ q[k] \in Nat
  <2>1. ASSUME NEW k \in 1..m
        PROVE  q[k] \in told /\ q[k] \in DOMAIN T /\ q[k] \in Nat
    <3>1. q[k] \in told
      OBVIOUS
    <3>2. q[k] \in 1..n
      BY <3>1, <1>1
    <3>3. QED BY <3>1, <3>2, <1>1
  <2>2. QED BY <2>1
<1>. HIDE DEF told, evs
<1>6. \A k \in 1..m : EventOf(evs[k], q[k], T[q[k]])
  <2>1. ASSUME NEW k \in 1..m
        PROVE  EventOf(evs[k], q[k], T[q[k]])
    <3>1. q[k] \in Nat /\ T[q[k]] \in ServerSet
      BY <1>5
    <3>2. EventOf(Event(q[k], T[q[k]]), q[k], T[q[k]])
      BY <3>1, EventIs
    <3>3. evs[k] = Event(q[k], T[q[k]])
      BY <1>4
    <3>4. QED BY <3>2, <3>3
  <2>2. QED BY <2>1
<1>7. evs \in Seq(Message) /\ DOMAIN evs = 1..m
  <2>1. DOMAIN evs = 1..m
    BY <1>4
  <2>2. \A k \in 1..m : evs[k] \in Message
    BY <1>6 DEF EventOf
  <2>3. evs \in [1..m -> Message]
    BY <2>2, <1>4
  <2>4. evs \in Seq(Message)
    BY <2>3, SeqDef
  <2>5. QED BY <2>1, <2>4
<1>8. \A k \in 1..m : T[q[k]].client = d
  BY <1>5 DEF told, ToldOf
<1>9. ASSUME NEW i \in DOMAIN T, T[i].client = d, i = asker \/ T[i] # S[i]
      PROVE  \E k \in 1..m : EventOf(evs[k], i, T[i])
  <2>1. i \in told
    BY <1>9 DEF told, ToldOf, HasChanged
  <2>2. PICK k \in 1..m : q[k] = i
    BY <2>1, <1>3
  <2>3. QED BY <2>2, <1>6
<1>10. EventsFor(d, evs, S, asker)
  BY <1>5, <1>6, <1>7, <1>8, <1>9 DEF EventsFor
<1>11. QED BY <1>10 DEF evs

LEMMA ZoneUpdated ==
    ASSUME NEW n \in Nat, NEW S, DOMAIN S \subseteq 1..n, S \in [DOMAIN S -> ServerSet],
           NEW asker, NEW c, NEW before \in Seq(Message), NEW after \in Seq(Message),
           replies \in [Clients -> Seq(Message)],
           UpdateZone(S, asker, c, before, after)
    PROVE  ZoneStep(S, asker, c, before, after)
<1>1. PICK g \in GrantsOf(S) :
        \E a \in AdvicesOf(g),
           forced \in SUBSET {i \in DOMAIN S : S[i].state = "acquire" /\ g[i] = {}} :
          /\ rset' = Updated(S, g, a, forced)
          /\ replies' = [d \in Clients |-> Sent(replies[d], d,
               (IF d = c THEN before ELSE <<>>)
                 \o EventsTo(d, S, Updated(S, g, a, forced), asker)
                 \o (IF d = c THEN after ELSE <<>>))]
  BY DEF UpdateZone
<1>2. PICK a \in AdvicesOf(g),
           forced \in SUBSET {i \in DOMAIN S : S[i].state = "acquire" /\ g[i] = {}} :
          /\ rset' = Updated(S, g, a, forced)
          /\ replies' = [d \in Clients |-> Sent(replies[d], d,
               (IF d = c THEN before ELSE <<>>)
                 \o EventsTo(d, S, Updated(S, g, a, forced), asker)
                 \o (IF d = c THEN after ELSE <<>>))]
  BY <1>1
<1>. DEFINE T == Updated(S, g, a, forced)
<1>3. g \in [DOMAIN S -> Offers] /\ a \in [DOMAIN S -> Offers]
  BY DEF GrantsOf, AdvicesOf
<1>4. DOMAIN T = DOMAIN S
  BY DEF Updated
<1>5. \A i \in DOMAIN S : T[i] \in ServerSet /\ T[i].client = S[i].client
                          /\ T[i].state \in {S[i].state, "release"}
  <2>1. ASSUME NEW i \in DOMAIN S
        PROVE  T[i] \in ServerSet /\ T[i].client = S[i].client
               /\ T[i].state \in {S[i].state, "release"}
    <3>1. S[i] \in ServerSet /\ g[i] \in Offers /\ a[i] \in Offers
      BY <1>3
    <3>2. T[i] = [S[i] EXCEPT !.grant = g[i], !.advice = a[i],
                              !.state = IF i \in forced THEN "release" ELSE @]
      BY DEF Updated
    <3>3. QED BY <3>1, <3>2 DEF ServerSet
  <2>2. QED BY <2>1
<1>6. T \in [DOMAIN T -> ServerSet]
  BY <1>4, <1>5 DEF Updated
<1>. HIDE DEF T
<1>7. rset' = T
  BY <1>2 DEF T
<1>8. \A d \in Clients :
        /\ replies'[d] = Sent(replies[d], d, (IF d = c THEN before ELSE <<>>)
                                \o EventsTo(d, S, T, asker)
                                \o (IF d = c THEN after ELSE <<>>))
        /\ EventsFor(d, EventsTo(d, S, T, asker), S, asker)
  <2>1. ASSUME NEW d \in Clients
        PROVE  EventsFor(d, EventsTo(d, S, T, asker), S, asker)
    BY <1>4, <1>6, <1>7, EventsToRight
  <2>2. QED BY <2>1, <1>2 DEF T
<1>9. \A d \in Clients : EventsTo(d, S, T, asker) \in Seq(Message)
  BY <1>8 DEF EventsFor
<1>10. replies' \in [Clients -> Seq(Message)]
  <2>1. \A d \in Clients : replies'[d] \in Seq(Message)
    <3>1. ASSUME NEW d \in Clients
          PROVE  replies'[d] \in Seq(Message)
      <4>1. (IF d = c THEN before ELSE <<>>) \in Seq(Message)
            /\ (IF d = c THEN after ELSE <<>>) \in Seq(Message)
        BY NoMessage
      <4>. DEFINE all == (IF d = c THEN before ELSE <<>>) \o EventsTo(d, S, T, asker)
                           \o (IF d = c THEN after ELSE <<>>)
      <4>2. all \in Seq(Message)
        BY <4>1, <1>9, ConcatProperties
      <4>3. replies[d] \in Seq(Message)
        OBVIOUS
      <4>. HIDE DEF all
      <4>4. replies'[d] = Sent(replies[d], d, all)
        BY <1>8 DEF all
      <4>5. QED BY <4>2, <4>3, <4>4, ConcatProperties DEF Sent
    <3>2. QED BY <3>1
  <2>2. QED BY <2>1, <1>2
<1>11. QED BY <1>4, <1>5, <1>6, <1>7, <1>8, <1>9, <1>10 DEF ZoneStep

-----------------------------------------------------------------------------
(* What the server does to a client, other than creating a set *)

\* The server has read such a request of client d about set i.
Took(d, req, i) ==
    /\ requests[d] # <<>>
    /\ Head(requests[d]).req = req /\ Head(requests[d]).id = i
    /\ requests'[d] = Tail(requests[d])

\* The messages sent to d, which are no news of a creation.
AddRight(d, add) ==
    /\ add \in Seq(Message)
    /\ replies'[d] = replies[d] \o add
    /\ \A k \in DOMAIN add :
         /\ add[k].req # "create"
         /\ add[k].req = "event" =>
              \E i \in DOMAIN rset' : rset'[i].client = d /\ EventOf(add[k], i, rset'[i])
         /\ add[k].req \in {"acquire", "release"} /\ add[k].ok => add[k].id \in 1..(nextId - 1)

\* What becomes of the sets of d.
SetsRight(d, add) ==
    /\ \A i \in DOMAIN rset : rset[i].client = d =>
         \/ i \in DOMAIN rset' /\ rset'[i].client = d
         \/ Took(d, "destroy", i)
    /\ \A i \in DOMAIN rset' : rset'[i].client = d =>
         /\ Finds(d, i) /\ ~Took(d, "destroy", i)
         /\ rset'[i].state \in {rset[i].state, "release"} \/ Took(d, "acquire", i)
         /\ Took(d, "release", i) => rset'[i].state = "release"
         /\ \/ rset'[i] = rset[i] /\ ~Took(d, "acquire", i)
            \/ \E k \in DOMAIN add : EventOf(add[k], i, rset'[i])

Read(d) ==
    \/ requests'[d] = requests[d]
    \/ requests[d] # <<>> /\ Head(requests[d]).req # "create" /\ requests'[d] = Tail(requests[d])

Later == nextId' \in Nat /\ nextId <= nextId' /\ DOMAIN rset' \subseteq 1..(nextId' - 1)

Handled(d, add) ==
    UNCHANGED clientVars /\ Later /\ AddRight(d, add) /\ SetsRight(d, add) /\ Read(d)

\* What is left of a queue the server may have read from.
LEMMA ReadPlaces ==
    ASSUME Types, NEW d \in Clients, Read(d)
    PROVE  /\ DOMAIN requests[d] \subseteq Nat /\ DOMAIN requests'[d] \subseteq Nat
           /\ \E n \in {0, 1} :
                /\ \A k \in DOMAIN requests'[d] :
                     k + n \in DOMAIN requests[d] /\ requests'[d][k] = requests[d][k + n]
                /\ \A k \in DOMAIN requests[d] :
                     \/ k - n \in DOMAIN requests'[d] /\ requests'[d][k - n] = requests[d][k]
                     \/ k = 1 /\ n = 1 /\ Took(d, requests[d][k].req, requests[d][k].id)
                        /\ requests[d][k].req # "create"
<1>1. requests[d] \in Seq(Message)
  BY DEF Types
<1>2. DOMAIN requests[d] \subseteq Nat
  BY <1>1, AddedPlaces
<1>3. CASE requests'[d] = requests[d]
  <2>1. \A k \in DOMAIN requests[d] : k + 0 = k /\ k - 0 = k
    BY <1>2
  <2>2. QED BY <1>2, <1>3, <2>1
<1>4. CASE requests[d] # <<>> /\ Head(requests[d]).req # "create" /\ requests'[d] = Tail(requests[d])
  <2>. DEFINE q == requests[d]
              t == requests'[d]
  <2>1. /\ Head(q) = q[1] /\ DOMAIN q \subseteq Nat /\ DOMAIN t \subseteq Nat
        /\ \A k \in DOMAIN t : k + 1 \in DOMAIN q /\ t[k] = q[k + 1]
        /\ \A k \in DOMAIN q : k # 1 => k - 1 \in DOMAIN t /\ t[k - 1] = q[k]
    BY <1>1, <1>4, TailPlaces
  <2>2. Took(d, q[1].req, q[1].id) /\ q[1].req # "create"
    BY <1>4, <2>1 DEF Took
  <2>3. \A k \in DOMAIN q :
          \/ k - 1 \in DOMAIN t /\ t[k - 1] = q[k]
          \/ k = 1 /\ Took(d, q[k].req, q[k].id) /\ q[k].req # "create"
    BY <2>1, <2>2
  <2>. HIDE DEF q, t
  <2>4. QED BY <2>1, <2>3 DEF q, t
<1>5. QED BY <1>3, <1>4 DEF Read

LEMMA MoreIds ==
    ASSUME NEW a \in Nat, NEW b \in Nat, a <= b
    PROVE  1..(a - 1) \subseteq 1..(b - 1)
<1>1. \A x \in 1..(a - 1) : x \in 1..(b - 1)
  OBVIOUS
<1>2. QED BY <1>1

LEMMA HandledIds ==
    ASSUME Types, NEW d \in Clients, IdsInv(d), NEW add, Handled(d, add)
    PROVE  IdsInv(d)'
<1>. DEFINE q == replies[d]
            r == replies'[d]
<1>1. q \in Seq(Message)
  BY DEF Types
<1>0. 1..(nextId - 1) \subseteq 1..(nextId' - 1)
  <2>1. nextId \in Nat /\ nextId' \in Nat /\ nextId <= nextId'
    BY DEF Handled, Later, Types
  <2>2. QED BY <2>1, MoreIds
<1>2. add \in Seq(Message) /\ r = q \o add
  BY DEF Handled, AddRight
<1>3. /\ \A k \in DOMAIN q : k \in DOMAIN r /\ r[k] = q[k]
      /\ \A k \in DOMAIN r : k \notin DOMAIN q => k - Len(q) \in DOMAIN add /\ r[k] = add[k - Len(q)]
  BY <1>1, <1>2, AddedPlaces
<1>4. \A k \in DOMAIN add :
        /\ add[k].req # "create"
        /\ add[k].req = "event" => add[k].id \in 1..(nextId' - 1)
        /\ add[k].req \in {"acquire", "release"} /\ add[k].ok => add[k].id \in 1..(nextId' - 1)
  <2>2. ASSUME NEW k \in DOMAIN add, add[k].req = "event"
        PROVE  add[k].id \in 1..(nextId' - 1)
    BY <2>2 DEF Handled, AddRight, Later, EventOf
  <2>3. QED BY <1>0, <2>2 DEF Handled, AddRight
<1>5. lib' = lib
  BY DEF Handled, clientVars
<1>6. \A k \in DOMAIN q :
        /\ q[k].req = "event" => q[k].id \in 1..(nextId' - 1)
        /\ q[k].req \in {"create", "acquire", "release"} /\ q[k].ok => q[k].id \in 1..(nextId' - 1)
  <2>1. QED BY <1>0 DEF IdsInv
<1>7. \A k \in DOMAIN r : Made(r, k) => k \in DOMAIN q /\ r[k] = q[k] /\ Made(q, k)
  BY <1>3, <1>4 DEF Made, IsA
<1>8. \A k \in DOMAIN r :
        /\ r[k].req = "event" => r[k].id \in 1..(nextId' - 1)
        /\ r[k].req \in {"create", "acquire", "release"} /\ r[k].ok => r[k].id \in 1..(nextId' - 1)
  BY <1>3, <1>4, <1>6
<1>9. \A k \in DOMAIN r : Made(r, k) =>
        /\ \A s \in SetsOf(d) : lib[s].id # r[k].id
        /\ \A j \in DOMAIN r : Made(r, j) /\ r[j].id = r[k].id => j = k
  BY <1>7 DEF IdsInv
<1>10. QED BY <1>5, <1>8, <1>9 DEF IdsInv, SetsOf

LEMMA HandledCreations ==
    ASSUME Types, NEW d \in Clients, CreateInv(d), NEW add, Handled(d, add)
    PROVE  CreateInv(d)'
<1>. DEFINE q == replies[d]
            r == replies'[d]
            u == requests[d]
            v == requests'[d]
<1>1. q \in Seq(Message)
  BY DEF Types
<1>2. add \in Seq(Message) /\ r = q \o add
  BY DEF Handled, AddRight
<1>3. \A k \in DOMAIN r : IsA(r, k, "create") => k \in DOMAIN q /\ r[k] = q[k] /\ IsA(q, k, "create")
  <2>1. /\ \A k \in DOMAIN q : k \in DOMAIN r /\ r[k] = q[k]
        /\ \A k \in DOMAIN r : k \notin DOMAIN q =>
             k - Len(q) \in DOMAIN add /\ r[k] = add[k - Len(q)]
    BY <1>1, <1>2, AddedPlaces
  <2>2. \A k \in DOMAIN add : add[k].req # "create"
    BY DEF Handled, AddRight
  <2>3. QED BY <2>1, <2>2 DEF IsA
<1>4. DOMAIN u \subseteq Nat /\ DOMAIN v \subseteq Nat
  BY ReadPlaces DEF Handled
<1>5. PICK n \in {0, 1} : \A k \in DOMAIN v : k + n \in DOMAIN u /\ v[k] = u[k + n]
  BY ReadPlaces DEF Handled
<1>6. lib' = lib
  BY DEF Handled, clientVars
<1>7. ASSUME NEW k \in DOMAIN v, v[k].req = "create"
      PROVE  /\ Pending(d, v[k].seqno) # {}
             /\ \A j \in DOMAIN v : IsA(v, j, "create") /\ v[j].seqno = v[k].seqno => j = k
             /\ \A j \in DOMAIN r : IsA(r, j, "create") => r[j].seqno # v[k].seqno
  <2>1. k + n \in DOMAIN u /\ u[k + n].req = "create" /\ v[k] = u[k + n]
    BY <1>5, <1>7
  <2>2. ASSUME NEW j \in DOMAIN v, IsA(v, j, "create"), v[j].seqno = v[k].seqno
        PROVE  j = k
    <3>1. j + n \in DOMAIN u /\ IsA(u, j + n, "create") /\ u[j + n].seqno = u[k + n].seqno
      BY <1>5, <2>1, <2>2 DEF IsA
    <3>2. j + n = k + n
      BY <2>1, <3>1 DEF CreateInv
    <3>3. QED BY <3>2, <1>4
  <2>3. QED BY <2>1, <2>2, <1>3 DEF CreateInv
<1>8. ASSUME NEW k \in DOMAIN r, r[k].req = "create"
      PROVE  /\ Pending(d, r[k].seqno) # {}
             /\ \A j \in DOMAIN r : IsA(r, j, "create") /\ r[j].seqno = r[k].seqno => j = k
  BY <1>3, <1>8 DEF CreateInv, IsA
<1>9. QED BY <1>6, <1>7, <1>8 DEF CreateInv, Pending, SetsOf

LEMMA HandledSets ==
    ASSUME Types, NEW d \in Clients, SetInv(d), NEW add, Handled(d, add)
    PROVE  SetInv(d)'
<1>. DEFINE q == replies[d]
            r == replies'[d]
            u == requests[d]
            v == requests'[d]
<1>1. q \in Seq(Message) /\ nextId \in Nat /\ DOMAIN rset \subseteq 1..(nextId - 1)
  BY DEF Types
<1>2. add \in Seq(Message) /\ r = q \o add
  BY DEF Handled, AddRight
<1>3. lib' = lib /\ nextId' \in Nat /\ nextId <= nextId'
  BY DEF Handled, clientVars, Later
<1>4. /\ \A k \in DOMAIN q : k \in DOMAIN r /\ r[k] = q[k]
      /\ \A k \in DOMAIN r : Made(r, k) => k \in DOMAIN q /\ r[k] = q[k] /\ Made(q, k)
  <2>1. /\ \A k \in DOMAIN q : k \in DOMAIN r /\ r[k] = q[k]
        /\ \A k \in DOMAIN r : k \notin DOMAIN q =>
             k - Len(q) \in DOMAIN add /\ r[k] = add[k - Len(q)]
    BY <1>1, <1>2, AddedPlaces
  <2>2. \A k \in DOMAIN add : add[k].req # "create"
    BY DEF Handled, AddRight
  <2>3. QED BY <2>1, <2>2 DEF Made, IsA
<1>5. PICK n \in {0, 1} :
        /\ \A k \in DOMAIN v : k + n \in DOMAIN u /\ v[k] = u[k + n]
        /\ \A k \in DOMAIN u :
             \/ k - n \in DOMAIN v /\ v[k - n] = u[k]
             \/ k = 1 /\ n = 1 /\ Took(d, u[k].req, u[k].id) /\ u[k].req # "create"
  BY ReadPlaces DEF Handled
<1>6. /\ \A k \in DOMAIN u : u[k].req = "destroy" /\ u[k].id # 0 =>
           /\ u[k].id < nextId
           /\ \A s \in SetsOf(d) : lib[s].id # u[k].id
           /\ \A j \in DOMAIN q : Made(q, j) => q[j].id # u[k].id
      /\ \A k \in DOMAIN q : Made(q, k) => Finds(d, q[k].id)
      /\ \A s \in SetsOf(d) : lib[s].id # 0 => Finds(d, lib[s].id)
      /\ \A i \in DOMAIN rset : rset[i].client = d =>
           \/ Mapped(d, i) # {}
           \/ \E k \in DOMAIN q : Made(q, k) /\ q[k].id = i
           \/ \E k \in DOMAIN u : u[k].req = "destroy" /\ u[k].id = i
  BY DEF SetInv
<1>7. \A i : Took(d, "destroy", i) => \E k \in DOMAIN u : u[k].req = "destroy" /\ u[k].id = i
  <2>1. u \in Seq(Message)
    BY DEF Types
  <2>2. QED BY <2>1, TailPlaces DEF Took
<1>8. /\ \A i \in DOMAIN rset : rset[i].client = d =>
           (i \in DOMAIN rset' /\ rset'[i].client = d) \/ Took(d, "destroy", i)
      /\ \A i \in DOMAIN rset' : rset'[i].client = d =>
           Finds(d, i) /\ ~Took(d, "destroy", i)
  BY DEF Handled, SetsRight
<1>9. \A i \in DOMAIN rset : i # 0
  BY <1>1
<1>10. ASSUME NEW k \in DOMAIN r, Made(r, k)
       PROVE  r[k].id \in DOMAIN rset' /\ rset'[r[k].id].client = d
  BY <1>4, <1>6, <1>7, <1>8, <1>9, <1>10 DEF Finds
<1>11. ASSUME NEW s \in SetsOf(d), lib[s].id # 0
       PROVE  lib[s].id \in DOMAIN rset' /\ rset'[lib[s].id].client = d
  BY <1>6, <1>7, <1>8, <1>11 DEF Finds
<1>12. ASSUME NEW k \in DOMAIN v, v[k].req = "destroy", v[k].id # 0
       PROVE  /\ v[k].id < nextId'
              /\ \A s \in SetsOf(d) : lib[s].id # v[k].id
              /\ \A j \in DOMAIN r : Made(r, j) => r[j].id # v[k].id
  <2>1. k + n \in DOMAIN u /\ v[k] = u[k + n]
    BY <1>5
  <2>2. v[k].id < nextId
    BY <1>6, <1>12, <2>1
  <2>3. v[k].id \in Nat
    <3>1. u \in Seq(Message) /\ DOMAIN u = 1..Len(u)
      BY LenProperties DEF Types
    <3>2. u[k + n] \in Message
      BY <3>1, <2>1, ElementOfSeq
    <3>3. QED BY <2>1, <3>2 DEF Message
  <2>4. v[k].id < nextId'
    BY <1>1, <1>3, <2>2, <2>3
  <2>5. QED BY <1>4, <1>6, <1>12, <2>1, <2>4
<1>13. ASSUME NEW i \in DOMAIN rset', rset'[i].client = d
       PROVE  \/ Mapped(d, i) # {}
              \/ \E k \in DOMAIN r : Made(r, k) /\ r[k].id = i
              \/ \E k \in DOMAIN v : v[k].req = "destroy" /\ v[k].id = i
  <2>1. i \in DOMAIN rset /\ rset[i].client = d /\ ~Took(d, "destroy", i)
    BY <1>8, <1>13 DEF Finds
  <2>2. CASE Mapped(d, i) # {}
    BY <2>2
  <2>3. CASE \E k \in DOMAIN q : Made(q, k) /\ q[k].id = i
    BY <2>3, <1>4 DEF Made, IsA
  <2>4. CASE \E k \in DOMAIN u : u[k].req = "destroy" /\ u[k].id = i
    BY <2>1, <2>4, <1>5
  <2>5. QED BY <2>1, <2>2, <2>3, <2>4, <1>6
<1>14. QED BY <1>3, <1>10, <1>11, <1>12, <1>13 DEF SetInv, Finds, Mapped, Alive, SetsOf

LEMMA HandledReleases ==
    ASSUME Types, NEW d \in Clients, SetInv(d), SetInv(d)', ReleaseInv(d), NEW add, Handled(d, add)
    PROVE  ReleaseInv(d)'
<1>. DEFINE u == requests[d]
            v == requests'[d]
<1>1. lib' = lib /\ wants' = wants
  BY DEF Handled, clientVars
<1>2. DOMAIN u \subseteq Nat /\ DOMAIN v \subseteq Nat
  BY ReadPlaces DEF Handled
<1>3. PICK n \in {0, 1} :
        /\ \A k \in DOMAIN v : k + n \in DOMAIN u /\ v[k] = u[k + n]
        /\ \A k \in DOMAIN u :
             \/ k - n \in DOMAIN v /\ v[k - n] = u[k]
             \/ k = 1 /\ n = 1 /\ Took(d, u[k].req, u[k].id) /\ u[k].req # "create"
  BY ReadPlaces DEF Handled
<1>4. SUFFICES ASSUME NEW s \in SetsOf(d), lib[s].id # 0, ~wants[s]
               PROVE  /\ \A k \in DOMAIN v :
                           v[k].req = "acquire" /\ v[k].id = lib[s].id =>
                             \E j \in DOMAIN v : /\ j > k
                                                 /\ v[j].req = "release"
                                                 /\ v[j].id = lib[s].id
                      /\ \/ InFlight(v, "release", lib[s].id)
                         \/ rset'[lib[s].id].state = "release"
  BY <1>1 DEF ReleaseInv, SetsOf, Asked, InFlight
<1>. DEFINE i == lib[s].id
<1>5. OwnerOf[s] = d
  BY DEF SetsOf
<1>6. /\ \A k \in DOMAIN u : u[k].req = "acquire" /\ u[k].id = i =>
           \E j \in DOMAIN u : j > k /\ u[j].req = "release" /\ u[j].id = i
      /\ InFlight(u, "release", i) \/ rset[i].state = "release"
  BY <1>4, <1>5 DEF ReleaseInv, Asked
<1>7. i \in DOMAIN rset' /\ rset'[i].client = d
  BY <1>1, <1>4 DEF SetInv, Finds, SetsOf
<1>8. /\ rset'[i].state \in {rset[i].state, "release"} \/ Took(d, "acquire", i)
      /\ Took(d, "release", i) => rset'[i].state = "release"
  BY <1>7 DEF Handled, SetsRight
<1>. HIDE DEF i, u, v
<1>9. ASSUME NEW k \in DOMAIN v, v[k].req = "acquire", v[k].id = i
      PROVE  \E j \in DOMAIN v : j > k /\ v[j].req = "release" /\ v[j].id = i
  <2>1. k + n \in DOMAIN u /\ v[k] = u[k + n] /\ k \in Nat
    BY <1>2, <1>3
  <2>2. PICK j \in DOMAIN u : j > k + n /\ u[j].req = "release" /\ u[j].id = i
    BY <1>6, <1>9, <2>1
  <2>3. j # 1
    <3>1. v[k] = u[k + n] /\ k + n \in DOMAIN u /\ k + n \in Nat
      BY <2>1
    <3>2. CASE j = 1 /\ n = 1
      BY <2>1, <2>2, <3>2
    <3>3. CASE j = 1 /\ n = 0
      <4>1. k = 0
        BY <2>1, <2>2, <3>3
      <4>2. 0 \notin DOMAIN u
        BY LenProperties DEF Types, u
      <4>3. QED BY <2>1, <3>3, <4>1, <4>2
    <3>4. QED BY <3>2, <3>3
  <2>4. j - n \in DOMAIN v /\ v[j - n] = u[j] /\ j \in Nat
    BY <1>2, <1>3, <2>3
  <2>5. j - n > k
    BY <2>1, <2>2, <2>4
  <2>6. QED BY <2>2, <2>4, <2>5
<1>10. InFlight(v, "release", i) \/ rset'[i].state = "release"
  <2>1. CASE InFlight(u, "release", i)
    <3>1. PICK k \in DOMAIN u : u[k].req = "release" /\ u[k].id = i
      BY <2>1 DEF InFlight
    <3>2. CASE k - n \in DOMAIN v /\ v[k - n] = u[k]
      BY <3>1, <3>2 DEF InFlight
    <3>3. CASE Took(d, u[k].req, u[k].id)
      BY <3>1, <3>3, <1>8
    <3>4. QED BY <3>2, <3>3, <1>3
  <2>2. CASE rset[i].state = "release" /\ ~Took(d, "acquire", i)
    BY <2>2, <1>8
  <2>3. CASE Took(d, "acquire", i) /\ ~InFlight(u, "release", i)
    <3>1. u \in Seq(Message)
      BY DEF u, Types
    <3>2. 1 \in DOMAIN u /\ u[1].req = "acquire" /\ u[1].id = i
      BY <2>3, <3>1, TailPlaces DEF Took, u
    <3>3. QED BY <3>2, <1>6, <2>3 DEF InFlight
  <2>4. QED BY <2>1, <2>2, <2>3, <1>6
<1>11. QED BY <1>9, <1>10 DEF i, u, v

\* The events of a step: d is told of whatever changes for it, and of what it
\* has asked for.
EventsRight(d, add) ==
    /\ lib' = lib
    /\ add \in Seq(Message)
    /\ replies'[d] = replies[d] \o add
    /\ \A k \in DOMAIN add : add[k].req = "event" =>
         \E i \in DOMAIN rset' : rset'[i].client = d /\ EventOf(add[k], i, rset'[i])
    /\ \A i \in DOMAIN rset' : rset'[i].client = d =>
         \/ i \in DOMAIN rset /\ rset[i] = rset'[i]
         \/ \E k \in DOMAIN add : EventOf(add[k], i, rset'[i])
    /\ \A s \in SetsOf(d) : lib[s].id # 0 /\ Asked(s, "acquire") =>
         \/ InFlight(requests'[d], "acquire", lib[s].id)
         \/ \E k \in DOMAIN add : add[k].req = "event" /\ add[k].id = lib[s].id

LEMMA EventsKept ==
    ASSUME Types, NEW d \in Clients, EventInv(d), SetInv(d), SetInv(d)',
           NEW add, EventsRight(d, add)
    PROVE  EventInv(d)'
<1>. DEFINE q == replies[d]
            r == replies'[d]
            Ahead(i) == {k \in DOMAIN r : r[k].req = "event" /\ r[k].id = i}
<1>1. q \in Seq(Message)
  BY DEF Types
<1>2. add \in Seq(Message) /\ r = q \o add /\ lib' = lib
  BY DEF EventsRight
<1>3. /\ DOMAIN q \subseteq Nat /\ DOMAIN add \subseteq Nat /\ DOMAIN r \subseteq Nat
      /\ Len(q) \in Nat /\ DOMAIN q = 1..Len(q)
      /\ \A k \in DOMAIN q : k \in DOMAIN r /\ r[k] = q[k]
      /\ \A k \in DOMAIN add : Len(q) + k \in DOMAIN r /\ r[Len(q) + k] = add[k]
      /\ \A k \in DOMAIN r : k \notin DOMAIN q =>
           k > Len(q) /\ k - Len(q) \in DOMAIN add /\ r[k] = add[k - Len(q)]
  BY <1>1, <1>2, AddedPlaces
<1>4. \A i : EventsAhead(d, i) = {k \in DOMAIN q : q[k].req = "event" /\ q[k].id = i}
  BY DEF EventsAhead
<1>5. \A i \in DOMAIN rset' : rset'[i].client = d =>
        \/ i \in DOMAIN rset /\ rset[i] = rset'[i]
        \/ \E k \in DOMAIN add : EventOf(add[k], i, rset'[i])
  BY DEF EventsRight
<1>6. \A k \in DOMAIN add : \A i : add[k].req = "event" /\ add[k].id = i =>
        EventOf(add[k], i, rset'[i])
  BY DEF EventsRight, EventOf
<1>7. \A i \in DOMAIN rset, k \in DOMAIN q :
        (rset[i].client = d /\ k \in EventsAhead(d, i) /\ \A j \in EventsAhead(d, i) : j <= k)
          => q[k].grant = rset[i].grant /\ q[k].advice = rset[i].advice
  BY DEF EventInv
<1>. HIDE DEF q, r
<1>8. ASSUME NEW i \in DOMAIN rset', rset'[i].client = d,
             NEW k \in Ahead(i), \A j \in Ahead(i) : j <= k
      PROVE  r[k].grant = rset'[i].grant /\ r[k].advice = rset'[i].advice
  <2>1. CASE k \in DOMAIN q
    <3>1. ASSUME NEW j \in DOMAIN add, EventOf(add[j], i, rset'[i])
          PROVE  FALSE
      <4>1. Len(q) + j \in Ahead(i)
        BY <1>3, <3>1 DEF EventOf
      <4>2. Len(q) + j <= k
        BY <4>1, <1>8
      <4>3. j # 0
        BY <1>2, LenProperties
      <4>4. j \in Nat /\ k <= Len(q)
        BY <2>1, <1>3
      <4>5. QED BY <4>2, <4>3, <4>4, <1>3
    <3>2. i \in DOMAIN rset /\ rset[i] = rset'[i]
      BY <3>1, <1>5, <1>8
    <3>3. k \in EventsAhead(d, i)
      BY <2>1, <1>3, <1>4
    <3>4. \A j \in EventsAhead(d, i) : j <= k
      BY <1>3, <1>4, <1>8
    <3>5. q[k].grant = rset[i].grant /\ q[k].advice = rset[i].advice
      BY <2>1, <3>2, <3>3, <3>4, <1>7, <1>8
    <3>6. QED BY <2>1, <3>2, <3>5, <1>3
  <2>2. CASE k \notin DOMAIN q
    <3>1. k - Len(q) \in DOMAIN add /\ r[k] = add[k - Len(q)]
      BY <2>2, <1>3
    <3>2. EventOf(r[k], i, rset'[i])
      BY <3>1, <1>6, <1>8
    <3>3. QED BY <3>2 DEF EventOf
  <2>3. QED BY <2>1, <2>2
<1>9. ASSUME NEW s \in SetsOf(d), lib[s].id # 0, Ahead(lib[s].id) = {}
      PROVE  \/ lib[s].state = StateOf(rset'[lib[s].id].grant, rset'[lib[s].id].advice)
             \/ lib[s].state = "pending" /\ InFlight(requests'[d], "acquire", lib[s].id)
  <2>. DEFINE i == lib[s].id
  <2>1. \A j \in DOMAIN add : ~(add[j].req = "event" /\ add[j].id = i)
    BY <1>3, <1>9
  <2>2. i \in DOMAIN rset' /\ rset'[i].client = d
    BY <1>2, <1>9 DEF SetInv, Finds, SetsOf
  <2>3. rset[i] = rset'[i]
    BY <2>1, <2>2, <1>5 DEF EventOf
  <2>4. EventsAhead(d, i) = {}
    BY <1>3, <1>4, <1>9
  <2>5. \/ lib[s].state = StateOf(rset[i].grant, rset[i].advice)
        \/ lib[s].state = "pending" /\ Asked(s, "acquire")
    BY <2>4, <1>9 DEF EventInv
  <2>6. Asked(s, "acquire") => InFlight(requests'[d], "acquire", i)
    BY <2>1, <1>9 DEF EventsRight
  <2>7. QED BY <2>3, <2>5, <2>6
<1>10. QED
  <2>1. ASSUME NEW i \in DOMAIN rset', NEW k \in DOMAIN r,
               /\ rset'[i].client = d
               /\ k \in EventsAhead(d, i)'
               /\ \A j \in EventsAhead(d, i)' : j <= k
        PROVE  r[k].grant = rset'[i].grant /\ r[k].advice = rset'[i].advice
    <3>1. EventsAhead(d, i)' = Ahead(i)
      BY DEF EventsAhead, r
    <3>2. QED BY <2>1, <3>1, <1>8
  <2>2. ASSUME NEW s \in SetsOf(d), lib'[s].id # 0, EventsAhead(d, lib[s].id)' = {}
        PROVE  \/ lib[s].state = StateOf(rset'[lib[s].id].grant, rset'[lib[s].id].advice)
               \/ lib[s].state = "pending" /\ InFlight(requests'[d], "acquire", lib[s].id)
    <3>1. EventsAhead(d, lib[s].id)' = {k \in DOMAIN r : r[k].req = "event" /\ r[k].id = lib[s].id}
      BY <1>2 DEF EventsAhead, r
    <3>2. QED BY <2>2, <3>1, <1>2, <1>9
  <2>3. \A s \in SetsOf(d) : OwnerOf[s] = d
    BY DEF SetsOf
  <2>4. \A s \in SetsOf(d) :
          InFlight(requests'[d], "acquire", lib[s].id) => Asked(s, "acquire")'
    BY <2>3, <1>2 DEF Asked, InFlight
  <2>5. \A s \in SetsOf(d) : lib'[s].id # 0 /\ EventsAhead(d, lib[s].id)' = {} =>
          \/ lib'[s].state = StateOf(rset'[lib'[s].id].grant, rset'[lib'[s].id].advice)
          \/ lib'[s].state = "pending" /\ Asked(s, "acquire")'
    BY <2>2, <2>4, <1>2
  <2>6. SetsOf(d)' = SetsOf(d)
    BY DEF SetsOf
  <2>7. QED BY <2>1, <2>5, <2>6 DEF EventInv, r

LEMMA HandledEvents ==
    ASSUME Types, NEW d \in Clients, SetInv(d)', NEW add, Handled(d, add)
    PROVE  EventsRight(d, add)
<1>. DEFINE u == requests[d]
            v == requests'[d]
<1>1. lib' = lib
  BY DEF Handled, clientVars
<1>2. /\ add \in Seq(Message) /\ replies'[d] = replies[d] \o add
      /\ \A k \in DOMAIN add : add[k].req = "event" =>
           \E i \in DOMAIN rset' : rset'[i].client = d /\ EventOf(add[k], i, rset'[i])
  BY DEF Handled, AddRight
<1>3. \A i \in DOMAIN rset' : rset'[i].client = d =>
        /\ Finds(d, i)
        /\ \/ rset'[i] = rset[i] /\ ~Took(d, "acquire", i)
           \/ \E k \in DOMAIN add : EventOf(add[k], i, rset'[i])
  BY DEF Handled, SetsRight
<1>4. PICK n \in {0, 1} :
        \A k \in DOMAIN u :
             \/ k - n \in DOMAIN v /\ v[k - n] = u[k]
             \/ k = 1 /\ n = 1 /\ Took(d, u[k].req, u[k].id) /\ u[k].req # "create"
  BY ReadPlaces DEF Handled
<1>5. ASSUME NEW s \in SetsOf(d), lib[s].id # 0, Asked(s, "acquire")
      PROVE  \/ InFlight(v, "acquire", lib[s].id)
             \/ \E k \in DOMAIN add : add[k].req = "event" /\ add[k].id = lib[s].id
  <2>. DEFINE i == lib[s].id
  <2>1. PICK k \in DOMAIN u : u[k].req = "acquire" /\ u[k].id = i
    BY <1>5 DEF Asked, InFlight, SetsOf
  <2>2. CASE k - n \in DOMAIN v /\ v[k - n] = u[k]
    BY <2>1, <2>2 DEF InFlight
  <2>3. CASE Took(d, u[k].req, u[k].id)
    <3>1. i \in DOMAIN rset' /\ rset'[i].client = d
      BY <1>1, <1>5 DEF SetInv, Finds, SetsOf
    <3>2. \E j \in DOMAIN add : EventOf(add[j], i, rset'[i])
      BY <2>1, <2>3, <3>1, <1>3
    <3>3. QED BY <3>2 DEF EventOf
  <2>4. QED BY <2>2, <2>3, <1>4
<1>6. QED BY <1>1, <1>2, <1>3, <1>5 DEF EventsRight, Finds

LEMMA HandledKeeps ==
    ASSUME Types, NEW d \in Clients, IdsInv(d), NEW add, Handled(d, add)
    PROVE  IdsInv(d)' /\ (Together(d) => Together(d)')
<1>1. IdsInv(d)'
  BY HandledIds
<1>2. ASSUME Together(d)
      PROVE  Together(d)'
  <2>1. CreateInv(d)'
    BY <1>2, HandledCreations DEF Together
  <2>2. SetInv(d)'
    BY <1>2, HandledSets DEF Together
  <2>3. EventInv(d)'
    <3>1. EventsRight(d, add)
      BY <2>2, HandledEvents
    <3>2. QED BY <1>2, <2>2, <3>1, EventsKept DEF Together
  <2>4. ReleaseInv(d)'
    BY <1>2, <2>2, HandledReleases DEF Together
  <2>5. QED BY <2>1, <2>2, <2>3, <2>4 DEF Together
<1>3. QED BY <1>1, <1>2

\* A client no step is about.
LEMMA Untouched ==
    ASSUME NEW d \in Clients, UNCHANGED <<rset, nextId>>,
           requests'[d] = requests[d], replies'[d] = replies[d],
           \A s \in SetsOf(d) : lib'[s] = lib[s] /\ wants'[s] = wants[s]
    PROVE  (IdsInv(d) => IdsInv(d)') /\ (Together(d) => Together(d)')
<1>1. SetsOf(d)' = SetsOf(d) /\ \A s \in SetsOf(d) : OwnerOf[s] = d
  BY DEF SetsOf
<1>2. IdsInv(d) => IdsInv(d)'
  BY <1>1 DEF IdsInv, Made, IsA
<1>3. \A n : Pending(d, n)' = Pending(d, n)
  BY <1>1 DEF Pending
<1>4. \A i : Mapped(d, i)' = Mapped(d, i)
  BY <1>1 DEF Mapped, Alive
<1>5. CreateInv(d) => CreateInv(d)'
  BY <1>3 DEF CreateInv, IsA
<1>6. SetInv(d) => SetInv(d)'
  BY <1>1, <1>4 DEF SetInv, Made, IsA, Finds
<1>7. EventInv(d) => EventInv(d)'
  <2>1. \A i : EventsAhead(d, i)' = EventsAhead(d, i)
    BY DEF EventsAhead
  <2>2. \A s \in SetsOf(d) : Asked(s, "acquire")' = Asked(s, "acquire")
    BY <1>1 DEF Asked, InFlight
  <2>3. QED BY <1>1, <2>1, <2>2 DEF EventInv
<1>8. ReleaseInv(d) => ReleaseInv(d)'
  <2>1. \A s \in SetsOf(d) : Asked(s, "release")' = Asked(s, "release")
    BY <1>1 DEF Asked, InFlight
  <2>2. QED BY <1>1, <2>1 DEF ReleaseInv
<1>9. QED BY <1>2, <1>5, <1>6, <1>7, <1>8 DEF Together

LEMMA IdsLater ==
    ASSUME Types, NEW d \in Clients, IdsInv(d), lib' = lib, replies'[d] = replies[d], Later
    PROVE  IdsInv(d)'
<1>1. 1..(nextId - 1) \subseteq 1..(nextId' - 1)
  <2>1. nextId \in Nat /\ nextId' \in Nat /\ nextId <= nextId'
    BY DEF Later, Types
  <2>2. QED BY <2>1, MoreIds
<1>2. QED BY <1>1 DEF IdsInv, Made, IsA, SetsOf

LEMMA LibLater ==
    ASSUME Types, NEW s \in Sets, LibInv(s), UNCHANGED clientVars, Later
    PROVE  LibInv(s)'
<1>1. lib' = lib /\ context' = context /\ wants' = wants
  BY DEF clientVars
<1>2. nextId \in Nat /\ nextId' \in Nat /\ nextId <= nextId' /\ lib[s].id \in Nat
  BY DEF Types, Later
<1>3. lib[s].id < nextId'
  BY <1>2 DEF LibInv
<1>4. QED BY <1>1, <1>3 DEF LibInv

\* A step of the server keeps what a client and the server have in common.
LEMMA ServerKeeps ==
    ASSUME IInv, NEW d \in Clients, UNCHANGED <<clientVars, link>>, Later,
           served' \subseteq served,
           link[d] = "up" => \E add : Handled(d, add),
           link[d] = "down" => replies'[d] = replies[d]
    PROVE  IdsInv(d)' /\ (Connected(d)' => Together(d)')
<1>1. Types /\ IdsInv(d) /\ (Connected(d) => Together(d))
  BY DEF IInv
<1>2. Connected(d)' => Connected(d)
  BY DEF Connected, clientVars
<1>3. CASE link[d] = "up"
  <2>1. PICK add : Handled(d, add)
    BY <1>3
  <2>2. QED BY <1>1, <1>2, <2>1, HandledKeeps
<1>4. CASE link[d] = "down"
  <2>1. IdsInv(d)'
    BY <1>1, <1>4, IdsLater DEF clientVars
  <2>2. ~Connected(d)'
    BY <1>4 DEF Connected
  <2>3. QED BY <2>1, <2>2
<1>5. QED BY <1>1, <1>3, <1>4 DEF Types

\* Messages that neither create a set nor tell of one.
Plain(q) ==
    /\ q \in Seq(Message)
    /\ \A k \in DOMAIN q :
         /\ q[k].req \notin {"create", "event"}
         /\ q[k].req \in {"acquire", "release"} /\ q[k].ok => q[k].id \in 1..(nextId - 1)

\* What an update starts from, seen from d.
StartRight(d, S, asker) ==
    /\ \A i \in DOMAIN rset : rset[i].client = d =>
         \/ i \in DOMAIN S /\ S[i].client = d
         \/ Took(d, "destroy", i)
    /\ \A i \in DOMAIN S : S[i].client = d =>
         /\ Finds(d, i) /\ ~Took(d, "destroy", i)
         /\ S[i].state \in {rset[i].state, "release"} \/ Took(d, "acquire", i)
         /\ Took(d, "release", i) => S[i].state = "release"
         /\ i = asker \/ (S[i] = rset[i] /\ ~Took(d, "acquire", i))

LEMMA ZoneHandled ==
    ASSUME Types, NEW d \in Clients, link[d] = "up", UNCHANGED clientVars, Later, Read(d),
           NEW S, NEW asker, NEW c, NEW before, NEW after, ZoneStep(S, asker, c, before, after),
           d = c => Plain(before) /\ Plain(after), StartRight(d, S, asker)
    PROVE  \E add : Handled(d, add)
<1>. DEFINE b == IF d = c THEN before ELSE <<>>
            a == IF d = c THEN after ELSE <<>>
<1>1. Plain(b) /\ Plain(a)
  <2>1. Plain(<<>>)
    BY NoMessage DEF Plain
  <2>2. QED BY <2>1
<1>2. PICK evs \in Seq(Message) :
        /\ replies'[d] = Sent(replies[d], d, b \o evs \o a)
        /\ EventsFor(d, evs, S, asker)
  BY DEF ZoneStep
<1>. HIDE DEF a, b
<1>3. b \in Seq(Message) /\ a \in Seq(Message)
  BY <1>1 DEF Plain
<1>. DEFINE f == b \o evs
<1>4. /\ f \in Seq(Message)
      /\ \A k \in DOMAIN b : k \in DOMAIN f /\ f[k] = b[k]
      /\ \A k \in DOMAIN evs : Len(b) + k \in DOMAIN f /\ f[Len(b) + k] = evs[k]
      /\ \A k \in DOMAIN f : k \notin DOMAIN b =>
           k - Len(b) \in DOMAIN evs /\ f[k] = evs[k - Len(b)]
  BY <1>3, AddedPlaces
<1>. HIDE DEF f
<1>. DEFINE add == f \o a
<1>5. /\ add \in Seq(Message)
      /\ \A k \in DOMAIN f : k \in DOMAIN add /\ add[k] = f[k]
      /\ \A k \in DOMAIN add : k \notin DOMAIN f =>
           k - Len(f) \in DOMAIN a /\ add[k] = a[k - Len(f)]
  BY <1>3, <1>4, AddedPlaces
<1>6. replies'[d] = replies[d] \o add
  BY <1>2 DEF f, Sent
<1>. HIDE DEF add
<1>7. \A k \in DOMAIN evs : \E i \in DOMAIN rset' :
        rset'[i].client = d /\ EventOf(evs[k], i, rset'[i])
  BY <1>2 DEF EventsFor
<1>8. \A k \in DOMAIN add : \/ \E j \in DOMAIN b : add[k] = b[j]
                            \/ \E j \in DOMAIN evs : add[k] = evs[j]
                            \/ \E j \in DOMAIN a : add[k] = a[j]
  <2>1. ASSUME NEW k \in DOMAIN add, k \in DOMAIN f
        PROVE  (\E j \in DOMAIN b : add[k] = b[j]) \/ (\E j \in DOMAIN evs : add[k] = evs[j])
    <3>1. add[k] = f[k]
      BY <2>1, <1>5
    <3>2. CASE k \in DOMAIN b
      BY <3>1, <3>2, <1>4
    <3>3. CASE k \notin DOMAIN b
      BY <2>1, <3>1, <3>3, <1>4
    <3>4. QED BY <3>2, <3>3
  <2>2. QED BY <2>1, <1>5
<1>9. \A k \in DOMAIN evs : \E j \in DOMAIN add : add[j] = evs[k]
  BY <1>4, <1>5
<1>10. AddRight(d, add)
  <2>1. ASSUME NEW k \in DOMAIN add
        PROVE  /\ add[k].req # "create"
               /\ add[k].req = "event" =>
                    \E i \in DOMAIN rset' : rset'[i].client = d /\ EventOf(add[k], i, rset'[i])
               /\ add[k].req \in {"acquire", "release"} /\ add[k].ok =>
                    add[k].id \in 1..(nextId - 1)
    <3>1. CASE \E j \in DOMAIN b : add[k] = b[j]
      BY <3>1, <1>1 DEF Plain
    <3>2. CASE \E j \in DOMAIN a : add[k] = a[j]
      BY <3>2, <1>1 DEF Plain
    <3>3. CASE \E j \in DOMAIN evs : add[k] = evs[j]
      <4>1. PICK i \in DOMAIN rset' : rset'[i].client = d /\ EventOf(add[k], i, rset'[i])
        BY <3>3, <1>7
      <4>2. add[k].req = "event"
        BY <4>1 DEF EventOf
      <4>3. QED BY <4>1, <4>2
    <3>4. QED BY <3>1, <3>2, <3>3, <1>8
  <2>2. QED BY <2>1, <1>5, <1>6 DEF AddRight
<1>11. SetsRight(d, add)
  <2>1. /\ DOMAIN rset' = DOMAIN S
        /\ \A i \in DOMAIN S : rset'[i].client = S[i].client
                               /\ rset'[i].state \in {S[i].state, "release"}
    BY DEF ZoneStep
  <2>2. ASSUME NEW i \in DOMAIN rset, rset[i].client = d
        PROVE  (i \in DOMAIN rset' /\ rset'[i].client = d) \/ Took(d, "destroy", i)
    BY <2>1, <2>2 DEF StartRight
  <2>3. ASSUME NEW i \in DOMAIN rset', rset'[i].client = d
        PROVE  /\ Finds(d, i) /\ ~Took(d, "destroy", i)
               /\ rset'[i].state \in {rset[i].state, "release"} \/ Took(d, "acquire", i)
               /\ Took(d, "release", i) => rset'[i].state = "release"
               /\ \/ rset'[i] = rset[i] /\ ~Took(d, "acquire", i)
                  \/ \E k \in DOMAIN add : EventOf(add[k], i, rset'[i])
    <3>1. i \in DOMAIN S /\ S[i].client = d /\ rset'[i].state \in {S[i].state, "release"}
      BY <2>1, <2>3
    <3>2. /\ Finds(d, i) /\ ~Took(d, "destroy", i)
          /\ S[i].state \in {rset[i].state, "release"} \/ Took(d, "acquire", i)
          /\ Took(d, "release", i) => S[i].state = "release"
          /\ i = asker \/ (S[i] = rset[i] /\ ~Took(d, "acquire", i))
      BY <3>1 DEF StartRight
    <3>3. CASE i = asker \/ rset'[i] # S[i]
      <4>1. PICK k \in DOMAIN evs : EventOf(evs[k], i, rset'[i])
        BY <1>2, <2>3, <3>3 DEF EventsFor
      <4>2. PICK j \in DOMAIN add : add[j] = evs[k]
        BY <1>9
      <4>3. EventOf(add[j], i, rset'[i])
        BY <4>1, <4>2
      <4>4. QED BY <3>1, <3>2, <4>3
    <3>4. CASE i # asker /\ rset'[i] = S[i]
      BY <3>1, <3>2, <3>4
    <3>5. QED BY <3>3, <3>4
  <2>4. QED BY <2>2, <2>3 DEF SetsRight
<1>12. QED BY <1>10, <1>11 DEF Handled

-----------------------------------------------------------------------------
(* The steps of the server *)

LEMMA ServerFrame ==
    ASSUME IInv, UNCHANGED <<clientVars, link>>, Later,
           served' \subseteq served, closing' \in served' \cup {None},
           closing' # None => link[closing'] = "down",
           requests' \in [Clients -> Seq(Message)],
           replies' \in [Clients -> Seq(Message)],
           rset' \in [DOMAIN rset' -> ServerSet],
           \A i \in DOMAIN rset' : rset'[i].client \in served',
           \A d \in Clients : IdsInv(d)' /\ (Connected(d)' => Together(d)')
    PROVE  IInv'
<1>1. Types /\ \A s \in Sets : LibInv(s)
  BY DEF IInv
<1>2. Types'
  <2>1. nextId' \in Nat \ {0}
    BY <1>1 DEF Later, Types
  <2>2. served' \subseteq Clients
    BY <1>1 DEF Types
  <2>3. QED BY <1>1, <2>1, <2>2 DEF Types, Later, clientVars
<1>3. ServerInv'
  BY DEF ServerInv
<1>4. \A s \in Sets : LibInv(s)'
  BY <1>1, LibLater
<1>5. QED BY <1>2, <1>3, <1>4 DEF IInv

LEMMA ServerStep ==
    ASSUME IInv, UNCHANGED <<clientVars, link>>, Later,
           served' \subseteq served, closing' \in served' \cup {None},
           closing' # None => link[closing'] = "down",
           requests' \in [Clients -> Seq(Message)],
           replies' \in [Clients -> Seq(Message)],
           rset' \in [DOMAIN rset' -> ServerSet],
           \A i \in DOMAIN rset' : rset'[i].client \in served',
           \A d \in Clients : /\ link[d] = "up" => \E add : Handled(d, add)
                              /\ link[d] = "down" => replies'[d] = replies[d]
    PROVE  IInv'
<1>1. \A d \in Clients : IdsInv(d)' /\ (Connected(d)' => Together(d)')
  BY ServerKeeps
<1>2. QED BY <1>1, ServerFrame

LEMMA NotTook ==
    ASSUME Types, NEW d \in Clients, requests'[d] = requests[d]
    PROVE  \A req, i : ~Took(d, req, i)
<1>1. SUFFICES ASSUME requests[d] # <<>>, Tail(requests[d]) = requests[d]
               PROVE  FALSE
  BY DEF Took
<1>2. requests[d] \in Seq(Message)
  BY DEF Types
<1>3. PICK n \in Nat : n = Len(requests[d])
  BY <1>2, LenProperties
<1>4. Len(Tail(requests[d])) = n - 1
  BY <1>1, <1>2, <1>3, HeadTailProperties
<1>5. n = n - 1
  BY <1>1, <1>3, <1>4
<1>6. QED BY <1>5

\* The request the server has taken.
ServedFacts(c, req) ==
    /\ Head(requests[c]) \in Message
    /\ Head(requests[c]).req = req
    /\ requests[c] # <<>>
    /\ c \in served /\ closing = None
    /\ requests' \in [Clients -> Seq(Message)]
    /\ requests'[c] = Tail(requests[c])
    /\ \A d \in Clients : d # c => requests'[d] = requests[d]
    /\ UNCHANGED <<link, served, closing, clientVars>>

LEMMA ServingFacts ==
    ASSUME IInv, NEW c \in Clients, NEW req, Serving(c, req)
    PROVE  ServedFacts(c, req)
<1>1. requests \in [Clients -> Seq(Message)]
  BY DEF IInv, Types
<1>2. requests[c] \in Seq(Message) /\ requests[c] # <<>> /\ Head(requests[c]).req = req
  BY <1>1 DEF Serving
<1>3. Head(requests[c]) \in Message /\ Tail(requests[c]) \in Seq(Message)
  BY <1>2, HeadTailProperties
<1>4. requests' = [requests EXCEPT ![c] = Tail(requests[c])]
  BY DEF Serving
<1>5. QED BY <1>1, <1>2, <1>3, <1>4 DEF Serving, ServerIdle, ServedFacts

\* A step without an update of the zone: client c gets ms, and may lose sets.
LEMMA Unmoved ==
    ASSUME IInv, UNCHANGED <<clientVars, link, served, closing, nextId>>,
           requests' \in [Clients -> Seq(Message)],
           NEW c \in Clients, NEW ms \in Seq(Message),
           \A d \in Clients : d # c => requests'[d] = requests[d],
           replies' = [replies EXCEPT ![c] = Sent(@, c, ms)],
           rset' \in [DOMAIN rset' -> ServerSet],
           DOMAIN rset' \subseteq DOMAIN rset,
           \A i \in DOMAIN rset' : rset'[i] = rset[i],
           \A i \in DOMAIN rset : rset[i].client # c => i \in DOMAIN rset',
           link[c] = "up" => Handled(c, ms)
    PROVE  IInv'
<1>1. /\ Types /\ ServerInv
      /\ replies \in [Clients -> Seq(Message)]
      /\ nextId \in Nat /\ DOMAIN rset \subseteq 1..(nextId - 1)
  BY DEF IInv, Types
<1>2. Later
  BY <1>1 DEF Later
<1>3. ASSUME NEW d \in Clients
      PROVE  /\ replies'[d] \in Seq(Message)
             /\ link[d] = "up" => \E add : Handled(d, add)
             /\ link[d] = "down" => replies'[d] = replies[d]
  <2>1. CASE d = c
    <3>1. replies'[c] = Sent(replies[c], c, ms) /\ replies[c] \in Seq(Message)
      BY <1>1
    <3>2. replies[c] \o ms \in Seq(Message)
      BY <3>1, ConcatProperties
    <3>3. QED BY <2>1, <3>1, <3>2 DEF Sent
  <2>2. CASE d # c
    <3>1. replies'[d] = replies[d] /\ replies[d] \in Seq(Message) /\ requests'[d] = requests[d]
      BY <1>1, <2>2
    <3>2. AddRight(d, <<>>)
      BY <3>1, NoMessage DEF AddRight
    <3>3. \A req, i : ~Took(d, req, i)
      BY <1>1, <3>1, NotTook
    <3>4. SetsRight(d, <<>>)
      BY <2>2, <3>3 DEF SetsRight, Finds
    <3>5. Handled(d, <<>>)
      BY <1>2, <3>1, <3>2, <3>4 DEF Handled, Read
    <3>6. QED BY <3>1, <3>5
  <2>3. QED BY <2>1, <2>2
<1>4. replies' \in [Clients -> Seq(Message)]
  <2>1. \A d \in Clients : replies'[d] \in Seq(Message)
    BY <1>3
  <2>2. QED BY <1>1, <2>1
<1>5. \A i \in DOMAIN rset' : rset'[i].client \in served'
  BY <1>1 DEF ServerInv
<1>6. closing' \in served' \cup {None} /\ (closing' # None => link[closing'] = "down")
  BY <1>1 DEF ServerInv, Types
<1>7. QED BY <1>2, <1>3, <1>4, <1>5, <1>6, ServerStep

\* A step that updates the zone from S.
LEMMA Moved ==
    ASSUME IInv, UNCHANGED <<clientVars, link, served, closing, nextId>>,
           requests' \in [Clients -> Seq(Message)],
           NEW S, S \in [DOMAIN S -> ServerSet], DOMAIN S \subseteq DOMAIN rset,
           \A i \in DOMAIN S : S[i].client = rset[i].client,
           NEW asker, NEW c, NEW before, Plain(before),
           UpdateZone(S, asker, c, before, <<>>),
           \A d \in Clients : link[d] = "up" => Read(d) /\ StartRight(d, S, asker)
    PROVE  IInv'
<1>1. /\ Types /\ ServerInv
      /\ replies \in [Clients -> Seq(Message)]
      /\ nextId \in Nat /\ nextId # 0 /\ DOMAIN rset \subseteq 1..(nextId - 1)
  BY DEF IInv, Types
<1>2. before \in Seq(Message) /\ <<>> \in Seq(Message) /\ Plain(<<>>)
  BY NoMessage DEF Plain
<1>3. ZoneStep(S, asker, c, before, <<>>)
  <2>1. PICK n \in Nat : n = nextId - 1
    BY <1>1
  <2>2. DOMAIN S \subseteq 1..n
    BY <1>1, <2>1
  <2>3. QED BY <1>1, <1>2, <2>2, ZoneUpdated
<1>4. /\ DOMAIN rset' = DOMAIN S /\ rset' \in [DOMAIN rset' -> ServerSet]
      /\ replies' \in [Clients -> Seq(Message)]
      /\ \A i \in DOMAIN rset' : rset'[i].client = rset[i].client
  BY <1>3 DEF ZoneStep
<1>5. Later
  BY <1>1, <1>4 DEF Later
<1>6. ASSUME NEW d \in Clients
      PROVE  /\ link[d] = "up" => \E add : Handled(d, add)
             /\ link[d] = "down" => replies'[d] = replies[d]
  <2>1. CASE link[d] = "up"
    <3>1. Read(d) /\ StartRight(d, S, asker)
      BY <2>1
    <3>2. QED BY <1>1, <1>2, <1>3, <1>5, <2>1, <3>1, ZoneHandled
  <2>2. CASE link[d] = "down"
    BY <1>3, <2>2 DEF ZoneStep, Sent
  <2>3. QED BY <1>1, <2>1, <2>2 DEF Types
<1>7. \A i \in DOMAIN rset' : rset'[i].client \in served'
  BY <1>1, <1>4 DEF ServerInv
<1>8. closing' \in served' \cup {None} /\ (closing' # None => link[closing'] = "down")
  BY <1>1 DEF ServerInv, Types
<1>9. QED BY <1>4, <1>5, <1>6, <1>7, <1>8, ServerStep

LEMMA AnswerIs ==
    ASSUME NEW m \in Message
    PROVE  /\ Answer(m) \in Message /\ Answer(m).req = m.req
           /\ Answer(m).id = m.id /\ Answer(m).ok = m.ok
           /\ [Answer(m) EXCEPT !.ok = FALSE] \in Message
           /\ [Answer(m) EXCEPT !.ok = FALSE].req = m.req
           /\ [Answer(m) EXCEPT !.ok = FALSE].ok = FALSE
<1>1. PICK a : a = [m EXCEPT !.seqno = 0]
  OBVIOUS
<1>2. a \in Message /\ a.req = m.req /\ a.id = m.id /\ a.ok = m.ok
  BY <1>1 DEF Message
<1>3. PICK b : b = [a EXCEPT !.ok = FALSE]
  OBVIOUS
<1>4. b \in Message /\ b.req = a.req /\ b.ok = FALSE
  BY <1>2, <1>3 DEF Message
<1>5. Answer(m) = a
  BY <1>1 DEF Answer
<1>6. QED BY <1>2, <1>3, <1>4, <1>5

\* A request that is answered, and does nothing: about no set, or one that
\* is not there.
LEMMA OnlyAnswered ==
    ASSUME IInv, NEW c \in Clients, NEW req \in {"classes", "resources", "destroy", "acquire", "release"},
           ServedFacts(c, req), NEW a \in Message, Reply(c, a), UNCHANGED <<rset, nextId>>,
           a.req = req, req \in {"acquire", "release"} => ~a.ok,
           req \in Queries \/ ~Finds(c, Head(requests[c]).id)
    PROVE  IInv'
<1>1. <<a>> \in Seq(Message) /\ DOMAIN <<a>> = {1} /\ <<a>>[1] = a
  BY OneMessage
<1>2. /\ nextId \in Nat /\ DOMAIN rset \subseteq 1..(nextId - 1)
      /\ rset \in [DOMAIN rset -> ServerSet]
      /\ replies \in [Clients -> Seq(Message)]
  BY DEF IInv, Types
<1>3. replies' = [replies EXCEPT ![c] = Sent(@, c, <<a>>)]
  BY DEF Reply
<1>4. ASSUME link[c] = "up"
      PROVE  Handled(c, <<a>>)
  <2>1. replies'[c] = replies[c] \o <<a>>
    BY <1>2, <1>3, <1>4 DEF Sent
  <2>2. AddRight(c, <<a>>)
    BY <1>1, <2>1 DEF AddRight
  <2>3. \A i : Finds(c, i) => ~Took(c, "acquire", i) /\ ~Took(c, "destroy", i) /\ ~Took(c, "release", i)
    BY DEF Took, ServedFacts, Queries
  <2>4. SetsRight(c, <<a>>)
    BY <2>3 DEF SetsRight, Finds
  <2>5. Later
    BY <1>2 DEF Later
  <2>6. Read(c)
    BY DEF Read, ServedFacts
  <2>7. QED BY <2>2, <2>4, <2>5, <2>6 DEF Handled, ServedFacts
<1>5. /\ UNCHANGED <<clientVars, link, served, closing, nextId>>
      /\ requests' \in [Clients -> Seq(Message)]
      /\ \A d \in Clients : d # c => requests'[d] = requests[d]
  BY DEF ServedFacts
<1>6. /\ rset' \in [DOMAIN rset' -> ServerSet]
      /\ DOMAIN rset' \subseteq DOMAIN rset
      /\ \A i \in DOMAIN rset' : rset'[i] = rset[i]
      /\ \A i \in DOMAIN rset : rset[i].client # c => i \in DOMAIN rset'
  BY <1>2
<1>7. QED BY <1>1, <1>3, <1>4, <1>5, <1>6, Unmoved

LEMMA RejectedKeeps ==
    ASSUME IInv, NEW c \in Clients, NEW req \in {"destroy", "acquire", "release"},
           ServedFacts(c, req), Rejected(c)
    PROVE  IInv'
<1>. DEFINE m == Head(requests[c])
            a == [Answer(m) EXCEPT !.ok = FALSE]
<1>1. a \in Message /\ a.req = req /\ ~a.ok
  BY AnswerIs DEF ServedFacts
<1>2. Reply(c, a) /\ UNCHANGED <<rset, nextId>> /\ ~Finds(c, m.id)
  BY DEF Rejected
<1>. HIDE DEF a
<1>3. req \in {"classes", "resources", "destroy", "acquire", "release"}
  OBVIOUS
<1>4. QED BY <1>1, <1>2, <1>3, OnlyAnswered

LEMMA ServeQueryKeeps ==
    ASSUME IInv, NEW c \in Clients, ServeQuery(c)
    PROVE  IInv'
<1>1. PICK q \in Queries :
        Serving(c, q) /\ Reply(c, Head(requests[c])) /\ UNCHANGED <<rset, nextId>>
  BY DEF ServeQuery
<1>2. ServedFacts(c, q)
  BY <1>1, ServingFacts
<1>3. Head(requests[c]) \in Message /\ Head(requests[c]).req = q
  BY <1>2 DEF ServedFacts
<1>4. q \in {"classes", "resources", "destroy", "acquire", "release"} /\ q \notin {"acquire", "release"}
  BY DEF Queries
<1>5. QED BY <1>1, <1>2, <1>3, <1>4, OnlyAnswered

\* The answer to a request about a set that is there.
LEMMA AnswerPlain ==
    ASSUME Types, NEW c \in Clients, NEW m \in Message, Finds(c, m.id),
           m.req \in {"destroy", "acquire", "release"}
    PROVE  Plain(<<Answer(m)>>)
<1>1. Answer(m) \in Message /\ Answer(m).req = m.req /\ Answer(m).id = m.id
  BY AnswerIs
<1>2. m.id \in 1..(nextId - 1)
  BY DEF Finds, Types
<1>3. <<Answer(m)>> \in Seq(Message) /\ DOMAIN <<Answer(m)>> = {1} /\ <<Answer(m)>>[1] = Answer(m)
  BY <1>1, OneMessage
<1>4. QED BY <1>1, <1>2, <1>3 DEF Plain

\* What is read is the request of client c; the others' wait.
LEMMA ReadBy ==
    ASSUME Types, NEW c \in Clients, NEW req, req # "create", ServedFacts(c, req), NEW d \in Clients
    PROVE  /\ Read(d)
           /\ \A r, i : Took(d, r, i) <=> d = c /\ r = req /\ i = Head(requests[c]).id
<1>1. CASE d = c
  BY <1>1 DEF Read, ServedFacts, Took
<1>2. CASE d # c
  <2>1. requests'[d] = requests[d]
    BY <1>2 DEF ServedFacts
  <2>2. QED BY <1>2, <2>1, NotTook DEF Read
<1>3. QED BY <1>1, <1>2

LEMMA ServeAcquireKeeps ==
    ASSUME IInv, NEW c \in Clients, ServeAcquire(c)
    PROVE  IInv'
<1>. DEFINE m == Head(requests[c])
            S == [rset EXCEPT ![m.id].state = "acquire"]
<1>1. ServedFacts(c, "acquire") /\ Types
  BY ServingFacts DEF ServeAcquire, IInv
<1>2. CASE Rejected(c)
  BY <1>1, <1>2, RejectedKeeps
<1>3. CASE /\ Finds(c, m.id)
           /\ UpdateZone(S, m.id, c, <<Answer(m)>>, <<>>)
           /\ UNCHANGED nextId
  <2>1. m \in Message /\ m.req = "acquire"
    BY <1>1 DEF ServedFacts
  <2>2. Plain(<<Answer(m)>>)
    BY <1>1, <1>3, <2>1, AnswerPlain
  <2>3. rset \in [DOMAIN rset -> ServerSet] /\ m.id \in DOMAIN rset
    BY <1>1, <1>3 DEF Types, Finds
  <2>4. /\ DOMAIN S = DOMAIN rset
        /\ \A i \in DOMAIN S : /\ S[i] \in ServerSet /\ S[i].client = rset[i].client
                               /\ i # m.id => S[i] = rset[i]
    <3>1. ASSUME NEW i \in DOMAIN rset
          PROVE  /\ S[i] \in ServerSet /\ S[i].client = rset[i].client
                 /\ i # m.id => S[i] = rset[i]
      <4>1. rset[i] \in ServerSet
        BY <2>3
      <4>2. S[i] = IF i = m.id THEN [rset[i] EXCEPT !.state = "acquire"] ELSE rset[i]
        BY <2>3
      <4>3. QED BY <4>1, <4>2 DEF ServerSet
    <3>2. QED BY <3>1, <2>3
  <2>5. S \in [DOMAIN S -> ServerSet]
    BY <2>4
  <2>. HIDE DEF S, m
  <2>6. \A d \in Clients : Read(d) /\ \A r, i : Took(d, r, i) <=> d = c /\ r = "acquire" /\ i = m.id
    BY <1>1, ReadBy DEF m
  <2>7. ASSUME NEW d \in Clients
        PROVE  StartRight(d, S, m.id)
    <3>1. ASSUME NEW i \in DOMAIN S, S[i].client = d, i = m.id
          PROVE  Took(d, "acquire", i) /\ ~Took(d, "release", i) /\ ~Took(d, "destroy", i)
      BY <3>1, <1>3, <2>4, <2>6 DEF Finds
    <3>2. ASSUME NEW i \in DOMAIN S, i # m.id
          PROVE  /\ ~Took(d, "acquire", i) /\ ~Took(d, "release", i) /\ ~Took(d, "destroy", i)
                 /\ S[i] = rset[i]
      BY <3>2, <2>4, <2>6
    <3>3. QED BY <2>4, <3>1, <3>2 DEF StartRight, Finds
  <2>8. /\ UNCHANGED <<clientVars, link, served, closing, nextId>>
        /\ requests' \in [Clients -> Seq(Message)]
    BY <1>1, <1>3 DEF ServedFacts
  <2>9. UpdateZone(S, m.id, c, <<Answer(m)>>, <<>>)
    BY <1>3 DEF S, m
  <2>10. Plain(<<Answer(m)>>)
    BY <2>2 DEF m
  <2>11. /\ DOMAIN S \subseteq DOMAIN rset
         /\ \A i \in DOMAIN S : S[i].client = rset[i].client
    BY <2>4
  <2>12. QED BY <2>5, <2>6, <2>7, <2>8, <2>9, <2>10, <2>11, Moved
<1>4. QED BY <1>2, <1>3 DEF ServeAcquire

LEMMA ServeReleaseKeeps ==
    ASSUME IInv, NEW c \in Clients, ServeRelease(c)
    PROVE  IInv'
<1>. DEFINE m == Head(requests[c])
            S == Released(m.id)
<1>1. ServedFacts(c, "release") /\ Types
  BY ServingFacts DEF ServeRelease, IInv
<1>2. /\ m \in Message /\ m.req = "release"
      /\ rset \in [DOMAIN rset -> ServerSet] /\ DOMAIN rset \subseteq 1..(nextId - 1)
      /\ nextId \in Nat /\ replies \in [Clients -> Seq(Message)]
  BY <1>1 DEF ServedFacts, Types
<1>3. /\ UNCHANGED <<clientVars, link, served, closing>>
      /\ requests' \in [Clients -> Seq(Message)]
      /\ \A d \in Clients : d # c => requests'[d] = requests[d]
  BY <1>1 DEF ServedFacts
<1>4. \A d \in Clients : Read(d) /\ \A r, i : Took(d, r, i) <=> d = c /\ r = "release" /\ i = m.id
  BY <1>1, ReadBy
<1>5. CASE Rejected(c)
  BY <1>1, <1>5, RejectedKeeps
<1>6. CASE /\ Finds(c, m.id) /\ rset[m.id].state = "release"
           /\ replies' = [replies EXCEPT ![c] =
                Sent(@, c, <<Answer(m), Event(m.id, rset[m.id])>>)]
           /\ UNCHANGED <<rset, nextId>>
  <2>. DEFINE e == Event(m.id, rset[m.id])
              ms == <<Answer(m), e>>
  <2>1. m.id \in 1..(nextId - 1) /\ m.id \in Nat /\ rset[m.id] \in ServerSet
    <3>1. m.id \in 1..(nextId - 1) /\ rset[m.id] \in ServerSet
      BY <1>2, <1>6 DEF Finds
    <3>2. QED BY <3>1
  <2>2. EventOf(e, m.id, rset[m.id])
    BY <2>1, EventIs
  <2>3. Answer(m) \in Message /\ Answer(m).req = "release" /\ Answer(m).id = m.id
    BY <1>2, AnswerIs
  <2>4. e \in Message
    BY <2>2 DEF EventOf
  <2>. HIDE DEF e
  <2>5. ms \in Seq(Message) /\ DOMAIN ms = {1, 2} /\ ms[1] = Answer(m) /\ ms[2] = e
    BY <2>3, <2>4
  <2>. HIDE DEF ms
  <2>6. ASSUME link[c] = "up"
        PROVE  Handled(c, ms)
    <3>1. replies'[c] = replies[c] \o ms
      BY <1>2, <1>6, <2>6 DEF Sent, ms, e
    <3>2. AddRight(c, ms)
      <4>1. /\ ms[1].req = "release" /\ ms[1].id \in 1..(nextId - 1)
            /\ ms[2].req = "event"
            /\ m.id \in DOMAIN rset' /\ rset'[m.id].client = c /\ EventOf(ms[2], m.id, rset'[m.id])
        BY <1>6, <2>1, <2>2, <2>3, <2>5 DEF EventOf, Finds
      <4>2. QED BY <2>5, <3>1, <4>1 DEF AddRight
    <3>3. SetsRight(c, ms)
      <4>1. ASSUME NEW i \in DOMAIN rset, rset[i].client = c
            PROVE  /\ ~Took(c, "acquire", i) /\ ~Took(c, "destroy", i)
                   /\ Took(c, "release", i) => rset[i].state = "release"
        BY <1>4, <1>6
      <4>2. QED BY <1>6, <4>1 DEF SetsRight, Finds
    <3>4. Later
      BY <1>2, <1>6 DEF Later
    <3>5. QED BY <1>3, <1>4, <3>2, <3>3, <3>4 DEF Handled
  <2>7. replies' = [replies EXCEPT ![c] = Sent(@, c, ms)]
    BY <1>6 DEF ms, e
  <2>8. /\ rset' \in [DOMAIN rset' -> ServerSet]
        /\ DOMAIN rset' \subseteq DOMAIN rset
        /\ \A i \in DOMAIN rset' : rset'[i] = rset[i]
        /\ \A i \in DOMAIN rset : rset[i].client # c => i \in DOMAIN rset'
    BY <1>2, <1>6
  <2>9. UNCHANGED <<clientVars, link, served, closing, nextId>>
    BY <1>3, <1>6
  <2>10. QED BY <1>3, <2>5, <2>6, <2>7, <2>8, <2>9, Unmoved
<1>7. CASE /\ Finds(c, m.id) /\ rset[m.id].state = "acquire"
           /\ UpdateZone(S, m.id, c, <<Answer(m)>>, <<>>)
           /\ UNCHANGED nextId
  <2>1. Plain(<<Answer(m)>>)
    BY <1>1, <1>2, <1>7, AnswerPlain
  <2>2. /\ DOMAIN S = DOMAIN rset
        /\ \A i \in DOMAIN S : /\ S[i] \in ServerSet /\ S[i].client = rset[i].client
                               /\ i # m.id => S[i] = rset[i]
                               /\ i = m.id => S[i].state = "release"
    <3>0. DOMAIN S = DOMAIN rset
      BY DEF Released
    <3>1. ASSUME NEW i \in DOMAIN rset
          PROVE  /\ S[i] \in ServerSet /\ S[i].client = rset[i].client
                 /\ i # m.id => S[i] = rset[i]
                 /\ i = m.id => S[i].state = "release"
      <4>1. rset[i] \in ServerSet
        BY <1>2
      <4>2. S[i] = IF i = m.id THEN [rset[i] EXCEPT !.state = "release"] ELSE rset[i]
        BY <1>2 DEF Released
      <4>3. QED BY <4>1, <4>2 DEF ServerSet
    <3>2. QED BY <3>0, <3>1
  <2>3. S \in [DOMAIN S -> ServerSet]
    BY <2>2 DEF Released
  <2>. HIDE DEF S, m
  <2>4. ASSUME NEW d \in Clients
        PROVE  StartRight(d, S, m.id)
    <3>1. ASSUME NEW i \in DOMAIN S
          PROVE  /\ ~Took(d, "acquire", i) /\ ~Took(d, "destroy", i)
                 /\ S[i].state \in {rset[i].state, "release"}
                 /\ Took(d, "release", i) => S[i].state = "release"
                 /\ i # m.id => S[i] = rset[i]
      BY <1>4, <2>2
    <3>2. QED BY <2>2, <3>1 DEF StartRight, Finds
  <2>5. UNCHANGED <<clientVars, link, served, closing, nextId>>
    BY <1>3, <1>7
  <2>6. UpdateZone(S, m.id, c, <<Answer(m)>>, <<>>)
    BY <1>7 DEF S, m
  <2>7. Plain(<<Answer(m)>>)
    BY <2>1 DEF m
  <2>8. /\ DOMAIN S \subseteq DOMAIN rset
        /\ \A i \in DOMAIN S : S[i].client = rset[i].client
    BY <2>2
  <2>9. \A d \in Clients : Read(d)
    BY <1>4
  <2>10. QED BY <1>3, <2>3, <2>4, <2>5, <2>6, <2>7, <2>8, <2>9, Moved
<1>8. QED BY <1>5, <1>6, <1>7 DEF ServeRelease

\* The set id of client c goes.
LEMMA DestroySetKeeps ==
    ASSUME IInv, NEW c \in Clients, NEW id, Finds(c, id), NEW before, Plain(before),
           \A k \in DOMAIN before : before[k].req = "destroy",
           UNCHANGED <<clientVars, link, served, closing, nextId>>,
           requests' \in [Clients -> Seq(Message)],
           \A d \in Clients : d # c => requests'[d] = requests[d],
           \A d \in Clients : Read(d) /\ \A r, i : Took(d, r, i) => d = c /\ r = "destroy" /\ i = id,
           link[c] = "up" => Took(c, "destroy", id),
           DestroySet(c, id, before)
    PROVE  IInv'
<1>. DEFINE S == Without(id)
<1>1. /\ Types /\ before \in Seq(Message)
      /\ rset \in [DOMAIN rset -> ServerSet] /\ DOMAIN rset \subseteq 1..(nextId - 1)
      /\ nextId \in Nat /\ replies \in [Clients -> Seq(Message)]
  BY DEF IInv, Types, Plain
<1>2. /\ DOMAIN S = DOMAIN rset \ {id}
      /\ S \in [DOMAIN S -> ServerSet]
      /\ \A i \in DOMAIN S : S[i] = rset[i]
  BY <1>1 DEF Without
<1>. HIDE DEF S
<1>3. CASE UpdateZone(S, 0, c, before, <<>>)
  <2>1. ASSUME NEW d \in Clients, link[d] = "up"
        PROVE  StartRight(d, S, 0)
    <3>1. ASSUME NEW i \in DOMAIN rset, rset[i].client = d, i \notin DOMAIN S
          PROVE  Took(d, "destroy", i)
      BY <2>1, <3>1, <1>2 DEF Finds
    <3>2. \A i \in DOMAIN S : ~Took(d, "destroy", i) /\ ~Took(d, "acquire", i) /\ ~Took(d, "release", i)
      BY <1>2
    <3>3. QED BY <1>2, <3>1, <3>2 DEF StartRight, Finds
  <2>2. /\ DOMAIN S \subseteq DOMAIN rset
        /\ \A i \in DOMAIN S : S[i].client = rset[i].client
    BY <1>2
  <2>3. QED BY <1>2, <1>3, <2>1, <2>2, Moved
<1>4. CASE /\ rset' = S
           /\ replies' = [replies EXCEPT ![c] = Sent(@, c, before)]
  <2>1. ASSUME link[c] = "up"
        PROVE  Handled(c, before)
    <3>1. replies'[c] = replies[c] \o before
      BY <1>1, <1>4, <2>1 DEF Sent
    <3>2. AddRight(c, before)
      BY <1>1, <3>1 DEF AddRight
    <3>3. SetsRight(c, before)
      <4>1. ASSUME NEW i \in DOMAIN rset, i \notin DOMAIN S
            PROVE  Took(c, "destroy", i)
        BY <2>1, <4>1, <1>2
      <4>2. \A i \in DOMAIN S : ~Took(c, "destroy", i) /\ ~Took(c, "acquire", i) /\ ~Took(c, "release", i)
        BY <1>2
      <4>3. QED BY <1>2, <1>4, <4>1, <4>2 DEF SetsRight, Finds
    <3>4. Later
      BY <1>1, <1>2, <1>4 DEF Later
    <3>5. QED BY <3>2, <3>3, <3>4 DEF Handled
  <2>2. /\ rset' \in [DOMAIN rset' -> ServerSet]
        /\ DOMAIN rset' \subseteq DOMAIN rset
        /\ \A i \in DOMAIN rset' : rset'[i] = rset[i]
        /\ \A i \in DOMAIN rset : rset[i].client # c => i \in DOMAIN rset'
    BY <1>2, <1>4 DEF Finds
  <2>3. QED BY <1>1, <1>4, <2>1, <2>2, Unmoved
<1>5. QED BY <1>3, <1>4 DEF DestroySet, S

LEMMA ServeDestroyKeeps ==
    ASSUME IInv, NEW c \in Clients, ServeDestroy(c)
    PROVE  IInv'
<1>. DEFINE m == Head(requests[c])
<1>1. ServedFacts(c, "destroy") /\ Types
  BY ServingFacts DEF ServeDestroy, IInv
<1>2. CASE Rejected(c)
  BY <1>1, <1>2, RejectedKeeps
<1>3. CASE /\ Finds(c, m.id)
           /\ DestroySet(c, m.id, <<Answer(m)>>)
           /\ UNCHANGED nextId
  <2>1. m \in Message /\ m.req = "destroy"
    BY <1>1 DEF ServedFacts
  <2>2. Plain(<<Answer(m)>>)
    BY <1>1, <1>3, <2>1, AnswerPlain
  <2>3. \A k \in DOMAIN <<Answer(m)>> : <<Answer(m)>>[k].req = "destroy"
    <3>1. Answer(m) \in Message /\ Answer(m).req = "destroy"
      BY <2>1, AnswerIs
    <3>2. QED BY <3>1, OneMessage
  <2>4. \A d \in Clients : Read(d) /\ \A r, i : Took(d, r, i) <=> d = c /\ r = "destroy" /\ i = m.id
    BY <1>1, ReadBy
  <2>5. /\ UNCHANGED <<clientVars, link, served, closing, nextId>>
        /\ requests' \in [Clients -> Seq(Message)]
        /\ \A d \in Clients : d # c => requests'[d] = requests[d]
    BY <1>1, <1>3 DEF ServedFacts
  <2>. HIDE DEF m
  <2>6. QED BY <1>3, <2>2, <2>3, <2>4, <2>5, DestroySetKeeps
<1>4. QED BY <1>2, <1>3 DEF ServeDestroy

LEMMA OthersUpdateKeeps ==
    ASSUME IInv, OthersUpdate
    PROVE  IInv'
<1>1. /\ Types
      /\ rset \in [DOMAIN rset -> ServerSet] /\ requests \in [Clients -> Seq(Message)]
      /\ Plain(<<>>)
  BY NoMessage DEF IInv, Types, Plain
<1>2. /\ UNCHANGED <<clientVars, link, served, closing, nextId>>
      /\ requests' \in [Clients -> Seq(Message)]
      /\ \A d \in Clients : requests'[d] = requests[d]
      /\ UpdateZone(rset, 0, None, <<>>, <<>>)
  BY <1>1 DEF OthersUpdate
<1>3. \A d \in Clients : \A r, i : ~Took(d, r, i)
  BY <1>1, <1>2, NotTook
<1>4. \A d \in Clients : Read(d) /\ StartRight(d, rset, 0)
  BY <1>2, <1>3 DEF Read, StartRight, Finds
<1>5. DOMAIN rset \subseteq DOMAIN rset /\ \A i \in DOMAIN rset : rset[i].client = rset[i].client
  OBVIOUS
<1>6. QED BY <1>1, <1>2, <1>4, <1>5, Moved

\* A client the server does nothing to.
LEMMA Idle ==
    ASSUME Types, NEW d \in Clients, requests'[d] = requests[d], replies'[d] = replies[d],
           UNCHANGED <<rset, clientVars>>, Later
    PROVE  Handled(d, <<>>)
<1>1. replies[d] \in Seq(Message)
  BY DEF Types
<1>2. AddRight(d, <<>>)
  BY <1>1, NoMessage DEF AddRight
<1>3. \A req, i : ~Took(d, req, i)
  BY NotTook
<1>4. SetsRight(d, <<>>)
  BY <1>3 DEF SetsRight, Finds
<1>5. QED BY <1>1, <1>2, <1>4 DEF Handled, Read

LEMMA ServerClosedKeeps ==
    ASSUME IInv, NEW c \in Clients, ServerClosed(c)
    PROVE  IInv'
<1>1. /\ Types /\ ServerInv
      /\ requests \in [Clients -> Seq(Message)] /\ replies \in [Clients -> Seq(Message)]
      /\ rset \in [DOMAIN rset -> ServerSet]
  BY DEF IInv, Types
<1>2. /\ requests' = [requests EXCEPT ![c] = <<>>]
      /\ c \in served /\ link[c] = "down" /\ closing' = c
      /\ UNCHANGED <<replies, link, served, rset, nextId, clientVars>>
  BY DEF ServerClosed
<1>3. Later
  BY <1>1, <1>2 DEF Types, Later
<1>4. requests' \in [Clients -> Seq(Message)]
  BY <1>1, <1>2, NoMessage
<1>5. ASSUME NEW d \in Clients
      PROVE  /\ link[d] = "up" => \E add : Handled(d, add)
             /\ link[d] = "down" => replies'[d] = replies[d]
  <2>1. CASE d = c
    BY <1>2, <2>1
  <2>2. CASE d # c
    <3>1. requests'[d] = requests[d]
      BY <1>1, <1>2, <2>2
    <3>2. Handled(d, <<>>)
      BY <1>1, <1>2, <1>3, <3>1, Idle
    <3>3. QED BY <1>2, <3>2
  <2>3. QED BY <2>1, <2>2
<1>6. \A i \in DOMAIN rset' : rset'[i].client \in served'
  BY <1>1, <1>2 DEF ServerInv
<1>7. /\ served' \subseteq served /\ closing' \in served' \cup {None}
      /\ closing' # None => link[closing'] = "down"
      /\ replies' \in [Clients -> Seq(Message)]
      /\ rset' \in [DOMAIN rset' -> ServerSet]
      /\ UNCHANGED <<clientVars, link>>
  BY <1>1, <1>2
<1>8. QED BY <1>3, <1>4, <1>5, <1>6, <1>7, ServerStep

LEMMA ServerCleansKeeps ==
    ASSUME IInv, ServerCleans
    PROVE  IInv'
<1>1. /\ Types /\ ServerInv
      /\ requests \in [Clients -> Seq(Message)] /\ replies \in [Clients -> Seq(Message)]
      /\ rset \in [DOMAIN rset -> ServerSet]
      /\ closing \in Clients /\ link[closing] = "down"
  BY DEF IInv, Types, ServerInv, ServerCleans
<1>2. UNCHANGED <<requests, link, nextId, clientVars>>
  BY DEF ServerCleans
<1>3. \A d \in Clients : Read(d) /\ \A r, i : ~Took(d, r, i)
  BY <1>1, <1>2, NotTook DEF Read
<1>4. ASSUME NEW i \in LeftBy(closing), DestroySet(closing, i, <<>>), UNCHANGED <<served, closing>>
      PROVE  IInv'
  <2>1. Finds(closing, i)
    BY DEF LeftBy, Finds
  <2>2. Plain(<<>>) /\ \A k \in DOMAIN <<>> : <<>>[k].req = "destroy"
    BY NoMessage DEF Plain
  <2>3. PICK c \in Clients : c = closing
    BY <1>1
  <2>4. Finds(c, i) /\ DestroySet(c, i, <<>>) /\ link[c] = "down"
    BY <1>1, <1>4, <2>1, <2>3
  <2>5. UNCHANGED <<clientVars, link, served, closing, nextId>>
    BY <1>2, <1>4
  <2>6. requests' \in [Clients -> Seq(Message)] /\ \A d \in Clients : requests'[d] = requests[d]
    BY <1>1, <1>2
  <2>7. QED BY <1>3, <2>2, <2>4, <2>5, <2>6, DestroySetKeeps
<1>5. ASSUME LeftBy(closing) = {}, served' = served \ {closing}, closing' = None,
             UNCHANGED <<rset, replies>>
      PROVE  IInv'
  <2>1. Later
    BY <1>1, <1>2, <1>5 DEF Types, Later
  <2>2. \A i \in DOMAIN rset' : rset'[i].client \in served'
    BY <1>1, <1>5 DEF ServerInv, LeftBy
  <2>3. \A d \in Clients : Handled(d, <<>>)
    BY <1>1, <1>2, <1>5, <2>1, Idle
  <2>4. /\ served' \subseteq served /\ closing' \in served' \cup {None}
        /\ closing' # None => link[closing'] = "down"
        /\ requests' \in [Clients -> Seq(Message)]
        /\ replies' \in [Clients -> Seq(Message)]
        /\ rset' \in [DOMAIN rset' -> ServerSet]
        /\ UNCHANGED <<clientVars, link>>
    BY <1>1, <1>2, <1>5
  <2>5. \A d \in Clients : /\ link[d] = "up" => \E add : Handled(d, add)
                           /\ link[d] = "down" => replies'[d] = replies[d]
    BY <1>5, <2>3
  <2>6. QED BY <2>1, <2>2, <2>4, <2>5, ServerStep
<1>6. CASE LeftBy(closing) # {}
  BY <1>4, <1>6 DEF ServerCleans
<1>7. CASE LeftBy(closing) = {}
  BY <1>5, <1>7 DEF ServerCleans
<1>8. QED BY <1>6, <1>7

-----------------------------------------------------------------------------
(* The server creates a set *)

\* Client c is told in message l of add what became of its creation; the rest
\* of add are events.
Created(c, add, l) ==
    /\ UNCHANGED clientVars /\ Later /\ nextId < nextId'
    /\ requests[c] # <<>> /\ requests'[c] = Tail(requests[c])
    /\ Head(requests[c]).req = "create"
    /\ add \in Seq(Message) /\ replies'[c] = replies[c] \o add
    /\ l \in DOMAIN add /\ add[l].req = "create"
    /\ add[l].seqno = Head(requests[c]).seqno /\ add[l].id = nextId
    /\ \A k \in DOMAIN add : k # l =>
         \E i \in DOMAIN rset' : rset'[i].client = c /\ EventOf(add[k], i, rset'[i])
    /\ add[l].ok => nextId \in DOMAIN rset' /\ rset'[nextId].client = c
    /\ \A i \in DOMAIN rset : /\ i \in DOMAIN rset' /\ rset'[i].client = rset[i].client
                              /\ rset'[i].state \in {rset[i].state, "release"}
    /\ \A i \in DOMAIN rset' : i \in DOMAIN rset \/ (i = nextId /\ add[l].ok)
    /\ \A i \in DOMAIN rset' : rset'[i].client = c =>
         \/ i \in DOMAIN rset /\ rset[i] = rset'[i]
         \/ \E k \in DOMAIN add : EventOf(add[k], i, rset'[i])

\* The queues of c before and after.
CreatedQueues(c, add, l) ==
    LET q == replies[c]
        r == replies'[c]
        u == requests[c]
        v == requests'[c]
        n == Len(q) + l
    IN /\ DOMAIN u \subseteq Nat /\ DOMAIN v \subseteq Nat /\ 0 \notin DOMAIN v
       /\ 1 \in DOMAIN u /\ u[1] = Head(u)
       /\ \A k \in DOMAIN v : k + 1 \in DOMAIN u /\ v[k] = u[k + 1]
       /\ \A k \in DOMAIN u : k # 1 => k - 1 \in DOMAIN v /\ v[k - 1] = u[k]
       /\ n \in DOMAIN r /\ n \notin DOMAIN q /\ r[n] = add[l]
       /\ \A k \in DOMAIN q : k \in DOMAIN r /\ r[k] = q[k]
       /\ \A k \in DOMAIN r : \/ k \in DOMAIN q /\ r[k] = q[k]
                              \/ k = n
                              \/ \E i \in DOMAIN rset' : EventOf(r[k], i, rset'[i])

LEMMA CreatedPlaces ==
    ASSUME Types, NEW c \in Clients, NEW add, NEW l, Created(c, add, l)
    PROVE  CreatedQueues(c, add, l)
<1>. DEFINE q == replies[c]
            r == replies'[c]
            u == requests[c]
            v == requests'[c]
            n == Len(q) + l
<1>1. q \in Seq(Message) /\ u \in Seq(Message)
  BY DEF Types
<1>2. /\ add \in Seq(Message) /\ r = q \o add /\ l \in DOMAIN add
      /\ u # <<>> /\ v = Tail(u)
      /\ \A k \in DOMAIN add : k # l => \E i \in DOMAIN rset' : EventOf(add[k], i, rset'[i])
  BY DEF Created
<1>3. /\ Head(u) = u[1] /\ 1 \in DOMAIN u /\ DOMAIN u \subseteq Nat /\ DOMAIN v \subseteq Nat
      /\ \A k \in DOMAIN v : k + 1 \in DOMAIN u /\ v[k] = u[k + 1]
      /\ \A k \in DOMAIN u : k # 1 => k - 1 \in DOMAIN v /\ v[k - 1] = u[k]
  BY <1>1, <1>2, TailPlaces
<1>4. 0 \notin DOMAIN v
  <2>1. v \in Seq(Message)
    BY <1>1, <1>2, TailPlaces
  <2>2. QED BY <2>1, LenProperties
<1>5. /\ DOMAIN add \subseteq Nat /\ Len(q) \in Nat /\ DOMAIN q = 1..Len(q)
      /\ \A k \in DOMAIN q : k \in DOMAIN r /\ r[k] = q[k]
      /\ \A k \in DOMAIN add : Len(q) + k \in DOMAIN r /\ r[Len(q) + k] = add[k]
      /\ \A k \in DOMAIN r : k \notin DOMAIN q =>
           k > Len(q) /\ k - Len(q) \in DOMAIN add /\ r[k] = add[k - Len(q)]
      /\ DOMAIN r \subseteq Nat
  <2>1. q \in Seq(Message) /\ add \in Seq(Message) /\ r = q \o add
    BY <1>1, <1>2
  <2>. HIDE DEF q, r
  <2>2. QED BY <2>1, AddedPlaces
<1>6. n \in DOMAIN r /\ r[n] = add[l] /\ n \notin DOMAIN q
  <2>1. l \in Nat /\ l # 0
    <3>1. 0 \notin DOMAIN add
      BY <1>2, LenProperties
    <3>2. QED BY <1>2, <1>5, <3>1
  <2>2. n \notin 1..Len(q)
    BY <2>1, <1>5
  <2>3. QED BY <1>2, <1>5, <2>2
<1>7. ASSUME NEW k \in DOMAIN r, k \notin DOMAIN q, k # n
      PROVE  \E i \in DOMAIN rset' : EventOf(r[k], i, rset'[i])
  <2>1. k - Len(q) \in DOMAIN add /\ r[k] = add[k - Len(q)]
    BY <1>5, <1>7
  <2>2. k - Len(q) # l
    <3>1. k \in Nat
      BY <1>5
    <3>2. l \in Nat
      BY <1>2, <1>5
    <3>3. QED BY <3>1, <3>2, <1>5, <1>7
  <2>3. QED BY <1>2, <2>1, <2>2
<1>8. QED BY <1>3, <1>4, <1>5, <1>6, <1>7 DEF CreatedQueues

LEMMA CreatedIds ==
    ASSUME Types, NEW c \in Clients, IdsInv(c), \A s \in Sets : LibInv(s),
           NEW add, NEW l, Created(c, add, l)
    PROVE  IdsInv(c)'
<1>. DEFINE q == replies[c]
            r == replies'[c]
            n == Len(q) + l
<1>1. /\ n \in DOMAIN r /\ n \notin DOMAIN q /\ r[n] = add[l]
      /\ \A k \in DOMAIN r : \/ k \in DOMAIN q /\ r[k] = q[k]
                             \/ k = n
                             \/ \E i \in DOMAIN rset' : EventOf(r[k], i, rset'[i])
  BY CreatedPlaces DEF CreatedQueues
<1>2. /\ lib' = lib /\ add[l].req = "create" /\ add[l].id = nextId
      /\ DOMAIN rset' \subseteq 1..(nextId' - 1)
  BY DEF Created, clientVars, Later
<1>3. 1..(nextId - 1) \subseteq 1..(nextId' - 1) /\ nextId \in 1..(nextId' - 1)
      /\ nextId \notin 1..(nextId - 1)
  <2>1. nextId \in Nat /\ nextId # 0 /\ nextId' \in Nat /\ nextId < nextId'
    BY DEF Types, Created, Later
  <2>2. nextId <= nextId' /\ nextId \in 1..(nextId' - 1) /\ nextId \notin 1..(nextId - 1)
    <3>1. PICK a \in Nat : a = nextId
      BY <2>1
    <3>2. PICK b \in Nat : b = nextId'
      BY <2>1
    <3>3. a # 0 /\ a < b
      BY <2>1, <3>1, <3>2
    <3>4. a <= b /\ a \in 1..(b - 1) /\ a \notin 1..(a - 1)
      BY <3>3
    <3>5. QED BY <3>1, <3>2, <3>4
  <2>3. QED BY <2>1, <2>2, MoreIds
<1>. HIDE DEF n, q, r
<1>4. \A s \in SetsOf(c) : lib[s].id # nextId
  <2>1. ASSUME NEW s \in SetsOf(c)
        PROVE  lib[s].id # nextId
    <3>1. s \in Sets
      BY DEF SetsOf
    <3>2. lib[s].id < nextId /\ lib[s].id \in Nat /\ nextId \in Nat
      BY <3>1 DEF LibInv, Types
    <3>3. QED BY <3>2
  <2>2. QED BY <2>1
<1>5. \A k \in DOMAIN q :
        /\ q[k].req = "event" => q[k].id \in 1..(nextId - 1)
        /\ q[k].req \in {"create", "acquire", "release"} /\ q[k].ok => q[k].id \in 1..(nextId - 1)
  BY DEF IdsInv, q
<1>6. ASSUME NEW k \in DOMAIN r
      PROVE  /\ r[k].req = "event" => r[k].id \in 1..(nextId' - 1)
             /\ r[k].req \in {"create", "acquire", "release"} /\ r[k].ok => r[k].id \in 1..(nextId' - 1)
  <2>1. CASE k \in DOMAIN q /\ r[k] = q[k]
    BY <2>1, <1>3, <1>5
  <2>2. CASE k = n
    BY <2>2, <1>1, <1>2, <1>3
  <2>3. CASE \E i \in DOMAIN rset' : EventOf(r[k], i, rset'[i])
    BY <2>3, <1>2 DEF EventOf
  <2>4. QED BY <1>1, <2>1, <2>2, <2>3
<1>7. \A k \in DOMAIN r : Made(r, k) =>
        \/ k \in DOMAIN q /\ r[k] = q[k] /\ Made(q, k) /\ q[k].id \in 1..(nextId - 1)
        \/ k = n /\ r[k].id = nextId
  <2>1. ASSUME NEW k \in DOMAIN r, Made(r, k)
        PROVE  \/ k \in DOMAIN q /\ r[k] = q[k] /\ Made(q, k) /\ q[k].id \in 1..(nextId - 1)
               \/ k = n /\ r[k].id = nextId
    <3>1. r[k].req = "create" /\ r[k].ok
      BY <2>1 DEF Made, IsA
    <3>2. CASE k \in DOMAIN q /\ r[k] = q[k]
      BY <3>1, <3>2, <1>5 DEF Made, IsA
    <3>3. CASE k = n
      BY <3>3, <1>1, <1>2
    <3>4. ~(\E i \in DOMAIN rset' : EventOf(r[k], i, rset'[i]))
      BY <3>1 DEF EventOf
    <3>5. QED BY <1>1, <3>2, <3>3, <3>4
  <2>2. QED BY <2>1
<1>8. ASSUME NEW k \in DOMAIN r, Made(r, k)
      PROVE  /\ \A s \in SetsOf(c) : lib[s].id # r[k].id
             /\ \A j \in DOMAIN r : Made(r, j) /\ r[j].id = r[k].id => j = k
  <2>1. CASE k \in DOMAIN q /\ r[k] = q[k] /\ Made(q, k) /\ q[k].id \in 1..(nextId - 1)
    BY <2>1, <1>3, <1>7 DEF IdsInv, q
  <2>2. CASE k = n /\ r[k].id = nextId
    BY <2>2, <1>3, <1>4, <1>7
  <2>3. QED BY <1>7, <1>8, <2>1, <2>2
<1>9. QED BY <1>2, <1>6, <1>8 DEF IdsInv, SetsOf, r

LEMMA CreatedCreations ==
    ASSUME Types, NEW c \in Clients, CreateInv(c), NEW add, NEW l, Created(c, add, l)
    PROVE  CreateInv(c)'
<1>. DEFINE q == replies[c]
            r == replies'[c]
            u == requests[c]
            v == requests'[c]
            n == Len(q) + l
<1>1. /\ DOMAIN v \subseteq Nat /\ 0 \notin DOMAIN v /\ 1 \in DOMAIN u /\ u[1] = Head(u)
      /\ \A k \in DOMAIN v : k + 1 \in DOMAIN u /\ v[k] = u[k + 1]
      /\ n \in DOMAIN r /\ n \notin DOMAIN q /\ r[n] = add[l]
      /\ \A k \in DOMAIN r : \/ k \in DOMAIN q /\ r[k] = q[k]
                             \/ k = n
                             \/ \E i \in DOMAIN rset' : EventOf(r[k], i, rset'[i])
  BY CreatedPlaces DEF CreatedQueues
<1>2. /\ lib' = lib /\ add[l].req = "create" /\ add[l].seqno = u[1].seqno
      /\ u[1].req = "create"
  BY <1>1 DEF Created, clientVars
<1>3. /\ \A k \in DOMAIN u : u[k].req = "create" =>
           /\ Pending(c, u[k].seqno) # {}
           /\ \A j \in DOMAIN u : IsA(u, j, "create") /\ u[j].seqno = u[k].seqno => j = k
           /\ \A j \in DOMAIN q : IsA(q, j, "create") => q[j].seqno # u[k].seqno
      /\ \A k \in DOMAIN q : q[k].req = "create" =>
           /\ Pending(c, q[k].seqno) # {}
           /\ \A j \in DOMAIN q : IsA(q, j, "create") /\ q[j].seqno = q[k].seqno => j = k
  BY DEF CreateInv
<1>. HIDE DEF n, q, r, u, v
<1>4. \A k \in DOMAIN r : r[k].req = "create" =>
        (k \in DOMAIN q /\ r[k] = q[k]) \/ (k = n /\ r[k].seqno = u[1].seqno)
  <2>1. \A k \in DOMAIN r : r[k].req = "create" => ~(\E i \in DOMAIN rset' : EventOf(r[k], i, rset'[i]))
    BY DEF EventOf
  <2>2. QED BY <1>1, <1>2, <2>1
<1>5. ASSUME NEW k \in DOMAIN v, v[k].req = "create"
      PROVE  /\ Pending(c, v[k].seqno) # {}
             /\ \A j \in DOMAIN v : IsA(v, j, "create") /\ v[j].seqno = v[k].seqno => j = k
             /\ \A j \in DOMAIN r : IsA(r, j, "create") => r[j].seqno # v[k].seqno
  <2>1. k + 1 \in DOMAIN u /\ u[k + 1].req = "create" /\ v[k] = u[k + 1] /\ k + 1 # 1
    BY <1>1, <1>5
  <2>2. ASSUME NEW j \in DOMAIN v, IsA(v, j, "create"), v[j].seqno = v[k].seqno
        PROVE  j = k
    <3>1. j + 1 \in DOMAIN u /\ IsA(u, j + 1, "create") /\ u[j + 1].seqno = u[k + 1].seqno
      BY <1>1, <2>1, <2>2 DEF IsA
    <3>2. j + 1 = k + 1
      BY <2>1, <3>1, <1>3
    <3>3. QED BY <3>2, <1>1
  <2>3. u[1].seqno # u[k + 1].seqno
    BY <2>1, <1>1, <1>2, <1>3 DEF IsA
  <2>4. QED BY <2>1, <2>2, <2>3, <1>3, <1>4 DEF IsA
<1>6. ASSUME NEW k \in DOMAIN r, r[k].req = "create"
      PROVE  /\ Pending(c, r[k].seqno) # {}
             /\ \A j \in DOMAIN r : IsA(r, j, "create") /\ r[j].seqno = r[k].seqno => j = k
  <2>1. /\ Pending(c, u[1].seqno) # {}
        /\ \A j \in DOMAIN q : IsA(q, j, "create") => q[j].seqno # u[1].seqno
    BY <1>1, <1>2, <1>3
  <2>2. CASE k \in DOMAIN q /\ r[k] = q[k]
    BY <1>3, <1>4, <1>6, <2>1, <2>2 DEF IsA
  <2>3. CASE k = n /\ r[k].seqno = u[1].seqno
    BY <1>4, <2>1, <2>3 DEF IsA
  <2>4. QED BY <1>4, <1>6, <2>2, <2>3
<1>7. QED BY <1>2, <1>5, <1>6 DEF CreateInv, Pending, SetsOf, r, v

LEMMA CreatedSets ==
    ASSUME Types, NEW c \in Clients, SetInv(c), NEW add, NEW l, Created(c, add, l)
    PROVE  SetInv(c)'
<1>. DEFINE q == replies[c]
            r == replies'[c]
            u == requests[c]
            v == requests'[c]
            n == Len(q) + l
<1>1. /\ DOMAIN v \subseteq Nat /\ 1 \in DOMAIN u /\ u[1] = Head(u)
      /\ \A k \in DOMAIN v : k + 1 \in DOMAIN u /\ v[k] = u[k + 1]
      /\ \A k \in DOMAIN u : k # 1 => k - 1 \in DOMAIN v /\ v[k - 1] = u[k]
      /\ n \in DOMAIN r /\ r[n] = add[l]
      /\ \A k \in DOMAIN q : k \in DOMAIN r /\ r[k] = q[k]
      /\ \A k \in DOMAIN r : \/ k \in DOMAIN q /\ r[k] = q[k]
                             \/ k = n
                             \/ \E i \in DOMAIN rset' : EventOf(r[k], i, rset'[i])
  BY CreatedPlaces DEF CreatedQueues
<1>2. /\ lib' = lib /\ add[l].req = "create" /\ add[l].id = nextId
      /\ u[1].req = "create"
      /\ add[l].ok => nextId \in DOMAIN rset' /\ rset'[nextId].client = c
      /\ \A i \in DOMAIN rset : i \in DOMAIN rset' /\ rset'[i].client = rset[i].client
      /\ \A i \in DOMAIN rset' : i \in DOMAIN rset \/ (i = nextId /\ add[l].ok)
  BY <1>1 DEF Created, clientVars
<1>3. nextId \in Nat /\ nextId' \in Nat /\ nextId < nextId' /\ u \in Seq(Message)
  BY DEF Types, Created, Later
<1>4. /\ \A k \in DOMAIN u : u[k].req = "destroy" /\ u[k].id # 0 =>
           /\ u[k].id < nextId
           /\ \A s \in SetsOf(c) : lib[s].id # u[k].id
           /\ \A j \in DOMAIN q : Made(q, j) => q[j].id # u[k].id
      /\ \A k \in DOMAIN q : Made(q, k) => Finds(c, q[k].id)
      /\ \A s \in SetsOf(c) : lib[s].id # 0 => Finds(c, lib[s].id)
      /\ \A i \in DOMAIN rset : rset[i].client = c =>
           \/ Mapped(c, i) # {}
           \/ \E k \in DOMAIN q : Made(q, k) /\ q[k].id = i
           \/ \E k \in DOMAIN u : u[k].req = "destroy" /\ u[k].id = i
  BY DEF SetInv
<1>. HIDE DEF n, q, r, u, v
<1>5. \A k \in DOMAIN r : Made(r, k) =>
        \/ k \in DOMAIN q /\ r[k] = q[k] /\ Made(q, k)
        \/ k = n /\ r[k].id = nextId /\ add[l].ok
  <2>1. \A k \in DOMAIN r : Made(r, k) => ~(\E i \in DOMAIN rset' : EventOf(r[k], i, rset'[i]))
    BY DEF EventOf, Made, IsA
  <2>2. QED BY <1>1, <1>2, <2>1 DEF Made, IsA
<1>6. ASSUME NEW k \in DOMAIN r, Made(r, k)
      PROVE  r[k].id \in DOMAIN rset' /\ rset'[r[k].id].client = c
  BY <1>2, <1>4, <1>5, <1>6 DEF Finds
<1>7. ASSUME NEW s \in SetsOf(c), lib[s].id # 0
      PROVE  lib[s].id \in DOMAIN rset' /\ rset'[lib[s].id].client = c
  BY <1>2, <1>4, <1>7 DEF Finds
<1>8. ASSUME NEW k \in DOMAIN v, v[k].req = "destroy", v[k].id # 0
      PROVE  /\ v[k].id < nextId'
             /\ \A s \in SetsOf(c) : lib[s].id # v[k].id
             /\ \A j \in DOMAIN r : Made(r, j) => r[j].id # v[k].id
  <2>1. k + 1 \in DOMAIN u /\ v[k] = u[k + 1]
    BY <1>1
  <2>2. /\ v[k].id < nextId
        /\ \A s \in SetsOf(c) : lib[s].id # v[k].id
        /\ \A j \in DOMAIN q : Made(q, j) => q[j].id # v[k].id
    BY <1>4, <1>8, <2>1
  <2>3. v[k].id \in Nat
    <3>1. DOMAIN u = 1..Len(u)
      BY <1>3, LenProperties
    <3>2. u[k + 1] \in Message
      BY <1>3, <3>1, <2>1, ElementOfSeq
    <3>3. QED BY <2>1, <3>2 DEF Message
  <2>4. v[k].id < nextId' /\ v[k].id # nextId
    BY <1>3, <2>2, <2>3
  <2>5. QED BY <1>5, <2>2, <2>4
<1>9. ASSUME NEW i \in DOMAIN rset', rset'[i].client = c
      PROVE  \/ Mapped(c, i) # {}
             \/ \E k \in DOMAIN r : Made(r, k) /\ r[k].id = i
             \/ \E k \in DOMAIN v : v[k].req = "destroy" /\ v[k].id = i
  <2>1. CASE i = nextId /\ add[l].ok
    BY <2>1, <1>1, <1>2 DEF Made, IsA
  <2>2. CASE i \in DOMAIN rset
    <3>1. rset[i].client = c
      BY <2>2, <1>2, <1>9
    <3>2. CASE Mapped(c, i) # {}
      BY <3>2
    <3>3. CASE \E k \in DOMAIN q : Made(q, k) /\ q[k].id = i
      BY <3>3, <1>1 DEF Made, IsA
    <3>4. CASE \E k \in DOMAIN u : u[k].req = "destroy" /\ u[k].id = i
      <4>1. PICK k \in DOMAIN u : u[k].req = "destroy" /\ u[k].id = i
        BY <3>4
      <4>2. k # 1
        BY <4>1, <1>2
      <4>3. k - 1 \in DOMAIN v /\ v[k - 1] = u[k]
        BY <4>2, <1>1
      <4>4. QED BY <4>1, <4>3
    <3>5. QED BY <2>2, <3>1, <3>2, <3>3, <3>4, <1>4
  <2>3. QED BY <1>2, <2>1, <2>2
<1>10. QED BY <1>2, <1>6, <1>7, <1>8, <1>9 DEF SetInv, Finds, Mapped, Alive, SetsOf, r, v

LEMMA CreatedReleases ==
    ASSUME Types, NEW c \in Clients, SetInv(c), ReleaseInv(c), NEW add, NEW l, Created(c, add, l)
    PROVE  ReleaseInv(c)'
<1>. DEFINE u == requests[c]
            v == requests'[c]
<1>1. /\ DOMAIN u \subseteq Nat /\ DOMAIN v \subseteq Nat /\ 1 \in DOMAIN u /\ u[1] = Head(u)
      /\ \A k \in DOMAIN v : k + 1 \in DOMAIN u /\ v[k] = u[k + 1]
      /\ \A k \in DOMAIN u : k # 1 => k - 1 \in DOMAIN v /\ v[k - 1] = u[k]
  BY CreatedPlaces DEF CreatedQueues
<1>2. /\ lib' = lib /\ wants' = wants
      /\ u[1].req = "create"
      /\ \A i \in DOMAIN rset : rset'[i].state \in {rset[i].state, "release"}
  BY <1>1 DEF Created, clientVars
<1>3. SUFFICES ASSUME NEW s \in SetsOf(c), lib[s].id # 0, ~wants[s]
               PROVE  /\ \A k \in DOMAIN v :
                           v[k].req = "acquire" /\ v[k].id = lib[s].id =>
                             \E j \in DOMAIN v : /\ j > k
                                                 /\ v[j].req = "release"
                                                 /\ v[j].id = lib[s].id
                      /\ \/ InFlight(v, "release", lib[s].id)
                         \/ rset'[lib[s].id].state = "release"
  BY <1>2 DEF ReleaseInv, SetsOf, Asked, InFlight
<1>. DEFINE i == lib[s].id
<1>4. OwnerOf[s] = c
  BY DEF SetsOf
<1>5. /\ \A k \in DOMAIN u : u[k].req = "acquire" /\ u[k].id = i =>
           \E j \in DOMAIN u : j > k /\ u[j].req = "release" /\ u[j].id = i
      /\ InFlight(u, "release", i) \/ rset[i].state = "release"
  BY <1>3, <1>4 DEF ReleaseInv, Asked
<1>6. i \in DOMAIN rset
  BY <1>3 DEF SetInv, Finds
<1>. HIDE DEF i, u, v
<1>7. ASSUME NEW k \in DOMAIN v, v[k].req = "acquire", v[k].id = i
      PROVE  \E j \in DOMAIN v : j > k /\ v[j].req = "release" /\ v[j].id = i
  <2>1. k + 1 \in DOMAIN u /\ v[k] = u[k + 1] /\ k \in Nat
    BY <1>1
  <2>2. PICK j \in DOMAIN u : j > k + 1 /\ u[j].req = "release" /\ u[j].id = i
    BY <1>5, <1>7, <2>1
  <2>3. j \in Nat /\ j # 1
    BY <1>1, <1>2, <2>2
  <2>4. j - 1 \in DOMAIN v /\ v[j - 1] = u[j] /\ j - 1 > k
    BY <1>1, <2>1, <2>2, <2>3
  <2>5. QED BY <2>2, <2>4
<1>8. InFlight(v, "release", i) \/ rset'[i].state = "release"
  <2>1. CASE InFlight(u, "release", i)
    <3>1. PICK k \in DOMAIN u : u[k].req = "release" /\ u[k].id = i
      BY <2>1 DEF InFlight
    <3>2. k # 1
      BY <1>2, <3>1
    <3>3. k - 1 \in DOMAIN v /\ v[k - 1] = u[k]
      BY <1>1, <3>2
    <3>4. QED BY <3>1, <3>3 DEF InFlight
  <2>2. CASE rset[i].state = "release"
    BY <2>2, <1>2, <1>6
  <2>3. QED BY <2>1, <2>2, <1>5
<1>9. QED BY <1>7, <1>8 DEF i, u, v

LEMMA CreatedEvents ==
    ASSUME Types, NEW c \in Clients, NEW add, NEW l, Created(c, add, l)
    PROVE  EventsRight(c, add)
<1>. DEFINE u == requests[c]
            v == requests'[c]
<1>1. /\ DOMAIN u \subseteq Nat /\ 1 \in DOMAIN u /\ u[1] = Head(u)
      /\ \A k \in DOMAIN u : k # 1 => k - 1 \in DOMAIN v /\ v[k - 1] = u[k]
  BY CreatedPlaces DEF CreatedQueues
<1>2. /\ lib' = lib /\ u[1].req = "create"
      /\ add \in Seq(Message) /\ replies'[c] = replies[c] \o add
      /\ add[l].req = "create"
      /\ \A k \in DOMAIN add : k # l =>
           \E i \in DOMAIN rset' : rset'[i].client = c /\ EventOf(add[k], i, rset'[i])
      /\ \A i \in DOMAIN rset' : rset'[i].client = c =>
           \/ i \in DOMAIN rset /\ rset[i] = rset'[i]
           \/ \E k \in DOMAIN add : EventOf(add[k], i, rset'[i])
  BY <1>1 DEF Created, clientVars
<1>3. ASSUME NEW s \in SetsOf(c), Asked(s, "acquire")
      PROVE  InFlight(v, "acquire", lib[s].id)
  <2>1. PICK k \in DOMAIN u : u[k].req = "acquire" /\ u[k].id = lib[s].id
    BY <1>3 DEF Asked, InFlight, SetsOf
  <2>2. k - 1 \in DOMAIN v /\ v[k - 1] = u[k]
    BY <1>1, <1>2, <2>1
  <2>3. QED BY <2>1, <2>2 DEF InFlight
<1>4. \A k \in DOMAIN add : add[k].req = "event" => k # l
  BY <1>2
<1>5. QED BY <1>2, <1>3, <1>4 DEF EventsRight

LEMMA CreatedKeeps ==
    ASSUME Types, NEW c \in Clients, IdsInv(c), \A s \in Sets : LibInv(s),
           NEW add, NEW l, Created(c, add, l)
    PROVE  IdsInv(c)' /\ (Together(c) => Together(c)')
<1>1. IdsInv(c)'
  BY CreatedIds
<1>2. ASSUME Together(c)
      PROVE  Together(c)'
  <2>1. CreateInv(c)'
    BY <1>2, CreatedCreations DEF Together
  <2>2. SetInv(c)'
    BY <1>2, CreatedSets DEF Together
  <2>3. EventInv(c)'
    <3>1. EventsRight(c, add)
      BY CreatedEvents
    <3>2. QED BY <1>2, <2>2, <3>1, EventsKept DEF Together
  <2>4. ReleaseInv(c)'
    BY <1>2, CreatedReleases DEF Together
  <2>5. QED BY <2>1, <2>2, <2>3, <2>4 DEF Together
<1>3. QED BY <1>1, <1>2

LEMMA ServeCreateKeeps ==
    ASSUME IInv, NEW c \in Clients, ServeCreate(c)
    PROVE  IInv'
<1>. DEFINE m == Head(requests[c])
            new == [client |-> c, state |-> "release", grant |-> {}, advice |-> {}]
            S == [i \in DOMAIN rset \cup {nextId} |-> IF i = nextId THEN new ELSE rset[i]]
            cm == Msg("create", m.seqno, nextId, m.ok)
<1>1. ServedFacts(c, "create") /\ Types /\ ServerInv /\ nextId' = nextId + 1
  BY ServingFacts DEF ServeCreate, IInv
<1>2. /\ m \in Message /\ m.req = "create" /\ requests[c] # <<>> /\ c \in served
      /\ requests'[c] = Tail(requests[c])
      /\ \A d \in Clients : d # c => requests'[d] = requests[d]
      /\ requests' \in [Clients -> Seq(Message)]
      /\ UNCHANGED <<link, served, closing, clientVars>>
  BY <1>1 DEF ServedFacts
<1>3. /\ rset \in [DOMAIN rset -> ServerSet] /\ DOMAIN rset \subseteq 1..(nextId - 1)
      /\ replies \in [Clients -> Seq(Message)]
      /\ nextId \in Nat /\ nextId # 0 /\ served \subseteq Clients
      /\ \A d \in Clients : link[d] \in {"up", "down"}
  BY <1>1 DEF Types
<1>4. /\ 1..(nextId - 1) \subseteq 1..(nextId' - 1) /\ nextId \in 1..(nextId' - 1)
      /\ nextId \notin DOMAIN rset
      /\ nextId' \in Nat /\ nextId < nextId' /\ nextId <= nextId' /\ nextId' - 1 = nextId
  <2>1. nextId' \in Nat /\ nextId < nextId' /\ nextId <= nextId' /\ nextId' - 1 = nextId
    <3>1. PICK a \in Nat : a = nextId
      BY <1>3
    <3>2. PICK b : b = nextId'
      OBVIOUS
    <3>3. b = a + 1
      BY <1>1, <3>1, <3>2
    <3>4. b \in Nat /\ a < b /\ a <= b /\ b - 1 = a
      BY <3>3
    <3>5. QED BY <3>1, <3>2, <3>4
  <2>2. nextId \in 1..nextId /\ nextId \notin 1..(nextId - 1)
    BY <1>3
  <2>3. 1..(nextId - 1) \subseteq 1..(nextId' - 1)
    BY <1>3, <2>1, MoreIds
  <2>4. QED BY <1>3, <2>1, <2>2, <2>3
<1>5. /\ cm \in Message /\ cm.req = "create" /\ cm.seqno = m.seqno /\ cm.id = nextId
      /\ cm.ok = m.ok
  <2>1. m.seqno \in Nat /\ m.ok \in BOOLEAN
    BY <1>2 DEF Message
  <2>2. PICK n \in Nat, i \in Nat, ok \in BOOLEAN : n = m.seqno /\ i = nextId /\ ok = m.ok
    BY <1>3, <2>1
  <2>3. cm = Msg("create", n, i, ok)
    BY <2>2
  <2>. HIDE DEF cm, m
  <2>4. \A z : z = Msg("create", n, i, ok) =>
          z \in Message /\ z.req = "create" /\ z.seqno = n /\ z.id = i /\ z.ok = ok
    BY MsgIs
  <2>5. QED BY <2>2, <2>3, <2>4
<1>6. <<cm>> \in Seq(Message) /\ DOMAIN <<cm>> = {1} /\ <<cm>>[1] = cm /\ Len(<<cm>>) = 1
  BY <1>5, OneMessage
<1>. HIDE DEF cm
<1>7. ASSUME NEW d \in Clients, d # c
      PROVE  Read(d) /\ \A r, i : ~Took(d, r, i)
  <2>1. requests'[d] = requests[d]
    BY <1>2, <1>7
  <2>2. QED BY <1>1, <2>1, NotTook DEF Read
<1>8. ASSUME Later, rset' \in [DOMAIN rset' -> ServerSet],
             replies' \in [Clients -> Seq(Message)],
             \A i \in DOMAIN rset' : rset'[i].client \in served,
             \A d \in Clients : d # c => (link[d] = "up" => \E add : Handled(d, add)),
             \A d \in Clients : link[d] = "down" => replies'[d] = replies[d],
             link[c] = "up" => \E add, l : Created(c, add, l)
      PROVE  IInv'
  <2>1. \A d \in Clients : d # c => IdsInv(d)' /\ (Connected(d)' => Together(d)')
    BY <1>2, <1>8, ServerKeeps
  <2>2. IdsInv(c)' /\ (Connected(c)' => Together(c)')
    <3>1. CASE link[c] = "up"
      <4>1. PICK add, l : Created(c, add, l)
        BY <3>1, <1>8
      <4>2. IdsInv(c) /\ \A s \in Sets : LibInv(s)
        BY DEF IInv
      <4>3. IdsInv(c)' /\ (Together(c) => Together(c)')
        BY <1>1, <4>1, <4>2, CreatedKeeps
      <4>4. Connected(c)' => Connected(c)
        BY <1>2 DEF Connected, clientVars
      <4>5. QED BY <4>3, <4>4 DEF IInv
    <3>2. CASE link[c] = "down"
      <4>1. IdsInv(c) /\ replies'[c] = replies[c] /\ lib' = lib
        BY <1>2, <1>8, <3>2 DEF IInv, clientVars
      <4>2. IdsInv(c)'
        BY <1>1, <1>8, <4>1, IdsLater
      <4>3. ~Connected(c)'
        BY <1>2, <3>2 DEF Connected
      <4>4. QED BY <4>2, <4>3
    <3>3. QED BY <1>3, <3>1, <3>2
  <2>3. \A d \in Clients : IdsInv(d)' /\ (Connected(d)' => Together(d)')
    BY <2>1, <2>2
  <2>4. closing' \in served' \cup {None} /\ (closing' # None => link[closing'] = "down")
    BY <1>1, <1>2 DEF ServerInv, Types
  <2>5. served' \subseteq served /\ \A i \in DOMAIN rset' : rset'[i].client \in served'
    BY <1>2, <1>8
  <2>6. QED BY <1>2, <1>8, <2>3, <2>4, <2>5, ServerFrame
<1>9. CASE m.ok = TRUE /\ UpdateZone(S, nextId, c, <<>>, <<cm>>)
  <2>1. /\ DOMAIN S = DOMAIN rset \cup {nextId} /\ S \in [DOMAIN S -> ServerSet]
        /\ S[nextId] = new /\ \A i \in DOMAIN rset : S[i] = rset[i]
    <3>1. new \in ServerSet
      BY DEF ServerSet, Offers
    <3>2. QED BY <3>1, <1>3, <1>4
  <2>2. S[nextId].client = c
    BY <2>1
  <2>. HIDE DEF S
  <2>3. ZoneStep(S, nextId, c, <<>>, <<cm>>)
    <3>1. DOMAIN S \subseteq 1..nextId
      BY <1>3, <1>4, <2>1
    <3>2. <<>> \in Seq(Message)
      BY NoMessage
    <3>3. QED BY <1>3, <1>6, <1>9, <2>1, <3>1, <3>2, ZoneUpdated
  <2>4. /\ DOMAIN rset' = DOMAIN rset \cup {nextId} /\ rset' \in [DOMAIN rset' -> ServerSet]
        /\ \A i \in DOMAIN rset : /\ rset'[i].client = rset[i].client
                                  /\ rset'[i].state \in {rset[i].state, "release"}
        /\ rset'[nextId].client = c
        /\ replies' \in [Clients -> Seq(Message)]
    BY <2>1, <2>2, <2>3 DEF ZoneStep
  <2>5. Later
    BY <1>3, <1>4, <2>4 DEF Later
  <2>6. ASSUME NEW d \in Clients, d # c, link[d] = "up"
        PROVE  \E add : Handled(d, add)
    <3>1. StartRight(d, S, nextId)
      BY <1>7, <2>1, <2>2, <2>6 DEF StartRight, Finds
    <3>2. d = c => Plain(<<>>) /\ Plain(<<cm>>)
      BY <2>6
    <3>3. Read(d)
      BY <1>7, <2>6
    <3>4. QED BY <1>1, <1>2, <2>3, <2>5, <2>6, <3>1, <3>2, <3>3, ZoneHandled
  <2>7. \A d \in Clients : link[d] = "down" => replies'[d] = replies[d]
    BY <2>3 DEF ZoneStep, Sent
  <2>8. ASSUME link[c] = "up"
        PROVE  \E add, l : Created(c, add, l)
    <3>1. PICK evs \in Seq(Message) :
            /\ replies'[c] = Sent(replies[c], c, <<>> \o evs \o <<cm>>)
            /\ EventsFor(c, evs, S, nextId)
      BY <2>3 DEF ZoneStep
    <3>. DEFINE add == evs \o <<cm>>
                l == Len(evs) + 1
    <3>2. <<>> \o evs = evs
      BY NoMessage
    <3>3. replies'[c] = replies[c] \o add
      BY <2>8, <3>1, <3>2 DEF Sent
    <3>4. /\ add \in Seq(Message) /\ DOMAIN evs \subseteq Nat
          /\ \A k \in DOMAIN evs : k \in DOMAIN add /\ add[k] = evs[k]
          /\ \A k \in DOMAIN <<cm>> : /\ Len(evs) + k \in DOMAIN add
                                      /\ add[Len(evs) + k] = <<cm>>[k]
          /\ \A k \in DOMAIN add : k \notin DOMAIN evs =>
               k > Len(evs) /\ k - Len(evs) \in DOMAIN <<cm>> /\ add[k] = <<cm>>[k - Len(evs)]
          /\ Len(evs) \in Nat /\ DOMAIN add \subseteq Nat
      BY <1>6, AddedPlaces
    <3>5. l \in DOMAIN add /\ add[l] = cm
      BY <1>6, <3>4
    <3>6. \A k \in DOMAIN add : k # l => k \in DOMAIN evs /\ add[k] = evs[k]
      <4>1. ASSUME NEW k \in DOMAIN add, k \notin DOMAIN evs
            PROVE  k = l
        <5>1. k - Len(evs) = 1
          BY <1>6, <3>4, <4>1
        <5>2. QED BY <3>4, <5>1
      <4>2. QED BY <3>4, <4>1
    <3>. HIDE DEF add, l
    <3>7. \A k \in DOMAIN evs : \E i \in DOMAIN rset' :
            rset'[i].client = c /\ EventOf(evs[k], i, rset'[i])
      BY <3>1 DEF EventsFor
    <3>8. \A i \in DOMAIN rset' : rset'[i].client = c =>
            \/ i \in DOMAIN rset /\ rset[i] = rset'[i]
            \/ \E k \in DOMAIN add : EventOf(add[k], i, rset'[i])
      <4>1. ASSUME NEW i \in DOMAIN rset', rset'[i].client = c, i = nextId \/ rset'[i] # S[i]
            PROVE  \E k \in DOMAIN add : EventOf(add[k], i, rset'[i])
        <5>1. PICK k \in DOMAIN evs : EventOf(evs[k], i, rset'[i])
          BY <3>1, <4>1 DEF EventsFor
        <5>2. QED BY <3>4, <5>1
      <4>2. QED BY <2>1, <2>4, <4>1
    <3>9. Created(c, add, l)
      <4>1. \A k \in DOMAIN add : k # l =>
              \E i \in DOMAIN rset' : rset'[i].client = c /\ EventOf(add[k], i, rset'[i])
        BY <3>6, <3>7
      <4>2. UNCHANGED clientVars /\ Later /\ nextId < nextId'
        BY <1>2, <1>4, <2>5
      <4>3. /\ add[l].ok => nextId \in DOMAIN rset' /\ rset'[nextId].client = c
            /\ \A i \in DOMAIN rset' : i \in DOMAIN rset \/ (i = nextId /\ add[l].ok)
        BY <1>5, <1>9, <2>4, <3>5
      <4>4. QED BY <1>2, <1>5, <2>4, <3>3, <3>4, <3>5, <3>8, <4>1, <4>2, <4>3 DEF Created
    <3>10. QED BY <3>9
  <2>9. \A i \in DOMAIN rset' : rset'[i].client \in served
    BY <1>1, <1>2, <2>4 DEF ServerInv
  <2>10. QED BY <1>8, <2>4, <2>5, <2>6, <2>7, <2>8, <2>9
<1>10. CASE m.ok = FALSE /\ Reply(c, cm) /\ UNCHANGED rset
  <2>1. replies' = [replies EXCEPT ![c] = Sent(@, c, <<cm>>)]
    BY <1>10 DEF Reply
  <2>2. Later
    BY <1>3, <1>4, <1>10 DEF Later
  <2>3. ASSUME NEW d \in Clients
        PROVE  replies'[d] \in Seq(Message) /\ (link[d] = "down" => replies'[d] = replies[d])
    <3>1. CASE d = c
      <4>1. replies'[c] = Sent(replies[c], c, <<cm>>) /\ replies[c] \in Seq(Message)
        BY <1>3, <2>1
      <4>2. replies[c] \o <<cm>> \in Seq(Message)
        BY <1>6, <4>1, ConcatProperties
      <4>3. QED BY <3>1, <4>1, <4>2 DEF Sent
    <3>2. CASE d # c
      BY <1>3, <2>1, <3>2
    <3>3. QED BY <3>1, <3>2
  <2>4. replies' \in [Clients -> Seq(Message)]
    BY <1>3, <2>1, <2>3
  <2>5. ASSUME NEW d \in Clients, d # c
        PROVE  Handled(d, <<>>)
    <3>1. replies'[d] = replies[d] /\ requests'[d] = requests[d]
      BY <1>2, <1>3, <2>1, <2>5
    <3>2. QED BY <1>1, <1>2, <1>10, <2>2, <3>1, Idle
  <2>6. ASSUME link[c] = "up"
        PROVE  Created(c, <<cm>>, 1)
    <3>1. replies'[c] = replies[c] \o <<cm>>
      BY <1>3, <2>1, <2>6 DEF Sent
    <3>2. UNCHANGED clientVars /\ Later /\ nextId < nextId'
      BY <1>2, <1>4, <2>2
    <3>3. QED BY <1>2, <1>5, <1>6, <1>10, <3>1, <3>2 DEF Created
  <2>7. \A i \in DOMAIN rset' : rset'[i].client \in served
    BY <1>1, <1>10 DEF ServerInv
  <2>8. rset' \in [DOMAIN rset' -> ServerSet]
    BY <1>3, <1>10
  <2>9. QED BY <1>8, <2>2, <2>3, <2>4, <2>5, <2>6, <2>7, <2>8
<1>11. QED
  <2>1. m.ok \in BOOLEAN
    BY <1>2 DEF Message
  <2>2. \/ m.ok = TRUE /\ UpdateZone(S, nextId, c, <<>>, <<Msg("create", m.seqno, nextId, TRUE)>>)
        \/ m.ok = FALSE /\ Reply(c, Msg("create", m.seqno, nextId, FALSE)) /\ UNCHANGED rset
    BY <2>1 DEF ServeCreate
  <2>3. QED BY <2>2, <1>9, <1>10 DEF cm

-----------------------------------------------------------------------------
(* The steps of a client *)

\* A step of client c or its connection concerns nobody else.
LEMMA ClientFrame ==
    ASSUME IInv, UNCHANGED serverVars, NEW c \in Clients,
           requests' \in [Clients -> Seq(Message)],
           replies' \in [Clients -> Seq(Message)],
           link' \in [Clients -> {"up", "down"}],
           context' \in [Clients -> [state : {"disconnected", "connected", "gone"},
                                     got : SUBSET Queries, connected : BOOLEAN,
                                     seqno : Nat \ {0}]],
           lib' \in [Sets -> [refs : Nat, id : Nat, seqno : Nat, state : States,
                              pending : BOOLEAN, edited : BOOLEAN, told : States]],
           wants' \in [Sets -> BOOLEAN],
           link'[c] \in {link[c], "down"},
           \A d \in Clients : d # c => /\ requests'[d] = requests[d]
                                       /\ replies'[d] = replies[d]
                                       /\ link'[d] = link[d]
                                       /\ context'[d] = context[d],
           \A s \in Sets : OwnerOf[s] # c => lib'[s] = lib[s] /\ wants'[s] = wants[s],
           \A s \in SetsOf(c) : LibInv(s)',
           IdsInv(c)', Connected(c)' => Together(c)'
    PROVE  IInv'
<1>1. Types /\ ServerInv /\ \A s \in Sets : LibInv(s)
  BY DEF IInv
<1>2. served' = served /\ closing' = closing /\ rset' = rset /\ nextId' = nextId
  BY DEF serverVars
<1>3. Types'
  BY <1>1, <1>2 DEF Types
<1>4. ServerInv'
  <2>1. ASSUME closing # None
        PROVE  link'[closing] = "down"
    <3>1. closing \in Clients /\ link[closing] = "down"
      BY <1>1, <2>1 DEF Types, ServerInv
    <3>2. QED BY <3>1
  <2>2. QED BY <1>1, <1>2, <2>1 DEF ServerInv
<1>5. ASSUME NEW s \in Sets
      PROVE  LibInv(s)'
  <2>1. CASE OwnerOf[s] = c
    BY <2>1 DEF SetsOf
  <2>2. CASE OwnerOf[s] # c
    <3>1. OwnerOf[s] \in Clients /\ lib'[s] = lib[s] /\ wants'[s] = wants[s]
      BY <2>2, ProtocolAssumption
    <3>2. context'[OwnerOf[s]] = context[OwnerOf[s]]
      BY <3>1, <2>2
    <3>3. QED BY <1>1, <1>2, <3>1, <3>2 DEF LibInv
  <2>3. QED BY <2>1, <2>2
<1>6. ASSUME NEW d \in Clients
      PROVE  IdsInv(d)' /\ (Connected(d)' => Together(d)')
  <2>1. CASE d = c
    BY <2>1
  <2>2. CASE d # c
    <3>1. /\ requests'[d] = requests[d] /\ replies'[d] = replies[d]
          /\ link'[d] = link[d] /\ context'[d] = context[d]
          /\ \A s \in SetsOf(d) : lib'[s] = lib[s] /\ wants'[s] = wants[s]
      BY <2>2 DEF SetsOf
    <3>2. Connected(d)' => Connected(d)
      BY <1>2, <3>1 DEF Connected
    <3>3. IdsInv(d) /\ (Connected(d) => Together(d))
      BY DEF IInv
    <3>4. UNCHANGED <<rset, nextId>>
      BY <1>2
    <3>5. QED BY <3>1, <3>2, <3>3, <3>4, Untouched
  <2>3. QED BY <2>1, <2>2
<1>7. QED BY <1>3, <1>4, <1>5, <1>6 DEF IInv

\* The queue r is what is left of q after n messages.
Shifted(q, r, n) ==
    /\ DOMAIN q \subseteq Nat /\ DOMAIN r \subseteq Nat
    /\ \A k \in DOMAIN r : k + n \in DOMAIN q /\ r[k] = q[k + n]

LEMMA SameShifted ==
    ASSUME NEW q \in Seq(Message)
    PROVE  Shifted(q, q, 0) /\ Shifted(q, <<>>, 0)
<1>1. DOMAIN q \subseteq Nat
  BY AddedPlaces
<1>2. \A k \in DOMAIN q : k + 0 = k
  BY <1>1
<1>3. DOMAIN <<>> = {}
  BY NoMessage
<1>4. QED BY <1>1, <1>2, <1>3 DEF Shifted

LEMMA TailShifted ==
    ASSUME NEW q \in Seq(Message), q # <<>>
    PROVE  Shifted(q, Tail(q), 1)
  BY TailPlaces DEF Shifted

\* The identifiers stay right when nothing new arrives.
LEMMA IdsKept ==
    ASSUME NEW c \in Clients, IdsInv(c), nextId' = nextId, NEW n \in {0, 1},
           Shifted(replies[c], replies'[c], n),
           \A s \in SetsOf(c) : /\ lib'[s].id \in {0, lib[s].id}
                                /\ lib'[s].pending => lib[s].pending /\ lib'[s].seqno = lib[s].seqno
    PROVE  IdsInv(c)'
<1>. DEFINE q == replies[c]
            r == replies'[c]
<1>1. /\ DOMAIN q \subseteq Nat /\ DOMAIN r \subseteq Nat
      /\ \A k \in DOMAIN r : k + n \in DOMAIN q /\ r[k] = q[k + n]
  BY DEF Shifted
<1>2. /\ \A k \in DOMAIN q :
           /\ q[k].req = "event" => q[k].id \in 1..(nextId - 1)
           /\ q[k].req \in {"create", "acquire", "release"} /\ q[k].ok => q[k].id \in 1..(nextId - 1)
      /\ \A k \in DOMAIN q : Made(q, k) =>
           /\ \A s \in SetsOf(c) : lib[s].id # q[k].id
           /\ \A j \in DOMAIN q : Made(q, j) /\ q[j].id = q[k].id => j = k
      /\ \A s, t \in SetsOf(c) : s # t /\ lib[s].id # 0 => lib[s].id # lib[t].id
      /\ \A s, t \in SetsOf(c) : s # t /\ lib[s].pending /\ lib[t].pending
                                   => lib[s].seqno # lib[t].seqno
  BY DEF IdsInv
<1>3. SetsOf(c)' = SetsOf(c)
  BY DEF SetsOf
<1>. HIDE DEF q, r
<1>4. 0 \notin 1..(nextId - 1)
  OBVIOUS
<1>5. ASSUME NEW k \in DOMAIN r
      PROVE  /\ r[k].req = "event" => r[k].id \in 1..(nextId - 1)
             /\ r[k].req \in {"create", "acquire", "release"} /\ r[k].ok => r[k].id \in 1..(nextId - 1)
  BY <1>1, <1>2
<1>6. ASSUME NEW k \in DOMAIN r, Made(r, k)
      PROVE  /\ \A s \in SetsOf(c) : lib'[s].id # r[k].id
             /\ \A j \in DOMAIN r : Made(r, j) /\ r[j].id = r[k].id => j = k
  <2>1. k + n \in DOMAIN q /\ r[k] = q[k + n] /\ Made(q, k + n)
    BY <1>1, <1>6 DEF Made, IsA
  <2>2. r[k].id # 0
    BY <1>4, <1>5, <1>6 DEF Made, IsA
  <2>3. ASSUME NEW j \in DOMAIN r, Made(r, j), r[j].id = r[k].id
        PROVE  j = k
    <3>1. j + n \in DOMAIN q /\ Made(q, j + n) /\ q[j + n].id = q[k + n].id
      BY <1>1, <2>1, <2>3 DEF Made, IsA
    <3>2. j + n = k + n
      BY <1>2, <2>1, <3>1
    <3>3. j \in Nat /\ k \in Nat
      BY <1>1
    <3>4. QED BY <3>2, <3>3
  <2>4. QED BY <1>2, <2>1, <2>2, <2>3
<1>7. /\ \A s, t \in SetsOf(c) : s # t /\ lib'[s].id # 0 => lib'[s].id # lib'[t].id
      /\ \A s, t \in SetsOf(c) : s # t /\ lib'[s].pending /\ lib'[t].pending
                                   => lib'[s].seqno # lib'[t].seqno
  BY <1>2
<1>8. QED BY <1>3, <1>5, <1>6, <1>7 DEF IdsInv, r

\* The library's sets of c stay what they are to the server.
SameSets(c) ==
    \A s \in SetsOf(c) :
      /\ lib'[s].id = lib[s].id /\ lib'[s].pending = lib[s].pending
      /\ lib[s].pending => lib'[s].seqno = lib[s].seqno
      /\ lib[s].id # 0 => wants'[s] = wants[s] /\ ((lib'[s].refs > 0) <=> (lib[s].refs > 0))

LEMMA SameSetsFacts ==
    ASSUME NEW c \in Clients, SameSets(c)
    PROVE  /\ \A n : Pending(c, n)' = Pending(c, n)
           /\ \A i : i # 0 => Mapped(c, i)' = Mapped(c, i)
           /\ \A s \in SetsOf(c) : /\ lib'[s].id \in {0, lib[s].id}
                                   /\ lib'[s].pending => lib[s].pending /\ lib'[s].seqno = lib[s].seqno
<1>1. SetsOf(c)' = SetsOf(c)
  BY DEF SetsOf
<1>2. ASSUME NEW n
      PROVE  Pending(c, n)' = Pending(c, n)
  BY <1>1 DEF Pending, SameSets
<1>3. ASSUME NEW i, i # 0
      PROVE  Mapped(c, i)' = Mapped(c, i)
  BY <1>1, <1>3 DEF Mapped, Alive, SameSets
<1>4. QED BY <1>2, <1>3 DEF SameSets

\* Nothing is sent or read.
LEMMA QuietKeeps ==
    ASSUME Types, NEW c \in Clients, IdsInv(c), SameSets(c), UNCHANGED <<rset, nextId>>,
           requests'[c] = requests[c], replies'[c] = replies[c],
           \A s \in SetsOf(c) : lib'[s].state = lib[s].state
    PROVE  IdsInv(c)' /\ (Together(c) => Together(c)')
<1>1. /\ \A n : Pending(c, n)' = Pending(c, n)
      /\ \A i : i # 0 => Mapped(c, i)' = Mapped(c, i)
      /\ \A s \in SetsOf(c) : /\ lib'[s].id \in {0, lib[s].id}
                              /\ lib'[s].pending => lib[s].pending /\ lib'[s].seqno = lib[s].seqno
  BY SameSetsFacts
<1>2. SetsOf(c)' = SetsOf(c) /\ \A s \in SetsOf(c) : OwnerOf[s] = c
  BY DEF SetsOf
<1>3. IdsInv(c)'
  <2>1. replies[c] \in Seq(Message)
    BY DEF Types
  <2>2. Shifted(replies[c], replies'[c], 0)
    BY <2>1, SameShifted
  <2>3. QED BY <1>1, <2>2, IdsKept
<1>4. CreateInv(c) => CreateInv(c)'
  BY <1>1 DEF CreateInv, IsA
<1>5. SetInv(c) => SetInv(c)'
  <2>1. \A i \in DOMAIN rset : i # 0
    BY DEF Types
  <2>2. \A s \in SetsOf(c) : lib'[s].id = lib[s].id
    BY DEF SameSets
  <2>3. QED BY <1>1, <1>2, <2>1, <2>2 DEF SetInv, Made, IsA, Finds
<1>6. EventInv(c) => EventInv(c)'
  <2>1. \A i : EventsAhead(c, i)' = EventsAhead(c, i)
    BY DEF EventsAhead
  <2>2. \A s \in SetsOf(c) : lib'[s].id = lib[s].id /\ (Asked(s, "acquire")' <=> Asked(s, "acquire"))
    BY <1>2 DEF Asked, InFlight, SameSets
  <2>3. QED BY <1>2, <2>1, <2>2 DEF EventInv
<1>7. ReleaseInv(c) => ReleaseInv(c)'
  <2>1. \A s \in SetsOf(c) : /\ lib'[s].id = lib[s].id
                             /\ lib[s].id # 0 => wants'[s] = wants[s]
                             /\ Asked(s, "release")' <=> Asked(s, "release")
    BY <1>2 DEF Asked, InFlight, SameSets
  <2>2. QED BY <1>2, <2>1 DEF ReleaseInv
<1>8. QED BY <1>3, <1>4, <1>5, <1>6, <1>7 DEF Together

\* The library has taken the first reply.
Popped(c) == replies[c] # <<>> /\ replies'[c] = Tail(replies[c])

LEMMA PoppedPlaces ==
    ASSUME Types, NEW c \in Clients, Popped(c)
    PROVE  /\ Shifted(replies[c], replies'[c], 1)
           /\ Head(replies[c]) \in Message /\ Head(replies[c]) = replies[c][1]
           /\ 1 \in DOMAIN replies[c] /\ DOMAIN replies[c] \subseteq Nat
           /\ DOMAIN replies'[c] \subseteq Nat /\ 0 \notin DOMAIN replies'[c]
           /\ \A k \in DOMAIN replies'[c] :
                k + 1 \in DOMAIN replies[c] /\ k + 1 # 1 /\ replies'[c][k] = replies[c][k + 1]
           /\ \A k \in DOMAIN replies[c] : k # 1 =>
                k - 1 \in DOMAIN replies'[c] /\ replies'[c][k - 1] = replies[c][k]
<1>1. replies[c] \in Seq(Message) /\ replies[c] # <<>> /\ replies'[c] = Tail(replies[c])
  BY DEF Types, Popped
<1>2. Tail(replies[c]) \in Seq(Message)
  BY <1>1, TailPlaces
<1>3. 0 \notin DOMAIN replies'[c]
  BY <1>1, <1>2, LenProperties
<1>4. /\ DOMAIN replies'[c] \subseteq Nat
      /\ \A k \in DOMAIN replies'[c] : k + 1 \in DOMAIN replies[c] /\ replies'[c][k] = replies[c][k + 1]
  BY <1>1, TailPlaces
<1>5. \A k \in DOMAIN replies'[c] : k + 1 # 1
  BY <1>3, <1>4
<1>6. QED BY <1>1, <1>3, <1>4, <1>5, TailPlaces, TailShifted

\* The events still ahead once one was taken.
LEMMA PoppedAhead ==
    ASSUME Types, NEW c \in Clients, Popped(c), NEW i
    PROVE  /\ \A k \in EventsAhead(c, i)' : k \in Nat /\ k + 1 \in EventsAhead(c, i)
           /\ \A k \in EventsAhead(c, i) :
                /\ k \in Nat
                /\ \/ k - 1 \in EventsAhead(c, i)'
                   \/ k = 1 /\ Head(replies[c]).req = "event" /\ Head(replies[c]).id = i
<1>1. /\ Head(replies[c]) = replies[c][1] /\ DOMAIN replies[c] \subseteq Nat
      /\ DOMAIN replies'[c] \subseteq Nat
      /\ \A k \in DOMAIN replies'[c] : k + 1 \in DOMAIN replies[c] /\ replies'[c][k] = replies[c][k + 1]
      /\ \A k \in DOMAIN replies[c] : k # 1 =>
           k - 1 \in DOMAIN replies'[c] /\ replies'[c][k - 1] = replies[c][k]
  BY PoppedPlaces
<1>2. QED BY <1>1 DEF EventsAhead

\* What the sets of c know when one of them may just have been told.
LEMMA PoppedEvents ==
    ASSUME Types, NEW c \in Clients, EventInv(c), SetInv(c), Popped(c), SameSets(c),
           requests'[c] = requests[c], rset' = rset,
           \A s \in SetsOf(c) : lib[s].id # 0 =>
             lib'[s].state = IF Head(replies[c]).req = "event" /\ Head(replies[c]).id = lib[s].id
                             THEN StateOf(Head(replies[c]).grant, Head(replies[c]).advice)
                             ELSE lib[s].state
    PROVE  EventInv(c)'
<1>. DEFINE q == replies[c]
            r == replies'[c]
            m == Head(replies[c])
<1>1. /\ m = q[1] /\ 1 \in DOMAIN q
      /\ \A k \in DOMAIN r : k + 1 \in DOMAIN q /\ r[k] = q[k + 1]
  BY PoppedPlaces
<1>2. /\ \A i \in DOMAIN rset, k \in DOMAIN q :
           (rset[i].client = c /\ k \in EventsAhead(c, i) /\ \A j \in EventsAhead(c, i) : j <= k)
             => q[k].grant = rset[i].grant /\ q[k].advice = rset[i].advice
      /\ \A s \in SetsOf(c) : lib[s].id # 0 /\ EventsAhead(c, lib[s].id) = {} =>
           \/ lib[s].state = StateOf(rset[lib[s].id].grant, rset[lib[s].id].advice)
           \/ lib[s].state = "pending" /\ Asked(s, "acquire")
  BY DEF EventInv
<1>3. \A s \in SetsOf(c) : OwnerOf[s] = c /\ lib'[s].id = lib[s].id
  BY DEF SetsOf, SameSets
<1>4. \A i : /\ \A k \in EventsAhead(c, i)' : k \in Nat /\ k + 1 \in EventsAhead(c, i)
             /\ \A k \in EventsAhead(c, i) :
                  /\ k \in Nat
                  /\ \/ k - 1 \in EventsAhead(c, i)'
                     \/ k = 1 /\ m.req = "event" /\ m.id = i
  BY PoppedAhead
<1>. HIDE DEF q, r, m
<1>5. ASSUME NEW i \in DOMAIN rset, NEW k \in DOMAIN r, rset[i].client = c,
             k \in EventsAhead(c, i)', \A j \in EventsAhead(c, i)' : j <= k
      PROVE  r[k].grant = rset[i].grant /\ r[k].advice = rset[i].advice
  <2>1. k \in Nat /\ k + 1 \in EventsAhead(c, i) /\ k + 1 \in DOMAIN q /\ r[k] = q[k + 1]
    BY <1>1, <1>4, <1>5
  <2>2. ASSUME NEW j \in EventsAhead(c, i)
        PROVE  j <= k + 1
    <3>1. CASE j - 1 \in EventsAhead(c, i)'
      <4>1. j \in Nat /\ j - 1 <= k
        BY <1>4, <1>5, <3>1
      <4>2. QED BY <2>1, <4>1
    <3>2. CASE j = 1
      BY <2>1, <3>2
    <3>3. QED BY <1>4, <3>1, <3>2
  <2>3. QED BY <1>2, <1>5, <2>1, <2>2
<1>6. ASSUME NEW s \in SetsOf(c), lib[s].id # 0, NEW i, i = lib[s].id, EventsAhead(c, i)' = {}
      PROVE  \/ lib'[s].state = StateOf(rset[i].grant, rset[i].advice)
             \/ lib'[s].state = "pending" /\ Asked(s, "acquire")
  <2>1. i \in DOMAIN rset /\ rset[i].client = c
    BY <1>6 DEF SetInv, Finds
  <2>2. \A k \in EventsAhead(c, i) : k = 1 /\ m.req = "event" /\ m.id = i
    BY <1>4, <1>6
  <2>3. CASE m.req = "event" /\ m.id = i
    <3>1. 1 \in EventsAhead(c, i)
      BY <1>1, <2>3 DEF EventsAhead, q
    <3>2. \A j \in EventsAhead(c, i) : j <= 1
      BY <2>2
    <3>3. m.grant = rset[i].grant /\ m.advice = rset[i].advice
      BY <1>1, <1>2, <2>1, <3>1, <3>2
    <3>4. lib'[s].state = StateOf(m.grant, m.advice)
      BY <1>6, <2>3 DEF m
    <3>5. QED BY <3>3, <3>4
  <2>4. CASE ~(m.req = "event" /\ m.id = i)
    <3>1. EventsAhead(c, i) = {}
      BY <2>2, <2>4
    <3>2. lib'[s].state = lib[s].state
      BY <1>6, <2>4 DEF m
    <3>3. QED BY <1>2, <1>6, <3>1, <3>2
  <2>5. QED BY <2>3, <2>4
<1>7. \A s \in SetsOf(c) : Asked(s, "acquire") => Asked(s, "acquire")'
  BY <1>3 DEF Asked, InFlight
<1>8. SetsOf(c)' = SetsOf(c)
  BY DEF SetsOf
<1>9. QED BY <1>3, <1>5, <1>6, <1>7, <1>8 DEF EventInv, r

\* The library has taken a reply that is no news of a creation.
LEMMA PoppedKeeps ==
    ASSUME Types, NEW c \in Clients, IdsInv(c), Popped(c), SameSets(c), UNCHANGED <<rset, nextId>>,
           requests'[c] = requests[c], Head(replies[c]).req # "create",
           \A s \in SetsOf(c) : lib[s].id # 0 =>
             lib'[s].state = IF Head(replies[c]).req = "event" /\ Head(replies[c]).id = lib[s].id
                             THEN StateOf(Head(replies[c]).grant, Head(replies[c]).advice)
                             ELSE lib[s].state
    PROVE  IdsInv(c)' /\ (Together(c) => Together(c)')
<1>. DEFINE q == replies[c]
            r == replies'[c]
<1>1. /\ \A n : Pending(c, n)' = Pending(c, n)
      /\ \A i : i # 0 => Mapped(c, i)' = Mapped(c, i)
      /\ \A s \in SetsOf(c) : /\ lib'[s].id \in {0, lib[s].id}
                              /\ lib'[s].pending => lib[s].pending /\ lib'[s].seqno = lib[s].seqno
  BY SameSetsFacts
<1>2. SetsOf(c)' = SetsOf(c) /\ \A s \in SetsOf(c) : OwnerOf[s] = c
  BY DEF SetsOf
<1>3. /\ Shifted(q, r, 1) /\ Head(q) = q[1] /\ DOMAIN q \subseteq Nat /\ DOMAIN r \subseteq Nat
      /\ \A k \in DOMAIN r : k + 1 \in DOMAIN q /\ r[k] = q[k + 1]
      /\ \A k \in DOMAIN q : k # 1 => k - 1 \in DOMAIN r /\ r[k - 1] = q[k]
  BY PoppedPlaces
<1>4. IdsInv(c)'
  BY <1>1, <1>3, IdsKept
<1>5. ASSUME CreateInv(c)
      PROVE  CreateInv(c)'
  <2>1. /\ \A k \in DOMAIN q : q[k].req = "create" =>
             /\ Pending(c, q[k].seqno) # {}
             /\ \A j \in DOMAIN q : IsA(q, j, "create") /\ q[j].seqno = q[k].seqno => j = k
        /\ \A k \in DOMAIN requests[c] : requests[c][k].req = "create" =>
             \A j \in DOMAIN q : IsA(q, j, "create") => q[j].seqno # requests[c][k].seqno
    BY <1>5 DEF CreateInv
  <2>2. ASSUME NEW k \in DOMAIN r, r[k].req = "create", NEW j \in DOMAIN r,
               IsA(r, j, "create"), r[j].seqno = r[k].seqno
        PROVE  j = k
    <3>1. j + 1 = k + 1
      BY <1>3, <2>1, <2>2 DEF IsA
    <3>2. j \in Nat /\ k \in Nat
      BY <1>3
    <3>3. QED BY <3>1, <3>2
  <2>3. \A k \in DOMAIN r : r[k].req = "create" => Pending(c, r[k].seqno) # {}
    BY <1>3, <2>1
  <2>4. \A k \in DOMAIN requests[c] : requests[c][k].req = "create" =>
          \A j \in DOMAIN r : IsA(r, j, "create") => r[j].seqno # requests[c][k].seqno
    BY <1>3, <2>1 DEF IsA
  <2>5. QED BY <1>1, <1>5, <2>2, <2>3, <2>4 DEF CreateInv, IsA
<1>6. ASSUME SetInv(c)
      PROVE  SetInv(c)'
  <2>1. \A i \in DOMAIN rset : i # 0
    BY DEF Types
  <2>2. \A s \in SetsOf(c) : lib'[s].id = lib[s].id
    BY DEF SameSets
  <2>3. \A k \in DOMAIN r : Made(r, k) => k + 1 \in DOMAIN q /\ Made(q, k + 1) /\ r[k] = q[k + 1]
    BY <1>3 DEF Made, IsA
  <2>4. \A k \in DOMAIN q : Made(q, k) => k - 1 \in DOMAIN r /\ Made(r, k - 1) /\ r[k - 1] = q[k]
    BY <1>3 DEF Made, IsA
  <2>5. QED BY <1>1, <1>2, <1>6, <2>1, <2>2, <2>3, <2>4 DEF SetInv, Finds
<1>7. ASSUME EventInv(c), SetInv(c)
      PROVE  EventInv(c)'
  BY <1>7, PoppedEvents
<1>8. ASSUME ReleaseInv(c)
      PROVE  ReleaseInv(c)'
  <2>1. \A s \in SetsOf(c) : /\ lib'[s].id = lib[s].id
                             /\ lib[s].id # 0 => wants'[s] = wants[s]
                             /\ Asked(s, "release")' <=> Asked(s, "release")
    BY <1>2 DEF Asked, InFlight, SameSets
  <2>2. QED BY <1>2, <1>8, <2>1 DEF ReleaseInv
<1>9. QED BY <1>4, <1>5, <1>6, <1>7, <1>8 DEF Together

ReadFacts(c, req) ==
    /\ context[c].connected /\ Popped(c)
    /\ Head(replies[c]) \in Message /\ Head(replies[c]).req = req
    /\ replies' \in [Clients -> Seq(Message)]
    /\ \A d \in Clients : d # c => replies'[d] = replies[d]
    /\ UNCHANGED <<link, serverVars, wants>>

LEMMA ReceivingFacts ==
    ASSUME IInv, NEW c \in Clients, NEW req, Receiving(c, req)
    PROVE  ReadFacts(c, req)
<1>1. replies \in [Clients -> Seq(Message)]
  BY DEF IInv, Types
<1>2. replies[c] \in Seq(Message) /\ replies[c] # <<>> /\ Head(replies[c]).req = req
  BY <1>1 DEF Receiving
<1>3. Head(replies[c]) \in Message /\ Tail(replies[c]) \in Seq(Message)
  BY <1>2, HeadTailProperties
<1>4. replies' = [replies EXCEPT ![c] = Tail(replies[c])]
  BY DEF Receiving
<1>5. QED BY <1>1, <1>2, <1>3, <1>4 DEF Receiving, ReadFacts, Popped

\* Identifiers in messages to the library are those of sets.
LEMMA ReadId ==
    ASSUME IInv, NEW c \in Clients, NEW req, ReadFacts(c, req),
           req = "event" \/ (req \in {"create", "acquire", "release"} /\ Head(replies[c]).ok)
    PROVE  Head(replies[c]).id \in 1..(nextId - 1) /\ Head(replies[c]).id # 0
<1>1. 1 \in DOMAIN replies[c] /\ Head(replies[c]) = replies[c][1]
  BY PoppedPlaces DEF ReadFacts, IInv
<1>2. Head(replies[c]).req = req /\ IdsInv(c)
  BY DEF ReadFacts, IInv
<1>3. Head(replies[c]).id \in 1..(nextId - 1)
  BY <1>1, <1>2 DEF IdsInv
<1>4. QED BY <1>3

\* What a message may change of a set of the library.
ToldRight(c) ==
    \A s \in SetsOf(c) :
      /\ lib'[s].refs = lib[s].refs /\ lib'[s].edited = lib[s].edited
      /\ lib[s].refs = 0 => lib'[s] = lib[s]
      /\ lib'[s].seqno \in {0, lib[s].seqno}
      /\ lib'[s].seqno = 0 => lib'[s].told = lib'[s].state
      /\ lib[s].id = 0 => lib'[s].state = lib[s].state
      /\ lib[s].id # 0 => lib'[s].state =
           IF Head(replies[c]).req = "event" /\ Head(replies[c]).id = lib[s].id
           THEN StateOf(Head(replies[c]).grant, Head(replies[c]).advice)
           ELSE lib[s].state

LEMMA ReceivedKeeps ==
    ASSUME IInv, NEW c \in Clients, NEW req, req # "create", ReadFacts(c, req), UNCHANGED requests,
           context' \in [Clients -> [state : {"disconnected", "connected", "gone"},
                                     got : SUBSET Queries, connected : BOOLEAN,
                                     seqno : Nat \ {0}]],
           \A d \in Clients : d # c => context'[d] = context[d],
           context'[c].seqno = context[c].seqno, context'[c].connected = context[c].connected,
           lib' \in [Sets -> [refs : Nat, id : Nat, seqno : Nat, state : States,
                              pending : BOOLEAN, edited : BOOLEAN, told : States]],
           \A s \in Sets : OwnerOf[s] # c => lib'[s] = lib[s],
           SameSets(c), ToldRight(c)
    PROVE  IInv'
<1>1. Types /\ IdsInv(c) /\ (Connected(c) => Together(c)) /\ \A s \in Sets : LibInv(s)
  BY DEF IInv
<1>2. /\ Popped(c) /\ Head(replies[c]).req # "create"
      /\ UNCHANGED <<link, serverVars, wants, rset, nextId, served>>
  BY DEF ReadFacts, serverVars
<1>3. IdsInv(c)' /\ (Together(c) => Together(c)')
  <2>1. \A s \in SetsOf(c) : lib[s].id # 0 =>
           lib'[s].state = IF Head(replies[c]).req = "event" /\ Head(replies[c]).id = lib[s].id
                           THEN StateOf(Head(replies[c]).grant, Head(replies[c]).advice)
                           ELSE lib[s].state
    BY DEF ToldRight
  <2>2. requests'[c] = requests[c]
    OBVIOUS
  <2>3. QED BY <1>1, <1>2, <2>1, <2>2, PoppedKeeps
<1>4. Connected(c)' => Together(c)'
  BY <1>1, <1>2, <1>3 DEF Connected
<1>5. ASSUME NEW s \in SetsOf(c)
      PROVE  LibInv(s)'
  <2>1. OwnerOf[s] = c /\ s \in Sets /\ LibInv(s)
    BY <1>1 DEF SetsOf
  <2>2. /\ lib'[s].refs = lib[s].refs /\ lib'[s].edited = lib[s].edited
        /\ lib[s].refs = 0 => lib'[s] = lib[s]
        /\ lib'[s].seqno \in {0, lib[s].seqno}
        /\ lib'[s].seqno = 0 => lib'[s].told = lib'[s].state
        /\ lib[s].id = 0 => lib'[s].state = lib[s].state
    BY DEF ToldRight
  <2>3. /\ lib'[s].id = lib[s].id /\ lib'[s].pending = lib[s].pending
        /\ lib[s].pending => lib'[s].seqno = lib[s].seqno
    BY DEF SameSets
  <2>4. lib'[s].seqno < context'[OwnerOf[s]].seqno
    <3>1. context[c].seqno \in Nat \ {0} /\ lib[s].seqno < context[c].seqno
      BY <1>1, <2>1 DEF Types, LibInv
    <3>2. 0 < context[c].seqno
      BY <3>1
    <3>3. QED BY <2>1, <2>2, <3>1, <3>2
  <2>5. NoSet' = NoSet
    BY DEF NoSet
  <2>6. lib'[s].refs = 0 => lib'[s] = NoSet
    BY <2>1, <2>2 DEF LibInv
  <2>7. QED BY <1>2, <2>1, <2>2, <2>3, <2>4, <2>6 DEF LibInv
<1>6. /\ requests' \in [Clients -> Seq(Message)] /\ link' \in [Clients -> {"up", "down"}]
      /\ wants' \in [Sets -> BOOLEAN] /\ link'[c] \in {link[c], "down"}
      /\ \A s \in Sets : wants'[s] = wants[s]
      /\ \A d \in Clients : requests'[d] = requests[d] /\ link'[d] = link[d]
  BY <1>1, <1>2 DEF Types
<1>7. replies' \in [Clients -> Seq(Message)] /\ \A d \in Clients : d # c => replies'[d] = replies[d]
  BY DEF ReadFacts
<1>8. QED BY <1>2, <1>3, <1>4, <1>5, <1>6, <1>7, ClientFrame

\* Nothing but the context changes.
LEMMA NothingTold ==
    ASSUME IInv, NEW c \in Clients, lib' = lib, wants' = wants,
           \A s \in SetsOf(c) : lib[s].id # 0 =>
             ~(Head(replies[c]).req = "event" /\ Head(replies[c]).id = lib[s].id)
    PROVE  SameSets(c) /\ ToldRight(c)
<1>1. \A s \in SetsOf(c) : LibInv(s)
  BY DEF IInv, SetsOf
<1>2. QED BY <1>1 DEF SameSets, ToldRight, LibInv

LEMMA ReceiveQueryKeeps ==
    ASSUME IInv, NEW c \in Clients, ReceiveQuery(c)
    PROVE  IInv'
<1>1. PICK q \in Queries :
        /\ Receiving(c, q)
        /\ LET got == context[c].got \cup {q}
           IN context' = [context EXCEPT ![c].got = got,
                ![c].state = IF got = Queries THEN "connected" ELSE @]
        /\ UNCHANGED <<requests, lib>>
  BY DEF ReceiveQuery
<1>2. ReadFacts(c, q) /\ q \notin {"create", "event"}
  BY <1>1, ReceivingFacts DEF Queries
<1>3. Types
  BY DEF IInv
<1>4. /\ context' \in [Clients -> [state : {"disconnected", "connected", "gone"},
                                   got : SUBSET Queries, connected : BOOLEAN,
                                   seqno : Nat \ {0}]]
      /\ \A d \in Clients : d # c => context'[d] = context[d]
      /\ context'[c].seqno = context[c].seqno /\ context'[c].connected = context[c].connected
  <2>. DEFINE C == [state : {"disconnected", "connected", "gone"}, got : SUBSET Queries,
                    connected : BOOLEAN, seqno : Nat \ {0}]
  <2>1. context \in [Clients -> C]
    BY <1>3 DEF Types
  <2>2. PICK z \in C : z = context[c]
    BY <2>1
  <2>3. PICK got \in SUBSET Queries : got = context[c].got \cup {q}
    BY <2>2
  <2>4. PICK st \in {"disconnected", "connected", "gone"} :
          st = IF got = Queries THEN "connected" ELSE z.state
    OBVIOUS
  <2>5. PICK y : y = [z EXCEPT !.got = got, !.state = st]
    OBVIOUS
  <2>6. y \in C /\ y.seqno = z.seqno /\ y.connected = z.connected
    BY <2>5
  <2>7. context' = [context EXCEPT ![c] = y]
    BY <1>1, <2>1, <2>2, <2>3, <2>4, <2>5
  <2>. HIDE DEF C
  <2>8. context' \in [Clients -> C] /\ context'[c] = y /\ \A d \in Clients : d # c => context'[d] = context[d]
    BY <2>1, <2>6, <2>7
  <2>9. QED BY <2>2, <2>6, <2>8 DEF C
<1>5. lib' = lib /\ wants' = wants /\ Head(replies[c]).req # "event"
  BY <1>1, <1>2 DEF ReadFacts
<1>6. SameSets(c) /\ ToldRight(c)
  BY <1>5, NothingTold
<1>7. lib' \in [Sets -> [refs : Nat, id : Nat, seqno : Nat, state : States,
                         pending : BOOLEAN, edited : BOOLEAN, told : States]]
  BY <1>3, <1>5 DEF Types
<1>8. UNCHANGED requests /\ \A s \in Sets : OwnerOf[s] # c => lib'[s] = lib[s]
  BY <1>1
<1>9. q # "create"
  BY <1>2
<1>10. QED BY <1>2, <1>4, <1>6, <1>7, <1>8, <1>9, ReceivedKeeps

LEMMA SameContext ==
    ASSUME IInv, NEW c \in Clients, context' = context
    PROVE  /\ context' \in [Clients -> [state : {"disconnected", "connected", "gone"},
                                        got : SUBSET Queries, connected : BOOLEAN,
                                        seqno : Nat \ {0}]]
           /\ \A d \in Clients : d # c => context'[d] = context[d]
           /\ context'[c].seqno = context[c].seqno /\ context'[c].connected = context[c].connected
  BY DEF IInv, Types

LEMMA ReceiveDestroyKeeps ==
    ASSUME IInv, NEW c \in Clients, ReceiveDestroy(c)
    PROVE  IInv'
<1>1. ReadFacts(c, "destroy") /\ UNCHANGED <<requests, context, lib>> /\ Types
  BY ReceivingFacts DEF ReceiveDestroy, IInv
<1>2. lib' = lib /\ wants' = wants /\ Head(replies[c]).req # "event"
  BY <1>1 DEF ReadFacts
<1>3. SameSets(c) /\ ToldRight(c)
  BY <1>2, NothingTold
<1>4. lib' \in [Sets -> [refs : Nat, id : Nat, seqno : Nat, state : States,
                         pending : BOOLEAN, edited : BOOLEAN, told : States]]
  BY <1>1, <1>2 DEF Types
<1>5. UNCHANGED requests /\ \A s \in Sets : OwnerOf[s] # c => lib'[s] = lib[s]
  BY <1>1
<1>6. /\ context' \in [Clients -> [state : {"disconnected", "connected", "gone"},
                                   got : SUBSET Queries, connected : BOOLEAN,
                                   seqno : Nat \ {0}]]
      /\ \A d \in Clients : d # c => context'[d] = context[d]
      /\ context'[c].seqno = context[c].seqno /\ context'[c].connected = context[c].connected
  BY <1>1, SameContext
<1>7. QED BY <1>1, <1>3, <1>4, <1>5, <1>6, ReceivedKeeps

LibSet == [refs : Nat, id : Nat, seqno : Nat, state : States,
           pending : BOOLEAN, edited : BOOLEAN, told : States]

\* A set with an identifier is alive, and waits for none.
LEMMA KnownSet ==
    ASSUME IInv, NEW s \in Sets, lib[s].id # 0
    PROVE  Alive(s) /\ lib[s].refs # 0 /\ lib[s].pending = FALSE
<1>1. lib[s] \in LibSet /\ LibInv(s)
  BY DEF IInv, Types, LibSet
<1>2. NoSet.id = 0
  BY DEF NoSet
<1>3. lib[s].refs # 0 /\ lib[s].pending = FALSE
  BY <1>1, <1>2 DEF LibInv, LibSet
<1>4. lib[s].refs \in Nat
  BY <1>1 DEF LibSet
<1>5. QED BY <1>3, <1>4 DEF Alive

LEMMA ReceiveAnswerKeeps ==
    ASSUME IInv, NEW c \in Clients, ReceiveAnswer(c)
    PROVE  IInv'
<1>. DEFINE m == Head(replies[c])
            of == IF m.ok THEN Mapped(c, m.id) ELSE {}
<1>1. PICK req \in {"acquire", "release"} :
        /\ Receiving(c, req)
        /\ lib' = [s \in Sets |-> IF s \in of THEN AfterAnswer(s, req) ELSE lib[s]]
        /\ UNCHANGED <<requests, context>>
  BY DEF ReceiveAnswer
<1>2. ReadFacts(c, req) /\ Types
  BY <1>1, ReceivingFacts DEF IInv
<1>3. wants' = wants /\ m.req # "event" /\ m \in Message
  BY <1>2 DEF ReadFacts
<1>4. ASSUME NEW s \in of
      PROVE  s \in SetsOf(c) /\ lib[s].id # 0 /\ lib[s].refs # 0 /\ lib[s].pending = FALSE
  <2>1. m.ok /\ s \in SetsOf(c) /\ lib[s].id = m.id /\ s \in Sets
    BY DEF Mapped, SetsOf
  <2>2. m.id # 0
    BY <1>2, <2>1, ReadId
  <2>3. lib[s].id # 0
    BY <2>1, <2>2
  <2>4. QED BY <2>1, <2>3, KnownSet
<1>5. ASSUME NEW s \in Sets
      PROVE  /\ lib'[s] \in LibSet
             /\ s \notin of => lib'[s] = lib[s]
             /\ s \in of => /\ lib'[s].refs = lib[s].refs /\ lib'[s].edited = lib[s].edited
                            /\ lib'[s].id = lib[s].id /\ lib'[s].pending = lib[s].pending
                            /\ lib'[s].state = lib[s].state /\ lib'[s].seqno = 0
                            /\ lib'[s].told = lib[s].state
  <2>1. PICK z \in LibSet : z = lib[s]
    BY <1>2 DEF Types, LibSet
  <2>2. PICK y : y = [z EXCEPT !.seqno = 0, !.told = z.state]
    OBVIOUS
  <2>3. /\ y \in LibSet /\ y.refs = z.refs /\ y.edited = z.edited /\ y.id = z.id
        /\ y.pending = z.pending /\ y.state = z.state /\ y.seqno = 0 /\ y.told = z.state
    BY <2>2 DEF LibSet
  <2>4. lib'[s] = IF s \in of THEN y ELSE z
    BY <1>1, <2>1, <2>2 DEF AfterAnswer
  <2>. HIDE DEF of
  <2>5. QED BY <2>1, <2>3, <2>4
<1>6. lib' \in [Sets -> LibSet]
  BY <1>1, <1>5
<1>. HIDE DEF of
<1>7. ASSUME NEW s \in SetsOf(c)
      PROVE  s \in Sets /\ LibInv(s)
  BY DEF IInv, SetsOf
<1>8. SameSets(c)
  BY <1>3, <1>4, <1>5, <1>7 DEF SameSets
<1>9. ToldRight(c)
  <2>1. ASSUME NEW s \in SetsOf(c)
        PROVE  /\ lib'[s].refs = lib[s].refs /\ lib'[s].edited = lib[s].edited
               /\ lib[s].refs = 0 => lib'[s] = lib[s]
               /\ lib'[s].seqno \in {0, lib[s].seqno}
               /\ lib'[s].seqno = 0 => lib'[s].told = lib'[s].state
               /\ lib'[s].state = lib[s].state
    <3>1. s \in Sets /\ (lib[s].seqno = 0 => lib[s].told = lib[s].state)
      BY <1>7 DEF LibInv
    <3>2. CASE s \in of
      BY <1>4, <1>5, <3>1, <3>2
    <3>3. CASE s \notin of
      <4>1. lib'[s] = lib[s]
        BY <1>5, <3>1, <3>3
      <4>2. QED BY <3>1, <4>1
    <3>4. QED BY <3>2, <3>3
  <2>2. Head(replies[c]).req # "event"
    BY <1>3
  <2>3. QED BY <2>1, <2>2 DEF ToldRight
<1>10. \A s \in Sets : OwnerOf[s] # c => lib'[s] = lib[s]
  BY <1>4, <1>5 DEF SetsOf
<1>11. /\ context' \in [Clients -> [state : {"disconnected", "connected", "gone"},
                                    got : SUBSET Queries, connected : BOOLEAN,
                                    seqno : Nat \ {0}]]
       /\ \A d \in Clients : d # c => context'[d] = context[d]
       /\ context'[c].seqno = context[c].seqno /\ context'[c].connected = context[c].connected
  BY <1>1, SameContext
<1>12. UNCHANGED requests /\ req # "create"
  BY <1>1
<1>13. lib' \in [Sets -> [refs : Nat, id : Nat, seqno : Nat, state : States,
                         pending : BOOLEAN, edited : BOOLEAN, told : States]]
  BY <1>6 DEF LibSet
<1>14. QED BY <1>2, <1>8, <1>9, <1>10, <1>11, <1>12, <1>13, ReceivedKeeps

LEMMA ReceiveEventKeeps ==
    ASSUME IInv, NEW c \in Clients, ReceiveEvent(c)
    PROVE  IInv'
<1>. DEFINE m == Head(replies[c])
            st == StateOf(m.grant, m.advice)
            of == Mapped(c, m.id)
<1>1. /\ Receiving(c, "event")
      /\ lib' = [s \in Sets |->
           IF s \in of /\ Understood(s, m)
           THEN [lib[s] EXCEPT !.state = st, !.told = IF lib[s].seqno = 0 THEN st ELSE @]
           ELSE lib[s]]
      /\ UNCHANGED <<requests, context>>
  BY DEF ReceiveEvent
<1>2. ReadFacts(c, "event") /\ Types
  BY <1>1, ReceivingFacts DEF IInv
<1>3. wants' = wants /\ m.req = "event" /\ m.id # 0
  BY <1>2, ReadId DEF ReadFacts
<1>4. st \in States
  BY DEF StateOf, States
<1>5. \A s \in Sets : LibInv(s) /\ Understood(s, m)
  BY DEF IInv, Understood, LibInv
<1>6. ASSUME NEW s \in Sets
      PROVE  s \in of <=> s \in SetsOf(c) /\ lib[s].id = m.id
  <2>1. lib[s].id = m.id => Alive(s)
    BY <1>3, KnownSet
  <2>2. QED BY <2>1 DEF Mapped
<1>7. ASSUME NEW s \in Sets
      PROVE  /\ lib'[s] \in LibSet
             /\ s \notin of => lib'[s] = lib[s]
             /\ s \in of => /\ lib'[s].refs = lib[s].refs /\ lib'[s].edited = lib[s].edited
                            /\ lib'[s].id = lib[s].id /\ lib'[s].pending = lib[s].pending
                            /\ lib'[s].state = st /\ lib'[s].seqno = lib[s].seqno
                            /\ lib[s].seqno = 0 => lib'[s].told = st
  <2>1. PICK z \in LibSet : z = lib[s]
    BY <1>2 DEF Types, LibSet
  <2>2. PICK w \in States : w = st
    BY <1>4
  <2>3. PICK v \in States : v = IF z.seqno = 0 THEN w ELSE z.told
    BY <2>1, <2>2 DEF LibSet
  <2>4. PICK y : y = [z EXCEPT !.state = w, !.told = v]
    OBVIOUS
  <2>5. /\ y \in LibSet /\ y.refs = z.refs /\ y.edited = z.edited /\ y.id = z.id
        /\ y.pending = z.pending /\ y.state = w /\ y.seqno = z.seqno /\ y.told = v
    BY <2>4 DEF LibSet
  <2>6. lib'[s] = IF s \in of THEN y ELSE z
    BY <1>1, <1>5, <2>1, <2>2, <2>3, <2>4
  <2>. HIDE DEF of, st
  <2>7. QED BY <2>1, <2>2, <2>3, <2>5, <2>6
<1>8. lib' \in [Sets -> LibSet]
  BY <1>1, <1>7
<1>. HIDE DEF of
<1>9. ASSUME NEW s \in SetsOf(c)
      PROVE  s \in Sets /\ LibInv(s)
  BY <1>5 DEF SetsOf
<1>10. ASSUME NEW s \in Sets, s \in of
       PROVE  lib[s].id # 0 /\ lib[s].pending = FALSE /\ lib[s].refs # 0
  <2>1. lib[s].id # 0
    BY <1>3, <1>6, <1>10
  <2>2. QED BY <2>1, KnownSet
<1>11. SameSets(c)
  BY <1>3, <1>7, <1>9 DEF SameSets
<1>12. ToldRight(c)
  <2>. HIDE DEF m, st
  <2>1. ASSUME NEW s \in SetsOf(c), s \in of
        PROVE  /\ lib'[s].refs = lib[s].refs /\ lib'[s].edited = lib[s].edited
               /\ lib[s].refs # 0 /\ lib[s].id # 0 /\ lib[s].id = m.id
               /\ lib'[s].seqno = lib[s].seqno
               /\ lib'[s].seqno = 0 => lib'[s].told = lib'[s].state
               /\ lib'[s].state = st
    BY <2>1, <1>6, <1>7, <1>9, <1>10
  <2>2. ASSUME NEW s \in SetsOf(c), s \notin of
        PROVE  lib'[s] = lib[s] /\ LibInv(s) /\ lib[s].id # m.id
    BY <2>2, <1>6, <1>7, <1>9
  <2>3. \A s \in SetsOf(c) : lib'[s].seqno = 0 => lib'[s].told = lib'[s].state
    BY <2>1, <2>2 DEF LibInv
  <2>4. QED BY <1>3, <2>1, <2>2, <2>3 DEF ToldRight, m, st
<1>13. \A s \in Sets : OwnerOf[s] # c => lib'[s] = lib[s]
  BY <1>6, <1>7 DEF SetsOf
<1>14. /\ context' \in [Clients -> [state : {"disconnected", "connected", "gone"},
                                    got : SUBSET Queries, connected : BOOLEAN,
                                    seqno : Nat \ {0}]]
       /\ \A d \in Clients : d # c => context'[d] = context[d]
       /\ context'[c].seqno = context[c].seqno /\ context'[c].connected = context[c].connected
  BY <1>1, SameContext
<1>15. lib' \in [Sets -> [refs : Nat, id : Nat, seqno : Nat, state : States,
                         pending : BOOLEAN, edited : BOOLEAN, told : States]]
  BY <1>8 DEF LibSet
<1>16. UNCHANGED requests
  BY <1>1
<1>17. QED BY <1>2, <1>11, <1>12, <1>13, <1>14, <1>15, <1>16, ReceivedKeeps

\* The connection of c ends.
LEMMA CutOff ==
    ASSUME IInv, UNCHANGED <<serverVars, requests>>, NEW c \in Clients,
           replies' \in [Clients -> Seq(Message)],
           replies'[c] = replies[c] \/ replies'[c] = <<>>,
           link' \in [Clients -> {"up", "down"}],
           context' \in [Clients -> [state : {"disconnected", "connected", "gone"},
                                     got : SUBSET Queries, connected : BOOLEAN,
                                     seqno : Nat \ {0}]],
           context'[c].seqno = context[c].seqno,
           lib' \in [Sets -> [refs : Nat, id : Nat, seqno : Nat, state : States,
                              pending : BOOLEAN, edited : BOOLEAN, told : States]],
           wants' \in [Sets -> BOOLEAN],
           link'[c] \in {link[c], "down"}, link'[c] = "down" \/ context'[c].connected = FALSE,
           \A d \in Clients : d # c => /\ replies'[d] = replies[d]
                                       /\ link'[d] = link[d]
                                       /\ context'[d] = context[d],
           \A s \in Sets : OwnerOf[s] # c => lib'[s] = lib[s] /\ wants'[s] = wants[s],
           \A s \in SetsOf(c) : \/ lib'[s] = lib[s] /\ wants'[s] = wants[s]
                                \/ lib'[s] = NoSet
    PROVE  IInv'
<1>1. Types /\ IdsInv(c) /\ \A s \in Sets : LibInv(s)
  BY DEF IInv
<1>2. requests' = requests /\ nextId' = nextId /\ NoSet' = NoSet
  BY DEF serverVars, NoSet
<1>3. ~Connected(c)'
  BY DEF Connected
<1>4. ASSUME NEW s \in SetsOf(c)
      PROVE  LibInv(s)'
  <2>1. OwnerOf[s] = c /\ s \in Sets /\ LibInv(s)
    BY <1>1 DEF SetsOf
  <2>2. CASE lib'[s] = lib[s] /\ wants'[s] = wants[s]
    BY <1>2, <2>1, <2>2 DEF LibInv
  <2>3. CASE lib'[s] = NoSet
    <3>1. /\ NoSet.refs = 0 /\ NoSet.edited = FALSE /\ NoSet.id = 0 /\ NoSet.seqno = 0
          /\ NoSet.state = "pending" /\ NoSet.pending = FALSE /\ NoSet.told = "pending"
      BY DEF NoSet
    <3>2. nextId \in Nat /\ nextId # 0 /\ context[c].seqno \in Nat /\ context[c].seqno # 0
      BY <1>1 DEF Types
    <3>3. 0 < nextId /\ 0 < context[c].seqno
      BY <3>2
    <3>4. 0 <= MaxRefs[s]
      BY <2>1, ProtocolAssumption
    <3>5. QED BY <1>2, <2>1, <2>3, <3>1, <3>3, <3>4 DEF LibInv
  <2>4. QED BY <2>2, <2>3
<1>5. IdsInv(c)'
  <2>1. replies[c] \in Seq(Message)
    BY <1>1 DEF Types
  <2>2. Shifted(replies[c], replies'[c], 0)
    BY <2>1, SameShifted
  <2>3. \A s \in SetsOf(c) : /\ lib'[s].id \in {0, lib[s].id}
                             /\ lib'[s].pending => lib[s].pending /\ lib'[s].seqno = lib[s].seqno
    BY DEF NoSet
  <2>4. QED BY <1>1, <1>2, <2>2, <2>3, IdsKept
<1>6. requests' \in [Clients -> Seq(Message)] /\ \A d \in Clients : requests'[d] = requests[d]
  BY <1>1, <1>2 DEF Types
<1>7. UNCHANGED serverVars
  OBVIOUS
<1>8. QED BY <1>3, <1>4, <1>5, <1>6, <1>7, ClientFrame

LEMMA ContextClosed ==
    ASSUME Types, NEW c \in Clients, NEW st \in {context[c].state, "gone"},
           context' = [context EXCEPT ![c].state = st, ![c].connected = FALSE]
    PROVE  /\ context' \in [Clients -> [state : {"disconnected", "connected", "gone"},
                                        got : SUBSET Queries, connected : BOOLEAN,
                                        seqno : Nat \ {0}]]
           /\ context'[c].seqno = context[c].seqno /\ context'[c].connected = FALSE
           /\ \A d \in Clients : d # c => context'[d] = context[d]
<1>. DEFINE C == [state : {"disconnected", "connected", "gone"}, got : SUBSET Queries,
                  connected : BOOLEAN, seqno : Nat \ {0}]
<1>1. context \in [Clients -> C]
  BY DEF Types
<1>2. PICK z \in C : z = context[c]
  BY <1>1
<1>3. PICK y : y = [z EXCEPT !.state = st, !.connected = FALSE]
  OBVIOUS
<1>4. y \in C /\ y.seqno = z.seqno /\ y.connected = FALSE
  BY <1>2, <1>3
<1>5. context' = [context EXCEPT ![c] = y]
  BY <1>1, <1>2, <1>3
<1>. HIDE DEF C
<1>6. context' \in [Clients -> C] /\ context'[c] = y /\ \A d \in Clients : d # c => context'[d] = context[d]
  BY <1>1, <1>4, <1>5
<1>7. QED BY <1>2, <1>4, <1>6 DEF C

LEMMA ClientClosedKeeps ==
    ASSUME IInv, NEW c \in Clients, ClientClosed(c)
    PROVE  IInv'
<1>1. Types
  BY DEF IInv
<1>2. /\ context' = [context EXCEPT ![c].connected = FALSE]
      /\ replies' = [replies EXCEPT ![c] = <<>>]
      /\ UNCHANGED <<requests, link, serverVars, lib, wants>>
  BY DEF ClientClosed
<1>3. /\ replies' \in [Clients -> Seq(Message)] /\ replies'[c] = <<>>
      /\ \A d \in Clients : d # c => replies'[d] = replies[d]
  BY <1>1, <1>2, NoMessage DEF Types
<1>4. context' = [context EXCEPT ![c].state = context[c].state, ![c].connected = FALSE]
  BY <1>1, <1>2 DEF Types
<1>5. /\ context' \in [Clients -> [state : {"disconnected", "connected", "gone"},
                                   got : SUBSET Queries, connected : BOOLEAN,
                                   seqno : Nat \ {0}]]
      /\ context'[c].seqno = context[c].seqno /\ context'[c].connected = FALSE
      /\ \A d \in Clients : d # c => context'[d] = context[d]
  <2>1. PICK st \in {context[c].state, "gone"} : st = context[c].state
    OBVIOUS
  <2>2. QED BY <1>1, <1>4, <2>1, ContextClosed
<1>6. /\ link' \in [Clients -> {"up", "down"}] /\ link' = link
      /\ lib' \in [Sets -> [refs : Nat, id : Nat, seqno : Nat, state : States,
                            pending : BOOLEAN, edited : BOOLEAN, told : States]]
      /\ wants' \in [Sets -> BOOLEAN] /\ lib' = lib /\ wants' = wants
      /\ UNCHANGED <<serverVars, requests>>
  BY <1>1, <1>2 DEF Types
<1>7. QED BY <1>3, <1>5, <1>6, CutOff

LEMMA BreakKeeps ==
    ASSUME IInv, NEW c \in Clients, Break(c)
    PROVE  IInv'
<1>1. Types
  BY DEF IInv
<1>2. /\ link' = [link EXCEPT ![c] = "down"]
      /\ UNCHANGED <<requests, replies, serverVars>>
      /\ context' = context /\ lib' = lib /\ wants' = wants
  BY DEF Break, clientVars
<1>3. /\ link' \in [Clients -> {"up", "down"}] /\ link'[c] = "down"
      /\ \A d \in Clients : d # c => link'[d] = link[d]
      /\ replies' \in [Clients -> Seq(Message)] /\ replies' = replies
      /\ context' \in [Clients -> [state : {"disconnected", "connected", "gone"},
                                   got : SUBSET Queries, connected : BOOLEAN,
                                   seqno : Nat \ {0}]]
      /\ lib' \in [Sets -> [refs : Nat, id : Nat, seqno : Nat, state : States,
                            pending : BOOLEAN, edited : BOOLEAN, told : States]]
      /\ wants' \in [Sets -> BOOLEAN]
      /\ UNCHANGED <<serverVars, requests>>
  BY <1>1, <1>2 DEF Types
<1>4. QED BY <1>2, <1>3, CutOff

LEMMA GoneKeeps ==
    ASSUME IInv, NEW c \in Clients, Gone(c)
    PROVE  IInv'
<1>1. Types
  BY DEF IInv
<1>2. /\ context' = [context EXCEPT ![c].state = "gone", ![c].connected = FALSE]
      /\ link' = [link EXCEPT ![c] = "down"]
      /\ replies' = [replies EXCEPT ![c] = <<>>]
      /\ lib' = [s \in Sets |-> IF s \in SetsOf(c) THEN NoSet ELSE lib[s]]
      /\ wants' = [s \in Sets |-> IF s \in SetsOf(c) THEN FALSE ELSE wants[s]]
      /\ UNCHANGED <<requests, serverVars>>
  BY DEF Gone
<1>3. /\ replies' \in [Clients -> Seq(Message)] /\ replies'[c] = <<>>
      /\ \A d \in Clients : d # c => replies'[d] = replies[d]
      /\ link' \in [Clients -> {"up", "down"}] /\ link'[c] = "down"
      /\ \A d \in Clients : d # c => link'[d] = link[d]
  BY <1>1, <1>2, NoMessage DEF Types
<1>4. /\ context' \in [Clients -> [state : {"disconnected", "connected", "gone"},
                                   got : SUBSET Queries, connected : BOOLEAN,
                                   seqno : Nat \ {0}]]
      /\ context'[c].seqno = context[c].seqno /\ context'[c].connected = FALSE
      /\ \A d \in Clients : d # c => context'[d] = context[d]
  <2>1. PICK st \in {context[c].state, "gone"} : st = "gone"
    OBVIOUS
  <2>2. QED BY <1>1, <1>2, <2>1, ContextClosed
<1>5. lib' \in [Sets -> LibSet]
  <2>1. NoSet \in LibSet
    BY DEF NoSet, LibSet, States
  <2>2. lib \in [Sets -> LibSet]
    BY <1>1 DEF Types, LibSet
  <2>3. QED BY <1>2, <2>1, <2>2
<1>6. wants' \in [Sets -> BOOLEAN]
  BY <1>1, <1>2 DEF Types
<1>7. /\ \A s \in Sets : OwnerOf[s] # c => lib'[s] = lib[s] /\ wants'[s] = wants[s]
      /\ \A s \in SetsOf(c) : lib'[s] = NoSet
  BY <1>2 DEF SetsOf
<1>8. lib' \in [Sets -> [refs : Nat, id : Nat, seqno : Nat, state : States,
                         pending : BOOLEAN, edited : BOOLEAN, told : States]]
  BY <1>5 DEF LibSet
<1>9. UNCHANGED <<serverVars, requests>>
  BY <1>2
<1>10. /\ replies'[c] = replies[c] \/ replies'[c] = <<>>
       /\ link'[c] \in {link[c], "down"} /\ (link'[c] = "down" \/ context'[c].connected = FALSE)
       /\ \A d \in Clients : d # c => /\ replies'[d] = replies[d]
                                      /\ link'[d] = link[d]
                                      /\ context'[d] = context[d]
       /\ \A s \in SetsOf(c) : (lib'[s] = lib[s] /\ wants'[s] = wants[s]) \/ lib'[s] = NoSet
  BY <1>3, <1>4, <1>7
<1>11. /\ replies' \in [Clients -> Seq(Message)] /\ link' \in [Clients -> {"up", "down"}]
       /\ context' \in [Clients -> [state : {"disconnected", "connected", "gone"},
                                    got : SUBSET Queries, connected : BOOLEAN,
                                    seqno : Nat \ {0}]]
       /\ context'[c].seqno = context[c].seqno
       /\ \A s \in Sets : OwnerOf[s] # c => lib'[s] = lib[s] /\ wants'[s] = wants[s]
  BY <1>3, <1>4, <1>7
<1>. HIDE <1>2, <1>3, <1>4, <1>5, <1>7
<1>12. QED BY <1>6, <1>8, <1>9, <1>10, <1>11, CutOff

\* The application does something with set s, and nothing is sent.
LEMMA SetChanged ==
    ASSUME IInv, NEW s \in Sets, UNCHANGED <<requests, context, AppVars>>, NEW y \in LibSet,
           lib' = [lib EXCEPT ![s] = y], wants' \in [Sets -> BOOLEAN],
           \A t \in Sets : t # s => wants'[t] = wants[t],
           y.id = lib[s].id, y.pending = lib[s].pending, y.state = lib[s].state,
           y.seqno = lib[s].seqno, y.told = lib[s].told, y.edited = lib[s].edited,
           lib[s].id # 0 \/ lib[s].pending => wants'[s] = wants[s],
           lib[s].id # 0 => ((y.refs > 0) <=> (lib[s].refs > 0)),
           y.refs <= MaxRefs[s], y.refs # 0
    PROVE  IInv'
<1>. DEFINE c == OwnerOf[s]
<1>1. c \in Clients /\ s \in SetsOf(c)
  BY ProtocolAssumption DEF SetsOf
<1>2. Types /\ IdsInv(c) /\ (Connected(c) => Together(c)) /\ \A t \in Sets : LibInv(t)
  BY <1>1 DEF IInv
<1>3. lib \in [Sets -> LibSet]
  BY <1>2 DEF Types, LibSet
<1>4. lib' \in [Sets -> LibSet] /\ lib'[s] = y /\ \A t \in Sets : t # s => lib'[t] = lib[t]
  BY <1>3
<1>5. /\ requests' = requests /\ context' = context /\ replies' = replies /\ link' = link
      /\ UNCHANGED <<serverVars, rset, nextId, served>>
  BY DEF AppVars, serverVars
<1>6. SameSets(c)
  <2>1. \A t \in SetsOf(c) : t \in Sets
    BY DEF SetsOf
  <2>2. QED BY <1>4, <2>1 DEF SameSets
<1>7. IdsInv(c)' /\ (Together(c) => Together(c)')
  <2>1. \A t \in SetsOf(c) : lib'[t].state = lib[t].state
    BY <1>4 DEF SetsOf
  <2>2. requests'[c] = requests[c] /\ replies'[c] = replies[c] /\ UNCHANGED <<rset, nextId>>
    BY <1>5
  <2>. HIDE DEF c
  <2>3. QED BY <1>1, <1>2, <1>6, <2>1, <2>2, QuietKeeps
<1>8. Connected(c)' => Together(c)'
  BY <1>2, <1>5, <1>7 DEF Connected
<1>9. ASSUME NEW t \in SetsOf(c)
      PROVE  LibInv(t)'
  <2>1. t \in Sets /\ LibInv(t) /\ NoSet' = NoSet
    BY <1>2 DEF SetsOf, NoSet
  <2>2. CASE t = s
    BY <1>4, <1>5, <2>1, <2>2 DEF LibInv
  <2>3. CASE t # s
    BY <1>4, <1>5, <2>1, <2>3 DEF LibInv
  <2>4. QED BY <2>2, <2>3
<1>10. /\ requests' \in [Clients -> Seq(Message)] /\ replies' \in [Clients -> Seq(Message)]
       /\ link' \in [Clients -> {"up", "down"}] /\ link'[c] \in {link[c], "down"}
       /\ context' \in [Clients -> [state : {"disconnected", "connected", "gone"},
                                    got : SUBSET Queries, connected : BOOLEAN,
                                    seqno : Nat \ {0}]]
       /\ UNCHANGED <<serverVars>>
  BY <1>2, <1>5 DEF Types
<1>11. lib' \in [Sets -> [refs : Nat, id : Nat, seqno : Nat, state : States,
                          pending : BOOLEAN, edited : BOOLEAN, told : States]]
  BY <1>4 DEF LibSet
<1>12. \A t \in Sets : OwnerOf[t] # c => lib'[t] = lib[t] /\ wants'[t] = wants[t]
  BY <1>4
<1>. HIDE DEF c
<1>13. QED BY <1>1, <1>5, <1>7, <1>8, <1>9, <1>10, <1>11, <1>12, ClientFrame

LEMMA CreateResourceSetKeeps ==
    ASSUME IInv, NEW s \in Sets, CreateResourceSet(s)
    PROVE  IInv'
<1>1. Types /\ LibInv(s)
  BY DEF IInv
<1>2. lib[s] = NoSet
  <2>1. lib[s].refs \in Nat /\ ~(lib[s].refs > 0)
    BY <1>1 DEF CreateResourceSet, Alive, Types
  <2>2. QED BY <1>1, <2>1 DEF LibInv
<1>3. PICK y : y = [NoSet EXCEPT !.refs = 1]
  OBVIOUS
<1>4. /\ y \in LibSet /\ y.refs = 1 /\ y.id = NoSet.id /\ y.pending = NoSet.pending
      /\ y.state = NoSet.state /\ y.seqno = NoSet.seqno /\ y.told = NoSet.told
      /\ y.edited = NoSet.edited /\ NoSet.id = 0 /\ NoSet.pending = FALSE
  BY <1>3 DEF NoSet, LibSet, States
<1>5. /\ UNCHANGED <<requests, context, AppVars>> /\ lib' = [lib EXCEPT ![s] = y]
      /\ wants' = [wants EXCEPT ![s] = FALSE]
  BY <1>3 DEF CreateResourceSet
<1>6. wants' \in [Sets -> BOOLEAN] /\ \A t \in Sets : t # s => wants'[t] = wants[t]
  BY <1>1, <1>5 DEF Types
<1>7. y.refs <= MaxRefs[s] /\ y.refs # 0
  BY <1>4, ProtocolAssumption
<1>8. QED BY <1>2, <1>4, <1>5, <1>6, <1>7, SetChanged

\* The number of copies of a set changes, and one is left.
LEMMA CopiesKeep ==
    ASSUME IInv, NEW s \in Sets, UNCHANGED <<requests, context, wants, AppVars>>,
           NEW n \in Nat \ {0}, n <= MaxRefs[s], Alive(s),
           lib' = [lib EXCEPT ![s].refs = n]
    PROVE  IInv'
<1>1. Types
  BY DEF IInv
<1>2. PICK z \in LibSet : z = lib[s]
  BY <1>1 DEF Types, LibSet
<1>3. PICK y : y = [z EXCEPT !.refs = n]
  OBVIOUS
<1>4. /\ y \in LibSet /\ y.refs = n /\ y.id = z.id /\ y.pending = z.pending
      /\ y.state = z.state /\ y.seqno = z.seqno /\ y.told = z.told /\ y.edited = z.edited
  BY <1>3 DEF LibSet
<1>5. lib' = [lib EXCEPT ![s] = y]
  BY <1>1, <1>2, <1>3 DEF Types
<1>6. y.refs > 0 /\ lib[s].refs > 0
  BY <1>4 DEF Alive
<1>7. wants' \in [Sets -> BOOLEAN] /\ wants' = wants
  BY <1>1 DEF Types
<1>8. UNCHANGED <<requests, context, AppVars>>
  OBVIOUS
<1>9. QED BY <1>2, <1>4, <1>5, <1>6, <1>7, <1>8, SetChanged

LEMMA CopyResourceSetKeeps ==
    ASSUME IInv, NEW s \in Sets, CopyResourceSet(s)
    PROVE  IInv'
<1>1. lib[s].refs \in Nat
  BY DEF IInv, Types
<1>2. /\ UNCHANGED <<requests, context, wants, AppVars>>
      /\ Alive(s) /\ lib[s].refs < MaxRefs[s]
      /\ lib' = [lib EXCEPT ![s].refs = lib[s].refs + 1]
  BY DEF CopyResourceSet
<1>3. PICK n \in Nat \ {0} : n = lib[s].refs + 1
  BY <1>1
<1>4. n <= MaxRefs[s]
  BY <1>1, <1>2, <1>3, ProtocolAssumption
<1>5. lib' = [lib EXCEPT ![s].refs = n]
  BY <1>2, <1>3
<1>6. QED BY <1>2, <1>4, <1>5, CopiesKeep

\* The library of c sends a request, the last of its queue.
AsksAt(c, n, req, i, no) ==
    LET u == requests[c]
        v == requests'[c]
    IN /\ DOMAIN u \subseteq Nat /\ DOMAIN v \subseteq Nat
       /\ \A k \in DOMAIN u : k \in DOMAIN v /\ v[k] = u[k] /\ k < n
       /\ \A k \in DOMAIN v : k = n \/ (k \in DOMAIN u /\ v[k] = u[k])
       /\ n \in DOMAIN v /\ v[n].req = req /\ v[n].id = i /\ v[n].seqno = no

RequestFacts(c, req, i) ==
    /\ requests' \in [Clients -> Seq(Message)]
    /\ context' \in [Clients -> [state : {"disconnected", "connected", "gone"},
                                 got : SUBSET Queries, connected : BOOLEAN,
                                 seqno : Nat \ {0}]]
    /\ \A d \in Clients : d # c => requests'[d] = requests[d] /\ context'[d] = context[d]
    /\ context'[c].connected = context[c].connected
    /\ context[c].seqno \in Nat /\ context[c].seqno # 0
    /\ context'[c].seqno \in Nat /\ context[c].seqno < context'[c].seqno
    /\ link[c] = "up" => \E n \in Nat : AsksAt(c, n, req, i, context[c].seqno)

LEMMA Requested ==
    ASSUME Types, NEW c \in Clients, NEW req \in {"create", "destroy", "acquire", "release"},
           NEW i \in Nat, NEW known \in BOOLEAN, Request(c, req, i, known)
    PROVE  RequestFacts(c, req, i)
<1>. DEFINE C == [state : {"disconnected", "connected", "gone"}, got : SUBSET Queries,
                  connected : BOOLEAN, seqno : Nat \ {0}]
            x == Msg(req, context[c].seqno, i, known)
<1>1. context \in [Clients -> C] /\ requests \in [Clients -> Seq(Message)]
  BY DEF Types
<1>2. PICK z \in C : z = context[c]
  BY <1>1
<1>3. PICK no \in Nat \ {0} : no = z.seqno
  BY <1>2
<1>4. PICK y : y = [z EXCEPT !.seqno = no + 1]
  OBVIOUS
<1>5. y \in C /\ y.seqno = no + 1 /\ y.connected = z.connected
  BY <1>2, <1>3, <1>4
<1>6. context' = [context EXCEPT ![c] = y]
  BY <1>1, <1>2, <1>3, <1>4 DEF Request
<1>7. requests' = [requests EXCEPT ![c] = Sent(requests[c], c, <<x>>)]
  BY DEF Request
<1>8. x \in Message /\ x.req = req /\ x.id = i /\ x.seqno = no
  <2>1. x = Msg(req, no, i, known)
    BY <1>2, <1>3
  <2>2. req \in Queries \cup {"create", "destroy", "acquire", "release", "event"} /\ no \in Nat
    OBVIOUS
  <2>. HIDE DEF x
  <2>3. \A w : w = Msg(req, no, i, known) => w \in Message /\ w.req = req /\ w.id = i /\ w.seqno = no
    BY <2>2, MsgIs
  <2>4. QED BY <2>1, <2>3
<1>. HIDE DEF x, C
<1>9. requests[c] \in Seq(Message) /\ <<x>> \in Seq(Message)
  BY <1>1, <1>8, OneMessage
<1>10. /\ requests' \in [Clients -> Seq(Message)] /\ requests'[c] = Sent(requests[c], c, <<x>>)
       /\ \A d \in Clients : d # c => requests'[d] = requests[d]
  <2>1. Sent(requests[c], c, <<x>>) \in Seq(Message)
    BY <1>9, ConcatProperties DEF Sent
  <2>2. QED BY <1>1, <1>7, <2>1
<1>11. /\ context' \in [Clients -> C] /\ context'[c] = y
       /\ \A d \in Clients : d # c => context'[d] = context[d]
  BY <1>1, <1>5, <1>6
<1>12. ASSUME link[c] = "up"
       PROVE  \E n \in Nat : AsksAt(c, n, req, i, no)
  <2>. DEFINE u == requests[c]
              v == requests'[c]
  <2>1. v = u \o <<x>>
    BY <1>10, <1>12 DEF Sent
  <2>2. /\ DOMAIN u \subseteq Nat /\ DOMAIN v \subseteq Nat
        /\ Len(u) \in Nat /\ DOMAIN u = 1..Len(u)
        /\ \A k \in DOMAIN u : k \in DOMAIN v /\ v[k] = u[k]
        /\ \A k \in DOMAIN <<x>> : Len(u) + k \in DOMAIN v /\ v[Len(u) + k] = <<x>>[k]
        /\ \A k \in DOMAIN v : k \notin DOMAIN u => k > Len(u) /\ k - Len(u) \in DOMAIN <<x>>
    <3>. HIDE DEF u, v
    <3>1. u \in Seq(Message)
      BY <1>9 DEF u
    <3>2. QED BY <1>9, <2>1, <3>1, AddedPlaces
  <2>3. PICK p \in Nat : p = Len(u)
    BY <2>2
  <2>4. DOMAIN <<x>> = {1} /\ <<x>>[1] = x
    BY <1>8, OneMessage
  <2>. HIDE DEF u, v
  <2>5. p + 1 \in DOMAIN v /\ v[p + 1] = x
    BY <2>2, <2>3, <2>4
  <2>6. \A k \in DOMAIN u : k < p + 1
    BY <2>2, <2>3
  <2>7. \A k \in DOMAIN v : k = p + 1 \/ k \in DOMAIN u
    <3>1. ASSUME NEW k \in DOMAIN v, k \notin DOMAIN u
          PROVE  k = p + 1
      <4>1. k - p = 1 /\ k \in Nat
        BY <2>2, <2>3, <2>4, <3>1
      <4>2. QED BY <4>1
    <3>2. QED BY <3>1
  <2>8. AsksAt(c, p + 1, req, i, no)
    BY <1>8, <2>2, <2>5, <2>6, <2>7 DEF AsksAt, u, v
  <2>9. QED BY <2>8
<1>13. context[c].seqno = no /\ context'[c].seqno = no + 1 /\ context'[c].connected = context[c].connected
  BY <1>2, <1>3, <1>5, <1>11
<1>14. QED BY <1>10, <1>11, <1>12, <1>13 DEF RequestFacts, C

LEMMA AskedEvents ==
    ASSUME NEW c \in Clients, EventInv(c), NEW n \in Nat, NEW req, NEW i, NEW no,
           AsksAt(c, n, req, i, no), replies'[c] = replies[c], rset' = rset,
           \A t \in SetsOf(c) : lib'[t].id # 0 =>
             lib'[t].id = lib[t].id /\ lib'[t].state = lib[t].state
    PROVE  EventInv(c)'
<1>1. \A j : EventsAhead(c, j)' = EventsAhead(c, j)
  BY DEF EventsAhead
<1>2. SetsOf(c)' = SetsOf(c) /\ \A t \in SetsOf(c) : OwnerOf[t] = c
  BY DEF SetsOf
<1>3. \A t \in SetsOf(c) : lib'[t].id # 0 /\ Asked(t, "acquire") => Asked(t, "acquire")'
  BY <1>2 DEF Asked, InFlight, AsksAt
<1>4. QED BY <1>1, <1>2, <1>3 DEF EventInv

LEMMA AskedCreations ==
    ASSUME NEW c \in Clients, CreateInv(c), NEW n \in Nat, NEW req, NEW i, NEW no,
           AsksAt(c, n, req, i, no), req # "create", replies'[c] = replies[c],
           \A k : Pending(c, k)' = Pending(c, k)
    PROVE  CreateInv(c)'
<1>. DEFINE u == requests[c]
            v == requests'[c]
<1>1. \A k \in DOMAIN v : v[k].req = "create" => k \in DOMAIN u /\ v[k] = u[k]
  BY DEF AsksAt
<1>2. QED BY <1>1 DEF CreateInv, IsA

LEMMA AskedSets ==
    ASSUME Types, NEW c \in Clients, SetInv(c), NEW n \in Nat, NEW req, NEW i, NEW no,
           AsksAt(c, n, req, i, no), req # "destroy", replies'[c] = replies[c],
           UNCHANGED <<rset, nextId>>,
           \A t \in SetsOf(c) : lib'[t].id = lib[t].id,
           \A k : k # 0 => Mapped(c, k)' = Mapped(c, k)
    PROVE  SetInv(c)'
<1>. DEFINE u == requests[c]
            v == requests'[c]
<1>1. /\ \A k \in DOMAIN v : v[k].req = "destroy" => k \in DOMAIN u /\ v[k] = u[k]
      /\ \A k \in DOMAIN u : k \in DOMAIN v /\ v[k] = u[k]
  BY DEF AsksAt
<1>2. SetsOf(c)' = SetsOf(c)
  BY DEF SetsOf
<1>3. \A k \in DOMAIN rset : k # 0
  BY DEF Types
<1>4. QED BY <1>1, <1>2, <1>3 DEF SetInv, Made, IsA, Finds

LEMMA AskedReleases ==
    ASSUME NEW c \in Clients, ReleaseInv(c), NEW n \in Nat, NEW req, NEW i, NEW no,
           AsksAt(c, n, req, i, no), rset' = rset,
           \A t \in SetsOf(c) : lib'[t].id # 0 /\ ~wants'[t] =>
             /\ lib'[t].id = lib[t].id
             /\ \/ ~wants[t] /\ ~(req = "acquire" /\ i = lib[t].id)
                \/ req = "release" /\ i = lib[t].id
    PROVE  ReleaseInv(c)'
<1>. DEFINE u == requests[c]
            v == requests'[c]
<1>1. /\ DOMAIN u \subseteq Nat /\ DOMAIN v \subseteq Nat
      /\ \A k \in DOMAIN u : k \in DOMAIN v /\ v[k] = u[k] /\ k < n
      /\ \A k \in DOMAIN v : k = n \/ (k \in DOMAIN u /\ v[k] = u[k])
      /\ n \in DOMAIN v /\ v[n].req = req /\ v[n].id = i
  BY DEF AsksAt
<1>2. SetsOf(c)' = SetsOf(c) /\ \A t \in SetsOf(c) : OwnerOf[t] = c
  BY DEF SetsOf
<1>3. SUFFICES ASSUME NEW t \in SetsOf(c), lib'[t].id # 0, ~wants'[t]
               PROVE  /\ \A k \in DOMAIN v :
                           v[k].req = "acquire" /\ v[k].id = lib[t].id =>
                             \E j \in DOMAIN v : /\ j > k
                                                 /\ v[j].req = "release"
                                                 /\ v[j].id = lib[t].id
                      /\ \/ InFlight(v, "release", lib[t].id)
                         \/ rset[lib[t].id].state = "release"
  <2>1. \A t \in SetsOf(c) : lib'[t].id # 0 /\ ~wants'[t] => lib'[t].id = lib[t].id
    OBVIOUS
  <2>2. QED BY <1>2, <2>1 DEF ReleaseInv, Asked, InFlight
<1>4. lib[t].id # 0
  BY <1>3
<1>5. CASE req = "release" /\ i = lib[t].id
  <2>1. ASSUME NEW k \in DOMAIN v, v[k].req = "acquire"
        PROVE  n > k
    <3>1. k # n
      BY <1>1, <1>5, <2>1
    <3>2. QED BY <1>1, <3>1
  <2>2. QED BY <1>1, <1>5, <2>1 DEF InFlight
<1>6. CASE ~wants[t] /\ ~(req = "acquire" /\ i = lib[t].id)
  <2>1. /\ \A k \in DOMAIN u :
             u[k].req = "acquire" /\ u[k].id = lib[t].id =>
               \E j \in DOMAIN u : /\ j > k
                                   /\ u[j].req = "release"
                                   /\ u[j].id = lib[t].id
        /\ InFlight(u, "release", lib[t].id) \/ rset[lib[t].id].state = "release"
    BY <1>2, <1>4, <1>6 DEF ReleaseInv, Asked
  <2>2. ASSUME NEW k \in DOMAIN v, v[k].req = "acquire", v[k].id = lib[t].id
        PROVE  \E j \in DOMAIN v : j > k /\ v[j].req = "release" /\ v[j].id = lib[t].id
    <3>1. k \in DOMAIN u /\ v[k] = u[k]
      BY <1>1, <1>6, <2>2
    <3>2. PICK j \in DOMAIN u : j > k /\ u[j].req = "release" /\ u[j].id = lib[t].id
      BY <2>1, <2>2, <3>1
    <3>3. QED BY <1>1, <3>2
  <2>3. InFlight(u, "release", lib[t].id) => InFlight(v, "release", lib[t].id)
    BY <1>1 DEF InFlight
  <2>4. QED BY <2>1, <2>2, <2>3
<1>7. QED BY <1>3, <1>5, <1>6

\* An application has its library ask something about set s.
LEMMA RequestFrame ==
    ASSUME IInv, NEW s \in Sets, NEW c \in Clients, c = OwnerOf[s], UNCHANGED AppVars,
           NEW y \in LibSet, lib' = [lib EXCEPT ![s] = y],
           wants' \in [Sets -> BOOLEAN], \A t \in Sets : t # s => wants'[t] = wants[t],
           NEW req, NEW i, RequestFacts(c, req, i),
           LibInv(s)', IdsInv(c)',
           \A n \in Nat : AsksAt(c, n, req, i, context[c].seqno) /\ Together(c) => Together(c)'
    PROVE  IInv'
<1>1. Types /\ (Connected(c) => Together(c)) /\ \A t \in Sets : LibInv(t)
  BY DEF IInv
<1>2. /\ replies' = replies /\ link' = link /\ UNCHANGED serverVars
      /\ served' = served /\ nextId' = nextId
  BY DEF AppVars, serverVars
<1>3. lib \in [Sets -> LibSet]
  BY <1>1 DEF Types, LibSet
<1>4. lib' \in [Sets -> LibSet] /\ \A t \in Sets : t # s => lib'[t] = lib[t]
  BY <1>3
<1>5. lib' \in [Sets -> [refs : Nat, id : Nat, seqno : Nat, state : States,
                         pending : BOOLEAN, edited : BOOLEAN, told : States]]
  BY <1>4 DEF LibSet
<1>6. /\ requests' \in [Clients -> Seq(Message)]
      /\ context' \in [Clients -> [state : {"disconnected", "connected", "gone"},
                                   got : SUBSET Queries, connected : BOOLEAN,
                                   seqno : Nat \ {0}]]
      /\ \A d \in Clients : d # c => requests'[d] = requests[d] /\ context'[d] = context[d]
      /\ context'[c].connected = context[c].connected
      /\ context[c].seqno \in Nat /\ context'[c].seqno \in Nat
      /\ context[c].seqno < context'[c].seqno
      /\ link[c] = "up" => \E n \in Nat : AsksAt(c, n, req, i, context[c].seqno)
  BY DEF RequestFacts
<1>7. ASSUME Connected(c)'
      PROVE  Together(c)'
  <2>1. link[c] = "up" /\ Connected(c)
    BY <1>2, <1>6, <1>7 DEF Connected
  <2>2. QED BY <1>1, <1>6, <2>1
<1>8. ASSUME NEW t \in SetsOf(c)
      PROVE  LibInv(t)'
  <2>1. t \in Sets /\ OwnerOf[t] = c /\ LibInv(t) /\ NoSet' = NoSet
    BY <1>1 DEF SetsOf, NoSet
  <2>2. CASE t # s
    <3>1. lib'[t] = lib[t] /\ wants'[t] = wants[t]
      BY <1>4, <2>1, <2>2
    <3>2. lib[t].seqno < context'[c].seqno
      <4>1. lib[t].seqno < context[c].seqno /\ lib[t].seqno \in Nat
        BY <1>3, <2>1 DEF LibInv, LibSet
      <4>2. QED BY <1>6, <4>1
    <3>3. QED BY <1>2, <2>1, <3>1, <3>2 DEF LibInv
  <2>3. QED BY <2>2
<1>9. /\ replies' \in [Clients -> Seq(Message)] /\ link' \in [Clients -> {"up", "down"}]
      /\ link'[c] \in {link[c], "down"}
      /\ \A d \in Clients : replies'[d] = replies[d] /\ link'[d] = link[d]
  BY <1>1, <1>2 DEF Types
<1>10. \A t \in Sets : OwnerOf[t] # c => lib'[t] = lib[t] /\ wants'[t] = wants[t]
  BY <1>4
<1>11. QED BY <1>2, <1>5, <1>6, <1>7, <1>8, <1>9, <1>10, ClientFrame

\* The last copy of set s goes.
LEMMA LastCopyKeeps ==
    ASSUME IInv, NEW s \in Sets, NEW c \in Clients, c = OwnerOf[s],
           lib[s].refs # 0, lib[s].pending = FALSE, UNCHANGED <<AppVars, wants>>,
           lib' = [lib EXCEPT ![s] = NoSet], DestroyRequest(c, lib[s].id)
    PROVE  IInv'
<1>1. Types /\ IdsInv(c) /\ LibInv(s)
  BY DEF IInv
<1>2. /\ replies' = replies /\ link' = link /\ UNCHANGED serverVars /\ wants' = wants
      /\ rset' = rset /\ nextId' = nextId /\ wants' \in [Sets -> BOOLEAN]
      /\ s \in SetsOf(c) /\ SetsOf(c)' = SetsOf(c) /\ NoSet' = NoSet
  BY <1>1 DEF AppVars, serverVars, Types, SetsOf, NoSet
<1>3. /\ NoSet.refs = 0 /\ NoSet.edited = FALSE /\ NoSet.id = 0 /\ NoSet.seqno = 0
      /\ NoSet.state = "pending" /\ NoSet.pending = FALSE /\ NoSet.told = "pending"
      /\ NoSet \in LibSet
  BY DEF NoSet, LibSet, States
<1>4. lib \in [Sets -> LibSet]
  BY <1>1 DEF Types, LibSet
<1>5. lib' \in [Sets -> LibSet] /\ lib'[s] = NoSet /\ \A t \in Sets : t # s => lib'[t] = lib[t]
  BY <1>3, <1>4
<1>6. CASE context[c].connected = FALSE /\ UNCHANGED <<requests, context>>
  <2>1. /\ context' \in [Clients -> [state : {"disconnected", "connected", "gone"},
                                     got : SUBSET Queries, connected : BOOLEAN,
                                     seqno : Nat \ {0}]]
        /\ context' = context /\ UNCHANGED <<serverVars, requests>>
        /\ replies' \in [Clients -> Seq(Message)]
        /\ link' \in [Clients -> {"up", "down"}]
        /\ context'[c].connected = FALSE
    BY <1>1, <1>2, <1>6 DEF Types
  <2>2. lib' \in [Sets -> [refs : Nat, id : Nat, seqno : Nat, state : States,
                           pending : BOOLEAN, edited : BOOLEAN, told : States]]
    BY <1>5 DEF LibSet
  <2>3. \A t \in SetsOf(c) : (lib'[t] = lib[t] /\ wants'[t] = wants[t]) \/ lib'[t] = NoSet
    BY <1>2, <1>5 DEF SetsOf
  <2>4. \A t \in Sets : OwnerOf[t] # c => lib'[t] = lib[t] /\ wants'[t] = wants[t]
    BY <1>2, <1>5
  <2>5. QED BY <1>2, <2>1, <2>2, <2>3, <2>4, CutOff
<1>7. CASE Request(c, "destroy", lib[s].id, TRUE)
  <2>1. PICK i \in Nat : i = lib[s].id
    BY <1>4 DEF LibSet
  <2>2. RequestFacts(c, "destroy", i)
    <3>1. Request(c, "destroy", i, TRUE)
      BY <1>7, <2>1
    <3>2. QED BY <1>1, <3>1, Requested
  <2>3. LibInv(s)'
    <3>1. nextId \in Nat /\ nextId # 0 /\ context'[c].seqno \in Nat /\ context[c].seqno \in Nat
          /\ context[c].seqno < context'[c].seqno
      BY <1>1, <2>2 DEF Types, RequestFacts
    <3>2. 0 < nextId /\ 0 < context'[c].seqno
      BY <3>1
    <3>3. 0 <= MaxRefs[s]
      BY ProtocolAssumption
    <3>4. QED BY <1>2, <1>3, <1>5, <3>2, <3>3 DEF LibInv
  <2>4. \A t \in SetsOf(c) : /\ t # s => lib'[t] = lib[t]
                             /\ t = s => lib'[t].id = 0 /\ lib'[t].pending = FALSE
    BY <1>3, <1>5 DEF SetsOf
  <2>5. IdsInv(c)'
    <3>1. replies[c] \in Seq(Message)
      BY <1>1 DEF Types
    <3>2. Shifted(replies[c], replies'[c], 0)
      BY <1>2, <3>1, SameShifted
    <3>3. \A t \in SetsOf(c) : /\ lib'[t].id \in {0, lib[t].id}
                               /\ lib'[t].pending => lib[t].pending /\ lib'[t].seqno = lib[t].seqno
      BY <2>4
    <3>4. QED BY <1>1, <1>2, <3>2, <3>3, IdsKept
  <2>6. ASSUME NEW n \in Nat, AsksAt(c, n, "destroy", i, context[c].seqno), Together(c)
        PROVE  Together(c)'
    <3>. DEFINE u == requests[c]
                v == requests'[c]
                r == replies[c]
    <3>1. CreateInv(c) /\ SetInv(c) /\ EventInv(c) /\ ReleaseInv(c)
      BY <2>6 DEF Together
    <3>2. /\ \A k \in DOMAIN u : k \in DOMAIN v /\ v[k] = u[k]
          /\ \A k \in DOMAIN v : k = n \/ (k \in DOMAIN u /\ v[k] = u[k])
          /\ n \in DOMAIN v /\ v[n].req = "destroy" /\ v[n].id = i
      BY <2>6 DEF AsksAt
    <3>3. CreateInv(c)'
      <4>1. \A k : Pending(c, k)' = Pending(c, k)
        BY <1>2, <2>4 DEF Pending
      <4>2. replies'[c] = replies[c] /\ "destroy" # "create"
        BY <1>2
      <4>3. QED BY <2>6, <3>1, <4>1, <4>2, AskedCreations
    <3>4. EventInv(c)'
      <4>1. \A t \in SetsOf(c) : lib'[t].id # 0 =>
              lib'[t].id = lib[t].id /\ lib'[t].state = lib[t].state
        BY <2>4
      <4>2. replies'[c] = replies[c] /\ rset' = rset
        BY <1>2
      <4>3. QED BY <2>6, <3>1, <4>1, <4>2, AskedEvents
    <3>5. ReleaseInv(c)'
      <4>1. \A t \in SetsOf(c) : lib'[t].id # 0 /\ ~wants'[t] =>
              /\ lib'[t].id = lib[t].id
              /\ \/ ~wants[t] /\ ~("destroy" = "acquire" /\ i = lib[t].id)
                 \/ "destroy" = "release" /\ i = lib[t].id
        BY <1>2, <2>4
      <4>2. rset' = rset
        BY <1>2
      <4>3. QED BY <2>6, <3>1, <4>1, <4>2, AskedReleases
    <3>6. SetInv(c)'
      <4>1. /\ \A k \in DOMAIN r : Made(r, k) => Finds(c, r[k].id)
            /\ \A t \in SetsOf(c) : lib[t].id # 0 => Finds(c, lib[t].id)
            /\ \A k \in DOMAIN u : u[k].req = "destroy" /\ u[k].id # 0 =>
                 /\ u[k].id < nextId
                 /\ \A t \in SetsOf(c) : lib[t].id # u[k].id
                 /\ \A j \in DOMAIN r : Made(r, j) => r[j].id # u[k].id
            /\ \A k \in DOMAIN rset : rset[k].client = c =>
                 \/ Mapped(c, k) # {}
                 \/ \E j \in DOMAIN r : Made(r, j) /\ r[j].id = k
                 \/ \E j \in DOMAIN u : u[j].req = "destroy" /\ u[j].id = k
        BY <3>1 DEF SetInv
      <4>2. /\ \A k \in DOMAIN r : Made(r, k) => \A t \in SetsOf(c) : lib[t].id # r[k].id
            /\ \A t, w \in SetsOf(c) : t # w /\ lib[t].id # 0 => lib[t].id # lib[w].id
        BY <1>1 DEF IdsInv
      <4>. HIDE DEF r, u, v
      <4>3. ASSUME NEW k \in DOMAIN v, v[k].req = "destroy", v[k].id # 0
            PROVE  /\ v[k].id < nextId
                   /\ \A t \in SetsOf(c) : lib'[t].id # v[k].id
                   /\ \A j \in DOMAIN r : Made(r, j) => r[j].id # v[k].id
        <5>1. CASE k = n
          <6>1. v[k].id = lib[s].id /\ lib[s].id # 0
            BY <2>1, <3>2, <4>3, <5>1
          <6>2. lib[s].id < nextId
            BY <1>1 DEF LibInv
          <6>3. QED BY <1>2, <2>4, <4>2, <6>1, <6>2
        <5>2. CASE k \in DOMAIN u /\ v[k] = u[k]
          BY <2>4, <4>1, <4>3, <5>2
        <5>3. QED BY <3>2, <5>1, <5>2
      <4>4. ASSUME NEW k \in DOMAIN rset, rset[k].client = c
            PROVE  \/ Mapped(c, k)' # {}
                   \/ \E j \in DOMAIN r : Made(r, j) /\ r[j].id = k
                   \/ \E j \in DOMAIN v : v[j].req = "destroy" /\ v[j].id = k
        <5>1. CASE s \in Mapped(c, k)
          BY <2>1, <3>2, <5>1 DEF Mapped
        <5>2. ASSUME NEW t \in Mapped(c, k), t # s
              PROVE  t \in Mapped(c, k)'
          BY <1>2, <2>4, <5>2 DEF Mapped, Alive
        <5>3. CASE \E j \in DOMAIN u : u[j].req = "destroy" /\ u[j].id = k
          BY <3>2, <5>3
        <5>4. QED BY <4>1, <4>4, <5>1, <5>2, <5>3
      <4>5. \A t \in SetsOf(c) : lib'[t].id # 0 => lib'[t].id = lib[t].id
        BY <2>4
      <4>6. QED BY <1>2, <4>1, <4>3, <4>4, <4>5 DEF SetInv, Made, IsA, Finds, r, v
    <3>7. QED BY <3>3, <3>4, <3>5, <3>6 DEF Together
  <2>7. UNCHANGED AppVars /\ lib' = [lib EXCEPT ![s] = NoSet] /\ \A t \in Sets : t # s => wants'[t] = wants[t]
    BY <1>2
  <2>8. QED BY <1>2, <1>3, <2>2, <2>3, <2>5, <2>6, <2>7, RequestFrame
<1>8. QED
  <2>1. context[c].connected \in BOOLEAN
    BY <1>1 DEF Types
  <2>2. QED BY <1>6, <1>7, <2>1 DEF DestroyRequest

LEMMA DeleteResourceSetKeeps ==
    ASSUME IInv, Habits = {}, NEW s \in Sets, DeleteResourceSet(s)
    PROVE  IInv'
<1>. DEFINE c == OwnerOf[s]
<1>1. c \in Clients
  BY ProtocolAssumption
<1>2. lib[s].refs \in Nat /\ lib[s].pending \in BOOLEAN /\ lib[s].refs <= MaxRefs[s]
  BY DEF IInv, Types, LibInv
<1>3. Alive(s) /\ UNCHANGED <<wants, AppVars>>
  BY DEF DeleteResourceSet
<1>4. CASE /\ lib[s].refs > 1 /\ lib' = [lib EXCEPT ![s].refs = lib[s].refs - 1]
           /\ UNCHANGED <<requests, context>>
  <2>1. PICK n \in Nat \ {0} : n = lib[s].refs - 1
    BY <1>2, <1>4
  <2>2. n <= MaxRefs[s]
    BY <1>2, <2>1, ProtocolAssumption
  <2>3. lib' = [lib EXCEPT ![s].refs = n]
    BY <1>4, <2>1
  <2>4. UNCHANGED <<requests, context, wants, AppVars>>
    BY <1>3, <1>4
  <2>5. QED BY <1>3, <2>2, <2>3, <2>4, CopiesKeep
<1>5. CASE /\ ~lib[s].pending
           /\ lib' = [lib EXCEPT ![s] = NoSet]
           /\ DestroyRequest(c, lib[s].id)
  <2>1. lib[s].refs # 0 /\ lib[s].pending = FALSE
    BY <1>2, <1>3, <1>5 DEF Alive
  <2>2. UNCHANGED <<AppVars, wants>>
    BY <1>3
  <2>. HIDE DEF c
  <2>3. c = OwnerOf[s]
    BY DEF c
  <2>4. QED BY <1>1, <1>5, <2>1, <2>2, <2>3, LastCopyKeeps
<1>6. QED BY <1>4, <1>5 DEF DeleteResourceSet

\* The application has the library send a request for set s, which keeps its
\* identifier.
LEMMA NumberedKeeps ==
    ASSUME IInv, NEW s \in Sets, NEW c \in Clients, c = OwnerOf[s], UNCHANGED AppVars,
           lib[s].id # 0, NEW want \in BOOLEAN, wants' = [wants EXCEPT ![s] = want],
           lib' = Numbered(c, s),
           NEW req \in {"acquire", "release"}, req = "acquire" => want,
           Request(c, req, lib[s].id, TRUE)
    PROVE  IInv'
<1>1. Types /\ IdsInv(c) /\ LibInv(s)
  BY DEF IInv
<1>2. /\ replies' = replies /\ link' = link /\ UNCHANGED serverVars
      /\ rset' = rset /\ nextId' = nextId
      /\ s \in SetsOf(c) /\ SetsOf(c)' = SetsOf(c)
  BY <1>1 DEF AppVars, serverVars, SetsOf
<1>3. lib \in [Sets -> LibSet]
  BY <1>1 DEF Types, LibSet
<1>4. PICK z \in LibSet : z = lib[s]
  BY <1>3
<1>5. PICK no \in Nat \ {0} : no = context[c].seqno
  BY <1>1 DEF Types
<1>6. PICK y : y = [z EXCEPT !.seqno = no]
  OBVIOUS
<1>7. /\ y \in LibSet /\ y.seqno = no /\ y.id = z.id /\ y.pending = z.pending
      /\ y.refs = z.refs /\ y.edited = z.edited /\ y.state = z.state /\ y.told = z.told
  BY <1>4, <1>5, <1>6 DEF LibSet
<1>8. lib' = [lib EXCEPT ![s] = y]
  BY <1>3, <1>4, <1>5, <1>6 DEF Numbered
<1>9. lib'[s] = y /\ \A t \in Sets : t # s => lib'[t] = lib[t]
  BY <1>3, <1>8
<1>10. lib[s].refs # 0 /\ Alive(s) /\ lib[s].pending = FALSE
  BY KnownSet
<1>11. /\ wants' \in [Sets -> BOOLEAN] /\ wants'[s] = want
       /\ \A t \in Sets : t # s => wants'[t] = wants[t]
  BY <1>1 DEF Types
<1>12. PICK i \in Nat : i = lib[s].id
  BY <1>4 DEF LibSet
<1>13. RequestFacts(c, req, i)
  <2>1. Request(c, req, i, TRUE)
    BY <1>12
  <2>2. req \in {"create", "destroy", "acquire", "release"}
    OBVIOUS
  <2>3. QED BY <1>1, <2>1, <2>2, Requested
<1>14. LibInv(s)'
  <2>1. no < context'[c].seqno
    BY <1>5, <1>13 DEF RequestFacts
  <2>2. /\ y.refs <= MaxRefs[s] /\ y.refs # 0 /\ ~y.edited /\ y.id < nextId /\ y.id # 0
        /\ y.pending = FALSE /\ y.seqno # 0 /\ y.seqno = no
    BY <1>1, <1>4, <1>5, <1>7, <1>10 DEF LibInv
  <2>3. QED BY <1>2, <1>9, <2>1, <2>2 DEF LibInv
<1>15. \A t \in SetsOf(c) : /\ t \in Sets /\ t # s => lib'[t] = lib[t] /\ wants'[t] = wants[t]
                            /\ lib'[t].id = lib[t].id /\ lib'[t].pending = lib[t].pending
                            /\ lib'[t].state = lib[t].state /\ lib'[t].refs = lib[t].refs
                            /\ lib[t].pending => lib'[t].seqno = lib[t].seqno
  BY <1>4, <1>7, <1>9, <1>10, <1>11 DEF SetsOf
<1>16. IdsInv(c)'
  <2>1. replies[c] \in Seq(Message)
    BY <1>1 DEF Types
  <2>2. Shifted(replies[c], replies'[c], 0)
    BY <1>2, <2>1, SameShifted
  <2>3. \A t \in SetsOf(c) : /\ lib'[t].id \in {0, lib[t].id}
                             /\ lib'[t].pending => lib[t].pending /\ lib'[t].seqno = lib[t].seqno
    BY <1>15
  <2>4. QED BY <1>1, <1>2, <2>2, <2>3, IdsKept
<1>17. ASSUME NEW n \in Nat, AsksAt(c, n, req, i, context[c].seqno), Together(c)
       PROVE  Together(c)'
  <2>1. CreateInv(c) /\ SetInv(c) /\ EventInv(c) /\ ReleaseInv(c)
    BY <1>17 DEF Together
  <2>2. /\ \A k : Pending(c, k)' = Pending(c, k)
        /\ \A k : k # 0 => Mapped(c, k)' = Mapped(c, k)
    <3>1. ASSUME NEW k
          PROVE  Pending(c, k)' = Pending(c, k)
      BY <1>2, <1>15 DEF Pending
    <3>2. ASSUME NEW k
          PROVE  Mapped(c, k)' = Mapped(c, k)
      BY <1>2, <1>15 DEF Mapped, Alive
    <3>3. QED BY <3>1, <3>2
  <2>3. replies'[c] = replies[c] /\ rset' = rset /\ nextId' = nextId
    BY <1>2
  <2>4. CreateInv(c)'
    <3>1. req # "create"
      OBVIOUS
    <3>2. QED BY <1>17, <2>1, <2>2, <2>3, <3>1, AskedCreations
  <2>5. SetInv(c)'
    <3>1. req # "destroy" /\ \A t \in SetsOf(c) : lib'[t].id = lib[t].id
      BY <1>15
    <3>2. QED BY <1>1, <1>17, <2>1, <2>2, <2>3, <3>1, AskedSets
  <2>6. EventInv(c)'
    <3>1. \A t \in SetsOf(c) : lib'[t].id # 0 =>
            lib'[t].id = lib[t].id /\ lib'[t].state = lib[t].state
      BY <1>15
    <3>2. QED BY <1>17, <2>1, <2>3, <3>1, AskedEvents
  <2>7. ReleaseInv(c)'
    <3>1. ASSUME NEW t \in SetsOf(c), lib'[t].id # 0, ~wants'[t]
          PROVE  /\ lib'[t].id = lib[t].id
                 /\ \/ ~wants[t] /\ ~(req = "acquire" /\ i = lib[t].id)
                    \/ req = "release" /\ i = lib[t].id
      <4>1. lib[t].id = lib'[t].id /\ lib[t].id # 0
        BY <1>15, <3>1
      <4>2. CASE t = s
        BY <1>11, <1>12, <3>1, <4>1, <4>2
      <4>3. CASE t # s
        <5>1. wants'[t] = wants[t]
          BY <1>15, <4>3
        <5>2. lib[t].id # i
          BY <1>1, <1>2, <1>12, <4>1, <4>3 DEF IdsInv
        <5>3. QED BY <3>1, <4>1, <5>1, <5>2
      <4>4. QED BY <4>2, <4>3
    <3>2. QED BY <1>17, <2>1, <2>3, <3>1, AskedReleases
  <2>8. QED BY <2>4, <2>5, <2>6, <2>7 DEF Together
<1>18. QED BY <1>7, <1>8, <1>11, <1>13, <1>14, <1>16, <1>17, RequestFrame

LEMMA ReleaseResourceSetKeeps ==
    ASSUME IInv, Habits = {}, NEW s \in Sets, ReleaseResourceSet(s)
    PROVE  IInv'
<1>. DEFINE c == OwnerOf[s]
<1>1. c \in Clients
  BY ProtocolAssumption
<1>2. /\ lib[s].state = "acquired" /\ lib' = Numbered(c, s)
      /\ Request(c, "release", lib[s].id, TRUE)
      /\ wants' = [wants EXCEPT ![s] = FALSE] /\ UNCHANGED AppVars
  BY DEF ReleaseResourceSet
<1>3. lib[s].id # 0
  BY <1>2 DEF IInv, LibInv
<1>. HIDE DEF c
<1>4. c = OwnerOf[s]
  BY DEF c
<1>5. \E req \in {"acquire", "release"}, want \in BOOLEAN :
        /\ req = "release" /\ want = FALSE
  OBVIOUS
<1>6. PICK req \in {"acquire", "release"}, want \in BOOLEAN : req = "release" /\ want = FALSE
  BY <1>5
<1>7. /\ wants' = [wants EXCEPT ![s] = want] /\ (req = "acquire" => want)
      /\ Request(c, req, lib[s].id, TRUE)
  BY <1>2, <1>6
<1>8. QED BY <1>1, <1>2, <1>3, <1>4, <1>7, NumberedKeeps

\* The first acquisition of set s has it created.
LEMMA CreationKeeps ==
    ASSUME IInv, NEW s \in Sets, NEW c \in Clients, c = OwnerOf[s], UNCHANGED AppVars,
           lib[s].id = 0, lib[s].pending = FALSE, Alive(s), wants' = [wants EXCEPT ![s] = TRUE],
           lib' = [Numbered(c, s) EXCEPT ![s].pending = TRUE],
           NEW known \in BOOLEAN, Request(c, "create", 0, known)
    PROVE  IInv'
<1>1. Types /\ IdsInv(c) /\ \A t \in Sets : LibInv(t)
  BY DEF IInv
<1>2. /\ replies' = replies /\ link' = link /\ UNCHANGED serverVars
      /\ rset' = rset /\ nextId' = nextId
      /\ s \in SetsOf(c) /\ SetsOf(c)' = SetsOf(c)
  BY <1>1 DEF AppVars, serverVars, SetsOf
<1>3. lib \in [Sets -> LibSet]
  BY <1>1 DEF Types, LibSet
<1>4. PICK z \in LibSet : z = lib[s]
  BY <1>3
<1>5. PICK no \in Nat \ {0} : no = context[c].seqno
  BY <1>1 DEF Types
<1>6. PICK y : y = [z EXCEPT !.seqno = no, !.pending = TRUE]
  OBVIOUS
<1>7. /\ y \in LibSet /\ y.seqno = no /\ y.id = z.id /\ y.pending = TRUE
      /\ y.refs = z.refs /\ y.edited = z.edited /\ y.state = z.state /\ y.told = z.told
  BY <1>4, <1>5, <1>6 DEF LibSet
<1>8. lib' = [lib EXCEPT ![s] = y]
  BY <1>3, <1>4, <1>5, <1>6 DEF Numbered
<1>9. lib'[s] = y /\ \A t \in Sets : t # s => lib'[t] = lib[t]
  BY <1>3, <1>8
<1>10. z.refs # 0 /\ z.refs > 0 /\ z.id = 0 /\ z.pending = FALSE
  BY <1>4 DEF Alive, LibSet
<1>11. /\ wants' \in [Sets -> BOOLEAN] /\ wants'[s] = TRUE
       /\ \A t \in Sets : t # s => wants'[t] = wants[t]
  BY <1>1 DEF Types
<1>12. RequestFacts(c, "create", 0)
  <2>1. "create" \in {"create", "destroy", "acquire", "release"} /\ 0 \in Nat
    OBVIOUS
  <2>2. QED BY <1>1, <2>1, Requested
<1>13. LibInv(s)'
  <2>1. no < context'[c].seqno
    BY <1>5, <1>12 DEF RequestFacts
  <2>2. /\ y.refs <= MaxRefs[s] /\ y.refs # 0 /\ ~y.edited /\ y.id < nextId /\ y.id = 0
        /\ y.state = "pending" /\ y.seqno # 0 /\ y.seqno = no
    BY <1>1, <1>4, <1>5, <1>7, <1>10 DEF LibInv
  <2>3. QED BY <1>2, <1>9, <1>11, <2>1, <2>2 DEF LibInv
<1>14. \A t \in SetsOf(c) : /\ t \in Sets
                            /\ t # s => lib'[t] = lib[t] /\ wants'[t] = wants[t]
                            /\ lib'[t].id = lib[t].id
                            /\ lib'[t].state = lib[t].state /\ lib'[t].refs = lib[t].refs
  BY <1>4, <1>7, <1>9, <1>11 DEF SetsOf
<1>15. \A t \in SetsOf(c) : lib[t].seqno # no
  <2>1. ASSUME NEW t \in SetsOf(c)
        PROVE  lib[t].seqno # no
    <3>1. t \in Sets /\ OwnerOf[t] = c
      BY DEF SetsOf
    <3>2. lib[t].seqno < no /\ lib[t].seqno \in Nat
      BY <1>1, <1>3, <1>5, <3>1 DEF LibInv, LibSet
    <3>3. QED BY <3>2
  <2>2. QED BY <2>1
<1>. DEFINE P(k) == {t \in SetsOf(c) : lib'[t].pending /\ lib'[t].seqno = k}
<1>16. /\ s \in P(no)
       /\ \A k : k # no => P(k) = Pending(c, k)
       /\ Pending(c, no) = {}
  <2>1. s \in P(no) /\ Pending(c, no) = {}
    BY <1>2, <1>7, <1>9, <1>15 DEF Pending
  <2>2. ASSUME NEW k, k # no
        PROVE  P(k) = Pending(c, k)
    <3>1. ASSUME NEW t \in SetsOf(c)
          PROVE  (lib'[t].pending /\ lib'[t].seqno = k) <=> (lib[t].pending /\ lib[t].seqno = k)
      <4>1. CASE t = s
        BY <1>4, <1>7, <1>9, <1>10, <2>2, <4>1
      <4>2. CASE t # s
        BY <1>14, <4>2
      <4>3. QED BY <4>1, <4>2
    <3>2. QED BY <3>1 DEF Pending
  <2>3. QED BY <2>1, <2>2
<1>17. IdsInv(c)'
  <2>. DEFINE r == replies[c]
  <2>1. /\ \A k \in DOMAIN r :
             /\ r[k].req = "event" => r[k].id \in 1..(nextId - 1)
             /\ r[k].req \in {"create", "acquire", "release"} /\ r[k].ok
                  => r[k].id \in 1..(nextId - 1)
        /\ \A k \in DOMAIN r : Made(r, k) =>
             /\ \A t \in SetsOf(c) : lib[t].id # r[k].id
             /\ \A j \in DOMAIN r : Made(r, j) /\ r[j].id = r[k].id => j = k
        /\ \A t, w \in SetsOf(c) : t # w /\ lib[t].id # 0 => lib[t].id # lib[w].id
        /\ \A t, w \in SetsOf(c) : t # w /\ lib[t].pending /\ lib[w].pending
                                     => lib[t].seqno # lib[w].seqno
    BY <1>1 DEF IdsInv
  <2>2. replies'[c] = r
    BY <1>2
  <2>. HIDE DEF r
  <2>3. ASSUME NEW t \in SetsOf(c), NEW w \in SetsOf(c), t # w, lib'[t].pending, lib'[w].pending
        PROVE  lib'[t].seqno # lib'[w].seqno
    <3>1. CASE t = s
      <4>1. lib'[t].seqno = no /\ lib'[w] = lib[w]
        BY <1>7, <1>9, <1>14, <2>3, <3>1
      <4>2. QED BY <1>15, <4>1
    <3>2. CASE w = s
      <4>1. lib'[w].seqno = no /\ lib'[t] = lib[t]
        BY <1>7, <1>9, <1>14, <2>3, <3>2
      <4>2. QED BY <1>15, <4>1
    <3>3. CASE t # s /\ w # s
      <4>1. lib'[w] = lib[w] /\ lib'[t] = lib[t]
        BY <1>14, <3>3
      <4>2. QED BY <2>1, <2>3, <4>1
    <3>4. QED BY <3>1, <3>2, <3>3
  <2>4. \A t \in SetsOf(c) : lib'[t].id = lib[t].id
    BY <1>14
  <2>5. /\ \A k \in DOMAIN r : Made(r, k) => \A t \in SetsOf(c) : lib'[t].id # r[k].id
        /\ \A t, w \in SetsOf(c) : t # w /\ lib'[t].id # 0 => lib'[t].id # lib'[w].id
    BY <2>1, <2>4
  <2>6. QED BY <1>2, <2>1, <2>2, <2>3, <2>5 DEF IdsInv
<1>18. ASSUME NEW n \in Nat, AsksAt(c, n, "create", 0, context[c].seqno), Together(c)
       PROVE  Together(c)'
  <2>. DEFINE u == requests[c]
              v == requests'[c]
              r == replies[c]
  <2>1. CreateInv(c) /\ SetInv(c) /\ EventInv(c) /\ ReleaseInv(c)
    BY <1>18 DEF Together
  <2>2. replies'[c] = replies[c] /\ rset' = rset /\ nextId' = nextId
    BY <1>2
  <2>3. CreateInv(c)'
    <3>1. /\ \A k \in DOMAIN u : u[k].req = "create" =>
               /\ Pending(c, u[k].seqno) # {}
               /\ \A j \in DOMAIN u : IsA(u, j, "create") /\ u[j].seqno = u[k].seqno => j = k
               /\ \A j \in DOMAIN r : IsA(r, j, "create") => r[j].seqno # u[k].seqno
          /\ \A k \in DOMAIN r : r[k].req = "create" =>
               /\ Pending(c, r[k].seqno) # {}
               /\ \A j \in DOMAIN r : IsA(r, j, "create") /\ r[j].seqno = r[k].seqno => j = k
      BY <2>1 DEF CreateInv
    <3>2. /\ \A k \in DOMAIN v : k = n \/ (k \in DOMAIN u /\ v[k] = u[k])
          /\ n \in DOMAIN v /\ v[n].req = "create" /\ v[n].seqno = no
      BY <1>5, <1>18 DEF AsksAt
    <3>. HIDE DEF u, v, r
    <3>3. /\ \A k \in DOMAIN u : u[k].req = "create" => u[k].seqno # no
          /\ \A k \in DOMAIN r : r[k].req = "create" => r[k].seqno # no
      BY <1>16, <3>1
    <3>4. \A k \in DOMAIN r : r[k].req = "create" => P(r[k].seqno) # {}
      BY <1>16, <3>1, <3>3
    <3>5. ASSUME NEW k \in DOMAIN v, v[k].req = "create"
          PROVE  /\ P(v[k].seqno) # {}
                 /\ \A j \in DOMAIN v : IsA(v, j, "create") /\ v[j].seqno = v[k].seqno => j = k
                 /\ \A j \in DOMAIN r : IsA(r, j, "create") => r[j].seqno # v[k].seqno
      <4>1. CASE k = n
        <5>1. ASSUME NEW j \in DOMAIN v, IsA(v, j, "create"), v[j].seqno = no
              PROVE  j = n
          BY <3>2, <3>3, <5>1 DEF IsA
        <5>2. P(v[k].seqno) # {} /\ v[k].seqno = no
          BY <1>16, <3>2, <4>1
        <5>3. \A j \in DOMAIN r : IsA(r, j, "create") => r[j].seqno # no
          BY <3>3 DEF IsA
        <5>4. QED BY <4>1, <5>1, <5>2, <5>3
      <4>2. CASE k # n
        <5>1. k \in DOMAIN u /\ v[k] = u[k] /\ u[k].seqno # no
          BY <3>2, <3>3, <3>5, <4>2
        <5>2. ASSUME NEW j \in DOMAIN v, IsA(v, j, "create"), v[j].seqno = v[k].seqno
              PROVE  j = k
          <6>1. j # n
            BY <3>2, <5>1, <5>2
          <6>2. j \in DOMAIN u /\ v[j] = u[j]
            BY <3>2, <6>1
          <6>3. QED BY <3>1, <3>5, <5>1, <5>2, <6>2 DEF IsA
        <5>3. P(u[k].seqno) = Pending(c, u[k].seqno)
          BY <1>16, <5>1
        <5>4. QED BY <3>1, <3>5, <5>1, <5>2, <5>3
      <4>3. QED BY <4>1, <4>2
    <3>6. replies'[c] = r
      BY <2>2 DEF r
    <3>7. QED BY <1>2, <3>1, <3>4, <3>5, <3>6 DEF CreateInv, Pending, v
  <2>4. SetInv(c)'
    <3>1. "create" # "destroy" /\ \A t \in SetsOf(c) : lib'[t].id = lib[t].id
      BY <1>14
    <3>2. \A k : k # 0 => Mapped(c, k)' = Mapped(c, k)
      BY <1>2, <1>14 DEF Mapped, Alive
    <3>3. QED BY <1>1, <1>18, <2>1, <2>2, <3>1, <3>2, AskedSets
  <2>5. EventInv(c)'
    <3>1. \A t \in SetsOf(c) : lib'[t].id # 0 =>
            lib'[t].id = lib[t].id /\ lib'[t].state = lib[t].state
      BY <1>14
    <3>2. QED BY <1>18, <2>1, <2>2, <3>1, AskedEvents
  <2>6. ReleaseInv(c)'
    <3>1. \A t \in SetsOf(c) : lib'[t].id # 0 /\ ~wants'[t] =>
            /\ lib'[t].id = lib[t].id
            /\ \/ ~wants[t] /\ ~("create" = "acquire" /\ 0 = lib[t].id)
               \/ "create" = "release" /\ 0 = lib[t].id
      BY <1>11, <1>14
    <3>2. QED BY <1>18, <2>1, <2>2, <3>1, AskedReleases
  <2>7. QED BY <2>3, <2>4, <2>5, <2>6 DEF Together
<1>19. QED BY <1>7, <1>8, <1>11, <1>12, <1>13, <1>17, <1>18, RequestFrame

LEMMA AcquireResourceSetKeeps ==
    ASSUME IInv, Habits = {}, NEW s \in Sets, AcquireResourceSet(s)
    PROVE  IInv'
<1>. DEFINE c == OwnerOf[s]
<1>1. c \in Clients
  BY ProtocolAssumption
<1>2. Types
  BY DEF IInv
<1>3. lib \in [Sets -> LibSet]
  BY <1>2 DEF Types, LibSet
<1>4. PICK z \in LibSet : z = lib[s]
  BY <1>3
<1>5. /\ Alive(s) /\ wants' = [wants EXCEPT ![s] = TRUE] /\ UNCHANGED AppVars
  BY DEF AcquireResourceSet
<1>6. \/ /\ z.id # 0
         /\ lib' = [Numbered(c, s) EXCEPT ![s].edited = z.edited]
         /\ Request(c, "acquire", lib[s].id, TRUE)
      \/ /\ z.id = 0 /\ ~z.pending
         /\ lib' = [Numbered(c, s) EXCEPT ![s].pending = TRUE]
         /\ Request(c, "create", 0, s \notin Refused)
  BY <1>4 DEF AcquireResourceSet
<1>. HIDE DEF c
<1>7. c = OwnerOf[s]
  BY DEF c
<1>8. CASE /\ z.id # 0
           /\ lib' = [Numbered(c, s) EXCEPT ![s].edited = z.edited]
           /\ Request(c, "acquire", lib[s].id, TRUE)
  <2>1. lib' = Numbered(c, s)
    <3>1. PICK no \in Nat : no = context[c].seqno
      BY <1>1, <1>2 DEF Types
    <3>2. PICK y : y = [z EXCEPT !.seqno = no]
      OBVIOUS
    <3>3. y = [y EXCEPT !.edited = z.edited]
      BY <3>2 DEF LibSet
    <3>4. Numbered(c, s) = [lib EXCEPT ![s] = y]
      BY <1>3, <1>4, <3>1, <3>2 DEF Numbered
    <3>5. PICK f : f = Numbered(c, s)
      OBVIOUS
    <3>6. f \in [Sets -> {f[t] : t \in Sets}] /\ f[s] = y
      BY <1>3, <3>4, <3>5
    <3>7. [f EXCEPT ![s].edited = z.edited] = [f EXCEPT ![s] = [y EXCEPT !.edited = z.edited]]
      BY <3>6
    <3>8. [f EXCEPT ![s] = y] = f
      BY <3>6
    <3>9. QED BY <1>8, <3>3, <3>5, <3>7, <3>8
  <2>2. PICK req \in {"acquire", "release"}, want \in BOOLEAN : req = "acquire" /\ want = TRUE
    OBVIOUS
  <2>3. lib[s].id # 0
    BY <1>4, <1>8
  <2>4. /\ wants' = [wants EXCEPT ![s] = want] /\ (req = "acquire" => want)
        /\ Request(c, req, lib[s].id, TRUE)
    BY <1>5, <1>8, <2>2
  <2>5. QED BY <1>1, <1>5, <1>7, <2>1, <2>3, <2>4, NumberedKeeps
<1>9. CASE /\ z.id = 0 /\ ~z.pending
           /\ lib' = [Numbered(c, s) EXCEPT ![s].pending = TRUE]
           /\ Request(c, "create", 0, s \notin Refused)
  <2>1. lib[s].id = 0 /\ lib[s].pending = FALSE
    BY <1>4, <1>9 DEF LibSet
  <2>2. (s \notin Refused) \in BOOLEAN
    OBVIOUS
  <2>3. PICK known \in BOOLEAN : known = (s \notin Refused)
    BY <2>2
  <2>4. Request(c, "create", 0, known)
    BY <1>9, <2>3
  <2>5. QED BY <1>1, <1>5, <1>7, <1>9, <2>1, <2>4, CreationKeeps
<1>10. QED BY <1>6, <1>8, <1>9

-----------------------------------------------------------------------------
(* The reply to a creation *)

\* What the client learns of set s from the reply at the head of its queue;
\* requests other than creations may be added.
Learns(c, s) ==
    LET m == Head(replies[c])
    IN /\ Popped(c) /\ m.req = "create" /\ UNCHANGED <<rset, nextId, wants>>
       /\ s \in Pending(c, m.seqno)
       /\ lib'[s].pending = FALSE
       /\ \A t \in SetsOf(c) : t # s => lib'[t] = lib[t]
       /\ \A k \in DOMAIN requests[c] : k \in DOMAIN requests'[c] /\ requests'[c][k] = requests[c][k]
       /\ \A k \in DOMAIN requests'[c] :
            \/ k \in DOMAIN requests[c] /\ requests'[c][k] = requests[c][k]
            \/ requests'[c][k].req = "acquire"

LEMMA LearnsCreations ==
    ASSUME Types, NEW c \in Clients, IdsInv(c), CreateInv(c), NEW s \in Sets, Learns(c, s)
    PROVE  CreateInv(c)'
<1>. DEFINE u == requests[c]
            v == requests'[c]
            q == replies[c]
            r == replies'[c]
            no == Head(replies[c]).seqno
            P(k) == {t \in SetsOf(c) : lib'[t].pending /\ lib'[t].seqno = k}
<1>1. Popped(c) /\ Head(q).req = "create" /\ s \in Pending(c, no)
  BY DEF Learns
<1>2. /\ Head(q) = q[1] /\ 1 \in DOMAIN q /\ DOMAIN q \subseteq Nat /\ DOMAIN r \subseteq Nat
      /\ \A k \in DOMAIN r : k + 1 \in DOMAIN q /\ k + 1 # 1 /\ r[k] = q[k + 1]
  BY <1>1, PoppedPlaces
<1>3. /\ \A k \in DOMAIN u : u[k].req = "create" =>
           /\ Pending(c, u[k].seqno) # {}
           /\ \A j \in DOMAIN u : IsA(u, j, "create") /\ u[j].seqno = u[k].seqno => j = k
           /\ \A j \in DOMAIN q : IsA(q, j, "create") => q[j].seqno # u[k].seqno
      /\ \A k \in DOMAIN q : q[k].req = "create" =>
           /\ Pending(c, q[k].seqno) # {}
           /\ \A j \in DOMAIN q : IsA(q, j, "create") /\ q[j].seqno = q[k].seqno => j = k
  BY DEF CreateInv
<1>4. \A k \in DOMAIN v : v[k].req = "create" => k \in DOMAIN u /\ v[k] = u[k]
  BY DEF Learns
<1>5. SetsOf(c)' = SetsOf(c) /\ \A k : Pending(c, k)' = P(k)
  BY DEF SetsOf, Pending
<1>6. ASSUME NEW k, k # no, Pending(c, k) # {}
      PROVE  P(k) # {}
  <2>1. PICK t \in SetsOf(c) : lib[t].pending /\ lib[t].seqno = k
    BY <1>6 DEF Pending
  <2>2. t # s
    BY <1>1, <1>6, <2>1 DEF Pending
  <2>3. lib'[t] = lib[t]
    BY <2>2 DEF Learns
  <2>4. QED BY <2>1, <2>3
<1>. HIDE DEF u, v, q, r
<1>7. q[1].seqno = no /\ q[1].req = "create"
  BY <1>1, <1>2 DEF q
<1>. HIDE DEF no, P
<1>8. ASSUME NEW k \in DOMAIN v, v[k].req = "create"
      PROVE  /\ P(v[k].seqno) # {}
             /\ \A j \in DOMAIN v : IsA(v, j, "create") /\ v[j].seqno = v[k].seqno => j = k
             /\ \A j \in DOMAIN r : IsA(r, j, "create") => r[j].seqno # v[k].seqno
  <2>1. k \in DOMAIN u /\ v[k] = u[k] /\ u[k].req = "create"
    BY <1>4, <1>8
  <2>2. u[k].seqno # no
    BY <1>2, <1>3, <1>7, <2>1 DEF IsA
  <2>3. \A j \in DOMAIN v : IsA(v, j, "create") /\ v[j].seqno = v[k].seqno => j = k
    BY <1>3, <1>4, <2>1 DEF IsA
  <2>4. \A j \in DOMAIN r : IsA(r, j, "create") => r[j].seqno # v[k].seqno
    BY <1>2, <1>3, <2>1 DEF IsA
  <2>5. QED BY <1>3, <1>6, <2>1, <2>2, <2>3, <2>4
<1>9. ASSUME NEW k \in DOMAIN r, r[k].req = "create"
      PROVE  /\ P(r[k].seqno) # {}
             /\ \A j \in DOMAIN r : IsA(r, j, "create") /\ r[j].seqno = r[k].seqno => j = k
  <2>1. k + 1 \in DOMAIN q /\ k + 1 # 1 /\ r[k] = q[k + 1] /\ k \in Nat
    BY <1>2
  <2>2. q[k + 1].seqno # no
    BY <1>2, <1>3, <1>7, <1>9, <2>1 DEF IsA
  <2>3. ASSUME NEW j \in DOMAIN r, IsA(r, j, "create"), r[j].seqno = r[k].seqno
        PROVE  j = k
    <3>1. j + 1 \in DOMAIN q /\ r[j] = q[j + 1] /\ j \in Nat
      BY <1>2
    <3>2. j + 1 = k + 1
      BY <1>3, <1>9, <2>1, <2>3, <3>1 DEF IsA
    <3>3. QED BY <2>1, <3>1, <3>2
  <2>4. QED BY <1>3, <1>6, <1>9, <2>1, <2>2, <2>3
<1>10. QED BY <1>5, <1>8, <1>9 DEF CreateInv, Pending, P, v, r

\* The last event about a set stays what it is when the first reply is none.
LEMMA EventsShifted ==
    ASSUME Types, NEW c \in Clients, Popped(c), Head(replies[c]).req # "event",
           EventInv(c), rset' = rset
    PROVE  /\ \A i \in DOMAIN rset, k \in DOMAIN replies'[c] :
                (/\ rset[i].client = c
                 /\ k \in EventsAhead(c, i)'
                 /\ \A j \in EventsAhead(c, i)' : j <= k)
                  => /\ replies'[c][k].grant = rset[i].grant
                     /\ replies'[c][k].advice = rset[i].advice
           /\ \A i : EventsAhead(c, i)' = {} => EventsAhead(c, i) = {}
<1>1. \A i : /\ \A k \in EventsAhead(c, i)' : k \in Nat /\ k + 1 \in EventsAhead(c, i)
             /\ \A k \in EventsAhead(c, i) : k \in Nat /\ k - 1 \in EventsAhead(c, i)'
  BY PoppedAhead
<1>2. \A k \in DOMAIN replies'[c] : k + 1 \in DOMAIN replies[c] /\ replies'[c][k] = replies[c][k + 1]
  BY PoppedPlaces
<1>3. ASSUME NEW i \in DOMAIN rset, NEW k \in DOMAIN replies'[c], rset[i].client = c,
             k \in EventsAhead(c, i)', \A j \in EventsAhead(c, i)' : j <= k
      PROVE  replies'[c][k].grant = rset[i].grant /\ replies'[c][k].advice = rset[i].advice
  <2>1. k \in Nat /\ k + 1 \in EventsAhead(c, i) /\ k + 1 \in DOMAIN replies[c]
    BY <1>1, <1>2, <1>3
  <2>2. ASSUME NEW j \in EventsAhead(c, i)
        PROVE  j <= k + 1
    <3>1. j \in Nat /\ j - 1 <= k
      BY <1>1, <1>3
    <3>2. QED BY <2>1, <3>1
  <2>3. QED BY <1>2, <1>3, <2>1, <2>2 DEF EventInv
<1>4. QED BY <1>1, <1>3

\* What a successful reply does to the identifiers.
LEMMA LearnsIds ==
    ASSUME Types, NEW c \in Clients, IdsInv(c), NEW s \in Sets, Learns(c, s),
           Head(replies[c]).ok, lib'[s].id = Head(replies[c]).id
    PROVE  IdsInv(c)'
<1>. DEFINE q == replies[c]
            r == replies'[c]
            i == Head(replies[c]).id
<1>1. /\ Popped(c) /\ Head(q).req = "create" /\ nextId' = nextId /\ lib'[s].pending = FALSE
      /\ \A t \in SetsOf(c) : t # s => lib'[t] = lib[t]
  BY DEF Learns
<1>2. /\ Head(q) = q[1] /\ 1 \in DOMAIN q /\ DOMAIN q \subseteq Nat /\ DOMAIN r \subseteq Nat
      /\ \A k \in DOMAIN r : k + 1 \in DOMAIN q /\ k + 1 # 1 /\ r[k] = q[k + 1]
  BY <1>1, PoppedPlaces
<1>3. /\ \A k \in DOMAIN q :
           /\ q[k].req = "event" => q[k].id \in 1..(nextId - 1)
           /\ q[k].req \in {"create", "acquire", "release"} /\ q[k].ok => q[k].id \in 1..(nextId - 1)
      /\ \A k \in DOMAIN q : Made(q, k) =>
           /\ \A t \in SetsOf(c) : lib[t].id # q[k].id
           /\ \A j \in DOMAIN q : Made(q, j) /\ q[j].id = q[k].id => j = k
      /\ \A t, w \in SetsOf(c) : t # w /\ lib[t].id # 0 => lib[t].id # lib[w].id
      /\ \A t, w \in SetsOf(c) : t # w /\ lib[t].pending /\ lib[w].pending
                                   => lib[t].seqno # lib[w].seqno
  BY DEF IdsInv
<1>4. SetsOf(c)' = SetsOf(c)
  BY DEF SetsOf
<1>5. Made(q, 1) /\ q[1].id = i
  BY <1>1, <1>2 DEF Made, IsA
<1>6. lib'[s].id = i
  OBVIOUS
<1>. HIDE DEF q, r, i
<1>7. ASSUME NEW k \in DOMAIN r, Made(r, k)
      PROVE  /\ \A t \in SetsOf(c) : lib'[t].id # r[k].id
             /\ \A j \in DOMAIN r : Made(r, j) /\ r[j].id = r[k].id => j = k
  <2>1. k + 1 \in DOMAIN q /\ k + 1 # 1 /\ r[k] = q[k + 1] /\ Made(q, k + 1) /\ k \in Nat
    BY <1>2, <1>7 DEF Made, IsA
  <2>2. q[k + 1].id # i
    BY <1>2, <1>3, <1>5, <2>1
  <2>3. \A t \in SetsOf(c) : lib'[t].id # r[k].id
    BY <1>1, <1>3, <1>6, <2>1, <2>2
  <2>4. ASSUME NEW j \in DOMAIN r, Made(r, j), r[j].id = r[k].id
        PROVE  j = k
    <3>1. j + 1 \in DOMAIN q /\ r[j] = q[j + 1] /\ Made(q, j + 1) /\ j \in Nat
      BY <1>2, <2>4 DEF Made, IsA
    <3>2. j + 1 = k + 1
      BY <1>3, <2>1, <2>4, <3>1
    <3>3. QED BY <2>1, <3>1, <3>2
  <2>5. QED BY <2>3, <2>4
<1>8. \A t \in SetsOf(c) : lib[t].id # i
  BY <1>2, <1>3, <1>5
<1>9. ASSUME NEW t \in SetsOf(c), NEW w \in SetsOf(c), t # w, lib'[t].id # 0
      PROVE  lib'[t].id # lib'[w].id
  BY <1>1, <1>3, <1>6, <1>8, <1>9
<1>10. ASSUME NEW t \in SetsOf(c), NEW w \in SetsOf(c), t # w, lib'[t].pending, lib'[w].pending
       PROVE  lib'[t].seqno # lib'[w].seqno
  BY <1>1, <1>3, <1>10
<1>11. \A k \in DOMAIN r :
         /\ r[k].req = "event" => r[k].id \in 1..(nextId - 1)
         /\ r[k].req \in {"create", "acquire", "release"} /\ r[k].ok => r[k].id \in 1..(nextId - 1)
  BY <1>2, <1>3
<1>12. QED BY <1>1, <1>4, <1>7, <1>9, <1>10, <1>11 DEF IdsInv, r

\* What a successful reply does to the sets.
LEMMA LearnsSets ==
    ASSUME Types, NEW c \in Clients, IdsInv(c), SetInv(c), NEW s \in Sets, Learns(c, s),
           Head(replies[c]).ok, lib'[s].id = Head(replies[c]).id, lib'[s].refs > 0, lib[s].id = 0
    PROVE  SetInv(c)'
<1>. DEFINE u == requests[c]
            v == requests'[c]
            q == replies[c]
            r == replies'[c]
            i == Head(replies[c]).id
<1>1. /\ Popped(c) /\ Head(q).req = "create" /\ rset' = rset /\ nextId' = nextId
      /\ \A t \in SetsOf(c) : t # s => lib'[t] = lib[t]
      /\ s \in SetsOf(c)
  BY DEF Learns, Pending
<1>2. /\ Head(q) = q[1] /\ 1 \in DOMAIN q
      /\ \A k \in DOMAIN r : k + 1 \in DOMAIN q /\ r[k] = q[k + 1]
      /\ \A k \in DOMAIN q : k # 1 => k - 1 \in DOMAIN r /\ r[k - 1] = q[k]
  BY <1>1, PoppedPlaces
<1>3. /\ \A k \in DOMAIN v : v[k].req = "destroy" => k \in DOMAIN u /\ v[k] = u[k]
      /\ \A k \in DOMAIN u : k \in DOMAIN v /\ v[k] = u[k]
  BY DEF Learns
<1>4. /\ \A k \in DOMAIN q : Made(q, k) => Finds(c, q[k].id)
      /\ \A t \in SetsOf(c) : lib[t].id # 0 => Finds(c, lib[t].id)
      /\ \A k \in DOMAIN u : u[k].req = "destroy" /\ u[k].id # 0 =>
           /\ u[k].id < nextId
           /\ \A t \in SetsOf(c) : lib[t].id # u[k].id
           /\ \A j \in DOMAIN q : Made(q, j) => q[j].id # u[k].id
      /\ \A k \in DOMAIN rset : rset[k].client = c =>
           \/ Mapped(c, k) # {}
           \/ \E j \in DOMAIN q : Made(q, j) /\ q[j].id = k
           \/ \E j \in DOMAIN u : u[j].req = "destroy" /\ u[j].id = k
  BY DEF SetInv
<1>5. SetsOf(c)' = SetsOf(c) /\ lib'[s].id = i /\ rset' = rset
  BY <1>1 DEF SetsOf
<1>. DEFINE M(k) == {t \in SetsOf(c) : lib'[t].refs > 0 /\ lib'[t].id = k}
<1>6. \A k : Mapped(c, k)' = M(k)
  BY <1>5 DEF Mapped, Alive
<1>7. s \in M(i)
  BY <1>1
<1>8. Made(q, 1) /\ q[1].id = i
  BY <1>1, <1>2 DEF Made, IsA
<1>9. \A t \in SetsOf(c) : lib[t].id # i
  BY <1>2, <1>8 DEF IdsInv
<1>10. ASSUME NEW k, k # 0, Mapped(c, k) # {}
       PROVE  M(k) # {} \/ k = lib[s].id
  <2>1. PICK t \in SetsOf(c) : lib[t].refs > 0 /\ lib[t].id = k
    BY <1>10 DEF Mapped, Alive
  <2>2. CASE t = s
    BY <2>1, <2>2
  <2>3. CASE t # s
    BY <1>1, <2>1, <2>3
  <2>4. QED BY <2>2, <2>3
<1>. HIDE DEF u, v, q, r, i, M
<1>11. \A k \in DOMAIN r : Made(r, k) => k + 1 \in DOMAIN q /\ Made(q, k + 1) /\ r[k] = q[k + 1]
  BY <1>2 DEF Made, IsA
<1>12. \A k \in DOMAIN q : Made(q, k) /\ k # 1 => k - 1 \in DOMAIN r /\ Made(r, k - 1) /\ r[k - 1] = q[k]
  BY <1>2 DEF Made, IsA
<1>13. \A k \in DOMAIN r : Made(r, k) => Finds(c, r[k].id)
  BY <1>4, <1>11
<1>14. \A t \in SetsOf(c) : lib'[t].id # 0 => Finds(c, lib'[t].id)
  BY <1>1, <1>2, <1>4, <1>5, <1>8
<1>15. ASSUME NEW k \in DOMAIN v, v[k].req = "destroy", v[k].id # 0
       PROVE  /\ v[k].id < nextId
              /\ \A t \in SetsOf(c) : lib'[t].id # v[k].id
              /\ \A j \in DOMAIN r : Made(r, j) => r[j].id # v[k].id
  <2>1. k \in DOMAIN u /\ v[k] = u[k]
    BY <1>3, <1>15
  <2>2. i # u[k].id
    BY <1>2, <1>4, <1>8, <1>15, <2>1
  <2>3. \A t \in SetsOf(c) : lib'[t].id # v[k].id
    BY <1>1, <1>4, <1>5, <1>15, <2>1, <2>2
  <2>4. QED BY <1>4, <1>11, <1>15, <2>1, <2>3
<1>16. ASSUME NEW k \in DOMAIN rset, rset[k].client = c
       PROVE  \/ M(k) # {}
              \/ \E j \in DOMAIN r : Made(r, j) /\ r[j].id = k
              \/ \E j \in DOMAIN v : v[j].req = "destroy" /\ v[j].id = k
  <2>1. k # 0
    BY DEF Types
  <2>2. CASE Mapped(c, k) # {}
    BY <1>10, <1>16, <2>1, <2>2
  <2>3. ASSUME NEW j \in DOMAIN q, Made(q, j), q[j].id = k
        PROVE  M(k) # {} \/ \E l \in DOMAIN r : Made(r, l) /\ r[l].id = k
    <3>1. CASE j = 1
      BY <1>7, <1>8, <2>3, <3>1
    <3>2. CASE j # 1
      BY <1>12, <2>3, <3>2
    <3>3. QED BY <3>1, <3>2
  <2>4. CASE \E j \in DOMAIN u : u[j].req = "destroy" /\ u[j].id = k
    BY <1>3, <2>4
  <2>5. QED BY <1>4, <1>16, <2>2, <2>3, <2>4
<1>17. QED BY <1>1, <1>5, <1>6, <1>13, <1>14, <1>15, <1>16 DEF SetInv, Made, IsA, Finds, v, r

\* The server knows no such class: the set stays the library's alone.
LEMMA RefusalKeeps ==
    ASSUME IInv, NEW c \in Clients, ReadFacts(c, "create"), ~Head(replies[c]).ok,
           NEW s \in Pending(c, Head(replies[c]).seqno),
           lib' = [lib EXCEPT ![s].pending = FALSE], UNCHANGED <<requests, context>>
    PROVE  IInv'
<1>. DEFINE q == replies[c]
            r == replies'[c]
<1>1. /\ Types /\ IdsInv(c) /\ (Connected(c) => Together(c)) /\ \A t \in Sets : LibInv(t)
      /\ lib \in [Sets -> LibSet]
  BY DEF IInv, Types, LibSet
<1>2. /\ Popped(c) /\ Head(q).req = "create"
      /\ UNCHANGED <<link, serverVars, wants, rset, nextId, served>>
      /\ replies' \in [Clients -> Seq(Message)]
      /\ \A d \in Clients : d # c => replies'[d] = replies[d]
  BY DEF ReadFacts, serverVars
<1>3. /\ s \in Sets /\ OwnerOf[s] = c /\ s \in SetsOf(c) /\ lib[s].pending
      /\ SetsOf(c)' = SetsOf(c)
  BY DEF Pending, SetsOf
<1>4. PICK z \in LibSet : z = lib[s]
  BY <1>1, <1>3
<1>5. PICK y : y = [z EXCEPT !.pending = FALSE]
  OBVIOUS
<1>6. /\ y \in LibSet /\ y.pending = FALSE /\ y.refs = z.refs /\ y.id = z.id
      /\ y.seqno = z.seqno /\ y.state = z.state /\ y.edited = z.edited /\ y.told = z.told
  BY <1>5 DEF LibSet
<1>7. lib' = [lib EXCEPT ![s] = y]
  BY <1>1, <1>3, <1>4, <1>5
<1>8. lib' \in [Sets -> LibSet] /\ lib'[s] = y /\ \A t \in Sets : t # s => lib'[t] = lib[t]
  BY <1>1, <1>3, <1>6, <1>7
<1>9. z.id = 0 /\ z.refs # 0
  <2>1. NoSet.pending = FALSE
    BY DEF NoSet
  <2>2. QED BY <1>1, <1>3, <1>4, <2>1 DEF LibInv
<1>10. \A t \in SetsOf(c) : /\ t \in Sets /\ OwnerOf[t] = c /\ lib'[t].id = lib[t].id
                            /\ lib'[t].state = lib[t].state /\ lib'[t].refs = lib[t].refs
                            /\ lib'[t].seqno = lib[t].seqno
                            /\ lib'[t].pending => lib[t].pending
  BY <1>4, <1>6, <1>8 DEF SetsOf
<1>11. LibInv(s)'
  BY <1>1, <1>2, <1>3, <1>4, <1>6, <1>8, <1>9 DEF LibInv
<1>12. \A t \in SetsOf(c) : LibInv(t)'
  <2>1. ASSUME NEW t \in SetsOf(c), t # s
        PROVE  LibInv(t)'
    <3>1. lib'[t] = lib[t] /\ LibInv(t) /\ NoSet' = NoSet
      BY <1>1, <1>8, <1>10, <2>1 DEF NoSet
    <3>2. wants' = wants /\ nextId' = nextId /\ context' = context
      BY <1>2
    <3>3. QED BY <3>1, <3>2 DEF LibInv
  <2>2. QED BY <1>11, <2>1
<1>13. /\ \A k \in DOMAIN r : k + 1 \in DOMAIN q /\ r[k] = q[k + 1]
       /\ \A k \in DOMAIN q : k # 1 => k - 1 \in DOMAIN r /\ r[k - 1] = q[k]
       /\ Shifted(q, r, 1) /\ Head(q) = q[1]
  BY <1>1, <1>2, PoppedPlaces
<1>14. IdsInv(c)'
  <2>1. \A t \in SetsOf(c) : /\ lib'[t].id \in {0, lib[t].id}
                             /\ lib'[t].pending => lib[t].pending /\ lib'[t].seqno = lib[t].seqno
    BY <1>10
  <2>2. QED BY <1>1, <1>2, <1>13, <2>1, IdsKept
<1>15. Learns(c, s)
  <2>1. \A t \in SetsOf(c) : t # s => lib'[t] = lib[t]
    BY <1>8, <1>10
  <2>2. requests'[c] = requests[c]
    OBVIOUS
  <2>3. QED BY <1>2, <1>6, <1>8, <2>1, <2>2 DEF Learns
<1>16. ASSUME Together(c)
       PROVE  Together(c)'
  <2>1. CreateInv(c) /\ SetInv(c) /\ EventInv(c) /\ ReleaseInv(c)
    BY <1>16 DEF Together
  <2>2. CreateInv(c)'
    BY <1>1, <1>3, <1>15, <2>1, LearnsCreations
  <2>3. requests' = requests
    OBVIOUS
  <2>4. SetInv(c)'
    <3>1. \A k \in DOMAIN rset : k # 0
      BY <1>1 DEF Types
    <3>2. ~Made(q, 1)
      BY <1>13 DEF Made
    <3>3. \A k \in DOMAIN r : Made(r, k) => k + 1 \in DOMAIN q /\ Made(q, k + 1) /\ r[k] = q[k + 1]
      BY <1>13 DEF Made, IsA
    <3>4. \A k \in DOMAIN q : Made(q, k) => k - 1 \in DOMAIN r /\ Made(r, k - 1) /\ r[k - 1] = q[k]
      BY <1>13, <3>2 DEF Made, IsA
    <3>5. \A k : Mapped(c, k)' = Mapped(c, k)
      BY <1>3, <1>10 DEF Mapped, Alive
    <3>6. \A t \in SetsOf(c) : lib'[t].id = lib[t].id
      BY <1>10
    <3>7. rset' = rset /\ nextId' = nextId
      BY <1>2
    <3>8. QED BY <1>3, <2>1, <2>3, <3>1, <3>3, <3>4, <3>5, <3>6, <3>7 DEF SetInv, Finds
  <2>5. /\ \A i \in DOMAIN rset, k \in DOMAIN replies'[c] :
              (/\ rset[i].client = c
               /\ k \in EventsAhead(c, i)'
               /\ \A j \in EventsAhead(c, i)' : j <= k)
                => /\ replies'[c][k].grant = rset[i].grant
                   /\ replies'[c][k].advice = rset[i].advice
        /\ \A i : EventsAhead(c, i)' = {} => EventsAhead(c, i) = {}
    <3>1. Head(replies[c]).req # "event" /\ rset' = rset
      BY <1>2
    <3>2. QED BY <1>1, <1>2, <2>1, <3>1, EventsShifted
  <2>6. \A t \in SetsOf(c) : /\ lib'[t].id = lib[t].id /\ lib'[t].state = lib[t].state
                             /\ Asked(t, "acquire")' <=> Asked(t, "acquire")
                             /\ Asked(t, "release")' <=> Asked(t, "release")
                             /\ wants'[t] = wants[t]
    BY <1>2, <1>10, <2>3 DEF Asked, InFlight
  <2>7. EventInv(c)'
    <3>1. ASSUME NEW t \in SetsOf(c), NEW i, i = lib[t].id, i # 0, EventsAhead(c, i)' = {}
          PROVE  \/ lib'[t].state = StateOf(rset[i].grant, rset[i].advice)
                 \/ lib'[t].state = "pending" /\ Asked(t, "acquire")'
      BY <2>1, <2>5, <2>6, <3>1 DEF EventInv
    <3>2. rset' = rset
      BY <1>2
    <3>3. QED BY <1>3, <2>5, <2>6, <3>1, <3>2 DEF EventInv
  <2>8. ReleaseInv(c)'
    <3>1. rset' = rset
      BY <1>2
    <3>2. QED BY <1>3, <2>1, <2>3, <2>6, <3>1 DEF ReleaseInv
  <2>9. QED BY <2>2, <2>4, <2>7, <2>8 DEF Together
<1>17. Connected(c)' => Together(c)'
  BY <1>1, <1>2, <1>16 DEF Connected
<1>18. /\ requests' \in [Clients -> Seq(Message)] /\ link' \in [Clients -> {"up", "down"}]
       /\ wants' \in [Sets -> BOOLEAN] /\ link'[c] \in {link[c], "down"}
       /\ context' \in [Clients -> [state : {"disconnected", "connected", "gone"},
                                    got : SUBSET Queries, connected : BOOLEAN,
                                    seqno : Nat \ {0}]]
       /\ \A d \in Clients : d # c => /\ requests'[d] = requests[d] /\ link'[d] = link[d]
                                      /\ context'[d] = context[d] /\ replies'[d] = replies[d]
  BY <1>1, <1>2 DEF Types
<1>19. \A t \in Sets : OwnerOf[t] # c => lib'[t] = lib[t] /\ wants'[t] = wants[t]
  BY <1>2, <1>3, <1>8
<1>20. lib' \in [Sets -> [refs : Nat, id : Nat, seqno : Nat, state : States,
                         pending : BOOLEAN, edited : BOOLEAN, told : States]]
  BY <1>8 DEF LibSet
<1>. HIDE DEF q, r
<1>21. QED BY <1>2, <1>12, <1>14, <1>17, <1>18, <1>19, <1>20, ClientFrame

\* What a successful reply does to the releases.
LEMMA LearnsReleases ==
    ASSUME NEW c \in Clients, ReleaseInv(c), NEW s \in Sets, wants[s] = TRUE,
           NEW n \in Nat, NEW i, NEW no, AsksAt(c, n, "acquire", i, no), UNCHANGED <<rset, wants>>,
           \A t \in SetsOf(c) : t # s => lib'[t] = lib[t] /\ lib[t].id # i
    PROVE  ReleaseInv(c)'
<1>1. ASSUME NEW t \in SetsOf(c), lib'[t].id # 0, ~wants'[t]
      PROVE  /\ lib'[t].id = lib[t].id
             /\ \/ ~wants[t] /\ ~("acquire" = "acquire" /\ i = lib[t].id)
                \/ "acquire" = "release" /\ i = lib[t].id
  <2>1. t # s
    BY <1>1
  <2>2. QED BY <1>1, <2>1
<1>2. rset' = rset
  OBVIOUS
<1>3. QED BY <1>1, <1>2, AskedReleases

LEMMA LibChanged ==
    ASSUME lib \in [Sets -> LibSet], NEW s \in Sets, NEW y \in LibSet, lib' = [lib EXCEPT ![s] = y]
    PROVE  lib' \in [Sets -> LibSet] /\ lib'[s] = y /\ \A t \in Sets : t # s => lib'[t] = lib[t]
  OBVIOUS

\* The set gets its identifier, and the library asks for it.
LEMMA IdentityKeeps ==
    ASSUME IInv, NEW c \in Clients, ReadFacts(c, "create"), Head(replies[c]).ok,
           NEW s \in Pending(c, Head(replies[c]).seqno),
           lib' = [Numbered(c, s) EXCEPT ![s].pending = FALSE, ![s].id = Head(replies[c]).id],
           Request(c, "acquire", Head(replies[c]).id, TRUE)
    PROVE  IInv'
<1>. DEFINE q == replies[c]
            r == replies'[c]
<1>1. /\ Types /\ IdsInv(c) /\ (Connected(c) => Together(c)) /\ \A t \in Sets : LibInv(t)
      /\ lib \in [Sets -> LibSet]
  BY DEF IInv, Types, LibSet
<1>2. /\ Popped(c) /\ Head(q).req = "create"
      /\ UNCHANGED <<link, serverVars, wants, rset, nextId, served>>
      /\ replies' \in [Clients -> Seq(Message)]
      /\ \A d \in Clients : d # c => replies'[d] = replies[d]
  BY DEF ReadFacts, serverVars
<1>3. /\ s \in Sets /\ OwnerOf[s] = c /\ s \in SetsOf(c) /\ lib[s].pending
      /\ SetsOf(c)' = SetsOf(c)
  BY DEF Pending, SetsOf
<1>4. PICK z \in LibSet : z = lib[s]
  BY <1>1, <1>3
<1>5. PICK i : i = Head(replies[c]).id
  OBVIOUS
<1>6. i \in 1..(nextId - 1) /\ i # 0 /\ i \in Nat /\ i < nextId
  <2>1. Head(replies[c]).id \in 1..(nextId - 1) /\ Head(replies[c]).id # 0
    BY ReadId
  <2>2. nextId \in Nat
    BY <1>1 DEF Types
  <2>3. QED BY <1>5, <2>1, <2>2
<1>7. PICK no \in Nat \ {0} : no = context[c].seqno
  BY <1>1 DEF Types
<1>8. PICK y : y = [[z EXCEPT !.seqno = no] EXCEPT !.pending = FALSE, !.id = i]
  OBVIOUS
<1>9. /\ y \in LibSet /\ y.pending = FALSE /\ y.refs = z.refs /\ y.id = i
      /\ y.seqno = no /\ y.state = z.state /\ y.edited = z.edited /\ y.told = z.told
  BY <1>6, <1>8 DEF LibSet
<1>10. lib' = [lib EXCEPT ![s] = y]
  <2>1. PICK f : f = Numbered(c, s)
    OBVIOUS
  <2>2. f = [lib EXCEPT ![s] = [z EXCEPT !.seqno = no]]
    BY <1>1, <1>3, <1>4, <1>7, <2>1 DEF Numbered
  <2>3. PICK x : x = [z EXCEPT !.seqno = no]
    OBVIOUS
  <2>4. f = [lib EXCEPT ![s] = x] /\ y = [x EXCEPT !.pending = FALSE, !.id = i]
    BY <1>8, <2>2, <2>3
  <2>5. lib' = [f EXCEPT ![s] = [f[s] EXCEPT !.pending = FALSE, !.id = i]]
    BY <1>5, <2>1
  <2>6. f[s] = x
    BY <1>1, <1>3, <2>4
  <2>7. lib' = [f EXCEPT ![s] = y]
    BY <2>4, <2>5, <2>6
  <2>8. QED BY <1>1, <1>3, <2>4, <2>7
<1>11. lib' \in [Sets -> LibSet] /\ lib'[s] = y /\ \A t \in Sets : t # s => lib'[t] = lib[t]
  BY <1>1, <1>3, <1>9, <1>10, LibChanged
<1>12. z.id = 0 /\ z.refs # 0 /\ z.refs > 0 /\ z.state = "pending" /\ wants[s] = TRUE
  <2>1. NoSet.pending = FALSE
    BY DEF NoSet
  <2>2. LibInv(s) /\ z.refs \in Nat /\ wants[s] \in BOOLEAN
    BY <1>1, <1>3 DEF LibSet, Types
  <2>3. z.id = 0 /\ z.refs # 0 /\ z.state = "pending" /\ wants[s]
    BY <1>3, <1>4, <2>1, <2>2 DEF LibInv
  <2>4. QED BY <2>2, <2>3
<1>13. RequestFacts(c, "acquire", i)
  <2>1. "acquire" \in {"create", "destroy", "acquire", "release"} /\ Request(c, "acquire", i, TRUE)
    BY <1>5
  <2>2. QED BY <1>1, <1>6, <2>1, Requested
<1>14. /\ requests' \in [Clients -> Seq(Message)]
       /\ context' \in [Clients -> [state : {"disconnected", "connected", "gone"},
                                    got : SUBSET Queries, connected : BOOLEAN,
                                    seqno : Nat \ {0}]]
       /\ \A d \in Clients : d # c => requests'[d] = requests[d] /\ context'[d] = context[d]
       /\ context'[c].connected = context[c].connected
       /\ context'[c].seqno \in Nat /\ no < context'[c].seqno
       /\ link[c] = "up" => \E n \in Nat : AsksAt(c, n, "acquire", i, no)
  BY <1>7, <1>13 DEF RequestFacts
<1>15. \A t \in SetsOf(c) : t \in Sets /\ OwnerOf[t] = c /\ (t # s => lib'[t] = lib[t])
  BY <1>11 DEF SetsOf
<1>16. LibInv(s)'
  <2>1. /\ y.refs <= MaxRefs[s] /\ y.refs # 0 /\ ~y.edited /\ y.id < nextId /\ y.id # 0
        /\ y.pending = FALSE /\ y.seqno # 0 /\ y.seqno = no
    BY <1>1, <1>3, <1>4, <1>6, <1>9, <1>12 DEF LibInv
  <2>2. QED BY <1>2, <1>3, <1>11, <1>14, <2>1 DEF LibInv
<1>17. \A t \in SetsOf(c) : LibInv(t)'
  <2>1. ASSUME NEW t \in SetsOf(c), t # s
        PROVE  LibInv(t)'
    <3>1. lib'[t] = lib[t] /\ LibInv(t) /\ NoSet' = NoSet /\ OwnerOf[t] = c
      BY <1>1, <1>15, <2>1 DEF NoSet
    <3>2. wants' = wants /\ nextId' = nextId
      BY <1>2
    <3>3. lib[t].seqno < context'[c].seqno
      <4>1. lib[t].seqno < no /\ lib[t].seqno \in Nat
        BY <1>1, <1>7, <1>15, <3>1 DEF LibInv, LibSet
      <4>2. QED BY <1>14, <4>1
    <3>4. QED BY <3>1, <3>2, <3>3 DEF LibInv
  <2>2. QED BY <1>16, <2>1
<1>18. lib'[s].id = Head(replies[c]).id /\ lib'[s].refs > 0 /\ lib[s].id = 0
  BY <1>4, <1>5, <1>9, <1>11, <1>12
<1>19. Head(q) = q[1] /\ 1 \in DOMAIN q
  BY <1>1, <1>2, PoppedPlaces
<1>20. \A t \in SetsOf(c) : lib[t].id # i
  <2>1. Made(q, 1)
    BY <1>2, <1>19 DEF Made, IsA
  <2>2. QED BY <1>1, <1>5, <1>19, <2>1 DEF IdsInv
<1>21. /\ s \in Pending(c, Head(replies[c]).seqno) /\ lib'[s].pending = FALSE
       /\ \A t \in SetsOf(c) : t # s => lib'[t] = lib[t]
  BY <1>9, <1>11, <1>15
<1>22. Learns(c, s)
  <2>. DEFINE u == requests[c]
              v == requests'[c]
  <2>1. /\ \A k \in DOMAIN u : k \in DOMAIN v /\ v[k] = u[k]
        /\ \A k \in DOMAIN v : (k \in DOMAIN u /\ v[k] = u[k]) \/ v[k].req = "acquire"
    <3>1. CASE link[c] = "up"
      BY <1>14, <3>1 DEF AsksAt
    <3>2. CASE link[c] # "up"
      <4>1. requests'[c] = requests[c]
        BY <1>1, <3>2 DEF Request, Sent, Types
      <4>2. QED BY <4>1
    <3>3. QED BY <3>1, <3>2
  <2>2. QED BY <1>2, <1>21, <2>1 DEF Learns
<1>23. IdsInv(c)'
  BY <1>1, <1>3, <1>18, <1>22, LearnsIds
<1>24. ASSUME NEW n \in Nat, AsksAt(c, n, "acquire", i, no), Together(c)
       PROVE  Together(c)'
  <2>1. CreateInv(c) /\ SetInv(c) /\ EventInv(c) /\ ReleaseInv(c)
    BY <1>24 DEF Together
  <2>2. CreateInv(c)'
    BY <1>1, <1>3, <1>22, <2>1, LearnsCreations
  <2>3. SetInv(c)'
    BY <1>1, <1>3, <1>18, <1>22, <2>1, LearnsSets
  <2>4. /\ \A j \in DOMAIN rset, k \in DOMAIN replies'[c] :
              (/\ rset[j].client = c
               /\ k \in EventsAhead(c, j)'
               /\ \A l \in EventsAhead(c, j)' : l <= k)
                => /\ replies'[c][k].grant = rset[j].grant
                   /\ replies'[c][k].advice = rset[j].advice
        /\ \A j : EventsAhead(c, j)' = {} => EventsAhead(c, j) = {}
    <3>1. Head(replies[c]).req # "event" /\ rset' = rset
      BY <1>2
    <3>2. QED BY <1>1, <1>2, <2>1, <3>1, EventsShifted
  <2>5. Asked(s, "acquire")'
    <3>1. n \in DOMAIN requests'[c] /\ requests'[c][n].req = "acquire" /\ requests'[c][n].id = i
      BY <1>24 DEF AsksAt
    <3>2. OwnerOf[s] = c /\ lib'[s].id = i
      BY <1>3, <1>9, <1>11
    <3>3. QED BY <3>1, <3>2 DEF Asked, InFlight
  <2>6. \A t \in SetsOf(c) : t # s /\ Asked(t, "acquire") => Asked(t, "acquire")'
    <3>1. \A k \in DOMAIN requests[c] : k \in DOMAIN requests'[c] /\ requests'[c][k] = requests[c][k]
      BY <1>24 DEF AsksAt
    <3>2. SUFFICES ASSUME NEW t \in SetsOf(c), t # s, Asked(t, "acquire")
                   PROVE  Asked(t, "acquire")'
      OBVIOUS
    <3>3. OwnerOf[t] = c /\ lib'[t] = lib[t]
      BY <1>15, <3>2
    <3>4. QED BY <3>1, <3>2, <3>3 DEF Asked, InFlight
  <2>7. rset' = rset /\ wants' = wants
    BY <1>2
  <2>8. EventInv(c)'
    <3>1. ASSUME NEW t \in SetsOf(c), NEW j, j = lib'[t].id, j # 0, EventsAhead(c, j)' = {}
          PROVE  \/ lib'[t].state = StateOf(rset[j].grant, rset[j].advice)
                 \/ lib'[t].state = "pending" /\ Asked(t, "acquire")'
      <4>1. CASE t = s
        BY <1>9, <1>11, <1>12, <2>5, <4>1
      <4>2. CASE t # s
        <5>1. lib'[t] = lib[t] /\ j = lib[t].id
          BY <1>15, <3>1, <4>2
        <5>2. EventsAhead(c, lib[t].id) = {} /\ lib[t].id # 0
          BY <2>4, <3>1, <5>1
        <5>3. QED BY <2>1, <2>6, <4>2, <5>1, <5>2 DEF EventInv
      <4>3. QED BY <4>1, <4>2
    <3>2. ASSUME NEW t \in SetsOf(c), lib'[t].id # 0, EventsAhead(c, lib[t].id)' = {}
          PROVE  \/ lib'[t].state = StateOf(rset[lib'[t].id].grant, rset[lib'[t].id].advice)
                 \/ lib'[t].state = "pending" /\ Asked(t, "acquire")'
      <4>1. PICK j : j = lib'[t].id
        OBVIOUS
      <4>2. EventsAhead(c, j)' = EventsAhead(c, lib[t].id)'
        BY <4>1 DEF EventsAhead
      <4>3. QED BY <3>1, <3>2, <4>1, <4>2
    <3>3. \A t \in SetsOf(c) : lib'[t].id # 0 /\ EventsAhead(c, lib[t].id)' = {} =>
            \/ lib'[t].state = StateOf(rset'[lib'[t].id].grant, rset'[lib'[t].id].advice)
            \/ lib'[t].state = "pending" /\ Asked(t, "acquire")'
      BY <2>7, <3>2
    <3>4. \A j \in DOMAIN rset', k \in DOMAIN replies'[c] :
            (/\ rset'[j].client = c
             /\ k \in EventsAhead(c, j)'
             /\ \A l \in EventsAhead(c, j)' : l <= k)
              => /\ replies'[c][k].grant = rset'[j].grant
                 /\ replies'[c][k].advice = rset'[j].advice
      BY <2>4, <2>7
    <3>5. QED BY <1>3, <3>3, <3>4 DEF EventInv
  <2>9. ReleaseInv(c)'
    <3>1. \A t \in SetsOf(c) : t # s => lib'[t] = lib[t] /\ lib[t].id # i
      BY <1>15, <1>20
    <3>2. ReleaseInv(c) /\ AsksAt(c, n, "acquire", i, no) /\ UNCHANGED <<rset, wants>>
      BY <1>24, <2>1, <2>7
    <3>3. s \in Sets /\ wants[s] = TRUE
      BY <1>3, <1>12
    <3>4. QED BY <3>1, <3>2, <3>3, LearnsReleases
  <2>10. QED BY <2>2, <2>3, <2>8, <2>9 DEF Together
<1>25. ASSUME Connected(c)'
       PROVE  Together(c)'
  <2>1. link[c] = "up" /\ Connected(c)
    BY <1>2, <1>14, <1>25 DEF Connected
  <2>2. QED BY <1>1, <1>14, <1>24, <2>1
<1>26. /\ link' \in [Clients -> {"up", "down"}] /\ wants' \in [Sets -> BOOLEAN]
       /\ link'[c] \in {link[c], "down"}
       /\ \A d \in Clients : d # c => /\ requests'[d] = requests[d] /\ link'[d] = link[d]
                                      /\ context'[d] = context[d] /\ replies'[d] = replies[d]
  BY <1>1, <1>2, <1>14 DEF Types
<1>27. \A t \in Sets : OwnerOf[t] # c => lib'[t] = lib[t] /\ wants'[t] = wants[t]
  BY <1>2, <1>3, <1>11
<1>28. lib' \in [Sets -> [refs : Nat, id : Nat, seqno : Nat, state : States,
                         pending : BOOLEAN, edited : BOOLEAN, told : States]]
  BY <1>11 DEF LibSet
<1>. HIDE DEF q, r
<1>29. QED BY <1>2, <1>14, <1>17, <1>23, <1>25, <1>26, <1>27, <1>28, ClientFrame

LEMMA ReceiveCreateKeeps ==
    ASSUME IInv, NEW c \in Clients, ReceiveCreate(c)
    PROVE  IInv'
<1>. DEFINE m == Head(replies[c])
<1>1. ReadFacts(c, "create") /\ Types
  BY ReceivingFacts DEF ReceiveCreate, IInv
<1>2. ASSUME Pending(c, m.seqno) = {}, UNCHANGED <<requests, context, lib>>
      PROVE  IInv'
  <2>1. /\ Popped(c) /\ m.req = "create" /\ UNCHANGED <<link, serverVars, wants, nextId, served>>
        /\ replies' \in [Clients -> Seq(Message)]
        /\ \A d \in Clients : d # c => replies'[d] = replies[d]
    BY <1>1 DEF ReadFacts, serverVars
  <2>2. 1 \in DOMAIN replies[c] /\ m = replies[c][1] /\ Shifted(replies[c], replies'[c], 1)
    BY <1>1, <2>1, PoppedPlaces
  <2>3. ~Connected(c)'
    <3>1. ~CreateInv(c)
      BY <1>2, <2>1, <2>2 DEF CreateInv
    <3>2. ~Connected(c)
      BY <3>1 DEF IInv, Together
    <3>3. QED BY <1>2, <2>1, <3>2 DEF Connected
  <2>4. IdsInv(c)'
    <3>1. IdsInv(c) /\ \A t \in SetsOf(c) : lib'[t] = lib[t]
      BY <1>2 DEF IInv
    <3>2. QED BY <2>1, <2>2, <3>1, IdsKept
  <2>5. \A t \in SetsOf(c) : LibInv(t)'
    <3>1. ASSUME NEW t \in SetsOf(c)
          PROVE  LibInv(t)'
      <4>1. LibInv(t) /\ NoSet' = NoSet
        BY DEF IInv, SetsOf, NoSet
      <4>2. QED BY <1>2, <2>1, <4>1 DEF LibInv
    <3>2. QED BY <3>1
  <2>6. /\ requests' \in [Clients -> Seq(Message)] /\ link' \in [Clients -> {"up", "down"}]
        /\ wants' \in [Sets -> BOOLEAN] /\ link'[c] \in {link[c], "down"}
        /\ context' \in [Clients -> [state : {"disconnected", "connected", "gone"},
                                     got : SUBSET Queries, connected : BOOLEAN,
                                     seqno : Nat \ {0}]]
        /\ lib' \in [Sets -> [refs : Nat, id : Nat, seqno : Nat, state : States,
                              pending : BOOLEAN, edited : BOOLEAN, told : States]]
        /\ \A d \in Clients : d # c => /\ requests'[d] = requests[d] /\ link'[d] = link[d]
                                       /\ context'[d] = context[d] /\ replies'[d] = replies[d]
        /\ \A t \in Sets : OwnerOf[t] # c => lib'[t] = lib[t] /\ wants'[t] = wants[t]
    BY <1>1, <1>2, <2>1 DEF Types
  <2>7. UNCHANGED serverVars
    BY <2>1
  <2>8. QED BY <2>1, <2>3, <2>4, <2>5, <2>6, <2>7, ClientFrame
<1>3. ASSUME NEW s \in Pending(c, m.seqno),
             IF m.ok
             THEN /\ lib' = [Numbered(c, s) EXCEPT ![s].pending = FALSE, ![s].id = m.id]
                  /\ Request(c, "acquire", m.id, TRUE)
             ELSE /\ lib' = [lib EXCEPT ![s].pending = FALSE]
                  /\ UNCHANGED <<requests, context>>
      PROVE  IInv'
  <2>1. CASE m.ok
    BY <1>1, <1>3, <2>1, IdentityKeeps
  <2>2. CASE ~m.ok
    BY <1>1, <1>3, <2>2, RefusalKeeps
  <2>3. QED BY <2>1, <2>2
<1>4. QED BY <1>2, <1>3 DEF ReceiveCreate

-----------------------------------------------------------------------------
(* The invariant *)

LEMMA InitIInv ==
    ASSUME Init
    PROVE  IInv
<1>1. /\ served \in Populations /\ served \subseteq Clients /\ closing = None
      /\ rset = <<>> /\ nextId = 1 /\ DOMAIN rset = {}
      /\ lib = [s \in Sets |-> NoSet] /\ wants = [s \in Sets |-> FALSE]
      /\ replies = [c \in Clients |-> <<>>]
      /\ link = [c \in Clients |-> IF c \in served THEN "up" ELSE "down"]
      /\ requests = [c \in Clients |-> IF c \in served THEN InitialQueries(c) ELSE <<>>]
      /\ context = [c \in Clients |-> IF c \in served THEN NewContext(c) ELSE OldContext]
  <2>1. DOMAIN <<>> = {}
    BY NoMessage
  <2>2. QED BY <2>1, ProtocolAssumption DEF Init
<1>2. /\ NoSet.refs = 0 /\ NoSet.edited = FALSE /\ NoSet.id = 0 /\ NoSet.seqno = 0
      /\ NoSet.state = "pending" /\ NoSet.pending = FALSE /\ NoSet.told = "pending"
      /\ NoSet \in LibSet
  BY DEF NoSet, LibSet, States
<1>3. \A c \in Clients :
        /\ requests[c] \in Seq(Message)
        /\ \A k \in DOMAIN requests[c] : requests[c][k].req \in Queries
  <2>1. /\ Msg("classes", 0, 0, TRUE) \in Message /\ Msg("classes", 0, 0, TRUE).req = "classes"
        /\ Msg("resources", 0, 0, TRUE) \in Message /\ Msg("resources", 0, 0, TRUE).req = "resources"
    <3>1. /\ "classes" \in Queries \cup {"create", "destroy", "acquire", "release", "event"}
          /\ "resources" \in Queries \cup {"create", "destroy", "acquire", "release", "event"}
          /\ 0 \in Nat /\ TRUE \in BOOLEAN
      BY DEF Queries
    <3>2. QED BY <3>1, MsgIs
  <2>2. ASSUME NEW c \in Clients
        PROVE  /\ InitialQueries(c) \in Seq(Message)
               /\ \A k \in DOMAIN InitialQueries(c) : InitialQueries(c)[k].req \in Queries
    <3>1. CASE c \in Ready
      <4>1. InitialQueries(c) = <<>> /\ DOMAIN <<>> = {} /\ <<>> \in Seq(Message)
        BY <3>1, NoMessage DEF InitialQueries
      <4>2. QED BY <4>1
    <3>2. CASE c \notin Ready
      <4>1. PICK x \in Message, y \in Message :
              /\ x = Msg("classes", 0, 0, TRUE) /\ y = Msg("resources", 0, 0, TRUE)
              /\ x.req \in Queries /\ y.req \in Queries
        BY <2>1 DEF Queries
      <4>2. InitialQueries(c) = <<x, y>>
        BY <3>2, <4>1 DEF InitialQueries
      <4>3. <<x, y>> \in Seq(Message) /\ \A k \in DOMAIN <<x, y>> : <<x, y>>[k] \in {x, y}
        OBVIOUS
      <4>4. QED BY <4>1, <4>2, <4>3
    <3>3. QED BY <3>1, <3>2
  <2>3. <<>> \in Seq(Message) /\ DOMAIN <<>> = {}
    BY NoMessage
  <2>4. QED BY <1>1, <2>2, <2>3
<1>4. \A c \in Clients : replies[c] = <<>> /\ DOMAIN replies[c] = {} /\ replies[c] \in Seq(Message)
  BY <1>1, NoMessage
<1>5. \A s \in Sets : lib[s] = NoSet /\ wants[s] = FALSE
  BY <1>1
<1>6. /\ context \in [Clients -> [state : {"disconnected", "connected", "gone"},
                                  got : SUBSET Queries, connected : BOOLEAN,
                                  seqno : Nat \ {0}]]
      /\ \A c \in Clients : context[c].seqno = 1
  <2>. DEFINE C == [state : {"disconnected", "connected", "gone"}, got : SUBSET Queries,
                    connected : BOOLEAN, seqno : Nat \ {0}]
  <2>1. \A c \in Clients : NewContext(c) \in C /\ NewContext(c).seqno = 1
    BY DEF NewContext
  <2>2. OldContext \in C /\ OldContext.seqno = 1
    BY DEF OldContext
  <2>. HIDE DEF C
  <2>3. context \in [Clients -> C] /\ \A c \in Clients : context[c].seqno = 1
    BY <1>1, <2>1, <2>2
  <2>4. QED BY <2>3 DEF C
<1>7. Types
  <2>1. requests \in [Clients -> Seq(Message)] /\ replies \in [Clients -> Seq(Message)]
    <3>1. requests = [c \in Clients |-> requests[c]] /\ replies = [c \in Clients |-> replies[c]]
      BY <1>1
    <3>2. QED BY <1>3, <1>4, <3>1
  <2>2. link \in [Clients -> {"up", "down"}] /\ wants \in [Sets -> BOOLEAN]
    BY <1>1
  <2>3. lib \in [Sets -> LibSet]
    BY <1>1, <1>2
  <2>4. DOMAIN rset \subseteq 1..(nextId - 1) /\ rset \in [DOMAIN rset -> ServerSet]
        /\ nextId \in Nat \ {0}
    BY <1>1
  <2>5. QED BY <1>1, <1>6, <2>1, <2>2, <2>3, <2>4 DEF Types, LibSet
<1>8. ServerInv
  BY <1>1 DEF ServerInv
<1>9. ASSUME NEW s \in Sets
      PROVE  LibInv(s)
  <2>1. context[OwnerOf[s]].seqno = 1 /\ 0 <= MaxRefs[s]
    BY <1>6, ProtocolAssumption
  <2>2. QED BY <1>1, <1>2, <1>5, <2>1 DEF LibInv
<1>10. ASSUME NEW c \in Clients
       PROVE  IdsInv(c) /\ Together(c)
  <2>1. \A s \in SetsOf(c) : lib[s].id = 0 /\ lib[s].pending = FALSE
    BY <1>2, <1>5 DEF SetsOf
  <2>2. \A k \in DOMAIN requests[c] : requests[c][k].req \notin {"create", "destroy"}
    BY <1>3 DEF Queries
  <2>3. IdsInv(c) /\ CreateInv(c)
    BY <1>4, <2>1, <2>2 DEF IdsInv, CreateInv
  <2>4. SetInv(c) /\ EventInv(c) /\ ReleaseInv(c)
    BY <1>1, <1>4, <2>1, <2>2 DEF SetInv, EventInv, ReleaseInv
  <2>5. QED BY <2>3, <2>4 DEF Together
<1>11. QED BY <1>7, <1>8, <1>9, <1>10 DEF IInv

LEMMA StutterIInv ==
    ASSUME IInv, UNCHANGED vars
    PROVE  IInv'
<1>1. /\ UNCHANGED <<requests, replies, link, served, closing, rset, nextId, context, lib, wants>>
      /\ UNCHANGED serverVars
  BY DEF vars, serverVars
<1>2. Types' /\ ServerInv'
  BY <1>1 DEF IInv, Types, ServerInv
<1>3. ASSUME NEW s \in Sets
      PROVE  LibInv(s)'
  <2>1. LibInv(s) /\ NoSet' = NoSet
    BY DEF IInv, NoSet
  <2>2. QED BY <1>1, <2>1 DEF LibInv
<1>4. ASSUME NEW c \in Clients
      PROVE  IdsInv(c)' /\ (Connected(c)' => Together(c)')
  <2>1. /\ requests'[c] = requests[c] /\ replies'[c] = replies[c]
        /\ \A s \in SetsOf(c) : lib'[s] = lib[s] /\ wants'[s] = wants[s]
    BY <1>1
  <2>2. Connected(c)' => Connected(c)
    BY <1>1 DEF Connected
  <2>3. IdsInv(c) /\ (Connected(c) => Together(c)) /\ UNCHANGED <<rset, nextId>>
    BY <1>1 DEF IInv
  <2>4. QED BY <2>1, <2>2, <2>3, Untouched
<1>5. QED BY <1>2, <1>3, <1>4 DEF IInv

\* One step per action.
LEMMA NextIInv ==
    ASSUME Habits = {}, IInv, [Next]_vars
    PROVE  IInv'
<1>1. ASSUME NEW c \in Clients, Serve(c)
      PROVE  IInv'
  BY <1>1, ServeQueryKeeps, ServeCreateKeeps, ServeDestroyKeeps, ServeAcquireKeeps,
     ServeReleaseKeeps DEF Serve
<1>2. ASSUME NEW c \in Clients, Receive(c)
      PROVE  IInv'
  BY <1>2, ReceiveQueryKeeps, ReceiveCreateKeeps, ReceiveAnswerKeeps, ReceiveEventKeeps,
     ReceiveDestroyKeeps DEF Receive
<1>3. ASSUME NEW c \in Clients, ServerClosed(c)
      PROVE  IInv'
  BY <1>3, ServerClosedKeeps
<1>4. ASSUME NEW c \in Clients, ClientClosed(c)
      PROVE  IInv'
  BY <1>4, ClientClosedKeeps
<1>5. CASE ServerCleans
  BY <1>5, ServerCleansKeeps
<1>6. CASE OthersUpdate
  BY <1>6, OthersUpdateKeeps
<1>7. CASE Application
  <2>1. ASSUME NEW s \in Sets, CreateResourceSet(s)
        PROVE  IInv'
    BY <2>1, CreateResourceSetKeeps
  <2>2. ASSUME NEW s \in Sets, CopyResourceSet(s)
        PROVE  IInv'
    BY <2>2, CopyResourceSetKeeps
  <2>3. ASSUME NEW s \in Sets, DeleteResourceSet(s)
        PROVE  IInv'
    BY <2>3, DeleteResourceSetKeeps
  <2>4. ASSUME NEW s \in Sets, AcquireResourceSet(s)
        PROVE  IInv'
    BY <2>4, AcquireResourceSetKeeps
  <2>5. ASSUME NEW s \in Sets, ReleaseResourceSet(s)
        PROVE  IInv'
    BY <2>5, ReleaseResourceSetKeeps
  <2>6. ASSUME NEW c \in Clients, Gone(c) \/ Break(c)
        PROVE  IInv'
    BY <2>6, GoneKeeps, BreakKeeps
  <2>7. QED BY <1>7, <2>1, <2>2, <2>3, <2>4, <2>5, <2>6 DEF Application
<1>8. CASE UNCHANGED vars
  BY <1>8, StutterIInv
<1>9. QED BY <1>1, <1>2, <1>3, <1>4, <1>5, <1>6, <1>7, <1>8 DEF Next

-----------------------------------------------------------------------------
(* What it means *)

LEMMA IInvTypeOK ==
    ASSUME IInv
    PROVE  TypeOK
<1>1. Types /\ ServerInv /\ \A s \in Sets : LibInv(s)
  BY DEF IInv
<1>2. ASSUME NEW c \in Clients
      PROVE  /\ \A k \in DOMAIN requests[c] : requests[c][k] \in Message
             /\ \A k \in DOMAIN replies[c] : replies[c][k] \in Message
  <2>1. requests[c] \in Seq(Message) /\ replies[c] \in Seq(Message)
    BY <1>1 DEF Types
  <2>2. QED BY <2>1
<1>3. ASSUME NEW i \in DOMAIN rset
      PROVE  rset[i] \in [client : served, state : {"acquire", "release"},
                          grant : Offers, advice : Offers]
  <2>1. PICK x \in ServerSet : x = rset[i]
    BY <1>1 DEF Types
  <2>2. x.client \in served
    BY <1>1, <2>1 DEF ServerInv
  <2>3. x \in [client : served, state : {"acquire", "release"}, grant : Offers, advice : Offers]
    BY <2>2 DEF ServerSet
  <2>4. QED BY <2>1, <2>3
<1>4. context \in [Clients -> [state : {"disconnected", "connected", "gone"},
                               got : SUBSET Queries, connected : BOOLEAN, seqno : Nat]]
  BY <1>1 DEF Types
<1>5. \A s \in Sets : lib[s].refs <= MaxRefs[s]
  BY <1>1 DEF LibInv
<1>6. QED BY <1>1, <1>2, <1>3, <1>4, <1>5 DEF TypeOK, Types, States

LEMMA IInvLastWord ==
    ASSUME IInv
    PROVE  LastWord
<1>1. SUFFICES ASSUME NEW s \in Sets, NEW c, c = OwnerOf[s], lib[s].id # 0, Connected(c)
               PROVE  /\ lib[s].id \in DOMAIN rset
                      /\ \/ Eventual(s) = "pending" /\ Asked(s, "acquire")
                         \/ Eventual(s) = StateOf(rset[lib[s].id].grant, rset[lib[s].id].advice)
  BY DEF LastWord
<1>2. c \in Clients /\ s \in SetsOf(c)
  BY <1>1, ProtocolAssumption DEF SetsOf
<1>3. SetInv(c) /\ EventInv(c)
  BY <1>1, <1>2 DEF IInv, Together
<1>4. PICK i : i = lib[s].id
  OBVIOUS
<1>5. i \in DOMAIN rset /\ rset[i].client = c
  BY <1>1, <1>2, <1>3, <1>4 DEF SetInv, Finds
<1>. DEFINE ahead == EventsAhead(c, i)
<1>6. CASE ahead = {}
  <2>1. Eventual(s) = lib[s].state
    BY <1>1, <1>4, <1>6 DEF Eventual
  <2>2. QED BY <1>1, <1>2, <1>3, <1>4, <1>5, <1>6, <2>1 DEF EventInv
<1>7. CASE ahead # {}
  <2>1. replies[c] \in Seq(Message)
    BY <1>2 DEF IInv, Types
  <2>2. Len(replies[c]) \in Nat /\ ahead \subseteq 1..Len(replies[c])
    BY <2>1, LenProperties DEF EventsAhead
  <2>3. PICK n \in Nat : n = Len(replies[c])
    BY <2>2
  <2>. HIDE DEF ahead
  <2>4. ahead \in SUBSET (1..n)
    BY <2>2, <2>3
  <2>5. LastOf(ahead) \in ahead /\ \A j \in ahead : j <= LastOf(ahead)
    BY <1>7, <2>4, Greatest
  <2>6. PICK k : k = LastOf(ahead)
    OBVIOUS
  <2>7. /\ k \in DOMAIN replies[c] /\ k \in EventsAhead(c, i)
        /\ \A j \in EventsAhead(c, i) : j <= k
    BY <2>5, <2>6 DEF EventsAhead, ahead
  <2>8. replies[c][k].grant = rset[i].grant /\ replies[c][k].advice = rset[i].advice
    BY <1>3, <1>5, <2>7 DEF EventInv
  <2>9. Eventual(s) = StateOf(replies[c][k].grant, replies[c][k].advice)
    BY <1>1, <1>4, <1>7, <2>6 DEF Eventual, ahead
  <2>10. QED BY <1>4, <1>5, <2>8, <2>9
<1>8. QED BY <1>6, <1>7

LEMMA IInvCorrespond ==
    ASSUME IInv
    PROVE  SetsCorrespond
<1>1. ASSUME NEW i \in DOMAIN rset, NEW c, c = rset[i].client, Connected(c)
      PROVE  \/ Mapped(c, i) # {}
             \/ \E k \in DOMAIN replies[c] : /\ replies[c][k].req = "create" /\ replies[c][k].id = i
                                             /\ Pending(c, replies[c][k].seqno) # {}
             \/ InFlight(requests[c], "destroy", i)
  <2>1. c \in Clients
    BY <1>1 DEF IInv, Types, ServerInv
  <2>2. CreateInv(c) /\ SetInv(c)
    BY <1>1, <2>1 DEF IInv, Together
  <2>3. \/ Mapped(c, i) # {}
        \/ \E k \in DOMAIN replies[c] : Made(replies[c], k) /\ replies[c][k].id = i
        \/ InFlight(requests[c], "destroy", i)
    BY <1>1, <2>2 DEF SetInv, InFlight
  <2>4. ASSUME NEW k \in DOMAIN replies[c], Made(replies[c], k)
        PROVE  replies[c][k].req = "create" /\ Pending(c, replies[c][k].seqno) # {}
    BY <2>2, <2>4 DEF CreateInv, Made, IsA
  <2>5. QED BY <2>3, <2>4
<1>2. ASSUME NEW s \in Sets, NEW t \in Sets, s # t, OwnerOf[s] = OwnerOf[t], lib[s].id # 0
      PROVE  lib[s].id # lib[t].id
  <2>1. PICK c \in Clients : c = OwnerOf[s]
    BY ProtocolAssumption
  <2>2. s \in SetsOf(c) /\ t \in SetsOf(c) /\ IdsInv(c)
    BY <1>2, <2>1 DEF SetsOf, IInv
  <2>3. QED BY <1>2, <2>2 DEF IdsInv
<1>3. OneToOne
  BY <1>1, <1>2 DEF OneToOne
<1>4. ASSUME NEW s \in Sets, lib[s].id \in DOMAIN rset, Connected(OwnerOf[s]), ~wants[s],
             ~Asked(s, "release")
      PROVE  rset[lib[s].id].state = "release"
  <2>1. PICK c \in Clients : c = OwnerOf[s]
    BY ProtocolAssumption
  <2>2. s \in SetsOf(c) /\ ReleaseInv(c) /\ lib[s].id # 0
    BY <1>4, <2>1 DEF SetsOf, IInv, Together, Types
  <2>3. QED BY <1>4, <2>2 DEF ReleaseInv
<1>5. ReleasesHonoured
  BY <1>4 DEF ReleasesHonoured
<1>6. QED BY <1>3, <1>5 DEF SetsCorrespond

\* What an application believes of its sets is what the server last decided,
\* or will be when the messages on their way have been read; what the library
\* knows and awaits no answer for, it has told.  No event is lost, overtaken
\* or given to the wrong set, whatever requests, answers, events and failing
\* connections cross, for any number of clients and sets.
THEOREM BeliefsStayRight ==
    ASSUME Habits = {}
    PROVE  Spec => []BeliefsAreRight
<1>1. Init => IInv
  BY InitIInv
<1>2. IInv /\ [Next]_vars => IInv'
  BY NextIInv
<1>3. IInv => BeliefsAreRight
  <2>1. ASSUME IInv
        PROVE  TypeOK /\ LastWord /\ ToldIsCurrent
    <3>1. ToldIsCurrent
      BY <2>1 DEF IInv, LibInv, ToldIsCurrent
    <3>2. QED BY <2>1, <3>1, IInvTypeOK, IInvLastWord
  <2>2. QED BY <2>1 DEF BeliefsAreRight
<1>4. QED BY <1>1, <1>2, <1>3, PTL DEF Spec

\* Every set of the server is one its client knows, or is about to learn of,
\* or has asked to be destroyed; no two sets of a library share one; and what
\* an application has released the server does not go on asking for.
THEOREM SetsStayInCorrespondence ==
    ASSUME Habits = {}
    PROVE  Spec => []SetsCorrespond
<1>1. Init => IInv
  BY InitIInv
<1>2. IInv /\ [Next]_vars => IInv'
  BY NextIInv
<1>3. IInv => SetsCorrespond
  BY IInvCorrespond
<1>4. QED BY <1>1, <1>2, <1>3, PTL DEF Spec
=============================================================================
