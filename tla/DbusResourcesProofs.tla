------------------------ MODULE DbusResourcesProofs ------------------------
(***************************************************************************)
(* What the D-Bus front end keeps, for any clients, resources and numbers  *)
(* of sets and messages: sets, trackers and rules come and go together     *)
(* (Sound), and, for clients without habits, what the bus is shown of a    *)
(* set is what the arbitration has of it (ObjectsAreTrue).                 *)
(***************************************************************************)
EXTENDS DbusResources, SequenceTheorems, FiniteSetTheorems, WellFoundedInduction, TLAPS

ResourceObject == [name : Names, mandatory : BOOLEAN, status : Statuses]

RsetObject ==
    [owner : Clients, class : Classes, status : Statuses, locked : BOOLEAN,
     acquired : BOOLEAN, next_id : Nat,
     resources : UNION {[D -> ResourceObject] : D \in SUBSET Nat}]

\* Resource objects are numbered as they come.
Rset == {r \in RsetObject : DOMAIN r.resources \subseteq 0..(r.next_id - 1)}

ArbSet == [state : {"none", "acquire", "release"}, attached : BOOLEAN, list : Seq(Names),
           mandatory : SUBSET Names, grant : SUBSET Names, advice : SUBSET Names]

\* A set has what it has of its own resources.
Proper ==
    {x \in ArbSet : {x.mandatory, x.grant, x.advice} \subseteq SUBSET ToSet(x.list)}

Tracker == [name : Clients, cb : BOOLEAN, qid : BOOLEAN]

Messages ==
    [type : {"request", "release", "delete"}, path : Nat]
    \cup [type : {"create"}, from : Clients]
    \cup [type : {"add"}, path : Nat, name : Names]
    \cup [type : {"class"}, path : Nat, value : Classes]
    \cup [type : {"mandatory"}, path : Nat, object : Nat, value : BOOLEAN]
    \cup [type : {"delete resource"}, path : Nat, object : Nat]
    \cup [type : {"gone"}, name : Clients]
    \cup [type : {"owner"}, path : Nat, up : BOOLEAN]

Ids == 0..(next_id - 1)

\* The trackers of F that dbus_name_cb is called for at the end of c, those for
\* any name, and those whose question is not answered.
Followers(F, c) == {p \in DOMAIN F : F[p].cb /\ F[p].name = c}
Called(F) == {p \in DOMAIN F : F[p].cb}
Due(F) == {p \in DOMAIN F : F[p].qid}

\* The bus, and the trackers that follow it.
BusTypes ==
    /\ alive \subseteq Clients
    /\ rules \in [Clients -> Nat]
    /\ next_id \in Nat
    /\ inbox \in Seq(Messages)
    /\ DOMAIN asked \subseteq Ids /\ asked \in [DOMAIN asked -> Clients]
    /\ DOMAIN trackers \subseteq Ids /\ trackers \in [DOMAIN trackers -> Tracker]

SetTypes ==
    /\ DOMAIN rsets \subseteq Ids /\ rsets \in [DOMAIN rsets -> Rset]
    /\ set \in [DOMAIN rsets -> Proper]
    /\ acquiring \in DOMAIN rsets \cup {None}

Indices(q, type) == {i \in DOMAIN q : q[i].type = type}

\* The names whose answer is under way to the daemon.
Owed(q) == {q[i].path : i \in Indices(q, "owner")}

\* No more sets are asked for than the bound allows.
CountInv == next_id + Cardinality(Indices(inbox, "create")) <= MaxSets

\* A question is answered once.
Once(q) == \A i, j \in Indices(q, "owner") : q[i].path = q[j].path => i = j

AnswersInv ==
    /\ Once(inbox)
    /\ Owed(inbox) \cap DOMAIN asked = {}
    /\ Due(trackers) = DOMAIN asked \cup Owed(inbox)

\* Sets and rules have the trackers that are for them.
TrackerInv ==
    /\ Called(trackers) = DOMAIN rsets
    /\ \A p \in DOMAIN rsets : trackers[p].name = rsets[p].owner
    /\ \A c \in Clients : rules[c] = Cardinality(Followers(trackers, c))

DbusInv ==
    /\ BusTypes /\ SetTypes /\ CountInv /\ AnswersInv /\ TrackerInv /\ ~broken

-----------------------------------------------------------------------------
(* Numbers, sequences and functions *)

\* Every set of natural numbers that is not empty has a least element: initial
\* segments are finite, and the finite sets are well-founded under inclusion.
LEMMA Smallest ==
    ASSUME NEW S \in SUBSET Nat, S # {}
    PROVE  \E n \in S : \A m \in S : n <= m
<1>. DEFINE T == {0..m : m \in S}
            R == StrictSubsetOrdering(Nat)
<1>1. IsWellFoundedOn(R, FiniteSubsetsOf(Nat))
  BY FS_StrictSubsetOrderingWellFounded
<1>2. T \subseteq FiniteSubsetsOf(Nat)
  <2>1. SUFFICES ASSUME NEW m \in S
                 PROVE  0..m \in FiniteSubsetsOf(Nat)
    OBVIOUS
  <2>2. IsFiniteSet(0..m)
    BY FS_Interval
  <2>3. 0..m \in SUBSET Nat
    OBVIOUS
  <2>4. QED BY <2>2, <2>3 DEF FiniteSubsetsOf
<1>3. T # {}
  OBVIOUS
<1>4. \E x \in T : \A y \in T : ~ (<<y, x>> \in R)
  <2>. HIDE DEF T, R
  <2>1. QED BY <1>1, <1>2, <1>3, WFMin
<1>5. PICK n \in S : \A m \in S : <<0..m, 0..n>> \notin R
  BY <1>4
<1>6. ASSUME NEW m \in S, m < n
      PROVE  FALSE
  <2>1. /\ 0..m \subseteq 0..n /\ 0..m # 0..n
        /\ 0..m \in SUBSET Nat /\ 0..n \in SUBSET Nat
    BY <1>6
  <2>2. <<0..m, 0..n>> \in R
    BY <2>1 DEF StrictSubsetOrdering
  <2>3. QED BY <1>5, <2>2
<1>7. QED BY <1>6

LEMMA Least ==
    ASSUME NEW S \in SUBSET Nat, S # {}
    PROVE  Min(S) \in S /\ \A j \in S : Min(S) <= j
  BY Smallest DEF Min

\* What appending to a sequence and taking its first entry do.
LEMMA AppendIs ==
    ASSUME NEW S, NEW q \in Seq(S), NEW m \in S
    PROVE  /\ Append(q, m) \in Seq(S)
           /\ DOMAIN Append(q, m) = 1..(Len(q) + 1)
           /\ DOMAIN q = 1..Len(q) /\ Len(q) \in Nat
           /\ \A i \in DOMAIN q : Append(q, m)[i] = q[i]
           /\ Append(q, m)[Len(q) + 1] = m
  OBVIOUS

LEMMA TailIs ==
    ASSUME NEW S, NEW q \in Seq(S), q # <<>>
    PROVE  /\ Tail(q) \in Seq(S)
           /\ Len(q) \in Nat \ {0}
           /\ DOMAIN q = 1..Len(q) /\ DOMAIN Tail(q) = 1..(Len(q) - 1)
           /\ Head(q) = q[1] /\ Head(q) \in S
           /\ \A i \in DOMAIN Tail(q) : Tail(q)[i] = q[i + 1]
  OBVIOUS

\* The fields of messages.
LEMMA MessageIs ==
    ASSUME NEW m \in Messages
    PROVE  /\ m.type \in {"request", "release", "delete", "create", "add", "class",
                          "mandatory", "delete resource", "gone", "owner"}
           /\ m.type \notin {"create", "gone"} => m.path \in Nat
           /\ m.type = "create" => m.from \in Clients
           /\ m.type = "add" => m.name \in Names
           /\ m.type = "gone" => m.name \in Clients
           /\ m.type = "class" => m.value \in Classes
           /\ m.type = "mandatory" => m.value \in BOOLEAN
           /\ m.type \in {"mandatory", "delete resource"} => m.object \in Nat
           /\ m.type = "owner" => m.up \in BOOLEAN
  BY DEF Messages

\* A function that is no longer defined at a point.
LEMMA WithoutIs ==
    ASSUME NEW D, NEW S, NEW f \in [D -> S], NEW x
    PROVE  /\ Without(f, x) \in [D \ {x} -> S] /\ DOMAIN Without(f, x) = D \ {x}
           /\ \A y \in D \ {x} : Without(f, x)[y] = f[y]
  BY DEF Without

LEMMA NothingIs ==
    ASSUME NEW S
    PROVE  /\ <<>> \in Seq(S) /\ DOMAIN <<>> = {} /\ Len(<<>>) = 0
           /\ <<>> \in [{} -> S]
  OBVIOUS

\* What a new message and the end of one do to the indices of a type.
LEMMA AppendIndices ==
    ASSUME NEW q \in Seq(Messages), NEW m \in Messages, NEW type
    PROVE  /\ Append(q, m) \in Seq(Messages)
           /\ m.type = type => Indices(Append(q, m), type) = Indices(q, type) \cup {Len(q) + 1}
           /\ m.type # type => Indices(Append(q, m), type) = Indices(q, type)
           /\ IsFiniteSet(Indices(q, type)) /\ Len(q) \in Nat /\ Len(q) + 1 \notin DOMAIN q
           /\ \A i \in DOMAIN q : Append(q, m)[i] = q[i]
           /\ Append(q, m)[Len(q) + 1] = m
<1>. DEFINE a == Append(q, m)
<1>1. /\ a \in Seq(Messages) /\ DOMAIN a = 1..(Len(q) + 1)
      /\ DOMAIN q = 1..Len(q) /\ Len(q) \in Nat
      /\ \A i \in DOMAIN q : a[i] = q[i]
      /\ a[Len(q) + 1] = m
  BY AppendIs
<1>. HIDE DEF a
<1>2. DOMAIN a = DOMAIN q \cup {Len(q) + 1} /\ Len(q) + 1 \notin DOMAIN q
  BY <1>1
<1>3. /\ m.type = type => Indices(a, type) = Indices(q, type) \cup {Len(q) + 1}
      /\ m.type # type => Indices(a, type) = Indices(q, type)
  BY <1>1, <1>2 DEF Indices
<1>4. IsFiniteSet(Indices(q, type))
  <2>1. IsFiniteSet(1..Len(q))
    BY <1>1, FS_Interval
  <2>2. Indices(q, type) \subseteq 1..Len(q)
    BY <1>1 DEF Indices
  <2>3. QED BY <2>1, <2>2, FS_Subset
<1>5. QED BY <1>1, <1>2, <1>3, <1>4 DEF a

LEMMA TailIndices ==
    ASSUME NEW q \in Seq(Messages), q # <<>>, NEW type
    PROVE  /\ Tail(q) \in Seq(Messages) /\ Head(q) \in Messages /\ Head(q) = q[1]
           /\ 1 \in DOMAIN q
           /\ \A i \in Indices(Tail(q), type) :
                i \in Nat \ {0} /\ i + 1 \in Indices(q, type) /\ Tail(q)[i] = q[i + 1]
           /\ \A i \in Indices(q, type) : i # 1 => i - 1 \in Indices(Tail(q), type)
           /\ Indices(q, type) \subseteq Nat
<1>. DEFINE a == Tail(q)
<1>1. /\ a \in Seq(Messages) /\ Len(q) \in Nat \ {0}
      /\ DOMAIN q = 1..Len(q) /\ DOMAIN a = 1..(Len(q) - 1)
      /\ Head(q) = q[1] /\ Head(q) \in Messages
      /\ \A i \in DOMAIN a : a[i] = q[i + 1]
  BY TailIs
<1>. HIDE DEF a
<1>2. ASSUME NEW i \in Indices(a, type)
      PROVE  i \in Nat \ {0} /\ i + 1 \in Indices(q, type) /\ a[i] = q[i + 1]
  <2>1. i \in 1..(Len(q) - 1) /\ a[i].type = type
    BY <1>1 DEF Indices
  <2>2. i + 1 \in 1..Len(q)
    BY <1>1, <2>1
  <2>3. QED BY <1>1, <2>1, <2>2 DEF Indices
<1>3. ASSUME NEW i \in Indices(q, type), i # 1
      PROVE  i - 1 \in Indices(a, type)
  <2>1. i \in 1..Len(q) /\ q[i].type = type
    BY <1>1 DEF Indices
  <2>2. i - 1 \in 1..(Len(q) - 1) /\ (i - 1) + 1 = i
    BY <1>1, <1>3, <2>1
  <2>3. a[i - 1] = q[i]
    BY <1>1, <2>2
  <2>4. QED BY <1>1, <2>1, <2>2, <2>3 DEF Indices
<1>4. Indices(q, type) \subseteq Nat /\ 1 \in DOMAIN q
  BY <1>1 DEF Indices
<1>5. QED BY <1>1, <1>2, <1>3, <1>4 DEF a

LEMMA TailCount ==
    ASSUME NEW q \in Seq(Messages), q # <<>>, NEW type
    PROVE  /\ Cardinality(Indices(Tail(q), type)) \in Nat
           /\ Cardinality(Indices(q, type)) \in Nat
           /\ Cardinality(Indices(Tail(q), type)) <= Cardinality(Indices(q, type))
           /\ Head(q).type = type =>
                Cardinality(Indices(Tail(q), type)) + 1 <= Cardinality(Indices(q, type))
<1>. DEFINE a == Indices(Tail(q), type)
            b == Indices(q, type)
            f == [i \in a |-> i + 1]
<1>1. IsFiniteSet(b)
  BY AppendIndices, TailIndices
<1>2. /\ \A i \in a : i \in Nat \ {0} /\ i + 1 \in b
      /\ Head(q).type = type => 1 \in b
  BY TailIndices DEF Indices
<1>. HIDE DEF a, b
<1>3. /\ IsFiniteSet(b \ {1})
      /\ Cardinality(b \ {1}) = IF 1 \in b THEN Cardinality(b) - 1 ELSE Cardinality(b)
  BY <1>1, FS_RemoveElement, FS_Subset
<1>4. f \in Injection(a, b \ {1})
  BY <1>2 DEF Injection, IsInjective
<1>5. IsFiniteSet(a) /\ Cardinality(a) <= Cardinality(b \ {1})
  BY <1>3, <1>4, FS_Injection DEF ExistsInjection
<1>6. Cardinality(a) \in Nat /\ Cardinality(b) \in Nat
  BY <1>1, <1>5, FS_CardinalityType
<1>7. QED BY <1>2, <1>3, <1>5, <1>6 DEF a, b

\* Messages of other types do not count as answers.
LEMMA Sent ==
    ASSUME NEW q \in Seq(Messages), NEW m \in Messages, m.type # "owner"
    PROVE  Owed(Append(q, m)) = Owed(q) /\ (Once(q) => Once(Append(q, m)))
<1>1. /\ Indices(Append(q, m), "owner") = Indices(q, "owner")
      /\ \A i \in DOMAIN q : Append(q, m)[i] = q[i]
  BY AppendIndices
<1>. DEFINE a == Append(q, m)
<1>. HIDE DEF a
<1>2. /\ Indices(a, "owner") = Indices(q, "owner")
      /\ \A i \in Indices(q, "owner") : a[i] = q[i]
  BY <1>1 DEF a, Indices
<1>3. QED BY <1>2 DEF a, Owed, Once

\* The bus answers what it had not answered.
LEMMA SentAnswer ==
    ASSUME NEW q \in Seq(Messages), NEW m \in Messages, m.type = "owner"
    PROVE  /\ Owed(Append(q, m)) = Owed(q) \cup {m.path}
           /\ Once(q) /\ m.path \notin Owed(q) => Once(Append(q, m))
<1>. DEFINE a == Append(q, m)
            I == Indices(q, "owner")
            n == Len(q) + 1
<1>1. /\ Indices(a, "owner") = I \cup {n} /\ n \notin I
      /\ \A i \in I : a[i] = q[i]
      /\ a[n] = m
  BY AppendIndices DEF Indices
<1>. HIDE DEF a, n
<1>2. Owed(a) = Owed(q) \cup {m.path}
  BY <1>1 DEF Owed
<1>3. Once(q) /\ m.path \notin Owed(q) => Once(a)
  BY <1>1 DEF Once, Owed
<1>4. QED BY <1>2, <1>3 DEF a

LEMMA Read ==
    ASSUME NEW q \in Seq(Messages), q # <<>>, Once(q)
    PROVE  /\ Once(Tail(q))
           /\ Head(q).type # "owner" => Owed(Tail(q)) = Owed(q)
           /\ Head(q).type = "owner" => /\ Owed(Tail(q)) = Owed(q) \ {Head(q).path}
                                        /\ Head(q).path \in Owed(q)
<1>. DEFINE a == Tail(q)
            I == Indices(q, "owner")
            A == Indices(a, "owner")
<1>1. /\ \A i \in A : i \in Nat \ {0} /\ i + 1 \in I /\ a[i] = q[i + 1]
      /\ \A i \in I : i # 1 => i - 1 \in A
      /\ I \subseteq Nat /\ Head(q) = q[1] /\ 1 \in DOMAIN q
  BY TailIndices
<1>2. 1 \in I <=> Head(q).type = "owner"
  BY <1>1 DEF Indices
<1>. HIDE DEF a, I, A
<1>3. Once(a)
  <2>1. SUFFICES ASSUME NEW i \in A, NEW j \in A, a[i].path = a[j].path
                 PROVE  i = j
    BY DEF Once, A
  <2>2. q[i + 1].path = q[j + 1].path /\ i + 1 \in I /\ j + 1 \in I
    BY <1>1, <2>1
  <2>3. i + 1 = j + 1
    BY <2>2 DEF Once, I
  <2>4. QED BY <1>1, <2>3
<1>4. Owed(a) \subseteq Owed(q) /\ (1 \in I => Owed(a) \subseteq Owed(q) \ {q[1].path})
  <2>1. SUFFICES ASSUME NEW i \in A
                 PROVE  a[i].path \in Owed(q) /\ (1 \in I => a[i].path # q[1].path)
    BY DEF Owed, A
  <2>2. a[i].path = q[i + 1].path /\ i + 1 \in I /\ i + 1 # 1
    BY <1>1
  <2>3. 1 \in I => q[i + 1].path # q[1].path
    BY <2>2 DEF Once, I
  <2>4. QED BY <2>2, <2>3 DEF Owed, I
<1>5. ASSUME NEW i \in I, i # 1
      PROVE  q[i].path \in Owed(a)
  <2>1. i - 1 \in A /\ (i - 1) + 1 = i
    BY <1>1, <1>5
  <2>2. a[i - 1] = q[i]
    BY <1>1, <2>1
  <2>3. QED BY <2>1, <2>2 DEF Owed, A
<1>6. Owed(q) \subseteq Owed(a) \cup {q[1].path} /\ (1 \notin I => Owed(q) \subseteq Owed(a))
  BY <1>5 DEF Owed, I
<1>7. 1 \in I => q[1].path \in Owed(q)
  BY DEF Owed, I
<1>8. QED BY <1>1, <1>2, <1>3, <1>4, <1>6, <1>7 DEF a

-----------------------------------------------------------------------------
(* Updates and events *)

\* What an update makes of a set.
LEMMA OutcomeIs ==
    ASSUME NEW x \in Proper, NEW w \in Outcomes(x)
    PROVE  /\ w \in Proper
           /\ w.list = x.list /\ w.mandatory = x.mandatory /\ w.attached = x.attached
           /\ w.state \in {x.state, "release"}
           /\ ~x.attached => w = x
           /\ x.attached /\ w.grant # {} => w.state = "acquire" /\ w.advice = w.grant
<1>1. CASE ~x.attached
  BY <1>1 DEF Outcomes
<1>2. ASSUME x.attached
      PROVE  \E d \in Decisions(x) :
               w = [x EXCEPT !.state = d.state, !.grant = d.grant, !.advice = d.advice]
  BY <1>2 DEF Outcomes
<1>3. CASE x.attached
  <2>1. PICK d \in Decisions(x) :
          w = [x EXCEPT !.state = d.state, !.grant = d.grant, !.advice = d.advice]
    BY <1>2, <1>3
  <2>2. /\ d.state \in {x.state, "release"}
        /\ d.grant \subseteq ToSet(x.list) /\ d.advice \subseteq ToSet(x.list)
        /\ d.grant # {} => d.state = "acquire" /\ d.advice = d.grant
    BY DEF Decisions, Offers
  <2>3. ToSet(x.list) \subseteq Names
    BY DEF ToSet, Proper, ArbSet
  <2>4. x \in ArbSet /\ x.mandatory \subseteq ToSet(x.list)
    BY DEF Proper
  <2>5. /\ w \in ArbSet /\ w.list = x.list /\ w.mandatory = x.mandatory
        /\ w.attached = x.attached
        /\ w.state = d.state /\ w.grant = d.grant /\ w.advice = d.advice
    BY <2>1, <2>2, <2>3, <2>4 DEF ArbSet
  <2>6. QED BY <1>3, <2>2, <2>4, <2>5 DEF Proper
<1>4. QED BY <1>1, <1>3

LEMMA UpdateIs ==
    ASSUME NEW D, NEW S \in [D -> Proper], NEW T \in Updates(S)
    PROVE  T \in [D -> Proper] /\ \A p \in D : T[p] \in Outcomes(S[p])
<1>1. /\ T \in [D -> UNION {Outcomes(S[p]) : p \in D}]
      /\ \A p \in D : T[p] \in Outcomes(S[p])
  BY DEF Updates
<1>2. \A p \in D : T[p] \in Proper
  BY <1>1, OutcomeIs
<1>3. QED BY <1>1, <1>2

\* An event leaves everything but what is shown.
LEMMA EventIs ==
    ASSUME NEW r \in Rset, NEW x
    PROVE  /\ EventCb(r, x) \in Rset
           /\ EventCb(r, x).owner = r.owner /\ EventCb(r, x).class = r.class
           /\ EventCb(r, x).locked = r.locked /\ EventCb(r, x).acquired = r.acquired
           /\ EventCb(r, x).next_id = r.next_id
           /\ DOMAIN EventCb(r, x).resources = DOMAIN r.resources
           /\ \A i \in DOMAIN r.resources :
                /\ EventCb(r, x).resources[i].name = r.resources[i].name
                /\ EventCb(r, x).resources[i].mandatory = r.resources[i].mandatory
           /\ ~r.acquired => EventCb(r, x) = r
           /\ r.acquired =>
                /\ EventCb(r, x).status = Status(x.grant # {}, x.advice # {})
                /\ \A i \in DOMAIN r.resources :
                     LET n == r.resources[i].name IN
                     IF n \in ToSet(x.list) /\ i \in ByName(r, n)
                     THEN EventCb(r, x).resources[i].status = Status(n \in x.grant, n \in x.advice)
                     ELSE EventCb(r, x).resources[i].status = r.resources[i].status
<1>. DEFINE s == Status(x.grant # {}, x.advice # {})
            T(n) == Status(n \in x.grant, n \in x.advice)
            H(i) == r.resources[i].name \in ToSet(x.list) /\ i \in ByName(r, r.resources[i].name)
            f == [i \in DOMAIN r.resources |->
                    IF H(i) THEN [r.resources[i] EXCEPT !.status = T(r.resources[i].name)]
                    ELSE r.resources[i]]
<1>1. s \in Statuses /\ \A n : T(n) \in Statuses
  BY DEF Status, Statuses
<1>2. PICK D \in SUBSET Nat : r.resources \in [D -> ResourceObject]
  BY DEF Rset, RsetObject
<1>3. ASSUME ~r.acquired
      PROVE  EventCb(r, x) = r
  BY <1>3 DEF EventCb
<1>4. ASSUME r.acquired
      PROVE  EventCb(r, x) = [r EXCEPT !.status = s, !.resources = f]
  BY <1>4 DEF EventCb
<1>. HIDE DEF s, T, H
<1>5. /\ f \in [D -> ResourceObject] /\ DOMAIN r.resources = D /\ DOMAIN f = D
      /\ \A i \in D : /\ f[i].name = r.resources[i].name
                      /\ f[i].mandatory = r.resources[i].mandatory
                      /\ f[i].status = IF H(i) THEN T(r.resources[i].name)
                                       ELSE r.resources[i].status
  BY <1>1, <1>2 DEF ResourceObject
<1>. HIDE DEF f
<1>6. f \in UNION {[E -> ResourceObject] : E \in SUBSET Nat}
  BY <1>5
<1>. DEFINE y == [r EXCEPT !.status = s, !.resources = f]
<1>7. /\ y \in RsetObject /\ y.owner = r.owner /\ y.class = r.class /\ y.locked = r.locked
      /\ y.acquired = r.acquired /\ y.next_id = r.next_id /\ y.status = s /\ y.resources = f
  BY <1>1, <1>6 DEF Rset, RsetObject
<1>. HIDE DEF y
<1>8. CASE r.acquired
  <2>1. EventCb(r, x) = y
    BY <1>4, <1>8 DEF y
  <2>2. y \in Rset
    BY <1>5, <1>7 DEF Rset
  <2>3. QED BY <1>5, <1>7, <1>8, <2>1, <2>2 DEF s, T, H
<1>9. CASE ~r.acquired
  BY <1>3, <1>9
<1>10. QED BY <1>8, <1>9

LEMMA ToldIs ==
    ASSUME NEW D, NEW R \in [D -> Rset], NEW S, NEW T
    PROVE  /\ Told(R, S, T) \in [D -> Rset]
           /\ \A p \in D : /\ Told(R, S, T)[p] = IF T[p] # S[p] THEN EventCb(R[p], T[p]) ELSE R[p]
                           /\ Told(R, S, T)[p].owner = R[p].owner
<1>1. \A p \in D : /\ EventCb(R[p], T[p]) \in Rset
                   /\ EventCb(R[p], T[p]).owner = R[p].owner
  BY EventIs
<1>2. QED BY <1>1 DEF Told

-----------------------------------------------------------------------------
(* Trackers *)

\* What forgetting a name leaves of the trackers.
LEMMA ForgottenIs ==
    ASSUME NEW D, NEW F \in [D -> Tracker], NEW p \in D, F[p].cb,
           NEW G, G = Forgotten(F, p)
    PROVE  /\ DOMAIN G \subseteq D /\ G \in [DOMAIN G -> Tracker]
           /\ Called(G) = Called(F) \ {p} /\ Due(G) = Due(F)
           /\ \A q \in Called(G) : G[q].name = F[q].name
           /\ \A c : Followers(G, c) = Followers(F, c) \ {p}
           /\ p \in Followers(F, F[p].name) /\ F[p].name \in Clients
           /\ \A c : c # F[p].name => p \notin Followers(F, c)
<1>1. CASE F[p].qid
  <2>1. G = [F EXCEPT ![p].cb = FALSE]
    BY <1>1 DEF Forgotten
  <2>2. /\ G \in [D -> Tracker] /\ DOMAIN G = D
        /\ ~G[p].cb /\ G[p].qid /\ G[p].name = F[p].name
        /\ \A q \in D \ {p} : G[q] = F[q]
    BY <1>1, <2>1 DEF Tracker
  <2>. QED BY <1>1, <2>2 DEF Called, Due, Followers, Tracker
<1>2. CASE ~F[p].qid
  <2>1. G = Without(F, p)
    BY <1>2 DEF Forgotten
  <2>2. /\ G \in [D \ {p} -> Tracker] /\ DOMAIN G = D \ {p}
        /\ \A q \in D \ {p} : G[q] = F[q]
    BY <2>1 DEF Without
  <2>. QED BY <1>2, <2>2 DEF Called, Due, Followers, Tracker
<1>3. QED BY <1>1, <1>2

LEMMA FollowersFinite ==
    ASSUME NEW n \in Nat, NEW F, DOMAIN F \subseteq 0..n, NEW c
    PROVE  IsFiniteSet(Followers(F, c)) /\ Cardinality(Followers(F, c)) \in Nat
<1>1. IsFiniteSet(0..n)
  BY FS_Interval
<1>2. Followers(F, c) \subseteq 0..n
  BY DEF Followers
<1>3. QED BY <1>1, <1>2, FS_Subset, FS_CardinalityType

LEMMA NextId == DbusInv => next_id - 1 \in Int /\ Ids \subseteq 0..next_id /\ Ids \subseteq Nat
  BY DEF DbusInv, BusTypes, Ids

\* A set goes with its tracker and its rule; the others are told of the update.
LEMMA DestroyKeeps ==
    ASSUME DbusInv, acquiring = None, NEW p \in DOMAIN rsets,
           NEW F, F = trackers \/ F = [trackers EXCEPT ![p].qid = FALSE],
           DestroyRset(p, F), acquiring' = acquiring
    PROVE  /\ rules' \in [Clients -> Nat] /\ SetTypes' /\ TrackerInv'
           /\ DOMAIN trackers' \subseteq Ids' /\ trackers' \in [DOMAIN trackers' -> Tracker]
           /\ Due(trackers') = Due(F)
           /\ asked' = asked /\ next_id' = next_id
           /\ p \notin DOMAIN rsets' /\ DOMAIN rsets' = DOMAIN rsets \ {p}
<1>. DEFINE E == DOMAIN trackers
            B == DOMAIN rsets
<1>1. /\ trackers \in [E -> Tracker] /\ p \in E /\ trackers[p].cb /\ E \subseteq Ids
      /\ Called(trackers) = B
      /\ \A q \in B : trackers[q].name = rsets[q].owner
  BY DEF DbusInv, BusTypes, TrackerInv, Called
<1>2. /\ F \in [E -> Tracker] /\ F[p].cb /\ F[p].name = trackers[p].name
      /\ Called(F) = B
      /\ \A q \in B : F[q].name = rsets[q].owner
      /\ \A c : Followers(F, c) = Followers(trackers, c)
  <2>1. CASE F = trackers
    BY <1>1, <2>1
  <2>2. CASE F = [trackers EXCEPT ![p].qid = FALSE]
    <3>1. /\ F \in [E -> Tracker] /\ DOMAIN F = E
          /\ F[p].cb = trackers[p].cb /\ F[p].name = trackers[p].name
          /\ \A q \in E \ {p} : F[q] = trackers[q]
      BY <1>1, <2>2 DEF Tracker
    <3>2. Called(F) = Called(trackers)
      BY <1>1, <3>1 DEF Called
    <3>3. \A c : Followers(F, c) = Followers(trackers, c)
      <4>1. \A q \in E : F[q].cb = trackers[q].cb /\ F[q].name = trackers[q].name
        BY <3>1
      <4>2. DOMAIN F = DOMAIN trackers
        BY <3>1
      <4>3. QED BY ONLY <4>1, <4>2 DEF Followers, E
    <3>4. \A q \in B : F[q].name = rsets[q].owner
      BY <1>1, <3>1 DEF Called
    <3>5. QED BY <1>1, <3>1, <3>2, <3>3, <3>4
  <2>3. QED BY <2>1, <2>2
<1>3. /\ trackers' = Forgotten(F, p) /\ rules' = [rules EXCEPT ![F[p].name] = @ - 1]
      /\ asked' = asked /\ next_id' = next_id
  BY DEF DestroyRset, Forget
<1>4. /\ DOMAIN trackers' \subseteq E /\ trackers' \in [DOMAIN trackers' -> Tracker]
      /\ Called(trackers') = B \ {p} /\ Due(trackers') = Due(F)
      /\ \A q \in B \ {p} : trackers'[q].name = rsets[q].owner
      /\ \A c : Followers(trackers', c) = Followers(trackers, c) \ {p}
      /\ p \in Followers(trackers, F[p].name) /\ F[p].name \in Clients
      /\ \A c : c # F[p].name => p \notin Followers(trackers, c)
  <2>. DEFINE G == trackers'
  <2>1. G = Forgotten(F, p) /\ p \in E
    BY <1>1, <1>3
  <2>. HIDE DEF E, G
  <2>2. /\ DOMAIN G \subseteq E /\ G \in [DOMAIN G -> Tracker]
        /\ Called(G) = Called(F) \ {p} /\ Due(G) = Due(F)
        /\ \A q \in Called(G) : G[q].name = F[q].name
        /\ \A c : Followers(G, c) = Followers(F, c) \ {p}
        /\ p \in Followers(F, F[p].name) /\ F[p].name \in Clients
        /\ \A c : c # F[p].name => p \notin Followers(F, c)
    BY <1>2, <2>1, ForgottenIs
  <2>3. QED BY <1>2, <2>2 DEF G
<1>5. \A c : IsFiniteSet(Followers(trackers, c)) /\ Cardinality(Followers(trackers, c)) \in Nat
  BY <1>1, NextId, FollowersFinite DEF DbusInv, BusTypes
<1>6. /\ rules \in [Clients -> Nat]
      /\ \A c \in Clients : rules[c] = Cardinality(Followers(trackers, c))
  BY DEF DbusInv, BusTypes, TrackerInv
<1>7. \A c \in Clients : /\ rules'[c] = Cardinality(Followers(trackers', c))
                         /\ rules'[c] \in Nat
  <2>1. SUFFICES ASSUME NEW c \in Clients
                 PROVE  /\ rules'[c] = Cardinality(Followers(trackers', c))
                        /\ rules'[c] \in Nat
    OBVIOUS
  <2>2. CASE c = F[p].name
    <3>1. /\ IsFiniteSet(Followers(trackers, c) \ {p})
          /\ Cardinality(Followers(trackers, c) \ {p}) = Cardinality(Followers(trackers, c)) - 1
      BY <1>4, <1>5, <2>2, FS_RemoveElement
    <3>2. Cardinality(Followers(trackers, c) \ {p}) \in Nat
      BY <3>1, FS_CardinalityType
    <3>3. rules'[c] = rules[c] - 1
      BY <1>3, <1>6, <2>2
    <3>4. QED BY <1>4, <1>6, <3>1, <3>2, <3>3
  <2>3. CASE c # F[p].name
    <3>1. Followers(trackers', c) = Followers(trackers, c)
      BY <1>4, <2>3
    <3>2. rules'[c] = rules[c]
      BY <1>3, <1>6, <2>3
    <3>3. QED BY <1>6, <3>1, <3>2
  <2>4. QED BY <2>2, <2>3
<1>8. rules' \in [Clients -> Nat]
  BY <1>3, <1>6, <1>7
<1>9. /\ B \subseteq Ids /\ rsets \in [B -> Rset] /\ set \in [B -> Proper]
  BY DEF DbusInv, SetTypes
<1>. DEFINE S == [set EXCEPT ![p].state = "release"]
<1>10. S \in [B -> Proper]
  BY <1>9 DEF Proper, ArbSet
<1>11. PICK T \in (IF set[p].state = "acquire" THEN Updates(S) ELSE {S}) :
         /\ set' = Without(T, p)
         /\ rsets' = Told(Without(rsets, p), S, T)
  BY DEF DestroyRset
<1>. HIDE DEF S
<1>12. T \in [B -> Proper]
  BY <1>10, <1>11, UpdateIs
<1>13. set' \in [B \ {p} -> Proper]
  BY <1>11, <1>12, WithoutIs
<1>14. /\ Without(rsets, p) \in [B \ {p} -> Rset]
       /\ \A q \in B \ {p} : Without(rsets, p)[q] = rsets[q]
  BY <1>9 DEF Without
<1>15. /\ rsets' \in [B \ {p} -> Rset] /\ DOMAIN rsets' = B \ {p}
       /\ \A q \in B \ {p} : rsets'[q].owner = rsets[q].owner
  BY <1>11, <1>14, ToldIs
<1>16. SetTypes'
  BY <1>3, <1>9, <1>13, <1>15 DEF SetTypes, Ids
<1>17. TrackerInv'
  BY <1>4, <1>7, <1>15 DEF TrackerInv
<1>18. QED BY <1>1, <1>3, <1>4, <1>8, <1>15, <1>16, <1>17 DEF Ids

-----------------------------------------------------------------------------
(* The resources of a set *)

\* Enumerating a finite set meets each of its elements, and once.
LEMMA SetToSeqIs ==
    ASSUME NEW S, IsFiniteSet(S)
    PROVE  /\ Cardinality(S) \in Nat
           /\ SetToSeq(S) \in [1..Cardinality(S) -> S]
           /\ \A j, k \in 1..Cardinality(S) : SetToSeq(S)[j] = SetToSeq(S)[k] => j = k
           /\ \A i \in S : \E k \in 1..Cardinality(S) : SetToSeq(S)[k] = i
<1>. DEFINE n == Cardinality(S)
            f == SetToSeq(S)
<1>1. n \in Nat /\ \E g : g \in Bijection(1..n, S)
  BY FS_CardinalityType DEF ExistsBijection
<1>2. \E g \in [1..n -> S] : IsInjective(g)
  BY <1>1 DEF Bijection, Injection
<1>3. f \in [1..n -> S] /\ IsInjective(f)
  BY <1>2 DEF SetToSeq
<1>. HIDE DEF f
<1>4. f \in Injection(1..n, S)
  BY <1>3 DEF Injection
<1>5. IsFiniteSet(1..n) /\ Cardinality(1..n) = n
  BY <1>1, FS_Interval
<1>6. f \in Surjection(1..n, S)
  BY <1>4, <1>5, FS_Injection
<1>7. \A i \in S : \E k \in 1..n : f[k] = i
  BY <1>6 DEF Surjection
<1>8. \A j, k \in 1..n : f[j] = f[k] => j = k
  BY <1>3 DEF IsInjective
<1>9. QED BY <1>1, <1>3, <1>7, <1>8 DEF f

KnownNames(r) == {r.resources[i].name : i \in Known(r)}
Distinct(r) ==
    \A i, j \in DOMAIN r.resources : r.resources[i].name = r.resources[j].name => i = j

LEMMA RsetIs ==
    ASSUME NEW r \in Rset
    PROVE  /\ r \in RsetObject /\ r.next_id \in Nat
           /\ r.resources \in [DOMAIN r.resources -> ResourceObject]
           /\ DOMAIN r.resources \subseteq 0..(r.next_id - 1)
           /\ DOMAIN r.resources \subseteq Nat
           /\ IsFiniteSet(Known(r)) /\ Known(r) \subseteq DOMAIN r.resources
           /\ KnownNames(r) \subseteq Names
<1>1. r \in RsetObject /\ r.next_id \in Nat /\ DOMAIN r.resources \subseteq 0..(r.next_id - 1)
  BY DEF Rset, RsetObject
<1>2. PICK E \in SUBSET Nat : r.resources \in [E -> ResourceObject]
  BY <1>1 DEF RsetObject
<1>3. IsFiniteSet(0..(r.next_id - 1))
  BY <1>1, FS_Interval
<1>4. Known(r) \subseteq DOMAIN r.resources
  BY DEF Known
<1>5. IsFiniteSet(Known(r))
  <2>1. Known(r) \subseteq 0..(r.next_id - 1)
    BY <1>1, <1>4
  <2>2. QED BY <1>3, <2>1, FS_Subset
<1>6. KnownNames(r) \subseteq Names
  BY <1>2, <1>4 DEF KnownNames, ResourceObject
<1>7. QED BY <1>1, <1>2, <1>4, <1>5, <1>6

\* What a set has after the resources of its object were added.
LEMMA ResourcesIs ==
    ASSUME NEW x \in Proper, NEW r \in Rset
    PROVE  /\ WithResources(x, r) \in Proper
           /\ WithResources(x, r).attached = x.attached
           /\ WithResources(x, r).grant = x.grant /\ WithResources(x, r).advice = x.advice
           /\ WithResources(x, r).state = x.state
           /\ ToSet(WithResources(x, r).list) = ToSet(x.list) \cup KnownNames(r)
           /\ WithResources(x, r).mandatory =
                x.mandatory \cup {r.resources[i].name :
                                    i \in {j \in Known(r) : r.resources[j].mandatory}}
           /\ x.list = <<>> /\ Distinct(r) => IsInjective(WithResources(x, r).list)
           /\ WithResources(x, r).list = <<>> => KnownNames(r) = {}
<1>. DEFINE K == Known(r)
            n == Cardinality(K)
            f == SetToSeq(K)
            l == [k \in 1..n |-> r.resources[f[k]].name]
            M == {r.resources[i].name : i \in {j \in K : r.resources[j].mandatory}}
            y == WithResources(x, r)
<1>1. /\ n \in Nat /\ f \in [1..n -> K]
      /\ \A j, k \in 1..n : f[j] = f[k] => j = k
      /\ \A i \in K : \E k \in 1..n : f[k] = i
  BY RsetIs, SetToSeqIs
<1>2. y = [x EXCEPT !.list = @ \o l, !.mandatory = @ \cup M]
  BY DEF WithResources
<1>3. /\ K \subseteq DOMAIN r.resources
      /\ \A i \in K : r.resources[i].name \in Names
      /\ KnownNames(r) = {r.resources[i].name : i \in K}
  BY RsetIs DEF KnownNames
<1>4. M \subseteq KnownNames(r)
  BY <1>3
<1>5. x \in ArbSet /\ x.list \in Seq(Names) /\ x.mandatory \subseteq Names
      /\ {x.mandatory, x.grant, x.advice} \subseteq SUBSET ToSet(x.list)
  BY DEF Proper, ArbSet
<1>. HIDE DEF K, n, f, M, y
<1>6. l \in Seq(Names) /\ Len(l) = n /\ \A k \in 1..n : l[k] = r.resources[f[k]].name
  <2>1. \A k \in 1..n : r.resources[f[k]].name \in Names
    BY <1>1, <1>3
  <2>2. l \in [1..n -> Names]
    BY <2>1
  <2>. HIDE DEF l
  <2>3. l \in Seq(Names) /\ Len(l) = n
    BY <1>1, <2>2
  <2>4. QED BY <2>3 DEF l
<1>. HIDE DEF l
<1>7. ToSet(l) = KnownNames(r)
  <2>1. DOMAIN l = 1..n
    BY <1>6
  <2>2. ToSet(l) = {l[k] : k \in 1..n}
    BY <2>1 DEF ToSet
  <2>3. QED BY <1>1, <1>3, <1>6, <2>2
<1>8. /\ x.list \o l \in Seq(Names)
      /\ ToSet(x.list \o l) = ToSet(x.list) \cup ToSet(l)
  <2>. DEFINE a == x.list
  <2>1. /\ a \in Seq(Names) /\ DOMAIN a = 1..Len(a) /\ DOMAIN l = 1..Len(l)
        /\ Len(a) \in Nat /\ Len(l) \in Nat
    BY <1>5, <1>6
  <2>. HIDE DEF a
  <2>2. /\ a \o l \in Seq(Names) /\ DOMAIN (a \o l) = 1..(Len(a) + Len(l))
        /\ \A i \in 1..(Len(a) + Len(l)) :
             (a \o l)[i] = IF i <= Len(a) THEN a[i] ELSE l[i - Len(a)]
    <3>1. l \in Seq(Names)
      BY <1>6
    <3>2. /\ a \o l \in Seq(Names) /\ Len(a \o l) = Len(a) + Len(l)
          /\ \A i \in 1..(Len(a) + Len(l)) :
               (a \o l)[i] = IF i <= Len(a) THEN a[i] ELSE l[i - Len(a)]
      BY ONLY <2>1, <3>1, ConcatProperties
    <3>3. DOMAIN (a \o l) = 1..Len(a \o l)
      BY <3>2
    <3>4. QED BY <3>2, <3>3
  <2>3. ToSet(a \o l) \subseteq ToSet(a) \cup ToSet(l)
    <3>1. SUFFICES ASSUME NEW i \in 1..(Len(a) + Len(l))
                   PROVE  (a \o l)[i] \in ToSet(a) \cup ToSet(l)
      BY <2>2 DEF ToSet
    <3>2. CASE i <= Len(a)
      BY <2>1, <2>2, <3>2 DEF ToSet
    <3>3. CASE ~(i <= Len(a))
      <4>1. i - Len(a) \in DOMAIN l
        BY <2>1, <3>3
      <4>2. QED BY <2>2, <3>3, <4>1 DEF ToSet
    <3>4. QED BY <3>2, <3>3
  <2>4. ToSet(a) \subseteq ToSet(a \o l)
    <3>1. SUFFICES ASSUME NEW i \in 1..Len(a)
                   PROVE  a[i] \in ToSet(a \o l)
      BY <2>1 DEF ToSet
    <3>2. i \in 1..(Len(a) + Len(l)) /\ (a \o l)[i] = a[i]
      BY <2>1, <2>2
    <3>3. QED BY <2>2, <3>2 DEF ToSet
  <2>5. ToSet(l) \subseteq ToSet(a \o l)
    <3>1. SUFFICES ASSUME NEW i \in 1..Len(l)
                   PROVE  l[i] \in ToSet(a \o l)
      BY <2>1 DEF ToSet
    <3>2. i + Len(a) \in 1..(Len(a) + Len(l)) /\ (a \o l)[i + Len(a)] = l[i]
      <4>1. i + Len(a) \in 1..(Len(a) + Len(l)) /\ ~(i + Len(a) <= Len(a))
            /\ (i + Len(a)) - Len(a) = i
        BY <2>1
      <4>2. QED BY <2>2, <4>1
    <3>3. QED BY <2>2, <3>2 DEF ToSet
  <2>6. QED BY <2>2, <2>3, <2>4, <2>5 DEF a
<1>9. /\ y \in ArbSet /\ y.list = x.list \o l /\ y.mandatory = x.mandatory \cup M
      /\ y.attached = x.attached /\ y.state = x.state
      /\ y.grant = x.grant /\ y.advice = x.advice
  <2>1. M \subseteq Names
    BY <1>4, RsetIs
  <2>2. QED BY <1>2, <1>5, <1>8, <2>1 DEF ArbSet
<1>10. y \in Proper
  BY <1>4, <1>5, <1>7, <1>8, <1>9 DEF Proper
<1>11. x.list = <<>> => x.list \o l = l
  BY <1>6
<1>12. ASSUME Distinct(r)
       PROVE  IsInjective(l)
  <2>1. SUFFICES ASSUME NEW j \in 1..n, NEW k \in 1..n, l[j] = l[k]
                 PROVE  j = k
    BY <1>6 DEF IsInjective
  <2>2. f[j] \in DOMAIN r.resources /\ f[k] \in DOMAIN r.resources
    BY <1>1, <1>3
  <2>3. f[j] = f[k]
    BY <1>6, <1>12, <2>1, <2>2 DEF Distinct
  <2>4. QED BY <1>1, <2>3
<1>13. y.list = <<>> => KnownNames(r) = {}
  <2>1. y.list = <<>> => ToSet(y.list) = {}
    BY DEF ToSet
  <2>2. QED BY <1>7, <1>8, <1>9, <2>1
<1>14. QED BY <1>7, <1>8, <1>9, <1>10, <1>11, <1>12, <1>13 DEF y, M, K

-----------------------------------------------------------------------------
(* Steps *)

LEMMA ZoneIs ==
    ASSUME NEW D, NEW R \in [D -> Rset], NEW S \in [D -> Proper], UpdateZone(R, S)
    PROVE  /\ set' \in [D -> Proper] /\ rsets' \in [D -> Rset] /\ DOMAIN rsets' = D
           /\ \A p \in D : rsets'[p].owner = R[p].owner
<1>1. PICK T \in Updates(S) : set' = T /\ rsets' = Told(R, S, T)
  BY DEF UpdateZone
<1>2. T \in [D -> Proper]
  BY UpdateIs
<1>3. QED BY <1>1, <1>2, ToldIs

\* Steps that leave the names alone, and the sets there are.
LEMMA ObjectsKeep ==
    ASSUME DbusInv, rsets' \in [DOMAIN rsets -> Rset],
           \A p \in DOMAIN rsets : rsets'[p].owner = rsets[p].owner,
           set' \in [DOMAIN rsets -> Proper], acquiring' \in DOMAIN rsets \cup {None},
           KeepNames
    PROVE  SetTypes' /\ TrackerInv'
<1>1. DOMAIN rsets' = DOMAIN rsets /\ DOMAIN rsets \subseteq Ids
  BY DEF DbusInv, SetTypes
<1>2. rules' = rules /\ next_id' = next_id /\ trackers' = trackers
  BY DEF KeepNames
<1>3. SetTypes'
  BY <1>1, <1>2 DEF SetTypes, Ids
<1>4. TrackerInv'
  BY <1>1, <1>2 DEF DbusInv, TrackerInv
<1>5. QED BY <1>3, <1>4

LEMMA SameObjects ==
    ASSUME DbusInv, UNCHANGED <<rules, trackers, next_id, rsets, set, acquiring>>
    PROVE  SetTypes' /\ TrackerInv'
  BY DEF DbusInv, SetTypes, TrackerInv, Ids

\* Reading a message other than an answer.
LEMMA ReadKeeps ==
    ASSUME DbusInv, inbox # <<>>, Head(inbox).type # "owner", inbox' = Tail(inbox),
           asked' = asked, next_id' = next_id, Due(trackers') = Due(trackers)
    PROVE  inbox' \in Seq(Messages) /\ CountInv' /\ AnswersInv'
<1>1. inbox \in Seq(Messages) /\ Once(inbox)
  BY DEF DbusInv, BusTypes, AnswersInv
<1>2. inbox' \in Seq(Messages)
  BY <1>1, TailIndices
<1>3. Once(inbox') /\ Owed(inbox') = Owed(inbox)
  BY <1>1, Read
<1>4. CountInv'
  <2>1. /\ Cardinality(Indices(inbox', "create")) \in Nat
        /\ Cardinality(Indices(inbox, "create")) \in Nat
        /\ Cardinality(Indices(inbox', "create")) <= Cardinality(Indices(inbox, "create"))
    BY <1>1, TailCount
  <2>2. QED BY <2>1, DbusAssumption DEF DbusInv, BusTypes, CountInv
<1>5. AnswersInv'
  BY <1>3 DEF DbusInv, AnswersInv
<1>6. QED BY <1>2, <1>4, <1>5

\* Steps that read such a message, or none, and change objects only.
LEMMA QuietStep ==
    ASSUME DbusInv, alive' = alive, KeepNames, broken' = broken,
           \/ inbox' = inbox
           \/ inbox # <<>> /\ Head(inbox).type # "owner" /\ inbox' = Tail(inbox),
           SetTypes', TrackerInv'
    PROVE  DbusInv'
<1>1. rules' = rules /\ asked' = asked /\ next_id' = next_id /\ trackers' = trackers
  BY DEF KeepNames
<1>2. inbox' \in Seq(Messages) /\ CountInv' /\ AnswersInv'
  <2>1. CASE inbox' = inbox
    BY <1>1, <2>1 DEF DbusInv, BusTypes, CountInv, AnswersInv
  <2>2. CASE inbox # <<>> /\ Head(inbox).type # "owner" /\ inbox' = Tail(inbox)
    BY <1>1, <2>2, ReadKeeps
  <2>3. QED BY <2>1, <2>2
<1>3. BusTypes'
  BY <1>1, <1>2 DEF DbusInv, BusTypes, Ids
<1>4. QED BY <1>2, <1>3 DEF DbusInv

LEMMA InitHolds == Init => DbusInv
<1>. SUFFICES ASSUME Init
              PROVE  DbusInv
  OBVIOUS
<1>1. /\ alive = Clients /\ rules = [c \in Clients |-> 0]
      /\ asked = <<>> /\ inbox = <<>> /\ next_id = 0
      /\ rsets = <<>> /\ trackers = <<>> /\ set = <<>>
      /\ acquiring = None /\ broken = FALSE
  BY DEF Init
<1>2. /\ DOMAIN <<>> = {} /\ <<>> \in Seq(Messages)
      /\ \A S : <<>> \in [{} -> S]
  BY NothingIs
<1>3. Indices(inbox, "create") = {} /\ Indices(inbox, "owner") = {}
  BY <1>1, <1>2 DEF Indices
<1>4. BusTypes
  BY <1>1, <1>2 DEF BusTypes
<1>5. SetTypes
  BY <1>1, <1>2 DEF SetTypes
<1>6. CountInv
  <2>1. Cardinality(Indices(inbox, "create")) = 0
    BY <1>3, FS_EmptySet
  <2>2. MaxSets \in Nat
    BY DbusAssumption
  <2>3. QED BY <1>1, <2>1, <2>2 DEF CountInv
<1>7. AnswersInv
  BY <1>1, <1>2, <1>3 DEF AnswersInv, Once, Owed, Due
<1>8. TrackerInv
  <2>1. \A c : Followers(trackers, c) = {}
    BY <1>1, <1>2 DEF Followers
  <2>2. QED BY <1>1, <1>2, <2>1, FS_EmptySet DEF TrackerInv, Called
<1>9. QED BY <1>1, <1>4, <1>5, <1>6, <1>7, <1>8 DEF DbusInv

\* What is sent to the daemon and is not an answer.
LEMMA SendKeeps ==
    ASSUME DbusInv, NEW m \in Messages, m.type # "owner",
           m.type = "create" => next_id + Waiting("create") < MaxSets,
           inbox' = Append(inbox, m), asked' = asked, next_id' = next_id, trackers' = trackers
    PROVE  inbox' \in Seq(Messages) /\ CountInv' /\ AnswersInv'
<1>1. inbox \in Seq(Messages) /\ Once(inbox) /\ next_id \in Nat
  BY DEF DbusInv, BusTypes, AnswersInv
<1>2. inbox' \in Seq(Messages) /\ Once(inbox') /\ Owed(inbox') = Owed(inbox)
  BY <1>1, Sent, AppendIndices
<1>3. AnswersInv'
  BY <1>2 DEF DbusInv, AnswersInv
<1>4. CountInv'
  <2>. DEFINE I == Indices(inbox, "create")
              J == Indices(inbox', "create")
  <2>1. /\ m.type = "create" => J = I \cup {Len(inbox) + 1}
        /\ m.type # "create" => J = I
        /\ IsFiniteSet(I) /\ Len(inbox) + 1 \notin I
    <3>1. Len(inbox) + 1 \notin DOMAIN inbox
      BY <1>1, AppendIndices
    <3>2. Len(inbox) + 1 \notin I
      BY <3>1 DEF Indices
    <3>3. QED BY <1>1, <3>2, AppendIndices
  <2>2. Waiting("create") = Cardinality(I) /\ Cardinality(I) \in Nat
    BY <2>1, FS_CardinalityType DEF Waiting, Indices
  <2>. HIDE DEF I, J
  <2>3. next_id + Cardinality(I) <= MaxSets
    BY DEF DbusInv, CountInv, I
  <2>4. CASE m.type = "create"
    <3>1. Cardinality(J) = Cardinality(I) + 1
      BY <2>1, <2>4, FS_AddElement
    <3>2. QED BY <1>1, <2>2, <2>4, <3>1, DbusAssumption DEF CountInv, J
  <2>5. CASE m.type # "create"
    BY <2>1, <2>3, <2>5 DEF CountInv, J
  <2>6. QED BY <2>4, <2>5
<1>5. QED BY <1>2, <1>3, <1>4

LEMMA CallIs ==
    ASSUME NEW p \in Nat, NEW type \in {"request", "release", "delete"}
    PROVE  Call(type, p) \in Messages /\ Call(type, p).type = type /\ Call(type, p).path = p
  BY DEF Call, Messages

LEMMA CallsAre ==
    ASSUME DbusInv, NEW p \in DOMAIN rsets, NEW m \in CallsOn(p)
    PROVE  m \in Messages /\ m.type # "owner" /\ m.type # "create"
<1>1. p \in Nat
  BY NextId DEF DbusInv, SetTypes
<1>2. DOMAIN rsets[p].resources \subseteq Nat
  BY RsetIs DEF DbusInv, SetTypes
<1>3. \/ m \in {Call("release", p), Call("delete", p), Call("request", p)}
      \/ \E n \in Names : m = Add(p, n)
      \/ \E v \in Classes : m = SetClass(p, v)
      \/ \E i \in Nat, v \in BOOLEAN : m = SetMandatory(p, i, v)
      \/ \E i \in Nat : m = DeleteResource(p, i)
  BY <1>2 DEF CallsOn
<1>4. CASE m \in {Call("release", p), Call("delete", p), Call("request", p)}
  BY <1>1, <1>4, CallIs
<1>5. CASE \E n \in Names : m = Add(p, n)
  BY <1>1, <1>5 DEF Add, Messages
<1>6. CASE \E v \in Classes : m = SetClass(p, v)
  BY <1>1, <1>6 DEF SetClass, Messages
<1>7. CASE \E i \in Nat, v \in BOOLEAN : m = SetMandatory(p, i, v)
  <2>1. PICK i \in Nat, v \in BOOLEAN : m = SetMandatory(p, i, v)
    BY <1>7
  <2>2. /\ m \in [type : {"mandatory"}, path : Nat, object : Nat, value : BOOLEAN]
        /\ m.type = "mandatory"
    BY <1>1, <2>1 DEF SetMandatory
  <2>3. QED BY <2>2 DEF Messages
<1>8. CASE \E i \in Nat : m = DeleteResource(p, i)
  <2>1. PICK i \in Nat : m = DeleteResource(p, i)
    BY <1>8
  <2>2. /\ m \in [type : {"delete resource"}, path : Nat, object : Nat]
        /\ m.type = "delete resource"
    BY <1>1, <2>1 DEF DeleteResource
  <2>3. QED BY <2>2 DEF Messages
<1>9. QED BY <1>3, <1>4, <1>5, <1>6, <1>7, <1>8

LEMMA CallsOfAre ==
    ASSUME DbusInv, NEW c \in Clients, NEW m \in CallsOf(c)
    PROVE  /\ m \in Messages /\ m.type # "owner"
           /\ \/ \E p \in DOMAIN rsets : rsets[p].owner = c /\ m \in CallsOn(p)
              \/ m = Create(c) /\ m.type = "create"
              \/ \E p \in Nat \ DOMAIN rsets : m = Call("release", p)
<1>. DEFINE C(p) == CallsOn(p)
            P == {q \in DOMAIN rsets : rsets[q].owner = c}
            U == UNION {C(p) : p \in P}
            V == {Call("release", p) : p \in 0..(next_id - 1) \ DOMAIN rsets}
<1>1. m \in U \cup {Create(c)} \cup V
  BY DEF CallsOf
<1>2. m \in V => \E p \in (0..(next_id - 1)) \ DOMAIN rsets : m = Call("release", p)
  OBVIOUS
<1>. HIDE DEF C, P
<1>3. m \in U => \E p \in P : m \in C(p)
  OBVIOUS
<1>. HIDE DEF U, V
<1>4. CASE m \in U
  <2>1. \E p \in DOMAIN rsets : rsets[p].owner = c /\ m \in CallsOn(p)
    BY <1>3, <1>4 DEF P, C
  <2>2. QED BY <2>1, CallsAre
<1>5. CASE m = Create(c)
  BY <1>5 DEF Create, Messages
<1>6. CASE m \in V
  <2>1. 0..(next_id - 1) \subseteq Nat
    OBVIOUS
  <2>2. PICK p \in Nat \ DOMAIN rsets : m = Call("release", p)
    BY <1>2, <1>6, <2>1
  <2>3. QED BY <2>2, CallIs
<1>7. QED BY <1>1, <1>4, <1>5, <1>6

LEMMA ClientCallsKeep == DbusInv /\ ClientCalls => DbusInv'
<1>. SUFFICES ASSUME DbusInv, ClientCalls
              PROVE  DbusInv'
  OBVIOUS
<1>1. UNCHANGED <<bus, objects>>
  BY DEF ClientCalls
<1>2. PICK c \in alive :
        \E m \in CallsOf(c) : /\ m.type = "create" => next_id + Waiting("create") < MaxSets
                             /\ inbox' = Append(inbox, m)
  BY DEF ClientCalls
<1>3. PICK m \in CallsOf(c) : /\ m.type = "create" => next_id + Waiting("create") < MaxSets
                              /\ inbox' = Append(inbox, m)
  BY <1>2
<1>4. m \in Messages /\ m.type # "owner"
  <2>1. c \in Clients
    BY DEF DbusInv, BusTypes
  <2>2. QED BY <2>1, CallsOfAre
<1>5. inbox' \in Seq(Messages) /\ CountInv' /\ AnswersInv'
  BY <1>1, <1>3, <1>4, SendKeeps DEF bus, objects
<1>6. SetTypes' /\ TrackerInv'
  BY <1>1, SameObjects DEF bus, objects
<1>7. BusTypes' /\ ~broken'
  BY <1>1, <1>5 DEF DbusInv, BusTypes, Ids, bus, objects
<1>8. QED BY <1>5, <1>6, <1>7 DEF DbusInv

LEMMA LeaveKeeps ==
    ASSUME DbusInv, NEW c \in Clients, Leave(c)
    PROVE  DbusInv'
<1>1. /\ c \in alive /\ alive' = alive \ {c}
      /\ UNCHANGED <<rules, asked, objects>>
      /\ inbox' = IF rules[c] > 0 THEN Append(inbox, Gone(c)) ELSE inbox
  BY DEF Leave
<1>2. inbox' \in Seq(Messages) /\ CountInv' /\ AnswersInv'
  <2>1. CASE inbox' = inbox
    BY <1>1, <2>1 DEF DbusInv, BusTypes, CountInv, AnswersInv, objects
  <2>2. CASE inbox' = Append(inbox, Gone(c))
    <3>1. Gone(c) \in Messages /\ Gone(c).type # "owner" /\ Gone(c).type # "create"
      BY DEF Gone, Messages
    <3>2. QED BY <1>1, <2>2, <3>1, SendKeeps DEF objects
  <2>3. QED BY <1>1, <2>1, <2>2
<1>3. SetTypes' /\ TrackerInv'
  BY <1>1, SameObjects DEF objects
<1>4. BusTypes' /\ ~broken'
  BY <1>1, <1>2 DEF DbusInv, BusTypes, Ids, objects
<1>5. QED BY <1>2, <1>3, <1>4 DEF DbusInv

LEMMA BusAnswersKeep ==
    ASSUME DbusInv, NEW p \in Paths, BusAnswers(p)
    PROVE  DbusInv'
<1>. DEFINE m == Owner(p, asked[p] \in alive)
<1>1. /\ p \in DOMAIN asked /\ inbox' = Append(inbox, m) /\ asked' = Without(asked, p)
      /\ UNCHANGED <<alive, rules, objects>>
  BY DEF BusAnswers
<1>2. /\ inbox \in Seq(Messages) /\ Once(inbox) /\ Owed(inbox) \cap DOMAIN asked = {}
      /\ Due(trackers) = DOMAIN asked \cup Owed(inbox)
      /\ asked \in [DOMAIN asked -> Clients]
  BY DEF DbusInv, BusTypes, AnswersInv
<1>3. p \in Nat
  BY <1>1, NextId DEF DbusInv, BusTypes
<1>4. m \in Messages /\ m.type = "owner" /\ m.path = p
  BY <1>3 DEF Owner, Messages
<1>. HIDE DEF m
<1>5. Owed(inbox') = Owed(inbox) \cup {p} /\ Once(inbox')
  BY <1>1, <1>2, <1>4, SentAnswer
<1>6. inbox' \in Seq(Messages) /\ Indices(inbox', "create") = Indices(inbox, "create")
  <2>1. m.type # "create"
    BY <1>4
  <2>2. QED BY <1>1, <1>2, <1>4, <2>1, AppendIndices
<1>7. /\ DOMAIN asked' = DOMAIN asked \ {p}
      /\ asked' \in [DOMAIN asked' -> Clients]
  BY <1>1, <1>2 DEF Without
<1>8. AnswersInv'
  BY <1>1, <1>2, <1>5, <1>7 DEF AnswersInv, objects
<1>9. CountInv'
  BY <1>1, <1>6 DEF DbusInv, CountInv, objects
<1>10. BusTypes' /\ ~broken'
  BY <1>1, <1>6, <1>7 DEF DbusInv, BusTypes, Ids, objects
<1>11. SetTypes' /\ TrackerInv'
  BY <1>1, SameObjects DEF objects
<1>12. QED BY <1>8, <1>9, <1>10, <1>11 DEF DbusInv

\* Serving a call leaves the rest of the messages.
LEMMA ServingIs ==
    ASSUME DbusInv, NEW type \in {"add", "class", "mandatory", "delete resource", "request",
                                  "release", "delete"}, Serving(type)
    PROVE  /\ acquiring = None /\ inbox # <<>> /\ inbox' = Tail(inbox) /\ alive' = alive
           /\ broken' = broken
           /\ Head(inbox) \in Messages /\ Head(inbox).type = type
           /\ Head(inbox).type # "owner" /\ Head(inbox).path \in DOMAIN rsets
<1>1. inbox # <<>> /\ inbox \in Seq(Messages)
  BY DEF Serving, Handling, DbusInv, BusTypes
<1>2. Head(inbox) \in Messages
  BY <1>1, TailIndices
<1>3. QED BY <1>1, <1>2 DEF Serving, Handling

\* Edits of a set object.
LEMMA EditKeeps ==
    ASSUME DbusInv, NEW type \in {"add", "class", "mandatory", "delete resource"}, Serving(type),
           KeepRest, NEW p \in DOMAIN rsets, NEW r \in Rset, r.owner = rsets[p].owner,
           rsets' = [rsets EXCEPT ![p] = r]
    PROVE  DbusInv'
<1>1. /\ inbox # <<>> /\ inbox' = Tail(inbox) /\ alive' = alive /\ broken' = broken
      /\ Head(inbox).type # "owner"
  BY ServingIs
<1>2. KeepNames /\ set' = set /\ acquiring' = acquiring
  BY DEF KeepRest
<1>3. /\ rsets \in [DOMAIN rsets -> Rset] /\ set \in [DOMAIN rsets -> Proper]
      /\ acquiring \in DOMAIN rsets \cup {None}
  BY DEF DbusInv, SetTypes
<1>4. /\ rsets' \in [DOMAIN rsets -> Rset]
      /\ \A q \in DOMAIN rsets : rsets'[q].owner = rsets[q].owner
  BY <1>3
<1>5. SetTypes' /\ TrackerInv'
  BY <1>2, <1>3, <1>4, ObjectsKeep
<1>6. QED BY <1>1, <1>2, <1>5, QuietStep

\* What edits make of a set object.
LEMMA AddedIs ==
    ASSUME NEW r \in Rset, NEW n \in Names
    PROVE  /\ Added(r, n) \in Rset /\ Added(r, n).owner = r.owner
           /\ Added(r, n).class = r.class /\ Added(r, n).status = r.status
           /\ Added(r, n).locked = r.locked /\ Added(r, n).acquired = r.acquired
           /\ DOMAIN Added(r, n).resources = DOMAIN r.resources \cup {r.next_id}
           /\ r.next_id \notin DOMAIN r.resources
           /\ Added(r, n).resources[r.next_id] = NewResource(n)
           /\ \A i \in DOMAIN r.resources : Added(r, n).resources[i] = r.resources[i]
<1>. DEFINE f == With(r.resources, r.next_id, NewResource(n))
            D == DOMAIN r.resources
            n1 == r.next_id + 1
            y == [r EXCEPT !.resources = f, !.next_id = n1]
<1>1. /\ r \in RsetObject /\ r.next_id \in Nat
      /\ r.resources \in [D -> ResourceObject] /\ D \subseteq 0..(r.next_id - 1)
      /\ D \subseteq Nat
  BY RsetIs
<1>2. NewResource(n) \in ResourceObject
  BY DEF NewResource, ResourceObject, Statuses
<1>3. /\ f \in [D \cup {r.next_id} -> ResourceObject] /\ DOMAIN f = D \cup {r.next_id}
      /\ f[r.next_id] = NewResource(n) /\ \A i \in D \ {r.next_id} : f[i] = r.resources[i]
  BY <1>1, <1>2 DEF With
<1>4. r.next_id \notin D
  BY <1>1
<1>5. /\ D \cup {r.next_id} \subseteq 0..(n1 - 1) /\ D \cup {r.next_id} \subseteq Nat
      /\ n1 \in Nat
  BY <1>1
<1>8. Added(r, n) = y
  BY <1>1 DEF Added, f, RsetObject
<1>. HIDE DEF f, n1
<1>6. f \in UNION {[E -> ResourceObject] : E \in SUBSET Nat}
  BY <1>3, <1>5
<1>7. /\ y \in RsetObject /\ y.resources = f /\ y.next_id = n1
      /\ y.owner = r.owner /\ y.class = r.class /\ y.status = r.status
      /\ y.locked = r.locked /\ y.acquired = r.acquired
  BY <1>1, <1>5, <1>6 DEF RsetObject
<1>. HIDE DEF y, D
<1>9. y \in Rset
  BY <1>3, <1>5, <1>7 DEF Rset
<1>10. QED BY <1>3, <1>4, <1>7, <1>8, <1>9 DEF D

LEMMA ClassIs ==
    ASSUME NEW r \in Rset, NEW v \in Classes
    PROVE  /\ [r EXCEPT !.class = v] \in Rset /\ [r EXCEPT !.class = v].owner = r.owner
  BY DEF Rset, RsetObject

LEMMA MandatoryIs ==
    ASSUME NEW r \in Rset, NEW i \in Nat, NEW v \in BOOLEAN
    PROVE  /\ SetMandatoryOf(r, i, v) \in Rset
           /\ SetMandatoryOf(r, i, v).owner = r.owner
           /\ SetMandatoryOf(r, i, v).class = r.class /\ SetMandatoryOf(r, i, v).status = r.status
           /\ SetMandatoryOf(r, i, v).locked = r.locked
           /\ SetMandatoryOf(r, i, v).acquired = r.acquired
           /\ DOMAIN SetMandatoryOf(r, i, v).resources = DOMAIN r.resources
           /\ \A j \in DOMAIN r.resources :
                /\ SetMandatoryOf(r, i, v).resources[j].name = r.resources[j].name
                /\ SetMandatoryOf(r, i, v).resources[j].status = r.resources[j].status
           /\ r.locked => SetMandatoryOf(r, i, v) = r
<1>. DEFINE D == DOMAIN r.resources
            f == [r.resources EXCEPT ![i].mandatory = v]
            y == [r EXCEPT !.resources = f]
<1>1. CASE r.locked \/ i \notin D
  BY <1>1 DEF SetMandatoryOf
<1>2. CASE ~r.locked /\ i \in D
  <2>1. /\ r \in RsetObject /\ r.next_id \in Nat
        /\ r.resources \in [D -> ResourceObject] /\ D \subseteq 0..(r.next_id - 1)
        /\ D \subseteq Nat
    BY RsetIs
  <2>2. /\ f \in [D -> ResourceObject] /\ DOMAIN f = D
        /\ \A j \in D : f[j].name = r.resources[j].name /\ f[j].status = r.resources[j].status
    BY <1>2, <2>1 DEF ResourceObject
  <2>3. SetMandatoryOf(r, i, v) = y
    BY <1>2, <2>1 DEF SetMandatoryOf, RsetObject
  <2>. HIDE DEF f
  <2>4. f \in UNION {[E -> ResourceObject] : E \in SUBSET Nat}
    BY <2>1, <2>2
  <2>5. /\ y \in RsetObject /\ y.resources = f /\ y.next_id = r.next_id
        /\ y.owner = r.owner /\ y.class = r.class /\ y.status = r.status
        /\ y.locked = r.locked /\ y.acquired = r.acquired
    BY <2>1, <2>4 DEF RsetObject
  <2>. HIDE DEF y, D
  <2>6. y \in Rset
    BY <2>1, <2>2, <2>5 DEF Rset
  <2>7. QED BY <1>2, <2>2, <2>3, <2>5, <2>6 DEF D
<1>3. QED BY <1>1, <1>2

LEMMA DeletedIs ==
    ASSUME NEW r \in Rset, NEW i
    PROVE  /\ Deleted(r, i) \in Rset /\ Deleted(r, i).owner = r.owner
           /\ Deleted(r, i).class = r.class /\ Deleted(r, i).status = r.status
           /\ Deleted(r, i).locked = r.locked /\ Deleted(r, i).acquired = r.acquired
           /\ DOMAIN Deleted(r, i).resources = DOMAIN r.resources \ {i}
           /\ \A j \in DOMAIN r.resources \ {i} : Deleted(r, i).resources[j] = r.resources[j]
<1>. DEFINE D == DOMAIN r.resources
            f == Without(r.resources, i)
            y == [r EXCEPT !.resources = f]
<1>1. /\ r \in RsetObject /\ r.next_id \in Nat
      /\ r.resources \in [D -> ResourceObject] /\ D \subseteq 0..(r.next_id - 1)
      /\ D \subseteq Nat
  BY RsetIs
<1>2. /\ f \in [D \ {i} -> ResourceObject] /\ DOMAIN f = D \ {i}
      /\ \A j \in D \ {i} : f[j] = r.resources[j]
  BY <1>1 DEF Without
<1>3. Deleted(r, i) = y
  BY <1>1 DEF Deleted, RsetObject
<1>. HIDE DEF f
<1>4. f \in UNION {[E -> ResourceObject] : E \in SUBSET Nat}
  BY <1>1, <1>2
<1>5. /\ y \in RsetObject /\ y.resources = f /\ y.next_id = r.next_id
      /\ y.owner = r.owner /\ y.class = r.class /\ y.status = r.status
      /\ y.locked = r.locked /\ y.acquired = r.acquired
  BY <1>1, <1>4 DEF RsetObject
<1>. HIDE DEF y, D
<1>6. y \in Rset
  BY <1>1, <1>2, <1>5 DEF Rset
<1>7. QED BY <1>2, <1>3, <1>5, <1>6 DEF D

LEMMA EditsKeep ==
    ASSUME DbusInv, ServeAdd \/ ServeClass \/ ServeMandatory \/ ServeDeleteResource
    PROVE  DbusInv'
<1>. DEFINE h == Head(inbox)
            p == h.path
<1>0. rsets \in [DOMAIN rsets -> Rset]
  BY DEF DbusInv, SetTypes
<1>1. CASE ServeAdd
  <2>1. Serving("add") /\ KeepRest /\ rsets' = [rsets EXCEPT ![p] = Added(@, h.name)]
    BY <1>1 DEF ServeAdd
  <2>2. h \in Messages /\ h.type = "add" /\ p \in DOMAIN rsets
    BY <2>1, ServingIs
  <2>3. h.name \in Names /\ rsets[p] \in Rset
    BY <1>0, <2>2, MessageIs
  <2>. DEFINE r == Added(rsets[p], h.name)
  <2>4. r \in Rset /\ r.owner = rsets[p].owner /\ rsets' = [rsets EXCEPT ![p] = r]
    BY <2>1, <2>2, <2>3, AddedIs
  <2>. HIDE DEF r, p, h
  <2>5. QED BY <2>1, <2>2, <2>4, EditKeeps
<1>2. CASE ServeClass
  <2>1. /\ Serving("class") /\ KeepRest
        /\ rsets' = IF rsets[p].locked THEN rsets ELSE [rsets EXCEPT ![p].class = h.value]
    BY <1>2 DEF ServeClass
  <2>2. h \in Messages /\ h.type = "class" /\ p \in DOMAIN rsets
    BY <2>1, ServingIs
  <2>3. h.value \in Classes /\ rsets[p] \in Rset
    BY <1>0, <2>2, MessageIs
  <2>. DEFINE r == IF rsets[p].locked THEN rsets[p] ELSE [rsets[p] EXCEPT !.class = h.value]
  <2>4. r \in Rset /\ r.owner = rsets[p].owner /\ rsets' = [rsets EXCEPT ![p] = r]
    <3>1. CASE rsets[p].locked
      BY <1>0, <2>1, <2>2, <2>3, <3>1
    <3>2. CASE ~rsets[p].locked
      BY <1>0, <2>1, <2>2, <2>3, <3>2, ClassIs
    <3>3. QED BY <3>1, <3>2
  <2>. HIDE DEF r, p, h
  <2>5. QED BY <2>1, <2>2, <2>4, EditKeeps
<1>3. CASE ServeMandatory
  <2>1. /\ Serving("mandatory") /\ KeepRest
        /\ rsets' = [rsets EXCEPT ![p] = SetMandatoryOf(@, h.object, h.value)]
    BY <1>3 DEF ServeMandatory
  <2>2. h \in Messages /\ h.type = "mandatory" /\ p \in DOMAIN rsets
    BY <2>1, ServingIs
  <2>3. h.value \in BOOLEAN /\ h.object \in Nat /\ rsets[p] \in Rset
    BY <1>0, <2>2, MessageIs
  <2>. DEFINE r == SetMandatoryOf(rsets[p], h.object, h.value)
  <2>4. r \in Rset /\ r.owner = rsets[p].owner /\ rsets' = [rsets EXCEPT ![p] = r]
    BY <2>1, <2>2, <2>3, MandatoryIs
  <2>. HIDE DEF r, p, h
  <2>5. QED BY <2>1, <2>2, <2>4, EditKeeps
<1>4. CASE ServeDeleteResource
  <2>1. /\ Serving("delete resource") /\ KeepRest
        /\ rsets' = [rsets EXCEPT ![p] = Deleted(@, h.object)]
    BY <1>4 DEF ServeDeleteResource
  <2>2. h \in Messages /\ p \in DOMAIN rsets
    BY <2>1, ServingIs
  <2>3. rsets[p] \in Rset
    BY <1>0, <2>2
  <2>. DEFINE r == Deleted(rsets[p], h.object)
  <2>4. r \in Rset /\ r.owner = rsets[p].owner /\ rsets' = [rsets EXCEPT ![p] = r]
    BY <2>1, <2>2, <2>3, DeletedIs
  <2>. HIDE DEF r, p, h
  <2>5. QED BY <2>1, <2>2, <2>4, EditKeeps
<1>5. QED BY <1>1, <1>2, <1>3, <1>4

LEMMA StateIs ==
    ASSUME NEW x \in Proper, NEW s \in {"none", "acquire", "release"}
    PROVE  /\ [x EXCEPT !.state = s] \in Proper /\ Attached(x) \in Proper
           /\ [x EXCEPT !.state = s].list = x.list /\ Attached(x).list = x.list
           /\ [x EXCEPT !.state = s].mandatory = x.mandatory /\ Attached(x).mandatory = x.mandatory
           /\ [x EXCEPT !.state = s].grant = x.grant /\ Attached(x).grant = x.grant
           /\ [x EXCEPT !.state = s].advice = x.advice /\ Attached(x).advice = x.advice
           /\ [x EXCEPT !.state = s].attached = x.attached /\ Attached(x).attached = TRUE
           /\ [x EXCEPT !.state = s].state = s /\ Attached(x).state = "release"
  BY DEF Proper, ArbSet, Attached

LEMMA AcquiringIs ==
    ASSUME NEW r \in Rset
    PROVE  /\ Acquiring(r) \in Rset /\ Acquiring(r).owner = r.owner
           /\ Acquiring(r).class = r.class /\ Acquiring(r).status = r.status
           /\ Acquiring(r).locked = TRUE /\ Acquiring(r).acquired = TRUE
           /\ Acquiring(r).resources = r.resources
  BY DEF Rset, RsetObject, Acquiring

\* Steps that update the zone, and name no one anew.
LEMMA ZoneKeeps ==
    ASSUME DbusInv, NEW R \in [DOMAIN rsets -> Rset], NEW S \in [DOMAIN rsets -> Proper],
           \A p \in DOMAIN rsets : R[p].owner = rsets[p].owner,
           UpdateZone(R, S), acquiring' \in DOMAIN rsets \cup {None}, KeepNames
    PROVE  SetTypes' /\ TrackerInv'
<1>1. /\ set' \in [DOMAIN rsets -> Proper] /\ rsets' \in [DOMAIN rsets -> Rset]
      /\ \A p \in DOMAIN rsets : rsets'[p].owner = R[p].owner
  BY ZoneIs
<1>2. QED BY <1>1, ObjectsKeep

LEMMA RequestKeeps ==
    ASSUME DbusInv, ServeRequest
    PROVE  DbusInv'
<1>. DEFINE p == Head(inbox).path
            x == WithResources(set[p], rsets[p])
<1>1. Serving("request") /\ KeepNames
  BY DEF ServeRequest
<1>2. /\ acquiring = None /\ inbox # <<>> /\ inbox' = Tail(inbox) /\ alive' = alive
      /\ broken' = broken /\ Head(inbox).type # "owner" /\ p \in DOMAIN rsets
  BY <1>1, ServingIs
<1>3. \/ acquiring' = p /\ rsets' = rsets /\ set' = set
      \/ UpdateZone(rsets, [set EXCEPT ![p] = Attached(x)]) /\ acquiring' = p
      \/ set' = [set EXCEPT ![p] = x] /\ rsets' = rsets /\ acquiring' = acquiring
  BY DEF ServeRequest
<1>4. rsets \in [DOMAIN rsets -> Rset] /\ set \in [DOMAIN rsets -> Proper]
  BY DEF DbusInv, SetTypes
<1>5. x \in Proper
  BY <1>2, <1>4, ResourcesIs
<1>. HIDE DEF x, p
<1>6. Attached(x) \in Proper
  BY <1>5, StateIs
<1>7. SetTypes' /\ TrackerInv'
  <2>1. CASE acquiring' = p /\ rsets' = rsets /\ set' = set
    BY <1>1, <1>2, <1>4, <2>1, ObjectsKeep
  <2>2. CASE UpdateZone(rsets, [set EXCEPT ![p] = Attached(x)]) /\ acquiring' = p
    <3>. DEFINE S == [set EXCEPT ![p] = Attached(x)]
    <3>1. S \in [DOMAIN rsets -> Proper]
      BY <1>4, <1>6
    <3>. HIDE DEF S
    <3>2. UpdateZone(rsets, S)
      BY <2>2 DEF S
    <3>3. QED BY <1>1, <1>2, <1>4, <2>2, <3>1, <3>2, ZoneKeeps
  <2>3. CASE set' = [set EXCEPT ![p] = x] /\ rsets' = rsets /\ acquiring' = acquiring
    <3>1. set' \in [DOMAIN rsets -> Proper] /\ rsets' \in [DOMAIN rsets -> Rset]
      BY <1>4, <1>5, <2>3
    <3>2. acquiring' \in DOMAIN rsets \cup {None}
      BY <1>2, <2>3
    <3>3. QED BY <1>1, <2>3, <3>1, <3>2, ObjectsKeep
  <2>4. QED BY <1>3, <2>1, <2>2, <2>3
<1>8. QED BY <1>1, <1>2, <1>7, QuietStep

LEMMA AcquireKeeps ==
    ASSUME DbusInv, Acquire
    PROVE  DbusInv'
<1>. DEFINE p == acquiring
            R == [rsets EXCEPT ![p] = Acquiring(@)]
            S == [set EXCEPT ![p].state = "acquire"]
<1>1. /\ p \in DOMAIN rsets /\ UpdateZone(R, S) /\ acquiring' = None
      /\ alive' = alive /\ inbox' = inbox /\ broken' = broken /\ KeepNames
  BY DEF Acquire, DbusInv, SetTypes
<1>2. rsets \in [DOMAIN rsets -> Rset] /\ set \in [DOMAIN rsets -> Proper]
  BY DEF DbusInv, SetTypes
<1>3. /\ Acquiring(rsets[p]) \in Rset /\ Acquiring(rsets[p]).owner = rsets[p].owner
      /\ [set[p] EXCEPT !.state = "acquire"] \in Proper
  BY <1>1, <1>2, AcquiringIs, StateIs
<1>4. /\ R \in [DOMAIN rsets -> Rset] /\ S \in [DOMAIN rsets -> Proper]
      /\ \A q \in DOMAIN rsets : R[q].owner = rsets[q].owner
  BY <1>1, <1>2, <1>3
<1>. HIDE DEF R, S, p
<1>5. SetTypes' /\ TrackerInv'
  BY <1>1, <1>4, ZoneKeeps
<1>6. QED BY <1>1, <1>5, QuietStep

LEMMA ReleaseKeeps ==
    ASSUME DbusInv, ServeRelease
    PROVE  DbusInv'
<1>. DEFINE p == Head(inbox).path
            S == [set EXCEPT ![p].state = "release"]
            r == EventCb(rsets[p], set[p])
<1>1. Serving("release") /\ KeepNames /\ acquiring' = acquiring
  BY DEF ServeRelease
<1>2. /\ acquiring = None /\ inbox # <<>> /\ inbox' = Tail(inbox) /\ alive' = alive
      /\ broken' = broken /\ Head(inbox).type # "owner" /\ p \in DOMAIN rsets
  BY <1>1, ServingIs
<1>3. \/ set' = S /\ rsets' = rsets
      \/ rsets' = [rsets EXCEPT ![p] = r] /\ set' = set
      \/ UpdateZone(rsets, S)
  BY DEF ServeRelease
<1>4. rsets \in [DOMAIN rsets -> Rset] /\ set \in [DOMAIN rsets -> Proper]
  BY DEF DbusInv, SetTypes
<1>5. [set[p] EXCEPT !.state = "release"] \in Proper /\ r \in Rset /\ r.owner = rsets[p].owner
  BY <1>2, <1>4, StateIs, EventIs
<1>6. S \in [DOMAIN rsets -> Proper]
  BY <1>2, <1>4, <1>5
<1>. HIDE DEF S, r, p
<1>7. acquiring' \in DOMAIN rsets \cup {None}
  BY <1>1, <1>2
<1>8. SetTypes' /\ TrackerInv'
  <2>1. CASE set' = S /\ rsets' = rsets
    BY <1>1, <1>4, <1>6, <1>7, <2>1, ObjectsKeep
  <2>2. CASE rsets' = [rsets EXCEPT ![p] = r] /\ set' = set
    <3>1. /\ rsets' \in [DOMAIN rsets -> Rset]
          /\ \A q \in DOMAIN rsets : rsets'[q].owner = rsets[q].owner
      BY <1>2, <1>4, <1>5, <2>2
    <3>2. QED BY <1>1, <1>4, <1>7, <2>2, <3>1, ObjectsKeep
  <2>3. CASE UpdateZone(rsets, S)
    BY <1>1, <1>4, <1>6, <1>7, <2>3, ZoneKeeps
  <2>4. QED BY <1>3, <2>1, <2>2, <2>3
<1>9. QED BY <1>1, <1>2, <1>8, QuietStep

LEMMA OthersKeep ==
    ASSUME DbusInv, OthersUpdate
    PROVE  DbusInv'
<1>1. /\ UpdateZone(rsets, set) /\ acquiring = None /\ acquiring' = acquiring
      /\ alive' = alive /\ inbox' = inbox /\ broken' = broken /\ KeepNames
  BY DEF OthersUpdate
<1>2. rsets \in [DOMAIN rsets -> Rset] /\ set \in [DOMAIN rsets -> Proper]
  BY DEF DbusInv, SetTypes
<1>3. SetTypes' /\ TrackerInv'
  BY <1>1, <1>2, ZoneKeeps
<1>4. QED BY <1>1, <1>3, QuietStep

LEMMA IgnoreKeeps ==
    ASSUME DbusInv, Ignore
    PROVE  DbusInv'
<1>1. /\ inbox # <<>> /\ Head(inbox).type # "owner" /\ inbox' = Tail(inbox)
      /\ UNCHANGED <<bus, objects>>
  BY DEF Ignore
<1>2. SetTypes' /\ TrackerInv'
  BY <1>1, SameObjects DEF bus, objects
<1>3. alive' = alive /\ KeepNames /\ broken' = broken
  BY <1>1 DEF bus, objects, KeepNames
<1>4. QED BY <1>1, <1>2, <1>3, QuietStep

LEMMA DeleteKeeps ==
    ASSUME DbusInv, ServeDelete
    PROVE  DbusInv'
<1>. DEFINE p == Head(inbox).path
<1>1. Serving("delete") /\ DestroyRset(p, trackers) /\ acquiring' = acquiring
  BY DEF ServeDelete
<1>2. /\ acquiring = None /\ inbox # <<>> /\ inbox' = Tail(inbox) /\ alive' = alive
      /\ broken' = broken /\ Head(inbox).type # "owner" /\ p \in DOMAIN rsets
  BY <1>1, ServingIs
<1>. HIDE DEF p
<1>3. /\ rules' \in [Clients -> Nat] /\ SetTypes' /\ TrackerInv'
      /\ DOMAIN trackers' \subseteq Ids' /\ trackers' \in [DOMAIN trackers' -> Tracker]
      /\ Due(trackers') = Due(trackers)
      /\ asked' = asked /\ next_id' = next_id
  BY <1>1, <1>2, DestroyKeeps
<1>4. inbox' \in Seq(Messages) /\ CountInv' /\ AnswersInv'
  BY <1>2, <1>3, ReadKeeps
<1>5. QED BY <1>2, <1>3, <1>4 DEF DbusInv, BusTypes, Ids

LEMMA GoneKeeps ==
    ASSUME DbusInv, ServeGone
    PROVE  DbusInv'
<1>. DEFINE F == Following(Head(inbox).name)
<1>1. /\ acquiring = None /\ inbox # <<>> /\ Head(inbox).type = "gone"
      /\ UNCHANGED <<alive, acquiring, broken>>
      /\ \/ /\ inbox' = Tail(inbox)
            /\ UNCHANGED <<rules, asked, next_id, rsets, trackers, set>>
         \/ F # {} /\ DestroyRset(Min(F), trackers) /\ inbox' = inbox
  BY DEF ServeGone
<1>2. CASE /\ inbox' = Tail(inbox)
           /\ UNCHANGED <<rules, asked, next_id, rsets, trackers, set>>
  <2>1. SetTypes' /\ TrackerInv'
    BY <1>1, <1>2, SameObjects
  <2>2. KeepNames
    BY <1>2 DEF KeepNames
  <2>3. QED BY <1>1, <1>2, <2>1, <2>2, QuietStep
<1>3. CASE F # {} /\ DestroyRset(Min(F), trackers) /\ inbox' = inbox
  <2>1. F \subseteq Called(trackers) /\ F \subseteq DOMAIN trackers
    BY DEF Following, Called
  <2>2. F \subseteq DOMAIN rsets /\ F \subseteq Nat
    BY <2>1, NextId DEF DbusInv, BusTypes, TrackerInv
  <2>. DEFINE p == Min(F)
  <2>. HIDE DEF F
  <2>3. p \in DOMAIN rsets
    BY <1>3, <2>2, Least
  <2>4. DestroyRset(p, trackers)
    BY <1>3
  <2>. HIDE DEF p
  <2>5. /\ rules' \in [Clients -> Nat] /\ SetTypes' /\ TrackerInv'
        /\ DOMAIN trackers' \subseteq Ids' /\ trackers' \in [DOMAIN trackers' -> Tracker]
        /\ Due(trackers') = Due(trackers)
        /\ asked' = asked /\ next_id' = next_id
    BY <1>1, <2>3, <2>4, DestroyKeeps
  <2>6. inbox' \in Seq(Messages) /\ CountInv' /\ AnswersInv'
    BY <1>3, <2>5 DEF DbusInv, BusTypes, CountInv, AnswersInv
  <2>7. QED BY <1>1, <2>5, <2>6 DEF DbusInv, BusTypes, Ids
<1>4. QED BY <1>1, <1>2, <1>3

\* Reading the answer to the question of p.
LEMMA AnswerRead ==
    ASSUME DbusInv, inbox # <<>>, Head(inbox).type = "owner", inbox' = Tail(inbox),
           asked' = asked, next_id' = next_id,
           Due(trackers') = Due(trackers) \ {Head(inbox).path}
    PROVE  inbox' \in Seq(Messages) /\ CountInv' /\ AnswersInv'
<1>1. inbox \in Seq(Messages) /\ Once(inbox)
  BY DEF DbusInv, BusTypes, AnswersInv
<1>2. inbox' \in Seq(Messages)
  BY <1>1, TailIndices
<1>3. /\ Once(inbox') /\ Owed(inbox') = Owed(inbox) \ {Head(inbox).path}
      /\ Head(inbox).path \in Owed(inbox)
  BY <1>1, Read
<1>4. CountInv'
  <2>1. /\ Cardinality(Indices(inbox', "create")) \in Nat
        /\ Cardinality(Indices(inbox, "create")) \in Nat
        /\ Cardinality(Indices(inbox', "create")) <= Cardinality(Indices(inbox, "create"))
    BY <1>1, TailCount
  <2>2. QED BY <2>1, DbusAssumption DEF DbusInv, BusTypes, CountInv
<1>5. AnswersInv'
  BY <1>3 DEF DbusInv, AnswersInv
<1>6. QED BY <1>2, <1>4, <1>5

LEMMA OwnerKeeps ==
    ASSUME DbusInv, ServeOwner
    PROVE  DbusInv'
<1>. DEFINE p == Head(inbox).path
            E == DOMAIN trackers
            F == [trackers EXCEPT ![p].qid = FALSE]
<1>1. /\ acquiring = None /\ acquiring' = acquiring /\ alive' = alive
      /\ inbox # <<>> /\ Head(inbox).type = "owner" /\ inbox' = Tail(inbox)
      /\ broken' = (p \notin DOMAIN trackers)
      /\ ~broken' => Answered(p, Head(inbox).up)
  BY DEF ServeOwner, Handling
<1>2. p \in Owed(inbox)
  BY <1>1, Read DEF DbusInv, BusTypes, AnswersInv
<1>3. p \in E /\ trackers[p].qid
  BY <1>2 DEF DbusInv, AnswersInv, Due
<1>4. ~broken' /\ Answered(p, Head(inbox).up)
  BY <1>1, <1>3
<1>5. /\ trackers \in [E -> Tracker] /\ E \subseteq Ids /\ rules \in [Clients -> Nat]
      /\ Called(trackers) = DOMAIN rsets
      /\ \A q \in DOMAIN rsets : trackers[q].name = rsets[q].owner
      /\ \A c \in Clients : rules[c] = Cardinality(Followers(trackers, c))
  BY DEF DbusInv, BusTypes, TrackerInv
<1>6. \/ /\ ~trackers[p].cb /\ trackers' = Without(trackers, p)
         /\ UNCHANGED <<rules, asked, next_id, rsets, set>>
      \/ /\ trackers[p].cb /\ trackers' = F
         /\ UNCHANGED <<rules, asked, next_id, rsets, set>>
      \/ trackers[p].cb /\ DestroyRset(p, F)
  BY <1>4 DEF Answered
<1>7. /\ F \in [E -> Tracker] /\ DOMAIN F = E
      /\ F[p].cb = trackers[p].cb /\ F[p].name = trackers[p].name /\ ~F[p].qid
      /\ \A q \in E \ {p} : F[q] = trackers[q]
  BY <1>3, <1>5 DEF Tracker
<1>8. Due(F) = Due(trackers) \ {p} /\ Called(F) = Called(trackers)
      /\ \A c : Followers(F, c) = Followers(trackers, c)
  BY <1>3, <1>7 DEF Due, Called, Followers
<1>. HIDE DEF F, p
<1>9. CASE /\ ~trackers[p].cb /\ trackers' = Without(trackers, p)
           /\ UNCHANGED <<rules, asked, next_id, rsets, set>>
  <2>1. /\ trackers' \in [E \ {p} -> Tracker] /\ DOMAIN trackers' = E \ {p}
        /\ \A q \in E \ {p} : trackers'[q] = trackers[q]
    BY <1>5, <1>9 DEF Without
  <2>2. Due(trackers') = Due(trackers) \ {p} /\ Called(trackers') = Called(trackers)
        /\ \A c : Followers(trackers', c) = Followers(trackers, c)
    BY <1>9, <2>1 DEF Due, Called, Followers
  <2>3. inbox' \in Seq(Messages) /\ CountInv' /\ AnswersInv'
    BY <1>1, <1>9, <2>2, AnswerRead DEF p
  <2>4. TrackerInv'
    BY <1>5, <1>9, <2>1, <2>2 DEF TrackerInv, Called
  <2>5. SetTypes'
    BY <1>1, <1>9 DEF DbusInv, SetTypes, Ids
  <2>6. BusTypes'
    BY <1>1, <1>5, <1>9, <2>1, <2>3 DEF DbusInv, BusTypes, Ids
  <2>7. QED BY <1>4, <2>3, <2>4, <2>5, <2>6 DEF DbusInv
<1>10. CASE /\ trackers[p].cb /\ trackers' = F
            /\ UNCHANGED <<rules, asked, next_id, rsets, set>>
  <2>1. inbox' \in Seq(Messages) /\ CountInv' /\ AnswersInv'
    BY <1>1, <1>8, <1>10, AnswerRead DEF p
  <2>2. \A q \in E : trackers'[q].name = trackers[q].name
    BY <1>7, <1>10
  <2>3. TrackerInv'
    BY <1>5, <1>8, <1>10, <2>2 DEF TrackerInv, Called
  <2>4. SetTypes'
    BY <1>1, <1>10 DEF DbusInv, SetTypes, Ids
  <2>5. BusTypes'
    BY <1>1, <1>5, <1>7, <1>10, <2>1 DEF DbusInv, BusTypes, Ids
  <2>6. QED BY <1>4, <2>1, <2>3, <2>4, <2>5 DEF DbusInv
<1>11. CASE trackers[p].cb /\ DestroyRset(p, F)
  <2>1. p \in DOMAIN rsets
    BY <1>3, <1>5, <1>11 DEF Called
  <2>2. F = [trackers EXCEPT ![p].qid = FALSE]
    BY DEF F, p
  <2>3. /\ rules' \in [Clients -> Nat] /\ SetTypes' /\ TrackerInv'
        /\ DOMAIN trackers' \subseteq Ids' /\ trackers' \in [DOMAIN trackers' -> Tracker]
        /\ Due(trackers') = Due(F)
        /\ asked' = asked /\ next_id' = next_id
    BY <1>1, <1>11, <2>1, <2>2, DestroyKeeps
  <2>4. inbox' \in Seq(Messages) /\ CountInv' /\ AnswersInv'
    BY <1>1, <1>8, <2>3, AnswerRead DEF p
  <2>5. QED BY <1>1, <1>4, <2>3, <2>4 DEF DbusInv, BusTypes, Ids
<1>12. QED BY <1>6, <1>9, <1>10, <1>11

LEMMA NewIs ==
    ASSUME NEW c \in Clients
    PROVE  /\ NewRset(c) \in Rset /\ NewRset(c).owner = c /\ NewSet \in Proper
           /\ NewRset(c).status = "pending" /\ ~NewRset(c).locked /\ ~NewRset(c).acquired
           /\ DOMAIN NewRset(c).resources = {}
           /\ ~NewSet.attached /\ NewSet.list = <<>> /\ NewSet.mandatory = {}
           /\ NewSet.grant = {} /\ NewSet.advice = {} /\ NewSet.state = "none"
<1>1. DefaultClass \in Classes
  BY DbusAssumption
<1>2. /\ <<>> \in [{} -> ResourceObject] /\ <<>> \in Seq(Names) /\ DOMAIN <<>> = {}
  BY NothingIs
<1>. DEFINE R == UNION {[D -> ResourceObject] : D \in SUBSET Nat}
            e == <<>>
<1>3. e \in R
  BY <1>2
<1>. HIDE DEF R
<1>4. /\ NewRset(c) \in [owner : Clients, class : Classes, status : Statuses,
                         locked : BOOLEAN, acquired : BOOLEAN, next_id : Nat, resources : R]
      /\ NewRset(c).resources = e /\ NewRset(c).owner = c
      /\ NewRset(c).status = "pending" /\ ~NewRset(c).locked /\ ~NewRset(c).acquired
  BY <1>1, <1>3 DEF NewRset, Statuses
<1>5. NewRset(c) \in RsetObject
  BY <1>4 DEF RsetObject, R
<1>6. NewRset(c) \in Rset
  BY <1>2, <1>4, <1>5 DEF Rset
<1>7. NewSet \in Proper
  BY <1>2 DEF NewSet, Proper, ArbSet
<1>8. QED BY <1>2, <1>4, <1>6, <1>7 DEF NewSet

LEMMA CreateKeeps ==
    ASSUME DbusInv, ServeCreate
    PROVE  DbusInv'
<1>. DEFINE c == Head(inbox).from
            n == next_id
            E == DOMAIN trackers
            B == DOMAIN rsets
            t == [name |-> c, cb |-> TRUE, qid |-> TRUE]
<1>1. /\ acquiring' = acquiring /\ alive' = alive /\ ~broken /\ broken' = broken
      /\ inbox # <<>> /\ Head(inbox).type = "create" /\ inbox' = Tail(inbox)
      /\ rsets' = With(rsets, n, NewRset(c)) /\ set' = With(set, n, NewSet)
      /\ rules' = [rules EXCEPT ![c] = @ + 1]
      /\ trackers' = With(trackers, n, t) /\ asked' = With(asked, n, c)
      /\ next_id' = n + 1
  BY DEF ServeCreate, Handling, Follow, DbusInv
<1>2. /\ inbox \in Seq(Messages) /\ Once(inbox) /\ n \in Nat
      /\ rules \in [Clients -> Nat]
      /\ DOMAIN asked \subseteq 0..(n - 1) /\ asked \in [DOMAIN asked -> Clients]
      /\ E \subseteq 0..(n - 1) /\ trackers \in [E -> Tracker]
      /\ B \subseteq 0..(n - 1) /\ rsets \in [B -> Rset] /\ set \in [B -> Proper]
      /\ acquiring \in B \cup {None}
  BY DEF DbusInv, BusTypes, SetTypes, AnswersInv, Ids
<1>3. c \in Clients
  <2>1. Head(inbox) \in Messages
    BY <1>1, <1>2, TailIndices
  <2>2. QED BY <1>1, <2>1, MessageIs
<1>4. /\ n \notin DOMAIN asked /\ n \notin E /\ n \notin B
      /\ 0..(n - 1) \cup {n} = 0..(n + 1 - 1)
  BY <1>2
<1>5. t \in Tracker /\ t.cb /\ t.qid /\ t.name = c
  BY <1>3 DEF Tracker
<1>. HIDE DEF t, c, E, B
<1>6. /\ trackers' \in [E \cup {n} -> Tracker] /\ DOMAIN trackers' = E \cup {n}
      /\ trackers'[n] = t /\ \A q \in E : trackers'[q] = trackers[q]
  BY <1>1, <1>2, <1>4, <1>5 DEF With
<1>7. asked' \in [DOMAIN asked \cup {n} -> Clients] /\ DOMAIN asked' = DOMAIN asked \cup {n}
  BY <1>1, <1>2, <1>3 DEF With
<1>8. NewRset(c) \in Rset /\ NewRset(c).owner = c /\ NewSet \in Proper
  BY <1>3, NewIs
<1>9. /\ rsets' \in [B \cup {n} -> Rset] /\ DOMAIN rsets' = B \cup {n}
      /\ rsets'[n] = NewRset(c) /\ \A q \in B : rsets'[q] = rsets[q]
  <2>1. DOMAIN rsets = B
    BY DEF B
  <2>2. QED BY <1>1, <1>2, <1>4, <1>8, <2>1 DEF With
<1>10. set' \in [B \cup {n} -> Proper]
  BY <1>1, <1>2, <1>8 DEF With
<1>11. inbox' \in Seq(Messages) /\ Once(inbox') /\ Owed(inbox') = Owed(inbox)
  BY <1>1, <1>2, TailIndices, Read
<1>12. CountInv'
  <2>1. /\ Cardinality(Indices(inbox', "create")) \in Nat
        /\ Cardinality(Indices(inbox, "create")) \in Nat
        /\ Cardinality(Indices(inbox', "create")) + 1 <= Cardinality(Indices(inbox, "create"))
    BY <1>1, <1>2, TailCount
  <2>2. QED BY <1>1, <1>2, <2>1, DbusAssumption DEF DbusInv, CountInv
<1>13. DOMAIN trackers = E /\ DOMAIN rsets = B
  BY DEF E, B
<1>14. /\ Due(trackers') = Due(trackers) \cup {n}
       /\ Called(trackers') = Called(trackers) \cup {n}
       /\ Followers(trackers', c) = Followers(trackers, c) \cup {n}
       /\ \A d : d # c => Followers(trackers', d) = Followers(trackers, d)
       /\ n \notin Followers(trackers, c)
  BY <1>4, <1>5, <1>6, <1>13 DEF Due, Called, Followers
<1>15. AnswersInv'
  <2>1. /\ Owed(inbox) \cap DOMAIN asked = {} /\ Due(trackers) = DOMAIN asked \cup Owed(inbox)
    BY DEF DbusInv, AnswersInv
  <2>2. n \notin Owed(inbox)
    BY <1>4, <1>13, <2>1 DEF Due
  <2>3. QED BY <1>7, <1>11, <1>14, <2>1, <2>2 DEF AnswersInv
<1>16. TrackerInv' /\ rules' \in [Clients -> Nat]
  <2>1. /\ Called(trackers) = B /\ \A q \in B : trackers[q].name = rsets[q].owner
        /\ \A d \in Clients : rules[d] = Cardinality(Followers(trackers, d))
    BY <1>13 DEF DbusInv, TrackerInv
  <2>2. B \subseteq E
    BY <1>13, <2>1 DEF Called
  <2>3. \A q \in B \cup {n} : trackers'[q].name = rsets'[q].owner
    BY <1>5, <1>6, <1>8, <1>9, <2>1, <2>2
  <2>4. Cardinality(Followers(trackers', c)) = Cardinality(Followers(trackers, c)) + 1
    <3>1. E \subseteq 0..n
      BY <1>2
    <3>2. IsFiniteSet(Followers(trackers, c))
      BY <1>2, <1>13, <3>1, FollowersFinite
    <3>3. QED BY <1>14, <3>2, FS_AddElement
  <2>5. \A d \in Clients : rules'[d] = Cardinality(Followers(trackers', d))
    BY <1>1, <1>2, <1>3, <1>14, <2>1, <2>4
  <2>6. rules' \in [Clients -> Nat]
    BY <1>1, <1>2, <1>3
  <2>7. QED BY <1>9, <1>14, <2>1, <2>3, <2>5, <2>6 DEF TrackerInv
<1>17. SetTypes'
  BY <1>1, <1>2, <1>4, <1>9, <1>10 DEF SetTypes, Ids
<1>18. BusTypes'
  BY <1>1, <1>2, <1>4, <1>6, <1>7, <1>11, <1>16 DEF DbusInv, BusTypes, Ids
<1>19. QED BY <1>1, <1>12, <1>15, <1>16, <1>17, <1>18 DEF DbusInv

LEMMA NextKeeps == DbusInv /\ [Next]_vars => DbusInv'
<1>. SUFFICES ASSUME DbusInv, [Next]_vars
              PROVE  DbusInv'
  OBVIOUS
<1>1. CASE UNCHANGED vars
  <2>1. /\ alive' = alive /\ KeepNames /\ broken' = broken /\ inbox' = inbox
        /\ UNCHANGED <<rules, trackers, next_id, rsets, set, acquiring>>
    BY <1>1 DEF vars, bus, objects, KeepNames
  <2>2. SetTypes' /\ TrackerInv'
    BY <2>1, SameObjects
  <2>3. QED BY <2>1, <2>2, QuietStep
<1>2. CASE Daemon
  BY <1>2, CreateKeeps, EditsKeep, RequestKeeps, AcquireKeeps, ReleaseKeeps, DeleteKeeps,
     IgnoreKeeps, GoneKeeps, OwnerKeeps DEF Daemon
<1>3. CASE OthersUpdate
  BY <1>3, OthersKeep
<1>4. CASE ClientCalls
  BY <1>4, ClientCallsKeep
<1>5. CASE \E c \in Clients : Leave(c)
  BY <1>5, LeaveKeeps
<1>6. CASE \E p \in Paths : BusAnswers(p)
  BY <1>6, BusAnswersKeep
<1>7. QED BY <1>1, <1>2, <1>3, <1>4, <1>5, <1>6 DEF Next

LEMMA InvHolds == Spec => []DbusInv
<1>1. DbusInv /\ [Next]_vars => DbusInv'
  BY NextKeeps
<1>2. QED BY <1>1, InitHolds, PTL DEF Spec

LEMMA InvIsSound == DbusInv => Sound
<1>. SUFFICES ASSUME DbusInv
              PROVE  Sound
  OBVIOUS
<1>1. /\ BusTypes /\ SetTypes /\ CountInv /\ AnswersInv /\ TrackerInv /\ ~broken
  BY DEF DbusInv
<1>2. next_id \in 0..MaxSets
  <2>1. Cardinality(Indices(inbox, "create")) \in Nat
    <3>1. inbox \in Seq(Messages)
      BY <1>1 DEF BusTypes
    <3>2. IsFiniteSet(1..Len(inbox))
      BY <3>1, FS_Interval
    <3>3. Indices(inbox, "create") \subseteq 1..Len(inbox)
      BY <3>1 DEF Indices
    <3>4. QED BY <3>2, <3>3, FS_Subset, FS_CardinalityType
  <2>2. QED BY <1>1, <2>1, DbusAssumption DEF BusTypes, CountInv
<1>3. ASSUME NEW p \in DOMAIN rsets
      PROVE  /\ rsets[p].owner \in Clients /\ rsets[p].class \in Classes
             /\ rsets[p].status \in Statuses
             /\ {rsets[p].locked, rsets[p].acquired} \subseteq BOOLEAN
             /\ \A i \in DOMAIN rsets[p].resources :
                  rsets[p].resources[i] \in ResourceObject
  <2>1. rsets[p] \in Rset
    BY <1>1 DEF SetTypes
  <2>2. QED BY <2>1, RsetIs DEF RsetObject
<1>4. ASSUME NEW p \in DOMAIN set
      PROVE  /\ set[p].state \in {"none", "acquire", "release"}
             /\ {set[p].mandatory, set[p].grant, set[p].advice} \subseteq SUBSET ToSet(set[p].list)
  BY <1>1 DEF SetTypes, Proper, ArbSet
<1>5. TypeOK
  BY <1>1, <1>2, <1>3, <1>4 DEF TypeOK, BusTypes, SetTypes, Ids, ResourceObject
<1>6. DOMAIN set = DOMAIN rsets
  BY <1>1 DEF SetTypes
<1>7. \A c \in Clients : Following(c) = Followers(trackers, c)
  BY DEF Following, Followers
<1>8. Owed(inbox) = {m.path : m \in {k \in ToSet(inbox) : k.type = "owner"}}
  BY DEF Owed, Indices, ToSet
<1>9. OneToOne
  BY <1>1, <1>6, <1>7, <1>8 DEF OneToOne, TrackerInv, AnswersInv, Called, Due
<1>10. QED BY <1>1, <1>5, <1>9 DEF Sound

\* Set objects, sets of the arbitration, trackers of names and rules on the bus
\* come and go together, whatever the clients' habits and in whatever order
\* their calls, the end of their names and the answers of the bus arrive: nothing
\* is freed early by common/dbus.c, and nothing left behind.
THEOREM FollowedNames == Spec => []Sound
  BY InvHolds, InvIsSound, PTL

-----------------------------------------------------------------------------
(* What objects show, for clients without the habits *)

\* The statuses are those of the set.
Shows(r, x) ==
    IF r.status = "pending"
    THEN x.grant = {} /\ \A i \in Known(r) : r.resources[i].status = "pending"
    ELSE /\ r.acquired
         /\ r.status = Status(x.grant # {}, x.advice # {})
         /\ \A i \in Known(r) : r.resources[i].status =
              Status(r.resources[i].name \in x.grant, r.resources[i].name \in x.advice)

Mandatory(r) == {r.resources[i].name : i \in {j \in Known(r) : r.resources[j].mandatory}}

\* The set has the resources of the object.
Matches(r, x) ==
    IsInjective(x.list) /\ ToSet(x.list) = KnownNames(r) /\ x.mandatory = Mandatory(r)

\* An object and its set, when an update of the zone may begin; held: between
\* the two updates of its request.
Ready(r, x, held) ==
    /\ r.locked = r.acquired /\ x.attached = (r.locked \/ held)
    /\ x.state = "acquire" => r.acquired
    /\ ~x.attached => x.grant = {}
    /\ Distinct(r) /\ Shows(r, x)
    /\ x.attached => Matches(r, x)

\* The same after the update.
Fit(r, x, held) == Ready(r, x, held) /\ (x.grant # {} => x.state = "acquire")

Edits(q, p) == {i \in DOMAIN q : q[i].type \in {"add", "delete resource"} /\ q[i].path = p}
Additions(q, p) == {i \in Edits(q, p) : q[i].type = "add"}
Requests(q, p) == {i \in DOMAIN q : q[i].type = "request" /\ q[i].path = p}

\* The set has resources, or had its request.
Sealed(r, x, held) == r.locked \/ held \/ x.list # <<>>

\* One request is under way at first, behind what it is about.
Orderly(q, p, sealed, locked) ==
    IF sealed
    THEN Edits(q, p) = {} /\ (~locked => Requests(q, p) = {})
    ELSE \A i \in Requests(q, p) : /\ \A j \in Requests(q, p) : j = i
                                   /\ \A j \in Edits(q, p) : j < i

\* What is still to be added has other names.
Fresh(q, p, r) ==
    \A i \in Additions(q, p) :
      /\ \A j \in Additions(q, p) : q[i].name = q[j].name => i = j
      /\ \A k \in DOMAIN r.resources : r.resources[k].name # q[i].name

CallsAgree(q, p, r, x, held) == Orderly(q, p, Sealed(r, x, held), r.locked) /\ Fresh(q, p, r)

ShownInv ==
    \A p \in DOMAIN rsets : /\ Fit(rsets[p], set[p], acquiring = p)
                            /\ CallsAgree(inbox, p, rsets[p], set[p], acquiring = p)

\* Edits and requests are of sets there are, or were.
PathInv ==
    \A i \in DOMAIN inbox :
      inbox[i].type \in {"add", "delete resource", "request"} => inbox[i].path \in Ids

\* After its event an object shows what its set has.
LEMMA EventFits ==
    ASSUME NEW r \in Rset, NEW w, NEW y, y = EventCb(r, w), Distinct(r), Matches(r, w),
           ~r.acquired => Shows(r, w)
    PROVE  /\ Shows(y, w) /\ Matches(y, w) /\ Distinct(y)
           /\ y.locked = r.locked /\ y.acquired = r.acquired
           /\ DOMAIN y.resources = DOMAIN r.resources
           /\ \A i \in DOMAIN r.resources : y.resources[i].name = r.resources[i].name
<1>1. /\ y.locked = r.locked /\ y.acquired = r.acquired
      /\ DOMAIN y.resources = DOMAIN r.resources
      /\ \A i \in DOMAIN r.resources :
           /\ y.resources[i].name = r.resources[i].name
           /\ y.resources[i].mandatory = r.resources[i].mandatory
  BY EventIs
<1>2. Known(y) = Known(r)
  BY <1>1 DEF Known
<1>3. KnownNames(y) = KnownNames(r) /\ Mandatory(y) = Mandatory(r)
  BY <1>1, <1>2 DEF KnownNames, Mandatory, Known
<1>4. Matches(y, w) /\ Distinct(y)
  BY <1>1, <1>3 DEF Matches, Distinct
<1>5. CASE ~r.acquired
  <2>1. y = r
    BY <1>5, EventIs
  <2>2. Shows(y, w)
    BY <1>5, <2>1
  <2>3. QED BY <1>1, <1>4, <2>2
<1>6. CASE r.acquired
  <2>1. /\ y.status = Status(w.grant # {}, w.advice # {})
        /\ \A i \in DOMAIN r.resources :
             LET n == r.resources[i].name IN
             IF n \in ToSet(w.list) /\ i \in ByName(r, n)
             THEN y.resources[i].status = Status(n \in w.grant, n \in w.advice)
             ELSE y.resources[i].status = r.resources[i].status
    BY <1>6, EventIs
  <2>2. y.status # "pending"
    BY <2>1 DEF Status
  <2>3. ASSUME NEW i \in Known(r)
        PROVE  r.resources[i].name \in ToSet(w.list) /\ i \in ByName(r, r.resources[i].name)
    <3>1. r.resources[i].name \in ToSet(w.list)
      BY DEF Matches, KnownNames
    <3>2. i \in DOMAIN r.resources /\ DOMAIN r.resources \subseteq Nat
      BY RsetIs
    <3>. DEFINE n == r.resources[i].name
                same == {j \in DOMAIN r.resources : r.resources[j].name = n}
    <3>3. i \in same /\ same \subseteq {i} /\ same \subseteq Nat
      BY <3>2 DEF Distinct
    <3>. HIDE DEF same
    <3>4. Min(same) = i
      BY <3>3, Least
    <3>5. ByName(r, n) = {Min(same)}
      BY <3>3 DEF ByName, same
    <3>6. QED BY <3>1, <3>4, <3>5
  <2>4. \A i \in Known(r) :
          /\ y.resources[i].name = r.resources[i].name
          /\ y.resources[i].status =
               Status(r.resources[i].name \in w.grant, r.resources[i].name \in w.advice)
    BY <1>1, <2>1, <2>3 DEF Known
  <2>5. Shows(y, w)
    BY <1>1, <1>2, <1>6, <2>1, <2>2, <2>4 DEF Shows
  <2>6. QED BY <1>1, <1>4, <2>5
<1>7. QED BY <1>5, <1>6

\* An update, and its event, keep an object in agreement with its set.
LEMMA UpdateFits ==
    ASSUME NEW r \in Rset, NEW x \in Proper, NEW w \in Outcomes(x), NEW held \in BOOLEAN,
           Ready(r, x, held), NEW y, y = IF w # x THEN EventCb(r, w) ELSE r
    PROVE  /\ Fit(y, w, held) /\ y.locked = r.locked /\ w.list = x.list
           /\ DOMAIN y.resources = DOMAIN r.resources
           /\ \A i \in DOMAIN r.resources : y.resources[i].name = r.resources[i].name
<1>1. /\ w \in Proper
      /\ w.list = x.list /\ w.mandatory = x.mandatory /\ w.attached = x.attached
      /\ w.state \in {x.state, "release"}
      /\ ~x.attached => w = x
      /\ x.attached /\ w.grant # {} => w.state = "acquire" /\ w.advice = w.grant
  BY OutcomeIs
<1>2. w.grant # {} => w.state = "acquire"
  BY <1>1 DEF Ready
<1>3. CASE w = x
  BY <1>1, <1>2, <1>3 DEF Fit
<1>4. CASE w # x
  <2>1. x.attached /\ y = EventCb(r, w) /\ Distinct(r) /\ Matches(r, w)
    BY <1>1, <1>4 DEF Ready, Matches
  <2>2. ~r.acquired => Shows(r, w)
    BY <1>1, <1>2 DEF Ready, Shows
  <2>3. /\ Shows(y, w) /\ Matches(y, w) /\ Distinct(y)
        /\ y.locked = r.locked /\ y.acquired = r.acquired
        /\ DOMAIN y.resources = DOMAIN r.resources
        /\ \A i \in DOMAIN r.resources : y.resources[i].name = r.resources[i].name
    BY <2>1, <2>2, EventFits
  <2>4. Ready(y, w, held)
    BY <1>1, <2>1, <2>3 DEF Ready
  <2>5. QED BY <1>1, <1>2, <2>3, <2>4 DEF Fit
<1>5. QED BY <1>3, <1>4

\* What the calls under way are about does not change with what is shown.
LEMMA CallsStay ==
    ASSUME NEW q, NEW p, NEW r, NEW y, NEW x, NEW w, NEW held,
           CallsAgree(q, p, r, x, held), y.locked = r.locked, w.list = x.list,
           DOMAIN y.resources = DOMAIN r.resources,
           \A i \in DOMAIN r.resources : y.resources[i].name = r.resources[i].name
    PROVE  CallsAgree(q, p, y, w, held)
  BY DEF CallsAgree, Orderly, Sealed, Fresh

\* Indices in a sequence that lost its first entry.
LEMMA TailEdits ==
    ASSUME NEW q \in Seq(Messages), q # <<>>, NEW p
    PROVE  /\ \A i \in Edits(Tail(q), p) : i + 1 \in Edits(q, p)
           /\ \A i \in Additions(Tail(q), p) : i + 1 \in Additions(q, p)
           /\ \A i \in Requests(Tail(q), p) : i + 1 \in Requests(q, p)
           /\ \A i \in DOMAIN Tail(q) : i \in Nat \ {0} /\ i + 1 \in DOMAIN q
           /\ \A i \in DOMAIN Tail(q) : Tail(q)[i] = q[i + 1]
           /\ Head(q) = q[1] /\ 1 \in DOMAIN q
<1>. DEFINE a == Tail(q)
<1>1. /\ Len(q) \in Nat \ {0} /\ DOMAIN q = 1..Len(q) /\ DOMAIN a = 1..(Len(q) - 1)
      /\ Head(q) = q[1]
      /\ \A i \in DOMAIN a : a[i] = q[i + 1]
  BY TailIs
<1>. HIDE DEF a
<1>2. \A i \in DOMAIN a : i \in Nat \ {0} /\ i + 1 \in DOMAIN q
  BY <1>1
<1>3. /\ \A i \in Edits(a, p) : i + 1 \in Edits(q, p)
      /\ \A i \in Requests(a, p) : i + 1 \in Requests(q, p)
  BY <1>1, <1>2 DEF Edits, Requests
<1>4. \A i \in Additions(a, p) : i + 1 \in Additions(q, p)
  <2>1. SUFFICES ASSUME NEW i \in Additions(a, p)
                 PROVE  i + 1 \in Additions(q, p)
    OBVIOUS
  <2>2. i \in Edits(a, p) /\ a[i].type = "add" /\ i \in DOMAIN a
    BY DEF Additions, Edits
  <2>3. QED BY <1>1, <1>3, <2>2 DEF Additions
<1>5. QED BY <1>1, <1>2, <1>3, <1>4 DEF a

\* Reading a message.
LEMMA TailAgrees ==
    ASSUME NEW q \in Seq(Messages), q # <<>>, NEW p, NEW r, NEW x, NEW held,
           CallsAgree(q, p, r, x, held)
    PROVE  CallsAgree(Tail(q), p, r, x, held)
<1>. DEFINE a == Tail(q)
            s == Sealed(r, x, held)
<1>1. /\ \A i \in Edits(a, p) : i + 1 \in Edits(q, p)
      /\ \A i \in Additions(a, p) : i + 1 \in Additions(q, p)
      /\ \A i \in Requests(a, p) : i + 1 \in Requests(q, p)
      /\ \A i \in DOMAIN a : i \in Nat \ {0} /\ a[i] = q[i + 1]
  BY TailEdits
<1>. HIDE DEF a, s
<1>2. Orderly(q, p, s, r.locked) /\ Fresh(q, p, r)
  BY DEF CallsAgree, s
<1>3. Edits(a, p) \subseteq DOMAIN a /\ Requests(a, p) \subseteq DOMAIN a
      /\ Additions(a, p) \subseteq DOMAIN a
  BY DEF Edits, Requests, Additions
<1>4. Orderly(a, p, s, r.locked)
  <2>1. CASE s
    BY <1>1, <1>2, <2>1 DEF Orderly
  <2>2. CASE ~s
    <3>1. ASSUME NEW i \in Requests(a, p), NEW j \in Requests(a, p)
          PROVE  j = i
      <4>1. i + 1 = j + 1 /\ i \in Nat /\ j \in Nat
        BY <1>1, <1>2, <1>3, <2>2 DEF Orderly
      <4>2. QED BY <4>1
    <3>2. ASSUME NEW i \in Requests(a, p), NEW j \in Edits(a, p)
          PROVE  j < i
      <4>1. j + 1 < i + 1 /\ i \in Nat /\ j \in Nat
        BY <1>1, <1>2, <1>3, <2>2 DEF Orderly
      <4>2. QED BY <4>1
    <3>3. QED BY <2>2, <3>1, <3>2 DEF Orderly
  <2>3. QED BY <2>1, <2>2
<1>5. Fresh(a, p, r)
  <2>1. SUFFICES ASSUME NEW i \in Additions(a, p)
                 PROVE  /\ \A j \in Additions(a, p) : a[i].name = a[j].name => i = j
                        /\ \A k \in DOMAIN r.resources : r.resources[k].name # a[i].name
    BY DEF Fresh
  <2>2. i + 1 \in Additions(q, p) /\ a[i] = q[i + 1] /\ i \in Nat
    BY <1>1, <1>3
  <2>3. ASSUME NEW j \in Additions(a, p), a[i].name = a[j].name
        PROVE  i = j
    <3>1. j + 1 \in Additions(q, p) /\ a[j] = q[j + 1] /\ j \in Nat
      BY <1>1, <1>3
    <3>2. i + 1 = j + 1
      BY <1>2, <2>2, <2>3, <3>1 DEF Fresh
    <3>3. QED BY <2>2, <3>1, <3>2
  <2>4. QED BY <1>2, <2>2, <2>3 DEF Fresh
<1>6. QED BY <1>4, <1>5 DEF CallsAgree, a, s

\* Reading the request of a set that had none.
LEMMA RequestRead ==
    ASSUME NEW q \in Seq(Messages), q # <<>>, NEW p, NEW r, NEW x, NEW held,
           CallsAgree(q, p, r, x, held), ~r.locked,
           Head(q).type = "request", Head(q).path = p
    PROVE  /\ ~held /\ x.list = <<>>
           /\ Edits(Tail(q), p) = {} /\ Additions(Tail(q), p) = {} /\ Requests(Tail(q), p) = {}
<1>. DEFINE a == Tail(q)
<1>1. /\ \A i \in Edits(a, p) : i + 1 \in Edits(q, p)
      /\ \A i \in Requests(a, p) : i + 1 \in Requests(q, p)
      /\ \A i \in DOMAIN a : i \in Nat \ {0}
      /\ Head(q) = q[1] /\ 1 \in DOMAIN q
  BY TailEdits
<1>. HIDE DEF a
<1>2. 1 \in Requests(q, p)
  BY <1>1 DEF Requests
<1>3. ~Sealed(r, x, held)
  BY <1>2 DEF CallsAgree, Orderly
<1>4. /\ \A j \in Requests(q, p) : j = 1
      /\ \A j \in Edits(q, p) : j < 1
  BY <1>2, <1>3 DEF CallsAgree, Orderly
<1>5. Edits(a, p) = {} /\ Requests(a, p) = {}
  <2>1. Edits(a, p) \subseteq DOMAIN a /\ Requests(a, p) \subseteq DOMAIN a
    BY DEF Edits, Requests
  <2>2. ASSUME NEW i \in Edits(a, p)
        PROVE  FALSE
    <3>1. i \in Nat \ {0} /\ i + 1 < 1
      BY <1>1, <1>4, <2>1
    <3>2. QED BY <3>1
  <2>3. ASSUME NEW i \in Requests(a, p)
        PROVE  FALSE
    <3>1. i \in Nat \ {0} /\ i + 1 = 1
      BY <1>1, <1>4, <2>1
    <3>2. QED BY <3>1
  <2>4. QED BY <2>2, <2>3
<1>6. QED BY <1>3, <1>5 DEF Sealed, Additions, a

\* Reading an edit: nothing was asked for yet.
LEMMA EditRead ==
    ASSUME NEW q \in Seq(Messages), q # <<>>, NEW p, NEW r, NEW x, NEW held,
           CallsAgree(q, p, r, x, held),
           Head(q).type \in {"add", "delete resource"}, Head(q).path = p
    PROVE  ~Sealed(r, x, held)
<1>1. Head(q) = q[1] /\ 1 \in DOMAIN q
  BY TailEdits
<1>2. 1 \in Edits(q, p)
  BY <1>1 DEF Edits
<1>3. QED BY <1>2 DEF CallsAgree, Orderly

\* Reading an addition: the name is new.
LEMMA AdditionRead ==
    ASSUME NEW q \in Seq(Messages), q # <<>>, NEW p, NEW r \in Rset, NEW x, NEW held,
           CallsAgree(q, p, r, x, held), Head(q).type = "add", Head(q).path = p,
           Head(q).name \in Names
    PROVE  /\ \A k \in DOMAIN r.resources : r.resources[k].name # Head(q).name
           /\ CallsAgree(Tail(q), p, Added(r, Head(q).name), x, held)
<1>. DEFINE a == Tail(q)
            n == Head(q).name
            y == Added(r, n)
<1>1. /\ \A i \in Additions(a, p) : i + 1 \in Additions(q, p)
      /\ \A i \in DOMAIN a : i \in Nat \ {0} /\ a[i] = q[i + 1]
      /\ Head(q) = q[1] /\ 1 \in DOMAIN q
  BY TailEdits
<1>2. /\ y.locked = r.locked
      /\ DOMAIN y.resources = DOMAIN r.resources \cup {r.next_id}
      /\ y.resources[r.next_id].name = n
      /\ \A i \in DOMAIN r.resources : y.resources[i] = r.resources[i]
  <2>1. NewResource(n).name = n
    BY DEF NewResource
  <2>2. /\ y.locked = r.locked
        /\ DOMAIN y.resources = DOMAIN r.resources \cup {r.next_id}
        /\ y.resources[r.next_id] = NewResource(n)
        /\ \A i \in DOMAIN r.resources : y.resources[i] = r.resources[i]
    BY AddedIs
  <2>3. QED BY <2>1, <2>2
<1>3. CallsAgree(a, p, r, x, held)
  BY TailAgrees
<1>4. q[1].name = n /\ 1 \in Additions(q, p)
  BY <1>1 DEF Additions, Edits
<1>. HIDE DEF a, n, y
<1>5. \A k \in DOMAIN r.resources : r.resources[k].name # n
  BY <1>4 DEF CallsAgree, Fresh
<1>6. \A i \in Additions(a, p) : a[i].name # n
  <2>1. SUFFICES ASSUME NEW i \in Additions(a, p), a[i].name = n
                 PROVE  FALSE
    OBVIOUS
  <2>2. i \in DOMAIN a
    BY DEF Additions, Edits
  <2>3. i + 1 \in Additions(q, p) /\ q[i + 1].name = n /\ i \in Nat \ {0}
    BY <1>1, <2>1, <2>2
  <2>4. i + 1 = 1
    BY <1>4, <2>3 DEF CallsAgree, Fresh
  <2>5. QED BY <2>3, <2>4
<1>7. Fresh(a, p, y)
  BY <1>2, <1>3, <1>6 DEF CallsAgree, Fresh
<1>8. Orderly(a, p, Sealed(y, x, held), y.locked)
  BY <1>2, <1>3 DEF CallsAgree, Sealed
<1>9. QED BY <1>5, <1>7, <1>8 DEF CallsAgree, a, n, y

\* The sequence a is q with m behind it.
Longer(a, q, m) ==
    \E n : /\ n \notin DOMAIN q /\ DOMAIN a = DOMAIN q \cup {n} /\ a[n] = m
           /\ \A i \in DOMAIN q : a[i] = q[i] /\ i < n

LEMMA AppendLonger ==
    ASSUME NEW q \in Seq(Messages), NEW m \in Messages
    PROVE  Longer(Append(q, m), q, m)
<1>. DEFINE a == Append(q, m)
            n == Len(q) + 1
<1>1. /\ DOMAIN a = 1..n /\ DOMAIN q = 1..Len(q) /\ Len(q) \in Nat /\ a[n] = m
      /\ \A i \in DOMAIN q : a[i] = q[i]
  BY AppendIs
<1>. HIDE DEF a
<1>2. /\ \A i \in DOMAIN q : a[i] = q[i] /\ i < n
      /\ DOMAIN a = DOMAIN q \cup {n} /\ n \notin DOMAIN q
  BY <1>1
<1>3. QED BY <1>1, <1>2 DEF Longer, a

\* Messages about other things.
LEMMA OtherSent ==
    ASSUME NEW q, NEW m, NEW a, Longer(a, q, m), NEW p, NEW r, NEW x, NEW held,
           CallsAgree(q, p, r, x, held),
           m.type \in {"add", "delete resource", "request"} => m.path # p
    PROVE  CallsAgree(a, p, r, x, held)
<1>0. PICK n : /\ n \notin DOMAIN q /\ DOMAIN a = DOMAIN q \cup {n} /\ a[n] = m
               /\ \A i \in DOMAIN q : a[i] = q[i] /\ i < n
  BY DEF Longer
<1>1. /\ Edits(a, p) = Edits(q, p) /\ Additions(a, p) = Additions(q, p)
      /\ Requests(a, p) = Requests(q, p) /\ Additions(q, p) \subseteq DOMAIN q
      /\ \A i \in DOMAIN q : a[i] = q[i]
  BY <1>0 DEF Edits, Additions, Requests
<1>2. QED BY <1>1 DEF CallsAgree, Orderly, Fresh

\* A request, the first one or one of a locked set.
LEMMA RequestSent ==
    ASSUME NEW q, NEW m, NEW a, Longer(a, q, m), NEW p, NEW r, NEW x,
           CallsAgree(q, p, r, x, FALSE), m.type = "request", m.path = p,
           r.locked \/ (x.list = <<>> /\ Requests(q, p) = {})
    PROVE  CallsAgree(a, p, r, x, FALSE)
<1>0. PICK n : /\ n \notin DOMAIN q /\ DOMAIN a = DOMAIN q \cup {n} /\ a[n] = m
               /\ \A i \in DOMAIN q : a[i] = q[i] /\ i < n
  BY DEF Longer
<1>1. /\ Edits(a, p) = Edits(q, p) /\ Additions(a, p) = Additions(q, p)
      /\ Requests(a, p) = Requests(q, p) \cup {n}
      /\ Edits(q, p) \subseteq DOMAIN q /\ Additions(q, p) \subseteq DOMAIN q
      /\ \A i \in DOMAIN q : a[i] = q[i] /\ i < n
  BY <1>0 DEF Edits, Additions, Requests
<1>2. Fresh(a, p, r)
  BY <1>1 DEF CallsAgree, Fresh
<1>3. CASE r.locked
  BY <1>1, <1>2, <1>3 DEF CallsAgree, Orderly, Sealed
<1>4. CASE ~r.locked /\ x.list = <<>> /\ Requests(q, p) = {}
  <2>1. Orderly(a, p, Sealed(r, x, FALSE), r.locked)
    BY <1>1, <1>4 DEF Orderly, Sealed
  <2>2. QED BY <1>2, <2>1 DEF CallsAgree
<1>5. QED BY <1>3, <1>4

\* An edit, before any request.
LEMMA EditSent ==
    ASSUME NEW q, NEW m, NEW a, Longer(a, q, m), NEW p, NEW r, NEW x,
           CallsAgree(q, p, r, x, FALSE), m.type \in {"add", "delete resource"}, m.path = p,
           ~r.locked, x.list = <<>>, Requests(q, p) = {},
           m.type = "add" =>
             /\ \A i \in Additions(q, p) : q[i].name # m.name
             /\ \A k \in DOMAIN r.resources : r.resources[k].name # m.name
    PROVE  CallsAgree(a, p, r, x, FALSE)
<1>0. PICK n : /\ n \notin DOMAIN q /\ DOMAIN a = DOMAIN q \cup {n} /\ a[n] = m
               /\ \A i \in DOMAIN q : a[i] = q[i] /\ i < n
  BY DEF Longer
<1>1. /\ Requests(a, p) = {} /\ Additions(q, p) \subseteq DOMAIN q
      /\ Additions(a, p) = Additions(q, p) \cup (IF m.type = "add" THEN {n} ELSE {})
      /\ n \notin DOMAIN q
      /\ a[n] = m /\ \A i \in DOMAIN q : a[i] = q[i] /\ i < n
  BY <1>0 DEF Edits, Additions, Requests
<1>2. Orderly(a, p, Sealed(r, x, FALSE), r.locked)
  BY <1>1 DEF Sealed, Orderly
<1>3. CASE m.type = "add"
  <2>1. Additions(a, p) = Additions(q, p) \cup {n}
    BY <1>1, <1>3
  <2>2. Fresh(a, p, r)
    BY <1>1, <1>3, <2>1 DEF CallsAgree, Fresh
  <2>3. QED BY <1>2, <2>2 DEF CallsAgree
<1>4. CASE m.type # "add"
  <2>1. /\ Additions(a, p) = Additions(q, p)
        /\ \A i \in Additions(q, p) : a[i] = q[i]
    BY <1>1, <1>4
  <2>2. Fresh(q, p, r)
    BY DEF CallsAgree
  <2>3. Fresh(a, p, r)
    BY <2>1, <2>2 DEF Fresh
  <2>4. QED BY <1>2, <2>3 DEF CallsAgree
<1>5. QED BY <1>3, <1>4

LEMMA PathsStay ==
    ASSUME DbusInv, PathInv, Ids \subseteq Ids',
           \/ inbox' = inbox
           \/ inbox # <<>> /\ inbox' = Tail(inbox)
           \/ \E m \in Messages :
                /\ m.type \in {"add", "delete resource", "request"} => m.path \in Ids
                /\ inbox' = Append(inbox, m)
    PROVE  PathInv'
<1>1. inbox \in Seq(Messages)
  BY DEF DbusInv, BusTypes
<1>2. CASE inbox' = inbox
  BY <1>2 DEF PathInv
<1>3. CASE inbox # <<>> /\ inbox' = Tail(inbox)
  <2>1. \A i \in DOMAIN inbox' : i + 1 \in DOMAIN inbox /\ inbox'[i] = inbox[i + 1]
    BY <1>1, <1>3, TailEdits
  <2>2. QED BY <2>1 DEF PathInv
<1>4. CASE \E m \in Messages :
              /\ m.type \in {"add", "delete resource", "request"} => m.path \in Ids
              /\ inbox' = Append(inbox, m)
  <2>1. PICK m \in Messages :
              /\ m.type \in {"add", "delete resource", "request"} => m.path \in Ids
              /\ inbox' = Append(inbox, m)
    BY <1>4
  <2>2. Longer(inbox', inbox, m)
    BY <1>1, <2>1, AppendLonger
  <2>3. QED BY <2>1, <2>2 DEF PathInv, Longer
<1>5. QED BY <1>2, <1>3, <1>4

LEMMA TailShows ==
    ASSUME DbusInv, ShownInv, inbox # <<>>
    PROVE  \A p \in DOMAIN rsets :
             CallsAgree(Tail(inbox), p, rsets[p], set[p], acquiring = p)
<1>1. inbox \in Seq(Messages)
  BY DEF DbusInv, BusTypes
<1>2. QED BY <1>1, TailAgrees DEF ShownInv

\* Steps that change no object.
LEMMA SameShows ==
    ASSUME DbusInv, ShownInv, PathInv, UNCHANGED <<next_id, rsets, set, acquiring>>,
           \/ inbox' = inbox
           \/ inbox # <<>> /\ inbox' = Tail(inbox)
           \/ \E m \in Messages : /\ m.type \notin {"add", "delete resource", "request"}
                                  /\ inbox' = Append(inbox, m)
    PROVE  ShownInv' /\ PathInv'
<1>1. Ids \subseteq Ids'
  BY DEF Ids
<1>2. PathInv'
  BY <1>1, PathsStay
<1>3. \A p \in DOMAIN rsets : CallsAgree(inbox', p, rsets[p], set[p], acquiring = p)
  <2>1. CASE inbox' = inbox
    BY <2>1 DEF ShownInv
  <2>2. CASE inbox # <<>> /\ inbox' = Tail(inbox)
    BY <2>2, TailShows
  <2>3. CASE \E m \in Messages : /\ m.type \notin {"add", "delete resource", "request"}
                                 /\ inbox' = Append(inbox, m)
    <3>1. PICK m \in Messages : /\ m.type \notin {"add", "delete resource", "request"}
                                /\ inbox' = Append(inbox, m)
      BY <2>3
    <3>2. Longer(inbox', inbox, m)
      BY <3>1, AppendLonger DEF DbusInv, BusTypes
    <3>3. QED BY <3>1, <3>2, OtherSent DEF ShownInv
  <2>4. QED BY <2>1, <2>2, <2>3
<1>4. QED BY <1>2, <1>3 DEF ShownInv

LEMMA NotNone == ASSUME DbusInv, NEW p \in DOMAIN rsets PROVE None # p /\ p \in Ids /\ p \in Nat
  BY NextId, DbusAssumption DEF DbusInv, SetTypes

\* An object is edited.
LEMMA EditShows ==
    ASSUME DbusInv, ShownInv, PathInv, acquiring = None, inbox # <<>>, inbox' = Tail(inbox),
           KeepRest, NEW p \in DOMAIN rsets, NEW r \in Rset, rsets' = [rsets EXCEPT ![p] = r],
           Fit(r, set[p], FALSE), CallsAgree(Tail(inbox), p, r, set[p], FALSE)
    PROVE  ShownInv' /\ PathInv'
<1>1. next_id' = next_id /\ set' = set /\ acquiring' = acquiring
  BY DEF KeepRest, KeepNames
<1>2. PathInv'
  BY <1>1, PathsStay DEF Ids
<1>3. /\ DOMAIN rsets' = DOMAIN rsets /\ rsets'[p] = r
      /\ \A o \in DOMAIN rsets : o # p => rsets'[o] = rsets[o]
  BY DEF DbusInv, SetTypes
<1>4. (acquiring' = p) = FALSE
  BY <1>1, NotNone
<1>5. ASSUME NEW o \in DOMAIN rsets, o # p
      PROVE  /\ Fit(rsets'[o], set'[o], acquiring' = o)
             /\ CallsAgree(inbox', o, rsets'[o], set'[o], acquiring' = o)
  BY <1>1, <1>3, <1>5, TailShows DEF ShownInv
<1>6. /\ Fit(rsets'[p], set'[p], acquiring' = p)
      /\ CallsAgree(inbox', p, rsets'[p], set'[p], acquiring' = p)
  BY <1>1, <1>3, <1>4
<1>7. QED BY <1>2, <1>3, <1>5, <1>6 DEF ShownInv

\* Before the request nothing has to agree with anything.
LEMMA PendingFits ==
    ASSUME NEW r, NEW x, NEW y, Fit(r, x, FALSE), ~r.locked,
           y.locked = r.locked, y.acquired = r.acquired, y.status = r.status, Distinct(y),
           \A i \in Known(y) : y.resources[i].status = "pending"
    PROVE  Fit(y, x, FALSE)
<1>1. /\ ~r.acquired /\ x.attached = FALSE /\ x.grant = {}
      /\ r.status = "pending"
  BY DEF Fit, Ready, Shows
<1>2. Shows(y, x)
  BY <1>1 DEF Shows
<1>3. QED BY <1>1, <1>2 DEF Fit, Ready

\* What the inbox and the objects are when an edit or a request is read.
LEMMA HeadIs ==
    ASSUME DbusInv, ShownInv,
           NEW type \in {"add", "class", "mandatory", "delete resource", "request",
                         "release", "delete"}, Serving(type),
           NEW p, p = Head(inbox).path
    PROVE  /\ p \in DOMAIN rsets /\ rsets[p] \in Rset /\ set[p] \in Proper
           /\ acquiring = None /\ (acquiring = p) = FALSE
           /\ inbox # <<>> /\ inbox \in Seq(Messages) /\ inbox' = Tail(inbox)
           /\ Head(inbox) \in Messages /\ Head(inbox).type = type
           /\ Fit(rsets[p], set[p], FALSE)
           /\ CallsAgree(inbox, p, rsets[p], set[p], FALSE)
           /\ CallsAgree(Tail(inbox), p, rsets[p], set[p], FALSE)
<1>1. /\ acquiring = None /\ inbox # <<>> /\ inbox' = Tail(inbox)
      /\ Head(inbox) \in Messages /\ Head(inbox).type = type /\ p \in DOMAIN rsets
  BY ServingIs
<1>2. inbox \in Seq(Messages) /\ rsets[p] \in Rset /\ set[p] \in Proper
  BY <1>1 DEF DbusInv, BusTypes, SetTypes
<1>3. (acquiring = p) = FALSE
  BY <1>1, NotNone
<1>4. Fit(rsets[p], set[p], FALSE) /\ CallsAgree(inbox, p, rsets[p], set[p], FALSE)
  BY <1>1, <1>3 DEF ShownInv
<1>5. CallsAgree(Tail(inbox), p, rsets[p], set[p], FALSE)
  BY <1>1, <1>3, TailShows
<1>6. QED BY <1>1, <1>2, <1>3, <1>4, <1>5

LEMMA AddShows ==
    ASSUME DbusInv, ShownInv, PathInv, ServeAdd
    PROVE  ShownInv' /\ PathInv'
<1>. DEFINE p == Head(inbox).path
            n == Head(inbox).name
            y == Added(rsets[p], n)
<1>1. Serving("add") /\ KeepRest /\ rsets' = [rsets EXCEPT ![p] = Added(@, n)]
  BY DEF ServeAdd
<1>2. /\ p \in DOMAIN rsets /\ rsets[p] \in Rset /\ set[p] \in Proper
      /\ acquiring = None /\ inbox # <<>> /\ inbox \in Seq(Messages) /\ inbox' = Tail(inbox)
      /\ Head(inbox) \in Messages /\ Head(inbox).type = "add"
      /\ Fit(rsets[p], set[p], FALSE)
      /\ CallsAgree(inbox, p, rsets[p], set[p], FALSE)
  BY <1>1, HeadIs
<1>3. n \in Names
  BY <1>2, MessageIs
<1>4. ~rsets[p].locked
  BY <1>2, EditRead DEF Sealed
<1>5. /\ \A k \in DOMAIN rsets[p].resources : rsets[p].resources[k].name # n
      /\ CallsAgree(Tail(inbox), p, y, set[p], FALSE)
  BY <1>2, <1>3, AdditionRead
<1>. DEFINE r == rsets[p]
<1>6. /\ y \in Rset /\ y.status = r.status
      /\ y.locked = r.locked /\ y.acquired = r.acquired
      /\ DOMAIN y.resources = DOMAIN r.resources \cup {r.next_id}
      /\ r.next_id \notin DOMAIN r.resources
      /\ y.resources[r.next_id] = NewResource(n)
      /\ \A i \in DOMAIN r.resources : y.resources[i] = r.resources[i]
  BY <1>2, <1>3, AddedIs
<1>7. NewResource(n).name = n /\ NewResource(n).status = "pending"
  BY DEF NewResource
<1>8. rsets' = [rsets EXCEPT ![p] = y]
  BY <1>1
<1>. HIDE DEF y, n
<1>9. Distinct(y)
  <2>1. Distinct(r)
    BY <1>2 DEF Fit, Ready
  <2>2. \A i \in DOMAIN r.resources : y.resources[i].name = r.resources[i].name
                                       /\ y.resources[i].name # y.resources[r.next_id].name
    BY <1>5, <1>6, <1>7
  <2>3. QED BY <1>6, <2>1, <2>2 DEF Distinct
<1>10. \A i \in Known(y) : y.resources[i].status = "pending"
  <2>1. \A i \in Known(r) : r.resources[i].status = "pending"
    BY <1>2, <1>4 DEF Fit, Ready, Shows
  <2>2. SUFFICES ASSUME NEW i \in Known(y)
                 PROVE  y.resources[i].status = "pending"
    OBVIOUS
  <2>3. CASE i = r.next_id
    BY <1>6, <1>7, <2>3
  <2>4. CASE i # r.next_id
    <3>1. i \in DOMAIN r.resources /\ y.resources[i] = r.resources[i]
          /\ y.resources[i].name \in Resources
      BY <1>6, <2>4 DEF Known
    <3>2. i \in Known(r)
      BY <3>1 DEF Known
    <3>3. QED BY <2>1, <3>1, <3>2
  <2>5. QED BY <2>3, <2>4
<1>. HIDE DEF p
<1>11. Fit(y, set[p], FALSE)
  BY <1>2, <1>4, <1>6, <1>9, <1>10, PendingFits
<1>12. QED BY <1>1, <1>2, <1>5, <1>6, <1>8, <1>11, EditShows

LEMMA DeleteResourceShows ==
    ASSUME DbusInv, ShownInv, PathInv, ServeDeleteResource
    PROVE  ShownInv' /\ PathInv'
<1>. DEFINE p == Head(inbox).path
            r == rsets[p]
            o == Head(inbox).object
            y == Deleted(r, o)
<1>1. Serving("delete resource") /\ KeepRest /\ rsets' = [rsets EXCEPT ![p] = Deleted(@, o)]
  BY DEF ServeDeleteResource
<1>2. /\ p \in DOMAIN rsets /\ r \in Rset /\ set[p] \in Proper
      /\ acquiring = None /\ inbox # <<>> /\ inbox \in Seq(Messages) /\ inbox' = Tail(inbox)
      /\ Head(inbox) \in Messages /\ Head(inbox).type = "delete resource"
      /\ Fit(r, set[p], FALSE)
      /\ CallsAgree(inbox, p, r, set[p], FALSE)
      /\ CallsAgree(Tail(inbox), p, r, set[p], FALSE)
  BY <1>1, HeadIs
<1>3. ~r.locked
  BY <1>2, EditRead DEF Sealed
<1>4. /\ y \in Rset /\ y.status = r.status
      /\ y.locked = r.locked /\ y.acquired = r.acquired
      /\ DOMAIN y.resources \subseteq DOMAIN r.resources
      /\ \A j \in DOMAIN y.resources : y.resources[j] = r.resources[j]
  <2>1. /\ y \in Rset /\ y.status = r.status
        /\ y.locked = r.locked /\ y.acquired = r.acquired
        /\ DOMAIN y.resources = DOMAIN r.resources \ {o}
        /\ \A j \in DOMAIN r.resources \ {o} : y.resources[j] = r.resources[j]
    BY <1>2, DeletedIs
  <2>. HIDE DEF y, o, r
  <2>2. QED BY <2>1
<1>5. rsets' = [rsets EXCEPT ![p] = y]
  BY <1>1
<1>. HIDE DEF y, o
<1>6. Distinct(y)
  BY <1>2, <1>4 DEF Fit, Ready, Distinct
<1>7. \A i \in Known(y) : y.resources[i].status = "pending"
  <2>1. \A i \in Known(r) : r.resources[i].status = "pending"
    BY <1>2, <1>3 DEF Fit, Ready, Shows
  <2>2. QED BY <1>4, <2>1 DEF Known
<1>8. CallsAgree(Tail(inbox), p, y, set[p], FALSE)
  BY <1>2, <1>4 DEF CallsAgree, Fresh, Sealed
<1>. HIDE DEF p, r
<1>9. Fit(y, set[p], FALSE)
  BY <1>2, <1>3, <1>4, <1>6, <1>7, PendingFits
<1>10. QED BY <1>1, <1>2, <1>4, <1>5, <1>8, <1>9, EditShows

LEMMA ClassShows ==
    ASSUME DbusInv, ShownInv, PathInv, ServeClass
    PROVE  ShownInv' /\ PathInv'
<1>. DEFINE p == Head(inbox).path
            r == rsets[p]
            v == Head(inbox).value
            y == IF r.locked THEN r ELSE [r EXCEPT !.class = v]
<1>1. /\ Serving("class") /\ KeepRest
      /\ rsets' = IF rsets[p].locked THEN rsets ELSE [rsets EXCEPT ![p].class = v]
  BY DEF ServeClass
<1>2. /\ p \in DOMAIN rsets /\ r \in Rset
      /\ acquiring = None /\ inbox # <<>> /\ inbox' = Tail(inbox)
      /\ Head(inbox) \in Messages /\ Head(inbox).type = "class"
      /\ Fit(r, set[p], FALSE)
      /\ CallsAgree(Tail(inbox), p, r, set[p], FALSE)
  BY <1>1, HeadIs
<1>3. v \in Classes
  BY <1>2, MessageIs
<1>4. /\ y \in Rset /\ y.locked = r.locked /\ y.acquired = r.acquired /\ y.status = r.status
      /\ y.resources = r.resources
  BY <1>2, <1>3 DEF Rset, RsetObject
<1>5. rsets' = [rsets EXCEPT ![p] = y]
  <2>1. rsets \in [DOMAIN rsets -> Rset]
    BY DEF DbusInv, SetTypes
  <2>2. QED BY <1>1, <1>2, <2>1
<1>. HIDE DEF y, v, p, r
<1>6. Known(y) = Known(r)
  BY <1>4 DEF Known
<1>7. /\ KnownNames(y) = KnownNames(r) /\ Mandatory(y) = Mandatory(r)
      /\ Distinct(y) = Distinct(r)
  BY <1>4, <1>6 DEF KnownNames, Mandatory, Distinct
<1>8. Fit(y, set[p], FALSE)
  BY <1>2, <1>4, <1>6, <1>7 DEF Fit, Ready, Shows, Matches
<1>9. CallsAgree(Tail(inbox), p, y, set[p], FALSE)
  BY <1>2, <1>4, CallsStay
<1>10. QED BY <1>1, <1>2, <1>4, <1>5, <1>8, <1>9, EditShows

LEMMA MandatoryShows ==
    ASSUME DbusInv, ShownInv, PathInv, ServeMandatory
    PROVE  ShownInv' /\ PathInv'
<1>. DEFINE p == Head(inbox).path
            r == rsets[p]
            v == Head(inbox).value
            o == Head(inbox).object
            y == SetMandatoryOf(r, o, v)
<1>1. /\ Serving("mandatory") /\ KeepRest
      /\ rsets' = [rsets EXCEPT ![p] = SetMandatoryOf(@, o, v)]
  BY DEF ServeMandatory
<1>2. /\ p \in DOMAIN rsets /\ r \in Rset
      /\ acquiring = None /\ inbox # <<>> /\ inbox' = Tail(inbox)
      /\ Head(inbox) \in Messages /\ Head(inbox).type = "mandatory"
      /\ Fit(r, set[p], FALSE)
      /\ CallsAgree(Tail(inbox), p, r, set[p], FALSE)
  BY <1>1, HeadIs
<1>3. v \in BOOLEAN /\ o \in Nat
  BY <1>2, MessageIs
<1>4. /\ y \in Rset /\ y.status = r.status /\ y.locked = r.locked /\ y.acquired = r.acquired
      /\ DOMAIN y.resources = DOMAIN r.resources
      /\ \A j \in DOMAIN r.resources :
           /\ y.resources[j].name = r.resources[j].name
           /\ y.resources[j].status = r.resources[j].status
      /\ r.locked => y = r
  BY <1>2, <1>3, MandatoryIs
<1>5. rsets' = [rsets EXCEPT ![p] = y]
  BY <1>1
<1>. HIDE DEF y, v, o, p, r
<1>6. CallsAgree(Tail(inbox), p, y, set[p], FALSE)
  BY <1>2, <1>4, CallsStay
<1>7. Fit(y, set[p], FALSE)
  <2>1. CASE r.locked
    BY <1>2, <1>4, <2>1
  <2>2. CASE ~r.locked
    <3>1. Distinct(y)
      BY <1>2, <1>4 DEF Fit, Ready, Distinct
    <3>2. \A i \in Known(y) : y.resources[i].status = "pending"
      <4>1. \A i \in Known(r) : r.resources[i].status = "pending"
        BY <1>2, <2>2 DEF Fit, Ready, Shows
      <4>2. QED BY <1>4, <4>1 DEF Known
    <3>3. QED BY <1>2, <1>4, <2>2, <3>1, <3>2, PendingFits
  <2>3. QED BY <2>1, <2>2
<1>8. QED BY <1>1, <1>2, <1>4, <1>5, <1>6, <1>7, EditShows

\* What customary clients ask of a set.
LEMMA CustomaryCalls ==
    ASSUME DbusInv, Habits = {}, NEW p \in DOMAIN rsets, NEW m \in CallsOn(p)
    PROVE  /\ m.type \in {"add", "delete resource", "request"} => m.path = p
           /\ m.type = "request" =>
                rsets[p].locked \/ (set[p].list = <<>> /\ Requests(inbox, p) = {})
           /\ m.type \in {"add", "delete resource"} =>
                ~rsets[p].locked /\ set[p].list = <<>> /\ Requests(inbox, p) = {}
           /\ m.type = "add" =>
                /\ \A i \in Additions(inbox, p) : inbox[i].name # m.name
                /\ \A k \in DOMAIN rsets[p].resources : rsets[p].resources[k].name # m.name
<1>1. inbox \in Seq(Messages)
  BY DEF DbusInv, BusTypes
<1>2. ~Requested(p) => set[p].list = <<>> /\ Requests(inbox, p) = {}
  <2>1. SUFFICES ASSUME ~Requested(p), NEW i \in Requests(inbox, p)
                 PROVE  FALSE
    BY DEF Requested
  <2>2. i \in 1..Len(inbox) /\ inbox[i] \in Messages
        /\ inbox[i].type = "request" /\ inbox[i].path = p
    <3>1. DOMAIN inbox = 1..Len(inbox) /\ \A j \in DOMAIN inbox : inbox[j] \in Messages
      BY <1>1
    <3>2. QED BY <3>1 DEF Requests
  <2>3. inbox[i] = Call("request", p)
    BY <2>2 DEF Messages, Call
  <2>4. QED BY <2>1, <2>2, <2>3 DEF Requested, Contains
<1>3. Early(p) => ~rsets[p].locked /\ ~Requested(p)
  BY DEF Early
<1>4. \/ m = Call("release", p) \/ m = Call("delete", p)
      \/ m = Call("request", p) /\ (rsets[p].locked \/ ~Requested(p))
      \/ \E n \in Names : m = Add(p, n) /\ Early(p) /\ n \notin NamesOf(p)
      \/ \E v \in Classes : m = SetClass(p, v)
      \/ \E i \in DOMAIN rsets[p].resources, v \in BOOLEAN : m = SetMandatory(p, i, v)
      \/ \E i \in DOMAIN rsets[p].resources : m = DeleteResource(p, i) /\ Early(p)
  <2>. DEFINE A == {n \in Names : /\ Early(p) /\ Objects + Waiting("add") < MaxObjects
                                  /\ "same_name" \in Habits \/ n \notin NamesOf(p)}
              B == {i \in DOMAIN rsets[p].resources : Early(p)}
              Q == {k \in {Call("request", p)} :
                      "retry" \in Habits \/ rsets[p].locked \/ ~Requested(p)}
              V == {SetMandatory(p, i, v) : i \in DOMAIN rsets[p].resources, v \in BOOLEAN}
  <2>1. m \in {Call("release", p), Call("delete", p)} \cup Q \cup {Add(p, n) : n \in A}
             \cup {SetClass(p, v) : v \in Classes} \cup V
             \cup {DeleteResource(p, i) : i \in B}
    BY DEF CallsOn
  <2>2. /\ \A n \in A : n \in Names /\ Early(p) /\ n \notin NamesOf(p)
        /\ \A i \in B : i \in DOMAIN rsets[p].resources /\ Early(p)
    OBVIOUS
  <2>3. \A k \in Q : k = Call("request", p) /\ (rsets[p].locked \/ ~Requested(p))
    OBVIOUS
  <2>4. m \in V => \E i \in DOMAIN rsets[p].resources, v \in BOOLEAN : m = SetMandatory(p, i, v)
    OBVIOUS
  <2>. HIDE DEF A, B, Q, V
  <2>5. QED BY <2>1, <2>2, <2>3, <2>4
<1>5. CASE m = Call("request", p) /\ (rsets[p].locked \/ ~Requested(p))
  <2>1. m.type = "request" /\ m.path = p
    BY <1>5 DEF Call
  <2>2. QED BY <1>2, <1>5, <2>1
<1>6. CASE \E n \in Names : m = Add(p, n) /\ Early(p) /\ n \notin NamesOf(p)
  <2>1. PICK n \in Names : m = Add(p, n) /\ Early(p) /\ n \notin NamesOf(p)
    BY <1>6
  <2>2. m.type = "add" /\ m.path = p /\ m.name = n
    BY <2>1 DEF Add
  <2>3. \A k \in DOMAIN rsets[p].resources : rsets[p].resources[k].name # n
    BY <2>1 DEF NamesOf
  <2>4. ASSUME NEW i \in Additions(inbox, p)
        PROVE  inbox[i].name # n
    <3>1. i \in DOMAIN inbox /\ inbox[i].type = "add" /\ inbox[i].path = p
      BY DEF Additions, Edits
    <3>2. inbox[i] \in {k \in ToSet(inbox) : k.type = "add" /\ k.path = p}
      BY <3>1 DEF ToSet
    <3>3. inbox[i].name \in NamesOf(p)
      BY <3>2 DEF NamesOf
    <3>4. QED BY <2>1, <3>3
  <2>5. QED BY <1>2, <1>3, <2>1, <2>2, <2>3, <2>4
<1>7. CASE \E i \in DOMAIN rsets[p].resources : m = DeleteResource(p, i) /\ Early(p)
  <2>1. PICK i \in DOMAIN rsets[p].resources : m = DeleteResource(p, i) /\ Early(p)
    BY <1>7
  <2>2. m.type = "delete resource" /\ m.path = p /\ Early(p)
    BY <2>1 DEF DeleteResource
  <2>3. QED BY <1>2, <1>3, <2>2
<1>8. CASE m = Call("release", p) \/ m = Call("delete", p)
  <2>1. m.type \in {"release", "delete"}
    BY <1>8 DEF Call
  <2>2. QED BY <2>1
<1>9. CASE \E v \in Classes : m = SetClass(p, v)
  BY <1>9 DEF SetClass
<1>10. CASE \E i \in DOMAIN rsets[p].resources, v \in BOOLEAN : m = SetMandatory(p, i, v)
  BY <1>10 DEF SetMandatory
<1>11. QED BY <1>4, <1>5, <1>6, <1>7, <1>8, <1>9, <1>10

LEMMA ClientCallsShow ==
    ASSUME DbusInv, ShownInv, PathInv, Habits = {}, ClientCalls
    PROVE  ShownInv' /\ PathInv'
<1>1. UNCHANGED <<next_id, rsets, set, acquiring>> /\ acquiring = None
  BY DEF ClientCalls, objects
<1>2. PICK c \in alive : \E m \in CallsOf(c) : inbox' = Append(inbox, m)
  BY DEF ClientCalls
<1>3. PICK m \in CallsOf(c) : inbox' = Append(inbox, m)
  BY <1>2
<1>4. /\ m \in Messages
      /\ \/ \E p \in DOMAIN rsets : rsets[p].owner = c /\ m \in CallsOn(p)
         \/ m = Create(c) /\ m.type = "create"
         \/ \E p \in Nat \ DOMAIN rsets : m = Call("release", p)
  <2>1. c \in Clients
    BY DEF DbusInv, BusTypes
  <2>2. QED BY <2>1, CallsOfAre
<1>5. CASE m.type \notin {"add", "delete resource", "request"}
  BY <1>1, <1>3, <1>4, <1>5, SameShows
<1>6. CASE m.type \in {"add", "delete resource", "request"}
  <2>1. PICK p \in DOMAIN rsets : m \in CallsOn(p)
    <3>1. \A o : Call("release", o).type = "release"
      BY DEF Call
    <3>2. QED BY <1>4, <1>6, <3>1
  <2>2. /\ m.path = p
        /\ m.type = "request" =>
             rsets[p].locked \/ (set[p].list = <<>> /\ Requests(inbox, p) = {})
        /\ m.type \in {"add", "delete resource"} =>
             ~rsets[p].locked /\ set[p].list = <<>> /\ Requests(inbox, p) = {}
        /\ m.type = "add" =>
             /\ \A i \in Additions(inbox, p) : inbox[i].name # m.name
             /\ \A k \in DOMAIN rsets[p].resources : rsets[p].resources[k].name # m.name
    BY <1>6, <2>1, CustomaryCalls
  <2>3. inbox \in Seq(Messages) /\ p \in Ids /\ (acquiring = p) = FALSE
    BY <1>1, NotNone DEF DbusInv, BusTypes
  <2>4. PathInv'
    BY <1>1, <1>3, <1>4, <2>2, <2>3, PathsStay DEF Ids
  <2>5. Longer(inbox', inbox, m)
    BY <1>3, <1>4, <2>3, AppendLonger
  <2>6. ASSUME NEW o \in DOMAIN rsets, o # p
        PROVE  CallsAgree(inbox', o, rsets[o], set[o], acquiring = o)
    <3>1. CallsAgree(inbox, o, rsets[o], set[o], acquiring = o) /\ m.path # o
      BY <2>2, <2>6 DEF ShownInv
    <3>2. QED BY <2>5, <3>1, OtherSent
  <2>7. CallsAgree(inbox, p, rsets[p], set[p], FALSE)
    BY <2>3 DEF ShownInv
  <2>8. CallsAgree(inbox', p, rsets[p], set[p], FALSE)
    <3>1. CASE m.type = "request"
      BY <2>2, <2>5, <2>7, <3>1, RequestSent
    <3>2. CASE m.type # "request"
      BY <1>6, <2>2, <2>5, <2>7, <3>2, EditSent
    <3>3. QED BY <3>1, <3>2
  <2>9. \A o \in DOMAIN rsets : CallsAgree(inbox', o, rsets[o], set[o], acquiring = o)
    BY <2>3, <2>6, <2>8
  <2>10. QED BY <1>1, <2>4, <2>9 DEF ShownInv
<1>7. QED BY <1>5, <1>6

\* A set whose state an application changes still agrees with its object.
LEMMA StateReady ==
    ASSUME NEW r, NEW x \in Proper, NEW held, Fit(r, x, held),
           NEW s \in {"acquire", "release"}, s = "acquire" => r.acquired
    PROVE  /\ Ready(r, [x EXCEPT !.state = s], held)
           /\ [x EXCEPT !.state = s].list = x.list
<1>. DEFINE y == [x EXCEPT !.state = s]
<1>1. /\ y.list = x.list /\ y.mandatory = x.mandatory /\ y.grant = x.grant
      /\ y.advice = x.advice /\ y.attached = x.attached /\ y.state = s
  BY StateIs
<1>. HIDE DEF y
<1>2. Shows(r, y) /\ (x.attached => Matches(r, y))
  BY <1>1 DEF Fit, Ready, Shows, Matches
<1>3. Ready(r, y, held)
  BY <1>1, <1>2 DEF Fit, Ready
<1>4. QED BY <1>1, <1>3 DEF y

\* Steps that update the zone.
LEMMA ZoneStep ==
    ASSUME DbusInv, PathInv, KeepNames,
           inbox' = inbox \/ (inbox # <<>> /\ inbox' = Tail(inbox)),
           NEW R \in [DOMAIN rsets -> Rset], NEW S \in [DOMAIN rsets -> Proper],
           UpdateZone(R, S),
           \A p \in DOMAIN rsets : /\ Ready(R[p], S[p], acquiring' = p)
                                   /\ CallsAgree(inbox', p, R[p], S[p], acquiring' = p)
    PROVE  ShownInv' /\ PathInv'
<1>1. PathInv'
  BY PathsStay DEF KeepNames, Ids
<1>. DEFINE D == DOMAIN rsets
            q == inbox'
            a == acquiring'
<1>2. /\ R \in [D -> Rset] /\ S \in [D -> Proper]
      /\ \A p \in D : Ready(R[p], S[p], a = p) /\ CallsAgree(q, p, R[p], S[p], a = p)
      /\ UpdateZone(R, S)
  OBVIOUS
<1>. HIDE DEF D, q, a
<1>3. PICK T \in Updates(S) : set' = T /\ rsets' = Told(R, S, T)
  BY DEF UpdateZone
<1>4. /\ T \in [D -> Proper] /\ \A p \in D : T[p] \in Outcomes(S[p])
      /\ rsets' \in [D -> Rset]
      /\ \A p \in D : rsets'[p] = IF T[p] # S[p] THEN EventCb(R[p], T[p]) ELSE R[p]
  BY <1>2, <1>3, UpdateIs, ToldIs
<1>5. ASSUME NEW p \in D
      PROVE  /\ Fit(rsets'[p], set'[p], a = p)
             /\ CallsAgree(q, p, rsets'[p], set'[p], a = p)
  <2>. DEFINE r == R[p]
              x == S[p]
              w == T[p]
              y == rsets'[p]
              held == (a = p)
  <2>1. /\ r \in Rset /\ x \in Proper /\ w \in Outcomes(x) /\ held \in BOOLEAN
        /\ y = (IF w # x THEN EventCb(r, w) ELSE r)
        /\ Ready(r, x, held) /\ CallsAgree(q, p, r, x, held)
    BY <1>2, <1>4
  <2>. HIDE DEF r, x, w, y, held
  <2>2. /\ Fit(y, w, held) /\ y.locked = r.locked /\ w.list = x.list
        /\ DOMAIN y.resources = DOMAIN r.resources
        /\ \A i \in DOMAIN r.resources : y.resources[i].name = r.resources[i].name
    BY <2>1, UpdateFits
  <2>3. CallsAgree(q, p, y, w, held)
    BY <2>1, <2>2, CallsStay
  <2>4. QED BY <1>3, <2>2, <2>3 DEF w, y, held
<1>6. DOMAIN rsets' = D
  BY <1>4
<1>7. QED BY <1>1, <1>5, <1>6 DEF ShownInv, D, q, a

LEMMA OthersShow ==
    ASSUME DbusInv, ShownInv, PathInv, OthersUpdate
    PROVE  ShownInv' /\ PathInv'
<1>1. /\ UpdateZone(rsets, set) /\ acquiring' = acquiring /\ inbox' = inbox /\ KeepNames
  BY DEF OthersUpdate
<1>2. rsets \in [DOMAIN rsets -> Rset] /\ set \in [DOMAIN rsets -> Proper]
  BY DEF DbusInv, SetTypes
<1>3. \A p \in DOMAIN rsets : /\ Ready(rsets[p], set[p], acquiring' = p)
                              /\ CallsAgree(inbox', p, rsets[p], set[p], acquiring' = p)
  BY <1>1 DEF ShownInv, Fit
<1>4. QED BY <1>1, <1>2, <1>3, ZoneStep

LEMMA AcquireShows ==
    ASSUME DbusInv, ShownInv, PathInv, Acquire
    PROVE  ShownInv' /\ PathInv'
<1>. DEFINE p == acquiring
            r == rsets[p]
            x == set[p]
            R == [rsets EXCEPT ![p] = Acquiring(@)]
            S == [set EXCEPT ![p].state = "acquire"]
<1>1. /\ p \in DOMAIN rsets /\ UpdateZone(R, S) /\ acquiring' = None
      /\ inbox' = inbox /\ KeepNames
  BY DEF Acquire, DbusInv, SetTypes
<1>2. rsets \in [DOMAIN rsets -> Rset] /\ set \in [DOMAIN rsets -> Proper]
  BY DEF DbusInv, SetTypes
<1>. DEFINE y == Acquiring(r)
            z == [x EXCEPT !.state = "acquire"]
<1>3. /\ y \in Rset /\ y.status = r.status /\ y.locked = TRUE /\ y.acquired = TRUE
      /\ y.resources = r.resources
  BY <1>1, <1>2, AcquiringIs
<1>4. /\ z \in Proper /\ z.list = x.list /\ z.mandatory = x.mandatory /\ z.grant = x.grant
      /\ z.advice = x.advice /\ z.attached = x.attached /\ z.state = "acquire"
  BY <1>1, <1>2, StateIs
<1>5. /\ R \in [DOMAIN rsets -> Rset] /\ S \in [DOMAIN rsets -> Proper]
      /\ R[p] = y /\ S[p] = z
      /\ \A o \in DOMAIN rsets : o # p => R[o] = rsets[o] /\ S[o] = set[o]
  BY <1>1, <1>2, <1>3, <1>4
<1>6. /\ Fit(r, x, TRUE) /\ CallsAgree(inbox, p, r, x, TRUE)
  BY <1>1 DEF ShownInv
<1>7. (acquiring' = p) = FALSE
  BY <1>1, NotNone
<1>. HIDE DEF R, S, y, z, r, x
<1>8. /\ Known(y) = Known(r) /\ KnownNames(y) = KnownNames(r)
      /\ Mandatory(y) = Mandatory(r) /\ Distinct(y) = Distinct(r)
  BY <1>3 DEF Known, KnownNames, Mandatory, Distinct
<1>9. Shows(y, z) /\ Matches(y, z)
  BY <1>3, <1>4, <1>6, <1>8 DEF Fit, Ready, Shows, Matches
<1>10. Ready(y, z, FALSE)
  BY <1>3, <1>4, <1>6, <1>8, <1>9 DEF Fit, Ready
<1>11. CallsAgree(inbox, p, y, z, FALSE)
  <2>1. Edits(inbox, p) = {}
    BY <1>6 DEF CallsAgree, Orderly, Sealed
  <2>2. QED BY <1>3, <1>6, <2>1 DEF CallsAgree, Orderly, Sealed, Fresh
<1>12. ASSUME NEW o \in DOMAIN rsets
       PROVE  /\ Ready(R[o], S[o], acquiring' = o)
              /\ CallsAgree(inbox', o, R[o], S[o], acquiring' = o)
  <2>1. CASE o = p
    BY <1>1, <1>5, <1>7, <1>10, <1>11, <2>1
  <2>2. CASE o # p
    <3>1. Fit(rsets[o], set[o], p = o) /\ CallsAgree(inbox, o, rsets[o], set[o], p = o)
      BY DEF ShownInv
    <3>2. (p = o) = FALSE /\ (acquiring' = o) = FALSE
      BY <1>1, <2>2, NotNone
    <3>3. QED BY <1>1, <1>5, <2>2, <3>1, <3>2 DEF Fit
  <2>3. QED BY <2>1, <2>2
<1>. HIDE DEF p
<1>13. QED BY <1>1, <1>5, <1>12, ZoneStep

LEMMA RequestShows ==
    ASSUME DbusInv, ShownInv, PathInv, ServeRequest
    PROVE  ShownInv' /\ PathInv'
<1>. DEFINE p == Head(inbox).path
            r == rsets[p]
            s == set[p]
            x == WithResources(s, r)
<1>1. Serving("request") /\ KeepNames
  BY DEF ServeRequest
<1>2. /\ p \in DOMAIN rsets /\ r \in Rset /\ s \in Proper
      /\ acquiring = None /\ (acquiring = p) = FALSE
      /\ inbox # <<>> /\ inbox \in Seq(Messages) /\ inbox' = Tail(inbox)
      /\ Head(inbox).type = "request"
      /\ Fit(r, s, FALSE) /\ CallsAgree(inbox, p, r, s, FALSE)
      /\ CallsAgree(Tail(inbox), p, r, s, FALSE)
  BY <1>1, HeadIs
<1>3. \/ r.locked /\ acquiring' = p /\ rsets' = rsets /\ set' = set
      \/ ~r.locked /\ UpdateZone(rsets, [set EXCEPT ![p] = Attached(x)]) /\ acquiring' = p
      \/ ~r.locked /\ set' = [set EXCEPT ![p] = x] /\ rsets' = rsets /\ acquiring' = acquiring
  BY DEF ServeRequest
<1>4. rsets \in [DOMAIN rsets -> Rset] /\ set \in [DOMAIN rsets -> Proper]
  BY DEF DbusInv, SetTypes
<1>5. PathInv' /\ next_id' = next_id
  BY <1>1, <1>2, PathsStay DEF KeepNames, Ids
<1>6. \A o \in DOMAIN rsets : /\ Fit(rsets[o], set[o], acquiring = o)
                              /\ CallsAgree(inbox', o, rsets[o], set[o], acquiring = o)
  BY <1>2, TailShows DEF ShownInv
<1>7. \A o \in DOMAIN rsets : o # p => (p = o) = FALSE /\ (acquiring = o) = FALSE
  BY <1>2, NotNone
<1>8. ~r.locked => /\ s.list = <<>> /\ Edits(inbox', p) = {} /\ Additions(inbox', p) = {}
                   /\ Requests(inbox', p) = {}
  <2>. DEFINE h == Head(inbox)
  <2>1. h.type = "request" /\ h.path = p
    BY <1>2
  <2>. HIDE DEF p, r, s
  <2>2. QED BY <1>2, <2>1, RequestRead
<1>9. /\ x \in Proper /\ x.attached = s.attached /\ x.grant = s.grant /\ x.advice = s.advice
      /\ x.state = s.state
      /\ ToSet(x.list) = ToSet(s.list) \cup KnownNames(r)
      /\ x.mandatory = s.mandatory \cup Mandatory(r)
      /\ s.list = <<>> /\ Distinct(r) => IsInjective(x.list)
  BY <1>2, ResourcesIs DEF Mandatory
<1>. HIDE DEF p, r, s, x
<1>10. CASE r.locked /\ acquiring' = p /\ rsets' = rsets /\ set' = set
  <2>1. Fit(r, s, TRUE) /\ CallsAgree(inbox', p, r, s, TRUE)
    BY <1>2, <1>10 DEF Fit, Ready, CallsAgree, Sealed
  <2>2. \A o \in DOMAIN rsets : /\ Fit(rsets[o], set[o], acquiring' = o)
                                /\ CallsAgree(inbox', o, rsets[o], set[o], acquiring' = o)
    <3>1. SUFFICES ASSUME NEW o \in DOMAIN rsets
                   PROVE  /\ Fit(rsets[o], set[o], acquiring' = o)
                          /\ CallsAgree(inbox', o, rsets[o], set[o], acquiring' = o)
      OBVIOUS
    <3>2. CASE o = p
      <4>1. (acquiring' = o) = TRUE
        BY <1>10, <3>2
      <4>2. QED BY <2>1, <3>2, <4>1 DEF r, s
    <3>3. CASE o # p
      <4>1. (acquiring' = o) = (acquiring = o)
        BY <1>7, <1>10, <3>3
      <4>2. QED BY <1>6, <4>1
    <3>4. QED BY <3>2, <3>3
  <2>3. QED BY <1>5, <1>10, <2>2 DEF ShownInv
<1>11. ASSUME ~r.locked
       PROVE  /\ s.attached = FALSE /\ ~r.acquired /\ r.status = "pending" /\ x.grant = {}
              /\ x.state # "acquire" /\ Shows(r, x) /\ Matches(r, x) /\ Fit(r, x, FALSE)
  <2>1. s.attached = FALSE /\ r.locked = r.acquired /\ s.grant = {} /\ r.status = "pending"
        /\ Distinct(r) /\ s.state # "acquire"
    BY <1>2, <1>11 DEF Fit, Ready, Shows
  <2>2. Shows(r, x)
    BY <1>2, <1>9, <2>1 DEF Fit, Ready, Shows
  <2>3. ToSet(s.list) = {} /\ s.mandatory = {}
    <3>1. ToSet(s.list) = {}
      BY <1>8, <1>11 DEF ToSet
    <3>2. s.mandatory \subseteq ToSet(s.list)
      BY <1>2 DEF Proper
    <3>3. QED BY <3>1, <3>2
  <2>4. Matches(r, x)
    BY <1>8, <1>9, <1>11, <2>1, <2>3 DEF Matches
  <2>5. Fit(r, x, FALSE)
    BY <1>2, <1>9, <1>11, <2>1, <2>2 DEF Fit, Ready
  <2>6. QED BY <1>9, <1>11, <2>1, <2>2, <2>4, <2>5
<1>12. CASE ~r.locked /\ UpdateZone(rsets, [set EXCEPT ![p] = Attached(x)]) /\ acquiring' = p
  <2>. DEFINE y == Attached(x)
              S == [set EXCEPT ![p] = y]
  <2>1. /\ y \in Proper /\ y.list = x.list /\ y.mandatory = x.mandatory /\ y.grant = x.grant
        /\ y.advice = x.advice /\ y.attached = TRUE /\ y.state = "release"
    BY <1>9, StateIs
  <2>2. UpdateZone(rsets, S)
    BY <1>12
  <2>3. /\ S \in [DOMAIN rsets -> Proper] /\ S[p] = y
        /\ \A o \in DOMAIN rsets : o # p => S[o] = set[o]
    BY <1>2, <1>4, <2>1
  <2>. HIDE DEF y, S
  <2>4. Shows(r, y) /\ Matches(r, y)
    BY <1>11, <1>12, <2>1 DEF Shows, Matches
  <2>5. Ready(r, y, TRUE)
    BY <1>2, <1>11, <1>12, <2>1, <2>4 DEF Fit, Ready
  <2>6. CallsAgree(inbox', p, r, y, TRUE)
    BY <1>8, <1>12 DEF CallsAgree, Orderly, Fresh, Sealed
  <2>7. ASSUME NEW o \in DOMAIN rsets
        PROVE  /\ Ready(rsets[o], S[o], acquiring' = o)
               /\ CallsAgree(inbox', o, rsets[o], S[o], acquiring' = o)
    <3>1. CASE o = p
      <4>1. (acquiring' = o) = TRUE
        BY <1>12, <3>1
      <4>2. QED BY <2>3, <2>5, <2>6, <3>1, <4>1 DEF r
    <3>2. CASE o # p
      <4>1. (acquiring' = o) = (acquiring = o)
        BY <1>7, <1>12, <3>2
      <4>2. QED BY <1>6, <2>3, <3>2, <4>1 DEF Fit
    <3>3. QED BY <3>1, <3>2
  <2>8. QED BY <1>1, <1>2, <1>4, <2>2, <2>3, <2>7, ZoneStep
<1>13. CASE ~r.locked /\ set' = [set EXCEPT ![p] = x] /\ rsets' = rsets /\ acquiring' = acquiring
  <2>1. CallsAgree(inbox', p, r, x, FALSE)
    BY <1>8, <1>13 DEF CallsAgree, Orderly, Fresh, Sealed
  <2>2. /\ set'[p] = x /\ \A o \in DOMAIN rsets : o # p => set'[o] = set[o]
    BY <1>2, <1>4, <1>13
  <2>3. \A o \in DOMAIN rsets : /\ Fit(rsets[o], set'[o], acquiring' = o)
                                /\ CallsAgree(inbox', o, rsets[o], set'[o], acquiring' = o)
    <3>1. SUFFICES ASSUME NEW o \in DOMAIN rsets
                   PROVE  /\ Fit(rsets[o], set'[o], acquiring' = o)
                          /\ CallsAgree(inbox', o, rsets[o], set'[o], acquiring' = o)
      OBVIOUS
    <3>2. CASE o = p
      <4>1. (acquiring' = o) = FALSE
        BY <1>2, <1>13, <3>2
      <4>2. QED BY <1>11, <1>13, <2>1, <2>2, <3>2, <4>1 DEF r
    <3>3. CASE o # p
      BY <1>6, <1>13, <2>2, <3>3
    <3>4. QED BY <3>2, <3>3
  <2>4. QED BY <1>5, <1>13, <2>3 DEF ShownInv
<1>14. QED BY <1>3, <1>10, <1>12, <1>13

\* A release, or its event only.
LEMMA ReleaseShows ==
    ASSUME DbusInv, ShownInv, PathInv, ServeRelease
    PROVE  ShownInv' /\ PathInv'
<1>. DEFINE p == Head(inbox).path
            r == rsets[p]
            x == set[p]
            z == [x EXCEPT !.state = "release"]
            S == [set EXCEPT ![p].state = "release"]
<1>1. Serving("release") /\ KeepNames /\ acquiring' = acquiring
  BY DEF ServeRelease
<1>2. /\ p \in DOMAIN rsets /\ r \in Rset /\ x \in Proper
      /\ acquiring = None /\ (acquiring = p) = FALSE
      /\ inbox # <<>> /\ inbox \in Seq(Messages) /\ inbox' = Tail(inbox)
      /\ Fit(r, x, FALSE) /\ CallsAgree(Tail(inbox), p, r, x, FALSE)
  BY <1>1, HeadIs
<1>3. \/ ~x.attached /\ set' = S /\ rsets' = rsets
      \/ x.attached /\ rsets' = [rsets EXCEPT ![p] = EventCb(@, x)] /\ set' = set
      \/ x.attached /\ UpdateZone(rsets, S)
  BY DEF ServeRelease
<1>4. rsets \in [DOMAIN rsets -> Rset] /\ set \in [DOMAIN rsets -> Proper]
  BY DEF DbusInv, SetTypes
<1>5. PathInv' /\ (acquiring' = p) = FALSE
  BY <1>1, <1>2, PathsStay DEF KeepNames, Ids
<1>6. \A o \in DOMAIN rsets : /\ Fit(rsets[o], set[o], acquiring' = o)
                              /\ CallsAgree(inbox', o, rsets[o], set[o], acquiring' = o)
  BY <1>1, <1>2, TailShows DEF ShownInv
<1>7. /\ z \in Proper /\ z.list = x.list /\ z.mandatory = x.mandatory /\ z.grant = x.grant
      /\ z.advice = x.advice /\ z.attached = x.attached /\ z.state = "release"
  BY <1>2, StateIs
<1>8. /\ S \in [DOMAIN rsets -> Proper] /\ S[p] = z
      /\ \A o \in DOMAIN rsets : o # p => S[o] = set[o]
  BY <1>2, <1>4, <1>7
<1>9. Ready(r, z, FALSE)
  BY <1>2, StateReady
<1>. HIDE DEF z, S, x, r
<1>10. CallsAgree(inbox', p, r, z, FALSE)
  BY <1>2, <1>7 DEF CallsAgree, Orderly, Sealed
<1>11. ASSUME NEW o \in DOMAIN rsets
       PROVE  /\ Ready(rsets[o], S[o], acquiring' = o)
              /\ CallsAgree(inbox', o, rsets[o], S[o], acquiring' = o)
  <2>1. CASE o = p
    BY <1>5, <1>8, <1>9, <1>10, <2>1 DEF r
  <2>2. CASE o # p
    BY <1>6, <1>8, <2>2 DEF Fit
  <2>3. QED BY <2>1, <2>2
<1>12. CASE x.attached /\ UpdateZone(rsets, S)
  BY <1>1, <1>2, <1>4, <1>8, <1>11, <1>12, ZoneStep
<1>13. CASE ~x.attached /\ set' = S /\ rsets' = rsets
  <2>1. Fit(r, z, FALSE)
    BY <1>2, <1>7, <1>9, <1>13 DEF Fit, Ready
  <2>2. \A o \in DOMAIN rsets : /\ Fit(rsets[o], S[o], acquiring' = o)
                                /\ CallsAgree(inbox', o, rsets[o], S[o], acquiring' = o)
    BY <1>5, <1>6, <1>8, <1>11, <2>1 DEF r
  <2>3. QED BY <1>5, <1>13, <2>2 DEF ShownInv
<1>14. CASE x.attached /\ rsets' = [rsets EXCEPT ![p] = EventCb(@, x)] /\ set' = set
  <2>. DEFINE y == EventCb(r, x)
  <2>1. Distinct(r) /\ Matches(r, x) /\ Shows(r, x)
    BY <1>2, <1>14 DEF Fit, Ready
  <2>2. /\ Shows(y, x) /\ Matches(y, x) /\ Distinct(y)
        /\ y.locked = r.locked /\ y.acquired = r.acquired
        /\ DOMAIN y.resources = DOMAIN r.resources
        /\ \A i \in DOMAIN r.resources : y.resources[i].name = r.resources[i].name
    BY <1>2, <2>1, EventFits
  <2>3. /\ DOMAIN rsets' = DOMAIN rsets /\ rsets'[p] = y
        /\ \A o \in DOMAIN rsets : o # p => rsets'[o] = rsets[o]
    BY <1>2, <1>4, <1>14 DEF r
  <2>. HIDE DEF y
  <2>4. Fit(y, x, FALSE)
    BY <1>2, <2>2 DEF Fit, Ready
  <2>. DEFINE q == inbox'
  <2>5. CallsAgree(q, p, y, x, FALSE)
    <3>1. CallsAgree(q, p, r, x, FALSE)
      BY <1>2
    <3>. HIDE DEF p, q
    <3>2. QED BY <2>2, <3>1, CallsStay
  <2>6. ASSUME NEW o \in DOMAIN rsets
        PROVE  /\ Fit(rsets'[o], set[o], acquiring' = o)
               /\ CallsAgree(inbox', o, rsets'[o], set[o], acquiring' = o)
    <3>1. CASE o = p
      BY <1>5, <2>3, <2>4, <2>5, <3>1 DEF x
    <3>2. CASE o # p
      BY <1>6, <2>3, <3>2
    <3>3. QED BY <3>1, <3>2
  <2>7. QED BY <1>5, <1>14, <2>3, <2>6 DEF ShownInv
<1>15. QED BY <1>3, <1>12, <1>13, <1>14

\* The others are told of the update a set makes that goes.
LEMMA DestroyShows ==
    ASSUME DbusInv, ShownInv, PathInv, acquiring = None, acquiring' = acquiring,
           NEW p \in DOMAIN rsets,
           NEW F, F = trackers \/ F = [trackers EXCEPT ![p].qid = FALSE],
           DestroyRset(p, F), inbox' = inbox \/ (inbox # <<>> /\ inbox' = Tail(inbox))
    PROVE  ShownInv' /\ PathInv'
<1>. DEFINE D == DOMAIN rsets
            S == [set EXCEPT ![p].state = "release"]
            R == Without(rsets, p)
<1>1. next_id' = next_id /\ DOMAIN rsets' = D \ {p}
  BY DestroyKeeps
<1>2. PathInv'
  BY <1>1, PathsStay DEF Ids
<1>3. rsets \in [D -> Rset] /\ set \in [D -> Proper]
  BY DEF DbusInv, SetTypes
<1>4. /\ S \in [D -> Proper]
      /\ \A o \in D : o # p => S[o] = set[o]
  BY <1>3, StateIs
<1>5. PICK T \in (IF set[p].state = "acquire" THEN Updates(S) ELSE {S}) :
        set' = Without(T, p) /\ rsets' = Told(R, S, T)
  BY DEF DestroyRset
<1>. HIDE DEF S
<1>6. \A o \in D : o # p => T[o] = set[o] \/ T[o] \in Outcomes(set[o])
  <2>1. CASE T = S
    BY <1>4, <2>1
  <2>2. CASE T \in Updates(S)
    BY <1>4, <2>2, UpdateIs
  <2>3. QED BY <1>5, <2>1, <2>2
<1>7. \A o \in D \ {p} : /\ set'[o] = T[o]
                         /\ rsets'[o] = IF T[o] # set[o] THEN EventCb(rsets[o], T[o]) ELSE rsets[o]
  <2>1. DOMAIN T = D
    <3>1. CASE T = S
      BY <1>4, <3>1
    <3>2. CASE T \in Updates(S)
      BY <1>4, <3>2, UpdateIs
    <3>3. QED BY <1>5, <3>1, <3>2
  <2>2. DOMAIN R = D \ {p} /\ \A o \in D \ {p} : R[o] = rsets[o]
    BY DEF Without
  <2>. HIDE DEF R
  <2>3. \A o \in D \ {p} : rsets'[o] = IF T[o] # S[o] THEN EventCb(R[o], T[o]) ELSE R[o]
    BY <1>5, <2>2 DEF Told
  <2>4. \A o \in D \ {p} : set'[o] = T[o]
    BY <1>5, <2>1 DEF Without
  <2>5. QED BY <1>4, <2>2, <2>3, <2>4
<1>8. \A o \in D : /\ Fit(rsets[o], set[o], acquiring = o)
                   /\ CallsAgree(inbox', o, rsets[o], set[o], acquiring = o)
  BY TailShows DEF ShownInv
<1>9. ASSUME NEW o \in D \ {p}
      PROVE  /\ Fit(rsets'[o], set'[o], acquiring' = o)
             /\ CallsAgree(inbox', o, rsets'[o], set'[o], acquiring' = o)
  <2>. DEFINE r == rsets[o]
              x == set[o]
              w == T[o]
              y == rsets'[o]
              held == (acquiring = o)
              q == inbox'
  <2>1. /\ r \in Rset /\ x \in Proper /\ held \in BOOLEAN
        /\ w = x \/ w \in Outcomes(x)
        /\ y = (IF w # x THEN EventCb(r, w) ELSE r) /\ set'[o] = w
        /\ Fit(r, x, held) /\ CallsAgree(q, o, r, x, held)
        /\ (acquiring' = o) = held
    BY <1>3, <1>6, <1>7, <1>8
  <2>. HIDE DEF r, x, w, y, held, q
  <2>2. CASE w = x
    BY <2>1, <2>2 DEF w, y, q
  <2>3. CASE w \in Outcomes(x)
    <3>1. Ready(r, x, held)
      BY <2>1 DEF Fit
    <3>2. /\ Fit(y, w, held) /\ y.locked = r.locked /\ w.list = x.list
          /\ DOMAIN y.resources = DOMAIN r.resources
          /\ \A i \in DOMAIN r.resources : y.resources[i].name = r.resources[i].name
      BY <2>1, <2>3, <3>1, UpdateFits
    <3>3. CallsAgree(q, o, y, w, held)
      BY <2>1, <3>2, CallsStay
    <3>4. QED BY <2>1, <3>2, <3>3 DEF y, q
  <2>4. QED BY <2>1, <2>2, <2>3
<1>10. QED BY <1>1, <1>2, <1>9 DEF ShownInv

LEMMA DeleteShows ==
    ASSUME DbusInv, ShownInv, PathInv, ServeDelete
    PROVE  ShownInv' /\ PathInv'
<1>. DEFINE p == Head(inbox).path
<1>1. Serving("delete") /\ DestroyRset(p, trackers) /\ acquiring' = acquiring
  BY DEF ServeDelete
<1>2. acquiring = None /\ inbox # <<>> /\ inbox' = Tail(inbox) /\ p \in DOMAIN rsets
  BY <1>1, ServingIs
<1>. HIDE DEF p
<1>3. QED BY <1>1, <1>2, DestroyShows

LEMMA IgnoreShows ==
    ASSUME DbusInv, ShownInv, PathInv, Ignore
    PROVE  ShownInv' /\ PathInv'
<1>1. UNCHANGED <<next_id, rsets, set, acquiring>> /\ inbox # <<>> /\ inbox' = Tail(inbox)
  BY DEF Ignore, objects
<1>2. QED BY <1>1, SameShows

LEMMA GoneShows ==
    ASSUME DbusInv, ShownInv, PathInv, ServeGone
    PROVE  ShownInv' /\ PathInv'
<1>. DEFINE F == Following(Head(inbox).name)
<1>1. /\ acquiring = None /\ acquiring' = acquiring /\ inbox # <<>>
      /\ \/ inbox' = Tail(inbox) /\ UNCHANGED <<next_id, rsets, set>>
         \/ F # {} /\ DestroyRset(Min(F), trackers) /\ inbox' = inbox
  BY DEF ServeGone
<1>2. CASE inbox' = Tail(inbox) /\ UNCHANGED <<next_id, rsets, set>>
  BY <1>1, <1>2, SameShows
<1>3. CASE F # {} /\ DestroyRset(Min(F), trackers) /\ inbox' = inbox
  <2>1. F \subseteq Called(trackers) /\ F \subseteq DOMAIN trackers
    BY DEF Following, Called
  <2>2. F \subseteq DOMAIN rsets /\ F \subseteq Nat
    BY <2>1, NextId DEF DbusInv, BusTypes, TrackerInv
  <2>. DEFINE p == Min(F)
  <2>. HIDE DEF F
  <2>3. p \in DOMAIN rsets
    BY <1>3, <2>2, Least
  <2>4. DestroyRset(p, trackers)
    BY <1>3
  <2>. HIDE DEF p
  <2>5. QED BY <1>1, <1>3, <2>3, <2>4, DestroyShows
<1>4. QED BY <1>1, <1>2, <1>3

LEMMA OwnerShows ==
    ASSUME DbusInv, ShownInv, PathInv, ServeOwner
    PROVE  ShownInv' /\ PathInv'
<1>. DEFINE p == Head(inbox).path
            F == [trackers EXCEPT ![p].qid = FALSE]
<1>1. /\ acquiring = None /\ acquiring' = acquiring /\ inbox # <<>> /\ inbox' = Tail(inbox)
      /\ \/ UNCHANGED <<next_id, rsets, set>>
         \/ p \in DOMAIN trackers /\ trackers[p].cb /\ DestroyRset(p, F)
  BY DEF ServeOwner, Handling, Answered
<1>2. CASE UNCHANGED <<next_id, rsets, set>>
  BY <1>1, <1>2, SameShows
<1>3. CASE p \in DOMAIN trackers /\ trackers[p].cb /\ DestroyRset(p, F)
  <2>1. p \in DOMAIN rsets
    BY <1>3 DEF DbusInv, TrackerInv, Called
  <2>2. DestroyRset(p, F) /\ F = [trackers EXCEPT ![p].qid = FALSE]
    BY <1>3
  <2>. HIDE DEF F, p
  <2>3. QED BY <1>1, <2>1, <2>2, DestroyShows
<1>4. QED BY <1>1, <1>2, <1>3

\* A new set is not asked about before its name is known.
LEMMA CreateShows ==
    ASSUME DbusInv, ShownInv, PathInv, ServeCreate
    PROVE  ShownInv' /\ PathInv'
<1>. DEFINE c == Head(inbox).from
            n == next_id
            B == DOMAIN rsets
            r == NewRset(c)
            q == inbox'
<1>1. /\ acquiring = None /\ acquiring' = acquiring
      /\ inbox # <<>> /\ Head(inbox).type = "create" /\ inbox' = Tail(inbox)
      /\ rsets' = With(rsets, n, r) /\ set' = With(set, n, NewSet) /\ next_id' = n + 1
  BY DEF ServeCreate, Handling, Follow
<1>2. inbox \in Seq(Messages) /\ n \in Nat /\ B \subseteq 0..(n - 1) /\ DOMAIN set = B
  BY DEF DbusInv, BusTypes, SetTypes, Ids
<1>3. c \in Clients
  <2>1. Head(inbox) \in Messages
    BY <1>1, <1>2, TailIndices
  <2>2. QED BY <1>1, <2>1, MessageIs
<1>4. Ids \subseteq Ids' /\ n \notin B /\ n \notin Ids /\ (acquiring' = n) = FALSE
  BY <1>1, <1>2, DbusAssumption DEF Ids
<1>5. PathInv'
  BY <1>1, <1>4, PathsStay
<1>6. /\ DOMAIN rsets' = B \cup {n}
      /\ rsets'[n] = r /\ \A p \in B : rsets'[p] = rsets[p]
      /\ set'[n] = NewSet /\ \A p \in B : set'[p] = set[p]
  <2>. HIDE DEF r
  <2>1. QED BY <1>1, <1>2, <1>4 DEF With
<1>7. /\ DOMAIN r.resources = {} /\ r.status = "pending" /\ r.locked = FALSE
      /\ r.acquired = FALSE
  BY DEF NewRset
<1>8. /\ NewSet.list = <<>> /\ NewSet.attached = FALSE /\ NewSet.grant = {}
      /\ NewSet.state = "none"
  BY DEF NewSet
<1>9. Edits(q, n) = {} /\ Additions(q, n) = {} /\ Requests(q, n) = {}
  <2>1. \A i \in DOMAIN q : i + 1 \in DOMAIN inbox /\ q[i] = inbox[i + 1]
    BY <1>1, <1>2, TailEdits
  <2>2. \A i \in DOMAIN q :
          q[i].type \in {"add", "delete resource", "request"} => q[i].path # n
    BY <1>4, <2>1 DEF PathInv
  <2>. HIDE DEF q, n
  <2>3. QED BY <2>2 DEF Edits, Additions, Requests
<1>. HIDE DEF r, q
<1>10. Fit(r, NewSet, FALSE)
  <2>1. Known(r) = {} /\ Distinct(r)
    BY <1>7 DEF Known, Distinct
  <2>2. Shows(r, NewSet)
    BY <1>7, <1>8, <2>1 DEF Shows
  <2>3. QED BY <1>7, <1>8, <2>1, <2>2 DEF Fit, Ready
<1>11. CallsAgree(q, n, r, NewSet, FALSE)
  BY <1>7, <1>8, <1>9 DEF CallsAgree, Orderly, Fresh, Sealed
<1>12. \A p \in B : /\ Fit(rsets[p], set[p], acquiring = p)
                    /\ CallsAgree(q, p, rsets[p], set[p], acquiring = p)
  BY <1>1, TailShows DEF ShownInv, q
<1>13. ASSUME NEW p \in B \cup {n}
       PROVE  /\ Fit(rsets'[p], set'[p], acquiring' = p)
              /\ CallsAgree(q, p, rsets'[p], set'[p], acquiring' = p)
  <2>1. CASE p = n
    BY <1>4, <1>6, <1>10, <1>11, <2>1
  <2>2. CASE p \in B
    BY <1>1, <1>6, <1>12, <2>2
  <2>3. QED BY <2>1, <2>2
<1>14. QED BY <1>5, <1>6, <1>13 DEF ShownInv, q

LEMMA BusShows ==
    ASSUME DbusInv, ShownInv, PathInv,
           (\E c \in Clients : Leave(c)) \/ (\E p \in Paths : BusAnswers(p))
    PROVE  ShownInv' /\ PathInv'
<1>1. CASE \E c \in Clients : Leave(c)
  <2>1. PICK c \in Clients : Leave(c)
    BY <1>1
  <2>2. /\ UNCHANGED <<next_id, rsets, set, acquiring>>
        /\ inbox' = inbox \/ inbox' = Append(inbox, Gone(c))
    BY <2>1 DEF Leave, objects
  <2>3. Gone(c) \in Messages /\ Gone(c).type = "gone"
    BY DEF Gone, Messages
  <2>4. QED BY <2>2, <2>3, SameShows
<1>2. CASE \E p \in Paths : BusAnswers(p)
  <2>1. PICK p \in Paths : BusAnswers(p)
    BY <1>2
  <2>. DEFINE m == Owner(p, asked[p] \in alive)
  <2>2. /\ UNCHANGED <<next_id, rsets, set, acquiring>>
        /\ inbox' = Append(inbox, m)
    BY <2>1 DEF BusAnswers, objects
  <2>3. m \in Messages /\ m.type = "owner"
    BY DbusAssumption DEF Owner, Messages, Paths
  <2>. HIDE DEF m
  <2>4. QED BY <2>2, <2>3, SameShows
<1>3. QED BY <1>1, <1>2

LEMMA InitShows == Init => ShownInv /\ PathInv
  BY DEF Init, ShownInv, PathInv

LEMMA NextShows ==
    ASSUME Habits = {}, DbusInv, ShownInv, PathInv, [Next]_vars
    PROVE  ShownInv' /\ PathInv'
<1>1. CASE UNCHANGED vars
  <2>1. UNCHANGED <<next_id, rsets, set, acquiring>> /\ inbox' = inbox
    BY <1>1 DEF vars, objects
  <2>2. QED BY <2>1, SameShows
<1>2. CASE Daemon
  BY <1>2, CreateShows, AddShows, ClassShows, MandatoryShows, DeleteResourceShows,
     RequestShows, AcquireShows, ReleaseShows, DeleteShows, IgnoreShows, GoneShows,
     OwnerShows DEF Daemon
<1>3. CASE OthersUpdate
  BY <1>3, OthersShow
<1>4. CASE ClientCalls
  BY <1>4, ClientCallsShow
<1>5. CASE (\E c \in Clients : Leave(c)) \/ (\E p \in Paths : BusAnswers(p))
  BY <1>5, BusShows
<1>6. QED BY <1>1, <1>2, <1>3, <1>4, <1>5 DEF Next

LEMMA ShownIsTrue == DbusInv /\ ShownInv => ObjectsAreTrue
<1>. SUFFICES ASSUME DbusInv, ShownInv
              PROVE  ObjectsAreTrue
  OBVIOUS
<1>1. \A p \in DOMAIN rsets : Ready(rsets[p], set[p], acquiring = p)
  BY DEF ShownInv, Fit
<1>2. StatusIsTrue
  <2>1. \A p \in DOMAIN rsets : Shows(rsets[p], set[p])
    BY <1>1 DEF Ready
  <2>2. QED BY <2>1 DEF StatusIsTrue, Shows, Known
<1>3. ObjectsMatch
  <2>1. \A p \in DOMAIN rsets :
          /\ rsets[p].locked => set[p].attached
          /\ set[p].attached => Matches(rsets[p], set[p])
    <3>1. SUFFICES ASSUME NEW p \in DOMAIN rsets
                   PROVE  /\ rsets[p].locked => set[p].attached
                          /\ set[p].attached => Matches(rsets[p], set[p])
      OBVIOUS
    <3>2. QED BY <1>1 DEF Ready
  <2>2. QED BY <2>1 DEF ObjectsMatch, Matches, KnownNames, Mandatory
<1>4. QED BY <1>2, <1>3 DEF ObjectsAreTrue

\* When clients give the resources of a set different names, leave them as they
\* are from the request on and do not repeat a request that failed, the bus is
\* shown what the arbitration has: the status of each set and of its resources,
\* in whatever order calls, updates of the zone and the ends of other clients come,
\* and the set the arbitration decides about is the one the objects describe.
THEOREM ObjectsShowWhatIs ==
    ASSUME Habits = {}
    PROVE  Spec => []ObjectsAreTrue
<1>. DEFINE I == DbusInv /\ ShownInv /\ PathInv
<1>1. Init => I
  BY InitHolds, InitShows
<1>2. I /\ [Next]_vars => I'
  BY NextKeeps, NextShows
<1>3. I => ObjectsAreTrue
  BY ShownIsTrue
<1>4. QED BY <1>1, <1>2, <1>3, PTL DEF Spec
=============================================================================
