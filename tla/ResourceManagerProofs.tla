------------------------ MODULE ResourceManagerProofs ------------------------
(***************************************************************************)
(* Proofs about ResourceManager: what unlinking and inserting keep of a    *)
(* list, type correctness, and what the arbitration hands out and tells:   *)
(* the grants are exclusive and whole and implement the abstract           *)
(* ResourceGrants; clients and tables know the outcome of every update     *)
(* once it has ended. Then the order: the class lists keep the order of    *)
(* the levels, and going down it an update gives each set what the sets    *)
(* ahead of it leave, and takes nothing for any other reason.              *)
(***************************************************************************)
EXTENDS ResourceManager, SequenceTheorems, FiniteSetTheorems, TLAPS

-----------------------------------------------------------------------------
(* Lists *)

\* mrp_list_delete, element by element.
LEMMA UnlinkElements ==
    ASSUME NEW S, NEW q \in Seq(S), NEW s, NEW p \in 1..Len(q), q[p] = s,
           p = Position(q, s)
    PROVE  /\ Unlink(q, s) \in Seq(S)
           /\ Len(Unlink(q, s)) = Len(q) - 1
           /\ \A j \in 1..(Len(q) - 1) :
                Unlink(q, s)[j] = IF j < p THEN q[j] ELSE q[j + 1]
<1> DEFINE a == SubSeq(q, 1, p - 1)
           b == SubSeq(q, p + 1, Len(q))
<1>1. Unlink(q, s) = a \o b
  <2>1. Has(q, s)
    BY DEF Has
  <2>2. QED BY <2>1 DEF Unlink
<1>2. /\ a \in Seq(S) /\ Len(a) = p - 1
      /\ \A j \in 1..(p - 1) : a[j] = q[j]
  OBVIOUS
<1>3. /\ b \in Seq(S) /\ Len(b) = Len(q) - p
      /\ \A j \in 1..(Len(q) - p) : b[j] = q[p + j]
  OBVIOUS
<1> HIDE DEF a, b
<1>4. /\ a \o b \in Seq(S)
      /\ Len(a \o b) = Len(q) - 1
      /\ \A j \in 1..(Len(q) - 1) :
           (a \o b)[j] = IF j < p THEN a[j] ELSE b[j - p + 1]
  BY <1>2, <1>3, ConcatProperties
<1>5. ASSUME NEW j \in 1..(Len(q) - 1)
      PROVE  (a \o b)[j] = IF j < p THEN q[j] ELSE q[j + 1]
  <2>1. CASE j < p
    BY <2>1, <1>2, <1>4
  <2>2. CASE ~(j < p)
    <3>1. j - p + 1 \in 1..(Len(q) - p) /\ p + (j - p + 1) = j + 1
      BY <2>2
    <3>2. QED BY <2>2, <3>1, <1>3, <1>4
  <2>3. QED BY <2>1, <2>2
<1>6. QED BY <1>1, <1>4, <1>5

\* Deleting an element keeps all others, and leaves no trace of a single one.
LEMMA UnlinkMembers ==
    ASSUME NEW S, NEW q \in Seq(S), NEW s
    PROVE  /\ Unlink(q, s) \in Seq(S)
           /\ \A t : t # s => (Has(Unlink(q, s), t) <=> Has(q, t))
           /\ NoRepeat(q) => NoRepeat(Unlink(q, s)) /\ ~Has(Unlink(q, s), s)
<1>1. CASE ~Has(q, s)
  BY <1>1 DEF Has, Unlink
<1>2. CASE Has(q, s)
  <2> DEFINE u == Unlink(q, s)
             p == Position(q, s)
  <2>1. p \in 1..Len(q) /\ q[p] = s
    BY <1>2 DEF Has, Position
  <2>2. /\ u \in Seq(S) /\ Len(u) = Len(q) - 1
        /\ \A j \in 1..(Len(q) - 1) : u[j] = IF j < p THEN q[j] ELSE q[j + 1]
    BY <2>1, UnlinkElements
  <2> HIDE DEF u, p
  <2>3. ASSUME NEW t, t # s, Has(q, t)
        PROVE  Has(u, t)
    <3>1. PICK i \in 1..Len(q) : q[i] = t
      BY <2>3 DEF Has
    <3>2. CASE i < p
      BY <3>1, <3>2, <2>1, <2>2 DEF Has
    <3>3. CASE i > p
      <4>1. i - 1 \in 1..(Len(q) - 1) /\ u[i - 1] = t
        BY <3>1, <3>3, <2>1, <2>2
      <4>2. QED BY <4>1, <2>2 DEF Has
    <3>4. i # p
      BY <3>1, <2>1, <2>3
    <3>5. QED BY <3>1, <3>2, <3>3, <3>4, <2>1
  <2>4. ASSUME NEW t, Has(u, t)
        PROVE  Has(q, t)
    BY <2>4, <2>1, <2>2 DEF Has
  <2>5. ASSUME NoRepeat(q)
        PROVE  NoRepeat(u) /\ ~Has(u, s)
    <3>1. ~Has(u, s)
      BY <2>5, <2>1, <2>2 DEF Has, NoRepeat
    <3>2. ASSUME NEW i \in 1..(Len(q) - 1), NEW j \in 1..(Len(q) - 1),
                 u[i] = u[j]
          PROVE  i = j
      <4> DEFINE n(k) == IF k < p THEN k ELSE k + 1
      <4>1. \A k \in 1..(Len(q) - 1) : n(k) \in 1..Len(q) /\ u[k] = q[n(k)]
        BY <2>1, <2>2
      <4>2. n(i) = n(j)
        <5> HIDE DEF n
        <5> QED BY <4>1, <3>2, <2>5 DEF NoRepeat
      <4>3. QED BY <4>2, <2>1
    <3>3. QED BY <3>1, <3>2, <2>2 DEF NoRepeat
  <2>6. QED BY <2>2, <2>3, <2>4, <2>5 DEF u
<1>3. QED BY <1>1, <1>2

\* mrp_list_append, element by element.
LEMMA InsertElements ==
    ASSUME NEW S, NEW q \in Seq(S), NEW s \in S, NEW i \in 0..Len(q)
    PROVE  /\ Insert(q, i, s) \in Seq(S)
           /\ Len(Insert(q, i, s)) = Len(q) + 1
           /\ \A j \in 1..(Len(q) + 1) :
                Insert(q, i, s)[j] = IF j <= i THEN q[j]
                                     ELSE IF j = i + 1 THEN s ELSE q[j - 1]
<1> DEFINE a == SubSeq(q, 1, i)
           b == SubSeq(q, i + 1, Len(q))
           m == a \o <<s>> \o b
<1>1. /\ a \in Seq(S) /\ Len(a) = i
      /\ \A j \in 1..i : a[j] = q[j]
  OBVIOUS
<1>2. /\ b \in Seq(S) /\ Len(b) = Len(q) - i
      /\ \A j \in 1..(Len(q) - i) : b[j] = q[i + j]
  OBVIOUS
<1>3. /\ m \in Seq(S) /\ Len(m) = Len(q) + 1
      /\ \A j \in 1..(Len(q) + 1) :
           m[j] = IF j <= i THEN a[j] ELSE IF j = i + 1 THEN s ELSE b[j - i - 1]
  <2> HIDE DEF a, b
  <2>1. /\ a \o <<s>> \in Seq(S) /\ Len(a \o <<s>>) = i + 1
        /\ \A j \in 1..(i + 1) : (a \o <<s>>)[j] = IF j <= i THEN a[j] ELSE s
    BY <1>1, ConcatProperties, <<s>> \in Seq(S)
  <2> DEFINE as == a \o <<s>>
  <2> HIDE DEF as
  <2>2. /\ as \o b \in Seq(S) /\ Len(as \o b) = Len(q) + 1
        /\ \A j \in 1..(Len(q) + 1) :
             (as \o b)[j] = IF j <= i + 1 THEN as[j] ELSE b[j - i - 1]
    <3>1. /\ as \in Seq(S) /\ Len(as) = i + 1
          /\ \A j \in 1..(i + 1) : as[j] = IF j <= i THEN a[j] ELSE s
      BY <2>1 DEF as
    <3>2. /\ as \o b \in Seq(S) /\ Len(as \o b) = Len(as) + Len(b)
          /\ \A j \in 1..(Len(as) + Len(b)) :
               (as \o b)[j] = IF j <= Len(as) THEN as[j] ELSE b[j - Len(as)]
      BY <3>1, <1>2, ConcatProperties
    <3>3. Len(as) + Len(b) = Len(q) + 1
      BY <3>1, <1>2
    <3>4. \A j \in 1..(Len(q) + 1) : j - Len(as) = j - i - 1
      BY <3>1
    <3>5. QED BY <3>1, <3>2, <3>3, <3>4
  <2>3. QED BY <2>1, <2>2 DEF as
<1>4. \A j \in 1..(Len(q) + 1) :
        m[j] = IF j <= i THEN q[j] ELSE IF j = i + 1 THEN s ELSE q[j - 1]
  <2> HIDE DEF a, b, m
  <2> SUFFICES ASSUME NEW j \in 1..(Len(q) + 1)
               PROVE  m[j] = IF j <= i THEN q[j]
                             ELSE IF j = i + 1 THEN s ELSE q[j - 1]
    OBVIOUS
  <2>1. CASE j <= i + 1
    BY <2>1, <1>1, <1>3
  <2>2. CASE j > i + 1
    <3>1. j - i - 1 \in 1..(Len(q) - i) /\ i + (j - i - 1) = j - 1
      BY <2>2
    <3>2. b[j - i - 1] = q[i + (j - i - 1)]
      BY <3>1, <1>2
    <3>3. m[j] = b[j - i - 1]
      BY <2>2, <1>3
    <3>4. QED BY <2>2, <3>1, <3>2, <3>3
  <2>3. QED BY <2>1, <2>2
<1> HIDE DEF m
<1>5. QED BY <1>3, <1>4 DEF m, Insert

\* Inserting an element keeps all others, and repeats none but itself.
LEMMA InsertMembers ==
    ASSUME NEW S, NEW q \in Seq(S), NEW s \in S, NEW i \in 0..Len(q)
    PROVE  /\ Insert(q, i, s) \in Seq(S)
           /\ \A t : Has(Insert(q, i, s), t) <=> (t = s \/ Has(q, t))
           /\ NoRepeat(q) /\ ~Has(q, s) => NoRepeat(Insert(q, i, s))
<1> DEFINE m == Insert(q, i, s)
<1>3. /\ m \in Seq(S) /\ Len(m) = Len(q) + 1
      /\ DOMAIN m = 1..(Len(q) + 1)
  BY InsertElements
<1>4. \A j \in 1..(Len(q) + 1) :
        m[j] = IF j <= i THEN q[j] ELSE IF j = i + 1 THEN s ELSE q[j - 1]
  BY InsertElements
<1> HIDE DEF m
<1>5. ASSUME NEW t
      PROVE  Has(m, t) <=> (t = s \/ Has(q, t))
  <2>1. ASSUME Has(m, t) PROVE t = s \/ Has(q, t)
    BY <2>1, <1>3, <1>4 DEF Has
  <2>2. Has(m, s)
    <3>1. i + 1 \in DOMAIN m /\ m[i + 1] = s
      BY <1>3, <1>4
    <3>2. QED BY <3>1 DEF Has
  <2>3. ASSUME NEW j \in 1..Len(q), q[j] = t PROVE Has(m, t)
    <3>1. CASE j <= i
      <4>1. j \in DOMAIN m /\ m[j] = t
        BY <3>1, <2>3, <1>3, <1>4
      <4>2. QED BY <4>1 DEF Has
    <3>2. CASE j > i
      <4>1. j + 1 \in DOMAIN m /\ m[j + 1] = t
        BY <3>2, <2>3, <1>3, <1>4
      <4>2. QED BY <4>1 DEF Has
    <3>3. QED BY <3>1, <3>2
  <2>4. QED BY <2>1, <2>2, <2>3 DEF Has
<1>6. ASSUME NoRepeat(q), ~Has(q, s)
      PROVE  NoRepeat(m)
  <2> SUFFICES ASSUME NEW j \in 1..(Len(q) + 1), NEW k \in 1..(Len(q) + 1),
                      m[j] = m[k]
               PROVE  j = k
    BY <1>3 DEF NoRepeat
  <2>1. \A l \in 1..Len(q) : q[l] # s
    BY <1>6 DEF Has
  <2>2. \A l, n \in 1..Len(q) : q[l] = q[n] => l = n
    BY <1>6 DEF NoRepeat
  <2> DEFINE n(x) == IF x <= i THEN x ELSE x - 1
  <2>3. \A k1 \in 1..(Len(q) + 1) :
          k1 # i + 1 => n(k1) \in 1..Len(q) /\ m[k1] = q[n(k1)]
    BY <1>4
  <2>4. m[i + 1] = s
    BY <1>4
  <2>5. CASE j = i + 1 \/ k = i + 1
    <3> HIDE DEF n
    <3> QED BY <2>1, <2>3, <2>4, <2>5
  <2>6. CASE j # i + 1 /\ k # i + 1
    <3>1. n(j) = n(k)
      <4> HIDE DEF n
      <4> QED BY <2>6, <2>2, <2>3
    <3>2. QED BY <3>1, <2>6
  <2>7. QED BY <2>5, <2>6
<1>7. QED BY <1>3, <1>5, <1>6 DEF m

-----------------------------------------------------------------------------
(* The order of a list *)

\* s comes before t.
Precedes(q, s, t) == \E i, j \in DOMAIN q : i < j /\ q[i] = s /\ q[j] = t

\* An entry that is linked once has one place.
LEMMA PositionIs ==
    ASSUME NEW S, NEW q \in Seq(S), NoRepeat(q), NEW i \in DOMAIN q
    PROVE  Position(q, q[i]) = i
<1>1. \E j \in DOMAIN q : q[j] = q[i]
  OBVIOUS
<1>2. Position(q, q[i]) \in DOMAIN q /\ q[Position(q, q[i])] = q[i]
  BY <1>1 DEF Position
<1>3. QED BY <1>2 DEF NoRepeat

\* Positions compare as the entries follow each other.
LEMMA PositionPrecedes ==
    ASSUME NEW S, NEW q \in Seq(S), NoRepeat(q), NEW s, NEW t,
           Has(q, s), Has(q, t)
    PROVE  Position(q, s) > Position(q, t) <=> Precedes(q, t, s)
<1>1. PICK i \in DOMAIN q : q[i] = s
  BY DEF Has
<1>2. PICK j \in DOMAIN q : q[j] = t
  BY DEF Has
<1>3. Position(q, s) = i /\ Position(q, t) = j
  BY <1>1, <1>2, PositionIs
<1>4. i \in Nat /\ j \in Nat
  OBVIOUS
<1>5. ASSUME Precedes(q, t, s) PROVE j < i
  BY <1>1, <1>2, <1>5 DEF Precedes, NoRepeat
<1>6. ASSUME j < i PROVE Precedes(q, t, s)
  BY <1>1, <1>2, <1>6 DEF Precedes
<1>7. QED BY <1>3, <1>4, <1>5, <1>6

\* The order is total, and strict.
LEMMA PrecedesTotal ==
    ASSUME NEW S, NEW q \in Seq(S), NoRepeat(q), NEW s, NEW t,
           Has(q, s), Has(q, t), s # t
    PROVE  Precedes(q, s, t) <=> ~Precedes(q, t, s)
<1>1. PICK i \in DOMAIN q : q[i] = s
  BY DEF Has
<1>2. PICK j \in DOMAIN q : q[j] = t
  BY DEF Has
<1>3. i # j /\ i \in Nat /\ j \in Nat
  BY <1>1, <1>2
<1>4. \A k \in DOMAIN q : (q[k] = s => k = i) /\ (q[k] = t => k = j)
  BY <1>1, <1>2 DEF NoRepeat
<1>5. Precedes(q, s, t) <=> i < j
  BY <1>1, <1>2, <1>4 DEF Precedes
<1>6. Precedes(q, t, s) <=> j < i
  BY <1>1, <1>2, <1>4 DEF Precedes
<1>7. QED BY <1>3, <1>5, <1>6

\* Unlinking an entry keeps the order of the others.
LEMMA UnlinkOrder ==
    ASSUME NEW S, NEW q \in Seq(S), NEW s, NEW t, NEW u,
           Precedes(Unlink(q, s), t, u)
    PROVE  Precedes(q, t, u)
<1> DEFINE m == Unlink(q, s)
           p == Position(q, s)
<1>1. CASE ~Has(q, s)
  BY <1>1 DEF Unlink
<1>2. CASE Has(q, s)
  <2>1. p \in DOMAIN q /\ q[p] = s
    BY <1>2 DEF Has, Position
  <2>2. p \in 1..Len(q)
    BY <2>1
  <2>3. /\ m \in Seq(S) /\ Len(m) = Len(q) - 1
        /\ \A j \in 1..(Len(q) - 1) : m[j] = IF j < p THEN q[j] ELSE q[j + 1]
    BY <2>1, <2>2, UnlinkElements
  <2> DEFINE n(x) == IF x < p THEN x ELSE x + 1
  <2> HIDE DEF m, p
  <2>4. PICK i, j \in 1..(Len(q) - 1) : i < j /\ m[i] = t /\ m[j] = u
    BY <2>3 DEF Precedes, m
  <2>5. n(i) \in DOMAIN q /\ n(j) \in DOMAIN q /\ n(i) < n(j)
    BY <2>2, <2>4
  <2>6. q[n(i)] = t /\ q[n(j)] = u
    BY <2>3, <2>4
  <2>7. QED BY <2>5, <2>6 DEF Precedes
<1>3. QED BY <1>1, <1>2

\* Inserting an entry keeps the order of the others; the new one follows the
\* first i of them.
LEMMA InsertOrder ==
    ASSUME NEW S, NEW q \in Seq(S), NEW s \in S, NEW i \in 0..Len(q),
           ~Has(q, s), NEW t, NEW u, Precedes(Insert(q, i, s), t, u)
    PROVE  \/ Precedes(q, t, u)
           \/ u = s /\ \E j \in DOMAIN q : j <= i /\ q[j] = t
           \/ t = s /\ \E j \in DOMAIN q : j > i /\ q[j] = u
<1> DEFINE m == Insert(q, i, s)
           n(x) == IF x <= i THEN x ELSE x - 1
<1>1. /\ m \in Seq(S)
      /\ Len(m) = Len(q) + 1
      /\ \A x \in 1..(Len(q) + 1) :
           m[x] = IF x <= i THEN q[x] ELSE IF x = i + 1 THEN s ELSE q[x - 1]
  <2> HIDE DEF n
  <2>1. m \in Seq(S) /\ Len(m) = Len(q) + 1
    BY InsertElements
  <2>2. \A x \in 1..(Len(q) + 1) :
          m[x] = IF x <= i THEN q[x] ELSE IF x = i + 1 THEN s ELSE q[x - 1]
    BY InsertElements
  <2>3. QED BY <2>1, <2>2
<1> HIDE DEF m
<1>2. PICK j, k \in 1..(Len(q) + 1) : j < k /\ m[j] = t /\ m[k] = u
  BY <1>1 DEF Precedes, m
<1>3. \A x \in 1..(Len(q) + 1) :
        x # i + 1 => n(x) \in DOMAIN q /\ m[x] = q[n(x)]
  BY <1>1
<1>4. m[i + 1] = s
  BY <1>1
<1>5. CASE j = i + 1
  <2>1. k > i + 1
    BY <1>2, <1>5
  <2>2. n(k) \in DOMAIN q /\ n(k) > i /\ q[n(k)] = u
    BY <1>2, <1>3, <2>1
  <2>3. t = s
    BY <1>2, <1>4, <1>5
  <2> HIDE DEF n
  <2>4. QED BY <2>2, <2>3
<1>6. CASE k = i + 1
  <2>1. j <= i /\ j # i + 1
    BY <1>2, <1>6
  <2>2. n(j) \in DOMAIN q /\ n(j) <= i /\ q[n(j)] = t
    BY <1>2, <1>3, <2>1
  <2>3. u = s
    BY <1>2, <1>4, <1>6
  <2> HIDE DEF n
  <2>4. QED BY <2>2, <2>3
<1>7. CASE j # i + 1 /\ k # i + 1
  <2>1. n(j) < n(k)
    BY <1>2, <1>7
  <2>2. n(j) \in DOMAIN q /\ n(k) \in DOMAIN q /\ q[n(j)] = t /\ q[n(k)] = u
    BY <1>2, <1>3, <1>7
  <2> HIDE DEF n
  <2>3. QED BY <2>1, <2>2 DEF Precedes
<1>8. QED BY <1>5, <1>6, <1>7

\* Sorted by the values a function gives to the entries.
SortedBy(q, key) == \A s, t : Precedes(q, s, t) => key[s] <= key[t]

\* What is put between the smaller and the greater ones keeps a list sorted.
LEMMA InsertSorted ==
    ASSUME NEW S, NEW q \in Seq(S), NEW s \in S, NEW i \in 0..Len(q),
           ~Has(q, s), NEW key \in [S -> Int], SortedBy(q, key),
           i > 0 => key[q[i]] <= key[s],
           \A j \in (i + 1)..Len(q) : key[q[j]] >= key[s]
    PROVE  SortedBy(Insert(q, i, s), key)
<1> SUFFICES ASSUME NEW t, NEW u, Precedes(Insert(q, i, s), t, u)
             PROVE  key[t] <= key[u]
  BY DEF SortedBy
<1>1. CASE Precedes(q, t, u)
  BY <1>1 DEF SortedBy
<1>2. ASSUME u = s, NEW j \in DOMAIN q, j <= i, q[j] = t
      PROVE  key[t] <= key[u]
  <2>1. i \in DOMAIN q /\ key[q[i]] <= key[s]
    BY <1>2
  <2>2. j = i \/ key[q[j]] <= key[q[i]]
    BY <1>2, <2>1 DEF SortedBy, Precedes
  <2>3. q[j] \in S /\ q[i] \in S
    BY <1>2, <2>1
  <2>4. QED BY <1>2, <2>1, <2>2, <2>3
<1>3. ASSUME t = s, NEW j \in DOMAIN q, j > i, q[j] = u
      PROVE  key[t] <= key[u]
  <2>1. key[q[j]] >= key[s] /\ q[j] \in S
    BY <1>3
  <2>2. QED BY <1>3, <2>1
<1>4. QED BY <1>1, <1>2, <1>3, InsertOrder

LEMMA UnlinkSorted ==
    ASSUME NEW S, NEW q \in Seq(S), NEW s, NEW key, SortedBy(q, key)
    PROVE  SortedBy(Unlink(q, s), key)
BY UnlinkOrder DEF SortedBy

-----------------------------------------------------------------------------
(* Types *)

Reqno == ReqIds \cup {0, InvalidReqno}
States == {"no_request", "release", "acquire"}

\* What a destruction needs to go on: the set being destroyed exists, and the
\* client being destroyed has a set left.
DeathInv ==
    /\ phase = "free" => dying # None
    /\ phase = "next" => leaving # None /\ clientSets[leaving] # <<>>

TInv == TypeOK /\ DeathInv

\* The variables a request or an update may change, and the others.
LoopTyped ==
    /\ state \in [Sets -> States]
    /\ request \in [Sets -> Reqno]
    /\ stamp \in [Sets -> Nat]
    /\ nextStamp \in 0..StampMax
    /\ lists \in [Zones -> [Classes -> Seq(Sets)]]
    /\ owner \in [Zones -> [Resources -> Owner]]
    /\ awaiting \in Sets \cup {None}
    /\ phase \in {"idle", "scan", "notify", "free", "next", "aborted"}
    /\ update \in [zone : Zones \cup {None}, set : Sets \cup {None},
                   reqid : Reqno]
    /\ todo \in SUBSET Sets
    /\ events \in Seq([set : Sets, replyid : Reqno, shuffle : BOOLEAN])
    /\ oldOwner \in [Resources -> Owner]

RestTyped ==
    /\ clientSets \in [Clients -> Seq(Sets)]
    /\ profile \in [Sets -> Profiles]
    /\ attached \in SUBSET Sets
    /\ grant \in [Sets -> SUBSET Resources]
    /\ advice \in [Sets -> SUBSET Resources]
    /\ ownerRow \in [Zones -> [Resources -> [class : Classes \cup {None},
                                             set   : Sets \cup {None}]]]
    /\ userRow \in [Sets -> [state : States, grant : SUBSET Resources]]
    /\ view \in [Sets -> [state  : States, grant  : SUBSET Resources,
                          advice : SUBSET Resources]]
    /\ dying \in Sets \cup {None}
    /\ leaving \in Clients \cup {None}

LEMMA TypeSplit ==
    /\ TypeOK <=> LoopTyped /\ RestTyped
    /\ TypeOK' <=> LoopTyped' /\ RestTyped'
BY DEF TypeOK, LoopTyped, RestTyped, States, Reqno

LEMMA ProfileType ==
    ASSUME NEW p \in Profiles
    PROVE  /\ p.client \in Clients
           /\ p.class \in Classes
           /\ p.zone \in Zones
           /\ p.mandatory \subseteq p.all
           /\ p.all \subseteq Resources
BY ProfileAssumption DEF Profile

-----------------------------------------------------------------------------
(* Type correctness *)

LEMMA ZeroType ==
    /\ ZeroOwner \in Owner
    /\ ResetOwner \in Owner
BY DEF ZeroOwner, ResetOwner, Owner

\* Insertion into a class list touches the lists alone.
LEMMA MoveType ==
    ASSUME TypeOK, NEW s \in Sets, NEW st, NEW sp, Move(s, st, sp)
    PROVE  lists' \in [Zones -> [Classes -> Seq(Sets)]]
<1> DEFINE z == profile[s].zone
           c == profile[s].class
           q == Unlink(lists[z][c], s)
<1>1. z \in Zones /\ c \in Classes
  BY ProfileType DEF TypeOK
<1>2. lists[z][c] \in Seq(Sets)
  BY <1>1 DEF TypeOK
<1>3. q \in Seq(Sets)
  BY <1>2, UnlinkMembers
<1>4. PICK i \in 0..Len(q) : lists' = [lists EXCEPT ![z][c] = Insert(q, i, s)]
  BY DEF Move
<1>5. Insert(q, i, s) \in Seq(Sets)
  BY <1>3, InsertMembers
<1>6. QED BY <1>1, <1>4, <1>5 DEF TypeOK

LEMMA BeginUpdateType ==
    ASSUME TypeOK, NEW s \in Sets, NEW reqid \in Reqno, BeginUpdate(s, reqid)
    PROVE  /\ owner' \in [Zones -> [Resources -> Owner]]
           /\ awaiting' \in Sets \cup {None}
           /\ phase' = "scan"
           /\ update' \in [zone : Zones \cup {None}, set : Sets \cup {None},
                           reqid : Reqno]
           /\ todo' \in SUBSET Sets
           /\ events' = <<>>
           /\ events' \in Seq([set : Sets, replyid : Reqno, shuffle : BOOLEAN])
           /\ oldOwner' \in [Resources -> Owner]
<1>1. profile[s].zone \in Zones
  BY ProfileType DEF TypeOK
<1>2. owner' \in [Zones -> [Resources -> Owner]]
  BY ZeroType DEF BeginUpdate, TypeOK
<1>3. awaiting' \in Sets \cup {None}
  BY DEF BeginUpdate, TypeOK
<1>4. QED BY <1>1, <1>2, <1>3 DEF BeginUpdate, Members, TypeOK

LEMMA RequestType ==
    ASSUME TypeOK, NEW s \in Sets, NEW newState \in States, NEW reqid \in Reqno,
           Request(s, newState, reqid)
    PROVE  LoopTyped' /\ phase' \in {"scan", "aborted"}
<1>1. /\ state' = [state EXCEPT ![s] = newState]
      /\ request' = [request EXCEPT ![s] = reqid]
  BY DEF Request
<1>2. /\ state' \in [Sets -> States]
      /\ request' \in [Sets -> Reqno]
  BY <1>1 DEF TypeOK, States, Reqno
<1>3. PICK b \in 0..nextStamp :
        /\ StampBase(b)
        /\ IF nextStamp - b < StampMax
           THEN /\ nextStamp' = nextStamp - b + 1
                /\ stamp' = Stamped(s, b)
                /\ Move(s, state', stamp')
                /\ BeginUpdate(s, reqid)
           ELSE /\ phase' = "aborted"
                /\ UNCHANGED <<nextStamp, stamp, lists, owner, awaiting>>
                /\ UNCHANGED loopVars
  BY DEF Request
<1>4. StampMax \in Nat /\ nextStamp \in Nat /\ nextStamp <= StampMax
  BY ConfigAssumption DEF TypeOK
<1>5. CASE nextStamp - b < StampMax
  <2>1. nextStamp' \in 0..StampMax
    BY <1>3, <1>4, <1>5
  <2>2. \A t \in Live : b <= stamp[t]
    <3>1. CASE nextStamp < StampMax
      <4>1. b = 0
        BY <1>3, <3>1 DEF StampBase
      <4>2. \A t \in Live : stamp[t] \in Nat
        BY DEF TypeOK, Live
      <4>3. QED BY <4>1, <4>2
    <3>2. CASE ~(nextStamp < StampMax)
      BY <1>3, <3>2 DEF StampBase
    <3>3. QED BY <3>1, <3>2
  <2>3. stamp' \in [Sets -> Nat]
    <3>1. nextStamp - b \in Nat
      BY <1>4
    <3>2. \A t \in Sets : stamp[t] \in Nat
      BY DEF TypeOK
    <3>3. \A t \in Live : stamp[t] - b \in Nat
      BY <2>2, <3>2 DEF Live
    <3>4. Stamped(s, b) \in [Sets -> Nat]
      BY <3>1, <3>2, <3>3 DEF Stamped
    <3>5. QED BY <1>3, <1>5, <3>4
  <2>4. lists' \in [Zones -> [Classes -> Seq(Sets)]]
    BY <1>3, <1>5, MoveType
  <2>5. QED BY <1>2, <1>3, <1>5, <2>1, <2>3, <2>4, BeginUpdateType DEF LoopTyped
<1>6. CASE ~(nextStamp - b < StampMax)
  BY <1>2, <1>3, <1>6, TypeSplit DEF LoopTyped, loopVars
<1>7. QED BY <1>5, <1>6

LEMMA InitType == Init => TInv
<1> SUFFICES ASSUME Init PROVE TInv
  OBVIOUS
<1>1. NoProfile \in Profiles
  BY ProfileAssumption DEF NoProfile
<1>2. \A S : <<>> \in Seq(S)
  OBVIOUS
<1>3. TypeOK
  BY <1>1, <1>2, ZeroType, ConfigAssumption
     DEF Init, TypeOK, NoRow, NoUserRow, NoView, NoUpdate
<1>4. QED BY <1>3 DEF Init, TInv, DeathInv

LEMMA CreateType ==
    ASSUME TInv, NEW s \in Sets, NEW p \in Profiles, Create(s, p)
    PROVE  TInv'
<1>1. clientSets' \in [Clients -> Seq(Sets)]
  BY ProfileType DEF Create, TInv, TypeOK
<1>2. profile' \in [Sets -> Profiles]
  BY DEF Create, TInv, TypeOK
<1>3. TypeOK'
  BY <1>1, <1>2
     DEF Create, TInv, TypeOK, grantVars, clientVars, dbVars, loopVars, deathVars
<1>4. DeathInv'
  BY DEF Create, DeathInv
<1>5. QED BY <1>3, <1>4 DEF TInv

LEMMA AddToClassType ==
    ASSUME TInv, NEW s \in Sets, NEW n \in ReqIds, AddToClass(s, n)
    PROVE  TInv'
<1> USE DEF TInv
<1>1. n \in Reqno
  BY DEF Reqno
<1>2. RestTyped'
  BY TypeSplit DEF AddToClass, RestTyped, dbVars, deathVars, Live
<1>3. CASE Request(s, "acquire", n)
  BY <1>1, <1>2, <1>3, RequestType, TypeSplit
     DEF DeathInv, States
<1>4. CASE /\ state' = [state EXCEPT ![s] = "release"]
           /\ request' = [request EXCEPT ![s] = n]
           /\ UNCHANGED <<stamp, nextStamp>>
           /\ Move(s, state', stamp)
           /\ BeginUpdate(s, n)
  <2>1. /\ state' \in [Sets -> States]
        /\ request' \in [Sets -> Reqno]
        /\ stamp' \in [Sets -> Nat]
        /\ nextStamp' \in 0..StampMax
    BY <1>1, <1>4 DEF TypeOK, States, Reqno
  <2>2. lists' \in [Zones -> [Classes -> Seq(Sets)]]
    BY <1>4, MoveType
  <2>3. LoopTyped' /\ phase' = "scan"
    BY <1>1, <1>4, <2>1, <2>2, BeginUpdateType DEF LoopTyped
  <2>4. QED BY <1>2, <2>3, TypeSplit DEF DeathInv
<1>5. QED BY <1>3, <1>4 DEF AddToClass

LEMMA AcquireType ==
    ASSUME TInv, NEW s \in Sets, NEW n \in ReqIds, Acquire(s, n)
    PROVE  TInv'
<1> USE DEF TInv
<1>1. n \in Reqno
  BY DEF Reqno
<1>2. RestTyped'
  BY TypeSplit DEF Acquire, RestTyped, dbVars, deathVars
<1>3. CASE Request(s, "acquire", n)
  BY <1>1, <1>2, <1>3, RequestType, TypeSplit DEF DeathInv, States
<1>4. CASE /\ state' = [state EXCEPT ![s] = "acquire"]
           /\ UNCHANGED <<request, stamp, nextStamp, lists, owner, awaiting, phase>>
           /\ UNCHANGED loopVars
  <2>1. LoopTyped'
    BY <1>4, TypeSplit DEF LoopTyped, loopVars, States
  <2>2. QED BY <1>2, <1>4, <2>1, TypeSplit DEF Acquire, DeathInv
<1>5. QED BY <1>3, <1>4 DEF Acquire

LEMMA NotifyType ==
    ASSUME TypeOK, NEW s \in Sets, Notify(s)
    PROVE  view' \in [Sets -> [state : States, grant : SUBSET Resources,
                               advice : SUBSET Resources]]
BY DEF TypeOK, Notify, States

LEMMA ReleaseType ==
    ASSUME TInv, NEW s \in Sets, NEW n \in ReqIds, Release(s, n)
    PROVE  TInv'
<1> USE DEF TInv
<1>1. n \in Reqno
  BY DEF Reqno
<1>2. view' \in [Sets -> [state : States, grant : SUBSET Resources,
                          advice : SUBSET Resources]] => RestTyped'
  BY TypeSplit DEF Release, RestTyped, dbVars, deathVars
<1>3. CASE Request(s, "release", n) /\ UNCHANGED view
  <2>1. RestTyped'
    BY <1>2, <1>3 DEF TypeOK, States
  <2>2. QED BY <1>1, <1>3, <2>1, RequestType, TypeSplit DEF DeathInv, States
<1>4. CASE Notify(s) /\ UNCHANGED <<state, request, stamp, nextStamp, lists,
                                    owner, awaiting, phase, loopVars>>
  <2>1. RestTyped'
    BY <1>2, <1>4, NotifyType
  <2>2. LoopTyped'
    BY <1>4, TypeSplit DEF LoopTyped, loopVars
  <2>3. QED BY <1>4, <2>1, <2>2, TypeSplit DEF Release, DeathInv
<1>5. CASE /\ state' = [state EXCEPT ![s] = "release"]
           /\ UNCHANGED <<request, stamp, nextStamp, lists, owner, view,
                          awaiting, phase, loopVars>>
  <2>1. RestTyped'
    BY <1>2, <1>5 DEF TypeOK, States
  <2>2. LoopTyped'
    BY <1>5, TypeSplit DEF LoopTyped, loopVars, States
  <2>3. QED BY <1>5, <2>1, <2>2, TypeSplit DEF Release, DeathInv
<1>6. QED BY <1>3, <1>4, <1>5 DEF Release

\* Both ways into the destruction of a set.
LEMMA StartDestroyType ==
    ASSUME TInv, NEW s \in Sets, leaving' \in Clients \cup {None}, StartDestroy(s)
    PROVE  TInv'
<1> USE DEF TInv
<1>1. s # None
  BY ConfigAssumption
<1>2. RestTyped'
  BY TypeSplit DEF StartDestroy, RestTyped, dbVars
<1>3. CASE Request(s, "release", InvalidReqno)
  BY <1>2, <1>3, RequestType, TypeSplit DEF DeathInv, States, Reqno
<1>4. CASE /\ phase' = "free"
           /\ UNCHANGED <<state, request, stamp, nextStamp, lists, owner>>
           /\ UNCHANGED <<awaiting, loopVars>>
  <2>1. LoopTyped'
    BY <1>4, TypeSplit DEF LoopTyped, loopVars
  <2>2. QED BY <1>1, <1>2, <1>4, <2>1, TypeSplit DEF StartDestroy, DeathInv
<1>5. QED BY <1>3, <1>4 DEF StartDestroy

LEMMA FreeSetType ==
    ASSUME TInv, FreeSet
    PROVE  TInv'
<1> USE DEF TInv
<1>1. dying \in Sets
  BY DEF FreeSet, DeathInv, TypeOK
<1>2. lists' \in [Zones -> [Classes -> Seq(Sets)]]
  <2>1. \A z \in Zones, k \in Classes : Unlink(lists[z][k], dying) \in Seq(Sets)
    BY UnlinkMembers DEF TypeOK
  <2>2. QED BY <2>1 DEF FreeSet, ListsWithout
<1>3. clientSets' \in [Clients -> Seq(Sets)]
  <2>1. \A c \in Clients : Unlink(clientSets[c], dying) \in Seq(Sets)
    BY UnlinkMembers DEF TypeOK
  <2>2. QED BY <2>1 DEF FreeSet, SetsWithout, TypeOK
<1>4. NoProfile \in Profiles
  BY ProfileAssumption DEF NoProfile
<1>5. /\ profile' \in [Sets -> Profiles]
      /\ attached' \in SUBSET Sets
      /\ state' \in [Sets -> States]
      /\ grant' \in [Sets -> SUBSET Resources]
      /\ advice' \in [Sets -> SUBSET Resources]
      /\ request' \in [Sets -> Reqno]
      /\ stamp' \in [Sets -> Nat]
      /\ dying' = None
  BY <1>1, <1>4 DEF FreeSet, TypeOK, States, Reqno
<1>6. /\ userRow' = [userRow EXCEPT ![dying] = NoUserRow]
      /\ view' = [view EXCEPT ![dying] = NoView]
  BY DEF FreeSet
<1>7. /\ userRow' \in [Sets -> [state : States, grant : SUBSET Resources]]
      /\ view' \in [Sets -> [state : States, grant : SUBSET Resources,
                              advice : SUBSET Resources]]
  BY <1>1, <1>6 DEF TypeOK, States, NoUserRow, NoView
<1>8. /\ phase' \in {"next", "idle"}
      /\ leaving' \in Clients \cup {None}
      /\ phase' = "next" => leaving' # None /\ clientSets'[leaving'] # <<>>
  BY DEF FreeSet, TypeOK
<1>9. UNCHANGED <<nextStamp, owner, ownerRow, awaiting, update, todo, events,
                  oldOwner>>
  BY DEF FreeSet, loopVars
<1>10. LoopTyped' /\ RestTyped'
  BY <1>2, <1>3, <1>5, <1>7, <1>8, <1>9, TypeSplit DEF LoopTyped, RestTyped
<1>11. DeathInv'
  BY <1>8 DEF DeathInv
<1>12. QED BY <1>10, <1>11, TypeSplit

LEMMA DestroyNextType ==
    ASSUME TInv, DestroyNext
    PROVE  TInv'
<1>1. leaving \in Clients /\ clientSets[leaving] # <<>>
  BY DEF DestroyNext, TInv, TypeOK, DeathInv
<1>2. Head(clientSets[leaving]) \in Sets
  BY <1>1, HeadTailProperties DEF TInv, TypeOK
<1>3. QED BY <1>1, <1>2, StartDestroyType DEF DestroyNext

LEMMA OwnersType ==
    ASSUME TypeOK, NEW s \in Sets, NEW g \in SUBSET Resources, NEW ok
    PROVE  OwnersAfter(s, g, ok) \in [Resources -> Owner]
<1>1. profile[s].zone \in Zones /\ profile[s].class \in Classes
  BY ProfileType DEF TypeOK
<1>2. \A r \in Resources : owner[profile[s].zone][r] \in Owner
  BY <1>1 DEF TypeOK
<1>3. \A r \in Resources : Granted(s, r) \in Owner
  <2> SUFFICES ASSUME NEW r \in Resources PROVE Granted(s, r) \in Owner
    OBVIOUS
  <2> DEFINE o == owner[profile[s].zone][r]
             c == profile[s].class
             sharing == c \in ClassShare /\ r \in profile[s].shared
  <2>1. [set |-> s, class |-> c, modal |-> c \in Modal, share |-> sharing] \in Owner
    BY <1>1 DEF Owner
  <2>2. [o EXCEPT !.share = sharing] \in Owner
    <3>1. o \in Owner /\ sharing \in BOOLEAN
      BY <1>2
    <3> HIDE DEF o, sharing
    <3>2. QED BY <3>1 DEF Owner
  <2>3. QED BY <2>1, <2>2 DEF Granted
<1>4. QED BY <1>2, <1>3 DEF OwnersAfter

LEMMA StoreType ==
    ASSUME TypeOK, NEW s \in Sets, NEW g \in SUBSET Resources,
           NEW a \in SUBSET Resources, NEW forced \in BOOLEAN,
           Store(s, g, a, forced)
    PROVE  /\ state' \in [Sets -> States]
           /\ grant' \in [Sets -> SUBSET Resources]
           /\ advice' \in [Sets -> SUBSET Resources]
           /\ events' \in Seq([set : Sets, replyid : Reqno, shuffle : BOOLEAN])
<1>1. state' \in [Sets -> States]
  BY DEF Store, TypeOK, States
<1>2. grant' \in [Sets -> SUBSET Resources]
  BY DEF Store, TypeOK
<1>3. advice' \in [Sets -> SUBSET Resources]
  BY DEF Store, TypeOK
<1>4. \A released \in BOOLEAN :
        Event(s, released) \in [set : Sets, replyid : Reqno, shuffle : BOOLEAN]
  BY DEF Event, ReplyTo, TypeOK, Reqno
<1>5. events \in Seq([set : Sets, replyid : Reqno, shuffle : BOOLEAN])
  BY DEF TypeOK, Reqno
<1>6. PICK released \in BOOLEAN :
        events' = events \/ events' = Append(events, Event(s, released))
  BY DEF Store
<1>7. events' \in Seq([set : Sets, replyid : Reqno, shuffle : BOOLEAN])
  <2> DEFINE E == [set : Sets, replyid : Reqno, shuffle : BOOLEAN]
  <2>1. Append(events, Event(s, released)) \in Seq(E)
    <3>1. Event(s, released) \in E /\ events \in Seq(E)
      BY <1>4, <1>5
    <3> HIDE DEF E
    <3>2. QED BY <3>1, AppendProperties
  <2>2. QED BY <1>5, <1>6, <2>1
<1>8. QED BY <1>1, <1>2, <1>3, <1>7

LEMMA AdvisableType ==
    ASSUME TypeOK, NEW s \in Sets, NEW unadvised
    PROVE  Advisable(s, unadvised) \in SUBSET Resources
BY ProfileType DEF Advisable, TypeOK

\* What the three cases of the scan have in common: some resources that may be
\* granted were tried, and either all went well or nothing is granted.
ScanOutcome(s, g, a, forced, ok) ==
    /\ Store(s, IF ok THEN g ELSE {}, a, forced)
    /\ owner' = [owner EXCEPT ![profile[s].zone] = OwnersAfter(s, g, ok)]
    /\ ok => /\ state[s] = "acquire"
             /\ g \subseteq profile[s].all
             /\ profile[s].mandatory \subseteq g
             /\ \A r \in g : MayGrant(s, r)

LEMMA ScanCases ==
    ASSUME TypeOK, NEW s \in Sets, Scan(s)
    PROVE  \E g, a \in SUBSET Resources, forced, ok \in BOOLEAN :
             ScanOutcome(s, g, a, forced, ok)
<1> DEFINE z == profile[s].zone
<1>1. z \in Zones /\ profile[s].all \subseteq Resources
  BY ProfileType DEF TypeOK
<1>2. \A g : [owner EXCEPT ![z] = OwnersAfter(s, g, FALSE)] = owner
  BY <1>1 DEF OwnersAfter, TypeOK
<1>3. CASE state[s] = "acquire" /\ ScanAcquiring(s)
  <2>1. PICK refused, unadvised \in SUBSET (profile[s].all \cap Managed),
             veto \in BOOLEAN :
          LET g == {r \in profile[s].all \ refused : MayGrant(s, r)}
              ok == Satisfies(s, g) /\ ~veto
              forced == \E r \in profile[s].all \ g :
                          owner[z][r].set # s /\ owner[z][r].modal
          IN  /\ owner' = [owner EXCEPT ![z] = OwnersAfter(s, g, ok)]
              /\ \/ ok /\ Store(s, g, g, forced)
                 \/ ~ok /\ Store(s, {}, Advisable(s, unadvised), forced)
    BY <1>3 DEF ScanAcquiring
  <2> DEFINE g == {r \in profile[s].all \ refused : MayGrant(s, r)}
             ok == Satisfies(s, g) /\ ~veto
             forced == \E r \in profile[s].all \ g :
                         owner[z][r].set # s /\ owner[z][r].modal
             a == IF ok THEN g ELSE Advisable(s, unadvised)
  <2>2. g \in SUBSET Resources /\ a \in SUBSET Resources
    BY <1>1, AdvisableType
  <2>3. ok \in BOOLEAN /\ forced \in BOOLEAN
    OBVIOUS
  <2>4. Store(s, IF ok THEN g ELSE {}, a, forced)
    BY <2>1
  <2>5. ok => /\ g \subseteq profile[s].all
              /\ profile[s].mandatory \subseteq g
              /\ \A r \in g : MayGrant(s, r)
    BY DEF Satisfies
  <2>6. owner' = [owner EXCEPT ![z] = OwnersAfter(s, g, ok)]
    BY <2>1
  <2>7. ScanOutcome(s, g, a, forced, ok)
    <3> HIDE DEF g, ok, forced, a
    <3> QED BY <1>3, <2>4, <2>5, <2>6 DEF ScanOutcome
  <2>8. QED
    <3> HIDE DEF g, ok, forced, a
    <3> QED BY <2>2, <2>3, <2>7
<1>4. CASE state[s] = "release" /\ ScanReleased(s)
  <2>1. PICK unadvised \in SUBSET (profile[s].all \cap Managed) :
          /\ UNCHANGED owner
          /\ Store(s, {}, Advisable(s, unadvised), FALSE)
    BY <1>4 DEF ScanReleased
  <2>2. ScanOutcome(s, {}, Advisable(s, unadvised), FALSE, FALSE)
    BY <1>2, <2>1 DEF ScanOutcome
  <2>3. QED BY <2>2, AdvisableType
<1>5. CASE UNCHANGED owner /\ Store(s, {}, {}, FALSE)
  <2>1. ScanOutcome(s, {}, {}, FALSE, FALSE)
    BY <1>2, <1>5 DEF ScanOutcome
  <2>2. QED BY <2>1
<1>6. QED BY <1>3, <1>4, <1>5 DEF Scan

LEMMA ScanType ==
    ASSUME TInv, NEW s \in Sets, Scan(s)
    PROVE  TInv'
<1> USE DEF TInv
<1>1. PICK g, a \in SUBSET Resources, forced, ok \in BOOLEAN :
        ScanOutcome(s, g, a, forced, ok)
  BY ScanCases
<1>2. /\ state' \in [Sets -> States]
      /\ grant' \in [Sets -> SUBSET Resources]
      /\ advice' \in [Sets -> SUBSET Resources]
      /\ events' \in Seq([set : Sets, replyid : Reqno, shuffle : BOOLEAN])
  <2>1. (IF ok THEN g ELSE {}) \in SUBSET Resources
    OBVIOUS
  <2>2. QED BY <1>1, <2>1, StoreType DEF ScanOutcome
<1>3. owner' \in [Zones -> [Resources -> Owner]]
  BY <1>1, OwnersType DEF ScanOutcome, TypeOK
<1>4. todo' \in SUBSET Sets /\ phase' \in {"scan", "notify"}
  BY DEF Scan, TypeOK
<1>5. UNCHANGED <<requestVars, lists, clientVars, dbVars, update, oldOwner,
                  deathVars>>
  BY DEF Scan
<1>6. LoopTyped'
  BY <1>2, <1>3, <1>4, <1>5, TypeSplit DEF LoopTyped, requestVars, clientVars
<1>7. RestTyped'
  BY <1>2, <1>5, TypeSplit
     DEF RestTyped, requestVars, clientVars, dbVars, deathVars
<1>8. QED BY <1>4, <1>6, <1>7, TypeSplit DEF DeathInv

LEMMA DeliverType ==
    ASSUME TInv, Deliver
    PROVE  TInv'
<1> USE DEF TInv
<1> DEFINE e == Head(events)
           E == [set : Sets, replyid : Reqno, shuffle : BOOLEAN]
<1>1. events \in Seq(E) /\ events # <<>>
  BY DEF Deliver, TypeOK, Reqno
<1>2. e \in E /\ events' \in Seq(E)
  BY <1>1, HeadTailProperties DEF Deliver
<1>3. e.set \in Sets
  BY <1>2
<1>4. lists' \in [Zones -> [Classes -> Seq(Sets)]]
  BY <1>3, MoveType DEF Deliver, TypeOK
<1>5. /\ userRow' = [userRow EXCEPT ![e.set] = [state |-> state[e.set],
                                               grant |-> grant[e.set]]]
      /\ Notify(e.set)
  BY DEF Deliver
<1>6. userRow' \in [Sets -> [state : States, grant : SUBSET Resources]]
  BY <1>3, <1>5 DEF TypeOK, States
<1>7. view' \in [Sets -> [state : States, grant : SUBSET Resources,
                          advice : SUBSET Resources]]
  BY <1>3, <1>5, NotifyType
<1>8. awaiting' \in Sets \cup {None}
  BY DEF Deliver, TypeOK
<1>9. UNCHANGED <<requestVars, grantVars, owner, ownerRow, phase, update, todo,
                  oldOwner, deathVars>>
  BY DEF Deliver
<1> HIDE DEF e
<1>10. LoopTyped'
  BY <1>2, <1>4, <1>8, <1>9, TypeSplit DEF LoopTyped, requestVars, grantVars
<1>11. RestTyped'
  BY <1>6, <1>7, <1>9, TypeSplit
     DEF RestTyped, requestVars, grantVars, deathVars
<1>12. QED BY <1>9, <1>10, <1>11, TypeSplit DEF DeathInv, deathVars, requestVars

LEMMA FinishUpdateType ==
    ASSUME TInv, FinishUpdate
    PROVE  TInv'
<1> USE DEF TInv
<1>1. ownerRow' \in [Zones -> [Resources -> [class : Classes \cup {None},
                                            set   : Sets \cup {None}]]]
  <2>1. \A z \in Zones, r \in Resources :
          [class |-> owner[z][r].class, set |-> owner[z][r].set]
            \in [class : Classes \cup {None}, set : Sets \cup {None}]
    <3> SUFFICES ASSUME NEW z \in Zones, NEW r \in Resources
                 PROVE  /\ owner[z][r].class \in Classes \cup {None}
                        /\ owner[z][r].set \in Sets \cup {None}
      OBVIOUS
    <3>1. owner[z][r] \in Owner
      BY DEF TypeOK
    <3>2. QED BY <3>1 DEF Owner
  <2> DEFINE Row == [class : Classes \cup {None}, set : Sets \cup {None}]
             row(z) == [r \in Resources |->
                          IF OwnerChanged(z, r)
                          THEN [class |-> owner[z][r].class,
                                set   |-> owner[z][r].set]
                          ELSE ownerRow[z][r]]
  <2>2. ASSUME update.zone \in Zones
        PROVE  row(update.zone) \in [Resources -> Row]
    BY <2>1, <2>2 DEF TypeOK
  <2>3. ownerRow' = [ownerRow EXCEPT ![update.zone] = row(update.zone)]
    BY DEF FinishUpdate
  <2>4. ownerRow \in [Zones -> [Resources -> Row]]
    BY DEF TypeOK
  <2>5. QED
    <3> HIDE DEF Row, row
    <3>1. ownerRow' \in [Zones -> [Resources -> Row]]
      BY <2>2, <2>3, <2>4
    <3>2. QED BY <3>1 DEF Row
<1>2. /\ phase' = IF dying # None THEN "free" ELSE "idle"
      /\ update' = NoUpdate
      /\ oldOwner' = [r \in Resources |-> ZeroOwner]
      /\ UNCHANGED <<requestVars, grantVars, lists, owner, userRow, clientVars,
                     todo, events, deathVars>>
  BY DEF FinishUpdate
<1>3. update' \in [zone : Zones \cup {None}, set : Sets \cup {None},
                   reqid : Reqno]
  BY <1>2 DEF NoUpdate, Reqno
<1>4. LoopTyped'
  BY <1>2, <1>3, ZeroType, TypeSplit
     DEF LoopTyped, requestVars, grantVars, clientVars
<1>5. RestTyped'
  BY <1>1, <1>2, TypeSplit
     DEF RestTyped, requestVars, grantVars, clientVars, deathVars
<1>6. QED BY <1>2, <1>4, <1>5, TypeSplit DEF DeathInv, deathVars

LEMMA NextType ==
    ASSUME TInv, [Next]_vars
    PROVE  TInv'
<1>1. CASE Operation
  <2>1. ASSUME NEW s \in Sets, NEW p \in Profiles, Create(s, p)
        PROVE  TInv'
    BY <2>1, CreateType
  <2>2. ASSUME NEW s \in Sets, NEW n \in ReqIds,
               AddToClass(s, n) \/ Acquire(s, n) \/ Release(s, n)
        PROVE  TInv'
    BY <2>2, AddToClassType, AcquireType, ReleaseType
  <2>3. ASSUME NEW s \in Sets, Destroy(s)
        PROVE  TInv'
    BY <2>3, StartDestroyType DEF Destroy, TInv, TypeOK
  <2>4. ASSUME NEW c \in Clients, ClientDestroy(c)
        PROVE  TInv'
    <3>1. Head(clientSets[c]) \in Sets
      BY <2>4, HeadTailProperties DEF ClientDestroy, TInv, TypeOK
    <3>2. QED BY <2>4, <3>1, StartDestroyType DEF ClientDestroy
  <2>5. QED BY <1>1, <2>1, <2>2, <2>3, <2>4 DEF Operation
<1>2. CASE Internal
  BY <1>2, ScanType, DeliverType, FinishUpdateType, FreeSetType, DestroyNextType
     DEF Internal
<1>3. CASE Aborted \/ UNCHANGED vars
  BY <1>3 DEF Aborted, vars, TInv, TypeOK, DeathInv
<1>4. QED BY <1>1, <1>2, <1>3 DEF Next

LEMMA TypeInvariant == Spec => []TInv
<1>1. Init => TInv
  BY InitType
<1>2. TInv /\ [Next]_vars => TInv'
  BY NextType
<1>3. QED BY <1>1, <1>2, PTL DEF Spec

\* Every variable keeps the shape the code declares it with, whatever the
\* clients ask for and in whatever order.
THEOREM TypeCorrect == Spec => []TypeOK
<1>1. TInv => TypeOK
  BY DEF TInv
<1>2. QED BY <1>1, TypeInvariant, PTL

-----------------------------------------------------------------------------
(* The invariant of the grants *)


\* The class lists hold exactly the attached sets, each in one place.
Linked ==
    \A z \in Zones, c \in Classes :
      /\ NoRepeat(lists[z][c])
      /\ \A s \in Sets :
           Has(lists[z][c], s) <=> /\ s \in attached
                                   /\ profile[s].zone = z
                                   /\ profile[s].class = c

AttachedInv ==
    /\ attached \subseteq Live
    /\ \A s \in Sets \ attached : grant[s] = {}

\* The loops work on attached sets, and leave nothing behind.
LoopInv ==
    /\ todo \subseteq attached
    /\ phase # "scan" => todo = {}
    /\ phase \notin {"scan", "notify"} => events = <<>>
    /\ \A i \in DOMAIN events : events[i].set \in attached

\* Of the sets the scan is done with, the owner records know every holder of
\* a resource that cannot be shared.
OwnerInv ==
    \A s \in attached \ todo : \A r \in grant[s] \ Shareable :
      owner[profile[s].zone][r].set = s

WholeInv ==
    \A s \in Sets \ todo :
      grant[s] # {} => /\ state[s] = "acquire"
                       /\ profile[s].mandatory \subseteq grant[s]
                       /\ grant[s] \subseteq profile[s].all

Consistent == Linked /\ AttachedInv /\ LoopInv /\ OwnerInv /\ WholeInv

\* An aborted daemon leaves its lists half done.
GrantInv == TInv /\ (phase # "aborted" => Consistent)

-----------------------------------------------------------------------------
(* Steps that move a set within the lists *)

LEMMA MoveLinks ==
    ASSUME TypeOK, Linked, NEW s \in Sets, NEW st, NEW sp, Move(s, st, sp),
           attached' = attached \cup {s}, UNCHANGED profile
    PROVE  Linked'
<1> DEFINE z == profile[s].zone
           c == profile[s].class
           q == Unlink(lists[z][c], s)
<1>1. z \in Zones /\ c \in Classes
  BY ProfileType DEF TypeOK
<1>2. lists[z][c] \in Seq(Sets)
  BY <1>1 DEF TypeOK
<1>3. /\ q \in Seq(Sets)
      /\ NoRepeat(q)
      /\ ~Has(q, s)
      /\ \A t \in Sets : t # s => (Has(q, t) <=> Has(lists[z][c], t))
  BY <1>1, <1>2, UnlinkMembers DEF Linked
<1>4. PICK i \in 0..Len(q) : lists' = [lists EXCEPT ![z][c] = Insert(q, i, s)]
  BY DEF Move
<1> DEFINE m == Insert(q, i, s)
<1>5. /\ NoRepeat(m)
      /\ \A t : Has(m, t) <=> (t = s \/ Has(q, t))
  BY <1>3, InsertMembers
<1>6. ASSUME NEW y \in Zones, NEW k \in Classes
      PROVE  lists'[y][k] = IF y = z /\ k = c THEN m ELSE lists[y][k]
  BY <1>1, <1>4 DEF TypeOK
<1> HIDE DEF q, m
<1>7. ASSUME NEW y \in Zones, NEW k \in Classes
      PROVE  /\ NoRepeat(lists'[y][k])
             /\ \A t \in Sets :
                  Has(lists'[y][k], t) <=> /\ t \in attached'
                                           /\ profile'[t].zone = y
                                           /\ profile'[t].class = k
  <2>1. CASE y = z /\ k = c
    <3>1. lists'[y][k] = m
      BY <1>6, <2>1
    <3>2. ASSUME NEW t \in Sets
          PROVE  Has(m, t) <=> /\ t \in attached'
                               /\ profile'[t].zone = y
                               /\ profile'[t].class = k
      <4>1. CASE t = s
        BY <1>5, <2>1, <4>1
      <4>2. CASE t # s
        BY <1>1, <1>3, <1>5, <2>1, <4>2 DEF Linked
      <4>3. QED BY <4>1, <4>2
    <3>3. QED BY <1>5, <3>1, <3>2
  <2>2. CASE ~(y = z /\ k = c)
    <3>1. lists'[y][k] = lists[y][k]
      BY <1>6, <2>2
    <3>2. QED BY <2>2, <3>1 DEF Linked
  <2>3. QED BY <2>1, <2>2
<1>8. QED BY <1>7 DEF Linked

\* Every request, once the lists are sorted, starts the recomputation of all
\* sets of its zone.
LEMMA UpdateConsistent ==
    ASSUME TypeOK, Consistent, phase \in {"idle", "next"},
           NEW s \in Sets, s \in Live, NEW st, NEW sp, NEW reqid, NEW newState,
           attached' = attached \cup {s},
           UNCHANGED <<clientSets, profile, grant>>,
           state' = [state EXCEPT ![s] = newState],
           Move(s, st, sp), BeginUpdate(s, reqid)
    PROVE  Consistent'
<1> DEFINE z == profile[s].zone
<1>1. Linked'
  BY MoveLinks DEF Consistent
<1>2. z \in Zones
  BY ProfileType DEF TypeOK
<1>3. /\ todo' = Members(z, lists')
      /\ phase' = "scan"
      /\ events' = <<>>
      /\ owner' = [owner EXCEPT ![z] = [r \in Resources |-> ResetOwner]]
  BY DEF BeginUpdate
<1>4. \A t \in Sets : t \in todo' <=> t \in attached' /\ profile[t].zone = z
  <2>1. \A t \in Sets : profile[t].class \in Classes
    BY ProfileType DEF TypeOK
  <2>2. \A t \in Sets, c \in Classes :
          Has(lists'[z][c], t) <=> /\ t \in attached'
                                   /\ profile[t].zone = z
                                   /\ profile[t].class = c
    BY <1>1, <1>2 DEF Linked
  <2>3. QED BY <1>3, <2>1, <2>2 DEF Members
<1>5. todo = {}
  BY DEF Consistent, LoopInv
<1>6. attached' \subseteq Sets /\ s \in todo'
  BY <1>4 DEF TypeOK
<1>7. AttachedInv'
  BY <1>6 DEF Consistent, AttachedInv, Live
<1>8. LoopInv'
  <2>1. todo' \subseteq Sets
    BY <1>3 DEF Members
  <2>2. QED BY <1>3, <1>4, <2>1 DEF LoopInv
<1>9. OwnerInv'
  <2> SUFFICES ASSUME NEW t \in attached', t \notin todo',
                      NEW r \in grant[t] \ Shareable
               PROVE  owner'[profile[t].zone][r].set = t
    BY DEF OwnerInv
  <2>1. t \in attached /\ profile[t].zone # z
    BY <1>4, <1>6
  <2>2. profile[t].zone \in Zones
    BY <2>1, ProfileType DEF TypeOK
  <2>3. owner'[profile[t].zone] = owner[profile[t].zone]
    BY <1>3, <2>1, <2>2 DEF TypeOK
  <2>4. QED BY <1>5, <2>1, <2>3 DEF Consistent, OwnerInv
<1>10. WholeInv'
  <2> SUFFICES ASSUME NEW t \in Sets, t \notin todo', grant[t] # {}
               PROVE  /\ state'[t] = "acquire"
                      /\ profile[t].mandatory \subseteq grant[t]
                      /\ grant[t] \subseteq profile[t].all
    BY DEF WholeInv
  <2>1. t # s
    BY <1>6
  <2>2. state'[t] = state[t]
    BY <2>1 DEF TypeOK
  <2>3. QED BY <1>5, <2>2 DEF Consistent, WholeInv
<1>11. QED BY <1>1, <1>7, <1>8, <1>9, <1>10 DEF Consistent

LEMMA RequestConsistent ==
    ASSUME TypeOK, Consistent, phase \in {"idle", "next"},
           NEW s \in Sets, s \in Live, NEW newState, NEW reqid,
           attached' = attached \cup {s},
           UNCHANGED <<clientSets, profile, grant>>,
           Request(s, newState, reqid)
    PROVE  phase' # "aborted" => Consistent'
<1>1. state' = [state EXCEPT ![s] = newState]
  BY DEF Request
<1>2. PICK b \in 0..nextStamp :
        IF nextStamp - b < StampMax
        THEN Move(s, state', stamp') /\ BeginUpdate(s, reqid)
        ELSE phase' = "aborted"
  BY DEF Request
<1>3. CASE Move(s, state', stamp') /\ BeginUpdate(s, reqid)
  BY <1>1, <1>3, UpdateConsistent
<1>4. QED BY <1>2, <1>3

-----------------------------------------------------------------------------
(* Steps that leave lists, owners and grants alone *)

LEMMA QuietConsistent ==
    ASSUME TypeOK, Consistent, phase \in {"idle", "next"}, phase' \in {"idle", "free"},
           UNCHANGED <<clientSets, profile, attached, grant, lists, owner, loopVars>>,
           \A t \in attached : state'[t] = state[t]
    PROVE  Consistent'
<1>1. Linked'
  BY DEF Consistent, Linked
<1>2. AttachedInv'
  BY DEF Consistent, AttachedInv, Live
<1>3. LoopInv'
  BY DEF Consistent, LoopInv, loopVars
<1>4. OwnerInv'
  BY DEF Consistent, OwnerInv, loopVars
<1>5. WholeInv'
  BY DEF Consistent, WholeInv, AttachedInv, loopVars
<1>6. QED BY <1>1, <1>2, <1>3, <1>4, <1>5 DEF Consistent

LEMMA CreateConsistent ==
    ASSUME TypeOK, Consistent, NEW s \in Sets, NEW p \in Profiles, Create(s, p)
    PROVE  Consistent'
<1>1. /\ s \notin attached
      /\ profile' = [profile EXCEPT ![s] = p]
      /\ UNCHANGED <<attached, grant, state, lists, owner, phase, loopVars>>
  BY DEF Create, Consistent, AttachedInv, grantVars
<1>2. /\ \A t \in Sets : t # s => profile'[t] = profile[t]
      /\ attached \subseteq Sets
  BY <1>1 DEF TypeOK
<1>3. Linked'
  BY <1>1, <1>2 DEF Consistent, Linked
<1>4. AttachedInv'
  <2>1. Live \subseteq Live'
    <3> SUFFICES ASSUME NEW t \in Sets, NEW c \in Clients, Has(clientSets[c], t)
                 PROVE  Has(clientSets'[c], t)
      BY DEF Live
    <3>1. clientSets[c] \in Seq(Sets)
      BY DEF TypeOK
    <3>2. \/ clientSets'[c] = clientSets[c]
          \/ clientSets'[c] = Append(clientSets[c], s)
      BY DEF Create, TypeOK
    <3>3. PICK i \in 1..Len(clientSets[c]) : clientSets[c][i] = t
      BY <3>1 DEF Has
    <3>4. CASE clientSets'[c] = Append(clientSets[c], s)
      <4>1. i \in DOMAIN clientSets'[c] /\ clientSets'[c][i] = t
        BY <3>1, <3>3, <3>4, AppendProperties
      <4>2. QED BY <4>1 DEF Has
    <3>5. QED BY <3>2, <3>4
  <2>2. QED BY <1>1, <2>1 DEF Consistent, AttachedInv
<1>5. LoopInv'
  BY <1>1 DEF Consistent, LoopInv, loopVars
<1>6. OwnerInv'
  BY <1>1, <1>2 DEF Consistent, OwnerInv, loopVars
<1>7. WholeInv'
  BY <1>1, <1>2 DEF Consistent, WholeInv, AttachedInv, loopVars
<1>8. QED BY <1>3, <1>4, <1>5, <1>6, <1>7 DEF Consistent

-----------------------------------------------------------------------------
(* The other operations *)

LEMMA AddToClassConsistent ==
    ASSUME TypeOK, Consistent, NEW s \in Sets, NEW n \in ReqIds, AddToClass(s, n)
    PROVE  phase' # "aborted" => Consistent'
<1>1. /\ phase \in {"idle", "next"}
      /\ s \in Live
      /\ attached' = attached \cup {s}
      /\ UNCHANGED <<clientSets, profile, grant>>
  BY DEF AddToClass
<1>2. CASE Request(s, "acquire", n)
  BY <1>1, <1>2, RequestConsistent
<1>3. CASE /\ state' = [state EXCEPT ![s] = "release"]
           /\ Move(s, state', stamp)
           /\ BeginUpdate(s, n)
  BY <1>1, <1>3, UpdateConsistent
<1>4. QED BY <1>2, <1>3 DEF AddToClass

LEMMA AcquireConsistent ==
    ASSUME TypeOK, Consistent, NEW s \in Sets, NEW n \in ReqIds, Acquire(s, n)
    PROVE  phase' # "aborted" => Consistent'
<1>1. /\ phase = "idle"
      /\ s \in Live
      /\ UNCHANGED <<clientSets, profile, attached, grant>>
  BY DEF Acquire
<1>2. CASE s \in attached /\ Request(s, "acquire", n)
  <2>1. attached' = attached \cup {s}
    BY <1>1, <1>2
  <2>2. QED BY <1>1, <1>2, <2>1, RequestConsistent
<1>3. CASE /\ s \notin attached
           /\ state' = [state EXCEPT ![s] = "acquire"]
           /\ UNCHANGED <<request, stamp, nextStamp, lists, owner, awaiting, phase>>
           /\ UNCHANGED loopVars
  <2>1. \A t \in attached : state'[t] = state[t]
    BY <1>3 DEF TypeOK
  <2>2. QED BY <1>1, <1>3, <2>1, QuietConsistent
<1>4. QED BY <1>2, <1>3 DEF Acquire

LEMMA ReleaseConsistent ==
    ASSUME TypeOK, Consistent, NEW s \in Sets, NEW n \in ReqIds, Release(s, n)
    PROVE  phase' # "aborted" => Consistent'
<1>1. /\ phase = "idle"
      /\ s \in Live
      /\ UNCHANGED <<clientSets, profile, attached, grant>>
  BY DEF Release
<1>2. CASE s \in attached /\ Request(s, "release", n)
  <2>1. attached' = attached \cup {s}
    BY <1>1, <1>2
  <2>2. QED BY <1>1, <1>2, <2>1, RequestConsistent
<1>3. CASE /\ UNCHANGED <<state, request, stamp, nextStamp, lists, owner>>
           /\ UNCHANGED <<awaiting, phase, loopVars>>
  BY <1>1, <1>3, QuietConsistent
<1>4. CASE /\ s \notin attached
           /\ state' = [state EXCEPT ![s] = "release"]
           /\ UNCHANGED <<lists, owner, phase, loopVars>>
  <2>1. \A t \in attached : state'[t] = state[t]
    BY <1>4 DEF TypeOK
  <2>2. QED BY <1>1, <1>4, <2>1, QuietConsistent
<1>5. QED BY <1>2, <1>3, <1>4 DEF Release

LEMMA StartDestroyConsistent ==
    ASSUME TypeOK, Consistent, phase \in {"idle", "next"},
           NEW s \in Sets, s \in Live, StartDestroy(s)
    PROVE  phase' # "aborted" => Consistent'
<1>1. UNCHANGED <<clientSets, profile, attached, grant>>
  BY DEF StartDestroy
<1>2. CASE MustRelease(s) /\ Request(s, "release", InvalidReqno)
  <2>1. attached' = attached \cup {s}
    BY <1>1, <1>2 DEF MustRelease
  <2>2. QED BY <1>1, <1>2, <2>1, RequestConsistent
<1>3. CASE /\ phase' = "free"
           /\ UNCHANGED <<state, request, stamp, nextStamp, lists, owner>>
           /\ UNCHANGED <<awaiting, loopVars>>
  BY <1>1, <1>3, QuietConsistent
<1>4. QED BY <1>2, <1>3 DEF StartDestroy

LEMMA HeadIsLive ==
    ASSUME TypeOK, NEW c \in Clients, clientSets[c] # <<>>
    PROVE  Head(clientSets[c]) \in Live
<1>1. clientSets[c] \in Seq(Sets)
  BY DEF TypeOK
<1>2. 1 \in DOMAIN clientSets[c] /\ clientSets[c][1] \in Sets
  BY <1>1
<1>3. QED BY <1>1, <1>2 DEF Live, Has

LEMMA FreeSetConsistent ==
    ASSUME TInv, Consistent, FreeSet
    PROVE  Consistent'
<1> DEFINE s == dying
<1>1. s \in Sets /\ phase = "free" /\ phase' \in {"idle", "next"}
  BY DEF FreeSet, TInv, TypeOK, DeathInv
<1>2. /\ attached' = attached \ {s}
      /\ \A t \in Sets : t # s => /\ profile'[t] = profile[t]
                                  /\ state'[t] = state[t]
                                  /\ grant'[t] = grant[t]
      /\ grant'[s] = {}
      /\ UNCHANGED <<owner, loopVars>>
  BY <1>1 DEF FreeSet, TInv, TypeOK
<1>3. todo = {} /\ events = <<>>
  BY <1>1 DEF Consistent, LoopInv
<1>4. attached \subseteq Sets
  BY DEF TInv, TypeOK
<1>5. Linked'
  <2> SUFFICES ASSUME NEW z \in Zones, NEW c \in Classes
               PROVE  /\ NoRepeat(lists'[z][c])
                      /\ \A t \in Sets :
                           Has(lists'[z][c], t) <=> /\ t \in attached'
                                                    /\ profile'[t].zone = z
                                                    /\ profile'[t].class = c
    BY DEF Linked
  <2>1. lists'[z][c] = Unlink(lists[z][c], s)
    BY DEF FreeSet, ListsWithout
  <2>2. lists[z][c] \in Seq(Sets)
    BY DEF TInv, TypeOK
  <2>3. NoRepeat(lists[z][c])
    BY DEF Consistent, Linked
  <2>4. /\ NoRepeat(lists'[z][c])
        /\ ~Has(lists'[z][c], s)
        /\ \A t : t # s => (Has(lists'[z][c], t) <=> Has(lists[z][c], t))
    BY <2>1, <2>2, <2>3, UnlinkMembers
  <2>5. \A t \in Sets : Has(lists[z][c], t) <=> /\ t \in attached
                                                /\ profile[t].zone = z
                                                /\ profile[t].class = c
    BY DEF Consistent, Linked
  <2>6. QED BY <1>2, <2>4, <2>5
<1>6. AttachedInv'
  <2>1. ASSUME NEW t \in Sets, NEW c \in Clients, t # s, Has(clientSets[c], t)
        PROVE  Has(clientSets'[c], t)
    <3>1. clientSets[c] \in Seq(Sets)
      BY DEF TInv, TypeOK
    <3>2. \/ clientSets'[c] = clientSets[c]
          \/ clientSets'[c] = Unlink(clientSets[c], s)
      BY DEF FreeSet, SetsWithout, TInv, TypeOK
    <3>3. QED BY <2>1, <3>1, <3>2, UnlinkMembers
  <2>2. Live \ {s} \subseteq Live'
    BY <2>1 DEF Live
  <2>3. QED BY <1>2, <2>2 DEF Consistent, AttachedInv
<1>7. LoopInv'
  BY <1>1, <1>2, <1>3 DEF LoopInv, loopVars
<1>8. OwnerInv'
  BY <1>2, <1>3, <1>4 DEF Consistent, OwnerInv, loopVars
<1>9. WholeInv'
  BY <1>1, <1>2, <1>3 DEF Consistent, WholeInv, loopVars
<1>10. QED BY <1>5, <1>6, <1>7, <1>8, <1>9 DEF Consistent

-----------------------------------------------------------------------------
(* The loops *)

LEMMA StoreEffect ==
    ASSUME TypeOK, NEW s \in Sets, NEW g, NEW a, NEW forced \in BOOLEAN,
           Store(s, g, a, forced)
    PROVE  /\ grant' = [grant EXCEPT ![s] = IF forced THEN {} ELSE g]
           /\ \A t \in Sets : t # s => state'[t] = state[t]
           /\ ~forced /\ g # {} => state' = state
           /\ \/ events' = events
              \/ \E b \in BOOLEAN : events' = Append(events, Event(s, b))
BY DEF Store, TypeOK

LEMMA ScanConsistent ==
    ASSUME TypeOK, Consistent, NEW s \in Sets, Scan(s)
    PROVE  Consistent'
<1>1. PICK g, a \in SUBSET Resources, forced, ok \in BOOLEAN :
        ScanOutcome(s, g, a, forced, ok)
  BY ScanCases
<1> DEFINE z == profile[s].zone
           h == IF ok THEN g ELSE {}
           new == IF forced THEN {} ELSE h
<1>2. /\ grant' = [grant EXCEPT ![s] = new]
      /\ \A t \in Sets : t # s => state'[t] = state[t]
      /\ ~forced /\ h # {} => state' = state
      /\ \/ events' = events
         \/ \E b \in BOOLEAN : events' = Append(events, Event(s, b))
  <2>1. Store(s, h, a, forced)
    BY <1>1 DEF ScanOutcome
  <2> HIDE DEF h
  <2>2. QED BY <2>1, StoreEffect
<1>3. /\ phase = "scan"
      /\ s \in todo
      /\ todo' = todo \ {s}
      /\ phase' = IF todo' = {} THEN "notify" ELSE "scan"
      /\ UNCHANGED <<requestVars, lists>>
  BY DEF Scan
<1>4. UNCHANGED <<clientSets, profile, attached>>
  BY <1>3 DEF requestVars
<1>5. s \in attached /\ attached \subseteq Sets
  BY <1>3 DEF Consistent, LoopInv, TypeOK
<1>6. \A t \in Sets : t # s => grant'[t] = grant[t]
  BY <1>2 DEF TypeOK
<1>7. grant'[s] = new
  BY <1>2 DEF TypeOK
<1>8. new # {} => /\ ok
                  /\ new = g
                  /\ state' = state
                  /\ state[s] = "acquire"
                  /\ profile[s].mandatory \subseteq g
                  /\ g \subseteq profile[s].all
                  /\ \A r \in g : MayGrant(s, r)
  BY <1>1, <1>2 DEF ScanOutcome
<1> HIDE DEF new
<1>9. Linked'
  BY <1>3, <1>4 DEF Consistent, Linked
<1>10. AttachedInv'
  BY <1>4, <1>5, <1>6 DEF Consistent, AttachedInv, Live
<1>11. LoopInv'
  <2>1. events \in Seq([set : Sets, replyid : Reqno, shuffle : BOOLEAN])
    BY DEF TypeOK, Reqno
  <2>2. \A i \in DOMAIN events' : events'[i].set \in attached'
    <3>1. CASE events' = events
      BY <1>4, <3>1 DEF Consistent, LoopInv
    <3>2. ASSUME NEW b \in BOOLEAN, events' = Append(events, Event(s, b))
          PROVE  \A i \in DOMAIN events' : events'[i].set \in attached'
      <4>1. Event(s, b).set = s
        BY DEF Event
      <4>2. \A i \in 1..Len(events) : events[i].set \in attached
        BY <2>1 DEF Consistent, LoopInv
      <4> DEFINE e == Event(s, b)
      <4>3. \A i \in DOMAIN events' :
              events'[i] = e \/ (i \in 1..Len(events) /\ events'[i] = events[i])
        <5> HIDE DEF e
        <5>1. events' = Append(events, e)
          BY <3>2 DEF e
        <5>2. QED BY <2>1, <5>1
      <4>4. QED BY <1>4, <1>5, <4>1, <4>2, <4>3
    <3>3. QED BY <1>2, <3>1, <3>2
  <2>3. QED BY <1>3, <1>4, <2>2 DEF Consistent, LoopInv
<1>12. OwnerInv'
  <2> SUFFICES ASSUME NEW t \in attached, t \notin todo \/ t = s,
                      NEW r \in grant'[t] \ Shareable
               PROVE  owner'[profile[t].zone][r].set = t
    BY <1>3, <1>4 DEF OwnerInv
  <2>1. /\ profile[t].zone \in Zones
        /\ z \in Zones
        /\ t # None
    BY <1>5, ProfileType, ConfigAssumption DEF TypeOK
  <2>2. r \in Resources
    <3>1. CASE t = s
      BY <1>7, <1>8, <3>1
    <3>2. CASE t # s
      BY <1>5, <1>6, <3>2 DEF TypeOK
    <3>3. QED BY <3>1, <3>2
  <2>3. owner' = [owner EXCEPT ![z] = OwnersAfter(s, g, ok)]
    BY <1>1 DEF ScanOutcome
  <2>4. CASE t = s
    <3>1. ok /\ r \in g /\ MayGrant(s, r)
      BY <1>7, <1>8, <2>4
    <3>2. owner'[z][r] = Granted(s, r)
      BY <2>1, <2>2, <2>3, <3>1 DEF OwnersAfter, TypeOK
    <3>3. owner[z][r].set = None \/ owner[z][r].set = s
      BY <3>1 DEF MayGrant
    <3>4. owner[z][r] \in Owner
      BY <2>1, <2>2 DEF TypeOK
    <3>5. Granted(s, r).set = s
      BY <3>3, <3>4 DEF Granted, Owner
    <3>6. QED BY <2>4, <3>2, <3>5
  <2>5. CASE t # s
    <3>1. owner[profile[t].zone][r].set = t
      BY <1>5, <1>6, <2>5 DEF Consistent, OwnerInv
    <3>2. CASE profile[t].zone # z
      BY <2>1, <2>3, <3>1, <3>2 DEF TypeOK
    <3>3. CASE profile[t].zone = z
      <4>1. ~(ok /\ r \in g)
        <5>1. SUFFICES ASSUME ok, r \in g PROVE FALSE
          OBVIOUS
        <5>2. MayGrant(s, r)
          BY <1>1, <5>1 DEF ScanOutcome
        <5>3. QED BY <2>1, <2>5, <3>1, <3>3, <5>2 DEF MayGrant
      <4>2. owner'[z][r] = owner[z][r]
        BY <2>1, <2>2, <2>3, <4>1 DEF OwnersAfter, TypeOK
      <4>3. QED BY <3>1, <3>3, <4>2
    <3>4. QED BY <3>2, <3>3
  <2>6. QED BY <2>4, <2>5
<1>13. WholeInv'
  <2> SUFFICES ASSUME NEW t \in Sets, t \notin todo \/ t = s, grant'[t] # {}
               PROVE  /\ state'[t] = "acquire"
                      /\ profile[t].mandatory \subseteq grant'[t]
                      /\ grant'[t] \subseteq profile[t].all
    BY <1>3, <1>4 DEF WholeInv
  <2>1. CASE t = s
    BY <1>7, <1>8, <2>1
  <2>2. CASE t # s
    BY <1>2, <1>6, <2>2 DEF Consistent, WholeInv
  <2>3. QED BY <2>1, <2>2
<1>14. QED BY <1>9, <1>10, <1>11, <1>12, <1>13 DEF Consistent

LEMMA DeliverConsistent ==
    ASSUME TypeOK, Consistent, Deliver
    PROVE  Consistent'
<1> DEFINE s == Head(events).set
           E == [set : Sets, replyid : Reqno, shuffle : BOOLEAN]
<1>1. events \in Seq(E) /\ events # <<>>
  BY DEF Deliver, TypeOK, Reqno
<1>2. UNCHANGED <<clientSets, profile, attached, state, grant, owner, phase, todo>>
  BY DEF Deliver, requestVars, grantVars
<1>3. s \in Sets /\ s \in attached
  <2>1. Head(events) = events[1] /\ 1 \in DOMAIN events
    BY <1>1
  <2>2. QED BY <2>1, <1>1 DEF Consistent, LoopInv, TypeOK
<1>4. Linked'
  <2>1. CASE Move(s, state, stamp)
    <3>1. attached' = attached \cup {s}
      BY <1>2, <1>3
    <3> HIDE DEF s
    <3>2. QED BY <1>2, <1>3, <2>1, <3>1, MoveLinks DEF Consistent
  <2>2. CASE UNCHANGED lists
    BY <1>2, <2>2 DEF Consistent, Linked
  <2>3. QED BY <2>1, <2>2 DEF Deliver
<1>5. AttachedInv'
  BY <1>2 DEF Consistent, AttachedInv, Live
<1>6. LoopInv'
  <2>1. events' = Tail(events)
    BY DEF Deliver
  <2>2. \A i \in DOMAIN events' : i + 1 \in DOMAIN events /\ events'[i] = events[i + 1]
    BY <1>1, <2>1
  <2>3. \A i \in DOMAIN events' : events'[i].set \in attached'
    BY <1>2, <2>2 DEF Consistent, LoopInv
  <2>4. phase = "notify"
    BY DEF Deliver
  <2>5. QED BY <1>2, <2>3, <2>4 DEF Consistent, LoopInv
<1>7. OwnerInv'
  BY <1>2 DEF Consistent, OwnerInv
<1>8. WholeInv'
  BY <1>2 DEF Consistent, WholeInv
<1>9. QED BY <1>4, <1>5, <1>6, <1>7, <1>8 DEF Consistent

LEMMA FinishUpdateConsistent ==
    ASSUME TypeOK, Consistent, FinishUpdate
    PROVE  Consistent'
<1>1. /\ UNCHANGED <<clientSets, profile, attached, state, grant, lists, owner>>
      /\ UNCHANGED <<todo, events>>
      /\ events = <<>>
      /\ phase = "notify"
      /\ phase' \in {"idle", "free"}
  BY DEF FinishUpdate, requestVars, grantVars
<1>2. Linked' /\ AttachedInv'
  BY <1>1 DEF Consistent, Linked, AttachedInv, Live
<1>3. LoopInv'
  BY <1>1 DEF Consistent, LoopInv
<1>4. OwnerInv' /\ WholeInv'
  BY <1>1 DEF Consistent, OwnerInv, WholeInv
<1>5. QED BY <1>2, <1>3, <1>4 DEF Consistent

-----------------------------------------------------------------------------
(* The invariant *)

LEMMA InitConsistent == Init => GrantInv
<1> SUFFICES ASSUME Init PROVE GrantInv
  OBVIOUS
<1>1. TInv
  BY InitType
<1>2. Linked
  BY DEF Init, Linked, NoRepeat, Has
<1>3. AttachedInv /\ LoopInv /\ OwnerInv /\ WholeInv
  BY DEF Init, AttachedInv, LoopInv, OwnerInv, WholeInv
<1>4. QED BY <1>1, <1>2, <1>3 DEF GrantInv, Consistent

LEMMA NextConsistent ==
    ASSUME GrantInv, [Next]_vars
    PROVE  GrantInv'
<1>1. TInv'
  BY NextType DEF GrantInv
<1>2. CASE phase = "aborted"
  <2>1. ~Operation /\ ~Internal
    BY <1>2 DEF Operation, Internal, Create, AddToClass, Acquire, Release,
                Destroy, ClientDestroy, Scan, Deliver, FinishUpdate, FreeSet,
                DestroyNext
  <2>2. phase' = "aborted"
    BY <1>2, <2>1 DEF Next, Aborted, vars
  <2>3. QED BY <1>1, <2>2 DEF GrantInv
<1>3. CASE phase # "aborted"
  <2> USE <1>3
  <2>1. TypeOK /\ Consistent /\ TInv
    BY DEF GrantInv, TInv
  <2>2. CASE Operation
    <3>1. ASSUME NEW s \in Sets, NEW p \in Profiles, Create(s, p)
          PROVE  Consistent'
      BY <2>1, <3>1, CreateConsistent
    <3>2. ASSUME NEW s \in Sets, NEW n \in ReqIds,
                 AddToClass(s, n) \/ Acquire(s, n) \/ Release(s, n)
          PROVE  phase' # "aborted" => Consistent'
      BY <2>1, <3>2, AddToClassConsistent, AcquireConsistent, ReleaseConsistent
    <3>3. ASSUME NEW s \in Sets, Destroy(s)
          PROVE  phase' # "aborted" => Consistent'
      BY <2>1, <3>3, StartDestroyConsistent DEF Destroy
    <3>4. ASSUME NEW c \in Clients, ClientDestroy(c)
          PROVE  phase' # "aborted" => Consistent'
      <4>1. Head(clientSets[c]) \in Live
        BY <2>1, <3>4, HeadIsLive DEF ClientDestroy
      <4>2. QED BY <2>1, <3>4, <4>1, StartDestroyConsistent DEF ClientDestroy, Live
    <3>5. QED BY <1>1, <2>2, <3>1, <3>2, <3>3, <3>4 DEF Operation, GrantInv
  <2>3. CASE Internal
    <3>1. ASSUME DestroyNext
          PROVE  phase' # "aborted" => Consistent'
      <4>1. leaving \in Clients /\ clientSets[leaving] # <<>>
        BY <2>1, <3>1 DEF DestroyNext, TInv, DeathInv, TypeOK
      <4>2. Head(clientSets[leaving]) \in Live
        BY <2>1, <4>1, HeadIsLive
      <4>3. QED BY <2>1, <3>1, <4>2, StartDestroyConsistent DEF DestroyNext, Live
    <3>2. QED BY <1>1, <2>1, <2>3, <3>1, ScanConsistent, DeliverConsistent,
         FinishUpdateConsistent, FreeSetConsistent DEF Internal, GrantInv
  <2>4. CASE Aborted \/ UNCHANGED vars
    <3>1. UNCHANGED <<clientSets, profile, attached, state, grant, lists, owner,
                      phase, todo, events>>
      BY <2>4 DEF Aborted, vars
    <3>2. Linked' /\ AttachedInv'
      BY <2>1, <3>1 DEF Consistent, Linked, AttachedInv, Live
    <3>3. LoopInv' /\ OwnerInv' /\ WholeInv'
      BY <2>1, <3>1 DEF Consistent, LoopInv, OwnerInv, WholeInv
    <3>4. QED BY <1>1, <3>2, <3>3 DEF Consistent, GrantInv
  <2>5. QED BY <2>2, <2>3, <2>4 DEF Next
<1>4. QED BY <1>2, <1>3

LEMMA GrantInvariant == Spec => []GrantInv
<1>1. Init => GrantInv
  BY InitConsistent
<1>2. GrantInv /\ [Next]_vars => GrantInv'
  BY NextConsistent
<1>3. QED BY <1>1, <1>2, PTL DEF Spec

-----------------------------------------------------------------------------
(* The theorems *)

\* At rest, a resource that is not shareable is held by one set of a zone at
\* most, whatever the priorities, policies, managers and vetoes.
THEOREM GrantsAreExclusive == Spec => []ExclusiveGrants
<1>1. GrantInv => ExclusiveGrants
  <2> SUFFICES ASSUME GrantInv, Settled,
                      NEW z \in Zones, NEW r \in Resources \ Shareable,
                      NEW s \in Holders(z, r), NEW t \in Holders(z, r)
               PROVE  s = t
    BY DEF ExclusiveGrants
  <2>1. todo = {} /\ OwnerInv
    BY DEF Settled, GrantInv, Consistent, LoopInv
  <2>2. owner[z][r].set = s /\ owner[z][r].set = t
    BY <2>1 DEF OwnerInv, Holders
  <2>3. QED BY <2>2
<1>2. QED BY <1>1, GrantInvariant, PTL

\* At rest, a set holds all of its mandatory resources or nothing at all, and
\* holds something only while it is acquiring.
THEOREM GrantsAreWhole == Spec => []AllOrNothing
<1>1. GrantInv => AllOrNothing
  BY DEF AllOrNothing, Settled, GrantInv, Consistent, LoopInv, WholeInv,
         AttachedInv, Waiting
<1>2. QED BY <1>1, GrantInvariant, PTL

-----------------------------------------------------------------------------
(* The refinement *)

HeldBy == [s \in Sets |-> Holds(s)]

\* A step that gives nothing to anybody is a revocation.
LEMMA LessHeld ==
    ASSUME \A t \in Sets : Holds(t)' = Holds(t) \/ Holds(t)' = {}
    PROVE  Grants!Next
<1> DEFINE S == {t \in Sets : Holds(t)' = {}}
<1>1. HeldBy' = [t \in Sets |-> IF t \in S THEN {} ELSE HeldBy[t]]
  BY DEF HeldBy
<1>2. Grants!Revoke(S)
  BY <1>1 DEF Grants!Revoke, HeldBy
<1>3. S \in SUBSET Sets
  OBVIOUS
<1>4. QED BY <1>2, <1>3 DEF Grants!Next

\* Outside the scan, grants are kept or dropped with their set.
LEMMA KeptOrDropped ==
    ASSUME phase # "scan",
           \A t \in Sets : \/ grant'[t] = {}
                           \/ grant'[t] = grant[t] /\ profile'[t] = profile[t]
    PROVE  Grants!Next
<1>1. ASSUME NEW t \in Sets
      PROVE  Holds(t)' = Holds(t) \/ Holds(t)' = {}
  <2>1. CASE grant'[t] = {}
    <3>1. \A z : {z} \X {} = {}
      OBVIOUS
    <3>2. QED BY <2>1, <3>1 DEF Holds
  <2>2. CASE grant'[t] = grant[t] /\ profile'[t] = profile[t]
    BY <2>2 DEF Holds
  <2>3. QED BY <2>1, <2>2
<1>2. QED BY <1>1, LessHeld

LEMMA ScanGives ==
    ASSUME TypeOK, Consistent, NEW s \in Sets, Scan(s)
    PROVE  Grants!Next
<1>1. PICK g, a \in SUBSET Resources, forced, ok \in BOOLEAN :
        ScanOutcome(s, g, a, forced, ok)
  BY ScanCases
<1> DEFINE z == profile[s].zone
           h == IF ok THEN g ELSE {}
           new == IF forced THEN {} ELSE h
           R == {z} \X new
<1>2. grant' = [grant EXCEPT ![s] = new]
  <2>1. Store(s, h, a, forced)
    BY <1>1 DEF ScanOutcome
  <2> HIDE DEF h
  <2>2. QED BY <2>1, StoreEffect
<1>3. \A r \in new : MayGrant(s, r)
  BY <1>1 DEF ScanOutcome
<1>4. /\ phase = "scan"
      /\ s \in todo
      /\ todo' = todo \ {s}
      /\ phase' = "scan" \/ todo' = {}
      /\ UNCHANGED profile
  BY DEF Scan, requestVars
<1>5. z \in Zones /\ new \subseteq Resources
  BY ProfileType DEF TypeOK
<1> HIDE DEF new
<1>6. Holds(s) = {} /\ Holds(s)' = R
  BY <1>2, <1>4 DEF Holds, TypeOK
<1>7. ASSUME NEW t \in Sets, t # s
      PROVE  Holds(t)' = Holds(t)
  BY <1>2, <1>4, <1>7 DEF Holds, TypeOK
<1>8. ASSUME NEW t \in Sets \ {s}, NEW x \in R, NEW y \in HeldBy[t]
      PROVE  ~Grants!Conflict(x, y)
  <2> SUFFICES ASSUME x = y, x[2] \notin Shareable
               PROVE  FALSE
    BY DEF Grants!Conflict
  <2>1. x[1] = z /\ x[2] \in new
    BY DEF R
  <2>2. y \in Holds(t)
    BY DEF HeldBy
  <2>3. t \notin todo /\ y[1] = profile[t].zone /\ y[2] \in grant[t]
    BY <1>4, <2>2 DEF Holds
  <2>4. t \in attached
    BY <2>3 DEF Consistent, AttachedInv
  <2>5. owner[z][x[2]].set = t
    BY <2>1, <2>3, <2>4 DEF Consistent, OwnerInv
  <2>6. MayGrant(s, x[2])
    BY <1>3, <2>1
  <2>7. QED BY <2>5, <2>6, ConfigAssumption DEF MayGrant
<1>9. HeldBy' = [HeldBy EXCEPT ![s] = R]
  BY <1>6, <1>7 DEF HeldBy
<1>10. R \in SUBSET Grants!Instances
  BY <1>5 DEF Grants!Instances
<1> HIDE DEF R
<1>11. Grants!Give(s, R)
  <2>1. HeldBy[s] = {}
    BY <1>6 DEF HeldBy
  <2>2. QED BY <1>8, <1>9, <2>1 DEF Grants!Give, HeldBy
<1>12. QED BY <1>10, <1>11 DEF Grants!Next

LEMMA NextRefines ==
    ASSUME GrantInv, [Next]_vars
    PROVE  [Grants!Next]_HeldBy
<1>1. TypeOK
  BY DEF GrantInv, TInv
<1>2. ASSUME NEW s \in Sets, NEW p \in Profiles, Create(s, p)
      PROVE  Grants!Next
  <2>1. phase = "idle" /\ s \notin Live /\ UNCHANGED grant
        /\ profile' = [profile EXCEPT ![s] = p]
    BY <1>2 DEF Create, grantVars
  <2>2. grant[s] = {}
    BY <2>1 DEF GrantInv, Consistent, AttachedInv
  <2>3. QED BY <1>1, <2>1, <2>2, KeptOrDropped DEF TypeOK
<1>3. ASSUME phase # "scan", UNCHANGED <<profile, grant>>
      PROVE  Grants!Next
  BY <1>3, KeptOrDropped
<1>4. CASE Operation
  <2>1. ASSUME NEW s \in Sets, NEW n \in ReqIds,
               AddToClass(s, n) \/ Acquire(s, n) \/ Release(s, n)
        PROVE  phase # "scan" /\ UNCHANGED <<profile, grant>>
    BY <2>1 DEF AddToClass, Acquire, Release
  <2>2. ASSUME NEW s \in Sets, Destroy(s)
        PROVE  phase # "scan" /\ UNCHANGED <<profile, grant>>
    BY <2>2 DEF Destroy, StartDestroy
  <2>3. ASSUME NEW c \in Clients, ClientDestroy(c)
        PROVE  phase # "scan" /\ UNCHANGED <<profile, grant>>
    BY <2>3 DEF ClientDestroy, StartDestroy
  <2>4. QED BY <1>2, <1>3, <1>4, <2>1, <2>2, <2>3 DEF Operation
<1>5. CASE Internal
  <2>1. ASSUME NEW s \in Sets, Scan(s)
        PROVE  Grants!Next
    <3>1. Consistent
      BY <2>1 DEF Scan, GrantInv
    <3>2. QED BY <1>1, <2>1, <3>1, ScanGives
  <2>2. ASSUME Deliver \/ FinishUpdate \/ DestroyNext
        PROVE  phase # "scan" /\ UNCHANGED <<profile, grant>>
    BY <2>2 DEF Deliver, FinishUpdate, DestroyNext, StartDestroy, requestVars,
                grantVars
  <2>3. ASSUME FreeSet
        PROVE  Grants!Next
    <3>1. phase = "free" /\ dying \in Sets
      BY <1>1, <2>3 DEF FreeSet, GrantInv, TInv, DeathInv, TypeOK
    <3>2. \A t \in Sets : IF t = dying THEN grant'[t] = {}
                          ELSE grant'[t] = grant[t] /\ profile'[t] = profile[t]
      BY <1>1, <2>3, <3>1 DEF FreeSet, TypeOK
    <3>3. QED BY <3>1, <3>2, KeptOrDropped
  <2>4. QED BY <1>3, <1>5, <2>1, <2>2, <2>3 DEF Internal
<1>6. CASE Aborted \/ UNCHANGED vars
  <2>1. UNCHANGED <<profile, grant, phase, todo>>
    BY <1>6 DEF Aborted, vars
  <2>2. UNCHANGED HeldBy
    BY <2>1 DEF HeldBy, Holds
  <2>3. QED BY <2>2
<1>7. QED BY <1>4, <1>5, <1>6 DEF Next

\* Whatever an update does, it only takes grants back and gives what conflicts
\* with no other grant, step by step.
THEOREM GrantsImplemented == Spec => GrantsSpec
<1>1. Init => Grants!Init
  <2> SUFFICES ASSUME Init PROVE \A s \in Sets : Holds(s) = {}
    BY DEF Grants!Init
  <2>1. \A z : {z} \X {} = {}
    OBVIOUS
  <2>2. QED BY <2>1 DEF Init, Holds
<1>2. GrantInv /\ [Next]_vars => [Grants!Next]_HeldBy
  BY NextRefines
<1>3. [][Grants!Next]_HeldBy /\ Grants!Init => GrantsSpec
  BY PTL DEF GrantsSpec, Grants!Spec, HeldBy
<1>4. QED BY <1>1, <1>2, <1>3, GrantInvariant, PTL DEF Spec

-----------------------------------------------------------------------------
(* What is told *)

\* An update works on one zone: that of the set it was started by.
ZoneInv ==
    /\ phase \in {"scan", "notify"} => update.zone \in Zones
    /\ \A s \in todo : profile[s].zone = update.zone
    /\ phase \notin {"scan", "notify", "free"} => dying = None

\* The set whose request started the update, which is due an answer.
Due(s) ==
    /\ s \in todo
    /\ update.set = s
    /\ update.reqid # 0
    /\ update.reqid = request[s]

Informed(s) ==
    /\ userRow[s] = [state |-> state[s], grant |-> grant[s]]
    /\ profile[s].events /\ s # dying =>
         view[s] = [state |-> state[s], grant |-> grant[s], advice |-> advice[s]]

\* Whoever does not know the state and the masks of a set will be told: an event
\* is queued, or the scan will queue one.
ToldInv ==
    \A s \in attached :
      Informed(s) \/ Due(s) \/ \E i \in DOMAIN events : events[i].set = s

AnswerInv ==
    awaiting # None =>
      \/ Due(awaiting)
      \/ \E i \in DOMAIN events : events[i].set = awaiting /\ events[i].replyid # 0

SameOwner(row, o) == row.set = o.set /\ row.class = o.class

\* The owner tables lag behind by the update that is running.
RowsInv ==
    \A z \in Zones, r \in Resources :
      SameOwner(ownerRow[z][r],
                IF phase \in {"scan", "notify"} /\ z = update.zone
                THEN oldOwner[r] ELSE owner[z][r])

\* Each set of the scan has queued one event at most.
FitInv == Len(events) + Cardinality(todo) <= SetCount

InformInv ==
    /\ phase = "aborted" => events = <<>>
    /\ phase # "aborted" => ZoneInv /\ ToldInv /\ AnswerInv /\ RowsInv /\ FitInv

-----------------------------------------------------------------------------
(* Starting an update *)

\* Outside an update everybody knows everything.
LEMMA NothingWaits ==
    ASSUME GrantInv, InformInv, phase \notin {"scan", "notify", "aborted"}
    PROVE  /\ todo = {} /\ events = <<>>
           /\ \A s \in attached : Informed(s)
           /\ awaiting = None
<1>1. todo = {} /\ events = <<>>
  BY DEF GrantInv, Consistent, LoopInv
<1>2. \A i : i \notin DOMAIN events
  BY <1>1
<1>3. \A s : ~Due(s)
  BY <1>1 DEF Due
<1>4. QED BY <1>1, <1>2, <1>3 DEF InformInv, ToldInv, AnswerInv

LEMMA LiveIsFinite ==
    ASSUME IsFiniteSet(Sets)
    PROVE  IsFiniteSet(Live) /\ SetCount \in Nat
BY FS_Subset, FS_CardinalityType DEF Live, SetCount

\* A request leaves one set uninformed at most, and that one is due an answer.
LEMMA UpdateInforms ==
    ASSUME TypeOK, GrantInv, InformInv, phase \in {"idle", "next"},
           IsFiniteSet(Sets), Consistent',
           NEW s \in Sets, s \in Live, NEW st, NEW sp, NEW newState,
           NEW reqid \in Reqno, reqid # 0,
           attached' = attached \cup {s},
           UNCHANGED <<clientSets, profile, grant, advice, view, dbVars>>,
           state' = [state EXCEPT ![s] = newState],
           request' = [request EXCEPT ![s] = reqid],
           dying' \in {dying, s},
           Move(s, st, sp), BeginUpdate(s, reqid)
    PROVE  InformInv'
<1> DEFINE z == profile[s].zone
<1>1. /\ todo = {} /\ events = <<>>
      /\ \A t \in attached : Informed(t)
      /\ awaiting = None
  BY NothingWaits
<1>2. z \in Zones
  BY ProfileType DEF TypeOK
<1>3. /\ todo' = Members(z, lists')
      /\ phase' = "scan"
      /\ events' = <<>>
      /\ oldOwner' = owner[z]
      /\ owner' = [owner EXCEPT ![z] = [r \in Resources |-> ResetOwner]]
      /\ update' = [zone |-> z, set |-> s, reqid |-> reqid]
      /\ awaiting' = IF reqid # 0 /\ profile[s].events /\ dying' # s
                     THEN s ELSE awaiting
  BY DEF BeginUpdate
<1>4. /\ \A t \in todo' : t \in attached' /\ profile'[t].zone = z
      /\ s \in todo'
  <2>1. \A t \in Sets : profile[t].class \in Classes
    BY ProfileType DEF TypeOK
  <2>2. \A t \in Sets, c \in Classes :
          Has(lists'[z][c], t) <=> /\ t \in attached'
                                   /\ profile'[t].zone = z
                                   /\ profile'[t].class = c
    BY <1>2 DEF Consistent, Linked
  <2>3. QED BY <1>3, <2>1, <2>2 DEF Members
<1>5. Due(s)'
  <2>1. request'[s] = reqid
    BY DEF TypeOK
  <2>2. QED BY <1>3, <1>4, <2>1 DEF Due
<1>6. ZoneInv'
  BY <1>2, <1>3, <1>4 DEF ZoneInv
<1>7. ToldInv'
  <2> SUFFICES ASSUME NEW t \in attached', t # s
               PROVE  Informed(t)'
    BY <1>5 DEF ToldInv
  <2>1. t \in attached /\ t \in Sets
    BY DEF TypeOK
  <2>2. state'[t] = state[t] /\ UNCHANGED <<userRow, view>>
    BY <2>1 DEF TypeOK, dbVars
  <2>3. t # dying
    <3>1. dying = None
      BY DEF InformInv, ZoneInv
    <3>2. QED BY <2>1, <3>1, ConfigAssumption
  <2>4. Informed(t)
    BY <1>1, <2>1
  <2>5. QED BY <2>2, <2>3, <2>4 DEF Informed
<1>8. AnswerInv'
  BY <1>1, <1>3, <1>5 DEF AnswerInv
<1>9. RowsInv'
  <2> SUFFICES ASSUME NEW y \in Zones, NEW r \in Resources
               PROVE  SameOwner(ownerRow[y][r],
                                IF y = z THEN owner[z][r] ELSE owner'[y][r])
    BY <1>3 DEF RowsInv, dbVars
  <2>1. SameOwner(ownerRow[y][r], owner[y][r])
    BY DEF InformInv, RowsInv
  <2>2. y # z => owner'[y] = owner[y]
    BY <1>3 DEF TypeOK
  <2>3. QED BY <2>1, <2>2
<1>10. FitInv'
  <2>1. todo' \subseteq Live'
    BY <1>4 DEF Consistent, AttachedInv
  <2>2. Live' = Live
    BY DEF Live
  <2>3. IsFiniteSet(Live) /\ SetCount \in Nat
    BY LiveIsFinite
  <2>4. Cardinality(todo') <= SetCount /\ Cardinality(todo') \in Nat
    BY <2>1, <2>2, <2>3, FS_Subset, FS_CardinalityType DEF SetCount
  <2>5. SetCount' = SetCount
    BY <2>2 DEF SetCount
  <2>6. Len(events') = 0
    BY <1>3
  <2>7. QED BY <2>4, <2>5, <2>6 DEF FitInv
<1>11. QED BY <1>3, <1>6, <1>7, <1>8, <1>9, <1>10 DEF InformInv

LEMMA RequestInforms ==
    ASSUME TypeOK, GrantInv, InformInv, phase \in {"idle", "next"},
           IsFiniteSet(Sets), GrantInv',
           NEW s \in Sets, s \in Live, NEW newState, NEW reqid \in Reqno,
           reqid # 0,
           attached' = attached \cup {s},
           UNCHANGED <<clientSets, profile, grant, advice, view, dbVars>>,
           dying' \in {dying, s},
           Request(s, newState, reqid)
    PROVE  InformInv'
<1>1. /\ state' = [state EXCEPT ![s] = newState]
      /\ request' = [request EXCEPT ![s] = reqid]
  BY DEF Request
<1>2. PICK b \in 0..nextStamp :
        IF nextStamp - b < StampMax
        THEN Move(s, state', stamp') /\ BeginUpdate(s, reqid)
        ELSE phase' = "aborted" /\ UNCHANGED loopVars
  BY DEF Request
<1>3. CASE Move(s, state', stamp') /\ BeginUpdate(s, reqid)
  <2>1. phase' # "aborted"
    BY <1>3 DEF BeginUpdate
  <2>2. Consistent'
    BY <2>1 DEF GrantInv
  <2>3. QED BY <1>1, <1>3, <2>2, UpdateInforms
<1>4. CASE phase' = "aborted" /\ UNCHANGED loopVars
  BY <1>4, NothingWaits DEF InformInv, loopVars
<1>5. QED BY <1>2, <1>3, <1>4

LEMMA EmptyFits ==
    ASSUME IsFiniteSet(Sets), todo' = {}, events' = <<>>
    PROVE  FitInv'
<1>1. IsFiniteSet(Live') /\ Live' \subseteq Sets
  BY FS_Subset DEF Live
<1>2. SetCount' \in Nat
  BY <1>1, FS_CardinalityType DEF SetCount
<1>3. Len(events') = 0 /\ Cardinality(todo') = 0
  BY FS_EmptySet
<1>4. QED BY <1>2, <1>3 DEF FitInv

-----------------------------------------------------------------------------
(* Operations that start no update *)

\* What is known of a set stays known while it stays the same.
LEMMA QuietInforms ==
    ASSUME GrantInv, InformInv, phase \in {"idle", "next"},
           IsFiniteSet(Sets), GrantInv',
           phase' \in {"idle", "free"},
           phase' = "idle" => dying' = None,
           UNCHANGED <<attached, awaiting, owner, ownerRow, loopVars>>,
           \A s \in attached : Informed(s)'
    PROVE  InformInv'
<1>1. /\ todo = {} /\ events = <<>>
      /\ awaiting = None
  BY NothingWaits
<1>2. ZoneInv'
  BY <1>1 DEF ZoneInv, loopVars
<1>3. ToldInv'
  BY DEF ToldInv
<1>4. AnswerInv'
  BY <1>1 DEF AnswerInv
<1>5. RowsInv'
  BY DEF RowsInv, InformInv, loopVars
<1>6. FitInv'
  BY <1>1, EmptyFits DEF loopVars
<1>7. QED BY <1>2, <1>3, <1>4, <1>5, <1>6 DEF InformInv

LEMMA CreateInforms ==
    ASSUME GrantInv, InformInv, GrantInv', IsFiniteSet(Sets),
           NEW s \in Sets, NEW p \in Profiles, Create(s, p)
    PROVE  InformInv'
<1>1. /\ phase = "idle" /\ UNCHANGED phase
      /\ s \notin Live
      /\ profile' = [profile EXCEPT ![s] = p]
      /\ UNCHANGED <<attached, awaiting, owner, ownerRow, loopVars>>
      /\ UNCHANGED <<state, grant, advice, userRow, view, dying>>
  BY DEF Create, grantVars, clientVars, dbVars, deathVars
<1>2. ASSUME NEW t \in attached
      PROVE  Informed(t)'
  <2>1. t # s /\ t \in Sets
    BY <1>1 DEF GrantInv, Consistent, AttachedInv, TInv, TypeOK
  <2>2. profile'[t] = profile[t]
    BY <1>1, <2>1 DEF GrantInv, TInv, TypeOK
  <2>3. Informed(t)
    BY <1>1, NothingWaits
  <2>4. QED BY <1>1, <2>2, <2>3 DEF Informed
<1>3. dying = None
  BY <1>1 DEF InformInv, ZoneInv
<1>4. QED BY <1>1, <1>2, <1>3, QuietInforms

LEMMA AddToClassInforms ==
    ASSUME GrantInv, InformInv, GrantInv', IsFiniteSet(Sets), 0 \notin ReqIds,
           NEW s \in Sets, NEW n \in ReqIds, AddToClass(s, n)
    PROVE  InformInv'
<1>1. /\ TypeOK
      /\ phase = "idle"
      /\ s \in Live
      /\ n \in Reqno /\ n # 0
      /\ attached' = attached \cup {s}
      /\ UNCHANGED <<clientSets, profile, grant, advice, view, dbVars>>
      /\ dying' \in {dying, s}
  BY DEF AddToClass, GrantInv, TInv, Reqno, deathVars
<1>2. CASE Request(s, "acquire", n)
  BY <1>1, <1>2, RequestInforms
<1>3. CASE /\ state' = [state EXCEPT ![s] = "release"]
           /\ request' = [request EXCEPT ![s] = n]
           /\ Move(s, state', stamp)
           /\ BeginUpdate(s, n)
  <2>1. phase' # "aborted"
    BY <1>3 DEF BeginUpdate
  <2>2. Consistent'
    BY <2>1 DEF GrantInv
  <2>3. QED BY <1>1, <1>3, <2>2, UpdateInforms
<1>4. QED BY <1>2, <1>3 DEF AddToClass

LEMMA AcquireInforms ==
    ASSUME GrantInv, InformInv, GrantInv', IsFiniteSet(Sets), 0 \notin ReqIds,
           NEW s \in Sets, NEW n \in ReqIds, Acquire(s, n)
    PROVE  InformInv'
<1>1. /\ TypeOK
      /\ phase = "idle"
      /\ s \in Live
      /\ n \in Reqno /\ n # 0
      /\ UNCHANGED <<clientSets, profile, attached, grant, advice, view, dbVars>>
      /\ UNCHANGED dying
  BY DEF Acquire, GrantInv, TInv, Reqno, deathVars
<1>2. CASE s \in attached /\ Request(s, "acquire", n)
  <2>1. attached' = attached \cup {s} /\ dying' \in {dying, s}
    BY <1>1, <1>2
  <2>2. QED BY <1>1, <1>2, <2>1, RequestInforms
<1>3. CASE /\ s \notin attached
           /\ state' = [state EXCEPT ![s] = "acquire"]
           /\ UNCHANGED <<request, stamp, nextStamp, lists, owner, awaiting, phase>>
           /\ UNCHANGED loopVars
  <2>1. ASSUME NEW t \in attached
        PROVE  Informed(t)'
    <3>1. state'[t] = state[t]
      BY <1>1, <1>3 DEF TypeOK
    <3>2. Informed(t)
      BY <1>1, NothingWaits
    <3>3. QED BY <1>1, <3>1, <3>2 DEF Informed, dbVars
  <2>2. dying = None
    BY <1>1 DEF InformInv, ZoneInv
  <2>3. QED BY <1>1, <1>3, <2>1, <2>2, QuietInforms DEF dbVars
<1>4. QED BY <1>2, <1>3 DEF Acquire

LEMMA ReleaseInforms ==
    ASSUME GrantInv, InformInv, GrantInv', IsFiniteSet(Sets), 0 \notin ReqIds,
           NEW s \in Sets, NEW n \in ReqIds, Release(s, n)
    PROVE  InformInv'
<1>1. /\ TypeOK
      /\ phase = "idle"
      /\ s \in Live
      /\ n \in Reqno /\ n # 0
      /\ UNCHANGED <<clientSets, profile, attached, grant, advice, dbVars>>
      /\ UNCHANGED dying
  BY DEF Release, GrantInv, TInv, Reqno, deathVars
<1>2. dying = None
  BY <1>1 DEF InformInv, ZoneInv
<1>3. \A t \in attached : Informed(t)
  BY <1>1, NothingWaits
<1>4. CASE s \in attached /\ UNCHANGED view /\ Request(s, "release", n)
  <2>1. attached' = attached \cup {s} /\ dying' \in {dying, s}
    BY <1>1, <1>4
  <2>2. QED BY <1>1, <1>4, <2>1, RequestInforms
<1>5. CASE /\ Notify(s)
           /\ UNCHANGED <<state, request, stamp, nextStamp, lists, owner>>
           /\ UNCHANGED <<awaiting, phase, loopVars>>
  <2>1. ASSUME NEW t \in attached
        PROVE  Informed(t)'
    <3>1. \/ view'[t] = view[t]
          \/ view'[t] = [state |-> state[t], grant |-> grant[t], advice |-> advice[t]]
      BY <1>1, <1>5 DEF Notify, TypeOK
    <3>2. QED BY <1>1, <1>3, <1>5, <3>1 DEF Informed, dbVars
  <2>2. QED BY <1>1, <1>2, <1>5, <2>1, QuietInforms DEF dbVars
<1>6. CASE /\ s \notin attached
           /\ state' = [state EXCEPT ![s] = "release"]
           /\ UNCHANGED <<request, stamp, nextStamp, lists, owner, view>>
           /\ UNCHANGED <<awaiting, phase, loopVars>>
  <2>1. ASSUME NEW t \in attached
        PROVE  Informed(t)'
    <3>1. state'[t] = state[t]
      BY <1>1, <1>6 DEF TypeOK
    <3>2. QED BY <1>1, <1>3, <1>6, <3>1 DEF Informed, dbVars
  <2>2. QED BY <1>1, <1>2, <1>6, <2>1, QuietInforms DEF dbVars
<1>7. QED BY <1>4, <1>5, <1>6 DEF Release

LEMMA StartDestroyInforms ==
    ASSUME GrantInv, InformInv, GrantInv', IsFiniteSet(Sets),
           phase \in {"idle", "next"},
           NEW s \in Sets, s \in Live, StartDestroy(s)
    PROVE  InformInv'
<1>1. /\ TypeOK
      /\ UNCHANGED <<clientSets, profile, attached, grant, advice, view, dbVars>>
      /\ dying' = s
  BY DEF StartDestroy, GrantInv, TInv
<1>2. CASE MustRelease(s) /\ Request(s, "release", InvalidReqno)
  <2>1. attached' = attached \cup {s} /\ dying' \in {dying, s}
    BY <1>1, <1>2 DEF MustRelease
  <2>2. InvalidReqno \in Reqno /\ InvalidReqno # 0
    BY ConfigAssumption DEF Reqno
  <2>3. QED BY <1>1, <1>2, <2>1, <2>2, RequestInforms
<1>3. CASE /\ phase' = "free"
           /\ UNCHANGED <<state, request, stamp, nextStamp, lists, owner>>
           /\ UNCHANGED <<awaiting, loopVars>>
  <2>1. ASSUME NEW t \in attached
        PROVE  Informed(t)'
    <3>1. Informed(t)
      BY NothingWaits
    <3>2. t # dying
      <4>1. dying = None
        BY DEF InformInv, ZoneInv
      <4>2. t \in Sets
        BY <1>1 DEF TypeOK
      <4>3. QED BY <4>1, <4>2, ConfigAssumption
    <3>3. QED BY <1>1, <1>3, <3>1, <3>2 DEF Informed, dbVars
  <2>2. QED BY <1>1, <1>3, <2>1, QuietInforms DEF dbVars
<1>4. QED BY <1>2, <1>3 DEF StartDestroy

-----------------------------------------------------------------------------
(* The end of a set *)

LEMMA FreeSetInforms ==
    ASSUME GrantInv, InformInv, GrantInv', IsFiniteSet(Sets), FreeSet
    PROVE  InformInv'
<1> DEFINE s == dying
<1>1. /\ TypeOK
      /\ phase = "free"
      /\ s \in Sets
      /\ phase' \in {"next", "idle"}
      /\ dying' = None
  BY DEF FreeSet, GrantInv, TInv, TypeOK, DeathInv
<1>2. /\ attached' = attached \ {s}
      /\ \A t \in Sets : t # s => /\ profile'[t] = profile[t]
                                  /\ state'[t] = state[t]
                                  /\ grant'[t] = grant[t]
                                  /\ advice'[t] = advice[t]
                                  /\ userRow'[t] = userRow[t]
                                  /\ view'[t] = view[t]
      /\ UNCHANGED <<owner, ownerRow, awaiting, loopVars>>
  BY <1>1 DEF FreeSet, TypeOK
<1>3. /\ todo = {} /\ events = <<>>
      /\ awaiting = None
      /\ \A t \in attached : Informed(t)
  BY <1>1, NothingWaits
<1>4. ZoneInv'
  BY <1>1, <1>2, <1>3 DEF ZoneInv, loopVars
<1>5. ToldInv'
  <2> SUFFICES ASSUME NEW t \in attached'
               PROVE  Informed(t)'
    BY DEF ToldInv
  <2>1. t \in attached /\ t # s /\ t \in Sets
    BY <1>1, <1>2 DEF TypeOK
  <2>2. Informed(t)
    BY <1>3, <2>1
  <2>3. QED BY <1>2, <2>1, <2>2 DEF Informed
<1>6. AnswerInv'
  BY <1>2, <1>3 DEF AnswerInv
<1>7. RowsInv'
  BY <1>1, <1>2 DEF RowsInv, InformInv, loopVars
<1>8. FitInv'
  BY <1>2, <1>3, EmptyFits DEF loopVars
<1>9. QED BY <1>1, <1>4, <1>5, <1>6, <1>7, <1>8 DEF InformInv

-----------------------------------------------------------------------------
(* The loops *)

\* A set whose stored state differs from what was told, or that is due an
\* answer, queues an event.
LEMMA StoreTells ==
    ASSUME TypeOK, NEW s \in Sets, NEW g, NEW a, NEW forced \in BOOLEAN,
           Store(s, g, a, forced)
    PROVE  \/ /\ events' = events
              /\ ReplyTo(s) = 0
              /\ UNCHANGED <<state, grant, advice>>
           \/ \E b \in BOOLEAN : events' = Append(events, Event(s, b))
<1> DEFINE new == IF forced THEN {} ELSE g
           released == IF forced THEN state[s] # "release"
                       ELSE g = {} /\ grant[s] # {} /\ profile[s].autorelease
<1>1. /\ state' = IF forced \/ released
                  THEN [state EXCEPT ![s] = "release"] ELSE state
      /\ grant' = [grant EXCEPT ![s] = new]
      /\ advice' = [advice EXCEPT ![s] = a]
      /\ events' = IF ReplyTo(s) # 0 \/ released \/ Changed(s, new, a)
                   THEN Append(events, Event(s, released))
                   ELSE events
  BY DEF Store
<1>2. released \in BOOLEAN
  BY DEF TypeOK, Profile
<1>3. ASSUME ReplyTo(s) = 0, ~released, ~Changed(s, new, a)
      PROVE  UNCHANGED <<state, grant, advice>>
  <2>1. grant' = grant /\ advice' = advice
    BY <1>1, <1>3 DEF Changed, TypeOK
  <2>2. forced => state[s] = "release"
    BY <1>3
  <2>3. state' = state
    BY <1>1, <1>3, <2>2 DEF TypeOK
  <2>4. QED BY <2>1, <2>3
<1> HIDE DEF new, released
<1>4. QED BY <1>1, <1>2, <1>3

LEMMA ScanInforms ==
    ASSUME GrantInv, InformInv, GrantInv', IsFiniteSet(Sets),
           NEW s \in Sets, Scan(s)
    PROVE  InformInv'
<1>1. TypeOK
  BY DEF GrantInv, TInv
<1>2. PICK g, a \in SUBSET Resources, forced, ok \in BOOLEAN :
        ScanOutcome(s, g, a, forced, ok)
  BY <1>1, ScanCases
<1> DEFINE z == profile[s].zone
           h == IF ok THEN g ELSE {}
           E == [set : Sets, replyid : Reqno, shuffle : BOOLEAN]
<1>3. Store(s, h, a, forced)
  BY <1>2 DEF ScanOutcome
<1>4. /\ \/ /\ events' = events
            /\ ReplyTo(s) = 0
            /\ UNCHANGED <<state, grant, advice>>
         \/ \E b \in BOOLEAN : events' = Append(events, Event(s, b))
      /\ \A t \in Sets : t # s => state'[t] = state[t]
      /\ grant' = [grant EXCEPT ![s] = IF forced THEN {} ELSE h]
      /\ advice' = [advice EXCEPT ![s] = a]
  <2> HIDE DEF h
  <2>1. QED BY <1>1, <1>3, StoreTells, StoreEffect DEF Store
<1>5. /\ phase = "scan"
      /\ s \in todo
      /\ todo' = todo \ {s}
      /\ phase' \in {"scan", "notify"}
      /\ UNCHANGED <<clientSets, profile, attached, request, userRow, ownerRow>>
      /\ UNCHANGED <<view, awaiting, update, oldOwner, dying>>
  BY DEF Scan, requestVars, clientVars, dbVars, deathVars
<1>6. ZoneInv /\ ToldInv /\ AnswerInv /\ RowsInv /\ FitInv
  BY <1>5 DEF InformInv
<1>7. events \in Seq(E)
  BY <1>1 DEF TypeOK, Reqno
<1>8. z = update.zone /\ z \in Zones
  BY <1>5, <1>6 DEF ZoneInv
<1>9. \A t : t # s => (Due(t) => Due(t)')
  BY <1>5 DEF Due
<1>10. Due(s) => ReplyTo(s) # 0
  BY DEF Due, ReplyTo
<1>11. /\ \A i \in DOMAIN events : i \in DOMAIN events' /\ events'[i] = events[i]
       /\ events' = events \/ /\ Len(events') = Len(events) + 1
                              /\ events'[Len(events')] = Event(s, FALSE)
                                 \/ events'[Len(events')] = Event(s, TRUE)
  <2>1. CASE events' = events
    BY <2>1
  <2>2. ASSUME NEW b \in BOOLEAN, events' = Append(events, Event(s, b))
        PROVE  /\ Len(events') = Len(events) + 1
               /\ \A i \in DOMAIN events : i \in DOMAIN events' /\ events'[i] = events[i]
               /\ events'[Len(events')] = Event(s, b)
    <3> DEFINE e == Event(s, b)
    <3>1. events' = Append(events, e)
      BY <2>2
    <3> HIDE DEF e
    <3>2. /\ Len(events') = Len(events) + 1
          /\ \A i \in DOMAIN events : i \in DOMAIN events' /\ events'[i] = events[i]
          /\ events'[Len(events')] = e
      BY <1>7, <3>1
    <3>3. QED BY <3>2 DEF e
  <2>3. QED BY <1>4, <2>1, <2>2
<1>12. Len(events) \in Nat /\ Len(events') \in Nat
  BY <1>7, <1>11
<1>13. events' # events =>
         \E i \in DOMAIN events' : /\ events'[i].set = s
                                   /\ events'[i].replyid = ReplyTo(s)
  <2> SUFFICES ASSUME events' # events
               PROVE  \E i \in DOMAIN events' : /\ events'[i].set = s
                                                /\ events'[i].replyid = ReplyTo(s)
    OBVIOUS
  <2>1. \A b \in BOOLEAN : Event(s, b).set = s /\ Event(s, b).replyid = ReplyTo(s)
    BY DEF Event
  <2>2. events' \in Seq(E)
    BY DEF GrantInv, TInv, TypeOK, Reqno
  <2>3. Len(events') \in DOMAIN events'
    <3> HIDE DEF E
    <3>1. Len(events') = Len(events) + 1
      BY <1>11
    <3>2. QED BY <1>12, <2>2, <3>1
  <2>4. QED BY <1>11, <2>1, <2>3
<1> HIDE DEF z, h, E
<1>14. ZoneInv'
  BY <1>5, <1>6 DEF ZoneInv
<1>15. ToldInv'
  <2> SUFFICES ASSUME NEW t \in attached,
                      ~\E i \in DOMAIN events' : events'[i].set = t
               PROVE  Informed(t)' \/ Due(t)'
    BY <1>5 DEF ToldInv
  <2>1. ~\E i \in DOMAIN events : events[i].set = t
    BY <1>11
  <2>2. Informed(t) \/ Due(t)
    BY <1>6, <2>1 DEF ToldInv
  <2>3. t \in Sets
    BY <1>1 DEF TypeOK
  <2>4. CASE t = s
    <3>1. events' = events
      BY <1>13, <2>4
    <3>2. ReplyTo(s) = 0 /\ UNCHANGED <<state, grant, advice>>
      <4>1. ~\E b \in BOOLEAN : events' = Append(events, Event(s, b))
        <5>1. \A b : events # Append(events, Event(s, b))
          <6> SUFFICES ASSUME NEW b PROVE events # Append(events, Event(s, b))
            OBVIOUS
          <6> DEFINE e == Event(s, b)
          <6>1. events # Append(events, e)
            <7> HIDE DEF e
            <7>1. Len(Append(events, e)) = Len(events) + 1
              BY <1>7
            <7>2. QED BY <7>1, <1>12
          <6>2. QED BY <6>1
        <5>2. QED BY <3>1, <5>1
      <4>2. QED BY <1>4, <4>1
    <3>3. Informed(t)
      BY <1>10, <2>2, <2>4, <3>2
    <3>4. QED BY <1>5, <3>2, <3>3 DEF Informed
  <2>5. CASE t # s
    <3>1. state'[t] = state[t] /\ grant'[t] = grant[t] /\ advice'[t] = advice[t]
      BY <1>1, <1>4, <2>3, <2>5 DEF TypeOK
    <3>2. Informed(t) => Informed(t)'
      BY <1>5, <3>1 DEF Informed
    <3>3. QED BY <1>9, <2>2, <2>5, <3>2
  <2>6. QED BY <2>4, <2>5
<1>16. AnswerInv'
  <2> SUFFICES ASSUME awaiting # None
               PROVE  \/ Due(awaiting)'
                      \/ \E i \in DOMAIN events' : /\ events'[i].set = awaiting
                                                   /\ events'[i].replyid # 0
    BY <1>5 DEF AnswerInv
  <2>1. CASE Due(awaiting) /\ awaiting # s
    BY <1>5, <1>9, <2>1
  <2>2. CASE Due(awaiting) /\ awaiting = s
    <3>1. ReplyTo(s) # 0
      BY <1>10, <2>2
    <3>2. events' # events
      <4>1. PICK b \in BOOLEAN : events' = Append(events, Event(s, b))
        BY <1>4, <3>1
      <4> DEFINE e == Event(s, b)
      <4>2. events' = Append(events, e)
        BY <4>1
      <4> HIDE DEF e
      <4>3. Len(events') = Len(events) + 1
        BY <1>7, <4>2
      <4>4. QED BY <4>3, <1>12
    <3>3. QED BY <1>13, <2>2, <3>1, <3>2
  <2>3. ASSUME NEW i \in DOMAIN events, events[i].set = awaiting,
               events[i].replyid # 0
        PROVE  \E j \in DOMAIN events' : /\ events'[j].set = awaiting
                                         /\ events'[j].replyid # 0
    BY <1>11, <2>3
  <2>4. QED BY <1>6, <2>1, <2>2, <2>3 DEF AnswerInv
<1>17. RowsInv'
  <2> SUFFICES ASSUME NEW y \in Zones, NEW r \in Resources
               PROVE  SameOwner(ownerRow[y][r],
                                IF y = z THEN oldOwner[r] ELSE owner'[y][r])
    BY <1>5, <1>8 DEF RowsInv
  <2>1. y # z => owner'[y] = owner[y]
    BY <1>1, <1>2, <1>8 DEF ScanOutcome, TypeOK, z
  <2>2. SameOwner(ownerRow[y][r], IF y = z THEN oldOwner[r] ELSE owner[y][r])
    BY <1>5, <1>6, <1>8 DEF RowsInv
  <2>3. QED BY <2>1, <2>2
<1>18. FitInv'
  <2>1. IsFiniteSet(todo)
    BY <1>1, FS_Subset DEF TypeOK
  <2>2. /\ Cardinality(todo') = Cardinality(todo) - 1
        /\ Cardinality(todo) \in Nat
    BY <1>5, <2>1, FS_RemoveElement, FS_CardinalityType
  <2>3. Len(events') <= Len(events) + 1
    <3>1. Len(events') = Len(events) \/ Len(events') = Len(events) + 1
      BY <1>11
    <3>2. QED BY <1>12, <3>1
  <2>4. SetCount' = SetCount /\ SetCount \in Nat
    BY <1>5, LiveIsFinite DEF SetCount, Live
  <2>5. Len(events) + Cardinality(todo) <= SetCount
    BY <1>6 DEF FitInv
  <2>6. Len(events') + Cardinality(todo') <= SetCount'
    BY <2>2, <2>3, <2>4, <2>5, <1>12
  <2>7. QED BY <2>6 DEF FitInv
<1>19. phase' # "aborted"
  BY <1>5
<1>20. QED BY <1>14, <1>15, <1>16, <1>17, <1>18, <1>19 DEF InformInv

LEMMA DeliverInforms ==
    ASSUME GrantInv, InformInv, GrantInv', IsFiniteSet(Sets), Deliver
    PROVE  InformInv'
<1> DEFINE E == [set : Sets, replyid : Reqno, shuffle : BOOLEAN]
<1>1. TypeOK
  BY DEF GrantInv, TInv
<1>2. /\ events \in Seq(E) /\ events # <<>>
      /\ events' = Tail(events)
      /\ phase = "notify" /\ phase' = phase
  BY <1>1 DEF Deliver, TypeOK, Reqno
<1>3. /\ Head(events) = events[1]
      /\ 1 \in DOMAIN events
      /\ Len(events) \in Nat
      /\ Len(events') = Len(events) - 1
      /\ \A i \in DOMAIN events : i # 1 => /\ i - 1 \in DOMAIN events'
                                           /\ events'[i - 1] = events[i]
  BY <1>2
<1>4. UNCHANGED <<clientSets, profile, attached, request, state, grant, advice,
                  owner, ownerRow, phase, update, todo, oldOwner, dying>>
  BY DEF Deliver, requestVars, grantVars, deathVars
<1> PICK e : e = events[1]
  OBVIOUS
<1>5. e \in E
  <2> HIDE DEF E
  <2>1. QED BY <1>2, <1>3
<1> PICK s \in Sets : s = e.set
  BY <1>5
<1>6. /\ userRow' = [userRow EXCEPT ![s] = [state |-> state[s],
                                           grant |-> grant[s]]]
      /\ Notify(s)
      /\ awaiting' = IF e.replyid # 0 /\ awaiting = s THEN None ELSE awaiting
  <2>1. Head(events) = e /\ Head(events).set = s
    BY <1>3
  <2>2. QED BY <2>1 DEF Deliver
<1>7. ZoneInv /\ ToldInv /\ AnswerInv /\ RowsInv /\ FitInv
  BY <1>2 DEF InformInv
<1> HIDE DEF E
<1>8. Informed(s)'
  <2>1. userRow'[s] = [state |-> state[s], grant |-> grant[s]]
    BY <1>1, <1>6 DEF TypeOK
  <2>2. profile[s].events /\ dying # s =>
          view'[s] = [state |-> state[s], grant |-> grant[s], advice |-> advice[s]]
    BY <1>1, <1>6 DEF TypeOK, Notify
  <2>3. QED BY <1>4, <2>1, <2>2 DEF Informed
<1>9. \A t \in Sets : t # s => /\ userRow'[t] = userRow[t]
                               /\ view'[t] = view[t]
  BY <1>1, <1>6 DEF TypeOK, Notify
<1>10. \A t : Due(t)' <=> Due(t)
  BY <1>4 DEF Due
<1>11. ZoneInv'
  BY <1>4, <1>7 DEF ZoneInv
<1>12. ToldInv'
  <2> SUFFICES ASSUME NEW t \in attached
               PROVE  \/ Informed(t)' \/ Due(t)'
                      \/ \E i \in DOMAIN events' : events'[i].set = t
    BY <1>4 DEF ToldInv
  <2>1. t \in Sets
    BY <1>1 DEF TypeOK
  <2>2. CASE t = s
    BY <1>8, <2>2
  <2>3. CASE t # s
    <3>1. Informed(t) => Informed(t)'
      BY <1>4, <1>9, <2>1, <2>3 DEF Informed
    <3>2. ASSUME NEW i \in DOMAIN events, events[i].set = t
          PROVE  \E j \in DOMAIN events' : events'[j].set = t
      <4>1. i # 1
        BY <2>3, <3>2
      <4>2. QED BY <1>3, <3>2, <4>1
    <3>3. QED BY <1>7, <1>10, <3>1, <3>2 DEF ToldInv
  <2>4. QED BY <2>2, <2>3
<1>13. AnswerInv'
  <2> SUFFICES ASSUME awaiting' # None
               PROVE  \/ Due(awaiting)
                      \/ \E i \in DOMAIN events' : /\ events'[i].set = awaiting
                                                   /\ events'[i].replyid # 0
    BY <1>6, <1>10 DEF AnswerInv
  <2>1. awaiting # None /\ ~(e.replyid # 0 /\ awaiting = s)
    BY <1>6
  <2>2. ASSUME NEW i \in DOMAIN events, events[i].set = awaiting,
               events[i].replyid # 0
        PROVE  \E j \in DOMAIN events' : /\ events'[j].set = awaiting
                                         /\ events'[j].replyid # 0
    <3>1. i # 1
      BY <2>1, <2>2
    <3>2. QED BY <1>3, <2>2, <3>1
  <2>3. QED BY <1>7, <2>1, <2>2 DEF AnswerInv
<1>14. RowsInv'
  BY <1>4, <1>7 DEF RowsInv
<1>15. FitInv'
  <2>1. SetCount' = SetCount
    BY <1>4 DEF SetCount, Live
  <2>2. Cardinality(todo) \in Nat /\ SetCount \in Nat
    <3>1. IsFiniteSet(todo)
      BY <1>1, FS_Subset DEF TypeOK
    <3>2. QED BY <3>1, FS_CardinalityType, LiveIsFinite
  <2>3. Len(events) + Cardinality(todo) <= SetCount
    BY <1>7 DEF FitInv
  <2>4. Len(events') + Cardinality(todo') <= SetCount'
    BY <1>3, <1>4, <2>1, <2>2, <2>3
  <2>5. QED BY <2>4 DEF FitInv
<1>16. QED BY <1>2, <1>11, <1>12, <1>13, <1>14, <1>15 DEF InformInv

LEMMA FinishUpdateInforms ==
    ASSUME GrantInv, InformInv, GrantInv', IsFiniteSet(Sets), FinishUpdate
    PROVE  InformInv'
<1> DEFINE z == update.zone
<1>1. TypeOK
  BY DEF GrantInv, TInv
<1>2. /\ phase = "notify" /\ events = <<>>
      /\ phase' = IF dying # None THEN "free" ELSE "idle"
      /\ UNCHANGED <<clientSets, profile, attached, state, grant, advice, owner>>
      /\ UNCHANGED <<userRow, view, awaiting, todo, events, dying>>
  BY DEF FinishUpdate, requestVars, grantVars, clientVars, deathVars
<1>3. todo = {}
  BY <1>2 DEF GrantInv, Consistent, LoopInv
<1>4. ZoneInv /\ ToldInv /\ AnswerInv /\ RowsInv
  BY <1>2 DEF InformInv
<1>5. /\ \A t : ~Due(t)
      /\ \A i : i \notin DOMAIN events
  BY <1>2, <1>3 DEF Due
<1>6. ZoneInv'
  BY <1>2, <1>3 DEF ZoneInv
<1>7. ToldInv'
  <2> SUFFICES ASSUME NEW t \in attached PROVE Informed(t)'
    BY <1>2 DEF ToldInv
  <2>1. Informed(t)
    BY <1>4, <1>5 DEF ToldInv
  <2>2. QED BY <1>2, <2>1 DEF Informed
<1>8. AnswerInv'
  BY <1>2, <1>4, <1>5 DEF AnswerInv
<1>9. RowsInv'
  <2> SUFFICES ASSUME NEW y \in Zones, NEW r \in Resources
               PROVE  SameOwner(ownerRow'[y][r], owner[y][r])
    BY <1>2 DEF RowsInv
  <2>1. SameOwner(ownerRow[y][r], IF y = z THEN oldOwner[r] ELSE owner[y][r])
    BY <1>2, <1>4 DEF RowsInv
  <2>2. ownerRow' = [ownerRow EXCEPT ![z] =
                       [x \in Resources |->
                          IF OwnerChanged(z, x)
                          THEN [class |-> owner[z][x].class,
                                set   |-> owner[z][x].set]
                          ELSE @[x]]]
    BY DEF FinishUpdate
  <2>3. CASE y = z
    <3>1. ownerRow'[y][r] = IF OwnerChanged(z, r)
                            THEN [class |-> owner[z][r].class,
                                  set   |-> owner[z][r].set]
                            ELSE ownerRow[y][r]
      BY <1>1, <2>2, <2>3 DEF TypeOK
    <3>2. QED BY <2>1, <2>3, <3>1 DEF OwnerChanged, SameOwner
  <2>4. CASE y # z
    BY <1>1, <2>1, <2>2, <2>4 DEF TypeOK
  <2>5. QED BY <2>3, <2>4
<1>10. FitInv'
  BY <1>2, <1>3, EmptyFits
<1>11. QED BY <1>2, <1>6, <1>7, <1>8, <1>9, <1>10 DEF InformInv

-----------------------------------------------------------------------------
(* The invariant *)

LEMMA InitInforms ==
    ASSUME Init, IsFiniteSet(Sets)
    PROVE  InformInv
<1>1. ZoneInv /\ ToldInv /\ AnswerInv
  BY DEF Init, ZoneInv, ToldInv, AnswerInv
<1>2. RowsInv
  BY DEF Init, RowsInv, SameOwner, NoRow, ZeroOwner
<1>3. FitInv
  <2>1. SetCount \in Nat /\ Cardinality({}) = 0
    BY LiveIsFinite, FS_EmptySet
  <2>2. Len(<<>>) = 0
    OBVIOUS
  <2>3. QED BY <2>1, <2>2 DEF Init, FitInv
<1>4. QED BY <1>1, <1>2, <1>3 DEF InformInv, Init

LEMMA NextInforms ==
    ASSUME GrantInv, InformInv, GrantInv', [Next]_vars,
           IsFiniteSet(Sets), 0 \notin ReqIds
    PROVE  InformInv'
<1>1. CASE Operation
  <2>1. ASSUME NEW s \in Sets, NEW p \in Profiles, Create(s, p)
        PROVE  InformInv'
    BY <2>1, CreateInforms
  <2>2. ASSUME NEW s \in Sets, NEW n \in ReqIds,
               AddToClass(s, n) \/ Acquire(s, n) \/ Release(s, n)
        PROVE  InformInv'
    BY <2>2, AddToClassInforms, AcquireInforms, ReleaseInforms
  <2>3. ASSUME NEW s \in Sets, Destroy(s)
        PROVE  InformInv'
    BY <2>3, StartDestroyInforms DEF Destroy
  <2>4. ASSUME NEW c \in Clients, ClientDestroy(c)
        PROVE  InformInv'
    <3>1. Head(clientSets[c]) \in Live
      BY <2>4, HeadIsLive DEF ClientDestroy, GrantInv, TInv
    <3>2. QED BY <2>4, <3>1, StartDestroyInforms DEF ClientDestroy, Live
  <2>5. QED BY <1>1, <2>1, <2>2, <2>3, <2>4 DEF Operation
<1>2. CASE Internal
  <2>1. ASSUME DestroyNext
        PROVE  InformInv'
    <3>1. leaving \in Clients /\ clientSets[leaving] # <<>>
      BY <2>1 DEF DestroyNext, GrantInv, TInv, DeathInv, TypeOK
    <3>2. Head(clientSets[leaving]) \in Live
      BY <3>1, HeadIsLive DEF GrantInv, TInv
    <3>3. QED BY <2>1, <3>2, StartDestroyInforms DEF DestroyNext, Live
  <2>2. QED BY <1>2, <2>1, ScanInforms, DeliverInforms, FinishUpdateInforms,
       FreeSetInforms DEF Internal
<1>3. CASE Aborted \/ UNCHANGED vars
  <2>1. UNCHANGED vars
    BY <1>3 DEF Aborted
  <2>2. QED BY <2>1 DEF vars, InformInv, ZoneInv, ToldInv, AnswerInv, RowsInv,
                        FitInv, SetCount, Live, Due, Informed
<1>4. QED BY <1>1, <1>2, <1>3 DEF Next

-----------------------------------------------------------------------------
(* The theorem *)

\* When an update has ended, the tables and every client know the state, the
\* grant and the advice of each set and the owner of each resource, the request
\* has been answered, and the array of events was never overrun.  Clients must
\* number their requests: a release that changes no grant, and asks for no
\* reply, is told to nobody.
THEOREM InformCorrect ==
    ASSUME IsFiniteSet(Sets), 0 \notin ReqIds
    PROVE  Spec => []EveryoneInformed
<1>1. Init => GrantInv /\ InformInv
  BY InitConsistent, InitInforms
<1>2. GrantInv /\ InformInv /\ [Next]_vars => (GrantInv /\ InformInv)'
  BY NextConsistent, NextInforms
<1>3. GrantInv /\ InformInv => EveryoneInformed
  <2> SUFFICES ASSUME GrantInv, InformInv PROVE EveryoneInformed
    OBVIOUS
  <2>1. ASSUME Settled
        PROVE  /\ \A s \in attached :
                    /\ userRow[s] = [state |-> state[s], grant |-> grant[s]]
                    /\ profile[s].events =>
                         view[s] = [state  |-> state[s],
                                    grant  |-> grant[s],
                                    advice |-> advice[s]]
               /\ awaiting = None
    <3>1. \A s \in attached : Informed(s) /\ awaiting = None
      BY <2>1, NothingWaits DEF Settled
    <3>2. dying = None
      BY <2>1 DEF Settled, InformInv, ZoneInv
    <3>3. \A s \in attached : s # None
      BY ConfigAssumption DEF GrantInv, TInv, TypeOK
    <3>4. awaiting = None
      BY <2>1, NothingWaits DEF Settled
    <3>5. QED BY <3>1, <3>2, <3>3, <3>4 DEF Informed
  <2>2. OwnerTableInSync
    BY DEF OwnerTableInSync, Settled, InformInv, RowsInv, SameOwner
  <2>3. EventsFit
    <3>1. Len(events) \in Nat
      BY DEF GrantInv, TInv, TypeOK
    <3>2. CASE phase = "aborted"
      <4>1. Len(events) = 0
        BY <3>2 DEF InformInv
      <4>2. QED BY <4>1, LiveIsFinite DEF EventsFit
    <3>3. CASE phase # "aborted"
      <4>1. Cardinality(todo) \in Nat
        BY FS_Subset, FS_CardinalityType DEF GrantInv, TInv, TypeOK
      <4>2. Len(events) + Cardinality(todo) <= SetCount
        BY <3>3 DEF InformInv, FitInv
      <4>3. QED BY <3>1, <4>1, <4>2, LiveIsFinite DEF EventsFit
    <3>4. QED BY <3>2, <3>3
  <2>4. QED BY <2>1, <2>2, <2>3 DEF EveryoneInformed
<1>4. QED BY <1>1, <1>2, <1>3, PTL DEF Spec

-----------------------------------------------------------------------------
(* Keys *)

\* A greater key has a level that is not smaller: state and stamp fill the low
\* part of the key and never overflow it.
LEMMA HighPart ==
    ASSUME NEW M \in Nat \ {0}, NEW x \in Nat, NEW y \in Nat,
           NEW a \in {0, 1}, NEW b \in {0, 1},
           NEW g \in 0..(M - 1), NEW h \in 0..(M - 1),
           (x * 2 + a) * M + g <= (y * 2 + b) * M + h
    PROVE  x <= y
<1> SUFFICES ASSUME x > y PROVE FALSE
  OBVIOUS
<1> DEFINE P == x * 2 + a
           Q == y * 2 + b
<1>1. P \in Nat /\ Q \in Nat /\ P >= Q + 1
  OBVIOUS
<1>2. P * M + g <= Q * M + h
  OBVIOUS
<1> HIDE DEF P, Q
<1>3. PICK d \in Nat : P = Q + 1 + d
  <2>1. P - (Q + 1) \in Nat /\ P = Q + 1 + (P - (Q + 1))
    BY <1>1
  <2>2. QED BY <2>1
<1>4. P * M = Q * M + M + d * M
  BY <1>1, <1>3
<1>5. d * M \in Nat /\ Q * M \in Nat
  BY <1>1
<1>6. QED BY <1>2, <1>4, <1>5

Stamps(sp) == \A t \in Sets : sp[t] \in 0..(StampMax - 1)

LEMMA KeyType ==
    ASSUME TypeOK, NEW s \in Sets, NEW st, NEW sp, sp[s] \in Nat
    PROVE  SortingKey(s, st, sp) \in Int
<1>1. profile[s].priority \in 0..7 /\ StampMax \in Nat
  BY ProfileAssumption, ConfigAssumption DEF TypeOK, Profile
<1>2. QED BY <1>1 DEF SortingKey

LEMMA LevelType ==
    ASSUME TypeOK, NEW s \in Sets
    PROVE  Level(s) \in Nat
<1>1. profile[s].priority \in 0..7
  BY ProfileAssumption DEF TypeOK, Profile
<1>2. QED BY <1>1 DEF Level

LEMMA KeyLevel ==
    ASSUME TypeOK, NEW s \in Sets, NEW t \in Sets, NEW st, NEW sp, Stamps(sp),
           SortingKey(s, st, sp) <= SortingKey(t, st, sp)
    PROVE  Level(s) <= Level(t)
<1> DEFINE low(u) == IF profile[u].class \in Lifo THEN sp[u]
                     ELSE (StampMax - 1) - sp[u]
           acq(u) == IF st[u] = "acquire" THEN 1 ELSE 0
<1>1. StampMax \in Nat \ {0}
  BY ConfigAssumption
<1>2. ASSUME NEW u \in Sets
      PROVE  /\ SortingKey(u, st, sp) = (Level(u) * 2 + acq(u)) * StampMax + low(u)
             /\ acq(u) \in {0, 1}
             /\ low(u) \in 0..(StampMax - 1)
             /\ Level(u) \in Nat
  <2>1. sp[u] \in 0..(StampMax - 1)
    BY DEF Stamps
  <2>2. low(u) \in 0..(StampMax - 1)
    BY <1>1, <2>1
  <2>3. SortingKey(u, st, sp) = (Level(u) * 2 + acq(u)) * StampMax + low(u)
    BY DEF SortingKey, Level
  <2>4. QED BY <2>2, <2>3, LevelType
<1>3. (Level(s) * 2 + acq(s)) * StampMax + low(s)
        <= (Level(t) * 2 + acq(t)) * StampMax + low(t)
  BY <1>2
<1> HIDE DEF low, acq
<1>4. QED BY <1>1, <1>2, <1>3, HighPart

-----------------------------------------------------------------------------
(* Lists *)

\* Sorting a set in keeps the order of all others, and puts it between the
\* smaller and the greater ones.
LEMMA MoveSorts ==
    ASSUME TypeOK, Linked, NEW s \in Sets, NEW st, NEW sp, Move(s, st, sp),
           NEW z \in Zones, NEW c \in Classes
    PROVE  /\ \A t, u : t # s /\ u # s /\ Precedes(lists'[z][c], t, u)
                          => Precedes(lists[z][c], t, u)
           /\ \A key \in [Sets -> Int] :
                (/\ SortedBy(Unlink(lists[z][c], s), key)
                 /\ \A t \in Sets :
                      Has(lists[z][c], t) /\ t # s =>
                        /\ SortingKey(t, st, sp) <= SortingKey(s, st, sp) =>
                             key[t] <= key[s]
                        /\ SortingKey(t, st, sp) > SortingKey(s, st, sp) =>
                             key[t] >= key[s])
                => SortedBy(lists'[z][c], key)
           /\ (z # profile[s].zone \/ c # profile[s].class) =>
                lists'[z][c] = lists[z][c]
<1> DEFINE y == profile[s].zone
           k == profile[s].class
           q == Unlink(lists[z][c], s)
<1>1. y \in Zones /\ k \in Classes /\ lists[z][c] \in Seq(Sets)
  BY ProfileType DEF TypeOK
<1>2. CASE z # y \/ c # k
  <2>1. lists'[z][c] = lists[z][c]
    BY <1>1, <1>2 DEF Move, TypeOK
  <2>2. ~Has(lists[z][c], s)
    BY <1>2 DEF Linked
  <2>3. Unlink(lists[z][c], s) = lists[z][c]
    BY <2>2 DEF Unlink
  <2>4. QED BY <2>1, <2>3
<1>3. CASE z = y /\ c = k
  <2>1. /\ q \in Seq(Sets)
        /\ ~Has(q, s)
        /\ \A t : t # s => (Has(q, t) <=> Has(lists[z][c], t))
    BY <1>1, UnlinkMembers DEF Linked
  <2>2. PICK i \in 0..Len(q) :
          /\ i > 0 => SortingKey(q[i], st, sp) <= SortingKey(s, st, sp)
          /\ \A j \in (i + 1)..Len(q) :
               SortingKey(q[j], st, sp) > SortingKey(s, st, sp)
          /\ lists' = [lists EXCEPT ![z][c] = Insert(q, i, s)]
    BY <1>3 DEF Move
  <2>3. lists'[z][c] = Insert(q, i, s)
    BY <1>1, <2>2 DEF TypeOK
  <2>4. ASSUME NEW t, NEW u, t # s, u # s, Precedes(lists'[z][c], t, u)
        PROVE  Precedes(lists[z][c], t, u)
    <3>1. Precedes(q, t, u)
      <4> HIDE DEF q
      <4>1. Precedes(Insert(q, i, s), t, u)
        BY <2>3, <2>4
      <4>2. QED BY <2>1, <2>4, <4>1, InsertOrder
    <3>2. QED BY <1>1, <3>1, UnlinkOrder
  <2>5. ASSUME NEW key \in [Sets -> Int], SortedBy(q, key),
               \A t \in Sets :
                 Has(lists[z][c], t) /\ t # s =>
                   /\ SortingKey(t, st, sp) <= SortingKey(s, st, sp) =>
                        key[t] <= key[s]
                   /\ SortingKey(t, st, sp) > SortingKey(s, st, sp) =>
                        key[t] >= key[s]
        PROVE  SortedBy(lists'[z][c], key)
    <3>1. \A j \in DOMAIN q : q[j] \in Sets /\ q[j] # s /\ Has(lists[z][c], q[j])
      <4> HIDE DEF q
      <4>1. \A j \in DOMAIN q : q[j] \in Sets /\ Has(q, q[j])
        BY <2>1 DEF Has
      <4>2. QED BY <2>1, <4>1
    <3> HIDE DEF q
    <3>2. i > 0 => key[q[i]] <= key[s]
      <4>1. i > 0 => i \in DOMAIN q
        BY <2>1
      <4>2. QED BY <2>2, <2>5, <3>1, <4>1
    <3>3. \A j \in (i + 1)..Len(q) : key[q[j]] >= key[s]
      <4>1. \A j \in (i + 1)..Len(q) : j \in DOMAIN q
        BY <2>1
      <4>2. QED BY <2>2, <2>5, <3>1, <4>1
    <3>4. SortedBy(Insert(q, i, s), key)
      BY <2>1, <2>5, <3>2, <3>3, InsertSorted
    <3>5. QED BY <2>3, <3>4
  <2>6. QED BY <1>3, <2>4, <2>5
<1>4. QED BY <1>2, <1>3

\* Two sets of a zone keep their order when their places in the lists do.
LEMMA AheadKept ==
    ASSUME TypeOK, Linked, TypeOK', Linked',
           NEW t \in attached, NEW u \in attached, t # u,
           t \in attached', u \in attached',
           profile'[t] = profile[t], profile'[u] = profile[u],
           profile[t].zone = profile[u].zone,
           \A z \in Zones, c \in Classes :
             /\ Precedes(lists'[z][c], t, u) => Precedes(lists[z][c], t, u)
             /\ Precedes(lists'[z][c], u, t) => Precedes(lists[z][c], u, t)
    PROVE  Ahead(t, u)' <=> Ahead(t, u)
<1> DEFINE z == profile[t].zone
           c == profile[t].class
           q == lists[z][c]
           n == lists'[z][c]
<1>1. t \in Sets /\ u \in Sets /\ z \in Zones /\ c \in Classes
  BY ProfileType DEF TypeOK
<1>2. CASE profile[u].class # c
  BY <1>2 DEF Ahead
<1>3. CASE profile[u].class = c
  <2>1. /\ q \in Seq(Sets) /\ NoRepeat(q)
        /\ Has(q, t) /\ Has(q, u)
    <3>1. q \in Seq(Sets)
      BY <1>1 DEF TypeOK
    <3>2. NoRepeat(q)
      BY <1>1 DEF Linked
    <3>3. Has(q, t) /\ Has(q, u)
      BY <1>1, <1>3 DEF Linked
    <3>4. QED BY <3>1, <3>2, <3>3
  <2>2. n \in Seq(Sets)
    BY <1>1 DEF TypeOK
  <2>3. NoRepeat(n)
    BY <1>1 DEF Linked
  <2>4. Has(n, t) /\ Has(n, u)
    BY <1>1, <1>3 DEF Linked
  <2>5. Ahead(t, u) <=> ClassRank(c) > ClassRank(c) \/ Position(q, t) > Position(q, u)
    BY <1>3 DEF Ahead
  <2>6. Ahead(t, u)' <=> ClassRank(c) > ClassRank(c) \/ Position(n, t) > Position(n, u)
    BY <1>3 DEF Ahead
  <2>7. Precedes(n, u, t) => Precedes(q, u, t)
    BY <1>1
  <2>8. Precedes(n, t, u) => Precedes(q, t, u)
    BY <1>1
  <2> HIDE DEF q, n
  <2>9. Position(q, t) > Position(q, u) <=> Precedes(q, u, t)
    BY <2>1, PositionPrecedes
  <2>10. Position(n, t) > Position(n, u) <=> Precedes(n, u, t)
    BY <2>2, <2>3, <2>4, PositionPrecedes
  <2>11. Precedes(q, t, u) <=> ~Precedes(q, u, t)
    BY <2>1, PrecedesTotal
  <2>12. Precedes(n, t, u) <=> ~Precedes(n, u, t)
    BY <2>2, <2>3, <2>4, PrecedesTotal
  <2>13. QED BY <2>5, <2>6, <2>7, <2>8, <2>9, <2>10, <2>11, <2>12
<1>4. QED BY <1>2, <1>3

LEMMA RankType ==
    ASSUME NEW c \in Classes
    PROVE  ClassRank(c) \in Nat /\ ClassList[ClassRank(c)] = c
<1>1. \E i \in DOMAIN ClassList : ClassList[i] = c
  BY ClassListAssumption
<1>2. ClassRank(c) \in DOMAIN ClassList /\ ClassList[ClassRank(c)] = c
  BY <1>1 DEF ClassRank
<1>3. QED BY <1>2, ClassListAssumption

\* No two sets are ahead of each other.
LEMMA AheadStrict ==
    ASSUME TypeOK, Linked, NEW t \in attached, NEW u \in attached,
           profile[t].zone = profile[u].zone, Ahead(t, u)
    PROVE  ~Ahead(u, t)
<1> DEFINE z == profile[t].zone
           c == profile[t].class
           d == profile[u].class
<1>1. t \in Sets /\ u \in Sets /\ z \in Zones /\ c \in Classes /\ d \in Classes
  BY ProfileType DEF TypeOK
<1>2. ClassRank(c) \in Nat /\ ClassRank(d) \in Nat
  BY <1>1, RankType
<1>3. CASE c # d
  BY <1>2, <1>3 DEF Ahead
<1>4. CASE c = d
  <2>1. /\ lists[z][c] \in Seq(Sets)
        /\ Has(lists[z][c], t) /\ Has(lists[z][c], u)
    BY <1>1, <1>4 DEF TypeOK, Linked
  <2>2. Position(lists[z][c], t) \in Nat /\ Position(lists[z][c], u) \in Nat
    BY <2>1 DEF Position, Has
  <2>3. QED BY <1>2, <1>4, <2>2 DEF Ahead
<1>5. QED BY <1>3, <1>4

-----------------------------------------------------------------------------
(* What an update has done for a zone so far: the sets the scan is done     *)
(* with, and what the owner records say of them.                            *)

Done(z) == {s \in attached \ todo : profile[s].zone = z}

DoneHolders(z, r) == {s \in Done(z) : r \in grant[s]}

ModalDone(z) ==
    \E r \in Resources : \E t \in DoneHolders(z, r) : profile[t].class \in Modal

\* Nobody of a higher class can have shared r with c.
Alone(c, r) ==
    r \notin Shareable \/ \A d \in ClassShare : ClassRank(d) < ClassRank(c)

\* As long as no set of a modal class holds anything, an owner record names a
\* holder and says whether all holders share; a record may always refuse more
\* than its holders do, but never less.
RecordsRight(z) ==
    \A r \in Resources :
      /\ owner[z][r].modal => ModalDone(z)
      /\ owner[z][r].set # None =>
           owner[z][r].set \in DoneHolders(z, r) \/ ModalDone(z)
      /\ owner[z][r].set # None /\ ~owner[z][r].share =>
           (\E t \in DoneHolders(z, r) : ~Willing(t, r)) \/ ModalDone(z)
      /\ \A t \in DoneHolders(z, r) :
           /\ owner[z][r].set # None
           /\ owner[z][r].share => Willing(t, r)
           /\ profile[t].class \in Modal /\ Alone(profile[t].class, r) =>
                owner[z][r].modal

\* Reachable and Allotted, when the grants of other sets are those of the update
\* before.
Reach(s) ==
    {r \in profile[s].all :
       \A t \in DoneHolders(profile[s].zone, r) \ {s} :
         Ahead(t, s) => r \in Shareable /\ Willing(t, r)}

Allots(s, refused) ==
    IF profile[s].mandatory \subseteq Reach(s) \ refused
    THEN grant[s] = Reach(s) \ refused \/ (HasVeto /\ grant[s] = {})
    ELSE grant[s] = {}

GrantsRight(z) ==
    \A s \in Done(z) :
      state[s] = "acquire" => /\ grant[s] \subseteq Reach(s)
                              /\ \/ ModalDone(z)
                                 \/ \E refused \in SUBSET Managed : Allots(s, refused)

Silenced(z) ==
    \A r \in Resources : \A t \in DoneHolders(z, r), s \in Done(z) :
      (/\ s # t
       /\ profile[t].class \in Modal
       /\ Alone(profile[t].class, r)
       /\ r \in profile[s].all
       /\ Ahead(t, s)) => state[s] # "acquire"

ZoneRight(z) == RecordsRight(z) /\ GrantsRight(z) /\ Silenced(z)

\* The zone stays right as long as nothing happens to those that hold or wait.
LEMMA ZoneFrame ==
    ASSUME TypeOK, NEW z, ZoneRight(z),
           Done(z)' \subseteq Done(z),
           \A s \in Done(z) : s \notin Done(z)' => grant[s] = {},
           \A s \in Done(z)' : /\ profile'[s] = profile[s]
                               /\ state'[s] = state[s]
                               /\ grant'[s] = grant[s],
           \A s \in Done(z) : grant[s] # {} => state[s] = "acquire",
           \A s, t \in Done(z)' :
             s # t /\ state[s] = "acquire" /\ state[t] = "acquire" =>
               (Ahead(t, s)' <=> Ahead(t, s)),
           owner'[z] = owner[z]
    PROVE  ZoneRight(z)'
<1>1. ASSUME NEW r
      PROVE  DoneHolders(z, r)' = DoneHolders(z, r)
  <2>1. DoneHolders(z, r)' = {s \in Done(z)' : r \in grant'[s]}
    BY DEF DoneHolders
  <2>2. QED BY <2>1 DEF DoneHolders
<1>2. \A s \in Done(z)' : \A r : Willing(s, r)' <=> Willing(s, r)
  BY DEF Willing
<1>3. \A r : \A t \in DoneHolders(z, r) : /\ t \in Done(z)' /\ t \in Done(z)
                                          /\ profile'[t] = profile[t]
                                          /\ state[t] = "acquire"
                                          /\ Willing(t, r)' <=> Willing(t, r)
  <2>1. ASSUME NEW r, NEW t \in DoneHolders(z, r)
        PROVE  t \in Done(z) /\ t \in Done(z)' /\ state[t] = "acquire"
    BY <1>1 DEF DoneHolders
  <2>2. QED BY <1>2, <2>1
<1>4. ModalDone(z)' <=> ModalDone(z)
  <2>1. ModalDone(z)' <=> \E r \in Resources : \E t \in DoneHolders(z, r)' :
                            profile'[t].class \in Modal
    BY DEF ModalDone
  <2>2. QED BY <1>1, <1>3, <2>1 DEF ModalDone
<1>5. RecordsRight(z)'
  <2> SUFFICES ASSUME NEW r \in Resources
               PROVE  (/\ owner[z][r].modal => ModalDone(z)
                       /\ owner[z][r].set # None =>
                            owner[z][r].set \in DoneHolders(z, r) \/ ModalDone(z)
                       /\ owner[z][r].set # None /\ ~owner[z][r].share =>
                            (\E t \in DoneHolders(z, r) : ~Willing(t, r)) \/ ModalDone(z)
                       /\ \A t \in DoneHolders(z, r) :
                            /\ owner[z][r].set # None
                            /\ owner[z][r].share => Willing(t, r)
                            /\ profile[t].class \in Modal /\ Alone(profile[t].class, r) =>
                                 owner[z][r].modal)'
    BY DEF RecordsRight
  <2>1. RecordsRight(z)
    BY DEF ZoneRight
  <2>2. /\ owner'[z][r] = owner[z][r]
        /\ DoneHolders(z, r)' = DoneHolders(z, r)
    BY <1>1
  <2>3. \A t \in DoneHolders(z, r) : /\ profile'[t] = profile[t]
                                     /\ Willing(t, r)' <=> Willing(t, r)
    BY <1>3
  <2>4. QED BY <1>4, <2>1, <2>2, <2>3 DEF RecordsRight, Alone
<1>6. ASSUME NEW s \in Done(z)', state[s] = "acquire"
      PROVE  Reach(s)' = Reach(s)
  <2>1. profile[s].zone = z
    BY <1>6 DEF Done
  <2>2. Reach(s)' = {r \in profile[s].all :
                       \A t \in DoneHolders(z, r)' \ {s} :
                         Ahead(t, s)' => r \in Shareable /\ Willing(t, r)'}
    BY <1>6, <2>1 DEF Reach
  <2>3. Reach(s) = {r \in profile[s].all :
                       \A t \in DoneHolders(z, r) \ {s} :
                         Ahead(t, s) => r \in Shareable /\ Willing(t, r)}
    BY <2>1 DEF Reach
  <2>4. \A r : \A t \in DoneHolders(z, r) \ {s} : Ahead(t, s)' <=> Ahead(t, s)
    BY <1>3, <1>6
  <2>5. QED BY <1>1, <1>3, <2>2, <2>3, <2>4
<1>7. GrantsRight(z)'
  <2> SUFFICES ASSUME NEW s \in Done(z)', state'[s] = "acquire"
               PROVE  /\ grant'[s] \subseteq Reach(s)'
                      /\ \/ ModalDone(z)'
                         \/ \E refused \in SUBSET Managed : Allots(s, refused)'
    BY DEF GrantsRight
  <2>1. state[s] = "acquire" /\ s \in Done(z) /\ grant'[s] = grant[s]
        /\ profile'[s] = profile[s]
    OBVIOUS
  <2>2. Reach(s)' = Reach(s)
    BY <1>6, <2>1
  <2>3. \A refused : Allots(s, refused)' <=> Allots(s, refused)
    BY <2>1, <2>2 DEF Allots
  <2>4. QED BY <1>4, <2>1, <2>2, <2>3 DEF ZoneRight, GrantsRight
<1>8. Silenced(z)'
  <2> SUFFICES ASSUME NEW r \in Resources, NEW t \in DoneHolders(z, r)',
                      NEW s \in Done(z)', s # t,
                      profile'[t].class \in Modal, Alone(profile'[t].class, r),
                      r \in profile'[s].all, Ahead(t, s)', state'[s] = "acquire"
               PROVE  FALSE
    BY DEF Silenced, Alone
  <2>1. /\ t \in DoneHolders(z, r) /\ t \in Done(z)' /\ state[t] = "acquire"
        /\ profile'[t] = profile[t]
    BY <1>1, <1>3
  <2>2. /\ s \in Done(z) /\ state[s] = "acquire" /\ profile'[s] = profile[s]
    OBVIOUS
  <2>3. Ahead(t, s)
    BY <2>1, <2>2
  <2>4. Silenced(z)
    BY DEF ZoneRight
  <2>5. QED BY <2>1, <2>2, <2>3, <2>4 DEF Silenced
<1>9. QED BY <1>5, <1>7, <1>8 DEF ZoneRight

-----------------------------------------------------------------------------
(* The invariant *)

LevelOf == [s \in Sets |-> Level(s)]

\* The scan goes down one zone; it meets no owner it has not made itself, and a
\* record that can be shared was written for a class that shares.  A set is
\* only sorted anew when it was released.
ScanInv ==
    /\ \A s \in todo : profile[s].zone = update.zone
    /\ \A s \in attached \ todo, t \in todo :
         profile[s].zone = profile[t].zone => Ahead(s, t)
    /\ phase = "scan" =>
         \A r \in Resources :
           owner[update.zone][r].set # None =>
             /\ owner[update.zone][r].set \in Done(update.zone)
             /\ owner[update.zone][r].share =>
                  \E u \in Done(update.zone) : profile[u].class \in ClassShare
    /\ \A i \in DOMAIN events :
         events[i].shuffle => state[events[i].set] = "release"

ListsInv ==
    /\ Stamps(stamp)
    /\ \A z \in Zones, c \in Classes : SortedBy(lists[z][c], LevelOf)

AskedInv == \A s \in Sets : grant[s] \subseteq profile[s].all

OrderParts ==
    ListsInv /\ AskedInv /\ ScanInv /\ \A z \in Zones : ZoneRight(z)

\* A set that is destroyed does not ask for anything any more.
DyingInv ==
    /\ phase \notin {"scan", "notify", "free"} => dying = None
    /\ dying \in attached => state[dying] # "acquire"

OrderInv == GrantInv /\ (phase # "aborted" => OrderParts /\ DyingInv)

\* Holders are acquiring.
LEMMA HoldersAcquire ==
    ASSUME TypeOK, Consistent, NEW z, NEW s \in Done(z), grant[s] # {}
    PROVE  state[s] = "acquire"
BY DEF Consistent, WholeInv, Done, TypeOK

LEMMA LevelOfType ==
    ASSUME TypeOK
    PROVE  LevelOf \in [Sets -> Int]
BY LevelType DEF LevelOf

LEMMA LevelOfKept ==
    ASSUME TypeOK, UNCHANGED profile
    PROVE  LevelOf' = LevelOf
BY DEF LevelOf, Level

\* Wherever a set is sorted in, its list stays in the order of the levels.
LEMMA MoveLevels ==
    ASSUME TypeOK, Linked, ListsInv, NEW s \in Sets, NEW st, NEW sp, Stamps(sp),
           Move(s, st, sp), NEW z \in Zones, NEW c \in Classes
    PROVE  SortedBy(lists'[z][c], LevelOf)
<1>1. SortedBy(lists[z][c], LevelOf) /\ lists[z][c] \in Seq(Sets)
  BY DEF ListsInv, TypeOK
<1>2. SortedBy(Unlink(lists[z][c], s), LevelOf)
  BY <1>1, UnlinkSorted
<1>3. ASSUME NEW t \in Sets
      PROVE  /\ SortingKey(t, st, sp) <= SortingKey(s, st, sp) =>
                  LevelOf[t] <= LevelOf[s]
             /\ SortingKey(t, st, sp) > SortingKey(s, st, sp) =>
                  LevelOf[t] >= LevelOf[s]
  <2>1. LevelOf[t] = Level(t) /\ LevelOf[s] = Level(s)
    BY DEF LevelOf
  <2>2. SortingKey(t, st, sp) \in Int /\ SortingKey(s, st, sp) \in Int
    BY KeyType DEF Stamps
  <2>3. SortingKey(t, st, sp) <= SortingKey(s, st, sp) => Level(t) <= Level(s)
    BY KeyLevel
  <2>4. SortingKey(s, st, sp) <= SortingKey(t, st, sp) => Level(s) <= Level(t)
    BY KeyLevel
  <2>5. QED BY <2>1, <2>2, <2>3, <2>4, LevelType
<1>4. LevelOf \in [Sets -> Int]
  BY LevelOfType
<1>5. QED BY <1>2, <1>3, <1>4, MoveSorts

-----------------------------------------------------------------------------
(* Steps that leave lists, owners and grants alone *)

LEMMA QuietOrders ==
    ASSUME TypeOK, Consistent, OrderParts, phase # "scan", phase' # "scan",
           UNCHANGED <<profile, attached, grant, lists, owner, stamp, todo>>,
           \A s \in attached : state'[s] = state[s],
           events' = events
    PROVE  OrderParts'
<1>1. todo = {} /\ attached \subseteq Sets
  BY DEF Consistent, LoopInv, TypeOK
<1>2. ListsInv'
  BY LevelOfKept DEF OrderParts, ListsInv, Stamps, SortedBy
<1>3. AskedInv'
  BY DEF OrderParts, AskedInv
<1>4. ScanInv'
  <2>1. \A i \in DOMAIN events' : /\ i \in DOMAIN events /\ events'[i] = events[i]
                                  /\ events[i].set \in attached
    BY DEF Consistent, LoopInv
  <2>2. QED BY <1>1, <2>1 DEF OrderParts, ScanInv
<1>5. ASSUME NEW z \in Zones
      PROVE  ZoneRight(z)'
  <2>1. ZoneRight(z)
    BY DEF OrderParts
  <2>2. Done(z)' = Done(z) /\ Done(z) \subseteq attached
    BY DEF Done
  <2>3. \A s, t : Ahead(t, s)' <=> Ahead(t, s)
    BY DEF Ahead
  <2>4. QED BY <1>1, <2>1, <2>2, <2>3, HoldersAcquire, ZoneFrame
<1>6. QED BY <1>2, <1>3, <1>4, <1>5 DEF OrderParts

LEMMA CreateOrders ==
    ASSUME TypeOK, TypeOK', Consistent, OrderParts,
           NEW s \in Sets, NEW p \in Profiles, Create(s, p)
    PROVE  OrderParts'
<1>1. /\ phase = "idle" /\ s \notin attached /\ grant[s] = {}
      /\ profile' = [profile EXCEPT ![s] = p]
      /\ UNCHANGED <<attached, grant, state, lists, owner, phase, stamp, loopVars>>
  BY DEF Create, Consistent, AttachedInv, grantVars
<1>2. \A t \in Sets : t # s => profile'[t] = profile[t]
  BY <1>1 DEF TypeOK
<1>3. todo = {} /\ attached \subseteq Sets
  BY <1>1 DEF Consistent, LoopInv, TypeOK
<1>4. ListsInv'
  <2>1. Stamps(stamp')
    BY <1>1 DEF OrderParts, ListsInv
  <2>2. ASSUME NEW z \in Zones, NEW c \in Classes, NEW t, NEW u,
               Precedes(lists[z][c], t, u)
        PROVE  LevelOf'[t] <= LevelOf'[u]
    <3>1. Has(lists[z][c], t) /\ Has(lists[z][c], u)
      BY <2>2 DEF Precedes, Has
    <3>2. lists[z][c] \in Seq(Sets)
      BY DEF TypeOK
    <3>3. t \in Sets /\ u \in Sets
      BY <3>1, <3>2 DEF Has
    <3>4. t # s /\ u # s
      BY <1>1, <3>1, <3>3 DEF Consistent, Linked
    <3>5. LevelOf'[t] = LevelOf[t] /\ LevelOf'[u] = LevelOf[u]
      BY <1>2, <3>3, <3>4 DEF LevelOf, Level
    <3>6. QED BY <2>2, <3>5 DEF OrderParts, ListsInv, SortedBy
  <2>3. QED BY <1>1, <2>1, <2>2 DEF ListsInv, SortedBy
<1>5. AskedInv'
  BY <1>1, <1>2 DEF OrderParts, AskedInv
<1>6. ScanInv'
  BY <1>1, <1>3 DEF OrderParts, ScanInv, loopVars
<1>7. ASSUME NEW z \in Zones
      PROVE  ZoneRight(z)'
  <2>1. ZoneRight(z)
    BY DEF OrderParts
  <2>2. Done(z)' = Done(z) /\ Done(z) \subseteq attached
    BY <1>1, <1>2, <1>3 DEF Done, loopVars
  <2>3. \A t \in attached : t # s /\ profile'[t] = profile[t]
    BY <1>1, <1>2, <1>3
  <2>4. \A t, u \in attached : Ahead(t, u)' <=> Ahead(t, u)
    BY <1>1, <2>3 DEF Ahead
  <2>5. QED BY <1>1, <1>3, <2>1, <2>2, <2>3, <2>4, HoldersAcquire, ZoneFrame
<1>8. QED BY <1>4, <1>5, <1>6, <1>7 DEF OrderParts

-----------------------------------------------------------------------------
(* Every request starts the zone over *)

LEMMA UpdateOrders ==
    ASSUME TypeOK, TypeOK', Consistent, Consistent', OrderParts,
           phase \in {"idle", "next"},
           NEW s \in Sets, NEW st, NEW reqid, NEW newState,
           attached' = attached \cup {s},
           UNCHANGED <<profile, grant>>,
           state' = [state EXCEPT ![s] = newState],
           Stamps(stamp'),
           Move(s, st, stamp'), BeginUpdate(s, reqid)
    PROVE  OrderParts'
<1> DEFINE z == profile[s].zone
<1>1. /\ phase' = "scan"
      /\ events' = <<>>
      /\ update'.zone = z
      /\ owner' = [owner EXCEPT ![z] = [r \in Resources |-> ResetOwner]]
      /\ todo' = Members(z, lists')
  BY DEF BeginUpdate
<1>2. z \in Zones /\ todo = {} /\ attached \subseteq Sets
  BY ProfileType DEF Consistent, LoopInv, TypeOK
<1>3. \A t \in Sets : t \in todo' <=> t \in attached' /\ profile[t].zone = z
  <2>1. \A t \in Sets, c \in Classes :
          Has(lists'[z][c], t) <=> /\ t \in attached'
                                   /\ profile[t].zone = z
                                   /\ profile[t].class = c
    BY <1>2 DEF Consistent, Linked
  <2>2. \A t \in Sets : profile[t].class \in Classes
    BY ProfileType DEF TypeOK
  <2>3. QED BY <1>1, <2>1, <2>2 DEF Members
<1>4. ListsInv'
  <2>1. ASSUME NEW y \in Zones, NEW c \in Classes
        PROVE  SortedBy(lists'[y][c], LevelOf)
    BY MoveLevels DEF Consistent, OrderParts
  <2>2. QED BY <2>1, LevelOfKept DEF ListsInv
<1>5. AskedInv'
  BY DEF OrderParts, AskedInv
<1>6. Done(z)' = {}
  BY <1>2, <1>3 DEF Done, TypeOK
<1>7. ScanInv'
  <2>1. \A t \in todo' : profile'[t].zone = update'.zone
    BY <1>1, <1>3 DEF TypeOK
  <2>2. \A t \in attached' \ todo', u \in todo' : profile'[t].zone # profile'[u].zone
    BY <1>3 DEF TypeOK
  <2>3. \A r \in Resources : owner'[z][r].set = None
    BY <1>1, <1>2 DEF TypeOK, ResetOwner, ZeroOwner
  <2>4. QED BY <1>1, <2>1, <2>2, <2>3 DEF ScanInv
<1>8. ASSUME NEW y \in Zones
      PROVE  ZoneRight(y)'
  <2>1. CASE y = z
    <3>1. \A r : DoneHolders(z, r)' = {}
      BY <1>6 DEF DoneHolders
    <3>2. \A r \in Resources : /\ owner'[z][r].set = None
                               /\ ~owner'[z][r].modal
      BY <1>1, <1>2 DEF TypeOK, ResetOwner, ZeroOwner
    <3>3. RecordsRight(z)'
      BY <3>1, <3>2 DEF RecordsRight
    <3>4. GrantsRight(z)' /\ Silenced(z)'
      BY <1>6, <3>1 DEF GrantsRight, Silenced
    <3>5. QED BY <2>1, <3>3, <3>4 DEF ZoneRight
  <2>2. CASE y # z
    <3>1. ZoneRight(y)
      BY DEF OrderParts
    <3>2. Done(y)' = Done(y) /\ Done(y) \subseteq attached
      BY <1>2, <1>3, <2>2 DEF Done, TypeOK
    <3>3. \A t \in Done(y) : t # s /\ state'[t] = state[t] /\ profile[t].zone = y
      BY <1>2, <2>2, <3>2 DEF Done, TypeOK
    <3>4. owner'[y] = owner[y]
      BY <1>1, <2>2 DEF TypeOK
    <3>5. \A c \in Classes : lists'[y][c] = lists[y][c]
      BY <2>2, MoveSorts DEF Consistent
    <3>6. \A t, u \in Done(y) : Ahead(t, u)' <=> Ahead(t, u)
      <4>1. \A t \in Done(y) : profile[t].class \in Classes
        BY <1>2, <3>2, ProfileType DEF TypeOK
      <4>2. QED BY <3>3, <3>5, <4>1 DEF Ahead
    <3>7. QED BY <3>1, <3>2, <3>3, <3>4, <3>6, HoldersAcquire, ZoneFrame
  <2>3. QED BY <2>1, <2>2
<1>9. QED BY <1>4, <1>5, <1>7, <1>8 DEF OrderParts

LEMMA RequestOrders ==
    ASSUME TypeOK, TypeOK', Consistent, phase' # "aborted" => Consistent',
           OrderParts, phase \in {"idle", "next"},
           NEW s \in Sets, NEW reqid, NEW newState,
           attached' = attached \cup {s},
           UNCHANGED <<profile, grant>>,
           Request(s, newState, reqid)
    PROVE  phase' # "aborted" => OrderParts'
<1>1. PICK b \in 0..nextStamp :
        /\ StampBase(b)
        /\ IF nextStamp - b < StampMax
           THEN /\ stamp' = Stamped(s, b)
                /\ Move(s, state', stamp')
                /\ BeginUpdate(s, reqid)
           ELSE phase' = "aborted"
  BY DEF Request
<1>2. state' = [state EXCEPT ![s] = newState]
  BY DEF Request
<1>3. CASE nextStamp - b < StampMax
  <2>1. nextStamp \in Nat /\ StampMax \in Nat /\ stamp \in [Sets -> Nat]
    BY ConfigAssumption DEF TypeOK
  <2>2. ASSUME NEW t \in Sets
        PROVE  stamp'[t] \in 0..(StampMax - 1)
    <3>1. stamp[t] \in 0..(StampMax - 1)
      BY DEF OrderParts, ListsInv, Stamps
    <3>2. CASE t = s
      BY <1>1, <1>3, <2>1, <3>2 DEF Stamped
    <3>3. CASE t # s /\ t \in Live
      <4>1. b <= stamp[t]
        BY <1>1, <2>1, <3>1, <3>3 DEF StampBase
      <4>2. stamp'[t] = stamp[t] - b
        BY <1>1, <1>3, <3>3 DEF Stamped
      <4>3. b \in Nat
        BY <2>1
      <4>4. QED BY <2>1, <3>1, <4>1, <4>2, <4>3
    <3>4. CASE t # s /\ t \notin Live
      BY <1>1, <1>3, <3>1, <3>4 DEF Stamped
    <3>5. QED BY <3>2, <3>3, <3>4
  <2>3. Stamps(stamp')
    BY <2>2 DEF Stamps
  <2>4. phase' = "scan"
    BY <1>1, <1>3 DEF BeginUpdate
  <2>5. QED BY <1>1, <1>2, <1>3, <2>3, <2>4, UpdateOrders
<1>4. QED BY <1>1, <1>3

-----------------------------------------------------------------------------
(* The operations *)

LEMMA AddToClassOrders ==
    ASSUME TypeOK, TypeOK', Consistent, phase' # "aborted" => Consistent',
           OrderParts, NEW s \in Sets, NEW n \in ReqIds, AddToClass(s, n)
    PROVE  phase' # "aborted" => OrderParts'
<1>1. /\ phase = "idle"
      /\ attached' = attached \cup {s}
      /\ UNCHANGED <<profile, grant>>
  BY DEF AddToClass
<1>2. CASE Request(s, "acquire", n)
  BY <1>1, <1>2, RequestOrders
<1>3. CASE /\ state' = [state EXCEPT ![s] = "release"]
           /\ UNCHANGED <<stamp, nextStamp>>
           /\ Move(s, state', stamp)
           /\ BeginUpdate(s, n)
  <2>1. Stamps(stamp') /\ Move(s, state', stamp')
    BY <1>3 DEF OrderParts, ListsInv
  <2>2. phase' = "scan"
    BY <1>3 DEF BeginUpdate
  <2>3. QED BY <1>1, <1>3, <2>1, <2>2, UpdateOrders
<1>4. QED BY <1>2, <1>3 DEF AddToClass

LEMMA AcquireOrders ==
    ASSUME TypeOK, TypeOK', Consistent, phase' # "aborted" => Consistent',
           OrderParts, NEW s \in Sets, NEW n \in ReqIds, Acquire(s, n)
    PROVE  phase' # "aborted" => OrderParts'
<1>1. phase = "idle" /\ UNCHANGED <<profile, attached, grant>>
  BY DEF Acquire
<1>2. CASE s \in attached /\ Request(s, "acquire", n)
  <2>1. attached' = attached \cup {s}
    BY <1>1, <1>2
  <2>2. QED BY <1>1, <1>2, <2>1, RequestOrders
<1>3. CASE /\ s \notin attached
           /\ state' = [state EXCEPT ![s] = "acquire"]
           /\ UNCHANGED <<request, stamp, nextStamp, lists, owner, awaiting, phase>>
           /\ UNCHANGED loopVars
  <2>1. \A t \in attached : state'[t] = state[t]
    BY <1>3 DEF TypeOK
  <2>2. QED BY <1>1, <1>3, <2>1, QuietOrders DEF loopVars
<1>4. QED BY <1>2, <1>3 DEF Acquire

LEMMA ReleaseOrders ==
    ASSUME TypeOK, TypeOK', Consistent, phase' # "aborted" => Consistent',
           OrderParts, NEW s \in Sets, NEW n \in ReqIds, Release(s, n)
    PROVE  phase' # "aborted" => OrderParts'
<1>1. phase = "idle" /\ UNCHANGED <<profile, attached, grant>>
  BY DEF Release
<1>2. CASE s \in attached /\ Request(s, "release", n)
  <2>1. attached' = attached \cup {s}
    BY <1>1, <1>2
  <2>2. QED BY <1>1, <1>2, <2>1, RequestOrders
<1>3. CASE /\ UNCHANGED <<state, request, stamp, nextStamp, lists, owner>>
           /\ UNCHANGED <<awaiting, phase, loopVars>>
  BY <1>1, <1>3, QuietOrders DEF loopVars
<1>4. CASE /\ s \notin attached
           /\ state' = [state EXCEPT ![s] = "release"]
           /\ UNCHANGED <<stamp, lists, owner, phase, loopVars>>
  <2>1. \A t \in attached : state'[t] = state[t]
    BY <1>4 DEF TypeOK
  <2>2. QED BY <1>1, <1>4, <2>1, QuietOrders DEF loopVars
<1>5. QED BY <1>2, <1>3, <1>4 DEF Release

LEMMA StartDestroyOrders ==
    ASSUME TypeOK, TypeOK', Consistent, phase' # "aborted" => Consistent',
           OrderParts, phase \in {"idle", "next"}, NEW s \in Sets, StartDestroy(s)
    PROVE  phase' # "aborted" => OrderParts'
<1>1. UNCHANGED <<profile, attached, grant>>
  BY DEF StartDestroy
<1>2. CASE MustRelease(s) /\ Request(s, "release", InvalidReqno)
  <2>1. attached' = attached \cup {s}
    BY <1>1, <1>2 DEF MustRelease
  <2>2. QED BY <1>1, <1>2, <2>1, RequestOrders
<1>3. CASE /\ phase' = "free"
           /\ UNCHANGED <<state, request, stamp, nextStamp, lists, owner>>
           /\ UNCHANGED <<awaiting, loopVars>>
  BY <1>1, <1>3, QuietOrders DEF loopVars
<1>4. QED BY <1>2, <1>3 DEF StartDestroy

LEMMA FreeSetOrders ==
    ASSUME TInv, TypeOK', Consistent, Consistent', OrderParts, DyingInv, FreeSet
    PROVE  OrderParts'
<1>0. PICK s : s = dying
  OBVIOUS
<1>1. phase = "free" /\ phase' \in {"next", "idle"} /\ s \in Sets /\ TypeOK
  BY <1>0 DEF FreeSet, TInv, TypeOK, DeathInv
<1>2. /\ attached' = attached \ {s}
      /\ \A t \in Sets : t # s => /\ profile'[t] = profile[t]
                                  /\ state'[t] = state[t]
                                  /\ grant'[t] = grant[t]
                                  /\ stamp'[t] = stamp[t]
      /\ grant'[s] = {}
      /\ stamp'[s] = 0
      /\ UNCHANGED <<owner, loopVars>>
  BY <1>0, <1>1 DEF FreeSet, TypeOK
<1>3. /\ todo = {} /\ events = <<>> /\ todo' = {} /\ events' = <<>>
      /\ attached \subseteq Sets
  BY <1>1, <1>2 DEF Consistent, LoopInv, loopVars, TypeOK
<1>4. ASSUME NEW z \in Zones, NEW c \in Classes, NEW t, NEW u,
             Precedes(lists'[z][c], t, u)
      PROVE  /\ Precedes(lists[z][c], t, u)
             /\ t \in Sets \ {s} /\ u \in Sets \ {s}
  <2>1. lists'[z][c] = Unlink(lists[z][c], s)
    BY <1>0, <1>4 DEF FreeSet, ListsWithout
  <2>2. lists[z][c] \in Seq(Sets)
    BY <1>1 DEF TypeOK
  <2>3. Precedes(lists[z][c], t, u)
    BY <1>4, <2>1, <2>2, UnlinkOrder
  <2>4. Has(lists'[z][c], t) /\ Has(lists'[z][c], u)
    BY <1>4 DEF Precedes, Has
  <2>5. t \in Sets /\ u \in Sets
    BY <2>2, <2>3 DEF Precedes
  <2>6. ~Has(lists'[z][c], s)
    BY <1>1, <1>2 DEF Consistent, Linked
  <2>7. QED BY <2>3, <2>4, <2>5, <2>6
<1>5. ListsInv'
  <2>1. StampMax \in Nat \ {0}
    BY ConfigAssumption
  <2>2. Stamps(stamp')
    BY <1>2, <2>1 DEF OrderParts, ListsInv, Stamps
  <2>3. \A t \in Sets \ {s} : LevelOf'[t] = LevelOf[t]
    BY <1>2 DEF LevelOf, Level
  <2>4. ASSUME NEW z \in Zones, NEW c \in Classes, NEW t, NEW u,
               Precedes(lists'[z][c], t, u)
        PROVE  LevelOf'[t] <= LevelOf'[u]
    <3>1. /\ Precedes(lists[z][c], t, u)
          /\ t \in Sets \ {s} /\ u \in Sets \ {s}
      BY <1>4, <2>4
    <3>2. LevelOf[t] <= LevelOf[u]
      BY <3>1 DEF OrderParts, ListsInv, SortedBy
    <3>3. QED BY <2>3, <3>1, <3>2
  <2>5. QED BY <2>2, <2>4 DEF ListsInv, SortedBy
<1>6. AskedInv'
  <2>1. \A t \in Sets \ {s} : grant'[t] \subseteq profile'[t].all
    BY <1>2 DEF OrderParts, AskedInv
  <2>2. QED BY <1>2, <2>1 DEF AskedInv
<1>7. ScanInv'
  BY <1>1, <1>3 DEF ScanInv
<1>8. ASSUME NEW z \in Zones
      PROVE  ZoneRight(z)'
  <2>1. ZoneRight(z)
    BY DEF OrderParts
  <2>2. Done(z)' = Done(z) \ {s} /\ Done(z) \subseteq attached
    BY <1>2, <1>3 DEF Done
  <2>3. s \in Done(z) => grant[s] = {}
    BY <1>0, <1>1, <1>3, <2>2 DEF Consistent, WholeInv, DyingInv
  <2>4. \A t \in Done(z)' : /\ t \in attached /\ t \in attached'
                             /\ profile[t].zone = z
                             /\ profile'[t] = profile[t]
                             /\ state'[t] = state[t]
                             /\ grant'[t] = grant[t]
    BY <1>2, <1>3, <2>2 DEF Done
  <2>5. \A t, u \in Done(z)' : t # u => (Ahead(u, t)' <=> Ahead(u, t))
    <3> SUFFICES ASSUME NEW t \in Done(z)', NEW u \in Done(z)', t # u
                 PROVE  Ahead(u, t)' <=> Ahead(u, t)
      OBVIOUS
    <3>1. \A y \in Zones, c \in Classes :
            /\ Precedes(lists'[y][c], t, u) => Precedes(lists[y][c], t, u)
            /\ Precedes(lists'[y][c], u, t) => Precedes(lists[y][c], u, t)
      BY <1>4
    <3>2. profile[t].zone = profile[u].zone
      BY <2>4
    <3>3. Linked /\ Linked'
      BY DEF Consistent
    <3>4. QED BY <1>1, <2>4, <3>1, <3>2, <3>3, AheadKept
  <2>6. owner'[z] = owner[z]
    BY <1>2
  <2>7. QED BY <1>1, <2>1, <2>2, <2>3, <2>4, <2>5, <2>6, HoldersAcquire, ZoneFrame
<1>9. QED BY <1>5, <1>6, <1>7, <1>8 DEF OrderParts

LEMMA DestroyNextOrders ==
    ASSUME TypeOK, TypeOK', DeathInv, Consistent, phase' # "aborted" => Consistent',
           OrderParts, DestroyNext
    PROVE  phase' # "aborted" => OrderParts'
<1>1. phase = "next" /\ leaving \in Clients /\ clientSets[leaving] # <<>>
  BY DEF DestroyNext, DeathInv, TypeOK
<1>2. Head(clientSets[leaving]) \in Sets
  BY <1>1, HeadIsLive DEF Live
<1>3. QED BY <1>1, <1>2, StartDestroyOrders DEF DestroyNext

LEMMA FinishUpdateOrders ==
    ASSUME TypeOK, Consistent, OrderParts, FinishUpdate
    PROVE  OrderParts'
<1>1. /\ phase = "notify" /\ phase' \in {"free", "idle"}
      /\ UNCHANGED <<profile, attached, state, grant, lists, owner, stamp>>
      /\ UNCHANGED <<todo, events>>
  BY DEF FinishUpdate, requestVars, grantVars
<1>2. QED BY <1>1, QuietOrders

LEMMA DeliverOrders ==
    ASSUME TypeOK, TypeOK', Consistent, Consistent', OrderParts, Deliver
    PROVE  OrderParts'
<1> DEFINE E == [set : Sets, replyid : Reqno, shuffle : BOOLEAN]
<1>1. /\ phase = "notify" /\ events # <<>> /\ events' = Tail(events)
      /\ UNCHANGED <<profile, attached, state, grant, owner, stamp, phase, todo>>
  BY DEF Deliver, requestVars, grantVars
<1>2. PICK e : e = Head(events)
  OBVIOUS
<1>3. todo = {} /\ attached \subseteq Sets
  BY <1>1 DEF Consistent, LoopInv, TypeOK
<1>4. events \in Seq(E)
  BY DEF TypeOK, Reqno
<1>5. /\ 1 \in DOMAIN events /\ e = events[1]
      /\ \A i \in DOMAIN events' : i + 1 \in DOMAIN events /\ events'[i] = events[i + 1]
  <2> HIDE DEF E
  <2>1. QED BY <1>1, <1>2, <1>4
<1>6. e.set \in attached /\ e.set \in Sets
  BY <1>3, <1>5 DEF Consistent, LoopInv
<1>7. AskedInv'
  BY <1>1 DEF OrderParts, AskedInv
<1>8. ScanInv'
  <2>1. \A i \in DOMAIN events' :
          events'[i].shuffle => state[events'[i].set] = "release"
    BY <1>5 DEF OrderParts, ScanInv
  <2>2. QED BY <1>1, <1>3, <2>1 DEF ScanInv
<1>9. CASE ~e.shuffle
  <2>1. lists' = lists
    BY <1>2, <1>9 DEF Deliver
  <2>2. ListsInv'
    BY <1>1, <2>1, LevelOfKept DEF OrderParts, ListsInv
  <2>3. ASSUME NEW z \in Zones
        PROVE  ZoneRight(z)'
    <3>1. ZoneRight(z)
      BY DEF OrderParts
    <3>2. Done(z)' = Done(z) /\ Done(z) \subseteq attached
      BY <1>1 DEF Done
    <3>3. \A s, t : Ahead(t, s)' <=> Ahead(t, s)
      BY <1>1, <2>1 DEF Ahead
    <3>4. QED BY <1>1, <3>1, <3>2, <3>3, HoldersAcquire, ZoneFrame
  <2>4. QED BY <1>7, <1>8, <2>2, <2>3 DEF OrderParts
<1>10. CASE e.shuffle
  <2>1. Move(e.set, state, stamp)
    BY <1>2, <1>10 DEF Deliver
  <2>2. state[e.set] = "release"
    BY <1>5, <1>10 DEF OrderParts, ScanInv
  <2>3. ListsInv'
    <3>1. ListsInv /\ Linked
      BY DEF OrderParts, Consistent
    <3>2. \A z \in Zones, c \in Classes : SortedBy(lists'[z][c], LevelOf)
      BY <1>6, <2>1, <3>1, MoveLevels DEF ListsInv
    <3>3. QED BY <1>1, <3>1, <3>2, LevelOfKept DEF ListsInv
  <2>4. ASSUME NEW z \in Zones
        PROVE  ZoneRight(z)'
    <3>1. ZoneRight(z)
      BY DEF OrderParts
    <3>2. Done(z)' = Done(z) /\ Done(z) \subseteq attached
      BY <1>1 DEF Done
    <3>3. \A t, u \in Done(z)' :
            t # u /\ state[t] = "acquire" /\ state[u] = "acquire" =>
              (Ahead(u, t)' <=> Ahead(u, t))
      <4> SUFFICES ASSUME NEW t \in Done(z)', NEW u \in Done(z)', t # u,
                          state[t] = "acquire", state[u] = "acquire"
                   PROVE  Ahead(u, t)' <=> Ahead(u, t)
        OBVIOUS
      <4>1. t # e.set /\ u # e.set
        BY <2>2
      <4>2. Linked /\ Linked'
        BY DEF Consistent
      <4>3. \A y \in Zones, c \in Classes :
              /\ Precedes(lists'[y][c], t, u) => Precedes(lists[y][c], t, u)
              /\ Precedes(lists'[y][c], u, t) => Precedes(lists[y][c], u, t)
        BY <1>6, <2>1, <4>1, <4>2, MoveSorts
      <4>4. /\ t \in attached /\ u \in attached
            /\ profile[t].zone = profile[u].zone
        BY <3>2 DEF Done
      <4>5. QED BY <1>1, <4>2, <4>3, <4>4, AheadKept
    <3>4. QED BY <1>1, <3>1, <3>2, <3>3, HoldersAcquire, ZoneFrame
  <2>5. QED BY <1>7, <1>8, <2>3, <2>4 DEF OrderParts
<1>11. QED BY <1>9, <1>10

LEMMA StoreState ==
    ASSUME TypeOK, NEW s \in Sets, NEW g, NEW a, NEW forced, Store(s, g, a, forced)
    PROVE  \A t \in Sets : state'[t] \in {state[t], "release"}
BY DEF Store, TypeOK

LEMMA DyingKept ==
    ASSUME TInv, TypeOK', Consistent, DyingInv, [Next]_vars, phase # "aborted"
    PROVE  phase' # "aborted" => DyingInv'
<1>1. None \notin Sets /\ attached \subseteq Sets /\ attached' \subseteq Sets /\ TypeOK
  BY ConfigAssumption DEF TypeOK, TInv
<1>2. ASSUME NEW s \in Sets, StartDestroy(s)
      PROVE  phase' # "aborted" => DyingInv'
  <2>1. dying' = s /\ attached' = attached
    BY <1>2 DEF StartDestroy
  <2>2. CASE MustRelease(s) /\ Request(s, "release", InvalidReqno)
    <3>1. state' = [state EXCEPT ![s] = "release"]
      BY <2>2 DEF Request
    <3>2. phase' \in {"scan", "aborted"}
      BY <2>2 DEF Request, BeginUpdate
    <3>3. QED BY <1>1, <2>1, <3>1, <3>2 DEF DyingInv, TypeOK
  <2>3. CASE ~MustRelease(s) /\ phase' = "free" /\ UNCHANGED state
    BY <2>1, <2>3 DEF DyingInv, MustRelease
  <2>4. QED BY <1>2, <2>2, <2>3 DEF StartDestroy
<1>3. ASSUME phase = "idle", dying' = dying
      PROVE  DyingInv'
  BY <1>1, <1>3 DEF DyingInv
<1>4. ASSUME NEW s \in Sets, Scan(s)
      PROVE  DyingInv'
  <2>1. phase = "scan" /\ phase' \in {"scan", "notify"}
        /\ UNCHANGED <<attached, dying>>
    BY <1>4 DEF Scan, requestVars, deathVars
  <2>2. PICK g, a \in SUBSET Resources, forced, ok \in BOOLEAN :
          ScanOutcome(s, g, a, forced, ok)
    BY <1>1, <1>4, ScanCases
  <2>3. Store(s, IF ok THEN g ELSE {}, a, forced)
    BY <2>2 DEF ScanOutcome
  <2>4. \A t \in Sets : state'[t] \in {state[t], "release"}
    BY <1>1, <2>3, StoreState
  <2>5. QED BY <1>1, <2>1, <2>4 DEF DyingInv
<1>5. CASE Operation
  <2>1. ASSUME NEW s \in Sets, NEW p \in Profiles, Create(s, p)
        PROVE  DyingInv'
    BY <1>3, <2>1 DEF Create, deathVars
  <2>2. ASSUME NEW s \in Sets, NEW n \in ReqIds,
               AddToClass(s, n) \/ Acquire(s, n) \/ Release(s, n)
        PROVE  DyingInv'
    BY <1>3, <2>2 DEF AddToClass, Acquire, Release, deathVars
  <2>3. ASSUME NEW s \in Sets, Destroy(s)
        PROVE  phase' # "aborted" => DyingInv'
    BY <1>2, <2>3 DEF Destroy
  <2>4. ASSUME NEW c \in Clients, ClientDestroy(c)
        PROVE  phase' # "aborted" => DyingInv'
    <3>1. Head(clientSets[c]) \in Sets
      BY <1>1, <2>4, HeadIsLive DEF ClientDestroy, Live
    <3>2. QED BY <1>2, <2>4, <3>1 DEF ClientDestroy
  <2>5. QED BY <1>5, <2>1, <2>2, <2>3, <2>4 DEF Operation
<1>6. CASE Deliver
  BY <1>6 DEF Deliver, DyingInv, requestVars, grantVars, deathVars
<1>7. CASE FinishUpdate
  <2>1. /\ phase = "notify"
        /\ phase' = IF dying # None THEN "free" ELSE "idle"
        /\ UNCHANGED <<attached, state, dying>>
    BY <1>7 DEF FinishUpdate, requestVars, grantVars, deathVars
  <2>2. QED BY <2>1 DEF DyingInv
<1>8. CASE FreeSet
  <2>1. dying' = None
    BY <1>8 DEF FreeSet
  <2>2. QED BY <1>1, <2>1 DEF DyingInv
<1>9. CASE DestroyNext
  <2>1. phase = "next" /\ leaving \in Clients /\ clientSets[leaving] # <<>>
    BY <1>9 DEF DestroyNext, DeathInv, TInv, TypeOK
  <2>2. Head(clientSets[leaving]) \in Sets
    BY <1>1, <2>1, HeadIsLive DEF Live
  <2>3. QED BY <1>2, <1>9, <2>2 DEF DestroyNext
<1>10. CASE Aborted
  BY <1>10 DEF Aborted
<1>11. CASE UNCHANGED vars
  BY <1>11 DEF vars, DyingInv
<1>12. QED BY <1>4, <1>5, <1>6, <1>7, <1>8, <1>9, <1>10, <1>11 DEF Next, Internal

-----------------------------------------------------------------------------
(* One iteration of the scan *)

LEMMA StoreReleases ==
    ASSUME TypeOK, NEW s \in Sets, NEW g, NEW a, NEW forced \in BOOLEAN,
           Store(s, g, a, forced)
    PROVE  /\ grant'[s] = IF forced THEN {} ELSE g
           /\ \A t \in Sets : t # s => /\ state'[t] = state[t]
                                       /\ grant'[t] = grant[t]
           /\ state'[s] = "acquire" => state[s] = "acquire" /\ ~forced
           /\ \/ events' = events
              \/ \E b \in BOOLEAN : /\ events' = Append(events, Event(s, b))
                                    /\ b => state'[s] = "release"
<1> DEFINE released == IF forced THEN state[s] # "release"
                       ELSE g = {} /\ grant[s] # {} /\ profile[s].autorelease
<1>1. profile[s].autorelease \in BOOLEAN
  BY ProfileAssumption DEF TypeOK, Profile
<1>2. released \in BOOLEAN
  BY <1>1
<1>3. state' = IF forced \/ released THEN [state EXCEPT ![s] = "release"] ELSE state
  BY DEF Store
<1>4. grant' = [grant EXCEPT ![s] = IF forced THEN {} ELSE g]
  BY DEF Store
<1>5. events' = events \/ events' = Append(events, Event(s, released))
  BY DEF Store
<1> HIDE DEF released
<1>6. state' \in [Sets -> {"no_request", "release", "acquire"}] =>
        (released => state'[s] = "release")
  BY <1>3 DEF TypeOK
<1>7. state' = [state EXCEPT ![s] = "release"] \/ state' = state
  BY <1>3
<1>8. released => state'[s] = "release"
  BY <1>3, <1>6, <1>7 DEF TypeOK
<1>9. \/ events' = events
      \/ \E b \in BOOLEAN : /\ events' = Append(events, Event(s, b))
                            /\ b => state'[s] = "release"
  BY <1>2, <1>5, <1>8
<1>10. QED BY <1>3, <1>4, <1>7, <1>9 DEF TypeOK

\* The scan of a set, whether it asks for anything or not.
Asked(s, refused, g, a, ok, forced) ==
    /\ Store(s, IF ok THEN g ELSE {}, a, forced)
    /\ owner' = [owner EXCEPT ![profile[s].zone] = OwnersAfter(s, g, ok)]
    /\ g \subseteq {r \in profile[s].all : MayGrant(s, r)}
    /\ ok => profile[s].mandatory \subseteq g
    /\ forced => \E r \in profile[s].all : owner[profile[s].zone][r].modal
    /\ state[s] = "acquire" =>
         /\ \A r \in profile[s].all \ refused : MayGrant(s, r) => r \in g
         /\ g \cap refused = {}
         /\ profile[s].mandatory \subseteq g => ok \/ HasVeto
         /\ \A r \in profile[s].all \ g :
              LET o == owner[profile[s].zone][r]
              IN  o.set # s /\ o.modal => forced

LEMMA AskCases ==
    ASSUME TypeOK, NEW s \in Sets, Scan(s)
    PROVE  \E refused \in SUBSET Managed, g, a \in SUBSET Resources,
              ok, forced \in BOOLEAN : Asked(s, refused, g, a, ok, forced)
<1> DEFINE z == profile[s].zone
<1>1. z \in Zones /\ profile[s].all \subseteq Resources
  BY ProfileType DEF TypeOK
<1>2. \A g : [owner EXCEPT ![z] = OwnersAfter(s, g, FALSE)] = owner
  BY <1>1 DEF OwnersAfter, TypeOK
<1>3. CASE state[s] = "acquire" /\ ScanAcquiring(s)
  <2>1. PICK refused, unadvised \in SUBSET (profile[s].all \cap Managed),
             veto \in (IF HasVeto THEN BOOLEAN ELSE {FALSE}) :
          LET g == {r \in profile[s].all \ refused : MayGrant(s, r)}
              ok == Satisfies(s, g) /\ ~veto
              forced == \E r \in profile[s].all \ g :
                          owner[z][r].set # s /\ owner[z][r].modal
          IN  /\ owner' = [owner EXCEPT ![z] = OwnersAfter(s, g, ok)]
              /\ \/ ok /\ Store(s, g, g, forced)
                 \/ ~ok /\ Store(s, {}, Advisable(s, unadvised), forced)
    BY <1>3 DEF ScanAcquiring
  <2>2. PICK g : g = {r \in profile[s].all \ refused : MayGrant(s, r)}
    OBVIOUS
  <2>3. PICK ok \in BOOLEAN : ok = (Satisfies(s, g) /\ ~veto)
    BY DEF Satisfies
  <2>4. PICK forced \in BOOLEAN :
          forced = (\E r \in profile[s].all \ g : owner[z][r].set # s /\ owner[z][r].modal)
    OBVIOUS
  <2>5. PICK a : a = IF ok THEN g ELSE Advisable(s, unadvised)
    OBVIOUS
  <2>6. /\ owner' = [owner EXCEPT ![z] = OwnersAfter(s, g, ok)]
        /\ \/ ok /\ Store(s, g, g, forced)
           \/ ~ok /\ Store(s, {}, Advisable(s, unadvised), forced)
    BY <2>1, <2>2, <2>3, <2>4
  <2>7. Store(s, IF ok THEN g ELSE {}, a, forced)
    BY <2>5, <2>6
  <2>8. ok => profile[s].mandatory \subseteq g
    BY <2>3 DEF Satisfies
  <2>9. profile[s].mandatory \subseteq g => ok \/ HasVeto
    BY <2>3, <2>1 DEF Satisfies
  <2>10. Asked(s, refused, g, a, ok, forced)
    BY <2>2, <2>4, <2>6, <2>7, <2>8, <2>9 DEF Asked
  <2>11. g \in SUBSET Resources /\ a \in SUBSET Resources /\ refused \in SUBSET Managed
    BY <1>1, <2>2, <2>5, AdvisableType
  <2>12. QED BY <2>10, <2>11
<1>4. ASSUME state[s] # "acquire", owner' = owner,
             NEW a \in SUBSET Resources, Store(s, {}, a, FALSE)
      PROVE  Asked(s, {}, {}, a, FALSE, FALSE)
  BY <1>2, <1>4 DEF Asked
<1>5. CASE state[s] = "release" /\ ScanReleased(s)
  <2>1. PICK unadvised : owner' = owner /\ Store(s, {}, Advisable(s, unadvised), FALSE)
    BY <1>5 DEF ScanReleased
  <2>2. Asked(s, {}, {}, Advisable(s, unadvised), FALSE, FALSE)
    BY <1>4, <1>5, <2>1, AdvisableType
  <2>3. QED BY <2>2, AdvisableType
<1>6. CASE state[s] = "no_request" /\ owner' = owner /\ Store(s, {}, {}, FALSE)
  <2>1. Asked(s, {}, {}, {}, FALSE, FALSE)
    BY <1>4, <1>6
  <2>2. QED BY <2>1
<1>7. QED BY <1>3, <1>5, <1>6 DEF Scan

\* The same, from the zone's point of view: the scan is done with one more set,
\* which comes after all it is done with.
ScanStep(s, z, refused, g, ok, forced) ==
    /\ z \in Zones /\ profile[s].zone = z /\ s \in attached /\ s \notin Done(z)
    /\ UNCHANGED <<profile, attached, lists, stamp>>
    /\ Done(z)' = Done(z) \cup {s}
    /\ \A t \in Done(z) : /\ t \in attached
                          /\ Ahead(t, s) /\ ~Ahead(s, t)
                          /\ state'[t] = state[t]
                          /\ grant'[t] = grant[t]
    /\ grant'[s] = IF ok /\ ~forced THEN g ELSE {}
    /\ state'[s] = "acquire" => state[s] = "acquire" /\ ~forced
    /\ g \subseteq profile[s].all
    /\ profile[s].all \subseteq Resources
    /\ ok => profile[s].mandatory \subseteq g
    /\ forced => \E r \in Resources : owner[z][r].modal
    /\ \A r \in g : /\ ~owner[z][r].modal
                    /\ \/ owner[z][r].set = None
                       \/ r \in Shareable /\ owner[z][r].share
    /\ \A r \in Resources :
         IF ok /\ r \in g
         THEN /\ owner'[z][r].set = IF owner[z][r].set = None THEN s ELSE owner[z][r].set
              /\ owner'[z][r].modal <=> /\ owner[z][r].set = None
                                        /\ profile[s].class \in Modal
              /\ owner'[z][r].share <=> Willing(s, r)
         ELSE owner'[z][r] = owner[z][r]
    /\ state[s] = "acquire" =>
         /\ \A r \in profile[s].all \ refused :
              (/\ ~owner[z][r].modal
               /\ \/ owner[z][r].set = None
                  \/ r \in Shareable /\ owner[z][r].share) => r \in g
         /\ g \cap refused = {}
         /\ profile[s].mandatory \subseteq g => ok \/ HasVeto
         /\ \A r \in profile[s].all \ g : owner[z][r].modal => forced

LEMMA ScanSteps ==
    ASSUME TypeOK, Consistent, OrderParts, NEW s \in Sets, NEW refused, NEW g, NEW a,
           NEW ok \in BOOLEAN, NEW forced \in BOOLEAN, NEW z, z = profile[s].zone,
           Scan(s), Asked(s, refused, g, a, ok, forced)
    PROVE  ScanStep(s, z, refused, g, ok, forced)
<1>1. /\ phase = "scan" /\ s \in todo
      /\ \A t \in todo \ {s} : Ahead(s, t)
      /\ todo' = todo \ {s}
      /\ UNCHANGED <<profile, attached, lists, stamp>>
  BY DEF Scan, requestVars
<1>2. /\ z \in Zones /\ profile[s].all \subseteq Resources
      /\ s \in attached /\ attached \subseteq Sets
  BY <1>1, ProfileType DEF TypeOK, Consistent, LoopInv
<1>3. s \notin Done(z) /\ Done(z)' = Done(z) \cup {s}
  BY <1>1, <1>2 DEF Done
<1>4. Store(s, IF ok THEN g ELSE {}, a, forced)
  BY DEF Asked
<1>5. /\ grant'[s] = IF forced THEN {} ELSE IF ok THEN g ELSE {}
      /\ \A t \in Sets : t # s => state'[t] = state[t] /\ grant'[t] = grant[t]
      /\ state'[s] = "acquire" => state[s] = "acquire" /\ ~forced
  BY <1>4, StoreReleases
<1>6. \A t \in Done(z) : /\ t \in attached /\ t # s
                         /\ Ahead(t, s) /\ ~Ahead(s, t)
  <2> SUFFICES ASSUME NEW t \in Done(z)
               PROVE  t \in attached /\ t # s /\ Ahead(t, s) /\ ~Ahead(s, t)
    OBVIOUS
  <2>1. t \in attached \ todo /\ profile[t].zone = z /\ t # s
    BY <1>3 DEF Done
  <2>2. Ahead(t, s)
    BY <1>1, <2>1 DEF OrderParts, ScanInv
  <2>3. Linked
    BY DEF Consistent
  <2>4. ~Ahead(s, t)
    BY <1>2, <2>1, <2>2, <2>3, AheadStrict
  <2>5. QED BY <2>1, <2>2, <2>4
<1>7. /\ owner'[z] = OwnersAfter(s, g, ok)
  BY <1>2 DEF Asked, TypeOK
<1>8. \A r \in Resources : owner[z][r].set # s
  <2>1. update.zone = z
    BY <1>1 DEF OrderParts, ScanInv
  <2>2. s # None
    BY ConfigAssumption
  <2>3. QED BY <1>1, <1>3, <2>1, <2>2 DEF OrderParts, ScanInv
<1>9. \A r \in Resources : owner[z][r] \in Owner
  BY <1>2 DEF TypeOK
<1>10. g \subseteq profile[s].all /\ \A r \in g : MayGrant(s, r)
  BY DEF Asked
<1>11. \A r \in g : /\ ~owner[z][r].modal
                    /\ \/ owner[z][r].set = None
                       \/ r \in Shareable /\ owner[z][r].share
  BY <1>2, <1>8, <1>10 DEF MayGrant
<1>12. ASSUME NEW r \in Resources
       PROVE  IF ok /\ r \in g
              THEN /\ owner'[z][r].set = IF owner[z][r].set = None THEN s
                                         ELSE owner[z][r].set
                   /\ owner'[z][r].modal <=> /\ owner[z][r].set = None
                                             /\ profile[s].class \in Modal
                   /\ owner'[z][r].share <=> Willing(s, r)
              ELSE owner'[z][r] = owner[z][r]
  <2>1. owner'[z][r] = IF ok /\ r \in g THEN Granted(s, r) ELSE owner[z][r]
    BY <1>7 DEF OwnersAfter
  <2>2. CASE ~(ok /\ r \in g)
    BY <2>1, <2>2
  <2>3. CASE ok /\ r \in g
    <3>1. owner'[z][r] = Granted(s, r) /\ ~owner[z][r].modal
      BY <1>11, <2>1, <2>3
    <3>2. CASE owner[z][r].set = None
      <4>1. PICK m \in BOOLEAN : m <=> profile[s].class \in Modal
        OBVIOUS
      <4>2. PICK w \in BOOLEAN : w <=> Willing(s, r)
        OBVIOUS
      <4>3. owner'[z][r] = [set |-> s, class |-> profile[s].class,
                            modal |-> m, share |-> w]
        BY <3>1, <3>2, <4>1, <4>2 DEF Granted, Willing
      <4>4. owner'[z][r].set = s /\ owner'[z][r].modal = m /\ owner'[z][r].share = w
        BY <4>3
      <4>5. QED BY <2>3, <3>2, <4>1, <4>2, <4>4
    <3>3. CASE owner[z][r].set # None
      <4>1. owner'[z][r] = [owner[z][r] EXCEPT !.share = Willing(s, r)]
        BY <3>1, <3>3 DEF Granted, Willing
      <4>2. QED BY <1>9, <2>3, <3>1, <3>3, <4>1 DEF Owner
    <3>4. QED BY <3>2, <3>3
  <2>4. QED BY <2>2, <2>3
<1>13. forced => \E r \in Resources : owner[z][r].modal
  BY <1>2 DEF Asked
<1>14. ASSUME state[s] = "acquire"
       PROVE  /\ \A r \in profile[s].all \ refused :
                   (/\ ~owner[z][r].modal
                    /\ \/ owner[z][r].set = None
                       \/ r \in Shareable /\ owner[z][r].share) => r \in g
              /\ g \cap refused = {}
              /\ profile[s].mandatory \subseteq g => ok \/ HasVeto
              /\ \A r \in profile[s].all \ g : owner[z][r].modal => forced
  <2>1. /\ \A r \in profile[s].all \ refused : MayGrant(s, r) => r \in g
        /\ g \cap refused = {}
        /\ profile[s].mandatory \subseteq g => ok \/ HasVeto
        /\ \A r \in profile[s].all \ g :
             owner[z][r].set # s /\ owner[z][r].modal => forced
    BY <1>14 DEF Asked
  <2>2. \A r \in profile[s].all : owner[z][r].set # s
    BY <1>2, <1>8
  <2>3. QED BY <2>1, <2>2 DEF MayGrant
<1>15. ok => profile[s].mandatory \subseteq g
  BY DEF Asked
<1>16. \A t \in Done(z) : /\ t \in attached
                          /\ Ahead(t, s) /\ ~Ahead(s, t)
                          /\ state'[t] = state[t]
                          /\ grant'[t] = grant[t]
  BY <1>2, <1>5, <1>6
<1>17. QED BY <1>1, <1>2, <1>3, <1>5, <1>10, <1>11, <1>12, <1>13, <1>14, <1>15, <1>16
     DEF ScanStep

\* Who holds what once the scan is done with s.
LEMMA ScanHolders ==
    ASSUME NEW s, NEW z, NEW refused, NEW g, NEW ok, NEW forced,
           ScanStep(s, z, refused, g, ok, forced)
    PROVE  /\ \A r : DoneHolders(z, r)' =
                IF r \in grant'[s] THEN DoneHolders(z, r) \cup {s}
                ELSE DoneHolders(z, r)
           /\ \A r : \A t \in DoneHolders(z, r) : t \in Done(z) /\ t # s
           /\ \A t, r : Willing(t, r)' <=> Willing(t, r)
           /\ ModalDone(z) => ModalDone(z)'
           /\ grant'[s] # {} /\ profile[s].class \in Modal => ModalDone(z)'
<1>1. ASSUME NEW r
      PROVE  DoneHolders(z, r)' = IF r \in grant'[s] THEN DoneHolders(z, r) \cup {s}
                                  ELSE DoneHolders(z, r)
  <2>1. DoneHolders(z, r)' = {t \in Done(z)' : r \in grant'[t]}
    BY DEF DoneHolders
  <2>2. /\ Done(z)' = Done(z) \cup {s}
        /\ \A t \in Done(z) : grant'[t] = grant[t]
    BY DEF ScanStep
  <2>3. QED BY <2>1, <2>2 DEF DoneHolders
<1>2. \A r : \A t \in DoneHolders(z, r) : t \in Done(z) /\ t # s
  BY DEF DoneHolders, ScanStep
<1>3. profile' = profile
  BY DEF ScanStep
<1>4. \A t, r : Willing(t, r)' <=> Willing(t, r)
  BY <1>3 DEF Willing
<1>5. ModalDone(z)' <=> \E r \in Resources : \E t \in DoneHolders(z, r)' :
                          profile[t].class \in Modal
  BY <1>3 DEF ModalDone
<1>6. ModalDone(z) => ModalDone(z)'
  BY <1>1, <1>5 DEF ModalDone
<1>7. grant'[s] # {} /\ profile[s].class \in Modal => ModalDone(z)'
  <2>1. grant'[s] \subseteq Resources
    BY DEF ScanStep
  <2>2. QED BY <1>1, <1>5, <2>1
<1>8. QED BY <1>1, <1>2, <1>4, <1>6, <1>7

\* Wherever the scan goes, the owner records keep saying who holds what.  What a
\* set takes and loses again for meeting a modal owner stays in the records, but
\* then a modal set holds something.
LEMMA ScanRecords ==
    ASSUME TypeOK, NEW s \in Sets, NEW z, NEW refused, NEW g,
           NEW ok \in BOOLEAN, NEW forced \in BOOLEAN,
           ScanStep(s, z, refused, g, ok, forced), RecordsRight(z),
           \A r \in Resources :
             owner[z][r].set # None /\ owner[z][r].share =>
               \E u \in Done(z) : profile[u].class \in ClassShare
    PROVE  RecordsRight(z)'
<1>0. s # None /\ Modal \cap ClassShare = {}
  BY ConfigAssumption
<1>1. /\ \A r : DoneHolders(z, r)' =
           IF r \in grant'[s] THEN DoneHolders(z, r) \cup {s} ELSE DoneHolders(z, r)
      /\ \A r : \A t \in DoneHolders(z, r) : t \in Done(z) /\ t # s
      /\ \A t, r : Willing(t, r)' <=> Willing(t, r)
      /\ ModalDone(z) => ModalDone(z)'
      /\ grant'[s] # {} /\ profile[s].class \in Modal => ModalDone(z)'
  BY ScanHolders
<1>2. forced => ModalDone(z)'
  BY <1>1 DEF ScanStep, RecordsRight
<1>3. grant'[s] = (IF ok /\ ~forced THEN g ELSE {}) /\ profile' = profile
  BY DEF ScanStep
<1> SUFFICES ASSUME NEW r \in Resources
             PROVE  (/\ owner[z][r].modal => ModalDone(z)
                     /\ owner[z][r].set # None =>
                          owner[z][r].set \in DoneHolders(z, r) \/ ModalDone(z)
                     /\ owner[z][r].set # None /\ ~owner[z][r].share =>
                          (\E t \in DoneHolders(z, r) : ~Willing(t, r)) \/ ModalDone(z)
                     /\ \A t \in DoneHolders(z, r) :
                          /\ owner[z][r].set # None
                          /\ owner[z][r].share => Willing(t, r)
                          /\ profile[t].class \in Modal /\ Alone(profile[t].class, r) =>
                               owner[z][r].modal)'
  BY DEF RecordsRight
<1> DEFINE o == owner[z][r]
           n == owner'[z][r]
<1>4. /\ o.modal => ModalDone(z)
      /\ o.set # None => o.set \in DoneHolders(z, r) \/ ModalDone(z)
      /\ o.set # None /\ ~o.share =>
           (\E t \in DoneHolders(z, r) : ~Willing(t, r)) \/ ModalDone(z)
      /\ \A t \in DoneHolders(z, r) :
           /\ o.set # None
           /\ o.share => Willing(t, r)
           /\ profile[t].class \in Modal /\ Alone(profile[t].class, r) => o.modal
  BY DEF RecordsRight
<1>5. CASE ~(ok /\ r \in g)
  <2>1. n = o /\ DoneHolders(z, r)' = DoneHolders(z, r)
    BY <1>1, <1>3, <1>5 DEF ScanStep
  <2>2. \A t \in DoneHolders(z, r)' :
          /\ n.set # None
          /\ n.share => Willing(t, r)'
          /\ profile'[t].class \in Modal /\ Alone(profile'[t].class, r) => n.modal
    BY <1>1, <1>3, <1>4, <2>1
  <2>3. \/ \E t \in DoneHolders(z, r)' : ~Willing(t, r)'
        \/ ~\E t \in DoneHolders(z, r) : ~Willing(t, r)
    BY <1>1, <2>1
  <2>4. QED BY <1>1, <1>4, <2>1, <2>2, <2>3 DEF Alone
<1>6. CASE ok /\ r \in g
  <2>1. /\ n.set = IF o.set = None THEN s ELSE o.set
        /\ n.modal <=> o.set = None /\ profile[s].class \in Modal
        /\ n.share <=> Willing(s, r)
        /\ ~o.modal
        /\ o.set = None \/ (r \in Shareable /\ o.share)
    BY <1>6 DEF ScanStep
  <2>2. forced \/ DoneHolders(z, r)' = DoneHolders(z, r) \cup {s}
    BY <1>1, <1>3, <1>6
  <2>3. n.modal => ModalDone(z)'
    BY <1>1, <1>2, <1>3, <1>6, <2>1
  <2>4. n.set # None => n.set \in DoneHolders(z, r)' \/ ModalDone(z)'
    BY <1>1, <1>2, <1>4, <2>1, <2>2
  <2>5. n.set # None /\ ~n.share =>
          (\E t \in DoneHolders(z, r)' : ~Willing(t, r)') \/ ModalDone(z)'
    BY <1>1, <1>2, <2>1, <2>2
  <2>6. n.set # None
    BY <1>0, <2>1
  <2>7. ASSUME NEW t \in DoneHolders(z, r)
        PROVE  /\ n.share => Willing(t, r)'
               /\ profile[t].class \in Modal /\ Alone(profile[t].class, r) => n.modal
    BY <1>1, <1>4, <2>1
  <2>8. profile[s].class \in Modal /\ Alone(profile[s].class, r) => n.modal
    <3> SUFFICES ASSUME profile[s].class \in Modal, Alone(profile[s].class, r), ~n.modal
                 PROVE  FALSE
      OBVIOUS
    <3>1. o.set # None /\ r \in Shareable /\ o.share
      BY <2>1
    <3>2. PICK u \in Done(z) : profile[u].class \in ClassShare
      BY <3>1
    <3>3. Ahead(u, s) /\ profile[u].class # profile[s].class /\ u \in Sets
      BY <1>0, <3>2 DEF ScanStep, TypeOK
    <3>4. ClassRank(profile[u].class) > ClassRank(profile[s].class)
      BY <3>3 DEF Ahead
    <3>5. ClassRank(profile[u].class) < ClassRank(profile[s].class)
      BY <3>1, <3>2 DEF Alone
    <3>6. ClassRank(profile[u].class) \in Nat /\ ClassRank(profile[s].class) \in Nat
      BY <3>3, ProfileType, RankType DEF TypeOK
    <3>7. QED BY <3>4, <3>5, <3>6
  <2>9. \A t \in DoneHolders(z, r)' :
          /\ n.set # None
          /\ n.share => Willing(t, r)'
          /\ profile'[t].class \in Modal /\ Alone(profile'[t].class, r) => n.modal
    BY <1>1, <1>3, <2>1, <2>6, <2>7, <2>8
  <2>10. QED BY <2>3, <2>4, <2>5, <2>9 DEF Alone
<1>7. QED BY <1>5, <1>6

\* The set gets what it can reach, and nothing changes for those ahead of it.
LEMMA ScanGrants ==
    ASSUME TypeOK, NEW s \in Sets, NEW z, NEW refused \in SUBSET Managed, NEW g,
           NEW ok \in BOOLEAN, NEW forced \in BOOLEAN,
           ScanStep(s, z, refused, g, ok, forced), RecordsRight(z), GrantsRight(z)
    PROVE  GrantsRight(z)'
<1>1. /\ \A r : DoneHolders(z, r)' =
           IF r \in grant'[s] THEN DoneHolders(z, r) \cup {s} ELSE DoneHolders(z, r)
      /\ \A r : \A t \in DoneHolders(z, r) : t \in Done(z) /\ t # s
      /\ \A t, r : Willing(t, r)' <=> Willing(t, r)
      /\ ModalDone(z) => ModalDone(z)'
  BY ScanHolders
<1>2. /\ UNCHANGED <<profile, lists>>
      /\ Done(z)' = Done(z) \cup {s}
      /\ profile[s].zone = z
  BY DEF ScanStep
<1>3. \A t, u : Ahead(t, u)' <=> Ahead(t, u)
  BY <1>2 DEF Ahead
<1>4. \A t \in Done(z) : /\ profile[t].zone = z /\ t # s
                         /\ Ahead(t, s) /\ ~Ahead(s, t)
                         /\ state'[t] = state[t] /\ grant'[t] = grant[t]
  BY DEF ScanStep, Done
<1>5. ASSUME NEW t, profile[t].zone = z
      PROVE  Reach(t)' = {r \in profile[t].all :
                            \A u \in DoneHolders(z, r)' \ {t} :
                              Ahead(u, t) => r \in Shareable /\ Willing(u, r)}
  <2>1. Reach(t)' = {r \in profile'[t].all :
                       \A u \in {x \in {y \in attached' \ todo' :
                                         profile'[y].zone = profile'[t].zone} :
                                  r \in grant'[x]} \ {t} :
                         Ahead(u, t)' => r \in Shareable /\ Willing(u, r)'}
    BY DEF Reach, DoneHolders, Done
  <2>2. \A r : DoneHolders(z, r)' = {x \in {y \in attached' \ todo' :
                                             profile'[y].zone = z} : r \in grant'[x]}
    BY DEF DoneHolders, Done
  <2>3. profile'[t] = profile[t]
    BY <1>2
  <2>4. Reach(t)' = {r \in profile[t].all :
                       \A u \in DoneHolders(z, r)' \ {t} :
                         Ahead(u, t)' => r \in Shareable /\ Willing(u, r)'}
    BY <1>5, <2>1, <2>2, <2>3
  <2>5. QED BY <1>1, <1>3, <2>4
<1>6. ASSUME NEW t \in Done(z)
      PROVE  Reach(t)' = Reach(t)
  <2>1. Reach(t) = {r \in profile[t].all :
                      \A u \in DoneHolders(z, r) \ {t} :
                        Ahead(u, t) => r \in Shareable /\ Willing(u, r)}
    BY <1>4 DEF Reach
  <2>2. \A r : \A u \in DoneHolders(z, r)' : u \in DoneHolders(z, r) \/ u = s
    BY <1>1
  <2>3. \A r : DoneHolders(z, r) \subseteq DoneHolders(z, r)'
    BY <1>1
  <2>4. ~Ahead(s, t)
    BY <1>4
  <2>5. Reach(t)' = {r \in profile[t].all :
                       \A u \in DoneHolders(z, r)' \ {t} :
                         Ahead(u, t) => r \in Shareable /\ Willing(u, r)}
    BY <1>4, <1>5
  <2>6. QED BY <2>1, <2>2, <2>3, <2>4, <2>5
<1>7. Reach(s)' = {r \in profile[s].all :
                     \A u \in DoneHolders(z, r) : r \in Shareable /\ Willing(u, r)}
  <2>1. \A r : DoneHolders(z, r)' \ {s} = DoneHolders(z, r)
    BY <1>1
  <2>2. \A r : \A u \in DoneHolders(z, r) : Ahead(u, s)
    BY <1>1, <1>4
  <2>3. QED BY <1>2, <1>5, <2>1, <2>2
<1>8. ASSUME NEW t \in Done(z), state'[t] = "acquire"
      PROVE  /\ grant'[t] \subseteq Reach(t)'
             /\ \/ ModalDone(z)'
                \/ \E out \in SUBSET Managed : Allots(t, out)'
  <2>1. /\ grant[t] \subseteq Reach(t)
        /\ ModalDone(z) \/ \E out \in SUBSET Managed : Allots(t, out)
    BY <1>4, <1>8 DEF GrantsRight
  <2>2. \A out : Allots(t, out)' <=> Allots(t, out)
    BY <1>2, <1>4, <1>6 DEF Allots
  <2>3. QED BY <1>1, <1>4, <1>6, <2>1, <2>2
<1>9. ASSUME state'[s] = "acquire"
      PROVE  /\ grant'[s] \subseteq Reach(s)'
             /\ \/ ModalDone(z)'
                \/ \E out \in SUBSET Managed : Allots(s, out)'
  <2>1. /\ state[s] = "acquire" /\ ~forced
        /\ grant'[s] = IF ok THEN g ELSE {}
        /\ g \subseteq profile[s].all /\ profile[s].all \subseteq Resources
    BY <1>9 DEF ScanStep
  <2>2. g \subseteq Reach(s)'
    <3> SUFFICES ASSUME NEW r \in g, NEW t \in DoneHolders(z, r)
                 PROVE  r \in Shareable /\ Willing(t, r)
      BY <1>7, <2>1
    <3>1. owner[z][r].set # None /\ (owner[z][r].share => Willing(t, r))
      BY <2>1 DEF RecordsRight
    <3>2. r \in Shareable /\ owner[z][r].share
      BY <3>1 DEF ScanStep
    <3>3. QED BY <3>1, <3>2
  <2>3. ASSUME ~ModalDone(z)
        PROVE  Allots(s, refused)'
    <3>1. ASSUME NEW r \in Reach(s)', r \notin refused
          PROVE  r \in g
      <4>1. r \in profile[s].all \ refused /\ r \in Resources
        BY <1>7, <2>1, <3>1
      <4>2. \A t \in DoneHolders(z, r) : r \in Shareable /\ Willing(t, r)
        BY <1>7, <3>1
      <4>3. ~owner[z][r].modal
        BY <2>3, <4>1 DEF RecordsRight
      <4>4. owner[z][r].set # None => r \in Shareable /\ owner[z][r].share
        BY <2>3, <4>1, <4>2 DEF RecordsRight
      <4>5. QED BY <2>1, <4>1, <4>3, <4>4 DEF ScanStep
    <3>2. g = Reach(s)' \ refused
      BY <2>1, <2>2, <3>1 DEF ScanStep
    <3>3. /\ profile[s].mandatory \subseteq g => ok \/ HasVeto
          /\ ok => profile[s].mandatory \subseteq g
      BY <2>1 DEF ScanStep
    <3>4. IF profile'[s].mandatory \subseteq Reach(s)' \ refused
          THEN grant'[s] = Reach(s)' \ refused \/ (HasVeto /\ grant'[s] = {})
          ELSE grant'[s] = {}
      BY <1>2, <2>1, <3>2, <3>3
    <3>5. QED BY <3>4 DEF Allots
  <2>4. QED BY <1>1, <2>1, <2>2, <2>3
<1>10. QED BY <1>2, <1>8, <1>9 DEF GrantsRight

\* A set that wants what a modal set ahead of it holds is released.
LEMMA ScanSilences ==
    ASSUME TypeOK, NEW s \in Sets, NEW z, NEW refused, NEW g,
           NEW ok \in BOOLEAN, NEW forced \in BOOLEAN,
           ScanStep(s, z, refused, g, ok, forced), RecordsRight(z), Silenced(z)
    PROVE  Silenced(z)'
<1>1. /\ \A r : DoneHolders(z, r)' =
           IF r \in grant'[s] THEN DoneHolders(z, r) \cup {s} ELSE DoneHolders(z, r)
      /\ \A r : \A t \in DoneHolders(z, r) : t \in Done(z) /\ t # s
  BY ScanHolders
<1>2. /\ UNCHANGED <<profile, lists>>
      /\ Done(z)' = Done(z) \cup {s}
      /\ \A t \in Done(z) : ~Ahead(s, t) /\ state'[t] = state[t]
      /\ state'[s] = "acquire" => state[s] = "acquire" /\ ~forced
  BY DEF ScanStep
<1>3. \A t, u : Ahead(t, u)' <=> Ahead(t, u)
  BY <1>2 DEF Ahead
<1> SUFFICES ASSUME NEW r \in Resources, NEW t \in DoneHolders(z, r)',
                    NEW u \in Done(z)', u # t,
                    profile'[t].class \in Modal, Alone(profile'[t].class, r),
                    r \in profile'[u].all, Ahead(t, u)', state'[u] = "acquire"
             PROVE  FALSE
  BY DEF Silenced, Alone
<1>4. /\ profile[t].class \in Modal /\ Alone(profile[t].class, r)
      /\ r \in profile[u].all /\ Ahead(t, u)
  BY <1>2, <1>3
<1>5. t \in DoneHolders(z, r) \/ t = s
  BY <1>1
<1>6. u \in Done(z) \/ u = s
  BY <1>2
<1>7. CASE t = s
  BY <1>2, <1>4, <1>6, <1>7
<1>8. CASE t \in DoneHolders(z, r) /\ u \in Done(z)
  BY <1>2, <1>4, <1>8 DEF Silenced
<1>9. CASE t \in DoneHolders(z, r) /\ u = s
  <2>1. owner[z][r].modal
    BY <1>4, <1>9 DEF RecordsRight
  <2>2. state[s] = "acquire" /\ ~forced
    BY <1>2, <1>9
  <2>3. r \notin g
    BY <2>1 DEF ScanStep
  <2>4. forced
    BY <1>4, <1>9, <2>1, <2>2, <2>3 DEF ScanStep
  <2>5. QED BY <2>2, <2>4
<1>10. QED BY <1>5, <1>6, <1>7, <1>8, <1>9

LEMMA ScanOn ==
    ASSUME TypeOK, Consistent, OrderParts, NEW s \in Sets, NEW refused, NEW g, NEW a,
           NEW ok \in BOOLEAN, NEW forced \in BOOLEAN, NEW z, z = profile[s].zone,
           Scan(s), Asked(s, refused, g, a, ok, forced)
    PROVE  ScanInv'
<1>1. ScanStep(s, z, refused, g, ok, forced)
  BY ScanSteps
<1>2. /\ phase = "scan" /\ s \in todo
      /\ \A t \in todo \ {s} : Ahead(s, t)
      /\ todo' = todo \ {s}
      /\ UNCHANGED <<profile, attached, lists, update>>
  BY DEF Scan, requestVars
<1>3. \A t, u : Ahead(t, u)' <=> Ahead(t, u)
  BY <1>2 DEF Ahead
<1>4. ScanInv /\ update.zone = z
  BY <1>2 DEF OrderParts, ScanInv
<1>5. \A t \in todo' : profile'[t].zone = update'.zone
  BY <1>2, <1>4 DEF ScanInv
<1>6. ASSUME NEW t \in attached' \ todo', NEW u \in todo',
             profile'[t].zone = profile'[u].zone
      PROVE  Ahead(t, u)'
  <2>1. CASE t = s
    BY <1>2, <1>3, <2>1
  <2>2. CASE t # s
    BY <1>2, <1>3, <1>4, <1>6, <2>2 DEF ScanInv
  <2>3. QED BY <2>1, <2>2
<1>7. ASSUME NEW r \in Resources, owner'[z][r].set # None
      PROVE  /\ owner'[z][r].set \in Done(z)'
             /\ owner'[z][r].share =>
                  \E u \in Done(z)' : profile'[u].class \in ClassShare
  <2>1. owner[z][r].set # None =>
          /\ owner[z][r].set \in Done(z)
          /\ owner[z][r].share => \E u \in Done(z) : profile[u].class \in ClassShare
    BY <1>2, <1>4 DEF ScanInv
  <2>2. Done(z)' = Done(z) \cup {s} /\ profile' = profile
    BY <1>1 DEF ScanStep
  <2>3. CASE ~(ok /\ r \in g)
    <3>1. owner'[z][r] = owner[z][r]
      BY <1>1, <2>3 DEF ScanStep
    <3>2. QED BY <1>7, <2>1, <2>2, <3>1
  <2>4. CASE ok /\ r \in g
    <3>1. /\ owner'[z][r].set = IF owner[z][r].set = None THEN s ELSE owner[z][r].set
          /\ owner'[z][r].share <=> Willing(s, r)
      BY <1>1, <2>4 DEF ScanStep
    <3>2. QED BY <2>1, <2>2, <3>1 DEF Willing
  <2>5. QED BY <2>3, <2>4
<1>8. ASSUME NEW i \in DOMAIN events', events'[i].shuffle
      PROVE  state'[events'[i].set] = "release"
  <2>1. /\ \A t \in Sets : t # s => state'[t] = state[t]
        /\ state'[s] = "acquire" => state[s] = "acquire" /\ ~forced
        /\ \/ events' = events
           \/ \E b \in BOOLEAN : /\ events' = Append(events, Event(s, b))
                                 /\ b => state'[s] = "release"
    BY StoreReleases DEF Asked
  <2>2. \A t \in Sets : state'[t] \in {state[t], "release"}
    BY StoreState DEF Asked
  <2>3. \A j \in DOMAIN events : /\ events[j].shuffle => state[events[j].set] = "release"
                                 /\ events[j].set \in Sets
    BY <1>4 DEF ScanInv, Consistent, LoopInv, TypeOK
  <2>4. CASE i \in DOMAIN events /\ events'[i] = events[i]
    BY <1>8, <2>2, <2>3, <2>4
  <2>5. CASE ~(i \in DOMAIN events /\ events'[i] = events[i])
    <3>1. PICK b \in BOOLEAN : /\ events' = Append(events, Event(s, b))
                               /\ b => state'[s] = "release"
      BY <2>1, <2>5
    <3>2. PICK E : events \in Seq(E)
      BY DEF TypeOK
    <3>3. events'[i] = Event(s, b)
      <4>1. PICK e : e = Event(s, b)
        OBVIOUS
      <4>2. events' = Append(events, e)
        BY <3>1, <4>1
      <4>3. PICK F : F = E \cup {e}
        OBVIOUS
      <4>4. events \in Seq(F) /\ e \in F
        BY <3>2, <4>3
      <4>5. \/ i \in DOMAIN events /\ events'[i] = events[i]
            \/ events'[i] = e
        BY <1>8, <4>2, <4>4
      <4>6. QED BY <2>5, <4>1, <4>5
    <3>4. QED BY <1>8, <3>1, <3>3 DEF Event
  <2>6. QED BY <2>4, <2>5
<1>9. update'.zone = z
  BY <1>2, <1>4
<1>10. QED BY <1>5, <1>6, <1>7, <1>8, <1>9 DEF ScanInv

LEMMA ScanOrders ==
    ASSUME TypeOK, TypeOK', Consistent, OrderParts, NEW s \in Sets, Scan(s)
    PROVE  OrderParts'
<1>1. PICK refused \in SUBSET Managed, g, a \in SUBSET Resources,
           ok, forced \in BOOLEAN : Asked(s, refused, g, a, ok, forced)
  BY AskCases
<1>2. PICK z : z = profile[s].zone
  OBVIOUS
<1>3. ScanStep(s, z, refused, g, ok, forced)
  BY <1>1, <1>2, ScanSteps
<1>4. ScanInv'
  BY <1>1, <1>2, ScanOn
<1>5. /\ phase = "scan" /\ s \in todo /\ todo' = todo \ {s}
      /\ UNCHANGED <<profile, attached, lists, stamp, update>>
  BY DEF Scan, requestVars
<1>6. \A t \in Sets : t # s => state'[t] = state[t] /\ grant'[t] = grant[t]
  BY <1>1, StoreReleases DEF Asked
<1>7. ListsInv'
  BY <1>5, LevelOfKept DEF OrderParts, ListsInv
<1>8. AskedInv'
  <2>1. grant'[s] \subseteq profile[s].all
    BY <1>3 DEF ScanStep
  <2>2. QED BY <1>5, <1>6, <2>1 DEF OrderParts, AskedInv
<1>9. ZoneRight(z)'
  <2>1. RecordsRight(z) /\ GrantsRight(z) /\ Silenced(z)
    BY <1>3 DEF OrderParts, ZoneRight, ScanStep
  <2>2. \A r \in Resources :
          owner[z][r].set # None /\ owner[z][r].share =>
            \E u \in Done(z) : profile[u].class \in ClassShare
    <3>1. update.zone = z
      BY <1>2, <1>5 DEF OrderParts, ScanInv
    <3>2. QED BY <1>5, <3>1 DEF OrderParts, ScanInv
  <2>3. RecordsRight(z)'
    BY <1>3, <2>1, <2>2, ScanRecords
  <2>4. GrantsRight(z)'
    BY <1>3, <2>1, ScanGrants
  <2>5. Silenced(z)'
    BY <1>3, <2>1, ScanSilences
  <2>6. QED BY <2>3, <2>4, <2>5 DEF ZoneRight
<1>10. ASSUME NEW y \in Zones, y # z
       PROVE  ZoneRight(y)'
  <2>1. ZoneRight(y)
    BY DEF OrderParts
  <2>2. Done(y)' = Done(y) /\ Done(y) \subseteq attached /\ s \notin Done(y)
    BY <1>2, <1>5, <1>10 DEF Done
  <2>3. \A t, u : Ahead(t, u)' <=> Ahead(t, u)
    BY <1>5 DEF Ahead
  <2>4. owner'[y] = owner[y]
    BY <1>1, <1>2, <1>10 DEF Asked, TypeOK
  <2>5. attached \subseteq Sets
    BY DEF TypeOK
  <2>6. QED BY <1>5, <1>6, <2>1, <2>2, <2>3, <2>4, <2>5, HoldersAcquire, ZoneFrame
<1>11. QED BY <1>4, <1>7, <1>8, <1>9, <1>10 DEF OrderParts

-----------------------------------------------------------------------------
(* The invariant holds *)

LEMMA InitOrders == Init => OrderInv
<1> SUFFICES ASSUME Init PROVE OrderInv
  OBVIOUS
<1>1. GrantInv
  BY InitConsistent
<1>2. /\ attached = {} /\ todo = {} /\ events = <<>> /\ phase = "idle"
      /\ dying = None
      /\ stamp = [t \in Sets |-> 0]
      /\ grant = [t \in Sets |-> {}]
      /\ lists = [z \in Zones |-> [c \in Classes |-> <<>>]]
      /\ owner = [z \in Zones |-> [r \in Resources |-> ZeroOwner]]
  BY DEF Init
<1>3. ListsInv
  <2>1. StampMax \in Nat \ {0}
    BY ConfigAssumption
  <2>2. \A z \in Zones, c \in Classes : SortedBy(lists[z][c], LevelOf)
    BY <1>2 DEF SortedBy, Precedes
  <2>3. QED BY <1>2, <2>1, <2>2 DEF ListsInv, Stamps
<1>4. AskedInv
  BY <1>2 DEF AskedInv
<1>5. ScanInv
  BY <1>2 DEF ScanInv
<1>6. ASSUME NEW z \in Zones
      PROVE  ZoneRight(z)
  <2>1. Done(z) = {} /\ \A r : DoneHolders(z, r) = {}
    BY <1>2 DEF Done, DoneHolders
  <2>2. \A r \in Resources : owner[z][r].set = None /\ ~owner[z][r].modal
    BY <1>2 DEF ZeroOwner
  <2>3. QED BY <2>1, <2>2 DEF ZoneRight, RecordsRight, GrantsRight, Silenced
<1>7. DyingInv
  BY <1>2 DEF DyingInv
<1>8. QED BY <1>1, <1>3, <1>4, <1>5, <1>6, <1>7 DEF OrderInv, OrderParts

LEMMA NextOrders ==
    ASSUME OrderInv, [Next]_vars
    PROVE  OrderInv'
<1>1. GrantInv /\ GrantInv'
  BY NextConsistent DEF OrderInv
<1>2. CASE phase = "aborted"
  <2>1. ~Operation /\ ~Internal
    BY <1>2 DEF Operation, Internal, Create, AddToClass, Acquire, Release,
                Destroy, ClientDestroy, Scan, Deliver, FinishUpdate, FreeSet,
                DestroyNext
  <2>2. phase' = "aborted"
    BY <1>2, <2>1 DEF Next, Aborted, vars
  <2>3. QED BY <1>1, <2>2 DEF OrderInv
<1>3. CASE phase # "aborted" /\ phase' = "aborted"
  BY <1>1, <1>3 DEF OrderInv
<1>4. CASE phase # "aborted" /\ phase' # "aborted"
  <2>1. TypeOK /\ TypeOK' /\ TInv /\ DeathInv /\ Consistent /\ Consistent'
    BY <1>1, <1>4 DEF GrantInv, TInv
  <2>2. OrderParts /\ DyingInv
    BY <1>4 DEF OrderInv
  <2>3. DyingInv'
    BY <1>4, <2>1, <2>2, DyingKept
  <2>4. CASE Operation
    <3>1. ASSUME NEW s \in Sets, NEW p \in Profiles, Create(s, p)
          PROVE  OrderParts'
      BY <2>1, <2>2, <3>1, CreateOrders
    <3>2. ASSUME NEW s \in Sets, NEW n \in ReqIds, AddToClass(s, n)
          PROVE  OrderParts'
      BY <1>4, <2>1, <2>2, <3>2, AddToClassOrders
    <3>3. ASSUME NEW s \in Sets, NEW n \in ReqIds, Acquire(s, n)
          PROVE  OrderParts'
      BY <1>4, <2>1, <2>2, <3>3, AcquireOrders
    <3>4. ASSUME NEW s \in Sets, NEW n \in ReqIds, Release(s, n)
          PROVE  OrderParts'
      BY <1>4, <2>1, <2>2, <3>4, ReleaseOrders
    <3>5. ASSUME NEW s \in Sets, Destroy(s)
          PROVE  OrderParts'
      BY <1>4, <2>1, <2>2, <3>5, StartDestroyOrders DEF Destroy
    <3>6. ASSUME NEW c \in Clients, ClientDestroy(c)
          PROVE  OrderParts'
      <4>1. Head(clientSets[c]) \in Sets
        BY <2>1, <3>6, HeadIsLive DEF ClientDestroy, Live
      <4>2. QED BY <1>4, <2>1, <2>2, <3>6, <4>1, StartDestroyOrders DEF ClientDestroy
    <3>7. OrderParts'
      BY <2>4, <3>1, <3>2, <3>3, <3>4, <3>5, <3>6 DEF Operation
    <3>8. QED BY <1>1, <2>3, <3>7 DEF OrderInv
  <2>5. CASE Internal
    <3>1. OrderParts'
      BY <1>4, <2>1, <2>2, <2>5, ScanOrders, DeliverOrders, FinishUpdateOrders,
         FreeSetOrders, DestroyNextOrders DEF Internal
    <3>2. QED BY <1>1, <2>3, <3>1 DEF OrderInv
  <2>6. CASE Aborted \/ UNCHANGED vars
    <3>1. phase' = phase
      BY <2>6 DEF Aborted, vars
    <3>2. Aborted => phase = "aborted"
      BY DEF Aborted
    <3>3. UNCHANGED vars
      BY <1>4, <2>6, <3>2
    <3>4. OrderParts'
      <4>1. UNCHANGED <<profile, attached, state, grant, lists, owner, stamp,
                        todo, events, update, phase>>
        BY <3>3 DEF vars
      <4>2. ListsInv' /\ AskedInv'
        BY <2>1, <2>2, <4>1, LevelOfKept DEF OrderParts, ListsInv, AskedInv
      <4>3. \A z : Done(z)' = Done(z)
        BY <4>1 DEF Done
      <4>4. \A t, u : Ahead(t, u)' <=> Ahead(t, u)
        BY <4>1 DEF Ahead
      <4>5. ScanInv'
        BY <2>2, <4>1, <4>3, <4>4 DEF OrderParts, ScanInv
      <4>6. ASSUME NEW z \in Zones
            PROVE  ZoneRight(z)'
        <5>1. ZoneRight(z)
          BY <2>2 DEF OrderParts
        <5>2. QED BY <2>1, <4>1, <4>3, <4>4, <5>1, HoldersAcquire, ZoneFrame
      <4>7. QED BY <4>2, <4>5, <4>6 DEF OrderParts
    <3>5. QED BY <1>1, <2>3, <3>4 DEF OrderInv
  <2>7. QED BY <2>4, <2>5, <2>6 DEF Next
<1>5. QED BY <1>2, <1>3, <1>4

LEMMA OrderInvariant == Spec => []OrderInv
<1>1. Init => OrderInv
  BY InitOrders
<1>2. OrderInv /\ [Next]_vars => OrderInv'
  BY NextOrders
<1>3. QED BY <1>1, <1>2, PTL DEF Spec

-----------------------------------------------------------------------------
(* The theorems *)

\* At rest the scan is done with everything.
LEMMA AtRest ==
    ASSUME OrderInv, phase = "idle"
    PROVE  /\ TypeOK /\ Consistent /\ OrderParts
           /\ \A z : Done(z) = {s \in attached : profile[s].zone = z}
           /\ \A z, r : DoneHolders(z, r) = Holders(z, r)
           /\ \A z : ModalDone(z) <=> ModalHeld(z)
           /\ \A s : Reach(s) = Reachable(s)
<1>1. TypeOK /\ Consistent /\ OrderParts
  BY DEF OrderInv, GrantInv, TInv
<1>2. todo = {}
  BY <1>1 DEF Consistent, LoopInv
<1>3. \A z : Done(z) = {s \in attached : profile[s].zone = z}
  BY <1>2 DEF Done
<1>4. \A z, r : DoneHolders(z, r) = Holders(z, r)
  BY <1>3 DEF DoneHolders, Holders
<1>5. \A z : ModalDone(z) <=> ModalHeld(z)
  BY <1>4 DEF ModalDone, ModalHeld
<1>6. \A s : Reach(s) = Reachable(s)
  BY <1>4 DEF Reach, Reachable
<1>7. QED BY <1>1, <1>3, <1>4, <1>5, <1>6

\* At rest, each waiting set has what the sets ahead of it leave and no manager
\* refuses, or nothing when that lacks a mandatory resource or Lua vetoes it;
\* nobody waits for what a modal set ahead of it holds; and the class lists that
\* say who is ahead are complete and in the order of the levels.
THEOREM GrantsAreGreedy == Spec => []GreedyGrants
<1>1. OrderInv => GreedyGrants
  <2> SUFFICES ASSUME OrderInv, phase = "idle"
               PROVE  /\ \A s \in attached :
                           Waiting(s) =>
                             /\ grant[s] \subseteq Reachable(s)
                             /\ ModalHeld(profile[s].zone) \/ Allotted(s)
                      /\ ModalSilences
                      /\ ListsOrdered
    BY DEF GreedyGrants, Settled
  <2>1. /\ TypeOK /\ Consistent /\ OrderParts
        /\ \A z : Done(z) = {s \in attached : profile[s].zone = z}
        /\ \A z, r : DoneHolders(z, r) = Holders(z, r)
        /\ \A z : ModalDone(z) <=> ModalHeld(z)
        /\ \A s : Reach(s) = Reachable(s)
    BY AtRest
  <2>2. ASSUME NEW s \in attached, Waiting(s)
        PROVE  /\ grant[s] \subseteq Reachable(s)
               /\ ModalHeld(profile[s].zone) \/ Allotted(s)
    <3>1. profile[s].zone \in Zones
      BY <2>1, ProfileType DEF TypeOK
    <3>2. GrantsRight(profile[s].zone)
      BY <2>1, <3>1 DEF OrderParts, ZoneRight
    <3>3. \A refused : Allots(s, refused) <=>
                         IF profile[s].mandatory \subseteq Reachable(s) \ refused
                         THEN \/ grant[s] = Reachable(s) \ refused
                              \/ HasVeto /\ grant[s] = {}
                         ELSE grant[s] = {}
      BY <2>1 DEF Allots
    <3>4. QED BY <2>1, <2>2, <3>2, <3>3 DEF GrantsRight, Waiting, Allotted
  <2>3. ModalSilences
    <3>1. \A z \in Zones : Silenced(z)
      BY <2>1 DEF OrderParts, ZoneRight
    <3>2. QED BY <2>1, <3>1 DEF ModalSilences, Silenced, Alone
  <2>4. ListsOrdered
    <3> SUFFICES ASSUME NEW z \in Zones, NEW c \in Classes
                 PROVE  LET q == lists[z][c]
                        IN  /\ \A i, j \in DOMAIN q : i < j => Level(q[i]) <= Level(q[j])
                            /\ NoRepeat(q)
                            /\ \A s \in Sets : Has(q, s) <=> /\ s \in attached
                                                             /\ profile[s].class = c
                                                             /\ profile[s].zone = z
      BY DEF ListsOrdered
    <3>1. lists[z][c] \in Seq(Sets)
      BY <2>1 DEF TypeOK
    <3>2. SortedBy(lists[z][c], LevelOf)
      BY <2>1 DEF OrderParts, ListsInv
    <3>3. ASSUME NEW i \in DOMAIN lists[z][c], NEW j \in DOMAIN lists[z][c], i < j
          PROVE  Level(lists[z][c][i]) <= Level(lists[z][c][j])
      <4>1. lists[z][c][i] \in Sets /\ lists[z][c][j] \in Sets
        BY <3>1
      <4>2. LevelOf[lists[z][c][i]] <= LevelOf[lists[z][c][j]]
        BY <3>2, <3>3 DEF SortedBy, Precedes
      <4>3. QED BY <4>1, <4>2 DEF LevelOf
    <3>4. Linked
      BY <2>1 DEF Consistent
    <3>5. QED BY <3>3, <3>4 DEF Linked
  <2>5. QED BY <2>2, <2>3, <2>4
<1>2. QED BY <1>1, OrderInvariant, PTL

\* At rest, an owner record names a set that holds the resource, unless a set of
\* a modal class holds something in the zone.
THEOREM OwnersAreHolders == Spec => []OwnersHold
<1>1. OrderInv => OwnersHold
  <2> SUFFICES ASSUME OrderInv, phase = "idle",
                      NEW z \in Zones, NEW r \in Resources, owner[z][r].set # None
               PROVE  owner[z][r].set \in Holders(z, r) \/ ModalHeld(z)
    BY DEF OwnersHold, Settled
  <2>1. /\ OrderParts
        /\ DoneHolders(z, r) = Holders(z, r)
        /\ ModalDone(z) <=> ModalHeld(z)
    BY AtRest
  <2>2. RecordsRight(z)
    BY <2>1 DEF OrderParts, ZoneRight
  <2>3. QED BY <2>1, <2>2 DEF RecordsRight
<1>2. QED BY <1>1, OrderInvariant, PTL

\* What an update takes from a set that still asks, it takes for the sets ahead
\* of it, for a manager or for Lua.
THEOREM LossesArePreemptions == Spec => LossIsPreemption
<1>1. ASSUME OrderInv, Next, NEW s \in Sets,
             phase = "scan", s \in todo \ todo', grant[s] # {}, grant'[s] = {},
             state[s] = "acquire", ~HasVeto, Needed(s) \cap Managed = {},
             NEW z, z = profile[s].zone,
             \A r \in Needed(s) : (Sets \ (todo \cup {s})) \cap Holders(z, r) = {},
             ~\E r \in Resources : \E t \in (Sets \ (todo \cup {s})) \cap Holders(z, r) :
                profile[t].class \in Modal
      PROVE  FALSE
  <2>1. /\ TypeOK /\ Consistent /\ OrderParts
    BY <1>1 DEF OrderInv, GrantInv, TInv
  <2>2. Scan(s)
    <3>1. ASSUME NEW t \in Sets, Scan(t)
          PROVE  t = s
      BY <1>1, <3>1 DEF Scan
    <3>2. ~Operation
      BY <1>1 DEF Operation, Create, AddToClass, Acquire, Release, Destroy, ClientDestroy
    <3>3. \E t \in Sets : Scan(t)
      BY <1>1, <3>2 DEF Next, Internal, Deliver, FinishUpdate, FreeSet, DestroyNext,
                        Aborted
    <3>4. QED BY <3>1, <3>3
  <2>3. PICK refused \in SUBSET Managed, g, a \in SUBSET Resources,
             ok, forced \in BOOLEAN : Asked(s, refused, g, a, ok, forced)
    BY <2>1, <2>2, AskCases
  <2>4. ScanStep(s, z, refused, g, ok, forced)
    BY <1>1, <2>1, <2>2, <2>3, ScanSteps
  <2>5. \A r : DoneHolders(z, r) \subseteq (Sets \ (todo \cup {s})) \cap Holders(z, r)
    BY <1>1, <2>1 DEF DoneHolders, Done, Holders, TypeOK
  <2>6. ~ModalDone(z)
    BY <1>1, <2>5 DEF ModalDone
  <2>7. RecordsRight(z)
    BY <2>1, <2>4 DEF OrderParts, ZoneRight, ScanStep
  <2>8. ~forced /\ \A r \in Resources : ~owner[z][r].modal
    BY <2>4, <2>6, <2>7 DEF RecordsRight, ScanStep
  <2>9. Needed(s) \subseteq profile[s].all /\ profile[s].all \subseteq Resources
    BY <2>1, ProfileType DEF Needed, OrderParts, AskedInv, TypeOK
  <2>10. \A r \in Needed(s) : owner[z][r].set = None
    BY <1>1, <2>5, <2>6, <2>7, <2>9 DEF RecordsRight
  <2>11. Needed(s) \subseteq g
    BY <1>1, <2>3, <2>4, <2>8, <2>9, <2>10 DEF ScanStep
  <2>12. Needed(s) # {} /\ profile[s].mandatory \subseteq Needed(s)
    BY <1>1 DEF Needed
  <2>13. ok
    BY <1>1, <2>4, <2>11, <2>12 DEF ScanStep
  <2>14. grant'[s] = g
    BY <2>4, <2>8, <2>13 DEF ScanStep
  <2>15. QED BY <1>1, <2>11, <2>12, <2>14
<1>2. ASSUME OrderInv, [Next]_vars
      PROVE  [\A s \in Sets :
                LET z == profile[s].zone
                    ahead == Sets \ (todo \cup {s})
                IN (/\ phase = "scan"
                    /\ s \in todo \ todo'
                    /\ grant[s] # {}
                    /\ grant'[s] = {}
                    /\ state[s] = "acquire")
                   => \/ HasVeto \/ Needed(s) \cap Managed # {}
                      \/ \E r \in Needed(s) : ahead \cap Holders(z, r) # {}
                      \/ \E r \in Resources : \E t \in ahead \cap Holders(z, r) :
                           profile[t].class \in Modal]_vars
  BY <1>1, <1>2
<1>3. QED BY <1>2, OrderInvariant, PTL DEF Spec, LossIsPreemption

-----------------------------------------------------------------------------
(* Where no update releases a set by itself, the lists keep the order of the *)
(* whole key: within a level, whoever asks comes before whoever does not, and *)
(* the requests in the order of the class, first come or last come first.    *)

NothingForced == Modal = {} /\ \A p \in Profiles : ~p.autorelease

KeyOf == [t \in Sets |-> SortingKey(t, state, stamp)]

ListsExact == \A z \in Zones, c \in Classes : SortedBy(lists[z][c], KeyOf)

ExactInv == OrderInv /\ (phase # "aborted" => ListsExact)

\* A step that leaves the keys and the order of the listed sets alone.
LEMMA ExactKept ==
    ASSUME ListsExact,
           \A z \in Zones, c \in Classes : \A t, u :
             Precedes(lists'[z][c], t, u) => /\ Precedes(lists[z][c], t, u)
                                             /\ KeyOf'[t] = KeyOf[t]
                                             /\ KeyOf'[u] = KeyOf[u]
    PROVE  ListsExact'
<1> SUFFICES ASSUME NEW z \in Zones, NEW c \in Classes, NEW t, NEW u,
                    Precedes(lists'[z][c], t, u)
             PROVE  KeyOf'[t] <= KeyOf'[u]
  BY DEF ListsExact, SortedBy
<1>1. KeyOf[t] <= KeyOf[u]
  BY DEF ListsExact, SortedBy
<1>2. QED BY <1>1

LEMMA ListedAttached ==
    ASSUME TypeOK, Linked, NEW z \in Zones, NEW c \in Classes, NEW t, NEW u,
           Precedes(lists[z][c], t, u)
    PROVE  /\ t \in attached /\ u \in attached /\ t \in Sets /\ u \in Sets
           /\ profile[t].class = c /\ profile[u].class = c
<1>1. lists[z][c] \in Seq(Sets)
  BY DEF TypeOK
<1>2. Has(lists[z][c], t) /\ Has(lists[z][c], u)
  BY DEF Precedes, Has
<1>3. t \in Sets /\ u \in Sets
  BY <1>1, <1>2 DEF Has
<1>4. QED BY <1>2, <1>3 DEF Linked

\* Nothing happens to the listed sets.
LEMMA ExactQuiet ==
    ASSUME TypeOK, Linked, ListsExact, UNCHANGED lists,
           \A t \in attached : /\ profile'[t] = profile[t]
                               /\ state'[t] = state[t]
                               /\ stamp'[t] = stamp[t]
    PROVE  ListsExact'
<1>1. \A t \in attached : t \in Sets => KeyOf'[t] = KeyOf[t]
  BY DEF KeyOf, SortingKey
<1>2. QED BY <1>1, ExactKept, ListedAttached

\* Rebasing the stamps shifts the keys of a class.
LEMMA KeyShift ==
    ASSUME TypeOK, TypeOK', NEW t \in Sets, NEW d \in Nat,
           profile'[t] = profile[t], state'[t] = state[t],
           stamp'[t] = stamp[t] - d
    PROVE  KeyOf'[t] = IF profile[t].class \in Lifo THEN KeyOf[t] - d ELSE KeyOf[t] + d
<1> DEFINE p == profile[t]
           A == ((p.priority * 2 + (IF p.shared # {} THEN 1 ELSE 0)) * 2
                   + (IF state[t] = "acquire" THEN 1 ELSE 0)) * StampMax
<1>1. StampMax \in Nat /\ stamp[t] \in Nat
  BY ConfigAssumption DEF TypeOK
<1>2. p.priority \in 0..7
  BY ProfileAssumption DEF TypeOK, Profile
<1>3. A \in Int
  BY <1>1, <1>2
<1>4. KeyOf[t] = A + (IF p.class \in Lifo THEN stamp[t] ELSE (StampMax - 1) - stamp[t])
  BY DEF KeyOf, SortingKey
<1>5. KeyOf'[t] = A + (IF p.class \in Lifo THEN stamp'[t] ELSE (StampMax - 1) - stamp'[t])
  BY DEF KeyOf, SortingKey
<1> HIDE DEF A
<1>6. QED BY <1>1, <1>3, <1>4, <1>5

LEMMA ExactMove ==
    ASSUME TypeOK, TypeOK', Linked, ListsExact, NEW s \in Sets, NEW d \in Nat,
           UNCHANGED profile, Move(s, state', stamp'),
           \A t \in attached : t # s => /\ state'[t] = state[t]
                                        /\ stamp'[t] = stamp[t] - d
    PROVE  ListsExact'
<1> SUFFICES ASSUME NEW z \in Zones, NEW c \in Classes
             PROVE  SortedBy(lists'[z][c], KeyOf')
  BY DEF ListsExact
<1>1. \A t \in Sets : /\ KeyOf[t] \in Int /\ KeyOf'[t] \in Int
                      /\ KeyOf'[t] = SortingKey(t, state', stamp')
  <2>1. \A t \in Sets : KeyOf'[t] = SortingKey(t, state', stamp')
    BY DEF KeyOf, SortingKey
  <2>2. \A t \in Sets : stamp[t] \in Nat /\ stamp'[t] \in Nat
    BY DEF TypeOK
  <2>3. QED BY <2>1, <2>2, KeyType DEF KeyOf
<1>2. KeyOf' \in [Sets -> Int]
  BY <1>1 DEF KeyOf
<1>3. lists[z][c] \in Seq(Sets)
  BY DEF TypeOK
<1>4. ASSUME NEW t, NEW u, Precedes(Unlink(lists[z][c], s), t, u)
      PROVE  KeyOf'[t] <= KeyOf'[u]
  <2>1. Precedes(lists[z][c], t, u)
    BY <1>3, <1>4, UnlinkOrder
  <2>2. /\ t \in attached /\ u \in attached /\ t \in Sets /\ u \in Sets
        /\ profile[t].class = c /\ profile[u].class = c
    <3>1. Has(lists[z][c], t) /\ Has(lists[z][c], u)
      BY <2>1 DEF Precedes, Has
    <3>2. t \in Sets /\ u \in Sets
      BY <1>3, <3>1 DEF Has
    <3>3. QED BY <3>1, <3>2 DEF Linked
  <2>3. t # s /\ u # s
    <3>1. ~Has(Unlink(lists[z][c], s), s)
      BY <1>3, UnlinkMembers DEF Linked
    <3>2. Has(Unlink(lists[z][c], s), t) /\ Has(Unlink(lists[z][c], s), u)
      BY <1>4 DEF Precedes, Has
    <3>3. QED BY <3>1, <3>2
  <2>4. KeyOf[t] <= KeyOf[u]
    BY <2>1 DEF ListsExact, SortedBy
  <2>5. KeyOf'[t] = IF c \in Lifo THEN KeyOf[t] - d ELSE KeyOf[t] + d
    BY <2>2, <2>3, KeyShift
  <2>6. KeyOf'[u] = IF c \in Lifo THEN KeyOf[u] - d ELSE KeyOf[u] + d
    BY <2>2, <2>3, KeyShift
  <2>7. QED BY <1>1, <2>2, <2>4, <2>5, <2>6
<1>5. SortedBy(Unlink(lists[z][c], s), KeyOf')
  BY <1>4 DEF SortedBy
<1>6. \A t \in Sets :
        /\ SortingKey(t, state', stamp') <= SortingKey(s, state', stamp') =>
             KeyOf'[t] <= KeyOf'[s]
        /\ SortingKey(t, state', stamp') > SortingKey(s, state', stamp') =>
             KeyOf'[t] >= KeyOf'[s]
  BY <1>1
<1>7. QED BY <1>2, <1>5, <1>6, MoveSorts

LEMMA RequestExact ==
    ASSUME TypeOK, TypeOK', AttachedInv, Linked, ListsExact, NEW s \in Sets,
           NEW newState, NEW reqid, UNCHANGED profile, Request(s, newState, reqid)
    PROVE  phase' # "aborted" => ListsExact'
<1>1. PICK b \in 0..nextStamp :
        /\ StampBase(b)
        /\ IF nextStamp - b < StampMax
           THEN /\ stamp' = Stamped(s, b)
                /\ Move(s, state', stamp')
           ELSE phase' = "aborted"
  BY DEF Request
<1>2. b \in Nat /\ state' = [state EXCEPT ![s] = newState]
  BY DEF Request, TypeOK
<1>3. CASE stamp' = Stamped(s, b) /\ Move(s, state', stamp')
  <2>1. \A t \in attached : t # s => /\ state'[t] = state[t]
                                     /\ stamp'[t] = stamp[t] - b
    BY <1>2, <1>3 DEF Stamped, AttachedInv, TypeOK
  <2>2. QED BY <1>2, <1>3, <2>1, ExactMove
<1>4. QED BY <1>1, <1>3

LEMMA ScanExact ==
    ASSUME NothingForced, TypeOK, Consistent, OrderParts, ListsExact,
           NEW s \in Sets, Scan(s)
    PROVE  ListsExact'
<1>1. PICK refused \in SUBSET Managed, g, a \in SUBSET Resources,
           ok, forced \in BOOLEAN : Asked(s, refused, g, a, ok, forced)
  BY AskCases
<1>2. ScanStep(s, profile[s].zone, refused, g, ok, forced)
  <2>1. PICK z : z = profile[s].zone
    OBVIOUS
  <2>2. ScanStep(s, z, refused, g, ok, forced)
    BY <1>1, <2>1, ScanSteps
  <2>3. QED BY <2>1, <2>2
<1>3. ~forced
  <2>1. RecordsRight(profile[s].zone)
    BY <1>2 DEF OrderParts, ZoneRight, ScanStep
  <2>2. ~ModalDone(profile[s].zone)
    BY DEF ModalDone, NothingForced
  <2>3. QED BY <1>2, <2>1, <2>2 DEF ScanStep, RecordsRight
<1>4. ~profile[s].autorelease
  BY DEF NothingForced, TypeOK
<1>5. state' = state
  BY <1>1, <1>3, <1>4 DEF Asked, Store
<1>6. QED BY <1>5, ExactQuiet DEF Scan, requestVars, Consistent

LEMMA DeliverExact ==
    ASSUME TypeOK, TypeOK', Consistent, ListsExact, Deliver
    PROVE  ListsExact'
<1>1. /\ phase = "notify" /\ events # <<>>
      /\ UNCHANGED <<profile, state, stamp>>
  BY DEF Deliver, requestVars, grantVars
<1>2. PICK e : e = Head(events)
  OBVIOUS
<1>3. e.set \in Sets
  <2>1. PICK E : events \in Seq(E)
    BY DEF TypeOK
  <2>2. 1 \in DOMAIN events /\ e = events[1]
    BY <1>1, <1>2, <2>1
  <2>3. QED BY <2>2 DEF Consistent, LoopInv, TypeOK
<1>4. CASE e.shuffle
  <2>1. Move(e.set, state', stamp')
    BY <1>1, <1>2, <1>4 DEF Deliver
  <2>2. \A t \in attached : stamp'[t] = stamp[t] - 0
    BY <1>1 DEF TypeOK
  <2>3. 0 \in Nat /\ Linked
    BY DEF Consistent
  <2>4. QED BY <1>1, <1>3, <2>1, <2>2, <2>3, ExactMove
<1>5. CASE ~e.shuffle
  <2>1. lists' = lists
    BY <1>2, <1>5 DEF Deliver
  <2>2. QED BY <1>1, <2>1, ExactQuiet DEF Consistent
<1>6. QED BY <1>4, <1>5

LEMMA FreeSetExact ==
    ASSUME TypeOK, TypeOK', DeathInv, Consistent, Consistent', ListsExact, FreeSet
    PROVE  ListsExact'
<1>1. PICK s : s = dying
  OBVIOUS
<1>2. s \in Sets
  BY <1>1 DEF FreeSet, DeathInv, TypeOK
<1>3. /\ attached' = attached \ {s}
      /\ \A t \in Sets : t # s => /\ profile'[t] = profile[t]
                                  /\ state'[t] = state[t]
                                  /\ stamp'[t] = stamp[t]
  BY <1>1, <1>2 DEF FreeSet, TypeOK
<1>4. \A t \in Sets : t # s => KeyOf'[t] = KeyOf[t]
  BY <1>3 DEF KeyOf, SortingKey
<1>5. ASSUME NEW z \in Zones, NEW c \in Classes, NEW t, NEW u,
             Precedes(lists'[z][c], t, u)
      PROVE  /\ Precedes(lists[z][c], t, u)
             /\ t \in Sets \ {s} /\ u \in Sets \ {s}
  <2>1. lists'[z][c] = Unlink(lists[z][c], s)
    BY <1>1 DEF FreeSet, ListsWithout
  <2>2. lists[z][c] \in Seq(Sets)
    BY DEF TypeOK
  <2>3. Precedes(lists[z][c], t, u)
    BY <1>5, <2>1, <2>2, UnlinkOrder
  <2>4. t \in attached' /\ u \in attached' /\ t \in Sets /\ u \in Sets
    <3>1. Has(lists'[z][c], t) /\ Has(lists'[z][c], u)
      BY <1>5 DEF Precedes, Has
    <3>2. t \in Sets /\ u \in Sets
      BY <2>2, <2>3 DEF Precedes
    <3>3. QED BY <3>1, <3>2 DEF Consistent, Linked
  <2>5. QED BY <1>3, <2>3, <2>4
<1>6. QED BY <1>4, <1>5, ExactKept

LEMMA NextExact ==
    ASSUME NothingForced, ExactInv, [Next]_vars
    PROVE  ExactInv'
<1>1. OrderInv /\ OrderInv'
  BY NextOrders DEF ExactInv
<1>2. CASE phase = "aborted"
  <2>1. ~Operation /\ ~Internal
    BY <1>2 DEF Operation, Internal, Create, AddToClass, Acquire, Release,
                Destroy, ClientDestroy, Scan, Deliver, FinishUpdate, FreeSet,
                DestroyNext
  <2>2. phase' = "aborted"
    BY <1>2, <2>1 DEF Next, Aborted, vars
  <2>3. QED BY <1>1, <2>2 DEF ExactInv
<1>3. CASE phase # "aborted" /\ phase' = "aborted"
  BY <1>1, <1>3 DEF ExactInv
<1>4. CASE phase # "aborted" /\ phase' # "aborted"
  <2>1. /\ TypeOK /\ TypeOK' /\ DeathInv /\ Consistent /\ Consistent'
        /\ OrderParts /\ ListsExact
    BY <1>1, <1>4 DEF ExactInv, OrderInv, GrantInv, TInv
  <2>2. Linked /\ AttachedInv /\ attached \subseteq Sets
    BY <2>1 DEF Consistent, TypeOK
  <2>3. ASSUME NEW s \in Sets, StartDestroy(s)
        PROVE  ListsExact'
    <3>1. CASE Request(s, "release", InvalidReqno)
      BY <1>4, <2>1, <2>2, <2>3, <3>1, RequestExact DEF StartDestroy
    <3>2. CASE UNCHANGED <<state, request, stamp, nextStamp, lists, owner>>
      BY <2>1, <2>2, <2>3, <3>2, ExactQuiet DEF StartDestroy
    <3>3. QED BY <2>3, <3>1, <3>2 DEF StartDestroy
  <2>4. CASE Operation
    <3>1. ASSUME NEW s \in Sets, NEW p \in Profiles, Create(s, p)
          PROVE  ListsExact'
      <4>1. /\ s \notin attached
            /\ profile' = [profile EXCEPT ![s] = p]
            /\ UNCHANGED <<state, stamp, lists>>
        BY <2>2, <3>1 DEF Create, AttachedInv, grantVars
      <4>2. \A t \in attached : profile'[t] = profile[t]
        BY <2>1, <2>2, <4>1 DEF TypeOK
      <4>3. QED BY <2>1, <2>2, <4>1, <4>2, ExactQuiet
    <3>2. ASSUME NEW s \in Sets, NEW n \in ReqIds, AddToClass(s, n)
          PROVE  ListsExact'
      <4>1. UNCHANGED profile
        BY <3>2 DEF AddToClass
      <4>2. CASE Request(s, "acquire", n)
        BY <1>4, <2>1, <2>2, <4>1, <4>2, RequestExact
      <4>3. CASE /\ state' = [state EXCEPT ![s] = "release"]
                 /\ UNCHANGED <<stamp, nextStamp>>
                 /\ Move(s, state', stamp)
        <5>1. \A t \in attached : t # s => /\ state'[t] = state[t]
                                           /\ stamp'[t] = stamp[t] - 0
          BY <2>1, <2>2, <4>3 DEF TypeOK
        <5>2. 0 \in Nat /\ Move(s, state', stamp')
          BY <4>3
        <5>3. QED BY <2>1, <2>2, <4>1, <5>1, <5>2, ExactMove
      <4>4. QED BY <3>2, <4>2, <4>3 DEF AddToClass
    <3>3. ASSUME NEW s \in Sets, NEW n \in ReqIds, Acquire(s, n) \/ Release(s, n)
          PROVE  ListsExact'
      <4>1. UNCHANGED profile
        BY <3>3 DEF Acquire, Release
      <4>2. CASE Request(s, "acquire", n) \/ Request(s, "release", n)
        BY <1>4, <2>1, <2>2, <4>1, <4>2, RequestExact
      <4>3. CASE /\ UNCHANGED <<stamp, lists>>
                 /\ \/ s \notin attached /\ state' = [state EXCEPT ![s] = "acquire"]
                    \/ s \notin attached /\ state' = [state EXCEPT ![s] = "release"]
                    \/ UNCHANGED state
        <5>1. \A t \in attached : state'[t] = state[t]
          BY <2>1, <2>2, <4>3 DEF TypeOK
        <5>2. QED BY <2>1, <2>2, <4>1, <4>3, <5>1, ExactQuiet
      <4>4. QED BY <3>3, <4>2, <4>3 DEF Acquire, Release
    <3>4. ASSUME NEW s \in Sets, Destroy(s)
          PROVE  ListsExact'
      BY <2>3, <3>4 DEF Destroy
    <3>5. ASSUME NEW c \in Clients, ClientDestroy(c)
          PROVE  ListsExact'
      <4>1. Head(clientSets[c]) \in Sets
        BY <2>1, <3>5, HeadIsLive DEF ClientDestroy, Live
      <4>2. QED BY <2>3, <3>5, <4>1 DEF ClientDestroy
    <3>6. ListsExact'
      BY <2>4, <3>1, <3>2, <3>3, <3>4, <3>5 DEF Operation
    <3>7. QED BY <1>1, <3>6 DEF ExactInv
  <2>5. CASE Internal
    <3>1. ASSUME DestroyNext
          PROVE  ListsExact'
      <4>1. leaving \in Clients /\ clientSets[leaving] # <<>>
        BY <2>1, <3>1 DEF DestroyNext, DeathInv, TypeOK
      <4>2. Head(clientSets[leaving]) \in Sets
        BY <2>1, <4>1, HeadIsLive DEF Live
      <4>3. QED BY <2>3, <3>1, <4>2 DEF DestroyNext
    <3>2. ASSUME FinishUpdate
          PROVE  ListsExact'
      BY <2>1, <2>2, <3>2, ExactQuiet DEF FinishUpdate, requestVars, grantVars
    <3>3. ListsExact'
      BY <2>1, <2>5, <3>1, <3>2, ScanExact, DeliverExact, FreeSetExact DEF Internal
    <3>4. QED BY <1>1, <3>3 DEF ExactInv
  <2>6. CASE Aborted \/ UNCHANGED vars
    <3>1. ListsExact'
      BY <2>1, <2>2, <2>6, ExactQuiet DEF Aborted, vars
    <3>2. QED BY <1>1, <3>1 DEF ExactInv
  <2>7. QED BY <2>4, <2>5, <2>6 DEF Next
<1>5. QED BY <1>2, <1>3, <1>4

\* Without modal classes and without sets that release themselves, the class
\* lists are always sorted by the whole key of mrp_application_class_get_sorting_key,
\* also after all stamps were rebased: within a priority and usage the sets that
\* ask come last (the scan goes up from the tail), among them the latest request
\* in a LIFO class and the earliest in a FIFO class.
THEOREM ListsKeepTheOrder ==
    ASSUME NothingForced
    PROVE  Spec => [](phase # "aborted" => ListsExact)
<1>1. Init => ExactInv
  <2> SUFFICES ASSUME Init PROVE ExactInv
    OBVIOUS
  <2>1. lists = [z \in Zones |-> [c \in Classes |-> <<>>]]
    BY DEF Init
  <2>2. ListsExact
    BY <2>1 DEF ListsExact, SortedBy, Precedes
  <2>3. QED BY <2>2, InitOrders DEF ExactInv
<1>2. ExactInv /\ [Next]_vars => ExactInv'
  BY NextExact
<1>3. ExactInv => (phase # "aborted" => ListsExact)
  BY DEF ExactInv
<1>4. QED BY <1>1, <1>2, <1>3, PTL DEF Spec
=============================================================================
