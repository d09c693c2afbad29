------------------------------- MODULE MdbProofs -------------------------------
(***************************************************************************)
(* Proofs about MdbTransactions: the rows of a table and its index (Inv),  *)
(* for any users; and, for users with the customs of Careful, that         *)
(* murphy-db rolls back what it logged, that it touches no row it has      *)
(* freed and leaks none, and that it implements nested transactions.  They *)
(* are for any number of tables, rows, keys and nested transactions.       *)
(*                                                                         *)
(* Last, about TableWatch: the domain control plugin's watch on tables     *)
(* misses no change, if users change tables in transactions only.          *)
(***************************************************************************)
EXTENDS TableWatch, FiniteSetTheorems, TLAPS

-----------------------------------------------------------------------------
(* The invariant *)

\* Entry j of the log of t in transaction i.
At(i, t, j) == i \in DOMAIN tx /\ t \in Tables /\ j \in DOMAIN tx[i].log[t]
E(i, t, j)  == tx[i].log[t][j]
Later(i, j, k, l) == i < k \/ (i = k /\ j < l)

\* A transaction lists the tables it has log entries for, each once.
OrderInv ==
    \A i \in DOMAIN tx :
      /\ \A t \in Tables :
           tx[i].log[t] # <<>> <=> \E n \in DOMAIN tx[i].order : tx[i].order[n] = t
      /\ \A m, n \in DOMAIN tx[i].order :
           tx[i].order[m] = tx[i].order[n] => m = n

\* A linked row is allocated and in one table.
LinkInv ==
    /\ \A t \in Tables : linked[t] \subseteq heap
    /\ \A t, u \in Tables : t # u => linked[t] \cap linked[u] = {}

\* The index is empty where there is none, and while all rows are deleted.
EmptyInv ==
    \A t \in Tables, k \in Keys :
      t \notin Indexed \/ (phase = "clear" /\ t = table) => index[t][k] = None

\* What the log keeps is in no table, and is kept by one entry.
KeepInv ==
    /\ \A i, t, j : At(i, t, j) =>
         \A u \in Tables : E(i, t, j).before \notin linked[u]
    /\ \A i, t, j, k, u, l :
         /\ At(i, t, j)
         /\ At(k, u, l)
         /\ E(i, t, j).before # None
         /\ E(i, t, j).before = E(k, u, l).before
         => i = k /\ t = u /\ j = l

\* What an update keeps is a copy, or a row that no open transaction changed.
CopyInv ==
    \A i, t, j, k, u, l :
      At(i, t, j) /\ At(k, u, l) /\ E(i, t, j).change = "update" =>
        E(i, t, j).before # E(k, u, l).after

\* The row r is one of entry j.
Names(i, t, j, r) == E(i, t, j).before = r \/ E(i, t, j).after = r

\* The rows in the log of a table belong to this table.
HomeInv ==
    \A r \in Rows : \A i, t, j : At(i, t, j) /\ Names(i, t, j, r) =>
      /\ \A u \in Tables : r \in linked[u] => u = t
      /\ \A k, u, l : At(k, u, l) /\ Names(k, u, l, r) => u = t

\* A row that was inserted or updated is still in its table, or a later entry
\* keeps it, or it is gone.
AfterInv ==
    \A i, t, j : At(i, t, j) /\ E(i, t, j).after # None =>
      \/ E(i, t, j).after \in linked[t]
      \/ E(i, t, j).after \notin heap
      \/ \E k, l : /\ At(k, t, l)
                   /\ Later(i, j, k, l)
                   /\ E(k, t, l).before = E(i, t, j).after

Inv ==
    /\ TypeOK
    /\ OrderInv
    /\ LinkInv
    /\ IndexPointsToRows
    /\ EmptyInv
    /\ KeepInv
    /\ CopyInv
    /\ HomeInv
    /\ AfterInv

-----------------------------------------------------------------------------
(* The stack of transactions *)

LEMMA TopType ==
    ASSUME tx \in Seq(Transaction), tx # <<>>
    PROVE  /\ depth \in DOMAIN tx
           /\ depth \in Nat \ {0}
           /\ DOMAIN tx = 1..depth
           /\ Top \in Transaction
           /\ Top.order \in Seq(Tables)
           /\ Top.log \in [Tables -> Seq(Entry)]
           /\ Top.found \in [Tables -> Snapshot]
<1>1. Len(tx) \in Nat /\ DOMAIN tx = 1..Len(tx)
  OBVIOUS
<1>2. Len(tx) # 0
  OBVIOUS
<1>3. depth \in DOMAIN tx /\ depth \in Nat \ {0}
  BY <1>1, <1>2 DEF depth
<1>4. Top \in Transaction
  BY <1>3 DEF Top
<1> QED BY <1>1, <1>3, <1>4 DEF Transaction, depth

LEMMA EntryType ==
    ASSUME tx \in Seq(Transaction), NEW i, NEW t, NEW j, At(i, t, j)
    PROVE  /\ tx[i] \in Transaction
           /\ tx[i].log[t] \in Seq(Entry)
           /\ E(i, t, j) \in Entry
           /\ i \in 1..Len(tx) /\ i \in Nat
           /\ j \in 1..Len(tx[i].log[t]) /\ j \in Nat
<1>1. i \in 1..Len(tx) /\ i \in Nat /\ tx[i] \in Transaction
  BY DEF At
<1>2. tx[i].log[t] \in Seq(Entry)
  BY <1>1 DEF Transaction, At
<1>3. j \in 1..Len(tx[i].log[t]) /\ j \in Nat /\ tx[i].log[t][j] \in Entry
  BY <1>2 DEF At
<1> QED BY <1>1, <1>2, <1>3 DEF E

\* What is the same, and what is new, when the transaction on top is replaced.
LEMMA TopReplaced ==
    ASSUME tx \in Seq(Transaction), tx # <<>>,
           NEW new \in Transaction, tx' = [tx EXCEPT ![depth] = new]
    PROVE  /\ tx' \in Seq(Transaction)
           /\ tx' # <<>>
           /\ depth' = depth
           /\ DOMAIN tx' = DOMAIN tx
           /\ Top' = new
           /\ tx'[depth] = new
           /\ \A i \in DOMAIN tx : i # depth => tx'[i] = tx[i]
<1>1. depth \in DOMAIN tx
  BY TopType
<1>2. /\ tx' \in Seq(Transaction)
      /\ Len(tx') = Len(tx)
      /\ DOMAIN tx' = DOMAIN tx
      /\ tx'[depth] = new
      /\ \A i \in DOMAIN tx : i # depth => tx'[i] = tx[i]
  BY <1>1
<1>3. tx' # <<>> /\ depth' = depth
  BY <1>2, <1>1 DEF depth
<1>4. Top' = new
  BY <1>2, <1>3 DEF Top
<1> QED BY <1>2, <1>3, <1>4

LEMMA LoggingEffect ==
    ASSUME tx \in Seq(Transaction), tx # <<>>,
           NEW t \in Tables, NEW entries \in Seq(Entry),
           tx' = Logging(t, entries)
    PROVE  /\ tx' \in Seq(Transaction)
           /\ tx' # <<>>
           /\ depth' = depth
           /\ DOMAIN tx' = DOMAIN tx
           /\ \A i \in DOMAIN tx : i # depth => tx'[i] = tx[i]
           /\ tx'[depth].found = tx[depth].found
           /\ tx'[depth].log = [u \in Tables |-> IF u = t THEN tx[depth].log[t] \o entries
                                                        ELSE tx[depth].log[u]]
           /\ tx'[depth].order =
                IF tx[depth].log[t] = <<>> THEN Append(tx[depth].order, t)
                                           ELSE tx[depth].order
<1> DEFINE order == IF Logged(t) THEN Top.order ELSE Append(Top.order, t)
           log == [Top.log EXCEPT ![t] = @ \o entries]
           new == [order |-> order, log |-> log, found |-> Top.found]
<1>1. order \in Seq(Tables)
  BY TopType
<1>2. log \in [Tables -> Seq(Entry)]
  BY TopType
<1>3. log = [u \in Tables |-> IF u = t THEN Top.log[t] \o entries ELSE Top.log[u]]
  BY TopType
<1>4. new \in Transaction
  BY <1>1, <1>2, TopType DEF Transaction
<1>6. tx' = [tx EXCEPT ![depth] = new]
  BY DEF Logging
<1>7. new.order = order /\ new.log = log /\ new.found = Top.found
  OBVIOUS
<1> HIDE DEF new
<1>8. /\ tx' \in Seq(Transaction)
      /\ tx' # <<>>
      /\ depth' = depth
      /\ DOMAIN tx' = DOMAIN tx
      /\ tx'[depth] = new
      /\ \A i \in DOMAIN tx : i # depth => tx'[i] = tx[i]
  BY <1>4, <1>6, TopReplaced
<1>9. tx'[depth].order = IF tx[depth].log[t] = <<>> THEN Append(tx[depth].order, t)
                                                   ELSE tx[depth].order
  BY <1>7, <1>8 DEF Top, Logged
<1>10. /\ tx'[depth].log = [u \in Tables |-> IF u = t THEN tx[depth].log[t] \o entries
                                                      ELSE tx[depth].log[u]]
       /\ tx'[depth].found = tx[depth].found
  BY <1>3, <1>7, <1>8 DEF Top
<1> HIDE DEF order, log
<1> QED BY <1>8, <1>9, <1>10

LEMMA ConsumedEffect ==
    ASSUME tx \in Seq(Transaction), tx # <<>>, Top.order # <<>>,
           NEW rest \in Seq(Entry),
           tx' = Consumed(rest)
    PROVE  /\ Current \in Tables
           /\ tx' \in Seq(Transaction)
           /\ tx' # <<>>
           /\ depth' = depth
           /\ DOMAIN tx' = DOMAIN tx
           /\ \A i \in DOMAIN tx : i # depth => tx'[i] = tx[i]
           /\ tx'[depth].found = tx[depth].found
           /\ tx'[depth].log = [u \in Tables |-> IF u = Current THEN rest
                                                 ELSE tx[depth].log[u]]
           /\ tx'[depth].order =
                IF rest = <<>> THEN Tail(tx[depth].order) ELSE tx[depth].order
<1> DEFINE order == IF rest = <<>> THEN Tail(Top.order) ELSE Top.order
           log == [Top.log EXCEPT ![Current] = rest]
           new == [order |-> order, log |-> log, found |-> Top.found]
<1>1. Current \in Tables
  BY TopType DEF Current
<1>2. order \in Seq(Tables)
  BY TopType
<1>3. log \in [Tables -> Seq(Entry)]
  BY TopType, <1>1
<1>4. log = [u \in Tables |-> IF u = Current THEN rest ELSE Top.log[u]]
  BY TopType
<1>5. new \in Transaction
  BY <1>2, <1>3, TopType DEF Transaction
<1>6. tx' = [tx EXCEPT ![depth] = new]
  BY DEF Consumed
<1>7. new.order = order /\ new.log = log /\ new.found = Top.found
  OBVIOUS
<1> HIDE DEF new
<1>8. /\ tx' \in Seq(Transaction)
      /\ tx' # <<>>
      /\ depth' = depth
      /\ DOMAIN tx' = DOMAIN tx
      /\ tx'[depth] = new
      /\ \A i \in DOMAIN tx : i # depth => tx'[i] = tx[i]
  BY <1>5, <1>6, TopReplaced
<1>9. tx'[depth].order = IF rest = <<>> THEN Tail(tx[depth].order) ELSE tx[depth].order
  BY <1>7, <1>8 DEF Top
<1>10. /\ tx'[depth].log = [u \in Tables |-> IF u = Current THEN rest
                                              ELSE tx[depth].log[u]]
       /\ tx'[depth].found = tx[depth].found
  BY <1>4, <1>7, <1>8 DEF Top
<1> HIDE DEF order, log
<1> QED BY <1>1, <1>8, <1>9, <1>10

LEMMA CurrentLog ==
    ASSUME tx \in Seq(Transaction), tx # <<>>, Top.order # <<>>, OrderInv
    PROVE  /\ Current \in Tables
           /\ Top.log[Current] \in Seq(Entry)
           /\ Top.log[Current] # <<>>
<1>1. Top.order \in Seq(Tables) /\ depth \in DOMAIN tx /\ Top = tx[depth]
  BY TopType DEF Top
<1>2. 1 \in DOMAIN Top.order /\ Current = Top.order[1] /\ Current \in Tables
  BY <1>1 DEF Current
<1>3. Top.log[Current] # <<>>
  BY <1>1, <1>2 DEF OrderInv
<1> QED BY <1>2, <1>3, TopType

LEMMA OrderLogging ==
    ASSUME tx \in Seq(Transaction), tx # <<>>, OrderInv,
           NEW t \in Tables, NEW entries \in Seq(Entry), entries # <<>>,
           tx' = Logging(t, entries)
    PROVE  OrderInv'
<1> DEFINE old == tx[depth].order
           new == tx'[depth].order
<1>1. old \in Seq(Tables) /\ tx[depth].log \in [Tables -> Seq(Entry)] /\ depth \in DOMAIN tx
  BY TopType DEF Top
<1>2. tx[depth].log[t] \in Seq(Entry)
  BY <1>1
<1>3. tx'[depth].log[t] = tx[depth].log[t] \o entries
  BY LoggingEffect
<1>4. tx'[depth].log[t] # <<>>
  BY <1>2, <1>3
<1>5. \A u \in Tables : u # t => tx'[depth].log[u] = tx[depth].log[u]
  <2>1. tx'[depth].log = [u \in Tables |-> IF u = t THEN tx[depth].log[t] \o entries
                                                   ELSE tx[depth].log[u]]
    BY LoggingEffect
  <2> QED BY <2>1
<1>6. new = IF tx[depth].log[t] = <<>> THEN Append(old, t) ELSE old
  BY LoggingEffect
<1>7. /\ \A u \in Tables :
           tx[depth].log[u] # <<>> <=> \E n \in DOMAIN old : old[n] = u
      /\ \A m, n \in DOMAIN old : old[m] = old[n] => m = n
  BY <1>1 DEF OrderInv
<1>8. /\ \A u \in Tables :
           tx'[depth].log[u] # <<>> <=> \E n \in DOMAIN new : new[n] = u
      /\ \A m, n \in DOMAIN new : new[m] = new[n] => m = n
  <2>1. CASE tx[depth].log[t] # <<>>
    BY <2>1, <1>4, <1>5, <1>6, <1>7
  <2>2. CASE tx[depth].log[t] = <<>>
    <3>1. new = Append(old, t)
      BY <2>2, <1>6
    <3>2. /\ DOMAIN old = 1..Len(old) /\ Len(old) \in Nat
          /\ DOMAIN new = 1..(Len(old) + 1)
          /\ \A n \in DOMAIN old : n \in DOMAIN new /\ new[n] = old[n]
          /\ new[Len(old) + 1] = t
      BY <3>1, <1>1
    <3>3. \A n \in DOMAIN new : n \in DOMAIN old \/ n = Len(old) + 1
      BY <3>2
    <3>4. \A n \in DOMAIN old : old[n] # t
      BY <2>2, <1>7
    <3> HIDE DEF old, new
    <3>5. \A u \in Tables :
            tx'[depth].log[u] # <<>> <=> \E n \in DOMAIN new : new[n] = u
      <4> SUFFICES ASSUME NEW u \in Tables
                   PROVE tx'[depth].log[u] # <<>> <=> \E n \in DOMAIN new : new[n] = u
        OBVIOUS
      <4>1. CASE u = t
        <5>1. Len(old) + 1 \in DOMAIN new
          BY <3>2
        <5> QED BY <4>1, <5>1, <3>2, <1>4
      <4>2. CASE u # t
        BY <4>2, <3>2, <3>3, <1>5, <1>7
      <4> QED BY <4>1, <4>2
    <3>6. \A m, n \in DOMAIN new : new[m] = new[n] => m = n
      BY <3>2, <3>3, <3>4, <1>7
    <3> QED BY <3>5, <3>6
  <2> QED BY <2>1, <2>2
<1> HIDE DEF old, new
<1>9. DOMAIN tx' = DOMAIN tx /\ \A i \in DOMAIN tx : i # depth => tx'[i] = tx[i]
  BY LoggingEffect
<1> QED BY <1>8, <1>9 DEF OrderInv, new

LEMMA OrderConsumed ==
    ASSUME tx \in Seq(Transaction), tx # <<>>, OrderInv, Top.order # <<>>,
           NEW rest \in Seq(Entry),
           tx' = Consumed(rest)
    PROVE  OrderInv'
<1> DEFINE old == tx[depth].order
           new == tx'[depth].order
<1>1. old \in Seq(Tables) /\ depth \in DOMAIN tx /\ old # <<>> /\ Current = old[1]
  BY TopType DEF Top, Current
<1>2. tx'[depth].log[Current] = rest
  BY ConsumedEffect
<1>3. \A u \in Tables : u # Current => tx'[depth].log[u] = tx[depth].log[u]
  BY ConsumedEffect
<1>4. new = IF rest = <<>> THEN Tail(old) ELSE old
  BY ConsumedEffect
<1>5. /\ \A u \in Tables :
           tx[depth].log[u] # <<>> <=> \E n \in DOMAIN old : old[n] = u
      /\ \A m, n \in DOMAIN old : old[m] = old[n] => m = n
  BY <1>1 DEF OrderInv
<1>6. 1 \in DOMAIN old
  BY <1>1
<1>7. /\ \A u \in Tables :
           tx'[depth].log[u] # <<>> <=> \E n \in DOMAIN new : new[n] = u
      /\ \A m, n \in DOMAIN new : new[m] = new[n] => m = n
  <2>1. CASE rest # <<>>
    BY <2>1, <1>1, <1>2, <1>3, <1>4, <1>5, <1>6
  <2>2. CASE rest = <<>>
    <3>1. new = Tail(old)
      BY <2>2, <1>4
    <3>2. /\ DOMAIN new = 1..(Len(old) - 1)
          /\ DOMAIN old = 1..Len(old) /\ Len(old) \in Nat
          /\ \A n \in DOMAIN new : n + 1 \in DOMAIN old /\ n + 1 # 1 /\ new[n] = old[n + 1]
      BY <3>1, <1>1
    <3> HIDE DEF old, new
    <3>3. \A n \in DOMAIN old : n = 1 \/ (n - 1 \in DOMAIN new /\ new[n - 1] = old[n])
      <4> SUFFICES ASSUME NEW n \in DOMAIN old, n # 1
                   PROVE  n - 1 \in DOMAIN new /\ new[n - 1] = old[n]
        OBVIOUS
      <4>1. n - 1 \in DOMAIN new /\ n - 1 + 1 = n
        BY <3>2
      <4> QED BY <4>1, <3>2
    <3>4. \A u \in Tables :
            tx'[depth].log[u] # <<>> <=> \E n \in DOMAIN new : new[n] = u
      <4> SUFFICES ASSUME NEW u \in Tables
                   PROVE tx'[depth].log[u] # <<>> <=> \E n \in DOMAIN new : new[n] = u
        OBVIOUS
      <4>1. CASE u = Current
        BY <4>1, <3>2, <1>1, <1>2, <1>5, <1>6, <2>2
      <4>2. CASE u # Current
        <5>1. tx'[depth].log[u] # <<>> <=> \E n \in DOMAIN old : old[n] = u
          BY <4>2, <1>3, <1>5
        <5>2. ASSUME NEW n \in DOMAIN old, old[n] = u
              PROVE  \E m \in DOMAIN new : new[m] = u
          BY <5>2, <4>2, <3>3, <1>1
        <5>3. ASSUME NEW n \in DOMAIN new, new[n] = u
              PROVE  \E m \in DOMAIN old : old[m] = u
          BY <5>3, <3>2
        <5> QED BY <5>1, <5>2, <5>3
      <4> QED BY <4>1, <4>2
    <3>5. \A m, n \in DOMAIN new : new[m] = new[n] => m = n
      BY <3>2, <1>5
    <3> QED BY <3>4, <3>5
  <2> QED BY <2>1, <2>2
<1> HIDE DEF old, new
<1>8. DOMAIN tx' = DOMAIN tx /\ \A i \in DOMAIN tx : i # depth => tx'[i] = tx[i]
  BY ConsumedEffect
<1> QED BY <1>7, <1>8 DEF OrderInv, new

-----------------------------------------------------------------------------
(* What mdb_log_change adds to the log *)

LEMMA FoundType ==
    ASSUME TypeOK, LinkInv, NEW t \in Tables, NEW n \in Nat
    PROVE  /\ DOMAIN Held(t) = linked[t]
           /\ [rows |-> Held(t), stamp |-> n] \in Snapshot
           /\ Found(t) \in Snapshot
<1>1. linked[t] \in SUBSET Rows /\ linked[t] \subseteq heap /\ stamp[t] \in Nat
  BY DEF TypeOK, LinkInv
<1>2. Held(t) \in [linked[t] -> Data]
  BY <1>1 DEF TypeOK, Held
<1>3. [linked[t] -> Data] \in {[S -> Data] : S \in SUBSET Rows}
  BY <1>1
<1>4. Held(t) \in UNION {[S -> Data] : S \in SUBSET Rows}
  BY <1>2, <1>3
<1> QED BY <1>1, <1>2, <1>4 DEF Snapshot, Found

\* An entry that fits the change.
Fits(change, before, after) ==
    /\ change \in {"insert", "update", "delete"}
    /\ before \in Rows \cup {None}
    /\ after \in Rows \cup {None}
    /\ change \in {"update", "delete"} <=> before # None
    /\ change \in {"insert", "update"} <=> after # None

LEMMA LogEntries ==
    ASSUME TypeOK, LinkInv, tx # <<>>, NEW t \in Tables,
           NEW change, NEW before, NEW after, Fits(change, before, after),
           LogChange(t, change, before, after)
    PROVE  /\ stamp' \in [Tables -> Nat]
           /\ \E entries \in Seq(Entry) :
                /\ tx' = Logging(t, entries)
                /\ entries # <<>>
                /\ entries[Len(entries)].change = change
                /\ entries[Len(entries)].before = before
                /\ entries[Len(entries)].after = after
                /\ \A j \in DOMAIN entries : j # Len(entries) =>
                     entries[j].before = None /\ entries[j].after = None
<1> DEFINE opener == [change |-> "stamp", before |-> None, after |-> None,
                      stamp |-> stamp[t], was |-> Found(t)]
           entry  == [change |-> change, before |-> before, after |-> after,
                      stamp |-> 0,
                      was |-> [rows |-> Held(t), stamp |-> stamp'[t]]]
<1>1. stamp' = IF Logged(t) THEN stamp ELSE [stamp EXCEPT ![t] = @ + 1]
  BY DEF LogChange
<1>2. stamp \in [Tables -> Nat]
  BY DEF TypeOK
<1>3. stamp' \in [Tables -> Nat]
  BY <1>1, <1>2
<1>4. stamp[t] \in Nat /\ stamp'[t] \in Nat
  BY <1>2, <1>3
<1>5. opener \in Entry
  BY <1>4, FoundType DEF Entry
<1>6. [rows |-> Held(t), stamp |-> stamp'[t]] \in Snapshot
  BY <1>4, FoundType
<1>7. entry \in Entry
  BY <1>6 DEF Entry, Fits
<1>8. /\ entry.change = change /\ entry.before = before /\ entry.after = after
      /\ opener.before = None /\ opener.after = None
  OBVIOUS
<1>9. tx' = Logging(t, IF Logged(t) THEN <<entry>> ELSE <<opener, entry>>)
  BY DEF LogChange
<1> HIDE DEF opener, entry
<1>10. CASE Logged(t)
  <2> DEFINE es == <<entry>>
  <2>1. es \in Seq(Entry) /\ Len(es) = 1 /\ es # <<>> /\ DOMAIN es = {1} /\ es[1] = entry
    BY <1>7
  <2>2. tx' = Logging(t, es)
    BY <1>9, <1>10
  <2> HIDE DEF es
  <2> QED BY <2>1, <2>2, <1>3, <1>8
<1>11. CASE ~Logged(t)
  <2> DEFINE es == <<opener, entry>>
  <2>1. /\ es \in Seq(Entry) /\ Len(es) = 2 /\ es # <<>> /\ DOMAIN es = {1, 2}
        /\ es[1] = opener /\ es[2] = entry
    BY <1>5, <1>7
  <2>2. tx' = Logging(t, es)
    BY <1>9, <1>11
  <2> HIDE DEF es
  <2> QED BY <2>1, <2>2, <1>3, <1>8
<1> QED BY <1>10, <1>11

\* A change of t is logged as entry n of transaction d, the last one; at most
\* an entry that names no row comes with it.
NewEntry(t, change, before, after, d, n) ==
    /\ d = depth
    /\ At(d, t, n)' /\ ~At(d, t, n)
    /\ E(d, t, n)'.change = change
    /\ E(d, t, n)'.before = before
    /\ E(d, t, n)'.after = after
    /\ \A i, j : At(i, t, j) => Later(i, j, d, n)
    /\ \A i, u, j : At(i, u, j)' =>
         \/ At(i, u, j)
         \/ i = d /\ u = t /\ j = n
         \/ E(i, u, j)'.before = None /\ E(i, u, j)'.after = None

\* A change appends such an entry and keeps the others.
LEMMA LogChangeEffect ==
    ASSUME TypeOK, LinkInv, OrderInv, tx # <<>>, NEW t \in Tables,
           NEW change, NEW before, NEW after, Fits(change, before, after),
           LogChange(t, change, before, after)
    PROVE  /\ tx' \in Seq(Transaction) /\ tx' # <<>>
           /\ stamp' \in [Tables -> Nat]
           /\ OrderInv'
           /\ \A i, u, j : At(i, u, j) => At(i, u, j)' /\ E(i, u, j)' = E(i, u, j)
           /\ \E d, n \in Nat : NewEntry(t, change, before, after, d, n)
<1>1. tx \in Seq(Transaction)
  BY DEF TypeOK
<1>2. PICK entries \in Seq(Entry) :
        /\ tx' = Logging(t, entries)
        /\ entries # <<>>
        /\ entries[Len(entries)].change = change
        /\ entries[Len(entries)].before = before
        /\ entries[Len(entries)].after = after
        /\ \A j \in DOMAIN entries : j # Len(entries) =>
             entries[j].before = None /\ entries[j].after = None
  BY LogEntries
<1>3. /\ tx' \in Seq(Transaction) /\ tx' # <<>> /\ depth' = depth
      /\ DOMAIN tx' = DOMAIN tx
      /\ \A i \in DOMAIN tx : i # depth => tx'[i] = tx[i]
  BY <1>1, <1>2, LoggingEffect
<1>4. tx'[depth].log = [u \in Tables |-> IF u = t THEN tx[depth].log[t] \o entries
                                                  ELSE tx[depth].log[u]]
  BY <1>1, <1>2, LoggingEffect
<1>5. OrderInv'
  BY <1>1, <1>2, OrderLogging
<1>6. /\ depth \in DOMAIN tx /\ depth \in Nat /\ DOMAIN tx = 1..depth
      /\ tx[depth].log \in [Tables -> Seq(Entry)]
  BY <1>1, TopType DEF Top
<1> DEFINE old == tx[depth].log[t]
           new == tx'[depth].log[t]
           n == Len(new)
<1>7. /\ \A u \in Tables : u # t => tx'[depth].log[u] = tx[depth].log[u]
      /\ new = old \o entries
  BY <1>4
<1>8. /\ old \in Seq(Entry)
      /\ Len(old) \in Nat /\ DOMAIN old = 1..Len(old)
      /\ Len(entries) \in Nat /\ DOMAIN entries = 1..Len(entries) /\ Len(entries) > 0
  BY <1>2, <1>6
<1>9. /\ n = Len(old) + Len(entries)
      /\ DOMAIN new = 1..n
      /\ \A j \in DOMAIN old : new[j] = old[j]
      /\ \A j \in DOMAIN new : j \notin DOMAIN old =>
           j - Len(old) \in DOMAIN entries /\ new[j] = entries[j - Len(old)]
  <2> HIDE DEF old, new
  <2>1. n = Len(old) + Len(entries) /\ DOMAIN new = 1..n
    BY <1>7, <1>8
  <2>2. \A j \in 1..(Len(old) + Len(entries)) :
          new[j] = IF j <= Len(old) THEN old[j] ELSE entries[j - Len(old)]
    BY <1>7, <1>8
  <2> HIDE DEF n
  <2>3. \A j \in DOMAIN old : new[j] = old[j]
    BY <2>2, <1>8
  <2> QED BY <2>1, <2>2, <2>3, <1>8
<1> HIDE DEF old, new, n
<1>10. \A i, u, j : At(i, u, j) => At(i, u, j)' /\ E(i, u, j)' = E(i, u, j)
  <2> SUFFICES ASSUME NEW i, NEW u, NEW j, At(i, u, j)
               PROVE  At(i, u, j)' /\ E(i, u, j)' = E(i, u, j)
    OBVIOUS
  <2>1. CASE i # depth
    BY <2>1, <1>3 DEF At, E
  <2>2. CASE i = depth /\ u # t
    BY <2>2, <1>3, <1>7 DEF At, E
  <2>3. CASE i = depth /\ u = t
    <3>1. j \in DOMAIN old
      BY <2>3 DEF At, old
    <3>2. j \in DOMAIN new /\ new[j] = old[j]
      BY <3>1, <1>8, <1>9
    <3> QED BY <2>3, <1>3, <1>6, <3>2 DEF At, E, old, new
  <2> QED BY <2>1, <2>2, <2>3
<1>11. \E d, m \in Nat : NewEntry(t, change, before, after, d, m)
  <2>1. PICK d \in Nat, m \in Nat : d = depth /\ m = n
    BY <1>6, <1>8, <1>9
  <2>2. At(d, t, m)' /\ ~At(d, t, m)
    BY <2>1, <1>3, <1>6, <1>8, <1>9 DEF At, old, new
  <2>3. m - Len(old) = Len(entries)
    BY <2>1, <1>8, <1>9
  <2>4. new[m] = entries[Len(entries)]
    BY <2>1, <2>3, <1>8, <1>9
  <2>5. /\ E(d, t, m)'.change = change
        /\ E(d, t, m)'.before = before /\ E(d, t, m)'.after = after
    BY <2>1, <2>4, <1>2 DEF E, new
  <2>6. \A i, j : At(i, t, j) => Later(i, j, d, m)
    BY <2>1, <1>6, <1>8, <1>9 DEF At, Later, old
  <2>7. \A i, u, j : At(i, u, j)' =>
              \/ At(i, u, j)
              \/ i = d /\ u = t /\ j = m
              \/ E(i, u, j)'.before = None /\ E(i, u, j)'.after = None
    <3> SUFFICES ASSUME NEW i, NEW u, NEW j, At(i, u, j)', ~At(i, u, j),
                        ~(i = d /\ u = t /\ j = m)
                 PROVE  E(i, u, j)'.before = None /\ E(i, u, j)'.after = None
      OBVIOUS
    <3>1. i = depth /\ u = t
      BY <1>3, <1>7 DEF At
    <3>2. j \in DOMAIN new /\ j \notin DOMAIN old /\ j # n
      BY <3>1, <2>1, <1>6 DEF At, new, old
    <3>3. j - Len(old) \in DOMAIN entries /\ j - Len(old) # Len(entries)
      BY <3>2, <1>8, <1>9
    <3>4. new[j].before = None /\ new[j].after = None
      BY <3>2, <3>3, <1>9, <1>2
    <3> QED BY <3>1, <3>4 DEF E, new
  <2> QED BY <2>1, <2>2, <2>5, <2>6, <2>7 DEF NewEntry
<1> QED BY <1>3, <1>5, <1>10, <1>11, LogEntries

LEMMA NamedRows ==
    ASSUME NEW r \in Rows, NEW i, NEW t, NEW j, At(i, t, j), Names(i, t, j, r)
    PROVE  r \in Mentioned
BY DEF At, Names, E, Mentioned

LEMMA FreeRows ==
    ASSUME LinkInv, NEW r \in Free
    PROVE  /\ r \in Rows /\ r # None
           /\ r \notin heap
           /\ \A t \in Tables : r \notin linked[t]
           /\ \A i, t, j : At(i, t, j) => ~Names(i, t, j, r)
<1>1. r \in Rows /\ r \notin heap /\ r \notin Mentioned
  BY DEF Free
<1>2. \A t \in Tables : r \notin linked[t]
  BY <1>1 DEF LinkInv
<1> QED BY <1>1, <1>2, NamedRows, StorageAssumption

\* A logged change keeps the log and the tables in step if the old row leaves
\* the table, or never was in it, and the new one is in the table, or gone.
LEMMA LogStep ==
    ASSUME Inv, tx # <<>>, NEW t \in Tables,
           NEW change, NEW before, NEW after, Fits(change, before, after),
           LogChange(t, change, before, after),
           \A u \in Tables : u # t => linked'[u] = linked[u],
           \A x \in linked'[t] : x \in linked[t] \/ (x = after /\ x # None),
           before # None => before \in linked[t] \cup Free /\ before \notin linked'[t],
           after # None => /\ after \in linked[t] \cup Free
                           /\ after \in linked'[t] \/ after \notin heap',
           \A x \in linked[t] : x \in linked'[t] \/ x = before \/ x \notin heap',
           \A x \in Mentioned : x \in heap' => x \in heap,
           before # None => before # after,
           change = "update" => \A i, u, j : At(i, u, j) => E(i, u, j).after # before
    PROVE  /\ OrderInv' /\ KeepInv' /\ CopyInv' /\ HomeInv' /\ AfterInv'
           /\ tx' \in Seq(Transaction)
<1>1. TypeOK /\ LinkInv /\ OrderInv /\ KeepInv /\ CopyInv /\ HomeInv /\ AfterInv
  BY DEF Inv
<1>2. /\ OrderInv' /\ tx' \in Seq(Transaction)
      /\ \A i, u, j : At(i, u, j) => At(i, u, j)' /\ E(i, u, j)' = E(i, u, j)
  BY <1>1, LogChangeEffect
<1>a. PICK d \in Nat, n \in Nat : NewEntry(t, change, before, after, d, n)
  BY <1>1, LogChangeEffect
<1>3. /\ d = depth
      /\ At(d, t, n)' /\ ~At(d, t, n)
      /\ E(d, t, n)'.change = change
      /\ E(d, t, n)'.before = before
      /\ E(d, t, n)'.after = after
      /\ \A i, j : At(i, t, j) => Later(i, j, d, n)
      /\ \A i, u, j : At(i, u, j)' =>
           \/ At(i, u, j)
           \/ i = d /\ u = t /\ j = n
           \/ E(i, u, j)'.before = None /\ E(i, u, j)'.after = None
  BY <1>a DEF NewEntry
<1>4. /\ \A u \in Tables : linked[u] \subseteq Rows
      /\ None \notin Rows
  BY <1>1, StorageAssumption DEF TypeOK
<1>5. /\ before # None => before \in Rows
      /\ after # None => after \in Rows
  BY DEF Fits
<1>6. \A i, u, j : At(i, u, j) => u \in Tables
  BY DEF At
\* old entries and linked rows
<1>7. \A i, u, j : At(i, u, j) =>
        \A v \in Tables : E(i, u, j).before \notin linked'[v]
  <2> SUFFICES ASSUME NEW i, NEW u, NEW j, At(i, u, j), NEW v \in Tables,
                      E(i, u, j).before \in linked'[v]
               PROVE  FALSE
    OBVIOUS
  <2>1. E(i, u, j).before \notin linked[v]
    BY <1>1 DEF KeepInv
  <2>2. v = t /\ after = E(i, u, j).before /\ after # None
    BY <2>1
  <2>3. after \in Free
    BY <2>1, <2>2
  <2> QED BY <1>1, <2>2, <2>3, FreeRows DEF Names
<1>8. \A v \in Tables : before \notin linked'[v]
  <2> SUFFICES ASSUME NEW v \in Tables, before \in linked'[v]
               PROVE  FALSE
    OBVIOUS
  <2>1. CASE before = None
    BY <2>1, <1>4
  <2>2. CASE before # None
    <3>1. v # t /\ before \in linked[v]
      BY <2>2
    <3>2. before \notin linked[t]
      BY <1>1, <3>1 DEF LinkInv
    <3> QED BY <1>1, <2>2, <3>1, <3>2, FreeRows
  <2> QED BY <2>1, <2>2
<1>9. \A i, u, j : At(i, u, j) /\ before # None => E(i, u, j).before # before
  BY <1>1, FreeRows DEF KeepInv, Names
<1>10. \A u \in Tables : None \notin linked'[u]
  BY <1>4
<1>11. KeepInv'
  <2>1. ASSUME NEW i, NEW u, NEW j, At(i, u, j)', NEW v \in Tables
        PROVE  E(i, u, j)'.before \notin linked'[v]
    BY <2>1, <1>2, <1>3, <1>7, <1>8, <1>10
  <2>2. ASSUME NEW i, NEW u, NEW j, NEW k, NEW v, NEW l,
               At(i, u, j)', At(k, v, l)',
               E(i, u, j)'.before # None,
               E(i, u, j)'.before = E(k, v, l)'.before
        PROVE  i = k /\ u = v /\ j = l
    <3>1. \/ At(i, u, j) /\ E(i, u, j)' = E(i, u, j)
          \/ i = d /\ u = t /\ j = n
      BY <2>2, <1>2, <1>3
    <3>2. \/ At(k, v, l) /\ E(k, v, l)' = E(k, v, l)
          \/ k = d /\ v = t /\ l = n
      BY <2>2, <1>2, <1>3
    <3> QED BY <2>2, <3>1, <3>2, <1>1, <1>3, <1>9 DEF KeepInv
  <2> QED BY <2>1, <2>2 DEF KeepInv
<1>12. \A r \in Rows : r \in {before, after} => r \in linked[t] \cup Free
  BY <1>4
<1>13. HomeInv'
  <2> SUFFICES ASSUME NEW r \in Rows, NEW i, NEW u, NEW j, At(i, u, j)', Names(i, u, j, r)'
               PROVE  /\ \A v \in Tables : r \in linked'[v] => v = u
                      /\ \A k, v, l : At(k, v, l)' /\ Names(k, v, l, r)' => v = u
    BY DEF HomeInv
  <2>1. \A k, v, l : At(k, v, l)' /\ Names(k, v, l, r)' =>
          \/ At(k, v, l) /\ Names(k, v, l, r)
          \/ v = t /\ r \in {before, after}
    BY <1>2, <1>3, <1>4 DEF Names
  <2>2. CASE r \in {before, after}
    <3>1. \A k, v, l : At(k, v, l) /\ Names(k, v, l, r) => v = t
      BY <2>2, <1>1, <1>12, FreeRows DEF HomeInv
    <3>2. \A v \in Tables : r \in linked'[v] => v = t
      <4> SUFFICES ASSUME NEW v \in Tables, r \in linked'[v], v # t
                   PROVE  FALSE
        OBVIOUS
      <4>1. r \in linked[v]
        OBVIOUS
      <4> QED BY <4>1, <2>2, <1>1, <1>12, FreeRows DEF LinkInv
    <3> QED BY <2>1, <3>1, <3>2
  <2>3. CASE r \notin {before, after}
    <3>1. At(i, u, j) /\ Names(i, u, j, r)
      BY <2>1, <2>3
    <3>2. \A v \in Tables : r \in linked'[v] => r \in linked[v]
      BY <2>3
    <3> QED BY <2>1, <2>3, <3>1, <3>2, <1>1 DEF HomeInv
  <2> QED BY <2>2, <2>3
<1>14. AfterInv'
  <2> SUFFICES ASSUME NEW i, NEW u, NEW j, At(i, u, j)', E(i, u, j)'.after # None
               PROVE  \/ E(i, u, j)'.after \in linked'[u]
                      \/ E(i, u, j)'.after \notin heap'
                      \/ \E k, l : /\ At(k, u, l)'
                                   /\ Later(i, j, k, l)
                                   /\ E(k, u, l)'.before = E(i, u, j)'.after
    BY DEF AfterInv, Later
  <2>1. CASE At(i, u, j)
    <3> DEFINE a == E(i, u, j).after
    <3>1. E(i, u, j)'.after = a /\ u \in Tables
      BY <2>1, <1>2, <1>6
    <3>2. a \in Rows /\ a \in Mentioned
      <4>1. E(i, u, j) \in Entry
        BY <2>1, <1>1, EntryType DEF TypeOK
      <4>2. a \in Rows
        BY <4>1, <3>1 DEF Entry
      <4> QED BY <4>2, <2>1, NamedRows DEF Names
    <3>3. CASE a \in linked[u]
      <4>1. CASE a \in linked'[u] \/ a \notin heap'
        BY <4>1, <3>1
      <4>2. CASE a \notin linked'[u] /\ a \in heap'
        <5>1. u = t /\ a = before
          BY <4>2, <3>3, <3>1
        <5>2. Later(i, j, d, n)
          BY <5>1, <2>1, <1>3
        <5> QED BY <5>1, <5>2, <1>3, <3>1
      <4> QED BY <4>1, <4>2
    <3>4. CASE a \notin heap
      BY <3>4, <3>1, <3>2
    <3>5. CASE \E k, l : At(k, u, l) /\ Later(i, j, k, l) /\ E(k, u, l).before = a
      BY <3>5, <3>1, <1>2
    <3> QED BY <3>3, <3>4, <3>5, <2>1, <3>1, <1>1 DEF AfterInv
  <2>2. CASE i = d /\ u = t /\ j = n
    BY <2>2, <1>3
  <2> QED BY <2>1, <2>2, <1>3
<1>15. CopyInv'
  <2> SUFFICES ASSUME NEW i, NEW u, NEW j, NEW k, NEW v, NEW l,
                      At(i, u, j)', At(k, v, l)',
                      E(i, u, j)'.change = "update",
                      E(i, u, j)'.before = E(k, v, l)'.after
               PROVE  FALSE
    BY DEF CopyInv
  <2>1. E(i, u, j)'.before # None
    <3>1. tx'[i] \in Transaction /\ u \in Tables
      BY <1>2 DEF At
    <3>2. tx'[i].log[u] \in Seq(Entry)
      BY <3>1 DEF Transaction
    <3>3. tx'[i].log[u][j] \in Entry
      BY <3>2 DEF At
    <3> QED BY <3>3 DEF Entry, E
  <2>2. \/ At(i, u, j) /\ E(i, u, j)' = E(i, u, j)
        \/ i = d /\ u = t /\ j = n
    BY <2>1, <1>2, <1>3
  <2>3. \/ At(k, v, l) /\ E(k, v, l)' = E(k, v, l)
        \/ k = d /\ v = t /\ l = n
    BY <2>1, <1>2, <1>3
  <2>4. CASE At(i, u, j) /\ E(i, u, j)' = E(i, u, j)
    <3>1. E(i, u, j).before \notin linked[t]
      BY <2>4, <1>1 DEF KeepInv
    <3>2. CASE k = d /\ v = t /\ l = n
      <4>1. E(i, u, j).before = after /\ after # None
        BY <3>2, <2>1, <2>4, <1>3
      <4>2. after \in Free
        BY <4>1, <3>1
      <4> QED BY <4>1, <4>2, <2>4, <1>1, FreeRows DEF Names
    <3> QED BY <3>2, <2>3, <2>4, <1>1 DEF CopyInv
  <2>5. CASE i = d /\ u = t /\ j = n
    BY <2>5, <2>1, <2>3, <1>3
  <2> QED BY <2>2, <2>4, <2>5
<1> QED BY <1>2, <1>11, <1>13, <1>14, <1>15

-----------------------------------------------------------------------------
(* The operations *)

LEMMA NoLog ==
    ASSUME tx' = <<>>
    PROVE  /\ OrderInv' /\ KeepInv' /\ CopyInv' /\ HomeInv' /\ AfterInv'
           /\ tx' \in Seq(Transaction)
<1>1. DOMAIN tx' = {} /\ tx' \in Seq(Transaction)
  OBVIOUS
<1> QED BY <1>1 DEF OrderInv, KeepInv, CopyInv, HomeInv, AfterInv, At

LEMMA SameEntries ==
    ASSUME KeepInv, CopyInv, HomeInv, AfterInv,
           \A i, t, j : At(i, t, j)' <=> At(i, t, j),
           \A i, t, j : At(i, t, j) => E(i, t, j)' = E(i, t, j),
           linked' = linked, heap' = heap
    PROVE  KeepInv' /\ CopyInv' /\ HomeInv' /\ AfterInv'
<1>1. KeepInv'
  BY DEF KeepInv
<1>2. CopyInv'
  BY DEF CopyInv
<1>3. HomeInv'
  BY DEF HomeInv, Names
<1>4. AfterInv'
  BY DEF AfterInv, Later
<1> QED BY <1>1, <1>2, <1>3, <1>4

LEMMA IndexingEffect ==
    ASSUME index \in [Tables -> [Keys -> Rows \cup {None}]],
           NEW t \in Tables, NEW k \in Keys, NEW r \in Rows \cup {None}
    PROVE  /\ Indexing(t, k, r) \in [Tables -> [Keys -> Rows \cup {None}]]
           /\ \A u \in Tables, l \in Keys :
                Indexing(t, k, r)[u][l] =
                  IF t \in Indexed /\ u = t /\ l = k THEN r ELSE index[u][l]
BY DEF Indexing

LEMMA VisibleRows ==
    ASSUME TypeOK, LinkInv, IndexPointsToRows, NEW t \in Tables, NEW r \in Visible(t)
    PROVE  /\ r \in linked[t] /\ r \in heap /\ r \in Rows
           /\ cell[r] \in Data /\ cell[r].key \in Keys
<1>1. r \in linked[t]
  BY DEF Visible, IndexPointsToRows
<1>2. r \in heap /\ r \in Rows
  BY <1>1 DEF LinkInv, TypeOK
<1>3. cell[r] \in Data
  BY <1>2 DEF TypeOK
<1> QED BY <1>1, <1>2, <1>3 DEF Data

LEMMA TakenRow ==
    ASSUME TypeOK, LinkInv, IndexPointsToRows, NEW t \in Tables, NEW k \in Keys,
           Taken(t, k)
    PROVE  /\ index[t][k] \in linked[t] /\ index[t][k] \in heap /\ index[t][k] \in Rows
           /\ cell[index[t][k]].key = k
           /\ t \in Indexed
BY DEF Taken, IndexPointsToRows, LinkInv, TypeOK

\* What does not depend on how a change is logged.
TablesOK ==
    /\ heap \subseteq Rows
    /\ cell \in [heap -> Data]
    /\ linked \in [Tables -> SUBSET Rows]
    /\ index \in [Tables -> [Keys -> Rows \cup {None}]]
    /\ LinkInv
    /\ IndexPointsToRows

LEMMA InsertTables ==
    ASSUME Inv, NEW t \in Tables, NEW r \in Free, NEW d \in Data,
           cell' = With(r, d), linked' = Linking(t, r),
           index' = Indexing(t, d.key, r)
    PROVE  TablesOK'
<1>1. /\ TypeOK /\ LinkInv /\ IndexPointsToRows
      /\ r \in Rows /\ r \notin heap /\ r # None /\ d.key \in Keys
      /\ \A u \in Tables : r \notin linked[u]
  BY FreeRows DEF Inv, Data
<1>2. /\ heap' = heap \cup {r} /\ cell'[r] = d
      /\ \A x \in heap : cell'[x] = cell[x]
  BY <1>1 DEF With, heap
<1>3. heap' \subseteq Rows /\ cell' \in [heap' -> Data]
  BY <1>1, <1>2 DEF With, heap, TypeOK
<1>4. /\ linked' \in [Tables -> SUBSET Rows]
      /\ linked'[t] = linked[t] \cup {r}
      /\ \A u \in Tables : u # t => linked'[u] = linked[u]
  BY <1>1 DEF Linking, TypeOK
<1>5. /\ index' \in [Tables -> [Keys -> Rows \cup {None}]]
      /\ \A u \in Tables, l \in Keys :
           index'[u][l] = IF t \in Indexed /\ u = t /\ l = d.key THEN r ELSE index[u][l]
  BY <1>1, IndexingEffect DEF TypeOK
<1>6. LinkInv'
  BY <1>1, <1>2, <1>4 DEF LinkInv
<1>7. IndexPointsToRows'
  BY <1>1, <1>2, <1>4, <1>5 DEF IndexPointsToRows, LinkInv
<1> QED BY <1>3, <1>4, <1>5, <1>6, <1>7 DEF TablesOK, heap

LEMMA ReplaceTables ==
    ASSUME Inv, NEW t \in Tables, NEW r \in Free, NEW d \in Data, Taken(t, d.key),
           cell' = With(r, d),
           linked' = [linked EXCEPT ![t] = (@ \ {index[t][d.key]}) \cup {r}],
           index' = Indexing(t, d.key, r)
    PROVE  TablesOK'
<1>1. /\ TypeOK /\ LinkInv /\ IndexPointsToRows
      /\ r \in Rows /\ r \notin heap /\ r # None /\ d.key \in Keys
      /\ \A u \in Tables : r \notin linked[u]
  BY FreeRows DEF Inv, Data
<1>2. /\ heap' = heap \cup {r} /\ cell'[r] = d
      /\ \A x \in heap : cell'[x] = cell[x]
  BY <1>1 DEF With, heap
<1>3. heap' \subseteq Rows /\ cell' \in [heap' -> Data]
  BY <1>1, <1>2 DEF With, heap, TypeOK
<1>4. /\ linked' \in [Tables -> SUBSET Rows]
      /\ linked'[t] = (linked[t] \ {index[t][d.key]}) \cup {r}
      /\ \A u \in Tables : u # t => linked'[u] = linked[u]
  BY <1>1 DEF TypeOK
<1>5. /\ index' \in [Tables -> [Keys -> Rows \cup {None}]]
      /\ \A u \in Tables, l \in Keys :
           index'[u][l] = IF t \in Indexed /\ u = t /\ l = d.key THEN r ELSE index[u][l]
  BY <1>1, IndexingEffect DEF TypeOK
<1>6. LinkInv'
  BY <1>1, <1>2, <1>4 DEF LinkInv
<1>7. t \in Indexed /\ cell[index[t][d.key]].key = d.key
  BY <1>1, TakenRow
<1>8. IndexPointsToRows'
  <2> SUFFICES ASSUME NEW u \in Tables, NEW k \in Keys, index'[u][k] # None
               PROVE  index'[u][k] \in linked'[u] /\ cell'[index'[u][k]].key = k
    BY DEF IndexPointsToRows
  <2>1. CASE u = t /\ k = d.key
    BY <2>1, <1>2, <1>4, <1>5, <1>7
  <2>2. CASE ~(u = t /\ k = d.key)
    <3>1. /\ index'[u][k] = index[u][k]
          /\ index[u][k] \in linked[u] /\ index[u][k] \in heap
          /\ cell[index[u][k]].key = k
      BY <2>2, <1>1, <1>5 DEF IndexPointsToRows, LinkInv
    <3>2. index[u][k] \in linked'[u]
      BY <2>2, <3>1, <1>4, <1>7
    <3> QED BY <3>1, <3>2, <1>2
  <2> QED BY <2>1, <2>2
<1> QED BY <1>3, <1>4, <1>5, <1>6, <1>8 DEF TablesOK, heap

LEMMA OutsideTables ==
    ASSUME Inv, NEW t \in Tables, NEW r \in Free, NEW d \in Data,
           cell' = With(r, d), linked' = Linking(t, r), index' = index
    PROVE  TablesOK'
<1>1. /\ TypeOK /\ LinkInv /\ IndexPointsToRows
      /\ r \in Rows /\ r \notin heap /\ r # None
      /\ \A u \in Tables : r \notin linked[u]
  BY FreeRows DEF Inv
<1>2. /\ heap' = heap \cup {r} /\ cell'[r] = d
      /\ \A x \in heap : cell'[x] = cell[x]
  BY <1>1 DEF With, heap
<1>3. heap' \subseteq Rows /\ cell' \in [heap' -> Data]
  BY <1>1, <1>2 DEF With, heap, TypeOK
<1>4. /\ linked' \in [Tables -> SUBSET Rows]
      /\ linked'[t] = linked[t] \cup {r}
      /\ \A u \in Tables : u # t => linked'[u] = linked[u]
  BY <1>1 DEF Linking, TypeOK
<1>5. LinkInv'
  BY <1>1, <1>2, <1>4 DEF LinkInv
<1>6. IndexPointsToRows'
  BY <1>1, <1>2, <1>4 DEF IndexPointsToRows, LinkInv
<1>7. index' \in [Tables -> [Keys -> Rows \cup {None}]]
  BY <1>1 DEF TypeOK
<1> QED BY <1>3, <1>4, <1>5, <1>6, <1>7 DEF TablesOK, heap

LEMMA ChangingEffect ==
    ASSUME Inv, NEW r \in heap, NEW d \in Data, NEW c \in Copies
    PROVE  /\ c # None => c \in Free
           /\ c # r
           /\ DOMAIN Changing(r, d, c) = heap \cup ({c} \ {None})
           /\ DOMAIN Changing(r, d, c) \subseteq Rows
           /\ Changing(r, d, c) \in [DOMAIN Changing(r, d, c) -> Data]
           /\ Changing(r, d, c)[r] = d
           /\ c # None => Changing(r, d, c)[c] = cell[r]
           /\ \A x \in heap : x # r => Changing(r, d, c)[x] = cell[x]
<1>1. /\ heap \subseteq Rows /\ cell \in [heap -> Data] /\ r \in Rows /\ cell[r] \in Data
      /\ None \notin Rows
  BY StorageAssumption DEF Inv, TypeOK
<1>2. c = None \/ c \in Free
  BY DEF Copies
<1>3. c # None => c \in Free /\ c \notin heap /\ c \in Rows
  BY <1>2 DEF Free
<1> QED BY <1>1, <1>3 DEF Changing

LEMMA UpdateTables ==
    ASSUME Inv, NEW t \in Tables, NEW r \in linked[t], NEW d \in Data, NEW c \in Copies,
           d.key # cell[r].key => ~Taken(t, d.key),
           cell' = Changing(r, d, c),
           linked' = linked,
           index' = IF t \in Indexed
                    THEN [index EXCEPT ![t] =
                            [[@ EXCEPT ![cell[r].key] = None] EXCEPT ![d.key] = r]]
                    ELSE index
    PROVE  TablesOK'
<1>1. /\ TypeOK /\ LinkInv /\ IndexPointsToRows /\ EmptyInv
      /\ r \in heap /\ r \in Rows
  BY DEF Inv, LinkInv, TypeOK
<1>2. /\ heap' = heap \cup ({c} \ {None}) /\ heap' \subseteq Rows
      /\ cell' \in [heap' -> Data]
      /\ cell'[r] = d
      /\ \A x \in heap : x # r => cell'[x] = cell[x]
  <2>1. /\ DOMAIN Changing(r, d, c) = heap \cup ({c} \ {None})
        /\ DOMAIN Changing(r, d, c) \subseteq Rows
        /\ Changing(r, d, c) \in [DOMAIN Changing(r, d, c) -> Data]
        /\ Changing(r, d, c)[r] = d
        /\ \A x \in heap : x # r => Changing(r, d, c)[x] = cell[x]
    BY <1>1, ChangingEffect
  <2>2. heap' = DOMAIN Changing(r, d, c)
    BY DEF heap
  <2> QED BY <2>1, <2>2
<1>3. cell[r].key \in Keys /\ d.key \in Keys
  BY <1>1 DEF TypeOK, Data
<1>4. /\ index' \in [Tables -> [Keys -> Rows \cup {None}]]
      /\ \A u \in Tables, l \in Keys :
           index'[u][l] = IF t \in Indexed /\ u = t /\ l = d.key THEN r ELSE
                          IF t \in Indexed /\ u = t /\ l = cell[r].key THEN None
                          ELSE index[u][l]
  BY <1>1, <1>3 DEF TypeOK
<1>5. LinkInv'
  BY <1>1, <1>2 DEF LinkInv
<1>6. IndexPointsToRows'
  <2> SUFFICES ASSUME NEW u \in Tables, NEW k \in Keys, index'[u][k] # None
               PROVE  index'[u][k] \in linked[u] /\ cell'[index'[u][k]].key = k
    BY DEF IndexPointsToRows
  <2>1. CASE t \in Indexed /\ u = t /\ k = d.key
    BY <2>1, <1>2, <1>4
  <2>2. CASE ~(t \in Indexed /\ u = t /\ k = d.key)
    <3>1. /\ index'[u][k] = index[u][k]
          /\ ~(t \in Indexed /\ u = t /\ k = cell[r].key)
      BY <2>2, <1>4
    <3>2. /\ index[u][k] \in linked[u] /\ index[u][k] \in heap
          /\ cell[index[u][k]].key = k
      BY <3>1, <1>1 DEF IndexPointsToRows, LinkInv
    <3>3. index[u][k] # r
      BY <3>1, <3>2, <1>1 DEF LinkInv, EmptyInv
    <3> QED BY <3>1, <3>2, <3>3, <1>2
  <2> QED BY <2>1, <2>2
<1> QED BY <1>1, <1>2, <1>4, <1>5, <1>6 DEF TablesOK, heap, TypeOK

\* The row leaves its table; whether it is freed does not matter.
LEMMA DropTables ==
    ASSUME Inv, NEW t \in Tables, NEW r \in linked[t],
           heap \ {r} \subseteq heap', heap' \subseteq Rows, cell' \in [heap' -> Data],
           \A x \in heap \ {r} : cell'[x] = cell[x],
           linked' = Unlinking(t, r),
           index' = Unindexing(t, cell[r].key)
    PROVE  TablesOK'
<1>1. /\ TypeOK /\ LinkInv /\ IndexPointsToRows /\ EmptyInv
      /\ r \in heap /\ r \in Rows
  BY DEF Inv, LinkInv, TypeOK
<1>2. cell[r].key \in Keys
  BY <1>1 DEF TypeOK, Data
<1>3. /\ linked' \in [Tables -> SUBSET Rows]
      /\ linked'[t] = linked[t] \ {r}
      /\ \A u \in Tables : u # t => linked'[u] = linked[u]
  BY <1>1 DEF Unlinking, TypeOK
<1>4. /\ index' \in [Tables -> [Keys -> Rows \cup {None}]]
      /\ \A u \in Tables, l \in Keys :
           index'[u][l] = IF t \in Indexed /\ u = t /\ l = cell[r].key THEN None
                          ELSE index[u][l]
  BY <1>1, <1>2, IndexingEffect DEF TypeOK, Unindexing
<1>5. LinkInv'
  BY <1>1, <1>3 DEF LinkInv
<1>6. IndexPointsToRows'
  <2> SUFFICES ASSUME NEW u \in Tables, NEW k \in Keys, index'[u][k] # None
               PROVE  index'[u][k] \in linked'[u] /\ cell'[index'[u][k]].key = k
    BY DEF IndexPointsToRows
  <2>1. /\ index'[u][k] = index[u][k]
        /\ ~(t \in Indexed /\ u = t /\ k = cell[r].key)
    BY <1>4
  <2>2. /\ index[u][k] \in linked[u] /\ index[u][k] \in heap
        /\ cell[index[u][k]].key = k
    BY <2>1, <1>1 DEF IndexPointsToRows, LinkInv
  <2>3. index[u][k] # r
    BY <2>1, <2>2, <1>1 DEF LinkInv, EmptyInv
  <2>4. index[u][k] \in linked'[u]
    BY <2>2, <2>3, <1>3
  <2> QED BY <2>1, <2>2, <2>3, <2>4
<1> QED BY <1>3, <1>4, <1>5, <1>6 DEF TablesOK, heap, TypeOK

\* The rest of the invariant, after a change that was logged, if at all.
LEMMA OperationStep ==
    ASSUME Inv, NEW t \in Tables, TablesOK', EmptyInv',
           NEW change, NEW before, NEW after,
           LogChange(t, change, before, after),
           tx # <<>> => /\ Fits(change, before, after)
                        /\ before # None =>
                             before \in linked[t] \cup Free /\ before \notin linked'[t]
                        /\ after # None => /\ after \in linked[t] \cup Free
                                           /\ after \in linked'[t] \/ after \notin heap'
                        /\ \A x \in linked'[t] : x \in linked[t] \/ (x = after /\ x # None)
                        /\ \A x \in linked[t] :
                             x \in linked'[t] \/ x = before \/ x \notin heap'
                        /\ \A x \in Mentioned : x \in heap' => x \in heap
                        /\ before # None => before # after
                        /\ change = "update" =>
                             \A i, u, j : At(i, u, j) => E(i, u, j).after # before,
           \A u \in Tables : u # t => linked'[u] = linked[u],
           phase' \in {"idle", "clear"}, table' \in Tables \cup {None},
           phase' = "clear" => table' \in Tables,
           started' = started, broken' = broken
    PROVE  Inv'
<1>1. stamp' \in [Tables -> Nat] /\ tx' \in Seq(Transaction)
      /\ OrderInv' /\ KeepInv' /\ CopyInv' /\ HomeInv' /\ AfterInv'
  <2>1. CASE tx = <<>>
    <3>1. tx' = <<>> /\ stamp' = stamp
      BY <2>1 DEF LogChange
    <3> QED BY <3>1, NoLog DEF Inv, TypeOK
  <2>2. CASE tx # <<>>
    <3>1. /\ OrderInv' /\ KeepInv' /\ CopyInv' /\ HomeInv' /\ AfterInv'
          /\ tx' \in Seq(Transaction)
      BY <2>2, LogStep
    <3>2. stamp' \in [Tables -> Nat]
      BY <2>2, LogChangeEffect DEF Inv
    <3> QED BY <3>1, <3>2
  <2> QED BY <2>1, <2>2
<1>2. TypeOK'
  BY <1>1 DEF TablesOK, TypeOK, Inv
<1> QED BY <1>1, <1>2 DEF Inv, TablesOK

LEMMA InsertRowInv ==
    ASSUME Inv, NEW t \in Tables, NEW r \in Rows, NEW d \in Data, InsertRow(t, r, d)
    PROVE  Inv'
<1>1. /\ r \in Free /\ r \notin heap /\ r \in Rows /\ r # None
      /\ phase = "idle" /\ phase' = phase /\ table' = table
      /\ LogChange(t, "insert", None, r)
  BY FreeRows DEF InsertRow, Inv, MayChange, loopVars
<1>2. TablesOK'
  BY <1>1, InsertTables DEF InsertRow
<1>3. /\ linked'[t] = linked[t] \cup {r}
      /\ \A u \in Tables : u # t => linked'[u] = linked[u]
  BY DEF InsertRow, Linking, Inv, TypeOK
<1>4. heap' = heap \cup {r}
  BY <1>1 DEF InsertRow, With, heap
<1>5. EmptyInv'
  BY <1>1, IndexingEffect DEF InsertRow, EmptyInv, Inv, TypeOK, Data
<1>6. Fits("insert", None, r)
  BY <1>1 DEF Fits
<1>7. \A x \in Mentioned : x \in heap' => x \in heap
  BY <1>1, <1>4 DEF Free
<1>8. started' = started /\ broken' = broken /\ table \in Tables \cup {None}
  BY DEF InsertRow, loopVars, Inv, TypeOK
<1> QED BY <1>1, <1>2, <1>3, <1>4, <1>5, <1>6, <1>7, <1>8, OperationStep

LEMMA ReplaceRowInv ==
    ASSUME Inv, "replace_own" \notin Habits,
           NEW t \in Tables, NEW r \in Rows, NEW d \in Data, ReplaceRow(t, r, d)
    PROVE  Inv'
<1> DEFINE old == index[t][d.key]
<1>1. /\ r \in Free /\ r \notin heap /\ r \in Rows /\ r # None
      /\ \A u \in Tables : r \notin linked[u]
      /\ phase = "idle" /\ phase' = phase /\ table' = table
      /\ LogChange(t, "update", old, r)
      /\ Taken(t, d.key) /\ d.key \in Keys
  BY FreeRows DEF ReplaceRow, Inv, MayChange, loopVars, Data
<1>2. /\ cell' = With(r, d)
      /\ linked' = [linked EXCEPT ![t] = (@ \ {old}) \cup {r}]
      /\ index' = Indexing(t, d.key, r)
  BY DEF ReplaceRow
<1>3. old \in linked[t] /\ old \in Rows /\ old # None
  BY <1>1, TakenRow, StorageAssumption DEF Inv
<1>4. TablesOK'
  BY <1>1, <1>2, ReplaceTables
<1>5. /\ linked'[t] = (linked[t] \ {old}) \cup {r}
      /\ \A u \in Tables : u # t => linked'[u] = linked[u]
  BY <1>2 DEF Inv, TypeOK
<1>6. heap' = heap \cup {r}
  BY <1>1, <1>2 DEF With, heap
<1>7. EmptyInv'
  BY <1>1, <1>2, IndexingEffect DEF EmptyInv, Inv, TypeOK
<1>8. Fits("update", old, r)
  BY <1>1, <1>3 DEF Fits
<1>9. \A x \in Mentioned : x \in heap' => x \in heap
  BY <1>1, <1>6 DEF Free
<1>10. started' = started /\ broken' = broken /\ table \in Tables \cup {None}
  BY DEF ReplaceRow, loopVars, Inv, TypeOK
<1>11. old \notin linked'[t] /\ r \in linked'[t]
  BY <1>1, <1>3, <1>5
<1>12. \A x \in linked'[t] : x \in linked[t] \/ (x = r /\ x # None)
  BY <1>1, <1>5
<1>13. \A x \in linked[t] : x \in linked'[t] \/ x = old \/ x \notin heap'
  BY <1>5
<1>14. \A i, u, j : At(i, u, j) => E(i, u, j).after # old
  <2>1. ~Own(t, old)
    BY DEF ReplaceRow
  <2> SUFFICES ASSUME NEW i, NEW u, NEW j, At(i, u, j), E(i, u, j).after = old
               PROVE  FALSE
    OBVIOUS
  <2>2. t = u
    BY <1>3 DEF Inv, HomeInv, Names
  <2> QED BY <2>1, <2>2 DEF Own, At, E
<1>15. old # r
  BY <1>1, <1>3
<1> HIDE DEF old
<1> QED BY <1>1, <1>3, <1>4, <1>5, <1>7, <1>8, <1>9, <1>10, <1>11, <1>12, <1>13, <1>14,
     <1>15, OperationStep

LEMMA ReplaceOutsideInv ==
    ASSUME Inv, NEW t \in Tables, NEW r \in Rows, NEW d \in Data, ReplaceOutside(t, r, d)
    PROVE  Inv'
<1>1. TablesOK'
  BY OutsideTables DEF ReplaceOutside
<1>2. tx' = <<>>
  BY DEF ReplaceOutside
<1>3. /\ OrderInv' /\ KeepInv' /\ CopyInv' /\ HomeInv' /\ AfterInv'
      /\ tx' \in Seq(Transaction)
  BY <1>2, NoLog
<1>4. EmptyInv'
  BY DEF ReplaceOutside, EmptyInv, Inv, loopVars
<1>5. TypeOK'
  BY <1>1, <1>3 DEF ReplaceOutside, TypeOK, TablesOK, loopVars, Inv, MayChange
<1> QED BY <1>1, <1>3, <1>4, <1>5 DEF Inv, TablesOK

LEMMA UpdateRowInv ==
    ASSUME Inv, NEW t \in Tables, NEW r \in Rows, NEW d \in Data,
           NEW c \in Rows \cup {None}, UpdateRow(t, r, d, c)
    PROVE  Inv'
<1>1. /\ r \in linked[t] /\ r \in heap /\ r \in Rows /\ r # None
      /\ cell[r].key \in Keys /\ d.key \in Keys
      /\ c \in Copies
  BY VisibleRows, StorageAssumption DEF UpdateRow, Inv, Data
<1>2. /\ phase = "idle" /\ phase' = phase /\ table' = table
      /\ LogChange(t, "update", c, r)
      /\ cell' = Changing(r, d, c) /\ linked' = linked
  BY DEF UpdateRow, MayChange, loopVars
<1>3. index' = IF t \in Indexed
               THEN [index EXCEPT ![t] =
                       [[@ EXCEPT ![cell[r].key] = None] EXCEPT ![d.key] = r]]
               ELSE index
  BY DEF UpdateRow
<1>4. d.key # cell[r].key => ~Taken(t, d.key)
  BY DEF UpdateRow
<1>5. TablesOK'
  BY <1>1, <1>2, <1>3, <1>4, UpdateTables
<1>6. /\ c # None => c \in Free
      /\ DOMAIN Changing(r, d, c) = heap \cup ({c} \ {None})
  BY <1>1, ChangingEffect
<1>7. heap' = heap \cup ({c} \ {None})
  BY <1>2, <1>6 DEF heap
<1>8. EmptyInv'
  BY <1>1, <1>2, <1>3 DEF EmptyInv, Inv, TypeOK
<1>9. tx # <<>> => Fits("update", c, r) /\ c \in Free
  BY <1>1, StorageAssumption DEF Fits, Copies, Free
<1>10. \A x \in Mentioned : x \in heap' => x \in heap
  BY <1>6, <1>7 DEF Free
<1>11. started' = started /\ broken' = broken /\ table \in Tables \cup {None}
  BY DEF UpdateRow, loopVars, Inv, TypeOK
<1>12. c # None => c \notin linked'[t]
  BY <1>2, <1>6, FreeRows DEF Inv
<1>13. c # None => c # r
  BY <1>1, ChangingEffect
<1>14. tx # <<>> => \A i, u, j : At(i, u, j) => E(i, u, j).after # c
  BY <1>8, <1>9, FreeRows DEF Inv, Names
<1> QED BY <1>1, <1>2, <1>5, <1>6, <1>8, <1>9, <1>10, <1>11, <1>12, <1>13, <1>14, OperationStep

LEMMA UpdateOntoTakenInv ==
    ASSUME Inv, NEW t \in Tables, NEW r \in Rows, NEW d \in Data,
           NEW c \in Rows \cup {None}, UpdateOntoTaken(t, r, d, c)
    PROVE  Inv'
<1>1. /\ r \in linked[t] /\ r \in heap /\ r \in Rows /\ r # None
      /\ cell[r].key \in Keys
      /\ c \in Copies
  BY VisibleRows, StorageAssumption DEF UpdateOntoTaken, Inv
<1>2. /\ phase = "idle" /\ phase' = phase /\ table' = table
      /\ LogChange(t, "update", c, r)
      /\ linked' = Unlinking(t, r)
      /\ index' = Unindexing(t, cell[r].key)
      /\ cell' = [x \in DOMAIN Changing(r, d, c) \ {r} |-> Changing(r, d, c)[x]]
  BY DEF UpdateOntoTaken, MayChange, loopVars
<1>3. /\ c # None => c \in Free
      /\ DOMAIN Changing(r, d, c) = heap \cup ({c} \ {None})
      /\ DOMAIN Changing(r, d, c) \subseteq Rows
      /\ Changing(r, d, c) \in [DOMAIN Changing(r, d, c) -> Data]
      /\ \A x \in heap : x # r => Changing(r, d, c)[x] = cell[x]
  <2>1. r \in heap /\ c \in Copies
    BY <1>1
  <2>2. \A x \in heap : x # r => Changing(r, d, c)[x] = cell[x]
    <3> SUFFICES ASSUME NEW x \in heap, x # r
                 PROVE  Changing(r, d, c)[x] = cell[x]
      OBVIOUS
    <3>1. x \in heap \cup ({c} \ {None}) /\ x # c
      BY <2>1, StorageAssumption DEF Copies, Free, Inv, TypeOK
    <3> QED BY <3>1 DEF Changing
  <2>3. /\ DOMAIN Changing(r, d, c) \subseteq Rows
        /\ Changing(r, d, c) \in [DOMAIN Changing(r, d, c) -> Data]
    BY <2>1, ChangingEffect
  <2>4. /\ c # None => c \in Free
        /\ DOMAIN Changing(r, d, c) = heap \cup ({c} \ {None})
    BY <2>1, ChangingEffect
  <2> QED BY <2>2, <2>3, <2>4
<1>4. /\ heap' = (heap \cup ({c} \ {None})) \ {r}
      /\ heap' \subseteq Rows
      /\ cell' \in [heap' -> Data]
      /\ \A x \in heap \ {r} : cell'[x] = cell[x]
  <2>1. heap' = DOMAIN cell'
    BY DEF heap
  <2> QED BY <1>2, <1>3, <2>1
<1>5. TablesOK'
  BY <1>1, <1>2, <1>4, DropTables
<1>6. /\ linked'[t] = linked[t] \ {r}
      /\ \A u \in Tables : u # t => linked'[u] = linked[u]
  BY <1>2 DEF Unlinking, Inv, TypeOK
<1>7. EmptyInv'
  BY <1>1, <1>2, IndexingEffect DEF EmptyInv, Inv, TypeOK, Unindexing
<1>8. tx # <<>> => Fits("update", c, r) /\ c \in Free
  BY <1>1, StorageAssumption DEF Fits, Copies, Free
<1>9. \A x \in Mentioned : x \in heap' => x \in heap
  BY <1>3, <1>4 DEF Free
<1>10. started' = started /\ broken' = broken /\ table \in Tables \cup {None}
  BY DEF UpdateOntoTaken, loopVars, Inv, TypeOK
<1>11. c # None => c \notin linked'[t]
  BY <1>3, <1>6, FreeRows DEF Inv
<1>12. r \notin heap'
  BY <1>4
<1>13. c # None => c # r
  BY <1>1, ChangingEffect
<1>14. tx # <<>> => \A i, u, j : At(i, u, j) => E(i, u, j).after # c
  BY <1>8, <1>9, FreeRows DEF Inv, Names
<1> QED
  BY <1>1, <1>2, <1>3, <1>5, <1>6, <1>7, <1>8, <1>9, <1>10, <1>11, <1>12, <1>13, <1>14, OperationStep

LEMMA DroppingEffect ==
    ASSUME Inv, NEW t \in Tables, NEW r \in linked[t], cell' = Dropping(r)
    PROVE  /\ heap' = IF tx = <<>> THEN heap \ {r} ELSE heap
           /\ heap' \subseteq Rows /\ cell' \in [heap' -> Data]
           /\ \A x \in heap \ {r} : cell'[x] = cell[x]
BY DEF Dropping, Without, heap, Inv, TypeOK

LEMMA DeleteRowInv ==
    ASSUME Inv, NEW t \in Tables, NEW r \in Rows, DeleteRow(t, r)
    PROVE  Inv'
<1>1. /\ r \in linked[t] /\ r \in heap /\ r \in Rows /\ r # None
      /\ cell[r].key \in Keys
  BY VisibleRows, StorageAssumption DEF DeleteRow, Inv
<1>2. /\ phase = "idle" /\ phase' = phase /\ table' = table
      /\ LogChange(t, "delete", r, None)
      /\ linked' = Unlinking(t, r)
      /\ index' = Unindexing(t, cell[r].key)
      /\ cell' = Dropping(r)
  BY DEF DeleteRow, MayChange, loopVars
<1>3. /\ heap' = IF tx = <<>> THEN heap \ {r} ELSE heap
      /\ heap' \subseteq Rows /\ cell' \in [heap' -> Data]
      /\ \A x \in heap \ {r} : cell'[x] = cell[x]
  BY <1>1, <1>2, DroppingEffect
<1>4. TablesOK'
  <2>1. heap \ {r} \subseteq heap'
    BY <1>3
  <2> QED BY <1>1, <1>2, <1>3, <2>1, DropTables
<1>5. /\ linked'[t] = linked[t] \ {r}
      /\ \A u \in Tables : u # t => linked'[u] = linked[u]
  BY <1>2 DEF Unlinking, Inv, TypeOK
<1>6. EmptyInv'
  BY <1>1, <1>2, IndexingEffect DEF EmptyInv, Inv, TypeOK, Unindexing
<1>7. Fits("delete", r, None)
  BY <1>1 DEF Fits
<1>8. started' = started /\ broken' = broken /\ table \in Tables \cup {None}
  BY DEF DeleteRow, loopVars, Inv, TypeOK
<1> QED BY <1>1, <1>2, <1>3, <1>4, <1>5, <1>6, <1>7, <1>8, OperationStep

LEMMA ClearInv ==
    ASSUME Inv, NEW t \in Tables, Clear(t)
    PROVE  Inv'
<1>1. /\ phase = "idle" /\ phase' = "clear" /\ table' = t
      /\ tx' = tx /\ linked' = linked /\ cell' = cell /\ stamp' = stamp
      /\ started' = started /\ broken' = broken
  BY DEF Clear, MayChange
<1>2. /\ index' \in [Tables -> [Keys -> Rows \cup {None}]]
      /\ \A u \in Tables, l \in Keys :
           index'[u][l] = IF t \in Indexed /\ u = t THEN None ELSE index[u][l]
  BY DEF Clear, Inv, TypeOK
<1>3. TypeOK'
  BY <1>1, <1>2 DEF Inv, TypeOK, heap
<1>4. IndexPointsToRows'
  BY <1>1, <1>2 DEF Inv, IndexPointsToRows
<1>5. EmptyInv'
  BY <1>1, <1>2 DEF Inv, EmptyInv
<1>6. OrderInv' /\ LinkInv'
  BY <1>1 DEF Inv, OrderInv, LinkInv, heap
<1>7. KeepInv' /\ CopyInv' /\ HomeInv' /\ AfterInv'
  BY <1>1, SameEntries DEF At, E, heap, Inv
<1> QED BY <1>3, <1>4, <1>5, <1>6, <1>7 DEF Inv

LEMMA ClearRowInv ==
    ASSUME Inv, NEW r \in Rows, ClearRow(r)
    PROVE  Inv'
<1> DEFINE t == table
<1>1. /\ phase = "clear" /\ t \in Tables
      /\ r \in linked[t] /\ r \in heap /\ r # None
      /\ cell[r].key \in Keys
  <2>1. phase = "clear" /\ t \in Tables /\ r \in linked[t]
    BY DEF ClearRow, Inv, TypeOK
  <2>2. r \in heap
    BY <2>1 DEF Inv, LinkInv
  <2> QED BY <2>1, <2>2, StorageAssumption DEF Inv, TypeOK, Data
<1>2. /\ LogChange(t, "delete", r, None)
      /\ linked' = Unlinking(t, r)
      /\ cell' = Dropping(r)
      /\ started' = started /\ broken' = broken
      /\ index' = index
      /\ \/ phase' = "idle" /\ table' = None
         \/ phase' = phase /\ table' = table
  BY DEF ClearRow
<1>3. index' = Unindexing(t, cell[r].key)
  <2>1. index[t][cell[r].key] = None
    BY <1>1 DEF Inv, EmptyInv
  <2> QED BY <1>1, <1>2, <2>1 DEF Unindexing, Indexing, Inv, TypeOK
<1>4. /\ heap' = IF tx = <<>> THEN heap \ {r} ELSE heap
      /\ heap' \subseteq Rows /\ cell' \in [heap' -> Data]
      /\ \A x \in heap \ {r} : cell'[x] = cell[x]
  BY <1>1, <1>2, DroppingEffect
<1>5. TablesOK'
  <2>1. heap \ {r} \subseteq heap'
    BY <1>4
  <2> QED BY <1>1, <1>2, <1>3, <1>4, <2>1, DropTables
<1>6. /\ linked'[t] = linked[t] \ {r}
      /\ \A u \in Tables : u # t => linked'[u] = linked[u]
  BY <1>1, <1>2 DEF Unlinking, Inv, TypeOK
<1>7. EmptyInv'
  BY <1>1, <1>2 DEF EmptyInv, Inv
<1>8. Fits("delete", r, None)
  BY <1>1 DEF Fits
<1> HIDE DEF t
<1>9. /\ phase' \in {"idle", "clear"} /\ table' \in Tables \cup {None}
      /\ phase' = "clear" => table' \in Tables
  BY <1>1, <1>2 DEF t
<1> QED BY <1>1, <1>2, <1>4, <1>5, <1>6, <1>7, <1>8, <1>9, OperationStep

-----------------------------------------------------------------------------
(* Transactions *)

LEMMA BeginInv ==
    ASSUME Inv, Begin
    PROVE  Inv'
<1> DEFINE new == [order |-> <<>>,
                   log   |-> [t \in Tables |-> <<>>],
                   found |-> [t \in Tables |-> Found(t)]]
<1>1. /\ tx' = Append(tx, new)
      /\ cell' = cell /\ linked' = linked /\ index' = index /\ stamp' = stamp
      /\ phase' = phase /\ table' = table /\ started' = started /\ broken' = broken
      /\ phase = "idle"
  BY DEF Begin, rowVars, loopVars
<1>2. tx \in Seq(Transaction)
  BY DEF Inv, TypeOK
<1>3. new \in Transaction
  <2>1. \A t \in Tables : Found(t) \in Snapshot
    BY FoundType DEF Inv, TypeOK
  <2>2. <<>> \in Seq(Tables) /\ <<>> \in Seq(Entry)
    OBVIOUS
  <2> QED BY <2>1, <2>2 DEF Transaction
<1>4. new.order = <<>> /\ \A t \in Tables : new.log[t] = <<>>
  OBVIOUS
<1> HIDE DEF new
<1>5. /\ tx' \in Seq(Transaction)
      /\ \A i \in DOMAIN tx : i \in DOMAIN tx' /\ tx'[i] = tx[i]
      /\ \A i \in DOMAIN tx' : i \in DOMAIN tx \/ tx'[i] = new
  BY <1>1, <1>2, <1>3
<1>6. \A i, t, j : At(i, t, j)' <=> At(i, t, j)
  BY <1>4, <1>5 DEF At
<1>7. \A i, t, j : At(i, t, j) => E(i, t, j)' = E(i, t, j)
  BY <1>5 DEF At, E
<1>8. KeepInv' /\ CopyInv' /\ HomeInv' /\ AfterInv'
  BY <1>1, <1>6, <1>7, SameEntries DEF Inv, heap
<1>9. OrderInv'
  BY <1>4, <1>5 DEF Inv, OrderInv
<1>10. TypeOK' /\ LinkInv' /\ IndexPointsToRows' /\ EmptyInv'
  BY <1>1, <1>5 DEF Inv, TypeOK, LinkInv, IndexPointsToRows, EmptyInv, heap
<1> QED BY <1>8, <1>9, <1>10 DEF Inv

LEMMA EndInv ==
    ASSUME Inv, End, phase \in {"commit", "rollback"}
    PROVE  Inv'
<1>1. /\ Top.order = <<>>
      /\ tx' = Front(tx) /\ phase' = "idle"
      /\ cell' = cell /\ linked' = linked /\ index' = index /\ stamp' = stamp
      /\ table' = table /\ started' \in BOOLEAN /\ broken' = broken
  BY DEF End, rowVars
<1>2. tx \in Seq(Transaction) /\ tx # <<>>
  BY DEF Inv, TypeOK
<1>3. depth \in Nat \ {0} /\ DOMAIN tx = 1..depth
  BY <1>2, TopType
<1>4. /\ tx' \in Seq(Transaction)
      /\ DOMAIN tx' = 1..(depth - 1)
      /\ \A i \in 1..(depth - 1) : tx'[i] = tx[i]
  BY <1>1, <1>2, <1>3 DEF Front, depth
<1>5. \A t \in Tables : tx[depth].log[t] = <<>>
  BY <1>1, <1>3 DEF Inv, OrderInv, Top
<1>6. \A i, t, j : At(i, t, j)' <=> At(i, t, j)
  BY <1>3, <1>4, <1>5 DEF At
<1>7. \A i, t, j : At(i, t, j) => E(i, t, j)' = E(i, t, j)
  BY <1>3, <1>4, <1>5 DEF At, E
<1>8. KeepInv' /\ CopyInv' /\ HomeInv' /\ AfterInv'
  BY <1>1, <1>6, <1>7, SameEntries DEF Inv, heap
<1>9. OrderInv'
  BY <1>3, <1>4 DEF Inv, OrderInv
<1>10. TypeOK' /\ LinkInv' /\ IndexPointsToRows' /\ EmptyInv'
  BY <1>1, <1>4 DEF Inv, TypeOK, LinkInv, IndexPointsToRows, EmptyInv, heap
<1> QED BY <1>8, <1>9, <1>10 DEF Inv

\* Starting a loop, stopping at a freed row, and stuttering.
LEMMA QuietInv ==
    ASSUME Inv, UNCHANGED <<rowVars, stamp, tx, table>>,
           phase' \in {phase, "commit", "rollback"},
           phase' \in {"commit", "rollback"} => tx # <<>>,
           started' \in BOOLEAN, broken' \in BOOLEAN
    PROVE  Inv'
<1>1. /\ cell' = cell /\ linked' = linked /\ index' = index /\ stamp' = stamp
      /\ tx' = tx /\ table' = table
  BY DEF rowVars
<1>2. KeepInv' /\ CopyInv' /\ HomeInv' /\ AfterInv'
  BY <1>1, SameEntries DEF Inv, At, E, heap
<1>3. OrderInv' /\ LinkInv' /\ IndexPointsToRows'
  BY <1>1 DEF Inv, OrderInv, LinkInv, IndexPointsToRows, heap
<1>4. TypeOK' /\ EmptyInv'
  BY <1>1 DEF Inv, TypeOK, EmptyInv, heap
<1> QED BY <1>2, <1>3, <1>4 DEF Inv

-----------------------------------------------------------------------------
(* One entry of a log is consumed *)

\* The entries that commit leaves move up by one.
LEMMA CommitAt ==
    ASSUME tx \in Seq(Transaction), tx # <<>>, Top.order # <<>>, OrderInv,
           tx' = Consumed(Tail(Top.log[Current]))
    PROVE  \E d \in Nat :
             /\ d = depth
             /\ At(d, Current, 1) /\ E(d, Current, 1) = Head(Top.log[Current])
             /\ \A i, t, j : At(i, t, j)' =>
                  IF i = d /\ t = Current
                  THEN /\ At(i, t, j + 1) /\ j \in Nat \ {0}
                       /\ E(i, t, j)' = E(i, t, j + 1)
                  ELSE At(i, t, j) /\ E(i, t, j)' = E(i, t, j)
             /\ \A i, t, j : At(i, t, j) =>
                  \/ i = d /\ t = Current /\ j = 1
                  \/ i = d /\ t = Current /\ At(i, t, j - 1)'
                  \/ ~(i = d /\ t = Current) /\ At(i, t, j)'
<1> DEFINE old == Top.log[Current]
<1>1. Current \in Tables /\ old \in Seq(Entry) /\ old # <<>>
  BY CurrentLog
<1>2. /\ depth \in DOMAIN tx /\ depth \in Nat /\ Top = tx[depth]
  BY TopType DEF Top
<1>3. /\ Tail(old) \in Seq(Entry)
      /\ DOMAIN old = 1..Len(old) /\ Len(old) \in Nat /\ Len(old) > 0
      /\ DOMAIN Tail(old) = 1..(Len(old) - 1)
      /\ \A j \in DOMAIN Tail(old) : Tail(old)[j] = old[j + 1]
      /\ Head(old) = old[1]
  BY <1>1
<1>4. /\ DOMAIN tx' = DOMAIN tx
      /\ \A i \in DOMAIN tx : i # depth => tx'[i] = tx[i]
      /\ tx'[depth].log = [u \in Tables |-> IF u = Current THEN Tail(old)
                                            ELSE tx[depth].log[u]]
  BY <1>3, ConsumedEffect
<1>5. /\ tx'[depth].log[Current] = Tail(old)
      /\ \A u \in Tables : u # Current => tx'[depth].log[u] = tx[depth].log[u]
  BY <1>1, <1>4
<1>6. PICK d \in Nat : d = depth
  BY <1>2
<1>7. At(d, Current, 1) /\ E(d, Current, 1) = Head(old)
  BY <1>1, <1>2, <1>3, <1>6 DEF At, E
<1>8. ASSUME NEW i, NEW t, NEW j, At(i, t, j)'
      PROVE  IF i = d /\ t = Current
             THEN /\ At(i, t, j + 1) /\ j \in Nat \ {0}
                  /\ E(i, t, j)' = E(i, t, j + 1)
             ELSE At(i, t, j) /\ E(i, t, j)' = E(i, t, j)
  <2>1. CASE i = d /\ t = Current
    <3>1. j \in DOMAIN Tail(old)
      BY <1>4, <1>5, <1>6, <1>8, <2>1 DEF At
    <3>2. j + 1 \in DOMAIN old /\ j \in Nat \ {0} /\ Tail(old)[j] = old[j + 1]
      BY <3>1, <1>3
    <3> QED BY <3>2, <2>1, <1>1, <1>2, <1>5, <1>6 DEF At, E
  <2>2. CASE ~(i = d /\ t = Current)
    BY <2>2, <1>4, <1>5, <1>6, <1>8 DEF At, E
  <2> QED BY <2>1, <2>2
<1>9. ASSUME NEW i, NEW t, NEW j, At(i, t, j)
      PROVE  \/ i = d /\ t = Current /\ j = 1
             \/ i = d /\ t = Current /\ At(i, t, j - 1)'
             \/ ~(i = d /\ t = Current) /\ At(i, t, j)'
  <2>1. CASE i = d /\ t = Current /\ j # 1
    <3>1. j \in DOMAIN old
      BY <2>1, <1>2, <1>6, <1>9 DEF At
    <3>2. j - 1 \in DOMAIN Tail(old)
      BY <3>1, <2>1, <1>3
    <3> QED BY <3>2, <2>1, <1>1, <1>2, <1>4, <1>5, <1>6 DEF At
  <2>2. CASE ~(i = d /\ t = Current)
    BY <2>2, <1>4, <1>5, <1>6, <1>9 DEF At
  <2> QED BY <2>1, <2>2
<1> HIDE DEF old
<1> QED BY <1>6, <1>7, <1>8, <1>9 DEF old

\* Rollback takes the last entry of a log, and nothing else changes.
LEMMA RollbackAt ==
    ASSUME tx \in Seq(Transaction), tx # <<>>, Top.order # <<>>, OrderInv,
           tx' = Consumed(Front(Top.log[Current]))
    PROVE  \E d, n \in Nat :
             /\ d = depth
             /\ At(d, Current, n) /\ E(d, Current, n) = Last(Top.log[Current])
             /\ \A i, j : At(i, Current, j) => ~Later(d, n, i, j)
             /\ \A i, t, j : At(i, t, j)' <=>
                  At(i, t, j) /\ ~(i = d /\ t = Current /\ j = n)
             /\ \A i, t, j : At(i, t, j)' => E(i, t, j)' = E(i, t, j)
<1> DEFINE old == Top.log[Current]
<1>1. Current \in Tables /\ old \in Seq(Entry) /\ old # <<>>
  BY CurrentLog
<1>2. /\ depth \in DOMAIN tx /\ depth \in Nat /\ Top = tx[depth]
      /\ DOMAIN tx = 1..depth
  BY TopType DEF Top
<1>3. /\ DOMAIN old = 1..Len(old) /\ Len(old) \in Nat /\ Len(old) > 0
  BY <1>1
<1>4. /\ Front(old) \in Seq(Entry)
      /\ DOMAIN Front(old) = 1..(Len(old) - 1)
      /\ \A j \in 1..(Len(old) - 1) : Front(old)[j] = old[j]
      /\ Last(old) = old[Len(old)]
  BY <1>1, <1>3 DEF Front, Last
<1>5. /\ DOMAIN tx' = DOMAIN tx
      /\ \A i \in DOMAIN tx : i # depth => tx'[i] = tx[i]
      /\ tx'[depth].log = [u \in Tables |-> IF u = Current THEN Front(old)
                                            ELSE tx[depth].log[u]]
  BY <1>4, ConsumedEffect
<1>6. /\ tx'[depth].log[Current] = Front(old)
      /\ \A u \in Tables : u # Current => tx'[depth].log[u] = tx[depth].log[u]
  BY <1>1, <1>5
<1>7. PICK d \in Nat, n \in Nat : d = depth /\ n = Len(old)
  BY <1>2, <1>3
<1>8. At(d, Current, n) /\ E(d, Current, n) = Last(old)
  BY <1>1, <1>2, <1>3, <1>4, <1>7 DEF At, E
<1>9. \A i, j : At(i, Current, j) => ~Later(d, n, i, j)
  BY <1>2, <1>3, <1>7 DEF At, Later
<1>10. ASSUME NEW i, NEW t, NEW j
       PROVE  /\ At(i, t, j)' <=> At(i, t, j) /\ ~(i = d /\ t = Current /\ j = n)
              /\ At(i, t, j)' => E(i, t, j)' = E(i, t, j)
  <2>1. CASE i = d /\ t = Current
    <3>1. At(i, t, j)' <=> j \in 1..(Len(old) - 1)
      BY <2>1, <1>1, <1>2, <1>4, <1>5, <1>6, <1>7 DEF At
    <3>2. At(i, t, j) <=> j \in 1..Len(old)
      BY <2>1, <1>1, <1>2, <1>3, <1>7 DEF At
    <3>3. j \in 1..(Len(old) - 1) => E(i, t, j)' = E(i, t, j)
      BY <2>1, <1>2, <1>4, <1>6, <1>7 DEF E
    <3>4. j \in 1..(Len(old) - 1) <=> j \in 1..Len(old) /\ j # n
      BY <1>3, <1>7
    <3> QED BY <3>1, <3>2, <3>3, <3>4, <2>1
  <2>2. CASE ~(i = d /\ t = Current)
    BY <2>2, <1>5, <1>6, <1>7 DEF At, E
  <2> QED BY <2>1, <2>2
<1> HIDE DEF old
<1> QED BY <1>7, <1>8, <1>9, <1>10 DEF old

\* A step that touched a freed row, and stopped.
LEMMA BrokenInv ==
    ASSUME Inv, phase \in {"commit", "rollback"}, phase' = phase,
           UNCHANGED <<rowVars, stamp, tx, loopVars>>, broken' = TRUE
    PROVE  Inv'
<1>1. tx # <<>> /\ table' = table /\ started' = started /\ started \in BOOLEAN
  BY DEF Inv, TypeOK, loopVars
<1> QED BY <1>1, QuietInv

LEMMA CommitEntryInv ==
    ASSUME Inv, CommitEntry
    PROVE  Inv'
<1> DEFINE e == Head(Top.log[Current])
<1>1. /\ phase = "commit" /\ Top.order # <<>>
      /\ Using(ReadByCommit(e),
               /\ cell' = Destroyed(e)
               /\ tx' = Consumed(Tail(Top.log[Current]))
               /\ UNCHANGED <<linked, index, stamp>>)
      /\ UNCHANGED <<phase, loopVars>>
  BY DEF CommitEntry
<1>2. tx \in Seq(Transaction) /\ tx # <<>> /\ OrderInv
  BY <1>1 DEF Inv, TypeOK
<1>3. CASE ~(ReadByCommit(e) \subseteq heap)
  BY <1>1, <1>3, BrokenInv DEF Using
<1>4. CASE ReadByCommit(e) \subseteq heap
  <2>1. /\ cell' = Destroyed(e)
        /\ tx' = Consumed(Tail(Top.log[Current]))
        /\ linked' = linked /\ index' = index /\ stamp' = stamp /\ broken' = broken
        /\ phase' = phase /\ table' = table /\ started' = started
    BY <1>1, <1>4 DEF Using, loopVars
  <2>2. /\ Current \in Tables /\ Top.log[Current] \in Seq(Entry)
        /\ Top.log[Current] # <<>>
    BY <1>1, <1>2, CurrentLog
  <2>3. Tail(Top.log[Current]) \in Seq(Entry) /\ e \in Entry
    BY <2>2
  <2>4. tx' \in Seq(Transaction) /\ tx' # <<>> /\ OrderInv'
    BY <1>1, <1>2, <2>1, <2>3, ConsumedEffect, OrderConsumed
  <2>5. PICK d \in Nat :
             /\ d = depth
             /\ At(d, Current, 1) /\ E(d, Current, 1) = e
             /\ \A i, t, j : At(i, t, j)' =>
                  IF i = d /\ t = Current
                  THEN /\ At(i, t, j + 1) /\ j \in Nat \ {0}
                       /\ E(i, t, j)' = E(i, t, j + 1)
                  ELSE At(i, t, j) /\ E(i, t, j)' = E(i, t, j)
             /\ \A i, t, j : At(i, t, j) =>
                  \/ i = d /\ t = Current /\ j = 1
                  \/ i = d /\ t = Current /\ At(i, t, j - 1)'
                  \/ ~(i = d /\ t = Current) /\ At(i, t, j)'
    BY <1>1, <1>2, <2>1, CommitAt
  <2>6. /\ KeepInv /\ CopyInv /\ HomeInv /\ AfterInv /\ LinkInv /\ TypeOK
        /\ IndexPointsToRows /\ EmptyInv
    BY DEF Inv
  <2>7. /\ \A u \in Tables : e.before \notin linked[u]
        /\ heap' = heap \ {e.before}
        /\ cell' \in [heap' -> Data]
        /\ \A x \in heap' : cell'[x] = cell[x]
    <3>1. \A u \in Tables : e.before \notin linked[u]
      BY <2>5, <2>6 DEF KeepInv
    <3>2. None \notin heap
      BY <2>6, StorageAssumption DEF TypeOK
    <3>3. CASE e.before = None
      BY <3>1, <3>2, <3>3, <2>1, <2>6 DEF Destroyed, heap, TypeOK
    <3>4. CASE e.before # None
      <4>1. cell' = Without(e.before)
        BY <3>1, <3>4, <2>1 DEF Destroyed
      <4> QED BY <3>1, <4>1, <2>6 DEF Without, heap, TypeOK
    <3> QED BY <3>3, <3>4
  <2> HIDE DEF e
  \* where an entry was before
  <2>8. \A i, t, j : At(i, t, j)' => \E m :
          /\ At(i, t, m) /\ E(i, t, j)' = E(i, t, m)
          /\ m = IF i = d /\ t = Current THEN j + 1 ELSE j
    BY <2>5
  <2>9. KeepInv'
    <3>1. ASSUME NEW i, NEW t, NEW j, At(i, t, j)', NEW u \in Tables
          PROVE  E(i, t, j)'.before \notin linked'[u]
      BY <3>1, <2>1, <2>6, <2>8 DEF KeepInv
    <3>2. ASSUME NEW i, NEW t, NEW j, NEW k, NEW u, NEW l,
                 At(i, t, j)', At(k, u, l)', E(i, t, j)'.before # None,
                 E(i, t, j)'.before = E(k, u, l)'.before
          PROVE  i = k /\ t = u /\ j = l
      <4>1. PICK m : /\ At(i, t, m) /\ E(i, t, j)' = E(i, t, m)
                     /\ m = IF i = d /\ t = Current THEN j + 1 ELSE j
        BY <3>2, <2>8
      <4>2. PICK p : /\ At(k, u, p) /\ E(k, u, l)' = E(k, u, p)
                     /\ p = IF k = d /\ u = Current THEN l + 1 ELSE l
        BY <3>2, <2>8
      <4>3. i = k /\ t = u /\ m = p
        BY <3>2, <4>1, <4>2, <2>6 DEF KeepInv
      <4>4. i = d /\ t = Current => j \in Nat /\ l \in Nat
        BY <3>2, <4>3, <2>5
      <4> QED BY <4>1, <4>2, <4>3, <4>4
    <3> QED BY <3>1, <3>2 DEF KeepInv
  <2>10. CopyInv'
    <3> SUFFICES ASSUME NEW i, NEW t, NEW j, NEW k, NEW u, NEW l,
                        At(i, t, j)', At(k, u, l)', E(i, t, j)'.change = "update"
                 PROVE  E(i, t, j)'.before # E(k, u, l)'.after
      BY DEF CopyInv
    <3>1. PICK m : At(i, t, m) /\ E(i, t, j)' = E(i, t, m)
      BY <2>8
    <3>2. PICK p : At(k, u, p) /\ E(k, u, l)' = E(k, u, p)
      BY <2>8
    <3> QED BY <3>1, <3>2, <2>6 DEF CopyInv
  <2>11. HomeInv'
    <3> SUFFICES ASSUME NEW r \in Rows, NEW i, NEW t, NEW j, At(i, t, j)',
                        Names(i, t, j, r)'
                 PROVE  /\ \A u \in Tables : r \in linked'[u] => u = t
                        /\ \A k, u, l : At(k, u, l)' /\ Names(k, u, l, r)' => u = t
      BY DEF HomeInv
    <3>1. \A k, u, l : At(k, u, l)' /\ Names(k, u, l, r)' =>
            \E p : At(k, u, p) /\ Names(k, u, p, r)
      BY <2>8 DEF Names
    <3> QED BY <3>1, <2>1, <2>6 DEF HomeInv
  <2>12. AfterInv'
    <3> SUFFICES ASSUME NEW i, NEW t, NEW j, At(i, t, j)', E(i, t, j)'.after # None,
                        E(i, t, j)'.after \notin linked[t],
                        E(i, t, j)'.after \in heap'
                 PROVE  \E k, l : /\ At(k, t, l)'
                                  /\ Later(i, j, k, l)
                                  /\ E(k, t, l)'.before = E(i, t, j)'.after
      BY <2>1 DEF AfterInv, Later
    <3>1. PICK m : /\ At(i, t, m) /\ E(i, t, j)' = E(i, t, m)
                   /\ m = IF i = d /\ t = Current THEN j + 1 ELSE j
      BY <2>8
    <3>2. PICK k, p : /\ At(k, t, p)
                      /\ Later(i, m, k, p)
                      /\ E(k, t, p).before = E(i, t, m).after
      BY <3>1, <2>6, <2>7 DEF AfterInv
    <3>3. ~(k = d /\ t = Current /\ p = 1)
      BY <3>1, <3>2, <2>5, <2>7
    <3>4. /\ i \in Nat /\ m \in Nat /\ k \in Nat /\ p \in Nat
      BY <3>1, <3>2, <1>2, EntryType
    <3>5. CASE k = d /\ t = Current
      <4>1. At(k, t, p - 1)'
        BY <3>2, <3>3, <3>5, <2>5
      <4>2. E(k, t, p - 1)' = E(k, t, p)
        <5>1. E(k, t, p - 1)' = E(k, t, (p - 1) + 1)
          BY <4>1, <3>5, <2>5
        <5> QED BY <5>1, <3>4
      <4>3. Later(i, j, k, p - 1)
        <5>1. CASE i = d
          <6>1. j \in Nat
            BY <5>1, <3>5, <2>5
          <6> QED BY <6>1, <5>1, <3>1, <3>2, <3>4, <3>5 DEF Later
        <5>2. CASE i # d
          BY <5>2, <3>1, <3>2, <3>4, <3>5 DEF Later
        <5> QED BY <5>1, <5>2
      <4> QED BY <4>1, <4>2, <4>3, <3>1, <3>2
    <3>6. CASE ~(k = d /\ t = Current)
      <4>1. At(k, t, p)' /\ E(k, t, p)' = E(k, t, p)
        BY <3>2, <3>6, <2>5
      <4>2. Later(i, j, k, p)
        BY <3>1, <3>2, <3>4, <3>6, <2>5 DEF Later
      <4> QED BY <4>1, <4>2, <3>1, <3>2
    <3> QED BY <3>5, <3>6
  <2>13. LinkInv' /\ IndexPointsToRows' /\ EmptyInv'
    BY <2>1, <2>6, <2>7 DEF LinkInv, IndexPointsToRows, EmptyInv
  <2>14. TypeOK'
    BY <1>1, <2>1, <2>4, <2>6, <2>7 DEF TypeOK, heap
  <2> QED BY <2>4, <2>9, <2>10, <2>11, <2>12, <2>13, <2>14 DEF Inv
<1> QED BY <1>3, <1>4

\* Undoing entry e keeps the log and the tables in step if the row e keeps is
\* linked or gone, and what leaves the table is gone.
LEMMA RollbackStep ==
    ASSUME Inv, NEW t \in Tables, NEW d \in Nat, NEW n \in Nat, At(d, t, n),
           \A i, u, j : At(i, u, j)' <=> At(i, u, j) /\ ~(i = d /\ u = t /\ j = n),
           \A i, u, j : At(i, u, j)' => E(i, u, j)' = E(i, u, j),
           \A u \in Tables : u # t => linked'[u] = linked[u],
           \A x \in linked'[t] : x \in linked[t] \/ (x = E(d, t, n).before /\ x # None),
           \A x \in linked[t] : x \in linked'[t] \/ x \notin heap',
           heap' \subseteq heap,
           \/ E(d, t, n).before \in linked'[t]
           \/ E(d, t, n).before \notin heap'
           \/ E(d, t, n).change = "update"
    PROVE  KeepInv' /\ CopyInv' /\ HomeInv' /\ AfterInv'
<1> DEFINE b == E(d, t, n).before
<1>1. /\ KeepInv /\ CopyInv /\ HomeInv /\ AfterInv /\ TypeOK
      /\ tx \in Seq(Transaction)
  BY DEF Inv, TypeOK
<1>2. \A i, u, j : At(i, u, j)' => At(i, u, j) /\ E(i, u, j)' = E(i, u, j) /\ u \in Tables
  BY DEF At
<1>3. KeepInv'
  <2>1. ASSUME NEW i, NEW u, NEW j, At(i, u, j)', NEW v \in Tables,
               E(i, u, j).before \in linked'[v]
        PROVE  FALSE
    <3>1. At(i, u, j) /\ E(i, u, j).before \notin linked[v]
      BY <2>1, <1>1, <1>2 DEF KeepInv
    <3>2. E(i, u, j).before = b /\ b # None
      BY <2>1, <3>1
    <3>3. i = d /\ u = t /\ j = n
      BY <3>1, <3>2, <1>1 DEF KeepInv
    <3> QED BY <2>1, <3>3
  <2>2. ASSUME NEW i, NEW u, NEW j, NEW k, NEW v, NEW l,
               At(i, u, j)', At(k, v, l)', E(i, u, j)'.before # None,
               E(i, u, j)'.before = E(k, v, l)'.before
        PROVE  i = k /\ u = v /\ j = l
    BY <2>2, <1>1, <1>2 DEF KeepInv
  <2> QED BY <2>1, <2>2, <1>2 DEF KeepInv
<1>4. CopyInv'
  BY <1>1, <1>2 DEF CopyInv
<1>5. HomeInv'
  <2> SUFFICES ASSUME NEW r \in Rows, NEW i, NEW u, NEW j, At(i, u, j)',
                      Names(i, u, j, r)'
               PROVE  /\ \A v \in Tables : r \in linked'[v] => v = u
                      /\ \A k, v, l : At(k, v, l)' /\ Names(k, v, l, r)' => v = u
    BY DEF HomeInv
  <2>1. \A k, v, l : At(k, v, l)' /\ Names(k, v, l, r)' => At(k, v, l) /\ Names(k, v, l, r)
    BY <1>2 DEF Names
  <2>2. At(i, u, j) /\ Names(i, u, j, r)
    BY <2>1
  <2>3. ASSUME NEW v \in Tables, r \in linked'[v]
        PROVE  v = u
    <3>1. CASE r \in linked[v]
      BY <3>1, <2>2, <1>1 DEF HomeInv
    <3>2. CASE r \notin linked[v]
      <4>1. v = t /\ r = b
        BY <2>3, <3>2
      <4> QED BY <4>1, <2>2, <1>1 DEF HomeInv, Names
    <3> QED BY <3>1, <3>2
  <2> QED BY <2>1, <2>2, <2>3, <1>1 DEF HomeInv
<1>6. AfterInv'
  <2> SUFFICES ASSUME NEW i, NEW u, NEW j, At(i, u, j)', E(i, u, j)'.after # None,
                      E(i, u, j)'.after \notin linked'[u],
                      E(i, u, j)'.after \in heap'
               PROVE  \E k, l : /\ At(k, u, l)'
                                /\ Later(i, j, k, l)
                                /\ E(k, u, l)'.before = E(i, u, j)'.after
    BY DEF AfterInv, Later
  <2> DEFINE a == E(i, u, j).after
  <2>1. /\ At(i, u, j) /\ E(i, u, j)' = E(i, u, j) /\ u \in Tables
        /\ a # None /\ a \notin linked'[u] /\ a \in heap' /\ a \in heap
    BY <1>2
  <2>2. a \notin linked[u]
    BY <2>1
  <2>3. PICK k, l : At(k, u, l) /\ Later(i, j, k, l) /\ E(k, u, l).before = a
    BY <2>1, <2>2, <1>1 DEF AfterInv
  <2>4. ~(k = d /\ u = t /\ l = n)
    BY <2>1, <2>3, <1>1 DEF CopyInv
  <2> QED BY <2>1, <2>3, <2>4
<1> QED BY <1>3, <1>4, <1>5, <1>6

\* The entry that rollback takes, in a rollback that finds its rows.
RollbackAtEntry(e, d, t, n) ==
    /\ e \in Entry
    /\ t = Current /\ d = depth
    /\ At(d, t, n) /\ E(d, t, n) = e
    /\ \A i, j : At(i, t, j) => ~Later(d, n, i, j)
    /\ {e.before, e.after} \ {None} \subseteq heap

LEMMA UndoneRows ==
    ASSUME Inv, NEW e, NEW d \in Nat, NEW t \in Tables, NEW n \in Nat,
           RollbackAtEntry(e, d, t, n)
    PROVE  /\ e.before # None => /\ e.before \in heap /\ e.before \in Rows
                                 /\ \A u \in Tables : e.before \notin linked[u]
                                 /\ cell[e.before] \in Data
                                 /\ cell[e.before].key \in Keys
           /\ e.after # None => /\ e.after \in heap /\ e.after \in Rows
                                /\ e.after \in linked[t]
                                /\ cell[e.after] \in Data
                                /\ cell[e.after].key \in Keys
           /\ e.after # None => e.after # e.before
<1>1. /\ e.before # None => e.before \in heap
      /\ e.after # None => e.after \in heap
  BY DEF RollbackAtEntry
<1>2. heap \subseteq Rows /\ \A x \in heap : cell[x] \in Data /\ cell[x].key \in Keys
  BY DEF Inv, TypeOK, Data
<1>3. \A u \in Tables : e.before \notin linked[u]
  BY DEF RollbackAtEntry, Inv, KeepInv
<1>4. e.after # None => e.after \in linked[t]
  <2>1. At(d, t, n) /\ E(d, t, n) = e /\ \A i, j : At(i, t, j) => ~Later(d, n, i, j)
    BY DEF RollbackAtEntry
  <2> QED BY <2>1, <1>1 DEF Inv, AfterInv
<1> QED BY <1>1, <1>2, <1>3, <1>4

\* The tables after an entry was undone, and which rows came, went and stayed.
UndoneWell(e, t) ==
    /\ TablesOK'
    /\ \A u \in Tables : u # t => linked'[u] = linked[u]
    /\ \A x \in linked'[t] : x \in linked[t] \/ (x = e.before /\ x # None)
    /\ \A x \in linked[t] : x \in linked'[t] \/ x \notin heap'
    /\ heap' \subseteq heap
    /\ \/ e.before \in linked'[t]
       \/ e.before \notin heap'
       \/ e.change = "update"
    /\ \A u \in Tables, k \in Keys : u \notin Indexed => index'[u][k] = index[u][k]
    /\ stamp' \in [Tables -> Nat]

LEMMA UndoInsertWell ==
    ASSUME Inv, NEW e, NEW d \in Nat, NEW t \in Tables, NEW n \in Nat,
           RollbackAtEntry(e, d, t, n), e.change = "insert", UndoInsert(t, e)
    PROVE  UndoneWell(e, t)
<1> DEFINE r == e.after
<1>1. r # None /\ e.before = None /\ e \in Entry
  BY DEF RollbackAtEntry, Entry
<1>2. r \in linked[t] /\ r \in heap /\ r \in Rows /\ cell[r].key \in Keys
  BY <1>1, UndoneRows
<1>3. /\ cell' = Without(r) /\ linked' = Unlinking(t, r)
      /\ index' = Unindexing(t, cell[r].key) /\ stamp' = stamp
  BY DEF UndoInsert
<1>4. /\ heap' = heap \ {r} /\ heap' \subseteq Rows /\ cell' \in [heap' -> Data]
      /\ \A x \in heap \ {r} : cell'[x] = cell[x]
  BY <1>3 DEF Without, heap, Inv, TypeOK
<1>5. TablesOK'
  <2>1. heap \ {r} \subseteq heap'
    BY <1>4
  <2> QED BY <1>2, <1>3, <1>4, <2>1, DropTables
<1>6. /\ linked'[t] = linked[t] \ {r}
      /\ \A u \in Tables : u # t => linked'[u] = linked[u]
  BY <1>3 DEF Unlinking, Inv, TypeOK
<1>7. \A u \in Tables, k \in Keys : u \notin Indexed => index'[u][k] = index[u][k]
  BY <1>2, <1>3, IndexingEffect DEF Unindexing, Inv, TypeOK
<1>8. None \notin heap'
  BY <1>4, StorageAssumption
<1> QED BY <1>1, <1>3, <1>4, <1>5, <1>6, <1>7, <1>8 DEF UndoneWell, Inv, TypeOK

LEMMA UndoDeleteWell ==
    ASSUME Inv, NEW e, NEW d \in Nat, NEW t \in Tables, NEW n \in Nat,
           RollbackAtEntry(e, d, t, n), e.change = "delete", UndoDelete(t, e)
    PROVE  UndoneWell(e, t)
<1> DEFINE r == e.before
<1>1. r # None /\ e.after = None /\ e \in Entry
  BY DEF RollbackAtEntry, Entry
<1>2. /\ r \in heap /\ r \in Rows /\ cell[r].key \in Keys
      /\ \A u \in Tables : r \notin linked[u]
  BY <1>1, UndoneRows
<1>3. /\ TypeOK /\ LinkInv /\ IndexPointsToRows /\ stamp' = stamp
  BY DEF Inv, UndoDelete
<1>4. CASE Taken(t, cell[r].key)
  <2>1. cell' = Without(r) /\ linked' = linked /\ index' = index
    BY <1>4 DEF UndoDelete
  <2>2. /\ heap' = heap \ {r} /\ heap' \subseteq Rows /\ cell' \in [heap' -> Data]
        /\ \A x \in heap \ {r} : cell'[x] = cell[x]
    BY <2>1, <1>3 DEF Without, heap, TypeOK
  <2>3. LinkInv' /\ IndexPointsToRows'
    BY <1>2, <1>3, <2>1, <2>2 DEF LinkInv, IndexPointsToRows
  <2>4. TablesOK'
    BY <1>3, <2>1, <2>2, <2>3 DEF TablesOK, TypeOK, heap
  <2> QED BY <1>3, <2>1, <2>2, <2>4 DEF UndoneWell, TypeOK
<1>5. CASE ~Taken(t, cell[r].key)
  <2>1. /\ cell' = cell /\ linked' = Linking(t, r)
        /\ index' = Indexing(t, cell[r].key, r)
    BY <1>5 DEF UndoDelete
  <2>2. heap' = heap
    BY <2>1 DEF heap
  <2>3. /\ linked' \in [Tables -> SUBSET Rows]
        /\ linked'[t] = linked[t] \cup {r}
        /\ \A u \in Tables : u # t => linked'[u] = linked[u]
    BY <2>1, <1>2, <1>3 DEF Linking, TypeOK
  <2>4. /\ index' \in [Tables -> [Keys -> Rows \cup {None}]]
        /\ \A u \in Tables, l \in Keys :
             index'[u][l] = IF t \in Indexed /\ u = t /\ l = cell[r].key THEN r
                            ELSE index[u][l]
    BY <2>1, <1>2, <1>3, IndexingEffect DEF TypeOK
  <2>5. LinkInv'
    BY <1>2, <1>3, <2>2, <2>3 DEF LinkInv
  <2>6. IndexPointsToRows'
    BY <1>3, <2>1, <2>3, <2>4 DEF IndexPointsToRows
  <2>7. TablesOK'
    BY <1>3, <2>1, <2>2, <2>3, <2>4, <2>5, <2>6 DEF TablesOK, TypeOK, heap
  <2> QED BY <1>1, <1>3, <2>2, <2>3, <2>4, <2>7 DEF UndoneWell, TypeOK
<1> QED BY <1>4, <1>5

LEMMA UndoUpdateWell ==
    ASSUME Inv, NEW e, NEW d \in Nat, NEW t \in Tables, NEW n \in Nat,
           RollbackAtEntry(e, d, t, n), e.change = "update", UndoUpdate(t, e)
    PROVE  UndoneWell(e, t)
<1> DEFINE r == e.after
           b == e.before
           key == cell[r].key
           old == cell[b]
           lost == key # old.key /\ Taken(t, old.key)
<1>1. r # None /\ b # None /\ e \in Entry
  BY DEF RollbackAtEntry, Entry
<1>2. /\ r \in heap /\ r \in Rows /\ key \in Keys /\ r \in linked[t]
      /\ b \in heap /\ b \in Rows /\ old \in Data /\ old.key \in Keys
      /\ \A u \in Tables : b \notin linked[u]
      /\ r # b
  BY <1>1, UndoneRows
<1>3. /\ TypeOK /\ LinkInv /\ IndexPointsToRows /\ EmptyInv /\ stamp' = stamp
  BY DEF Inv, UndoUpdate
<1>4. /\ cell' = IF lost THEN Without(r) ELSE
                   [x \in heap \ {b} |-> IF x = r THEN old ELSE cell[x]]
      /\ linked' = IF lost THEN Unlinking(t, r) ELSE linked
      /\ index' = IF t \notin Indexed THEN index ELSE
                    IF lost THEN [index EXCEPT ![t][key] = None]
                    ELSE [index EXCEPT ![t] =
                            [[@ EXCEPT ![key] = None] EXCEPT ![old.key] = r]]
  BY DEF UndoUpdate
<1>5. CASE lost
  <2>1. cell' = Without(r) /\ linked' = Unlinking(t, r) /\ index' = Unindexing(t, key)
    BY <1>4, <1>5 DEF Unindexing, Indexing
  <2>2. /\ heap' = heap \ {r} /\ heap' \subseteq Rows /\ cell' \in [heap' -> Data]
        /\ \A x \in heap \ {r} : cell'[x] = cell[x]
    BY <2>1, <1>3 DEF Without, heap, TypeOK
  <2>3. TablesOK'
    <3>1. heap \ {r} \subseteq heap'
      BY <2>2
    <3> QED BY <1>2, <2>1, <2>2, <3>1, DropTables
  <2>4. /\ linked'[t] = linked[t] \ {r}
        /\ \A u \in Tables : u # t => linked'[u] = linked[u]
    BY <2>1, <1>3 DEF Unlinking, TypeOK
  <2>5. \A u \in Tables, k \in Keys : u \notin Indexed => index'[u][k] = index[u][k]
    BY <1>2, <1>3, <2>1, IndexingEffect DEF Unindexing, TypeOK
  <2> QED BY <1>3, <2>2, <2>3, <2>4, <2>5 DEF UndoneWell, TypeOK
<1>6. CASE ~lost
  <2>1. /\ cell' = [x \in heap \ {b} |-> IF x = r THEN old ELSE cell[x]]
        /\ linked' = linked
        /\ index' = IF t \notin Indexed THEN index
                    ELSE [index EXCEPT ![t] =
                            [[@ EXCEPT ![key] = None] EXCEPT ![old.key] = r]]
    BY <1>4, <1>6
  <2>2. /\ heap' = heap \ {b} /\ heap' \subseteq Rows /\ cell' \in [heap' -> Data]
        /\ cell'[r] = old
        /\ \A x \in heap \ {b} : x # r => cell'[x] = cell[x]
    <3>1. heap' = heap \ {b}
      BY <2>1 DEF heap
    <3> QED BY <2>1, <3>1, <1>2, <1>3 DEF TypeOK
  <2>3. /\ index' \in [Tables -> [Keys -> Rows \cup {None}]]
        /\ \A u \in Tables, l \in Keys :
             index'[u][l] = IF t \in Indexed /\ u = t /\ l = old.key THEN r ELSE
                            IF t \in Indexed /\ u = t /\ l = key THEN None
                            ELSE index[u][l]
    <3> HIDE DEF key, old
    <3>1. index \in [Tables -> [Keys -> Rows \cup {None}]]
      BY <1>3 DEF TypeOK
    <3>2. CASE t \notin Indexed
      BY <3>1, <3>2, <2>1
    <3>3. CASE t \in Indexed
      BY <3>1, <3>3, <2>1, <1>2
    <3> QED BY <3>2, <3>3
  <2>4. LinkInv'
    BY <1>2, <1>3, <2>1, <2>2 DEF LinkInv
  <2>5. IndexPointsToRows'
    <3> HIDE DEF key
    <3>0. linked' = linked
      BY <2>1
    <3> SUFFICES ASSUME NEW u \in Tables, NEW k \in Keys, index'[u][k] # None
                 PROVE  index'[u][k] \in linked'[u] /\ cell'[index'[u][k]].key = k
      BY DEF IndexPointsToRows
    <3>1. CASE t \in Indexed /\ u = t /\ k = old.key
      BY <3>0, <3>1, <1>2, <2>2, <2>3
    <3>2. CASE ~(t \in Indexed /\ u = t /\ k = old.key)
      <4>1. index'[u][k] = index[u][k] /\ ~(t \in Indexed /\ u = t /\ k = key)
        BY <3>2, <2>3
      <4>2. /\ index[u][k] \in linked[u] /\ index[u][k] \in heap
            /\ cell[index[u][k]].key = k
        BY <4>1, <1>3 DEF IndexPointsToRows, LinkInv
      <4>3. index[u][k] # r
        BY <4>1, <4>2, <1>2, <1>3 DEF LinkInv, EmptyInv, key
      <4>4. index[u][k] # b
        BY <4>2, <1>2
      <4> QED BY <3>0, <4>1, <4>2, <4>3, <4>4, <2>2
    <3> QED BY <3>1, <3>2
  <2>6. TablesOK'
    BY <1>3, <2>1, <2>2, <2>3, <2>4, <2>5 DEF TablesOK, TypeOK, heap
  <2> QED BY <1>3, <2>1, <2>2, <2>3, <2>6 DEF UndoneWell, TypeOK
<1> QED BY <1>5, <1>6

LEMMA UndoStampWell ==
    ASSUME Inv, NEW e, NEW d \in Nat, NEW t \in Tables, NEW n \in Nat,
           RollbackAtEntry(e, d, t, n), e.change = "stamp", UndoStamp(t, e)
    PROVE  UndoneWell(e, t)
<1>1. e.before = None /\ e.stamp \in Nat
  BY DEF RollbackAtEntry, Entry
<1>2. /\ cell' = cell /\ linked' = linked /\ index' = index
      /\ stamp' = [stamp EXCEPT ![t] = e.stamp]
  BY DEF UndoStamp, rowVars
<1>3. heap' = heap /\ None \notin heap
  BY <1>2, StorageAssumption DEF heap, Inv, TypeOK
<1>4. TablesOK'
  BY <1>2, <1>3 DEF Inv, TypeOK, TablesOK, LinkInv, IndexPointsToRows, heap
<1> QED BY <1>1, <1>2, <1>3, <1>4 DEF UndoneWell, Inv, TypeOK

LEMMA RollbackEntryInv ==
    ASSUME Inv, RollbackEntry
    PROVE  Inv'
<1> DEFINE e == Last(Top.log[Current])
           t == Current
<1>1. /\ phase = "rollback" /\ Top.order # <<>>
      /\ Using({e.before, e.after} \ {None},
               /\ Undo(Current, e)
               /\ tx' = Consumed(Front(Top.log[Current])))
      /\ UNCHANGED <<phase, loopVars>>
  BY DEF RollbackEntry
<1>2. tx \in Seq(Transaction) /\ tx # <<>> /\ OrderInv
  BY <1>1 DEF Inv, TypeOK
<1>3. CASE ~({e.before, e.after} \ {None} \subseteq heap)
  BY <1>1, <1>3, BrokenInv DEF Using
<1>4. CASE {e.before, e.after} \ {None} \subseteq heap
  <2>1. /\ Undo(t, e)
        /\ tx' = Consumed(Front(Top.log[Current]))
        /\ broken' = broken
        /\ phase' = phase /\ table' = table /\ started' = started
    BY <1>1, <1>4 DEF Using, loopVars
  <2>2. /\ Current \in Tables /\ Top.log[Current] \in Seq(Entry)
        /\ Top.log[Current] # <<>>
    BY <1>1, <1>2, CurrentLog
  <2>3. Front(Top.log[Current]) \in Seq(Entry) /\ e \in Entry
    BY <2>2 DEF Front, Last
  <2>4. tx' \in Seq(Transaction) /\ tx' # <<>> /\ OrderInv'
    BY <1>1, <1>2, <2>1, <2>3, ConsumedEffect, OrderConsumed
  <2>5. PICK d \in Nat, n \in Nat :
             /\ d = depth
             /\ At(d, t, n) /\ E(d, t, n) = e
             /\ \A i, j : At(i, t, j) => ~Later(d, n, i, j)
             /\ \A i, u, j : At(i, u, j)' <=>
                  At(i, u, j) /\ ~(i = d /\ u = t /\ j = n)
             /\ \A i, u, j : At(i, u, j)' => E(i, u, j)' = E(i, u, j)
    BY <1>1, <1>2, <2>1, RollbackAt
  <2>6. RollbackAtEntry(e, d, t, n)
    BY <1>4, <2>3, <2>5 DEF RollbackAtEntry
  <2> HIDE DEF e, t
  <2>7. t \in Tables
    BY <2>2 DEF t
  <2>8. UndoneWell(e, t)
    <3>1. e.change \in {"stamp", "insert", "update", "delete"}
      BY <2>6 DEF RollbackAtEntry, Entry
    <3>2. CASE e.change = "insert"
      BY <3>2, <2>1, <2>6, <2>7, UndoInsertWell DEF Undo
    <3>3. CASE e.change = "delete"
      BY <3>3, <2>1, <2>6, <2>7, UndoDeleteWell DEF Undo
    <3>4. CASE e.change = "update"
      BY <3>4, <2>1, <2>6, <2>7, UndoUpdateWell DEF Undo
    <3>5. CASE e.change = "stamp"
      BY <3>5, <2>1, <2>6, <2>7, UndoStampWell DEF Undo
    <3> QED BY <3>1, <3>2, <3>3, <3>4, <3>5
  <2>9. KeepInv' /\ CopyInv' /\ HomeInv' /\ AfterInv'
    BY <2>5, <2>7, <2>8, RollbackStep DEF UndoneWell
  <2>10. TypeOK'
    BY <1>1, <2>1, <2>4, <2>8 DEF UndoneWell, TablesOK, TypeOK, Inv
  <2>11. EmptyInv'
    BY <1>1, <2>1, <2>8 DEF UndoneWell, EmptyInv, Inv
  <2> QED BY <2>4, <2>8, <2>9, <2>10, <2>11 DEF Inv, UndoneWell, TablesOK
<1> QED BY <1>3, <1>4

-----------------------------------------------------------------------------
(* The invariant holds, and so do types and index *)

LEMMA InitInv ==
    ASSUME Init
    PROVE  Inv
<1>1. /\ cell = << >> /\ heap = {} /\ tx = <<>> /\ DOMAIN tx = {}
      /\ tx \in Seq(Transaction)
  BY DEF Init, heap
<1>2. TypeOK
  <2>1. cell \in [heap -> Data]
    BY <1>1
  <2>2. /\ linked \in [Tables -> SUBSET Rows] /\ stamp \in [Tables -> Nat]
        /\ index \in [Tables -> [Keys -> Rows \cup {None}]]
    BY DEF Init
  <2>3. phase = "idle" /\ table = None /\ started = FALSE /\ broken = FALSE
    BY DEF Init
  <2> QED BY <1>1, <2>1, <2>2, <2>3 DEF TypeOK
<1>3. LinkInv /\ IndexPointsToRows /\ EmptyInv
  BY <1>1 DEF Init, LinkInv, IndexPointsToRows, EmptyInv
<1>4. OrderInv /\ KeepInv /\ CopyInv /\ HomeInv /\ AfterInv
  BY <1>1 DEF OrderInv, KeepInv, CopyInv, HomeInv, AfterInv, At
<1> QED BY <1>2, <1>3, <1>4 DEF Inv

LEMMA NextInv ==
    ASSUME Inv, "replace_own" \notin Habits, [Next]_vars
    PROVE  Inv'
<1>1. CASE Operation
  <2>1. ASSUME NEW t \in Tables, NEW r \in Rows, NEW d \in Data, InsertRow(t, r, d)
        PROVE  Inv'
    BY <2>1, InsertRowInv
  <2>2. ASSUME NEW t \in Tables, NEW r \in Rows, NEW d \in Data, ReplaceRow(t, r, d)
        PROVE  Inv'
    BY <2>2, ReplaceRowInv
  <2>3. ASSUME NEW t \in Tables, NEW r \in Rows, NEW d \in Data, ReplaceOutside(t, r, d)
        PROVE  Inv'
    BY <2>3, ReplaceOutsideInv
  <2>4. ASSUME NEW t \in Tables, NEW r \in Rows, NEW d \in Data,
               NEW c \in Rows \cup {None}, UpdateRow(t, r, d, c)
        PROVE  Inv'
    BY <2>4, UpdateRowInv
  <2>5. ASSUME NEW t \in Tables, NEW r \in Rows, NEW d \in Data,
               NEW c \in Rows \cup {None}, UpdateOntoTaken(t, r, d, c)
        PROVE  Inv'
    BY <2>5, UpdateOntoTakenInv
  <2>6. ASSUME NEW t \in Tables, NEW r \in Rows, DeleteRow(t, r)
        PROVE  Inv'
    BY <2>6, DeleteRowInv
  <2>7. ASSUME NEW t \in Tables, Clear(t)
        PROVE  Inv'
    BY <2>7, ClearInv
  <2> QED BY <1>1, <2>1, <2>2, <2>3, <2>4, <2>5, <2>6, <2>7 DEF Operation
<1>2. ASSUME NEW r \in Rows, ClearRow(r)
      PROVE  Inv'
  BY <1>2, ClearRowInv
<1>3. CASE Begin
  BY <1>3, BeginInv
<1>4. CASE Commit
  <2>1. started' \in BOOLEAN
    BY <1>4 DEF Commit
  <2>2. broken' \in BOOLEAN
    BY <1>4 DEF Commit, Inv, TypeOK
  <2> QED BY <1>4, <2>1, <2>2, QuietInv DEF Commit, rowVars
<1>5. CASE CommitEntry
  BY <1>5, CommitEntryInv
<1>6. CASE CommitEnd
  BY <1>6, EndInv DEF CommitEnd
<1>7. CASE Rollback
  <2>1. started' \in BOOLEAN
    BY <1>7 DEF Rollback, loopVars, Inv, TypeOK
  <2>2. broken' \in BOOLEAN
    BY <1>7 DEF Rollback, Inv, TypeOK
  <2> QED BY <1>7, <2>1, <2>2, QuietInv DEF Rollback, rowVars, loopVars
<1>8. CASE RollbackEntry
  BY <1>8, RollbackEntryInv
<1>9. CASE RollbackEnd
  BY <1>9, EndInv DEF RollbackEnd
<1>10. CASE UNCHANGED vars
  <2>1. started' \in BOOLEAN /\ broken' \in BOOLEAN
    BY <1>10 DEF vars, Inv, TypeOK
  <2>2. phase' \in {"commit", "rollback"} => tx # <<>>
    BY <1>10 DEF vars, Inv, TypeOK
  <2> QED BY <1>10, <2>1, <2>2, QuietInv DEF vars, rowVars
<1> QED BY <1>1, <1>2, <1>3, <1>4, <1>5, <1>6, <1>7, <1>8, <1>9, <1>10 DEF Next

LEMMA InvHolds ==
    ASSUME "replace_own" \notin Habits
    PROVE  Spec => []Inv
<1>1. Init => Inv
  BY InitInv
<1>2. Inv /\ [Next]_vars => Inv'
  BY NextInv
<1> QED BY <1>1, <1>2, PTL DEF Spec

\* The variables of the storage keep their types, as long as no row is replaced
\* that an open transaction has changed.
THEOREM MdbTypeCorrect ==
    ASSUME "replace_own" \notin Habits
    PROVE  Spec => []TypeOK
<1>1. Inv => TypeOK
  BY DEF Inv
<1> QED BY <1>1, InvHolds, PTL

\* The index never leads to a row that was freed, moved or rekeyed: under the
\* same condition, whatever is committed inside of other transactions, replaced
\* outside of them or rekeyed onto another row.
THEOREM IndexCorrect ==
    ASSUME "replace_own" \notin Habits
    PROVE  Spec => []IndexPointsToRows
<1>1. Inv => IndexPointsToRows
  BY DEF Inv
<1> QED BY <1>1, InvHolds, PTL

-----------------------------------------------------------------------------
(***************************************************************************)
(* Rollbacks.  The log is a chain: every entry leads from the rows it      *)
(* found to those the next one found.  The rows may have moved meanwhile:  *)
(* a replaced row that comes back by a rollback comes back at the address  *)
(* of the row that replaced it.  So the chain holds up to the addresses of *)
(* the rows that the log does not name.                                    *)
(***************************************************************************)

\* No row is replaced by the transaction that changed it or outside of all
\* transactions, none is given the key of another, and what is committed is
\* the outermost transaction.
Careful == Habits \subseteq {"bare", "triggers", "replace"}

-----------------------------------------------------------------------------
(* Rows as a table holds them: a function from addresses to data *)

Image(rows) == {rows[x] : x \in DOMAIN rows}

\* No two rows have the same key.
Unique(rows) ==
    \A x, y \in DOMAIN rows : rows[x].key = rows[y].key => x = y

\* The same contents; rows of a table without an index stay where they are.
Same(t, A, B) == IF t \in Indexed THEN Image(A) = Image(B) ELSE A = B

\* The same contents, and the same rows at the addresses in X.
Alike(t, X, A, B) ==
    /\ Same(t, A, B)
    /\ \A x \in X : /\ x \in DOMAIN A <=> x \in DOMAIN B
                    /\ x \in DOMAIN A => A[x] = B[x]

\* What entry e makes of the rows it found; the data it wrote is in rows.
Result(e, rows) ==
    [x \in (DOMAIN e.was.rows \ {e.before}) \cup ({e.after} \ {None}) |->
        IF x = e.after THEN rows[x] ELSE e.was.rows[x]]

\* Entry e of table t was written by an operation that led to rows, and the log
\* keeps the old data.
Effect(t, e, old, rows) ==
    /\ e.after # None => e.after \in DOMAIN rows
    /\ e.change = "insert" => e.after \notin DOMAIN e.was.rows
    /\ e.change = "delete" =>
         /\ e.before \in DOMAIN e.was.rows
         /\ old = e.was.rows[e.before]
    /\ e.change = "update" =>
         \/ /\ e.after \in DOMAIN e.was.rows
            /\ e.before \notin DOMAIN e.was.rows
            /\ old = e.was.rows[e.after]
         \/ /\ t \in Indexed
            /\ e.after \notin DOMAIN e.was.rows
            /\ e.before \in DOMAIN e.was.rows
            /\ old = e.was.rows[e.before]
            /\ old.key = rows[e.after].key

-----------------------------------------------------------------------------
(* The invariant *)

\* Nothing went wrong, one transaction at most is committed, and a table is
\* named only while it is cleared.
SoundInv ==
    /\ ~broken
    /\ phase = "commit" => depth = 1
    /\ phase # "clear" => table = None

\* The rows of the log are allocated.
HeapInv ==
    \A i, t, j : At(i, t, j) =>
      /\ E(i, t, j).before # None => E(i, t, j).before \in heap
      /\ E(i, t, j).after # None => E(i, t, j).after \in heap

\* No entry names a row before its insertion or after its deletion.
SpanInv ==
    \A i, t, j, k, l : At(i, t, j) /\ At(k, t, l) /\ E(i, t, j).after # None =>
      /\ E(i, t, j).after = E(k, t, l).before => Later(i, j, k, l)
      /\ E(i, t, j).after \notin DOMAIN E(i, t, j).was.rows
           /\ Names(k, t, l, E(i, t, j).after) =>
           Later(i, j, k, l) \/ (i = k /\ j = l)

\* All rows that the log does not keep are in a table.
LeakInv ==
    \A r \in heap :
      \/ \E t \in Tables : r \in linked[t]
      \/ \E i, t, j : At(i, t, j) /\ E(i, t, j).before = r

\* What the entries of t in transaction i lead to.
Reached(i, t) == IF i < depth THEN tx[i + 1].found[t] ELSE Found(t)

\* There are j entries of t in transaction i, or more.
Position(i, t, j) ==
    i \in DOMAIN tx /\ t \in Tables /\ j \in 0..Len(tx[i].log[t])

\* What the first j entries of t in transaction i lead to.
Passed(i, t, j) ==
    IF j < Len(tx[i].log[t]) THEN E(i, t, j + 1).was ELSE Reached(i, t)

\* What the rows of t were that entry j of transaction i wrote.
Wrote(i, t, j) == Result(E(i, t, j), Passed(i, t, j).rows)

\* The rows of t that entries up to j of transaction i inserted or updated.
Touched(i, t, j) ==
    {x \in Rows : \E k, l : /\ At(k, t, l)
                            /\ ~Later(i, j, k, l)
                            /\ E(k, t, l).after = x}

UniqueInv ==
    \A t \in Indexed :
      /\ Unique(Held(t))
      /\ \A i \in DOMAIN tx : Unique(tx[i].found[t].rows)
      /\ phase # "commit" =>
           \A i, j : At(i, t, j) =>
             Unique(E(i, t, j).was.rows) /\ Unique(Wrote(i, t, j))

\* The log leads from what a transaction found to what the next one found.
ChainInv ==
    phase # "commit" =>
      /\ \A i, t, j : At(i, t, j) =>
           /\ Effect(t, E(i, t, j), cell[E(i, t, j).before], Passed(i, t, j).rows)
           /\ Alike(t, Touched(i, t, j), Wrote(i, t, j), Passed(i, t, j).rows)
      /\ \A i \in DOMAIN tx, t \in Tables :
           Alike(t, Touched(i, t, 0), tx[i].found[t].rows, Passed(i, t, 0).rows)

\* The stamp moves with the first entry of a log, and tells that there is one.
StampInv ==
    phase # "commit" =>
      /\ \A i, t, j : At(i, t, j) =>
           /\ j = 1 <=> E(i, t, j).change = "stamp"
           /\ j = 1 => /\ E(i, t, j).stamp = E(i, t, j).was.stamp
                       /\ Passed(i, t, j).stamp = E(i, t, j).was.stamp + 1
           /\ j # 1 => /\ E(i, t, j).was.stamp > tx[i].found[t].stamp
                       /\ Passed(i, t, j).stamp = E(i, t, j).was.stamp
      /\ \A i \in DOMAIN tx, t \in Tables :
           Passed(i, t, 0).stamp = tx[i].found[t].stamp

\* What a transaction finds with the stamp that an outer one found is the same.
FoundInv ==
    phase # "commit" =>
      \A i \in DOMAIN tx, t \in Tables :
        /\ tx[i].log[t] # <<>> => Reached(i, t).stamp > tx[i].found[t].stamp
        /\ \A k \in DOMAIN tx : i <= k =>
             /\ tx[i].found[t].stamp <= Reached(k, t).stamp
             /\ tx[i].found[t].stamp = Reached(k, t).stamp =>
                  Same(t, tx[i].found[t].rows, Reached(k, t).rows)

RollInv ==
    /\ Inv
    /\ SoundInv
    /\ HeapInv
    /\ SpanInv
    /\ LeakInv
    /\ RowsAreIndexed
    /\ UniqueInv
    /\ ChainInv
    /\ StampInv
    /\ FoundInv

-----------------------------------------------------------------------------
(* Undoing a change restores the contents *)

\* An entry is undone: C are the rows of the table, D those after the undo.
Undoes(t, e, old, X, C) ==
    /\ t \in Tables
    /\ e \in Entry
    /\ Effect(t, e, old, C)
    /\ Alike(t, X \cup ({e.after} \ {None}), Result(e, C), C)
    /\ t \in Indexed => /\ Unique(C) /\ Unique(e.was.rows) /\ Unique(Result(e, C))

LEMMA RemovedAlike ==
    ASSUME NEW t, NEW e, NEW old, NEW X, NEW C, NEW D, Undoes(t, e, old, X, C),
           e.change = "insert", e.after \notin X,
           C = [x \in DOMAIN C |-> C[x]],
           D = [x \in DOMAIN C \ {e.after} |-> C[x]]
    PROVE  Alike(t, X, e.was.rows, D)
<1> DEFINE A == e.was.rows
           r == e.after
           W == Result(e, C)
<1>1. /\ e.before = None /\ r # None /\ r \in DOMAIN C /\ r \notin DOMAIN A
      /\ None \notin Rows /\ e.was \in Snapshot
  BY StorageAssumption DEF Undoes, Effect, Entry
<1>2. DOMAIN A \subseteq Rows /\ A = [x \in DOMAIN A |-> A[x]]
  BY <1>1 DEF Snapshot
<1>3. /\ DOMAIN W = DOMAIN A \cup {r}
      /\ W[r] = C[r]
      /\ \A x \in DOMAIN A : W[x] = A[x]
  BY <1>1, <1>2 DEF Result
<1>4. /\ Same(t, W, C)
      /\ \A x \in X : /\ x \in DOMAIN W <=> x \in DOMAIN C
                      /\ x \in DOMAIN W => W[x] = C[x]
      /\ t \in Indexed => Unique(C) /\ Unique(W)
  BY DEF Undoes, Alike
<1> HIDE DEF A, W, r
<1>5. DOMAIN D = DOMAIN C \ {r} /\ \A x \in DOMAIN D : D[x] = C[x]
  BY DEF r
<1>6. \A x \in X : /\ x \in DOMAIN A <=> x \in DOMAIN D
                   /\ x \in DOMAIN A => A[x] = D[x]
  <2>1. r \notin X
    BY DEF r
  <2> QED BY <2>1, <1>3, <1>4, <1>5
<1>7. CASE t \notin Indexed
  <2>1. W = C
    BY <1>4, <1>7 DEF Same
  <2>2. DOMAIN D = DOMAIN A /\ \A x \in DOMAIN A : D[x] = A[x]
    BY <2>1, <1>1, <1>3, <1>5 DEF A, r
  <2>3. D = A
    BY <2>2, <1>2 DEF A, r
  <2> QED BY <2>3, <1>6, <1>7 DEF Alike, Same, A
<1>8. CASE t \in Indexed
  <2>1. Image(W) = Image(C) /\ Unique(C) /\ Unique(W)
    BY <1>4, <1>8 DEF Same
  <2>2. ASSUME NEW x \in DOMAIN A PROVE \E y \in DOMAIN D : D[y] = A[x]
    <3>1. x \in DOMAIN W /\ W[x] = A[x] /\ x # r
      BY <1>1, <1>3 DEF A, r
    <3>2. PICK y \in DOMAIN C : C[y] = W[x]
      BY <2>1, <3>1 DEF Image
    <3>3. y # r
      BY <2>1, <3>1, <3>2, <1>3 DEF Unique
    <3> QED BY <3>1, <3>2, <3>3, <1>5
  <2>3. ASSUME NEW y \in DOMAIN D PROVE \E x \in DOMAIN A : D[y] = A[x]
    <3>1. y \in DOMAIN C /\ y # r /\ D[y] = C[y]
      BY <1>5
    <3>2. PICK x \in DOMAIN W : W[x] = C[y]
      BY <2>1, <3>1 DEF Image
    <3>3. x # r
      BY <2>1, <3>1, <3>2, <1>1, <1>3 DEF Unique, r
    <3> QED BY <3>1, <3>2, <3>3, <1>3
  <2>4. Image(A) = Image(D)
    BY <2>2, <2>3 DEF Image
  <2> QED BY <2>4, <1>6, <1>8 DEF Alike, Same, A
<1> QED BY <1>7, <1>8

LEMMA AddedAlike ==
    ASSUME NEW t, NEW e, NEW old, NEW X, NEW C, NEW D, Undoes(t, e, old, X, C),
           e.change = "delete", e.before \notin DOMAIN C,
           C = [x \in DOMAIN C |-> C[x]],
           D = [x \in DOMAIN C \cup {e.before} |-> IF x = e.before THEN old ELSE C[x]]
    PROVE  Alike(t, X, e.was.rows, D)
<1> DEFINE A == e.was.rows
           r == e.before
           W == Result(e, C)
<1>1. /\ e.after = None /\ r # None /\ r \in DOMAIN A /\ A[r] = old
      /\ None \notin Rows /\ e.was \in Snapshot
  BY StorageAssumption DEF Undoes, Effect, Entry
<1>2. DOMAIN A \subseteq Rows /\ A = [x \in DOMAIN A |-> A[x]]
  BY <1>1 DEF Snapshot
<1>3. /\ DOMAIN W = DOMAIN A \ {r}
      /\ W = [x \in DOMAIN W |-> W[x]]
      /\ \A x \in DOMAIN W : W[x] = A[x]
  BY <1>1, <1>2 DEF Result
<1>4. /\ Same(t, W, C)
      /\ \A x \in X : /\ x \in DOMAIN W <=> x \in DOMAIN C
                      /\ x \in DOMAIN W => W[x] = C[x]
  BY DEF Undoes, Alike
<1> HIDE DEF A, W, r
<1>5. /\ DOMAIN D = DOMAIN C \cup {r} /\ r \notin DOMAIN C
      /\ \A x \in DOMAIN C : D[x] = C[x]
      /\ D[r] = A[r]
  BY <1>1 DEF r
<1>6. \A x \in X : /\ x \in DOMAIN A <=> x \in DOMAIN D
                   /\ x \in DOMAIN A => A[x] = D[x]
  BY <1>1, <1>3, <1>4, <1>5 DEF A, r
<1>7. CASE t \notin Indexed
  <2>1. W = C
    BY <1>4, <1>7 DEF Same
  <2>2. DOMAIN D = DOMAIN A /\ \A x \in DOMAIN A : D[x] = A[x]
    BY <2>1, <1>1, <1>3, <1>5 DEF A, r
  <2>3. D = A
    BY <2>2, <1>2 DEF A, r
  <2> QED BY <2>3, <1>6, <1>7 DEF Alike, Same, A
<1>8. CASE t \in Indexed
  <2>1. Image(W) = Image(C)
    BY <1>4, <1>8 DEF Same
  <2>2. Image(A) = Image(W) \cup {A[r]}
    BY <1>1, <1>3 DEF Image, A, r
  <2>3. Image(D) = Image(C) \cup {A[r]}
    BY <1>5 DEF Image
  <2> QED BY <2>1, <2>2, <2>3, <1>6, <1>8 DEF Alike, Same, A
<1> QED BY <1>7, <1>8

\* A row gets the data back that it had, or that the row had which it replaced.
LEMMA RevertedAlike ==
    ASSUME NEW t, NEW e, NEW old, NEW X, NEW C, NEW D, Undoes(t, e, old, X, C),
           e.change = "update", e.before \notin X,
           e.after \in X => e.after \in DOMAIN e.was.rows,
           C = [x \in DOMAIN C |-> C[x]],
           D = [x \in DOMAIN C |-> IF x = e.after THEN old ELSE C[x]]
    PROVE  Alike(t, X, e.was.rows, D)
<1> DEFINE A == e.was.rows
           r == e.after
           b == e.before
           W == Result(e, C)
<1>1. /\ r # None /\ b # None /\ r \in DOMAIN C
      /\ \/ r \in DOMAIN A /\ b \notin DOMAIN A /\ old = A[r]
         \/ t \in Indexed /\ r \notin DOMAIN A /\ b \in DOMAIN A /\ old = A[b]
      /\ None \notin Rows /\ e.was \in Snapshot
  BY StorageAssumption DEF Undoes, Effect, Entry
<1>2. DOMAIN A \subseteq Rows /\ A = [x \in DOMAIN A |-> A[x]]
  BY <1>1 DEF Snapshot
<1>3. /\ DOMAIN W = (DOMAIN A \ {b}) \cup {r}
      /\ W = [x \in DOMAIN W |-> W[x]]
      /\ W[r] = C[r]
      /\ \A x \in DOMAIN A : x # r /\ x # b => W[x] = A[x]
  BY <1>1, <1>2 DEF Result
<1>4. /\ Same(t, W, C)
      /\ \A x \in X : /\ x \in DOMAIN W <=> x \in DOMAIN C
                      /\ x \in DOMAIN W => W[x] = C[x]
      /\ t \in Indexed => Unique(C) /\ Unique(W)
  BY DEF Undoes, Alike
<1> HIDE DEF A, W, r, b
<1>5. /\ DOMAIN D = DOMAIN C /\ D[r] = old
      /\ \A x \in DOMAIN C : x # r => D[x] = C[x]
  BY <1>1 DEF r
<1>6. \A x \in X : /\ x \in DOMAIN A <=> x \in DOMAIN D
                   /\ x \in DOMAIN A => A[x] = D[x]
  <2>1. b \notin X /\ (r \in X => r \in DOMAIN A)
    BY DEF r, b, A
  <2> QED BY <2>1, <1>1, <1>3, <1>4, <1>5
<1>7. CASE t \notin Indexed
  <2>1. W = C
    BY <1>4, <1>7 DEF Same
  <2>2. DOMAIN D = DOMAIN A /\ \A x \in DOMAIN A : D[x] = A[x]
    BY <2>1, <1>1, <1>3, <1>5, <1>7
  <2>3. D = A
    BY <2>2, <1>2 DEF A, r
  <2> QED BY <2>3, <1>6, <1>7 DEF Alike, Same, A
<1>8. CASE t \in Indexed
  <2>1. Image(W) = Image(C) /\ Unique(C) /\ Unique(W)
    BY <1>4, <1>8 DEF Same
  <2>2. PICK a \in {r, b} : a \in DOMAIN A /\ old = A[a] /\ DOMAIN A = (DOMAIN W \ {r}) \cup {a}
    BY <1>1, <1>3
  <2>3. ASSUME NEW x \in DOMAIN A PROVE \E y \in DOMAIN D : D[y] = A[x]
    <3>1. CASE x = a
      BY <2>2, <3>1, <1>1, <1>5
    <3>2. CASE x # a
      <4>1. x \in DOMAIN W /\ x # r /\ W[x] = A[x]
        BY <2>2, <3>2, <1>1, <1>3
      <4>2. PICK y \in DOMAIN C : C[y] = W[x]
        BY <2>1, <4>1 DEF Image
      <4>3. y # r
        BY <2>1, <4>1, <4>2, <1>1, <1>3 DEF Unique
      <4> QED BY <4>1, <4>2, <4>3, <1>5
    <3> QED BY <3>1, <3>2
  <2>4. ASSUME NEW y \in DOMAIN D PROVE \E x \in DOMAIN A : D[y] = A[x]
    <3>1. CASE y = r
      BY <2>2, <3>1, <1>5
    <3>2. CASE y # r
      <4>1. y \in DOMAIN C /\ D[y] = C[y]
        BY <3>2, <1>5
      <4>2. PICK x \in DOMAIN W : W[x] = C[y]
        BY <2>1, <4>1 DEF Image
      <4>3. x # r
        BY <2>1, <3>2, <4>1, <4>2, <1>1, <1>3 DEF Unique
      <4>4. x \in DOMAIN A /\ x # b /\ W[x] = A[x]
        BY <4>2, <4>3, <1>1, <1>3
      <4> QED BY <4>1, <4>2, <4>4
    <3> QED BY <3>1, <3>2
  <2>5. Image(A) = Image(D)
    BY <2>3, <2>4 DEF Image
  <2> QED BY <2>5, <1>6, <1>8 DEF Alike, Same, A
<1> QED BY <1>7, <1>8

\* The old key is not taken: no other row has it.
LEMMA OldKeyFree ==
    ASSUME NEW t \in Indexed, NEW e, NEW old, NEW X, NEW C, Undoes(t, e, old, X, C),
           e.change \in {"delete", "update"},
           NEW y \in DOMAIN C, C[y].key = old.key
    PROVE  e.change = "update" /\ y = e.after
<1> DEFINE A == e.was.rows
           W == Result(e, C)
<1>1. /\ None \notin Rows /\ e.was \in Snapshot /\ DOMAIN A \subseteq Rows
      /\ e.before # None
      /\ Same(t, W, C) /\ Unique(C) /\ Unique(A) /\ Unique(W)
      /\ Effect(t, e, old, C)
      /\ e.change = "delete" <=> e.after = None
      /\ e.after # None => e.after \in DOMAIN C
  BY StorageAssumption DEF Undoes, Effect, Entry, Alike, Snapshot
<1>2. /\ DOMAIN W = (DOMAIN A \ {e.before}) \cup ({e.after} \ {None})
      /\ \A x \in DOMAIN W : W[x] = IF x = e.after THEN C[x] ELSE A[x]
  BY DEF Result
<1>3. PICK x \in DOMAIN W : W[x] = C[y]
  BY <1>1 DEF Same, Image
<1>4. CASE x = e.after
  BY <1>1, <1>2, <1>3, <1>4 DEF Unique
<1>5. CASE x # e.after
  <2>1. x \in DOMAIN A /\ x # e.before /\ A[x].key = old.key
    BY <1>2, <1>3, <1>5
  <2>2. \/ e.before \in DOMAIN A /\ old = A[e.before]
        \/ e.after \in DOMAIN A /\ old = A[e.after]
    BY <1>1 DEF Effect
  <2> QED BY <1>1, <1>5, <2>1, <2>2 DEF Unique
<1> QED BY <1>4, <1>5

-----------------------------------------------------------------------------
(* A logged change *)

\* Entry n of transaction d is new; before it is what opens a log, if need be.
LoggedAs(t, change, before, after, d, n) ==
    /\ d = depth /\ depth' = d /\ d \in DOMAIN tx
    /\ DOMAIN tx' = DOMAIN tx
    /\ \A i \in DOMAIN tx : tx'[i].found = tx[i].found
    /\ \A i \in DOMAIN tx, u \in Tables : i # d \/ u # t =>
         tx'[i].log[u] = tx[i].log[u]
    /\ n = Len(tx'[d].log[t]) /\ DOMAIN tx'[d].log[t] = 1..n
    /\ \A j \in DOMAIN tx[d].log[t] :
         j \in 1..n /\ tx'[d].log[t][j] = tx[d].log[t][j]
    /\ tx'[d].log[t][n] =
         [change |-> change, before |-> before, after |-> after, stamp |-> 0,
          was |-> [rows |-> Held(t), stamp |-> stamp'[t]]]
    /\ Logged(t) => /\ n = Len(tx[d].log[t]) + 1 /\ stamp' = stamp
                    /\ tx[d].log[t] # <<>>
    /\ ~Logged(t) => /\ n = 2 /\ tx[d].log[t] = <<>>
                     /\ stamp' = [stamp EXCEPT ![t] = @ + 1]
                     /\ tx'[d].log[t][1] =
                          [change |-> "stamp", before |-> None, after |-> None,
                           stamp |-> stamp[t], was |-> Found(t)]

LEMMA LogDetails ==
    ASSUME Inv, tx # <<>>, NEW t \in Tables,
           NEW change, NEW before, NEW after, Fits(change, before, after),
           LogChange(t, change, before, after)
    PROVE  \E d, n \in Nat : LoggedAs(t, change, before, after, d, n)
<1> DEFINE opener == [change |-> "stamp", before |-> None, after |-> None,
                      stamp |-> stamp[t], was |-> Found(t)]
           entry  == [change |-> change, before |-> before, after |-> after,
                      stamp |-> 0,
                      was |-> [rows |-> Held(t), stamp |-> stamp'[t]]]
           entries == IF Logged(t) THEN <<entry>> ELSE <<opener, entry>>
<1>1. /\ tx \in Seq(Transaction) /\ stamp \in [Tables -> Nat]
      /\ TypeOK /\ LinkInv
  BY DEF Inv, TypeOK
<1>2. stamp' = IF Logged(t) THEN stamp ELSE [stamp EXCEPT ![t] = @ + 1]
  BY DEF LogChange
<1>3. stamp[t] \in Nat /\ stamp'[t] \in Nat
  BY <1>1, <1>2
<1>4. opener \in Entry
  BY <1>1, <1>3, FoundType DEF Entry
<1>5. [rows |-> Held(t), stamp |-> stamp'[t]] \in Snapshot
  BY <1>1, <1>3, FoundType
<1>6. entry \in Entry
  BY <1>5 DEF Entry, Fits
<1> HIDE DEF opener, entry
<1>7. /\ entries \in Seq(Entry)
      /\ Logged(t) => Len(entries) = 1 /\ entries[1] = entry /\ DOMAIN entries = {1}
      /\ ~Logged(t) => /\ Len(entries) = 2 /\ entries[1] = opener /\ entries[2] = entry
                       /\ DOMAIN entries = {1, 2}
  BY <1>4, <1>6
<1>8. tx' = Logging(t, entries)
  BY DEF LogChange, opener, entry
<1> HIDE DEF entries
<1>9. /\ depth \in DOMAIN tx /\ depth \in Nat
      /\ tx[depth].log \in [Tables -> Seq(Entry)]
      /\ Top = tx[depth]
  BY <1>1, TopType DEF Top
<1>10. /\ DOMAIN tx' = DOMAIN tx /\ depth' = depth
       /\ \A i \in DOMAIN tx : i # depth => tx'[i] = tx[i]
       /\ tx'[depth].found = tx[depth].found
  BY <1>1, <1>7, <1>8, LoggingEffect
<1>11. tx'[depth].log = [u \in Tables |-> IF u = t THEN tx[depth].log[t] \o entries
                                          ELSE tx[depth].log[u]]
  BY <1>1, <1>7, <1>8, LoggingEffect
<1> DEFINE old == tx[depth].log[t]
           new == tx'[depth].log[t]
<1>12. /\ \A u \in Tables : u # t => tx'[depth].log[u] = tx[depth].log[u]
       /\ new = old \o entries
  BY <1>11
<1>13. old \in Seq(Entry) /\ Len(old) \in Nat /\ DOMAIN old = 1..Len(old)
  BY <1>9
<1>14. Logged(t) <=> old # <<>>
  BY <1>9 DEF Logged
<1> HIDE DEF old, new
<1>15. /\ Len(new) = Len(old) + Len(entries) /\ Len(new) \in Nat
       /\ DOMAIN new = 1..Len(new)
       /\ \A j \in DOMAIN old : j \in 1..Len(new) /\ new[j] = old[j]
       /\ \A j \in DOMAIN entries : new[Len(old) + j] = entries[j]
  BY <1>7, <1>12, <1>13
<1>16. new[Len(new)] = entry
  <2>1. CASE Logged(t)
    BY <2>1, <1>7, <1>13, <1>15
  <2>2. CASE ~Logged(t)
    BY <2>2, <1>7, <1>13, <1>15
  <2> QED BY <2>1, <2>2
<1>17. ~Logged(t) => Len(new) = 2 /\ new[1] = opener
  <2> SUFFICES ASSUME ~Logged(t) PROVE Len(new) = 2 /\ new[1] = opener
    OBVIOUS
  <2>1. Len(old) = 0
    BY <1>14
  <2> QED BY <2>1, <1>7, <1>15
<1>18. Logged(t) => Len(new) = Len(old) + 1
  BY <1>7, <1>15
<1>19. PICK d \in Nat, n \in Nat : d = depth /\ n = Len(new)
  BY <1>9, <1>15
<1>20. /\ \A i \in DOMAIN tx : tx'[i].found = tx[i].found
       /\ \A i \in DOMAIN tx, u \in Tables : i # d \/ u # t =>
            tx'[i].log[u] = tx[i].log[u]
  BY <1>10, <1>12, <1>19
<1>21. /\ n = Len(tx'[d].log[t]) /\ DOMAIN tx'[d].log[t] = 1..n
       /\ \A j \in DOMAIN tx[d].log[t] :
            j \in 1..n /\ tx'[d].log[t][j] = tx[d].log[t][j]
       /\ tx'[d].log[t][n] = entry
  BY <1>15, <1>16, <1>19 DEF old, new
<1>22. Logged(t) => /\ n = Len(tx[d].log[t]) + 1 /\ stamp' = stamp
                    /\ tx[d].log[t] # <<>>
  BY <1>2, <1>14, <1>18, <1>19 DEF old
<1>23. ~Logged(t) => /\ n = 2 /\ tx[d].log[t] = <<>>
                     /\ stamp' = [stamp EXCEPT ![t] = @ + 1]
                     /\ tx'[d].log[t][1] = opener
  BY <1>2, <1>14, <1>17, <1>19 DEF old, new
<1> QED BY <1>9, <1>10, <1>19, <1>20, <1>21, <1>22, <1>23 DEF entry, opener, LoggedAs

\* Every entry after the change was one before it, or is new.
Longer(t, change, before, after, d, n) ==
    /\ \A i, u, j : At(i, u, j) => At(i, u, j)' /\ E(i, u, j)' = E(i, u, j)
    /\ \A i, u, j : At(i, u, j)' =>
         \/ At(i, u, j) /\ E(i, u, j)' = E(i, u, j)
         \/ i = d /\ u = t /\ j = n
         \/ i = d /\ u = t /\ j = 1 /\ ~Logged(t)
    /\ \A i, j : At(i, t, j) => Later(i, j, d, n)
    /\ At(d, t, n)' /\ n # 1
    /\ E(d, t, n)'.change = change
    /\ E(d, t, n)'.before = before
    /\ E(d, t, n)'.after = after
    /\ E(d, t, n)'.was = [rows |-> Held(t), stamp |-> stamp'[t]]
    /\ ~Logged(t) => /\ At(d, t, 1)'
                     /\ E(d, t, 1)'.change = "stamp"
                     /\ E(d, t, 1)'.before = None
                     /\ E(d, t, 1)'.after = None
                     /\ E(d, t, 1)'.stamp = stamp[t]
                     /\ E(d, t, 1)'.was = Found(t)

LEMMA LoggedEntries ==
    ASSUME tx \in Seq(Transaction), NEW t \in Tables,
           NEW change, NEW before, NEW after, NEW d \in Nat, NEW n \in Nat,
           LoggedAs(t, change, before, after, d, n)
    PROVE  Longer(t, change, before, after, d, n)
<1> DEFINE old == tx[d].log[t]
           new == tx'[d].log[t]
<1>1. /\ d = depth /\ d \in DOMAIN tx /\ DOMAIN tx' = DOMAIN tx
      /\ \A i \in DOMAIN tx, u \in Tables : i # d \/ u # t =>
           tx'[i].log[u] = tx[i].log[u]
      /\ DOMAIN new = 1..n
      /\ \A j \in DOMAIN old : j \in 1..n /\ new[j] = old[j]
  BY DEF LoggedAs
<1>2. new[n] = [change |-> change, before |-> before, after |-> after, stamp |-> 0,
                was |-> [rows |-> Held(t), stamp |-> stamp'[t]]]
  BY DEF LoggedAs
<1>3. ~Logged(t) =>
        new[1] = [change |-> "stamp", before |-> None, after |-> None,
                  stamp |-> stamp[t], was |-> Found(t)]
  BY DEF LoggedAs
<1>4. old \in Seq(Entry) /\ Len(old) \in Nat /\ DOMAIN old = 1..Len(old)
  <2>1. tx[d] \in Transaction
    BY <1>1
  <2> QED BY <2>1 DEF Transaction
<1>5. /\ Logged(t) => n = Len(old) + 1 /\ old # <<>>
      /\ ~Logged(t) => n = 2 /\ old = <<>>
  BY DEF LoggedAs
<1>6. n # 1 /\ n \in 1..n /\ 1 \in 1..n
  BY <1>4, <1>5
<1> HIDE DEF old, new
<1>7. \A i, u, j : At(i, u, j) => At(i, u, j)' /\ E(i, u, j)' = E(i, u, j)
  BY <1>1 DEF At, E, old, new
<1>8. ASSUME NEW i, NEW u, NEW j, At(i, u, j)'
      PROVE  \/ At(i, u, j) /\ E(i, u, j)' = E(i, u, j)
             \/ i = d /\ u = t /\ j = n
             \/ i = d /\ u = t /\ j = 1 /\ ~Logged(t)
  <2>1. CASE i # d \/ u # t
    BY <2>1, <1>1, <1>8 DEF At, E
  <2>2. CASE i = d /\ u = t
    <3>1. j \in 1..n
      BY <2>2, <1>1, <1>8 DEF At, new
    <3>2. CASE Logged(t)
      <4>1. j = n \/ j \in DOMAIN old
        BY <3>1, <3>2, <1>4, <1>5
      <4>2. j \in DOMAIN old => At(i, u, j)
        BY <2>2, <1>1 DEF At, old
      <4> QED BY <4>1, <4>2, <1>7, <2>2
    <3>3. CASE ~Logged(t)
      BY <3>1, <3>3, <1>5, <2>2
    <3> QED BY <3>2, <3>3
  <2> QED BY <2>1, <2>2
<1>9. ASSUME NEW i, NEW j, At(i, t, j)
      PROVE  Later(i, j, d, n)
  <2>1. i \in 1..depth
    BY <1>9 DEF At, depth
  <2>2. CASE i = d
    <3>1. j \in DOMAIN old
      BY <2>2, <1>9 DEF At, old
    <3>2. j \in 1..Len(old) /\ old # <<>>
      BY <3>1, <1>4
    <3> QED BY <2>2, <3>2, <1>4, <1>5 DEF Later
  <2>3. CASE i # d
    BY <2>1, <2>3, <1>1 DEF Later
  <2> QED BY <2>2, <2>3
<1>10. At(d, t, n)' /\ At(d, t, 1)'
  BY <1>1, <1>6 DEF At, new
<1>11. E(d, t, n)' = new[n] /\ E(d, t, 1)' = new[1]
  BY DEF E, new
<1> QED BY <1>2, <1>3, <1>6, <1>7, <1>8, <1>9, <1>10, <1>11 DEF Longer

\* The chain leads where it led, and then to what the change leads to.
LeadsOn(t, d, n) ==
    /\ \A i, u, j : Position(i, u, j) => Passed(i, u, j)' = Passed(i, u, j)
    /\ \A i, u, j : At(i, u, j) => Wrote(i, u, j)' = Wrote(i, u, j)
    /\ \A i, u, j : Position(i, u, j) => Touched(i, u, j)' = Touched(i, u, j)
    /\ Passed(d, t, n)' = Found(t)'
    /\ ~Logged(t) => Passed(d, t, 1)' = [rows |-> Held(t), stamp |-> stamp'[t]]

LEMMA LoggedPositions ==
    ASSUME Inv, NEW t \in Tables,
           NEW change, NEW before, NEW after, NEW d \in Nat, NEW n \in Nat,
           LoggedAs(t, change, before, after, d, n),
           \A u \in Tables : u # t => Held(u)' = Held(u) /\ stamp'[u] = stamp[u]
    PROVE  LeadsOn(t, d, n)
<1>0. tx \in Seq(Transaction)
  BY DEF Inv, TypeOK
<1>1. /\ d = depth /\ depth' = d /\ d \in DOMAIN tx /\ DOMAIN tx' = DOMAIN tx
      /\ \A i \in DOMAIN tx : tx'[i].found = tx[i].found
      /\ \A i \in DOMAIN tx, u \in Tables : i # d \/ u # t =>
           tx'[i].log[u] = tx[i].log[u]
      /\ n = Len(tx'[d].log[t])
      /\ Logged(t) => n = Len(tx[d].log[t]) + 1 /\ stamp' = stamp
      /\ ~Logged(t) => /\ n = 2 /\ tx[d].log[t] = <<>>
                       /\ stamp' = [stamp EXCEPT ![t] = @ + 1]
  BY DEF LoggedAs
<1>2. \A i \in DOMAIN tx, u \in Tables :
        /\ i \in Nat /\ tx[i].log[u] \in Seq(Entry)
        /\ Len(tx[i].log[u]) \in Nat /\ DOMAIN tx[i].log[u] = 1..Len(tx[i].log[u])
  <2> SUFFICES ASSUME NEW i \in DOMAIN tx, NEW u \in Tables
               PROVE  i \in Nat /\ tx[i].log[u] \in Seq(Entry)
    OBVIOUS
  <2>1. tx[i] \in Transaction /\ i \in Nat
    BY <1>0
  <2> QED BY <2>1 DEF Transaction
<1>3. Longer(t, change, before, after, d, n)
  BY <1>0, LoggedEntries
<1>4. PICK m \in Nat : m = Len(tx[d].log[t]) /\ m < n /\ (~Logged(t) => m = 0)
  <2>1. Len(tx[d].log[t]) \in Nat /\ (Logged(t) => n = Len(tx[d].log[t]) + 1)
    BY <1>1, <1>2
  <2>2. ~Logged(t) => Len(tx[d].log[t]) = 0 /\ n = 2
    BY <1>1
  <2> QED BY <2>1, <2>2
<1>5. E(d, t, m + 1)'.was = Found(t)
  BY <1>1, <1>3, <1>4 DEF Found, Longer
<1>6. ASSUME NEW i, NEW u, NEW j, Position(i, u, j)
      PROVE  Passed(i, u, j)' = Passed(i, u, j)
  <2> USE <1>6 DEF Position
  <2>1. CASE j < Len(tx[i].log[u])
    <3>1. At(i, u, j + 1)
      BY <2>1, <1>2 DEF At
    <3>2. Len(tx'[i].log[u]) \in Nat /\ j < Len(tx'[i].log[u])
      BY <2>1, <1>1, <1>2, <1>4
    <3> QED BY <2>1, <3>1, <3>2, <1>3 DEF Passed, Longer
  <2>2. CASE j = Len(tx[i].log[u]) /\ (i # d \/ u # t)
    <3>1. tx'[i].log[u] = tx[i].log[u] /\ ~(j < Len(tx[i].log[u]))
      BY <2>2, <1>1, <1>2
    <3>2. CASE i < depth
      <4>1. i + 1 \in DOMAIN tx
        BY <3>2, <1>1, <1>2 DEF depth
      <4> QED BY <3>1, <3>2, <4>1, <1>1 DEF Passed, Reached
    <3>3. CASE ~(i < depth)
      <4>1. i = d /\ u # t
        BY <2>2, <3>3, <1>1, <1>2 DEF depth
      <4>2. Found(u)' = Found(u)
        BY <4>1 DEF Found
      <4> QED BY <3>1, <3>3, <4>2, <1>1 DEF Passed, Reached
    <3> QED BY <3>2, <3>3
  <2>3. CASE i = d /\ u = t /\ j = m
    <3>1. Passed(i, u, j)' = E(d, t, m + 1)'.was
      BY <2>3, <1>1, <1>4 DEF Passed
    <3>2. Reached(d, t) = Found(t)
      BY <1>1 DEF Reached
    <3>3. Passed(i, u, j) = Reached(d, t)
      BY <2>3, <1>4 DEF Passed
    <3> QED BY <3>1, <3>2, <3>3, <1>5
  <2> QED BY <2>1, <2>2, <2>3, <1>2, <1>4
<1>7. ASSUME NEW i, NEW u, NEW j, At(i, u, j)
      PROVE  Wrote(i, u, j)' = Wrote(i, u, j)
  <2>1. Position(i, u, j)
    BY <1>2, <1>7 DEF At, Position
  <2>2. Passed(i, u, j)' = Passed(i, u, j) /\ E(i, u, j)' = E(i, u, j)
    BY <2>1, <1>3, <1>6, <1>7 DEF Longer
  <2> QED BY <2>2 DEF Wrote
<1>8. ASSUME NEW i, NEW u, NEW j, Position(i, u, j)
      PROVE  Touched(i, u, j)' = Touched(i, u, j)
  <2>1. i \in 1..d /\ j \in Nat
    BY <1>1, <1>2, <1>8 DEF depth, Position
  <2>2. ASSUME NEW k, NEW l, At(k, u, l)', ~Later(i, j, k, l)
        PROVE  At(k, u, l)
    <3> SUFFICES ASSUME k = d, u = t, l = n \/ (l = 1 /\ ~Logged(t))
                 PROVE  FALSE
      BY <1>3, <2>2 DEF Longer
    <3>1. CASE i = d
      BY <3>1, <2>2, <1>1, <1>2, <1>4, <1>8 DEF Later, Position
    <3>2. CASE i # d
      BY <3>2, <2>1, <2>2 DEF Later
    <3> QED BY <3>1, <3>2
  <2>3. \A k, l : At(k, u, l)' /\ ~Later(i, j, k, l) <=> At(k, u, l) /\ ~Later(i, j, k, l)
    BY <2>2, <1>3 DEF Longer
  <2> QED BY <2>3, <1>3 DEF Touched, Longer
<1>9. Passed(d, t, n)' = Found(t)'
  BY <1>1, <1>4 DEF Passed, Reached
<1>10. ~Logged(t) => Passed(d, t, 1)' = [rows |-> Held(t), stamp |-> stamp'[t]]
  <2> SUFFICES ASSUME ~Logged(t)
               PROVE  Passed(d, t, 1)' = [rows |-> Held(t), stamp |-> stamp'[t]]
    OBVIOUS
  <2>1. n = 2 /\ Len(tx'[d].log[t]) = 2
    BY <1>1
  <2>2. Passed(d, t, 1)' = E(d, t, 2)'.was
    BY <2>1 DEF Passed
  <2> QED BY <2>1, <2>2, <1>3 DEF Longer
<1> QED BY <1>6, <1>7, <1>8, <1>9, <1>10 DEF LeadsOn

-----------------------------------------------------------------------------
(* A change in a transaction *)

\* What the operations do to table t and its log: after takes the place of
\* before, or is added, or before is removed, or kept as a copy of after.
Changes(t, change, before, after) ==
    /\ Fits(change, before, after)
    /\ LogChange(t, change, before, after)
    /\ linked' = [linked EXCEPT ![t] = (@ \ {before}) \cup ({after} \ {None})]
    /\ heap' = heap \cup ({before, after} \ {None})
    /\ \A x \in heap : x # after => cell'[x] = cell[x]
    /\ change = "insert" => after \in Free
    /\ change = "delete" => before \in linked[t]
    /\ change = "update" =>
         \/ after \in linked[t] /\ before \in Free /\ cell'[before] = cell[after]
         \/ /\ t \in Indexed /\ after \in Free /\ before \in linked[t]
            /\ cell'[after].key = cell[before].key
            /\ \A i, u, j : At(i, u, j) => E(i, u, j).after # before
    /\ phase # "commit" /\ phase' # "commit"

\* Only the rows of t change.
RowsChange(t, before, after) ==
    /\ \A u \in Tables : u # t => Held(u)' = Held(u)
    /\ DOMAIN Held(t)' = (linked[t] \ {before}) \cup ({after} \ {None})
    /\ \A x \in linked[t] : x # before /\ x # after => Held(t)'[x] = Held(t)[x]
    /\ after # None => Held(t)'[after] = cell'[after]
    /\ before # None => before # after /\ before \in heap'
    /\ before # None => cell'[before] = IF before \in linked[t] THEN cell[before]
                                       ELSE cell[after]
    /\ before \in Free => /\ before \notin linked[t]
                          /\ after \in linked[t]
    /\ after \in Free => after \notin linked[t]
    /\ after # None => after \in heap'

LEMMA ChangedRows ==
    ASSUME Inv, NEW t \in Tables, NEW change, NEW before, NEW after,
           Changes(t, change, before, after)
    PROVE  RowsChange(t, before, after)
<1>1. /\ LinkInv /\ linked \in [Tables -> SUBSET Rows] /\ None \notin Rows
      /\ heap \subseteq Rows
  BY StorageAssumption DEF Inv, TypeOK
<1>2. /\ linked'[t] = (linked[t] \ {before}) \cup ({after} \ {None})
      /\ \A u \in Tables : u # t => linked'[u] = linked[u]
  BY <1>1 DEF Changes
<1>3. \A u \in Tables : linked[u] \subseteq heap
  BY <1>1 DEF LinkInv
<1>4. \A x \in Free : x \notin heap /\ x # None
  BY <1>1 DEF Free
<1>5. /\ change \in {"insert", "update", "delete"}
      /\ change \in {"update", "delete"} <=> before # None
      /\ change \in {"insert", "update"} <=> after # None
      /\ heap' = heap \cup ({before, after} \ {None})
      /\ \A x \in heap : x # after => cell'[x] = cell[x]
      /\ change = "insert" => after \in Free
      /\ change = "delete" => before \in linked[t]
      /\ change = "update" =>
           \/ after \in linked[t] /\ before \in Free /\ cell'[before] = cell[after]
           \/ after \in Free /\ before \in linked[t]
  BY DEF Changes, Fits
<1>6. ASSUME NEW u \in Tables, u # t PROVE Held(u)' = Held(u)
  <2>1. linked'[u] = linked[u]
    BY <1>2, <1>6
  <2>2. after \notin linked[u]
    BY <1>1, <1>3, <1>4, <1>5, <1>6 DEF LinkInv
  <2>3. \A x \in linked[u] : cell'[x] = cell[x]
    BY <1>3, <1>5, <2>2
  <2> QED BY <2>1, <2>3 DEF Held
<1>7. /\ DOMAIN Held(t)' = linked'[t] /\ DOMAIN Held(t) = linked[t]
      /\ \A x \in linked'[t] : Held(t)'[x] = cell'[x]
      /\ \A x \in linked[t] : Held(t)[x] = cell[x]
  BY DEF Held
<1>8. \A x \in linked[t] : x # before /\ x # after => Held(t)'[x] = Held(t)[x]
  BY <1>2, <1>3, <1>5, <1>7
<1>9. after # None => Held(t)'[after] = cell'[after] /\ after \in heap'
  BY <1>2, <1>5, <1>7
<1>10. before # None => before # after /\ before \in heap'
  BY <1>3, <1>4, <1>5
<1>11. before # None => cell'[before] = IF before \in linked[t] THEN cell[before]
                                        ELSE cell[after]
  BY <1>3, <1>4, <1>5, <1>10
<1>12. /\ before \in Free => before \notin linked[t] /\ after \in linked[t]
       /\ after \in Free => after \notin linked[t]
  BY <1>3, <1>4, <1>5
<1> QED BY <1>2, <1>6, <1>7, <1>8, <1>9, <1>10, <1>11, <1>12 DEF RowsChange

LEMMA HeapChanged ==
    ASSUME RollInv, tx # <<>>, NEW t \in Tables,
           NEW change, NEW before, NEW after, NEW d \in Nat, NEW n \in Nat,
           Changes(t, change, before, after),
           Longer(t, change, before, after, d, n)
    PROVE  HeapInv' /\ LeakInv'
<1>1. Inv /\ HeapInv /\ LeakInv
  BY DEF RollInv
<1>2. /\ heap' = heap \cup ({before, after} \ {None})
      /\ linked \in [Tables -> SUBSET Rows]
      /\ linked' = [linked EXCEPT ![t] = (@ \ {before}) \cup ({after} \ {None})]
  BY <1>1 DEF Changes, Inv, TypeOK
<1>3. HeapInv'
  <2> SUFFICES ASSUME NEW i, NEW u, NEW j, At(i, u, j)'
               PROVE  /\ E(i, u, j)'.before # None => E(i, u, j)'.before \in heap'
                      /\ E(i, u, j)'.after # None => E(i, u, j)'.after \in heap'
    BY DEF HeapInv
  <2>1. CASE At(i, u, j) /\ E(i, u, j)' = E(i, u, j)
    BY <2>1, <1>1, <1>2 DEF HeapInv
  <2>2. CASE i = d /\ u = t /\ j = n
    BY <2>2, <1>2 DEF Longer
  <2>3. CASE i = d /\ u = t /\ j = 1 /\ ~Logged(t)
    BY <2>3 DEF Longer
  <2> QED BY <2>1, <2>2, <2>3 DEF Longer
<1>4. LeakInv'
  <2> SUFFICES ASSUME NEW r \in heap'
               PROVE  \/ \E u \in Tables : r \in linked'[u]
                      \/ \E i, u, j : At(i, u, j)' /\ E(i, u, j)'.before = r
    BY DEF LeakInv
  <2>1. CASE r = before
    BY <2>1 DEF Longer
  <2>2. CASE r = after /\ r # None
    BY <2>2, <1>2
  <2>3. CASE r \in heap /\ r # before
    <3>1. CASE \E u \in Tables : r \in linked[u]
      BY <2>3, <3>1, <1>2
    <3>2. CASE \E i, u, j : At(i, u, j) /\ E(i, u, j).before = r
      BY <3>2 DEF Longer
    <3> QED BY <2>3, <3>1, <3>2, <1>1 DEF LeakInv
  <2> QED BY <2>1, <2>2, <2>3, <1>2
<1> QED BY <1>3, <1>4

LEMMA SpanChanged ==
    ASSUME RollInv, tx # <<>>, NEW t \in Tables,
           NEW change, NEW before, NEW after, NEW d \in Nat, NEW n \in Nat,
           Changes(t, change, before, after),
           Longer(t, change, before, after, d, n)
    PROVE  SpanInv'
<1>1. Inv /\ SpanInv /\ KeepInv /\ LinkInv
  BY DEF RollInv, Inv
<1>2. /\ before # None => before # after
      /\ after # None => after \in linked[t] \cup Free
      /\ after \in Free => after \notin linked[t]
  <2>1. /\ before # None => before # after
        /\ after \in Free => after \notin linked[t]
    BY <1>1, ChangedRows DEF RowsChange
  <2>2. after # None => after \in linked[t] \cup Free
    BY DEF Changes, Fits
  <2> QED BY <2>1, <2>2
<1>3. /\ E(d, t, n)'.before = before
      /\ E(d, t, n)'.after = after
      /\ DOMAIN E(d, t, n)'.was.rows = linked[t]
  BY DEF Longer, Held
<1> SUFFICES ASSUME NEW i, NEW u, NEW j, NEW k, NEW l,
                    At(i, u, j)', At(k, u, l)', E(i, u, j)'.after # None
             PROVE  /\ E(i, u, j)'.after = E(k, u, l)'.before => Later(i, j, k, l)
                    /\ E(i, u, j)'.after \notin DOMAIN E(i, u, j)'.was.rows
                         /\ (\/ E(k, u, l)'.before = E(i, u, j)'.after
                             \/ E(k, u, l)'.after = E(i, u, j)'.after) =>
                         Later(i, j, k, l) \/ (i = k /\ j = l)
  BY DEF SpanInv, Later, Names
<1>4. CASE At(i, u, j) /\ E(i, u, j)' = E(i, u, j)
  <2>1. CASE At(k, u, l) /\ E(k, u, l)' = E(k, u, l)
    BY <1>1, <1>4, <2>1 DEF SpanInv, Names
  <2>2. CASE k = d /\ u = t /\ l = n
    BY <1>4, <2>2 DEF Longer
  <2>3. CASE k = d /\ u = t /\ l = 1 /\ ~Logged(t)
    BY <2>3 DEF Longer, Names
  <2> QED BY <2>1, <2>2, <2>3 DEF Longer
<1>5. CASE i = d /\ u = t /\ j = n
  <2>1. E(i, u, j)'.after = after /\ after # None
    BY <1>3, <1>5
  <2>2. CASE At(k, u, l) /\ E(k, u, l)' = E(k, u, l)
    <3>1. after # E(k, t, l).before
      <4>1. CASE after \in linked[t]
        BY <4>1, <1>1, <1>5, <2>2 DEF KeepInv
      <4>2. CASE after \in Free
        BY <4>2, <1>1, <1>5, <2>2, FreeRows DEF Names
      <4> QED BY <4>1, <4>2, <1>2, <2>1
    <3>2. after \in linked[t] \/ ~Names(k, t, l, after)
      BY <1>1, <1>2, <1>5, <2>1, <2>2, FreeRows
    <3> QED BY <1>3, <1>5, <2>1, <2>2, <3>1, <3>2 DEF Names
  <2>3. CASE k = d /\ u = t /\ l = n
    BY <1>2, <1>3, <1>5, <2>3
  <2>4. CASE k = d /\ u = t /\ l = 1 /\ ~Logged(t)
    BY <2>1, <2>4 DEF Longer, Names
  <2> QED BY <2>2, <2>3, <2>4 DEF Longer
<1>6. CASE i = d /\ u = t /\ j = 1 /\ ~Logged(t)
  BY <1>6 DEF Longer
<1> QED BY <1>4, <1>5, <1>6 DEF Longer

\* What the new entry wrote are the rows of the table now.
LEMMA WroteNow ==
    ASSUME Inv, NEW t \in Tables, NEW change, NEW before, NEW after,
           Changes(t, change, before, after), NEW e,
           e.before = before, e.after = after, e.was.rows = Held(t)
    PROVE  Result(e, Held(t)') = Held(t)'
<1>0. RowsChange(t, before, after)
  BY ChangedRows
<1>1. /\ DOMAIN Held(t)' = (linked[t] \ {before}) \cup ({after} \ {None})
      /\ \A x \in linked[t] : x # before /\ x # after => Held(t)'[x] = Held(t)[x]
  BY <1>0 DEF RowsChange
<1>2. DOMAIN Held(t) = linked[t]
  BY DEF Held
<1>3. Held(t)' = [x \in DOMAIN Held(t)' |-> Held(t)'[x]]
  BY DEF Held
<1>4. Result(e, Held(t)') = [x \in DOMAIN Held(t)' |->
                              IF x = after THEN Held(t)'[x] ELSE Held(t)[x]]
  BY <1>1, <1>2 DEF Result
<1>5. \A x \in DOMAIN Held(t)' : x # after => Held(t)'[x] = Held(t)[x]
  BY <1>1
<1> HIDE DEF Held
<1> QED BY <1>3, <1>4, <1>5

LEMMA StampOnly ==
    ASSUME NEW e, NEW rows, e.before \notin DOMAIN e.was.rows, e.after = None,
           rows = [x \in DOMAIN rows |-> rows[x]], e.was.rows = rows
    PROVE  Result(e, rows) = rows
BY DEF Result

LEMMA ChangedWrote ==
    ASSUME Inv, NEW t \in Tables,
           NEW change, NEW before, NEW after, NEW d \in Nat, NEW n \in Nat,
           Changes(t, change, before, after),
           Longer(t, change, before, after, d, n), LeadsOn(t, d, n)
    PROVE  /\ Wrote(d, t, n)' = Held(t)'
           /\ ~Logged(t) => Wrote(d, t, 1)' = Held(t)
<1>1. /\ E(d, t, n)'.before = before /\ E(d, t, n)'.after = after
      /\ E(d, t, n)'.was.rows = Held(t)
      /\ Passed(d, t, n)'.rows = Held(t)'
  BY DEF Longer, LeadsOn, Found
<1>2. Wrote(d, t, n)' = Held(t)'
  <2>1. Wrote(d, t, n)' = Result(E(d, t, n)', Held(t)')
    BY <1>1 DEF Wrote
  <2> QED BY <2>1, <1>1, WroteNow
<1>3. ASSUME ~Logged(t) PROVE Wrote(d, t, 1)' = Held(t)
  <2>1. /\ E(d, t, 1)'.before = None /\ E(d, t, 1)'.after = None
        /\ E(d, t, 1)'.was.rows = Held(t)
        /\ Passed(d, t, 1)'.rows = Held(t)
    BY <1>3 DEF Longer, LeadsOn, Found
  <2>2. None \notin DOMAIN Held(t) /\ Held(t) = [x \in DOMAIN Held(t) |-> Held(t)[x]]
    BY StorageAssumption DEF Held, Inv, TypeOK
  <2>3. Wrote(d, t, 1)' = Result(E(d, t, 1)', Held(t))
    BY <2>1 DEF Wrote
  <2> QED BY <2>1, <2>2, <2>3, StampOnly
<1> QED BY <1>2, <1>3

LEMMA ChainChanged ==
    ASSUME RollInv, tx # <<>>, NEW t \in Tables,
           NEW change, NEW before, NEW after, NEW d \in Nat, NEW n \in Nat,
           Changes(t, change, before, after),
           LoggedAs(t, change, before, after, d, n)
    PROVE  ChainInv'
<1>1. /\ Inv /\ HeapInv /\ KeepInv /\ LinkInv /\ ChainInv
      /\ tx \in Seq(Transaction)
  BY DEF RollInv, Inv, TypeOK
<1>0. RowsChange(t, before, after)
  BY <1>1, ChangedRows
<1>2. /\ \A u \in Tables : u # t => Held(u)' = Held(u)
      /\ before # None => before # after /\ before \in heap'
      /\ before # None => cell'[before] = IF before \in linked[t] THEN cell[before]
                                         ELSE cell[after]
      /\ before \in Free => before \notin linked[t] /\ after \in linked[t]
      /\ after \in Free => after \notin linked[t]
      /\ after # None => Held(t)'[after] = cell'[after]
      /\ DOMAIN Held(t)' = (linked[t] \ {before}) \cup ({after} \ {None})
  BY <1>0 DEF RowsChange
<1>3. Longer(t, change, before, after, d, n)
  BY <1>1, LoggedEntries
<1>4. /\ d \in DOMAIN tx /\ DOMAIN tx' = DOMAIN tx
      /\ \A i \in DOMAIN tx : tx'[i].found = tx[i].found
  BY DEF LoggedAs
<1>5. \A u \in Tables : u # t => stamp'[u] = stamp[u]
  <2>1. stamp \in [Tables -> Nat]
    BY <1>1 DEF Inv, TypeOK
  <2> QED BY <2>1 DEF LoggedAs
<1>6. LeadsOn(t, d, n)
  BY <1>1, <1>2, <1>5, LoggedPositions
<1>7. phase # "commit"
  BY DEF Changes
<1>8. ASSUME NEW i, NEW u, NEW j, At(i, u, j)
      PROVE  Position(i, u, j) /\ E(i, u, j) \in Entry
  BY <1>1, <1>8, EntryType DEF Position, At
<1> DEFINE Good(i, u, j) ==
             /\ Effect(u, E(i, u, j), cell[E(i, u, j).before], Passed(i, u, j).rows)
             /\ Alike(u, Touched(i, u, j), Wrote(i, u, j), Passed(i, u, j).rows)
<1>9. ASSUME NEW i, NEW u, NEW j, At(i, u, j) PROVE Good(i, u, j)'
  <2>1. Good(i, u, j)
    BY <1>1, <1>7, <1>9 DEF ChainInv
  <2>2. Position(i, u, j) /\ E(i, u, j) \in Entry
    BY <1>8, <1>9
  <2>3. /\ Passed(i, u, j)' = Passed(i, u, j) /\ Wrote(i, u, j)' = Wrote(i, u, j)
        /\ Touched(i, u, j)' = Touched(i, u, j)
    BY <2>2, <1>6, <1>9 DEF LeadsOn
  <2>4. E(i, u, j)' = E(i, u, j)
    BY <1>3, <1>9 DEF Longer
  <2>5. ASSUME E(i, u, j).before # None
        PROVE  cell'[E(i, u, j).before] = cell[E(i, u, j).before]
    <3>1. E(i, u, j).before \in heap /\ E(i, u, j).before \notin linked[t]
      BY <2>5, <1>1, <1>9 DEF HeapInv, KeepInv
    <3>2. after \in linked[t] \/ after \in Free \/ after = None
      BY DEF Changes, Fits
    <3>3. None \notin heap
      BY <1>1, StorageAssumption DEF Inv, TypeOK
    <3>4. E(i, u, j).before # after
      BY <3>1, <3>2, <3>3 DEF Free
    <3> QED BY <3>1, <3>4 DEF Changes
  <2>6. E(i, u, j).change \in {"update", "delete"} => E(i, u, j).before # None
    BY <2>2 DEF Entry
  <2>7. Effect(u, E(i, u, j), cell'[E(i, u, j).before], Passed(i, u, j).rows)
    BY <2>1, <2>5, <2>6 DEF Effect
  <2> QED BY <2>1, <2>3, <2>4, <2>7
<1>10. Good(d, t, n)'
  <2>1. /\ E(d, t, n)'.change = change
        /\ E(d, t, n)'.before = before /\ E(d, t, n)'.after = after
        /\ E(d, t, n)'.was.rows = Held(t)
        /\ Passed(d, t, n)'.rows = Held(t)'
    BY <1>3, <1>6 DEF Longer, LeadsOn, Found
  <2>2. DOMAIN Held(t) = linked[t] /\ \A x \in linked[t] : Held(t)[x] = cell[x]
    BY DEF Held
  <2>3. Effect(t, E(d, t, n)', cell'[before], Held(t)')
    <3>1. /\ change = "insert" => after \in Free
          /\ change = "delete" => before \in linked[t]
          /\ change = "update" =>
               \/ after \in linked[t] /\ before \in Free /\ cell'[before] = cell[after]
               \/ /\ t \in Indexed /\ after \in Free /\ before \in linked[t]
                  /\ cell'[after].key = cell[before].key
      BY DEF Changes
    <3>2. /\ change \in {"update", "delete"} <=> before # None
          /\ change \in {"insert", "update"} <=> after # None
          /\ change \in {"insert", "update", "delete"}
      BY DEF Changes, Fits
    <3>3. CASE change = "insert"
      BY <3>1, <3>2, <3>3, <2>1, <2>2, <1>2 DEF Effect
    <3>4. CASE change = "delete"
      BY <3>1, <3>2, <3>4, <2>1, <2>2, <1>2 DEF Effect
    <3>5. CASE change = "update"
      <4>1. after \in DOMAIN Held(t)'
        BY <1>2, <3>2, <3>5
      <4>2. CASE after \in linked[t] /\ before \in Free /\ cell'[before] = cell[after]
        BY <4>1, <4>2, <3>5, <2>1, <2>2, <1>2 DEF Effect
      <4>3. CASE /\ t \in Indexed /\ after \in Free /\ before \in linked[t]
                 /\ cell'[after].key = cell[before].key
        BY <4>1, <4>3, <3>2, <3>5, <2>1, <2>2, <1>2 DEF Effect
      <4> QED BY <4>2, <4>3, <3>1, <3>5
    <3> QED BY <3>2, <3>3, <3>4, <3>5
  <2>4. Wrote(d, t, n)' = Held(t)'
    BY <1>1, <1>3, <1>6, ChangedWrote
  <2> QED BY <2>1, <2>3, <2>4 DEF Alike, Same
<1>11. ~Logged(t) => Good(d, t, 1)'
  <2> SUFFICES ASSUME ~Logged(t) PROVE Good(d, t, 1)'
    OBVIOUS
  <2>1. /\ E(d, t, 1)'.change = "stamp"
        /\ E(d, t, 1)'.before = None /\ E(d, t, 1)'.after = None
        /\ E(d, t, 1)'.was.rows = Held(t)
        /\ Passed(d, t, 1)'.rows = Held(t)
    BY <1>3, <1>6 DEF Longer, LeadsOn, Found
  <2>3. Wrote(d, t, 1)' = Held(t)
    BY <1>1, <1>3, <1>6, ChangedWrote
  <2>4. Effect(t, E(d, t, 1)', cell'[None], Held(t))
    BY <2>1 DEF Effect
  <2> QED BY <2>1, <2>3, <2>4 DEF Alike, Same
<1>12. ASSUME NEW i \in DOMAIN tx', NEW u \in Tables
       PROVE  Alike(u, Touched(i, u, 0), tx[i].found[u].rows, Passed(i, u, 0).rows)'
  <2>1. Position(i, u, 0)
    <3>1. tx[i] \in Transaction
      BY <1>1, <1>4
    <3>2. Len(tx[i].log[u]) \in Nat
      BY <3>1 DEF Transaction
    <3> QED BY <3>2, <1>4 DEF Position
  <2>2. Alike(u, Touched(i, u, 0), tx[i].found[u].rows, Passed(i, u, 0).rows)
    BY <1>1, <1>4, <1>7 DEF ChainInv
  <2> QED BY <2>1, <2>2, <1>4, <1>6 DEF LeadsOn
<1>13. ASSUME NEW i, NEW u, NEW j, At(i, u, j)' PROVE Good(i, u, j)'
  BY <1>3, <1>9, <1>10, <1>11, <1>13 DEF Longer
<1> QED BY <1>12, <1>13 DEF ChainInv

LEMMA UniqueChanged ==
    ASSUME RollInv, tx # <<>>, NEW t \in Tables,
           NEW change, NEW before, NEW after, NEW d \in Nat, NEW n \in Nat,
           Changes(t, change, before, after),
           LoggedAs(t, change, before, after, d, n),
           Longer(t, change, before, after, d, n), LeadsOn(t, d, n),
           t \in Indexed => Unique(Held(t))'
    PROVE  UniqueInv'
<1>1. Inv /\ UniqueInv /\ phase # "commit"
  BY DEF RollInv, Changes
<1>2. RowsChange(t, before, after)
  BY <1>1, ChangedRows
<1>3. /\ Wrote(d, t, n)' = Held(t)'
      /\ ~Logged(t) => Wrote(d, t, 1)' = Held(t)
  BY <1>1, ChangedWrote
<1> SUFFICES ASSUME NEW u \in Indexed
             PROVE  /\ Unique(Held(u))'
                    /\ \A i \in DOMAIN tx' : Unique(tx'[i].found[u].rows)
                    /\ \A i, j : At(i, u, j)' =>
                         Unique(E(i, u, j)'.was.rows) /\ Unique(Wrote(i, u, j)')
  BY DEF UniqueInv, Unique
<1>4. u \in Tables
  BY StorageAssumption
<1>5. Unique(Held(u))'
  <2>1. CASE u = t
    BY <2>1
  <2>2. CASE u # t
    <3>1. Held(u)' = Held(u)
      BY <2>2, <1>2, <1>4 DEF RowsChange
    <3> QED BY <3>1, <1>1 DEF UniqueInv, Unique
  <2> QED BY <2>1, <2>2
<1>6. \A i \in DOMAIN tx' : Unique(tx'[i].found[u].rows)
  BY <1>1 DEF UniqueInv, LoggedAs
<1>7. ASSUME NEW i, NEW j, At(i, u, j)'
      PROVE  Unique(E(i, u, j)'.was.rows) /\ Unique(Wrote(i, u, j)')
  <2>1. CASE At(i, u, j) /\ E(i, u, j)' = E(i, u, j)
    BY <2>1, <1>1 DEF UniqueInv, LeadsOn
  <2>2. CASE i = d /\ u = t /\ j = n
    <3>1. E(i, u, j)'.was.rows = Held(t)
      BY <2>2 DEF Longer
    <3> QED BY <3>1, <2>2, <1>1, <1>3, <1>5 DEF UniqueInv, Unique
  <2>3. CASE i = d /\ u = t /\ j = 1 /\ ~Logged(t)
    <3>1. E(i, u, j)'.was.rows = Held(t)
      BY <2>3 DEF Longer, Found
    <3> QED BY <3>1, <2>3, <1>1, <1>3 DEF UniqueInv
  <2> QED BY <2>1, <2>2, <2>3, <1>7 DEF Longer
<1> QED BY <1>5, <1>6, <1>7

\* After the change the stamp is larger than what any open transaction found.
LEMMA StampGrows ==
    ASSUME RollInv, tx # <<>>, NEW t \in Tables,
           NEW change, NEW before, NEW after, NEW d \in Nat, NEW n \in Nat,
           phase # "commit",
           LoggedAs(t, change, before, after, d, n)
    PROVE  /\ stamp[t] \in Nat /\ stamp'[t] \in Nat /\ stamp[t] <= stamp'[t]
           /\ Reached(d, t) = Found(t)
           /\ ~Logged(t) => stamp'[t] = stamp[t] + 1
           /\ \A i \in DOMAIN tx : /\ tx[i].found[t].stamp \in Nat
                                  /\ tx[i].found[t].stamp < stamp'[t]
<1>1. /\ stamp \in [Tables -> Nat] /\ tx \in Seq(Transaction) /\ FoundInv
  BY DEF RollInv, Inv, TypeOK
<1>2. /\ d = depth /\ d \in DOMAIN tx
      /\ Logged(t) => stamp' = stamp /\ tx[d].log[t] # <<>>
      /\ ~Logged(t) => stamp' = [stamp EXCEPT ![t] = @ + 1]
  BY DEF LoggedAs
<1>3. /\ stamp[t] \in Nat /\ stamp'[t] \in Nat /\ stamp[t] <= stamp'[t]
      /\ ~Logged(t) => stamp'[t] = stamp[t] + 1
  BY <1>1, <1>2
<1>4. Reached(d, t) = Found(t) /\ Found(t).stamp = stamp[t]
  BY <1>2 DEF Reached, Found
<1>5. ASSUME NEW i \in DOMAIN tx
      PROVE  tx[i].found[t].stamp \in Nat /\ i \in 1..d
  <2>1. tx[i] \in Transaction /\ i \in 1..Len(tx)
    BY <1>1
  <2>2. tx[i].found[t] \in Snapshot
    BY <2>1 DEF Transaction
  <2> QED BY <2>1, <2>2, <1>2 DEF Snapshot, depth
<1>6. ASSUME NEW i \in DOMAIN tx PROVE tx[i].found[t].stamp < stamp'[t]
  <2>1. /\ i <= d /\ tx[i].found[t].stamp \in Nat /\ tx[d].found[t].stamp \in Nat
    BY <1>2, <1>5
  <2>2. tx[i].found[t].stamp <= stamp[t]
    BY <2>1, <1>1, <1>2, <1>4 DEF FoundInv
  <2>3. CASE ~Logged(t)
    BY <2>1, <2>2, <2>3, <1>3
  <2>4. CASE Logged(t)
    <3>1. tx[d].found[t].stamp < stamp[t]
      BY <2>4, <1>1, <1>2, <1>4 DEF FoundInv
    <3>2. tx[i].found[t].stamp <= tx[d].found[t].stamp
      <4>1. CASE i = d
        BY <4>1, <2>1
      <4>2. CASE i # d
        <5>1. d - 1 \in DOMAIN tx /\ i <= d - 1 /\ d - 1 < depth /\ (d - 1) + 1 = d
          BY <4>2, <1>1, <1>2, <1>5
        <5>2. Reached(d - 1, t) = tx[d].found[t]
          BY <5>1 DEF Reached
        <5> QED BY <5>1, <5>2, <1>1 DEF FoundInv
      <4> QED BY <4>1, <4>2
    <3> QED BY <3>1, <3>2, <2>1, <2>4, <1>2, <1>3
  <2> QED BY <2>3, <2>4
<1> QED BY <1>3, <1>4, <1>5, <1>6

LEMMA StampChanged ==
    ASSUME RollInv, tx # <<>>, NEW t \in Tables,
           NEW change, NEW before, NEW after, NEW d \in Nat, NEW n \in Nat,
           Changes(t, change, before, after),
           LoggedAs(t, change, before, after, d, n),
           Longer(t, change, before, after, d, n), LeadsOn(t, d, n)
    PROVE  StampInv'
<1>1. /\ StampInv /\ phase # "commit" /\ tx \in Seq(Transaction)
      /\ change # "stamp"
  BY DEF RollInv, Changes, Fits, Inv, TypeOK
<1>2. /\ stamp[t] \in Nat /\ stamp'[t] \in Nat
      /\ ~Logged(t) => stamp'[t] = stamp[t] + 1
      /\ \A i \in DOMAIN tx : tx[i].found[t].stamp < stamp'[t]
  BY <1>1, StampGrows
<1>3. /\ d \in DOMAIN tx /\ DOMAIN tx' = DOMAIN tx
      /\ \A i \in DOMAIN tx : tx'[i].found = tx[i].found
  BY DEF LoggedAs
<1> DEFINE Good(i, u, j) ==
             /\ j = 1 <=> E(i, u, j).change = "stamp"
             /\ j = 1 => /\ E(i, u, j).stamp = E(i, u, j).was.stamp
                         /\ Passed(i, u, j).stamp = E(i, u, j).was.stamp + 1
             /\ j # 1 => /\ E(i, u, j).was.stamp > tx[i].found[u].stamp
                         /\ Passed(i, u, j).stamp = E(i, u, j).was.stamp
<1>4. ASSUME NEW i, NEW u, NEW j, At(i, u, j) PROVE Good(i, u, j)'
  <2>1. Good(i, u, j)
    BY <1>1, <1>4 DEF StampInv
  <2>2. Position(i, u, j)
    BY <1>1, <1>4, EntryType DEF Position, At
  <2>3. Passed(i, u, j)' = Passed(i, u, j)
    BY <2>2 DEF LeadsOn
  <2>4. E(i, u, j)' = E(i, u, j) /\ i \in DOMAIN tx
    BY <1>4 DEF Longer, At
  <2> QED BY <2>1, <2>3, <2>4, <1>3
<1>5. Good(d, t, n)'
  <2>1. /\ n # 1 /\ E(d, t, n)'.change # "stamp"
        /\ E(d, t, n)'.was.stamp = stamp'[t]
        /\ Passed(d, t, n)'.stamp = stamp'[t]
    BY <1>1 DEF Longer, LeadsOn, Found
  <2> QED BY <2>1, <1>2, <1>3
<1>6. ~Logged(t) => Good(d, t, 1)'
  <2> SUFFICES ASSUME ~Logged(t) PROVE Good(d, t, 1)'
    OBVIOUS
  <2>1. /\ E(d, t, 1)'.change = "stamp"
        /\ E(d, t, 1)'.stamp = stamp[t]
        /\ E(d, t, 1)'.was.stamp = stamp[t]
        /\ Passed(d, t, 1)'.stamp = stamp'[t]
    BY DEF Longer, LeadsOn, Found
  <2> QED BY <2>1, <1>2
<1>7. ASSUME NEW i \in DOMAIN tx', NEW u \in Tables
      PROVE  (Passed(i, u, 0).stamp = tx[i].found[u].stamp)'
  <2>1. Position(i, u, 0)
    <3>1. tx[i] \in Transaction
      BY <1>1, <1>3
    <3>2. Len(tx[i].log[u]) \in Nat
      BY <3>1 DEF Transaction
    <3> QED BY <3>2, <1>3 DEF Position
  <2>2. Passed(i, u, 0)' = Passed(i, u, 0)
    BY <2>1 DEF LeadsOn
  <2> QED BY <2>2, <1>1, <1>3 DEF StampInv
<1>8. ASSUME NEW i, NEW u, NEW j, At(i, u, j)' PROVE Good(i, u, j)'
  BY <1>4, <1>5, <1>6, <1>8 DEF Longer
<1> QED BY <1>7, <1>8 DEF StampInv

LEMMA FoundChanged ==
    ASSUME RollInv, tx # <<>>, NEW t \in Tables,
           NEW change, NEW before, NEW after, NEW d \in Nat, NEW n \in Nat,
           Changes(t, change, before, after),
           LoggedAs(t, change, before, after, d, n)
    PROVE  FoundInv'
<1>1. /\ Inv /\ FoundInv /\ phase # "commit" /\ tx \in Seq(Transaction)
      /\ stamp \in [Tables -> Nat]
  BY DEF RollInv, Changes, Inv, TypeOK
<1>2. /\ stamp[t] \in Nat /\ stamp'[t] \in Nat
      /\ \A i \in DOMAIN tx : /\ tx[i].found[t].stamp \in Nat
                             /\ tx[i].found[t].stamp < stamp'[t]
  BY <1>1, StampGrows
<1>3. /\ d = depth /\ depth' = d /\ d \in DOMAIN tx /\ DOMAIN tx' = DOMAIN tx
      /\ \A i \in DOMAIN tx : tx'[i].found = tx[i].found
      /\ \A i \in DOMAIN tx, u \in Tables : i # d \/ u # t =>
           tx'[i].log[u] = tx[i].log[u]
      /\ \A u \in Tables : u # t => stamp'[u] = stamp[u]
  BY <1>1 DEF LoggedAs
<1>4. RowsChange(t, before, after)
  BY <1>1, ChangedRows
<1>5. ASSUME NEW i \in DOMAIN tx, NEW u \in Tables, i # d \/ u # t
      PROVE  Reached(i, u)' = Reached(i, u)
  <2>1. CASE i < d
    <3>1. i + 1 \in DOMAIN tx
      BY <2>1, <1>1, <1>3 DEF depth
    <3> QED BY <2>1, <3>1, <1>3 DEF Reached
  <2>2. CASE ~(i < d)
    <3>1. i = d /\ u # t
      BY <2>2, <1>1, <1>3, <1>5 DEF depth
    <3>2. Found(u)' = Found(u)
      BY <3>1, <1>3, <1>4 DEF Found, RowsChange
    <3> QED BY <2>2, <3>2, <1>3 DEF Reached
  <2> QED BY <2>1, <2>2
<1>6. Reached(d, t)'.stamp = stamp'[t]
  BY <1>3 DEF Reached, Found
<1> SUFFICES ASSUME NEW i \in DOMAIN tx, NEW u \in Tables
             PROVE  /\ tx'[i].log[u] # <<>> =>
                         Reached(i, u)'.stamp > tx[i].found[u].stamp
                    /\ \A k \in DOMAIN tx : i <= k =>
                         /\ tx[i].found[u].stamp <= Reached(k, u)'.stamp
                         /\ tx[i].found[u].stamp = Reached(k, u)'.stamp =>
                              Same(u, tx[i].found[u].rows, Reached(k, u)'.rows)
  BY <1>3 DEF FoundInv
<1>7. tx'[i].log[u] # <<>> => Reached(i, u)'.stamp > tx[i].found[u].stamp
  <2>1. CASE i = d /\ u = t
    BY <2>1, <1>2, <1>6
  <2>2. CASE i # d \/ u # t
    BY <2>2, <1>1, <1>3, <1>5 DEF FoundInv
  <2> QED BY <2>1, <2>2
<1>8. ASSUME NEW k \in DOMAIN tx, i <= k
      PROVE  /\ tx[i].found[u].stamp <= Reached(k, u)'.stamp
             /\ tx[i].found[u].stamp = Reached(k, u)'.stamp =>
                  Same(u, tx[i].found[u].rows, Reached(k, u)'.rows)
  <2>1. CASE k = d /\ u = t
    <3>1. tx[i].found[t].stamp \in Nat /\ tx[i].found[t].stamp < stamp'[t]
      BY <1>2
    <3> QED BY <3>1, <2>1, <1>2, <1>6
  <2>2. CASE k # d \/ u # t
    BY <2>2, <1>1, <1>5, <1>8 DEF FoundInv
  <2> QED BY <2>1, <2>2
<1> QED BY <1>7, <1>8

\* A change in a transaction keeps the invariant, if it keeps keys apart.
LEMMA ChangeInv ==
    ASSUME RollInv, tx # <<>>, NEW t \in Tables,
           NEW change, NEW before, NEW after,
           Changes(t, change, before, after), Inv', RowsAreIndexed',
           t \in Indexed => Unique(Held(t))',
           broken' = broken, phase' # "clear" => table' = None
    PROVE  RollInv'
<1>1. Inv /\ tx \in Seq(Transaction) /\ stamp \in [Tables -> Nat]
  BY DEF RollInv, Inv, TypeOK
<1>2. PICK d \in Nat, n \in Nat : LoggedAs(t, change, before, after, d, n)
  BY <1>1, LogDetails DEF Changes
<1>3. Longer(t, change, before, after, d, n)
  BY <1>1, <1>2, LoggedEntries
<1>4. RowsChange(t, before, after)
  BY <1>1, ChangedRows
<1>5. \A u \in Tables : u # t => Held(u)' = Held(u) /\ stamp'[u] = stamp[u]
  BY <1>1, <1>2, <1>4 DEF LoggedAs, RowsChange
<1>6. LeadsOn(t, d, n)
  BY <1>1, <1>2, <1>5, LoggedPositions
<1>7. SoundInv'
  BY DEF RollInv, SoundInv, Changes
<1>8. HeapInv' /\ LeakInv'
  BY <1>3, HeapChanged
<1>9. SpanInv'
  BY <1>3, SpanChanged
<1>10. UniqueInv'
  BY <1>2, <1>3, <1>6, UniqueChanged
<1>11. ChainInv'
  BY <1>2, ChainChanged
<1>12. StampInv'
  BY <1>2, <1>3, <1>6, StampChanged
<1>13. FoundInv'
  BY <1>2, FoundChanged
<1> QED BY <1>7, <1>8, <1>9, <1>10, <1>11, <1>12, <1>13 DEF RollInv

-----------------------------------------------------------------------------
(* Operations on tables *)

\* Outside of a transaction all rows stay in tables.
LEMMA OperationInv ==
    ASSUME RollInv, NEW t \in Tables, NEW change, NEW before, NEW after,
           Inv', RowsAreIndexed', t \in Indexed => Unique(Held(t))',
           broken' = broken, phase # "commit", phase' # "commit",
           phase' # "clear" => table' = None,
           tx # <<>> => Changes(t, change, before, after),
           tx = <<>> => /\ tx' = <<>>
                        /\ \A u \in Tables : u # t => Held(u)' = Held(u)
                        /\ \A r \in heap' : \E u \in Tables : r \in linked'[u]
    PROVE  RollInv'
<1>1. CASE tx # <<>>
  BY <1>1, ChangeInv
<1>2. CASE tx = <<>>
  <2>1. tx' = <<>> /\ DOMAIN tx' = {} /\ \A i, u, j : ~At(i, u, j)'
    BY <1>2 DEF At
  <2>2. HeapInv' /\ SpanInv' /\ ChainInv' /\ StampInv' /\ FoundInv'
    BY <2>1 DEF HeapInv, SpanInv, ChainInv, StampInv, FoundInv
  <2>3. SoundInv'
    BY DEF SoundInv, RollInv
  <2>4. LeakInv'
    BY <1>2 DEF LeakInv
  <2>5. UniqueInv'
    <3>1. ASSUME NEW u \in Indexed PROVE Unique(Held(u))'
      <4>1. u \in Tables
        BY StorageAssumption
      <4>2. CASE u # t
        BY <4>1, <4>2, <1>2 DEF RollInv, UniqueInv, Unique
      <4> QED BY <4>2
    <3> QED BY <3>1, <2>1 DEF UniqueInv
  <2> QED BY <2>2, <2>3, <2>4, <2>5 DEF RollInv
<1> QED BY <1>1, <1>2

LEMMA InsertRowRoll ==
    ASSUME RollInv, NEW t \in Tables, NEW r \in Rows, NEW d \in Data, InsertRow(t, r, d)
    PROVE  RollInv'
<1>1. /\ Inv /\ TypeOK /\ LinkInv /\ LeakInv /\ RowsAreIndexed /\ IndexPointsToRows
      /\ table = None /\ phase = "idle" /\ None \notin Rows \cup Tables
      /\ Indexed \subseteq Tables /\ d.key \in Keys
  BY StorageAssumption DEF RollInv, Inv, SoundInv, InsertRow, MayChange, Data
<1>2. /\ r \in Free /\ ~Taken(t, d.key)
      /\ cell' = With(r, d) /\ linked' = Linking(t, r) /\ index' = Indexing(t, d.key, r)
      /\ LogChange(t, "insert", None, r)
      /\ phase' = phase /\ table' = table /\ broken' = broken
  BY DEF InsertRow, loopVars
<1>3. Inv'
  BY <1>1, InsertRowInv
<1>4. /\ r \notin heap /\ r # None /\ \A u \in Tables : r \notin linked[u]
  BY <1>1, <1>2, FreeRows
<1>5. /\ heap' = heap \cup {r} /\ cell'[r] = d
      /\ \A x \in heap : cell'[x] = cell[x]
  BY <1>2, <1>4 DEF With, heap
<1>6. /\ linked' = [linked EXCEPT ![t] = @ \cup {r}]
      /\ linked'[t] = linked[t] \cup {r}
      /\ \A u \in Tables : u # t => linked'[u] = linked[u]
      /\ \A u \in Tables : linked[u] \subseteq heap
      /\ \A u \in Tables : \A x \in linked[u] : cell[x].key \in Keys
  <2>1. linked' = [linked EXCEPT ![t] = @ \cup {r}]
    BY <1>2 DEF Linking
  <2>2. linked \in [Tables -> SUBSET Rows]
    BY <1>1 DEF TypeOK
  <2>3. \A u \in Tables : linked[u] \subseteq heap
    BY <1>1 DEF LinkInv
  <2>4. \A x \in heap : cell[x].key \in Keys
    BY <1>1 DEF TypeOK, Data
  <2> QED BY <2>1, <2>2, <2>3, <2>4
<1>7. \A u \in Tables, k \in Keys :
        index'[u][k] = IF t \in Indexed /\ u = t /\ k = d.key THEN r ELSE index[u][k]
  BY <1>1, <1>2, IndexingEffect DEF TypeOK
<1>8. RowsAreIndexed'
  <2> SUFFICES ASSUME NEW u \in Indexed, NEW x \in linked'[u]
               PROVE  index'[u][cell'[x].key] = x
    BY DEF RowsAreIndexed
  <2>1. u \in Tables /\ u # table
    BY <1>1
  <2>2. CASE x = r /\ u = t
    BY <2>2, <1>1, <1>5, <1>7
  <2>3. CASE x \in linked[u]
    <3>1. /\ index[u][cell[x].key] = x /\ cell'[x] = cell[x] /\ x # None
          /\ cell[x].key \in Keys
      BY <2>1, <2>3, <1>1, <1>5, <1>6 DEF RowsAreIndexed, TypeOK
    <3>2. u = t => cell[x].key # d.key
      BY <3>1, <1>2 DEF Taken
    <3> QED BY <2>1, <3>1, <3>2, <1>7
  <2> QED BY <2>1, <2>2, <2>3, <1>4, <1>6
<1>9. t \in Indexed => Unique(Held(t))'
  BY <1>1, <1>2, <1>8 DEF RowsAreIndexed, Unique, Held
<1>10. Changes(t, "insert", None, r)
  <2>1. Fits("insert", None, r)
    BY <1>4 DEF Fits
  <2>2. linked' = [linked EXCEPT ![t] = (@ \ {None}) \cup ({r} \ {None})]
    <3>1. None \notin linked[t]
      BY <1>1 DEF TypeOK
    <3>2. linked[t] \cup {r} = (linked[t] \ {None}) \cup ({r} \ {None})
      BY <3>1, <1>4
    <3> QED BY <3>2, <1>6
  <2> QED BY <2>1, <2>2, <1>1, <1>2, <1>4, <1>5 DEF Changes
<1>11. ASSUME tx = <<>>
       PROVE  /\ tx' = <<>>
              /\ \A u \in Tables : u # t => Held(u)' = Held(u)
              /\ \A x \in heap' : \E u \in Tables : x \in linked'[u]
  <2>1. tx' = <<>>
    BY <1>2, <1>11 DEF LogChange
  <2>2. \A u \in Tables : u # t => Held(u)' = Held(u)
    BY <1>5, <1>6 DEF Held
  <2>3. \A i, u, j : ~At(i, u, j)
    BY <1>11 DEF At
  <2>4. \A x \in heap : \E u \in Tables : x \in linked[u]
    BY <2>3, <1>1 DEF LeakInv
  <2>5. \A u \in Tables : linked[u] \subseteq linked'[u]
    BY <1>6
  <2> QED BY <2>1, <2>2, <2>4, <2>5, <1>5, <1>6
<1> QED BY <1>1, <1>2, <1>3, <1>8, <1>9, <1>10, <1>11, OperationInv

LEMMA ReplaceRowRoll ==
    ASSUME RollInv, Careful,
           NEW t \in Tables, NEW r \in Rows, NEW d \in Data, ReplaceRow(t, r, d)
    PROVE  RollInv'
<1> DEFINE old == index[t][d.key]
<1>1. /\ Inv /\ TypeOK /\ LinkInv /\ RowsAreIndexed /\ IndexPointsToRows
      /\ table = None /\ phase = "idle" /\ None \notin Rows \cup Tables
      /\ Indexed \subseteq Tables /\ d.key \in Keys /\ tx # <<>>
      /\ "replace_own" \notin Habits
  BY StorageAssumption DEF RollInv, Inv, SoundInv, ReplaceRow, MayChange, Data, Careful
<1>2. /\ r \in Free /\ Taken(t, d.key)
      /\ cell' = With(r, d)
      /\ linked' = [linked EXCEPT ![t] = (@ \ {old}) \cup {r}]
      /\ index' = Indexing(t, d.key, r)
      /\ LogChange(t, "update", old, r)
      /\ phase' = phase /\ table' = table /\ broken' = broken
  BY DEF ReplaceRow, loopVars
<1>3. Inv'
  BY <1>1, ReplaceRowInv
<1>4. /\ r \notin heap /\ r # None /\ \A u \in Tables : r \notin linked[u]
  BY <1>1, <1>2, FreeRows
<1>5. /\ heap' = heap \cup {r} /\ cell'[r] = d
      /\ \A x \in heap : cell'[x] = cell[x]
  BY <1>2, <1>4 DEF With, heap
<1>6. /\ old \in linked[t] /\ old \in heap /\ old \in Rows
      /\ cell[old].key = d.key /\ t \in Indexed
  BY <1>1, <1>2, TakenRow
<1> HIDE DEF old
<1>7. /\ linked'[t] = (linked[t] \ {old}) \cup {r}
      /\ \A u \in Tables : u # t => linked'[u] = linked[u]
  <2>1. linked \in [Tables -> SUBSET Rows]
    BY <1>1 DEF TypeOK
  <2> QED BY <2>1, <1>2
<1>8. /\ \A u \in Tables : linked[u] \subseteq heap
      /\ \A x \in heap : cell[x].key \in Keys
  BY <1>1 DEF LinkInv, TypeOK, Data
<1>9. \A u \in Tables, k \in Keys :
        index'[u][k] = IF t \in Indexed /\ u = t /\ k = d.key THEN r ELSE index[u][k]
  BY <1>1, <1>2, IndexingEffect DEF TypeOK
<1>10. RowsAreIndexed'
  <2> SUFFICES ASSUME NEW u \in Indexed, NEW x \in linked'[u]
               PROVE  index'[u][cell'[x].key] = x
    BY DEF RowsAreIndexed
  <2>1. u \in Tables /\ u # table
    BY <1>1
  <2>2. CASE x = r /\ u = t
    BY <2>2, <1>1, <1>5, <1>9
  <2>3. CASE x \in linked[u] /\ (u = t => x # old)
    <3>1. /\ index[u][cell[x].key] = x /\ cell'[x] = cell[x]
          /\ cell[x].key \in Keys
      BY <2>1, <2>3, <1>1, <1>5, <1>8 DEF RowsAreIndexed
    <3>2. u = t => cell[x].key # d.key
      BY <3>1, <2>3 DEF old
    <3> QED BY <2>1, <3>1, <3>2, <1>9
  <2> QED BY <2>1, <2>2, <2>3, <1>7
<1>11. t \in Indexed => Unique(Held(t))'
  BY <1>1, <1>2, <1>10 DEF RowsAreIndexed, Unique, Held
<1>12. \A i, u, j : At(i, u, j) => E(i, u, j).after # old
  <2>1. ~Own(t, old)
    BY <1>1 DEF ReplaceRow, old
  <2> SUFFICES ASSUME NEW i, NEW u, NEW j, At(i, u, j), E(i, u, j).after = old
               PROVE  FALSE
    OBVIOUS
  <2>2. t = u
    BY <1>1, <1>6 DEF Inv, HomeInv, Names
  <2> QED BY <2>1, <2>2 DEF Own, At, E
<1>13. Changes(t, "update", old, r)
  <2>1. Fits("update", old, r)
    BY <1>1, <1>4, <1>6 DEF Fits
  <2>2. linked' = [linked EXCEPT ![t] = (@ \ {old}) \cup ({r} \ {None})]
    <3>1. {r} = {r} \ {None}
      BY <1>4
    <3> QED BY <3>1, <1>2
  <2>3. heap' = heap \cup ({old, r} \ {None})
    BY <1>1, <1>4, <1>5, <1>6
  <2> QED BY <2>1, <2>2, <2>3, <1>1, <1>2, <1>4, <1>5, <1>6, <1>12 DEF Changes
<1> QED BY <1>1, <1>2, <1>3, <1>10, <1>11, <1>13, OperationInv

LEMMA UpdateRowRoll ==
    ASSUME RollInv, NEW t \in Tables, NEW r \in Rows, NEW d \in Data,
           NEW c \in Rows \cup {None}, UpdateRow(t, r, d, c)
    PROVE  RollInv'
<1>1. /\ Inv /\ TypeOK /\ LinkInv /\ LeakInv /\ RowsAreIndexed /\ IndexPointsToRows
      /\ table = None /\ phase = "idle" /\ None \notin Rows \cup Tables
      /\ Indexed \subseteq Tables /\ d.key \in Keys
  BY StorageAssumption DEF RollInv, Inv, SoundInv, UpdateRow, MayChange, Data
<1>2. /\ c \in Copies
      /\ d.key # cell[r].key => ~Taken(t, d.key)
      /\ cell' = Changing(r, d, c) /\ linked' = linked
      /\ LogChange(t, "update", c, r)
      /\ phase' = phase /\ table' = table /\ broken' = broken
  BY DEF UpdateRow, loopVars
<1>3. index' = IF t \in Indexed
               THEN [index EXCEPT ![t] =
                       [[@ EXCEPT ![cell[r].key] = None] EXCEPT ![d.key] = r]]
               ELSE index
  BY DEF UpdateRow
<1>4. Inv'
  BY <1>1, UpdateRowInv
<1>5. r \in linked[t] /\ r \in heap /\ r # None /\ cell[r].key \in Keys
  BY <1>1, VisibleRows DEF UpdateRow
<1>6. /\ c # None => c \in Free /\ c \notin heap
      /\ c # r
      /\ heap' = heap \cup ({c} \ {None})
      /\ cell'[r] = d
      /\ c # None => cell'[c] = cell[r]
      /\ \A x \in heap : x # r => cell'[x] = cell[x]
  <2>1. c # None => c \in Free /\ c \notin heap /\ c \in Rows
    BY <1>2 DEF Copies, Free
  <2>2. cell' = [x \in heap \cup ({c} \ {None}) |->
                   IF x = r THEN d ELSE IF x = c THEN cell[r] ELSE cell[x]]
    BY <1>2 DEF Changing
  <2>3. heap' = heap \cup ({c} \ {None})
    BY <2>2 DEF heap
  <2>4. c # r
    BY <2>1, <1>5
  <2>5. cell'[r] = d /\ \A x \in heap : x # r => cell'[x] = cell[x]
    <3>1. c \notin heap
      BY <2>1, <1>1 DEF TypeOK
    <3> QED BY <3>1, <2>2, <1>5
  <2>6. c # None => cell'[c] = cell[r]
    BY <2>2, <2>4
  <2> QED BY <2>1, <2>3, <2>4, <2>5, <2>6
<1>7. /\ \A u \in Tables : linked[u] \subseteq heap
      /\ \A x \in heap : cell[x].key \in Keys
      /\ \A u \in Tables : u # t => r \notin linked[u]
  BY <1>1, <1>5 DEF LinkInv, TypeOK, Data
<1>8. \A u \in Tables, k \in Keys :
        index'[u][k] = IF t \in Indexed /\ u = t /\ k = d.key THEN r ELSE
                       IF t \in Indexed /\ u = t /\ k = cell[r].key THEN None
                       ELSE index[u][k]
  BY <1>1, <1>3, <1>5 DEF TypeOK
<1>9. RowsAreIndexed'
  <2> SUFFICES ASSUME NEW u \in Indexed, NEW x \in linked[u]
               PROVE  index'[u][cell'[x].key] = x
    BY <1>2 DEF RowsAreIndexed
  <2>1. u \in Tables /\ u # table
    BY <1>1
  <2>2. CASE x = r
    <3>1. u = t
      BY <2>1, <2>2, <1>7
    <3> QED BY <2>2, <3>1, <1>1, <1>6, <1>8
  <2>3. CASE x # r
    <3>1. /\ index[u][cell[x].key] = x /\ cell'[x] = cell[x] /\ x # None
          /\ cell[x].key \in Keys
      BY <2>1, <2>3, <1>1, <1>6, <1>7 DEF RowsAreIndexed, TypeOK
    <3>2. CASE u = t
      <4>1. index[t][cell[r].key] = r
        BY <3>2, <2>1, <1>1, <1>5 DEF RowsAreIndexed
      <4>2. cell[x].key # cell[r].key
        BY <4>1, <3>1, <3>2, <2>3
      <4>3. cell[x].key # d.key
        BY <4>2, <3>1, <3>2, <1>2 DEF Taken
      <4> QED BY <2>1, <3>1, <4>2, <4>3, <1>8
    <3>3. CASE u # t
      BY <2>1, <3>1, <3>3, <1>8
    <3> QED BY <3>2, <3>3
  <2> QED BY <2>2, <2>3
<1>10. t \in Indexed => Unique(Held(t))'
  BY <1>1, <1>2, <1>9 DEF RowsAreIndexed, Unique, Held
<1>11. ASSUME tx # <<>> PROVE Changes(t, "update", c, r)
  <2>1. c \in Free /\ c # None /\ c \notin linked[t]
    BY <1>1, <1>2, <1>6, <1>7, <1>11 DEF Copies, Free
  <2>2. Fits("update", c, r)
    BY <1>5, <2>1 DEF Fits, Free
  <2>3. linked' = [linked EXCEPT ![t] = (@ \ {c}) \cup ({r} \ {None})]
    <3>1. linked \in [Tables -> SUBSET Rows]
      BY <1>1 DEF TypeOK
    <3>2. (linked[t] \ {c}) \cup ({r} \ {None}) = linked[t]
      BY <1>5, <2>1
    <3> QED BY <3>1, <3>2, <1>2
  <2>4. heap' = heap \cup ({c, r} \ {None})
    BY <1>5, <1>6
  <2> QED BY <2>1, <2>2, <2>3, <2>4, <1>1, <1>2, <1>5, <1>6 DEF Changes
<1>12. ASSUME tx = <<>>
       PROVE  /\ tx' = <<>>
              /\ \A u \in Tables : u # t => Held(u)' = Held(u)
              /\ \A x \in heap' : \E u \in Tables : x \in linked'[u]
  <2>1. tx' = <<>>
    BY <1>2, <1>12 DEF LogChange
  <2>2. \A u \in Tables : u # t => Held(u)' = Held(u)
    BY <1>2, <1>6, <1>7 DEF Held
  <2>3. \A i, u, j : ~At(i, u, j)
    BY <1>12 DEF At
  <2>4. \A x \in heap : \E u \in Tables : x \in linked[u]
    BY <2>3, <1>1 DEF LeakInv
  <2>5. heap' = heap
    BY <1>2, <1>6, <1>12 DEF Copies
  <2> QED BY <2>1, <2>2, <2>4, <2>5, <1>2
<1> QED BY <1>1, <1>2, <1>4, <1>9, <1>10, <1>11, <1>12, OperationInv

\* What a deletion does to the rows of all tables, whether it keeps r or not.
LEMMA DroppedRows ==
    ASSUME Inv, LeakInv, UniqueInv, NEW t \in Tables, NEW r \in linked[t],
           cell' = Dropping(r), linked' = Unlinking(t, r),
           LogChange(t, "delete", r, None)
    PROVE  /\ linked'[t] = linked[t] \ {r}
           /\ \A u \in Tables : u # t => linked'[u] = linked[u]
           /\ \A u \in Tables : \A x \in linked'[u] : cell'[x] = cell[x]
           /\ t \in Indexed => Unique(Held(t))'
           /\ phase # "commit" /\ phase' # "commit" /\ tx # <<>> =>
                Changes(t, "delete", r, None)
           /\ tx = <<>> => /\ tx' = <<>>
                           /\ \A u \in Tables : u # t => Held(u)' = Held(u)
                           /\ \A x \in heap' : \E u \in Tables : x \in linked'[u]
<1>1. /\ linked \in [Tables -> SUBSET Rows] /\ LinkInv /\ None \notin Rows
      /\ r \in heap /\ r \in Rows /\ r # None
      /\ \A u \in Tables : linked[u] \subseteq heap
      /\ \A u \in Tables : u # t => r \notin linked[u]
  <2>1. linked \in [Tables -> SUBSET Rows] /\ LinkInv /\ None \notin Rows
    BY StorageAssumption DEF Inv, TypeOK
  <2> QED BY <2>1 DEF LinkInv
<1>2. /\ heap' = IF tx = <<>> THEN heap \ {r} ELSE heap
      /\ \A x \in heap \ {r} : cell'[x] = cell[x]
  BY DroppingEffect
<1>3. /\ linked' = [linked EXCEPT ![t] = @ \ {r}]
      /\ linked'[t] = linked[t] \ {r}
      /\ \A u \in Tables : u # t => linked'[u] = linked[u]
  BY <1>1 DEF Unlinking
<1>4. \A u \in Tables : \A x \in linked'[u] : x \in linked[u] /\ x # r
  BY <1>1, <1>3
<1>5. \A u \in Tables : \A x \in linked'[u] : cell'[x] = cell[x]
  BY <1>1, <1>2, <1>4
<1>6. t \in Indexed => Unique(Held(t))'
  <2>1. t \in Indexed => Unique(Held(t))
    BY DEF UniqueInv
  <2>2. \A x \in DOMAIN Held(t)' : x \in DOMAIN Held(t) /\ Held(t)'[x] = Held(t)[x]
    BY <1>4, <1>5 DEF Held
  <2> QED BY <2>1, <2>2 DEF Unique
<1>7. ASSUME phase # "commit", phase' # "commit", tx # <<>>
      PROVE  Changes(t, "delete", r, None)
  <2>1. Fits("delete", r, None)
    BY <1>1 DEF Fits
  <2>2. linked' = [linked EXCEPT ![t] = (@ \ {r}) \cup ({None} \ {None})]
    <3>1. (linked[t] \ {r}) \cup ({None} \ {None}) = linked[t] \ {r}
      OBVIOUS
    <3> QED BY <3>1, <1>3
  <2>3. heap' = heap \cup ({r, None} \ {None})
    BY <1>1, <1>2, <1>7
  <2>4. \A x \in heap : cell'[x] = cell[x]
    BY <1>7 DEF Dropping
  <2> QED BY <2>1, <2>2, <2>3, <2>4, <1>7 DEF Changes
<1>8. ASSUME tx = <<>>
      PROVE  /\ tx' = <<>>
             /\ \A u \in Tables : u # t => Held(u)' = Held(u)
             /\ \A x \in heap' : \E u \in Tables : x \in linked'[u]
  <2>1. tx' = <<>>
    BY <1>8 DEF LogChange
  <2>2. \A u \in Tables : u # t => Held(u)' = Held(u)
    BY <1>3, <1>5 DEF Held
  <2>3. \A i, u, j : ~At(i, u, j)
    BY <1>8 DEF At
  <2>4. \A x \in heap : \E u \in Tables : x \in linked[u]
    BY <2>3 DEF LeakInv
  <2>5. \A x \in heap' : x \in heap /\ x # r
    BY <1>2, <1>8
  <2> QED BY <2>1, <2>2, <2>4, <2>5, <1>3
<1> QED BY <1>3, <1>5, <1>6, <1>7, <1>8

LEMMA DeleteRowRoll ==
    ASSUME RollInv, NEW t \in Tables, NEW r \in Rows, DeleteRow(t, r)
    PROVE  RollInv'
<1>1. /\ Inv /\ TypeOK /\ LinkInv /\ LeakInv /\ UniqueInv
      /\ RowsAreIndexed /\ IndexPointsToRows
      /\ table = None /\ phase = "idle" /\ None \notin Rows \cup Tables
      /\ Indexed \subseteq Tables
  BY StorageAssumption DEF RollInv, Inv, SoundInv, DeleteRow, MayChange
<1>2. /\ cell' = Dropping(r) /\ linked' = Unlinking(t, r)
      /\ index' = Unindexing(t, cell[r].key)
      /\ LogChange(t, "delete", r, None)
      /\ phase' = phase /\ table' = table /\ broken' = broken
  BY DEF DeleteRow, loopVars
<1>3. Inv'
  BY <1>1, DeleteRowInv
<1>4. r \in linked[t] /\ cell[r].key \in Keys
  BY <1>1, VisibleRows DEF DeleteRow
<1>5. /\ linked'[t] = linked[t] \ {r}
      /\ \A u \in Tables : u # t => linked'[u] = linked[u]
      /\ \A u \in Tables : \A x \in linked'[u] : cell'[x] = cell[x]
      /\ t \in Indexed => Unique(Held(t))'
      /\ phase # "commit" /\ phase' # "commit" /\ tx # <<>> =>
           Changes(t, "delete", r, None)
      /\ tx = <<>> => /\ tx' = <<>>
                      /\ \A u \in Tables : u # t => Held(u)' = Held(u)
                      /\ \A x \in heap' : \E u \in Tables : x \in linked'[u]
  BY <1>1, <1>2, <1>4, DroppedRows
<1>6. \A u \in Tables, k \in Keys :
        index'[u][k] = IF t \in Indexed /\ u = t /\ k = cell[r].key THEN None
                       ELSE index[u][k]
  BY <1>1, <1>2, <1>4, IndexingEffect DEF Unindexing, TypeOK
<1>7. RowsAreIndexed'
  <2> SUFFICES ASSUME NEW u \in Indexed, NEW x \in linked'[u]
               PROVE  index'[u][cell'[x].key] = x
    BY DEF RowsAreIndexed
  <2>1. u \in Tables /\ u # table
    BY <1>1
  <2>2. x \in linked[u] /\ (u = t => x # r) /\ cell'[x] = cell[x]
    BY <2>1, <1>5
  <2>3. index[u][cell[x].key] = x
    BY <2>1, <2>2, <1>1 DEF RowsAreIndexed
  <2>4. cell[x].key \in Keys
    BY <2>1, <2>2, <1>1 DEF LinkInv, TypeOK, Data
  <2>5. u = t => index[u][cell[r].key] = r
    BY <2>1, <1>1, <1>4 DEF RowsAreIndexed
  <2> QED BY <2>1, <2>2, <2>3, <2>4, <2>5, <1>6
<1> QED BY <1>1, <1>2, <1>3, <1>5, <1>7, OperationInv

LEMMA ClearRowRoll ==
    ASSUME RollInv, NEW r \in Rows, ClearRow(r)
    PROVE  RollInv'
<1>0. PICK t \in Tables : t = table
  BY DEF RollInv, Inv, TypeOK, ClearRow
<1>1. /\ Inv /\ LeakInv /\ UniqueInv /\ RowsAreIndexed
      /\ phase = "clear" /\ r \in linked[t]
      /\ None \notin Rows \cup Tables /\ Indexed \subseteq Tables
  BY <1>0, StorageAssumption DEF RollInv, ClearRow
<1>2. /\ LogChange(t, "delete", r, None)
      /\ linked' = Unlinking(t, r) /\ cell' = Dropping(r)
      /\ index' = index /\ broken' = broken
      /\ \/ linked[t] = {r} /\ phase' = "idle" /\ table' = None
         \/ phase' = phase /\ table' = table
  BY <1>0 DEF ClearRow
<1>3. Inv'
  BY <1>1, ClearRowInv
<1>4. /\ linked'[t] = linked[t] \ {r}
      /\ \A u \in Tables : u # t => linked'[u] = linked[u]
      /\ \A u \in Tables : \A x \in linked'[u] : cell'[x] = cell[x]
      /\ t \in Indexed => Unique(Held(t))'
      /\ phase # "commit" /\ phase' # "commit" /\ tx # <<>> =>
           Changes(t, "delete", r, None)
      /\ tx = <<>> => /\ tx' = <<>>
                      /\ \A u \in Tables : u # t => Held(u)' = Held(u)
                      /\ \A x \in heap' : \E u \in Tables : x \in linked'[u]
  BY <1>1, <1>2, DroppedRows
<1>5. RowsAreIndexed'
  <2> SUFFICES ASSUME NEW u \in Indexed, u # table', NEW x \in linked'[u]
               PROVE  index'[u][cell'[x].key] = x
    BY DEF RowsAreIndexed
  <2>1. u \in Tables
    BY <1>1
  <2>2. u # table
    BY <2>1, <1>0, <1>2, <1>4
  <2>3. x \in linked[u] /\ cell'[x] = cell[x]
    BY <2>1, <2>2, <1>4
  <2> QED BY <2>2, <2>3, <1>1, <1>2 DEF RowsAreIndexed
<1>6. phase' # "commit" /\ (phase' # "clear" => table' = None)
  BY <1>1, <1>2
<1> QED BY <1>1, <1>2, <1>3, <1>4, <1>5, <1>6, OperationInv

-----------------------------------------------------------------------------
(* The log and the rows stay as they are *)

\* Then the invariant does, but for the parts about the index and the loops.
LEMMA QuietRoll ==
    ASSUME RollInv, UNCHANGED <<cell, linked, stamp, tx>>,
           Inv', SoundInv', RowsAreIndexed', phase' = "commit" \/ phase # "commit"
    PROVE  RollInv'
<1>1. /\ \A t : Held(t)' = Held(t) /\ Found(t)' = Found(t)
      /\ \A i, t, j : At(i, t, j)' <=> At(i, t, j)
      /\ \A i, t, j : E(i, t, j)' = E(i, t, j)
      /\ \A i, t : Reached(i, t)' = Reached(i, t)
      /\ heap' = heap /\ depth' = depth
  BY DEF Held, Found, At, E, Reached, heap, depth
<1>2. /\ \A i, t, j : Passed(i, t, j)' = Passed(i, t, j)
      /\ \A i, t, j : Touched(i, t, j)' = Touched(i, t, j)
  BY <1>1 DEF Passed, Touched
<1>3. \A i, t, j : Wrote(i, t, j)' = Wrote(i, t, j)
  BY <1>1, <1>2 DEF Wrote
<1>4. HeapInv' /\ SpanInv' /\ LeakInv'
  BY <1>1 DEF RollInv, HeapInv, SpanInv, LeakInv, Names
<1>5. UniqueInv'
  BY <1>1, <1>3 DEF RollInv, UniqueInv, Unique
<1>6. ChainInv'
  BY <1>1, <1>2, <1>3 DEF RollInv, ChainInv
<1>7. StampInv' /\ FoundInv'
  BY <1>1, <1>2 DEF RollInv, StampInv, FoundInv
<1> QED BY <1>4, <1>5, <1>6, <1>7 DEF RollInv

LEMMA ClearRoll ==
    ASSUME RollInv, NEW t \in Tables, Clear(t)
    PROVE  RollInv'
<1>1. /\ phase = "idle" /\ phase' = "clear" /\ table = None /\ table' = t
      /\ cell' = cell /\ linked' = linked /\ stamp' = stamp /\ tx' = tx
      /\ broken' = broken /\ None \notin Tables /\ Indexed \subseteq Tables
  BY StorageAssumption DEF Clear, MayChange, RollInv, SoundInv
<1>2. Inv' /\ SoundInv'
  BY <1>1, ClearInv DEF RollInv, SoundInv
<1>3. RowsAreIndexed'
  <2>1. \A u \in Tables : u # t => index'[u] = index[u]
    BY DEF Clear, RollInv, Inv, TypeOK
  <2> SUFFICES ASSUME NEW u \in Indexed, u # t, NEW x \in linked[u]
               PROVE  index'[u][cell[x].key] = x
    BY <1>1 DEF RowsAreIndexed
  <2>2. u \in Tables /\ u # table
    BY <1>1
  <2> QED BY <2>1, <2>2 DEF RollInv, RowsAreIndexed
<1> QED BY <1>1, <1>2, <1>3, QuietRoll

\* A commit or a rollback starts.
LEMMA LoopRoll ==
    ASSUME RollInv, Careful, Commit \/ Rollback
    PROVE  RollInv'
<1>1. /\ phase = "idle" /\ table' = table /\ index' = index
      /\ cell' = cell /\ linked' = linked /\ stamp' = stamp /\ tx' = tx
      /\ broken' = broken /\ phase' \in {"commit", "rollback"} /\ tx # <<>>
      /\ phase' = "commit" => ~(depth > 1)
  BY DEF Commit, Rollback, rowVars, loopVars, Careful
<1>2. started' \in BOOLEAN /\ broken' \in BOOLEAN
  BY DEF Commit, Rollback, rowVars, loopVars, RollInv, Inv, TypeOK
<1>3. Inv'
  BY <1>1, <1>2, QuietInv DEF rowVars, RollInv
<1>4. SoundInv'
  <2>1. depth' = depth /\ depth \in Nat \ {0}
    BY <1>1, TopType DEF RollInv, Inv, TypeOK, depth
  <2> QED BY <2>1, <1>1 DEF RollInv, SoundInv
<1>5. RowsAreIndexed'
  BY <1>1 DEF RollInv, RowsAreIndexed
<1> QED BY <1>1, <1>3, <1>4, <1>5, QuietRoll

-----------------------------------------------------------------------------
(* Begin and commit *)

LEMMA BeginRoll ==
    ASSUME RollInv, Begin
    PROVE  RollInv'
<1> DEFINE new == [order |-> <<>>,
                   log   |-> [t \in Tables |-> <<>>],
                   found |-> [t \in Tables |-> Found(t)]]
<1>1. /\ tx' = Append(tx, new) /\ phase = "idle" /\ phase' = "idle"
      /\ cell' = cell /\ linked' = linked /\ index' = index /\ stamp' = stamp
      /\ table' = table /\ broken' = broken
      /\ tx \in Seq(Transaction) /\ stamp \in [Tables -> Nat]
      /\ Indexed \subseteq Tables
  BY StorageAssumption DEF Begin, rowVars, loopVars, RollInv, Inv, TypeOK
<1>2. Inv'
  BY BeginInv DEF RollInv
<1>3. /\ \A t \in Tables : new.log[t] = <<>> /\ new.found[t] = Found(t)
  OBVIOUS
<1> HIDE DEF new
<1>4. PICK d \in Nat : d = depth
  BY <1>1 DEF depth
<1>5. /\ DOMAIN tx = 1..d /\ DOMAIN tx' = 1..(d + 1) /\ depth' = d + 1
      /\ \A i \in 1..d : tx'[i] = tx[i]
      /\ tx'[d + 1] = new
  BY <1>1, <1>4 DEF depth
<1>6. /\ \A i, t, j : At(i, t, j)' <=> At(i, t, j)
      /\ \A i, t, j : At(i, t, j) => E(i, t, j)' = E(i, t, j)
  <2>1. \A t \in Tables : DOMAIN tx'[d + 1].log[t] = {}
    BY <1>3, <1>5
  <2>2. DOMAIN tx' = DOMAIN tx \cup {d + 1} /\ d + 1 \notin DOMAIN tx
    BY <1>5
  <2> QED BY <1>5, <2>1, <2>2 DEF At, E
<1>7. \A t : Held(t)' = Held(t) /\ Found(t)' = Found(t)
  BY <1>1 DEF Held, Found
<1>8. \A i \in DOMAIN tx, t \in Tables : Reached(i, t)' = Reached(i, t)
  <2> SUFFICES ASSUME NEW i \in DOMAIN tx, NEW t \in Tables
               PROVE  Reached(i, t)' = Reached(i, t)
    OBVIOUS
  <2>1. CASE i < d
    <3>1. i + 1 \in 1..d /\ i < d + 1
      BY <2>1, <1>5
    <3> QED BY <3>1, <2>1, <1>4, <1>5 DEF Reached
  <2>2. CASE i = d
    BY <2>2, <1>3, <1>4, <1>5 DEF Reached
  <2> QED BY <2>1, <2>2, <1>5
<1>9. \A t \in Tables : Reached(d + 1, t)' = Found(t)
  BY <1>4, <1>5, <1>7 DEF Reached
<1>10. \A i \in DOMAIN tx, t \in Tables : \A j : Passed(i, t, j)' = Passed(i, t, j)
  BY <1>5, <1>8 DEF Passed, E
<1>11. \A t \in Tables : /\ Passed(d + 1, t, 0)' = Found(t)
                         /\ tx'[d + 1].found[t] = Found(t)
                         /\ tx'[d + 1].log[t] = <<>>
  BY <1>3, <1>5, <1>9 DEF Passed
<1>12. \A i, t, j : Touched(i, t, j)' = Touched(i, t, j)
  BY <1>6 DEF Touched
<1>13. \A i, t, j : At(i, t, j) => Wrote(i, t, j)' = Wrote(i, t, j)
  BY <1>6, <1>10 DEF Wrote, At
<1>14. SoundInv' /\ RowsAreIndexed'
  BY <1>1 DEF RollInv, SoundInv, RowsAreIndexed
<1>15. HeapInv' /\ SpanInv'
  <2>1. HeapInv'
    BY <1>1, <1>6 DEF RollInv, HeapInv, heap
  <2>2. SpanInv'
    BY <1>6 DEF RollInv, SpanInv, Names
  <2> QED BY <2>1, <2>2
<1>16. LeakInv'
  BY <1>1, <1>6 DEF RollInv, LeakInv, heap
<1>17. UniqueInv'
  <2> SUFFICES ASSUME NEW t \in Indexed
               PROVE  /\ Unique(Held(t))
                      /\ \A i \in DOMAIN tx' : Unique(tx'[i].found[t].rows)
                      /\ \A i, j : At(i, t, j) =>
                           Unique(E(i, t, j).was.rows) /\ Unique(Wrote(i, t, j))
    BY <1>6, <1>7, <1>13 DEF UniqueInv, Unique
  <2>1. UniqueInv /\ t \in Tables
    BY <1>1 DEF RollInv
  <2>2. \A i \in DOMAIN tx' : i \in DOMAIN tx \/ i = d + 1
    BY <1>5
  <2>3. /\ Unique(Held(t))
        /\ \A i \in DOMAIN tx : Unique(tx[i].found[t].rows)
        /\ \A i, j : At(i, t, j) =>
             Unique(E(i, t, j).was.rows) /\ Unique(Wrote(i, t, j))
    BY <1>1, <2>1 DEF UniqueInv
  <2>4. \A i \in DOMAIN tx : tx'[i] = tx[i]
    BY <1>5
  <2>5. tx'[d + 1].found[t].rows = Held(t)
    <3>1. tx'[d + 1].found[t] = Found(t)
      BY <1>11, <2>1
    <3>2. Found(t).rows = Held(t)
      BY DEF Found
    <3> QED BY <3>1, <3>2
  <2> QED BY <2>2, <2>3, <2>4, <2>5
<1>18. ChainInv'
  <2>1. ASSUME NEW i, NEW t, NEW j, At(i, t, j)
        PROVE  /\ Effect(t, E(i, t, j), cell[E(i, t, j).before], Passed(i, t, j).rows)'
               /\ Alike(t, Touched(i, t, j), Wrote(i, t, j), Passed(i, t, j).rows)'
    <3>1. i \in DOMAIN tx /\ t \in Tables
      BY <2>1 DEF At
    <3>2. /\ Effect(t, E(i, t, j), cell[E(i, t, j).before], Passed(i, t, j).rows)
          /\ Alike(t, Touched(i, t, j), Wrote(i, t, j), Passed(i, t, j).rows)
      BY <2>1, <1>1 DEF RollInv, ChainInv
    <3> QED BY <2>1, <3>1, <3>2, <1>1, <1>6, <1>10, <1>12, <1>13
  <2>2. ASSUME NEW i \in DOMAIN tx', NEW t \in Tables
        PROVE  Alike(t, Touched(i, t, 0), tx[i].found[t].rows, Passed(i, t, 0).rows)'
    <3>1. CASE i \in DOMAIN tx
      <4>1. Alike(t, Touched(i, t, 0), tx[i].found[t].rows, Passed(i, t, 0).rows)
        BY <3>1, <1>1 DEF RollInv, ChainInv
      <4> QED BY <4>1, <3>1, <1>5, <1>10, <1>12
    <3>2. CASE i = d + 1
      BY <3>2, <1>11 DEF Alike, Same
    <3> QED BY <3>1, <3>2, <1>5
  <2> QED BY <2>1, <2>2, <1>6 DEF ChainInv
<1>19. StampInv'
  <2>1. ASSUME NEW i, NEW t, NEW j, At(i, t, j)
        PROVE  (/\ j = 1 <=> E(i, t, j).change = "stamp"
                /\ j = 1 => /\ E(i, t, j).stamp = E(i, t, j).was.stamp
                            /\ Passed(i, t, j).stamp = E(i, t, j).was.stamp + 1
                /\ j # 1 => /\ E(i, t, j).was.stamp > tx[i].found[t].stamp
                            /\ Passed(i, t, j).stamp = E(i, t, j).was.stamp)'
    <3>1. i \in DOMAIN tx /\ t \in Tables /\ StampInv
      BY <2>1 DEF At, RollInv
    <3>2. E(i, t, j)' = E(i, t, j) /\ Passed(i, t, j)' = Passed(i, t, j) /\ tx'[i] = tx[i]
      BY <2>1, <3>1, <1>5, <1>6, <1>10
    <3> QED BY <2>1, <3>1, <3>2, <1>1 DEF StampInv
  <2>2. ASSUME NEW i \in DOMAIN tx', NEW t \in Tables
        PROVE  Passed(i, t, 0)'.stamp = tx'[i].found[t].stamp
    <3>1. CASE i \in DOMAIN tx
      BY <3>1, <1>1, <1>5, <1>10 DEF RollInv, StampInv
    <3>2. CASE i = d + 1
      BY <3>2, <1>11
    <3> QED BY <3>1, <3>2, <1>5
  <2> QED BY <2>1, <2>2, <1>6 DEF StampInv
<1>20. FoundInv'
  <2> SUFFICES ASSUME NEW i \in DOMAIN tx', NEW t \in Tables
               PROVE  /\ tx'[i].log[t] # <<>> =>
                           Reached(i, t)'.stamp > tx'[i].found[t].stamp
                      /\ \A k \in DOMAIN tx' : i <= k =>
                           /\ tx'[i].found[t].stamp <= Reached(k, t)'.stamp
                           /\ tx'[i].found[t].stamp = Reached(k, t)'.stamp =>
                                Same(t, tx'[i].found[t].rows, Reached(k, t)'.rows)
    BY DEF FoundInv
  <2>1. CASE i = d + 1
    <3>1. Found(t).stamp \in Nat
      BY <1>1 DEF Found
    <3>2. \A k \in DOMAIN tx' : i <= k => k = d + 1
      BY <2>1, <1>5
    <3> QED BY <2>1, <3>1, <3>2, <1>9, <1>11 DEF Same
  <2>2. CASE i \in DOMAIN tx
    <3>1. FoundInv /\ tx'[i] = tx[i] /\ Reached(i, t)' = Reached(i, t)
      BY <2>2, <1>5, <1>8 DEF RollInv
    <3>2. ASSUME NEW k \in DOMAIN tx', i <= k
          PROVE  \E l \in DOMAIN tx : i <= l /\ Reached(k, t)' = Reached(l, t)
      <4>1. CASE k \in DOMAIN tx
        BY <4>1, <3>2, <1>8
      <4>2. CASE k = d + 1
        <5>1. d \in DOMAIN tx /\ i <= d /\ Reached(d, t) = Found(t)
          BY <2>2, <1>4, <1>5 DEF Reached
        <5> QED BY <5>1, <4>2, <1>9
      <4> QED BY <4>1, <4>2, <1>5
    <3> QED BY <2>2, <3>1, <3>2, <1>1 DEF FoundInv
  <2> QED BY <2>1, <2>2, <1>5
<1> QED BY <1>2, <1>14, <1>15, <1>16, <1>17, <1>18, <1>19, <1>20 DEF RollInv

LEMMA CommitEndRoll ==
    ASSUME RollInv, CommitEnd
    PROVE  RollInv'
<1>1. /\ phase = "commit" /\ Top.order = <<>> /\ tx' = Front(tx) /\ phase' = "idle"
      /\ cell' = cell /\ linked' = linked /\ index' = index /\ stamp' = stamp
      /\ table' = table /\ broken' = broken
  BY DEF CommitEnd, End, rowVars
<1>2. /\ tx \in Seq(Transaction) /\ tx # <<>> /\ depth = 1 /\ OrderInv
      /\ table = None /\ ~broken
  BY <1>1 DEF RollInv, Inv, TypeOK, SoundInv
<1>3. Inv'
  BY <1>1, EndInv DEF CommitEnd, RollInv
<1>4. \A i, t, j : ~At(i, t, j)
  <2>1. DOMAIN tx = {1} /\ Top = tx[1]
    BY <1>2 DEF depth, Top
  <2> QED BY <1>1, <1>2, <2>1 DEF At, OrderInv
<1>5. tx' = <<>> /\ DOMAIN tx' = {} /\ \A i, t, j : ~At(i, t, j)'
  <2>1. Len(tx) = 1
    BY <1>2 DEF depth
  <2>2. tx' = <<>>
    BY <2>1, <1>1, <1>2 DEF Front
  <2> QED BY <2>2 DEF At
<1>6. HeapInv' /\ SpanInv' /\ ChainInv' /\ StampInv' /\ FoundInv'
  BY <1>5 DEF HeapInv, SpanInv, ChainInv, StampInv, FoundInv
<1>7. LeakInv'
  <2>1. heap' = heap /\ LeakInv
    BY <1>1 DEF heap, RollInv
  <2> QED BY <2>1, <1>1, <1>4 DEF LeakInv
<1>8. SoundInv' /\ RowsAreIndexed'
  BY <1>1, <1>2 DEF SoundInv, RollInv, RowsAreIndexed
<1>9. UniqueInv'
  <2>1. \A t : Held(t)' = Held(t)
    BY <1>1 DEF Held
  <2> QED BY <2>1, <1>5 DEF UniqueInv, Unique, RollInv
<1> QED BY <1>3, <1>6, <1>7, <1>8, <1>9 DEF RollInv

LEMMA CommitEntryRoll ==
    ASSUME RollInv, CommitEntry
    PROVE  RollInv'
<1> DEFINE e == Head(Top.log[Current])
<1>1. /\ phase = "commit" /\ phase' = phase /\ table' = table
      /\ Top.order # <<>>
      /\ Using(ReadByCommit(e),
               /\ cell' = Destroyed(e)
               /\ tx' = Consumed(Tail(Top.log[Current]))
               /\ UNCHANGED <<linked, index, stamp>>)
  BY DEF CommitEntry, loopVars
<1>2. /\ tx \in Seq(Transaction) /\ tx # <<>> /\ OrderInv /\ Inv
      /\ depth = 1 /\ table = None /\ ~broken
      /\ HeapInv /\ SpanInv /\ LeakInv /\ UniqueInv /\ KeepInv /\ HomeInv /\ LinkInv
      /\ RowsAreIndexed /\ heap \subseteq Rows /\ None \notin Rows
      /\ Indexed \subseteq Tables
  BY <1>1, StorageAssumption DEF RollInv, Inv, TypeOK, SoundInv
<1>3. Inv'
  BY <1>2, CommitEntryInv
<1>4. /\ Current \in Tables /\ Top.log[Current] \in Seq(Entry)
      /\ Top.log[Current] # <<>>
  BY <1>1, <1>2, CurrentLog
<1>5. Tail(Top.log[Current]) \in Seq(Entry) /\ e \in Entry
  BY <1>4
<1>6. At(1, Current, 1) /\ E(1, Current, 1) = e
  <2>1. DOMAIN tx = {1} /\ Top = tx[1]
    BY <1>2 DEF depth, Top
  <2>2. 1 \in DOMAIN Top.log[Current] /\ Head(Top.log[Current]) = Top.log[Current][1]
    BY <1>4
  <2> QED BY <1>4, <2>1, <2>2 DEF At, E
<1>7. ReadByCommit(e) \subseteq heap
  <2>1. /\ e.before # None => e.before \in heap
        /\ e.after # None => e.after \in heap
    BY <1>2, <1>6 DEF HeapInv
  <2> QED BY <2>1 DEF ReadByCommit
<1>8. /\ cell' = Destroyed(e)
      /\ tx' = Consumed(Tail(Top.log[Current]))
      /\ linked' = linked /\ index' = index /\ stamp' = stamp /\ broken' = broken
  BY <1>1, <1>7 DEF Using
<1>9. PICK t \in Tables : t = Current
  BY <1>4
<1> HIDE DEF e
<1>10. /\ \A i, u, j : At(i, u, j)' => \E m :
            /\ At(i, u, m) /\ E(i, u, j)' = E(i, u, m)
            /\ j \in Nat \ {0} /\ i = 1
            /\ m = IF u = t THEN j + 1 ELSE j
       /\ \A i, u, j : At(i, u, j) =>
            (i = 1 /\ u = t /\ j = 1) \/ \E m : At(i, u, m)' /\ E(i, u, m)' = E(i, u, j)
  <2>1. PICK d \in Nat :
             /\ d = depth
             /\ At(d, Current, 1) /\ E(d, Current, 1) = Head(Top.log[Current])
             /\ \A i, u, j : At(i, u, j)' =>
                  IF i = d /\ u = Current
                  THEN /\ At(i, u, j + 1) /\ j \in Nat \ {0}
                       /\ E(i, u, j)' = E(i, u, j + 1)
                  ELSE At(i, u, j) /\ E(i, u, j)' = E(i, u, j)
             /\ \A i, u, j : At(i, u, j) =>
                  \/ i = d /\ u = Current /\ j = 1
                  \/ i = d /\ u = Current /\ At(i, u, j - 1)'
                  \/ ~(i = d /\ u = Current) /\ At(i, u, j)'
    BY <1>1, <1>2, <1>8, CommitAt
  <2>2. d = 1
    BY <2>1, <1>2
  <2>3. \A i, u, j : At(i, u, j) => i = 1 /\ j \in Nat \ {0}
    <3> SUFFICES ASSUME NEW i, NEW u, NEW j, At(i, u, j)
                 PROVE  i = 1 /\ j \in Nat \ {0}
      OBVIOUS
    <3>1. i \in 1..Len(tx) /\ j \in 1..Len(tx[i].log[u])
      BY <1>2, EntryType
    <3>2. i = 1
      BY <3>1, <1>2 DEF depth
    <3> QED BY <3>1, <3>2
  <2>4. ASSUME NEW i, NEW u, NEW j, At(i, u, j)'
        PROVE  \E m : /\ At(i, u, m) /\ E(i, u, j)' = E(i, u, m)
                      /\ j \in Nat \ {0} /\ i = 1
                      /\ m = IF u = t THEN j + 1 ELSE j
    BY <2>1, <2>2, <2>3, <2>4, <1>9
  <2>5. ASSUME NEW i, NEW u, NEW j, At(i, u, j), ~(i = 1 /\ u = t /\ j = 1)
        PROVE  \E m : At(i, u, m)' /\ E(i, u, m)' = E(i, u, j)
    <3>1. CASE u = t
      <4>1. At(i, u, j - 1)' /\ i = d /\ u = Current
        BY <2>1, <2>2, <2>3, <2>5, <3>1, <1>9
      <4>2. E(i, u, j - 1)' = E(i, u, (j - 1) + 1)
        BY <4>1, <2>1
      <4>3. (j - 1) + 1 = j
        BY <2>3, <2>5
      <4> QED BY <4>1, <4>2, <4>3
    <3>2. CASE u # t
      <4>1. At(i, u, j)'
        BY <2>1, <2>2, <2>5, <3>2, <1>9
      <4> QED BY <4>1, <3>2, <2>1, <1>9
    <3> QED BY <3>1, <3>2
  <2> QED BY <2>4, <2>5
<1>11. /\ \A u \in Tables : e.before \notin linked[u]
       /\ heap' = heap \ {e.before}
       /\ \A x \in heap' : cell'[x] = cell[x]
  <2>1. \A u \in Tables : e.before \notin linked[u]
    BY <1>2, <1>6 DEF KeepInv
  <2>2. CASE e.before = None
    BY <2>1, <2>2, <1>2, <1>8 DEF Destroyed, heap
  <2>3. CASE e.before # None
    <3>1. cell' = Without(e.before)
      BY <2>1, <2>3, <1>8 DEF Destroyed
    <3> QED BY <2>1, <3>1 DEF Without, heap
  <2> QED BY <2>2, <2>3
<1>12. depth' = 1 /\ DOMAIN tx' = DOMAIN tx /\ \A i \in DOMAIN tx : tx'[i].found = tx[i].found
  <2>1. /\ depth' = depth /\ DOMAIN tx' = DOMAIN tx
        /\ \A i \in DOMAIN tx : i # depth => tx'[i] = tx[i]
        /\ tx'[depth].found = tx[depth].found
    BY <1>1, <1>2, <1>5, <1>8, ConsumedEffect
  <2> QED BY <2>1, <1>2
<1>13. SoundInv'
  BY <1>1, <1>2, <1>8, <1>12 DEF SoundInv
<1>14. HeapInv'
  <2> SUFFICES ASSUME NEW i, NEW u, NEW j, At(i, u, j)'
               PROVE  /\ E(i, u, j)'.before # None => E(i, u, j)'.before \in heap'
                      /\ E(i, u, j)'.after # None => E(i, u, j)'.after \in heap'
    BY DEF HeapInv
  <2>1. PICK m : /\ At(i, u, m) /\ E(i, u, j)' = E(i, u, m)
                 /\ j \in Nat \ {0} /\ i = 1
                 /\ m = IF u = t THEN j + 1 ELSE j
    BY <1>10
  <2>2. /\ E(i, u, m).before # None => E(i, u, m).before \in heap
        /\ E(i, u, m).after # None => E(i, u, m).after \in heap
    BY <2>1, <1>2 DEF HeapInv
  <2>3. ~(u = t /\ m = 1)
    BY <2>1
  <2>4. E(i, u, m).before # None => E(i, u, m).before # e.before
    BY <2>1, <2>3, <1>2, <1>6, <1>9 DEF KeepInv
  <2>5. E(i, u, m).after # None => E(i, u, m).after # e.before
    <3> SUFFICES ASSUME E(i, u, m).after # None, E(i, u, m).after = e.before
                 PROVE  FALSE
      OBVIOUS
    <3>1. e.before \in Rows
      BY <1>5, <2>2 DEF Entry
    <3>2. u = t
      BY <3>1, <2>1, <1>2, <1>6, <1>9 DEF HomeInv, Names
    <3>3. Later(i, m, 1, 1)
      BY <3>2, <2>1, <1>2, <1>6, <1>9 DEF SpanInv
    <3> QED BY <3>2, <3>3, <2>1 DEF Later
  <2> QED BY <2>1, <2>2, <2>4, <2>5, <1>11
<1>15. SpanInv'
  <2> SUFFICES ASSUME NEW i, NEW u, NEW j, NEW k, NEW l,
                      At(i, u, j)', At(k, u, l)', E(i, u, j)'.after # None
               PROVE  /\ E(i, u, j)'.after = E(k, u, l)'.before => Later(i, j, k, l)
                      /\ E(i, u, j)'.after \notin DOMAIN E(i, u, j)'.was.rows
                           /\ (\/ E(k, u, l)'.before = E(i, u, j)'.after
                               \/ E(k, u, l)'.after = E(i, u, j)'.after) =>
                           Later(i, j, k, l) \/ (i = k /\ j = l)
    BY DEF SpanInv, Later, Names
  <2>1. PICK m : /\ At(i, u, m) /\ E(i, u, j)' = E(i, u, m)
                 /\ j \in Nat \ {0} /\ i = 1
                 /\ m = IF u = t THEN j + 1 ELSE j
    BY <1>10
  <2>2. PICK p : /\ At(k, u, p) /\ E(k, u, l)' = E(k, u, p)
                 /\ l \in Nat \ {0} /\ k = 1
                 /\ p = IF u = t THEN l + 1 ELSE l
    BY <1>10
  <2>3. Later(i, m, k, p) <=> Later(i, j, k, l)
    BY <2>1, <2>2 DEF Later
  <2>4. m = p => j = l
    BY <2>1, <2>2
  <2>5. /\ E(i, u, m).after = E(k, u, p).before => Later(i, m, k, p)
        /\ E(i, u, m).after \notin DOMAIN E(i, u, m).was.rows
             /\ Names(k, u, p, E(i, u, m).after) =>
             Later(i, m, k, p) \/ (i = k /\ m = p)
    BY <2>1, <2>2, <1>2 DEF SpanInv
  <2> QED BY <2>1, <2>2, <2>3, <2>4, <2>5 DEF Names
<1>16. LeakInv'
  <2> SUFFICES ASSUME NEW r \in heap', \A u \in Tables : r \notin linked[u]
               PROVE  \E i, u, j : At(i, u, j)' /\ E(i, u, j)'.before = r
    BY <1>8 DEF LeakInv
  <2>1. r \in heap /\ r # e.before
    BY <1>11
  <2>2. PICK i, u, j : At(i, u, j) /\ E(i, u, j).before = r
    BY <2>1, <1>2 DEF LeakInv
  <2>3. ~(i = 1 /\ u = t /\ j = 1)
    BY <2>1, <2>2, <1>6, <1>9
  <2> QED BY <2>2, <2>3, <1>10
<1>17. \A u \in Tables : \A x \in linked[u] : cell'[x] = cell[x]
  BY <1>2, <1>11 DEF LinkInv
<1>18. RowsAreIndexed'
  BY <1>1, <1>2, <1>8, <1>17 DEF RowsAreIndexed
<1>19. UniqueInv'
  <2>1. \A u \in Tables : Held(u)' = Held(u)
    BY <1>8, <1>17 DEF Held
  <2> QED BY <2>1, <1>1, <1>2, <1>12 DEF UniqueInv, Unique
<1>20. ChainInv' /\ StampInv' /\ FoundInv'
  BY <1>1 DEF ChainInv, StampInv, FoundInv
<1> QED BY <1>3, <1>13, <1>14, <1>15, <1>16, <1>18, <1>19, <1>20 DEF RollInv

-----------------------------------------------------------------------------
(* The log gets shorter *)

LEMMA AlikeTrans ==
    ASSUME NEW t, NEW X, NEW A, NEW B, NEW C, Alike(t, X, A, B), Alike(t, X, B, C)
    PROVE  Alike(t, X, A, C)
BY DEF Alike, Same

LEMMA AlikeLess ==
    ASSUME NEW t, NEW X, NEW Y, NEW A, NEW B, Alike(t, Y, A, B), X \subseteq Y
    PROVE  Alike(t, X, A, B)
BY DEF Alike

\* An entry wrote the same into rows that agree on what it wrote.
LEMMA EffectAlike ==
    ASSUME NEW t, NEW e \in Entry, NEW old, NEW X, NEW A, NEW B,
           Effect(t, e, old, A), Alike(t, X, A, B), e.after # None => e.after \in X
    PROVE  /\ Effect(t, e, old, B)
           /\ Result(e, B) = Result(e, A)
<1>1. e.after # None => e.after \in DOMAIN A /\ e.after \in DOMAIN B
                        /\ A[e.after] = B[e.after]
  BY DEF Effect, Alike
<1>2. e.change = "update" => e.after # None
  BY DEF Entry
<1>3. Effect(t, e, old, B)
  BY <1>1, <1>2 DEF Effect
<1>4. \A x \in (DOMAIN e.was.rows \ {e.before}) \cup ({e.after} \ {None}) :
        x = e.after => A[x] = B[x]
  <2>1. None \notin DOMAIN e.was.rows
    BY StorageAssumption DEF Entry, Snapshot
  <2> QED BY <2>1, <1>1
<1>5. Result(e, B) = Result(e, A)
  BY <1>4 DEF Result
<1> QED BY <1>3, <1>5

LEMMA Touches ==
    ASSUME tx \in Seq(Transaction), NEW i, NEW t, NEW j, At(i, t, j),
           E(i, t, j).after # None
    PROVE  E(i, t, j).after \in Touched(i, t, j)
<1>1. i \in Nat /\ j \in Nat /\ E(i, t, j) \in Entry
  BY EntryType
<1>2. ~Later(i, j, i, j)
  BY <1>1 DEF Later
<1>3. E(i, t, j).after \in Rows
  BY <1>1 DEF Entry
<1> QED BY <1>2, <1>3 DEF Touched

\* Entries are gone from the end of the log, and those that are left lead to
\* what they led to before.
Shortened ==
    /\ DOMAIN tx' \subseteq DOMAIN tx
    /\ \A i \in DOMAIN tx' : tx'[i].found = tx[i].found
    /\ \A i, t, j : At(i, t, j)' => /\ At(i, t, j) /\ E(i, t, j)' = E(i, t, j)
                                    /\ Position(i, t, j)'
    /\ \A i, t, j : Position(i, t, j)' =>
         /\ Position(i, t, j)
         /\ Touched(i, t, j)' = Touched(i, t, j)
         /\ Passed(i, t, j)'.stamp = Passed(i, t, j).stamp
         /\ Alike(t, Touched(i, t, j), Passed(i, t, j).rows, Passed(i, t, j)'.rows)
    /\ \A i, t, j : At(i, t, j)' /\ E(i, t, j).before # None =>
         cell'[E(i, t, j).before] = cell[E(i, t, j).before]
    /\ \A i \in DOMAIN tx', t \in Tables : Position(i, t, 0)'

LEMMA ShortenedChain ==
    ASSUME RollInv, Shortened, phase # "commit"
    PROVE  /\ SpanInv' /\ ChainInv' /\ StampInv'
           /\ \A i, t, j : At(i, t, j)' => Wrote(i, t, j)' = Wrote(i, t, j)
<1>1. /\ tx \in Seq(Transaction) /\ SpanInv /\ ChainInv /\ StampInv
  BY DEF RollInv, Inv, TypeOK
<1>2. ASSUME NEW i, NEW t, NEW j, At(i, t, j)'
      PROVE  /\ At(i, t, j) /\ E(i, t, j)' = E(i, t, j) /\ E(i, t, j) \in Entry
             /\ i \in DOMAIN tx' /\ tx'[i].found = tx[i].found
             /\ Touched(i, t, j)' = Touched(i, t, j)
             /\ Passed(i, t, j)'.stamp = Passed(i, t, j).stamp
             /\ Alike(t, Touched(i, t, j), Passed(i, t, j).rows, Passed(i, t, j)'.rows)
  <2>1. At(i, t, j) /\ E(i, t, j)' = E(i, t, j) /\ Position(i, t, j)'
    BY <1>2 DEF Shortened
  <2>2. i \in DOMAIN tx' /\ tx'[i].found = tx[i].found
    BY <1>2 DEF Shortened, At
  <2>3. E(i, t, j) \in Entry
    BY <1>1, <2>1, EntryType
  <2> QED BY <2>1, <2>2, <2>3 DEF Shortened
<1>3. ASSUME NEW i, NEW t, NEW j, At(i, t, j)'
      PROVE  /\ Effect(t, E(i, t, j), cell[E(i, t, j).before], Passed(i, t, j).rows)'
             /\ Wrote(i, t, j)' = Wrote(i, t, j)
             /\ Alike(t, Touched(i, t, j), Wrote(i, t, j), Passed(i, t, j).rows)'
  <2>1. /\ At(i, t, j) /\ E(i, t, j)' = E(i, t, j) /\ E(i, t, j) \in Entry
        /\ Touched(i, t, j)' = Touched(i, t, j)
        /\ Alike(t, Touched(i, t, j), Passed(i, t, j).rows, Passed(i, t, j)'.rows)
    BY <1>2, <1>3
  <2>2. PICK e, P, Q, X, old : /\ e = E(i, t, j) /\ X = Touched(i, t, j)
                               /\ P = Passed(i, t, j).rows /\ Q = Passed(i, t, j)'.rows
                               /\ old = cell[e.before]
    OBVIOUS
  <2>3. Effect(t, e, old, P) /\ Alike(t, X, Result(e, P), P)
    BY <2>1, <2>2, <1>1 DEF ChainInv, Wrote
  <2>4. e.after # None => e.after \in X
    BY <2>1, <2>2, <1>1, Touches
  <2>5. Effect(t, e, old, Q) /\ Result(e, Q) = Result(e, P)
    BY <2>1, <2>2, <2>3, <2>4, EffectAlike
  <2>6. Alike(t, X, Result(e, Q), Q)
    BY <2>1, <2>2, <2>3, <2>5, AlikeTrans
  <2>7. Effect(t, e, cell'[e.before], Q)
    <3>1. e.before # None => cell'[e.before] = old
      BY <1>3, <2>2 DEF Shortened
    <3>2. e.before = None => e.change # "delete" /\ e.change # "update"
      BY <2>1, <2>2 DEF Entry
    <3> QED BY <3>1, <3>2, <2>5 DEF Effect
  <2>8. Wrote(i, t, j)' = Result(e, Q) /\ Wrote(i, t, j) = Result(e, P)
    BY <2>1, <2>2 DEF Wrote
  <2> QED BY <2>1, <2>2, <2>5, <2>6, <2>7, <2>8
<1>4. ASSUME NEW i \in DOMAIN tx', NEW t \in Tables
      PROVE  /\ Alike(t, Touched(i, t, 0), tx[i].found[t].rows, Passed(i, t, 0).rows)'
             /\ Passed(i, t, 0)'.stamp = tx'[i].found[t].stamp
  <2>1. /\ i \in DOMAIN tx /\ tx'[i].found = tx[i].found
        /\ Touched(i, t, 0)' = Touched(i, t, 0)
        /\ Passed(i, t, 0)'.stamp = Passed(i, t, 0).stamp
        /\ Alike(t, Touched(i, t, 0), Passed(i, t, 0).rows, Passed(i, t, 0)'.rows)
    BY DEF Shortened
  <2>2. /\ Alike(t, Touched(i, t, 0), tx[i].found[t].rows, Passed(i, t, 0).rows)
        /\ Passed(i, t, 0).stamp = tx[i].found[t].stamp
    BY <2>1, <1>1 DEF ChainInv, StampInv
  <2>3. Alike(t, Touched(i, t, 0), tx[i].found[t].rows, Passed(i, t, 0)'.rows)
    BY <2>1, <2>2, AlikeTrans
  <2> QED BY <2>1, <2>2, <2>3
<1>5. SpanInv'
  <2>1. \A i, t, j : At(i, t, j)' => At(i, t, j) /\ E(i, t, j)' = E(i, t, j)
    BY <1>2
  <2> QED BY <2>1, <1>1 DEF SpanInv, Names, Later
<1>6. ChainInv'
  BY <1>3, <1>4 DEF ChainInv
<1>7. StampInv'
  <2>1. ASSUME NEW i, NEW t, NEW j, At(i, t, j)'
        PROVE  (/\ j = 1 <=> E(i, t, j).change = "stamp"
                /\ j = 1 => /\ E(i, t, j).stamp = E(i, t, j).was.stamp
                            /\ Passed(i, t, j).stamp = E(i, t, j).was.stamp + 1
                /\ j # 1 => /\ E(i, t, j).was.stamp > tx[i].found[t].stamp
                            /\ Passed(i, t, j).stamp = E(i, t, j).was.stamp)'
    BY <2>1, <1>1, <1>2 DEF StampInv
  <2> QED BY <2>1, <1>4 DEF StampInv
<1> QED BY <1>3, <1>5, <1>6, <1>7

LEMMA ShortenedUnique ==
    ASSUME RollInv, Shortened, phase # "commit", \A t \in Indexed : Unique(Held(t))'
    PROVE  UniqueInv'
<1>1. UniqueInv
  BY DEF RollInv
<1>2. \A i, t, j : At(i, t, j)' => Wrote(i, t, j)' = Wrote(i, t, j)
  BY ShortenedChain
<1>3. /\ \A i \in DOMAIN tx' : i \in DOMAIN tx /\ tx'[i].found = tx[i].found
      /\ \A i, t, j : At(i, t, j)' => At(i, t, j) /\ E(i, t, j)' = E(i, t, j)
  BY DEF Shortened
<1> QED BY <1>1, <1>2, <1>3 DEF UniqueInv, Unique

LEMMA RollbackEndRoll ==
    ASSUME RollInv, RollbackEnd
    PROVE  RollInv'
<1>1. /\ phase = "rollback" /\ Top.order = <<>> /\ tx' = Front(tx) /\ phase' = "idle"
      /\ cell' = cell /\ linked' = linked /\ index' = index /\ stamp' = stamp
      /\ table' = table /\ broken' = broken
  BY DEF RollbackEnd, End, rowVars
<1>2. /\ tx \in Seq(Transaction) /\ tx # <<>> /\ OrderInv /\ Inv
      /\ ChainInv /\ StampInv /\ FoundInv
  BY <1>1 DEF RollInv, Inv, TypeOK
<1>3. Inv'
  BY <1>1, <1>2, EndInv DEF RollbackEnd
<1>4. PICK d \in Nat \ {0} : d = depth
  BY <1>2, TopType
<1>5. /\ DOMAIN tx = 1..d
      /\ tx' \in Seq(Transaction) /\ depth' = d - 1
      /\ DOMAIN tx' = 1..(d - 1)
      /\ \A i \in 1..(d - 1) : tx'[i] = tx[i]
  <2>1. tx' = [i \in 1..(d - 1) |-> tx[i]]
    BY <1>1, <1>4 DEF Front, depth
  <2>2. DOMAIN tx = 1..d
    BY <1>2, <1>4, TopType
  <2>3. tx' \in Seq(Transaction) /\ Len(tx') = d - 1
    BY <2>1, <2>2, <1>2
  <2> QED BY <2>1, <2>2, <2>3 DEF depth
<1>6. \A t \in Tables : tx[d].log[t] = <<>> /\ DOMAIN tx[d].log[t] = {}
  <2>1. Top = tx[d] /\ d \in DOMAIN tx
    BY <1>4, <1>5 DEF Top
  <2> QED BY <2>1, <1>1, <1>2 DEF OrderInv
<1>7. /\ \A i, t, j : At(i, t, j)' <=> At(i, t, j)
      /\ \A i, t, j : At(i, t, j) => E(i, t, j)' = E(i, t, j)
  <2>1. \A i \in 1..d : i = d \/ i \in 1..(d - 1)
    OBVIOUS
  <2> QED BY <2>1, <1>5, <1>6 DEF At, E
<1>8. \A t : Held(t)' = Held(t) /\ Found(t)' = Found(t)
  BY <1>1 DEF Held, Found
<1>9. \A i, t, j : Touched(i, t, j)' = Touched(i, t, j)
  BY <1>7 DEF Touched
\* what the last transaction found is there again
<1>10. ASSUME NEW t \in Tables
       PROVE  /\ Reached(d, t) = Found(t)
              /\ tx[d].found[t].stamp = Found(t).stamp
              /\ Alike(t, Touched(d, t, 0), tx[d].found[t].rows, Found(t).rows)
  <2>1. Reached(d, t) = Found(t)
    BY <1>4 DEF Reached
  <2>2. Passed(d, t, 0) = Found(t)
    BY <2>1, <1>6 DEF Passed
  <2>3. d \in DOMAIN tx
    BY <1>5
  <2> QED BY <2>1, <2>2, <2>3, <1>1, <1>2 DEF ChainInv, StampInv
<1>11. ASSUME NEW i \in DOMAIN tx', NEW t \in Tables, NEW j
       PROVE  Touched(i, t, j) \subseteq Touched(d, t, 0)
  <2>1. \A k, l : At(k, t, l) => ~Later(d, 0, k, l)
    <3> SUFFICES ASSUME NEW k, NEW l, At(k, t, l) PROVE ~Later(d, 0, k, l)
      OBVIOUS
    <3>1. k \in DOMAIN tx'
      BY <1>7 DEF At
    <3> QED BY <3>1, <1>5 DEF Later
  <2> QED BY <2>1 DEF Touched
<1>12. ASSUME NEW i \in DOMAIN tx', NEW t \in Tables, NEW j
       PROVE  /\ Reached(i, t)'.stamp = Reached(i, t).stamp
              /\ Alike(t, Touched(i, t, j), Reached(i, t).rows, Reached(i, t)'.rows)
  <2>1. CASE i < d - 1
    <3>1. i + 1 \in 1..(d - 1) /\ i < d
      BY <2>1, <1>5
    <3>2. Reached(i, t)' = Reached(i, t)
      BY <2>1, <3>1, <1>4, <1>5 DEF Reached
    <3> QED BY <3>2 DEF Alike, Same
  <2>2. CASE i = d - 1
    <3>1. Reached(i, t)' = Found(t) /\ Reached(i, t) = tx[d].found[t]
      BY <2>2, <1>4, <1>5, <1>8 DEF Reached
    <3>2. Alike(t, Touched(i, t, j), tx[d].found[t].rows, Found(t).rows)
      BY <1>10, <1>11, AlikeLess
    <3> QED BY <3>1, <3>2, <1>10
  <2> QED BY <2>1, <2>2, <1>5
<1>13. Shortened
  <2>1. /\ DOMAIN tx' \subseteq DOMAIN tx
        /\ \A i \in DOMAIN tx' : tx'[i] = tx[i]
    BY <1>5
  <2>2. \A i \in DOMAIN tx, t \in Tables :
          /\ Len(tx[i].log[t]) \in Nat /\ DOMAIN tx[i].log[t] = 1..Len(tx[i].log[t])
    <3> SUFFICES ASSUME NEW i \in DOMAIN tx, NEW t \in Tables
                 PROVE  tx[i].log[t] \in Seq(Entry)
      OBVIOUS
    <3>1. tx[i] \in Transaction
      BY <1>2
    <3> QED BY <3>1 DEF Transaction
  <2>3. \A i, t, j : At(i, t, j)' => Position(i, t, j)'
    BY <2>1, <2>2 DEF At, Position
  <2>4. \A i \in DOMAIN tx', t \in Tables : Position(i, t, 0)'
    BY <2>1, <2>2 DEF Position
  <2>5. ASSUME NEW i, NEW t, NEW j, Position(i, t, j)'
        PROVE  /\ Position(i, t, j)
               /\ Passed(i, t, j)'.stamp = Passed(i, t, j).stamp
               /\ Alike(t, Touched(i, t, j), Passed(i, t, j).rows, Passed(i, t, j)'.rows)
    <3>1. i \in DOMAIN tx' /\ t \in Tables /\ tx'[i] = tx[i] /\ Position(i, t, j)
      BY <2>1, <2>5 DEF Position
    <3>2. CASE j < Len(tx[i].log[t])
      <4>1. Passed(i, t, j)' = Passed(i, t, j)
        BY <3>1, <3>2 DEF Passed, E
      <4> QED BY <3>1, <4>1 DEF Alike, Same
    <3>3. CASE ~(j < Len(tx[i].log[t]))
      <4>1. Passed(i, t, j)' = Reached(i, t)' /\ Passed(i, t, j) = Reached(i, t)
        BY <3>1, <3>3 DEF Passed
      <4> QED BY <3>1, <4>1, <1>12
    <3> QED BY <3>2, <3>3
  <2> QED BY <2>1, <2>3, <2>4, <2>5, <1>1, <1>7, <1>9 DEF Shortened
<1>14. SpanInv' /\ ChainInv' /\ StampInv'
  BY <1>1, <1>13, ShortenedChain
<1>15. UniqueInv'
  <2>1. \A t \in Indexed : Unique(Held(t))'
    BY <1>8 DEF RollInv, UniqueInv, Unique
  <2> QED BY <2>1, <1>1, <1>13, ShortenedUnique
<1>16. HeapInv' /\ LeakInv'
  BY <1>1, <1>7 DEF RollInv, HeapInv, LeakInv, heap
<1>17. SoundInv' /\ RowsAreIndexed'
  BY <1>1 DEF RollInv, SoundInv, RowsAreIndexed
<1>18. FoundInv'
  <2> SUFFICES ASSUME NEW i \in DOMAIN tx', NEW t \in Tables
               PROVE  /\ tx[i].log[t] # <<>> =>
                           Reached(i, t)'.stamp > tx[i].found[t].stamp
                      /\ \A k \in DOMAIN tx' : i <= k =>
                           /\ tx[i].found[t].stamp <= Reached(k, t)'.stamp
                           /\ tx[i].found[t].stamp = Reached(k, t)'.stamp =>
                                Same(t, tx[i].found[t].rows, Reached(k, t)'.rows)
    BY <1>5 DEF FoundInv
  <2>1. i \in DOMAIN tx
    BY <1>5
  <2>2. tx[i].log[t] # <<>> => Reached(i, t)'.stamp > tx[i].found[t].stamp
    BY <2>1, <1>1, <1>2, <1>12 DEF FoundInv
  <2>3. ASSUME NEW k \in DOMAIN tx', i <= k
        PROVE  /\ tx[i].found[t].stamp <= Reached(k, t)'.stamp
               /\ tx[i].found[t].stamp = Reached(k, t)'.stamp =>
                    Same(t, tx[i].found[t].rows, Reached(k, t)'.rows)
    <3>1. k \in DOMAIN tx
      BY <1>5
    <3>2. /\ Reached(k, t)'.stamp = Reached(k, t).stamp
          /\ Same(t, Reached(k, t).rows, Reached(k, t)'.rows)
      BY <1>12 DEF Alike
    <3>3. /\ tx[i].found[t].stamp <= Reached(k, t).stamp
          /\ tx[i].found[t].stamp = Reached(k, t).stamp =>
               Same(t, tx[i].found[t].rows, Reached(k, t).rows)
      BY <2>1, <2>3, <3>1, <1>1, <1>2 DEF FoundInv
    <3> QED BY <3>2, <3>3 DEF Same
  <2> QED BY <2>2, <2>3
<1> QED BY <1>3, <1>14, <1>15, <1>16, <1>17, <1>18 DEF RollInv

-----------------------------------------------------------------------------
(* Rollback *)

\* Entry e, the last one of the log of t, is to be undone; X are the rows that
\* the entries before it touched.
Undoing(t, e, d, n, X) ==
    /\ RollbackAtEntry(e, d, t, n)
    /\ Undoes(t, e, cell[e.before], X, Held(t))
    /\ e.change = "insert" => e.after \notin X
    /\ e.change = "update" => /\ e.before \notin X
                              /\ e.after \in X => e.after \in DOMAIN e.was.rows

\* The tables after the undo.
Restored(t, e, X) ==
    /\ heap' = heap \ (IF e.change = "insert" THEN {e.after}
                       ELSE IF e.change = "update" THEN {e.before} ELSE {})
    /\ \A x \in heap' : x # e.after => cell'[x] = cell[x]
    /\ \A u \in Tables : u # t => linked'[u] = linked[u] /\ index'[u] = index[u]
    /\ linked'[t] = IF e.change = "insert" THEN linked[t] \ {e.after}
                    ELSE IF e.change = "delete" THEN linked[t] \cup {e.before}
                    ELSE linked[t]
    /\ t \in Indexed => \A x \in linked'[t] : index'[t][cell'[x].key] = x
    /\ Alike(t, X, e.was.rows, Held(t)')

\* What is known of the rows before the undo.
LEMMA UndoingRows ==
    ASSUME RollInv, phase = "rollback", NEW t \in Tables, NEW e, NEW d \in Nat,
           NEW n \in Nat, NEW X, Undoing(t, e, d, n, X)
    PROVE  /\ e \in Entry /\ table = None /\ t # table
           /\ e.before # None => /\ e.before \in heap
                                 /\ \A u \in Tables : e.before \notin linked[u]
                                 /\ cell[e.before].key \in Keys
           /\ e.after # None => /\ e.after \in heap /\ e.after \in Rows
                                /\ e.after \in linked[t]
                                /\ cell[e.after].key \in Keys
                                /\ e.after # e.before
           /\ \A u \in Tables : linked[u] \subseteq heap
           /\ \A x \in linked[t] : cell[x].key \in Keys
           /\ t \in Indexed => \A x \in linked[t] : index[t][cell[x].key] = x
           /\ linked \in [Tables -> SUBSET Rows]
           /\ index \in [Tables -> [Keys -> Rows \cup {None}]]
           /\ None \notin Rows
           /\ e.change \in {"update", "delete"} /\ Taken(t, cell[e.before].key) =>
                /\ e.change = "update"
                /\ cell[e.after].key = cell[e.before].key
<1>1. /\ Inv /\ TypeOK /\ LinkInv /\ RowsAreIndexed /\ IndexPointsToRows
      /\ table = None /\ None \notin Rows \cup Tables
  BY StorageAssumption DEF RollInv, Inv, SoundInv
<1>2. RollbackAtEntry(e, d, t, n) /\ e \in Entry
  BY DEF Undoing, RollbackAtEntry
<1>3. /\ e.before # None => /\ e.before \in heap
                            /\ \A u \in Tables : e.before \notin linked[u]
                            /\ cell[e.before].key \in Keys
      /\ e.after # None => /\ e.after \in heap /\ e.after \in Rows
                           /\ e.after \in linked[t]
                           /\ cell[e.after].key \in Keys
                           /\ e.after # e.before
  BY <1>1, <1>2, UndoneRows
<1>4. /\ \A u \in Tables : linked[u] \subseteq heap
      /\ \A x \in heap : cell[x].key \in Keys
  BY <1>1 DEF LinkInv, TypeOK, Data
<1>5. t \in Indexed => \A x \in linked[t] : index[t][cell[x].key] = x
  BY <1>1 DEF RowsAreIndexed
<1>6. ASSUME e.change \in {"update", "delete"}, Taken(t, cell[e.before].key)
      PROVE  e.change = "update" /\ cell[e.after].key = cell[e.before].key
  <2>1. cell[e.before].key \in Keys
    BY <1>2, <1>3, <1>6 DEF Entry
  <2>2. PICK y \in linked[t] : t \in Indexed /\ cell[y].key = cell[e.before].key
    BY <2>1, <1>1, <1>6, TakenRow
  <2>3. y \in DOMAIN Held(t) /\ Held(t)[y] = cell[y]
    BY DEF Held
  <2>4. Undoes(t, e, cell[e.before], X, Held(t))
    BY DEF Undoing
  <2>5. e.change = "update" /\ y = e.after
    BY <2>2, <2>3, <2>4, <1>6, OldKeyFree
  <2> QED BY <2>2, <2>5
<1> QED BY <1>1, <1>2, <1>3, <1>4, <1>5, <1>6 DEF TypeOK

LEMMA RestoredInsert ==
    ASSUME RollInv, phase = "rollback", NEW t \in Tables, NEW e, NEW d \in Nat,
           NEW n \in Nat, NEW X, Undoing(t, e, d, n, X),
           e.change = "insert", UndoInsert(t, e)
    PROVE  Restored(t, e, X)
<1> DEFINE r == e.after
<1>1. /\ e \in Entry
      /\ e.after # None => /\ e.after \in heap /\ e.after \in Rows
                           /\ e.after \in linked[t]
                           /\ cell[e.after].key \in Keys
      /\ \A u \in Tables : linked[u] \subseteq heap
      /\ \A x \in linked[t] : cell[x].key \in Keys
      /\ t \in Indexed => \A x \in linked[t] : index[t][cell[x].key] = x
      /\ linked \in [Tables -> SUBSET Rows]
      /\ index \in [Tables -> [Keys -> Rows \cup {None}]]
  BY UndoingRows
<1>2. r # None
  BY <1>1 DEF Entry
<1>3. /\ cell' = Without(r) /\ linked' = Unlinking(t, r)
      /\ index' = Unindexing(t, cell[r].key)
  BY DEF UndoInsert
<1>4. /\ heap' = heap \ {r}
      /\ \A x \in heap \ {r} : cell'[x] = cell[x]
  BY <1>3 DEF Without, heap
<1>5. /\ linked'[t] = linked[t] \ {r}
      /\ \A u \in Tables : u # t => linked'[u] = linked[u]
  BY <1>1, <1>3 DEF Unlinking
<1>6. \A u \in Tables : u # t => index'[u] = index[u]
  BY <1>1, <1>3 DEF Unindexing, Indexing
<1>7. \A k \in Keys : index'[t][k] =
        IF t \in Indexed /\ k = cell[r].key THEN None ELSE index[t][k]
  BY <1>1, <1>2, <1>3, IndexingEffect DEF Unindexing
<1>8. ASSUME t \in Indexed, NEW x \in linked'[t]
      PROVE  index'[t][cell'[x].key] = x
  <2>1. x \in linked[t] /\ x # r /\ cell'[x] = cell[x]
    BY <1>1, <1>4, <1>5
  <2> QED BY <2>1, <1>1, <1>2, <1>7, <1>8
<1>9. Alike(t, X, e.was.rows, Held(t)')
  <2>1. Undoes(t, e, cell[e.before], X, Held(t)) /\ r \notin X
    BY DEF Undoing
  <2>2. Held(t) = [x \in DOMAIN Held(t) |-> Held(t)[x]]
    BY DEF Held
  <2>3. Held(t)' = [x \in DOMAIN Held(t) \ {r} |-> Held(t)[x]]
    <3>1. \A x \in linked'[t] : cell'[x] = cell[x] /\ x \in linked[t]
      BY <1>1, <1>4, <1>5
    <3> QED BY <3>1, <1>5 DEF Held
  <2> HIDE DEF r
  <2> QED BY <2>1, <2>2, <2>3, RemovedAlike DEF r
<1> QED BY <1>4, <1>5, <1>6, <1>8, <1>9 DEF Restored

LEMMA RestoredDelete ==
    ASSUME RollInv, phase = "rollback", NEW t \in Tables, NEW e, NEW d \in Nat,
           NEW n \in Nat, NEW X, Undoing(t, e, d, n, X),
           e.change = "delete", UndoDelete(t, e)
    PROVE  Restored(t, e, X)
<1> DEFINE r == e.before
           old == cell[e.before]
<1>1. /\ e \in Entry
      /\ e.before # None => /\ e.before \in heap
                            /\ \A u \in Tables : e.before \notin linked[u]
                            /\ cell[e.before].key \in Keys
      /\ \A u \in Tables : linked[u] \subseteq heap
      /\ \A x \in linked[t] : cell[x].key \in Keys
      /\ t \in Indexed => \A x \in linked[t] : index[t][cell[x].key] = x
      /\ linked \in [Tables -> SUBSET Rows]
      /\ index \in [Tables -> [Keys -> Rows \cup {None}]]
      /\ None \notin Rows
      /\ ~Taken(t, old.key)
  BY UndoingRows
<1>2. r # None /\ e.after = None /\ r \in Rows
  BY <1>1 DEF Entry
<1>3. /\ cell' = cell /\ heap' = heap
      /\ linked' = Linking(t, r) /\ index' = Indexing(t, old.key, r)
  BY <1>1 DEF UndoDelete, heap
<1>4. /\ linked'[t] = linked[t] \cup {r}
      /\ \A u \in Tables : u # t => linked'[u] = linked[u]
  BY <1>1, <1>2, <1>3 DEF Linking
<1>5. \A u \in Tables : u # t => index'[u] = index[u]
  BY <1>1, <1>3 DEF Indexing
<1>6. \A k \in Keys : index'[t][k] =
        IF t \in Indexed /\ k = old.key THEN r ELSE index[t][k]
  BY <1>1, <1>2, <1>3, IndexingEffect
<1>7. ASSUME t \in Indexed, NEW x \in linked'[t]
      PROVE  index'[t][cell[x].key] = x
  <2>1. CASE x = r
    BY <2>1, <1>1, <1>2, <1>6, <1>7
  <2>2. CASE x \in linked[t]
    <3>1. index[t][cell[x].key] = x /\ cell[x].key \in Keys /\ x # None
      BY <2>2, <1>1, <1>7
    <3>2. cell[x].key # old.key
      BY <3>1, <1>1, <1>7 DEF Taken
    <3> QED BY <3>1, <3>2, <1>6
  <2> QED BY <2>1, <2>2, <1>4
<1>8. Alike(t, X, e.was.rows, Held(t)')
  <2>1. Undoes(t, e, old, X, Held(t))
    BY DEF Undoing
  <2>2. Held(t) = [x \in DOMAIN Held(t) |-> Held(t)[x]] /\ r \notin DOMAIN Held(t)
    BY <1>1, <1>2 DEF Held
  <2>3. Held(t)' = [x \in DOMAIN Held(t) \cup {r} |-> IF x = r THEN old ELSE Held(t)[x]]
    BY <1>3, <1>4 DEF Held
  <2> HIDE DEF r, old
  <2> QED BY <2>1, <2>2, <2>3, AddedAlike DEF r
<1> QED BY <1>3, <1>4, <1>5, <1>7, <1>8 DEF Restored

LEMMA RestoredUpdate ==
    ASSUME RollInv, phase = "rollback", NEW t \in Tables, NEW e, NEW d \in Nat,
           NEW n \in Nat, NEW X, Undoing(t, e, d, n, X),
           e.change = "update", UndoUpdate(t, e)
    PROVE  Restored(t, e, X)
<1> DEFINE r == e.after
           b == e.before
           key == cell[e.after].key
           old == cell[e.before]
<1>1. /\ e \in Entry
      /\ e.before # None => /\ e.before \in heap
                            /\ \A u \in Tables : e.before \notin linked[u]
                            /\ cell[e.before].key \in Keys
      /\ e.after # None => /\ e.after \in heap /\ e.after \in Rows
                           /\ e.after \in linked[t]
                           /\ cell[e.after].key \in Keys
                           /\ e.after # e.before
      /\ \A u \in Tables : linked[u] \subseteq heap
      /\ \A x \in linked[t] : cell[x].key \in Keys
      /\ t \in Indexed => \A x \in linked[t] : index[t][cell[x].key] = x
      /\ linked \in [Tables -> SUBSET Rows]
      /\ index \in [Tables -> [Keys -> Rows \cup {None}]]
      /\ None \notin Rows
      /\ Taken(t, old.key) => key = old.key
  BY UndoingRows
<1>2. r # None /\ b # None /\ r \in linked[t] /\ r \in heap /\ b \in heap
      /\ b \notin linked[t] /\ r # b /\ old.key \in Keys /\ key \in Keys
  BY <1>1 DEF Entry
<1>3. /\ cell' = [x \in heap \ {b} |-> IF x = r THEN old ELSE cell[x]]
      /\ linked' = linked
      /\ index' = IF t \notin Indexed THEN index
                  ELSE [index EXCEPT ![t] =
                          [[@ EXCEPT ![key] = None] EXCEPT ![old.key] = r]]
  BY <1>1 DEF UndoUpdate
<1>4. /\ heap' = heap \ {b} /\ cell'[r] = old
      /\ \A x \in heap' : x # r => cell'[x] = cell[x]
  <2>1. heap' = heap \ {b}
    BY <1>3 DEF heap
  <2> QED BY <2>1, <1>2, <1>3
<1> HIDE DEF r, b, key, old
<1>5. \A u \in Tables : u # t => index'[u] = index[u]
  BY <1>1, <1>3
<1>6. \A k \in Keys : index'[t][k] =
        IF t \in Indexed /\ k = old.key THEN r ELSE
        IF t \in Indexed /\ k = key THEN None ELSE index[t][k]
  BY <1>1, <1>2, <1>3
<1>7. ASSUME t \in Indexed, NEW x \in linked[t]
      PROVE  index'[t][cell'[x].key] = x
  <2>1. CASE x = r
    BY <2>1, <1>2, <1>4, <1>6, <1>7
  <2>2. CASE x # r
    <3>1. cell'[x] = cell[x]
      BY <2>2, <1>1, <1>2, <1>4
    <3>2. index[t][cell[x].key] = x /\ cell[x].key \in Keys /\ x # None
      BY <1>1, <1>7
    <3>3. index[t][key] = r
      BY <1>1, <1>2, <1>7 DEF key, r
    <3>4. cell[x].key # key
      BY <2>2, <3>2, <3>3
    <3>5. cell[x].key # old.key
      BY <3>2, <3>4, <1>1, <1>7 DEF Taken
    <3> QED BY <3>1, <3>2, <3>4, <3>5, <1>6
  <2> QED BY <2>1, <2>2
<1>8. Alike(t, X, e.was.rows, Held(t)')
  <2>1. /\ Undoes(t, e, old, X, Held(t))
        /\ e.before \notin X
        /\ e.after \in X => e.after \in DOMAIN e.was.rows
    BY DEF Undoing, old
  <2>2. Held(t) = [x \in DOMAIN Held(t) |-> Held(t)[x]]
    BY DEF Held
  <2>3. Held(t)' = [x \in DOMAIN Held(t) |-> IF x = e.after THEN old ELSE Held(t)[x]]
    <3>1. \A x \in linked[t] : cell'[x] = IF x = r THEN old ELSE cell[x]
      BY <1>1, <1>2, <1>4
    <3> QED BY <3>1, <1>3 DEF Held, r
  <2> QED BY <2>1, <2>2, <2>3, RevertedAlike
<1>9. linked' = linked
  BY <1>3
<1> QED BY <1>4, <1>5, <1>7, <1>8, <1>9 DEF Restored, r, b

LEMMA RestoredStamp ==
    ASSUME RollInv, phase = "rollback", NEW t \in Tables, NEW e, NEW d \in Nat,
           NEW n \in Nat, NEW X, Undoing(t, e, d, n, X),
           e.change = "stamp", UndoStamp(t, e)
    PROVE  Restored(t, e, X)
<1>1. /\ e \in Entry /\ None \notin Rows
      /\ t \in Indexed => \A x \in linked[t] : index[t][cell[x].key] = x
  BY UndoingRows
<1>2. cell' = cell /\ heap' = heap /\ linked' = linked /\ index' = index
  BY DEF UndoStamp, rowVars, heap
<1>3. e.before = None /\ e.after = None /\ e.was \in Snapshot
  BY <1>1 DEF Entry
<1>4. Result(e, Held(t)) = e.was.rows
  <2>1. None \notin DOMAIN e.was.rows /\ e.was.rows = [x \in DOMAIN e.was.rows |-> e.was.rows[x]]
    BY <1>1, <1>3 DEF Snapshot
  <2> QED BY <2>1, <1>3 DEF Result
<1>5. Alike(t, X, e.was.rows, Held(t)')
  <2>1. Held(t)' = Held(t)
    BY <1>2 DEF Held
  <2> QED BY <2>1, <1>4 DEF Undoing, Undoes, Alike
<1> QED BY <1>1, <1>2, <1>5 DEF Restored

\* Entry n of the log of t, the last one of transaction d, is taken from it.
Unlogged(t, d, n) ==
    /\ d = depth /\ depth' = d /\ d \in DOMAIN tx
    /\ DOMAIN tx' = DOMAIN tx
    /\ \A i \in DOMAIN tx : tx'[i].found = tx[i].found
    /\ \A i \in DOMAIN tx, u \in Tables : i # d \/ u # t =>
         tx'[i].log[u] = tx[i].log[u]
    /\ n = Len(tx[d].log[t]) /\ n # 0
    /\ Len(tx'[d].log[t]) = n - 1
    /\ At(d, t, n)
    /\ \A i, j : At(i, t, j) => ~Later(d, n, i, j)
    /\ \A i, u, j : At(i, u, j)' <=> At(i, u, j) /\ ~(i = d /\ u = t /\ j = n)
    /\ \A i, u, j : At(i, u, j)' => E(i, u, j)' = E(i, u, j)

LEMMA UnlogDetails ==
    ASSUME tx \in Seq(Transaction), tx # <<>>, Top.order # <<>>, OrderInv,
           tx' = Consumed(Front(Top.log[Current]))
    PROVE  \E d, n \in Nat : /\ Unlogged(Current, d, n)
                             /\ E(d, Current, n) = Last(Top.log[Current])
<1>1. PICK d \in Nat, n \in Nat :
             /\ d = depth
             /\ At(d, Current, n) /\ E(d, Current, n) = Last(Top.log[Current])
             /\ \A i, j : At(i, Current, j) => ~Later(d, n, i, j)
             /\ \A i, t, j : At(i, t, j)' <=>
                  At(i, t, j) /\ ~(i = d /\ t = Current /\ j = n)
             /\ \A i, t, j : At(i, t, j)' => E(i, t, j)' = E(i, t, j)
  BY RollbackAt
<1> DEFINE old == Top.log[Current]
<1>2. /\ Current \in Tables /\ old \in Seq(Entry) /\ old # <<>>
      /\ depth \in DOMAIN tx /\ Top = tx[depth]
  BY CurrentLog, TopType DEF Top
<1>3. /\ Front(old) \in Seq(Entry) /\ Len(Front(old)) = Len(old) - 1
      /\ Len(old) \in Nat /\ Len(old) # 0 /\ DOMAIN old = 1..Len(old)
  BY <1>2 DEF Front
<1>4. /\ DOMAIN tx' = DOMAIN tx /\ depth' = depth
      /\ \A i \in DOMAIN tx : i # depth => tx'[i] = tx[i]
      /\ tx'[depth].found = tx[depth].found
      /\ tx'[depth].log = [u \in Tables |-> IF u = Current THEN Front(old)
                                            ELSE tx[depth].log[u]]
  BY <1>3, ConsumedEffect
<1>5. /\ tx'[depth].log[Current] = Front(old)
      /\ \A u \in Tables : u # Current => tx'[depth].log[u] = tx[depth].log[u]
  BY <1>2, <1>4
<1>6. n = Len(old)
  <2>1. At(d, Current, Len(old)) /\ n \in 1..Len(old)
    BY <1>1, <1>2, <1>3 DEF At
  <2>2. ~Later(d, n, d, Len(old))
    BY <1>1, <2>1
  <2> QED BY <2>1, <2>2, <1>3 DEF Later
<1> HIDE DEF old
<1>7. /\ n = Len(tx[d].log[Current]) /\ n # 0
      /\ Len(tx'[d].log[Current]) = n - 1
  BY <1>1, <1>2, <1>3, <1>5, <1>6 DEF old
<1>8. \A i \in DOMAIN tx, u \in Tables : i # d \/ u # Current =>
        tx'[i].log[u] = tx[i].log[u]
  BY <1>1, <1>4, <1>5
<1>9. \A i \in DOMAIN tx : tx'[i].found = tx[i].found
  BY <1>1, <1>4
<1> QED BY <1>1, <1>2, <1>4, <1>7, <1>8, <1>9 DEF Unlogged

\* Touched(d, t, n - 1) and what is undone are what is touched by all.
LEMMA UndoesLast ==
    ASSUME RollInv, phase = "rollback", NEW t \in Tables, NEW d \in Nat, NEW n \in Nat,
           NEW e, e = E(d, t, n), Unlogged(t, d, n), RollbackAtEntry(e, d, t, n)
    PROVE  Undoing(t, e, d, n, Touched(d, t, n - 1))
<1> DEFINE X == Touched(d, t, n - 1)
<1>1. /\ ChainInv /\ SpanInv /\ UniqueInv /\ CopyInv /\ tx \in Seq(Transaction)
      /\ At(d, t, n) /\ e \in Entry
  BY DEF RollInv, Inv, TypeOK, RollbackAtEntry
<1>2. Passed(d, t, n) = Found(t) /\ Passed(d, t, n).rows = Held(t)
  BY DEF Unlogged, Passed, Reached, Found
<1>3. /\ Effect(t, e, cell[e.before], Held(t))
      /\ Alike(t, Touched(d, t, n), Result(e, Held(t)), Held(t))
  BY <1>1, <1>2 DEF ChainInv, Wrote
<1>4. X \cup ({e.after} \ {None}) \subseteq Touched(d, t, n)
  <2>1. e.after # None => e.after \in Touched(d, t, n)
    BY <1>1, Touches
  <2>2. \A k, l : At(k, t, l) /\ ~Later(d, n - 1, k, l) => ~Later(d, n, k, l)
    BY DEF Unlogged
  <2> QED BY <2>1, <2>2 DEF Touched
<1>5. Alike(t, X \cup ({e.after} \ {None}), Result(e, Held(t)), Held(t))
  BY <1>3, <1>4, AlikeLess
<1>6. t \in Indexed => /\ Unique(Held(t)) /\ Unique(e.was.rows)
                       /\ Unique(Result(e, Held(t)))
  BY <1>1, <1>2 DEF UniqueInv, Wrote
<1>7. Undoes(t, e, cell[e.before], X, Held(t))
  BY <1>1, <1>3, <1>5, <1>6 DEF Undoes
<1>8. ASSUME e.after # None, e.after \in X PROVE e.after \in DOMAIN e.was.rows
  <2>1. PICK k, l : At(k, t, l) /\ ~Later(d, n - 1, k, l) /\ E(k, t, l).after = e.after
    BY <1>8 DEF Touched
  <2>2. ~(k = d /\ l = n)
    BY <2>1 DEF Later
  <2>3. ~Later(d, n, k, l)
    BY <2>1 DEF Unlogged
  <2> QED BY <2>1, <2>2, <2>3, <1>1, <1>8 DEF SpanInv, Names
<1>9. e.change = "insert" => e.after \notin X
  BY <1>1, <1>3, <1>8 DEF Entry, Effect
<1>10. e.change = "update" => e.before \notin X /\ (e.after \in X => e.after \in DOMAIN e.was.rows)
  <2> SUFFICES ASSUME e.change = "update"
               PROVE  e.before \notin X /\ (e.after \in X => e.after \in DOMAIN e.was.rows)
    OBVIOUS
  <2>1. e.after # None
    BY <1>1 DEF Entry
  <2>2. e.before \notin X
    BY <1>1 DEF CopyInv, Touched
  <2> QED BY <2>1, <2>2, <1>8
<1> HIDE DEF X
<1> QED BY <1>7, <1>9, <1>10 DEF Undoing, X

LEMMA UnloggedPositions ==
    ASSUME RollInv, phase = "rollback", NEW t \in Tables, NEW d \in Nat, NEW n \in Nat,
           NEW e, e = E(d, t, n), Unlogged(t, d, n),
           \A u \in Tables : u # t => Held(u)' = Held(u) /\ stamp'[u] = stamp[u],
           Alike(t, Touched(d, t, n - 1), e.was.rows, Held(t)'),
           stamp'[t] = e.was.stamp,
           \A i, u, j : At(i, u, j)' /\ E(i, u, j).before # None =>
             cell'[E(i, u, j).before] = cell[E(i, u, j).before]
    PROVE  /\ Shortened
           /\ \A i \in DOMAIN tx, u \in Tables : i # d \/ u # t =>
                Reached(i, u)' = Reached(i, u)
           /\ Reached(d, t)' = Found(t)'
<1>1. /\ d = depth /\ depth' = d /\ d \in DOMAIN tx
      /\ DOMAIN tx' = DOMAIN tx
      /\ \A i \in DOMAIN tx : tx'[i].found = tx[i].found
      /\ \A i \in DOMAIN tx, u \in Tables : i # d \/ u # t =>
           tx'[i].log[u] = tx[i].log[u]
      /\ n = Len(tx[d].log[t]) /\ n # 0
      /\ Len(tx'[d].log[t]) = n - 1
      /\ \A i, u, j : At(i, u, j)' <=> At(i, u, j) /\ ~(i = d /\ u = t /\ j = n)
      /\ \A i, u, j : At(i, u, j)' => E(i, u, j)' = E(i, u, j)
  BY DEF Unlogged
<1>3. tx \in Seq(Transaction) /\ DOMAIN tx = 1..d
  <2>1. tx \in Seq(Transaction)
    BY DEF RollInv, Inv, TypeOK
  <2> QED BY <2>1, <1>1 DEF depth
<1>4. \A i \in DOMAIN tx, u \in Tables :
        Len(tx[i].log[u]) \in Nat /\ DOMAIN tx[i].log[u] = 1..Len(tx[i].log[u])
  <2> SUFFICES ASSUME NEW i \in DOMAIN tx, NEW u \in Tables
               PROVE  tx[i].log[u] \in Seq(Entry)
    OBVIOUS
  <2>1. tx[i] \in Transaction
    BY <1>3
  <2> QED BY <2>1 DEF Transaction
<1>5. ASSUME NEW i \in DOMAIN tx, NEW u \in Tables, i # d \/ u # t
      PROVE  Reached(i, u)' = Reached(i, u)
  <2>1. CASE i < d
    <3>1. i + 1 \in DOMAIN tx
      BY <2>1, <1>3
    <3> QED BY <2>1, <3>1, <1>1 DEF Reached
  <2>2. CASE i = d
    <3>1. Found(u)' = Found(u)
      BY <2>2, <1>5 DEF Found
    <3> QED BY <2>2, <3>1, <1>1 DEF Reached
  <2> QED BY <2>1, <2>2, <1>3
<1>6. Reached(d, t)' = Found(t)'
  BY <1>1 DEF Reached
<1>7. ASSUME NEW i, NEW u, NEW j, Position(i, u, j)'
      PROVE  /\ Position(i, u, j)
             /\ Touched(i, u, j)' = Touched(i, u, j)
             /\ Passed(i, u, j)'.stamp = Passed(i, u, j).stamp
             /\ Alike(u, Touched(i, u, j), Passed(i, u, j).rows, Passed(i, u, j)'.rows)
  <2>1. i \in DOMAIN tx /\ u \in Tables
    BY <1>1, <1>7 DEF Position
  <2>2. CASE i # d \/ u # t
    <3>1. Position(i, u, j) /\ j \in Nat
      BY <2>1, <2>2, <1>1, <1>4, <1>7 DEF Position
    <3>2. Passed(i, u, j)' = Passed(i, u, j)
      <4>1. CASE j < Len(tx[i].log[u])
        <5>1. At(i, u, j + 1)
          BY <2>1, <3>1, <4>1, <1>4 DEF At
        <5>2. E(i, u, j + 1)' = E(i, u, j + 1)
          BY <5>1, <2>2, <1>1
        <5> QED BY <2>1, <2>2, <4>1, <5>2, <1>1 DEF Passed
      <4>2. CASE ~(j < Len(tx[i].log[u]))
        BY <2>1, <2>2, <4>2, <1>1, <1>5 DEF Passed
      <4> QED BY <4>1, <4>2
    <3>3. \A k, l : At(k, u, l) /\ ~Later(i, j, k, l) => At(k, u, l)'
      <4> SUFFICES ASSUME u = t, ~Later(i, j, d, n) PROVE FALSE
        BY <1>1
      <4>1. i # d /\ i \in 1..d
        BY <2>1, <2>2, <1>3
      <4> QED BY <4>1 DEF Later
    <3>4. Touched(i, u, j)' = Touched(i, u, j)
      BY <3>3, <1>1 DEF Touched
    <3> QED BY <3>1, <3>2, <3>4 DEF Alike, Same
  <2>3. CASE i = d /\ u = t
    <3>1. j \in Nat /\ j <= n - 1 /\ Position(i, u, j)
      <4>1. j \in 0..(n - 1)
        BY <2>3, <1>1, <1>7 DEF Position
      <4> QED BY <4>1, <2>1, <2>3, <1>1 DEF Position
    <3>2. \A k, l : At(k, t, l) /\ ~Later(d, j, k, l) => At(k, t, l)'
      <4>1. Later(d, j, d, n)
        BY <3>1 DEF Later
      <4> QED BY <4>1, <1>1
    <3>3. Touched(d, t, j)' = Touched(d, t, j)
      BY <3>2, <1>1 DEF Touched
    <3>4. CASE j < n - 1
      <4>1. At(d, t, j + 1) /\ j + 1 # n /\ j < n
        BY <3>1, <3>4, <1>1, <1>4 DEF At
      <4>2. E(d, t, j + 1)' = E(d, t, j + 1)
        BY <4>1, <1>1
      <4>3. Passed(d, t, j)' = Passed(d, t, j)
        BY <3>4, <4>1, <4>2, <1>1 DEF Passed
      <4> QED BY <2>3, <3>1, <3>3, <4>3 DEF Alike, Same
    <3>5. CASE j = n - 1
      <4>1. Passed(d, t, j) = e.was
        <5>1. j < n /\ j + 1 = n
          BY <3>5
        <5> QED BY <5>1, <1>1 DEF Passed
      <4>2. Passed(d, t, j)' = Found(t)'
        BY <3>5, <1>1, <1>6 DEF Passed
      <4>3. Found(t)'.rows = Held(t)' /\ Found(t)'.stamp = stamp'[t]
        BY DEF Found
      <4> QED BY <2>3, <3>1, <3>3, <3>5, <4>1, <4>2, <4>3
    <3> QED BY <3>1, <3>4, <3>5
  <2> QED BY <2>2, <2>3
<1>8. ASSUME NEW i, NEW u, NEW j, At(i, u, j)' PROVE Position(i, u, j)'
  <2>1. i \in DOMAIN tx /\ u \in Tables /\ At(i, u, j)
    BY <1>1, <1>8 DEF At
  <2>2. j \in 1..Len(tx[i].log[u])
    BY <2>1, <1>4 DEF At
  <2> QED BY <2>1, <2>2, <1>1, <1>4, <1>8 DEF Position
<1>9. \A i \in DOMAIN tx', u \in Tables : Position(i, u, 0)'
  <2> SUFFICES ASSUME NEW i \in DOMAIN tx, NEW u \in Tables
               PROVE  Len(tx'[i].log[u]) \in Nat
    BY <1>1 DEF Position
  <2> QED BY <1>1, <1>4
<1> QED BY <1>1, <1>5, <1>6, <1>7, <1>8, <1>9 DEF Shortened

\* The rows of the entries that are left are there, and so is all that they
\* keep.
LEMMA UndoneHeap ==
    ASSUME RollInv, phase = "rollback", NEW t \in Tables, NEW d \in Nat, NEW n \in Nat,
           NEW e, NEW X, e = E(d, t, n), Unlogged(t, d, n),
           Undoing(t, e, d, n, X), Restored(t, e, X)
    PROVE  /\ HeapInv' /\ LeakInv'
           /\ \A i, u, j : At(i, u, j)' /\ E(i, u, j).before # None =>
                cell'[E(i, u, j).before] = cell[E(i, u, j).before]
<1>1. /\ HeapInv /\ LeakInv /\ SpanInv /\ KeepInv /\ HomeInv /\ CopyInv
      /\ heap \subseteq Rows /\ None \notin Rows
  BY StorageAssumption DEF RollInv, Inv, TypeOK
<1>2. /\ e \in Entry
      /\ e.after # None => /\ e.after \in heap /\ e.after \in Rows
                           /\ e.after \in linked[t]
  BY UndoingRows
<1>3. /\ heap' = heap \ (IF e.change = "insert" THEN {e.after}
                         ELSE IF e.change = "update" THEN {e.before} ELSE {})
      /\ \A x \in heap' : x # e.after => cell'[x] = cell[x]
      /\ \A u \in Tables : u # t => linked'[u] = linked[u]
      /\ linked'[t] = IF e.change = "insert" THEN linked[t] \ {e.after}
                      ELSE IF e.change = "delete" THEN linked[t] \cup {e.before}
                      ELSE linked[t]
  BY DEF Restored
<1>4. /\ At(d, t, n)
      /\ \A i, j : At(i, t, j) => ~Later(d, n, i, j)
      /\ \A i, u, j : At(i, u, j)' <=> At(i, u, j) /\ ~(i = d /\ u = t /\ j = n)
      /\ \A i, u, j : At(i, u, j)' => E(i, u, j)' = E(i, u, j)
  BY DEF Unlogged
<1>5. e.change = "insert" => e.after # None /\ e.after \notin DOMAIN e.was.rows
  BY <1>2 DEF Undoing, Undoes, Effect, Entry
<1>6. ASSUME NEW i, NEW u, NEW j, At(i, u, j)', E(i, u, j).before # None
      PROVE  E(i, u, j).before \in heap' /\ E(i, u, j).before # e.after
  <2> DEFINE b == E(i, u, j).before
  <2>1. At(i, u, j) /\ ~(i = d /\ u = t /\ j = n) /\ b \in heap
    BY <1>1, <1>4, <1>6 DEF HeapInv
  <2>2. b \notin linked[t]
    BY <2>1, <1>1 DEF KeepInv
  <2>3. b # e.after
    <3>1. b # None
      BY <1>6
    <3> QED BY <2>2, <3>1, <1>2
  <2>4. b # e.before
    BY <2>1, <1>1, <1>4, <1>6 DEF KeepInv
  <2> QED BY <2>1, <2>3, <2>4, <1>3
<1>7. ASSUME NEW i, NEW u, NEW j, At(i, u, j)', E(i, u, j).after # None
      PROVE  E(i, u, j).after \in heap'
  <2> DEFINE a == E(i, u, j).after
  <2>1. At(i, u, j) /\ ~(i = d /\ u = t /\ j = n) /\ a \in heap /\ a \in Rows
    BY <1>1, <1>4, <1>7 DEF HeapInv
  <2>2. e.change = "insert" => a # e.after
    <3> SUFFICES ASSUME e.change = "insert", a = e.after
                 PROVE  FALSE
      OBVIOUS
    <3>1. u = t
      BY <2>1, <1>1, <1>4 DEF HomeInv, Names
    <3>2. Later(d, n, i, j) \/ (d = i /\ n = j)
      BY <3>1, <2>1, <1>1, <1>4, <1>5 DEF SpanInv, Names
    <3> QED BY <3>1, <3>2, <2>1, <1>4
  <2>3. e.change = "update" => a # e.before
    BY <2>1, <1>1, <1>4 DEF CopyInv
  <2> QED BY <2>1, <2>2, <2>3, <1>3
<1>8. HeapInv'
  BY <1>4, <1>6, <1>7 DEF HeapInv
<1>9. LeakInv'
  <2> SUFFICES ASSUME NEW r \in heap', \A u \in Tables : r \notin linked'[u]
               PROVE  \E i, u, j : At(i, u, j)' /\ E(i, u, j)'.before = r
    BY DEF LeakInv
  <2>1. r \in heap /\ r # None /\ \A u \in Tables : r \notin linked[u]
    <3>1. r \in heap /\ r # None
      BY <1>1, <1>3
    <3>2. r \notin linked[t]
      BY <1>3
    <3> QED BY <3>1, <3>2, <1>3
  <2>2. PICK i, u, j : At(i, u, j) /\ E(i, u, j).before = r
    BY <2>1, <1>1 DEF LeakInv
  <2>3. ~(i = d /\ u = t /\ j = n)
    <3> SUFFICES ASSUME e.before = r
                 PROVE  FALSE
      BY <2>2
    <3>1. e.change = "update" \/ e.change = "delete"
      BY <2>1, <1>2 DEF Entry
    <3> QED BY <3>1, <1>3
  <2> QED BY <2>2, <2>3, <1>4
<1>10. ASSUME NEW i, NEW u, NEW j, At(i, u, j)', E(i, u, j).before # None
       PROVE  cell'[E(i, u, j).before] = cell[E(i, u, j).before]
  BY <1>3, <1>6, <1>10
<1> QED BY <1>8, <1>9, <1>10

\* What was found with the same stamp is still, or again, the same.
LEMMA UndoneFound ==
    ASSUME RollInv, Inv', phase = "rollback",
           NEW t \in Tables, NEW d \in Nat, NEW n \in Nat,
           NEW e, NEW X, e = E(d, t, n), Unlogged(t, d, n),
           Alike(t, X, e.was.rows, Held(t)'), stamp'[t] = e.was.stamp,
           \A i \in DOMAIN tx, u \in Tables : i # d \/ u # t =>
             Reached(i, u)' = Reached(i, u),
           Reached(d, t)' = Found(t)'
    PROVE  FoundInv'
<1>1. /\ d = depth /\ depth' = d /\ d \in DOMAIN tx /\ DOMAIN tx' = DOMAIN tx
      /\ \A i \in DOMAIN tx : tx'[i].found = tx[i].found
      /\ \A i \in DOMAIN tx, u \in Tables : i # d \/ u # t =>
           tx'[i].log[u] = tx[i].log[u]
      /\ n = Len(tx[d].log[t]) /\ n # 0
      /\ Len(tx'[d].log[t]) = n - 1
      /\ At(d, t, n)
  BY DEF Unlogged
<1>2. tx \in Seq(Transaction) /\ DOMAIN tx = 1..d
  <2>1. tx \in Seq(Transaction)
    BY DEF RollInv, Inv, TypeOK
  <2> QED BY <2>1, <1>1 DEF depth
<1>3. \A i \in DOMAIN tx : tx[i].found[t].stamp \in Nat
  <2> SUFFICES ASSUME NEW i \in DOMAIN tx PROVE tx[i].found[t].stamp \in Nat
    OBVIOUS
  <2>1. tx[i] \in Transaction
    BY <1>2
  <2> QED BY <2>1 DEF Transaction, Snapshot
<1>4. /\ \A i \in DOMAIN tx, u \in Tables :
           /\ tx[i].log[u] # <<>> => Reached(i, u).stamp > tx[i].found[u].stamp
           /\ \A k \in DOMAIN tx : i <= k =>
                /\ tx[i].found[u].stamp <= Reached(k, u).stamp
                /\ tx[i].found[u].stamp = Reached(k, u).stamp =>
                     Same(u, tx[i].found[u].rows, Reached(k, u).rows)
  BY DEF RollInv, FoundInv
<1>5. Reached(d, t)'.stamp = e.was.stamp /\ Reached(d, t)'.rows = Held(t)'
  BY DEF Found
<1>6. n # 1 => e.was.stamp > tx[d].found[t].stamp
  BY <1>1 DEF RollInv, StampInv
<1>7. n = 1 => /\ e.was.stamp = tx[d].found[t].stamp
               /\ Same(t, tx[d].found[t].rows, Held(t)')
  <2> SUFFICES ASSUME n = 1
               PROVE  /\ e.was.stamp = tx[d].found[t].stamp
                      /\ Same(t, tx[d].found[t].rows, Held(t)')
    OBVIOUS
  <2>1. Passed(d, t, 0) = e.was
    BY <1>1 DEF Passed
  <2>2. e.was.stamp = tx[d].found[t].stamp
    BY <2>1, <1>1 DEF RollInv, StampInv
  <2>3. Same(t, tx[d].found[t].rows, e.was.rows)
    BY <2>1, <1>1 DEF RollInv, ChainInv, Alike
  <2>4. Same(t, e.was.rows, Held(t)')
    BY DEF Alike
  <2> QED BY <2>2, <2>3, <2>4 DEF Same
\* what the outer transactions found, seen from transaction d
<1>8. ASSUME NEW i \in DOMAIN tx
      PROVE  /\ tx[i].found[t].stamp <= tx[d].found[t].stamp
             /\ tx[i].found[t].stamp = tx[d].found[t].stamp =>
                  Same(t, tx[i].found[t].rows, tx[d].found[t].rows)
  <2>1. CASE i = d
    BY <2>1, <1>3 DEF Same
  <2>2. CASE i # d
    <3>1. d - 1 \in DOMAIN tx /\ i <= d - 1 /\ d - 1 < d
      BY <2>2, <1>2
    <3>2. Reached(d - 1, t) = tx[d].found[t]
      BY <3>1, <1>1 DEF Reached
    <3> QED BY <3>1, <3>2, <1>4
  <2> QED BY <2>1, <2>2
<1>9. ASSUME NEW i \in DOMAIN tx, NEW u \in Tables, tx'[i].log[u] # <<>>
      PROVE  Reached(i, u)'.stamp > tx[i].found[u].stamp
  <2>1. CASE i # d \/ u # t
    BY <2>1, <1>1, <1>4, <1>9
  <2>2. CASE i = d /\ u = t
    <3>1. n # 1
      <4> SUFFICES ASSUME n = 1 PROVE tx'[d].log[t] = <<>>
        BY <2>2, <1>9
      <4>1. tx'[d].log[t] \in Seq(Entry)
        <5>1. tx' \in Seq(Transaction)
          BY DEF Inv, TypeOK
        <5>2. tx'[d] \in Transaction
          BY <5>1, <1>1
        <5> QED BY <5>2 DEF Transaction
      <4> QED BY <4>1, <1>1
    <3> QED BY <2>2, <3>1, <1>5, <1>6
  <2> QED BY <2>1, <2>2
<1>10. ASSUME NEW i \in DOMAIN tx, NEW u \in Tables, NEW k \in DOMAIN tx, i <= k
       PROVE  /\ tx[i].found[u].stamp <= Reached(k, u)'.stamp
              /\ tx[i].found[u].stamp = Reached(k, u)'.stamp =>
                   Same(u, tx[i].found[u].rows, Reached(k, u)'.rows)
  <2>1. CASE k # d \/ u # t
    BY <2>1, <1>4, <1>10
  <2>2. CASE k = d /\ u = t
    <3>1. CASE n = 1
      BY <2>2, <3>1, <1>5, <1>7, <1>8 DEF Same
    <3>2. CASE n # 1
      <4>1. e.was.stamp > tx[d].found[t].stamp /\ e.was.stamp \in Nat
        <5>1. e.was \in Snapshot
          <6>1. e \in Entry
            BY <1>1, <1>2, EntryType
          <6> QED BY <6>1 DEF Entry
        <5> QED BY <5>1, <3>2, <1>6 DEF Snapshot
      <4>2. tx[i].found[t].stamp < e.was.stamp
        BY <4>1, <1>1, <1>3, <1>8
      <4> QED BY <2>2, <4>1, <4>2, <1>3, <1>5
    <3> QED BY <3>1, <3>2
  <2> QED BY <2>1, <2>2
<1> QED BY <1>1, <1>9, <1>10 DEF FoundInv

\* Undoing an entry restores its table.
LEMMA UndoRestores ==
    ASSUME RollInv, phase = "rollback", NEW t \in Tables, NEW e, NEW d \in Nat,
           NEW n \in Nat, NEW X, Undoing(t, e, d, n, X), Undo(t, e)
    PROVE  Restored(t, e, X)
<1>1. e \in Entry
  BY UndoingRows
<1>2. e.change \in {"stamp", "insert", "update", "delete"}
  BY <1>1 DEF Entry
<1>3. CASE e.change = "insert"
  <2>1. UndoInsert(t, e)
    BY <1>3 DEF Undo
  <2> QED BY <1>3, <2>1, RestoredInsert
<1>4. CASE e.change = "delete"
  <2>1. UndoDelete(t, e)
    BY <1>4 DEF Undo
  <2> QED BY <1>4, <2>1, RestoredDelete
<1>5. CASE e.change = "update"
  <2>1. UndoUpdate(t, e)
    BY <1>5 DEF Undo
  <2> QED BY <1>5, <2>1, RestoredUpdate
<1>6. CASE e.change = "stamp"
  <2>1. UndoStamp(t, e)
    BY <1>6 DEF Undo
  <2> QED BY <1>6, <2>1, RestoredStamp
<1> QED BY <1>2, <1>3, <1>4, <1>5, <1>6

\* The stamp is what it was when the entry was written.
LEMMA UndoStamps ==
    ASSUME RollInv, phase = "rollback", NEW t \in Tables, NEW d \in Nat, NEW n \in Nat,
           NEW e, e = E(d, t, n), Unlogged(t, d, n), Undo(t, e)
    PROVE  /\ stamp'[t] = e.was.stamp
           /\ \A u \in Tables : u # t => stamp'[u] = stamp[u]
<1>1. At(d, t, n) /\ d = depth /\ n = Len(tx[d].log[t])
  BY DEF Unlogged
<1>2. tx \in Seq(Transaction) /\ stamp \in [Tables -> Nat]
  BY DEF RollInv, Inv, TypeOK
<1>3. e.change \in {"stamp", "insert", "update", "delete"}
  BY <1>1, <1>2, EntryType DEF Entry
<1>4. /\ n = 1 <=> e.change = "stamp"
      /\ n = 1 => e.stamp = e.was.stamp
      /\ n # 1 => Passed(d, t, n).stamp = e.was.stamp
  <2>1. StampInv /\ phase # "commit"
    BY DEF RollInv
  <2>2. \A i, u, j : At(i, u, j) =>
          /\ j = 1 <=> E(i, u, j).change = "stamp"
          /\ j = 1 => E(i, u, j).stamp = E(i, u, j).was.stamp
          /\ j # 1 => Passed(i, u, j).stamp = E(i, u, j).was.stamp
    BY <2>1 DEF StampInv
  <2>3. At(d, t, n)
    BY <1>1
  <2>4. /\ n = 1 <=> E(d, t, n).change = "stamp"
        /\ n = 1 => E(d, t, n).stamp = E(d, t, n).was.stamp
        /\ n # 1 => Passed(d, t, n).stamp = E(d, t, n).was.stamp
    BY <2>2, <2>3
  <2> QED BY <2>4
<1>5. Passed(d, t, n) = Found(t)
  BY <1>1 DEF Passed, Reached
<1>6. CASE e.change = "stamp"
  <2>1. stamp' = [stamp EXCEPT ![t] = e.stamp]
    BY <1>6 DEF Undo, UndoStamp
  <2> QED BY <1>2, <1>4, <1>6, <2>1
<1>7. CASE e.change # "stamp"
  <2>1. stamp' = stamp
    BY <1>3, <1>7 DEF Undo, UndoInsert, UndoDelete, UndoUpdate
  <2> QED BY <1>4, <1>5, <1>7, <2>1 DEF Found
<1> QED BY <1>6, <1>7

\* The other tables keep their rows, and all rows are found by their keys.
LEMMA UndoneIndex ==
    ASSUME RollInv, phase = "rollback", NEW t \in Tables, NEW d \in Nat, NEW n \in Nat,
           NEW e, NEW X, Undoing(t, e, d, n, X), Restored(t, e, X), table' = table
    PROVE  /\ \A u \in Tables : u # t => Held(u)' = Held(u)
           /\ RowsAreIndexed'
           /\ \A u \in Indexed : Unique(Held(u))'
<1>1. /\ LinkInv /\ RowsAreIndexed /\ Indexed \subseteq Tables
  BY StorageAssumption DEF RollInv, Inv
<1>2. /\ e \in Entry /\ table = None
      /\ e.before # None => \A u \in Tables : e.before \notin linked[u]
      /\ e.after # None => e.after \in linked[t]
      /\ None \notin Rows /\ linked \in [Tables -> SUBSET Rows]
      /\ \A u \in Tables : linked[u] \subseteq heap
  BY UndoingRows
<1>3. /\ heap' = heap \ (IF e.change = "insert" THEN {e.after}
                         ELSE IF e.change = "update" THEN {e.before} ELSE {})
      /\ \A x \in heap' : x # e.after => cell'[x] = cell[x]
      /\ \A u \in Tables : u # t => linked'[u] = linked[u] /\ index'[u] = index[u]
      /\ t \in Indexed => \A x \in linked'[t] : index'[t][cell'[x].key] = x
  BY DEF Restored
<1>4. ASSUME NEW u \in Tables, u # t, NEW x \in linked[u]
      PROVE  cell'[x] = cell[x]
  <2>1. x \in Rows /\ x # None /\ x \in heap
    BY <1>2
  <2>2. x # e.before
    BY <1>2, <2>1
  <2>3. x # e.after
    <3>1. x \notin linked[t]
      BY <1>1, <1>4 DEF LinkInv
    <3> QED BY <3>1, <2>1, <1>2
  <2> QED BY <2>1, <2>2, <2>3, <1>3
<1>5. \A u \in Tables : u # t => Held(u)' = Held(u)
  BY <1>3, <1>4 DEF Held
<1>6. \A u \in Indexed : \A x \in linked'[u] : index'[u][cell'[x].key] = x
  <2> SUFFICES ASSUME NEW u \in Indexed, u # t, NEW x \in linked[u]
               PROVE  index'[u][cell'[x].key] = x
    BY <1>1, <1>3
  <2>1. index[u][cell[x].key] = x
    <3>1. u # table
      BY <1>1, <1>2, StorageAssumption
    <3> QED BY <3>1, <1>1 DEF RowsAreIndexed
  <2> QED BY <2>1, <1>1, <1>3, <1>4
<1>7. RowsAreIndexed'
  BY <1>6 DEF RowsAreIndexed
<1>8. \A u \in Indexed : Unique(Held(u))'
  BY <1>6 DEF Unique, Held
<1> QED BY <1>5, <1>7, <1>8

LEMMA RollbackEntryRoll ==
    ASSUME RollInv, RollbackEntry
    PROVE  RollInv'
<1> DEFINE f == Last(Top.log[Current])
<1>1. /\ phase = "rollback" /\ phase' = phase /\ table' = table
      /\ Top.order # <<>>
      /\ Using({f.before, f.after} \ {None},
               /\ Undo(Current, f)
               /\ tx' = Consumed(Front(Top.log[Current])))
  BY DEF RollbackEntry, loopVars
<1>2. /\ tx \in Seq(Transaction) /\ tx # <<>> /\ OrderInv /\ Inv
      /\ HeapInv /\ ~broken /\ table = None
  BY <1>1 DEF RollInv, Inv, TypeOK, SoundInv
<1>3. Inv'
  BY <1>2, RollbackEntryInv
<1>4. Current \in Tables /\ Top.log[Current] \in Seq(Entry) /\ Top.log[Current] # <<>>
  BY <1>1, <1>2, CurrentLog
<1>5. \E d, n : At(d, Current, n) /\ E(d, Current, n) = f
  <2>1. Len(Top.log[Current]) \in DOMAIN Top.log[Current]
    BY <1>4
  <2>2. depth \in DOMAIN tx
    BY <1>2 DEF depth
  <2>3. At(depth, Current, Len(Top.log[Current]))
    BY <1>4, <2>1, <2>2 DEF At, Top
  <2>4. E(depth, Current, Len(Top.log[Current])) = f
    BY DEF E, Top, Last
  <2> QED BY <2>3, <2>4
<1>6. {f.before, f.after} \ {None} \subseteq heap
  <2>1. /\ f.before # None => f.before \in heap
        /\ f.after # None => f.after \in heap
    BY <1>2, <1>5 DEF HeapInv
  <2> QED BY <2>1
<1>7. /\ Undo(Current, f)
      /\ tx' = Consumed(Front(Top.log[Current]))
      /\ broken' = broken
  BY <1>1, <1>6 DEF Using
<1>8. PICK t \in Tables : t = Current
  BY <1>4
<1>9. PICK e : e = f
  OBVIOUS
<1>10. PICK k, m \in Nat : Unlogged(t, k, m) /\ E(k, t, m) = e
  BY <1>1, <1>2, <1>7, <1>8, <1>9, UnlogDetails
<1>11. Undo(t, e)
  BY <1>7, <1>8, <1>9
<1>12. RollbackAtEntry(e, k, t, m)
  <2>1. /\ k = depth /\ At(k, t, m)
        /\ \A i, j : At(i, t, j) => ~Later(k, m, i, j)
    BY <1>10 DEF Unlogged
  <2>2. e \in Entry
    BY <1>2, <1>10, <2>1, EntryType
  <2> QED BY <1>6, <1>8, <1>9, <1>10, <2>1, <2>2 DEF RollbackAtEntry
<1>13. PICK X : X = Touched(k, t, m - 1)
  OBVIOUS
<1>14. Undoing(t, e, k, m, X)
  BY <1>1, <1>10, <1>12, <1>13, UndoesLast
<1>15. Restored(t, e, X)
  BY <1>1, <1>11, <1>14, UndoRestores
<1>16. /\ stamp'[t] = e.was.stamp
       /\ \A u \in Tables : u # t => stamp'[u] = stamp[u]
  BY <1>1, <1>10, <1>11, UndoStamps
<1>17. /\ HeapInv' /\ LeakInv'
       /\ \A i, u, j : At(i, u, j)' /\ E(i, u, j).before # None =>
            cell'[E(i, u, j).before] = cell[E(i, u, j).before]
  BY <1>1, <1>10, <1>14, <1>15, UndoneHeap
<1>18. /\ \A u \in Tables : u # t => Held(u)' = Held(u)
       /\ RowsAreIndexed'
       /\ \A u \in Indexed : Unique(Held(u))'
  BY <1>1, <1>14, <1>15, UndoneIndex
<1>19. Alike(t, Touched(k, t, m - 1), e.was.rows, Held(t)')
  BY <1>13, <1>15 DEF Restored
<1>20. /\ Shortened
       /\ \A i \in DOMAIN tx, u \in Tables : i # k \/ u # t =>
            Reached(i, u)' = Reached(i, u)
       /\ Reached(k, t)' = Found(t)'
  BY <1>1, <1>10, <1>16, <1>17, <1>18, <1>19, UnloggedPositions
<1>21. SpanInv' /\ ChainInv' /\ StampInv'
  BY <1>1, <1>20, ShortenedChain
<1>22. UniqueInv'
  BY <1>1, <1>18, <1>20, ShortenedUnique
<1>23. FoundInv'
  BY <1>1, <1>3, <1>10, <1>16, <1>19, <1>20, UndoneFound
<1>24. SoundInv'
  BY <1>1, <1>2, <1>7 DEF SoundInv
<1> QED BY <1>3, <1>17, <1>18, <1>21, <1>22, <1>23, <1>24 DEF RollInv

-----------------------------------------------------------------------------
(* The invariant holds *)

LEMMA InitRoll ==
    ASSUME Init
    PROVE  RollInv
<1>1. /\ cell = << >> /\ heap = {} /\ tx = <<>> /\ DOMAIN tx = {} /\ ~broken
      /\ phase = "idle" /\ table = None /\ linked = [t \in Tables |-> {}]
  BY DEF Init, heap
<1>2. depth = 0 /\ SoundInv
  BY <1>1 DEF depth, SoundInv
<1>3. \A i, t, j : ~At(i, t, j)
  BY <1>1 DEF At
<1>4. \A t \in Tables : linked[t] = {} /\ Unique(Held(t))
  BY <1>1 DEF Unique, Held
<1>5. HeapInv /\ SpanInv /\ LeakInv
  BY <1>1, <1>3 DEF HeapInv, SpanInv, LeakInv
<1>6. RowsAreIndexed /\ UniqueInv
  BY <1>1, <1>3, <1>4, StorageAssumption DEF RowsAreIndexed, UniqueInv
<1>7. ChainInv /\ StampInv /\ FoundInv
  BY <1>1, <1>3 DEF ChainInv, StampInv, FoundInv
<1> QED BY <1>2, <1>5, <1>6, <1>7, InitInv DEF RollInv

LEMMA NextRoll ==
    ASSUME RollInv, Careful, [Next]_vars
    PROVE  RollInv'
<1>1. CASE Operation
  <2>1. ASSUME NEW t \in Tables, NEW r \in Rows, NEW d \in Data, InsertRow(t, r, d)
        PROVE  RollInv'
    BY <2>1, InsertRowRoll
  <2>2. ASSUME NEW t \in Tables, NEW r \in Rows, NEW d \in Data, ReplaceRow(t, r, d)
        PROVE  RollInv'
    BY <2>2, ReplaceRowRoll
  <2>3. ASSUME NEW t \in Tables, NEW r \in Rows, NEW d \in Data, ReplaceOutside(t, r, d)
        PROVE  FALSE
    BY <2>3 DEF ReplaceOutside, Careful
  <2>4. ASSUME NEW t \in Tables, NEW r \in Rows, NEW d \in Data,
               NEW c \in Rows \cup {None}, UpdateRow(t, r, d, c)
        PROVE  RollInv'
    BY <2>4, UpdateRowRoll
  <2>5. ASSUME NEW t \in Tables, NEW r \in Rows, NEW d \in Data,
               NEW c \in Rows \cup {None}, UpdateOntoTaken(t, r, d, c)
        PROVE  FALSE
    BY <2>5 DEF UpdateOntoTaken, Careful
  <2>6. ASSUME NEW t \in Tables, NEW r \in Rows, DeleteRow(t, r)
        PROVE  RollInv'
    BY <2>6, DeleteRowRoll
  <2>7. ASSUME NEW t \in Tables, Clear(t)
        PROVE  RollInv'
    BY <2>7, ClearRoll
  <2> QED BY <1>1, <2>1, <2>2, <2>3, <2>4, <2>5, <2>6, <2>7 DEF Operation
<1>2. ASSUME NEW r \in Rows, ClearRow(r)
      PROVE  RollInv'
  BY <1>2, ClearRowRoll
<1>3. CASE Begin
  BY <1>3, BeginRoll
<1>4. CASE Commit \/ Rollback
  BY <1>4, LoopRoll
<1>5. CASE CommitEntry
  BY <1>5, CommitEntryRoll
<1>6. CASE CommitEnd
  BY <1>6, CommitEndRoll
<1>7. CASE RollbackEntry
  BY <1>7, RollbackEntryRoll
<1>8. CASE RollbackEnd
  BY <1>8, RollbackEndRoll
<1>9. CASE UNCHANGED vars
  <2>1. Inv'
    <3>1. "replace_own" \notin Habits /\ Inv
      BY DEF Careful, RollInv
    <3> QED BY <3>1, NextInv
  <2>2. SoundInv' /\ RowsAreIndexed'
    BY <1>9 DEF vars, RollInv, SoundInv, RowsAreIndexed, depth
  <2> QED BY <1>9, <2>1, <2>2, QuietRoll DEF vars
<1> QED BY <1>1, <1>2, <1>3, <1>4, <1>5, <1>6, <1>7, <1>8, <1>9 DEF Next

LEMMA RollInvHolds ==
    ASSUME Careful
    PROVE  Spec => []RollInv
<1>1. Init => RollInv
  BY InitRoll
<1>2. RollInv /\ [Next]_vars => RollInv'
  BY NextRoll
<1> QED BY <1>1, <1>2, PTL DEF Spec

-----------------------------------------------------------------------------
(* What follows from the invariant *)

\* Rows with the same contents and different keys are as many of each.
LEMMA SameCount ==
    ASSUME NEW t, NEW A, NEW B, Same(t, A, B),
           t \in Indexed => Unique(A) /\ Unique(B)
    PROVE  Count(A) = Count(B)
<1>1. CASE A = B
  BY <1>1
<1>2. CASE t \in Indexed
  <2> DEFINE In(d, rows) == {r \in DOMAIN rows : rows[r] = d}
  <2>1. ASSUME NEW d \in Data, NEW rows, Unique(rows)
        PROVE  /\ d \in Image(rows) => Cardinality(In(d, rows)) = 1
               /\ d \notin Image(rows) => Cardinality(In(d, rows)) = 0
    <3>1. CASE d \in Image(rows)
      <4>1. PICK x \in DOMAIN rows : rows[x] = d
        BY <3>1 DEF Image
      <4>2. In(d, rows) = {x}
        BY <2>1, <4>1 DEF Unique
      <4> QED BY <3>1, <4>2, FS_Singleton
    <3>2. CASE d \notin Image(rows)
      <4>1. In(d, rows) = {}
        BY <3>2 DEF Image
      <4> QED BY <3>2, <4>1, FS_EmptySet
    <3> QED BY <3>1, <3>2
  <2>2. Image(A) = Image(B) /\ Unique(A) /\ Unique(B)
    BY <1>2 DEF Same
  <2>3. \A d \in Data : Cardinality(In(d, A)) = Cardinality(In(d, B))
    BY <2>1, <2>2
  <2> QED BY <2>3 DEF Count
<1> QED BY <1>1, <1>2 DEF Same

LEMMA RestoredAtEnd ==
    ASSUME RollInv, phase = "rollback", Top.order = <<>>
    PROVE  RollbackRestores
<1> SUFFICES ASSUME NEW t \in Tables
             PROVE  /\ Count(Held(t)) = Count(Top.found[t].rows)
                    /\ stamp[t] = Top.found[t].stamp
  BY DEF RollbackRestores
<1>1. /\ tx \in Seq(Transaction) /\ tx # <<>> /\ OrderInv
      /\ ChainInv /\ StampInv /\ UniqueInv
  BY DEF RollInv, Inv, TypeOK
<1>2. depth \in DOMAIN tx
  BY <1>1, TopType
<1>3. tx[depth].log[t] = <<>>
  BY <1>1, <1>2 DEF OrderInv, Top
<1>4. Passed(depth, t, 0) = Found(t)
  <2>1. Len(tx[depth].log[t]) = 0
    BY <1>3
  <2>2. depth \in Nat
    BY <1>1, TopType
  <2> QED BY <2>1, <2>2 DEF Passed, Reached
<1>5. Same(t, Top.found[t].rows, Held(t))
  BY <1>1, <1>2, <1>4 DEF ChainInv, Alike, Top, Found
<1>6. stamp[t] = Top.found[t].stamp
  BY <1>1, <1>2, <1>4 DEF StampInv, Top, Found
<1>7. t \in Indexed => Unique(Held(t)) /\ Unique(Top.found[t].rows)
  BY <1>1, <1>2 DEF UniqueInv, Top
<1> QED BY <1>5, <1>6, <1>7, SameCount

LEMMA NothingLeaks ==
    ASSUME RollInv
    PROVE  RowsAccounted
<1>1. /\ LinkInv /\ KeepInv /\ LeakInv /\ RowsAreIndexed /\ ~broken
      /\ heap \subseteq Rows /\ None \notin Rows
  BY StorageAssumption DEF RollInv, Inv, SoundInv, TypeOK
<1>2. \A r : r \in Kept <=> r \in heap /\ \E i, t, j : At(i, t, j) /\ E(i, t, j).before = r
  BY DEF Kept, At, E
<1>3. heap = Kept \cup UNION {linked[t] : t \in Tables}
  <2>1. ASSUME NEW r \in heap
        PROVE  r \in UNION {linked[t] : t \in Tables} \/ r \in Kept
    <3>1. CASE \E t \in Tables : r \in linked[t]
      BY <3>1
    <3>2. CASE \E i, t, j : At(i, t, j) /\ E(i, t, j).before = r
      BY <3>2, <1>2
    <3> QED BY <3>1, <3>2, <1>1 DEF LeakInv
  <2>2. UNION {linked[t] : t \in Tables} \subseteq heap
    BY <1>1 DEF LinkInv
  <2>3. Kept \subseteq heap
    BY DEF Kept
  <2> QED BY <2>1, <2>2, <2>3
<1>4. ASSUME NEW t \in Tables, NEW r \in linked[t]
      PROVE  r \notin Kept /\ \A u \in Tables \ {t} : r \notin linked[u]
  <2>1. r \notin Kept
    BY <1>1, <1>2 DEF KeepInv
  <2> QED BY <2>1, <1>1 DEF LinkInv
<1>5. \A t \in Tables :
        linked[t] \cap (Kept \cup UNION {linked[u] : u \in Tables \ {t}}) = {}
  BY <1>4
<1> QED BY <1>1, <1>3, <1>5 DEF RowsAccounted, NothingFreedIsUsed

LEMMA StampTells ==
    ASSUME RollInv
    PROVE  StampTellsChange
<1> SUFFICES ASSUME phase = "idle", tx # <<>>, NEW t \in Tables
             PROVE  /\ stamp[t] >= tx[1].found[t].stamp
                    /\ stamp[t] = tx[1].found[t].stamp =>
                         Count(Held(t)) = Count(tx[1].found[t].rows)
  BY DEF StampTellsChange
<1>1. /\ tx \in Seq(Transaction) /\ FoundInv /\ UniqueInv
      /\ stamp \in [Tables -> Nat]
  BY DEF RollInv, Inv, TypeOK
<1>2. /\ depth \in Nat /\ depth \in DOMAIN tx /\ 1 \in DOMAIN tx /\ 1 <= depth
      /\ tx[1] \in Transaction
  BY <1>1, TopType
<1>3. tx[1].found[t].stamp \in Nat /\ stamp[t] \in Nat
  BY <1>1, <1>2 DEF Transaction, Snapshot
<1>4. Reached(depth, t) = Found(t)
  BY <1>2 DEF Reached
<1>5. /\ tx[1].found[t].stamp <= Found(t).stamp
      /\ tx[1].found[t].stamp = Found(t).stamp =>
           Same(t, tx[1].found[t].rows, Found(t).rows)
  <2>1. \A i \in DOMAIN tx, u \in Tables : \A k \in DOMAIN tx : i <= k =>
          /\ tx[i].found[u].stamp <= Reached(k, u).stamp
          /\ tx[i].found[u].stamp = Reached(k, u).stamp =>
               Same(u, tx[i].found[u].rows, Reached(k, u).rows)
    BY <1>1 DEF FoundInv
  <2> QED BY <2>1, <1>2, <1>4
<1>6. /\ tx[1].found[t].stamp <= stamp[t]
      /\ tx[1].found[t].stamp = stamp[t] => Same(t, tx[1].found[t].rows, Held(t))
  BY <1>5 DEF Found
<1>7. t \in Indexed => Unique(Held(t)) /\ Unique(tx[1].found[t].rows)
  BY <1>1, <1>2 DEF UniqueInv
<1> QED BY <1>3, <1>6, <1>7, SameCount

\* A rollback leaves every table with the rows and the stamp that it had when
\* the transaction began: whatever changes of whatever rows of how many tables
\* it undoes, at any depth, and whatever rolled back or was cleared before.
THEOREM RollbackCorrect ==
    ASSUME Careful
    PROVE  Spec => []RollbackRestores
<1>1. RollInv => RollbackRestores
  <2> SUFFICES ASSUME RollInv, phase = "rollback", Top.order = <<>>
               PROVE  RollbackRestores
    BY DEF RollbackRestores
  <2> QED BY RestoredAtEnd
<1> QED BY <1>1, RollInvHolds, PTL

\* The storage never leaks a row, never frees one that a table or the log still
\* holds, never reads one that is freed, and finds all rows by their keys.
THEOREM RowsCorrect ==
    ASSUME Careful
    PROVE  Spec => []RowsAccounted
<1>1. RollInv => RowsAccounted
  BY NothingLeaks
<1> QED BY <1>1, RollInvHolds, PTL

\* In a transaction the stamp of a table does not fall below what it was when
\* the outermost one began, and is the same only if the contents are.
THEOREM StampCorrect ==
    ASSUME Careful
    PROVE  Spec => []StampTellsChange
<1>1. RollInv => StampTellsChange
  BY StampTells
<1> QED BY <1>1, RollInvHolds, PTL

-----------------------------------------------------------------------------
(* The storage implements nested transactions *)

\* The database and the stack of Nested.
Db == Picture(IF phase = "rollback" THEN Top.found ELSE [t \in Tables |-> Found(t)])
Stack == [i \in 1..(IF phase = "rollback" THEN depth - 1 ELSE depth) |->
            Picture(tx[i].found)]

LEMMA NestedDefs ==
    /\ Nested!Init <=> /\ Db \in [Tables -> [rows : [Data -> 0..Cardinality(Rows)],
                                             stamp : {1}]]
                       /\ Stack = <<>>
    /\ Nested!Begin <=> Stack' = Append(Stack, Db) /\ Db' = Db
    /\ \A t : Nested!StampAfter(t) =
                IF Stack # <<>> /\ Db[t].stamp = Stack[Len(Stack)][t].stamp
                THEN Db[t].stamp + 1 ELSE Db[t].stamp
    /\ \A t, rows :
         Nested!Change(t, rows) <=>
           /\ Db' = [Db EXCEPT ![t] = [rows |-> rows, stamp |-> Nested!StampAfter(t)]]
           /\ Stack' = Stack
    /\ Nested!Commit <=> /\ Stack # <<>>
                         /\ Stack' = SubSeq(Stack, 1, Len(Stack) - 1)
                         /\ Db' = Db
    /\ Nested!Rollback <=> /\ Stack # <<>>
                           /\ Stack' = SubSeq(Stack, 1, Len(Stack) - 1)
                           /\ Db' = Stack[Len(Stack)]
<1>1. Nested!Init <=> /\ Db \in [Tables -> [rows : [Data -> 0..Cardinality(Rows)],
                                            stamp : {1}]]
                      /\ Stack = <<>>
  BY DEF Nested!Init, Db, Stack
<1>2. Nested!Begin <=> Stack' = Append(Stack, Db) /\ Db' = Db
  BY DEF Nested!Begin, Db, Stack
<1>3. ASSUME NEW t
      PROVE  Nested!StampAfter(t) =
                IF Stack # <<>> /\ Db[t].stamp = Stack[Len(Stack)][t].stamp
                THEN Db[t].stamp + 1 ELSE Db[t].stamp
  BY DEF Nested!StampAfter, Db, Stack
<1>4. ASSUME NEW t, NEW rows
      PROVE  Nested!Change(t, rows) <=>
               /\ Db' = [Db EXCEPT ![t] = [rows |-> rows, stamp |-> Nested!StampAfter(t)]]
               /\ Stack' = Stack
  BY DEF Nested!Change, Db, Stack
<1>5. Nested!Commit <=> /\ Stack # <<>>
                        /\ Stack' = SubSeq(Stack, 1, Len(Stack) - 1)
                        /\ Db' = Db
  BY DEF Nested!Commit, Nested!End, Db, Stack
<1>6. Nested!Rollback <=> /\ Stack # <<>>
                          /\ Stack' = SubSeq(Stack, 1, Len(Stack) - 1)
                          /\ Db' = Stack[Len(Stack)]
  BY DEF Nested!Rollback, Nested!End, Db, Stack
<1> QED BY <1>1, <1>2, <1>3, <1>4, <1>5, <1>6

LEMMA CountType ==
    ASSUME IsFiniteSet(Rows), NEW rows, DOMAIN rows \subseteq Rows
    PROVE  Count(rows) \in [Data -> 0..Cardinality(Rows)]
<1> SUFFICES ASSUME NEW d \in Data
             PROVE  Cardinality({r \in DOMAIN rows : rows[r] = d}) \in 0..Cardinality(Rows)
  BY DEF Count
<1> DEFINE S == {r \in DOMAIN rows : rows[r] = d}
<1>1. S \in SUBSET Rows
  OBVIOUS
<1> HIDE DEF S
<1>2. IsFiniteSet(S) /\ Cardinality(S) <= Cardinality(Rows)
  BY <1>1, FS_Subset
<1>3. Cardinality(S) \in Nat /\ Cardinality(Rows) \in Nat
  BY <1>2, FS_CardinalityType
<1>4. Cardinality(S) \in 0..Cardinality(Rows)
  BY <1>2, <1>3
<1> QED BY <1>4 DEF S

\* The database is what the tables hold, but for a rollback.
LEMMA DbIs ==
    /\ Db = [t \in Tables |->
               IF phase = "rollback"
               THEN [rows |-> Count(Top.found[t].rows), stamp |-> Top.found[t].stamp]
               ELSE [rows |-> Count(Held(t)), stamp |-> stamp[t]]]
    /\ Db' = [t \in Tables |->
               IF phase' = "rollback"
               THEN [rows |-> Count(Top.found[t].rows)', stamp |-> Top.found[t].stamp']
               ELSE [rows |-> Count(Held(t)'), stamp |-> stamp'[t]]]
BY DEF Db, Picture, Found, Count

LEMMA StackIs ==
    ASSUME tx \in Seq(Transaction), phase = "rollback" => tx # <<>>, NEW n,
           n = IF phase = "rollback" THEN depth - 1 ELSE depth
    PROVE  /\ n \in Nat
           /\ Stack = [i \in 1..n |-> Picture(tx[i].found)]
           /\ Len(Stack) = n
           /\ Stack = <<>> <=> n = 0
<1>1. depth \in Nat /\ (tx # <<>> => depth # 0)
  BY DEF depth
<1>2. n \in Nat
  BY <1>1
<1>3. Stack = [i \in 1..n |-> Picture(tx[i].found)]
  BY DEF Stack
<1>4. Len(Stack) = n
  BY <1>2, <1>3
<1>5. ASSUME n = 0 PROVE Stack = <<>>
  BY <1>3, <1>5
<1>6. ASSUME n # 0 PROVE Stack # <<>>
  BY <1>4, <1>6
<1> QED BY <1>2, <1>3, <1>4, <1>5, <1>6

\* A step that changes neither the tables nor what the transactions found.
LEMMA QuietNested ==
    ASSUME tx \in Seq(Transaction), phase = "rollback" => tx # <<>>,
           phase' = "rollback" <=> phase = "rollback", depth' = depth,
           \A i \in DOMAIN tx : tx'[i].found = tx[i].found,
           phase # "rollback" =>
             \A t \in Tables : Held(t)' = Held(t) /\ stamp'[t] = stamp[t]
    PROVE  Db' = Db /\ Stack' = Stack
<1>1. depth \in Nat /\ DOMAIN tx = 1..depth /\ (tx # <<>> => depth \in DOMAIN tx)
  BY DEF depth
<1>2. Stack' = Stack
  <2>1. PICK n : n = IF phase = "rollback" THEN depth - 1 ELSE depth
    OBVIOUS
  <2>2. Stack = [i \in 1..n |-> Picture(tx[i].found)]
    BY <2>1 DEF Stack
  <2>3. Stack' = [i \in 1..n |-> Picture(tx'[i].found)]
    BY <2>1 DEF Stack, Picture, Count
  <2>4. \A i \in 1..n : i \in DOMAIN tx
    BY <1>1, <2>1
  <2> QED BY <2>2, <2>3, <2>4
<1>3. CASE phase = "rollback"
  <2>1. Top'.found = Top.found
    BY <1>1, <1>3 DEF Top
  <2> QED BY <1>2, <1>3, <2>1 DEF Db, Picture, Count
<1>4. CASE phase # "rollback"
  <2>1. Db = [t \in Tables |-> [rows |-> Count(Held(t)), stamp |-> stamp[t]]]
    BY <1>4, DbIs
  <2>2. Db' = [t \in Tables |-> [rows |-> Count(Held(t)'), stamp |-> stamp'[t]]]
    BY <1>4, DbIs
  <2> QED BY <1>2, <1>4, <2>1, <2>2
<1> QED BY <1>3, <1>4

\* Only the first change of a transaction moves the stamp.
LEMMA ChangeNested ==
    ASSUME RollInv, Inv', IsFiniteSet(Rows), NEW t \in Tables,
           NEW change, NEW before, NEW after, Fits(change, before, after),
           LogChange(t, change, before, after),
           phase \in {"idle", "clear"}, phase' \in {"idle", "clear"},
           \A u \in Tables : u # t => Held(u)' = Held(u)
    PROVE  Nested!Next
<1>1. /\ tx \in Seq(Transaction) /\ tx' \in Seq(Transaction)
      /\ stamp \in [Tables -> Nat] /\ FoundInv /\ StampInv
      /\ phase # "rollback" /\ phase' # "rollback" /\ phase # "commit"
  BY DEF RollInv, Inv, TypeOK
<1>2. PICK n : n = depth
  OBVIOUS
<1>3. /\ n \in Nat /\ Len(Stack) = n /\ (Stack = <<>> <=> n = 0)
      /\ Stack = [i \in 1..n |-> Picture(tx[i].found)]
  BY <1>1, <1>2, StackIs
<1>4. Count(Held(t)') \in [Data -> 0..Cardinality(Rows)]
  <2>1. DOMAIN Held(t)' = linked'[t] /\ linked'[t] \subseteq Rows
    BY DEF Held, Inv, TypeOK
  <2> QED BY <2>1, CountType
<1>5. /\ depth' = n /\ Stack' = Stack
      /\ \A u \in Tables : stamp'[u] =
           IF u = t /\ n # 0 /\ stamp[t] = Top.found[t].stamp THEN stamp[t] + 1
           ELSE stamp[u]
  <2>1. CASE tx = <<>>
    <3>1. tx' = tx /\ stamp' = stamp /\ n = 0
      BY <2>1, <1>2 DEF LogChange, depth
    <3>2. depth' = n
      BY <3>1, <1>2 DEF depth
    <3>3. Stack' = Stack
      BY <1>1, <3>1, <3>2, <1>2 DEF Stack, Picture, Count
    <3> QED BY <3>1, <3>2, <3>3
  <2>2. CASE tx # <<>>
    <3>1. PICK d, m \in Nat : LoggedAs(t, change, before, after, d, m)
      BY <2>2, LogDetails DEF RollInv
    <3>2. /\ d = depth /\ depth' = d /\ d \in DOMAIN tx
          /\ \A i \in DOMAIN tx : tx'[i].found = tx[i].found
          /\ Logged(t) => stamp' = stamp
          /\ ~Logged(t) => stamp' = [stamp EXCEPT ![t] = @ + 1]
      BY <3>1 DEF LoggedAs
    <3>3. n = d /\ n # 0 /\ DOMAIN tx = 1..n
      BY <1>1, <1>2, <2>2, <3>2, TopType
    <3>4. Stack' = [i \in 1..n |-> Picture(tx'[i].found)]
      BY <1>1, <3>2, <3>3 DEF Stack, Picture, Count
    <3>5. Stack' = Stack
      BY <1>3, <3>2, <3>3, <3>4
    <3>6. Logged(t) => stamp[t] # Top.found[t].stamp
      <4>1. Reached(d, t) = Found(t)
        BY <3>2 DEF Reached
      <4>2. Logged(t) => stamp[t] > Top.found[t].stamp
        BY <1>1, <3>2, <4>1 DEF FoundInv, Logged, Top, Found
      <4>3. Top.found[t].stamp \in Nat /\ stamp[t] \in Nat
        BY <1>1, <2>2, TopType DEF Snapshot
      <4> QED BY <4>2, <4>3
    <3>7. ~Logged(t) => stamp[t] = Top.found[t].stamp
      <4> SUFFICES ASSUME ~Logged(t) PROVE stamp[t] = Top.found[t].stamp
        OBVIOUS
      <4>1. Len(tx[d].log[t]) = 0
        BY <3>2 DEF Logged, Top
      <4>2. Passed(d, t, 0) = Found(t)
        BY <3>2, <4>1 DEF Passed, Reached
      <4> QED BY <1>1, <3>2, <4>2 DEF StampInv, Found, Top
    <3> QED BY <1>1, <3>2, <3>3, <3>5, <3>6, <3>7
  <2> QED BY <2>1, <2>2
<1>6. Db[t].stamp = stamp[t] /\ (n # 0 => Stack[n][t].stamp = Top.found[t].stamp)
  <2>1. Db[t].stamp = stamp[t]
    BY <1>1, DbIs
  <2>2. n # 0 => Stack[n] = Picture(tx[n].found)
    BY <1>3
  <2> QED BY <2>1, <2>2, <1>2 DEF Picture, Top
<1>7. Nested!StampAfter(t) = stamp'[t]
  <2>1. Nested!StampAfter(t) =
          IF Stack # <<>> /\ Db[t].stamp = Stack[Len(Stack)][t].stamp
          THEN Db[t].stamp + 1 ELSE Db[t].stamp
    BY NestedDefs
  <2> QED BY <2>1, <1>3, <1>5, <1>6
<1>8. Db' = [Db EXCEPT ![t] = [rows |-> Count(Held(t)'), stamp |-> stamp'[t]]]
  <2>1. Db = [u \in Tables |-> [rows |-> Count(Held(u)), stamp |-> stamp[u]]]
    BY <1>1, DbIs
  <2>2. Db' = [u \in Tables |-> [rows |-> Count(Held(u)'), stamp |-> stamp'[u]]]
    BY <1>1, DbIs
  <2>3. \A u \in Tables : u # t => stamp'[u] = stamp[u]
    BY <1>5
  <2> QED BY <2>1, <2>2, <2>3
<1>9. Nested!Change(t, Count(Held(t)'))
  BY <1>5, <1>7, <1>8, NestedDefs
<1> QED BY <1>4, <1>9 DEF Nested!Next

\* Every operation changes the rows of one table.
LEMMA OperationNested ==
    ASSUME RollInv, Inv', Careful, IsFiniteSet(Rows), Operation
    PROVE  Nested!Next \/ (Db' = Db /\ Stack' = Stack)
<1>1. /\ TypeOK /\ LinkInv /\ IndexPointsToRows /\ Inv /\ LeakInv /\ UniqueInv
      /\ None \notin Rows /\ tx \in Seq(Transaction)
  BY StorageAssumption DEF RollInv, Inv, TypeOK
<1>2. ASSUME NEW t \in Tables, NEW r \in Rows, NEW d \in Data,
             InsertRow(t, r, d) \/ ReplaceRow(t, r, d)
      PROVE  Nested!Next
  <2>1. /\ r \in Free /\ cell' = With(r, d) /\ phase = "idle" /\ phase' = phase
        /\ \A u \in Tables : u # t => linked'[u] = linked[u]
    BY <1>1, <1>2 DEF InsertRow, ReplaceRow, MayChange, Linking, TypeOK
  <2>2. /\ r # None /\ r \notin heap /\ \A u \in Tables : r \notin linked[u]
    BY <1>1, <2>1, FreeRows
  <2>3. \A u \in Tables : u # t => Held(u)' = Held(u)
    BY <1>1, <2>1, <2>2 DEF Held, With, LinkInv
  <2>4. CASE InsertRow(t, r, d)
    <3>1. LogChange(t, "insert", None, r)
      BY <2>4 DEF InsertRow
    <3>2. Fits("insert", None, r)
      BY <2>2 DEF Fits
    <3> QED BY <2>1, <2>3, <3>1, <3>2, ChangeNested
  <2>5. CASE ReplaceRow(t, r, d)
    <3>1. PICK old : /\ old = index[t][d.key] /\ LogChange(t, "update", old, r)
                     /\ Taken(t, d.key)
      BY <2>5 DEF ReplaceRow
    <3>2. old \in Rows /\ old # None
      BY <1>1, <3>1 DEF Taken, TypeOK, Data
    <3>3. Fits("update", old, r)
      BY <2>2, <3>2 DEF Fits
    <3> QED BY <2>1, <2>3, <3>1, <3>3, ChangeNested
  <2> QED BY <1>2, <2>4, <2>5
<1>3. ASSUME NEW t \in Tables, NEW r \in Rows, NEW d \in Data,
             NEW c \in Rows \cup {None}, UpdateRow(t, r, d, c)
      PROVE  Nested!Next
  <2>1. /\ r \in Visible(t) /\ c \in Copies /\ cell' = Changing(r, d, c)
        /\ linked' = linked /\ phase = "idle" /\ phase' = phase
        /\ LogChange(t, "update", c, r)
    BY <1>3 DEF UpdateRow, MayChange
  <2>2. r \in linked[t] /\ r \in heap
    BY <1>1, <2>1, VisibleRows
  <2>3. c # None => c \notin heap
    BY <2>1 DEF Copies, Free
  <2>4. \A u \in Tables : u # t => Held(u)' = Held(u)
    <3>1. ASSUME NEW u \in Tables, u # t, NEW x \in linked[u]
          PROVE  cell'[x] = cell[x]
      <4>1. x \in heap /\ x \in Rows
        BY <1>1 DEF LinkInv, TypeOK
      <4>2. x # r /\ x # c
        BY <1>1, <2>2, <2>3, <3>1, <4>1 DEF LinkInv
      <4> QED BY <2>1, <4>1, <4>2 DEF Changing
    <3> QED BY <2>1, <3>1 DEF Held
  <2>5. CASE tx = <<>>
    <3>1. tx' = tx /\ stamp' = stamp
      BY <2>1, <2>5 DEF LogChange
    <3>2. LogChange(t, "insert", None, r) /\ Fits("insert", None, r)
      BY <1>1, <2>5, <3>1 DEF LogChange, Fits
    <3> QED BY <2>1, <2>4, <3>2, ChangeNested
  <2>6. CASE tx # <<>>
    <3>1. Fits("update", c, r)
      BY <1>1, <2>1, <2>6 DEF Copies, Fits, Free
    <3> QED BY <2>1, <2>4, <3>1, ChangeNested
  <2> QED BY <2>5, <2>6
<1>4. ASSUME NEW t \in Tables, NEW r \in Rows, DeleteRow(t, r)
      PROVE  Nested!Next
  <2>1. /\ r \in Visible(t) /\ cell' = Dropping(r) /\ linked' = Unlinking(t, r)
        /\ LogChange(t, "delete", r, None) /\ phase = "idle" /\ phase' = phase
    BY <1>4 DEF DeleteRow, MayChange
  <2>2. r \in linked[t]
    BY <1>1, <2>1, VisibleRows
  <2>3. \A u \in Tables : u # t => Held(u)' = Held(u)
    BY <1>1, <2>1, <2>2, DroppedRows DEF Held
  <2>4. Fits("delete", r, None)
    BY <1>1 DEF Fits
  <2> QED BY <2>1, <2>3, <2>4, ChangeNested
<1>5. ASSUME NEW t \in Tables, Clear(t)
      PROVE  Db' = Db /\ Stack' = Stack
  <2>1. /\ phase = "idle" /\ phase' = "clear"
        /\ cell' = cell /\ linked' = linked /\ stamp' = stamp /\ tx' = tx
    BY <1>5 DEF Clear, MayChange
  <2>2. depth' = depth /\ \A u \in Tables : Held(u)' = Held(u)
    BY <2>1 DEF depth, Held
  <2> QED BY <1>1, <2>1, <2>2, QuietNested
<1>6. \A t \in Tables, r \in Rows, d \in Data : ~ReplaceOutside(t, r, d)
  BY DEF ReplaceOutside, Careful
<1>7. \A t \in Tables, r \in Rows, d \in Data, c \in Rows \cup {None} :
        ~UpdateOntoTaken(t, r, d, c)
  BY DEF UpdateOntoTaken, Careful
<1> QED BY <1>2, <1>3, <1>4, <1>5, <1>6, <1>7 DEF Operation

LEMMA ClearRowNested ==
    ASSUME RollInv, Inv', IsFiniteSet(Rows), NEW r \in Rows, ClearRow(r)
    PROVE  Nested!Next
<1>1. /\ Inv /\ LeakInv /\ UniqueInv /\ None \notin Rows
  BY StorageAssumption DEF RollInv
<1>2. /\ phase = "clear" /\ table \in Tables
  BY <1>1 DEF ClearRow, Inv, TypeOK
<1>3. PICK t \in Tables : t = table
  BY <1>2
<1>4. /\ r \in linked[t] /\ cell' = Dropping(r) /\ linked' = Unlinking(t, r)
      /\ LogChange(t, "delete", r, None) /\ phase' \in {"idle", "clear"}
  BY <1>2, <1>3 DEF ClearRow
<1>5. \A u \in Tables : u # t => Held(u)' = Held(u)
  BY <1>1, <1>4, DroppedRows DEF Held
<1>6. Fits("delete", r, None)
  BY <1>1 DEF Fits
<1> QED BY <1>2, <1>4, <1>5, <1>6, ChangeNested

\* An entry that is committed or undone is no step of Nested.
LEMMA EntryNested ==
    ASSUME RollInv, CommitEntry \/ RollbackEntry
    PROVE  Db' = Db /\ Stack' = Stack
<1>1. /\ tx \in Seq(Transaction) /\ tx # <<>> /\ OrderInv /\ LinkInv
      /\ Top.order # <<>> /\ phase' = phase /\ phase \in {"commit", "rollback"}
  BY DEF RollInv, Inv, TypeOK, CommitEntry, RollbackEntry
<1>2. Current \in Tables /\ Top.log[Current] \in Seq(Entry) /\ Top.log[Current] # <<>>
  BY <1>1, CurrentLog
<1>3. \/ tx' = tx
      \/ tx' = Consumed(Tail(Top.log[Current]))
      \/ tx' = Consumed(Front(Top.log[Current]))
  BY DEF CommitEntry, RollbackEntry, Using
<1>4. depth' = depth /\ \A i \in DOMAIN tx : tx'[i].found = tx[i].found
  <2>1. CASE tx' = tx
    BY <2>1 DEF depth
  <2>2. ASSUME NEW rest \in Seq(Entry), tx' = Consumed(rest)
        PROVE  depth' = depth /\ \A i \in DOMAIN tx : tx'[i].found = tx[i].found
    <3>1. /\ depth' = depth
          /\ \A i \in DOMAIN tx : i # depth => tx'[i] = tx[i]
          /\ tx'[depth].found = tx[depth].found
      BY <1>1, <2>2, ConsumedEffect
    <3> QED BY <3>1
  <2>3. Tail(Top.log[Current]) \in Seq(Entry)
    BY <1>2
  <2>4. Front(Top.log[Current]) \in Seq(Entry)
    BY <1>2 DEF Front
  <2> QED BY <1>3, <2>1, <2>2, <2>3, <2>4
<1>5. ASSUME phase # "rollback"
      PROVE  \A t \in Tables : Held(t)' = Held(t) /\ stamp'[t] = stamp[t]
  <2>1. PICK e : e = Head(Top.log[Current])
    OBVIOUS
  <2>2. /\ linked' = linked /\ stamp' = stamp
        /\ cell' = cell \/ cell' = Destroyed(e)
    BY <1>5, <2>1 DEF CommitEntry, RollbackEntry, Using, rowVars
  <2>3. \A t \in Tables : \A x \in linked[t] : cell'[x] = cell[x]
    BY <1>1, <2>2 DEF Destroyed, Without, LinkInv
  <2> QED BY <2>2, <2>3 DEF Held
<1> QED BY <1>1, <1>4, <1>5, QuietNested

LEMMA BeginNested ==
    ASSUME RollInv, Begin
    PROVE  Nested!Begin
<1>1. /\ tx \in Seq(Transaction) /\ phase = "idle" /\ phase' = "idle"
      /\ cell' = cell /\ linked' = linked /\ stamp' = stamp
      /\ tx' = Append(tx, [order |-> <<>>,
                           log   |-> [t \in Tables |-> <<>>],
                           found |-> [t \in Tables |-> Found(t)]])
  BY DEF RollInv, Inv, TypeOK, Begin, rowVars
<1>2. PICK n : n = depth
  OBVIOUS
<1>3. /\ n \in Nat /\ Len(Stack) = n
      /\ Stack = [i \in 1..n |-> Picture(tx[i].found)]
  BY <1>1, <1>2, StackIs
<1>4. /\ Len(tx') = n + 1 /\ \A i \in 1..n : tx'[i] = tx[i]
      /\ tx'[n + 1].found = [t \in Tables |-> Found(t)]
  BY <1>1, <1>2, <1>3 DEF depth
<1>5. Db' = Db
  <2>1. [t \in Tables |-> Found(t)]' = [t \in Tables |-> Found(t)]
    BY <1>1 DEF Found, Held
  <2>2. PICK g : g = [t \in Tables |-> Found(t)]
    OBVIOUS
  <2>3. g = [t \in Tables |-> Found(t)]'
    BY <2>1, <2>2
  <2>4. Db = Picture(g)
    BY <1>1, <2>2 DEF Db
  <2>5. Db' = Picture(g)
    BY <1>1, <2>3 DEF Db, Picture, Count
  <2> QED BY <2>4, <2>5
<1>6. Stack' = [i \in 1..(n + 1) |-> Picture(tx'[i].found)]
  <2>1. depth' = n + 1
    BY <1>4 DEF depth
  <2>2. Stack' = [i \in 1..depth' |-> Picture(tx'[i].found)]
    BY <1>1 DEF Stack, Picture, Count
  <2> QED BY <2>1, <2>2
<1>7. Db = Picture(tx'[n + 1].found)
  BY <1>1, <1>4 DEF Db
<1>8. Stack' = Append(Stack, Db)
  <2>1. Append(Stack, Db) = [i \in 1..(n + 1) |-> IF i = n + 1 THEN Db ELSE Stack[i]]
    BY <1>3
  <2>2. \A i \in 1..(n + 1) : i # n + 1 => i \in 1..n
    BY <1>3
  <2>3. ASSUME NEW i \in 1..(n + 1)
        PROVE  Picture(tx'[i].found) = IF i = n + 1 THEN Db ELSE Stack[i]
    <3>1. CASE i = n + 1
      BY <3>1, <1>7
    <3>2. CASE i # n + 1
      BY <3>2, <2>2, <1>3, <1>4
    <3> QED BY <3>1, <3>2
  <2> QED BY <2>1, <2>3, <1>6
<1> QED BY <1>5, <1>8, NestedDefs

\* A rollback happens when it starts.
LEMMA RollbackNested ==
    ASSUME RollInv, Rollback
    PROVE  Nested!Rollback
<1>1. /\ tx \in Seq(Transaction) /\ tx # <<>> /\ phase = "idle" /\ phase' = "rollback"
      /\ tx' = tx
  BY DEF RollInv, Inv, TypeOK, Rollback
<1>2. PICK n : n = depth
  OBVIOUS
<1>3. /\ n \in Nat /\ Len(Stack) = n /\ (Stack = <<>> <=> n = 0)
      /\ Stack = [i \in 1..n |-> Picture(tx[i].found)]
  BY <1>1, <1>2, StackIs
<1>4. n # 0
  BY <1>1, <1>2, TopType
<1>5. Stack' = [i \in 1..(n - 1) |-> Picture(tx[i].found)]
  BY <1>1, <1>2 DEF Stack, depth, Picture, Count
<1>6. SubSeq(Stack, 1, Len(Stack) - 1) = [i \in 1..(n - 1) |-> Stack[i]]
  BY <1>3, <1>4
<1>7. Stack' = SubSeq(Stack, 1, Len(Stack) - 1)
  BY <1>3, <1>5, <1>6
<1>8. Db' = Stack[Len(Stack)]
  <2>1. Stack[Len(Stack)] = Picture(Top.found)
    BY <1>2, <1>3, <1>4 DEF Top
  <2>2. Top' = Top
    BY <1>1 DEF Top, depth
  <2> QED BY <1>1, <2>1, <2>2 DEF Db, Picture, Count
<1> QED BY <1>3, <1>4, <1>7, <1>8, NestedDefs

LEMMA EndNested ==
    ASSUME RollInv, CommitEnd \/ RollbackEnd
    PROVE  Nested!Commit \/ (Db' = Db /\ Stack' = Stack)
<1>1. /\ tx \in Seq(Transaction) /\ tx # <<>> /\ Top.order = <<>>
      /\ phase \in {"commit", "rollback"} /\ phase' = "idle" /\ tx' = Front(tx)
      /\ cell' = cell /\ linked' = linked /\ stamp' = stamp
  BY DEF RollInv, Inv, TypeOK, CommitEnd, RollbackEnd, End, rowVars
<1>2. PICK d \in Nat \ {0} : d = depth
  BY <1>1, TopType
<1>3. /\ depth' = d - 1 /\ \A i \in 1..(d - 1) : tx'[i] = tx[i]
  <2>1. tx' = [i \in 1..(d - 1) |-> tx[i]]
    BY <1>1, <1>2 DEF Front, depth
  <2>2. \A i \in 1..(d - 1) : tx[i] \in Transaction
    BY <1>1, <1>2 DEF depth
  <2>3. tx' \in Seq(Transaction) /\ Len(tx') = d - 1
    BY <2>1, <2>2
  <2> QED BY <2>1, <2>3 DEF depth
<1>4. Stack' = [i \in 1..(d - 1) |-> Picture(tx[i].found)]
  <2>1. Stack' = [i \in 1..(d - 1) |-> Picture(tx'[i].found)]
    BY <1>1, <1>3 DEF Stack, Picture, Count
  <2> QED BY <2>1, <1>3
<1>5. Db' = [t \in Tables |-> [rows |-> Count(Held(t)), stamp |-> stamp[t]]]
  <2>1. \A t \in Tables : Held(t)' = Held(t) /\ stamp'[t] = stamp[t]
    BY <1>1 DEF Held
  <2>2. Db' = [t \in Tables |-> [rows |-> Count(Held(t)'), stamp |-> stamp'[t]]]
    BY <1>1, DbIs
  <2> QED BY <2>1, <2>2
<1>6. CASE phase = "commit"
  <2>1. /\ Len(Stack) = d /\ (Stack = <<>> <=> d = 0)
        /\ Stack = [i \in 1..d |-> Picture(tx[i].found)]
    BY <1>1, <1>2, <1>6, StackIs
  <2>2. SubSeq(Stack, 1, Len(Stack) - 1) = [i \in 1..(d - 1) |-> Stack[i]]
    BY <2>1
  <2>3. Stack' = SubSeq(Stack, 1, Len(Stack) - 1)
    BY <1>4, <2>1, <2>2
  <2>4. Db' = Db
    BY <1>5, <1>6, DbIs
  <2> QED BY <2>1, <2>3, <2>4, NestedDefs
<1>7. CASE phase = "rollback"
  <2>1. Stack' = Stack
    BY <1>2, <1>4, <1>7 DEF Stack
  <2>2. RollbackRestores
    BY <1>1, <1>7, RestoredAtEnd
  <2>3. Db' = Db
    BY <1>1, <1>5, <1>7, <2>2, DbIs DEF RollbackRestores
  <2> QED BY <2>1, <2>3
<1> QED BY <1>1, <1>6, <1>7

LEMMA NextNested ==
    ASSUME RollInv, RollInv', Careful, IsFiniteSet(Rows), [Next]_vars
    PROVE  Nested!Next \/ (Db' = Db /\ Stack' = Stack)
<1>1. Inv'
  BY DEF RollInv
<1>2. CASE Operation
  BY <1>1, <1>2, OperationNested
<1>3. ASSUME NEW r \in Rows, ClearRow(r)
      PROVE  Nested!Next
  BY <1>1, <1>3, ClearRowNested
<1>4. CASE Begin
  BY <1>4, BeginNested DEF Nested!Next
<1>5. CASE CommitEntry \/ RollbackEntry
  BY <1>5, EntryNested
<1>6. CASE CommitEnd \/ RollbackEnd
  BY <1>6, EndNested DEF Nested!Next
<1>7. CASE Rollback
  BY <1>7, RollbackNested DEF Nested!Next
<1>8. CASE Commit \/ UNCHANGED vars
  <2>1. /\ tx \in Seq(Transaction) /\ (phase = "rollback" => tx # <<>>)
        /\ phase' = "rollback" <=> phase = "rollback"
        /\ tx' = tx /\ cell' = cell /\ linked' = linked /\ stamp' = stamp
    BY <1>8 DEF RollInv, Inv, TypeOK, Commit, rowVars, vars
  <2>2. depth' = depth /\ \A t \in Tables : Held(t)' = Held(t)
    BY <2>1 DEF depth, Held
  <2> QED BY <2>1, <2>2, QuietNested
<1> QED BY <1>2, <1>3, <1>4, <1>5, <1>6, <1>7, <1>8 DEF Next

\* The log, undone or forgotten entry by entry, is as good as a stack of
\* pictures of the database: every step is a begin, a change of one table, a
\* commit, a rollback, or none of these.  The memory is finite.
THEOREM NestedImplemented ==
    ASSUME Careful, IsFiniteSet(Rows)
    PROVE  Spec => NestedSpec
<1>1. Init => Nested!Init
  <2> SUFFICES ASSUME Init PROVE Nested!Init
    OBVIOUS
  <2>1. /\ tx = <<>> /\ phase = "idle" /\ depth = 0
        /\ \A t \in Tables : linked[t] = {} /\ stamp[t] = 1
    BY DEF Init, depth
  <2>2. \A t \in Tables : Count(Held(t)) \in [Data -> 0..Cardinality(Rows)]
    <3> SUFFICES ASSUME NEW t \in Tables
                 PROVE  Count(Held(t)) \in [Data -> 0..Cardinality(Rows)]
      OBVIOUS
    <3>1. DOMAIN Held(t) \subseteq Rows
      BY <2>1 DEF Held
    <3> QED BY <3>1, CountType
  <2>3. Db \in [Tables -> [rows : [Data -> 0..Cardinality(Rows)], stamp : {1}]]
    BY <2>1, <2>2, DbIs
  <2>4. Stack = <<>>
    BY <2>1 DEF Stack
  <2> QED BY <2>3, <2>4, NestedDefs
<1>2. RollInv /\ RollInv' /\ [Next]_vars => [Nested!Next]_<<Db, Stack>>
  BY NextNested
<1>3. [][Nested!Next]_<<Db, Stack>> /\ Nested!Init => NestedSpec
  BY PTL DEF NestedSpec, Nested!Spec, Db, Stack
<1> QED BY <1>1, <1>2, <1>3, RollInvHolds, PTL DEF Spec

-----------------------------------------------------------------------------
(* The watch on tables *)

(***************************************************************************)
(* What a client was told last is, unless a notification is scheduled,     *)
(* what the tables held when the outermost transaction began: what it has  *)
(* changed since, a rollback takes back, and its commit schedules the      *)
(* notification if it logged anything.  A commit that logged nothing has   *)
(* changed nothing, for all that nested transactions did and took back.    *)
(***************************************************************************)

\* The customs of Careful, and no change outside of a transaction.
Transactional == Habits \subseteq {"triggers", "replace"}

\* What t held when no transaction was open.
First(t) == IF tx = <<>> THEN Found(t) ELSE tx[1].found[t]

ToldInv ==
    scheduled \/ \A p \in registered : \A t \in Watches[p] :
                   told[p][t] = Count(First(t).rows)

\* Stamps start at 1, and a rollback never takes them below.
PositiveInv ==
    /\ \A t \in Tables : First(t).stamp >= 1
    /\ phase = "commit" => \A t \in Tables : stamp[t] >= 1

\* A commit that has nothing to commit changes nothing.
IdleCommitInv ==
    phase = "commit" /\ ~started =>
      /\ Top.order = <<>>
      /\ \A t \in Tables : Count(Held(t)) = Count(First(t).rows)

WatchInv ==
    /\ RollInv
    /\ tx = <<>> => phase = "idle"
    /\ registered \subseteq Proxies
    /\ started \in BOOLEAN
    /\ PositiveInv
    /\ IdleCommitInv
    /\ ToldInv

-----------------------------------------------------------------------------
(* What the outermost transaction found does not change *)

SameFirst == /\ tx # <<>>
             /\ tx' # <<>>
             /\ \A t \in Tables : tx'[1].found[t] = tx[1].found[t]

LEMMA SameFirstIs ==
    ASSUME SameFirst, NEW t \in Tables
    PROVE  First(t)' = First(t)
BY DEF SameFirst, First

LEMMA LogKeepsFirst ==
    ASSUME tx \in Seq(Transaction), tx # <<>>, NEW t \in Tables,
           NEW change, NEW before, NEW after,
           LogChange(t, change, before, after)
    PROVE  SameFirst
<1>1. PICK entries : tx' = Logging(t, entries)
  BY DEF LogChange
<1>2. depth \in DOMAIN tx /\ DOMAIN tx = 1..depth /\ 1 \in DOMAIN tx
  BY TopType
<1>3. tx'[1].found = tx[1].found /\ DOMAIN tx' = DOMAIN tx
  BY <1>1, <1>2 DEF Logging, Top
<1> QED BY <1>2, <1>3 DEF SameFirst

\* Nothing is changed outside of a transaction.
LEMMA OperationFirst ==
    ASSUME Transactional, Inv, Operation
    PROVE  /\ SameFirst
           /\ phase = "idle" /\ phase' \in {"idle", "clear"}
           /\ started' = started
<1>1. tx \in Seq(Transaction) /\ started \in BOOLEAN
  BY DEF Inv, TypeOK
<1>2. \A t \in Tables : MayChange(t) => tx # <<>> /\ phase = "idle"
  BY DEF MayChange, Transactional
<1>3. ASSUME NEW t \in Tables, NEW r \in Rows, NEW d \in Data,
             InsertRow(t, r, d)
      PROVE  SameFirst /\ phase = "idle" /\ phase' = "idle" /\ started' = started
  <2>1. MayChange(t) /\ LogChange(t, "insert", None, r) /\ phase' = phase /\ started' = started
    BY <1>3 DEF InsertRow, loopVars
  <2> QED BY <1>1, <1>2, <2>1, LogKeepsFirst
<1>4. ASSUME NEW t \in Tables, NEW r \in Rows, NEW d \in Data,
             ReplaceRow(t, r, d)
      PROVE  SameFirst /\ phase = "idle" /\ phase' = "idle" /\ started' = started
  <2>1. PICK old : old = index[t][d.key]
    OBVIOUS
  <2>2. MayChange(t) /\ LogChange(t, "update", old, r) /\ phase' = phase /\ started' = started
    BY <1>4, <2>1 DEF ReplaceRow, loopVars
  <2> QED BY <1>1, <1>2, <2>2, LogKeepsFirst
<1>5. ASSUME NEW t \in Tables, NEW r \in Rows, NEW d \in Data
      PROVE  ~ReplaceOutside(t, r, d)
  BY DEF ReplaceOutside, Transactional
<1>6. ASSUME NEW t \in Tables, NEW r \in Rows, NEW d \in Data,
             NEW c \in Rows \cup {None}, UpdateRow(t, r, d, c)
      PROVE  SameFirst /\ phase = "idle" /\ phase' = "idle" /\ started' = started
  <2>1. MayChange(t) /\ LogChange(t, "update", c, r) /\ phase' = phase /\ started' = started
    BY <1>6 DEF UpdateRow, loopVars
  <2> QED BY <1>1, <1>2, <2>1, LogKeepsFirst
<1>7. ASSUME NEW t \in Tables, NEW r \in Rows, NEW d \in Data,
             NEW c \in Rows \cup {None}
      PROVE  ~UpdateOntoTaken(t, r, d, c)
  BY DEF UpdateOntoTaken, Transactional
<1>8. ASSUME NEW t \in Tables, NEW r \in Rows, DeleteRow(t, r)
      PROVE  SameFirst /\ phase = "idle" /\ phase' = "idle" /\ started' = started
  <2>1. MayChange(t) /\ LogChange(t, "delete", r, None) /\ phase' = phase /\ started' = started
    BY <1>8 DEF DeleteRow, loopVars
  <2> QED BY <1>1, <1>2, <2>1, LogKeepsFirst
<1>9. ASSUME NEW t \in Tables, Clear(t)
      PROVE  SameFirst /\ phase = "idle" /\ phase' = "clear" /\ started' = started
  <2>1. MayChange(t) /\ tx' = tx /\ phase' = "clear" /\ started' = started
    BY <1>9 DEF Clear
  <2> QED BY <1>2, <2>1 DEF SameFirst
<1> QED BY <1>3, <1>4, <1>5, <1>6, <1>7, <1>8, <1>9 DEF Operation

LEMMA ClearRowFirst ==
    ASSUME Inv, tx # <<>>, NEW r \in Rows, ClearRow(r)
    PROVE  /\ SameFirst
           /\ phase = "clear" /\ phase' \in {"idle", "clear"}
           /\ started' = started
<1>1. tx \in Seq(Transaction) /\ phase = "clear" /\ table \in Tables
  BY DEF Inv, TypeOK, ClearRow
<1>2. /\ LogChange(table, "delete", r, None) /\ phase' \in {"idle", "clear"}
      /\ started' = started
  BY <1>1 DEF ClearRow
<1> QED BY <1>1, <1>2, LogKeepsFirst

LEMMA EntryFirst ==
    ASSUME RollInv, CommitEntry \/ RollbackEntry
    PROVE  SameFirst
<1>1. /\ tx \in Seq(Transaction) /\ tx # <<>> /\ OrderInv /\ Top.order # <<>>
  BY DEF RollInv, Inv, TypeOK, CommitEntry, RollbackEntry
<1>2. Current \in Tables /\ Top.log[Current] \in Seq(Entry) /\ Top.log[Current] # <<>>
  BY <1>1, CurrentLog
<1>3. \/ tx' = tx
      \/ tx' = Consumed(Tail(Top.log[Current]))
      \/ tx' = Consumed(Front(Top.log[Current]))
  BY DEF CommitEntry, RollbackEntry, Using
<1>4. depth \in DOMAIN tx /\ DOMAIN tx = 1..depth /\ 1 \in DOMAIN tx
  BY <1>1, TopType
<1>5. ASSUME NEW rest, tx' = Consumed(rest)
      PROVE  tx'[1].found = tx[1].found /\ DOMAIN tx' = DOMAIN tx
  BY <1>4, <1>5 DEF Consumed, Top
<1>6. tx'[1].found = tx[1].found /\ DOMAIN tx' = DOMAIN tx
  BY <1>3, <1>5
<1> QED BY <1>1, <1>4, <1>6 DEF SameFirst

LEMMA BeginFirst ==
    ASSUME tx \in Seq(Transaction), Begin
    PROVE  /\ tx' # <<>>
           /\ \A t \in Tables : First(t)' = First(t)
<1>1. PICK new : /\ tx' = Append(tx, new)
                 /\ new.found = [t \in Tables |-> Found(t)]
  BY DEF Begin
<1>2. /\ Len(tx) \in Nat /\ DOMAIN tx = 1..Len(tx)
      /\ Len(tx') = Len(tx) + 1 /\ DOMAIN tx' = 1..(Len(tx) + 1)
      /\ tx'[Len(tx) + 1] = new /\ \A i \in 1..Len(tx) : tx'[i] = tx[i]
  BY <1>1
<1>3. tx' # <<>>
  BY <1>2
<1>4. ASSUME NEW t \in Tables
      PROVE  First(t)' = First(t)
  <2>1. CASE tx = <<>>
    <3>1. tx'[1] = new
      BY <2>1, <1>2
    <3> QED BY <1>1, <1>3, <2>1, <3>1 DEF First
  <2>2. CASE tx # <<>>
    <3>1. 1 \in 1..Len(tx)
      BY <2>2, <1>2
    <3> QED BY <1>2, <1>3, <2>2, <3>1 DEF First
  <2> QED BY <2>1, <2>2
<1> QED BY <1>3, <1>4

-----------------------------------------------------------------------------
(* The end of the outermost transaction *)

\* A transaction that has logged nothing has changed nothing.
LEMMA NothingLogged ==
    ASSUME RollInv, phase # "commit", tx # <<>>, Top.order = <<>>, NEW t \in Tables
    PROVE  Count(Held(t)) = Count(Top.found[t].rows)
<1>1. /\ tx \in Seq(Transaction) /\ OrderInv /\ ChainInv /\ UniqueInv
  BY DEF RollInv, Inv, TypeOK
<1>2. depth \in DOMAIN tx /\ depth \in Nat
  BY <1>1, TopType
<1>3. Len(tx[depth].log[t]) = 0
  BY <1>1, <1>2 DEF OrderInv, Top
<1>4. Passed(depth, t, 0) = Found(t)
  BY <1>2, <1>3 DEF Passed, Reached
<1>5. Same(t, Top.found[t].rows, Held(t))
  BY <1>1, <1>2, <1>4 DEF ChainInv, Alike, Top, Found
<1>6. t \in Indexed => Unique(Held(t)) /\ Unique(Top.found[t].rows)
  BY <1>1, <1>2 DEF UniqueInv, Top
<1> QED BY <1>5, <1>6, SameCount

\* What the end of a transaction leaves for those outside.
EndLeaves ==
    /\ phase' = "idle"
    /\ depth > 1 => SameFirst
    /\ depth = 1 => /\ tx' = <<>>
                    /\ \A t \in Tables : First(t)' = Found(t)

LEMMA EndFirst ==
    ASSUME tx \in Seq(Transaction), tx # <<>>, End
    PROVE  EndLeaves
<1>1. /\ phase' = "idle" /\ tx' = Front(tx)
      /\ cell' = cell /\ linked' = linked /\ stamp' = stamp
  BY DEF End, rowVars
<1>2. PICK d \in Nat \ {0} : d = depth
  BY TopType
<1>3. Len(tx) = d /\ DOMAIN tx = 1..d
  BY <1>2 DEF depth
<1>4. tx' = [i \in 1..(d - 1) |-> tx[i]]
  BY <1>1, <1>3 DEF Front
<1>5. CASE d > 1
  <2>1. 1 \in 1..(d - 1)
    BY <1>5
  <2>2. tx'[1] = tx[1] /\ DOMAIN tx' = 1..(d - 1)
    BY <1>4, <2>1
  <2>3. tx' # <<>>
    BY <2>1, <2>2
  <2> QED BY <1>1, <1>2, <1>5, <2>2, <2>3 DEF EndLeaves, SameFirst
<1>6. CASE d = 1
  <2>1. tx' = <<>>
    BY <1>4, <1>6
  <2>2. \A t \in Tables : First(t)' = Found(t)
    BY <1>1, <2>1 DEF First, Found, Held
  <2> QED BY <1>1, <1>2, <1>6, <2>1, <2>2 DEF EndLeaves
<1> QED BY <1>2, <1>5, <1>6

\* A step of the storage changes what a client should know only at a commit
\* that tells so.
Announced == phase = "commit" /\ Top.order = <<>> /\ started

Steady == /\ tx' = <<>> => phase' = "idle"
          /\ started' \in BOOLEAN
          /\ PositiveInv'
          /\ IdleCommitInv'
          /\ \A t \in Tables :
               Announced \/ Count(First(t).rows)' = Count(First(t).rows)

LEMMA SteadyIfSame ==
    ASSUME WatchInv, \A t \in Tables : First(t)' = First(t),
           tx' = <<>> => phase' = "idle", started' \in BOOLEAN, phase' # "commit"
    PROVE  Steady
<1>1. \A t \in Tables : /\ First(t)'.stamp = First(t).stamp
                        /\ Count(First(t).rows)' = Count(First(t).rows)
  BY DEF Count
<1>2. PositiveInv'
  BY <1>1 DEF WatchInv, PositiveInv
<1> QED BY <1>1, <1>2 DEF Steady, IdleCommitInv

LEMMA CommitSteady ==
    ASSUME WatchInv, Transactional, Commit
    PROVE  Steady
<1>1. /\ RollInv /\ PositiveInv /\ tx \in Seq(Transaction)
      /\ stamp \in [Tables -> Nat]
  BY DEF WatchInv, RollInv, Inv, TypeOK
<1>2. /\ phase = "idle" /\ tx # <<>> /\ depth <= 1
      /\ phase' = "commit" /\ started' = (Top.order # <<>>)
      /\ cell' = cell /\ linked' = linked /\ stamp' = stamp /\ tx' = tx
  <2>1. ~(depth > 1)
    BY DEF Commit, Transactional
  <2> QED BY <1>1, <2>1, TopType DEF Commit, rowVars
<1>3. depth = 1
  BY <1>1, <1>2, TopType
<1>4. Top = tx[1] /\ Top' = Top
  BY <1>2, <1>3 DEF Top, depth
<1>5. \A t \in Tables : /\ First(t)' = First(t) /\ First(t) = tx[1].found[t]
                        /\ Held(t)' = Held(t)
  BY <1>2 DEF First, Held
<1>6. \A t \in Tables : Count(First(t).rows)' = Count(First(t).rows)
  BY <1>5 DEF Count
<1>7. PositiveInv'
  <2>1. \A t \in Tables : stamp[t] >= tx[1].found[t].stamp
    BY <1>1, <1>2, StampTells DEF StampTellsChange
  <2>2. \A t \in Tables : tx[1].found[t].stamp >= 1
    BY <1>1, <1>5 DEF PositiveInv
  <2>3. \A t \in Tables : tx[1].found[t].stamp \in Nat /\ stamp[t] \in Nat
    BY <1>1, <1>2, <1>4, TopType DEF Snapshot
  <2>4. \A t \in Tables : stamp[t] >= 1
    BY <2>1, <2>2, <2>3
  <2>5. \A t \in Tables : First(t)'.stamp >= 1
    BY <1>5, <2>2
  <2> QED BY <1>2, <2>4, <2>5 DEF PositiveInv
<1>8. IdleCommitInv'
  <2>1. started' = FALSE => Top.order = <<>>
    BY <1>2
  <2>2. ASSUME started' = FALSE, NEW t \in Tables
        PROVE  Count(Held(t))' = Count(First(t).rows)'
    <3>1. Count(Held(t)) = Count(First(t).rows)
      BY <1>1, <1>2, <1>4, <1>5, <2>1, <2>2, NothingLogged
    <3>2. Count(Held(t))' = Count(Held(t))
      BY <1>5 DEF Count
    <3> QED BY <1>6, <3>1, <3>2
  <2>3. Top'.order = Top.order
    BY <1>4
  <2>4. started' \in BOOLEAN
    BY <1>2
  <2> QED BY <2>1, <2>2, <2>3, <2>4 DEF IdleCommitInv
<1> QED BY <1>2, <1>6, <1>7, <1>8 DEF Steady

LEMMA CommitEntrySteady ==
    ASSUME WatchInv, CommitEntry
    PROVE  Steady
<1>1. /\ RollInv /\ PositiveInv /\ IdleCommitInv /\ SameFirst /\ started \in BOOLEAN
  BY EntryFirst DEF WatchInv
<1>2. /\ phase = "commit" /\ phase' = "commit" /\ Top.order # <<>>
      /\ stamp' = stamp /\ started' = started
  BY DEF CommitEntry, Using, loopVars
<1>3. started
  BY <1>1, <1>2 DEF IdleCommitInv
<1>4. \A t \in Tables : First(t)' = First(t)
  BY <1>1, SameFirstIs
<1>5. \A t \in Tables : /\ First(t)'.stamp = First(t).stamp
                        /\ Count(First(t).rows)' = Count(First(t).rows)
  BY <1>4 DEF Count
<1>6. PositiveInv'
  BY <1>1, <1>2, <1>5 DEF PositiveInv
<1> QED BY <1>1, <1>2, <1>3, <1>5, <1>6 DEF Steady, IdleCommitInv, SameFirst

LEMMA EndSteady ==
    ASSUME WatchInv, CommitEnd \/ RollbackEnd
    PROVE  Steady
<1>1. /\ RollInv /\ PositiveInv /\ IdleCommitInv /\ SoundInv
      /\ tx \in Seq(Transaction) /\ tx # <<>> /\ started \in BOOLEAN
      /\ phase \in {"commit", "rollback"} /\ Top.order = <<>>
  BY DEF WatchInv, RollInv, Inv, TypeOK, CommitEnd, RollbackEnd, End
<1>2. End /\ started' = FALSE
  BY DEF CommitEnd, RollbackEnd, End
<1>3. EndLeaves
  BY <1>1, <1>2, EndFirst
<1>4. depth \in Nat \ {0}
  BY <1>1, TopType
<1>5. CASE depth > 1
  <2>1. SameFirst /\ phase' = "idle"
    BY <1>3, <1>5 DEF EndLeaves
  <2>2. tx' # <<>> /\ \A t \in Tables : First(t)' = First(t)
    BY <2>1, SameFirstIs DEF SameFirst
  <2> QED BY <1>2, <2>1, <2>2, SteadyIfSame
<1>6. CASE depth = 1
  <2>1. /\ phase' = "idle" /\ tx' = <<>>
        /\ \A t \in Tables : First(t)' = Found(t)
    BY <1>3, <1>6 DEF EndLeaves
  <2>2. \A t \in Tables : First(t) = tx[1].found[t] /\ Top = tx[1]
    BY <1>1, <1>6 DEF First, Top
  <2>3. \A t \in Tables : /\ First(t)'.stamp = stamp[t]
                          /\ Count(First(t).rows)' = Count(Held(t))
    <3>1. \A t \in Tables : /\ First(t)'.stamp = stamp[t]
                            /\ First(t)'.rows = Held(t)
      BY <2>1 DEF Found
    <3> QED BY <3>1 DEF Count
  <2>4. CASE phase = "commit"
    <3>1. ~Announced => \A t \in Tables : Count(Held(t)) = Count(First(t).rows)
      BY <1>1, <2>4 DEF Announced, IdleCommitInv
    <3>2. PositiveInv'
      BY <1>1, <2>1, <2>3, <2>4 DEF PositiveInv
    <3> QED BY <1>2, <2>1, <2>3, <3>1, <3>2 DEF Steady, IdleCommitInv
  <2>5. CASE phase = "rollback"
    <3>1. \A t \in Tables : /\ Count(Held(t)) = Count(First(t).rows)
                            /\ stamp[t] = First(t).stamp
      BY <1>1, <2>2, <2>5, RestoredAtEnd DEF RollbackRestores
    <3>2. PositiveInv'
      BY <1>1, <2>1, <2>3, <3>1 DEF PositiveInv
    <3> QED BY <1>2, <2>1, <2>3, <3>1, <3>2 DEF Steady, IdleCommitInv
  <2> QED BY <1>1, <2>4, <2>5
<1> QED BY <1>4, <1>5, <1>6

LEMMA NextSteady ==
    ASSUME WatchInv, Transactional, Next
    PROVE  Steady
<1>1. /\ RollInv /\ Inv /\ tx \in Seq(Transaction) /\ started \in BOOLEAN
      /\ tx = <<>> => phase = "idle"
  BY DEF WatchInv, RollInv, Inv, TypeOK
<1>2. ASSUME SameFirst
      PROVE  tx' # <<>> /\ \A t \in Tables : First(t)' = First(t)
  BY <1>2, SameFirstIs DEF SameFirst
<1>3. CASE Operation
  BY <1>1, <1>2, <1>3, OperationFirst, SteadyIfSame
<1>4. ASSUME NEW r \in Rows, ClearRow(r)
      PROVE  Steady
  <2>1. tx # <<>>
    BY <1>1, <1>4 DEF ClearRow
  <2> QED BY <1>1, <1>2, <1>4, <2>1, ClearRowFirst, SteadyIfSame
<1>5. CASE Begin
  <2>1. phase' = "idle" /\ started' = started
    BY <1>5 DEF Begin, loopVars
  <2> QED BY <1>1, <1>5, <2>1, BeginFirst, SteadyIfSame
<1>6. CASE Commit
  BY <1>6, CommitSteady
<1>7. CASE CommitEntry
  BY <1>7, CommitEntrySteady
<1>8. CASE CommitEnd \/ RollbackEnd
  BY <1>8, EndSteady
<1>9. CASE Rollback
  <2>1. phase' = "rollback" /\ started' = started /\ tx' = tx /\ tx # <<>>
    BY <1>9 DEF Rollback, loopVars
  <2>2. SameFirst
    BY <2>1 DEF SameFirst
  <2> QED BY <1>1, <1>2, <2>1, <2>2, SteadyIfSame
<1>10. CASE RollbackEntry
  <2>1. phase' = "rollback" /\ started' = started
    BY <1>10 DEF RollbackEntry, loopVars
  <2>2. SameFirst
    BY <1>1, <1>10, EntryFirst
  <2> QED BY <1>1, <1>2, <2>1, <2>2, SteadyIfSame
<1> QED BY <1>3, <1>4, <1>5, <1>6, <1>7, <1>8, <1>9, <1>10 DEF Next

-----------------------------------------------------------------------------
(* The plugin *)

LEMMA StoreKeeps ==
    ASSUME WatchInv, Transactional, Store
    PROVE  WatchInv'
<1>1. Steady
  BY NextSteady DEF Store
<1>2. RollInv'
  BY NextRoll DEF Store, WatchInv, Transactional, Careful
<1>3. registered' = registered /\ told' = told
  BY DEF Store
<1>4. ToldInv'
  <2>1. CASE Announced
    <3>1. depth = 1
      BY <2>1 DEF Announced, WatchInv, RollInv, SoundInv
    <3>2. scheduled'
      BY <2>1, <3>1 DEF Store, Announced, TransactionEnd
    <3> QED BY <3>2 DEF ToldInv
  <2>2. CASE ~Announced
    <3>1. scheduled' = scheduled
      BY <2>2 DEF Store, Announced
    <3>2. \A p \in registered : Watches[p] \subseteq Tables
      BY WatchAssumption DEF WatchInv
    <3> QED BY <1>1, <1>3, <2>2, <3>1, <3>2 DEF Steady, ToldInv, WatchInv
  <2> QED BY <2>1, <2>2
<1> QED BY <1>1, <1>2, <1>3, <1>4 DEF Steady, WatchInv

\* The storage stands still.
LEMMA StandingStill ==
    ASSUME WatchInv, Transactional, UNCHANGED vars,
           registered' \subseteq Proxies, ToldInv'
    PROVE  WatchInv'
<1>1. RollInv'
  BY NextRoll DEF WatchInv, Transactional, Careful
<1>2. PositiveInv'
  BY DEF WatchInv, vars, PositiveInv, First, Found, Held
<1>3. IdleCommitInv'
  BY DEF WatchInv, vars, IdleCommitInv, Top, depth, Count, Held, First, Found
<1> QED BY <1>1, <1>2, <1>3 DEF WatchInv, vars

\* What a client reads between transactions is what the tables hold.
LEMMA ReadingIs ==
    ASSUME WatchInv, InMainLoop, NEW t \in Tables
    PROVE  Reading(t) = Count(First(t).rows)
<1>1. /\ RowsAreIndexed /\ IndexPointsToRows /\ TypeOK /\ LinkInv /\ None \notin Rows
      /\ table = None /\ None \notin Tables
  BY StorageAssumption DEF WatchInv, RollInv, Inv, SoundInv, InMainLoop
<1>2. Visible(t) = linked[t]
  <2>1. CASE t \notin Indexed
    BY <2>1 DEF Visible
  <2>2. CASE t \in Indexed
    <3>1. \A r \in Visible(t) : r \in linked[t]
      BY <1>1, VisibleRows
    <3>2. ASSUME NEW r \in linked[t]
          PROVE  r \in Visible(t)
      <4>1. t # table
        BY <1>1
      <4>2. index[t][cell[r].key] = r
        BY <1>1, <2>2, <4>1 DEF RowsAreIndexed
      <4>3. r \in Rows /\ cell[r].key \in Keys
        BY <1>1 DEF LinkInv, TypeOK, Data
      <4> QED BY <1>1, <2>2, <4>2, <4>3 DEF Visible
    <3> QED BY <3>1, <3>2
  <2> QED BY <2>1, <2>2
<1>3. First(t).rows = Held(t)
  BY DEF InMainLoop, First, Found
<1> QED BY <1>2, <1>3 DEF Reading, Held

LEMMA SameHere ==
    ASSUME UNCHANGED vars, NEW t
    PROVE  Count(First(t).rows)' = Count(First(t).rows)
BY DEF vars, First, Found, Held, Count

LEMMA WatchKeeps ==
    ASSUME WatchInv, Transactional, [WatchNext]_<<vars, watchVars>>
    PROVE  WatchInv'
<1>1. registered \subseteq Proxies /\ ToldInv
  BY DEF WatchInv
<1>2. CASE Store
  BY <1>2, StoreKeeps
<1>3. ASSUME NEW p \in Proxies, Register(p)
      PROVE  WatchInv'
  <2>1. UNCHANGED vars /\ registered' = registered \cup {p} /\ scheduled'
    BY <1>3 DEF Register
  <2>2. ToldInv'
    BY <2>1 DEF ToldInv
  <2> QED BY <1>1, <2>1, <2>2, StandingStill
<1>4. ASSUME NEW p \in Proxies, Closed(p)
      PROVE  WatchInv'
  <2>1. /\ UNCHANGED vars /\ registered' = registered \ {p} /\ scheduled' = scheduled
        /\ told' = [told EXCEPT ![p] = [t \in Tables |-> Untold]]
    BY <1>4 DEF Closed
  <2>2. \A q \in registered' : told'[q] = told[q]
    BY <2>1
  <2>3. ToldInv'
    BY <1>1, <2>1, <2>2, SameHere DEF ToldInv
  <2> QED BY <1>1, <2>1, <2>3, StandingStill
<1>5. CASE Notify
  <2>1. /\ UNCHANGED vars /\ registered' = registered /\ InMainLoop
        /\ told' = [p \in Proxies |->
                     IF p \in registered /\ Due(p)
                     THEN [t \in Tables |->
                             IF t \in Watches[p] THEN Reading(t) ELSE told[p][t]]
                     ELSE told[p]]
    BY <1>5 DEF Notify
  <2>2. ASSUME NEW p \in registered, NEW t \in Watches[p]
        PROVE  told'[p][t] = Count(First(t).rows)
    <3>1. p \in Proxies /\ t \in Tables
      BY <1>1, WatchAssumption
    <3>2. stamp[t] >= 1 /\ stamp[t] \in Nat
      BY <2>1, <3>1
         DEF WatchInv, PositiveInv, First, Found, InMainLoop, RollInv, Inv, TypeOK
    <3>3. 0 < stamp[t]
      BY <3>2
    <3>4. Due(p)
      BY <3>3 DEF Due
    <3>5. told'[p][t] = Reading(t)
      BY <2>1, <3>1, <3>4
    <3> QED BY <2>1, <3>1, <3>5, ReadingIs
  <2>3. ToldInv'
    BY <2>1, <2>2, SameHere DEF ToldInv
  <2> QED BY <1>1, <2>1, <2>3, StandingStill
<1>6. CASE UNCHANGED <<vars, watchVars>>
  <2>1. UNCHANGED vars /\ UNCHANGED <<registered, scheduled, told>>
    BY <1>6 DEF watchVars
  <2>2. ToldInv'
    BY <1>1, <2>1, SameHere DEF ToldInv
  <2> QED BY <1>1, <2>1, <2>2, StandingStill
<1> QED BY <1>2, <1>3, <1>4, <1>5, <1>6 DEF WatchNext

LEMMA WatchStarts ==
    ASSUME WatchInit
    PROVE  WatchInv
<1>1. Init /\ registered = {} /\ RollInv
  BY InitRoll DEF WatchInit
<1>2. tx = <<>> /\ phase = "idle" /\ started = FALSE
      /\ \A t \in Tables : stamp[t] = 1
  BY <1>1 DEF Init
<1>3. PositiveInv
  BY <1>2 DEF PositiveInv, First, Found
<1> QED BY <1>1, <1>2, <1>3 DEF WatchInv, IdleCommitInv, ToldInv

\* Whenever the main loop runs and no notification is due, every client knows
\* what every table it watches holds: however changes were spread over nested
\* transactions, rolled back, or made while others were told.
THEOREM NothingMissed ==
    ASSUME Transactional
    PROVE  WatchSpec => []NoMissedChange
<1>1. WatchInit => WatchInv
  BY WatchStarts
<1>2. WatchInv /\ [WatchNext]_<<vars, watchVars>> => WatchInv'
  BY WatchKeeps
<1>3. WatchInv => NoMissedChange
  <2> SUFFICES ASSUME WatchInv, InMainLoop, ~scheduled,
                      NEW p \in registered, NEW t \in Watches[p]
               PROVE  told[p][t] = Reading(t)
    BY DEF NoMissedChange, Stale
  <2>1. t \in Tables
    BY WatchAssumption DEF WatchInv
  <2> QED BY <2>1, ReadingIs DEF WatchInv, ToldInv
<1> QED BY <1>1, <1>2, <1>3, PTL DEF WatchSpec

================================================================================
