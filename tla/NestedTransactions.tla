-------------------------- MODULE NestedTransactions --------------------------
(***************************************************************************)
(* What murphy-db promises to those who change tables in transactions: a   *)
(* transaction that is rolled back leaves the database as it found it, one *)
(* that is committed leaves it as it is, and transactions nest.  The       *)
(* database is a picture of every table; a stack of pictures remembers     *)
(* what the open transactions found.                                       *)
(***************************************************************************)
EXTENDS Naturals, Sequences

CONSTANTS Tables, Contents   \* what the rows of a table can amount to

VARIABLES db, found

Picture == [rows : Contents, stamp : Nat]

\* Tables are filled before the first transaction; their stamps start at 1.
Init ==
    /\ db \in [Tables -> [rows : Contents, stamp : {1}]]
    /\ found = <<>>

Begin ==
    /\ found' = Append(found, db)
    /\ UNCHANGED db

\* The first change of a table in a transaction, and no other, moves its stamp.
StampAfter(t) ==
    IF found # <<>> /\ db[t].stamp = found[Len(found)][t].stamp
    THEN db[t].stamp + 1
    ELSE db[t].stamp

Change(t, rows) ==
    /\ db' = [db EXCEPT ![t] = [rows |-> rows, stamp |-> StampAfter(t)]]
    /\ UNCHANGED found

End == /\ found # <<>>
       /\ found' = SubSeq(found, 1, Len(found) - 1)

Commit == End /\ UNCHANGED db

Rollback == End /\ db' = found[Len(found)]

Next ==
    \/ Begin
    \/ \E t \in Tables, rows \in Contents : Change(t, rows)
    \/ Commit
    \/ Rollback

Spec == Init /\ [][Next]_<<db, found>>
=============================================================================
