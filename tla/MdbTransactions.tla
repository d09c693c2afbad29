---------------------------- MODULE MdbTransactions ----------------------------
(***************************************************************************)
(* The storage of murphy-db (src/murphy-0.0.24/src/murphy-db/mdb): rows in *)
(* tables, the index of a table, and the log that commits a transaction or *)
(* rolls it back.                                                          *)
(*                                                                         *)
(* Rows are cells of the heap: the log refers to rows by address, so what  *)
(* matters is which cells are allocated, linked into a table, or kept for  *)
(* the log only.  Touching a cell that has been freed is undefined: the    *)
(* model stops there, with broken set.                                     *)
(*                                                                         *)
(* The library is single threaded.  Commit and rollback are loops over the *)
(* log, one entry a step, and so is the deletion of all rows; no other     *)
(* operation is enabled meanwhile.  An update or a conditional delete that *)
(* matches several rows is as many single ones, as in the code.            *)
(*                                                                         *)
(* A definition X_Y in front of X is X with the fault Y: a mutant that     *)
(* some property below must catch.  Nothing refers to it.                  *)
(***************************************************************************)
EXTENDS Naturals, Sequences, FiniteSets, SequencesExt

CONSTANTS
    Tables,
    Keys, Vals,   \* of the indexed column, of the others
    Rows,         \* the cells malloc can hand out
    None,         \* the NULL pointer
    Indexed,      \* the tables with an index
    Habits,       \* what the users of the library do, see HabitsAssumption
    MaxDepth,     \* transactions nest this deep (MQI_TXDEPTH_MAX - 1)
    LogLimit,     \* bound: no change of a table with a longer log
    StampLimit    \* bound: no change that would move a stamp beyond it

ASSUME StorageAssumption ==
    /\ None \notin Rows \cup Tables
    /\ Indexed \subseteq Tables
    /\ MaxDepth \in Nat
    /\ LogLimit \in Nat
    /\ StampLimit \in Nat

\* bare          changes tables outside of a transaction
\* triggers      has row and column triggers, which read the rows of the log
\* replace       replaces rows that the open transactions have not changed
\* replace_own   replaces rows that an open transaction has changed
\* replace_bare  tries to replace rows outside of a transaction
\* rekey_taken   updates the key of a row to one that another row has
\* inner_commit  commits transactions inside of others
ASSUME HabitsAssumption ==
    Habits \subseteq {"bare", "triggers", "replace", "replace_own",
                      "replace_bare", "rekey_taken", "inner_commit"}

Data == [key : Keys, val : Vals]

VARIABLES
    cell,    \* the data of the allocated rows; its domain is the heap
    linked,  \* tbl.rows, without the order
    index,   \* tbl.index: the hash, and the sequence in step with it
    stamp,   \* tbl.stamp
    tx,      \* the open transactions: the tables they changed, in the order of
             \* the first change (txlog.hlink), and their change logs, oldest
             \* entry first (tblog.changes); found, and was in an entry, are
             \* history: what a table held before the transaction, the change
    phase,   \* the loop that runs: idle, clear, commit or rollback
    table,   \* the table being cleared
    started, \* start_triggered
    broken   \* a freed row was touched

vars == <<cell, linked, index, stamp, tx, phase, table, started, broken>>

rowVars  == <<cell, linked, index>>
loopVars == <<table, started>>

heap == DOMAIN cell

\* mdb_transaction_get_depth
depth == Len(tx)
Top   == tx[depth]

\* The rows of a table as the log knows them, and as a reader of the table
\* does: how many rows have which data.
Held(t)   == [r \in linked[t] |-> cell[r]]
Count(rows) ==
    [d \in Data |-> Cardinality({r \in DOMAIN rows : rows[r] = d})]
Found(t) == [rows |-> Held(t), stamp |-> stamp[t]]

Snapshot == [rows : UNION {[S -> Data] : S \in SUBSET Rows}, stamp : Nat]

Entry == {e \in [change : {"stamp", "insert", "update", "delete"},
                 before : Rows \cup {None}, after : Rows \cup {None},
                 stamp  : Nat, was : Snapshot] :
            /\ e.change \in {"update", "delete"} <=> e.before # None
            /\ e.change \in {"insert", "update"} <=> e.after # None}

Transaction == [order : Seq(Tables), log : [Tables -> Seq(Entry)],
                found : [Tables -> Snapshot]]

Init ==
    /\ cell = << >>
    /\ linked = [t \in Tables |-> {}]
    /\ index = [t \in Tables |-> [k \in Keys |-> None]]
    /\ stamp = [t \in Tables |-> 1]
    /\ tx = <<>>
    /\ phase = "idle"
    /\ table = None
    /\ started = FALSE
    /\ broken = FALSE

-----------------------------------------------------------------------------
(* Rows and index *)

\* The cells calloc may hand out.  It does not reuse an address that the log
\* still holds, so that the touch of a freed row is always seen as one.
Mentioned == {r \in Rows : \E i \in DOMAIN tx, t \in Tables :
                            \E j \in DOMAIN tx[i].log[t] :
                              r \in {tx[i].log[t][j].before, tx[i].log[t][j].after}}
Free == Rows \ (heap \cup Mentioned)

\* calloc and free
With(r, d) == [x \in heap \cup {r} |-> IF x = r THEN d ELSE cell[x]]
Without(r) == [x \in heap \ {r} |-> cell[x]]

Linking(t, r)   == [linked EXCEPT ![t] = @ \cup {r}]
Unlinking(t, r) == [linked EXCEPT ![t] = @ \ {r}]

\* mdb_index_insert for a free key, and mdb_index_delete
Indexing(t, k, r) ==
    IF t \in Indexed THEN [index EXCEPT ![t][k] = r] ELSE index
Unindexing(t, k) == Indexing(t, k, None)

Taken(t, k) == t \in Indexed /\ index[t][k] # None

\* What table_iterator finds: an indexed table is read through its index.
Visible(t) ==
    IF t \in Indexed THEN {index[t][k] : k \in Keys} \ {None} ELSE linked[t]

-----------------------------------------------------------------------------
(* The log *)

Logged(t) == Top.log[t] # <<>>

\* The transactions with entries at the end of the log of t (get_tx_log,
\* get_tbl_log and the list operations on them).
Logging(t, entries) ==
    [tx EXCEPT ![depth] =
       [order |-> IF Logged(t) THEN Top.order ELSE Append(Top.order, t),
        log   |-> [Top.log EXCEPT ![t] = @ \o entries],
        found |-> Top.found]]

\* mdb_log_change.  Nothing is logged outside of a transaction.  The first
\* change of a table in a transaction is preceded by the stamp of the table,
\* which moves.
LogChange_NoStamp(t, change, before, after) ==
    /\ tx' = IF tx = <<>> THEN tx ELSE
               Logging(t, <<[change |-> change, before |-> before,
                             after |-> after, stamp |-> 0, was |-> Found(t)]>>)
    /\ UNCHANGED stamp
LogChange(t, change, before, after) ==
    IF tx = <<>> THEN UNCHANGED <<tx, stamp>> ELSE
      LET opener == [change |-> "stamp", before |-> None, after |-> None,
                     stamp |-> stamp[t], was |-> Found(t)]
          entry  == [change |-> change, before |-> before, after |-> after,
                     stamp |-> 0,
                     was |-> [rows |-> Held(t), stamp |-> stamp'[t]]]
      IN  /\ stamp' = IF Logged(t) THEN stamp ELSE [stamp EXCEPT ![t] = @ + 1]
          /\ tx' = Logging(t, IF Logged(t) THEN <<entry>> ELSE <<opener, entry>>)

\* The row has been changed by a transaction that is still open.
Own(t, r) ==
    \E i \in DOMAIN tx : \E j \in DOMAIN tx[i].log[t] :
      tx[i].log[t][j].after = r

MayChange(t) ==
    /\ phase = "idle"
    /\ ~broken
    /\ tx = <<>> => "bare" \in Habits
    /\ tx # <<>> => /\ Len(Top.log[t]) < LogLimit
                    /\ ~Logged(t) => stamp[t] < StampLimit

-----------------------------------------------------------------------------
(* Operations on tables *)

\* mdb_table_insert of a row whose key is free.  A row whose key is taken is
\* freed again by mdb_index_insert, unless it is to replace the other.
InsertRow(t, r, d) ==
    /\ MayChange(t)
    /\ r \in Free
    /\ ~Taken(t, d.key)
    /\ cell' = With(r, d)
    /\ linked' = Linking(t, r)
    /\ index' = Indexing(t, d.key, r)
    /\ LogChange(t, "insert", None, r)
    /\ UNCHANGED <<phase, loopVars, broken>>

\* MQI_REPLACE of a row whose key is taken: the row that had it is kept for
\* the log.
ReplaceRow_Freed(t, r, d) ==
    /\ MayChange(t)
    /\ tx # <<>>
    /\ r \in Free
    /\ Taken(t, d.key)
    /\ LET old == index[t][d.key] IN
         /\ (IF Own(t, old) THEN "replace_own" ELSE "replace") \in Habits
         /\ cell' = [x \in (heap \ {old}) \cup {r} |->
                       IF x = r THEN d ELSE cell[x]]
         /\ linked' = [linked EXCEPT ![t] = (@ \ {old}) \cup {r}]
         /\ index' = Indexing(t, d.key, r)
         /\ LogChange(t, "update", old, r)
    /\ UNCHANGED <<phase, loopVars, broken>>
ReplaceRow(t, r, d) ==
    /\ MayChange(t)
    /\ tx # <<>>
    /\ r \in Free
    /\ Taken(t, d.key)
    /\ LET old == index[t][d.key] IN
         /\ (IF Own(t, old) THEN "replace_own" ELSE "replace") \in Habits
         /\ cell' = With(r, d)
         /\ linked' = [linked EXCEPT ![t] = (@ \ {old}) \cup {r}]
         /\ index' = Indexing(t, d.key, r)
         /\ LogChange(t, "update", old, r)
    /\ UNCHANGED <<phase, loopVars, broken>>

\* The same outside of a transaction is refused, but the row that was to be
\* the replacement stays linked.
ReplaceOutside(t, r, d) ==
    /\ MayChange(t)
    /\ tx = <<>>
    /\ "replace_bare" \in Habits
    /\ r \in Free
    /\ Taken(t, d.key)
    /\ cell' = With(r, d)
    /\ linked' = Linking(t, r)
    /\ UNCHANGED <<index, stamp, tx, phase, loopVars, broken>>

\* mdb_row_duplicate: the old data of a row that is about to change, kept for
\* the log.  There is no copy outside of a transaction.
Copies == IF tx = <<>> THEN {None} ELSE Free

Changing(r, d, c) ==
    [x \in heap \cup ({c} \ {None}) |->
       IF x = r THEN d ELSE IF x = c THEN cell[r] ELSE cell[x]]

\* update_single_row.
UpdateRow(t, r, d, c) ==
    /\ MayChange(t)
    /\ r \in Visible(t)
    /\ c \in Copies
    /\ d.key # cell[r].key => ~Taken(t, d.key)
    /\ cell' = Changing(r, d, c)
    /\ index' = IF t \in Indexed
                THEN [index EXCEPT ![t] =
                        [[@ EXCEPT ![cell[r].key] = None] EXCEPT ![d.key] = r]]
                ELSE index
    /\ LogChange(t, "update", c, r)
    /\ UNCHANGED <<linked, phase, loopVars, broken>>

\* The new key belongs to another row: mdb_index_insert takes the updated row
\* for a duplicate and frees it; mdb_row_update does not look at the result.
UpdateOntoTaken(t, r, d, c) ==
    /\ MayChange(t)
    /\ "rekey_taken" \in Habits
    /\ r \in Visible(t)
    /\ c \in Copies
    /\ d.key # cell[r].key
    /\ Taken(t, d.key)
    /\ cell' = [x \in DOMAIN Changing(r, d, c) \ {r} |-> Changing(r, d, c)[x]]
    /\ linked' = Unlinking(t, r)
    /\ index' = Unindexing(t, cell[r].key)
    /\ LogChange(t, "update", c, r)
    /\ UNCHANGED <<phase, loopVars, broken>>

\* delete_single_row: in a transaction the row is kept for the log.
Dropping_Freed(r) == Without(r)
Dropping(r) == IF tx = <<>> THEN Without(r) ELSE cell

DeleteRow(t, r) ==
    /\ MayChange(t)
    /\ r \in Visible(t)
    /\ cell' = Dropping(r)
    /\ linked' = Unlinking(t, r)
    /\ index' = Unindexing(t, cell[r].key)
    /\ LogChange(t, "delete", r, None)
    /\ UNCHANGED <<phase, loopVars, broken>>

\* delete_all: mdb_index_reset, then the rows one by one.
Clear(t) ==
    /\ MayChange(t)
    /\ linked[t] # {}
    /\ index' = IF t \in Indexed THEN [index EXCEPT ![t] = [k \in Keys |-> None]]
                                 ELSE index
    /\ phase' = "clear"
    /\ table' = t
    /\ UNCHANGED <<cell, linked, stamp, tx, started, broken>>

ClearRow(r) ==
    /\ phase = "clear"
    /\ ~broken
    /\ r \in linked[table]
    /\ cell' = Dropping(r)
    /\ linked' = Unlinking(table, r)
    /\ LogChange(table, "delete", r, None)
    /\ IF linked[table] = {r} THEN phase' = "idle" /\ table' = None
                              ELSE UNCHANGED <<phase, table>>
    /\ UNCHANGED <<index, started, broken>>

-----------------------------------------------------------------------------
(* Transactions *)

Begin ==
    /\ phase = "idle"
    /\ ~broken
    /\ depth < MaxDepth
    /\ tx' = Append(tx, [order |-> <<>>,
                         log   |-> [t \in Tables |-> <<>>],
                         found |-> [t \in Tables |-> Found(t)]])
    /\ UNCHANGED <<rowVars, stamp, phase, loopVars, broken>>

\* The loops take the table that was changed first, and leave it when its log
\* is empty.
Current == Head(Top.order)

\* The transactions after entry e, the oldest or the newest one, is consumed.
Consumed_OneTable(rest) ==
    [tx EXCEPT ![depth] =
       [order |-> IF rest = <<>> THEN <<>> ELSE Top.order,
        log   |-> [Top.log EXCEPT ![Current] = rest],
        found |-> Top.found]]
Consumed(rest) ==
    [tx EXCEPT ![depth] =
       [order |-> IF rest = <<>> THEN Tail(Top.order) ELSE Top.order,
        log   |-> [Top.log EXCEPT ![Current] = rest],
        found |-> Top.found]]

\* txdepth--
End_StillLooping ==
    /\ ~broken
    /\ Top.order = <<>>
    /\ tx' = Front(tx)
    /\ started' = FALSE
    /\ UNCHANGED <<rowVars, stamp, phase, table, broken>>
End ==
    /\ ~broken
    /\ Top.order = <<>>
    /\ tx' = Front(tx)
    /\ phase' = "idle"
    /\ started' = FALSE
    /\ UNCHANGED <<rowVars, stamp, table, broken>>

\* A step of a loop that reads the rows of used, if they are all still there.
Using(used, step) ==
    IF used \subseteq heap
    THEN step /\ UNCHANGED broken
    ELSE broken' = TRUE /\ UNCHANGED <<rowVars, stamp, tx>>

Commit ==
    /\ phase = "idle"
    /\ ~broken
    /\ tx # <<>>
    /\ depth > 1 => "inner_commit" \in Habits
    /\ phase' = "commit"
    /\ started' = (Top.order # <<>>)
    /\ UNCHANGED <<rowVars, stamp, tx, table, broken>>

\* The rows the entry's triggers and destroy_row read.
ReadByCommit(e) ==
    (IF "triggers" \in Habits THEN {e.before, e.after} ELSE {e.before}) \ {None}

\* destroy_row: what the log kept is freed.  A linked row would be left alone.
Destroyed_Never(e) == cell
Destroyed(e) ==
    IF e.before = None \/ (\E t \in Tables : e.before \in linked[t])
    THEN cell
    ELSE Without(e.before)

CommitEntry ==
    /\ phase = "commit"
    /\ ~broken
    /\ Top.order # <<>>
    /\ LET e == Head(Top.log[Current])
       IN  Using(ReadByCommit(e),
                 /\ cell' = Destroyed(e)
                 /\ tx' = Consumed(Tail(Top.log[Current]))
                 /\ UNCHANGED <<linked, index, stamp>>)
    /\ UNCHANGED <<phase, loopVars>>

CommitEnd == phase = "commit" /\ End

Rollback ==
    /\ phase = "idle"
    /\ ~broken
    /\ tx # <<>>
    /\ phase' = "rollback"
    /\ UNCHANGED <<rowVars, stamp, tx, loopVars, broken>>

\* remove_row
UndoInsert(t, e) ==
    /\ cell' = Without(e.after)
    /\ linked' = Unlinking(t, e.after)
    /\ index' = Unindexing(t, cell[e.after].key)
    /\ UNCHANGED stamp

\* add_row.  If the key is taken by now, mdb_index_insert frees the row.
UndoDelete(t, e) ==
    /\ IF Taken(t, cell[e.before].key)
       THEN /\ cell' = Without(e.before)
            /\ UNCHANGED <<linked, index>>
       ELSE /\ linked' = Linking(t, e.before)
            /\ index' = Indexing(t, cell[e.before].key, e.before)
            /\ UNCHANGED cell
    /\ UNCHANGED stamp

\* copy_row.  If the old key is taken by now, mdb_index_insert frees the row,
\* and the copy is lost.
UndoUpdate_OldIndex(t, e) ==
    /\ cell' = [x \in heap \ {e.before} |->
                   IF x = e.after THEN cell[e.before] ELSE cell[x]]
    /\ UNCHANGED <<linked, index, stamp>>
UndoUpdate(t, e) ==
    LET key  == cell[e.after].key
        old  == cell[e.before]
        lost == key # old.key /\ Taken(t, old.key)
    IN  /\ cell' = IF lost THEN Without(e.after) ELSE
                     [x \in heap \ {e.before} |->
                        IF x = e.after THEN old ELSE cell[x]]
        /\ linked' = IF lost THEN Unlinking(t, e.after) ELSE linked
        /\ index' = IF t \notin Indexed THEN index ELSE
                      IF lost THEN [index EXCEPT ![t][key] = None]
                      ELSE [index EXCEPT ![t] =
                              [[@ EXCEPT ![key] = None]
                                 EXCEPT ![old.key] = e.after]]
        /\ UNCHANGED stamp

\* restore_stamp
UndoStamp_Kept(t, e) == UNCHANGED <<rowVars, stamp>>
UndoStamp(t, e) ==
    /\ stamp' = [stamp EXCEPT ![t] = e.stamp]
    /\ UNCHANGED rowVars

Undo(t, e) ==
    CASE e.change = "insert" -> UndoInsert(t, e)
      [] e.change = "delete" -> UndoDelete(t, e)
      [] e.change = "update" -> UndoUpdate(t, e)
      [] e.change = "stamp"  -> UndoStamp(t, e)

RollbackEntry_OldestFirst ==
    /\ phase = "rollback"
    /\ ~broken
    /\ Top.order # <<>>
    /\ LET e == Head(Top.log[Current])
       IN  Using({e.before, e.after} \ {None},
                 /\ Undo(Current, e)
                 /\ tx' = Consumed(Tail(Top.log[Current])))
    /\ UNCHANGED <<phase, loopVars>>
RollbackEntry ==
    /\ phase = "rollback"
    /\ ~broken
    /\ Top.order # <<>>
    /\ LET e == Last(Top.log[Current])
       IN  Using({e.before, e.after} \ {None},
                 /\ Undo(Current, e)
                 /\ tx' = Consumed(Front(Top.log[Current])))
    /\ UNCHANGED <<phase, loopVars>>

RollbackEnd == phase = "rollback" /\ End

-----------------------------------------------------------------------------

Operation ==
    \E t \in Tables :
      \/ \E r \in Rows, d \in Data :
           \/ InsertRow(t, r, d)
           \/ ReplaceRow(t, r, d)
           \/ ReplaceOutside(t, r, d)
           \/ \E c \in Rows \cup {None} :
                UpdateRow(t, r, d, c) \/ UpdateOntoTaken(t, r, d, c)
      \/ \E r \in Rows : DeleteRow(t, r)
      \/ Clear(t)

Next ==
    \/ Operation
    \/ \E r \in Rows : ClearRow(r)
    \/ Begin
    \/ Commit
    \/ CommitEntry
    \/ CommitEnd
    \/ Rollback
    \/ RollbackEntry
    \/ RollbackEnd

Spec == Init /\ [][Next]_vars

-----------------------------------------------------------------------------
(* Properties *)

\* The variables keep their types.
TypeOK ==
    /\ heap \subseteq Rows
    /\ cell \in [heap -> Data]
    /\ linked \in [Tables -> SUBSET Rows]
    /\ index \in [Tables -> [Keys -> Rows \cup {None}]]
    /\ stamp \in [Tables -> Nat]
    /\ tx \in Seq(Transaction)
    /\ phase \in {"idle", "clear", "commit", "rollback"}
    /\ table \in Tables \cup {None}
    /\ phase = "clear" => table \in Tables
    /\ phase \in {"commit", "rollback"} => tx # <<>>
    /\ started \in BOOLEAN
    /\ broken \in BOOLEAN

\* A transaction that is rolled back leaves every table with the rows and the
\* stamp it had: the entries undo each other's changes in the right order,
\* whatever mix of inserts, updates and deletes they log, also of one row.
RollbackRestores ==
    phase = "rollback" /\ Top.order = <<>> =>
      \A t \in Tables : /\ Count(Held(t)) = Count(Top.found[t].rows)
                        /\ stamp[t] = Top.found[t].stamp

\* No commit, rollback or operation reads a row that has been freed; the log
\* holds bare addresses, and what they point to is freed in four places.
NothingFreedIsUsed == ~broken

\* The rows the log keeps alive.
Kept == {r \in heap : \E i \in DOMAIN tx : \E t \in Tables :
                       \E j \in DOMAIN tx[i].log[t] : tx[i].log[t][j].before = r}

\* Every row of an indexed table is found under its key, so that no two rows
\* have the same; only delete_all empties the index first.
RowsAreIndexed ==
    \A t \in Indexed \ {table} : \A r \in linked[t] : index[t][cell[r].key] = r

\* Every row of the heap is in one table, or is kept by the log and in none:
\* nothing leaks, and nothing that was freed is still linked or read; and the
\* index of a table leads to each of its rows.
RowsAccounted ==
    /\ heap = Kept \cup UNION {linked[t] : t \in Tables}
    /\ \A t \in Tables :
         linked[t] \cap (Kept \cup UNION {linked[u] : u \in Tables \ {t}}) = {}
    /\ RowsAreIndexed
    /\ NothingFreedIsUsed

\* What the index finds under a key is a row of the table with this key.
IndexPointsToRows ==
    \A t \in Tables, k \in Keys :
      index[t][k] # None => /\ index[t][k] \in linked[t]
                            /\ cell[index[t][k]].key = k

\* Who keeps the stamp of a table (the resolver does, fact.c) sees from it
\* whether the transaction has changed the table.
StampTellsChange ==
    phase = "idle" /\ tx # <<>> =>
      \A t \in Tables :
        /\ stamp[t] >= tx[1].found[t].stamp
        /\ stamp[t] = tx[1].found[t].stamp =>
             Count(Held(t)) = Count(tx[1].found[t].rows)

-----------------------------------------------------------------------------
(* The abstract specification.  A rollback happens when it starts. *)

Picture(found) ==
    [t \in Tables |-> [rows |-> Count(found[t].rows), stamp |-> found[t].stamp]]

Nested == INSTANCE NestedTransactions WITH
    Contents <- [Data -> 0..Cardinality(Rows)],
    db <- Picture(IF phase = "rollback" THEN Top.found
                  ELSE [t \in Tables |-> Found(t)]),
    found <- [i \in 1..(IF phase = "rollback" THEN depth - 1 ELSE depth) |->
                Picture(tx[i].found)]

\* The log, with its entries one by one, implements a stack of snapshots.
NestedSpec == Nested!Spec
=============================================================================
