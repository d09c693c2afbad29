-------------------------------- MODULE Lists --------------------------------
(***************************************************************************)
(* The doubly linked lists of src/murphy-0.0.24/src/common/list.h as       *)
(* sequences: an entry is linked and unlinked by its own hook, wherever in *)
(* the list it is, and unlinking an entry twice is harmless.               *)
(***************************************************************************)
EXTENDS Integers, Sequences

Has(q, s) == \E i \in DOMAIN q : q[i] = s

\* No entry is linked twice.
NoRepeat(q) == \A i, j \in DOMAIN q : q[i] = q[j] => i = j

Position(q, s) == CHOOSE i \in DOMAIN q : q[i] = s

\* mrp_list_delete
Unlink(q, s) ==
    IF Has(q, s)
    THEN SubSeq(q, 1, Position(q, s) - 1) \o SubSeq(q, Position(q, s) + 1, Len(q))
    ELSE q

\* mrp_list_append to the hook that follows the i-th entry: s is linked between
\* that entry (or the head of the list, if i is 0) and the next.
Insert(q, i, s) == SubSeq(q, 1, i) \o <<s>> \o SubSeq(q, i + 1, Len(q))
=============================================================================
