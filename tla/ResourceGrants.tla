--------------------------- MODULE ResourceGrants ---------------------------
(***************************************************************************)
(* What the arbitration promises its clients, whatever the classes,        *)
(* priorities and policies are: resources of a zone are taken back from    *)
(* some sets and given to others, never in conflict and never in part.     *)
(* A resource is here a pair <<zone, resource>>.                           *)
(***************************************************************************)
CONSTANTS Sets, Zones, Resources, Shareable

VARIABLE holds     \* what each set may use

Instances == Zones \X Resources

Conflict(x, y) == x = y /\ x[2] \notin Shareable

Init == holds = [s \in Sets |-> {}]

\* Some sets lose what they hold; the update of a zone begins like this.
Revoke(S) == holds' = [s \in Sets |-> IF s \in S THEN {} ELSE holds[s]]

\* A set that holds nothing is given instances that conflict with no other's.
Give(s, R) ==
    /\ holds[s] = {}
    /\ \A t \in Sets \ {s} : \A x \in R, y \in holds[t] : ~Conflict(x, y)
    /\ holds' = [holds EXCEPT ![s] = R]

Next ==
    \/ \E S \in SUBSET Sets : Revoke(S)
    \/ \E s \in Sets, R \in SUBSET Instances : Give(s, R)

Spec == Init /\ [][Next]_holds

\* A resource that is not shareable has one holder in a zone (this is what
\* grant_ownership is for).
Exclusive ==
    \A s, t \in Sets : \A x \in holds[s], y \in holds[t] :
      Conflict(x, y) => s = t
=============================================================================
