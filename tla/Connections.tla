----------------------------- MODULE Connections -----------------------------
(***************************************************************************)
(* What a stream transport promises its users, and what the protocols      *)
(* built on it assume (ResourceProtocol takes a connection for a queue):   *)
(* messages arrive in the order they were sent, none twice and none        *)
(* changed, until the connection ends; the end is told once.               *)
(***************************************************************************)
EXTENDS Naturals, Sequences

CONSTANT Links

VARIABLES sent,        \* [Links -> messages sent; they are numbered]
          delivered,   \* [Links -> messages the receiver was given]
          ended        \* the connections whose end the receiver knows

Init ==
    /\ sent = [l \in Links |-> 0]
    /\ delivered = [l \in Links |-> <<>>]
    /\ ended = {}

Send(l) ==
    /\ sent' = [sent EXCEPT ![l] = @ + 1]
    /\ UNCHANGED <<delivered, ended>>

Deliver(l) ==
    /\ l \notin ended /\ Len(delivered[l]) < sent[l]
    /\ delivered' = [delivered EXCEPT ![l] = Append(@, Len(@) + 1)]
    /\ UNCHANGED <<sent, ended>>

End(l) ==
    /\ l \notin ended /\ ended' = ended \cup {l}
    /\ UNCHANGED <<sent, delivered>>

Next == \E l \in Links : Send(l) \/ Deliver(l) \/ End(l)

Spec == Init /\ [][Next]_<<sent, delivered, ended>>
=============================================================================
