---------------------------- MODULE MCDomainControl ----------------------------
(* Instances of DomainControl.                                             *)
EXTENDS DomainControl

CONSTANTS c1, c2, t1, t2, v1

\* c1 exports a table that c2 may export too: then one of them is refused after
\* its first table was made, or before; otherwise c2 only watches.
TheExports == {(c1 :> <<t1, t2>>) @@ (c2 :> <<t2>>), (c1 :> <<t1, t2>>) @@ (c2 :> <<>>)}
TheWatches == (c1 :> {}) @@ (c2 :> {t1})

\* In turn one table and the other, and a content refused at the last table.
TheRequests ==
    (c1 :> {t1 :> v1 @@ t2 :> Empty, t1 :> Empty @@ t2 :> v1, t1 :> v1 @@ t2 :> Bad})
    @@ (c2 :> {})
TheSets == (c1 :> 2) @@ (c2 :> 0)
TheLinks == (c1 :> 1) @@ (c2 :> 1)
=============================================================================
