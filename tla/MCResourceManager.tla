------------------------- MODULE MCResourceManager -------------------------
(***************************************************************************)
(* Instances of ResourceManager for TLC: two or three classes, one zone,   *)
(* two resources, three sets.  StampMax is small so that the stamps are    *)
(* rebased within a run; it is also what bounds the runs, because a        *)
(* counter that cannot be rebased aborts the daemon.                       *)
(***************************************************************************)
EXTENDS ResourceManager, TLC

CONSTANTS s1, s2, s3, c1, c2, low, high, top, z1, play, rec

Ask(client, class, priority, mandatory, optional, shared, auto) ==
    [client |-> client, class |-> class, zone |-> z1, priority |-> priority,
     all |-> mandatory \cup optional, mandatory |-> mandatory,
     shared |-> shared, autorelease |-> auto, events |-> TRUE]

TwoClasses == <<low, top>>

ThreeClasses == <<low, high, top>>

\* An optional resource, a pair of mandatory ones, a set that shares, one that
\* does not, with and without auto-release, in a LIFO, a FIFO and a modal class
\* and in both clients.
MixedProfiles ==
    {Ask(c1, low, 1, {play}, {rec}, {}, FALSE),
     Ask(c2, low, 0, {play, rec}, {}, {play}, TRUE),
     Ask(c2, high, 0, {play}, {}, {play}, FALSE),
     Ask(c1, top, 0, {rec}, {}, {}, TRUE)}

\* One set meets the modal one for an optional resource, the other one does not
\* want what the modal set holds.
ModalProfiles ==
    {Ask(c1, top, 0, {rec}, {}, {}, TRUE),
     Ask(c1, low, 1, {play}, {rec}, {}, FALSE),
     Ask(c2, low, 0, {play}, {}, {}, FALSE)}

Symmetry == Permutations(Sets)
=============================================================================
