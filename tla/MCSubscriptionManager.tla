------------------------- MODULE MCSubscriptionManager -------------------------
(* Three connections, so that erasing one moves another into its place; two  *)
(* topics, so that a connection leaves one and keeps the other; two readers, *)
(* so that one vector is held twice.                                         *)
EXTENDS SubscriptionManager, TLC

CONSTANTS k1, k2, k3, t1, t2, r1, r2, a1, a2, a3, a4

MCConns   == {k1, k2, k3}
MCTopics  == {t1, t2}
MCReaders == {r1, r2}
MCCells   == {a1, a2, a3, a4}

Interchangeable ==
    Permutations(MCConns) \cup Permutations(MCTopics) \cup Permutations(MCReaders)
      \cup Permutations(MCCells)

=============================================================================
