---------------------------- MODULE MCMpmcQueue ----------------------------
(* MpmcQueue for TLC.  A producer is as good as another, and so is an item. *)
EXTENDS MpmcQueue, TLC

Symmetry ==
    Permutations(Producers) \cup Permutations(Consumers) \cup Permutations(Items)
=============================================================================
