------------------------ MODULE MCMultiConsumerQueue ------------------------
(***************************************************************************)
(* MultiConsumerQueue for TLC: threads and consumers are interchangeable.  *)
(***************************************************************************)
EXTENDS MultiConsumerQueue, TLC

Symmetry == Permutations(Threads) \union Permutations(Consumers)

=============================================================================
