------------------------ MODULE MCMutationCoordinator ------------------------
(* MutationCoordinator for TLC.                                            *)
EXTENDS MutationCoordinator, TLC

Symmetric == Permutations(Calls) \cup Permutations(Udids)
=============================================================================
