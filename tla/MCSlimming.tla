----------------------------- MODULE MCSlimming -----------------------------
(* Small instances of Slimming: jobs on one Simulator, or all along the     *)
(* same two.                                                                *)
EXTENDS Slimming, TLC

CONSTANTS s1, s2

Alone == {<<s1>>}
Along == {<<s1, s2>>}

JobSymmetry == Permutations(Jobs \ Cancellable)
=============================================================================
