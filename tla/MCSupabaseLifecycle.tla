------------------------- MODULE MCSupabaseLifecycle -------------------------
(* Small instances of SupabaseLifecycle: stacks are numbers, as their order *)
(* matters, and jobs are interchangeable model values.                      *)
EXTENDS SupabaseLifecycle, TLC

JobSymmetry == Permutations(Jobs)
=============================================================================
