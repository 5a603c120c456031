------------------------------ MODULE MCRecipes ------------------------------
(* Small instances of Recipes: a confirmed run that slims two Simulators    *)
(* with two workers, and another run on the second of them; or the first    *)
(* alone, slimming in its teardown as well.                                 *)
EXTENDS Recipes, TLC

CONSTANTS s1, s2, r1, r2

TwoRuns ==
    r1 :> [targets |-> <<s1, s2>>, steps |-> <<"slimming">>, teardown |-> <<>>,
           workers |-> 2, approval |-> TRUE]
    @@ r2 :> [targets |-> <<s2>>, steps |-> <<"slimming">>, teardown |-> <<"app">>,
              workers |-> 1, approval |-> FALSE]
Alone ==
    r1 :> [targets |-> <<s1, s2>>, steps |-> <<"slimming">>, teardown |-> <<"slimming">>,
           workers |-> 2, approval |-> FALSE]
==============================================================================
