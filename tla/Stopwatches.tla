----------------------------- MODULE Stopwatches -----------------------------
(***************************************************************************)
(* What the abandonment clocks of the agent service promise: one stopwatch *)
(* per holder of a resource.  It runs only from an observation that found  *)
(* the holder gone, keeps its reading over observations that could not see *)
(* the holder, and goes back to zero when the holder is seen alive or      *)
(* nothing names it any more.  Observations are the only way to start or   *)
(* stop a stopwatch, and only the passing of time moves one that runs.     *)
(***************************************************************************)
EXTENDS Naturals

CONSTANT Keys

VARIABLES running,   \* the stopwatches that run
          elapsed    \* how long each has run since it was last set to zero

vars == <<running, elapsed>>

Init == running = {} /\ elapsed = [k \in Keys |-> 0]

(* One unit of time passes. *)
Pass ==
    /\ elapsed' = [k \in Keys |-> IF k \in running THEN elapsed[k] + 1
                                                   ELSE elapsed[k]]
    /\ UNCHANGED running

(* An observation: the stopwatches of gone holders run on, those of        *)
(* holders that cannot be seen stop where they are, all others go to zero. *)
Observe ==
    \E gone, unknown \in SUBSET Keys :
        /\ gone \cap unknown = {}
        /\ running' = gone
        /\ elapsed' = [k \in Keys |-> IF k \in gone \cup unknown
                                      THEN elapsed[k] ELSE 0]

(* A restart forgets every stopwatch. *)
Forget == Init'

Next == Pass \/ Observe \/ Forget

Spec == Init /\ [][Next]_vars
=============================================================================
