---------------------------- MODULE MCLaneService ----------------------------
(* Small instances of LaneService for TLC. *)
EXTENDS LaneService, TLC

Symmetric ==
    Permutations(Apps) \cup Permutations(Udids) \cup Permutations(Ports)
        \cup Permutations(LaneIds) \cup Permutations(Pids)
=============================================================================
