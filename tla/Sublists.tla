------------------------------ MODULE Sublists ------------------------------
(* Lists without some of their members.                                    *)
EXTENDS Naturals, Sequences

(* The members of q that are in S, in their order: SelectSeq with a set    *)
(* for a test.                                                             *)
Keep(q, S) ==
    LET kept[n \in 0..Len(q)] ==
            IF n = 0 THEN <<>>
            ELSE IF q[n] \in S THEN Append(kept[n - 1], q[n]) ELSE kept[n - 1]
    IN  kept[Len(q)]
=============================================================================
