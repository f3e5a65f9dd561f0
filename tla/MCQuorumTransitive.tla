------------------------- MODULE MCQuorumTransitive ------------------------
(***************************************************************************)
(* Six nodes.  1 and 2 trust each other; 3 to 6 each need their left       *)
(* neighbour and themselves, 6 also 1: removing one node can unravel the   *)
(* chain, one node per pass.                                               *)
(***************************************************************************)
EXTENDS QuorumTransitive

MCNode == 1 .. 6
MCValidators == [n \in MCNode |-> CASE n \in {1, 2} -> {1, 2, 3}
                                    [] n = 6 -> {1, 5, 6}
                                    [] OTHER -> {n - 1, n}]
MCThreshold == [n \in MCNode |-> IF n = 6 THEN 3 ELSE 2]
=============================================================================
