------------------------------ MODULE Consensus ------------------------------
(***************************************************************************)
(* What one slot of consensus promises to those who use it: a node decides *)
(* at most once, on a value that somebody brought in, and nobody decides   *)
(* on another.  The ledgers of all nodes are one chain because of it.      *)
(***************************************************************************)
CONSTANTS
    Nodes,      \* the nodes that can be relied on
    Candidates  \* the values that were brought in, by whomever

VARIABLE decided  \* per node: its decisions

Init == decided = [n \in Nodes |-> {}]

Decide(n, v) ==
    /\ decided[n] = {}
    /\ \A m \in Nodes : decided[m] \subseteq {v}
    /\ decided' = [decided EXCEPT ![n] = {v}]

Next == \E n \in Nodes, v \in Candidates : Decide(n, v)

Spec == Init /\ [][Next]_decided

=============================================================================
