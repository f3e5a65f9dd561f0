-------------------------- MODULE QuorumTransitive -------------------------
(***************************************************************************)
(* The loop of Node::isQuorumTransitive (scp/Node.cpp): the nodes that a   *)
(* filter let through are thinned out, pass after pass, until every node   *)
(* left is satisfied by the nodes left.  SCPQuorum states what the answer  *)
(* means (QuorumCore); this module shows that the loop finds it.           *)
(***************************************************************************)
EXTENDS SCPQuorum

VARIABLES
    start,   \* the nodes that passed the filter
    pNodes,  \* the nodes still in
    count,   \* their number when the current pass began
    done     \* the loop has ended

loopVars == <<start, pNodes, count, done>>

LoopInit ==
    /\ start \in SUBSET Node
    /\ pNodes = start
    /\ count = 0
    /\ done = FALSE

(* Deviation: the filter reads the nodes the loop started from.            *)
FilteredAgainstStart(S) == {m \in S : hasQuorum(m, start)}

(* copy_if with quorumFilter, which reads the nodes of the previous pass.  *)
Filtered(S) == {m \in S : hasQuorum(m, S)}

(* The condition of the do-while loop: the pass dropped nobody.            *)
Leaves(c, S) == c = Cardinality(S)

(* One pass of the do-while loop.                                          *)
Pass ==
    /\ ~done
    /\ count' = Cardinality(pNodes)
    /\ pNodes' = Filtered(pNodes)
    /\ done' = Leaves(count', pNodes')
    /\ UNCHANGED start

LoopNext == Pass

LoopSpec == LoopInit /\ [][LoopNext]_loopVars
-----------------------------------------------------------------------------
(* The answer of isQuorumTransitive for every node that may ask: when the  *)
(* loop has ended, counting the nodes left is the same as counting the     *)
(* largest quorum among the nodes it started from.  In particular no       *)
(* quorum is thinned away and no unsatisfied node is counted.              *)
AnswerIsTransitive ==
    done => \A n \in Node : hasQuorum(n, pNodes) <=> isQuorumTransitive(n, start)
=============================================================================
