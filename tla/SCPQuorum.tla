----------------------------- MODULE SCPQuorum -----------------------------
(***************************************************************************)
(* Quorum arithmetic of scp/Node.cpp.  Every node publishes one quorum set *)
(* (a list of validators and a threshold); the statements of a slot are    *)
(* counted against these sets.  Quorum sets are identified by their owner: *)
(* LocalNode::updateQuorumSet has no caller, so a node's set never changes *)
(* while it runs.                                                          *)
(***************************************************************************)
EXTENDS Naturals, FiniteSets

CONSTANTS
    Node,       \* the node identifiers (uint256 public keys)
    validators, \* validators[n]: the validators of the quorum set of n
    threshold   \* threshold[n]: how many of them n needs

(* A quorum set that can be satisfied and that {} does not satisfy: what   *)
(* the configuration file is expected to hold.                             *)
ASSUME QSetAssumption ==
    /\ IsFiniteSet(Node)
    /\ validators \in [Node -> SUBSET Node]
    /\ threshold \in [Node -> Nat]
    /\ \A n \in Node : threshold[n] \in 1 .. Cardinality(validators[n])

(* Does S hold enough of the validators of n?                              *)
hasQuorum(n, S) == Cardinality(validators[n] \cap S) >= threshold[n]

(* Does every way of satisfying n meet S?                                  *)
isVBlocking(n, S) ==
    /\ threshold[n] # 0
    /\ Cardinality(validators[n]) - Cardinality(validators[n] \cap S) < threshold[n]

(* A set that satisfies each of its members.                               *)
IsQuorum(Q) == \A m \in Q : hasQuorum(m, Q)

(* The largest quorum inside S.  Node::isQuorumTransitive computes it by   *)
(* discarding unsatisfied nodes until nothing changes; module              *)
(* QuorumTransitive models that loop and shows that it ends here.          *)
QuorumCore(S) == UNION {Q \in SUBSET S : IsQuorum(Q)}

(* Node::isQuorumTransitive(n, S), for every S.                            *)
TransitiveQuorums == [n \in Node |-> {S \in SUBSET Node : hasQuorum(n, QuorumCore(S))}]
isQuorumTransitive(n, S) == S \in TransitiveQuorums[n]
=============================================================================
