----------------------------- MODULE MCSCPSlot -----------------------------
(***************************************************************************)
(* Instances of SCPSlot for TLC: the quorum set of every node is "all of   *)
(* Trusted".                                                               *)
(***************************************************************************)
EXTENDS SCPSlot

CONSTANTS A, B, C, w, x, y, Trusted

MCValidators == [n \in Node |-> Trusted]
MCThreshold == [n \in Node |-> Cardinality(Trusted)]

(* w < x < y at every counter, for compareValues and for std::map.         *)
MCMapRank == [v \in Value |-> IF v = w THEN 0 ELSE IF v = x THEN 1 ELSE 2]
MCRank == [c \in Counter |-> MCMapRank]

(* Who proposes what: A and the others disagree; the same, and the ballot  *)
(* of A expires once; all agree; A and B are outbid by C; no proposal.     *)
Call(v) == <<v, FALSE>>
SplitProposals == [n \in Honest |-> IF n = A THEN {Call(x)} ELSE {Call(y)}]
ExpiringProposals == [n \in Honest |-> IF n = A THEN {Call(x), <<x, TRUE>>} ELSE {Call(y)}]
SameProposals == [n \in Honest |-> {Call(x)}]
OutbidProposals == [n \in Honest |-> IF n = A THEN {Call(x)} ELSE {Call(w)}]
NoProposals == [n \in Honest |-> {}]

(* A faulty node that supports two conflicting ballots at once.  Every     *)
(* node trusts it, so that its PREPARED alone is v-blocking.               *)
EquivocatingC ==
    {Statement(C, t, [counter |-> 0, value |-> y]) : t \in {"PREPARED", "COMMITTED"}}
    \cup {Statement(C, "COMMITTED", [counter |-> 0, value |-> x])}

(* A node outside the quorum sets that proposes the highest value.         *)
OutsiderC == {Statement(C, "PREPARING", [counter |-> 0, value |-> y])}

(* The peer of a lone node, in the two runs about deferred validation.  It *)
(* moves on to a second ballot while it still excepts the first one.       *)
PeerEnvelopes ==
    LET b0 == [counter |-> 0, value |-> x]
        b1 == [counter |-> 0, value |-> y]
    IN  {Statement(B, t, b0) : t \in StatementType}
        \cup {[Statement(B, "PREPARING", b1) EXCEPT !.excepted = {b0}]}
=============================================================================
