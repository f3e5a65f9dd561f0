------------------------------ MODULE SCPSlot ------------------------------
(***************************************************************************)
(* One consensus slot at every correct node: class Slot (scp/Slot.cpp),    *)
(* driven through class SCP and counting quorums with class Node.          *)
(*                                                                         *)
(* A handler (an envelope that arrives, a value that is proposed, a        *)
(* validation that completes, a quorum set that is found) ends in          *)
(* advanceSlot, whose body is modelled step by step: pc[n] is the place in *)
(* the body.  Statements the body emits are processed by the same handler  *)
(* before they are broadcast; the advanceSlot call nested in it only sets  *)
(* mRunAdvanceSlot.  A node is single threaded and shares nothing with the *)
(* others but the envelopes it sent, so the handler of one node runs to    *)
(* its end before another node starts one: steps of two nodes commute.     *)
(*                                                                         *)
(* Validation may be asynchronous: the TxSet of a value may have to be     *)
(* fetched, a ballot may have to wait for a timer.  A failed assert stops  *)
(* the process (pc = "aborted").                                           *)
(***************************************************************************)
EXTENDS SCPQuorum

CONSTANTS
    Honest,        \* the nodes that run this code; the others send anything
    Value,         \* the values that can be proposed
    None,          \* the empty Value, and an absent ballot
    MaxCounter,    \* largest ballot counter (UINT32_MAX)
    Rank,          \* Rank[c][v]: place of v in the order compareValues defines at counter c
    MapRank,       \* MapRank[v]: place of v in the byte order std::map sorts by
    Proposals,     \* Proposals[n]: the calls of prepareValue n gets, <<value, forceBump>>
    FaultyEnvelopes, \* the envelopes the nodes outside Honest may send
    Deferrable,    \* which validations may complete later: a subset of {"value", "ballot"}
    Rejectable,    \* which validations may fail: a subset of {"value", "ballot"}
    InitialQSets,  \* nodes whose quorum sets every node has cached from the start
    Purgeable      \* nodes that SCP::purgeNode is called on

Counter == 0 .. MaxCounter
Ballot == [counter : Counter, value : Value]
NoBallot == [counter |-> 0, value |-> None]
StatementType == {"PREPARING", "PREPARED", "COMMITTING", "COMMITTED"}

(* SCPEnvelope.  The slot index is the same throughout, the quorum set     *)
(* hash is that of the node; excepted and prepared only matter for         *)
(* PREPARING.                                                              *)
Envelope == [node : Node, type : StatementType, ballot : Ballot,
             excepted : SUBSET Ballot, prepared : Ballot \cup {NoBallot}]

(* The places in the body of advanceSlot, and an envelope that waits for   *)
(* validateValue or for validateBallot.                                    *)
Place == {"idle", "start", "prepared", "committing", "committed", "loop", "loopPrepared", "aborted"}
Waiting == [stage : {"value", "ballot"}, envelope : Envelope]

ASSUME SlotAssumption ==
    /\ Honest \subseteq Node
    /\ None \notin Value
    /\ MaxCounter \in Nat
    /\ Rank \in [Counter -> [Value -> Nat]]
    /\ \A c \in Counter : \A v, w \in Value : Rank[c][v] = Rank[c][w] => v = w
    /\ MapRank \in [Value -> Nat]
    /\ \A v, w \in Value : MapRank[v] = MapRank[w] => v = w
    /\ Proposals \in [Honest -> SUBSET (Value \X BOOLEAN)]
    /\ FaultyEnvelopes \subseteq {e \in Envelope : e.node \in Node \ Honest}
    /\ InitialQSets \subseteq Node
    /\ Purgeable \subseteq Node

(* What federated agreement needs: two sets that persuade two correct      *)
(* nodes share a correct node.                                             *)
ASSUME QuorumIntersection ==
    \A n, m \in Honest : \A S, T \in SUBSET Node :
        isQuorumTransitive(n, S) /\ isQuorumTransitive(m, T) => S \cap T \cap Honest # {}

VARIABLES
    mBallot,          \* the current ballot
    mIsPristine,      \* no ballot yet
    mHeardFromQuorum, \* a quorum has spoken about mBallot
    mIsCommitted,
    mIsExternalized,
    mRunAdvanceSlot,  \* advanceSlot was called while it was running
    mStatements,      \* the statements seen, keyed by ballot, type and node
    pc,               \* the place in the body of advanceSlot
    cursor,           \* the ballot the loop of advanceSlot is at
    qsets,            \* nodes whose quorum set is cached (SCP::mKnownNodes)
    fetching,         \* nodes whose quorum set is being retrieved
    proposals,        \* the calls of prepareValue still to come
    validating,       \* envelopes that wait for a validation
    sent,             \* the envelopes broadcast so far by correct nodes
    decided           \* the values reported by valueExternalized

ballotVars == <<mBallot, mIsPristine, mHeardFromQuorum>>
finalVars == <<mIsCommitted, mIsExternalized, decided>>
bodyVars == <<mRunAdvanceSlot, pc, cursor>>
envVars == <<qsets, fetching, proposals>>
vars == <<mBallot, mIsPristine, mHeardFromQuorum, mIsCommitted, mIsExternalized,
          mRunAdvanceSlot, mStatements, pc, cursor, qsets, fetching, proposals,
          validating, sent, decided>>

Init ==
    /\ mBallot = [n \in Honest |-> NoBallot]
    /\ mIsPristine = [n \in Honest |-> TRUE]
    /\ mHeardFromQuorum = [n \in Honest |-> TRUE]
    /\ mIsCommitted = [n \in Honest |-> FALSE]
    /\ mIsExternalized = [n \in Honest |-> FALSE]
    /\ mRunAdvanceSlot = [n \in Honest |-> FALSE]
    /\ mStatements = [n \in Honest |-> {}]
    /\ pc = [n \in Honest |-> "idle"]
    /\ cursor = [n \in Honest |-> NoBallot]
    /\ qsets = [n \in Honest |-> InitialQSets \cup {n}]
    /\ fetching = [n \in Honest |-> {}]
    /\ proposals = Proposals
    /\ validating = [n \in Honest |-> {}]
    /\ sent = {}
    /\ decided = [n \in Honest |-> {}]
-----------------------------------------------------------------------------
(* Ballot order                                                            *)

(* compareBallots(a, b) < 0: by counter, then by compareValues, for which  *)
(* the empty value is the smallest.                                        *)
BallotLess(a, b) ==
    \/ a.counter < b.counter
    \/ /\ a.counter = b.counter
       /\ b.value # None
       /\ a.value # None => Rank[a.counter][a.value] < Rank[b.counter][b.value]

(* The order in which std::map<SCPBallot, ...> is traversed.               *)
MapLess(a, b) ==
    \/ a.counter < b.counter
    \/ /\ a.counter = b.counter
       /\ b.value # None
       /\ a.value # None => MapRank[a.value] < MapRank[b.value]

(* mBallot.counter + 1 on a uint32: it wraps around.                       *)
NextCounter(c) == IF c = MaxCounter THEN 0 ELSE c + 1
-----------------------------------------------------------------------------
(* The statement map                                                       *)

getNodeStatements(n, m, t) == {s \in mStatements[n] : s.node = m /\ s.type = t}

(* Nodes with a statement of type t for ballot b.                          *)
Stating(n, b, t) == {s.node : s \in {x \in mStatements[n] : x.ballot = b /\ x.type = t}}

(* mStatements[b][t][node] = statement: a later statement replaces one     *)
(* with the same key.                                                      *)
SameKey(s, t) == s.node = t.node /\ s.type = t.type /\ s.ballot = t.ballot
Stored(n, e) == {s \in mStatements[n] : ~SameKey(s, e)} \cup {e}

Statement(n, t, b) ==
    [node |-> n, type |-> t, ballot |-> b, excepted |-> {}, prepared |-> NoBallot]

(* The PREPARING statement of attemptPreparing carries every ballot we are *)
(* COMMITTING and, if there is one, the smallest ballot with this value    *)
(* that we PREPARED.                                                       *)
PreparedBallots(n) ==
    LET mine == {s.ballot : s \in {x \in getNodeStatements(n, n, "PREPARED") :
                                      x.ballot.value = mBallot[n].value}}
    IN  IF mine = {} THEN {NoBallot}
        ELSE {b \in mine : \A a \in mine : ~BallotLess(a, b)}

(* Deviation: nothing is excepted.                                         *)
PreparingNothingExcepted(n, p) == [Statement(n, "PREPARING", mBallot[n]) EXCEPT !.prepared = p]

PreparingStatement(n, p) ==
    [node |-> n, type |-> "PREPARING", ballot |-> mBallot[n],
     excepted |-> {s.ballot : s \in getNodeStatements(n, n, "COMMITTING")},
     prepared |-> p]
-----------------------------------------------------------------------------
(* The predicates that drive advanceSlot                                   *)

Says(n, b, t) == n \in Stating(n, b, t)

(* Each ballot that statement s excepts is aborted, or has value v.  A     *)
(* ballot is aborted when a v-blocking set for the node that excepts it    *)
(* PREPARED something higher.                                              *)
CompatibleOrAborted(n, b, s, v) ==
    \A c \in s.excepted :
        \/ c.value = v
        \/ isVBlocking(s.node,
              {x.node : x \in {y \in mStatements[n] :
                                  /\ y.ballot = b
                                  /\ y.type = "PREPARING"
                                  /\ y.prepared # NoBallot
                                  /\ BallotLess(c, y.prepared)}})

Ratifiers(n, b, v) ==
    {s.node : s \in {x \in mStatements[n] : /\ x.ballot = b
                                             /\ x.type = "PREPARING"
                                             /\ CompatibleOrAborted(n, b, x, v)}}

(* isPrepared returns early on these, before it needs other nodes' quorum  *)
(* sets.                                                                   *)
PreparedEarly(n, b) ==
    Says(n, b, "PREPARED") \/ isVBlocking(n, Stating(n, b, "PREPARED"))

isPrepared(n, b) ==
    \/ PreparedEarly(n, b)
    \/ isQuorumTransitive(n, Ratifiers(n, b, mBallot[n].value))

isPreparedConfirmed(n, b) ==
    Says(n, b, "COMMITTING") \/ isQuorumTransitive(n, Stating(n, b, "PREPARED"))

isCommitted(n, b) ==
    Says(n, b, "COMMITTED") \/ isQuorumTransitive(n, Stating(n, b, "COMMITTING"))

Committers(n, v) ==
    {s.node : s \in {x \in mStatements[n] : x.type = "COMMITTED" /\ x.ballot.value = v}}

(* Deviation: a v-blocking set is taken for a quorum.                      *)
CommittedConfirmedByBlocking(n, v) == isVBlocking(n, Committers(n, v))

isCommittedConfirmed(n, v) == isQuorumTransitive(n, Committers(n, v))

Speakers(n) == {s.node : s \in {x \in mStatements[n] : x.ballot = mBallot[n]}}

(* Counting the nodes in S throws Node::QuorumSetNotFound if the quorum    *)
(* set of one of them is not cached.                                       *)
Throws(n, S) == S \ qsets[n] # {}
-----------------------------------------------------------------------------
(* Where advanceSlot stops next.  Its body tests one condition after the   *)
(* other; these are the ones under which it does something.                *)

PreparingDue(n) == ~Says(n, mBallot[n], "PREPARING")

PreparedThrows(n, b) == ~PreparedEarly(n, b) /\ Throws(n, Stating(n, b, "PREPARING"))

(* Deviation: PREPARED is announced on every pass.                         *)
PreparedDueAgain(n, b) == PreparedThrows(n, b) \/ isPrepared(n, b)

PreparedDue(n, b) ==
    PreparedThrows(n, b) \/ (~Says(n, b, "PREPARED") /\ isPrepared(n, b))

CommittingDue(n) ==
    /\ ~Says(n, mBallot[n], "COMMITTING")
    /\ \/ Throws(n, Stating(n, mBallot[n], "PREPARED"))
       \/ isPreparedConfirmed(n, mBallot[n])

CommittedDue(n) ==
    /\ ~Says(n, mBallot[n], "COMMITTED")
    /\ \/ Throws(n, Stating(n, mBallot[n], "COMMITTING"))
       \/ isCommitted(n, mBallot[n])

ExternalizeDue(n) ==
    \/ Throws(n, Committers(n, mBallot[n].value))
    \/ ~mIsExternalized[n] /\ isCommittedConfirmed(n, mBallot[n].value)

(* In the loop over mStatements: a quorum COMMITTED the value of b, or b   *)
(* has been prepared and is above ours or not announced yet.               *)
LoopCommittedDue(n, b) ==
    Throws(n, Committers(n, b.value)) \/ isCommittedConfirmed(n, b.value)
LoopPreparedDue(n, b) ==
    PreparedDue(n, b) \/ (BallotLess(mBallot[n], b) /\ isPrepared(n, b))

Ahead(n) == {b \in {s.ballot : s \in mStatements[n]} :
                /\ MapLess(cursor[n], b)
                /\ LoopCommittedDue(n, b) \/ LoopPreparedDue(n, b)}
Current(n) == {b \in Ahead(n) : \A a \in Ahead(n) : ~MapLess(a, b)}

(* The body of advanceSlot from place l on: the first thing it will do.    *)
Due(n, l) ==
    LET ballotting == ~mIsPristine[n] /\ ~mIsCommitted[n] IN
    IF l = "loopPrepared" /\ LoopPreparedDue(n, cursor[n]) THEN "loopPrepared"
    ELSE IF l = "start" /\ ~mIsPristine[n] /\ mIsCommitted[n] /\ ExternalizeDue(n)
         THEN "externalize"
    ELSE IF l = "start" /\ ballotting /\ PreparingDue(n) THEN "preparing"
    ELSE IF l \in {"start", "prepared"} /\ ballotting /\ PreparedDue(n, mBallot[n])
         THEN "prepared"
    ELSE IF l \in {"start", "prepared", "committing"} /\ ballotting /\ CommittingDue(n)
         THEN "committing"
    ELSE IF /\ \/ l = "committed"
               \/ l \in {"start", "prepared", "committing"} /\ Says(n, mBallot[n], "COMMITTING")
            /\ ballotting
            /\ CommittedDue(n)
         THEN "committed"
    ELSE IF ~mIsCommitted[n] /\ ~mIsExternalized[n] /\ Ahead(n) # {} THEN "loop"
    ELSE "leave"
-----------------------------------------------------------------------------
(* Flow of control                                                         *)

Goto(n, l) == pc' = [pc EXCEPT ![n] = l]

(* Return to the caller, at l, without a call of advanceSlot.              *)
Return(n, l) == Goto(n, l) /\ UNCHANGED mRunAdvanceSlot

(* Call advanceSlot and return to l: the call starts the body, unless it   *)
(* is running already.                                                     *)
CallAdvanceSlot(n, l) ==
    IF pc[n] = "idle"
    THEN Goto(n, "start") /\ UNCHANGED mRunAdvanceSlot
    ELSE Goto(n, l) /\ mRunAdvanceSlot' = [mRunAdvanceSlot EXCEPT ![n] = TRUE]

(* Deviation: the mark of a nested call is dropped.                        *)
EndWithoutRerun(n) ==
    /\ Goto(n, "idle")
    /\ mRunAdvanceSlot' = [mRunAdvanceSlot EXCEPT ![n] = FALSE]
    /\ cursor' = [cursor EXCEPT ![n] = NoBallot]

(* The end of advanceSlot: run again if a nested call asked for it.        *)
EndAdvanceSlot(n) ==
    /\ Goto(n, IF mRunAdvanceSlot[n] THEN "start" ELSE "idle")
    /\ mRunAdvanceSlot' = [mRunAdvanceSlot EXCEPT ![n] = FALSE]
    /\ cursor' = [cursor EXCEPT ![n] = NoBallot]

(* A Node::QuorumSetNotFound thrown while the nodes in S are counted: the  *)
(* body is abandoned and the quorum set is retrieved.                      *)
QuorumSetNotFound(n, S) ==
    /\ \E m \in S \ qsets[n] : fetching' = [fetching EXCEPT ![n] = @ \cup {m}]
    /\ EndAdvanceSlot(n)
    /\ UNCHANGED <<ballotVars, finalVars, mStatements, qsets, proposals, validating, sent>>

(* The asserts of bumpToBallot.                                            *)
BumpAllowed(n, b) ==
    /\ ~mIsCommitted[n]
    /\ ~mIsExternalized[n]
    /\ \A s \in getNodeStatements(n, n, "PREPARING") : ~BallotLess(b, s.ballot)
    /\ mIsPristine[n] \/ ~BallotLess(b, mBallot[n])

bumpToBallot(n, b) ==
    /\ mBallot' = [mBallot EXCEPT ![n] = b]
    /\ mIsPristine' = [mIsPristine EXCEPT ![n] = FALSE]
    /\ mHeardFromQuorum' = [mHeardFromQuorum EXCEPT ![n] = FALSE]

(* A failed assert: the process stops.                                     *)
AssertFails(n) == Goto(n, "aborted") /\ UNCHANGED <<ballotVars, mStatements, mRunAdvanceSlot>>

Store(n, e) == mStatements' = [mStatements EXCEPT ![n] = Stored(n, e)]

(* The callback of attempt*: our own envelope is broadcast once it is      *)
(* found valid.                                                            *)
EmitOwn(n, e) == sent' = IF e.node = n THEN sent \cup {e} ELSE sent
-----------------------------------------------------------------------------
(* processEnvelope.  V is the set of envelopes left waiting for validation *)
(* and l the place to return to.                                           *)

Wait(n, V) == validating' = [validating EXCEPT ![n] = V]

(* validateBallot accepted the ballot of a PREPARING statement.            *)
BallotBumps(n, e) == mIsPristine[n] \/ BallotLess(mBallot[n], e.ballot)
BallotValid(n, e, l) ==
    IF BallotBumps(n, e) /\ ~BumpAllowed(n, e.ballot)
    THEN AssertFails(n)
    ELSE /\ IF BallotBumps(n, e) THEN bumpToBallot(n, e.ballot) ELSE UNCHANGED ballotVars
         /\ Store(n, e)
         /\ CallAdvanceSlot(n, l)

(* value_cb for PREPARING.  Whatever becomes of the ballot, the envelope   *)
(* is reported valid, and thus broadcast if it is ours.                    *)
ProcessPreparing(n, e, V, l) ==
    /\ e.type = "PREPARING"
    /\ ~mIsCommitted[n]
    /\ \/ BallotValid(n, e, l) /\ Wait(n, V)
       \/ /\ "ballot" \in Rejectable
          /\ Return(n, l)
          /\ Wait(n, V)
          /\ UNCHANGED <<ballotVars, mStatements>>
       \/ /\ "ballot" \in Deferrable
          /\ Return(n, l)
          /\ Wait(n, V \cup {[stage |-> "ballot", envelope |-> e]})
          /\ UNCHANGED <<ballotVars, mStatements>>
    /\ EmitOwn(n, e)

ProcessPrepared(n, e, l) ==
    /\ e.type = "PREPARED"
    /\ ~mIsCommitted[n]
    /\ Store(n, e)
    /\ EmitOwn(n, e)
    /\ CallAdvanceSlot(n, l)

(* COMMITTING is accepted from a node that PREPARED the ballot and whose   *)
(* later PREPARING statements all except it.                               *)
CommittingAcceptable(n, e) ==
    /\ \A s \in getNodeStatements(n, e.node, "PREPARING") :
          BallotLess(e.ballot, s.ballot) => e.ballot \in s.excepted
    /\ \E s \in getNodeStatements(n, e.node, "PREPARED") : s.ballot = e.ballot

ProcessCommitting(n, e, l) ==
    /\ e.type = "COMMITTING"
    /\ ~mIsCommitted[n]
    /\ IF CommittingAcceptable(n, e)
       THEN Store(n, e) /\ EmitOwn(n, e) /\ CallAdvanceSlot(n, l)
       ELSE UNCHANGED <<mStatements, sent>> /\ Return(n, l)

(* A node's first COMMITTED statement is the only one that counts.         *)
ProcessCommitted(n, e, l) ==
    /\ e.type = "COMMITTED"
    /\ IF getNodeStatements(n, e.node, "COMMITTED") = {}
       THEN Store(n, e) /\ EmitOwn(n, e) /\ CallAdvanceSlot(n, l)
       ELSE UNCHANGED <<mStatements, sent>> /\ Return(n, l)

(* Anything else that reaches a committed slot is answered with our own    *)
(* COMMITTED statement.                                                    *)
ProcessLate(n, e, l) ==
    /\ e.type # "COMMITTED"
    /\ mIsCommitted[n]
    /\ sent' = (IF e.node = n THEN {e} ELSE {})
                  \cup sent \cup {Statement(n, "COMMITTED", mBallot[n])}
    /\ UNCHANGED mStatements
    /\ Return(n, l)

(* validateValue accepted the value.                                       *)
ValueValid(n, e, V, l) ==
    \/ ProcessPreparing(n, e, V, l)
    \/ /\ \/ ProcessPrepared(n, e, l)
          \/ ProcessCommitting(n, e, l)
          \/ ProcessCommitted(n, e, l)
          \/ ProcessLate(n, e, l)
       /\ Wait(n, V)
       /\ UNCHANGED ballotVars

(* Herder's validateValue refuses a value, or waits for its transaction    *)
(* set.  The transaction set of a value that was found valid once is at    *)
(* hand until the slot ends, and so is that of a value of our own.         *)
Validated(n) == {s.ballot.value : s \in mStatements[n]}

ValueRefused(n, e, l) ==
    /\ "value" \in Rejectable
    /\ e.ballot.value \notin Validated(n)
    /\ Return(n, l)
    /\ UNCHANGED <<mStatements, validating, sent>>

ValueDeferred(n, e, l) ==
    /\ "value" \in Deferrable
    /\ e.node # n
    /\ e.ballot.value \notin Validated(n)
    /\ Wait(n, validating[n] \cup {[stage |-> "value", envelope |-> e]})
    /\ Return(n, l)
    /\ UNCHANGED <<mStatements, sent>>

processEnvelope(n, e, l) ==
    \/ ValueValid(n, e, validating[n], l)
    \/ (ValueRefused(n, e, l) \/ ValueDeferred(n, e, l)) /\ UNCHANGED ballotVars
-----------------------------------------------------------------------------
(* The body of advanceSlot                                                 *)

attemptPreparing(n) ==
    /\ \E p \in PreparedBallots(n) : processEnvelope(n, PreparingStatement(n, p), "prepared")
    /\ UNCHANGED <<finalVars, envVars, cursor>>

attemptPrepared(n) ==
    /\ IF PreparedThrows(n, mBallot[n])
       THEN QuorumSetNotFound(n, Stating(n, mBallot[n], "PREPARING"))
       ELSE /\ processEnvelope(n, Statement(n, "PREPARED", mBallot[n]), "committing")
            /\ UNCHANGED <<finalVars, envVars, cursor>>

attemptCommitting(n) ==
    /\ LET S == Stating(n, mBallot[n], "PREPARED") IN
       IF Throws(n, S)
       THEN QuorumSetNotFound(n, S)
       ELSE /\ processEnvelope(n, Statement(n, "COMMITTING", mBallot[n]), "committed")
            /\ UNCHANGED <<finalVars, envVars, cursor>>

(* Deviation: the slot is not marked committed.                            *)
CommitUnmarked(n, b, l) ==
    /\ ProcessCommitted(n, Statement(n, "COMMITTED", b), l)
    /\ UNCHANGED <<finalVars, envVars, validating>>

(* The slot is marked committed before its statement is processed.  The    *)
(* value is that of a statement we hold, so it is valid.                   *)
commitTo(n, b, l) ==
    /\ mIsCommitted' = [mIsCommitted EXCEPT ![n] = TRUE]
    /\ ProcessCommitted(n, Statement(n, "COMMITTED", b), l)
    /\ UNCHANGED <<mIsExternalized, decided, envVars, validating>>

attemptCommitted(n) ==
    /\ LET S == Stating(n, mBallot[n], "COMMITTING") IN
       IF Throws(n, S)
       THEN QuorumSetNotFound(n, S)
       ELSE commitTo(n, mBallot[n], "loop") /\ UNCHANGED <<ballotVars, cursor>>

attemptExternalize(n) ==
    /\ LET S == Committers(n, mBallot[n].value) IN
       IF Throws(n, S)
       THEN QuorumSetNotFound(n, S)
       ELSE /\ mIsExternalized' = [mIsExternalized EXCEPT ![n] = TRUE]
            /\ decided' = [decided EXCEPT ![n] = @ \cup {mBallot[n].value}]
            /\ Return(n, "loop")
            /\ UNCHANGED <<ballotVars, mIsCommitted, mStatements, envVars, validating, sent, cursor>>

(* The ballot to commit when a quorum COMMITTED v: the largest of our own  *)
(* ballot with that value (one counter up if that is below ours) and the   *)
(* ballots of the COMMITTED statements for v.                              *)
ExternalizeBallots(n, v) ==
    LET same == [counter |-> mBallot[n].counter, value |-> v]
        low  == IF BallotLess(same, mBallot[n])
                THEN [same EXCEPT !.counter = NextCounter(@)] ELSE same
        seen == {low} \cup {s.ballot : s \in {x \in mStatements[n] :
                                   x.type = "COMMITTED" /\ x.ballot.value = v}}
    IN  {b \in seen : \A a \in seen : ~BallotLess(b, a)}

(* An iteration of the loop over mStatements.  A quorum COMMITTED the      *)
(* value: we commit to it as well.                                         *)
LoopCommitted(n, b) ==
    /\ LoopCommittedDue(n, b)
    /\ IF Throws(n, Committers(n, b.value))
       THEN QuorumSetNotFound(n, Committers(n, b.value))
       ELSE /\ cursor' = [cursor EXCEPT ![n] = b]
            /\ \E bext \in ExternalizeBallots(n, b.value) :
                  IF BumpAllowed(n, bext)
                  THEN bumpToBallot(n, bext) /\ commitTo(n, bext, "loopPrepared")
                  ELSE AssertFails(n) /\ UNCHANGED <<finalVars, envVars, validating, sent>>

(* The ballot b is prepared: if it is above ours we move to it, otherwise  *)
(* we say that it is.                                                      *)
BallotIsPrepared(n, b) ==
    IF PreparedThrows(n, b)
    THEN QuorumSetNotFound(n, Stating(n, b, "PREPARING"))
    ELSE /\ IF BallotLess(mBallot[n], b)
            THEN IF BumpAllowed(n, b)
                 THEN /\ bumpToBallot(n, b)
                      /\ mRunAdvanceSlot' = [mRunAdvanceSlot EXCEPT ![n] = TRUE]
                      /\ Goto(n, "loop")
                      /\ UNCHANGED <<mStatements, validating, sent>>
                 ELSE AssertFails(n) /\ UNCHANGED <<validating, sent>>
            ELSE processEnvelope(n, Statement(n, "PREPARED", b), "loop")
         /\ cursor' = [cursor EXCEPT ![n] = b]
         /\ UNCHANGED <<finalVars, envVars>>

LoopPrepared(n, b) == ~LoopCommittedDue(n, b) /\ BallotIsPrepared(n, b)

(* The loop is over: note whether a quorum has spoken about our ballot,    *)
(* and leave.                                                              *)
LeaveAdvanceSlot(n) ==
    /\ IF ~mHeardFromQuorum[n] /\ Throws(n, Speakers(n))
       THEN QuorumSetNotFound(n, Speakers(n))
       ELSE /\ mHeardFromQuorum' = [mHeardFromQuorum EXCEPT ![n] =
                                       @ \/ isQuorumTransitive(n, Speakers(n))]
            /\ EndAdvanceSlot(n)
            /\ UNCHANGED <<mBallot, mIsPristine, finalVars, mStatements, envVars, validating, sent>>

Perform(n, due) ==
    \/ due = "preparing" /\ attemptPreparing(n)
    \/ due = "prepared" /\ attemptPrepared(n)
    \/ due = "committing" /\ attemptCommitting(n)
    \/ due = "committed" /\ attemptCommitted(n)
    \/ due = "externalize" /\ attemptExternalize(n)
    \/ due = "loop" /\ \E b \in Current(n) : LoopCommitted(n, b)
    \/ due = "loop" /\ \E b \in Current(n) : LoopPrepared(n, b)
    \/ due = "loopPrepared" /\ BallotIsPrepared(n, cursor[n])
    \/ due = "leave" /\ LeaveAdvanceSlot(n)

advanceSlot(n) == pc[n] \notin {"idle", "aborted"} /\ Perform(n, Due(n, pc[n]))
-----------------------------------------------------------------------------
(* Entry points.  A node whose process aborted is gone.                    *)

Idle(n) ==
    /\ pc[n] = "idle"
    /\ \A m \in Honest : pc[m] \in {"idle", "aborted"}

(* SCP::receiveEnvelope of an envelope that any other node sent: it may    *)
(* arrive late, more than once, out of order, or never.                    *)
receiveEnvelope(n, e) ==
    /\ Idle(n)
    /\ e \in sent \cup FaultyEnvelopes
    /\ e.node # n
    /\ processEnvelope(n, e, "idle")
    /\ UNCHANGED <<finalVars, envVars, cursor>>

(* Deviation: the counter is always raised and does not wrap.              *)
ProposedAtNextCounter(n, v, force) == [counter |-> mBallot[n].counter + 1, value |-> v]

(* Deviation: the counter is never raised.                                 *)
ProposedAtSameCounter(n, v, force) ==
    [counter |-> IF force THEN NextCounter(mBallot[n].counter) ELSE mBallot[n].counter, value |-> v]

(* The counter grows if the value is below that of our ballot, or if the   *)
(* caller insists.                                                         *)
ProposedBallot(n, v, force) ==
    LET same == [counter |-> mBallot[n].counter, value |-> v] IN
    IF force \/ (~mIsPristine[n] /\ BallotLess(same, mBallot[n]))
    THEN [same EXCEPT !.counter = NextCounter(@)] ELSE same

prepareValue(n, v, force) ==
    /\ Idle(n)
    /\ <<v, force>> \in proposals[n]
    /\ proposals' = [proposals EXCEPT ![n] = @ \ {<<v, force>>}]
    /\ IF mIsCommitted[n]
       THEN Return(n, "idle") /\ UNCHANGED <<ballotVars, mStatements>>
       ELSE LET b == ProposedBallot(n, v, force) IN
            IF BumpAllowed(n, b)
            THEN bumpToBallot(n, b) /\ CallAdvanceSlot(n, "idle") /\ UNCHANGED mStatements
            ELSE AssertFails(n)
    /\ UNCHANGED <<finalVars, qsets, fetching, cursor, validating, sent>>

(* A validation that was deferred completes.                               *)
ValueValidated(n, w) ==
    /\ Idle(n)
    /\ w \in validating[n]
    /\ w.stage = "value"
    /\ ValueValid(n, w.envelope, validating[n] \ {w}, "idle")
    /\ UNCHANGED <<finalVars, envVars, cursor>>

BallotValidated(n, w) ==
    /\ Idle(n)
    /\ w \in validating[n]
    /\ w.stage = "ballot"
    /\ Wait(n, validating[n] \ {w})
    /\ BallotValid(n, w.envelope, "idle")
    /\ UNCHANGED <<finalVars, envVars, cursor, sent>>

(* Deviation: the quorum set is cached and nothing else.                   *)
RetrievedNotAdvanced(n, m) ==
    /\ Idle(n)
    /\ m \in fetching[n]
    /\ fetching' = [fetching EXCEPT ![n] = @ \ {m}]
    /\ qsets' = [qsets EXCEPT ![n] = @ \cup {m}]
    /\ UNCHANGED <<ballotVars, finalVars, bodyVars, mStatements, proposals, validating, sent>>

(* The callback of SCP::retrieveQuorumSet.                                 *)
quorumSetRetrieved(n, m) ==
    /\ Idle(n)
    /\ m \in fetching[n]
    /\ fetching' = [fetching EXCEPT ![n] = @ \ {m}]
    /\ qsets' = [qsets EXCEPT ![n] = @ \cup {m}]
    /\ CallAdvanceSlot(n, "idle")
    /\ UNCHANGED <<ballotVars, finalVars, mStatements, cursor, proposals, validating, sent>>

(* SCP::purgeNode forgets the cached quorum sets of a node.                *)
purgeNode(n, m) ==
    /\ Idle(n)
    /\ m \in Purgeable \cap qsets[n]
    /\ qsets' = [qsets EXCEPT ![n] = @ \ {m}]
    /\ UNCHANGED <<ballotVars, finalVars, bodyVars, mStatements, fetching, proposals, validating,
                   sent>>

Deliver(n) == \E e \in (sent \cup FaultyEnvelopes) \ mStatements[n] : receiveEnvelope(n, e)
Propose(n) == \E p \in proposals[n] : prepareValue(n, p[1], p[2])
Retrieve(n) == \E m \in fetching[n] : quorumSetRetrieved(n, m)

(* The calls a node gets.  An envelope whose statement is already stored   *)
(* is left out: it would change nothing (Settled).                         *)
Enter(n) ==
    \/ Deliver(n)
    \/ Propose(n)
    \/ \E w \in validating[n] : ValueValidated(n, w) \/ BallotValidated(n, w)
    \/ Retrieve(n)
    \/ \E m \in Purgeable : purgeNode(n, m)

Next == \E n \in Honest : advanceSlot(n) \/ Enter(n)

Spec == Init /\ [][Next]_vars

(* The event loop of a node runs a handler it started to its end.          *)
FairSpec == Spec /\ \A n \in Honest : WF_vars(advanceSlot(n))

(* A network that delivers: overlay links are TCP streams and the last     *)
(* statement of a node is repeated every two seconds, so what was sent     *)
(* arrives, after what it depends on; the trigger timer makes each node    *)
(* propose.                                                                *)
LiveSpec ==
    /\ FairSpec
    /\ \A n \in Honest : WF_vars(Deliver(n)) /\ WF_vars(Propose(n)) /\ WF_vars(Retrieve(n))
-----------------------------------------------------------------------------
(* Properties                                                              *)

(* The members of Slot, the envelopes and the bookkeeping of handlers have *)
(* the types the code gives them; no statement carries an empty ballot.    *)
TypeOK ==
    /\ mBallot \in [Honest -> Ballot \cup {NoBallot}]
    /\ mIsPristine \in [Honest -> BOOLEAN]
    /\ mHeardFromQuorum \in [Honest -> BOOLEAN]
    /\ mIsCommitted \in [Honest -> BOOLEAN]
    /\ mIsExternalized \in [Honest -> BOOLEAN]
    /\ mRunAdvanceSlot \in [Honest -> BOOLEAN]
    /\ mStatements \in [Honest -> SUBSET Envelope]
    /\ pc \in [Honest -> Place]
    /\ cursor \in [Honest -> Ballot \cup {NoBallot}]
    /\ qsets \in [Honest -> SUBSET Node]
    /\ fetching \in [Honest -> SUBSET Node]
    /\ proposals \in [Honest -> SUBSET (Value \X BOOLEAN)]
    /\ validating \in [Honest -> SUBSET Waiting]
    /\ sent \subseteq Envelope
    /\ decided \in [Honest -> SUBSET Value]

(* Safety of consensus: the values that correct nodes report through       *)
(* valueExternalized for the slot are all the same, whatever the other     *)
(* nodes send and however validations complete.                            *)
Agreement ==
    \A n, m \in Honest : \A v \in decided[n], w \in decided[m] : v = w

(* "Once COMMITTED, a slot cannot switch to another value" (SCP.h): every  *)
(* COMMITTED envelope of a correct node, broadcast, stored or still being  *)
(* validated, names the ballot the node is at and never leaves.            *)
CommitLock ==
    \A n \in Honest :
        \A e \in sent \cup mStatements[n] \cup {w.envelope : w \in validating[n]} :
            e.node = n /\ e.type = "COMMITTED" => mIsCommitted[n] /\ e.ballot = mBallot[n]

(* The promise behind "excepted": once a node is COMMITTING a ballot, each *)
(* PREPARING statement it sends for a higher one says so, even if the      *)
(* COMMITTING statement was validated after that ballot was taken up.      *)
ExceptedPromise ==
    \A e, f \in sent :
        /\ e.node = f.node
        /\ e.type = "COMMITTING"
        /\ f.type = "PREPARING"
        /\ BallotLess(e.ballot, f.ballot)
        => e.ballot \in f.excepted

(* "`bumpToBallot` should be never called once we committed" (Slot.cpp):   *)
(* this assert and the others of bumpToBallot hold whenever it is called.  *)
NoAbort == \A n \in Honest : pc[n] # "aborted"

(* The one assert that can fail is that of a verdict on a ballot which     *)
(* comes when the slot has committed meanwhile: none fails in the body of  *)
(* advanceSlot, in a call of prepareValue or before the slot committed.    *)
OnlyLateVerdictsAbort ==
    \A n \in Honest :
        pc[n] = "aborted" => "ballot" \in Deferrable /\ mIsCommitted[n] /\ cursor[n] = NoBallot

(* The ballot of our own PREPARING statement was refused, or still waits   *)
(* for its verdict.                                                        *)
HeldBack(n) ==
    \/ Rejectable # {}
    \/ \E w \in validating[n] :
          w.stage = "ballot" /\ w.envelope.node = n /\ w.envelope.ballot = mBallot[n]

Heard(n) == {s.node : s \in mStatements[n]}

(* advanceSlot never stops early: a node at rest that has the quorum sets  *)
(* of all who spoke has drawn every conclusion its statements allow, but   *)
(* for a PREPARING statement that is held back, although the calls nested  *)
(* in the body only leave a mark.                                          *)
Settled ==
    \A n \in Honest :
        pc[n] = "idle" /\ ~Throws(n, Heard(n)) =>
            /\ \/ Due(n, "start") = "leave"
               \/ Due(n, "start") = "preparing" /\ HeldBack(n) /\ Due(n, "prepared") = "leave"
            /\ mHeardFromQuorum[n] \/ ~isQuorumTransitive(n, Speakers(n))

(* The rerun loop of advanceSlot ends: a handler that starts returns to    *)
(* the event loop.                                                         *)
HandlerEnds == \A n \in Honest : pc[n] # "idle" ~> pc[n] \in {"idle", "aborted"}

(* "The ratifying node have all its excepted B_c ballots compatible or     *)
(* aborted" (Slot.cpp): a node announces PREPARED for a ballot only after  *)
(* a v-blocking set did, or after a quorum whose excepted ballots have the *)
(* value of that ballot or are aborted.                                    *)
PreparedIsRatified ==
    [][\A n \in Honest : \A e \in sent' \ sent :
          e.node = n /\ e.type = "PREPARED" =>
              \/ isVBlocking(n, Stating(n, e.ballot, "PREPARED"))
              \/ isQuorumTransitive(n, Ratifiers(n, e.ballot, e.ballot.value))]_vars

(* Every correct node externalizes once the network delivers.              *)
Externalizes == \A n \in Honest : <>mIsExternalized[n]

(* The values that can come up in the slot: a correct node is asked to     *)
(* propose them, or a faulty one sends them.                               *)
Candidates ==
    {p[1] : p \in UNION {Proposals[n] : n \in Honest}}
    \cup {e.ballot.value : e \in FaultyEnvelopes}

(* The slots of the correct nodes together are a slot of consensus: each   *)
(* reports valueExternalized for one value only, all for the same, and for *)
(* one that somebody brought in.                                           *)
SlotConsensus == INSTANCE Consensus WITH Nodes <- Honest
ImplementsConsensus == SlotConsensus!Spec

(* What advanceSlot owes its callers in every state: no assert on the way, *)
(* and no conclusion left undrawn when it is done.                         *)
AdvanceSlotSound == OnlyLateVerdictsAbort /\ Settled

(* What it owes them in the end: each call returns, and the slot           *)
(* externalizes.                                                           *)
SlotFinishes == HandlerEnds /\ Externalizes

=============================================================================
