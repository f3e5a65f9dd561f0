--------------------------- MODULE SCPSlotProofs ---------------------------
(***************************************************************************)
(* Proofs about SCPSlot, for every set of nodes, quorum sets, values and   *)
(* faulty envelopes that satisfy the assumptions of the module.            *)
(***************************************************************************)
EXTENDS SCPSlot, QuorumTransitive, FiniteSetTheorems, TLAPS

-----------------------------------------------------------------------------
(* Type correctness                                                        *)

(* TypeOK is not inductive by itself: that a statement carries a ballot    *)
(* and not NoBallot rests on which places can be reached while mBallot or  *)
(* cursor are still unset.                                                 *)
BallotIsSet == \A n \in Honest : mIsPristine[n] \/ mBallot[n] \in Ballot
CursorIsSet == \A n \in Honest : pc[n] = "loopPrepared" => cursor[n] \in Ballot
CommittedHasBallot == \A n \in Honest : mIsCommitted[n] => ~mIsPristine[n]
TypeInv == TypeOK /\ BallotIsSet /\ CursorIsSet /\ CommittedHasBallot

(* NextCounter wraps around inside Counter.                                *)
LEMMA NextCounterType == ASSUME NEW c \in Counter PROVE NextCounter(c) \in Counter
  BY SlotAssumption DEF NextCounter, Counter

(* A statement we create is an envelope.                                   *)
LEMMA StatementIsEnvelope ==
  ASSUME NEW n \in Node, NEW t \in StatementType, NEW b \in Ballot
  PROVE  Statement(n, t, b) \in Envelope
  BY DEF Statement, Envelope

(* Storing an envelope keeps the statement map a set of envelopes.         *)
LEMMA StoreType ==
  ASSUME TypeOK, NEW n \in Honest, NEW e \in Envelope, Store(n, e)
  PROVE  mStatements' \in [Honest -> SUBSET Envelope]
  BY DEF TypeOK, Store, Stored

(* A call of advanceSlot or a return leaves the body at a known place.     *)
LEMMA ControlType ==
  ASSUME TypeOK, NEW n \in Honest, NEW l \in Place, CallAdvanceSlot(n, l) \/ Return(n, l)
  PROVE  /\ pc' \in [Honest -> Place]
         /\ mRunAdvanceSlot' \in [Honest -> BOOLEAN]
         /\ \A m \in Honest : pc'[m] = "loopPrepared" => pc[m] = "loopPrepared" \/ l = "loopPrepared"
  BY DEF TypeOK, CallAdvanceSlot, Return, Goto, Place

LEMMA EndType ==
  ASSUME TypeOK, NEW n \in Honest, EndAdvanceSlot(n)
  PROVE  /\ pc' \in [Honest -> Place]
         /\ mRunAdvanceSlot' \in [Honest -> BOOLEAN]
         /\ cursor' \in [Honest -> Ballot \cup {NoBallot}]
         /\ \A m \in Honest : pc'[m] = "loopPrepared" =>
               pc[m] = "loopPrepared" /\ cursor'[m] = cursor[m]
  BY DEF TypeOK, EndAdvanceSlot, Goto, Place

(* Moving to a ballot.                                                     *)
LEMMA BumpType ==
  ASSUME TypeInv, NEW n \in Honest, NEW b \in Ballot, bumpToBallot(n, b)
  PROVE  /\ mBallot' \in [Honest -> Ballot \cup {NoBallot}]
         /\ mIsPristine' \in [Honest -> BOOLEAN]
         /\ mHeardFromQuorum' \in [Honest -> BOOLEAN]
         /\ BallotIsSet'
         /\ \A m \in Honest : ~mIsPristine[m] => ~mIsPristine'[m]
         /\ ~mIsPristine'[n]
  BY DEF TypeInv, TypeOK, BallotIsSet, bumpToBallot

(* What a handler may change besides the slot's verdict and the cursor.    *)
HandlerType ==
    /\ mBallot' \in [Honest -> Ballot \cup {NoBallot}]
    /\ mIsPristine' \in [Honest -> BOOLEAN]
    /\ mHeardFromQuorum' \in [Honest -> BOOLEAN]
    /\ mRunAdvanceSlot' \in [Honest -> BOOLEAN]
    /\ mStatements' \in [Honest -> SUBSET Envelope]
    /\ pc' \in [Honest -> Place]
    /\ validating' \in [Honest -> SUBSET Waiting]
    /\ sent' \subseteq Envelope
    /\ BallotIsSet'
    /\ \A m \in Honest : ~mIsPristine[m] => ~mIsPristine'[m]
    /\ \A m \in Honest : pc'[m] = "loopPrepared" => pc[m] = "loopPrepared"

(* A valid ballot is stored, after moving to it if it is above ours.       *)
LEMMA BallotValidType ==
  ASSUME TypeInv, NEW n \in Honest, NEW e \in Envelope, NEW l \in Place \ {"loopPrepared"},
         BallotValid(n, e, l), validating' \in [Honest -> SUBSET Waiting], sent' \subseteq Envelope
  PROVE  HandlerType
  <1>1. e.ballot \in Ballot
    BY DEF Envelope
  <1>2. CASE AssertFails(n)
    BY <1>2 DEF TypeInv, TypeOK, HandlerType, AssertFails, Goto, Place, ballotVars, BallotIsSet
  <1>3. CASE bumpToBallot(n, e.ballot) /\ Store(n, e) /\ CallAdvanceSlot(n, l)
    BY <1>1, <1>3, BumpType, StoreType, ControlType DEF TypeInv, HandlerType
  <1>4. CASE UNCHANGED ballotVars /\ Store(n, e) /\ CallAdvanceSlot(n, l)
    BY <1>4, StoreType, ControlType DEF TypeInv, TypeOK, HandlerType, ballotVars, BallotIsSet
  <1> QED
    BY <1>2, <1>3, <1>4 DEF BallotValid

(* A node may broadcast an envelope of its own.                            *)
LEMMA EmitOwnType ==
  ASSUME TypeOK, NEW n \in Honest, NEW e \in Envelope, EmitOwn(n, e)
  PROVE  sent' \subseteq Envelope
  BY DEF TypeOK, EmitOwn

LEMMA WaitType ==
  ASSUME TypeOK, NEW n \in Honest, NEW V \in SUBSET Waiting, Wait(n, V)
  PROVE  validating' \in [Honest -> SUBSET Waiting]
  BY DEF TypeOK, Wait

(* The value callback of processEnvelope keeps the types.                  *)
LEMMA ValueValidType ==
  ASSUME TypeInv, NEW n \in Honest, NEW e \in Envelope, NEW V \in SUBSET Waiting,
         NEW l \in Place \ {"loopPrepared"}, ValueValid(n, e, V, l)
  PROVE  HandlerType
  <1> USE DEF TypeInv
  <1>1. CASE ProcessPreparing(n, e, V, l)
    <2>1. sent' \subseteq Envelope
      BY <1>1, EmitOwnType DEF ProcessPreparing
    <2>2. V \cup {[stage |-> "ballot", envelope |-> e]} \in SUBSET Waiting
      BY DEF Waiting
    <2>3. validating' \in [Honest -> SUBSET Waiting]
      BY <1>1, <2>2, WaitType DEF ProcessPreparing
    <2>4. CASE BallotValid(n, e, l)
      BY <2>1, <2>3, <2>4, BallotValidType
    <2>5. CASE Return(n, l) /\ UNCHANGED <<ballotVars, mStatements>>
      BY <2>1, <2>3, <2>5, ControlType DEF TypeOK, HandlerType, ballotVars, BallotIsSet
    <2> QED
      BY <1>1, <2>4, <2>5 DEF ProcessPreparing
  <1>2. CASE /\ \/ ProcessPrepared(n, e, l)
                \/ ProcessCommitting(n, e, l)
                \/ ProcessCommitted(n, e, l)
                \/ ProcessLate(n, e, l)
             /\ Wait(n, V)
             /\ UNCHANGED ballotVars
    <2>1. validating' \in [Honest -> SUBSET Waiting]
      BY <1>2, WaitType
    <2>2. CASE Store(n, e) /\ EmitOwn(n, e) /\ CallAdvanceSlot(n, l)
      BY <1>2, <2>1, <2>2, StoreType, EmitOwnType, ControlType
      DEF TypeOK, HandlerType, ballotVars, BallotIsSet
    <2>3. CASE UNCHANGED <<mStatements, sent>> /\ Return(n, l)
      BY <1>2, <2>1, <2>3, ControlType DEF TypeOK, HandlerType, ballotVars, BallotIsSet
    <2>4. CASE ProcessLate(n, e, l)
      <3>1. Statement(n, "COMMITTED", mBallot[n]) \in Envelope
        BY <2>4, StatementIsEnvelope, SlotAssumption
        DEF ProcessLate, CommittedHasBallot, BallotIsSet, StatementType
      <3>2. sent' \subseteq Envelope
        BY <2>4, <3>1 DEF ProcessLate, TypeOK
      <3> QED
        BY <1>2, <2>1, <2>4, <3>2, ControlType
        DEF ProcessLate, TypeOK, HandlerType, ballotVars, BallotIsSet
    <2> QED
      BY <1>2, <2>2, <2>3, <2>4 DEF ProcessPrepared, ProcessCommitting, ProcessCommitted
  <1> QED
    BY <1>1, <1>2 DEF ValueValid

(* And so does processEnvelope.                                            *)
LEMMA ProcessEnvelopeType ==
  ASSUME TypeInv, NEW n \in Honest, NEW e \in Envelope, NEW l \in Place \ {"loopPrepared"},
         processEnvelope(n, e, l)
  PROVE  HandlerType
  <1> USE DEF TypeInv
  <1>1. CASE ValueValid(n, e, validating[n], l)
    BY <1>1, ValueValidType DEF TypeOK
  <1>2. CASE ValueRefused(n, e, l) /\ UNCHANGED ballotVars
    BY <1>2, ControlType DEF ValueRefused, TypeOK, HandlerType, ballotVars, BallotIsSet
  <1>3. CASE ValueDeferred(n, e, l) /\ UNCHANGED ballotVars
    <2>1. validating[n] \cup {[stage |-> "value", envelope |-> e]} \in SUBSET Waiting
      BY DEF Waiting, TypeOK
    <2> QED
      BY <1>3, <2>1, WaitType, ControlType DEF ValueDeferred, TypeOK, HandlerType, ballotVars, BallotIsSet
  <1> QED
    BY <1>1, <1>2, <1>3 DEF processEnvelope

(* A handler that leaves the verdict alone keeps the invariant, wherever   *)
(* the loop of advanceSlot is.                                             *)
LEMMA HandlerInv ==
  ASSUME TypeInv, NEW n \in Honest, HandlerType, UNCHANGED <<finalVars, envVars>>,
         \/ UNCHANGED cursor
         \/ \E b \in Ballot : cursor' = [cursor EXCEPT ![n] = b]
  PROVE  TypeInv'
  <1> USE DEF TypeInv, TypeOK, HandlerType, finalVars, envVars
  <1>1. TypeOK'
    OBVIOUS
  <1>2. CursorIsSet'
    BY DEF CursorIsSet
  <1> QED
    BY <1>1, <1>2 DEF CommittedHasBallot

(* So does an abandoned body.                                              *)
LEMMA NotFoundInv ==
  ASSUME TypeInv, NEW n \in Honest, NEW S \in SUBSET Node, QuorumSetNotFound(n, S)
  PROVE  TypeInv'
  <1> USE DEF TypeInv, QuorumSetNotFound, ballotVars, finalVars
  <1>1. TypeOK'
    BY EndType DEF TypeOK
  <1>2. CursorIsSet'
    BY EndType DEF CursorIsSet
  <1> QED
    BY <1>1, <1>2 DEF BallotIsSet, CommittedHasBallot

(* The nodes that are counted are nodes.                                   *)
LEMMA StatingType ==
  ASSUME TypeOK, NEW n \in Honest, NEW b, NEW t
  PROVE  Stating(n, b, t) \in SUBSET Node
  BY DEF TypeOK, Stating, Envelope

LEMMA CommittersType ==
  ASSUME TypeOK, NEW n \in Honest, NEW v
  PROVE  Committers(n, v) \in SUBSET Node
  BY DEF TypeOK, Committers, Envelope

(* What the body of advanceSlot knows when it acts.                        *)
LEMMA DueFacts ==
  ASSUME NEW n \in Honest, NEW l \in Place
  PROVE  /\ Due(n, l) \in {"preparing", "prepared", "committing", "committed"} =>
               ~mIsPristine[n] /\ ~mIsCommitted[n]
         /\ Due(n, l) = "externalize" => ~mIsPristine[n] /\ mIsCommitted[n] /\ ExternalizeDue(n)
         /\ Due(n, l) = "loop" => ~mIsCommitted[n]
         /\ Due(n, l) = "loopPrepared" => l = "loopPrepared"
  BY DEF Due

(* The body of advanceSlot keeps the types, one place after the other.     *)
LEMMA PreparingInv ==
  ASSUME TypeInv, NEW n \in Honest, ~mIsPristine[n], attemptPreparing(n)
  PROVE  TypeInv'
  <1> USE DEF TypeInv
  <1>1. PICK p \in PreparedBallots(n) : processEnvelope(n, PreparingStatement(n, p), "prepared")
    BY DEF attemptPreparing
  <1>2. p \in Ballot \cup {NoBallot}
    BY DEF TypeOK, PreparedBallots, getNodeStatements, Envelope
  <1>3. {s.ballot : s \in getNodeStatements(n, n, "COMMITTING")} \in SUBSET Ballot
    BY DEF TypeOK, getNodeStatements, Envelope
  <1>4. PreparingStatement(n, p) \in Envelope
    BY <1>2, <1>3, SlotAssumption DEF PreparingStatement, Envelope, BallotIsSet, StatementType
  <1>5. HandlerType
    BY <1>1, <1>4, ProcessEnvelopeType DEF Place
  <1> QED
    BY <1>5, HandlerInv DEF attemptPreparing

LEMMA PreparedInv ==
  ASSUME TypeInv, NEW n \in Honest, ~mIsPristine[n], attemptPrepared(n)
  PROVE  TypeInv'
  <1> USE DEF TypeInv
  <1>1. CASE PreparedThrows(n, mBallot[n])
    BY <1>1, StatingType, NotFoundInv DEF attemptPrepared
  <1>2. CASE ~PreparedThrows(n, mBallot[n])
    <2>1. Statement(n, "PREPARED", mBallot[n]) \in Envelope
      BY StatementIsEnvelope, SlotAssumption DEF BallotIsSet, StatementType
    <2>2. HandlerType
      BY <1>2, <2>1, ProcessEnvelopeType DEF attemptPrepared, Place
    <2> QED
      BY <1>2, <2>2, HandlerInv DEF attemptPrepared
  <1> QED
    BY <1>1, <1>2

LEMMA CommittingInv ==
  ASSUME TypeInv, NEW n \in Honest, ~mIsPristine[n], attemptCommitting(n)
  PROVE  TypeInv'
  <1> USE DEF TypeInv
  <1>1. CASE Throws(n, Stating(n, mBallot[n], "PREPARED"))
    BY <1>1, StatingType, NotFoundInv DEF attemptCommitting
  <1>2. CASE ~Throws(n, Stating(n, mBallot[n], "PREPARED"))
    <2>1. Statement(n, "COMMITTING", mBallot[n]) \in Envelope
      BY StatementIsEnvelope, SlotAssumption DEF BallotIsSet, StatementType
    <2>2. HandlerType
      BY <1>2, <2>1, ProcessEnvelopeType DEF attemptCommitting, Place
    <2> QED
      BY <1>2, <2>2, HandlerInv DEF attemptCommitting
  <1> QED
    BY <1>1, <1>2

(* Committing, with or without a move to another ballot.                   *)
LEMMA CommitToInv ==
  ASSUME TypeInv, NEW n \in Honest, NEW b \in Ballot, NEW l \in Place, commitTo(n, b, l),
         \/ ~mIsPristine[n] /\ UNCHANGED <<ballotVars, cursor>> /\ l # "loopPrepared"
         \/ bumpToBallot(n, b) /\ cursor' \in [Honest -> Ballot \cup {NoBallot}]
            /\ cursor'[n] \in Ballot /\ \A m \in Honest \ {n} : cursor'[m] = cursor[m]
  PROVE  TypeInv'
  <1> USE DEF TypeInv
  <1>1. Statement(n, "COMMITTED", b) \in Envelope
    BY StatementIsEnvelope, SlotAssumption DEF StatementType
  <1>2. mStatements' \in [Honest -> SUBSET Envelope] /\ sent' \in SUBSET Envelope
    BY <1>1, StoreType, EmitOwnType DEF commitTo, ProcessCommitted, TypeOK
  <1>3. /\ pc' \in [Honest -> Place]
        /\ mRunAdvanceSlot' \in [Honest -> BOOLEAN]
        /\ \A m \in Honest : pc'[m] = "loopPrepared" => pc[m] = "loopPrepared" \/ l = "loopPrepared"
    BY ControlType DEF commitTo, ProcessCommitted
  <1>4. /\ mBallot' \in [Honest -> Ballot \cup {NoBallot}]
        /\ mIsPristine' \in [Honest -> BOOLEAN]
        /\ mHeardFromQuorum' \in [Honest -> BOOLEAN]
        /\ BallotIsSet'
        /\ \A m \in Honest : ~mIsPristine[m] => ~mIsPristine'[m]
        /\ ~mIsPristine'[n]
    BY BumpType DEF ballotVars, TypeOK, BallotIsSet
  <1>5. mIsCommitted' \in [Honest -> BOOLEAN] /\ CommittedHasBallot'
    BY <1>4 DEF commitTo, TypeOK, CommittedHasBallot
  <1>6. TypeOK'
    BY <1>2, <1>3, <1>4, <1>5 DEF TypeOK, commitTo, envVars, ballotVars
  <1>7. CursorIsSet'
    <2> SUFFICES ASSUME NEW m \in Honest, pc'[m] = "loopPrepared"
                 PROVE  cursor'[m] \in Ballot
      BY DEF CursorIsSet
    <2>1. CASE m = n /\ l = "loopPrepared"
      BY <2>1
    <2>2. CASE pc[m] = "loopPrepared"
      BY <2>2 DEF CursorIsSet
    <2>3. CASE m # n /\ l = "loopPrepared"
      <3>1. pc'[m] = pc[m]
        BY <2>3 DEF commitTo, ProcessCommitted, CallAdvanceSlot, Return, Goto, TypeOK
      <3> QED
        BY <3>1, <2>2
    <2> QED
      BY <1>3, <2>1, <2>2, <2>3
  <1> QED
    BY <1>4, <1>5, <1>6, <1>7

LEMMA CommittedInv ==
  ASSUME TypeInv, NEW n \in Honest, ~mIsPristine[n], attemptCommitted(n)
  PROVE  TypeInv'
  <1> USE DEF TypeInv
  <1>1. CASE Throws(n, Stating(n, mBallot[n], "COMMITTING"))
    BY <1>1, StatingType, NotFoundInv DEF attemptCommitted
  <1>2. CASE ~Throws(n, Stating(n, mBallot[n], "COMMITTING"))
    BY <1>2, CommitToInv DEF attemptCommitted, BallotIsSet, Place
  <1> QED
    BY <1>1, <1>2

LEMMA ExternalizeInv ==
  ASSUME TypeInv, NEW n \in Honest, ~mIsPristine[n], attemptExternalize(n)
  PROVE  TypeInv'
  <1> USE DEF TypeInv
  <1>1. CASE Throws(n, Committers(n, mBallot[n].value))
    BY <1>1, CommittersType, NotFoundInv DEF attemptExternalize
  <1>2. CASE ~Throws(n, Committers(n, mBallot[n].value))
    <2>1. mBallot[n].value \in Value
      BY DEF BallotIsSet, Ballot
    <2>2. decided' \in [Honest -> SUBSET Value] /\ mIsExternalized' \in [Honest -> BOOLEAN]
      <3>1. decided[n] \cup {mBallot[n].value} \in SUBSET Value
        BY <2>1 DEF TypeOK
      <3>2. decided' = [decided EXCEPT ![n] = decided[n] \cup {mBallot[n].value}]
        BY <1>2 DEF attemptExternalize
      <3>3. mIsExternalized' = [mIsExternalized EXCEPT ![n] = TRUE]
        BY <1>2 DEF attemptExternalize
      <3> QED
        BY <3>1, <3>2, <3>3 DEF TypeOK
    <2>3. /\ pc' \in [Honest -> Place]
          /\ mRunAdvanceSlot' \in [Honest -> BOOLEAN]
          /\ \A m \in Honest : pc'[m] = "loopPrepared" => pc[m] = "loopPrepared"
      BY <1>2, ControlType DEF attemptExternalize, Place
    <2> QED
      BY <1>2, <2>2, <2>3
      DEF attemptExternalize, TypeOK, ballotVars, envVars, BallotIsSet, CursorIsSet, CommittedHasBallot
  <1> QED
    BY <1>1, <1>2

(* Ballots taken from statements, or made for a value we were told of.     *)
LEMMA ExternalizeBallotsType ==
  ASSUME TypeInv, NEW n \in Honest, NEW v \in Value
  PROVE  ExternalizeBallots(n, v) \in SUBSET Ballot
  <1>1. mBallot[n].counter \in Counter
    BY SlotAssumption DEF TypeInv, TypeOK, Ballot, NoBallot, Counter
  <1>2. [counter |-> mBallot[n].counter, value |-> v] \in Ballot
    BY <1>1 DEF Ballot
  <1>3. [[counter |-> mBallot[n].counter, value |-> v] EXCEPT !.counter = NextCounter(@)] \in Ballot
    BY <1>1, NextCounterType DEF Ballot
  <1>4. \A s \in mStatements[n] : s.ballot \in Ballot
    BY DEF TypeInv, TypeOK, Envelope
  <1> QED
    BY <1>2, <1>3, <1>4 DEF ExternalizeBallots

LEMMA LoopCommittedInv ==
  ASSUME TypeInv, NEW n \in Honest, NEW b \in Ballot, LoopCommitted(n, b)
  PROVE  TypeInv'
  <1> USE DEF TypeInv
  <1>1. CASE Throws(n, Committers(n, b.value))
    BY <1>1, CommittersType, NotFoundInv DEF LoopCommitted
  <1>2. CASE ~Throws(n, Committers(n, b.value))
    <2>1. b.value \in Value
      BY DEF Ballot
    <2>2. /\ cursor' \in [Honest -> Ballot \cup {NoBallot}]
          /\ cursor'[n] \in Ballot
          /\ \A m \in Honest \ {n} : cursor'[m] = cursor[m]
      BY <1>2 DEF LoopCommitted, TypeOK
    <2>3. PICK bext \in ExternalizeBallots(n, b.value) :
                  IF BumpAllowed(n, bext)
                  THEN bumpToBallot(n, bext) /\ commitTo(n, bext, "loopPrepared")
                  ELSE AssertFails(n) /\ UNCHANGED <<finalVars, envVars, validating, sent>>
      BY <1>2 DEF LoopCommitted
    <2>4. CASE BumpAllowed(n, bext)
      BY <2>1, <2>2, <2>3, <2>4, ExternalizeBallotsType, CommitToInv DEF Place
    <2>5. CASE ~BumpAllowed(n, bext)
      <3>1. TypeOK'
        BY <2>2, <2>3, <2>5 DEF TypeOK, AssertFails, Goto, Place, ballotVars, finalVars, envVars
      <3>2. CursorIsSet'
        BY <2>2, <2>3, <2>5 DEF TypeOK, AssertFails, Goto, CursorIsSet
      <3> QED
        BY <2>3, <2>5, <3>1, <3>2
        DEF AssertFails, BallotIsSet, CommittedHasBallot, ballotVars, finalVars
    <2> QED
      BY <2>4, <2>5
  <1> QED
    BY <1>1, <1>2

LEMMA BallotIsPreparedInv ==
  ASSUME TypeInv, NEW n \in Honest, NEW b \in Ballot, BallotIsPrepared(n, b)
  PROVE  TypeInv'
  <1> USE DEF TypeInv
  <1>1. CASE PreparedThrows(n, b)
    BY <1>1, StatingType, NotFoundInv DEF BallotIsPrepared
  <1>2. CASE ~PreparedThrows(n, b)
    <2>1. HandlerType
      <3>1. CASE AssertFails(n) /\ UNCHANGED <<validating, sent>>
        BY <3>1 DEF HandlerType, TypeOK, AssertFails, Goto, Place, ballotVars, BallotIsSet
      <3>2. CASE /\ bumpToBallot(n, b)
                 /\ mRunAdvanceSlot' = [mRunAdvanceSlot EXCEPT ![n] = TRUE]
                 /\ Goto(n, "loop")
                 /\ UNCHANGED <<mStatements, validating, sent>>
        BY <3>2, BumpType DEF HandlerType, TypeOK, Goto, Place
      <3>3. CASE processEnvelope(n, Statement(n, "PREPARED", b), "loop")
        <4>1. Statement(n, "PREPARED", b) \in Envelope
          BY StatementIsEnvelope, SlotAssumption DEF StatementType
        <4> QED
          BY <3>3, <4>1, ProcessEnvelopeType DEF Place
      <3> QED
        BY <1>2, <3>1, <3>2, <3>3 DEF BallotIsPrepared
    <2> QED
      BY <1>2, <2>1, HandlerInv DEF BallotIsPrepared
  <1> QED
    BY <1>1, <1>2

LEMMA LeaveInv ==
  ASSUME TypeInv, NEW n \in Honest, LeaveAdvanceSlot(n)
  PROVE  TypeInv'
  <1> USE DEF TypeInv
  <1>1. CASE ~mHeardFromQuorum[n] /\ Throws(n, Speakers(n))
    <2>1. Speakers(n) \in SUBSET Node
      BY DEF Speakers, TypeOK, Envelope
    <2> QED
      BY <1>1, <2>1, NotFoundInv DEF LeaveAdvanceSlot
  <1>2. CASE ~(~mHeardFromQuorum[n] /\ Throws(n, Speakers(n)))
    <2>1. mHeardFromQuorum' \in [Honest -> BOOLEAN]
      BY <1>2 DEF LeaveAdvanceSlot, TypeOK
    <2>2. TypeOK'
      BY <1>2, <2>1, EndType DEF LeaveAdvanceSlot, TypeOK, finalVars, envVars
    <2> QED
      BY <1>2, <2>2, EndType
      DEF LeaveAdvanceSlot, finalVars, BallotIsSet, CursorIsSet, CommittedHasBallot
  <1> QED
    BY <1>1, <1>2

LEMMA AdvanceSlotInv ==
  ASSUME TypeInv, NEW n \in Honest, advanceSlot(n)
  PROVE  TypeInv'
  <1> DEFINE due == Due(n, pc[n])
  <1>1. pc[n] \in Place /\ Perform(n, due)
    BY DEF TypeInv, TypeOK, advanceSlot
  <1>2. \A b \in Current(n) : b \in Ballot
    BY DEF Current, Ahead, TypeInv, TypeOK, Envelope
  <1>3. due = "loopPrepared" => cursor[n] \in Ballot
    BY <1>1, DueFacts DEF TypeInv, CursorIsSet
  <1> USE <1>1, DueFacts
  <1>4. CASE due = "preparing" /\ attemptPreparing(n)
    BY <1>4, PreparingInv
  <1>5. CASE due = "prepared" /\ attemptPrepared(n)
    BY <1>5, PreparedInv
  <1>6. CASE due = "committing" /\ attemptCommitting(n)
    BY <1>6, CommittingInv
  <1>7. CASE due = "committed" /\ attemptCommitted(n)
    BY <1>7, CommittedInv
  <1>8. CASE due = "externalize" /\ attemptExternalize(n)
    BY <1>8, ExternalizeInv
  <1>9. CASE \E b \in Current(n) : LoopCommitted(n, b)
    BY <1>2, <1>9, LoopCommittedInv
  <1>10. CASE \E b \in Current(n) : LoopPrepared(n, b)
    BY <1>2, <1>10, BallotIsPreparedInv DEF LoopPrepared
  <1>11. CASE due = "loopPrepared" /\ BallotIsPrepared(n, cursor[n])
    BY <1>3, <1>11, BallotIsPreparedInv
  <1>12. CASE LeaveAdvanceSlot(n)
    BY <1>12, LeaveInv
  <1> QED
    BY <1>4, <1>5, <1>6, <1>7, <1>8, <1>9, <1>10, <1>11, <1>12 DEF Perform

(* The entry points.                                                       *)
LEMMA ReceiveInv ==
  ASSUME TypeInv, NEW n \in Honest, NEW e, receiveEnvelope(n, e)
  PROVE  TypeInv'
  <1>1. e \in Envelope
    BY SlotAssumption DEF receiveEnvelope, TypeInv, TypeOK
  <1>2. HandlerType
    BY <1>1, ProcessEnvelopeType DEF receiveEnvelope, Place
  <1> QED
    BY <1>2, HandlerInv DEF receiveEnvelope

LEMMA PrepareValueInv ==
  ASSUME TypeInv, NEW n \in Honest, NEW v \in Value, NEW force \in BOOLEAN,
         prepareValue(n, v, force)
  PROVE  TypeInv'
  <1> USE DEF TypeInv
  <1> DEFINE b == ProposedBallot(n, v, force)
  <1>1. b \in Ballot
    <2>1. mBallot[n].counter \in Counter
      BY SlotAssumption DEF TypeOK, Ballot, NoBallot, Counter
    <2>2. [counter |-> mBallot[n].counter, value |-> v] \in Ballot
      BY <2>1 DEF Ballot
    <2>3. [[counter |-> mBallot[n].counter, value |-> v] EXCEPT !.counter = NextCounter(@)] \in Ballot
      BY <2>1, NextCounterType DEF Ballot
    <2> QED
      BY <2>2, <2>3 DEF ProposedBallot
  <1>2. proposals' \in [Honest -> SUBSET (Value \X BOOLEAN)]
    <2>1. proposals[n] \ {<<v, force>>} \in SUBSET (Value \X BOOLEAN)
      BY DEF TypeOK
    <2>2. proposals' = [proposals EXCEPT ![n] = proposals[n] \ {<<v, force>>}]
      BY DEF prepareValue
    <2> QED
      BY <2>1, <2>2 DEF TypeOK
  <1> HIDE DEF b
  <1>3. HandlerType
    <2>1. CASE AssertFails(n)
      BY <2>1 DEF prepareValue, HandlerType, TypeOK, AssertFails, Goto, Place, ballotVars, BallotIsSet
    <2>2. CASE bumpToBallot(n, b) /\ CallAdvanceSlot(n, "idle") /\ UNCHANGED mStatements
      BY <1>1, <2>2, BumpType, ControlType DEF prepareValue, HandlerType, TypeOK, Place
    <2>3. CASE Return(n, "idle") /\ UNCHANGED <<ballotVars, mStatements>>
      BY <2>3, ControlType DEF prepareValue, HandlerType, TypeOK, Place, ballotVars, BallotIsSet
    <2> QED
      BY <2>1, <2>2, <2>3 DEF prepareValue, b
  <1> QED
    BY <1>2, <1>3 DEF prepareValue, HandlerType, TypeOK, finalVars, CursorIsSet, CommittedHasBallot

LEMMA ValidatedInv ==
  ASSUME TypeInv, NEW n \in Honest, NEW w \in validating[n], ValueValidated(n, w) \/ BallotValidated(n, w)
  PROVE  TypeInv'
  <1>1. w.envelope \in Envelope /\ validating[n] \ {w} \in SUBSET Waiting
    BY DEF TypeInv, TypeOK, Waiting
  <1>2. CASE ValueValidated(n, w)
    <2>1. HandlerType
      BY <1>1, <1>2, ValueValidType DEF ValueValidated, Place
    <2> QED
      BY <1>2, <2>1, HandlerInv DEF ValueValidated
  <1>3. CASE BallotValidated(n, w)
    <2>1. validating' \in [Honest -> SUBSET Waiting] /\ sent' \subseteq Envelope
      BY <1>1, <1>3, WaitType DEF BallotValidated, TypeInv, TypeOK
    <2>2. HandlerType
      BY <1>1, <1>3, <2>1, BallotValidType DEF BallotValidated, Place
    <2> QED
      BY <1>3, <2>2, HandlerInv DEF BallotValidated
  <1> QED
    BY <1>2, <1>3

LEMMA RetrievedInv ==
  ASSUME TypeInv, NEW n \in Honest, NEW m \in fetching[n], quorumSetRetrieved(n, m)
  PROVE  TypeInv'
  <1> USE DEF TypeInv, quorumSetRetrieved
  <1>1. /\ pc' \in [Honest -> Place]
        /\ mRunAdvanceSlot' \in [Honest -> BOOLEAN]
        /\ \A k \in Honest : pc'[k] = "loopPrepared" => pc[k] = "loopPrepared"
    BY ControlType DEF Place
  <1>2. TypeOK'
    BY <1>1 DEF TypeOK, ballotVars, finalVars
  <1> QED
    BY <1>1, <1>2 DEF BallotIsSet, CursorIsSet, CommittedHasBallot, ballotVars, finalVars

LEMMA PurgeInv ==
  ASSUME TypeInv, NEW n \in Honest, NEW m, purgeNode(n, m)
  PROVE  TypeInv'
  <1> USE DEF TypeInv, purgeNode, ballotVars, finalVars, bodyVars
  <1>1. TypeOK'
    BY DEF TypeOK
  <1> QED
    BY <1>1 DEF BallotIsSet, CursorIsSet, CommittedHasBallot

LEMMA TypeInvInit == Init => TypeInv
  BY SlotAssumption
  DEF Init, TypeInv, TypeOK, BallotIsSet, CursorIsSet, CommittedHasBallot, Place

LEMMA TypeInvNext == TypeInv /\ [Next]_vars => TypeInv'
  <1> SUFFICES ASSUME TypeInv, [Next]_vars PROVE TypeInv'
    OBVIOUS
  <1>1. CASE UNCHANGED vars
    BY <1>1 DEF vars, TypeInv, TypeOK, BallotIsSet, CursorIsSet, CommittedHasBallot
  <1>2. ASSUME NEW n \in Honest, advanceSlot(n) PROVE TypeInv'
    BY <1>2, AdvanceSlotInv
  <1>3. ASSUME NEW n \in Honest, Enter(n) PROVE TypeInv'
    <2>1. CASE Deliver(n)
      BY <2>1, ReceiveInv DEF Deliver
    <2>2. CASE Propose(n)
      <3>1. PICK p \in proposals[n] : prepareValue(n, p[1], p[2])
        BY <2>2 DEF Propose
      <3>2. p[1] \in Value /\ p[2] \in BOOLEAN
        BY DEF TypeInv, TypeOK
      <3> QED
        BY <3>1, <3>2, PrepareValueInv
    <2>3. CASE \E w \in validating[n] : ValueValidated(n, w) \/ BallotValidated(n, w)
      BY <2>3, ValidatedInv
    <2>4. CASE Retrieve(n)
      BY <2>4, RetrievedInv DEF Retrieve
    <2>5. CASE \E m \in Purgeable : purgeNode(n, m)
      BY <2>5, PurgeInv
    <2> QED
      BY <1>3, <2>1, <2>2, <2>3, <2>4, <2>5 DEF Enter
  <1> QED
    BY <1>1, <1>2, <1>3 DEF Next

(* Every slot keeps the types of its members, and no statement is ever     *)
(* made for a ballot that is not set, whatever the quorum sets, the        *)
(* values, the counters (which wrap around) and the faulty envelopes.      *)
THEOREM TypeCorrect == Spec => []TypeOK
  <1>1. Spec => []TypeInv
    BY TypeInvInit, TypeInvNext, PTL DEF Spec
  <1> QED
    BY <1>1, PTL DEF TypeInv

-----------------------------------------------------------------------------
(***************************************************************************)
(* Why correct nodes agree on the value of a slot.  The argument has two   *)
(* parts: a node that COMMITTED stays with its ballot (CommitLock), and a  *)
(* value is externalized only on the word of a quorum that COMMITTED it;   *)
(* two such quorums share a correct node, which COMMITTED one value only.  *)
(*                                                                         *)
(* The same steps keep what a node promises with "excepted": the ballots a *)
(* node is at only rise, and a COMMITTING statement it sent stays among    *)
(* its own (PromiseInv).                                                   *)
(***************************************************************************)

(* The envelopes a slot holds, stored or waiting for a validation.         *)
Held(n) == mStatements[n] \cup {w.envelope : w \in validating[n]}

(* A slot holds nothing in the name of a correct node that this node did   *)
(* not send.                                                               *)
HeldWasSent == \A n \in Honest : \A e \in Held(n) : e.node \in Honest \ {n} => e \in sent

(* A reported value was COMMITTED by a set of nodes that persuades us.     *)
DecidedBacked ==
    \A n \in Honest : \A v \in decided[n] :
        \E S \in SUBSET Node : isQuorumTransitive(n, S) /\ S \subseteq Committers(n, v)

(* The statements a node may not take back: each was made for the ballot   *)
(* the node was at, and ballots only rise.                                 *)
Vow(e) == e.type \in {"PREPARING", "COMMITTING"}
VowsBelow ==
    \A e \in sent : Vow(e) => /\ e.node \in Honest
                              /\ ~mIsPristine[e.node]
                              /\ ~BallotLess(mBallot[e.node], e.ballot)

(* A node that sent COMMITTING has the statement in its own map.           *)
CommittingKept ==
    \A e \in sent : e.type = "COMMITTING" => \E s \in mStatements[e.node] : SameKey(s, e)

(* The value of a statement of our own is never validated later, so none   *)
(* is broadcast later than it was made.                                    *)
OthersDeferred ==
    \A n \in Honest : \A w \in validating[n] : w.stage = "value" => w.envelope.node # n

PromiseInv == VowsBelow /\ CommittingKept /\ OthersDeferred /\ ExceptedPromise

(* The inductive invariant.  Agreement needs DecidedBacked, which needs to *)
(* know where the counted statements come from.                            *)
SafetyInv == TypeInv /\ CommitLock /\ HeldWasSent /\ DecidedBacked /\ PromiseInv

(* A COMMITTED envelope of n that agrees with what n is at now, or after   *)
(* this step.                                                              *)
LockedNow(n, e) ==
    e.node = n /\ e.type = "COMMITTED" => mIsCommitted[n] /\ e.ballot = mBallot[n]
LockedNext(n, e) ==
    e.node = n /\ e.type = "COMMITTED" => mIsCommitted'[n] /\ e.ballot = mBallot'[n]

(* An envelope that n may process: its own, or one that was really sent.   *)
Genuine(n, e) == LockedNow(n, e) /\ (e.node \in Honest \ {n} => e \in sent)

(* A vow that n may make: for its own ballot, with all it is COMMITTING.   *)
OwnCommitting(n) == {s.ballot : s \in getNodeStatements(n, n, "COMMITTING")}
MayVow(n, e) ==
    Vow(e) /\ e.node = n =>
        /\ ~mIsPristine[n]
        /\ ~mIsCommitted[n]
        /\ e.ballot = mBallot[n]
        /\ e.type = "PREPARING" => e.excepted = OwnCommitting(n)

(* What any step of n may do to the slots, as far as agreement depends on  *)
(* it.                                                                     *)
Frozen(n) ==
    \A m \in Honest \ {n} :
        /\ mBallot'[m] = mBallot[m]
        /\ mIsCommitted'[m] = mIsCommitted[m]
        /\ mStatements'[m] = mStatements[m]
        /\ validating'[m] = validating[m]
        /\ decided'[m] = decided[m]

(* The ballot of a slot rises, until it is committed.                      *)
Kept(n) ==
    /\ \A m \in Honest \ {n} : mBallot'[m] = mBallot[m] /\ mIsPristine'[m] = mIsPristine[m]
    /\ mIsCommitted[n] => mBallot'[n] = mBallot[n]
    /\ ~mIsPristine[n] => ~mIsPristine'[n] /\ ~BallotLess(mBallot'[n], mBallot[n])

SlotStep(n) ==
    /\ Frozen(n)
    /\ Kept(n)
    /\ mIsCommitted[n] => mIsCommitted'[n]
    /\ \A e \in mStatements'[n] \cup {w.envelope : w \in validating'[n]} :
          \/ e \in Held(n)
          \/ LockedNext(n, e) /\ (e.node \in Honest \ {n} => e \in sent)
    /\ sent \subseteq sent'
    /\ \A e \in sent' \ sent : e.node = n /\ LockedNext(n, e)
    /\ \A s \in mStatements[n] : \E t \in mStatements'[n] : SameKey(s, t)
    /\ \A v \in decided'[n] \ decided[n] :
          isCommittedConfirmed(n, v) /\ mStatements'[n] = mStatements[n]
    /\ \A w \in validating'[n] \ validating[n] : w.stage = "value" => w.envelope.node # n
    /\ \A e, f \in sent' \ sent : Vow(e) /\ Vow(f) => e = f
    /\ \A e \in sent' \ sent :
          MayVow(n, e) /\ (e.type = "COMMITTING" => e \in mStatements'[n])

(* compareBallots is an order.                                             *)
LEMMA BallotLessIrreflexive ==
  ASSUME NEW a \in Ballot \cup {NoBallot}
  PROVE  ~BallotLess(a, a)
  BY SlotAssumption DEF BallotLess, Ballot, NoBallot, Counter

LEMMA NotLessTransitive ==
  ASSUME NEW a \in Ballot \cup {NoBallot}, NEW b \in Ballot \cup {NoBallot},
         NEW c \in Ballot \cup {NoBallot}, ~BallotLess(b, a), ~BallotLess(c, b)
  PROVE  ~BallotLess(c, a)
  <1>1. \A x \in Ballot \cup {NoBallot} :
           x.counter \in Counter /\ (x.value # None => x.value \in Value)
    <2>1. 0 \in Counter
      BY SlotAssumption DEF Counter
    <2> QED
      BY <2>1 DEF Ballot, NoBallot
  <1>2. \A k \in Counter : k \in Nat /\ \A v \in Value : Rank[k][v] \in Nat
    BY SlotAssumption DEF Counter
  <1>3. a.counter <= b.counter /\ b.counter <= c.counter
    BY <1>1, <1>2 DEF BallotLess
  <1>4. CASE a.counter = c.counter
    <2>1. a.counter = b.counter /\ b.counter = c.counter
      BY <1>1, <1>2, <1>3, <1>4
    <2>2. CASE a.value = None
      BY <1>1, <1>2, <2>1, <2>2 DEF BallotLess
    <2>3. CASE a.value # None
      <3>1. /\ b.value # None
            /\ ~(Rank[a.counter][b.value] < Rank[a.counter][a.value])
        BY <2>1, <2>3 DEF BallotLess
      <3>2. /\ c.value # None
            /\ ~(Rank[a.counter][c.value] < Rank[a.counter][b.value])
        BY <2>1, <3>1 DEF BallotLess
      <3>3. ~(Rank[a.counter][c.value] < Rank[a.counter][a.value])
        BY <1>1, <1>2, <2>3, <3>1, <3>2
      <3> QED
        BY <1>1, <1>2, <2>1, <3>2, <3>3 DEF BallotLess
    <2> QED
      BY <2>2, <2>3
  <1>5. CASE a.counter # c.counter
    BY <1>1, <1>2, <1>3, <1>5 DEF BallotLess
  <1> QED
    BY <1>4, <1>5

(* Such a step keeps the promise: a PREPARING statement is made when every *)
(* COMMITTING statement sent is in the map, and a COMMITTING statement     *)
(* when no PREPARING statement sent is above it.                           *)
LEMMA SlotStepPromise ==
  ASSUME TypeOK, TypeOK', PromiseInv, NEW n \in Honest, SlotStep(n)
  PROVE  PromiseInv'
  <1> USE DEF PromiseInv
  <1>1. \A e \in sent' \ sent : e.node = n /\ MayVow(n, e)
    BY DEF SlotStep
  <1>2. \A m \in Honest : /\ mBallot[m] \in Ballot \cup {NoBallot}
                          /\ mBallot'[m] \in Ballot \cup {NoBallot}
    BY DEF TypeOK
  <1>3. \A e \in sent' : e.ballot \in Ballot \cup {NoBallot}
    BY DEF TypeOK, Envelope
  <1>4. VowsBelow'
    <2> SUFFICES ASSUME NEW e \in sent', Vow(e)
                 PROVE  /\ e.node \in Honest
                        /\ ~mIsPristine'[e.node]
                        /\ ~BallotLess(mBallot'[e.node], e.ballot)
      BY DEF VowsBelow, Vow, BallotLess
    <2>1. CASE e \in sent
      <3>1. /\ e.node \in Honest
            /\ ~mIsPristine[e.node]
            /\ ~BallotLess(mBallot[e.node], e.ballot)
        BY <2>1 DEF VowsBelow
      <3>2. CASE e.node # n
        BY <3>1, <3>2 DEF SlotStep, Kept, BallotLess
      <3>3. CASE e.node = n
        <4>1. ~mIsPristine'[n] /\ ~BallotLess(mBallot'[n], mBallot[n])
          BY <3>1, <3>3 DEF SlotStep, Kept
        <4> QED
          BY <1>2, <1>3, <3>1, <3>3, <4>1, NotLessTransitive
      <3> QED
        BY <3>2, <3>3
    <2>2. CASE e \notin sent
      BY <1>1, <2>2 DEF MayVow, SlotStep, Kept
    <2> QED
      BY <2>1, <2>2
  <1>5. CommittingKept'
    <2> SUFFICES ASSUME NEW e \in sent', e.type = "COMMITTING"
                 PROVE  \E t \in mStatements'[e.node] : SameKey(t, e)
      BY DEF CommittingKept, SameKey
    <2>1. CASE e \in sent
      <3>1. PICK s \in mStatements[e.node] : SameKey(s, e)
        BY <2>1 DEF CommittingKept
      <3>2. e.node \in Honest
        BY <2>1 DEF VowsBelow, Vow
      <3>3. \E t \in mStatements'[e.node] : SameKey(s, t)
        BY <3>2 DEF SlotStep, Frozen, SameKey
      <3> QED
        BY <3>1, <3>3 DEF SameKey
    <2>2. CASE e \notin sent
      BY <1>1, <2>2 DEF SlotStep, SameKey
    <2> QED
      BY <2>1, <2>2
  <1>6. OthersDeferred'
    BY DEF OthersDeferred, SlotStep, Frozen
  <1>7. ExceptedPromise'
    <2> SUFFICES ASSUME NEW e \in sent', NEW f \in sent', e.node = f.node,
                        e.type = "COMMITTING", f.type = "PREPARING",
                        BallotLess(e.ballot, f.ballot)
                 PROVE  e.ballot \in f.excepted
      BY DEF ExceptedPromise, BallotLess
    <2>1. CASE e \in sent /\ f \in sent
      BY <2>1 DEF ExceptedPromise
    <2>2. CASE e \in sent /\ f \notin sent
      <3>1. f.node = n /\ f.excepted = OwnCommitting(n)
        BY <1>1, <2>2 DEF MayVow, Vow
      <3>2. PICK s \in mStatements[n] : SameKey(s, e)
        BY <2>2, <3>1 DEF CommittingKept
      <3> QED
        BY <3>1, <3>2 DEF OwnCommitting, getNodeStatements, SameKey
    <2>3. CASE e \notin sent /\ f \in sent
      <3>1. e.node = n /\ e.ballot = mBallot[n]
        BY <1>1, <2>3 DEF MayVow, Vow
      <3>2. ~BallotLess(mBallot[n], f.ballot)
        BY <2>3, <3>1 DEF VowsBelow, Vow
      <3> QED
        BY <3>1, <3>2
    <2>4. CASE e \notin sent /\ f \notin sent
      BY <2>4 DEF SlotStep, Vow
    <2> QED
      BY <2>1, <2>2, <2>3, <2>4
  <1> QED
    BY <1>4, <1>5, <1>6, <1>7

(* And it keeps the invariant.                                             *)
LEMMA SlotStepSafe ==
  ASSUME SafetyInv, TypeInv', NEW n \in Honest, SlotStep(n)
  PROVE  SafetyInv'
  <1>0. PromiseInv'
    BY SlotStepPromise DEF SafetyInv, TypeInv
  <1> USE DEF SafetyInv, SlotStep, Frozen, Kept
  <1>1. CommitLock'
    <2> SUFFICES ASSUME NEW m \in Honest,
                        NEW e \in sent' \cup mStatements'[m] \cup {w.envelope : w \in validating'[m]},
                        e.node = m, e.type = "COMMITTED"
                 PROVE  mIsCommitted'[m] /\ e.ballot = mBallot'[m]
      BY DEF CommitLock
    <2>1. CASE e \in sent \cup Held(m)
      <3>1. mIsCommitted[m] /\ e.ballot = mBallot[m]
        BY <2>1 DEF CommitLock, Held
      <3> QED
        BY <3>1
    <2>2. CASE m = n /\ LockedNext(n, e)
      BY <2>2 DEF LockedNext
    <2> QED
      BY <2>1, <2>2 DEF Held
  <1>2. HeldWasSent'
    <2> SUFFICES ASSUME NEW m \in Honest,
                        NEW e \in mStatements'[m] \cup {w.envelope : w \in validating'[m]},
                        e.node \in Honest \ {m}
                 PROVE  e \in sent'
      BY DEF HeldWasSent, Held
    <2>1. CASE e \in Held(m)
      BY <2>1 DEF HeldWasSent
    <2> QED
      BY <2>1 DEF Held
  <1>3. DecidedBacked'
    <2> SUFFICES ASSUME NEW m \in Honest, NEW v \in decided'[m]
                 PROVE  \E S \in SUBSET Node :
                           isQuorumTransitive(m, S) /\ S \subseteq Committers(m, v)'
      BY DEF DecidedBacked, isQuorumTransitive, TransitiveQuorums, hasQuorum, QuorumCore, IsQuorum
    <2>1. Committers(m, v) \subseteq Committers(m, v)'
      BY DEF Committers, SameKey
    <2>2. CASE v \in decided[m]
      BY <2>1, <2>2 DEF DecidedBacked
    <2>3. CASE v \notin decided[m]
      <3>1. m = n /\ isQuorumTransitive(n, Committers(n, v))
        BY <2>3 DEF isCommittedConfirmed
      <3>2. Committers(n, v) \in SUBSET Node
        BY CommittersType DEF TypeInv
      <3> QED
        BY <2>1, <3>1, <3>2
    <2> QED
      BY <2>2, <2>3
  <1> QED
    BY <1>0, <1>1, <1>2, <1>3

-----------------------------------------------------------------------------
(* Every step is a SlotStep.                                               *)

LEMMA SameKept ==
  ASSUME TypeOK, NEW n \in Honest, UNCHANGED <<mBallot, mIsPristine>>
  PROVE  Kept(n)
  BY BallotLessIrreflexive DEF TypeOK, Kept

(* Moving to a ballot is for a slot that has not committed.                *)
LEMMA BumpKept ==
  ASSUME TypeOK, NEW n \in Honest, NEW b, BumpAllowed(n, b), bumpToBallot(n, b)
  PROVE  Kept(n)
  BY DEF TypeOK, BumpAllowed, bumpToBallot, Kept

(* Storing an envelope replaces at most the statement with its key.        *)
LEMMA StoreSteps ==
  ASSUME TypeOK, NEW n \in Honest, NEW e, Store(n, e)
  PROVE  /\ \A m \in Honest \ {n} : mStatements'[m] = mStatements[m]
         /\ e \in mStatements'[n]
         /\ mStatements'[n] \subseteq mStatements[n] \cup {e}
         /\ \A s \in mStatements[n] : \E t \in mStatements'[n] : SameKey(s, t)
  <1>1. mStatements'[n] = Stored(n, e)
    BY DEF TypeOK, Store
  <1>2. \A s \in mStatements[n] : \E t \in Stored(n, e) : SameKey(s, t)
    BY DEF Stored, SameKey
  <1> QED
    BY <1>1, <1>2 DEF TypeOK, Store, Stored

LEMMA WaitSteps ==
  ASSUME TypeOK, NEW n \in Honest, NEW V, Wait(n, V)
  PROVE  validating'[n] = V /\ \A m \in Honest \ {n} : validating'[m] = validating[m]
  BY DEF TypeOK, Wait

(* What a handler of an envelope does: e is stored or left waiting, and    *)
(* besides e only our own COMMITTED statement is broadcast.                *)
HandlerStep(n, e) ==
    /\ Kept(n)
    /\ \A m \in Honest \ {n} : mStatements'[m] = mStatements[m] /\ validating'[m] = validating[m]
    /\ mStatements'[n] \subseteq mStatements[n] \cup {e}
    /\ \A w \in validating'[n] \ validating[n] :
          w.envelope = e /\ (w.stage = "value" => e.node # n)
    /\ \A s \in mStatements[n] : \E t \in mStatements'[n] : SameKey(s, t)
    /\ sent \subseteq sent'
    /\ \A f \in sent' \ sent :
          \/ /\ f = e
             /\ e.node = n
             /\ e.type = "COMMITTING" => mIsCommitted[n] \/ e \in mStatements'[n]
          \/ mIsCommitted[n] /\ f = Statement(n, "COMMITTED", mBallot[n])

LEMMA BallotValidStep ==
  ASSUME TypeOK, NEW n \in Honest, NEW e, NEW l, BallotValid(n, e, l)
  PROVE  /\ Kept(n)
         /\ \A m \in Honest \ {n} : mStatements'[m] = mStatements[m]
         /\ mStatements'[n] \subseteq mStatements[n] \cup {e}
         /\ \A s \in mStatements[n] : \E t \in mStatements'[n] : SameKey(s, t)
  <1>1. CASE AssertFails(n)
    BY <1>1, SameKept DEF AssertFails, ballotVars, SameKey
  <1>2. CASE BumpAllowed(n, e.ballot) /\ bumpToBallot(n, e.ballot) /\ Store(n, e)
    BY <1>2, BumpKept, StoreSteps
  <1>3. CASE UNCHANGED ballotVars /\ Store(n, e)
    BY <1>3, StoreSteps, SameKept DEF ballotVars
  <1> QED
    BY <1>1, <1>2, <1>3 DEF BallotValid

LEMMA ValueValidStep ==
  ASSUME TypeOK, NEW n \in Honest, NEW e, NEW l, NEW V,
         V \subseteq validating[n], ValueValid(n, e, V, l)
  PROVE  HandlerStep(n, e)
  <1>1. CASE ProcessPreparing(n, e, V, l)
    <2>1. \/ validating'[n] = V
          \/ validating'[n] = V \cup {[stage |-> "ballot", envelope |-> e]}
      BY <1>1, WaitSteps DEF ProcessPreparing
    <2>2. \A m \in Honest \ {n} : validating'[m] = validating[m]
      BY <1>1, WaitSteps DEF ProcessPreparing
    <2>3. /\ Kept(n)
          /\ \A m \in Honest \ {n} : mStatements'[m] = mStatements[m]
          /\ mStatements'[n] \subseteq mStatements[n] \cup {e}
          /\ \A s \in mStatements[n] : \E t \in mStatements'[n] : SameKey(s, t)
      BY <1>1, BallotValidStep, SameKept DEF ProcessPreparing, ballotVars, SameKey
    <2>4. \A w \in validating'[n] \ validating[n] :
             w.envelope = e /\ (w.stage = "value" => e.node # n)
      BY <2>1
    <2>5. /\ sent \subseteq sent'
          /\ e.type # "COMMITTING"
          /\ \A f \in sent' \ sent : f = e /\ e.node = n
      BY <1>1 DEF ProcessPreparing, EmitOwn
    <2> QED
      BY <2>2, <2>3, <2>4, <2>5 DEF HandlerStep
  <1>2. CASE /\ \/ ProcessPrepared(n, e, l)
                \/ ProcessCommitting(n, e, l)
                \/ ProcessCommitted(n, e, l)
                \/ ProcessLate(n, e, l)
             /\ Wait(n, V)
             /\ UNCHANGED ballotVars
    <2>1. validating'[n] = V /\ \A m \in Honest \ {n} : validating'[m] = validating[m]
      BY <1>2, WaitSteps
    <2>2. Kept(n)
      BY <1>2, SameKept DEF ballotVars
    <2>3. CASE Store(n, e) /\ EmitOwn(n, e)
      BY <2>1, <2>2, <2>3, StoreSteps DEF EmitOwn, HandlerStep
    <2>4. CASE UNCHANGED <<mStatements, sent>>
      BY <2>1, <2>2, <2>4 DEF HandlerStep, SameKey
    <2>5. CASE ProcessLate(n, e, l)
      BY <2>1, <2>2, <2>5 DEF ProcessLate, HandlerStep, SameKey
    <2> QED
      BY <1>2, <2>3, <2>4, <2>5 DEF ProcessPrepared, ProcessCommitting, ProcessCommitted
  <1> QED
    BY <1>1, <1>2 DEF ValueValid

LEMMA ProcessEnvelopeStep ==
  ASSUME TypeOK, NEW n \in Honest, NEW e, NEW l, processEnvelope(n, e, l)
  PROVE  HandlerStep(n, e)
  <1>1. CASE ValueValid(n, e, validating[n], l)
    BY <1>1, ValueValidStep
  <1>2. CASE ValueRefused(n, e, l) /\ UNCHANGED ballotVars
    BY <1>2, SameKept DEF ValueRefused, HandlerStep, ballotVars, SameKey
  <1>3. CASE ValueDeferred(n, e, l) /\ UNCHANGED ballotVars
    <2>1. /\ validating'[n] = validating[n] \cup {[stage |-> "value", envelope |-> e]}
          /\ \A m \in Honest \ {n} : validating'[m] = validating[m]
          /\ e.node # n
      BY <1>3, WaitSteps DEF ValueDeferred
    <2> QED
      BY <1>3, <2>1, SameKept DEF ValueDeferred, HandlerStep, ballotVars, SameKey
  <1> QED
    BY <1>1, <1>2, <1>3 DEF processEnvelope

(* A handler of a genuine envelope that reaches no verdict is a SlotStep.  *)
LEMMA HandlerIsSlotStep ==
  ASSUME NEW n \in Honest, NEW e, Genuine(n, e), HandlerStep(n, e), UNCHANGED finalVars,
         MayVow(n, e) \/ sent' = sent
  PROVE  SlotStep(n)
  <1>1. Kept(n) /\ mIsCommitted' = mIsCommitted /\ decided' = decided
    BY DEF HandlerStep, finalVars
  <1>2. LockedNext(n, e)
    BY <1>1 DEF Genuine, LockedNow, LockedNext, Kept
  <1>3. mIsCommitted[n] => LockedNext(n, Statement(n, "COMMITTED", mBallot[n]))
                           /\ Statement(n, "COMMITTED", mBallot[n]).node = n
    BY <1>1 DEF Kept, LockedNext, Statement
  <1>4. /\ Statement(n, "COMMITTED", mBallot[n]).type = "COMMITTED"
        /\ ~Vow(Statement(n, "COMMITTED", mBallot[n]))
    BY DEF Statement, Vow
  <1>5. /\ \A f, g \in sent' \ sent : Vow(f) /\ Vow(g) => f = g
        /\ \A f \in sent' \ sent : MayVow(n, f) /\ (f.type = "COMMITTING" => f \in mStatements'[n])
    BY <1>4 DEF HandlerStep, MayVow, Vow
  <1>6. \A w \in validating'[n] : w.envelope = e \/ w \in validating[n]
    BY DEF HandlerStep
  <1>7. \A f \in mStatements'[n] \cup {w.envelope : w \in validating'[n]} : f = e \/ f \in Held(n)
    BY <1>6 DEF HandlerStep, Held
  <1>8. \A f \in sent' \ sent : f.node = n /\ LockedNext(n, f)
    BY <1>2, <1>3 DEF HandlerStep
  <1>9. \A w \in validating'[n] \ validating[n] : w.stage = "value" => w.envelope.node # n
    BY DEF HandlerStep
  <1> QED
    BY <1>1, <1>2, <1>5, <1>7, <1>8, <1>9 DEF HandlerStep, SlotStep, Frozen, Kept, Genuine

(* So is a step that touches neither statements nor messages nor verdict.  *)
LEMMA QuietIsSlotStep ==
  ASSUME NEW n \in Honest, Kept(n), UNCHANGED <<finalVars, mStatements, validating, sent>>
  PROVE  SlotStep(n)
  BY DEF Kept, SlotStep, Frozen, Held, finalVars, SameKey

LEMMA NotFoundStep ==
  ASSUME TypeOK, NEW n \in Honest, NEW S, QuorumSetNotFound(n, S)
  PROVE  SlotStep(n)
  BY QuietIsSlotStep, SameKept DEF QuorumSetNotFound, ballotVars

(* Committing: the slot was free, and takes the ballot it announces.       *)
LEMMA CommitToStep ==
  ASSUME TypeOK, NEW n \in Honest, NEW b, NEW l, ~mIsCommitted[n], commitTo(n, b, l),
         mBallot' = [mBallot EXCEPT ![n] = b], Kept(n)
  PROVE  SlotStep(n)
  <1> DEFINE e == Statement(n, "COMMITTED", b)
  <1>1. /\ mIsCommitted'[n]
        /\ mBallot'[n] = b
        /\ \A m \in Honest \ {n} : mIsCommitted'[m] = mIsCommitted[m] /\ mBallot'[m] = mBallot[m]
        /\ validating' = validating
        /\ decided' = decided
    BY DEF TypeOK, commitTo
  <1>2. e.node = n /\ LockedNext(n, e) /\ e.type = "COMMITTED" /\ ~Vow(e) /\ MayVow(n, e)
    BY <1>1 DEF Statement, LockedNext, Vow, MayVow
  <1> HIDE DEF e
  <1>3. CASE Store(n, e) /\ EmitOwn(n, e)
    BY <1>1, <1>2, <1>3, StoreSteps DEF SlotStep, Frozen, Held, EmitOwn
  <1>4. CASE UNCHANGED <<mStatements, sent>>
    BY <1>1, <1>4 DEF SlotStep, Frozen, Held, SameKey
  <1> QED
    BY <1>3, <1>4 DEF commitTo, ProcessCommitted, e

(* The body of advanceSlot.                                                *)
LEMMA AdvanceSlotStep ==
  ASSUME TypeInv, NEW n \in Honest, advanceSlot(n)
  PROVE  SlotStep(n)
  <1> DEFINE due == Due(n, pc[n])
  <1> USE DEF TypeInv
  <1>1. pc[n] \in Place /\ Perform(n, due)
    BY DEF TypeOK, advanceSlot
  <1>2. \A t \in {"PREPARED", "COMMITTING"} : \A b : Genuine(n, Statement(n, t, b))
    BY DEF Genuine, LockedNow, Statement
  <1>3. \A p : Genuine(n, PreparingStatement(n, p))
    BY DEF Genuine, LockedNow, PreparingStatement
  <1>a. \A b : MayVow(n, Statement(n, "PREPARED", b))
    BY DEF MayVow, Vow, Statement
  <1>b. ~mIsPristine[n] /\ ~mIsCommitted[n] => MayVow(n, Statement(n, "COMMITTING", mBallot[n]))
    BY DEF MayVow, Statement
  <1>c. ~mIsPristine[n] /\ ~mIsCommitted[n] => \A p : MayVow(n, PreparingStatement(n, p))
    BY DEF MayVow, PreparingStatement, OwnCommitting
  <1>4. ASSUME NEW b, BallotIsPrepared(n, b) PROVE SlotStep(n)
    <2>1. CASE PreparedThrows(n, b)
      BY <1>4, <2>1, NotFoundStep DEF BallotIsPrepared
    <2>2. CASE ~PreparedThrows(n, b)
      <3>1. UNCHANGED finalVars
        BY <1>4, <2>2 DEF BallotIsPrepared
      <3>2. CASE AssertFails(n) /\ UNCHANGED <<validating, sent>>
        BY <3>1, <3>2, QuietIsSlotStep, SameKept DEF AssertFails, ballotVars
      <3>3. CASE /\ BumpAllowed(n, b)
                 /\ bumpToBallot(n, b)
                 /\ UNCHANGED <<mStatements, validating, sent>>
        BY <3>1, <3>3, BumpKept, QuietIsSlotStep
      <3>4. CASE processEnvelope(n, Statement(n, "PREPARED", b), "loop")
        BY <1>2, <1>a, <3>1, <3>4, ProcessEnvelopeStep, HandlerIsSlotStep
      <3> QED
        BY <1>4, <2>2, <3>2, <3>3, <3>4 DEF BallotIsPrepared
    <2> QED
      BY <2>1, <2>2
  <1> USE <1>1, DueFacts
  <1>5. CASE due = "preparing" /\ attemptPreparing(n)
    BY <1>3, <1>c, <1>5, ProcessEnvelopeStep, HandlerIsSlotStep DEF attemptPreparing
  <1>6. CASE due = "prepared" /\ attemptPrepared(n)
    BY <1>2, <1>a, <1>6, NotFoundStep, ProcessEnvelopeStep, HandlerIsSlotStep DEF attemptPrepared
  <1>7. CASE due = "committing" /\ attemptCommitting(n)
    BY <1>2, <1>b, <1>7, NotFoundStep, ProcessEnvelopeStep, HandlerIsSlotStep DEF attemptCommitting
  <1>8. CASE due = "committed" /\ attemptCommitted(n)
    <2>1. CASE Throws(n, Stating(n, mBallot[n], "COMMITTING"))
      BY <1>8, <2>1, NotFoundStep DEF attemptCommitted
    <2>2. CASE ~Throws(n, Stating(n, mBallot[n], "COMMITTING"))
      <3>1. /\ ~mIsCommitted[n]
            /\ commitTo(n, mBallot[n], "loop")
            /\ UNCHANGED <<mBallot, mIsPristine>>
        BY <1>8, <2>2 DEF attemptCommitted, ballotVars
      <3>2. mBallot' = [mBallot EXCEPT ![n] = mBallot[n]]
        BY <3>1 DEF TypeOK
      <3> QED
        BY <3>1, <3>2, CommitToStep, SameKept
    <2> QED
      BY <2>1, <2>2
  <1>9. CASE due = "externalize" /\ attemptExternalize(n)
    <2>1. CASE Throws(n, Committers(n, mBallot[n].value))
      BY <1>9, <2>1, NotFoundStep DEF attemptExternalize
    <2>2. CASE ~Throws(n, Committers(n, mBallot[n].value)) /\ mIsExternalized[n]
      BY <1>9, <2>2 DEF ExternalizeDue
    <2>3. CASE ~Throws(n, Committers(n, mBallot[n].value)) /\ ~mIsExternalized[n]
      <3>1. isCommittedConfirmed(n, mBallot[n].value)
        BY <1>9, <2>3 DEF ExternalizeDue
      <3>2. decided' = [decided EXCEPT ![n] = decided[n] \cup {mBallot[n].value}]
        BY <1>9, <2>3 DEF attemptExternalize
      <3>3. UNCHANGED <<mBallot, mIsPristine, mIsCommitted, mStatements, validating, sent>>
        BY <1>9, <2>3 DEF attemptExternalize, ballotVars
      <3>5. Kept(n)
        BY <3>3, SameKept
      <3>4. /\ decided'[n] = decided[n] \cup {mBallot[n].value}
            /\ \A m \in Honest \ {n} : decided'[m] = decided[m]
        BY <3>2 DEF TypeOK
      <3> QED
        BY <3>1, <3>3, <3>4, <3>5 DEF SlotStep, Frozen, Held, SameKey
    <2> QED
      BY <2>1, <2>2, <2>3 DEF TypeOK
  <1>10. CASE due = "loop" /\ \E b \in Current(n) : LoopCommitted(n, b)
    <2>1. PICK b \in Current(n) : LoopCommitted(n, b)
      BY <1>10
    <2>2. CASE Throws(n, Committers(n, b.value))
      BY <2>1, <2>2, NotFoundStep DEF LoopCommitted
    <2>3. CASE ~Throws(n, Committers(n, b.value))
      <3>1. PICK bext \in ExternalizeBallots(n, b.value) :
                  IF BumpAllowed(n, bext)
                  THEN bumpToBallot(n, bext) /\ commitTo(n, bext, "loopPrepared")
                  ELSE AssertFails(n) /\ UNCHANGED <<finalVars, envVars, validating, sent>>
        BY <2>1, <2>3 DEF LoopCommitted
      <3>2. CASE BumpAllowed(n, bext)
        BY <3>1, <3>2, CommitToStep, BumpKept DEF BumpAllowed, bumpToBallot
      <3>3. CASE ~BumpAllowed(n, bext)
        BY <3>1, <3>3, QuietIsSlotStep, SameKept DEF AssertFails, ballotVars
      <3> QED
        BY <3>2, <3>3
    <2> QED
      BY <2>2, <2>3
  <1>11. CASE \E b \in Current(n) : LoopPrepared(n, b)
    BY <1>4, <1>11 DEF LoopPrepared
  <1>12. CASE BallotIsPrepared(n, cursor[n])
    BY <1>4, <1>12
  <1>13. CASE LeaveAdvanceSlot(n)
    BY <1>13, NotFoundStep, QuietIsSlotStep, SameKept DEF LeaveAdvanceSlot
  <1> QED
    BY <1>5, <1>6, <1>7, <1>8, <1>9, <1>10, <1>11, <1>12, <1>13 DEF Perform

(* The entry points.                                                       *)
LEMMA EnterStep ==
  ASSUME SafetyInv, NEW n \in Honest, Enter(n)
  PROVE  SlotStep(n)
  <1> USE DEF SafetyInv, TypeInv
  <1>1. CASE Deliver(n)
    <2>1. PICK e : receiveEnvelope(n, e)
      BY <1>1 DEF Deliver
    <2>2. e \in sent \cup FaultyEnvelopes /\ e.node # n
      BY <2>1 DEF receiveEnvelope
    <2>3. e.node \in Honest => e \in sent
      BY <2>2, SlotAssumption
    <2>4. Genuine(n, e)
      BY <2>2, <2>3 DEF Genuine, LockedNow
    <2>5. MayVow(n, e)
      BY <2>2 DEF MayVow
    <2> QED
      BY <2>1, <2>4, <2>5, ProcessEnvelopeStep, HandlerIsSlotStep DEF receiveEnvelope
  <1>2. CASE Propose(n)
    <2>1. PICK p \in proposals[n] : prepareValue(n, p[1], p[2])
      BY <1>2 DEF Propose
    <2>2. UNCHANGED <<finalVars, mStatements, validating, sent>>
      BY <2>1 DEF prepareValue, AssertFails
    <2>3. Kept(n)
      BY <2>1, BumpKept, SameKept DEF prepareValue, AssertFails, ballotVars
    <2> QED
      BY <2>2, <2>3, QuietIsSlotStep
  <1>3. CASE \E w \in validating[n] : ValueValidated(n, w) \/ BallotValidated(n, w)
    <2>1. PICK w \in validating[n] : ValueValidated(n, w) \/ BallotValidated(n, w)
      BY <1>3
    <2>2. Genuine(n, w.envelope)
      BY DEF Genuine, LockedNow, CommitLock, HeldWasSent, Held
    <2>3. HandlerStep(n, w.envelope)
      <3>1. CASE ValueValidated(n, w)
        BY <3>1, ValueValidStep DEF ValueValidated
      <3>2. CASE BallotValidated(n, w)
        <4>1. validating'[n] = validating[n] \ {w} /\ \A m \in Honest \ {n} : validating'[m] = validating[m]
          BY <3>2, WaitSteps DEF BallotValidated
        <4>2. sent' = sent
          BY <3>2 DEF BallotValidated
        <4> QED
          BY <3>2, <4>1, <4>2, BallotValidStep DEF BallotValidated, HandlerStep
      <3> QED
        BY <2>1, <3>1, <3>2
    <2>4. MayVow(n, w.envelope) \/ sent' = sent
      <3>1. CASE ValueValidated(n, w)
        BY <3>1 DEF ValueValidated, PromiseInv, OthersDeferred, MayVow
      <3>2. CASE BallotValidated(n, w)
        BY <3>2 DEF BallotValidated
      <3> QED
        BY <2>1, <3>1, <3>2
    <2> QED
      BY <2>1, <2>2, <2>3, <2>4, HandlerIsSlotStep DEF ValueValidated, BallotValidated
  <1>4. CASE Retrieve(n)
    BY <1>4, QuietIsSlotStep, SameKept DEF Retrieve, quorumSetRetrieved, ballotVars
  <1>5. CASE \E m \in Purgeable : purgeNode(n, m)
    BY <1>5, QuietIsSlotStep, SameKept DEF purgeNode, ballotVars
  <1> QED
    BY <1>1, <1>2, <1>3, <1>4, <1>5 DEF Enter
-----------------------------------------------------------------------------
LEMMA SafetyInvInit == Init => SafetyInv
  BY TypeInvInit
  DEF Init, SafetyInv, CommitLock, HeldWasSent, Held, DecidedBacked,
      PromiseInv, VowsBelow, CommittingKept, OthersDeferred, ExceptedPromise

LEMMA SafetyInvNext == SafetyInv /\ [Next]_vars => SafetyInv'
  <1> SUFFICES ASSUME SafetyInv, [Next]_vars PROVE SafetyInv'
    OBVIOUS
  <1>1. TypeInv'
    BY TypeInvNext DEF SafetyInv
  <1>2. CASE UNCHANGED vars
    BY <1>1, <1>2
    DEF vars, SafetyInv, CommitLock, HeldWasSent, Held, DecidedBacked, Committers,
        PromiseInv, VowsBelow, CommittingKept, OthersDeferred, ExceptedPromise
  <1>3. ASSUME NEW n \in Honest, advanceSlot(n) \/ Enter(n) PROVE SafetyInv'
    BY <1>1, <1>3, AdvanceSlotStep, EnterStep, SlotStepSafe DEF SafetyInv
  <1> QED
    BY <1>2, <1>3 DEF Next

LEMMA SafetyInvariant == Spec => []SafetyInv
  BY SafetyInvInit, SafetyInvNext, PTL DEF Spec

(* The invariant implies agreement: the two quorums behind two reported    *)
(* values share a correct node, and that node COMMITTED one ballot.        *)
LEMMA SafetyImpliesAgreement == SafetyInv => Agreement
  <1> SUFFICES ASSUME SafetyInv, NEW n \in Honest, NEW m \in Honest,
                      NEW v \in decided[n], NEW u \in decided[m]
               PROVE  v = u
    BY DEF Agreement
  <1> USE DEF SafetyInv
  <1>1. PICK S \in SUBSET Node : isQuorumTransitive(n, S) /\ S \subseteq Committers(n, v)
    BY DEF DecidedBacked
  <1>2. PICK T \in SUBSET Node : isQuorumTransitive(m, T) /\ T \subseteq Committers(m, u)
    BY DEF DecidedBacked
  <1>3. PICK h \in Honest : h \in S /\ h \in T
    BY <1>1, <1>2, QuorumIntersection
  <1>4. ASSUME NEW k \in Honest, NEW z, h \in Committers(k, z)
        PROVE  z = mBallot[h].value
    <2>1. PICK e \in mStatements[k] : e.node = h /\ e.type = "COMMITTED" /\ e.ballot.value = z
      BY <1>4 DEF Committers
    <2>2. e \in sent \cup mStatements[h]
      BY <2>1 DEF HeldWasSent, Held
    <2> QED
      BY <2>1, <2>2 DEF CommitLock
  <1> QED
    BY <1>1, <1>2, <1>3, <1>4

(* A correct node never announces COMMITTED for two ballots and never      *)
(* leaves the one it announced, whatever order validations, quorum set     *)
(* retrievals and other nodes' envelopes come in.                          *)
THEOREM CommitIsFinal == Spec => []CommitLock
  BY SafetyInvariant, PTL DEF SafetyInv

(* Correct nodes externalize the same value in a slot, for every number of *)
(* nodes, all quorum sets whose quorums intersect in a correct node, and   *)
(* all envelopes that faulty nodes send.                                   *)
THEOREM SlotAgreement == Spec => []Agreement
  BY SafetyInvariant, SafetyImpliesAgreement, PTL

(* A correct node that sent COMMITTING for a ballot excepts it in every    *)
(* PREPARING statement it sends for a higher one, in whichever order the   *)
(* two were sent and however validations were deferred or refused: the     *)
(* word other nodes' ratifyFilter relies on.                               *)
THEOREM PromiseIsKept == Spec => []ExceptedPromise
  BY SafetyInvariant, PTL DEF SafetyInv, PromiseInv

-----------------------------------------------------------------------------
(***************************************************************************)
(* The slots implement one slot of Consensus.  Besides agreement that      *)
(* takes that values are only handed on (CandidateInv): the ballots,       *)
(* statements and envelopes of a slot carry values that somebody brought   *)
(* in, and a slot reports a value only when it has not done so before.     *)
(***************************************************************************)
CandidateInv ==
    /\ \A e \in sent : e.ballot.value \in Candidates
    /\ \A n \in Honest :
          /\ mIsPristine[n] \/ mBallot[n].value \in Candidates
          /\ cursor[n] = NoBallot \/ cursor[n].value \in Candidates
          /\ \A e \in Held(n) : e.ballot.value \in Candidates
          /\ proposals[n] \subseteq Proposals[n]
          /\ mIsExternalized[n] \/ decided[n] = {}

(* What a step of n may do, as far as the origin of values depends on it.  *)
CursorFrom ==
    \A m \in Honest : \/ cursor'[m] = cursor[m]
                      \/ cursor'[m] = NoBallot
                      \/ cursor'[m].value \in Candidates
BallotFrom(n) ==
    \/ mBallot'[n] = mBallot[n] /\ mIsPristine'[n] = mIsPristine[n]
    \/ mBallot'[n].value \in Candidates
HeldFrom(n) ==
    \A e \in mStatements'[n] \cup {w.envelope : w \in validating'[n]} :
        e \in Held(n) \/ e.ballot.value \in Candidates
OthersKept(n) ==
    \A m \in Honest \ {n} :
        /\ mBallot'[m] = mBallot[m] /\ mIsPristine'[m] = mIsPristine[m]
        /\ mStatements'[m] = mStatements[m] /\ validating'[m] = validating[m]
ReportedOnce ==
    \A m \in Honest : \/ mIsExternalized'[m]
                      \/ mIsExternalized'[m] = mIsExternalized[m] /\ decided'[m] = decided[m]
CandidateStep(n) ==
    /\ CursorFrom /\ BallotFrom(n) /\ HeldFrom(n) /\ OthersKept(n) /\ ReportedOnce
    /\ \A e \in sent' : e \in sent \/ e.ballot.value \in Candidates
    /\ \A m \in Honest : proposals'[m] \subseteq proposals[m]

LEMMA CandidateStepKeeps ==
  ASSUME CandidateInv, NEW n \in Honest, CandidateStep(n)
  PROVE  CandidateInv'
  <1> USE DEF CandidateInv, CandidateStep
  <1>1. \A e \in sent' : e.ballot.value \in Candidates
    OBVIOUS
  <1>2. ASSUME NEW m \in Honest PROVE mIsPristine'[m] \/ mBallot'[m].value \in Candidates
    BY <1>2 DEF BallotFrom, OthersKept
  <1>3. ASSUME NEW m \in Honest PROVE cursor'[m] = NoBallot \/ cursor'[m].value \in Candidates
    BY <1>3 DEF CursorFrom
  <1>4. ASSUME NEW m \in Honest,
               NEW e \in mStatements'[m] \cup {w.envelope : w \in validating'[m]}
        PROVE  e.ballot.value \in Candidates
    <2>1. CASE m = n
      BY <1>4, <2>1 DEF HeldFrom
    <2>2. CASE m # n
      BY <1>4, <2>2 DEF OthersKept, Held
    <2> QED
      BY <2>1, <2>2
  <1>5. ASSUME NEW m \in Honest PROVE proposals'[m] \subseteq Proposals[m]
    BY <1>5
  <1>6. ASSUME NEW m \in Honest PROVE mIsExternalized'[m] \/ decided'[m] = {}
    BY <1>6 DEF ReportedOnce
  <1> QED
    BY <1>1, <1>2, <1>3, <1>4, <1>5, <1>6 DEF Held

(* The ballot of a slot is left alone or taken from the envelope.          *)
BallotTaken(n, e) ==
    \/ mBallot'[n] = mBallot[n] /\ mIsPristine'[n] = mIsPristine[n]
    \/ mBallot'[n] = e.ballot

LEMMA BallotValidTakes ==
  ASSUME TypeOK, NEW n \in Honest, NEW e, NEW l, BallotValid(n, e, l)
  PROVE  BallotTaken(n, e)
  BY DEF TypeOK, BallotValid, AssertFails, bumpToBallot, ballotVars, BallotTaken

LEMMA ValueValidTakes ==
  ASSUME TypeOK, NEW n \in Honest, NEW e, NEW V, NEW l, ValueValid(n, e, V, l)
  PROVE  BallotTaken(n, e)
  <1>1. CASE BallotValid(n, e, l)
    BY <1>1, BallotValidTakes
  <1>2. CASE UNCHANGED ballotVars
    BY <1>2 DEF ballotVars, BallotTaken
  <1> QED
    BY <1>1, <1>2 DEF ValueValid, ProcessPreparing, ballotVars

LEMMA ProcessEnvelopeTakes ==
  ASSUME TypeOK, NEW n \in Honest, NEW e, NEW l, processEnvelope(n, e, l)
  PROVE  BallotTaken(n, e)
  <1>1. CASE ValueValid(n, e, validating[n], l)
    BY <1>1, ValueValidTakes
  <1>2. CASE UNCHANGED ballotVars
    BY <1>2 DEF ballotVars, BallotTaken
  <1> QED
    BY <1>1, <1>2 DEF processEnvelope

(* Processing an envelope whose value was brought in.                      *)
LEMMA HandlerHandsOn ==
  ASSUME TypeInv, CandidateInv, NEW n \in Honest, NEW e, e.ballot.value \in Candidates,
         HandlerStep(n, e), BallotTaken(n, e), UNCHANGED <<finalVars, proposals>>, CursorFrom
  PROVE  CandidateStep(n)
  <1>1. mIsCommitted[n] => mBallot[n].value \in Candidates
    BY DEF TypeInv, CommittedHasBallot, CandidateInv
  <1>2. Statement(n, "COMMITTED", mBallot[n]).ballot = mBallot[n]
    BY DEF Statement
  <1>3. \A f \in sent' : f \in sent \/ f.ballot.value \in Candidates
    BY <1>1, <1>2 DEF HandlerStep
  <1>4. HeldFrom(n)
    <2>1. \A w \in validating'[n] : w.envelope = e \/ w \in validating[n]
      BY DEF HandlerStep
    <2> QED
      BY <2>1 DEF HandlerStep, HeldFrom, Held
  <1>5. BallotFrom(n)
    BY DEF BallotTaken, BallotFrom
  <1>6. OthersKept(n)
    BY DEF HandlerStep, Kept, OthersKept
  <1>7. ReportedOnce
    BY DEF ReportedOnce, finalVars
  <1> QED
    BY <1>3, <1>4, <1>5, <1>6, <1>7 DEF CandidateStep

(* Steps that neither send nor hold anything new.                          *)
LEMMA QuietHandsOn ==
  ASSUME NEW n \in Honest, Kept(n), BallotFrom(n), CursorFrom, ReportedOnce,
         UNCHANGED <<mStatements, validating, sent>>,
         \A m \in Honest : proposals'[m] \subseteq proposals[m]
  PROVE  CandidateStep(n)
  BY DEF CandidateStep, HeldFrom, Held, OthersKept, Kept

LEMMA EndCursor ==
  ASSUME TypeOK, NEW n \in Honest, EndAdvanceSlot(n)
  PROVE  CursorFrom
  BY DEF TypeOK, EndAdvanceSlot, CursorFrom

LEMMA NotFoundHandsOn ==
  ASSUME TypeOK, NEW n \in Honest, NEW S, QuorumSetNotFound(n, S)
  PROVE  CandidateStep(n) /\ decided' = decided
  <1>1. UNCHANGED <<ballotVars, finalVars, mStatements, proposals, validating, sent>>
    BY DEF QuorumSetNotFound
  <1>2. CursorFrom
    BY EndCursor DEF QuorumSetNotFound
  <1> QED
    BY <1>1, <1>2, SameKept, QuietHandsOn DEF ballotVars, finalVars, BallotFrom, ReportedOnce

(* The only step that reports: the slot's own ballot, and the first time.  *)
Reports(n) ==
    /\ ~mIsExternalized[n] /\ ~mIsPristine[n]
    /\ decided' = [decided EXCEPT ![n] = decided[n] \cup {mBallot[n].value}]

LEMMA CommitHandsOn ==
  ASSUME TypeOK, NEW n \in Honest, NEW b, NEW l, b.value \in Candidates, commitTo(n, b, l),
         Kept(n), BallotFrom(n), CursorFrom
  PROVE  CandidateStep(n) /\ decided' = decided
  <1> DEFINE e == Statement(n, "COMMITTED", b)
  <1>1. UNCHANGED <<mIsExternalized, decided, proposals, validating>>
    BY DEF commitTo, envVars
  <1>2. e.ballot = b
    BY DEF Statement
  <1> HIDE DEF e
  <1>3. ReportedOnce
    BY <1>1 DEF ReportedOnce
  <1>4. CASE Store(n, e) /\ EmitOwn(n, e)
    BY <1>1, <1>2, <1>3, <1>4, StoreSteps
    DEF EmitOwn, CandidateStep, HeldFrom, Held, OthersKept, Kept
  <1>5. CASE UNCHANGED <<mStatements, sent>>
    BY <1>1, <1>3, <1>5, QuietHandsOn
  <1> QED
    BY <1>1, <1>4, <1>5 DEF commitTo, ProcessCommitted, e

(* The body of advanceSlot.                                                *)
LEMMA AdvanceSlotHandsOn ==
  ASSUME TypeInv, CandidateInv, NEW n \in Honest, advanceSlot(n)
  PROVE  CandidateStep(n) /\ (decided' = decided \/ Reports(n))
  <1> DEFINE due == Due(n, pc[n])
  <1> USE DEF TypeInv
  <1>1. pc[n] \in Place /\ Perform(n, due)
    BY DEF TypeOK, advanceSlot
  <1>2. \A t, b : Statement(n, t, b).ballot = b
    BY DEF Statement
  <1>3. \A p : PreparingStatement(n, p).ballot = mBallot[n]
    BY DEF PreparingStatement
  <1>4. \A s \in mStatements[n] : s.ballot.value \in Candidates
    BY DEF CandidateInv, Held
  <1>5. UNCHANGED cursor => CursorFrom
    BY DEF CursorFrom
  <1>6. ASSUME NEW b, b.value \in Candidates, cursor' = [cursor EXCEPT ![n] = b] PROVE CursorFrom
    BY <1>6 DEF TypeOK, CursorFrom
  <1>7. ~mIsPristine[n] => mBallot[n].value \in Candidates
    BY DEF CandidateInv
  <1>8. ASSUME NEW b, b.value \in Candidates, BallotIsPrepared(n, b)
        PROVE  CandidateStep(n) /\ decided' = decided
    <2>1. CASE PreparedThrows(n, b)
      BY <1>8, <2>1, NotFoundHandsOn DEF BallotIsPrepared
    <2>2. CASE ~PreparedThrows(n, b)
      <3>1. UNCHANGED <<finalVars, proposals>> /\ cursor' = [cursor EXCEPT ![n] = b]
        BY <1>8, <2>2 DEF BallotIsPrepared, envVars
      <3>2. CursorFrom /\ ReportedOnce /\ decided' = decided
        BY <1>6, <1>8, <3>1 DEF ReportedOnce, finalVars
      <3>3. CASE AssertFails(n) /\ UNCHANGED <<validating, sent>>
        BY <3>1, <3>2, <3>3, QuietHandsOn, SameKept DEF AssertFails, ballotVars, BallotFrom
      <3>4. CASE /\ BumpAllowed(n, b)
                 /\ bumpToBallot(n, b)
                 /\ UNCHANGED <<mStatements, validating, sent>>
        <4>1. BallotFrom(n)
          BY <1>8, <3>4 DEF TypeOK, bumpToBallot, BallotFrom
        <4> QED
          BY <3>1, <3>2, <3>4, <4>1, BumpKept, QuietHandsOn
      <3>5. CASE processEnvelope(n, Statement(n, "PREPARED", b), "loop")
        BY <1>2, <1>8, <3>1, <3>2, <3>5, ProcessEnvelopeStep, ProcessEnvelopeTakes, HandlerHandsOn
      <3> QED
        BY <1>8, <2>2, <3>3, <3>4, <3>5 DEF BallotIsPrepared
    <2> QED
      BY <2>1, <2>2
  <1>9. ASSUME NEW e, e.ballot = mBallot[n], ~mIsPristine[n], NEW l, processEnvelope(n, e, l),
               UNCHANGED <<finalVars, envVars, cursor>>
        PROVE  CandidateStep(n) /\ decided' = decided
    <2>1. UNCHANGED <<finalVars, proposals>> /\ CursorFrom /\ decided' = decided
      BY <1>5, <1>9 DEF envVars, finalVars
    <2> QED
      BY <1>7, <1>9, <2>1, ProcessEnvelopeStep, ProcessEnvelopeTakes, HandlerHandsOn
  <1> USE <1>1, DueFacts
  <1>10. CASE due = "preparing" /\ attemptPreparing(n)
    BY <1>3, <1>9, <1>10 DEF attemptPreparing
  <1>11. CASE due = "prepared" /\ attemptPrepared(n)
    BY <1>2, <1>9, <1>11, NotFoundHandsOn DEF attemptPrepared
  <1>12. CASE due = "committing" /\ attemptCommitting(n)
    BY <1>2, <1>9, <1>12, NotFoundHandsOn DEF attemptCommitting
  <1>13. CASE due = "committed" /\ attemptCommitted(n)
    <2>1. CASE Throws(n, Stating(n, mBallot[n], "COMMITTING"))
      BY <1>13, <2>1, NotFoundHandsOn DEF attemptCommitted
    <2>2. CASE ~Throws(n, Stating(n, mBallot[n], "COMMITTING"))
      <3>1. /\ ~mIsPristine[n] /\ commitTo(n, mBallot[n], "loop")
            /\ UNCHANGED <<mBallot, mIsPristine, cursor>>
        BY <1>13, <2>2 DEF attemptCommitted, ballotVars
      <3> QED
        BY <1>5, <1>7, <3>1, SameKept, CommitHandsOn DEF BallotFrom
    <2> QED
      BY <2>1, <2>2
  <1>14. CASE due = "externalize" /\ attemptExternalize(n)
    <2>1. CASE Throws(n, Committers(n, mBallot[n].value))
      BY <1>14, <2>1, NotFoundHandsOn DEF attemptExternalize
    <2>2. CASE ~Throws(n, Committers(n, mBallot[n].value))
      <3>1. ~mIsExternalized[n] /\ ~mIsPristine[n]
        BY <1>14, <2>2 DEF ExternalizeDue
      <3>2. /\ decided' = [decided EXCEPT ![n] = decided[n] \cup {mBallot[n].value}]
            /\ mIsExternalized' = [mIsExternalized EXCEPT ![n] = TRUE]
        BY <1>14, <2>2 DEF attemptExternalize
      <3>3. UNCHANGED <<mBallot, mIsPristine, mStatements, validating, sent, cursor, proposals>>
        BY <1>14, <2>2 DEF attemptExternalize, ballotVars, envVars
      <3>4. ReportedOnce
        BY <3>2 DEF TypeOK, ReportedOnce
      <3>5. CandidateStep(n)
        BY <1>5, <3>3, <3>4, SameKept, QuietHandsOn DEF BallotFrom
      <3> QED
        BY <3>1, <3>2, <3>5 DEF Reports
    <2> QED
      BY <2>1, <2>2
  <1>15. ASSUME NEW b \in Current(n) PROVE b.value \in Candidates
    BY <1>4, <1>15 DEF Current, Ahead
  <1>16. CASE due = "loop" /\ \E b \in Current(n) : LoopCommitted(n, b)
    <2>1. PICK b \in Current(n) : LoopCommitted(n, b)
      BY <1>16
    <2>2. CASE Throws(n, Committers(n, b.value))
      BY <2>1, <2>2, NotFoundHandsOn DEF LoopCommitted
    <2>3. CASE ~Throws(n, Committers(n, b.value))
      <3>1. PICK bext \in ExternalizeBallots(n, b.value) :
                  IF BumpAllowed(n, bext)
                  THEN bumpToBallot(n, bext) /\ commitTo(n, bext, "loopPrepared")
                  ELSE AssertFails(n) /\ UNCHANGED <<finalVars, envVars, validating, sent>>
        BY <2>1, <2>3 DEF LoopCommitted
      <3>2. cursor' = [cursor EXCEPT ![n] = b]
        BY <2>1, <2>3 DEF LoopCommitted
      <3>3. CursorFrom
        BY <1>6, <1>15, <3>2
      <3>4. bext.value = b.value
        BY DEF ExternalizeBallots
      <3>5. bext.value \in Candidates
        BY <1>15, <3>4
      <3>6. CASE BumpAllowed(n, bext)
        <4>1. BallotFrom(n)
          BY <3>1, <3>5, <3>6 DEF TypeOK, bumpToBallot, BallotFrom
        <4> QED
          BY <3>1, <3>3, <3>5, <3>6, <4>1, BumpKept, CommitHandsOn
      <3>7. CASE ~BumpAllowed(n, bext)
        BY <3>1, <3>3, <3>7, QuietHandsOn, SameKept
        DEF AssertFails, ballotVars, finalVars, envVars, BallotFrom, ReportedOnce
      <3> QED
        BY <3>6, <3>7
    <2> QED
      BY <2>2, <2>3
  <1>17. CASE \E b \in Current(n) : LoopPrepared(n, b)
    BY <1>8, <1>15, <1>17 DEF LoopPrepared
  <1>18. CASE due = "loopPrepared" /\ BallotIsPrepared(n, cursor[n])
    <2>1. cursor[n] \in Ballot
      BY <1>18 DEF CursorIsSet
    <2>2. cursor[n] # NoBallot
      BY <2>1, SlotAssumption DEF Ballot, NoBallot
    <2> QED
      BY <1>8, <1>18, <2>2 DEF CandidateInv
  <1>19. CASE LeaveAdvanceSlot(n)
    <2>1. CASE \E S : QuorumSetNotFound(n, S)
      BY <2>1, NotFoundHandsOn
    <2>2. CASE /\ EndAdvanceSlot(n)
               /\ UNCHANGED <<mBallot, mIsPristine, finalVars, mStatements, envVars, validating, sent>>
      BY <2>2, EndCursor, SameKept, QuietHandsOn
      DEF finalVars, envVars, BallotFrom, ReportedOnce
    <2> QED
      BY <1>19, <2>1, <2>2 DEF LeaveAdvanceSlot
  <1> QED
    BY <1>10, <1>11, <1>12, <1>13, <1>14, <1>16, <1>17, <1>18, <1>19 DEF Perform

(* The entry points.                                                       *)
LEMMA EnterHandsOn ==
  ASSUME TypeInv, CandidateInv, NEW n \in Honest, Enter(n)
  PROVE  CandidateStep(n) /\ decided' = decided
  <1> USE DEF TypeInv
  <1>1. UNCHANGED cursor => CursorFrom
    BY DEF CursorFrom
  <1>2. CASE Deliver(n)
    <2>1. PICK e : receiveEnvelope(n, e)
      BY <1>2 DEF Deliver
    <2>2. e \in sent \cup FaultyEnvelopes /\ processEnvelope(n, e, "idle")
      BY <2>1 DEF receiveEnvelope
    <2>3. e.ballot.value \in Candidates
      BY <2>2 DEF CandidateInv, Candidates
    <2>4. UNCHANGED <<finalVars, proposals>> /\ CursorFrom /\ decided' = decided
      BY <1>1, <2>1 DEF receiveEnvelope, envVars, finalVars
    <2> QED
      BY <2>2, <2>3, <2>4, ProcessEnvelopeStep, ProcessEnvelopeTakes, HandlerHandsOn
  <1>3. CASE Propose(n)
    <2>1. PICK p \in proposals[n] : prepareValue(n, p[1], p[2])
      BY <1>3 DEF Propose
    <2>2. p[1] \in Candidates
      BY DEF CandidateInv, Candidates
    <2>3. UNCHANGED <<finalVars, mStatements, validating, sent, cursor>>
      BY <2>1 DEF prepareValue, AssertFails
    <2>4. Kept(n)
      BY <2>1, BumpKept, SameKept DEF prepareValue, AssertFails, ballotVars
    <2>5. ProposedBallot(n, p[1], p[2]).value = p[1]
      BY DEF ProposedBallot
    <2>6. BallotFrom(n)
      BY <2>1, <2>2, <2>5 DEF TypeOK, prepareValue, bumpToBallot, AssertFails, ballotVars, BallotFrom
    <2>7. \A m \in Honest : proposals'[m] \subseteq proposals[m]
      BY <2>1 DEF TypeOK, prepareValue
    <2> QED
      BY <1>1, <2>3, <2>4, <2>6, <2>7, QuietHandsOn DEF ReportedOnce, finalVars
  <1>4. CASE \E w \in validating[n] : ValueValidated(n, w) \/ BallotValidated(n, w)
    <2>1. PICK w \in validating[n] : ValueValidated(n, w) \/ BallotValidated(n, w)
      BY <1>4
    <2>2. w.envelope.ballot.value \in Candidates
      BY DEF CandidateInv, Held
    <2>3. UNCHANGED <<finalVars, proposals>> /\ CursorFrom /\ decided' = decided
      BY <1>1, <2>1 DEF ValueValidated, BallotValidated, envVars, finalVars
    <2>4. HandlerStep(n, w.envelope) /\ BallotTaken(n, w.envelope)
      <3>1. CASE ValueValidated(n, w)
        BY <3>1, ValueValidStep, ValueValidTakes DEF ValueValidated
      <3>2. CASE BallotValidated(n, w)
        <4>1. /\ validating'[n] = validating[n] \ {w}
              /\ \A m \in Honest \ {n} : validating'[m] = validating[m]
          BY <3>2, WaitSteps DEF BallotValidated
        <4>2. sent' = sent
          BY <3>2 DEF BallotValidated
        <4> QED
          BY <3>2, <4>1, <4>2, BallotValidStep, BallotValidTakes DEF BallotValidated, HandlerStep
      <3> QED
        BY <2>1, <3>1, <3>2
    <2> QED
      BY <2>2, <2>3, <2>4, HandlerHandsOn
  <1>5. CASE Retrieve(n) \/ \E m \in Purgeable : purgeNode(n, m)
    <2>1. /\ UNCHANGED <<mBallot, mIsPristine, mStatements, validating, sent, cursor, proposals>>
          /\ UNCHANGED <<mIsExternalized, decided>>
      BY <1>5 DEF Retrieve, quorumSetRetrieved, purgeNode, ballotVars, finalVars, bodyVars
    <2> QED
      BY <1>1, <2>1, SameKept, QuietHandsOn DEF BallotFrom, ReportedOnce
  <1> QED
    BY <1>2, <1>3, <1>4, <1>5 DEF Enter

LEMMA CandidateInvInit == Init => CandidateInv
  BY DEF Init, CandidateInv, Held

LEMMA CandidateInvNext == SafetyInv /\ CandidateInv /\ [Next]_vars => CandidateInv'
  <1> SUFFICES ASSUME SafetyInv, CandidateInv, [Next]_vars PROVE CandidateInv'
    OBVIOUS
  <1>1. CASE UNCHANGED vars
    BY <1>1 DEF vars, CandidateInv, Held
  <1>2. ASSUME NEW n \in Honest, advanceSlot(n) \/ Enter(n) PROVE CandidateInv'
    BY <1>2, AdvanceSlotHandsOn, EnterHandsOn, CandidateStepKeeps DEF SafetyInv
  <1> QED
    BY <1>1, <1>2 DEF Next

(* A step that reports is a decision of Consensus.                         *)
LEMMA StepDecides ==
  ASSUME SafetyInv, CandidateInv, SafetyInv', [Next]_vars
  PROVE  [SlotConsensus!Next]_decided
  <1>1. CASE decided' = decided
    BY <1>1
  <1>2. ASSUME NEW n \in Honest, Reports(n) PROVE SlotConsensus!Next
    <2> DEFINE v == mBallot[n].value
    <2>1. decided[n] = {} /\ v \in Candidates
      BY <1>2 DEF Reports, CandidateInv
    <2>2. decided' = [decided EXCEPT ![n] = {v}]
      BY <1>2, <2>1 DEF Reports
    <2>3. decided \in [Honest -> SUBSET Value]
      BY DEF SafetyInv, TypeInv, TypeOK
    <2>4. Agreement'
      BY SafetyImpliesAgreement, PTL
    <2>5. ASSUME NEW m \in Honest PROVE decided[m] \subseteq {v}
      <3>1. CASE m = n
        BY <2>1, <3>1
      <3>2. CASE m # n
        <4>1. decided'[m] = decided[m] /\ v \in decided'[n]
          BY <2>2, <2>3, <3>2
        <4> QED
          BY <2>4, <4>1 DEF Agreement
      <3> QED
        BY <3>1, <3>2
    <2> QED
      BY <2>1, <2>2, <2>5 DEF SlotConsensus!Next, SlotConsensus!Decide
  <1>3. CASE UNCHANGED vars
    BY <1>1, <1>3 DEF vars
  <1>4. ASSUME NEW n \in Honest, advanceSlot(n) \/ Enter(n) PROVE [SlotConsensus!Next]_decided
    BY <1>1, <1>2, <1>4, AdvanceSlotHandsOn, EnterHandsOn DEF SafetyInv
  <1> QED
    BY <1>3, <1>4 DEF Next

(* The slots of the correct nodes implement one slot of consensus: each    *)
(* node reports one value at most, the same as all others, and one that a  *)
(* correct node was asked to propose or a faulty one sent; whatever is     *)
(* lost, late, repeated, deferred or refused.                              *)
THEOREM SlotIsConsensus == Spec => ImplementsConsensus
  <1>1. Init => SlotConsensus!Init
    BY DEF Init, SlotConsensus!Init
  <1>2. SafetyInv /\ CandidateInv /\ SafetyInv' /\ [Next]_vars => [SlotConsensus!Next]_decided
    BY StepDecides
  <1>3. Spec => []CandidateInv
    BY CandidateInvInit, CandidateInvNext, SafetyInvariant, PTL DEF Spec
  <1> QED
    BY <1>1, <1>2, <1>3, SafetyInvariant, PTL DEF Spec, ImplementsConsensus, SlotConsensus!Spec

-----------------------------------------------------------------------------
(* The loop of isQuorumTransitive                                          *)


(* A node that S satisfies is satisfied by more.                           *)
LEMMA hasQuorumMonotone ==
  ASSUME NEW n \in Node, NEW S \in SUBSET Node, NEW T \in SUBSET Node, S \subseteq T,
         hasQuorum(n, S)
  PROVE  hasQuorum(n, T)
  <1>1. IsFiniteSet(validators[n] \cap T) /\ IsFiniteSet(validators[n] \cap S)
    BY QSetAssumption, FS_Subset
  <1>2. validators[n] \cap S \in SUBSET (validators[n] \cap T)
    OBVIOUS
  <1>3. Cardinality(validators[n] \cap S) <= Cardinality(validators[n] \cap T)
    BY <1>1, <1>2, FS_Subset
  <1>4. Cardinality(validators[n] \cap S) \in Nat /\ Cardinality(validators[n] \cap T) \in Nat
    BY <1>1, FS_CardinalityType
  <1> QED
    BY <1>3, <1>4, QSetAssumption DEF hasQuorum

(* QuorumCore(S) is a quorum: the union of quorums is one.                 *)
LEMMA CoreIsQuorum ==
  ASSUME NEW S \in SUBSET Node
  PROVE  QuorumCore(S) \in SUBSET S /\ IsQuorum(QuorumCore(S))
  <1>1. QuorumCore(S) \in SUBSET S
    BY DEF QuorumCore
  <1>2. ASSUME NEW m \in QuorumCore(S) PROVE hasQuorum(m, QuorumCore(S))
    <2>1. PICK Q \in SUBSET S : m \in Q /\ IsQuorum(Q)
      BY <1>2 DEF QuorumCore
    <2>2. Q \subseteq QuorumCore(S)
      BY <2>1 DEF QuorumCore
    <2>3. hasQuorum(m, Q)
      BY <2>1 DEF IsQuorum
    <2> QED
      BY <1>1, <2>1, <2>2, <2>3, hasQuorumMonotone
  <1> QED
    BY <1>1, <1>2 DEF IsQuorum

(* The loop invariant: a pass drops no member of the largest quorum, and a *)
(* loop that ended has nothing left to drop.                               *)
LoopInv ==
    /\ start \in SUBSET Node
    /\ pNodes \in SUBSET start
    /\ QuorumCore(start) \subseteq pNodes
    /\ done \in BOOLEAN
    /\ done => IsQuorum(pNodes)

(* A pass keeps it.                                                        *)
LEMMA PassInv ==
  ASSUME LoopInv, Pass
  PROVE  LoopInv'
  <1> USE DEF LoopInv
  <1>1. start' = start /\ pNodes' = Filtered(pNodes) /\ Filtered(pNodes) \in SUBSET pNodes
    BY DEF Pass, Filtered
  <1>2. QuorumCore(start) \subseteq pNodes'
    <2> SUFFICES ASSUME NEW m \in QuorumCore(start) PROVE hasQuorum(m, pNodes)
      BY <1>1 DEF Filtered
    <2>1. hasQuorum(m, QuorumCore(start))
      BY CoreIsQuorum DEF IsQuorum
    <2> QED
      BY <2>1, CoreIsQuorum, hasQuorumMonotone
  <1>3. QuorumCore(start)' = QuorumCore(start)
    BY <1>1 DEF QuorumCore, IsQuorum, hasQuorum
  <1>4. done' => IsQuorum(pNodes)'
    <2> SUFFICES ASSUME done' PROVE IsQuorum(pNodes)'
      OBVIOUS
    <2>1. Cardinality(pNodes) = Cardinality(Filtered(pNodes))
      BY <1>1 DEF Pass, Leaves
    <2>2. IsFiniteSet(pNodes)
      BY QSetAssumption, FS_Subset
    <2>3. Filtered(pNodes) = pNodes
      BY <1>1, <2>1, <2>2, FS_Subset
    <2>4. pNodes' = pNodes /\ IsQuorum(pNodes)
      BY <1>1, <2>3 DEF Filtered, IsQuorum
    <2> QED
      BY <2>4 DEF IsQuorum, hasQuorum
  <1>5. done' \in BOOLEAN
    BY DEF Pass, Leaves
  <1> QED
    BY <1>1, <1>2, <1>3, <1>4, <1>5

(* An ended loop has found the largest quorum.                             *)
LEMMA LoopInvAnswer == LoopInv => AnswerIsTransitive
  <1> SUFFICES ASSUME LoopInv, done, NEW n \in Node
               PROVE  hasQuorum(n, pNodes) <=> isQuorumTransitive(n, start)
    BY DEF AnswerIsTransitive
  <1>1. pNodes = QuorumCore(start)
    BY DEF LoopInv, QuorumCore
  <1> QED
    BY <1>1 DEF LoopInv, isQuorumTransitive, TransitiveQuorums

(* isQuorumTransitive answers for the largest quorum among the nodes it is *)
(* given, whatever the quorum sets: the definition the slot's model uses   *)
(* is what the loop computes.                                              *)
THEOREM LoopComputesTransitiveQuorum == LoopSpec => []AnswerIsTransitive
  <1>1. LoopInit => LoopInv
    BY DEF LoopInit, LoopInv, QuorumCore
  <1>2. LoopInv /\ [LoopNext]_loopVars => LoopInv'
    <2>1. LoopInv /\ UNCHANGED loopVars => LoopInv'
      BY DEF loopVars, LoopInv, QuorumCore, IsQuorum, hasQuorum
    <2> QED
      BY <2>1, PassInv DEF LoopNext
  <1> QED
    BY <1>1, <1>2, LoopInvAnswer, PTL DEF LoopSpec

-----------------------------------------------------------------------------
(***************************************************************************)
(* advanceSlot draws every conclusion.  The calls nested in its body only  *)
(* leave a mark, so that a step which changes something and leaves none    *)
(* would end a handler too early.  RestInv says where a handler may stand: *)
(* past the start of the body there is a mark, or our PREPARING statement  *)
(* has just been held back, or the slot has just reported its value; and   *)
(* at rest a quorum set is missing or every conclusion is drawn.           *)
(***************************************************************************)
Drawn(n) ==
    /\ \/ Due(n, "start") = "leave"
       \/ Due(n, "start") = "preparing" /\ HeldBack(n) /\ Due(n, "prepared") = "leave"
    /\ mHeardFromQuorum[n] \/ ~isQuorumTransitive(n, Speakers(n))
Skipped(n) ==
    /\ pc[n] = "prepared" /\ cursor[n] = NoBallot
    /\ Due(n, "start") = "preparing" /\ HeldBack(n)
Reported(n) ==
    /\ pc[n] = "loop" /\ mIsCommitted[n] /\ mIsExternalized[n]
    /\ ~Throws(n, Committers(n, mBallot[n].value))
Rest(n) ==
    /\ pc[n] \in {"idle", "start"} => cursor[n] = NoBallot
    /\ pc[n] = "idle" => Throws(n, Heard(n)) \/ Drawn(n)
    /\ pc[n] \notin {"idle", "start", "aborted"} => mRunAdvanceSlot[n] \/ Skipped(n) \/ Reported(n)
(* What we hold of our own was broadcast, a PREPARING statement whatever    *)
(* becomes of its ballot.                                                  *)
OwnSent == \A n \in Honest : \A e \in Held(n) : e.node = n => e \in sent
RestInv == OwnSent /\ \A n \in Honest : Rest(n)

(* What these hold by does not change.                                     *)
SameView(n) ==
    /\ mBallot'[n] = mBallot[n] /\ mIsPristine'[n] = mIsPristine[n]
    /\ mIsCommitted'[n] = mIsCommitted[n] /\ mIsExternalized'[n] = mIsExternalized[n]
    /\ mStatements'[n] = mStatements[n] /\ cursor'[n] = cursor[n]
    /\ \A m \in Heard(n) : m \in qsets'[n] <=> m \in qsets[n]

(* Only nodes that were heard are counted.                                 *)
LEMMA CountsHeard ==
  ASSUME NEW n
  PROVE  /\ \A b, t : Stating(n, b, t) \subseteq Heard(n)
         /\ \A v : Committers(n, v) \subseteq Heard(n)
         /\ Speakers(n) \subseteq Heard(n)
  BY DEF Stating, Committers, Speakers, Heard

LEMMA SameCounts ==
  ASSUME NEW n \in Honest, SameView(n)
  PROVE  /\ \A b, t : Stating(n, b, t)' = Stating(n, b, t)
         /\ \A v : Committers(n, v)' = Committers(n, v)
         /\ \A b, v : Ratifiers(n, b, v)' = Ratifiers(n, b, v)
         /\ Speakers(n)' = Speakers(n)
         /\ \A b, t : Throws(n, Stating(n, b, t))' <=> Throws(n, Stating(n, b, t))
         /\ \A v : Throws(n, Committers(n, v))' <=> Throws(n, Committers(n, v))
         /\ Throws(n, Heard(n))' <=> Throws(n, Heard(n))
  <1>1. /\ mStatements'[n] = mStatements[n] /\ mBallot'[n] = mBallot[n]
        /\ \A m \in Heard(n) : m \in qsets'[n] <=> m \in qsets[n]
    BY DEF SameView
  <1>2. ASSUME NEW b, NEW v, NEW s
        PROVE  CompatibleOrAborted(n, b, s, v)' <=> CompatibleOrAborted(n, b, s, v)
    BY <1>1 DEF CompatibleOrAborted, isVBlocking
  <1>3. ASSUME NEW b, NEW v PROVE Ratifiers(n, b, v)' = Ratifiers(n, b, v)
    BY <1>1, <1>2 DEF Ratifiers
  <1>4. \A b, t : Stating(n, b, t)' = Stating(n, b, t)
    BY <1>1 DEF Stating
  <1>5. \A v : Committers(n, v)' = Committers(n, v)
    BY <1>1 DEF Committers
  <1>6. Speakers(n)' = Speakers(n) /\ Heard(n)' = Heard(n)
    BY <1>1 DEF Speakers, Heard
  <1>7. ASSUME NEW S \in SUBSET Heard(n) PROVE S \ qsets'[n] # {} <=> S \ qsets[n] # {}
    BY <1>1
  <1>8. \A b, t : Throws(n, Stating(n, b, t))' <=> Throws(n, Stating(n, b, t))
    BY <1>4, <1>7, CountsHeard DEF Throws
  <1>9. \A v : Throws(n, Committers(n, v))' <=> Throws(n, Committers(n, v))
    BY <1>5, <1>7, CountsHeard DEF Throws
  <1>10. Throws(n, Heard(n))' <=> Throws(n, Heard(n))
    BY <1>6, <1>7 DEF Throws
  <1> QED
    BY <1>3, <1>4, <1>5, <1>6, <1>8, <1>9, <1>10

LEMMA SameDue ==
  ASSUME NEW n \in Honest, SameView(n)
  PROVE  Due(n, "start")' = Due(n, "start") /\ Due(n, "prepared")' = Due(n, "prepared")
  <1> USE SameCounts
  <1>1. mBallot'[n] = mBallot[n] /\ cursor'[n] = cursor[n] /\ mStatements'[n] = mStatements[n]
    BY DEF SameView
  <1>2. \A b, t : Says(n, b, t)' <=> Says(n, b, t)
    BY DEF Says
  <1>3. \A b : PreparedEarly(n, b)' <=> PreparedEarly(n, b)
    BY <1>2 DEF PreparedEarly, isVBlocking
  <1>4. \A b : isPrepared(n, b)' <=> isPrepared(n, b)
    BY <1>1, <1>3 DEF isPrepared, isQuorumTransitive
  <1>5. /\ isPreparedConfirmed(n, mBallot[n])' <=> isPreparedConfirmed(n, mBallot[n])
        /\ isCommitted(n, mBallot[n])' <=> isCommitted(n, mBallot[n])
    BY <1>1, <1>2 DEF isPreparedConfirmed, isCommitted, isQuorumTransitive
  <1>6. \A v : isCommittedConfirmed(n, v)' <=> isCommittedConfirmed(n, v)
    BY DEF isCommittedConfirmed, isQuorumTransitive
  <1>7. \A b : PreparedDue(n, b)' <=> PreparedDue(n, b)
    BY <1>2, <1>3, <1>4 DEF PreparedDue, PreparedThrows
  <1>8. \A b : /\ LoopCommittedDue(n, b)' <=> LoopCommittedDue(n, b)
               /\ LoopPreparedDue(n, b)' <=> LoopPreparedDue(n, b)
    BY <1>1, <1>4, <1>6, <1>7 DEF LoopCommittedDue, LoopPreparedDue
  <1>9. Ahead(n)' = Ahead(n)
    BY <1>1, <1>8 DEF Ahead
  <1>10. /\ CommittingDue(n)' <=> CommittingDue(n)
         /\ CommittedDue(n)' <=> CommittedDue(n)
         /\ PreparingDue(n)' <=> PreparingDue(n)
         /\ PreparedDue(n, mBallot[n])' <=> PreparedDue(n, mBallot[n])
         /\ Says(n, mBallot[n], "COMMITTING")' <=> Says(n, mBallot[n], "COMMITTING")
    BY <1>1, <1>2, <1>5, <1>7 DEF CommittingDue, CommittedDue, PreparingDue
  <1>11. ExternalizeDue(n)' <=> ExternalizeDue(n)
    BY <1>1, <1>6 DEF ExternalizeDue, SameView
  <1> QED
    BY <1>1, <1>8, <1>9, <1>10, <1>11 DEF Due, SameView

(* So a slot that nothing happens to stays where it is.                    *)
LEMMA SameRest ==
  ASSUME NEW n \in Honest, Rest(n), SameView(n),
         pc'[n] = pc[n], mHeardFromQuorum'[n] = mHeardFromQuorum[n],
         mRunAdvanceSlot[n] => mRunAdvanceSlot'[n], HeldBack(n) => HeldBack(n)'
  PROVE  Rest(n)'
  <1>1. Drawn(n) => Drawn(n)'
    BY SameDue, SameCounts DEF Drawn, isQuorumTransitive
  <1>2. Reported(n) => Reported(n)'
    BY SameCounts DEF Reported, SameView
  <1>3. Skipped(n) => Skipped(n)'
    BY SameDue DEF Skipped, SameView
  <1> QED
    BY <1>1, <1>2, <1>3, SameCounts DEF Rest, SameView

-----------------------------------------------------------------------------
(* The step of one node leaves the others' handlers alone.                 *)
Apart(n) ==
    \A m \in Honest \ {n} :
        /\ pc'[m] = pc[m] /\ mRunAdvanceSlot'[m] = mRunAdvanceSlot[m]
        /\ cursor'[m] = cursor[m] /\ qsets'[m] = qsets[m] /\ fetching'[m] = fetching[m]
        /\ mHeardFromQuorum'[m] = mHeardFromQuorum[m]
        /\ mIsExternalized'[m] = mIsExternalized[m]

LEMMA OthersRest ==
  ASSUME NEW n \in Honest, NEW m \in Honest \ {n}, Rest(m), SlotStep(n), Apart(n)
  PROVE  Rest(m)'
  <1>1. validating'[m] = validating[m] /\ SameView(m)
    BY DEF SlotStep, Frozen, Kept, Apart, SameView
  <1>2. HeldBack(m) => HeldBack(m)'
    BY <1>1 DEF HeldBack, SameView
  <1> QED
    BY <1>1, <1>2, SameRest DEF Apart

(* What a handler of an envelope does to the flow of control.              *)
ControlApart(n) ==
    \A m \in Honest \ {n} :
        /\ pc'[m] = pc[m] /\ mRunAdvanceSlot'[m] = mRunAdvanceSlot[m]
        /\ mHeardFromQuorum'[m] = mHeardFromQuorum[m]

LEMMA CallApart ==
  ASSUME TypeOK, NEW n \in Honest, NEW l, CallAdvanceSlot(n, l) \/ Return(n, l)
  PROVE  /\ \A m \in Honest \ {n} : pc'[m] = pc[m] /\ mRunAdvanceSlot'[m] = mRunAdvanceSlot[m]
         /\ mRunAdvanceSlot[n] => mRunAdvanceSlot'[n]
  BY DEF TypeOK, CallAdvanceSlot, Return, Goto

LEMMA CallMarks ==
  ASSUME TypeOK, NEW n \in Honest, NEW l, CallAdvanceSlot(n, l)
  PROVE  /\ pc[n] = "idle" => pc'[n] = "start"
         /\ pc[n] # "idle" => pc'[n] = l /\ mRunAdvanceSlot'[n]
  BY DEF TypeOK, CallAdvanceSlot, Goto

LEMMA ReturnGoes ==
  ASSUME TypeOK, NEW n \in Honest, NEW l, Return(n, l)
  PROVE  pc'[n] = l
  BY DEF TypeOK, Return, Goto

LEMMA BallotValidRests ==
  ASSUME TypeOK, NEW n \in Honest, NEW e, NEW l, BallotValid(n, e, l)
  PROVE  /\ ControlApart(n)
         /\ \/ pc'[n] = "aborted"
            \/ pc[n] = "idle" /\ pc'[n] = "start"
            \/ pc[n] # "idle" /\ pc'[n] = l /\ mRunAdvanceSlot'[n]
  <1>1. CASE AssertFails(n)
    BY <1>1 DEF TypeOK, AssertFails, Goto, ballotVars, ControlApart
  <1>2. CASE CallAdvanceSlot(n, l) /\ (bumpToBallot(n, e.ballot) \/ UNCHANGED ballotVars)
    <2>1. \A m \in Honest \ {n} : mHeardFromQuorum'[m] = mHeardFromQuorum[m]
      BY <1>2 DEF TypeOK, bumpToBallot, ballotVars
    <2> QED
      BY <1>2, <2>1, CallApart, CallMarks DEF ControlApart
  <1> QED
    BY <1>1, <1>2 DEF BallotValid

(* The handler of an envelope: another call is due or marked, or a ballot  *)
(* of the envelope is left waiting, or the slot is as it was.              *)
Handled(n, e, V, l) ==
    /\ ControlApart(n)
    /\ V \subseteq validating'[n]
    /\ \/ pc'[n] = "aborted"
       \/ pc[n] = "idle" /\ pc'[n] = "start"
       \/ pc[n] # "idle" /\ pc'[n] = l /\ mRunAdvanceSlot'[n]
       \/ /\ pc'[n] = l /\ UNCHANGED <<ballotVars, mStatements>>
          /\ mRunAdvanceSlot'[n] = mRunAdvanceSlot[n]
          /\ \/ e.type = "PREPARING" /\ [stage |-> "ballot", envelope |-> e] \in validating'[n]
             \/ e.type = "COMMITTING" /\ ~CommittingAcceptable(n, e)
             \/ e.type = "COMMITTED"
             \/ e.type # "COMMITTED" /\ mIsCommitted[n]
             \/ Rejectable # {} /\ (e.type = "PREPARING" \/ e.ballot.value \notin Validated(n))
             \/ e.node # n

LEMMA ValueValidRests ==
  ASSUME TypeOK, NEW n \in Honest, NEW e, NEW V, NEW l, ValueValid(n, e, V, l)
  PROVE  Handled(n, e, V, l)
  <1>1. CASE ProcessPreparing(n, e, V, l)
    <2>1. CASE BallotValid(n, e, l) /\ Wait(n, V)
      <3>1. validating'[n] = V
        BY <2>1, WaitSteps
      <3> QED
        BY <2>1, <3>1, BallotValidRests DEF Handled
    <2>2. CASE "ballot" \in Rejectable /\ Return(n, l) /\ Wait(n, V) /\ UNCHANGED <<ballotVars, mStatements>>
      <3>1. validating'[n] = V
        BY <2>2, WaitSteps
      <3>2. ControlApart(n) /\ mRunAdvanceSlot'[n] = mRunAdvanceSlot[n]
        BY <2>2, CallApart DEF ControlApart, ballotVars, Return
      <3>3. Rejectable # {}
        BY <2>2
      <3> QED
        BY <1>1, <2>2, <3>1, <3>2, <3>3, ReturnGoes DEF Handled, ProcessPreparing
    <2>3. CASE /\ Return(n, l)
               /\ Wait(n, V \cup {[stage |-> "ballot", envelope |-> e]})
               /\ UNCHANGED <<ballotVars, mStatements>>
      <3>1. validating'[n] = V \cup {[stage |-> "ballot", envelope |-> e]}
        BY <2>3, WaitSteps
      <3>2. ControlApart(n) /\ mRunAdvanceSlot'[n] = mRunAdvanceSlot[n]
        BY <2>3, CallApart DEF ControlApart, ballotVars, Return
      <3> QED
        BY <1>1, <2>3, <3>1, <3>2, ReturnGoes DEF Handled, ProcessPreparing
    <2> QED
      BY <1>1, <2>1, <2>2, <2>3 DEF ProcessPreparing
  <1>2. CASE /\ \/ ProcessPrepared(n, e, l)
                \/ ProcessCommitting(n, e, l)
                \/ ProcessCommitted(n, e, l)
                \/ ProcessLate(n, e, l)
             /\ Wait(n, V)
             /\ UNCHANGED ballotVars
    <2>1. validating'[n] = V
      BY <1>2, WaitSteps
    <2>2. CASE CallAdvanceSlot(n, l)
      <3>1. ControlApart(n)
        BY <1>2, <2>2, CallApart DEF ControlApart, ballotVars
      <3> QED
        BY <2>1, <2>2, <3>1, CallMarks DEF Handled
    <2>3. CASE /\ Return(n, l) /\ UNCHANGED mStatements
               /\ \/ e.type = "COMMITTING" /\ ~CommittingAcceptable(n, e)
                  \/ e.type = "COMMITTED"
                  \/ e.type # "COMMITTED" /\ mIsCommitted[n]
      <3>1. ControlApart(n) /\ mRunAdvanceSlot'[n] = mRunAdvanceSlot[n]
        BY <1>2, <2>3, CallApart DEF ControlApart, ballotVars, Return
      <3> QED
        BY <1>2, <2>1, <2>3, <3>1, ReturnGoes DEF Handled
    <2> QED
      BY <1>2, <2>2, <2>3 DEF ProcessPrepared, ProcessCommitting, ProcessCommitted, ProcessLate
  <1> QED
    BY <1>1, <1>2 DEF ValueValid

LEMMA ProcessEnvelopeRests ==
  ASSUME TypeOK, NEW n \in Honest, NEW e, NEW l, processEnvelope(n, e, l)
  PROVE  Handled(n, e, validating[n], l)
  <1>1. CASE ValueValid(n, e, validating[n], l)
    BY <1>1, ValueValidRests
  <1>2. CASE (ValueRefused(n, e, l) \/ ValueDeferred(n, e, l)) /\ UNCHANGED ballotVars
    <2>1. /\ Return(n, l) /\ UNCHANGED <<ballotVars, mStatements>>
          /\ e.node # n \/ (Rejectable # {} /\ e.ballot.value \notin Validated(n))
      BY <1>2 DEF ValueRefused, ValueDeferred
    <2>2. validating[n] \subseteq validating'[n]
      BY <1>2, WaitSteps DEF ValueRefused, ValueDeferred
    <2>3. ControlApart(n) /\ mRunAdvanceSlot'[n] = mRunAdvanceSlot[n]
      BY <2>1, CallApart DEF ControlApart, ballotVars, Return
    <2> QED
      BY <2>1, <2>2, <2>3, ReturnGoes DEF Handled
  <1> QED
    BY <1>1, <1>2 DEF processEnvelope

-----------------------------------------------------------------------------
(* The body of advanceSlot.                                                *)

(* A majority of the validators that says so is also a blocking set.       *)
MajorityThresholds == \A n \in Honest : Cardinality(validators[n]) < 2 * threshold[n]

LEMMA QuorumBlocks ==
  ASSUME MajorityThresholds, NEW n \in Honest, NEW S \in SUBSET Node, isQuorumTransitive(n, S)
  PROVE  isVBlocking(n, S)
  <1>1. n \in Node
    BY SlotAssumption
  <1>2. hasQuorum(n, S)
    <2>1. hasQuorum(n, QuorumCore(S))
      BY <1>1 DEF isQuorumTransitive, TransitiveQuorums
    <2>2. QuorumCore(S) \in SUBSET Node /\ QuorumCore(S) \subseteq S
      BY CoreIsQuorum
    <2> QED
      BY <1>1, <2>1, <2>2, hasQuorumMonotone
  <1>3. IsFiniteSet(validators[n]) /\ IsFiniteSet(validators[n] \cap S)
    BY <1>1, QSetAssumption, FS_Subset
  <1>4. Cardinality(validators[n]) \in Nat /\ Cardinality(validators[n] \cap S) \in Nat
    BY <1>3, FS_CardinalityType
  <1>5. threshold[n] \in 1 .. Cardinality(validators[n])
    BY <1>1, QSetAssumption
  <1> QED
    BY <1>2, <1>4, <1>5 DEF hasQuorum, isVBlocking, MajorityThresholds

(* A set that persuades a node is not empty.                               *)
LEMMA PersuadedBySome ==
  ASSUME NEW n \in Honest, NEW S \in SUBSET Node, isVBlocking(n, S) \/ isQuorumTransitive(n, S)
  PROVE  S # {}
  <1> SUFFICES ASSUME S = {} PROVE FALSE
    OBVIOUS
  <1>1. CASE isQuorumTransitive(n, S)
    BY <1>1, QuorumIntersection
  <1>2. CASE isVBlocking(n, S)
    <2>1. n \in Node /\ validators[n] \cap S = {}
      BY SlotAssumption
    <2>2. Cardinality(validators[n] \cap S) = 0
      BY <2>1, FS_EmptySet
    <2>3. IsFiniteSet(validators[n])
      BY <2>1, QSetAssumption, FS_Subset
    <2>4. Cardinality(validators[n]) \in Nat /\ threshold[n] \in 1 .. Cardinality(validators[n])
      BY <2>1, <2>3, QSetAssumption, FS_CardinalityType
    <2> QED
      BY <1>2, <2>2, <2>4 DEF isVBlocking
  <1> QED
    BY <1>1, <1>2

(* So the value of a prepared ballot was found valid, and what we then say *)
(* of it is not refused.                                                   *)
LEMMA PreparedIsValidated ==
  ASSUME TypeOK, NEW n \in Honest, NEW b, isPrepared(n, b)
  PROVE  b.value \in Validated(n)
  <1>1. /\ Stating(n, b, "PREPARED") \in SUBSET Node
        /\ Ratifiers(n, b, mBallot[n].value) \in SUBSET Node
    BY StatingType DEF TypeOK, Envelope, Ratifiers
  <1>2. Stating(n, b, "PREPARED") # {} \/ Ratifiers(n, b, mBallot[n].value) # {}
    BY <1>1, PersuadedBySome DEF isPrepared, PreparedEarly, Says
  <1>3. \E s \in mStatements[n] : s.ballot = b
    BY <1>2 DEF Stating, Ratifiers
  <1> QED
    BY <1>3 DEF Validated

(* A body that comes to COMMITTING from its start, or past a PREPARING     *)
(* statement that is held back, has PREPARED the ballot and made no        *)
(* PREPARING statement above it: its own statement is taken.               *)
LEMMA OwnCommittingTaken ==
  ASSUME MajorityThresholds, SafetyInv, OwnSent, NEW n \in Honest,
         NEW l \in {"start", "prepared"}, Due(n, l) = "committing",
         ~Throws(n, Stating(n, mBallot[n], "PREPARED"))
  PROVE  /\ CommittingAcceptable(n, Statement(n, "COMMITTING", mBallot[n]))
         /\ mBallot[n].value \in Validated(n)
  <1> DEFINE e == Statement(n, "COMMITTING", mBallot[n])
  <1>1. /\ ~PreparedDue(n, mBallot[n]) /\ CommittingDue(n)
    BY DEF Due
  <1>2. isQuorumTransitive(n, Stating(n, mBallot[n], "PREPARED"))
    BY <1>1 DEF CommittingDue, isPreparedConfirmed
  <1>3. Stating(n, mBallot[n], "PREPARED") \in SUBSET Node
    BY StatingType DEF SafetyInv, TypeInv
  <1>4. PreparedEarly(n, mBallot[n])
    BY <1>2, <1>3, QuorumBlocks DEF PreparedEarly
  <1>5. Says(n, mBallot[n], "PREPARED")
    BY <1>1, <1>4 DEF PreparedDue, isPrepared
  <1>6. e.node = n /\ e.ballot = mBallot[n]
    BY DEF Statement
  <1>7. \E s \in getNodeStatements(n, n, "PREPARED") : s.ballot = mBallot[n]
    BY <1>5 DEF Says, Stating, getNodeStatements
  <1>8. ASSUME NEW s \in getNodeStatements(n, n, "PREPARING") PROVE ~BallotLess(mBallot[n], s.ballot)
    <2>1. s \in Held(n) /\ s.node = n /\ s.type = "PREPARING"
      BY <1>8 DEF getNodeStatements, Held
    <2>2. s \in sent
      BY <2>1 DEF OwnSent
    <2> QED
      BY <2>1, <2>2 DEF SafetyInv, PromiseInv, VowsBelow, Vow
  <1>9. mBallot[n].value \in Validated(n)
    BY <1>7 DEF getNodeStatements, Validated
  <1> QED
    BY <1>6, <1>7, <1>8, <1>9 DEF CommittingAcceptable

LEMMA EndRests ==
  ASSUME TypeOK, NEW n \in Honest, EndAdvanceSlot(n)
  PROVE  /\ cursor'[n] = NoBallot
         /\ pc'[n] = IF mRunAdvanceSlot[n] THEN "start" ELSE "idle"
         /\ \A m \in Honest \ {n} : /\ pc'[m] = pc[m] /\ cursor'[m] = cursor[m]
                                    /\ mRunAdvanceSlot'[m] = mRunAdvanceSlot[m]
  BY DEF TypeOK, EndAdvanceSlot, Goto

LEMMA NotFoundRests ==
  ASSUME TypeOK, NEW n \in Honest, NEW S \in SUBSET Heard(n), QuorumSetNotFound(n, S)
  PROVE  Rest(n)' /\ Apart(n)
  <1>1. S \ qsets[n] # {} /\ \A m \in Honest \ {n} : fetching'[m] = fetching[m]
    BY DEF TypeOK, QuorumSetNotFound
  <1>2. EndAdvanceSlot(n) /\ UNCHANGED <<mHeardFromQuorum, mIsExternalized, qsets, mStatements>>
    BY DEF QuorumSetNotFound, ballotVars, finalVars
  <1>3. Throws(n, Heard(n))'
    BY <1>1, <1>2 DEF Throws, Heard
  <1> QED
    BY <1>1, <1>2, <1>3, EndRests DEF Rest, Apart

(* A statement of our own, processed inside the body.                      *)
InBody == {"prepared", "committing", "committed", "loop", "loopPrepared"}
LEMMA BodyRests ==
  ASSUME TypeOK, NEW n \in Honest, NEW e, NEW l \in InBody,
         e.node = n, pc[n] # "idle", processEnvelope(n, e, l),
         \/ mRunAdvanceSlot[n]
         \/ /\ ~mIsCommitted[n] /\ e.type \in {"PREPARED", "COMMITTING"}
            /\ e.type = "COMMITTING" => CommittingAcceptable(n, e)
            /\ e.ballot.value \in Validated(n)
  PROVE  Rest(n)' /\ ControlApart(n)
  <1>1. Handled(n, e, validating[n], l)
    BY ProcessEnvelopeRests
  <1>2. pc'[n] = "aborted" \/ (pc'[n] = l /\ mRunAdvanceSlot'[n])
    BY <1>1 DEF Handled
  <1> QED
    BY <1>1, <1>2 DEF Rest, InBody, Handled

(* Our PREPARING statement is taken, which leaves a mark, or held back.    *)
LEMMA PreparingRests ==
  ASSUME TypeOK, NEW n \in Honest, NEW p, pc[n] = "start", cursor[n] = NoBallot,
         Due(n, "start") = "preparing", processEnvelope(n, PreparingStatement(n, p), "prepared"),
         UNCHANGED <<finalVars, envVars, cursor>>
  PROVE  Rest(n)' /\ ControlApart(n)
  <1> DEFINE e == PreparingStatement(n, p)
  <1>1. Handled(n, e, validating[n], "prepared")
    BY ProcessEnvelopeRests
  <1>2. e.node = n /\ e.type = "PREPARING" /\ e.ballot = mBallot[n] /\ ~mIsCommitted[n]
    BY DueFacts DEF PreparingStatement, Place
  <1> HIDE DEF e
  <1>3. CASE pc'[n] = "aborted" \/ (pc'[n] = "prepared" /\ mRunAdvanceSlot'[n])
    BY <1>1, <1>3 DEF Rest, Handled
  <1>4. CASE ~(pc'[n] = "aborted" \/ (pc'[n] = "prepared" /\ mRunAdvanceSlot'[n]))
    <2>1. /\ pc'[n] = "prepared" /\ UNCHANGED <<ballotVars, mStatements>>
          /\ [stage |-> "ballot", envelope |-> e] \in validating'[n] \/ Rejectable # {}
      BY <1>1, <1>2, <1>4 DEF Handled
    <2>2. SameView(n)
      BY <2>1 DEF SameView, ballotVars, finalVars, envVars
    <2>3. Due(n, "start")' = "preparing"
      BY <2>2, SameDue
    <2>4. HeldBack(n)'
      <3>1. mBallot' = mBallot
        BY <2>1 DEF ballotVars
      <3> QED
        BY <1>2, <2>1, <3>1 DEF HeldBack
    <2>5. cursor'[n] = NoBallot
      OBVIOUS
    <2> QED
      BY <1>1, <2>1, <2>3, <2>4, <2>5 DEF Rest, Skipped, Handled
  <1> QED
    BY <1>3, <1>4

(* The slot's COMMITTED statement is its first.                            *)
LEMMA CommitRests ==
  ASSUME TypeOK, CommitLock, NEW n \in Honest, NEW b, NEW l \in InBody,
         ~mIsCommitted[n], pc[n] # "idle", commitTo(n, b, l)
  PROVE  /\ Rest(n)'
         /\ \A m \in Honest \ {n} : pc'[m] = pc[m] /\ mRunAdvanceSlot'[m] = mRunAdvanceSlot[m]
         /\ UNCHANGED <<mIsExternalized, qsets, fetching>>
  <1>1. getNodeStatements(n, n, "COMMITTED") = {}
    BY DEF getNodeStatements, CommitLock
  <1>2. Statement(n, "COMMITTED", b).node = n
    BY DEF Statement
  <1>3. CallAdvanceSlot(n, l) /\ UNCHANGED <<mIsExternalized, qsets, fetching>>
    BY <1>1, <1>2 DEF commitTo, ProcessCommitted, envVars
  <1> QED
    BY <1>3, CallMarks, CallApart DEF Rest, InBody

LEMMA BallotIsPreparedRests ==
  ASSUME TypeOK, NEW n \in Honest, NEW b, pc[n] # "idle", BallotIsPrepared(n, b),
         mRunAdvanceSlot[n] \/ (~mIsCommitted[n] /\ b.value \in Validated(n))
  PROVE  Rest(n)' /\ Apart(n)
  <1>1. CASE PreparedThrows(n, b)
    BY <1>1, CountsHeard, NotFoundRests DEF BallotIsPrepared
  <1>2. CASE ~PreparedThrows(n, b)
    <2>1. /\ UNCHANGED <<mIsExternalized, qsets, fetching>>
          /\ \A m \in Honest \ {n} : cursor'[m] = cursor[m]
      BY <1>2 DEF TypeOK, BallotIsPrepared, finalVars, envVars
    <2>2. CASE AssertFails(n)
      BY <2>1, <2>2 DEF TypeOK, AssertFails, Goto, ballotVars, Rest, Apart
    <2>3. CASE bumpToBallot(n, b) /\ mRunAdvanceSlot' = [mRunAdvanceSlot EXCEPT ![n] = TRUE] /\ Goto(n, "loop")
      BY <2>1, <2>3 DEF TypeOK, bumpToBallot, Goto, Rest, Apart
    <2>4. CASE processEnvelope(n, Statement(n, "PREPARED", b), "loop")
      <3>1. /\ Statement(n, "PREPARED", b).node = n /\ Statement(n, "PREPARED", b).type = "PREPARED"
            /\ Statement(n, "PREPARED", b).ballot = b
        BY DEF Statement
      <3>2. Rest(n)' /\ ControlApart(n)
        BY <2>4, <3>1, BodyRests DEF InBody
      <3> QED
        BY <2>1, <3>2 DEF ControlApart, Apart
    <2> QED
      BY <1>2, <2>2, <2>3, <2>4 DEF BallotIsPrepared
  <1> QED
    BY <1>1, <1>2

(* Leaving: from the start of the body nothing was due; past it nothing    *)
(* changed since without a mark.                                           *)
LEMMA LeaveRests ==
  ASSUME TypeInv, NEW n \in Honest, Rest(n), pc[n] \in Place \ {"idle", "aborted"},
         Due(n, pc[n]) = "leave", LeaveAdvanceSlot(n)
  PROVE  Rest(n)' /\ Apart(n)
  <1> USE DEF TypeInv
  <1>1. CASE QuorumSetNotFound(n, Speakers(n))
    BY <1>1, CountsHeard, NotFoundRests
  <1>2. CASE /\ mHeardFromQuorum' = [mHeardFromQuorum EXCEPT ![n] =
                                       @ \/ isQuorumTransitive(n, Speakers(n))]
             /\ EndAdvanceSlot(n)
             /\ UNCHANGED <<mBallot, mIsPristine, finalVars, mStatements, envVars, validating, sent>>
    <2>1. /\ UNCHANGED <<mBallot, mIsPristine, mIsCommitted, mIsExternalized, mStatements>>
          /\ UNCHANGED <<qsets, fetching, validating>>
      BY <1>2 DEF finalVars, envVars
    <2>2. /\ mHeardFromQuorum'[n] = (mHeardFromQuorum[n] \/ isQuorumTransitive(n, Speakers(n)))
          /\ \A m \in Honest \ {n} : mHeardFromQuorum'[m] = mHeardFromQuorum[m]
      BY <1>2 DEF TypeOK
    <2>3. Apart(n)
      BY <1>2, <2>1, <2>2, EndRests DEF Apart
    <2>4. Speakers(n)' = Speakers(n)
      BY <2>1 DEF Speakers
    <2>5. mHeardFromQuorum'[n] \/ ~isQuorumTransitive(n, Speakers(n))'
      BY <2>2, <2>4 DEF isQuorumTransitive
    <2>6. CASE mRunAdvanceSlot[n]
      BY <1>2, <2>3, <2>6, EndRests DEF Rest
    <2>7. CASE Skipped(n) /\ ~mRunAdvanceSlot[n]
      <3>1. HeldBack(n)'
        BY <2>1, <2>7 DEF Skipped, HeldBack
      <3>2. SameView(n)
        BY <1>2, <2>1, <2>7, EndRests DEF SameView, Skipped
      <3>3. Due(n, "start")' = "preparing" /\ Due(n, "prepared")' = "leave"
        BY <2>7, <3>2, SameDue DEF Skipped
      <3> QED
        BY <1>2, <2>3, <2>5, <2>7, <3>1, <3>3, EndRests DEF Rest, Drawn
    <2>8. CASE pc[n] = "start" /\ ~mRunAdvanceSlot[n]
      <3>1. SameView(n)
        BY <1>2, <2>1, <2>8, EndRests DEF SameView, Rest
      <3>2. Due(n, "start")' = "leave"
        BY <2>8, <3>1, SameDue
      <3> QED
        BY <1>2, <2>3, <2>5, <2>8, <3>2, EndRests DEF Rest, Drawn
    <2>9. CASE Reported(n) /\ ~mRunAdvanceSlot[n]
      <3>1. /\ mIsCommitted'[n] /\ mIsExternalized'[n]
            /\ ~Throws(n, Committers(n, mBallot[n].value))'
        BY <2>1, <2>9 DEF Reported, Throws, Committers
      <3>2. ~ExternalizeDue(n)'
        BY <3>1 DEF ExternalizeDue
      <3>3. Due(n, "start")' = "leave"
        BY <3>1, <3>2 DEF Due
      <3> QED
        BY <1>2, <2>3, <2>5, <2>9, <3>3, EndRests DEF Rest, Drawn
    <2> QED
      BY <2>6, <2>7, <2>8, <2>9 DEF Rest, TypeOK
  <1> QED
    BY <1>1, <1>2 DEF LeaveAdvanceSlot

LEMMA AdvanceSlotRests ==
  ASSUME MajorityThresholds, SafetyInv, OwnSent, NEW n \in Honest, Rest(n), advanceSlot(n)
  PROVE  Rest(n)' /\ Apart(n)
  <1> DEFINE due == Due(n, pc[n])
  <1> USE DEF SafetyInv, TypeInv
  <1>1. pc[n] \in Place \ {"idle", "aborted"} /\ Perform(n, due)
    BY DEF TypeOK, advanceSlot
  <1>2. \A t, b : /\ Statement(n, t, b).node = n /\ Statement(n, t, b).type = t
                  /\ Statement(n, t, b).ballot = b
    BY DEF Statement
  <1>3. \A b \in Current(n) : b.value \in Validated(n)
    BY DEF Current, Ahead, Validated
  <1>4. due # "leave" => pc[n] = "start" \/ mRunAdvanceSlot[n] \/ pc[n] = "prepared"
    <2>1. Reported(n) => due = "leave"
      BY DEF Reported, Due
    <2> QED
      BY <1>1, <2>1 DEF Rest, Skipped
  <1>5. ASSUME UNCHANGED <<finalVars, envVars, cursor>>, ControlApart(n) PROVE Apart(n)
    BY <1>5 DEF finalVars, envVars, ControlApart, Apart
  <1>6. ASSUME UNCHANGED <<mIsExternalized, qsets, fetching>>,
               \A m \in Honest \ {n} : /\ pc'[m] = pc[m] /\ mRunAdvanceSlot'[m] = mRunAdvanceSlot[m]
                                       /\ cursor'[m] = cursor[m]
                                       /\ mHeardFromQuorum'[m] = mHeardFromQuorum[m]
        PROVE  Apart(n)
    BY <1>6 DEF Apart
  <1> USE <1>1, DueFacts
  <1>7. CASE due = "preparing" /\ attemptPreparing(n)
    <2>1. PICK p \in PreparedBallots(n) : processEnvelope(n, PreparingStatement(n, p), "prepared")
      BY <1>7 DEF attemptPreparing
    <2>2. UNCHANGED <<finalVars, envVars, cursor>>
      BY <1>7 DEF attemptPreparing
    <2>3. pc[n] = "start" /\ cursor[n] = NoBallot
      BY <1>7 DEF Due, Rest
    <2>4. Rest(n)' /\ ControlApart(n)
      BY <1>7, <2>1, <2>2, <2>3, PreparingRests
    <2> QED
      BY <1>5, <2>2, <2>4
  <1>8. CASE due = "prepared" /\ attemptPrepared(n)
    <2>1. CASE PreparedThrows(n, mBallot[n])
      BY <1>8, <2>1, CountsHeard, NotFoundRests DEF attemptPrepared
    <2>2. CASE ~PreparedThrows(n, mBallot[n])
      <3>1. mBallot[n].value \in Validated(n)
        BY <1>8, <2>2, PreparedIsValidated DEF Due, PreparedDue
      <3>2. Rest(n)' /\ ControlApart(n)
        BY <1>2, <1>8, <2>2, <3>1, BodyRests DEF InBody, attemptPrepared
      <3> QED
        BY <1>5, <1>8, <2>2, <3>2 DEF attemptPrepared
    <2> QED
      BY <2>1, <2>2
  <1>9. CASE due = "committing" /\ attemptCommitting(n)
    <2>1. CASE Throws(n, Stating(n, mBallot[n], "PREPARED"))
      BY <1>9, <2>1, CountsHeard, NotFoundRests DEF attemptCommitting
    <2>2. CASE ~Throws(n, Stating(n, mBallot[n], "PREPARED"))
      <3>1. \/ mRunAdvanceSlot[n]
            \/ /\ CommittingAcceptable(n, Statement(n, "COMMITTING", mBallot[n]))
               /\ mBallot[n].value \in Validated(n)
        BY <1>4, <1>9, <2>2, OwnCommittingTaken
      <3>2. Rest(n)' /\ ControlApart(n)
        BY <1>2, <1>9, <2>2, <3>1, BodyRests DEF InBody, attemptCommitting
      <3> QED
        BY <1>5, <1>9, <2>2, <3>2 DEF attemptCommitting
    <2> QED
      BY <2>1, <2>2
  <1>10. CASE due = "committed" /\ attemptCommitted(n)
    <2>1. CASE Throws(n, Stating(n, mBallot[n], "COMMITTING"))
      BY <1>10, <2>1, CountsHeard, NotFoundRests DEF attemptCommitted
    <2>2. CASE ~Throws(n, Stating(n, mBallot[n], "COMMITTING"))
      <3>1. ~mIsCommitted[n] /\ commitTo(n, mBallot[n], "loop") /\ UNCHANGED <<mHeardFromQuorum, cursor>>
        BY <1>10, <2>2 DEF attemptCommitted, ballotVars
      <3> QED
        BY <1>6, <3>1, CommitRests DEF InBody
    <2> QED
      BY <2>1, <2>2
  <1>11. CASE due = "externalize" /\ attemptExternalize(n)
    <2>1. CASE Throws(n, Committers(n, mBallot[n].value))
      BY <1>11, <2>1, CountsHeard, NotFoundRests DEF attemptExternalize
    <2>2. CASE ~Throws(n, Committers(n, mBallot[n].value))
      <3>1. /\ mIsExternalized' = [mIsExternalized EXCEPT ![n] = TRUE]
            /\ pc' = [pc EXCEPT ![n] = "loop"]
            /\ UNCHANGED <<mBallot, mHeardFromQuorum, mIsCommitted, mStatements, qsets, fetching>>
            /\ UNCHANGED <<cursor, mRunAdvanceSlot>>
        BY <1>11, <2>2 DEF attemptExternalize, ballotVars, envVars, Return, Goto
      <3>2. mIsCommitted[n]
        BY <1>11 DEF Due
      <3>3. pc'[n] = "loop" /\ mIsExternalized'[n] /\ Apart(n)
        BY <3>1 DEF TypeOK, Apart
      <3>4. ~Throws(n, Committers(n, mBallot[n].value))'
        BY <2>2, <3>1 DEF Throws, Committers
      <3>5. Reported(n)'
        BY <3>1, <3>2, <3>3, <3>4 DEF Reported
      <3> QED
        BY <3>3, <3>5 DEF Rest
    <2> QED
      BY <2>1, <2>2
  <1>12. CASE due = "loop" /\ \E b \in Current(n) : LoopCommitted(n, b)
    <2>1. PICK b \in Current(n) : LoopCommitted(n, b)
      BY <1>12
    <2>2. CASE Throws(n, Committers(n, b.value))
      BY <2>1, <2>2, CountsHeard, NotFoundRests DEF LoopCommitted
    <2>3. CASE ~Throws(n, Committers(n, b.value))
      <3>1. PICK bext \in ExternalizeBallots(n, b.value) :
                  IF BumpAllowed(n, bext)
                  THEN bumpToBallot(n, bext) /\ commitTo(n, bext, "loopPrepared")
                  ELSE AssertFails(n) /\ UNCHANGED <<finalVars, envVars, validating, sent>>
        BY <2>1, <2>3 DEF LoopCommitted
      <3>2. \A m \in Honest \ {n} : cursor'[m] = cursor[m]
        BY <2>1, <2>3 DEF LoopCommitted, TypeOK
      <3>3. CASE BumpAllowed(n, bext)
        <4>1. /\ ~mIsCommitted[n] /\ commitTo(n, bext, "loopPrepared")
              /\ \A m \in Honest \ {n} : mHeardFromQuorum'[m] = mHeardFromQuorum[m]
          BY <3>1, <3>3 DEF BumpAllowed, bumpToBallot, TypeOK
        <4> QED
          BY <1>6, <3>2, <4>1, CommitRests DEF InBody
      <3>4. CASE ~BumpAllowed(n, bext)
        <4>1. AssertFails(n) /\ UNCHANGED <<finalVars, envVars>>
          BY <3>1, <3>4
        <4> QED
          BY <3>2, <4>1 DEF TypeOK, AssertFails, Goto, ballotVars, finalVars, envVars, Rest, Apart
      <3> QED
        BY <3>3, <3>4
    <2> QED
      BY <2>2, <2>3
  <1>13. CASE due = "loop" /\ \E b \in Current(n) : LoopPrepared(n, b)
    <2>1. ~mIsCommitted[n]
      BY <1>13 DEF Due
    <2> QED
      BY <1>3, <1>13, <2>1, BallotIsPreparedRests DEF LoopPrepared
  <1>14. CASE due = "loopPrepared" /\ BallotIsPrepared(n, cursor[n])
    <2>1. pc[n] = "loopPrepared"
      BY <1>14 DEF Due
    <2> QED
      BY <1>4, <1>14, <2>1, BallotIsPreparedRests
  <1>15. CASE due = "leave" /\ LeaveAdvanceSlot(n)
    BY <1>15, LeaveRests
  <1> QED
    BY <1>7, <1>8, <1>9, <1>10, <1>11, <1>12, <1>13, <1>14, <1>15 DEF Perform

-----------------------------------------------------------------------------
(* The entry points.                                                       *)

(* A handler that does not call advanceSlot left the slot as it was.       *)
LEMMA IdleHandlerRests ==
  ASSUME TypeOK, NEW n \in Honest, NEW e, NEW V, Rest(n), pc[n] = "idle", Handled(n, e, V, "idle"),
         UNCHANGED <<finalVars, envVars, cursor>>,
         \A w \in validating[n] : w.stage = "ballot" => w \in V
  PROVE  Rest(n)' /\ Apart(n)
  <1>1. Apart(n)
    BY DEF Handled, ControlApart, Apart, finalVars, envVars
  <1>2. cursor'[n] = NoBallot
    BY DEF Rest
  <1>3. CASE pc'[n] \in {"aborted", "start"}
    BY <1>1, <1>2, <1>3 DEF Rest
  <1>4. CASE pc'[n] \notin {"aborted", "start"}
    <2>1. /\ pc'[n] = "idle" /\ UNCHANGED <<ballotVars, mStatements>>
          /\ mRunAdvanceSlot'[n] = mRunAdvanceSlot[n]
      BY <1>4 DEF Handled
    <2>2. SameView(n) /\ mBallot' = mBallot /\ mHeardFromQuorum' = mHeardFromQuorum
      BY <2>1 DEF SameView, ballotVars, finalVars, envVars
    <2>3. HeldBack(n) => HeldBack(n)'
      BY <2>2 DEF HeldBack, Handled
    <2> QED
      BY <1>1, <2>1, <2>2, <2>3, SameRest
  <1> QED
    BY <1>3, <1>4

LEMMA EnterRests ==
  ASSUME SafetyInv, NEW n \in Honest, Rest(n), Enter(n)
  PROVE  Rest(n)' /\ Apart(n)
  <1> USE DEF SafetyInv, TypeInv
  <1>1. CASE Deliver(n)
    <2>1. PICK e : receiveEnvelope(n, e)
      BY <1>1 DEF Deliver
    <2>2. /\ pc[n] = "idle" /\ processEnvelope(n, e, "idle")
          /\ UNCHANGED <<finalVars, envVars, cursor>>
      BY <2>1 DEF receiveEnvelope, Idle
    <2> QED
      BY <2>2, ProcessEnvelopeRests, IdleHandlerRests
  <1>2. CASE Propose(n)
    <2>1. PICK p \in proposals[n] : prepareValue(n, p[1], p[2])
      BY <1>2 DEF Propose
    <2>2. pc[n] = "idle" /\ UNCHANGED <<mIsCommitted, mIsExternalized, qsets, fetching, cursor, validating>>
      BY <2>1 DEF prepareValue, Idle, finalVars
    <2>3. CASE Return(n, "idle") /\ UNCHANGED <<ballotVars, mStatements>>
      <3>1. pc' = pc /\ mRunAdvanceSlot' = mRunAdvanceSlot
        BY <2>2, <2>3 DEF Return, Goto, TypeOK
      <3>2. SameView(n) /\ Apart(n)
        BY <2>2, <2>3, <3>1 DEF SameView, Apart, ballotVars
      <3>3. HeldBack(n) => HeldBack(n)'
        BY <2>2, <2>3 DEF HeldBack, ballotVars
      <3> QED
        BY <2>2, <2>3, <3>1, <3>2, <3>3, SameRest DEF ballotVars
    <2>4. CASE CallAdvanceSlot(n, "idle") /\ \E b : bumpToBallot(n, b)
      BY <2>2, <2>4, CallMarks, CallApart DEF TypeOK, bumpToBallot, Rest, Apart
    <2>5. CASE AssertFails(n)
      BY <2>2, <2>5 DEF TypeOK, AssertFails, Goto, ballotVars, Rest, Apart
    <2> QED
      BY <2>1, <2>3, <2>4, <2>5 DEF prepareValue
  <1>3. CASE \E w \in validating[n] : ValueValidated(n, w)
    <2>1. PICK w \in validating[n] : ValueValidated(n, w)
      BY <1>3
    <2>2. /\ pc[n] = "idle" /\ w.stage = "value"
          /\ ValueValid(n, w.envelope, validating[n] \ {w}, "idle")
          /\ UNCHANGED <<finalVars, envVars, cursor>>
      BY <2>1 DEF ValueValidated, Idle
    <2>3. Handled(n, w.envelope, validating[n] \ {w}, "idle")
      BY <2>2, ValueValidRests
    <2>4. \A x \in validating[n] : x.stage = "ballot" => x \in validating[n] \ {w}
      BY <2>2
    <2> QED
      BY <2>2, <2>3, <2>4, IdleHandlerRests
  <1>4. CASE \E w \in validating[n] : BallotValidated(n, w)
    <2>1. PICK w \in validating[n] : BallotValidated(n, w)
      BY <1>4
    <2>2. pc[n] = "idle" /\ BallotValid(n, w.envelope, "idle") /\ UNCHANGED <<finalVars, envVars, cursor>>
      BY <2>1 DEF BallotValidated, Idle
    <2>3. ControlApart(n) /\ pc'[n] \in {"aborted", "start"}
      BY <2>2, BallotValidRests
    <2> QED
      BY <2>2, <2>3 DEF Rest, Apart, ControlApart, finalVars, envVars
  <1>5. CASE Retrieve(n)
    <2>1. PICK m \in fetching[n] : quorumSetRetrieved(n, m)
      BY <1>5 DEF Retrieve
    <2>2. /\ pc[n] = "idle" /\ CallAdvanceSlot(n, "idle")
          /\ UNCHANGED <<mHeardFromQuorum, mIsExternalized, cursor>>
          /\ \A k \in Honest \ {n} : qsets'[k] = qsets[k] /\ fetching'[k] = fetching[k]
      BY <2>1 DEF quorumSetRetrieved, Idle, TypeOK, ballotVars, finalVars
    <2> QED
      BY <2>2, CallMarks, CallApart DEF Rest, Apart
  <1>6. CASE \E m \in Purgeable : purgeNode(n, m)
    <2>1. /\ UNCHANGED <<ballotVars, finalVars, bodyVars, mStatements, fetching, validating>>
          /\ qsets'[n] \subseteq qsets[n] /\ \A k \in Honest \ {n} : qsets'[k] = qsets[k]
      BY <1>6 DEF purgeNode, TypeOK
    <2>2. Apart(n)
      BY <2>1 DEF Apart, ballotVars, finalVars, bodyVars
    <2>3. pc[n] = "idle"
      BY <1>6 DEF purgeNode, Idle
    <2>4. CASE Throws(n, Heard(n))'
      BY <2>1, <2>2, <2>3, <2>4 DEF Rest, bodyVars
    <2>5. CASE ~Throws(n, Heard(n))'
      <3>1. SameView(n)
        BY <2>1, <2>5 DEF SameView, Throws, Heard, ballotVars, finalVars, bodyVars
      <3>2. HeldBack(n) => HeldBack(n)'
        BY <2>1 DEF HeldBack, ballotVars
      <3> QED
        BY <2>1, <2>2, <3>1, <3>2, SameRest DEF ballotVars, bodyVars
    <2> QED
      BY <2>4, <2>5
  <1> QED
    BY <1>1, <1>2, <1>3, <1>4, <1>5, <1>6 DEF Enter

-----------------------------------------------------------------------------
(* Statements of our own are broadcast when they are made.                 *)

LEMMA ProcessEnvelopeSends ==
  ASSUME TypeOK, NEW n \in Honest, NEW e, NEW l, e.node = n, processEnvelope(n, e, l)
  PROVE  e \in sent' \/ UNCHANGED <<mStatements, validating>>
  <1>1. Wait(n, validating[n]) => validating' = validating
    BY DEF TypeOK, Wait
  <1>2. ValueValid(n, e, validating[n], l) => e \in sent' \/ UNCHANGED <<mStatements, validating>>
    BY <1>1 DEF ValueValid, ProcessPreparing, ProcessPrepared, ProcessCommitting, ProcessCommitted,
                ProcessLate, EmitOwn
  <1> QED
    BY <1>2 DEF processEnvelope, ValueRefused, ValueDeferred

(* A step that holds nothing new but e.                                    *)
HoldsAtMost(n, e) ==
    \A f \in mStatements'[n] \cup {w.envelope : w \in validating'[n]} :
        f \in Held(n) \/ f = e

LEMMA SendsOwn ==
  ASSUME OwnSent, NEW n \in Honest, SlotStep(n), NEW e, HoldsAtMost(n, e),
         \/ e.node = n => e \in sent'
         \/ UNCHANGED <<mStatements, validating>>
  PROVE  OwnSent'
  <1> SUFFICES ASSUME NEW m \in Honest,
                      NEW f \in mStatements'[m] \cup {w.envelope : w \in validating'[m]},
                      f.node = m
               PROVE  f \in sent'
    BY DEF OwnSent, Held
  <1>1. sent \subseteq sent'
    BY DEF SlotStep
  <1>2. CASE f \in Held(m)
    BY <1>1, <1>2 DEF OwnSent
  <1>3. CASE m # n
    BY <1>2, <1>3 DEF SlotStep, Frozen, Held
  <1>4. CASE m = n /\ UNCHANGED <<mStatements, validating>>
    BY <1>2, <1>4 DEF Held
  <1>5. CASE m = n /\ f = e
    BY <1>4, <1>5
  <1> QED
    BY <1>2, <1>3, <1>5 DEF HoldsAtMost

(* What a step of the body does to the statements: it processes one of our *)
(* own, commits, or leaves them alone.                                     *)
LEMMA BodyTouches ==
  ASSUME NEW n \in Honest, advanceSlot(n)
  PROVE  \/ \E e, l : processEnvelope(n, e, l)
         \/ \E b, l : commitTo(n, b, l)
         \/ UNCHANGED <<mStatements, validating>>
  <1> DEFINE Goal == \/ \E e, l : processEnvelope(n, e, l)
                     \/ \E b, l : commitTo(n, b, l)
                     \/ UNCHANGED <<mStatements, validating>>
  <1>1. ASSUME NEW S, QuorumSetNotFound(n, S) PROVE Goal
    BY <1>1 DEF QuorumSetNotFound
  <1>2. ASSUME NEW b, BallotIsPrepared(n, b) PROVE Goal
    BY <1>1, <1>2 DEF BallotIsPrepared, AssertFails
  <1>3. ASSUME NEW b, LoopCommitted(n, b) PROVE Goal
    BY <1>1, <1>3 DEF LoopCommitted, AssertFails
  <1>4. LeaveAdvanceSlot(n) => Goal
    BY <1>1 DEF LeaveAdvanceSlot
  <1>5. attemptPreparing(n) \/ attemptPrepared(n) \/ attemptCommitting(n) => Goal
    BY <1>1 DEF attemptPreparing, attemptPrepared, attemptCommitting
  <1>6. attemptCommitted(n) \/ attemptExternalize(n) => Goal
    BY <1>1 DEF attemptCommitted, attemptExternalize
  <1> HIDE DEF Goal
  <1>7. Goal
    BY <1>2, <1>3, <1>4, <1>5, <1>6 DEF advanceSlot, Perform, LoopPrepared
  <1> QED
    BY <1>7 DEF Goal

LEMMA OwnSentNext ==
  ASSUME SafetyInv, OwnSent, NEW n \in Honest, advanceSlot(n) \/ Enter(n), SlotStep(n)
  PROVE  OwnSent'
  <1> USE DEF SafetyInv, TypeInv
  <1>1. ASSUME NEW e, HandlerStep(n, e) PROVE HoldsAtMost(n, e)
    <2>1. \A w \in validating'[n] : w.envelope = e \/ w \in validating[n]
      BY <1>1 DEF HandlerStep
    <2> QED
      BY <1>1, <2>1 DEF HandlerStep, HoldsAtMost, Held
  <1>2. ASSUME NEW e, NEW l, processEnvelope(n, e, l) PROVE OwnSent'
    <2>1. HoldsAtMost(n, e)
      BY <1>1, <1>2, ProcessEnvelopeStep
    <2> QED
      BY <1>2, <2>1, ProcessEnvelopeSends, SendsOwn
  <1>3. ASSUME NEW b, NEW l, commitTo(n, b, l) PROVE OwnSent'
    <2> DEFINE e == Statement(n, "COMMITTED", b)
    <2>1. /\ validating' = validating
          /\ (Store(n, e) /\ EmitOwn(n, e)) \/ UNCHANGED mStatements
      BY <1>3 DEF commitTo, ProcessCommitted
    <2> HIDE DEF e
    <2>2. HoldsAtMost(n, e)
      BY <2>1, StoreSteps DEF HoldsAtMost, Held
    <2> QED
      BY <2>1, <2>2, SendsOwn DEF EmitOwn
  <1>4. ASSUME UNCHANGED <<mStatements, validating>> PROVE OwnSent'
    <2>1. HoldsAtMost(n, NoBallot)
      BY <1>4 DEF HoldsAtMost, Held
    <2> QED
      BY <1>4, <2>1, SendsOwn
  <1>5. CASE advanceSlot(n)
    BY <1>2, <1>3, <1>4, <1>5, BodyTouches
  <1>6. CASE Deliver(n)
    BY <1>2, <1>6 DEF Deliver, receiveEnvelope
  <1>7. CASE Propose(n) \/ Retrieve(n) \/ \E m \in Purgeable : purgeNode(n, m)
    <2>1. UNCHANGED <<mStatements, validating>>
      BY <1>7 DEF Propose, prepareValue, AssertFails, Retrieve, quorumSetRetrieved, purgeNode
    <2> QED
      BY <1>4, <2>1
  <1>8. CASE \E w \in validating[n] : ValueValidated(n, w) \/ BallotValidated(n, w)
    <2>1. PICK w \in validating[n] : ValueValidated(n, w) \/ BallotValidated(n, w)
      BY <1>8
    <2>2. CASE ValueValidated(n, w)
      <3>1. HoldsAtMost(n, w.envelope) /\ w.envelope \in Held(n)
        BY <1>1, <2>2, ValueValidStep DEF ValueValidated, Held
      <3>2. w.envelope.node = n => w.envelope \in sent'
        BY <3>1 DEF OwnSent, SlotStep
      <3> QED
        BY <3>1, <3>2, SendsOwn
    <2>3. CASE BallotValidated(n, w)
      <3>1. /\ validating'[n] = validating[n] \ {w}
            /\ mStatements'[n] \subseteq mStatements[n] \cup {w.envelope}
        BY <2>3, WaitSteps, BallotValidStep DEF BallotValidated
      <3>2. HoldsAtMost(n, w.envelope) /\ w.envelope \in Held(n)
        BY <3>1 DEF HoldsAtMost, Held
      <3>3. w.envelope.node = n => w.envelope \in sent'
        BY <3>2 DEF OwnSent, SlotStep
      <3> QED
        BY <3>2, <3>3, SendsOwn
    <2> QED
      BY <2>1, <2>2, <2>3
  <1> QED
    BY <1>5, <1>6, <1>7, <1>8 DEF Enter

LEMMA RestInvInit == Init => RestInv
  <1> SUFFICES ASSUME Init PROVE RestInv
    OBVIOUS
  <1>1. ASSUME NEW n \in Honest PROVE Rest(n)
    <2>1. Ahead(n) = {}
      BY DEF Init, Ahead
    <2>2. Due(n, "start") = "leave"
      BY <2>1 DEF Init, Due
    <2> QED
      BY <2>2 DEF Init, Rest, Drawn
  <1>2. OwnSent
    BY DEF Init, OwnSent, Held
  <1> QED
    BY <1>1, <1>2 DEF RestInv

LEMMA RestInvNext ==
  ASSUME MajorityThresholds, SafetyInv, RestInv, [Next]_vars
  PROVE  RestInv'
  <1>1. CASE UNCHANGED vars
    <2>1. ASSUME NEW n \in Honest PROVE Rest(n)'
      <3>1. SameView(n) /\ (HeldBack(n) => HeldBack(n)')
        BY <1>1 DEF vars, SameView, HeldBack
      <3> QED
        BY <1>1, <3>1, SameRest DEF vars, RestInv
    <2>2. OwnSent'
      BY <1>1 DEF vars, RestInv, OwnSent, Held
    <2> QED
      BY <2>1, <2>2 DEF RestInv
  <1>2. ASSUME NEW n \in Honest, advanceSlot(n) \/ Enter(n) PROVE RestInv'
    <2>1. SlotStep(n)
      BY <1>2, AdvanceSlotStep, EnterStep DEF SafetyInv
    <2>2. Rest(n)' /\ Apart(n)
      BY <1>2, AdvanceSlotRests, EnterRests DEF RestInv
    <2>3. \A m \in Honest \ {n} : Rest(m)'
      BY <2>1, <2>2, OthersRest DEF RestInv
    <2>4. OwnSent'
      BY <1>2, <2>1, OwnSentNext DEF RestInv
    <2> QED
      BY <2>2, <2>3, <2>4 DEF RestInv
  <1> QED
    BY <1>1, <1>2 DEF Next

(* advanceSlot never stops early: where each node asks for a majority of   *)
(* its validators, a node at rest that has the quorum sets of all who      *)
(* spoke has drawn every conclusion its statements allow, but for a        *)
(* PREPARING statement that is held back, whatever was refused, deferred,  *)
(* purged, lost, repeated or sent by faulty nodes.                         *)
THEOREM AdvanceSlotSettles ==
  ASSUME MajorityThresholds
  PROVE  Spec => []Settled
  <1>1. RestInv => Settled
    BY DEF RestInv, Rest, Settled, Drawn
  <1>2. SafetyInv /\ RestInv /\ [Next]_vars => RestInv'
    BY RestInvNext
  <1> QED
    BY <1>1, <1>2, RestInvInit, SafetyInvariant, PTL DEF Spec

-----------------------------------------------------------------------------
(***************************************************************************)
(* Which assert of bumpToBallot can fail.  A slot that has not committed   *)
(* takes ballots not below its own, and no PREPARING statement of its own  *)
(* is above that (BumpFree).  What could go wrong is the loop, which after *)
(* it has committed on the word of a quorum goes on with the ballot it is  *)
(* at: it would move there if that is prepared and above the one it        *)
(* committed to.  It never is.  The loop goes through the ballots in the   *)
(* order of the map and stops at the first with a value that a quorum      *)
(* COMMITTED (Passed), so it is not above the ballots they COMMITTED.      *)
(* What is left is a ballot whose verdict comes after the slot committed:  *)
(* ballot_cb does not look at mIsCommitted again.                          *)
(***************************************************************************)

(* What this supposes of the run: no ballot counter is at its limit, so    *)
(* that none wraps.                                                        *)
CountersLeft == \A n \in Honest : mBallot[n].counter < MaxCounter

Running(n) ==
    /\ pc[n] = "aborted" => "ballot" \in Deferrable /\ mIsCommitted[n]
    /\ mIsExternalized[n] => mIsCommitted[n]
    /\ \A w \in validating[n] : w.stage = "ballot" => "ballot" \in Deferrable
    /\ mIsPristine[n] => mBallot[n] = NoBallot
    /\ pc[n] \notin {"loop", "loopPrepared"} => cursor[n] = NoBallot
    /\ pc[n] = "loopPrepared" => mIsCommitted[n] /\ ~BallotLess(mBallot[n], cursor[n])

(* What the loop has passed by, no quorum COMMITTED.                       *)
Passed(n) ==
    ~mIsCommitted[n] =>
        \A s \in mStatements[n] : MapLess(cursor[n], s.ballot) \/ ~LoopCommittedDue(n, s.ballot)

AbortInv == OwnSent /\ \A n \in Honest : Running(n) /\ Passed(n)

(* The map's order, for ballots that are set.                              *)
LEMMA MapLessTotal ==
  ASSUME NEW a \in Ballot, NEW b \in Ballot, ~MapLess(a, b), ~MapLess(b, a)
  PROVE  a = b
  <1>1. a.counter \in Nat /\ b.counter \in Nat /\ a.value \in Value /\ b.value \in Value
    BY SlotAssumption DEF Ballot, Counter
  <1>2. a.counter = b.counter
    BY <1>1 DEF MapLess
  <1>3. MapRank[a.value] = MapRank[b.value]
    <2>1. /\ a.value # None /\ b.value # None
          /\ MapRank[a.value] \in Nat /\ MapRank[b.value] \in Nat
      BY <1>1, SlotAssumption
    <2>2. /\ ~(MapRank[a.value] < MapRank[b.value])
          /\ ~(MapRank[b.value] < MapRank[a.value])
      BY <1>2, <2>1 DEF MapLess
    <2> QED
      BY <2>1, <2>2
  <1> QED
    BY <1>1, <1>2, <1>3, SlotAssumption DEF Ballot

(* At the start of the loop nothing has been passed by.                    *)
LEMMA PassedAtFirst ==
  ASSUME TypeOK', NEW n \in Honest, cursor'[n] = NoBallot
  PROVE  Passed(n)'
  <1>1. \A s \in mStatements'[n] : s.ballot \in Ballot
    BY DEF TypeOK, Envelope
  <1>2. \A b \in Ballot : MapLess(NoBallot, b)
    BY SlotAssumption DEF MapLess, NoBallot, Ballot, Counter
  <1> QED
    BY <1>1, <1>2 DEF Passed

LEMMA NotLessBothWays ==
  ASSUME NEW a \in Ballot \cup {NoBallot}, NEW b \in Ballot \cup {NoBallot}, BallotLess(a, b)
  PROVE  ~BallotLess(b, a)
  <1>1. \A c \in Ballot \cup {NoBallot} :
           c.counter \in Counter /\ (c.value # None => c.value \in Value)
    <2>1. 0 \in Counter
      BY SlotAssumption DEF Counter
    <2> QED
      BY <2>1 DEF Ballot, NoBallot
  <1>2. \A k \in Counter : k \in Nat /\ \A v \in Value : Rank[k][v] \in Nat
    BY SlotAssumption DEF Counter
  <1>3. CASE a.counter = b.counter
    BY <1>1, <1>2, <1>3 DEF BallotLess
  <1>4. CASE a.counter # b.counter
    BY <1>1, <1>2, <1>4 DEF BallotLess
  <1> QED
    BY <1>3, <1>4

(* A ballot with another value, one counter up if it would be below.       *)
LEMMA RaisedIsNotBelow ==
  ASSUME NEW b \in Ballot \cup {NoBallot}, NEW v \in Value, b.counter < MaxCounter
  PROVE  /\ ~BallotLess([[counter |-> b.counter, value |-> v] EXCEPT !.counter = NextCounter(@)], b)
         /\ [[counter |-> b.counter, value |-> v] EXCEPT !.counter = NextCounter(@)] \in Ballot
         /\ [counter |-> b.counter, value |-> v] \in Ballot
  <1>1. b.counter \in Counter /\ b.counter \in Nat /\ MaxCounter \in Nat
    BY SlotAssumption DEF Ballot, NoBallot, Counter
  <1>2. NextCounter(b.counter) = b.counter + 1 /\ NextCounter(b.counter) \in Counter
    BY <1>1, NextCounterType DEF NextCounter
  <1>3. [[counter |-> b.counter, value |-> v] EXCEPT !.counter = NextCounter(@)]
        = [counter |-> b.counter + 1, value |-> v]
    BY <1>2
  <1>4. ~BallotLess([counter |-> b.counter + 1, value |-> v], b)
    BY <1>1 DEF BallotLess
  <1> QED
    BY <1>1, <1>2, <1>3, <1>4 DEF Ballot

(* A slot that has not committed may move to a ballot not below its own.   *)
LEMMA BumpFree ==
  ASSUME SafetyInv, OwnSent, NEW n \in Honest, Running(n), ~mIsCommitted[n], NEW b \in Ballot,
         mIsPristine[n] \/ ~BallotLess(b, mBallot[n])
  PROVE  BumpAllowed(n, b)
  <1>1. ASSUME NEW s \in getNodeStatements(n, n, "PREPARING") PROVE ~BallotLess(b, s.ballot)
    <2>1. s \in Held(n) /\ s.node = n /\ s.type = "PREPARING" /\ s.ballot \in Ballot
      BY <1>1 DEF getNodeStatements, Held, SafetyInv, TypeInv, TypeOK, Envelope
    <2>2. s \in sent
      BY <2>1 DEF OwnSent
    <2>3. ~mIsPristine[n] /\ ~BallotLess(mBallot[n], s.ballot)
      BY <2>1, <2>2 DEF SafetyInv, PromiseInv, VowsBelow, Vow
    <2>4. mBallot[n] \in Ballot \cup {NoBallot}
      BY DEF SafetyInv, TypeInv, TypeOK
    <2> QED
      BY <2>1, <2>3, <2>4, NotLessTransitive
  <1> QED
    BY <1>1 DEF BumpAllowed, Running

-----------------------------------------------------------------------------
(* The handler of an envelope.                                             *)
HandlerRuns(n, l) ==
    /\ ControlApart(n)
    /\ pc'[n] = l \/ (pc[n] = "idle" /\ pc'[n] = "start")
    /\ \A w \in validating'[n] : w.stage = "ballot" => "ballot" \in Deferrable
    /\ mIsPristine'[n] => mBallot'[n] = NoBallot

LEMMA BallotValidRuns ==
  ASSUME SafetyInv, OwnSent, NEW n \in Honest, Running(n), ~mIsCommitted[n],
         NEW e, e.ballot \in Ballot, NEW l, BallotValid(n, e, l)
  PROVE  CallAdvanceSlot(n, l) /\ (bumpToBallot(n, e.ballot) \/ UNCHANGED ballotVars)
  <1>1. mBallot[n] \in Ballot \cup {NoBallot}
    BY DEF SafetyInv, TypeInv, TypeOK
  <1>2. BallotBumps(n, e) => BumpAllowed(n, e.ballot)
    BY <1>1, NotLessBothWays, BumpFree DEF BallotBumps
  <1> QED
    BY <1>2 DEF BallotValid

LEMMA ValueValidRuns ==
  ASSUME SafetyInv, OwnSent, NEW n \in Honest, Running(n),
         NEW e, e.ballot \in Ballot, NEW V \in SUBSET validating[n], NEW l, ValueValid(n, e, V, l)
  PROVE  HandlerRuns(n, l)
  <1> USE DEF SafetyInv, TypeInv
  <1>1. ControlApart(n)
    BY ValueValidRests DEF Handled
  <1>2. \/ Wait(n, V)
        \/ /\ "ballot" \in Deferrable
           /\ Wait(n, V \cup {[stage |-> "ballot", envelope |-> e]})
    BY DEF ValueValid, ProcessPreparing
  <1>3. \A w \in validating'[n] : w.stage = "ballot" => "ballot" \in Deferrable
    BY <1>2, WaitSteps DEF Running
  <1>4. /\ CallAdvanceSlot(n, l) \/ Return(n, l)
        /\ bumpToBallot(n, e.ballot) \/ UNCHANGED ballotVars
    <2>1. CASE BallotValid(n, e, l) /\ ~mIsCommitted[n]
      BY <2>1, BallotValidRuns
    <2>2. CASE ~(BallotValid(n, e, l) /\ ~mIsCommitted[n])
      BY <2>2 DEF ValueValid, ProcessPreparing, ProcessPrepared, ProcessCommitting,
                  ProcessCommitted, ProcessLate, ballotVars
    <2> QED
      BY <2>1, <2>2
  <1>5. pc'[n] = l \/ (pc[n] = "idle" /\ pc'[n] = "start")
    BY <1>4, CallMarks, ReturnGoes
  <1>6. mIsPristine'[n] => mBallot'[n] = NoBallot
    BY <1>4 DEF bumpToBallot, ballotVars, TypeOK, Running
  <1> QED
    BY <1>1, <1>3, <1>5, <1>6 DEF HandlerRuns

LEMMA ProcessEnvelopeRuns ==
  ASSUME SafetyInv, OwnSent, NEW n \in Honest, Running(n),
         NEW e, e.ballot \in Ballot, NEW l, processEnvelope(n, e, l)
  PROVE  HandlerRuns(n, l)
  <1> USE DEF SafetyInv, TypeInv
  <1>1. CASE ValueValid(n, e, validating[n], l)
    BY <1>1, ValueValidRuns
  <1>2. CASE (ValueRefused(n, e, l) \/ ValueDeferred(n, e, l)) /\ UNCHANGED ballotVars
    <2>1. ControlApart(n)
      BY ProcessEnvelopeRests DEF Handled
    <2>2. Return(n, l)
      BY <1>2 DEF ValueRefused, ValueDeferred
    <2>3. \A w \in validating'[n] : w.stage = "ballot" => "ballot" \in Deferrable
      BY <1>2, WaitSteps DEF ValueRefused, ValueDeferred, Running
    <2> QED
      BY <1>2, <2>1, <2>2, <2>3, ReturnGoes DEF HandlerRuns, Running, ballotVars
  <1> QED
    BY <1>1, <1>2 DEF processEnvelope

(* What a step tells of itself: the slot runs on and the others are left   *)
(* alone.                                                                  *)
Aside(n) ==
    \A m \in Honest \ {n} :
        /\ pc'[m] = pc[m] /\ cursor'[m] = cursor[m] /\ qsets'[m] = qsets[m]
        /\ mIsExternalized'[m] = mIsExternalized[m]
RunsOn(n) == Running(n)' /\ Passed(n)' /\ Aside(n)

(* A handler outside the loop.                                             *)
LEMMA HandlerRunsOn ==
  ASSUME TypeOK', NEW n \in Honest, Running(n), pc[n] \notin {"loop", "loopPrepared"},
         NEW l, l \notin {"aborted", "loopPrepared"},
         HandlerRuns(n, l), UNCHANGED <<finalVars, envVars, cursor>>
  PROVE  RunsOn(n)
  <1>1. cursor'[n] = NoBallot
    BY DEF Running
  <1>2. Running(n)'
    BY <1>1 DEF HandlerRuns, Running, finalVars
  <1>3. Aside(n)
    BY DEF HandlerRuns, ControlApart, Aside, finalVars, envVars
  <1> QED
    BY <1>1, <1>2, <1>3, PassedAtFirst DEF RunsOn

(* A step that leaves the slot and its messages as they are.               *)
LEMMA QuietRunsOn ==
  ASSUME TypeOK', NEW n \in Honest, Running(n), pc'[n] \notin {"aborted", "loopPrepared"},
         mIsPristine'[n] => mBallot'[n] = NoBallot, Aside(n), cursor'[n] = NoBallot,
         mIsExternalized'[n] => mIsCommitted'[n], UNCHANGED validating
  PROVE  RunsOn(n)
  BY PassedAtFirst DEF Running, RunsOn

LEMMA EndRunsOn ==
  ASSUME TypeOK, TypeOK', NEW n \in Honest, Running(n), EndAdvanceSlot(n),
         UNCHANGED <<mBallot, mIsPristine, finalVars, qsets, validating>>
  PROVE  RunsOn(n)
  <1>1. Aside(n) /\ cursor'[n] = NoBallot /\ pc'[n] \notin {"aborted", "loopPrepared"}
    BY EndRests DEF Aside, finalVars
  <1> QED
    BY <1>1, QuietRunsOn DEF Running, finalVars

LEMMA NotFoundRunsOn ==
  ASSUME TypeOK, TypeOK', NEW n \in Honest, Running(n), NEW S, QuorumSetNotFound(n, S)
  PROVE  RunsOn(n)
  BY EndRunsOn DEF QuorumSetNotFound, ballotVars

-----------------------------------------------------------------------------
(* The body of advanceSlot.                                                *)

(* What the handler of a statement that is not COMMITTED leaves of the     *)
(* nodes that COMMITTED.                                                   *)
LEMMA CommittersStay ==
  ASSUME NEW n \in Honest, NEW e, e.type # "COMMITTED", qsets'[n] = qsets[n],
         mStatements'[n] \subseteq mStatements[n] \cup {e},
         \A s \in mStatements[n] : \E t \in mStatements'[n] : SameKey(s, t)
  PROVE  \A b : LoopCommittedDue(n, b)' <=> LoopCommittedDue(n, b)
  <1>1. \A v : Committers(n, v)' = Committers(n, v)
    BY DEF Committers, SameKey
  <1> QED
    BY <1>1 DEF LoopCommittedDue, Throws, isCommittedConfirmed, isQuorumTransitive

(* The loop comes to a ballot of which it only says that it is prepared.   *)
LEMMA LoopPasses ==
  ASSUME TypeOK, NEW n \in Honest, Passed(n), NEW b \in Current(n), ~LoopCommittedDue(n, b),
         cursor'[n] = b, NEW e, e.type # "COMMITTED", e.ballot = b,
         mStatements'[n] \subseteq mStatements[n] \cup {e},
         \A s \in mStatements[n] : \E t \in mStatements'[n] : SameKey(s, t),
         UNCHANGED <<mIsCommitted, qsets>>
  PROVE  Passed(n)'
  <1> SUFFICES ASSUME ~mIsCommitted[n], NEW s \in mStatements'[n], LoopCommittedDue(n, s.ballot)
               PROVE  MapLess(b, s.ballot)
    BY CommittersStay DEF Passed
  <1>1. s \in mStatements[n]
    OBVIOUS
  <1>2. s.ballot \in Ballot /\ b \in Ballot /\ b # s.ballot
    BY <1>1 DEF TypeOK, Envelope, Current, Ahead
  <1>3. s.ballot \in Ahead(n)
    BY <1>1 DEF Passed, Ahead
  <1>4. ~MapLess(s.ballot, b)
    BY <1>3 DEF Current
  <1> QED
    BY <1>2, <1>4, MapLessTotal

LEMMA BallotIsPreparedRuns ==
  ASSUME SafetyInv, TypeOK', OwnSent, NEW n \in Honest, Running(n),
         Passed(n), pc[n] # "idle", NEW b \in Ballot, BallotIsPrepared(n, b),
         \/ b \in Current(n) /\ ~LoopCommittedDue(n, b) /\ ~mIsCommitted[n]
         \/ mIsCommitted[n] /\ ~BallotLess(mBallot[n], b)
  PROVE  RunsOn(n)
  <1> USE DEF SafetyInv, TypeInv
  <1>1. CASE PreparedThrows(n, b)
    BY <1>1, NotFoundRunsOn DEF BallotIsPrepared
  <1>2. CASE ~PreparedThrows(n, b)
    <2> DEFINE e == Statement(n, "PREPARED", b)
    <2>1. /\ UNCHANGED <<mIsCommitted, mIsExternalized, qsets>>
          /\ cursor'[n] = b /\ \A m \in Honest \ {n} : cursor'[m] = cursor[m]
      BY <1>2 DEF TypeOK, BallotIsPrepared, finalVars, envVars
    <2>2. e.ballot = b /\ e.type = "PREPARED"
      BY DEF Statement
    <2>3. CASE BallotLess(mBallot[n], b)
      <3>1. ~BallotLess(b, mBallot[n])
        BY <2>3, NotLessBothWays DEF TypeOK
      <3>2. BumpAllowed(n, b)
        BY <2>3, <3>1, BumpFree
      <3>3. bumpToBallot(n, b) /\ Goto(n, "loop") /\ UNCHANGED <<mStatements, validating>>
        BY <1>2, <2>3, <3>2 DEF BallotIsPrepared
      <3>4. Aside(n) /\ pc'[n] = "loop" /\ ~mIsPristine'[n]
        BY <2>1, <3>3 DEF TypeOK, Goto, bumpToBallot, Aside
      <3>5. Running(n)'
        BY <2>1, <3>3, <3>4 DEF Running
      <3>6. \A s \in mStatements[n] : \E t \in mStatements'[n] : SameKey(s, t)
        BY <3>3 DEF SameKey
      <3> HIDE DEF e
      <3>7. Passed(n)'
        BY <2>1, <2>2, <2>3, <3>3, <3>6, LoopPasses
      <3> QED
        BY <3>4, <3>5, <3>7 DEF RunsOn
    <2>4. CASE ~BallotLess(mBallot[n], b)
      <3>1. processEnvelope(n, e, "loop")
        BY <1>2, <2>4 DEF BallotIsPrepared
      <3> HIDE DEF e
      <3>2. HandlerRuns(n, "loop") /\ HandlerStep(n, e)
        BY <2>2, <3>1, ProcessEnvelopeRuns, ProcessEnvelopeStep
      <3>3. Running(n)'
        BY <2>1, <3>2 DEF HandlerRuns, Running
      <3>4. Passed(n)'
        <4>1. CASE mIsCommitted[n]
          BY <2>1, <4>1 DEF Passed
        <4>2. CASE ~mIsCommitted[n]
          BY <2>1, <2>2, <3>2, <4>2, LoopPasses DEF HandlerStep
        <4> QED
          BY <4>1, <4>2
      <3>5. Aside(n)
        BY <2>1, <3>2 DEF HandlerRuns, ControlApart, Aside
      <3> QED
        BY <3>3, <3>4, <3>5 DEF RunsOn
    <2> QED
      BY <2>3, <2>4
  <1> QED
    BY <1>1, <1>2

LEMMA CommitRuns ==
  ASSUME TypeOK, NEW n \in Honest, pc[n] # "idle", NEW b, NEW l, commitTo(n, b, l),
         \A m \in Honest \ {n} : cursor'[m] = cursor[m]
  PROVE  /\ pc'[n] = l /\ mIsCommitted'[n] /\ Aside(n) /\ Passed(n)'
         /\ UNCHANGED <<mIsExternalized, validating>>
  <1>1. /\ mIsCommitted'[n] /\ UNCHANGED <<mIsExternalized, validating, qsets>>
        /\ CallAdvanceSlot(n, l) \/ Return(n, l)
    BY DEF TypeOK, commitTo, ProcessCommitted, envVars
  <1>2. pc'[n] = l /\ \A m \in Honest \ {n} : pc'[m] = pc[m]
    BY <1>1, CallMarks, CallApart, ReturnGoes
  <1> QED
    BY <1>1, <1>2 DEF Aside, Passed

(* The ballot taken when a quorum COMMITTED v.                             *)
LEMMA ExternalizeBallotFacts ==
  ASSUME TypeInv, NEW n \in Honest, mBallot[n].counter < MaxCounter, NEW v \in Value,
         NEW b \in ExternalizeBallots(n, v)
  PROVE  /\ b \in Ballot /\ b.value = v /\ ~BallotLess(b, mBallot[n])
         /\ \A s \in mStatements[n] :
               s.type = "COMMITTED" /\ s.ballot.value = v => ~BallotLess(b, s.ballot)
  <1> DEFINE same == [counter |-> mBallot[n].counter, value |-> v]
             next == [same EXCEPT !.counter = NextCounter(@)]
             low  == IF BallotLess(same, mBallot[n]) THEN next ELSE same
  <1>1. mBallot[n] \in Ballot \cup {NoBallot}
    BY DEF TypeInv, TypeOK
  <1>2. ~BallotLess(next, mBallot[n]) /\ next \in Ballot /\ same \in Ballot
    BY <1>1, RaisedIsNotBelow
  <1>3. same.value = v /\ next.value = v
    OBVIOUS
  <1> HIDE DEF same, next
  <1>4. low \in Ballot /\ low.value = v /\ ~BallotLess(low, mBallot[n])
    BY <1>2, <1>3
  <1>5. /\ b \in {low} \cup {s.ballot : s \in {x \in mStatements[n] :
                                   x.type = "COMMITTED" /\ x.ballot.value = v}}
        /\ ~BallotLess(b, low)
        /\ \A s \in mStatements[n] :
               s.type = "COMMITTED" /\ s.ballot.value = v => ~BallotLess(b, s.ballot)
    BY DEF ExternalizeBallots, same, next
  <1> HIDE DEF low
  <1>6. b \in Ballot
    BY ExternalizeBallotsType
  <1>7. b.value = v
    BY <1>4, <1>5
  <1>8. ~BallotLess(b, mBallot[n])
    BY <1>1, <1>4, <1>5, <1>6, NotLessTransitive
  <1> QED
    BY <1>5, <1>6, <1>7, <1>8

(* The first ballot with a value that a quorum COMMITTED is not above the  *)
(* ballot that is then taken.                                              *)
LEMMA FirstIsBelow ==
  ASSUME SafetyInv, CountersLeft, NEW n \in Honest, Passed(n), ~mIsCommitted[n],
         NEW b \in Current(n), LoopCommittedDue(n, b), ~Throws(n, Committers(n, b.value)),
         NEW bext \in ExternalizeBallots(n, b.value)
  PROVE  ~BallotLess(bext, b)
  <1> USE DEF SafetyInv, TypeInv
  <1>1. isQuorumTransitive(n, Committers(n, b.value)) /\ Committers(n, b.value) \in SUBSET Node
    BY CommittersType DEF LoopCommittedDue, isCommittedConfirmed
  <1>2. Committers(n, b.value) # {}
    BY <1>1, QuorumIntersection
  <1>3. PICK s \in mStatements[n] : s.type = "COMMITTED" /\ s.ballot.value = b.value
    BY <1>2 DEF Committers
  <1>4. s.ballot \in Ballot /\ b \in Ballot /\ b.value \in Value
    BY DEF TypeOK, Envelope, Current, Ahead, Ballot
  <1>5. LoopCommittedDue(n, s.ballot)
    BY <1>3 DEF LoopCommittedDue
  <1>6. s.ballot \in Ahead(n)
    BY <1>5 DEF Passed, Ahead
  <1>7. ~MapLess(s.ballot, b)
    BY <1>6 DEF Current
  <1>8. ~BallotLess(s.ballot, b)
    <2>1. /\ s.ballot.counter \in Nat /\ b.counter \in Nat
          /\ s.ballot.counter = b.counter => s.ballot = b
      <3>1. \A c \in Ballot : c.counter \in Nat /\ c = [counter |-> c.counter, value |-> c.value]
        BY SlotAssumption DEF Ballot, Counter
      <3> QED
        BY <1>3, <1>4, <3>1
    <2>2. b.counter <= s.ballot.counter
      BY <1>7, <2>1 DEF MapLess
    <2>3. CASE s.ballot = b
      BY <1>4, <2>3, BallotLessIrreflexive
    <2>4. CASE b.counter < s.ballot.counter
      BY <2>1, <2>4 DEF BallotLess
    <2> QED
      BY <2>1, <2>2, <2>3, <2>4
  <1>9. bext \in Ballot /\ ~BallotLess(bext, s.ballot)
    BY <1>3, <1>4, ExternalizeBallotFacts DEF CountersLeft
  <1> QED
    BY <1>4, <1>8, <1>9, NotLessTransitive

LEMMA LoopCommittedRuns ==
  ASSUME SafetyInv, TypeOK', OwnSent, CountersLeft, NEW n \in Honest, Running(n), Passed(n),
         pc[n] # "idle", ~mIsCommitted[n], NEW b \in Current(n), LoopCommitted(n, b)
  PROVE  RunsOn(n)
  <1> USE DEF SafetyInv, TypeInv
  <1>1. CASE Throws(n, Committers(n, b.value))
    BY <1>1, NotFoundRunsOn DEF LoopCommitted
  <1>2. CASE ~Throws(n, Committers(n, b.value))
    <2>1. PICK bext \in ExternalizeBallots(n, b.value) :
                IF BumpAllowed(n, bext)
                THEN bumpToBallot(n, bext) /\ commitTo(n, bext, "loopPrepared")
                ELSE AssertFails(n) /\ UNCHANGED <<finalVars, envVars, validating, sent>>
      BY <1>2 DEF LoopCommitted
    <2>2. cursor'[n] = b /\ \A m \in Honest \ {n} : cursor'[m] = cursor[m]
      BY <1>2 DEF LoopCommitted, TypeOK
    <2>3. b.value \in Value
      BY DEF TypeOK, Envelope, Current, Ahead, Ballot
    <2>4. bext \in Ballot /\ ~BallotLess(bext, mBallot[n])
      BY <2>3, ExternalizeBallotFacts DEF CountersLeft
    <2>5. ~BallotLess(bext, b)
      BY <1>2, FirstIsBelow DEF LoopCommitted
    <2>6. bumpToBallot(n, bext) /\ commitTo(n, bext, "loopPrepared")
      BY <2>1, <2>4, BumpFree
    <2>7. /\ pc'[n] = "loopPrepared" /\ mIsCommitted'[n] /\ Aside(n) /\ Passed(n)'
          /\ UNCHANGED <<mIsExternalized, validating>>
      BY <2>2, <2>6, CommitRuns
    <2>8. mBallot'[n] = bext /\ ~mIsPristine'[n]
      BY <2>6 DEF TypeOK, bumpToBallot
    <2>9. Running(n)'
      BY <2>2, <2>5, <2>7, <2>8 DEF Running
    <2> QED
      BY <2>7, <2>9 DEF RunsOn
  <1> QED
    BY <1>1, <1>2

LEMMA AdvanceSlotRuns ==
  ASSUME SafetyInv, TypeOK', OwnSent, CountersLeft,
         NEW n \in Honest, Running(n), Passed(n), advanceSlot(n)
  PROVE  RunsOn(n)
  <1> DEFINE due == Due(n, pc[n])
  <1> USE DEF SafetyInv, TypeInv
  <1>1. pc[n] \in Place \ {"idle", "aborted"} /\ Perform(n, due)
    BY DEF TypeOK, advanceSlot
  <1>2. \A t, b : Statement(n, t, b).ballot = b
    BY DEF Statement
  <1>3. ~mIsPristine[n] => mBallot[n] \in Ballot
    BY DEF BallotIsSet
  <1>4. \A b \in Current(n) : b \in Ballot
    BY DEF Current, Ahead, TypeOK, Envelope
  <1>5. due \in {"preparing", "prepared", "committing", "committed", "externalize"} =>
           pc[n] \notin {"loop", "loopPrepared"}
    BY <1>1 DEF Due
  <1>6. ASSUME NEW e, e.ballot \in Ballot, NEW l, l \notin {"aborted", "loopPrepared"},
               processEnvelope(n, e, l), UNCHANGED <<finalVars, envVars, cursor>>,
               pc[n] \notin {"loop", "loopPrepared"}
        PROVE  RunsOn(n)
    <2>1. HandlerRuns(n, l)
      BY <1>6, ProcessEnvelopeRuns
    <2> QED
      BY <1>6, <2>1, HandlerRunsOn
  <1> USE <1>1, DueFacts
  <1>7. CASE due = "preparing" /\ attemptPreparing(n)
    <2>1. PICK p \in PreparedBallots(n) : processEnvelope(n, PreparingStatement(n, p), "prepared")
      BY <1>7 DEF attemptPreparing
    <2>2. PreparingStatement(n, p).ballot = mBallot[n]
      BY DEF PreparingStatement
    <2> QED
      BY <1>3, <1>5, <1>6, <1>7, <2>1, <2>2 DEF attemptPreparing
  <1>8. CASE due = "prepared" /\ attemptPrepared(n)
    <2>1. CASE PreparedThrows(n, mBallot[n])
      BY <1>8, <2>1, NotFoundRunsOn DEF attemptPrepared
    <2>2. CASE ~PreparedThrows(n, mBallot[n])
      BY <1>2, <1>3, <1>5, <1>6, <1>8, <2>2 DEF attemptPrepared
    <2> QED
      BY <2>1, <2>2
  <1>9. CASE due = "committing" /\ attemptCommitting(n)
    <2>1. CASE Throws(n, Stating(n, mBallot[n], "PREPARED"))
      BY <1>9, <2>1, NotFoundRunsOn DEF attemptCommitting
    <2>2. CASE ~Throws(n, Stating(n, mBallot[n], "PREPARED"))
      BY <1>2, <1>3, <1>5, <1>6, <1>9, <2>2 DEF attemptCommitting
    <2> QED
      BY <2>1, <2>2
  <1>10. CASE due = "committed" /\ attemptCommitted(n)
    <2>1. CASE Throws(n, Stating(n, mBallot[n], "COMMITTING"))
      BY <1>10, <2>1, NotFoundRunsOn DEF attemptCommitted
    <2>2. CASE ~Throws(n, Stating(n, mBallot[n], "COMMITTING"))
      <3>1. commitTo(n, mBallot[n], "loop") /\ UNCHANGED <<mBallot, mIsPristine, cursor>>
        BY <1>10, <2>2 DEF attemptCommitted, ballotVars
      <3>2. /\ pc'[n] = "loop" /\ mIsCommitted'[n] /\ Aside(n) /\ Passed(n)'
            /\ UNCHANGED <<mIsExternalized, validating>>
        BY <3>1, CommitRuns
      <3> QED
        BY <3>1, <3>2 DEF Running, RunsOn
    <2> QED
      BY <2>1, <2>2
  <1>11. CASE due = "externalize" /\ attemptExternalize(n)
    <2>1. CASE Throws(n, Committers(n, mBallot[n].value))
      BY <1>11, <2>1, NotFoundRunsOn DEF attemptExternalize
    <2>2. CASE ~Throws(n, Committers(n, mBallot[n].value))
      <3>1. /\ mIsExternalized' = [mIsExternalized EXCEPT ![n] = TRUE]
            /\ pc' = [pc EXCEPT ![n] = "loop"]
            /\ UNCHANGED <<mBallot, mIsPristine, mIsCommitted, qsets, validating, cursor>>
        BY <1>11, <2>2 DEF attemptExternalize, ballotVars, envVars, Return, Goto
      <3>2. mIsCommitted'[n] /\ pc'[n] = "loop" /\ Aside(n) /\ cursor'[n] = NoBallot
        BY <1>5, <1>11, <3>1 DEF TypeOK, Aside, Running
      <3> QED
        BY <3>1, <3>2, QuietRunsOn DEF Running
    <2> QED
      BY <2>1, <2>2
  <1>12. CASE due = "loop" /\ \E b \in Current(n) : LoopCommitted(n, b)
    BY <1>12, LoopCommittedRuns
  <1>13. CASE due = "loop" /\ \E b \in Current(n) : LoopPrepared(n, b)
    BY <1>4, <1>13, BallotIsPreparedRuns DEF LoopPrepared
  <1>14. CASE due = "loopPrepared" /\ BallotIsPrepared(n, cursor[n])
    <2>1. pc[n] = "loopPrepared"
      BY <1>14
    <2>2. cursor[n] \in Ballot /\ mIsCommitted[n] /\ ~BallotLess(mBallot[n], cursor[n])
      BY <2>1 DEF CursorIsSet, Running
    <2> QED
      BY <1>14, <2>1, <2>2, BallotIsPreparedRuns
  <1>15. CASE due = "leave" /\ LeaveAdvanceSlot(n)
    BY <1>15, NotFoundRunsOn, EndRunsOn DEF LeaveAdvanceSlot, envVars
  <1> QED
    BY <1>7, <1>8, <1>9, <1>10, <1>11, <1>12, <1>13, <1>14, <1>15 DEF Perform

-----------------------------------------------------------------------------
(* The entry points.                                                       *)

(* What prepareValue proposes is not below the slot's ballot.              *)
LEMMA ProposedIsAllowed ==
  ASSUME SafetyInv, OwnSent, CountersLeft, NEW n \in Honest, Running(n), ~mIsCommitted[n],
         NEW v \in Value, NEW force
  PROVE  BumpAllowed(n, ProposedBallot(n, v, force))
  <1> DEFINE same == [counter |-> mBallot[n].counter, value |-> v]
             next == [same EXCEPT !.counter = NextCounter(@)]
  <1>1. mBallot[n] \in Ballot \cup {NoBallot} /\ mBallot[n].counter < MaxCounter
    BY DEF SafetyInv, TypeInv, TypeOK, CountersLeft
  <1>2. ~BallotLess(next, mBallot[n]) /\ next \in Ballot /\ same \in Ballot
    BY <1>1, RaisedIsNotBelow
  <1>3. \/ ProposedBallot(n, v, force) = next
        \/ /\ ProposedBallot(n, v, force) = same
           /\ mIsPristine[n] \/ ~BallotLess(same, mBallot[n])
    BY DEF ProposedBallot
  <1> HIDE DEF same, next
  <1> QED
    BY <1>2, <1>3, BumpFree

LEMMA EnterRuns ==
  ASSUME SafetyInv, TypeOK', OwnSent, CountersLeft, NEW n \in Honest,
         Running(n), Enter(n)
  PROVE  RunsOn(n)
  <1> USE DEF SafetyInv, TypeInv
  <1>1. CASE Deliver(n)
    <2>1. PICK e : receiveEnvelope(n, e)
      BY <1>1 DEF Deliver
    <2>2. /\ pc[n] = "idle" /\ processEnvelope(n, e, "idle")
          /\ UNCHANGED <<finalVars, envVars, cursor>> /\ e.ballot \in Ballot
      BY <2>1, SlotAssumption DEF receiveEnvelope, Idle, TypeOK, Envelope
    <2>3. HandlerRuns(n, "idle")
      BY <2>2, ProcessEnvelopeRuns
    <2> QED
      BY <2>2, <2>3, HandlerRunsOn
  <1>2. CASE Propose(n)
    <2>1. PICK p \in proposals[n] : prepareValue(n, p[1], p[2])
      BY <1>2 DEF Propose
    <2>2. p[1] \in Value
      BY DEF TypeOK
    <2>3. /\ pc[n] = "idle" /\ cursor'[n] = NoBallot
          /\ UNCHANGED <<finalVars, cursor, qsets, validating>>
      BY <2>1 DEF prepareValue, Idle, Running
    <2>4. CASE mIsCommitted[n]
      <3>1. Return(n, "idle") /\ UNCHANGED <<mBallot, mIsPristine>>
        BY <2>1, <2>4 DEF prepareValue, ballotVars
      <3>2. pc'[n] = "idle" /\ Aside(n)
        BY <2>3, <3>1, ReturnGoes, CallApart DEF Aside, finalVars
      <3> QED
        BY <2>3, <3>1, <3>2, QuietRunsOn DEF Running, finalVars
    <2>5. CASE ~mIsCommitted[n]
      <3> DEFINE b == ProposedBallot(n, p[1], p[2])
      <3>1. bumpToBallot(n, b) /\ CallAdvanceSlot(n, "idle")
        BY <2>1, <2>2, <2>5, ProposedIsAllowed DEF prepareValue
      <3>2. pc'[n] = "start" /\ Aside(n) /\ ~mIsPristine'[n]
        BY <2>3, <3>1, CallMarks, CallApart DEF bumpToBallot, TypeOK, Aside, finalVars
      <3> QED
        BY <2>3, <3>2, QuietRunsOn DEF Running, finalVars
    <2> QED
      BY <2>4, <2>5
  <1>3. CASE \E w \in validating[n] : ValueValidated(n, w) \/ BallotValidated(n, w)
    <2>1. PICK w \in validating[n] : ValueValidated(n, w) \/ BallotValidated(n, w)
      BY <1>3
    <2>2. /\ w.envelope.ballot \in Ballot /\ pc[n] = "idle"
          /\ UNCHANGED <<finalVars, envVars, cursor>>
      BY <2>1 DEF TypeOK, Waiting, Envelope, ValueValidated, BallotValidated, Idle
    <2>3. CASE ValueValidated(n, w)
      <3>1. ValueValid(n, w.envelope, validating[n] \ {w}, "idle")
        BY <2>3 DEF ValueValidated
      <3>2. HandlerRuns(n, "idle")
        BY <2>2, <3>1, ValueValidRuns
      <3> QED
        BY <2>2, <3>2, HandlerRunsOn
    <2>4. CASE BallotValidated(n, w)
      <3>1. /\ BallotValid(n, w.envelope, "idle") /\ "ballot" \in Deferrable
            /\ validating'[n] = validating[n] \ {w}
        BY <2>4, WaitSteps DEF BallotValidated, Running
      <3>2. ControlApart(n)
        BY <3>1, BallotValidRests
      <3>3. CASE CallAdvanceSlot(n, "idle") /\ (bumpToBallot(n, w.envelope.ballot) \/ UNCHANGED ballotVars)
        <4>1. pc'[n] = "start"
          BY <2>2, <3>3, CallMarks
        <4>2. mIsPristine'[n] => mBallot'[n] = NoBallot
          BY <3>3 DEF bumpToBallot, ballotVars, TypeOK, Running
        <4>3. HandlerRuns(n, "idle")
          BY <2>2, <3>1, <3>2, <4>1, <4>2 DEF HandlerRuns, Running
        <4> QED
          BY <2>2, <4>3, HandlerRunsOn
      <3>4. CASE AssertFails(n) /\ mIsCommitted[n]
        <4>1. pc'[n] = "aborted" /\ UNCHANGED <<mBallot, mIsPristine>> /\ cursor'[n] = NoBallot
          BY <2>2, <3>4 DEF AssertFails, Goto, ballotVars, TypeOK, Running
        <4>2. Running(n)'
          BY <2>2, <3>1, <3>4, <4>1 DEF Running, finalVars
        <4>3. Aside(n)
          BY <2>2, <3>2 DEF ControlApart, Aside, finalVars, envVars
        <4> QED
          BY <4>1, <4>2, <4>3, PassedAtFirst DEF RunsOn
      <3> QED
        BY <2>2, <3>1, <3>3, <3>4, BallotValidRuns DEF BallotValid
    <2> QED
      BY <2>1, <2>3, <2>4
  <1>4. CASE Retrieve(n)
    <2>1. /\ pc[n] = "idle" /\ CallAdvanceSlot(n, "idle") /\ cursor'[n] = NoBallot
          /\ UNCHANGED <<mBallot, mIsPristine, finalVars, cursor, validating>>
          /\ \A m \in Honest \ {n} : qsets'[m] = qsets[m]
      BY <1>4 DEF Retrieve, quorumSetRetrieved, Idle, ballotVars, Running, TypeOK
    <2>2. pc'[n] = "start" /\ Aside(n)
      BY <2>1, CallMarks, CallApart DEF Aside, finalVars
    <2> QED
      BY <2>1, <2>2, QuietRunsOn DEF Running, finalVars
  <1>5. CASE \E m \in Purgeable : purgeNode(n, m)
    <2>1. /\ pc[n] = "idle" /\ pc' = pc /\ cursor'[n] = NoBallot
          /\ UNCHANGED <<mBallot, mIsPristine, finalVars, cursor, validating>>
          /\ \A m \in Honest \ {n} : qsets'[m] = qsets[m]
      BY <1>5 DEF purgeNode, Idle, bodyVars, ballotVars, Running, TypeOK
    <2>2. Aside(n)
      BY <2>1 DEF Aside, finalVars
    <2> QED
      BY <2>1, <2>2, QuietRunsOn DEF Running, finalVars
  <1> QED
    BY <1>1, <1>2, <1>3, <1>4, <1>5 DEF Enter

LEMMA AbortInvInit == Init => AbortInv
  BY DEF Init, AbortInv, OwnSent, Held, Running, Passed

LEMMA SameRunning ==
  ASSUME NEW n \in Honest, Running(n), Passed(n), pc'[n] = pc[n], cursor'[n] = cursor[n],
         mIsExternalized'[n] = mIsExternalized[n], mIsCommitted'[n] = mIsCommitted[n],
         mBallot'[n] = mBallot[n], mIsPristine'[n] = mIsPristine[n], qsets'[n] = qsets[n],
         mStatements'[n] = mStatements[n], validating'[n] = validating[n]
  PROVE  Running(n)' /\ Passed(n)'
  <1>1. \A b : LoopCommittedDue(n, b)' <=> LoopCommittedDue(n, b)
    BY DEF LoopCommittedDue, Committers, Throws, isCommittedConfirmed, isQuorumTransitive
  <1> QED
    BY <1>1 DEF Running, Passed

LEMMA AbortInvNext ==
  ASSUME SafetyInv, CountersLeft, AbortInv, [Next]_vars
  PROVE  AbortInv'
  <1> USE DEF AbortInv
  <1>1. CASE UNCHANGED vars
    <2>1. ASSUME NEW n \in Honest PROVE Running(n)' /\ Passed(n)'
      BY <1>1, SameRunning DEF vars
    <2>2. OwnSent'
      BY <1>1 DEF vars, OwnSent, Held
    <2> QED
      BY <2>1, <2>2
  <1>2. ASSUME NEW n \in Honest, advanceSlot(n) \/ Enter(n) PROVE AbortInv'
    <2>1. SlotStep(n)
      BY <1>2, AdvanceSlotStep, EnterStep DEF SafetyInv
    <2>2. TypeOK'
      BY TypeInvNext DEF SafetyInv, TypeInv
    <2>3. RunsOn(n)
      BY <1>2, <2>2, AdvanceSlotRuns, EnterRuns
    <2>4. ASSUME NEW m \in Honest \ {n} PROVE Running(m)' /\ Passed(m)'
      BY <2>1, <2>3, SameRunning DEF RunsOn, Aside, SlotStep, Frozen, Kept
    <2>5. OwnSent'
      BY <1>2, <2>1, OwnSentNext
    <2> QED
      BY <2>3, <2>4, <2>5 DEF RunsOn
  <1> QED
    BY <1>1, <1>2 DEF Next

(* The one assert of bumpToBallot that can fail is that of a verdict on a  *)
(* ballot which comes when the slot has committed, unless a ballot counter *)
(* comes to its end: none fails before the slot committed, nor in the loop *)
(* that goes on after it has, whatever faulty nodes send.                  *)
THEOREM OnlyLateVerdicts == Spec /\ []CountersLeft => []OnlyLateVerdictsAbort
  <1>1. AbortInv => OnlyLateVerdictsAbort
    BY DEF AbortInv, Running, OnlyLateVerdictsAbort
  <1>2. SafetyInv /\ CountersLeft /\ AbortInv /\ [Next]_vars => AbortInv'
    BY AbortInvNext
  <1> QED
    BY <1>1, <1>2, AbortInvInit, SafetyInvariant, PTL DEF Spec

(* Both together, where thresholds are majorities: advanceSlot meets no    *)
(* assert and leaves nothing undone.                                       *)
THEOREM AdvanceSlotIsSound ==
  ASSUME MajorityThresholds
  PROVE  Spec /\ []CountersLeft => []AdvanceSlotSound
  <1>1. OnlyLateVerdictsAbort /\ Settled => AdvanceSlotSound
    BY DEF AdvanceSlotSound
  <1> QED
    BY <1>1, OnlyLateVerdicts, AdvanceSlotSettles, PTL

=============================================================================
