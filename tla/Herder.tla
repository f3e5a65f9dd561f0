------------------------------- MODULE Herder -------------------------------
(***************************************************************************)
(* The Herder of one node (herder/HerderImpl.cpp, PendingEnvelopes.cpp):   *)
(* which slot it follows, which envelopes it hands to SCP and when, the    *)
(* transaction sets it fetches for them (overlay/ItemFetcher.cpp), and     *)
(* what it tells the LedgerManager.  The network decides the slots one     *)
(* after the other without this node.                                      *)
(*                                                                         *)
(* The node runs one handler at a time: an envelope, a transaction set or  *)
(* a timer.  A handler calls SCP, SCP calls valueExternalized, and that    *)
(* hands SCP more envelopes, so handlers are functions from the node's     *)
(* state to the state they leave, nested as the calls are.                 *)
(*                                                                         *)
(* A slot has one value and one transaction set, named by the slot.  SCP   *)
(* (external here, see SCPSlot) externalizes a slot once when it has       *)
(* COMMITTED from Threshold nodes.  The LedgerManager (see LedgerSync) is  *)
(* its last closed ledger and whether it is synced.                        *)
(***************************************************************************)
EXTENDS Integers, Sequences, SequencesExt, FiniteSets, FiniteSetsExt

CONSTANTS
    Nodes, Threshold,  \* the local quorum set
    MaxSlot,           \* bound: slots the network decides
    Bracket,           \* LEDGER_VALIDITY_BRACKET, 1000 in the code
    Remember           \* MAX_SLOTS_TO_REMEMBER

Slot == 1 .. MaxSlot
Envelope == [node : Nodes, type : {"PREPARING", "COMMITTED"}, slotIndex : Slot]

ASSUME HerderAssumption ==
    /\ MaxSlot \in Nat \ {0} /\ Threshold \in 1 .. Cardinality(Nodes)
    /\ Bracket \in Nat /\ Remember \in Nat

VARIABLES
    network,  \* the last slot the network decided
    h         \* the node; see Node

vars == <<network, h>>

Node == [
    tracking : 0 .. MaxSlot,   \* mTrackingSCP->mConsensusIndex, 0 for null
    pending  : [Slot -> Seq(Envelope)],  \* mPendingEnvelopes.mEnvelopes
    future   : SUBSET Slot,    \* mPendingEnvelopes.mIsFutureCommitted
    position : 0 .. MaxSlot + 1,  \* the slot mCurrentValue is for, 0 when empty
    trigger  : 0 .. MaxSlot + 1,  \* the slot mTriggerTimer will trigger, 0 when off
    cache    : SUBSET Slot,    \* transaction sets the fetcher has
    fetches  : SUBSET Slot,    \* mTxSetFetches
    waiting  : [Slot -> Seq(Envelope)],  \* the callbacks of those trackers
    catchup  : SUBSET Slot,    \* mTxSetCatchupFetches
    stated   : [Slot -> SUBSET Nodes],  \* SCP: nodes whose COMMITTED it stored
    decided  : SUBSET Slot,    \* SCP: slots it externalized
    lcl      : 0 .. MaxSlot,   \* the LedgerManager's last closed ledger
    state    : {"booting", "synced", "catching up"},
    told     : SUBSET Slot,    \* slots given to LedgerManager::externalizeValue
    lost     : BOOLEAN,        \* the stuck timer has expired before
    fault    : {"none", "unexpected state", "double fetch", "recursion"}]

\* F(n), the argument evaluated once.
Strict(F(_), n) == CHOOSE result \in {F(m) : m \in {n}} : TRUE

nextConsensusLedgerIndex(n) == n.tracking + 1
isSynced(n) == n.state = "synced"

-----------------------------------------------------------------------------
(* PendingEnvelopes.                                                       *)

NoEnvelopes == [s \in Slot |-> <<>>]

\* checkFutureCommitted counts the envelopes of any type.
\* Deviation: a slot never counts as decided by the others.
addAlone(n, e) ==
    IF Contains(n.pending[e.slotIndex], e) THEN n
    ELSE [n EXCEPT !.pending[e.slotIndex] = Append(@, e)]
add(n, e) ==
    LET s == e.slotIndex
        list == Append(n.pending[s], e)
    IN  IF Contains(n.pending[s], e) THEN n
        ELSE [n EXCEPT !.pending[s] = list,
                       !.future = IF e.type = "COMMITTED" /\ Len(list) >= Threshold
                                  THEN @ \cup {s} ELSE @]

erase(n, slots) ==
    [n EXCEPT !.pending = [s \in Slot |-> IF s \in slots THEN <<>> ELSE @[s]],
              !.future = @ \ slots]

\* Slots that became empty lose their mark with those that are over.
eraseBelow(n, slot) == erase(n, {s \in Slot : s < slot \/ n.pending[s] = <<>>})

pop(n, s) == [n EXCEPT !.pending[s] = Tail(@)]

-----------------------------------------------------------------------------
(* What valueExternalized does; SCP calls it, and it calls SCP.            *)

RECURSIVE processSCPQueueAtIndex(_, _)

\* LedgerManagerImpl::externalizeValue, by its outcome.
externalizeValue(n, s) ==
    [n EXCEPT !.told = @ \cup {s},
              !.lcl = IF n.state # "catching up" /\ s = n.lcl + 1 THEN s ELSE @,
              !.state = IF s = n.lcl + 1 THEN @ ELSE "catching up"]

\* SCP::purgeSlots.
purgeSlots(n, s) ==
    LET old == {t \in Slot : t < s - Remember} IN
    [n EXCEPT !.stated = [t \in Slot |-> IF t \in old THEN {} ELSE @[t]],
              !.decided = @ \ old]

\* The end of ledgerClosed, unless a later slot was externalized meanwhile.
\* Deviation: one slot too far.
armTriggerBeyond(n, next) ==
    IF nextConsensusLedgerIndex(n) = next /\ isSynced(n) THEN [n EXCEPT !.trigger = next + 1]
                                                         ELSE n
armTrigger(n, next) ==
    IF nextConsensusLedgerIndex(n) = next /\ isSynced(n) THEN [n EXCEPT !.trigger = next]
                                                         ELSE n

ledgerClosed(n) ==
    LET next == nextConsensusLedgerIndex(n)
        erased == [erase(n, {n.tracking}) EXCEPT !.trigger = 0]
    IN  Strict(LAMBDA m : armTrigger(m, next), processSCPQueueAtIndex(erased, next))

\* The state after valueExternalized's assignments: the trackers it drops take
\* the callbacks waiting on them with them, unless a fetch for catchup shares them.
\* Deviation: the fetches go on.
startTrackingFetching(n, s) ==
    [n EXCEPT !.tracking = s, !.position = 0, !.trigger = 0]
\* Deviation: the position taken for the slot stays.
startTrackingHolding(n, s) ==
    [n EXCEPT !.tracking = s, !.trigger = 0, !.fetches = {},
              !.waiting = [t \in Slot |-> IF t \in n.catchup THEN @[t] ELSE <<>>]]
startTracking(n, s) ==
    [n EXCEPT !.tracking = s, !.position = 0, !.trigger = 0,
              !.fetches = {},
              !.waiting = [t \in Slot |-> IF t \in n.catchup THEN @[t] ELSE <<>>]]

\* The set is fetched for valueExternalized to be called again.  If the fetcher
\* has it, that is before the tracker is stored, and so on without end.
\* Deviation: the tracker is not stored, so the fetch ends there.
fetchForCatchupUnheld(n, s) == IF s \in n.cache THEN [n EXCEPT !.fault = "recursion"] ELSE n
fetchForCatchup(n, s) ==
    CASE s \in n.cache -> [n EXCEPT !.fault = "recursion"]
      [] s \in n.catchup -> [n EXCEPT !.fault = "double fetch"]
      [] OTHER -> [n EXCEPT !.catchup = @ \cup {s}]

valueExternalized(n, s) ==
    LET found == s \in n.cache /\ s \in n.fetches \cup n.catchup
        closed(m) == purgeSlots(externalizeValue(m, s), s)
    IN  IF found THEN Strict(ledgerClosed, Strict(closed, startTracking(n, s)))
                 ELSE fetchForCatchup(startTracking(n, s), s)

-----------------------------------------------------------------------------
(* SCP::receiveEnvelope with validateValue and validateBallot.             *)

\* validateBallot, for a PREPARING statement of a slot not committed.
validateBallot(n, s) ==
    IF n.tracking # 0 /\ nextConsensusLedgerIndex(n) # s
    THEN [n EXCEPT !.fault = "unexpected state"] ELSE n

\* Slot::processEnvelope once the value is valid (external).
valueValid(n, e) ==
    LET s == e.slotIndex
        heard == [n EXCEPT !.stated[s] = @ \cup {e.node}]
    IN  CASE e.type = "PREPARING" -> IF s \in n.decided THEN n ELSE validateBallot(n, s)
          [] OTHER -> IF s \notin n.decided /\ Cardinality(heard.stated[s]) >= Threshold
                      THEN Strict(LAMBDA m : valueExternalized(m, s),
                                  [heard EXCEPT !.decided = @ \cup {s}])
                      ELSE heard

\* validateValue's callback for the transaction set.
txSetFetched(n, e) ==
    IF isSynced(n) /\ e.slotIndex # n.lcl + 1 THEN n ELSE valueValid(n, e)

\* fetchTxSet: a set the fetcher has is handed over before the tracker is kept.
\* An envelope that waits twice is processed as if it waited once.
fetchTxSet(n, e) ==
    LET s == e.slotIndex
        kept == [n EXCEPT !.fetches = @ \cup {s}]
    IN  CASE s \in n.fetches /\ s \in n.cache -> txSetFetched(n, e)
          [] s \notin n.fetches /\ s \in n.cache ->
                 [txSetFetched(n, e) EXCEPT !.fetches = @ \cup {s}]
          [] OTHER -> [kept EXCEPT !.waiting[s] = IF Contains(@, e) THEN @ ELSE Append(@, e)]

receiveEnvelope(n, e) ==
    CASE n.tracking = 0 -> valueValid(n, e)
      [] n.tracking # 0 /\ nextConsensusLedgerIndex(n) # e.slotIndex -> n
      [] n.tracking # 0 /\ nextConsensusLedgerIndex(n) = e.slotIndex /\ ~isSynced(n) ->
             valueValid([n EXCEPT !.fetches = @ \cup {e.slotIndex}], e)
      [] OTHER -> fetchTxSet(n, e)

processSCPQueueAtIndex(n, s) ==
    IF n.fault # "none" \/ s > MaxSlot \/ n.pending[s] = <<>> THEN n
    ELSE Strict(LAMBDA m : processSCPQueueAtIndex(m, s),
                Strict(LAMBDA m : receiveEnvelope(m, Head(n.pending[s])), pop(n, s)))

\* The slots of the queue from the smallest on, until one is externalized.
RECURSIVE processFrom(_, _)
processFrom(n, s) ==
    IF n.tracking # 0 \/ s > MaxSlot THEN n
    ELSE Strict(LAMBDA m : processFrom(m, s + 1), processSCPQueueAtIndex(n, s))

processSCPQueue(n) ==
    LET next == nextConsensusLedgerIndex(n)
        ready(m) == ~isSynced(m) \/ m.position # 0 \/ next \in m.future
        current(m) == IF ready(m) THEN processSCPQueueAtIndex(m, next) ELSE m
    IN  IF n.tracking = 0 THEN processFrom(n, 1)
                          ELSE Strict(current, eraseBelow(n, next))

-----------------------------------------------------------------------------
(* The handlers.                                                           *)

\* PREPARING is sent for the slot the network works on.  The peers repeat the
\* COMMITTED they ended a slot with, and those of earlier slots may be late.
Sent(e) == IF e.type = "PREPARING" THEN e.slotIndex = network + 1
                                   ELSE e.slotIndex <= network

recvSCPEnvelope(e) ==
    /\ h.fault = "none"
    /\ Sent(e)
    /\ h.tracking # 0 =>
          e.slotIndex \in nextConsensusLedgerIndex(h) .. nextConsensusLedgerIndex(h) + Bracket
    /\ h' = Strict(processSCPQueue, add(h, e))
    /\ UNCHANGED network

\* Tracker::recv: the callbacks in the order they came.  The one of a fetch for
\* catchup is the oldest: valueExternalized dropped all others before it.
trackerRecv(n, s) ==
    LET arrived == [n EXCEPT !.cache = @ \cup {s}, !.waiting[s] = <<>>]
    IN  FoldLeft(LAMBDA m, e : IF m.fault = "none" THEN txSetFetched(m, e) ELSE m,
                 IF s \in n.catchup THEN valueExternalized(arrived, s) ELSE arrived,
                 n.waiting[s])

recvTxSet(s) ==
    /\ h.fault = "none"
    /\ s \in (h.fetches \cup h.catchup) \ h.cache
    /\ s <= network + 1
    /\ h' = trackerRecv(h, s)
    /\ UNCHANGED network

\* triggerNextLedger.  The set the node proposes may be the one the slot's
\* envelopes name: the fetcher then has it, and its callbacks run first.
proposed(n, same) ==
    LET s == n.lcl + 1
        m == IF s \in n.fetches \cup n.catchup /\ s \notin n.cache THEN trackerRecv(n, s)
             ELSE [n EXCEPT !.cache = @ \cup {s}]
    IN  IF same THEN [m EXCEPT !.fetches = @ \cup {s}] ELSE n

triggerNextLedger(same) ==
    /\ h.fault = "none"
    /\ h.trigger # 0
    /\ same => h.lcl < MaxSlot
    /\ LET n == [h EXCEPT !.trigger = 0]
           m == proposed(n, same)
       IN  h' = IF n.tracking = 0 \/ ~isSynced(n) THEN n
                ELSE IF h.trigger # m.lcl + 1 THEN m
                ELSE [m EXCEPT !.position = h.trigger]
    /\ UNCHANGED network

\* Deviation: the timer is not set.
herderOutOfSyncNever == FALSE /\ UNCHANGED vars
\* The tracking timer, set whenever a slot is externalized.
herderOutOfSync ==
    /\ h.fault = "none"
    /\ h.tracking # 0
    /\ h' = Strict(processSCPQueue, [h EXCEPT !.tracking = 0, !.lost = TRUE])
    /\ UNCHANGED network

\* The LedgerManager's catchup ends (external): how far it got is its own affair,
\* it drops what it is told out of order.
caughtUp(lcl) ==
    /\ h.fault = "none"
    /\ h.state = "catching up"
    /\ lcl \in h.lcl .. network
    /\ h' = [h EXCEPT !.lcl = lcl, !.state = "synced"]
    /\ UNCHANGED network

networkDecides ==
    /\ network < MaxSlot
    /\ network' = network + 1
    /\ UNCHANGED h

\* A node that waits for the network, or one that bootstraps it.
Fresh == [tracking |-> 0, pending |-> NoEnvelopes, future |-> {}, position |-> 0, trigger |-> 0,
          cache |-> {}, fetches |-> {}, waiting |-> NoEnvelopes, catchup |-> {},
          stated |-> [s \in Slot |-> {}], decided |-> {}, lcl |-> 0, state |-> "booting",
          told |-> {}, lost |-> FALSE, fault |-> "none"]

bootstrap == [Fresh EXCEPT !.lcl = 1, !.tracking = 1, !.state = "synced", !.position = 2]

Init ==
    \/ network = 0 /\ h = Fresh
    \/ network = 1 /\ h = bootstrap

Next ==
    \/ \E e \in Envelope : recvSCPEnvelope(e)
    \/ \E s \in Slot : recvTxSet(s)
    \/ \E same \in BOOLEAN : triggerNextLedger(same)
    \/ herderOutOfSync
    \/ \E lcl \in Slot : caughtUp(lcl)
    \/ networkDecides

\* The peers keep repeating the last message and have the last set, the timers
\* expire, catchup ends and the network goes on.
Fairness ==
    /\ \A v \in Nodes : WF_vars(\E s \in {network} \cap Slot :
          recvSCPEnvelope([node |-> v, type |-> "COMMITTED", slotIndex |-> s]))
    /\ WF_vars(\E s \in {network} \cap Slot : recvTxSet(s))
    /\ WF_vars(\E same \in BOOLEAN : triggerNextLedger(same))
    /\ WF_vars(herderOutOfSync)
    /\ WF_vars(\E lcl \in Slot : caughtUp(lcl))
    /\ WF_vars(networkDecides)

Spec == Init /\ [][Next]_vars /\ Fairness

-----------------------------------------------------------------------------
(* Properties.                                                             *)

\* The node's state is what its declarations allow.
TypeOK == network \in 0 .. MaxSlot /\ h \in Node

\* validateBallot never meets a slot other than the one that is next, where it
\* would throw, nor valueExternalized a fetch it began before, nor itself.
NoFault == h.fault # "none" => h.fault # "unexpected state" /\ (h.lost \/ h.catchup # {})

\* A position, once taken, is for the slot after the last one externalized.
PositionIsNext == h.tracking # 0 /\ h.position # 0 => h.position = h.tracking + 1

\* Every slot SCP externalized has been given to the LedgerManager, or its
\* transaction set is still being fetched for that.
NothingForgotten ==
    h.fault = "none" => h.decided \subseteq h.told \cup (h.catchup \ h.cache)

\* While the decided slots' sets are there, the COMMITTED of enough nodes for the
\* next slot are not left in the queue, with or without a position: nothing would
\* make the node look at them again before the trigger or the stuck timer.
NotLeftBehind ==
    h.fault = "none" /\ h.tracking # 0 /\ h.tracking \notin h.catchup \ h.cache =>
        \A s \in Slot : s = h.tracking + 1 =>
            Cardinality({v \in Nodes : [node |-> v, type |-> "COMMITTED", slotIndex |-> s]
                                          \in Range(h.pending[s])}) < Threshold

\* The tracked slot moves back only when the transaction set of an earlier slot arrives late,
\* or when the stuck timer expires and old envelopes are still in the queue.
TrackingBackIsLate ==
    [][h.tracking # 0 /\ h'.tracking # 0 /\ h'.tracking < h.tracking =>
          \/ \E s \in h.catchup : s < h.tracking /\ s \in h'.cache \ h.cache
          \/ herderOutOfSync]_vars

\* Whatever was lost, late or dropped, the LedgerManager hears of the last slot.
HearsLast == <>(MaxSlot \in h.told \/ h.fault # "none")

\* What the code takes for granted about the slot it follows: the members have
\* their types, a position is for the next slot, and no handler meets a slot,
\* a fetch or itself where it must not.
Orderly == TypeOK /\ PositionIsNext /\ NoFault

\* Neither a decision nor the envelopes that make one get stuck in the Herder.
NothingStuck == NothingForgotten /\ NotLeftBehind

=============================================================================
