----------------------------- MODULE LedgerSync -----------------------------
(***************************************************************************)
(* How the LedgerManager (ledger/LedgerManagerImpl.cpp) follows consensus: *)
(* it closes the ledgers the Herder externalizes in order, notices when it *)
(* missed one, buffers what it hears from then on, has the history         *)
(* subsystem catch up to a checkpoint, knits the buffer on to it and is in *)
(* sync again.  The detail of a catchup is module Catchup's; here it is    *)
(* one step, taken any time after its target can be verified.              *)
(*                                                                         *)
(* Ledgers are their sequence numbers: consensus is one chain of ledgers   *)
(* (SCPSlotProofs), so equal numbers mean equal hashes and the branches    *)
(* of the code for two different ledgers with one number are not reached.  *)
(* An exception or a failed assert takes the process down.                 *)
(***************************************************************************)
EXTENDS Integers, Sequences, FiniteSetsExt, SequencesExt

CONSTANTS
    Freq,       \* HistoryManager::getCheckpointFrequency
    Configs,    \* the values Config::CATCHUP_COMPLETE may have
    MaxNet,     \* bound: last ledger the network closes
    MaxGaps,    \* bound: closes a running node never hears of
    MaxLate,    \* bound: closes whose transaction set is fetched late
    MaxManual,  \* bound: `catchup' commands of the operator
    MaxCrashes  \* bound: times the process is killed

ASSUME LedgerSyncAssumption ==
    /\ Freq \in Nat \ {0}
    /\ Configs \subseteq BOOLEAN
    /\ MaxNet \in Nat \ {0}
    /\ {MaxGaps, MaxLate, MaxManual, MaxCrashes} \subseteq Nat

VARIABLES
    mComplete,        \* Config::CATCHUP_COMPLETE; never changes
    net,              \* the last ledger the network closed
    late,             \* externalized, its transaction set still being fetched
    proc,             \* the process: running, killed or aborted by itself
    mState,           \* LedgerManagerImpl::mState
    lcl,              \* mLastClosedLedger
    mSyncingLedgers,
    catchup,          \* HistoryManagerImpl::mCatchup
    mManualCatchup,   \* HistoryManagerImpl::mManualCatchup
    stored,           \* SQL: the rows of ledgerheaders
    dbLcl,            \* SQL: PersistentState kLastClosedLedger
    dbLedger,         \* SQL: the ledger whose entries the tables hold
    published,        \* checkpoints handed to publishHistory
    budget            \* what is left of the bounds

vars == <<mComplete, net, late, proc, mState, lcl, mSyncingLedgers,
          catchup, mManualCatchup, stored, dbLcl, dbLedger, published, budget>>
disk == <<stored, dbLcl, dbLedger>>

NoCatchup == [next |-> 0, complete |-> FALSE, applied |-> FALSE, last |-> 0]

\* After startNewLedger and start; FORCE_SCP's bootstrap calls setState.
Init ==
    /\ mComplete \in Configs
    /\ net = 1
    /\ late = {}
    /\ proc = "running"
    /\ mState \in {"BOOTING", "SYNCED"}
    /\ lcl = 1
    /\ mSyncingLedgers = <<>>
    /\ catchup = NoCatchup
    /\ mManualCatchup = FALSE
    /\ stored = {1}
    /\ dbLcl = 1
    /\ dbLedger = 1
    /\ published = {}
    /\ budget = [gap |-> MaxGaps, late |-> MaxLate, manual |-> MaxManual,
                 crash |-> MaxCrashes]

Spend(what) ==
    /\ budget[what] > 0
    /\ budget' = [budget EXCEPT ![what] = @ - 1]

-----------------------------------------------------------------------------

prevCheckpointLedger(seq) == (seq \div Freq) * Freq

\* Deviation: round down.
nextCheckpointLedgerDown(seq, manual) ==
    IF manual THEN seq ELSE prevCheckpointLedger(seq)

nextCheckpointLedger(seq, manual) ==
    CASE manual  -> seq
      [] seq = 0 -> Freq
      [] OTHER   -> ((seq + Freq - 1) \div Freq) * Freq

\* The ledger headers writeHistoryBlocks is to put in the files of the
\* checkpoint of seq (there is no ledger 0).
HistoryBlock(seq) == (prevCheckpointLedger(seq) .. seq) \ {0}

\* Deviation: the checkpoint is labelled with the current ledger, not the LCL.
CheckpointsOfCurrent(seqs, rows) ==
    {[seq |-> s + 1, whole |-> HistoryBlock(s) \subseteq rows] :
        s \in {c \in seqs : nextCheckpointLedger(c + 1, mManualCatchup) = c + 1}}

\* The checkpoints closing seqs publishes, `whole' when SQL has the block.
Checkpoints(seqs, rows) ==
    {[seq |-> s, whole |-> HistoryBlock(s) \subseteq rows] :
        s \in {c \in seqs : nextCheckpointLedger(c + 1, mManualCatchup) = c + 1}}

\* Storing a header that is there already is an SQL error: the last ledger
\* that closing from+1 .. to gets through.
LastClosable(from, to) ==
    IF stored \cap (from + 1 .. to) = {} THEN to
    ELSE Min(stored \cap (from + 1 .. to)) - 1

\* Deviation: the new LCL is not made persistent.
CloseLedgersVolatile(from, to) ==
    LET last == LastClosable(from, to)
        rows == stored \cup (from + 1 .. last)
    IN /\ lcl' = last
       /\ stored' = rows
       /\ dbLcl' = dbLcl
       /\ dbLedger' = IF last > from THEN last ELSE dbLedger
       /\ published' = published \cup Checkpoints(from + 1 .. last, rows)
       /\ proc' = IF last = to THEN "running" ELSE "aborted"

\* closeLedger for from+1 .. to.
CloseLedgers(from, to) ==
    LET last == LastClosable(from, to)
        rows == stored \cup (from + 1 .. last)
    IN /\ lcl' = last
       /\ stored' = rows
       /\ dbLcl' = IF last > from THEN last ELSE dbLcl
       /\ dbLedger' = IF last > from THEN last ELSE dbLedger
       /\ published' = published \cup Checkpoints(from + 1 .. last, rows)
       /\ proc' = IF last = to THEN "running" ELSE "aborted"

\* Deviation: the target is not rounded up to a checkpoint.
startCatchUpUnrounded(init, complete, manual) ==
    /\ mState' = "CATCHING_UP"
    /\ mManualCatchup' = manual
    /\ catchup' = [NoCatchup EXCEPT !.next = init, !.complete = complete]

\* Deviation: the configured mode is ignored.
startCatchUpMinimal(init, complete, manual) ==
    /\ mState' = "CATCHING_UP"
    /\ mManualCatchup' = manual
    /\ catchup' = [NoCatchup EXCEPT !.next = nextCheckpointLedger(init, manual)]

\* startCatchUp and catchupHistory.
startCatchUp(init, complete, manual) ==
    /\ mState' = "CATCHING_UP"
    /\ mManualCatchup' = manual
    /\ catchup' = [NoCatchup EXCEPT !.next = nextCheckpointLedger(init, manual),
                                    !.complete = complete]

\* Deviation: the close that reveals the gap is not buffered.
ExternalizeValueDropsFirst(seq) ==
    \/ /\ mState # "CATCHING_UP"
       /\ seq = lcl + 1
       /\ CloseLedgers(lcl, seq)
       /\ UNCHANGED <<mState, mSyncingLedgers, catchup, mManualCatchup>>
    \/ /\ mState # "CATCHING_UP"
       /\ seq # lcl + 1
       /\ startCatchUp(seq, mComplete, FALSE)
       /\ UNCHANGED <<mSyncingLedgers, lcl, proc, published, disk>>
    \/ /\ mState = "CATCHING_UP"
       /\ mSyncingLedgers' = Append(mSyncingLedgers, seq)
       /\ UNCHANGED <<mState, catchup, mManualCatchup, lcl, proc, published, disk>>

\* Deviation: every close heard during catchup is buffered.
ExternalizeValueBuffersAll(seq) ==
    \/ /\ mState # "CATCHING_UP"
       /\ seq = lcl + 1
       /\ CloseLedgers(lcl, seq)
       /\ UNCHANGED <<mState, mSyncingLedgers, catchup, mManualCatchup>>
    \/ /\ mState # "CATCHING_UP"
       /\ seq # lcl + 1
       /\ mSyncingLedgers' = Append(mSyncingLedgers, seq)
       /\ startCatchUp(seq, mComplete, FALSE)
       /\ UNCHANGED <<lcl, proc, published, disk>>
    \/ /\ mState = "CATCHING_UP"
       /\ mSyncingLedgers' = Append(mSyncingLedgers, seq)
       /\ UNCHANGED <<mState, catchup, mManualCatchup, lcl, proc, published, disk>>

\* externalizeValue.
ExternalizeValue(seq) ==
    \/ /\ mState # "CATCHING_UP"
       /\ seq = lcl + 1
       /\ CloseLedgers(lcl, seq)
       /\ UNCHANGED <<mState, mSyncingLedgers, catchup, mManualCatchup>>
    \/ /\ mState # "CATCHING_UP"      \* lost sync
       /\ seq # lcl + 1
       /\ mSyncingLedgers' = Append(mSyncingLedgers, seq)
       /\ startCatchUp(seq, mComplete, FALSE)
       /\ UNCHANGED <<lcl, proc, published, disk>>
    \/ /\ mState = "CATCHING_UP"      \* out-of-order closes are dropped
       /\ mSyncingLedgers' =
            IF mSyncingLedgers = <<>> \/ Last(mSyncingLedgers) + 1 = seq
            THEN Append(mSyncingLedgers, seq) ELSE mSyncingLedgers
       /\ UNCHANGED <<mState, catchup, mManualCatchup, lcl, proc, published, disk>>

\* Between the apply phase and its report nothing else runs: both are in one
\* handler of the main thread, but the process can die between them.
Up == proc = "running"
Idle == Up /\ ~catchup.applied

\* The network closes its next ledger and the node hears of it.
HearsClose ==
    /\ Idle
    /\ net < MaxNet
    /\ net' = net + 1
    /\ ExternalizeValue(net + 1)
    /\ UNCHANGED <<mComplete, late, budget>>

\* ... or externalizes it without having its transaction set: the Herder
\* calls externalizeValue when the fetch returns.
HearsCloseLate ==
    /\ Idle
    /\ net < MaxNet
    /\ Spend("late")
    /\ net' = net + 1
    /\ late' = late \cup {net + 1}
    /\ UNCHANGED <<mComplete, proc, mState, lcl, mSyncingLedgers, catchup,
                   mManualCatchup, published, disk>>

TxSetFetched(seq) ==
    /\ Idle
    /\ late' = late \ {seq}
    /\ ExternalizeValue(seq)
    /\ UNCHANGED <<mComplete, net, budget>>

\* ... or misses it, because it is down or does not get the messages.
MissesClose ==
    /\ net < MaxNet
    /\ IF Up THEN Spend("gap") ELSE UNCHANGED budget
    /\ net' = net + 1
    /\ UNCHANGED <<mComplete, late, proc, mState, lcl, mSyncingLedgers,
                   catchup, mManualCatchup, published, disk>>

\* verifyCatchupCandidate says VERIFY_HASH_OK; it never says BAD of a ledger
\* of the one chain.
verifyCatchupCandidate(seq) ==
    seq \in {lcl, lcl - 1} \/ Contains(mSyncingLedgers, seq + 1)

\* A catchup in progress has fetched its files: an archive has the target.
Fetched == Idle /\ catchup # NoCatchup /\ catchup.next - 1 <= net

\* applyBucketsAtLastClosedLedger: the tables get the state of the target.
CatchupMinimal ==
    /\ Fetched
    /\ ~catchup.complete
    /\ verifyCatchupCandidate(catchup.next - 1)
    /\ dbLedger' = catchup.next - 1
    /\ catchup' = [catchup EXCEPT !.applied = TRUE, !.last = catchup.next - 1]
    /\ UNCHANGED <<mComplete, net, late, proc, mState, lcl, mSyncingLedgers,
                   mManualCatchup, stored, dbLcl, published, budget>>

\* The history files enterAnchoredState names, every Freq ledgers back from
\* the target, reach back to the LCL: those of a manual checkpoint inside a
\* block do so only from that block.
ChainReaches ==
    catchup.next % Freq = 0
        \/ prevCheckpointLedger(catchup.next - 1) <= lcl + 1

\* applyHistoryFromLastClosedLedger closes the ledgers up to the target.
\* verifyHistoryFromLastClosedLedger refuses a target before the LCL; at the
\* LCL nothing is replayed and mLastClosed stays what it was.
CatchupComplete ==
    /\ Fetched
    /\ catchup.complete
    /\ ChainReaches
    /\ lcl < catchup.next
    /\ verifyCatchupCandidate(catchup.next - 1)
    /\ CloseLedgers(lcl, catchup.next - 1)
    /\ catchup' = [catchup EXCEPT !.applied = TRUE,
                                  !.last = IF lcl' > lcl THEN lcl' ELSE 0]
    /\ UNCHANGED <<mComplete, net, late, mState, mSyncingLedgers,
                   mManualCatchup, budget>>

\* Deviation: buffered ledgers the catchup covered are replayed as well.
KnitPointFront ==
    IF mSyncingLedgers = <<>> THEN lcl ELSE Head(mSyncingLedgers) - 1

\* The LCL the buffer is replayed on: MINIMAL has not updated it yet.
KnitPoint == IF catchup.complete THEN lcl ELSE catchup.last

\* The buffered ledgers that do not follow the ledger before them.
Overshooting ==
    LET ahead == {s \in Range(mSyncingLedgers) : s > KnitPoint}
    IN {s \in ahead : s - 1 \notin ahead \cup {KnitPoint}}

\* The last ledger the replay of the buffer closes.
ReplayEnd ==
    Max({KnitPoint} \cup
        {s \in Range(mSyncingLedgers) :
            s > KnitPoint /\ \A o \in Overshooting : s < o})

\* Deviation: the buffer survives its replay.
BufferAfterReplayKept == mSyncingLedgers

BufferAfterReplay == <<>>

\* historyCaughtup: drop what the catchup covered, close the rest of the
\* buffer; a gap means to start over from the newest buffered ledger.
HistoryCaughtup ==
    /\ Up
    /\ catchup.applied
    /\ \/ /\ catchup.complete /\ catchup.last # lcl    \* its assert
          /\ proc' = "aborted"
          /\ UNCHANGED <<mState, lcl, mSyncingLedgers, catchup,
                         mManualCatchup, published, disk>>
       \/ /\ catchup.complete => catchup.last = lcl
          /\ Overshooting = {}
          /\ CloseLedgers(KnitPoint, ReplayEnd)
          /\ mSyncingLedgers' = BufferAfterReplay
          /\ mState' = "SYNCED"
          /\ catchup' = NoCatchup
          /\ UNCHANGED mManualCatchup
       \/ /\ catchup.complete => catchup.last = lcl
          /\ Overshooting # {}
          /\ CloseLedgers(KnitPoint, ReplayEnd)
          /\ mSyncingLedgers' = <<>>
          /\ startCatchUp(Last(mSyncingLedgers), mComplete, FALSE)
    /\ UNCHANGED <<mComplete, net, late, budget>>

\* The `catchup' command, with the ledger a peer's `checkpoint' command
\* named.  With a catchup in progress it throws and changes nothing.
ManualCatchup(init, complete) ==
    /\ Idle
    /\ catchup = NoCatchup
    /\ Spend("manual")
    /\ startCatchUp(init, complete, TRUE)
    /\ UNCHANGED <<mComplete, net, late, proc, lcl, mSyncingLedgers, published,
                   disk>>

\* The process is killed; what is in memory goes.
Crash ==
    /\ Up
    /\ Spend("crash")
    /\ proc' = "killed"
    /\ UNCHANGED <<mComplete, net, late, mState, lcl, mSyncingLedgers, catchup,
                   mManualCatchup, published, disk>>

\* loadLastKnownLedger.
Boot ==
    /\ ~Up
    /\ proc' = "running"
    /\ mState' = "BOOTING"
    /\ lcl' = dbLcl
    /\ late' = {}
    /\ mSyncingLedgers' = <<>>
    /\ catchup' = NoCatchup
    /\ mManualCatchup' = FALSE
    /\ UNCHANGED <<mComplete, net, published, disk, budget>>

Next ==
    \/ HearsClose
    \/ HearsCloseLate
    \/ \E seq \in late : TxSetFetched(seq)
    \/ MissesClose
    \/ CatchupMinimal
    \/ CatchupComplete
    \/ HistoryCaughtup
    \/ \E init \in 2..(net + 1), complete \in BOOLEAN :
            ManualCatchup(init, complete)
    \/ Crash
    \/ Boot

Spec == Init /\ [][Next]_vars

\* Consensus goes on, a catchup that can end does, the process is started.
FairSpec == /\ Spec
            /\ WF_vars(HearsClose)
            /\ WF_vars(CatchupMinimal \/ CatchupComplete \/ HistoryCaughtup)
            /\ WF_vars(Boot)

-----------------------------------------------------------------------------
(***************************************************************************)
(* Properties.                                                             *)
(***************************************************************************)

\* Type invariant.
TypeOK ==
    /\ mComplete \in Configs
    /\ net \in 1..MaxNet
    /\ late \subseteq 1..MaxNet
    /\ proc \in {"running", "killed", "aborted"}
    /\ mState \in {"BOOTING", "SYNCED", "CATCHING_UP"}
    /\ lcl \in 0..(MaxNet + Freq)
    /\ mSyncingLedgers \in Seq(1..MaxNet)
    /\ catchup \in [next: 0..(MaxNet + Freq), complete: BOOLEAN,
                    applied: BOOLEAN, last: 0..(MaxNet + Freq)]
    /\ mManualCatchup \in BOOLEAN
    /\ stored \subseteq 1..MaxNet
    /\ dbLcl \in 1..MaxNet
    /\ dbLedger \in 0..MaxNet
    /\ published \subseteq [seq: 1..MaxNet, whole: BOOLEAN]
    /\ budget \in [{"gap", "late", "manual", "crash"} -> Nat]

\* So far no transaction set came late and the operator gave no command.
Undisturbed == budget.late = MaxLate /\ budget.manual = MaxManual

\* externalizeValue's assert: the buffer is empty and no catchup is under way
\* whenever a node that is not catching up finds out that it lost sync (a
\* second catchup would throw "Catchup already in progress").
SyncedIsQuiet ==
    Up /\ mState # "CATCHING_UP" =>
        mSyncingLedgers = <<>> /\ catchup = NoCatchup

\* "We should never _overshoot_ the last ledger ... there should always be
\* some overlap between the buffered LedgerCloseDatas and the history block
\* we catch up with": the buffer continues the catchup without a gap (of a
\* node left to itself).
NeverOvershoots == Undisturbed /\ Up /\ catchup.applied => Overshooting = {}

\* A node closes only ledgers the network closed, each once: no header is
\* stored twice, so neither a close nor the replay of the buffer fails (of a
\* node left to itself).
NoAbort == Undisturbed => proc # "aborted"

\* historyCaughtup: a running node's last closed ledger moves back only when a
\* minimal catchup ends which the operator asked for or which a close at or
\* before the LCL started, one whose transaction set came late.
LclMonotone ==
    [][Up /\ Up' /\ lcl' < lcl =>
        /\ ~catchup.complete
        /\ \/ mManualCatchup
           \/ mSyncingLedgers # <<>> /\ Head(mSyncingLedgers) <= lcl]_vars

\* In CATCHUP_COMPLETE mode the node has "a complete, uninterrupted view of
\* history": every ledger up to its LCL is in its database, unless the
\* operator asked for a minimal catchup.
HistoryIsComplete == Undisturbed /\ Up /\ mComplete => 1..lcl \subseteq stored

\* "all ledger blocks _start on_ a multiple of 64 and run until
\* one-less-than the next multiple of 64, inclusive": what is published is
\* the end of a block, and the database has the whole block.
BlocksAlwaysWhole ==
    \A p \in published : p.whole /\ (p.seq + 1) % Freq = 0

\* The same until the operator interferes.
BlocksAreWhole == Undisturbed => BlocksAlwaysWhole

\* A node that lost sync catches up (if the network gets to the target).
RoundEnds ==
    (mState = "CATCHING_UP" /\ catchup.next \in 1..MaxNet)
        ~> (mState # "CATCHING_UP")

\* The same of a node that hears every close after it lost sync: the buffer
\* then reaches to the last ledger of the network (of a node left to itself).
HearingRoundEnds ==
    (mState = "CATCHING_UP" /\ catchup.next \in 1..MaxNet)
        ~> \/ mState # "CATCHING_UP"
           \/ mSyncingLedgers # <<>> /\ Last(mSyncingLedgers) < net
           \/ ~Undisturbed

\* "The desynchronized peer commences catchup at some ledger INIT, when it
\* realizes INIT > LAST+1": the target is never behind the LCL.
InitAhead ==
    Up /\ catchup # NoCatchup /\ ~catchup.applied => catchup.next > lcl

\* "[LCL] is the state most recently committed to the SQL store": the tables
\* and the LCL of a node that runs are of one ledger.
SqlStoreHoldsLcl == Idle => dbLedger = lcl

\* The same of a node with CATCHUP_COMPLETE, whose catchup closes ledgers as
\* consensus does.
CompleteHoldsLcl == Undisturbed /\ mComplete => SqlStoreHoldsLcl

\* What the asserts and throws of LedgerManagerImpl are about: types, nothing
\* left over while in sync, and no abort.
Orderly == TypeOK /\ SyncedIsQuiet /\ NoAbort

\* What goes to the archives (closeLedger, maybePublishHistory): checkpoints
\* with every ledger of theirs, out of a table that misses none.
PublishedIsWhole == HistoryIsComplete /\ BlocksAreWhole

\* What catchup leaves behind (historyCaughtup): a buffer that continues it and
\* tables that are of the LCL's ledger.
CatchupKnitsOn == NeverOvershoots /\ CompleteHoldsLcl

=============================================================================
