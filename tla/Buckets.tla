------------------------------ MODULE Buckets ------------------------------
(***************************************************************************)
(* The bucket list (bucket/BucketList.cpp, Bucket.cpp), its merges on the  *)
(* worker threads (FutureBucket.cpp) and the bucket files the manager      *)
(* shares, keeps and deletes (BucketManagerImpl.cpp), with the part of     *)
(* closing a ledger and of starting the node that drives them              *)
(* (LedgerManagerImpl.cpp).                                                *)
(*                                                                         *)
(* A bucket is its contents: for every key a value, Dead (a tombstone) or  *)
(* None.  Files are named by the hash of the contents, so a bucket also    *)
(* stands for its file and for the one object mSharedBuckets has for it.   *)
(* The empty bucket has the zero hash and no file.                         *)
(*                                                                         *)
(* An uncaught exception or a failed assert ends the process without        *)
(* running destructors, as being killed does: both are Crash.              *)
(***************************************************************************)
EXTENDS Integers, FiniteSets

CONSTANTS
    Keys, Values,     \* ledger keys and contents of ledger entries
    Dead, None,
    kNumLevels,       \* BucketList::kNumLevels, 11 in the code
    Batches,          \* what closing a ledger may change: Keys -> entry
    Genesis,          \* the batch of startNewLedger
    MaxLedger,        \* bound: last ledger closed
    MaxChanges,       \* bound: ledgers that change an entry
    MaxDowns          \* bound: times the process ends

Entry == Values \cup {Dead, None}
Bucket == [Keys -> Entry]
Empty == [k \in Keys |-> None]

ASSUME BucketsAssumption ==
    /\ Dead \notin Values /\ None \notin Values /\ Dead # None
    /\ kNumLevels \in Nat \ {0, 1}
    /\ Batches \subseteq Bucket
    /\ Genesis \in [Keys -> Values \cup {None}] \ {Empty}   \* the root account, at least
    /\ MaxLedger \in Nat \ {0} /\ MaxChanges \in Nat /\ MaxDowns \in Nat

Level == 0 .. kNumLevels - 1

VARIABLES
    pc,        \* down; idle; added: between addBatch and the SQL commit;
               \* stored: between the commit and forgetUnreferencedBuckets
    ledger,    \* the last ledger addBatch was called for
    delta,     \* what it changed, until that is stored
    mLevels,   \* BucketList::mLevels
    shared,    \* BucketManagerImpl::mSharedBuckets
    retained,  \* those of them with mRetain
    files,     \* the bucket files in BUCKET_DIR_PATH
    has,       \* SQL: kHistoryArchiveState with its currentLedger
    changes,   \* ledgers that changed an entry
    downs      \* times the process ended

vars == <<pc, ledger, delta, mLevels, shared, retained, files, has, changes, downs>>

-----------------------------------------------------------------------------
(* Bucket: merging.                                                        *)

\* Bucket::merge and maybe_put: the new bucket wins, an entry any shadow has
\* too is left out, and a tombstone is an entry like any other.
Merge(old, new, shadows) ==
    [k \in Keys |->
        IF \E s \in shadows : s[k] # None THEN None
        ELSE IF new[k] # None THEN new[k]
        ELSE old[k]]

LiveEntries(b) == [k \in Keys |-> IF b[k] \in Values THEN b[k] ELSE None]
DeadEntries(b) == [k \in Keys |-> IF b[k] = Dead THEN Dead ELSE None]

\* Bucket::fresh; a LedgerDelta has no key both live and dead.
Fresh(b) == Merge(LiveEntries(b), DeadEntries(b), {})

-----------------------------------------------------------------------------
(* FutureBucket.  `ready' says whether the worker has finished the merge.  *)

Clear == [state |-> "CLEAR", curr |-> Empty, snap |-> Empty, shadows |-> {},
          out |-> Empty, ready |-> FALSE]

LiveInputs(c, s, sh) ==
    [Clear EXCEPT !.state = "LIVE_INPUTS", !.curr = c, !.snap = s, !.shadows = sh]

Output(o) == [Clear EXCEPT !.out = o]

isLive(n) == n.state \in {"LIVE_INPUTS", "LIVE_OUTPUT"}
isMerging(n) == n.state = "LIVE_INPUTS"

\* What resolve returns, after waiting for the worker.
resolve(n) ==
    IF isMerging(n) \/ n.state = "HASH_INPUTS"
    THEN Merge(n.curr, n.snap, n.shadows)
    ELSE n.out

\* Deviation: the shadows are not written.
saveUnshadowed(n) ==
    IF isMerging(n) /\ ~n.ready THEN [n EXCEPT !.state = "HASH_INPUTS", !.shadows = {}]
    ELSE IF isLive(n) THEN [Output(resolve(n)) EXCEPT !.state = "HASH_OUTPUT"]
    ELSE n

\* HistoryArchiveState: resolveAnyReadyFutures, then save.
save(n) ==
    IF isMerging(n) /\ ~n.ready THEN [n EXCEPT !.state = "HASH_INPUTS"]
    ELSE IF isLive(n) THEN [Output(resolve(n)) EXCEPT !.state = "HASH_OUTPUT"]
    ELSE n

\* Deviation: a merge that was done when it was saved is left alone.
makeLiveInputs(n) ==
    IF n.state = "HASH_INPUTS" THEN [n EXCEPT !.state = "LIVE_INPUTS"] ELSE n

makeLive(n) ==
    IF n.state = "HASH_OUTPUT" THEN [n EXCEPT !.state = "LIVE_OUTPUT"]
    ELSE IF n.state = "HASH_INPUTS" THEN [n EXCEPT !.state = "LIVE_INPUTS"]
    ELSE n

\* The buckets a FutureBucket has a shared_ptr to: its inputs, and the
\* output once the future has it.
Held(n) ==
    IF isMerging(n)
    THEN {n.curr, n.snap} \cup n.shadows \cup (IF n.ready THEN {resolve(n)} ELSE {})
    ELSE IF n.state = "LIVE_OUTPUT" THEN {n.out}
    ELSE {}

\* FutureBucket::getHashes of a future that is not live.
SavedHashes(n) ==
    IF n.state = "HASH_INPUTS" THEN {n.curr, n.snap} \cup n.shadows
    ELSE IF n.state = "HASH_OUTPUT" THEN {n.out}
    ELSE {}

-----------------------------------------------------------------------------
(* BucketList.                                                             *)

levelSize[i \in Nat] == IF i = 0 THEN 4 ELSE 4 * levelSize[i - 1]
levelHalf(i) == levelSize[i] \div 2

\* ledger == mask(ledger, m): m divides it.
levelShouldSpill(seq, i) ==
    /\ i # kNumLevels - 1
    /\ seq % levelHalf(i) = 0 \/ seq % levelSize[i] = 0

\* Deviation: the level just above is a shadow too.
ShadowsOfAll(levels, i) == UNION {{levels[j].curr, levels[j].snap} : j \in 0 .. i - 1}

\* addBatch: what is left of `shadows' when level i is merged into.
Shadows(levels, i) == UNION {{levels[j].curr, levels[j].snap} : j \in 0 .. i - 2}

\* BucketLevel::prepare: what the level's next curr is merged from.
CurrToMerge(i, seq, curr) ==
    IF i > 0 /\ levelShouldSpill(seq + levelHalf(i - 1), i) THEN Empty ELSE curr

\* Level i after addBatch: snap if it spills, commit and prepare if the level
\* above spills into it.  The levels are taken from the last to the first, so
\* a level gives away its curr before it gets a new one.
SpillLevel(levels, seq, i) ==
    LET lv    == levels[i]
        spill == levelShouldSpill(seq, i)
        curr0 == IF spill THEN Empty ELSE lv.curr
        curr1 == IF isLive(lv.next) THEN resolve(lv.next) ELSE curr0
    IN  IF i > 0 /\ levelShouldSpill(seq, i - 1)
        THEN [curr |-> curr1,
              snap |-> IF spill THEN lv.curr ELSE lv.snap,
              next |-> LiveInputs(CurrToMerge(i, seq, curr1), levels[i - 1].curr,
                                  Shadows(levels, i))]
        ELSE [curr |-> curr0,
              snap |-> IF spill THEN lv.curr ELSE lv.snap,
              next |-> lv.next]

\* BucketList::addBatch: level 0 prepares the fresh bucket and commits it.
AddToList(levels, seq, b) ==
    LET spilled == [i \in Level |-> SpillLevel(levels, seq, i)]
    IN  [spilled EXCEPT ![0].curr = Merge(@, Fresh(b), {})]

\* The files that come into being on the way.
Adopted(levels, seq, b) ==
    ({LiveEntries(b), DeadEntries(b), Fresh(b), AddToList(levels, seq, b)[0].curr}
        \cup {resolve(levels[i].next) :
                i \in {j \in Level \ {0} : levelShouldSpill(seq, j - 1)
                                           /\ isLive(levels[j].next)}})
    \ {Empty}

\* BucketList(): every level empty.
NewList == [i \in Level |-> [curr |-> Empty, snap |-> Empty, next |-> Clear]]

-----------------------------------------------------------------------------
(* BucketManagerImpl and the ledger close.                                 *)

Saved(levels) == [i \in Level |-> [levels[i] EXCEPT !.next = save(@)]]
Loaded(levels) == [i \in Level |-> [levels[i] EXCEPT !.next = makeLive(@)]]

Named(levels) == (UNION {{levels[i].curr, levels[i].snap} : i \in Level}) \ {Empty}
InUse(levels) == (UNION {Held(levels[i].next) : i \in Level}) \ {Empty}
Outputs(levels) == {levels[i].next.out : i \in Level} \ {Empty}

\* checkForMissingBucketsFiles: every file the persisted state names.
Needed(levels) ==
    Named(levels) \cup ((UNION {SavedHashes(levels[i].next) : i \in Level}) \ {Empty})

\* After startNewLedger, whose bucket is the first curr.
Init ==
    /\ pc = "idle"
    /\ ledger = 1
    /\ delta = Empty
    /\ mLevels = AddToList(NewList, 1, Genesis)
    /\ shared = Adopted(NewList, 1, Genesis)
    /\ retained = {mLevels[0].curr}
    /\ files = shared
    /\ has = [seq |-> 1, levels |-> Saved(mLevels)]
    /\ changes = 0
    /\ downs = 0

\* closeLedgerHelper up to the SQL commit.  mRetain changes on the way, but
\* nothing reads it before forgetUnreferencedBuckets sets it anew.
AddBatch(b) ==
    /\ pc = "idle"
    /\ ledger < MaxLedger
    /\ b # Empty => changes < MaxChanges
    /\ changes' = IF b = Empty THEN changes ELSE changes + 1
    /\ ledger' = ledger + 1
    /\ delta' = b
    /\ mLevels' = AddToList(mLevels, ledger', b)
    /\ shared' = shared \cup Adopted(mLevels, ledger', b)
    /\ files' = files \cup Adopted(mLevels, ledger', b)
    /\ pc' = "added"
    /\ UNCHANGED <<retained, has, downs>>

\* The state of the bucket list as of now is stored with the ledger.
CommitLedger ==
    /\ pc = "added"
    /\ has' = [seq |-> ledger, levels |-> Saved(mLevels)]
    /\ delta' = Empty
    /\ pc' = "stored"
    /\ UNCHANGED <<ledger, mLevels, shared, retained, files, changes, downs>>

\* Deviation: only what the list itself names is kept.
ForgetUnnamed ==
    LET keep == shared \cap Named(mLevels)
    IN  /\ shared' = keep
        /\ retained' = keep
        /\ files' = files \ (shared \ keep)

\* Dropping a bucket nobody else points to deletes its file.  The names of
\* the futures' buckets are compared without their prefix and suffix and
\* never match: it is their use_count that keeps them.
Forget ==
    LET keep == shared \cap (Named(mLevels) \cup InUse(mLevels))
    IN  /\ shared' = keep
        /\ retained' = keep
        /\ files' = files \ (shared \ keep)

ForgetUnreferencedBuckets ==
    /\ pc = "stored"
    /\ Forget
    /\ pc' = "idle"
    /\ UNCHANGED <<ledger, delta, mLevels, has, changes, downs>>

\* A worker thread finishes a merge and adopts its output.
WorkerMerges(i) ==
    /\ pc # "down"
    /\ isMerging(mLevels[i].next) /\ ~mLevels[i].next.ready
    /\ mLevels' = [mLevels EXCEPT ![i].next.ready = TRUE]
    /\ LET out == {resolve(mLevels[i].next)} \ {Empty}
       IN  shared' = shared \cup out /\ files' = files \cup out
    /\ UNCHANGED <<pc, ledger, delta, retained, has, changes, downs>>

Goes ==
    /\ downs < MaxDowns
    /\ downs' = downs + 1
    /\ pc' = "down"
    /\ mLevels' = NewList
    /\ ledger' = has.seq
    /\ delta' = Empty
    /\ shared' = {}
    /\ retained' = {}
    /\ UNCHANGED <<has, changes>>

\* Killed, or aborted by an exception, at any point.
Crash == pc # "down" /\ Goes /\ files' = files

\* An orderly stop lets the workers finish; then every bucket object goes,
\* and ~Bucket removes the files not marked to be retained.
Stop ==
    LET outs == {resolve(mLevels[i].next) : i \in {j \in Level : isMerging(mLevels[j].next)}}
                \ {Empty}
    IN  /\ pc = "idle"
        /\ Goes
        /\ files' = (files \cup outs) \ ((shared \cup outs) \ retained)

\* assumeState and restartMerges.
ListFrom(levels) == Loaded(levels)

\* Deviation: startMerge does not retain what it merges.
RetainedFromNames(levels) == Named(levels)

\* setCurr, setSnap and startMerge set mRetain; setLiveOutput does not.
RetainedFrom(levels) ==
    Named(levels)
    \cup ((UNION {SavedHashes(levels[i].next) :
                    i \in {j \in Level : levels[j].next.state = "HASH_INPUTS"}}) \ {Empty})

\* loadLastKnownLedger when no file is missing.
Start ==
    /\ pc = "down"
    /\ Needed(has.levels) \subseteq files
    /\ mLevels' = ListFrom(has.levels)
    /\ ledger' = has.seq
    /\ shared' = Needed(has.levels)
    /\ retained' = RetainedFrom(has.levels)
    /\ pc' = "idle"
    /\ UNCHANGED <<delta, files, has, changes, downs>>

\* loadLastKnownLedger when files are missing: a CATCHUP_BUCKET_REPAIR
\* (module Catchup) puts them back, if an archive has them.
Repair ==
    /\ pc = "down"
    /\ ~ (Needed(has.levels) \subseteq files)
    /\ files' = files \cup Needed(has.levels)
    /\ UNCHANGED <<pc, ledger, delta, mLevels, shared, retained, has, changes, downs>>

Next ==
    \/ \E b \in Batches : AddBatch(b)
    \/ CommitLedger
    \/ ForgetUnreferencedBuckets
    \/ \E i \in Level : WorkerMerges(i)
    \/ Crash
    \/ Stop
    \/ Start
    \/ Repair

Spec == Init /\ [][Next]_vars

-----------------------------------------------------------------------------
(* Properties.                                                             *)

Future ==
    [state : {"CLEAR", "LIVE_INPUTS", "LIVE_OUTPUT", "HASH_INPUTS", "HASH_OUTPUT"},
     curr : Bucket, snap : Bucket, shadows : SUBSET Bucket, out : Bucket,
     ready : BOOLEAN]

\* Types of the variables; the list in memory has live futures only, the
\* persisted one hashes only (FutureBucket::checkState, BucketLevel::prepare).
TypeOK ==
    /\ pc \in {"down", "idle", "added", "stored"}
    /\ ledger \in 1 .. MaxLedger
    /\ delta \in Bucket
    /\ mLevels \in [Level -> [curr : Bucket, snap : Bucket, next : Future]]
    /\ {shared, retained, files} \subseteq SUBSET (Bucket \ {Empty})
    /\ has.seq \in 1 .. MaxLedger
    /\ has.levels \in [Level -> [curr : Bucket, snap : Bucket, next : Future]]
    /\ changes \in 0 .. MaxChanges
    /\ downs \in 0 .. MaxDowns
    /\ \A i \in Level : /\ isLive(mLevels[i].next) \/ mLevels[i].next = Clear
                        /\ ~ isLive(has.levels[i].next)

\* While the node runs, no bucket of the list, no input of a merge still to
\* be read and no finished output has lost its file to the garbage collection
\* or to the destructor of another bucket object (~Bucket).
ListHasFiles == Named(mLevels) \cup InUse(mLevels) \subseteq files

\* Whenever the process ends, the files the persisted state names are there
\* for the next start; what an orderly stop may lose is the output of a
\* merge that was loaded as a hash, which setLiveOutput does not retain.
OnlyOutputsLost == Needed(has.levels) \ files \subseteq Outputs(has.levels)

\* LedgerManagerImpl.cpp:679 stores the archive state "so we can survive a
\* restart and re-attach to the buckets": no file is ever missing.
SurvivesRestart == Needed(has.levels) \subseteq files

\* The ledger entries a list stands for: what applying the buckets from the
\* last level to the first, snap before curr, leaves in the tables
\* (CatchupStateMachine::applyBucketsAtLastClosedLedger, Bucket::apply).
Upper(lv, k) == IF lv.curr[k] # None THEN lv.curr[k] ELSE lv.snap[k]
Holding(levels, k) == {i \in Level : Upper(levels[i], k) # None}
First(S) == CHOOSE i \in S : \A j \in S : i <= j
Newest(levels, k) ==
    IF Holding(levels, k) = {} THEN None ELSE Upper(levels[First(Holding(levels, k))], k)
EntriesOf(levels) ==
    [k \in Keys |-> IF Newest(levels, k) = Dead THEN None ELSE Newest(levels, k)]

ApplyToEntries(m, b) ==
    [k \in Keys |-> IF b[k] = None THEN m.state[k] ELSE IF b[k] = Dead THEN None ELSE b[k]]

\* The list the process has, or will have once it is started.
Current == IF pc = "down" THEN has ELSE [seq |-> ledger, levels |-> mLevels]

EntriesStore == INSTANCE DurableState WITH
    Apply <- ApplyToEntries,
    Start <- Genesis,
    mem   <- [seq |-> Current.seq, state |-> EntriesOf(Current.levels)],
    disk  <- [seq |-> has.seq, state |-> EntriesOf(has.levels)],
    last  <- delta

\* Through spills, merges, shadows, garbage collection, crashes and restarts
\* the list stands for exactly the entries the closed ledgers left: every
\* step is an abstract step on a map of live entries, or changes nothing.
ImplementsEntries == EntriesStore!Spec

\* A list with every merge done.
Settled(levels) ==
    [i \in Level |-> [curr |-> levels[i].curr, snap |-> levels[i].snap,
                      next |-> IF levels[i].next.state = "CLEAR" THEN Clear
                               ELSE [Output(resolve(levels[i].next))
                                        EXCEPT !.state = "LIVE_OUTPUT"]]]

ApplyToList(m, b) == Settled(AddToList(m.state, m.seq + 1, b))

ListStore == INSTANCE DurableState WITH
    Apply <- ApplyToList,
    Start <- Settled(AddToList(NewList, 1, Genesis)),
    mem   <- [seq |-> Current.seq, state |-> Settled(Current.levels)],
    disk  <- [seq |-> has.seq, state |-> Settled(has.levels)],
    last  <- delta

\* The list, and so the bucketListHash that consensus is about, is a function
\* of the batches alone: neither how long a merge takes nor a restart in the
\* middle of one shows in it.
ImplementsList == ListStore!Spec

\* Every bucket that is or will be read has its file: while the node runs, and
\* for the state it would start from.
FilesAreThere == TypeOK /\ ListHasFiles /\ OnlyOutputsLost

=============================================================================
