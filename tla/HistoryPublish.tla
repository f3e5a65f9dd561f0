--------------------------- MODULE HistoryPublish ---------------------------
(***************************************************************************)
(* Publication of checkpoints to the history archives.                     *)
(*                                                                         *)
(* HistoryManagerImpl::publishHistory takes a snapshot of the last closed  *)
(* ledger and queues it in the PublishStateMachine, which publishes one    *)
(* snapshot at a time.  Publishing a snapshot runs one ArchivePublisher    *)
(* per writable archive; each is driven by the completion callbacks of the *)
(* subprocesses it starts (gzip, the archive's get, put and mkdir          *)
(* commands) and by a retry timer.  All callbacks run on the main thread,  *)
(* so a handler is one atomic step; which callback fires next, and whether *)
(* the subprocess succeeded, is nondeterministic.                          *)
(*                                                                         *)
(* A publisher keeps a map of FilePublishInfo pointers.  The infos of the  *)
(* buckets are its own; the infos of the ledger, transaction and result    *)
(* files belong to the StateSnapshot, so all the publishers of a snapshot  *)
(* share them (InfoOf).                                                    *)
(***************************************************************************)
EXTENDS Naturals, Sequences, FiniteSets

CONSTANTS
    Archives,      \* archives with a get and a put command
    MkdirArchives, \* those of them that also have a mkdir command
    Blocks,        \* the kinds of per-checkpoint files a snapshot writes
    Buckets,       \* bucket files, named by their hash
    BucketsOf,     \* BucketsOf[s]: the buckets of snapshot s
    MaxSnaps,      \* bound: checkpoints reached in a behaviour
    RetryLimit,    \* ArchivePublisher::kRetryLimit
    MaxFaults,     \* bound: subprocesses that fail of themselves
    MaxRestarts    \* bound: restarts of the process

Snaps == 1..MaxSnaps

ASSUME PublishAssumption ==
    /\ MkdirArchives \subseteq Archives
    /\ MaxSnaps \in Nat
    /\ RetryLimit \in Nat
    /\ MaxFaults \in Nat
    /\ MaxRestarts \in Nat
    /\ BucketsOf \in [Snaps -> SUBSET Buckets]
    /\ Buckets \cap (Blocks \X Snaps) = {}
    /\ "snap" \notin Archives

VARIABLES
    pending,    \* PublishStateMachine::mPendingSnaps
    taken,      \* checkpoints reached so far
    stage,      \* what the front of pending waits for
    fileState,  \* FileTransferInfo::mTransferState of every info
    pub,        \* the ArchivePublisher of each archive
    tasks,      \* subprocesses on behalf of files that have not ended
    raw,        \* local files present, uncompressed
    gz,         \* local .gz files present
    remote,     \* files present in each archive
    snapStates, \* checkpoints whose history/..json is in each archive
    wellKnown,  \* checkpoint described by .well-known/payshares-history.json
    outcome,    \* what the publish callback was told of each checkpoint
    crashed,    \* how the process died, "no" while it runs
    faults, restarts

world == <<remote, snapStates, wellKnown>>
vars == <<pending, taken, stage, fileState, pub, tasks, raw, gz, world,
          outcome, crashed, faults, restarts>>

FileStates == {"FAILED", "NEEDED", "COMPRESSING", "COMPRESSED", "MAKING_DIR",
               "MADE_DIR", "UPLOADING", "UPLOADED"}
\* "NONE" is an archive without a publisher object.
PublishStates == {"NONE", "RETRYING", "BEGIN", "SENDING", "COMMITTING"}

BlocksOf(s) == Blocks \X {s}
Files == Buckets \cup (Blocks \X Snaps)
Infos == (Archives \X Buckets) \cup ({"snap"} \X (Blocks \X Snaps))
Tasks == [arch: Archives, snap: Snaps, file: Files,
          op: {"compress", "mkdir", "put"}, have: BOOLEAN]

\* The FilePublishInfo that publisher a's mFileInfos holds for file f.
InfoOf(a, f) == IF f \in Buckets THEN <<a, f>> ELSE <<"snap", f>>

NoPublisher == [state |-> "NONE", retry |-> 0, err |-> FALSE, files |-> {},
                put |-> "snap"]
\* The constructor, which ends in enterBeginState.
NewPublisher == [NoPublisher EXCEPT !.state = "BEGIN"]

front == Head(pending)

Init ==
    /\ pending = <<>>
    /\ taken = 0
    /\ stage = "idle"
    /\ fileState = [i \in Infos |-> "NEEDED"]
    /\ pub = [a \in Archives |-> NoPublisher]
    /\ tasks = {}
    /\ raw = Buckets
    /\ gz = {}
    /\ remote = [a \in Archives |-> {}]
    /\ snapStates = [a \in Archives |-> {}]
    /\ wellKnown = [a \in Archives |-> 0]
    /\ outcome = [s \in Snaps |-> "none"]
    /\ crashed = "no"
    /\ faults = 0
    /\ restarts = 0

-----------------------------------------------------------------------------
(***************************************************************************)
(* The queue of snapshots.                                                 *)
(***************************************************************************)

\* writeNextSnapshot: wait for running bucket merges, or have the blocks
\* written (on a worker thread or at once).
WriteNextSnapshot(queue) ==
    IF queue = <<>> THEN stage' = "idle" ELSE stage' \in {"merging", "writing"}

\* maybePublishHistory at a checkpoint ledger: takeSnapshot, queueSnapshot.
TakeSnapshot ==
    /\ crashed = "no"
    /\ taken < MaxSnaps
    /\ taken' = taken + 1
    /\ pending' = Append(pending, taken + 1)
    /\ IF pending = <<>> THEN WriteNextSnapshot(pending') ELSE UNCHANGED stage
    /\ UNCHANGED <<fileState, pub, tasks, raw, gz, world, outcome, crashed,
                   faults, restarts>>

\* mRecheckRunningMergeTimer fires and the merges have ended.
MergesReady ==
    /\ crashed = "no"
    /\ stage = "merging"
    /\ stage' = "writing"
    /\ UNCHANGED <<pending, taken, fileState, pub, tasks, raw, gz, world,
                   outcome, crashed, faults, restarts>>

\* The blocks are on disk: one publisher per writable archive.
SnapshotWritten ==
    /\ crashed = "no"
    /\ stage = "writing"
    /\ stage' = "publishing"
    /\ raw' = raw \cup BlocksOf(front)
    /\ pub' = [a \in Archives |-> NewPublisher]
    /\ UNCHANGED <<pending, taken, fileState, tasks, gz, world, outcome,
                   crashed, faults, restarts>>

\* snapshotPublished and finishOne: the ended publisher is destroyed, the
\* last one to end reports its own error code and starts the next snapshot.
SnapshotPublished(a, err) ==
    /\ pub' = [pub EXCEPT ![a] = NoPublisher]
    /\ IF \A b \in Archives : pub'[b].state = "NONE"
       THEN /\ outcome' = [outcome EXCEPT
                             ![front] = IF err THEN "failure" ELSE "success"]
            /\ pending' = Tail(pending)
            /\ WriteNextSnapshot(pending')
       ELSE UNCHANGED <<outcome, pending, stage>>

-----------------------------------------------------------------------------
(***************************************************************************)
(* ArchivePublisher.                                                       *)
(***************************************************************************)

\* What enterSendingState does to a file in each state.  Without a mkdir
\* command HistoryManagerImpl::mkdir calls back at once and the nested
\* enterSendingState goes on to the upload.
Advance(a, st) ==
    CASE st = "NEEDED"     -> "COMPRESSING"
      [] st = "COMPRESSED" -> IF a \in MkdirArchives THEN "MAKING_DIR"
                                                     ELSE "UPLOADING"
      [] st = "MADE_DIR"   -> "UPLOADING"
      [] OTHER             -> st

\* The subprocess started for file f as it advances to state st; `have' is
\* whether its input is on disk.
Started(a, f, st, g) ==
    CASE st = "COMPRESSING" -> [arch |-> a, snap |-> front, file |-> f,
                                op |-> "compress", have |-> f \in raw]
      [] st = "MAKING_DIR"  -> [arch |-> a, snap |-> front, file |-> f,
                                op |-> "mkdir", have |-> TRUE]
      [] st = "UPLOADING"   -> [arch |-> a, snap |-> front, file |-> f,
                                op |-> "put", have |-> f \in g]

\* enterSendingState of publisher a, whose other fields are p, from file
\* states fs, subprocesses ts and .gz files g.
EnterSendingState(a, p, fs, ts, g) ==
    LET before(f) == fs[InfoOf(a, f)]
        after(f)  == Advance(a, before(f))
        failed    == \E f \in p.files : after(f) = "FAILED"
        done      == \A f \in p.files : after(f) = "UPLOADED"
        nested    == a \notin MkdirArchives
                     /\ \E f \in p.files : before(f) = "COMPRESSED"
    IN /\ fileState' = [i \in Infos |->
                          IF \E f \in p.files : i = InfoOf(a, f)
                          THEN Advance(a, fs[i]) ELSE fs[i]]
       /\ tasks' = ts \cup {Started(a, f, after(f), g) :
                             f \in {h \in p.files : before(h) # after(h)}}
       /\ gz' = g \ {f \in p.files : before(f) = "UPLOADED"}
       /\ pub' = [pub EXCEPT ![a] =
                    [p EXCEPT !.state = IF failed THEN "RETRYING"
                                        ELSE IF done THEN "COMMITTING"
                                        ELSE "SENDING",
                              !.put = "snap"]]
       \* A nested call that enters RETRYING makes the outer call enter it
       \* again, which enterRetryingState's assert rejects.
       /\ crashed' = IF failed /\ nested THEN "assert" ELSE crashed

Fails == faults < MaxFaults /\ faults' = faults + 1

\* Deviation: compare with the previous checkpoint, not with the archive.
DifferingFromPrevious(s, archived) ==
    BucketsOf[s] \ (IF s = 1 THEN {} ELSE BucketsOf[s - 1])

\* The buckets of mSnap->mLocalState.differingBuckets(mArchiveState).
DifferingBuckets(s, archived) ==
    BucketsOf[s] \ (IF archived = 0 THEN {} ELSE BucketsOf[archived])

\* Deviation: the observed state does not go on to SENDING.
GotStateStops(a) ==
    /\ crashed = "no"
    /\ pub[a].state = "BEGIN"
    /\ pub' = [pub EXCEPT ![a].state = "OBSERVED"]
    /\ UNCHANGED <<pending, taken, stage, fileState, tasks, raw, gz, world,
                   outcome, crashed, faults, restarts>>

\* Deviation: every wanted bucket is queued again.
FreshInfosAll(a, wanted) == wanted \cap Buckets

\* The bucket infos made anew when publisher a observes the archive: those
\* of files it has not queued yet, and of those that failed.
FreshInfos(a, wanted) ==
    {f \in wanted \cap Buckets : f \notin pub[a].files
                                 \/ fileState[InfoOf(a, f)] = "FAILED"}

\* The callback of getMostRecentState: enterRetryingState, or
\* enterObservedState which queues the files and enters SENDING.
GotState(a) ==
    /\ crashed = "no"
    /\ pub[a].state = "BEGIN"
    /\ \/ /\ Fails
          /\ pub' = [pub EXCEPT ![a].state = "RETRYING"]
          /\ UNCHANGED <<fileState, tasks, gz, crashed>>
       \/ LET wanted == BlocksOf(front)
                        \cup DifferingBuckets(front, wellKnown[a])
              \* A block's info stays the snapshot's, in the state it is in.
              fs == [i \in Infos |->
                       IF \E f \in FreshInfos(a, wanted) : i = InfoOf(a, f)
                       THEN "NEEDED" ELSE fileState[i]]
          IN /\ EnterSendingState(a, [pub[a] EXCEPT !.files = @ \cup wanted],
                                  fs, tasks, gz)
             /\ UNCHANGED faults
    /\ UNCHANGED <<pending, taken, stage, raw, world, outcome, restarts>>

\* Deviation: a publisher never gives up.
RetryTimerForever(a) ==
    /\ crashed = "no"
    /\ pub[a].state = "RETRYING"
    /\ pub' = [pub EXCEPT ![a].state = "BEGIN"]
    /\ UNCHANGED <<pending, taken, stage, fileState, tasks, raw, gz, world,
                   outcome, crashed, faults, restarts>>

\* Deviation: an abandoned snapshot goes to the back of the queue.
RetryTimerRequeues(a) ==
    /\ crashed = "no"
    /\ pub[a].state = "RETRYING"
    /\ IF pub[a].retry > RetryLimit
       THEN /\ tasks = {}
            /\ pub' = [pub EXCEPT ![a] = NoPublisher]
            /\ pending' = Append(Tail(pending), front)
            /\ WriteNextSnapshot(pending')
       ELSE /\ pub' = [pub EXCEPT ![a].state = "BEGIN", ![a].retry = @ + 1]
            /\ UNCHANGED <<pending, stage>>
    /\ UNCHANGED <<taken, fileState, tasks, raw, gz, world, outcome, crashed,
                   faults, restarts>>

\* enterRetryingState's timer: begin again, or give up on this snapshot.
RetryTimer(a) ==
    /\ crashed = "no"
    /\ pub[a].state = "RETRYING"
    /\ IF pub[a].retry > RetryLimit
       THEN SnapshotPublished(a, pub[a].err)
       ELSE /\ pub' = [pub EXCEPT ![a].state = "BEGIN", ![a].retry = @ + 1]
            /\ UNCHANGED <<outcome, pending, stage>>
    /\ UNCHANGED <<taken, fileState, tasks, raw, gz, world, crashed, faults,
                   restarts>>

\* The publisher that started t is gone, and its callback holds its address.
Dangling(t) == stage # "publishing" \/ t.snap # front
               \/ pub[t.arch].state = "NONE"

GoodState(op) == CASE op = "compress" -> "COMPRESSED"
                   [] op = "mkdir"    -> "MADE_DIR"
                   [] op = "put"      -> "UPLOADED"

\* Deviation: the subprocess's error code is not looked at.
NewStateUnchecked(op, ok) == GoodState(op)

\* The state fileStateChange records for the file of an ended subprocess.
NewState(op, ok) == IF ok THEN GoodState(op) ELSE "FAILED"

\* fileStateChange: record the file's new state, then re-enter SENDING
\* unless a retry is pending.
FileStateChange(t, ok, g) ==
    LET a  == t.arch
        p  == [pub[a] EXCEPT !.err = @ \/ ~ok]
        fs == [fileState EXCEPT ![InfoOf(a, t.file)] =
                 NewState(t.op, ok)]
    IN CASE p.state = "RETRYING" ->
              /\ pub' = [pub EXCEPT ![a] = p]
              /\ fileState' = fs
              /\ tasks' = tasks \ {t}
              /\ gz' = g
              /\ UNCHANGED crashed
         [] p.state = "SENDING" -> EnterSendingState(a, p, fs, tasks \ {t}, g)
         [] OTHER ->  \* enterSendingState's assert
              /\ crashed' = "assert"
              /\ UNCHANGED <<pub, fileState, tasks, gz>>

\* A subprocess ended well.  gzip leaves the .gz, put the remote file.
FileSucceeds(t) ==
    /\ crashed = "no"
    /\ t.have
    /\ remote' = IF t.op = "put"
                 THEN [remote EXCEPT ![t.arch] = @ \cup {t.file}] ELSE remote
    /\ IF Dangling(t)
       THEN crashed' = "dangling" /\ UNCHANGED <<pub, fileState, tasks, gz>>
       ELSE FileStateChange(t, TRUE, IF t.op = "compress"
                                     THEN gz \cup {t.file} ELSE gz)
    /\ UNCHANGED <<pending, taken, stage, raw, snapStates, wellKnown, outcome,
                   faults, restarts>>

\* A subprocess failed.  HistoryManagerImpl::compress then removes both the
\* input and the output of gzip.
FileFails(t) ==
    /\ crashed = "no"
    /\ IF t.have THEN Fails ELSE UNCHANGED faults
    /\ raw' = IF t.op = "compress" THEN raw \ {t.file} ELSE raw
    /\ IF Dangling(t)
       THEN crashed' = "dangling" /\ UNCHANGED <<pub, fileState, tasks, gz>>
       ELSE FileStateChange(t, FALSE, IF t.op = "compress"
                                      THEN gz \ {t.file} ELSE gz)
    /\ UNCHANGED <<pending, taken, stage, world, outcome, restarts>>

\* HistoryArchive::putState, first the checkpoint's own file, then the
\* well-known one; any failure restarts the publish.
PutSnapState(a) ==
    /\ crashed = "no"
    /\ pub[a].state = "COMMITTING"
    /\ pub[a].put = "snap"
    /\ snapStates' = [snapStates EXCEPT ![a] = @ \cup {front}]
    /\ pub' = [pub EXCEPT ![a].put = "wellKnown"]
    /\ UNCHANGED <<pending, taken, stage, fileState, tasks, raw, gz, remote,
                   wellKnown, outcome, crashed, faults, restarts>>

PutWellKnown(a) ==
    /\ crashed = "no"
    /\ pub[a].state = "COMMITTING"
    /\ pub[a].put = "wellKnown"
    /\ wellKnown' = [wellKnown EXCEPT ![a] = front]
    /\ SnapshotPublished(a, pub[a].err)
    /\ UNCHANGED <<taken, fileState, tasks, raw, gz, remote, snapStates,
                   crashed, faults, restarts>>

PutStateFails(a) ==
    /\ crashed = "no"
    /\ pub[a].state = "COMMITTING"
    /\ Fails
    /\ pub' = [pub EXCEPT ![a].state = "RETRYING"]
    /\ UNCHANGED <<pending, taken, stage, fileState, tasks, raw, gz, world,
                   outcome, crashed, restarts>>

\* The process is started again: queue, publishers and the snapshot's
\* temporary directory are gone, missing buckets are fetched again.
Restart ==
    /\ restarts < MaxRestarts
    /\ restarts' = restarts + 1
    /\ crashed' = "no"
    /\ pending' = <<>>
    /\ stage' = "idle"
    /\ pub' = [a \in Archives |-> NoPublisher]
    /\ tasks' = {}
    /\ raw' = Buckets
    /\ gz' = gz \cap Buckets
    /\ UNCHANGED <<taken, fileState, world, outcome, faults>>

Handlers ==
    \/ MergesReady
    \/ SnapshotWritten
    \/ \E a \in Archives : \/ GotState(a)
                           \/ RetryTimer(a)
                           \/ PutSnapState(a)
                           \/ PutWellKnown(a)
                           \/ PutStateFails(a)
    \/ \E t \in tasks : FileSucceeds(t) \/ FileFails(t)

Next == TakeSnapshot \/ Restart \/ Handlers

Spec == Init /\ [][Next]_vars

\* Subprocesses end, timers fire and the main loop runs what is ready.
FairSpec == Spec /\ WF_vars(Handlers)

-----------------------------------------------------------------------------
(***************************************************************************)
(* Properties.                                                             *)
(***************************************************************************)

\* Type invariant.
TypeOK ==
    /\ pending \in Seq(Snaps)
    /\ taken \in 0..MaxSnaps
    /\ stage \in {"idle", "merging", "writing", "publishing"}
    /\ fileState \in [Infos -> FileStates]
    /\ pub \in [Archives -> [state: PublishStates, retry: Nat, err: BOOLEAN,
                             files: SUBSET Files, put: {"snap", "wellKnown"}]]
    /\ tasks \subseteq Tasks
    /\ raw \subseteq Files /\ gz \subseteq Files
    /\ remote \in [Archives -> SUBSET Files]
    /\ snapStates \in [Archives -> SUBSET Snaps]
    /\ wellKnown \in [Archives -> 0..MaxSnaps]
    /\ outcome \in [Snaps -> {"none", "success", "failure"}]
    /\ crashed \in {"no", "assert", "dangling"}
    /\ faults \in 0..MaxFaults /\ restarts \in 0..MaxRestarts

\* An archive that describes a checkpoint as its current state holds every
\* bucket of that checkpoint, although a publisher only sends the buckets
\* that the archive's previous state did not name (differingBuckets).
CommittedBuckets ==
    \A a \in Archives : wellKnown[a] # 0 =>
        BucketsOf[wellKnown[a]] \subseteq remote[a]

\* An archive that describes a checkpoint (its history file is there) holds
\* the ledger, transaction and result files of that checkpoint:
\* publishHistory checkpoints "both the log of history ... as well as the
\* bucketlist of its state -- to all writable history archives".
CommittedBlocks ==
    \A a \in Archives : \A s \in snapStates[a] : BlocksOf(s) \subseteq remote[a]

\* No two subprocesses work for the same publisher on the same file: the
\* file states make every completion start at most one successor.
OneOpPerFile ==
    \A t, u \in tasks :
        t.arch = u.arch /\ t.snap = u.snap /\ t.file = u.file => t = u

\* A later checkpoint is never replaced by an earlier one as the state an
\* archive announces, whatever fails, is retried or restarted.
WellKnownMonotone ==
    [][\A a \in Archives : wellKnown'[a] >= wellKnown[a]]_vars

\* A checkpoint counted by getPublishSuccessCount ("completed publication
\* successfully") is the announced state of the archives, or an older one.
SuccessIsReal ==
    \A s \in Snaps : outcome[s] = "success" =>
        \A a \in Archives : s \in snapStates[a] /\ wellKnown[a] >= s

\* No callback reaches a publisher that has been destroyed.
NoDanglingCallback == crashed # "dangling"

\* "Every enqueued checkpoint should eventually start" (unless the process
\* dies or is started anew first).
EnqueuedStarts ==
    \A s \in Snaps :
        (\E i \in DOMAIN pending : pending[i] = s)
            ~> \/ stage = "publishing" /\ front = s
               \/ crashed # "no" \/ restarts > 0

\* The files of a publication are worked on by one subprocess at a time.
FilesInOrder == TypeOK /\ OneOpPerFile

\* An archive holds all that its state files name: buckets and ledger files.
AnnouncedIsHeld == CommittedBuckets /\ CommittedBlocks

=============================================================================
