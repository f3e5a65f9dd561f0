------------------------------- MODULE Catchup -------------------------------
(***************************************************************************)
(* The catchup state machine (history/CatchupStateMachine.cpp): a node     *)
(* that lost synchronisation picks a history archive, reads the archive's  *)
(* state at the target checkpoint (its anchor), fetches the files it wants *)
(* in parallel subprocesses, verifies them against the consensus the       *)
(* LedgerManager heard of, applies them and reports to its caller.         *)
(*                                                                         *)
(* Every handler is a callback on the main thread and so one atomic step;  *)
(* a handler that completes a phase runs straight on into the next.  The   *)
(* archives are external and untrusted: an archive may lack the            *)
(* checkpoint, or serve files whose content is wrong.                      *)
(***************************************************************************)
EXTENDS Naturals, FiniteSets

CONSTANTS
    Archives,     \* history archives with a get command
    Lacking,      \* archives that never receive the target checkpoint
    Corrupt,      \* pairs <<archive, file>>: the archive's copy is wrong
    Modes,        \* of "COMPLETE", "MINIMAL" and "REPAIR", those asked for
    BucketFiles,  \* buckets the anchor names and the node's state does not
    LiveBuckets,  \* those of them the BucketManager has after all
    HeaderFiles,  \* ledger header files up to the target
    TxFiles,      \* transaction files up to the target
    RetryLimit,   \* CatchupStateMachine::kRetryLimit
    DbErrors,     \* whether applying may meet a database error
    MaxFaults     \* bound: subprocesses that fail

Files == BucketFiles \cup HeaderFiles \cup TxFiles

ASSUME CatchupAssumption ==
    /\ Lacking \subseteq Archives
    /\ Archives # {}
    /\ Corrupt \subseteq Archives \X Files
    /\ Modes \subseteq {"COMPLETE", "MINIMAL", "REPAIR"}
    /\ LiveBuckets \subseteq BucketFiles
    /\ BucketFiles \cap (HeaderFiles \cup TxFiles) = {}
    /\ HeaderFiles \cap TxFiles = {}
    /\ RetryLimit \in Nat
    /\ MaxFaults \in Nat
    /\ DbErrors \in BOOLEAN

VARIABLES
    mMode,       \* of the constructor; never changes
    mState,      \* CatchupStateMachine::mState
    mRetryCount,
    mArchive,
    resume,      \* what the retry timer's lambda captured: where to go on
    mFileInfos,  \* state of every file, "absent" while it is not in the map
    content,     \* what is on disk for each file
    tasks,       \* subprocesses and hash checks that have not ended
    consensus,   \* the LedgerManager heard of a ledger at the target or later
    crashed,     \* how the process died, "no" while it runs
    faults

catchupVars == <<mMode, mState, mRetryCount, mArchive, resume, mFileInfos,
                 content, tasks, consensus, crashed, faults>>

\* What enterAnchoredState queues in each mode.
Wanted == CASE mMode = "COMPLETE" -> HeaderFiles \cup TxFiles
            [] mMode = "MINIMAL"  -> BucketFiles \cup HeaderFiles
            [] mMode = "REPAIR"   -> BucketFiles

\* What may be on disk for a file.  Of a header file "bad" is one that does not
\* read or ends at another ledger, "other" one whose last header is claimed to
\* have another hash, "forged" one that claims the right hash for a last header
\* that is not the one with that hash.
Contents == {"none", "good", "bad", "other", "forged"}

FileStates == {"absent", "FAILED", "NEEDED", "DOWNLOADING", "DOWNLOADED",
               "DECOMPRESSING", "DECOMPRESSED", "VERIFYING", "VERIFIED"}
Tasks == [file: Files, op: {"get", "gunzip", "verify"}, arch: Archives]

\* The constructor ends in enterBeginState.
CatchupInit ==
    /\ mMode \in Modes
    /\ mState = "BEGIN"
    /\ mRetryCount = 0
    /\ mArchive \in Archives
    /\ resume = "begin"
    /\ mFileInfos = [f \in Files |-> "absent"]
    /\ content = [f \in Files |-> "none"]
    /\ tasks = {}
    /\ consensus \in BOOLEAN
    /\ crashed = "no"
    /\ faults = 0

Fails == faults < MaxFaults /\ faults' = faults + 1

-----------------------------------------------------------------------------
(***************************************************************************)
(* The phases.  Each operator constrains mState', mRetryCount', mArchive', *)
(* resume' and crashed', given what the phases before it computed.         *)
(***************************************************************************)

\* enterBeginState: forget the retries, pick any archive, ask for its state.
EnterBeginState ==
    /\ mState' = "BEGIN"
    /\ mRetryCount' = 0
    /\ mArchive' \in Archives
    /\ UNCHANGED <<resume, crashed>>

\* enterRetryingState: pause; the timer goes on from where we were.
EnterRetryingState(from, count) ==
    /\ mState' = "RETRYING"
    /\ resume' = from
    /\ mRetryCount' = count
    /\ UNCHANGED <<mArchive, crashed>>

Throw ==
    /\ crashed' = "throw"
    /\ UNCHANGED <<mState, mRetryCount, mArchive, resume>>

HeaderContents(c) == {c[f] : f \in HeaderFiles \cap Wanted}

AllGood(fs, c) == \A f \in fs \cap Wanted : c[f] = "good"

\* enterApplyingState and enterEndState.  Nothing catches what the apply
\* throws: a database error, a transaction file that does not hash to what its
\* (verified) header says, or a header whose bucket list is not the anchor's.
EnterApplyingState(c, count) ==
    \/ /\ AllGood(TxFiles, c)
       /\ mState' = "END"
       /\ mRetryCount' = count
       /\ UNCHANGED <<mArchive, resume, crashed>>
    \/ /\ ~AllGood(TxFiles, c) \/ "forged" \in HeaderContents(c) \/ DbErrors
       /\ Throw

\* LedgerManagerImpl::verifyCatchupCandidate of the last header, `right' when
\* it claims the hash that consensus has: only the claim is compared.
verifyCatchupCandidate(right) ==
    CASE consensus /\ right  -> "OK"
      [] consensus /\ ~right -> "BAD"
      [] OTHER               -> "UNKNOWN"

\* XDRInputFileStream throws: a file is missing or does not read.
Unreadable(has) == has \cap {"none", "bad"} # {}

\* Deviation: a last header that consensus does not know yet passes.
VerifyStatusTrusting(has) == IF Unreadable(has) THEN {"throw"} ELSE {"OK"}

\* What verifying may find, given what the header files hold.  COMPLETE hashes
\* every header and links it to the one before, so of the wrong files only a
\* chain of its own gets as far as the LedgerManager; MINIMAL takes the last
\* header as it reads it.
VerifyStatus(has) ==
    CASE mMode = "COMPLETE" ->
            {s \in {"throw", "BAD", verifyCatchupCandidate("other" \notin has)} :
                /\ s = "throw" => Unreadable(has)
                /\ s = "BAD"   => ~(has \subseteq {"good"})
                /\ s \in {"OK", "UNKNOWN"} => has \subseteq {"good", "other"}}
      [] mMode = "MINIMAL"  ->
            IF Unreadable(has) THEN {"throw"}
            ELSE {verifyCatchupCandidate("other" \notin has)}
      [] mMode = "REPAIR"   -> {"OK"}

EnterVerifyingState(c, count) ==
    \E status \in VerifyStatus(HeaderContents(c)) :
        \/ status = "OK" /\ EnterApplyingState(c, count)
        \/ status = "BAD" /\ EnterBeginState
        \/ status = "UNKNOWN" /\ EnterRetryingState("verify", count)
        \/ status = "throw" /\ Throw

\* What enterFetchingState does to a file in each state; only buckets have
\* a hash to be verified against.
Advance(f, st) ==
    CASE st = "NEEDED"       -> IF f \in LiveBuckets THEN "VERIFIED"
                                                     ELSE "DOWNLOADING"
      [] st = "DOWNLOADED"   -> "DECOMPRESSING"
      [] st = "DECOMPRESSED" -> IF f \in BucketFiles THEN "VERIFYING"
                                                     ELSE "VERIFIED"
      [] OTHER               -> st

OpOf(st) == CASE st = "DOWNLOADING"   -> "get"
              [] st = "DECOMPRESSING" -> "gunzip"
              [] st = "VERIFYING"     -> "verify"

\* The files in mFileInfos, given the file states fi.
Queued(fi) == {f \in Files : fi[f] # "absent"}

\* Deviation: files whose hash is still being checked count as fetched.
FetchedEarly(fi) ==
    \A f \in Queued(fi) : Advance(f, fi[f]) \in {"VERIFYING", "VERIFIED"}

\* The minimum of the file states, after each took its step, is VERIFIED.
Fetched(fi) == \A f \in Queued(fi) : Advance(f, fi[f]) = "VERIFIED"

\* The minimum of the file states is FAILED.
SomeFailed(fi) == \E f \in Queued(fi) : fi[f] = "FAILED"

\* enterFetchingState from file states fi, contents c and tasks ts: every
\* file takes its next step, then the machine goes where the least advanced
\* file lets it.
EnterFetchingState(fi, c, ts, count) ==
    LET after(f) == Advance(f, fi[f])
        moved    == {f \in Queued(fi) : after(f) # fi[f]}
        started  == {f \in moved : after(f) # "VERIFIED"}
    IN /\ mFileInfos' = [f \in Files |-> after(f)]
       /\ content' = [f \in Files |->
                        IF f \in moved /\ fi[f] = "NEEDED"
                           /\ after(f) = "VERIFIED" THEN "good" ELSE c[f]]
       /\ tasks' = ts \cup {[file |-> f, op |-> OpOf(after(f)),
                             arch |-> mArchive] : f \in started}
       /\ \/ /\ SomeFailed(fi)
             /\ EnterRetryingState("anchor", count)
          \/ /\ Fetched(fi)
             /\ EnterVerifyingState(content', count)
          \/ /\ ~SomeFailed(fi) /\ ~Fetched(fi)
             /\ mState' = "FETCHING"
             /\ mRetryCount' = count
             /\ UNCHANGED <<mArchive, resume, crashed>>

\* Deviation: files still in progress are queued a second time.
RequeuedAll(f) ==
    IF f \in Wanted /\ mFileInfos[f] # "VERIFIED" THEN "NEEDED"
    ELSE mFileInfos[f]

\* Deviation: failed files are not queued again.
RequeuedOnce(f) ==
    IF f \in Wanted /\ mFileInfos[f] = "absent" THEN "NEEDED"
    ELSE mFileInfos[f]

\* The file states enterAnchoredState leaves: failed files are fetched
\* again, files that are wanted and not in the map are queued.
Requeued(f) ==
    IF mFileInfos[f] = "FAILED" \/ (f \in Wanted /\ mFileInfos[f] = "absent")
    THEN "NEEDED" ELSE mFileInfos[f]

EnterAnchoredState(count) ==
    LET c == [f \in Files |->
                IF mFileInfos[f] = "FAILED" THEN "none" ELSE content[f]]
    IN EnterFetchingState([f \in Files |-> Requeued(f)], c, tasks, count)

-----------------------------------------------------------------------------
(***************************************************************************)
(* The callbacks.                                                          *)
(***************************************************************************)

\* The archive's state at the target checkpoint arrived, or did not.
GotSnapState ==
    /\ crashed = "no"
    /\ mState = "BEGIN"
    /\ \/ /\ IF mArchive \in Lacking THEN UNCHANGED faults ELSE Fails
          /\ EnterRetryingState("begin", mRetryCount)
          /\ UNCHANGED <<mFileInfos, content, tasks>>
       \/ /\ mArchive \notin Lacking
          /\ EnterAnchoredState(mRetryCount)
          /\ UNCHANGED faults
    /\ UNCHANGED consensus

\* Deviation: the retry limit is not looked at.
RetryTimerUnlimited ==
    /\ crashed = "no"
    /\ mState = "RETRYING"
    /\ \/ /\ resume = "begin"
          /\ EnterBeginState
          /\ UNCHANGED <<mFileInfos, content, tasks>>
       \/ /\ resume = "anchor"
          /\ EnterAnchoredState(mRetryCount + 1)
       \/ /\ resume = "verify"
          /\ EnterVerifyingState(content, mRetryCount + 1)
          /\ UNCHANGED <<mFileInfos, content, tasks>>
    /\ UNCHANGED <<consensus, faults>>

\* The retry timer fired: `mRetryCount++ > kRetryLimit' starts over.
RetryTimer ==
    /\ crashed = "no"
    /\ mState = "RETRYING"
    /\ \/ /\ mRetryCount > RetryLimit \/ resume = "begin"
          /\ EnterBeginState
          /\ UNCHANGED <<mFileInfos, content, tasks>>
       \/ /\ mRetryCount <= RetryLimit /\ resume = "anchor"
          /\ EnterAnchoredState(mRetryCount + 1)
       \/ /\ mRetryCount <= RetryLimit /\ resume = "verify"
          /\ EnterVerifyingState(content, mRetryCount + 1)
          /\ UNCHANGED <<mFileInfos, content, tasks>>
    /\ UNCHANGED <<consensus, faults>>

\* fileStateChange: record the file's new state and content, then go on
\* fetching unless a retry is pending.
FileStateChange(t, st, c) ==
    LET fi == [mFileInfos EXCEPT ![t.file] = st]
        cs == [content EXCEPT ![t.file] = c]
    IN CASE mState = "RETRYING" ->
              /\ mFileInfos' = fi
              /\ content' = cs
              /\ tasks' = tasks \ {t}
              /\ UNCHANGED <<mState, mRetryCount, mArchive, resume, crashed>>
         [] mState = "FETCHING" ->
              EnterFetchingState(fi, cs, tasks \ {t}, mRetryCount)
         [] OTHER ->  \* enterFetchingState's assert
              /\ crashed' = "assert"
              /\ UNCHANGED <<mState, mRetryCount, mArchive, resume,
                             mFileInfos, content, tasks>>

\* What an archive serves: of a header file, any kind of wrong one.
Served(arch, f) ==
    IF <<arch, f>> \notin Corrupt THEN {"good"}
    ELSE IF f \in HeaderFiles THEN {"bad", "other", "forged"} ELSE {"bad"}

GetDone(t) ==
    /\ t.op = "get"
    /\ \E c \in Served(t.arch, t.file) : FileStateChange(t, "DOWNLOADED", c)

GunzipDone(t) ==
    /\ t.op = "gunzip"
    /\ FileStateChange(t, "DECOMPRESSED", content[t.file])

\* verifyHash, then adoptFileAsBucket.
VerifyDone(t) ==
    /\ t.op = "verify"
    /\ FileStateChange(t, IF content[t.file] = "good" THEN "VERIFIED"
                                                      ELSE "FAILED",
                       content[t.file])

TaskDone(t) ==
    /\ crashed = "no"
    /\ GetDone(t) \/ GunzipDone(t) \/ VerifyDone(t)
    /\ UNCHANGED <<consensus, faults>>

\* A get or gunzip command fails.
TaskFails(t) ==
    /\ crashed = "no"
    /\ t.op \in {"get", "gunzip"}
    /\ Fails
    /\ FileStateChange(t, "FAILED", "none")
    /\ UNCHANGED consensus

\* The LedgerManager buffers a consensus ledger at or past the target.
ConsensusAdvances ==
    /\ ~consensus
    /\ crashed = "no"
    /\ consensus' = TRUE
    /\ UNCHANGED <<mMode, mState, mRetryCount, mArchive, resume, mFileInfos, content,
                   tasks, crashed, faults>>

Handlers ==
    /\ \/ GotSnapState
       \/ RetryTimer
       \/ \E t \in tasks : TaskDone(t) \/ TaskFails(t)
    /\ UNCHANGED mMode

CatchupNext == Handlers \/ ConsensusAdvances

CatchupSpec == CatchupInit /\ [][CatchupNext]_catchupVars

\* Subprocesses end, timers fire, the network goes on closing ledgers.
CatchupFairSpec ==
    CatchupSpec /\ WF_catchupVars(Handlers) /\ WF_catchupVars(ConsensusAdvances)

\* Archives that have the checkpoint and only right files.
Honest == {a \in Archives \ Lacking : \A f \in Files : <<a, f>> \notin Corrupt}

\* selectRandomReadableHistoryArchive is a fair draw: an honest archive is
\* not passed over for ever.
FairDrawSpec ==
    /\ CatchupFairSpec
    /\ SF_catchupVars(Handlers /\ mState' = "BEGIN" /\ mState # "BEGIN"
                     /\ mArchive' \in Honest)

-----------------------------------------------------------------------------
(***************************************************************************)
(* Properties.                                                             *)
(***************************************************************************)

\* Type invariant.
CatchupTypeOK ==
    /\ mMode \in Modes
    /\ mState \in {"BEGIN", "RETRYING", "FETCHING", "END"}
    /\ mRetryCount \in 0..(RetryLimit + 1)
    /\ mArchive \in Archives
    /\ resume \in {"begin", "anchor", "verify"}
    /\ mFileInfos \in [Files -> FileStates]
    /\ content \in [Files -> Contents]
    /\ tasks \subseteq Tasks
    /\ consensus \in BOOLEAN
    /\ crashed \in {"no", "assert", "throw"}
    /\ faults \in 0..MaxFaults

\* enterEndState: whatever the archives served and however often it restarted,
\* catchup ends only with buckets and transaction files that are right and with
\* a last header that claims the hash consensus has.  COMPLETE has the right
\* headers; MINIMAL has not hashed the one it installs.
EndIsSound ==
    mState = "END" =>
        /\ AllGood(BucketFiles \cup TxFiles, content)
        /\ HeaderContents(content) \subseteq
              IF mMode = "COMPLETE" THEN {"good"} ELSE {"good", "forged"}
        /\ mMode # "REPAIR" => consensus

\* "We've verified mLastClosed (in the "trusted part of history" sense) in
\* CATCHUP_VERIFY phase": the header catchup ends with is consensus's.
HeaderIsVerified == mState = "END" => AllGood(HeaderFiles, content)

\* The state machine is destroyed when it ends; no callback that holds its
\* address is outstanding then.
EndIsQuiet == mState = "END" => tasks = {}

\* "In-progress states have callbacks set up already which will fire when
\* they complete": a file in an in-progress state has exactly one task, of
\* the kind that state waits for, and no other file has one.
InProgress == {"DOWNLOADING", "DECOMPRESSING", "VERIFYING"}
InProgressHasCallback ==
    \A f \in Files :
        IF mFileInfos[f] \in InProgress
        THEN \E t \in tasks : /\ t.file = f /\ t.op = OpOf(mFileInfos[f])
                              /\ \A u \in tasks : u.file = f => u = t
        ELSE \A t \in tasks : t.file # f

\* "APPLYING ----- (DB errors) ---> RETRYING": an error of the apply phase is
\* retried, it does not take the process down.
ApplyErrorRetries == crashed # "throw"

\* Bad material is eventually replaced by an honest archive's: a failed
\* verification makes catchup "restart, possibly against a different
\* untrusted history archive".  (A crash ends the attempt as well.)
Ends == <>(mState = "END" \/ crashed # "no")

\* The same of bucket repair: every file it wants has a hash to be verified
\* against, so bad ones are recognised and fetched again.
RepairEnds == mMode = "REPAIR" => Ends

\* "it retries a certain number of times before giving up entirely".
StopsRetrying == <>[](mState # "RETRYING")

\* The files of a catchup are never lost sight of: every one that is being worked
\* on has one subprocess that will report, and none is left when it ends.
FilesInOrder == CatchupTypeOK /\ InProgressHasCallback /\ EndIsQuiet

=============================================================================
