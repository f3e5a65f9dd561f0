# TLA+ models of payshares-core

payshares-core is a node of a payment network. Its peers agree, ledger by
ledger, on a set of transactions (SCP, a federated Byzantine agreement), apply
it to a database, keep a hash of all state in a list of buckets, and publish
checkpoints to history archives from which nodes that fell behind catch up.

This directory holds TLA+ models of the parts whose correctness is hard to
test, the TLC configurations that check them on small instances, and TLAPS
proofs of the properties that matter most for all instances. Paths in this
file are relative to the repository, `src/src/...` being its source tree.

1. [Inventory](#1-inventory)
2. [Modules and the code they model](#2-modules-and-the-code-they-model)
3. [Runs](#3-runs)
4. [Bounds](#4-bounds)
5. [Fairness](#5-fairness)
6. [Proofs](#6-proofs)
7. [Disagreements between code and documentation](#7-disagreements-between-code-and-documentation)
8. [Not modelled](#8-not-modelled)
9. [Plan](#9-plan)

## 1. Inventory

One main thread runs an event loop (`util/Timer.cpp`, asio): overlay reads,
timers, subprocess exits and HTTP commands are handlers that run to completion,
one after the other. Worker threads only merge buckets, verify hashes and write
history blocks; they hand their result back as a handler. Most of the
concurrency is therefore *asynchrony*: what a handler read may be stale when
its callback runs.

| Component | State | Operations | Talks to |
|---|---|---|---|
| **SCP slot** `scp/Slot.cpp` | current ballot, statements per node, ballot and type, committed/externalized flags, rerun mark | `processEnvelope`, `prepareValue`, `advanceSlot` and its `attempt*` steps | Herder (validation callbacks, quorum sets, emission, externalize) |
| **Quorum counting** `scp/Node.cpp`, `scp/SCP.cpp` | quorum set and its cache per node | `hasQuorum`, `isVBlocking`, `isQuorumTransitive`, `purgeNode` | slot |
| **Herder** `herder/HerderImpl.cpp` | tracked consensus, pending envelopes, received transactions by age, trigger and stuck timers | `recvSCPEnvelope`, `triggerNextLedger`, `valueExternalized`, `validateValue/Ballot`, `rebroadcast` | SCP, overlay, LedgerManager |
| **Transaction sets** `herder/TxSetFrame.cpp` | transactions, base hash | `sortForApply`, `trimInvalid`, `surgePricingFilter`, `checkValid` | Herder, ledger close |
| **Item fetcher** `overlay/ItemFetcher.cpp` | trackers (weak), cache, peers asked | `fetch`, `recv`, `doesntHave`, `tryNextPeer` | overlay, Herder |
| **Overlay** `overlay/` | peers and their handshake state, flood records, peer table with backoff | connect, HELLO, flood, drop, `tick` | Herder, item fetcher |
| **Ledger manager** `ledger/LedgerManagerImpl.cpp` | LCL, current header, sync state, buffered closes | `externalizeValue`, `closeLedger`, `startCatchUp`, `historyCaughtup`, `loadLastKnownLedger` | Herder, history, buckets, SQL |
| **Ledger entries, deltas** `ledger/*Frame.cpp`, `ledger/LedgerDelta.cpp` | new, changed and deleted entries per nesting level | add/mod/delete, `commit`, `rollback` | transactions, SQL |
| **Transactions** `transactions/` | accounts, trust lines, offers | one frame per operation, fees, sequence numbers, offer exchange | deltas |
| **Bucket list** `bucket/BucketList.cpp`, `Bucket.cpp`, `BucketManagerImpl.cpp` | levels of curr/snap buckets, files by hash | `addBatch`, `merge`, `forgetUnreferencedBuckets`, `assumeState` | ledger close, history |
| **Future buckets** `bucket/FutureBucket.cpp` | merge inputs or output, live or as hashes | `startMerge`, `resolve`, `makeLive` | worker threads |
| **History manager** `history/HistoryManagerImpl.cpp` | publish and catchup machines, manual flag | checkpoint arithmetic, compress/put/get/verify, `publishHistory`, `catchupHistory` | ledger manager, processes |
| **Publication** `history/PublishStateMachine.cpp` | queue of snapshots, one publisher per archive, state per file | `queueSnapshot`, `snapshotWritten`, per-publisher phases | processes, archives |
| **Catchup** `history/CatchupStateMachine.cpp` | phase, retry count, archive, state per file | BEGIN, ANCHORED, FETCHING, RETRYING, VERIFYING, APPLYING, END | archives, ledger manager |
| **Process manager** `process/ProcessManagerImpl.cpp` | table of children shared by all applications | `runProcess`, SIGCHLD handler | history |
| **Persistent state, database, application, commands, crypto, simulation** | rows, wiring | | |

What makes each of them hard, and what makes it correct:

* **SCP slot.** Envelopes arrive in any order, repeatedly or never; some
  senders lie; validations complete later than they were asked for;
  `advanceSlot` re-enters itself through the statements it emits, and gives up
  half way when a quorum set is missing. Correct: nodes never externalize
  different values; a COMMITTED ballot is final; PREPARING statements except
  what the node is COMMITTING; asserts hold; a handler ends, and leaves no
  conclusion undrawn; with delivered messages, the slot externalizes.
* **Quorum counting.** A fixpoint loop over sets of nodes. Correct: it counts
  the largest quorum inside the set it is given.
* **Publication.** Dozens of subprocesses per checkpoint end in any order, some
  badly; retries start while others still run; publishers share files. Correct:
  an archive holds whatever it announces, announcements do not go backwards,
  each queued checkpoint gets its turn.
* **Catchup.** The same against archives that are incomplete or wrong. Correct:
  only what consensus vouched for is applied, but for a header that MINIMAL does not
  hash (section 7), and it ends.
* **Ledger manager.** Closes are missed, late or out of order; the process may
  die between two database transactions. Correct: buffer and history overlap,
  no ledger is skipped or closed twice, the LCL moves back only by a minimal catchup
  that the operator or a late close started, database and LCL agree, a node that lost sync regains it.
* **Herder.** SCP, the transaction set fetcher and the LedgerManager call back
  into it, partly while it is calling them; envelopes wait in a queue that only
  some events look at; timers drop what it follows. Correct: every externalized
  slot reaches the LedgerManager, no decided slot stays in the queue, no handler
  runs into a slot it does not expect.
* **Buckets.** Merges run on worker threads for any time, are saved half done
  and taken up after a restart; files are removed by reference counts. Correct:
  the list stands for the ledger's entries, its hash is a function of the batches
  alone, and every file that will be read is there.
* **Closing a ledger.** Each change is made in SQL and in nested deltas, undone
  in each by different means, and judged on state that the same set has changed.
  Correct: the two records agree, coins are conserved, nothing is replayed, what
  is proposed is valid, no assert is met.
* **Credit and offers.** Amounts are computed from limits before the book is
  crossed and applied after; the book is read in pages while it shrinks; quotients
  are rounded. Correct: the best offers are crossed first, each once, everyone
  gets their price, no line exceeds its limit, credit is conserved.
* **Overlay and item fetcher.** Calls cross, sockets close under handlers already
  queued, answers come late. Correct: the list of peers is that of the open
  sockets and within its limit, a message is sent once per connection, nodes end
  up connected, a set that somebody has is fetched.
* **Processes.** One table of children for all applications. Not modelled.

## 2. Modules and the code they model

| Module | Models | Used by |
|---|---|---|
| `SCPQuorum` | quorum sets and `Node::hasQuorum`, `isVBlocking`, and what `isQuorumTransitive` computes (declaratively) | `SCPSlot`, `QuorumTransitive` |
| `QuorumTransitive` | the filter loop of `Node::isQuorumTransitive`, pass by pass | `MCQuorumTransitive`, `SCPSlotProofs` |
| `SCPSlot` | one slot at every correct node, `Slot.cpp` whole | `MCSCPSlot`, `SCPSlotProofs` |
| `Consensus` | abstract: one slot; each node reports at most one value, all the same, one that was put forward | `SCPSlot` (refinement) |
| `HistoryPublish` | `PublishStateMachine`, `ArchivePublisher`, `HistoryArchive::putState` | `MCHistoryPublish`, `PublishProofs` |
| `Catchup` | `CatchupStateMachine` in its three modes | `MCCatchup`, `BucketsCatchupProofs` |
| `LedgerSync` | `externalizeValue`, `startCatchUp`, `historyCaughtup`, persistence and start-up; catchup as one step | `MCLedgerSync`, `LedgerSyncProofs` |
| `Herder` | `HerderImpl` and `PendingEnvelopes` of one node, with the transaction set fetches | `MCHerder` |
| `LedgerClose` | `closeLedger`, `TransactionFrame`, native payments, trust lines and merges, `LedgerDelta`, validity of `TxSetFrame` | `MCLedgerClose`, `LedgerCloseProofs` |
| `OrderBook` | `OfferExchange`, `CreateOfferOpFrame`, `PaymentOpFrame` with credit and a path, `ChangeTrustOpFrame`, `AllowTrustOpFrame`, balances of `TrustFrame`, order of `OfferFrame` | `MCOrderBook`, `OrderBookProofs` |
| `Buckets` | `BucketList`, `Bucket`, `FutureBucket`, `BucketManagerImpl` and what starts and stops them | `MCBuckets`, `BucketsCatchupProofs` |
| `DurableState` | abstract: a state, batches that become durable as a whole or are lost as a whole | `Buckets` (refinement) |
| `Overlay` | two nodes: `OverlayManagerImpl`, `PeerDoor`, `TCPPeer`, `Peer`, `Floodgate`, `PeerRecord`, the tracker of `ItemFetcher` | `MCOverlay`, `OverlayProofs` |
| `SCPSlotProofs`, `PublishProofs`, `LedgerSyncProofs`, `LedgerCloseProofs`, `BucketsCatchupProofs`, `OrderBookProofs`, `OverlayProofs` | theorems about the components (section 6) | |
| `NumberProofs` | induction over numbers and finite sets, sums over finite sets | the proofs |

`SCPSlot` uses the declarative `isQuorumTransitive`; `QuorumTransitive` shows
that the loop computes it. `LedgerSync` replaces the Herder by what it delivers
(one chain of ledgers, which `SlotAgreement` justifies) and the catchup machine
by its outcome (which `Catchup` checks). `Herder` in turn has a slot that
externalizes once (`SCPSlot`) and a LedgerManager that is in sync or catching up
(`LedgerSync`). `LedgerClose` ends where the batch goes to the bucket list,
`Buckets` begins there. `OrderBook` takes the outcome of an operation as it is
committed or rolled back in `LedgerClose`, and looks at credit instead of coins.
Every definition that stands for code
is listed in `PROJECT.json` with its lines. Operators marked *Deviation* are
plausible wrong versions of the operator that follows them; substituting one
makes a property fail, which shows that the property depends on that code.

### SCPSlot

Variables carry the names of the members of `Slot`, indexed by node.
`pc[n]` is the place in the body of `advanceSlot`; `cursor[n]` is the ballot the
loop over statements is at; `qsets`, `fetching` the cached and requested quorum
sets; `validating` the envelopes whose validation was deferred; `sent` what was
broadcast (loss, duplication and reordering are receipts that never happen or
happen in any order); `decided` what `valueExternalized` reported.

* `receiveEnvelope`, `prepareValue`, `ValueValidated`, `BallotValidated`,
  `quorumSetRetrieved` and `purgeNode` are the handlers; each but the last ends in
  `advanceSlot`, whose steps (`attemptPreparing` ... `attemptExternalize`, the
  loop, the rerun) are taken one per step until the node is `idle` again.
* Statements a node emits go through `processEnvelope` first, as in the code,
  with the nested `advanceSlot` reduced to its mark.
* Deferred validations are over-approximated: each envelope separately, in any
  order. One that fails late is one that never completes, as in the code.
* A quorum set that is not cached throws `QuorumSetNotFound`: the pass is
  abandoned, the set requested.
* Handlers of different nodes commute (they share only `sent`, which grows), so
  a node's handler runs to its end before another starts.
* Left out: signatures, slot index and hashes (ideal), the empty map entries
  that `operator[]` creates (not observable), nested quorum sets (the code has
  none), the LRU limit of the node cache. The local quorum set is fixed:
  `updateLocalQuorumSet` has no caller. A value that the Herder suppresses is a
  lost message. Ballot counters wrap at `MaxCounter` as they do at 2^32 - 1.

### HistoryPublish

`pending` is `mPendingSnaps`, `stage` what its front waits for; `pub[a]` the
publisher of archive `a`; `fileState` the `FilePublishInfo` objects (the
snapshot's own files are *shared* between publishers, `InfoOf`); `tasks` the
outstanding gzip, mkdir and put commands; `raw`, `gz` the local and `remote`,
`snapStates`, `wellKnown` the archives' files. Buckets and blocks are names.
A failed `put` has no effect at the archive; `gzip` writes without truncating,
which matters only to contents. A restart forgets the queue, as the code does.

### Catchup

`mState` keeps the phases in which the machine waits for something (ANCHORED,
VERIFYING and APPLYING run through in one handler). `resume` is what the lambda
of the retry timer captured; `mFileInfos` and `tasks` are as above; `content`
says what a file holds: the right thing, something unreadable, and for headers also
a chain of its own (`other`) or the right claimed hash and number over wrong contents
(`forged`), which COMPLETE finds out by hashing and MINIMAL does not; `consensus`
whether the LedgerManager has heard a ledger that vouches for the target. Archives
may lack the checkpoint or serve wrong files; their state file is assumed honest. `mMode` is the constructor's
argument.

### LedgerSync

`net` is the network's last ledger; `lcl`, `mState`, `mSyncingLedgers`,
`mManualCatchup` are members; `catchup` is `mCatchup` with its target; `stored`,
`dbLcl`, `dbLedger` are what SQL has: header rows, the persistent LCL, and the
ledger whose entries are in the tables; `published` the checkpoints handed to
history. A catchup is a step that may be taken any time after its target can be
verified, in two parts (apply, report) between which the process can die.
`lastBuffered`, read after `clear()`, keeps its value. A replay that is cut
short by a crash is a crash after a shorter replay. A writable archive is
assumed. A manual catchup may name any ledger (`ChainReaches` says which of
those the history files connect to the LCL). Several properties hold until a
late transaction set or an operator's command interferes (`Undisturbed`);
section 7 lists what happens then.

### Herder

`h` is the node, one record with the members of `HerderImpl`, the queue, the
fetcher's cache and trackers, what SCP stored and decided, and the LedgerManager.
The handlers call each other, through SCP and the fetcher's synchronous
callbacks, so each is a function from the node's state to the one it leaves, and
an action applies one to the whole: `recvSCPEnvelope` (an envelope of another
node), `recvTxSet`, `triggerNextLedger`, `herderOutOfSync` (the stuck timer),
`caughtUp`. `fault` records where the code would throw, fetch a set twice or call
itself without end. A slot has one value, as `SlotAgreement` shows, and one set.
Not in it: transaction generations, close times, signature checks.

### LedgerClose

`sql` is the tables of accounts and trust lines, `list` the entries of the bucket list; `ledgerDelta`,
`delta`, `thisTxDelta` the three nested deltas, each a function from keys to
what `mNew`, `mMod` or `mDelete` has; `savepoint` the table when the transaction's
SQL transaction began; `mSigningAccount` the copy of the source account a
transaction works on. One action per transaction start (accepted, or rejected
with or without its fee), per operation and per end. The operations are native
payments, which may create an account, trust lines to one currency nobody holds
any of, which change an account's count of sub-entries and so its reserve, and
merges, which throw (section 7), each with a source of its own. Sequence numbers
of ledgers are 4 apart rather than 2^32. `ghost` holds what the properties
compare with.

### OrderBook

`db` is the tables (`lines`, `offers`, the accounts' `numSubEntries`, the header's
`idPool`) and three tallies of the properties: what issuers issued, what sellers
got without giving (`unpaid`), how far `numSubEntries` is off (`miscounted`).
`saved` is what a rollback restores, `call` the operation in progress with the
arguments and locals of `convertWithOffers`. Operations of one step (`newLine`,
`changeLine`, `allowTrust`) are one action; an offer and a payment take one per page
loaded, per offer met and for their end, so that every stop of the loop is a
state. The amounts are those of the code, with `bigDivide` and its limits; sheep
are what the buyer sells and wheat what it gets, as in the code. An operation
that fails before it changes anything is no step. Native offers cannot be stored
(section 7); fees and native balances are left to `LedgerClose`.

### Buckets

A bucket is its contents and, since files are named by hash, its file. `pc` is
how far a close is: between `addBatch`, the SQL commit and the garbage
collection a process can die; a stop in order runs the destructors. `mLevels` has
futures as inputs or output, live or as hashes; `WorkerMerges` takes place any
time before the merge is needed; `Repair` fetches missing files at a start. `shared`, `retained` and `files` are the manager's map, the
buckets marked `mRetain` and the directory. `EntriesStore` and `ListStore` are
`DurableState` under two views of the list: the map of entries it stands for, and
the list itself with all merges done.

### Overlay

A connection has two ends, a Peer object each; `e[c][n]` is the one at node `n`:
its state, whether the socket is open, whether `drop`'s shutdown is queued, and
the messages sent to it but not read. `record` is the peer table's row for the
other node, by what `nextAttempt` says; `told` the flood record; `tracker` the
fetcher's. A connection whose ends are both gone is reused. Each handler of
`Peer::recvMessage` is an action; so are the timers, the connect callbacks and the
queued shutdown. What a closing socket had not delivered may be lost. Byte
framing, the quorum set messages (like the transaction set's), forced broadcasts
and the purging of flood records are left out.

## 3. Runs

Passing runs (distinct states in parentheses). A property with several parts is
a conjunction of named invariants, given after the colon:

| Run | Instance | Shows |
|---|---|---|
| `scp_rounds` (921 408) | two correct nodes with different proposals, one forced bump, a third that equivocates, all trusted by all | `Agreement`; `AdvanceSlotSound`: no assert of `bumpToBallot` fails but for a late verdict (`OnlyLateVerdictsAbort`), `advanceSlot` leaves nothing undone (`Settled`); `ExceptedPromise`; `TypeOK`; the refinement `ImplementsConsensus` |
| `scp_async` (1 258 652) | one node, a peer that changes its ballot and whose quorum set is fetched, validations late or refused | `CommitLock`; `AdvanceSlotSound` |
| `scp_live` (3 436) | two nodes, same proposal, all quorum sets fetched, one purged at will | `SlotFinishes`: `Externalizes`, `HandlerEnds` |
| `quorum_loop` (211) | six nodes on a trust chain that unravels one per pass, every starting set | `AnswerIsTransitive` |
| `herder` (96 729) | one node, two others that decide three slots; envelopes and sets in any order, the trigger, the stuck timer, catchup | `Orderly`: `TypeOK`, `PositionIsNext`, `NoFault`; `NothingStuck`: `NothingForgotten`, `NotLeftBehind`; `TrackingBackIsLate`; `HearsLast` |
| `ledger_close` (69 248) | four closes of up to three of 14 transactions on three accounts | `NothingThrows`: `TypeOK`, `NoAbort`, `AboveReserve`; `SqlMatchesDeltas`; `Conservation`; `NoReplay`; `SetsStayValid`: `NothingRefused`, `ProposalsAreValid` |
| `order_book` (667 083) | a gateway, two sellers, a buyer; up to six of 21 operations: offers, payments with a path, lines, authorization; prices that tie in the rounded column | `BooksInOrder`: `TypeOK`, `SettlementHolds`, `SubEntriesCounted`; `CreditConserved`; `BookInOrder`: `BestFirst`, `BookSwept`, `CrossedOnce`, `BuyersPrice`; `SellersPrice` |
| `buckets` (531 383) | three levels, two keys, 25 ledgers of which two change entries, two crashes or stops | `FilesAreThere`: `TypeOK`, `ListHasFiles`, `OnlyOutputsLost`; the refinements `ImplementsEntries`, `ImplementsList` |
| `overlay` (280 549) | two nodes, two connections at a time, one of the nodes with a lower limit, one fault | `PeersInOrder`: `TypeOK`, `OpenIsListed`, `AcceptBound`; `FloodsOnce`: `SentOnce`, `CleanHandshake`; `ConnectsAndFetches`: `StayConnected`, `FetchCompletes` |
| `publish_one` (145 545) | one archive, two checkpoints sharing a bucket, two faults, a restart | `AnnouncedIsHeld`: `CommittedBuckets`, `CommittedBlocks`; `FilesInOrder`: `TypeOK`, `OneOpPerFile`; `WellKnownMonotone`; `EnqueuedStarts` |
| `catchup_modes` (37 612) | three modes; a lacking, a corrupt, an honest archive; two faults; database errors | `FilesInOrder`: `TypeOK`, `InProgressHasCallback`, `EndIsQuiet`; `EndIsSound`; `RepairEnds` |
| `sync_gaps` (733 625) | both modes, two missed closes, a late transaction set, a manual catchup, a crash | `Orderly`: `TypeOK`, `SyncedIsQuiet`, `NoAbort`; `CatchupKnitsOn`: `NeverOvershoots`, `CompleteHoldsLcl`; `PublishedIsWhole`: `HistoryIsComplete`, `BlocksAreWhole`; `LclMonotone`; `HearingRoundEnds` |

[Section 7](#7-disagreements-between-code-and-documentation) lists the
configurations in which TLC refutes what a comment or a document says.

`CHECK_DEADLOCK FALSE` is used throughout because each of these systems really
stops: a slot that externalized, an empty queue, a finished catchup, the last
modelled ledger.

## 4. Bounds

* **SCP.** Two values and counters up to 2: enough for a ballot to be outbid by
  value, by counter, and for the counter to wrap. Three correct nodes with
  2-of-3 quorum sets are beyond TLC (more than 47 million states); agreement
  for any number of nodes is proved instead. The faulty node's envelopes are
  the ones that support two conflicting ballots, and its word alone is
  v-blocking.
* **Publish.** Two checkpoints are the least with a previous state to compare
  to; the shared bucket exercises `differingBuckets`; `RetryLimit = 0` makes the
  retries run out with two faults. One block file stands for three (they are
  treated alike).
* **Catchup.** `RetryLimit = 1` so that the counter is exceeded; two buckets, of
  which one can be corrupt, and one the node turns out to have; one file of
  headers and one of transactions.
* **LedgerSync.** A checkpoint every 3 ledgers rather than 64 gives blocks with
  a first, a middle and a last ledger; 9 ledgers hold two checkpoints and part of
  a third, so a gap can be before, at and after a boundary and again during
  catchup.
* **Herder.** Three slots: one followed, one late, one ahead. `Bracket` and
  `Remember` are 1, so that slots are out of the bracket and purged.
* **LedgerClose.** Four ledgers let an account be made, get a line, lose it and try
  an old transaction. Balances are small enough for a fee, or the reserve of a
  line, to fail after a payment of the same set. 14 transactions cover every result
  code of the three operations that depends on state.
* **OrderBook.** Six operations fill a book of three offers beyond a page
  (`PageSize = 2` rather than 5), change what the lines allow and cross it.
  `PriceDivisor = 1` (10^7 in the code) makes prices with the same whole part tie,
  as those with the same seven decimals do in the code; `MaxInt = 40` stands for INT64_MAX, and is what an issuer's line holds.
* **Buckets.** Three levels are the least for which a merge has shadows; 25
  ledgers the least for the last level to commit one. One value and its tombstone
  tell versions apart, two changes suffice for an old one to surface.
* **Overlay.** Two connections allow calls that cross and a new call while the
  old one is closing. One node refuses a second peer, the other has room: if both
  refuse, calls that keep crossing can be refused for ever (see section 7).
  `MaxFaults` bounds timeouts, failed connects and questions before HELLO.

Every bound is a constant (`MaxCounter`, `MaxSnaps`, `MaxFaults`, `MaxRestarts`,
`MaxNet`, `MaxGaps`, `MaxLate`, `MaxManual`, `MaxCrashes`, `MaxSlot`, `LastLedger`,
`MaxTxs`, `MaxOps`, `MaxInt`, `MaxLedger`, `MaxChanges`, `MaxDowns`, `MaxConns`, `MaxWire`).

## 5. Fairness

* A handler that has started is run on (`WF` of `advanceSlot`, of the loop): it is
  straight-line code on the main thread.
* `LiveSpec` of SCPSlot: what was sent arrives (TCP links, and the Herder repeats
  its last message every two seconds), quorum sets are retrieved, the trigger
  timer proposes. Purging and refusing are not required to stop.
* Publish and Catchup: subprocesses end and timers fire (`WF` of the handlers).
  Whether they succeed is not assumed.
* Catchup's `FairDrawSpec`: the archive is drawn uniformly at random
  (`selectRandomReadableHistoryArchive`), so an honest one is not passed over for
  ever (`SF` of the draw).
* LedgerSync: consensus goes on and the node hears of it again and again, a
  catchup that can end does, a dead process is started again. Missed closes,
  crashes and commands are never required.
* Herder: the network goes on, envelopes and transaction sets arrive (the other
  nodes repeat their last message; the fetcher asks until it is answered), the
  trigger and the stuck timer expire, a catchup ends.
* Overlay: queued handlers run, the timers of the peer table and of the fetcher
  expire, TCP connects and delivers on open sockets, the other node gets the set.
  Timeouts, failed connects and questions before HELLO are never required.
* LedgerClose, OrderBook and Buckets have no liveness properties: a close runs to
  its end in one handler. That the loop over the offers ends is `CrossedOnce`, an
  invariant.

## 6. Proofs

`tlapm <module>.tla` checks a module of proofs. All hold for every value of the
constants that the assumptions admit: numbers of nodes, levels, archives,
accounts, ledgers, faults and crashes included.

| Theorem | Statement | Module |
|---|---|---|
| `TypeCorrect` | `Spec => []TypeOK` | `SCPSlotProofs` |
| `CommitIsFinal` | `Spec => []CommitLock` | |
| `SlotAgreement` | `Spec => []Agreement` | |
| `PromiseIsKept` | `Spec => []ExceptedPromise` | |
| `SlotIsConsensus` | `Spec => ImplementsConsensus` | |
| `AdvanceSlotSettles` | with majority thresholds, `Spec => []Settled` | |
| `OnlyLateVerdicts` | `Spec /\ []CountersLeft => []OnlyLateVerdictsAbort` | |
| `AdvanceSlotIsSound` | with majority thresholds, `Spec /\ []CountersLeft => []AdvanceSlotSound` | |
| `LoopComputesTransitiveQuorum` | `LoopSpec => []AnswerIsTransitive` | |
| `PublishFilesInOrder` | `Spec => []FilesInOrder` | `PublishProofs` |
| `AnnouncedBucketsAreHeld` | `Spec => []CommittedBuckets` | |
| `OneArchiveHoldsAll` | with one archive, `Spec => []AnnouncedIsHeld` | |
| `AnnouncementsGoForward` | `Spec => WellKnownMonotone` | |
| `SyncIsOrderly` | `Spec => []Orderly` | `LedgerSyncProofs` |
| `CatchupKnits` | `Spec => []CatchupKnitsOn` | |
| `PublishedBlocksAreWhole` | `Spec => []PublishedIsWhole` | |
| `LclNeverGoesBack` | `Spec => LclMonotone` | |
| `CloseThrowsNothing` | `Spec => []NothingThrows` | `LedgerCloseProofs` |
| `TablesMatchDeltas` | `Spec => []SqlMatchesDeltas` | |
| `NothingIsReplayed` | `Spec => []NoReplay` | |
| `MoneyIsConserved` | `Spec => []Conservation` | |
| `ValidSetsApply` | `Spec => []SetsStayValid` | |
| `FilesStay` | `Spec => []FilesAreThere` | `BucketsCatchupProofs` |
| `ListRefines` | `Spec => ImplementsList` | |
| `EntriesRefine` | `Spec => ImplementsEntries` | |
| `CatchupFilesInOrder` | `CatchupSpec => []FilesInOrder` | |
| `CatchupEndIsSound` | `CatchupSpec => []EndIsSound` | |
| `BooksStayInOrder` | `Spec => []BooksInOrder` | `OrderBookProofs` |
| `CreditIsConserved` | `Spec => []CreditConserved` | |
| `BestOffersFirst` | `Spec => [](BestFirst /\ CrossedOnce /\ BuyersPrice)` | |
| `BookIsSwept` | `Spec => []BookInOrder` | |
| `SellersGetTheirPrice` | `Spec => SellersPrice` | |
| `ListNamesOpenPeers` | `Spec => []PeersInOrder` | `OverlayProofs` |
| `FloodsOncePerPeer` | `Spec => []FloodsOnce` | |

Assumptions. They stand, named, in the modules that declare the constants, and
TLC evaluates them in every run. Worth knowing: for agreement, that any two sets that
`isQuorumTransitive` accepts share a correct node, the usual hypothesis of federated
agreement; quorum sets are sets of nodes with thresholds, orders on values are total,
faulty nodes do not sign as correct ones. Names of files of different kinds differ
(publication, catchup). There are finitely many accounts, a fee is positive, and the
genesis accounts hold their reserve. The genesis batch has at least one entry, all
of them live, and the list at least two levels. Operations are as `doCheckValid` leaves
them, lines start within their limits and pages have room for an offer. There are two
nodes in the overlay, and each admits at least one caller.

Two hypotheses are a theorem's own. `AdvanceSlotSettles` and `AdvanceSlotIsSound` suppose
that each correct node asks for a majority of its validators (`MajorityThresholds`): below
that a quorum of PREPARED need not be a blocking set, the node may skip its own PREPARED,
and its COMMITTING statement is then not acceptable to itself. `OnlyLateVerdicts` and
`AdvanceSlotIsSound` suppose of the run that no ballot counter is at `UINT32_MAX`
(`CountersLeft`): there `mBallot.counter + 1` wraps and the asserted order fails (TLC finds
this with `MaxCounter = 0`). `HerderImpl::validateBallot` refuses PREPARING counters that are
ahead of their time for that reason: "This prevents ballot counter exhaustion attacks"
(`herder/HerderImpl.cpp:391`). Validations may be deferred or refused, and quorum sets
purged, in all three.

What they do not say. `OnlyLateVerdictsAbort` leaves one assert that fails, that of a
ballot whose verdict comes after the slot committed (section 7). `Settled` excuses a
PREPARING statement of ours that was refused or awaits its verdict, and says nothing of a
node that lacks the quorum set of somebody it heard. `LclMonotone` leaves a minimal catchup
that the operator asked for or that a late close started, and `EndIsSound` a header that
MINIMAL takes without hashing. `BookSwept` leaves an offer behind an older, dearer one
of the same price column: prices are 32-bit fractions and the column has seven decimals,
so close prices tie, are ordered by age, and the loop can stop at the dearer one.

**SCP slot: types.** `TypeOK` is not inductive: a node emits statements for `mBallot`, which
is empty at first. `TypeInv` adds when it is set: before any step that emits
(`BallotIsSet`), when the loop's cursor is used (`CursorIsSet`), and in every
committed slot (`CommittedHasBallot`). One lemma per step of the body.

**SCP slot: agreement and promises.** `SafetyInv` adds to `TypeInv`: `CommitLock` (all
COMMITTED envelopes of a correct node, sent, stored or awaiting validation, name the
ballot the node is at, and the slot is marked); `HeldWasSent` (a slot holds no
envelope in the name of a correct node that this node did not send);
`DecidedBacked` (a reported value is COMMITTED, in the slot's own statements, by a
quorum); `PromiseInv` (what a node said about ballots is not above the ballot it is
at, its own COMMITTING statements stay in its slot, only others' envelopes are
deferred, and PREPARING excepts what is COMMITTING). Each action is shown to be a
`SlotStep`, a short description of what any step may do (others' slots untouched, a
committed slot keeps its ballot, new envelopes are genuine and locked, statements are
replaced by statements with the same key, a new decision is confirmed by a quorum),
and a `SlotStep` keeps `SafetyInv` (`SlotStepSafe`). Two decisions are backed by two
quorums, which meet in a correct node, which COMMITTED one value only. The order of
assignments in `attemptCommitted` (mark first, then emit) is what makes `CommitLock`
inductive.

**SCP slot: consensus.** `SlotIsConsensus` maps `decided` of the correct nodes to the
abstract variable. Besides `SafetyInv` it needs `CandidateInv`: values are only handed
on, so that every value in a ballot, sent, stored, deferred or decided, was proposed to a
correct node or is in an envelope of a faulty one. A step changes `decided` of one node,
from nothing, to a value that no other decision contradicts; all others stutter.

**SCP slot: nothing left undone.** `RestInv` says where a handler may stand. Past the start of
the body there is a mark (`mRunAdvanceSlot`), or our PREPARING statement has just been
held back (`Skipped`), or the slot has just reported its value (`Reported`): whatever a step
changes leaves one of these behind, so the body is run again. At rest a quorum set is
missing, or nothing is due from the start of the body but a PREPARING statement that is held
back. A refusal only ever stops PREPARING: what persuades a node is said by somebody
(`PersuadedBySome`), so the other steps speak of a value in a statement the slot holds, and
what it holds was found valid (`PreparedIsValidated`). The one statement of our own that could be dropped without a trace is
COMMITTING. It is acceptable, because a quorum that PREPARED is also a blocking set, so
that our own PREPARED came first, and no PREPARING statement of ours is above the ballot we
are at (`OwnSent`, `VowsBelow`).

**SCP slot: which assert fails.** `AbortInv`: what a slot holds of its own it has broadcast
(`OwnSent`), a slot that aborted had committed and defers ballots, an externalized slot is
committed, a pristine one has no ballot, and the loop's cursor is set in the loop only.
With `VowsBelow` a slot that has not committed may move to any ballot not below its own (`BumpFree`), which is what
`ballot_cb`, `prepareValue` and the loop do. The hard place is the loop after it has committed
to a value on the word of a quorum: it goes on to ask whether the ballot it is at is prepared,
and would bump the committed slot if that is above the committed ballot. It never is, because
the loop goes through the ballots in the order of the map: what it has passed by no quorum
COMMITTED (`Passed`), so it stops at the first ballot with the value, which is not above the
COMMITTED ones, and those are not above the one it commits to (`FirstIsBelow`). No hypothesis
on faulty nodes is needed.

**The quorum loop.** `LoopInv`: the nodes left always contain the largest quorum
of the starting set and are contained in it, and when the loop is done they are a
quorum. It rests on `hasQuorum` being monotone and on the union of quorums being a
quorum. (That the loop ends is plain: each pass but the last drops a node.)

**Publication.** `QueueInv`: the queue is in order, and no archive announces more than
its front. `TaskInv`: each subprocess of the current publication finds its file in the
state that belongs to it, and no two share one; those of publishers that gave up are
older. `HeldInv`: a bucket marked uploaded is in this archive, a ledger file in *some*
archive, since publishers share the file states; a publisher commits when everything
it needs is marked. Buckets are therefore held by every archive that announces them,
ledger files only where there is one archive; `PublishTwo` (section 7) shows the other
case. `BlocksSomewhere` is what remains true of it.

**Catchup.** The files' states and the subprocesses correspond one to one (`Callbacks`),
verified buckets are right (`BucketsGood`), and wherever the machine waits to verify or
has ended, everything wanted was queued and is verified (`WantedQueued`,
`WaitsVerified`), and the header files it ends with are among those that `VerifyStatus`
lets pass in the mode it is in. The lemmas follow the code: what `enterFetchingState` does to the
files, then anchoring, a file's step, the retry timer.

**Synchronisation.** `IInv` separates what holds whatever happens (`BaseInv`, `FlagInv`,
`CatchupInv`: the buffer is contiguous, no variable is ahead of the network) from what
holds of a node left to itself (`QuietInv`: LCL and tables agree and the block in
progress is whole; `AheadInv`: a catchup goes to a checkpoint ahead of the LCL, and
when it is applied the buffer contains the ledger it continues with). Lemmas on
`prevCheckpointLedger` and `nextCheckpointLedger` for every frequency carry it. `RoundInv`, for `LclMonotone`, holds
disturbed or not: a minimal catchup that nobody asked for aims at a ledger beyond the LCL,
or the buffer begins with a close at or before the LCL, one that came late; a round that
starts over aims at the newest buffered ledger, which the replay did not reach.

**Closing a ledger.** `ListInv` and `TxInv`: what a delta has in `mNew`, `mMod` or `mDelete`
fits the entries below it, so merging two deltas never meets the cases `LedgerDelta`
throws for, and the tables are the bucket list with the deltas on top. `SolventInv`:
every account holds its reserve, the copy in `mSigningAccount` included. `SeqInv`:
sequence numbers of consumed transactions stay used through rollbacks. `MoneyInv`:
balances and fee pool add up, with the sums over the accounts handled by `NumberProofs`.
`QueueInv`, for `SetsStayValid`: of what is left to apply, an account's transactions
come in the order of their numbers, all above the account's, and each is the next
number or follows one that comes earlier. A valid set gives that: its numbers are
distinct and without gaps (`ValidSetFacts`), and a lower number is in an earlier batch
of `sortForApply` (`BatchFacts`). So the head fails for want of balance at most, and by
`SolventInv` there is a fee to take. What the loop of `trimInvalid` keeps of an account
is a `Chain` from its number on, whatever the order of equal numbers.

**Buckets.** `FilesInv` says who keeps a file at each point of a close: the list while it
is in use, the list again between the commit and the garbage collection, `mRetain`
afterwards. `ListsInv` says that outside of a close the list in memory is the stored one
but for how far its merges are (`SameList`), and that merges are sound
(`MergesSound`): what a merge will put into a level is, key by key, what the newest of
its sources has, or nothing where a newer bucket of the list has the key. That is
inductive because of the level sizes: a level that spills makes all above it spill
(`SpillAbove`), so sources and target of a merge are untouched until it is taken over,
at a ledger known when it is started (`NextMerge`); and because the newest entry of a
key stays or moves down by one (`NewestMoves`), it stays above the merge it shadowed.
With that each step is a step of `DurableState` or changes nothing of either view
(`Steps`).

**The order book.** `BooksInv`: tables in order (ids unique and below `idPool`, balances
within limits), in progress and as saved for a rollback, `numSubEntries` included.
`MoneyInv`: what the lines of a currency hold beyond what was issued or kept unpaid is
what the call in progress has taken and not yet given (`InFlight`), nothing when idle.
`AmountInv` ties what is still to be exchanged to what was computed at the start,
`SourceInv` says that the lines of an offer's source are still those the amounts were
computed from, so the settlement after the loop cannot fail. `PageInv`: what is left of
the page is the beginning of the book, and the offset is what is left of the page, so
deleting what is crossed and loading at the offset never pass over an offer. Where the
loop stops at an offer that is too dear, those after it have a higher price column, and are
dearer, or the same one, and are hidden behind it (`ColumnMonotone`, `AllDearOrHidden`).
`CrossedInv`: the book loses an offer at each crossing but the last. Prices
follow from lemmas on `bigDivide` (a quotient rounded down, or beyond `MaxInt`), sums from `NumberProofs`.

**The overlay.** A connection is two ends and two sequences of messages, so the invariant
relates the ends (`EndOK`): on the wire to an end that has not read a HELLO, whatever
needs one is behind one, but for a fetcher's early question, and a sender that got HELLO
has sent its own; a connect handler is due at the caller only; what a refused or closed
end was. With that the list of peers is changed exactly when a socket is opened or closed
(`OpenIsListed`). `ToldInv`: what an end has sent or taken of the flooded message is in the
flood record. `NextIInv` goes action by action through what it does to a pair of ends.

Induction over data: the library's induction theorems cannot be instantiated here, so
`NumberProofs` derives induction over numbers (`NaturalsAreGood`) and over finite sets
(`SubsetsAreGood`) for a *set* of good cases, from the existence of least elements.
Level sizes, sums and the loop of `trimInvalid` are recursive functions and are handled so.

Only model-checked: liveness (`SlotFinishes`, `EnqueuedStarts`, `RepairEnds`,
`HearingRoundEnds`, `HearsLast`, `ConnectsAndFetches`) and whatever needs `ENABLED`, which
the prover does not do; and the properties of the Herder, whose handlers call each other
through `RECURSIVE` operators, which the prover does not take.

## 7. Disagreements between code and documentation

In each of these configurations TLC reports the properties listed as violated
(`tlc -workers 1 -continue -config <cfg> <module>`; without `-continue` it stops at
the first).

| Configuration, module | Property | The code, against |
|---|---|---|
| `SCPStaleCommitCheck`, `MCSCPSlot` | `NoAbort` | `ballot_cb` does not look at `mIsCommitted` again (`scp/Slot.cpp:115`): a deferred ballot that comes back after the slot committed fails the assert of `bumpToBallot`; "should be never called once we committed" (`scp/Slot.cpp:234`) |
| `HerderClaims`, `MCHerder` | `FetchesOnlyBehind` | a late transaction set clears `mTxSetFetches` with the tracker of the next slot; the next externalize finds the set in the cache but no tracker and `valueExternalized` calls itself through the fetcher without end; "only occurs if this node has fallen behind" (`herder/HerderImpl.cpp:664`) |
| `HerderClaims`, `MCHerder` | `TrackingForward` | a late transaction set of an old slot makes it the tracked one; "the ledger index that was last externalized" (`herder/HerderImpl.h:149`) |
| `BucketsRestart`, `MCBuckets` | `SurvivesRestart` | a merge output loaded as a hash is not retained: a node stopped before its next close deletes a file its stored state names (`bucket/FutureBucket.cpp:45`); "so we can survive a restart and re-attach to the buckets" (`ledger/LedgerManagerImpl.cpp:679`) |
| `LedgerClaims`, `MCLedgerClose` | `NoSideEffects` | when an earlier transaction of the set has spent the fee of a later one, `prepareResult` has written the reduced balance and the new sequence number to the table before `closeLedger` rolls back the `LedgerDelta` only (`ledger/LedgerManagerImpl.cpp:598`): the table and the bucket list disagree; "transaction failed validation and cannot have side effects" (`LedgerManagerImpl.cpp:604`) |
| | `TotalCoins` | an operation of another account that credits the transaction's source is lost when the cached copy is stored; `xdr/Payshares-ledger.x:23` |
| `OrderBookClaims`, `MCOrderBook` | `OffersHaveLines` | a limit of 0 deletes a line under an open offer (`transactions/ChangeTrustOpFrame.cpp:42`); whoever meets the offer throws "invalid database state: offer must have matching trust line" (`transactions/OfferExchange.cpp:44`) |
| | `SubEntriesExact` | withdrawing an offer does not lower `numSubEntries` (`transactions/CreateOfferOpFrame.cpp:297`), and a line without a reserve is added uncounted (`ChangeTrustOpFrame.cpp:69`); "number of sub-entries this account has" (`xdr/Payshares-ledger-entries.x:42`) |
| | `CreditOnlyIssued` | a seller whose wheat line lost its authorization keeps the sheep: `crossOffer` has stored them when it answers eOfferCantConvert, and the caller commits (`OfferExchange.cpp:192`); `CreditConserved` counts what it keeps |
| `OverlayFlood`, `MCOverlay` | `ToldIsTrue` | the first broadcast marks peers still in their handshake as told and never sends to them; "we either send M to P once (and only once), or receive M _from_ P" (`overlay/Floodgate.h:12`) |
| `PublishTwo`, `MCHistoryPublish` | `EnqueuedStarts` | the publishers of two archives share the state of the snapshot's files: one waits for a callback only the other gets (`history/PublishStateMachine.cpp:267`); "every enqueued checkpoint should eventually start" (`history/HistoryManager.h:343`) |
| `SyncGapStuck`, `MCLedgerSync` | `RoundEnds` | after a close missed during catchup nothing more is buffered and the target is never verified (`ledger/LedgerManagerImpl.cpp:360`); "this round of catchup will fail." (`LedgerManagerImpl.cpp:366`) |
| `SCPRatifyDoc`, `MCSCPSlot` | `PreparedIsRatified` | `ratifyFilter` compares excepted values with `mBallot`, not with the ballot being prepared; `scp/Slot.cpp:467`. Needs a forced bump, which no timer issues today |
| `SCPStall`, `MCSCPSlot` | `Externalizes` | the ballot timer is commented out, two nodes outbid by a silent outsider never finish; `herder/HerderImpl.cpp:539` |
| `PublishTwo`, `MCHistoryPublish` | `CommittedBlocks` | of two archives one can announce a checkpoint without its ledger files; `history/HistoryManager.h:298` |
| `PublishFaults`, `MCHistoryPublish` | `SuccessIsReal` | a publication abandoned on its state files counts as a success; `history/HistoryManager.h:357` |
| `PublishFaults`, `MCHistoryPublish` | `NoDanglingCallback` | callbacks hold a bare `this` of a publisher that has given up |
| `CatchupBadHeader`, `MCCatchup` | `Ends` | a wrong header file is never fetched again; `history/HistoryManager.h:216` |
| `CatchupForever`, `MCCatchup` | `StopsRetrying` | the retry limit restarts instead of giving up; `history/CatchupStateMachine.h:26` |
| `CatchupDbError`, `MCCatchup` | `ApplyErrorRetries` | database errors are not retried; `history/CatchupStateMachine.h:58` |
| `CatchupDbError`, `MCCatchup` | `HeaderIsVerified` | MINIMAL compares only the hash and the number that the last header claims (`ledger/LedgerManagerImpl.cpp:399`) and never hashes it (`history/CatchupStateMachine.cpp:742`): a header with the right claims and other contents is installed; "We've verified mLastClosed (in the "trusted part of history" sense)" (`CatchupStateMachine.cpp:689`) |
| `SyncClaims`, `MCLedgerSync` | `InitAhead` | a late transaction set starts a catchup to a passed checkpoint; `history/HistoryManager.h:123` |
| `SyncClaims`, `MCLedgerSync` | `SqlStoreHoldsLcl` | a crash after CATCHUP_MINIMAL applied its buckets leaves entries ahead of the LCL; `ledger/LedgerManager.h:51` |
| `SyncClaims`, `MCLedgerSync` | `BlocksAlwaysWhole` | `mManualCatchup` stays set and every close is published; `history/HistoryManager.h:288` |

Consequences for the passing runs: properties that these break are checked on
instances without their cause, or say so. `CompleteHoldsLcl` and `HearingRoundEnds`
are the parts of `SqlStoreHoldsLcl` and `RoundEnds` that hold, `RepairEnds` that of
`Ends`; in `LedgerSync` most properties hold until a late transaction set or a
manual catchup interferes (`Undisturbed`); `publish_one` has one archive; in
`OrderBook`, `CreditConserved` and `SubEntriesCounted` count what is created and
miscounted; in `LedgerClose`, `SqlMatchesDeltas` leaves out the sources of rejected transactions and
`Conservation` their fees and stale copies; `NoFault` of `Herder` leaves out nodes
that are fetching a late set or lost track; `OnlyOutputsLost` leaves out merge
outputs; `OnlyLateVerdictsAbort` and `EndIsSound` leave out what `SCPStaleCommitCheck` and
`CatchupDbError` show. Where the process would die or run into a destroyed object, the models of
publication and catchup stop (`crashed`): callbacks of an attempt that was given up
hit the asserts at `PublishStateMachine.cpp:188` and `CatchupStateMachine.cpp:174`.

Read off the code while modelling, without a configuration:

* `purgeNode` forgets the local node too, against `scp/SCP.h:182`: `scp_live` purges
  a node at both nodes, itself included.
* `prepareValue` raises the counter for a *lower* value; `scp/Slot.h:34` says the
  opposite.
* A failed gzip removes its input, which may be a live bucket
  (`history/HistoryManagerImpl.cpp:371`).
* A merge whose destination exists throws: its queries select `trustIndex`
  (`transactions/MergeOpFrame.cpp:49`), a column `TrustLines` lacks
  (`ledger/TrustFrame.cpp:19`).
* An offer with the native currency cannot be stored: its INSERT leaves out columns
  that are NOT NULL and puts the issuer where the code goes
  (`ledger/OfferFrame.cpp:331`).
* Updating an offer keeps its old price (`transactions/CreateOfferOpFrame.cpp:287`).
* The book is ordered by the price times 10^7, rounded down: offers whose prices are
  closer are ordered by age (`ledger/OfferFrame.cpp:291`), and a new offer stops at the
  older one although a cheaper one is behind it.
* `checkOfferValid` does not ask whether what is sold is authorized; such an offer
  that is crossed throws "offer sold more than balance".
* `CHANGE_TRUST_LOW_RESERVE` is overwritten by CHANGE_TRUST_SUCCESS
  (`transactions/ChangeTrustOpFrame.cpp:71`).
* `Bucket::apply` (`bucket/Bucket.cpp:270`) applies the last entry again at the end
  of the file.
* A base fee of 0 makes `closeLedger` roll back a delta it has committed, which
  throws: `LedgerClose` assumes a positive fee.
* `trimInvalid` takes `trimmed` by value, so the list of removed transactions of
  `triggerNextLedger` stays empty.
* `isPeerAccepted` counts the new peer itself, and two nodes that are at their limit
  and keep calling each other can refuse each other for ever (`Overlay` with
  `MaxPeers` 2 at both violates `StayConnected`).
* `storePeerList` ignores its rank, so no peer is preferred.
* The fetcher asks peers that have not said HELLO, who drop the connection for it.
* `connectHandler` makes a peer that was dropped meanwhile CONNECTED again; the
  error of the closed socket ends it (`ioError`).
* `PeerRecord::backOff` computes `pow(2, numFailures)` of a number that may come from
  another node.

## 8. Not modelled

* The process manager (signal handler and shared table of children): the history
  modules assume that a subprocess ends once, with success or failure.
* Of the Herder, transaction generations and close times; of transactions,
  options, inflation, signature weights and native offers (section 7); of transaction sets, surge pricing; of the overlay, SCP messages and quorum sets
  (see section 2), more than two nodes, purging of flood records.
* Archive initialisation, configuration, HTTP, logging, metrics, the database
  layer, encodings and signatures: input and output, or wiring. Hashes and
  signatures are ideal.
* Crash recovery of a slot: nothing of a slot is persisted, so a node that
  restarts inside one counts as faulty.
* `COMMITTING` that overtakes its sender's `PREPARED` is dropped for good by the
  code; the safety runs include it, the liveness run assumes ordered links.
* Two different ledgers with one sequence number in LedgerSync (excluded by
  agreement), and repair of missing buckets at start-up (that is `Catchup` in
  REPAIR mode).
* The memory left after a C++ exception: an exception ends the process.
* Details that no property depends on. `Herder`: `startTracking` drops every tracker with
  `mTxSetFetches`, where a local variable keeps the slot's own until it returns
  (`herder/HerderImpl.cpp:591`). `LedgerClose`: an issuer's `ChangeTrust` to its own currency
  with the limit INT64_MAX, which succeeds and changes nothing, is refused with the others
  (`TrustRefused`); a destination's balance does not overflow
  (`transactions/PaymentOpFrame.cpp:96`); transactions with equal sequence numbers, which a
  valid set does not have, are taken in one fixed order (`SeqSorted`). `Overlay`: a message
  that was being read when `drop` ran is not handled, although `readBodyHandler` does not
  look at the state (`overlay/TCPPeer.cpp:296`); a caller that gave up is never accepted,
  although the socket may still be delivered and `remote_endpoint` then throws
  (`TCPPeer.cpp:84`, `PeerDoor.cpp:62`); PEERS carries nothing new between two nodes, where
  it may hold the receiver's own address, which it calls until `recvHello` finds out
  (`Peer.cpp:398`).

## 9. Plan

In the order of what they add to the behaviour already covered:

1. Proofs: `NothingForgotten` and `PositionIsNext` of `Herder`,
   once its handlers do without `RECURSIVE` operators.
2. Abstract specifications: an ordered ledger chain implemented by `LedgerSync`;
   publication of a checkpoint as one step, implemented by `HistoryPublish` with one
   archive.
3. Options and inflation as operations of `LedgerClose`; surge pricing in
   `SetsStayValid`.
4. A third node in `Overlay`, with SCP messages that are sent by force; the process
   manager's table of children.
