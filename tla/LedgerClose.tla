---------------------------- MODULE LedgerClose ----------------------------
(***************************************************************************)
(* Closing a ledger (ledger/LedgerManagerImpl.cpp): the transactions of a  *)
(* valid set (herder/TxSetFrame.cpp) are applied one after the other       *)
(* (transactions/TransactionFrame.cpp, PaymentOpFrame.cpp,                 *)
(* ChangeTrustOpFrame.cpp, MergeOpFrame.cpp).  Every change of an entry is *)
(* made twice: in the SQL tables, under nested SQL transactions, and in    *)
(* nested LedgerDeltas (ledger/LedgerDelta.cpp), the outermost of which    *)
(* becomes the batch of the bucket list.  The two must agree.              *)
(*                                                                         *)
(* Operations are native payments without a path, trust lines to one       *)
(* currency of Issuer, of which nobody holds any here, and account merges. *)
(* A merge whose destination exists throws: both of its queries select     *)
(* trustIndex, a column TrustLines does not have.  Accounts have one key,  *)
(* so a signature check asks whether the account signed.                   *)
(***************************************************************************)
EXTENDS Integers, Sequences, SequencesExt, FiniteSets, FiniteSetsExt

CONSTANTS
    Accounts,
    Issuer,          \* the account whose currency trust lines are for
    Absent,          \* no row, no entry
    Txs,             \* the transactions anyone may submit
    Fee,             \* header.baseFee
    BaseReserve,     \* header.baseReserve
    Genesis,         \* the entries before the first close
    SeqsPerLedger,   \* the code's 2^32: how far apart ledgers' starting
                     \* sequence numbers are
    FirstLedger, LastLedger,  \* bound: the ledgers closed
    MaxTxs           \* bound: transactions in a set, proposed or externalized

Entry == [balance : Nat, seqNum : Nat, numSubEntries : Nat]
LineEntry == [limit : Nat]

\* The key of the trust line of a, and all keys.
Line(a) == <<a>>
Keys == Accounts \cup {Line(a) : a \in Accounts}
EntriesOf(k) == (IF k \in Accounts THEN Entry ELSE LineEntry) \cup {Absent}

Op == [type : {"Payment"}, source : Accounts, destination : Accounts,
       amount : Nat, sendMax : Nat]
      \cup [type : {"ChangeTrust"}, source : Accounts, limit : Nat]
      \cup [type : {"Merge"}, source : Accounts, destination : Accounts]

ASSUME LedgerCloseAssumption ==
    /\ Fee \in Nat \ {0} /\ BaseReserve \in Nat /\ SeqsPerLedger \in Nat
    /\ FirstLedger \in Nat /\ LastLedger \in Nat /\ MaxTxs \in Nat
    /\ IsFiniteSet(Accounts) /\ Issuer \in Accounts
    /\ \A a \in Accounts : Line(a) \notin Accounts
    /\ Absent \notin Entry \cup LineEntry
    /\ DOMAIN Genesis = Keys /\ \A k \in Keys : Genesis[k] \in EntriesOf(k)
    /\ \A tx \in Txs : /\ tx.sourceAccount \in Accounts /\ tx.seqNum \in Nat \ {0}
                       /\ tx.minLedger \in Nat /\ tx.maxLedger \in Nat /\ tx.maxFee \in Nat
                       /\ tx.signers \subseteq Accounts
                       /\ tx.operations \in Seq(Op)

VARIABLES
    pc,          \* open; apply: between transactions; ops: inside one;
                 \* aborted: an assert of LedgerDelta failed
    sql,         \* the Accounts and TrustLines tables as the connection sees them
    list,        \* the live entries of the bucket list
    ledgerSeq, feePool,  \* mCurrentLedger->mHeader
    txs,         \* what is left of the set, in the order of sortForApply
    ledgerDelta, \* closeLedger's ledgerDelta: changes and feePool
    delta,       \* closeLedger's delta, of one transaction: the same
    thisTxDelta, \* TransactionFrame::apply's thisTxDelta: its changes
    savepoint,   \* the tables when sqlTx began
    mSigningAccount,  \* TransactionFrame's copy of the source account
    next,        \* the operation that is next
    errorEncountered,
    ghost        \* what the properties compare with; see Ghost

vars == <<pc, sql, list, ledgerSeq, feePool, txs, ledgerDelta, delta, thisTxDelta, savepoint,
          mSigningAccount, next, errorEncountered, ghost>>

txVars == <<delta, thisTxDelta, savepoint, mSigningAccount, next, errorEncountered>>

Ghost == [
    total    : Nat,           \* all balances of Genesis
    lost     : Nat,           \* fees taken in SQL from rejected transactions
    dirty    : SUBSET Accounts,  \* whose last SQL change no delta has
    stale    : BOOLEAN,       \* mSigningAccount was behind the table
    consumed : SUBSET Txs,    \* transactions that used their sequence number
    refused  : SUBSET Txs]    \* transactions of this close without a fee

-----------------------------------------------------------------------------
(* LedgerDelta.  A key is in at most one of mNew, mMod and mDelete: a      *)
(* delta is, for every key, what it holds about it.                        *)

Nothing == [in |-> "none", entry |-> Absent]
NoChanges == [k \in Keys |-> Nothing]
EmptyDelta(pool) == [changes |-> NoChanges, feePool |-> pool]

\* Deviation: delete + new leaves the deletion.
addEntryAfterDelete(c, e) == IF c.in = "mDelete" THEN c ELSE [in |-> "mNew", entry |-> e]
addEntry(c, e) == [in |-> IF c.in = "mDelete" THEN "mMod" ELSE "mNew", entry |-> e]

\* Deviation: the modification survives the deletion.
deleteEntryKeepsMod(c) ==
    CASE c.in = "mNew" -> Nothing
      [] c.in = "mMod" -> c
      [] OTHER -> [in |-> "mDelete", entry |-> Absent]
deleteEntry(c) == IF c.in = "mNew" THEN Nothing ELSE [in |-> "mDelete", entry |-> Absent]

modEntry(c, e) == [in |-> IF c.in = "mNew" THEN "mNew" ELSE "mMod", entry |-> e]

\* The asserts of the three: what they take for impossible.
AddAllowed(c) == c.in \notin {"mNew", "mMod"}
DeleteAllowed(c) == c.in # "mDelete"
ModAllowed(c) == c.in # "mDelete"

\* commit() into an outer delta: mergeEntries, key by key.
mergeEntries(outer, inner) ==
    [k \in Keys |->
        CASE inner[k].in = "mDelete" -> deleteEntry(outer[k])
          [] inner[k].in = "mNew" -> addEntry(outer[k], inner[k].entry)
          [] inner[k].in = "mMod" -> modEntry(outer[k], inner[k].entry)
          [] OTHER -> outer[k]]
MergeAllowed(outer, inner) ==
    \A k \in Keys :
        CASE inner[k].in = "mDelete" -> DeleteAllowed(outer[k])
          [] inner[k].in = "mNew" -> AddAllowed(outer[k])
          [] inner[k].in = "mMod" -> ModAllowed(outer[k])
          [] OTHER -> TRUE

\* getLiveEntries and getDeadEntries, added to what a bucket list holds.
addBatch(entries, d) ==
    [k \in Keys |-> IF d[k].in = "none" THEN entries[k] ELSE d[k].entry]

-----------------------------------------------------------------------------
(* AccountFrame: the reserve.                                              *)

getMinBalance(ownerCount) == (2 + ownerCount) * BaseReserve
getMinimumBalance(account) == getMinBalance(account.numSubEntries)

\* The ledger the closes start from has every account above its reserve.
ASSUME GenesisAssumption ==
    \A a \in Accounts : Genesis[a] # Absent =>
        Genesis[a].balance >= getMinimumBalance(Genesis[a])

\* Deviation: the reserve is not asked for.
addNumEntriesAnyway(account, count) == [account EXCEPT !.numSubEntries = @ + count]
addNumEntries(account, count) ==
    IF account.balance < getMinBalance(account.numSubEntries + count) THEN account
    ELSE [account EXCEPT !.numSubEntries = @ + count]

-----------------------------------------------------------------------------
(* TransactionFrame: validity.                                             *)

Sources(tx) == {tx.operations[i].source : i \in DOMAIN tx.operations}
getFee(tx) == Fee * Max({1, Len(tx.operations)})

\* checkValid with the account read from `table': the result's code.
\* `current' 0 stands for the account's own sequence number.
ResultCode(tx, table, current) ==
    LET account == table[tx.sourceAccount] IN
    IF tx.operations = <<>> THEN "txMISSING_OPERATION"
    ELSE IF ledgerSeq \notin tx.minLedger .. tx.maxLedger THEN "txBAD_LEDGER"
    ELSE IF tx.maxFee < getFee(tx) THEN "txINSUFFICIENT_FEE"
    ELSE IF account = Absent THEN "txNO_ACCOUNT"
    ELSE IF tx.seqNum # 1 + (IF current = 0 THEN account.seqNum ELSE current) THEN "txBAD_SEQ"
    ELSE IF tx.sourceAccount \notin tx.signers THEN "txBAD_AUTH"
    ELSE IF account.balance - getFee(tx) < getMinimumBalance(account)
         THEN "txINSUFFICIENT_BALANCE"
    ELSE "txSUCCESS"

\* OperationFrame::checkValid, given the source's entry.
OpValid(tx, op, account) ==
    /\ account # Absent
    /\ op.source \in tx.signers
    /\ op.type = "Merge" => op.source # op.destination

\* checkValid when not applying: the operations too, and no signature unused.
checkValid(tx, current) ==
    /\ ResultCode(tx, sql, current) = "txSUCCESS"
    /\ \A i \in DOMAIN tx.operations :
          OpValid(tx, tx.operations[i], sql[tx.operations[i].source])
    /\ tx.signers = {tx.sourceAccount} \cup Sources(tx)

-----------------------------------------------------------------------------
(* TxSetFrame.                                                             *)

Of(set, a) == {tx \in set : tx.sourceAccount = a}

\* SeqSorter leaves open in which order transactions of one number come.
SeqSorted(set) ==
    CHOOSE seq \in SetToSeqs(set) :
        \A i, j \in DOMAIN seq : i < j => seq[i].seqNum <= seq[j].seqNum
TotalFee(set) == MapThenSumSet(getFee, set)
CanPay(set, a) == sql[a].balance - TotalFee(set) >= getMinimumBalance(sql[a])

\* The sequence number that comes before tx's in the set, 0 for none: checkValid
\* of each account's transactions, sorted, with the one before.
SeqBefore(set, tx) ==
    Max({0} \cup {u.seqNum : u \in {v \in Of(set, tx.sourceAccount) \ {tx} :
                                       v.seqNum <= tx.seqNum}})

\* Every transaction of an account follows the one before it, and the account
\* can pay for all of them.
txSetValid(set) ==
    /\ \A tx \in set : checkValid(tx, SeqBefore(set, tx))
    /\ \A a \in {tx.sourceAccount : tx \in set} : CanPay(Of(set, a), a)

\* The transactions of an account trimInvalid's loop keeps: each is checked
\* with the sequence number of the last one kept.
KeepIfValid(kept, tx) ==
    IF checkValid(tx, IF kept = <<>> THEN 0 ELSE Last(kept).seqNum)
    THEN Append(kept, tx) ELSE kept
KeptByLoop(seq) ==
    LET kept[i \in 0 .. Len(seq)] ==
            IF i = 0 THEN <<>> ELSE KeepIfValid(kept[i - 1], seq[i])
    IN  kept[Len(seq)]

\* Deviation: nothing asks whether the account can pay for all it sends.
trimInvalidAnyFee(set) ==
    UNION {ToSet(KeptByLoop(SeqSorted(Of(set, a)))) : a \in Accounts}
trimInvalid(set) ==
    UNION {LET kept == ToSet(KeptByLoop(SeqSorted(Of(set, a)))) IN
           IF kept # {} /\ ~CanPay(kept, a) THEN {} ELSE kept : a \in Accounts}

\* Deviation: one batch, in the order of the hashes.
OneBatch(set, tx) == 0

\* The batch of sortForApply a transaction is in.
BatchOf(set, tx) == Cardinality({u \in Of(set, tx.sourceAccount) : u.seqNum < tx.seqNum})

\* sortForApply: the batches one after the other, each in the order of hashes
\* that nobody can choose.
sortForApply(set) ==
    {seq \in SetToSeqs(set) :
        \A i, j \in DOMAIN seq : i < j => BatchOf(set, seq[i]) <= BatchOf(set, seq[j])}

-----------------------------------------------------------------------------
(* closeLedger, up to its first transaction.                               *)

BalanceIn(table, a) == IF table[a] = Absent THEN 0 ELSE table[a].balance
Balances(table) == SumFunctionOnSet([a \in Accounts |-> BalanceIn(table, a)], Accounts)

Init ==
    /\ pc = "open"
    /\ sql = Genesis /\ list = Genesis
    /\ ledgerSeq = FirstLedger /\ feePool = 0
    /\ txs = <<>>
    /\ ledgerDelta = EmptyDelta(0) /\ delta = EmptyDelta(0) /\ thisTxDelta = NoChanges
    /\ savepoint = Genesis
    /\ mSigningAccount = Absent
    /\ next = 1
    /\ errorEncountered = FALSE
    /\ ghost = [total |-> Balances(Genesis), lost |-> 0, dirty |-> {}, stale |-> FALSE,
                consumed |-> {}, refused |-> {}]

closeLedger(set) ==
    /\ pc = "open"
    /\ ledgerSeq <= LastLedger
    /\ txSetValid(set)
    /\ pc' = "apply"
    /\ txs' \in sortForApply(set)
    /\ ledgerDelta' = EmptyDelta(feePool)
    /\ ghost' = [ghost EXCEPT !.refused = {}]
    /\ UNCHANGED <<sql, list, ledgerSeq, feePool, txVars>>

-----------------------------------------------------------------------------
(* TransactionFrame::apply, up to its first operation.                     *)

Tx == Head(txs)

\* prepareResult: the account after the fee, or after what it can pay of it.
\* Deviation: the fee is taken whatever the account can spare.
FeeTakenFull(account, fee) == fee
FeeTaken(account, fee) == Min({fee, account.balance - getMinimumBalance(account)})
Charged(account, tx) ==
    [account EXCEPT !.balance = @ - FeeTaken(account, getFee(tx)), !.seqNum = tx.seqNum]

\* What the rollback of sqlTx restores: it begins once the fee is taken.
\* Deviation: it begins before.
sqlTxBeforeFee(before, charged) == before
sqlTx(before, charged) == charged

\* getBalanceAboveReserve throws, before prepareResult changes anything.
FeeThrows(tx) ==
    /\ ResultCode(tx, sql, 0) = "txINSUFFICIENT_BALANCE"
    /\ sql[tx.sourceAccount].balance < getMinimumBalance(sql[tx.sourceAccount])

\* Rejected after prepareResult took `fee': the delta is dropped, the SQL row
\* is not restored.
RejectedGhost(fee) ==
    [ghost EXCEPT !.lost = @ + fee,
                  !.dirty = @ \cup {Tx.sourceAccount},
                  !.consumed = @ \cup {Tx}]

\* checkValid fails; of its codes only txINSUFFICIENT_BALANCE leaves a fee to
\* take.  closeLedger drops the delta in any case.
txRejected ==
    /\ pc = "apply" /\ txs # <<>>
    /\ LET a == Tx.sourceAccount
           code == ResultCode(Tx, sql, 0)
           charged == code = "txINSUFFICIENT_BALANCE" /\ ~FeeThrows(Tx)
       IN
       /\ code # "txSUCCESS"
       /\ sql' = IF charged THEN [sql EXCEPT ![a] = Charged(@, Tx)] ELSE sql
       /\ ghost' = IF charged THEN RejectedGhost(FeeTaken(sql[a], getFee(Tx)))
                   ELSE [ghost EXCEPT !.refused = @ \cup {Tx}]
    /\ txs' = Tail(txs)
    /\ UNCHANGED <<pc, list, ledgerSeq, feePool, ledgerDelta, txVars>>

txBegin ==
    /\ pc = "apply" /\ txs # <<>>
    /\ ResultCode(Tx, sql, 0) = "txSUCCESS"
    /\ LET a == Tx.sourceAccount IN
       /\ sql' = [sql EXCEPT ![a] = Charged(@, Tx)]
       /\ mSigningAccount' = Charged(sql[a], Tx)
       /\ delta' = [changes |-> [NoChanges EXCEPT ![a] = modEntry(@, Charged(sql[a], Tx))],
                    feePool |-> ledgerDelta.feePool + FeeTaken(sql[a], getFee(Tx))]
       /\ savepoint' = sqlTx(sql, sql')
    /\ thisTxDelta' = NoChanges
    /\ next' = 1
    /\ errorEncountered' = FALSE
    /\ pc' = "ops"
    /\ UNCHANGED <<list, ledgerSeq, feePool, txs, ledgerDelta, ghost>>

-----------------------------------------------------------------------------
(* OperationFrame::apply.                                                  *)

Op0 == Tx.operations[next]
Cached == Op0.source = Tx.sourceAccount

\* TransactionFrame::loadAccount: the transaction's own copy of its source.
loadAccount(a) == IF a = Tx.sourceAccount THEN mSigningAccount ELSE sql[a]
Source == loadAccount(Op0.source)

AtOp == pc = "ops" /\ next <= Len(Tx.operations)
opKept == <<list, ledgerSeq, feePool, txs, ledgerDelta, delta, savepoint>>

\* A frame other than mSigningAccount changed the source's row.
StaleGhost == [ghost EXCEPT !.stale = @ \/ (Op0.destination = Tx.sourceAccount /\ ~Cached)]

getStartingSequenceNumber == ledgerSeq * SeqsPerLedger

\* Deviation: the source may spend its reserve and more.
UnderfundedNever(account, amount) == FALSE
Underfunded(account, amount) == account.balance < getMinimumBalance(account) + amount

\* What doApply answers with a code of failure before it changes anything.
NoMergeDestination == Op0.type = "Merge" /\ sql[Op0.destination] = Absent
LowReserve ==
    /\ Op0.type = "Payment" /\ Op0.destination # Op0.source
    /\ sql[Op0.destination] = Absent /\ Op0.amount < getMinBalance(0)
\* The issuer's own line has the limit and the balance INT64_MAX.
TrustRefused ==
    /\ Op0.type = "ChangeTrust"
    /\ Op0.source = Issuer \/ (sql[Line(Op0.source)] = Absent /\ sql[Issuer] = Absent)

opFails ==
    /\ AtOp
    /\ OpValid(Tx, Op0, Source) => NoMergeDestination \/ LowReserve \/ TrustRefused
    /\ errorEncountered' = TRUE
    /\ next' = next + 1
    /\ UNCHANGED <<pc, opKept, sql, thisTxDelta, mSigningAccount, ghost>>

opPaymentToSelf ==
    /\ AtOp /\ OpValid(Tx, Op0, Source)
    /\ Op0.type = "Payment" /\ Op0.destination = Op0.source
    /\ next' = next + 1
    /\ UNCHANGED <<pc, opKept, sql, thisTxDelta, mSigningAccount, errorEncountered, ghost>>

\* The table and the delta after the destination was made, where it was
\* missing, and credited.
DestinationEntry(a, amount) ==
    IF sql[a] = Absent
    THEN [balance |-> amount, seqNum |-> getStartingSequenceNumber, numSubEntries |-> 0]
    ELSE [sql[a] EXCEPT !.balance = @ + amount]
CreditedChange(a, amount) ==
    LET made == IF sql[a] = Absent
                THEN addEntry(thisTxDelta[a], [balance |-> 0, numSubEntries |-> 0,
                                               seqNum |-> getStartingSequenceNumber])
                ELSE thisTxDelta[a]
    IN  modEntry(made, DestinationEntry(a, amount))
CreditAllowed(a) ==
    IF sql[a] = Absent
    THEN AddAllowed(thisTxDelta[a]) /\ ModAllowed(addEntry(thisTxDelta[a], Absent))
    ELSE ModAllowed(thisTxDelta[a])

Refusal == Op0.amount > Op0.sendMax \/ Underfunded(Source, Op0.amount)

\* sendNoCreate credits the destination first; when a check of the source fails
\* after that, the credit stays until the transaction is rolled back.
opPayment ==
    /\ AtOp /\ OpValid(Tx, Op0, Source)
    /\ Op0.type = "Payment" /\ Op0.destination # Op0.source
    /\ ~LowReserve
    /\ LET d == Op0.destination
           s == Op0.source
           paid == [Source EXCEPT !.balance = @ - Op0.amount]
       IN
       /\ sql' = IF Refusal
                 THEN [sql EXCEPT ![d] = DestinationEntry(d, Op0.amount)]
                 ELSE [sql EXCEPT ![d] = DestinationEntry(d, Op0.amount), ![s] = paid]
       /\ thisTxDelta' =
             IF Refusal
             THEN [thisTxDelta EXCEPT ![d] = CreditedChange(d, Op0.amount)]
             ELSE [thisTxDelta EXCEPT ![d] = CreditedChange(d, Op0.amount),
                                      ![s] = modEntry(@, paid)]
       /\ mSigningAccount' = IF Cached /\ ~Refusal THEN paid ELSE mSigningAccount
       /\ pc' = IF CreditAllowed(d) /\ (Refusal \/ ModAllowed(thisTxDelta[s]))
                THEN pc ELSE "aborted"
    /\ errorEncountered' = (errorEncountered \/ Refusal)
    /\ next' = next + 1
    /\ ghost' = StaleGhost
    /\ UNCHANGED opKept

\* ChangeTrust writes the line and, when it comes or goes, the source's count.
AtTrust == AtOp /\ OpValid(Tx, Op0, Source) /\ Op0.type = "ChangeTrust" /\ Op0.source # Issuer
SourceLine == sql[Line(Op0.source)]

storeSourceAnd(account, line, change, allowed) ==
    LET s == Op0.source IN
    /\ sql' = [sql EXCEPT ![s] = account, ![Line(s)] = line]
    /\ thisTxDelta' = [thisTxDelta EXCEPT ![s] = modEntry(@, account), ![Line(s)] = change]
    /\ mSigningAccount' = IF Cached THEN account ELSE mSigningAccount
    /\ pc' = IF ModAllowed(thisTxDelta[s]) /\ allowed THEN pc ELSE "aborted"
    /\ next' = next + 1
    /\ UNCHANGED <<opKept, errorEncountered, ghost>>

\* An account without the reserve for it gets the line all the same: its
\* CHANGE_TRUST_LOW_RESERVE is overwritten.
opNewLine ==
    /\ AtTrust /\ SourceLine = Absent /\ sql[Issuer] # Absent
    /\ LET line == [limit |-> Op0.limit]
           c == thisTxDelta[Line(Op0.source)]
       IN  storeSourceAnd(addNumEntries(Source, 1), line, addEntry(c, line), AddAllowed(c))

opDropLine ==
    /\ AtTrust /\ SourceLine # Absent /\ Op0.limit = 0
    /\ Source.numSubEntries > 0
    /\ LET c == thisTxDelta[Line(Op0.source)]
       IN  storeSourceAnd(addNumEntries(Source, -1), Absent, deleteEntry(c), DeleteAllowed(c))

opChangeLine ==
    /\ AtTrust /\ SourceLine # Absent /\ Op0.limit > 0
    /\ LET l == Line(Op0.source) IN
       /\ sql' = [sql EXCEPT ![l].limit = Op0.limit]
       /\ thisTxDelta' = [thisTxDelta EXCEPT ![l] = modEntry(@, [limit |-> Op0.limit])]
       /\ pc' = IF ModAllowed(thisTxDelta[l]) THEN pc ELSE "aborted"
    /\ next' = next + 1
    /\ UNCHANGED <<opKept, mSigningAccount, errorEncountered, ghost>>

\* A merge meets its query, or a line goes that addNumEntries did not count:
\* sqlTx is rolled back, closeLedger catches and drops the delta.
opThrows ==
    /\ \/ AtOp /\ OpValid(Tx, Op0, Source) /\ Op0.type = "Merge" /\ ~NoMergeDestination
       \/ AtTrust /\ SourceLine # Absent /\ Op0.limit = 0 /\ Source.numSubEntries = 0
    /\ sql' = savepoint
    /\ pc' = "apply"
    /\ txs' = Tail(txs)
    /\ ghost' = RejectedGhost(delta.feePool - ledgerDelta.feePool)
    /\ UNCHANGED <<list, ledgerSeq, feePool, ledgerDelta, txVars>>

-----------------------------------------------------------------------------
(* The end of TransactionFrame::apply and of closeLedger.                  *)

\* What delta holds once thisTxDelta was committed into it, or not.
ChangesOfTx ==
    IF errorEncountered THEN delta.changes ELSE mergeEntries(delta.changes, thisTxDelta)

\* sqlTx's destructor undoes what was not committed.
\* Deviation: it does not.
TableOfTxAlways == sql
TableOfTx == IF errorEncountered THEN savepoint ELSE sql

Changed(changes) == {a \in Accounts : changes[a].in # "none"}

txEnd ==
    /\ pc = "ops" /\ next > Len(Tx.operations)
    /\ sql' = TableOfTx
    /\ ledgerDelta' = [changes |-> mergeEntries(ledgerDelta.changes, ChangesOfTx),
                       feePool |-> delta.feePool]
    /\ pc' = IF /\ errorEncountered \/ MergeAllowed(delta.changes, thisTxDelta)
                /\ MergeAllowed(ledgerDelta.changes, ChangesOfTx)
             THEN "apply" ELSE "aborted"
    /\ txs' = Tail(txs)
    /\ ghost' = [ghost EXCEPT !.dirty = @ \ Changed(ChangesOfTx), !.consumed = @ \cup {Tx}]
    /\ UNCHANGED <<list, ledgerSeq, feePool, txVars>>

\* ledgerDelta.commit, closeLedgerHelper and the commit of the SQL transaction.
closeLedgerHelper ==
    /\ pc = "apply" /\ txs = <<>>
    /\ list' = addBatch(list, ledgerDelta.changes)
    /\ feePool' = ledgerDelta.feePool
    /\ ledgerSeq' = ledgerSeq + 1
    /\ ledgerDelta' = EmptyDelta(ledgerDelta.feePool)
    /\ pc' = "open"
    /\ UNCHANGED <<sql, txs, txVars, ghost>>

Sets == {set \in SUBSET Txs : IsFiniteSet(set) /\ Cardinality(set) <= MaxTxs}

Next ==
    \/ \E set \in Sets : closeLedger(set)
    \/ txRejected
    \/ txBegin
    \/ opFails
    \/ opPaymentToSelf
    \/ opPayment
    \/ opNewLine
    \/ opDropLine
    \/ opChangeLine
    \/ opThrows
    \/ txEnd
    \/ closeLedgerHelper

Spec == Init /\ [][Next]_vars

-----------------------------------------------------------------------------
(* Properties.                                                             *)

IsTable(table) == DOMAIN table = Keys /\ \A k \in Keys : table[k] \in EntriesOf(k)
IsChanges(changes) ==
    /\ DOMAIN changes = Keys
    /\ \A k \in Keys : /\ changes[k].in \in {"none", "mNew", "mMod", "mDelete"}
                      /\ changes[k].entry \in EntriesOf(k)

\* The variables hold what their C++ types and the comments above say.
TypeOK ==
    /\ pc \in {"open", "apply", "ops", "aborted"}
    /\ IsTable(sql) /\ IsTable(list) /\ IsTable(savepoint)
    /\ ledgerSeq \in Nat /\ feePool \in Nat
    /\ txs \in Seq(Txs)
    /\ IsChanges(ledgerDelta.changes) /\ ledgerDelta.feePool \in Nat
    /\ IsChanges(delta.changes) /\ delta.feePool \in Nat
    /\ IsChanges(thisTxDelta)
    /\ mSigningAccount \in Entry \cup {Absent}
    /\ next \in Nat \ {0}
    /\ errorEncountered \in BOOLEAN
    /\ ghost \in Ghost

\* What the open deltas, put on top of the bucket list, say the entries are.
FromDeltas ==
    LET closed == addBatch(list, ledgerDelta.changes) IN
    IF pc = "ops" THEN addBatch(addBatch(closed, delta.changes), thisTxDelta) ELSE closed

\* The two records of the entries agree throughout the close: the SQL tables
\* and the bucket list with the deltas of the close on top of it, save for the
\* source of a transaction that closeLedger rejected after its fee was taken,
\* until a transaction that is not rejected changes that account again.
SqlMatchesDeltas == pc # "aborted" => \A k \in Keys \ ghost.dirty : sql[k] = FromDeltas[k]

\* closeLedger says of a transaction that failed validation that it "cannot
\* have side effects" and rolls its delta back "to ensure that this transaction
\* doesn't have any": between closes the table and the bucket list agree.
NoSideEffects == pc = "open" => sql = list

\* No assert of LedgerDelta fails.
NoAbort == pc # "aborted"

\* Between transactions the balances and the fee pool are what there was at the
\* start, less the fees of rejected transactions, which closeLedger takes from
\* the account and gives to nobody; unless an operation of another account
\* credited the source of its transaction, whose cached copy then is behind.
Conservation ==
    pc \in {"open", "apply"} /\ ~ghost.stale =>
        Balances(sql) + ledgerDelta.feePool + ghost.lost = ghost.total

\* header.totalCoins is the "total number of stroops in existence", and no
\* transaction changes it.
TotalCoins == pc \in {"open", "apply"} => Balances(sql) + ledgerDelta.feePool = ghost.total

\* No account is ever below its reserve between transactions, whatever fees,
\* payments and new lines it took part in: getBalanceAboveReserve never throws.
AboveReserve ==
    pc \in {"open", "apply"} =>
        \A a \in Accounts : sql[a] # Absent => sql[a].balance >= getMinimumBalance(sql[a])

\* A transaction is applied once: whether it succeeds, fails, is rejected or
\* throws, what is rolled back never includes its sequence number.
NoReplay == pc = "ops" => Tx \notin ghost.consumed

\* No transaction of a valid set is dropped without a fee, whatever the ones
\* before it did to its account: sortForApply never makes an account's own
\* transactions arrive in an order in which they fail.
NothingRefused == ghost.refused = {}

\* What triggerNextLedger proposes, all it has received less what trimInvalid
\* removes, is a set every node finds valid.
ProposalsAreValid ==
    pc = "open" => \A received \in Sets : txSetValid(trimInvalid(received))

\* No close meets an assert of LedgerDelta or the throw of getBalanceAboveReserve.
NothingThrows == TypeOK /\ NoAbort /\ AboveReserve

\* A set that is valid where it is proposed is one that applies: validity is
\* judged on the ledger before, application on what the set itself has changed.
SetsStayValid == NothingRefused /\ ProposalsAreValid

=============================================================================
