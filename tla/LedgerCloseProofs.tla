-------------------------- MODULE LedgerCloseProofs --------------------------
(***************************************************************************)
(* Proofs about closing a ledger, for any accounts, transactions, fee,     *)
(* reserve and number of closes: the tables and the deltas agree, no       *)
(* assert of LedgerDelta fails, nobody falls below the reserve, no         *)
(* transaction is applied twice, no balance comes from nowhere, and the    *)
(* transactions of a valid set all apply or pay.                           *)
(***************************************************************************)
EXTENDS LedgerClose, NumberProofs

-----------------------------------------------------------------------------
(* The inductive invariant.                                                *)

Solvent(e) == e.balance >= getMinimumBalance(e)
IsSolvent(table) == \A a \in Accounts : table[a] # Absent => Solvent(table[a])

\* What a delta holds about a key fits what was there before the delta.
ChangeFits(c, before) ==
    /\ c.in = "mNew" => before = Absent /\ c.entry # Absent
    /\ c.in = "mMod" => before # Absent /\ c.entry # Absent
    /\ c.in = "mDelete" => before # Absent /\ c.entry = Absent

\* What is there once the change is made.
After(c, before) == IF c.in = "none" THEN before ELSE c.entry

Fits(changes, table) == \A k \in Keys : ChangeFits(changes[k], table[k])

\* No account goes: every merge fails or throws.
AccountsStay(changes) == \A a \in Accounts : changes[a].in # "mDelete"

\* The bucket list with the close so far, and the table a rollback of sqlTx
\* goes back to.
Closed == addBatch(list, ledgerDelta.changes)
Base == IF pc = "ops" THEN savepoint ELSE sql
Src == Tx.sourceAccount

ListInv ==
    /\ Fits(ledgerDelta.changes, list)
    /\ AccountsStay(ledgerDelta.changes)
    /\ \A k \in Keys : Base[k] = Absent <=> Closed[k] = Absent
    /\ \A k \in Keys \ ghost.dirty :
          (pc = "ops" => k # Src) => Base[k] = Closed[k]
    /\ pc = "open" => ledgerDelta = EmptyDelta(feePool)

\* Inside a transaction: delta holds the fee, thisTxDelta all that was done
\* since sqlTx began.
TxInv ==
    pc = "ops" =>
    /\ txs # <<>>
    /\ delta.changes =
          [NoChanges EXCEPT ![Src] = [in |-> "mMod", entry |-> savepoint[Src]]]
    /\ delta.feePool >= ledgerDelta.feePool
    /\ Fits(thisTxDelta, savepoint)
    /\ AccountsStay(thisTxDelta)
    /\ \A k \in Keys : sql[k] = After(thisTxDelta[k], savepoint[k])
    /\ Tx \notin ghost.consumed

SolventInv ==
    /\ IsSolvent(sql)
    /\ pc = "ops" => /\ IsSolvent(savepoint)
                     /\ mSigningAccount # Absent
                     /\ Solvent(mSigningAccount)

\* Sequence numbers never go back, and a rollback leaves the ones used.
SeqInv ==
    /\ \A tx \in ghost.consumed :
          /\ Base[tx.sourceAccount] # Absent
          /\ Base[tx.sourceAccount].seqNum >= tx.seqNum
    /\ pc = "ops" =>
          /\ savepoint[Src] # Absent
          /\ savepoint[Src].seqNum = Tx.seqNum
          /\ mSigningAccount.seqNum = Tx.seqNum
          /\ \A a \in Accounts : savepoint[a] # Absent =>
                /\ sql[a] # Absent
                /\ sql[a].seqNum = savepoint[a].seqNum

Pool == IF pc = "ops" THEN delta.feePool ELSE ledgerDelta.feePool

MoneyInv ==
    ~ghost.stale =>
        /\ Balances(Base) + Pool + ghost.lost = ghost.total
        /\ pc = "ops" => /\ mSigningAccount = sql[Src]
                         /\ errorEncountered \/ Balances(sql) = Balances(savepoint)

IInv == TypeOK /\ NoAbort /\ ListInv /\ TxInv /\ SolventInv /\ SeqInv /\ MoneyInv

-----------------------------------------------------------------------------
(* Keys, entries, the reserve and the fee.                                 *)

\* The keys of accounts and of trust lines and what is stored under them.
LEMMA KeyFacts ==
    /\ \A a \in Accounts : /\ a \in Keys
                           /\ EntriesOf(a) = Entry \cup {Absent}
                           /\ Line(a) \in Keys
                           /\ Line(a) \notin Accounts
                           /\ EntriesOf(Line(a)) = LineEntry \cup {Absent}
    /\ \A k \in Keys : Absent \in EntriesOf(k)
    /\ Absent \notin Entry /\ Absent \notin LineEntry
BY LedgerCloseAssumption DEF Keys, EntriesOf

\* The reserve of one sub-entry less is no higher.
LEMMA MinBalanceFacts ==
    ASSUME NEW n \in Nat
    PROVE  /\ getMinBalance(n) \in Nat
           /\ n > 0 => getMinBalance(n - 1) <= getMinBalance(n)
<1>1. BaseReserve \in Nat
  BY LedgerCloseAssumption
<1>2. \A m \in Nat : m * BaseReserve \in Nat
  BY <1>1
<1>3. 2 + n \in Nat /\ (2 + (n - 1)) * BaseReserve = (2 + n) * BaseReserve - BaseReserve
  BY <1>1
<1> QED
  BY <1>1, <1>2, <1>3 DEF getMinBalance

\* What is assumed of a transaction; its fee is a number.
LEMMA TxFacts ==
    ASSUME NEW tx \in Txs
    PROVE  /\ tx.sourceAccount \in Accounts
           /\ tx.seqNum \in Nat /\ tx.seqNum # 0
           /\ tx.operations \in Seq(Op)
           /\ getFee(tx) \in Nat
<1>1. /\ tx.sourceAccount \in Accounts
      /\ tx.seqNum \in Nat /\ tx.seqNum # 0
      /\ tx.operations \in Seq(Op)
      /\ Fee \in Nat
  BY LedgerCloseAssumption
<1> DEFINE n == Len(tx.operations)
<1>2. n \in Nat
  BY <1>1
<1> HIDE DEF n
<1>3. \E x \in {1, n} : \A y \in {1, n} : x >= y
  BY <1>2
<1>4. Max({1, n}) \in {1, n}
  BY <1>3, Zenon DEF Max
<1>5. Max({1, n}) \in Nat
  BY <1>2, <1>4
<1>6. \A m \in Nat : Fee * m \in Nat
  BY <1>1
<1> QED
  BY <1>1, <1>5, <1>6 DEF getFee, n

\* What is taken of a fee leaves a solvent account solvent.
LEMMA FeeFacts ==
    ASSUME NEW e \in Entry, Solvent(e), NEW tx \in Txs
    PROVE  /\ FeeTaken(e, getFee(tx)) \in Nat
           /\ Charged(e, tx) \in Entry
           /\ Charged(e, tx).balance = e.balance - FeeTaken(e, getFee(tx))
           /\ Charged(e, tx).seqNum = tx.seqNum
           /\ Solvent(Charged(e, tx))
<1> DEFINE fee == getFee(tx)
           spare == e.balance - getMinimumBalance(e)
           taken == FeeTaken(e, fee)
<1>1. e.balance \in Nat /\ e.numSubEntries \in Nat /\ getMinimumBalance(e) \in Nat
  BY MinBalanceFacts DEF Entry, getMinimumBalance
<1>2. spare \in Nat /\ fee \in Nat
  BY <1>1, TxFacts DEF Solvent
<1>3. taken = Min({fee, spare})
  BY DEF FeeTaken
<1> HIDE DEF fee, spare, taken
<1>4. \E x \in {fee, spare} : \A y \in {fee, spare} : x =< y
  BY <1>2
<1>5. Min({fee, spare}) \in {fee, spare} /\ \A y \in {fee, spare} : Min({fee, spare}) =< y
  BY <1>4, Zenon DEF Min
<1>6. taken \in Nat /\ taken <= spare
  BY <1>2, <1>3, <1>5
<1>7. Charged(e, tx) = [e EXCEPT !.balance = @ - taken, !.seqNum = tx.seqNum]
  BY DEF Charged, taken, fee
<1>8. e.balance - taken \in Nat /\ e.balance - taken >= getMinimumBalance(e)
  BY <1>1, <1>6 DEF spare
<1>9. /\ Charged(e, tx) \in Entry
      /\ Charged(e, tx).balance = e.balance - taken
      /\ Charged(e, tx).seqNum = tx.seqNum
      /\ Charged(e, tx).numSubEntries = e.numSubEntries
  BY <1>7, <1>8, TxFacts DEF Entry
<1>10. Solvent(Charged(e, tx))
  BY <1>8, <1>9 DEF Solvent, getMinimumBalance
<1> QED
  BY <1>6, <1>9, <1>10 DEF taken, fee

-----------------------------------------------------------------------------
(* LedgerDelta: the changes of one key.                                    *)

\* addEntry where nothing is: no assert fails, and the delta makes the entry.
LEMMA AddFits ==
    ASSUME NEW c, NEW before, NEW e, ChangeFits(c, before),
           c.in \in {"none", "mNew", "mMod", "mDelete"},
           After(c, before) = Absent, e # Absent
    PROVE  /\ AddAllowed(c)
           /\ ChangeFits(addEntry(c, e), before)
           /\ After(addEntry(c, e), before) = e
           /\ addEntry(c, e).in \in {"mNew", "mMod"}
           /\ addEntry(c, e).entry = e
BY DEF ChangeFits, After, AddAllowed, addEntry

\* modEntry where something is: no assert fails, and the delta has the entry.
LEMMA ModFits ==
    ASSUME NEW c, NEW before, NEW e, ChangeFits(c, before),
           c.in \in {"none", "mNew", "mMod", "mDelete"},
           After(c, before) # Absent, e # Absent
    PROVE  /\ ModAllowed(c)
           /\ ChangeFits(modEntry(c, e), before)
           /\ After(modEntry(c, e), before) = e
           /\ modEntry(c, e).in \in {"mNew", "mMod"}
           /\ modEntry(c, e).entry = e
BY DEF ChangeFits, After, ModAllowed, modEntry

\* deleteEntry where something is: no assert fails, and the delta removes it.
LEMMA DeleteFits ==
    ASSUME NEW c, NEW before, ChangeFits(c, before),
           c.in \in {"none", "mNew", "mMod", "mDelete"},
           After(c, before) # Absent
    PROVE  /\ DeleteAllowed(c)
           /\ ChangeFits(deleteEntry(c), before)
           /\ After(deleteEntry(c), before) = Absent
           /\ deleteEntry(c).in \in {"none", "mDelete"}
           /\ deleteEntry(c).entry = Absent
BY DEF ChangeFits, After, DeleteAllowed, deleteEntry, Nothing

\* mergeEntries makes one change of two, and none of its asserts fails.  Only
\* whether the entry was there matters to it, so `between' need not be what
\* the outer delta left, as long as both are there or neither is.
LEMMA MergeFits ==
    ASSUME NEW outer, NEW inner, IsChanges(outer), IsChanges(inner),
           NEW before, NEW between, NEW k \in Keys,
           ChangeFits(outer[k], before), ChangeFits(inner[k], between),
           After(outer[k], before) = Absent <=> between = Absent
    PROVE  LET merged == mergeEntries(outer, inner)[k] IN
           /\ CASE inner[k].in = "mDelete" -> DeleteAllowed(outer[k])
                [] inner[k].in = "mNew" -> AddAllowed(outer[k])
                [] inner[k].in = "mMod" -> ModAllowed(outer[k])
                [] OTHER -> TRUE
           /\ merged.in \in {"none", "mNew", "mMod", "mDelete"}
           /\ merged.entry \in EntriesOf(k)
           /\ ChangeFits(merged, before)
           /\ After(merged, before) = After(inner[k], After(outer[k], before))
           /\ merged.in = "mDelete" => "mDelete" \in {inner[k].in, outer[k].in}
<1> DEFINE merged == mergeEntries(outer, inner)[k]
           o == outer[k]
           i == inner[k]
<1>1. /\ o.in \in {"none", "mNew", "mMod", "mDelete"} /\ o.entry \in EntriesOf(k)
      /\ i.in \in {"none", "mNew", "mMod", "mDelete"} /\ i.entry \in EntriesOf(k)
      /\ Absent \in EntriesOf(k)
  BY KeyFacts DEF IsChanges
<1>2. merged = CASE i.in = "mDelete" -> deleteEntry(o)
                 [] i.in = "mNew" -> addEntry(o, i.entry)
                 [] i.in = "mMod" -> modEntry(o, i.entry)
                 [] OTHER -> o
  BY DEF mergeEntries
<1> HIDE DEF merged, o, i
<1>3. ChangeFits(o, before) /\ ChangeFits(i, between)
      /\ (After(o, before) = Absent <=> between = Absent)
  BY DEF o, i
<1>4. CASE i.in = "mDelete"
  <2>1. After(o, before) # Absent /\ i.entry = Absent
    BY <1>3, <1>4 DEF ChangeFits
  <2>2. merged = deleteEntry(o)
    BY <1>2, <1>4
  <2> QED
    BY <2>1, <2>2, <1>1, <1>3, <1>4, DeleteFits DEF merged, o, i, After
<1>5. CASE i.in = "mNew"
  <2>1. After(o, before) = Absent /\ i.entry # Absent
    BY <1>3, <1>5 DEF ChangeFits
  <2>2. merged = addEntry(o, i.entry)
    BY <1>2, <1>5
  <2>3. /\ AddAllowed(o)
        /\ ChangeFits(merged, before)
        /\ After(merged, before) = i.entry
        /\ merged.in \in {"mNew", "mMod"}
        /\ merged.entry = i.entry
    BY <2>1, <2>2, <1>1, <1>3, AddFits
  <2>4. After(merged, before) = After(i, After(o, before))
    BY <2>3, <1>5 DEF After
  <2> QED
    BY <2>3, <2>4, <1>1, <1>5 DEF merged, o, i
<1>6. CASE i.in = "mMod"
  <2>1. After(o, before) # Absent /\ i.entry # Absent
    BY <1>3, <1>6 DEF ChangeFits
  <2>2. merged = modEntry(o, i.entry)
    BY <1>2, <1>6
  <2>3. /\ ModAllowed(o)
        /\ ChangeFits(merged, before)
        /\ After(merged, before) = i.entry
        /\ merged.in \in {"mNew", "mMod"}
        /\ merged.entry = i.entry
    BY <2>1, <2>2, <1>1, <1>3, ModFits
  <2>4. After(merged, before) = After(i, After(o, before))
    BY <2>3, <1>6 DEF After
  <2> QED
    BY <2>3, <2>4, <1>1, <1>6 DEF merged, o, i
<1>7. CASE i.in = "none"
  <2>1. merged = o
    BY <1>2, <1>7
  <2> QED
    BY <2>1, <1>1, <1>3, <1>7 DEF merged, o, i, After
<1> QED
  BY <1>1, <1>4, <1>5, <1>6, <1>7

-----------------------------------------------------------------------------
(* The steps inside a transaction.                                         *)

\* What TxInv, SolventInv and SeqInv say of one key inside a transaction: e is
\* its row, c its change since sqlTx began, s its row then.
KeyInv(k, e, c, s) ==
    /\ e \in EntriesOf(k)
    /\ c.in \in {"none", "mNew", "mMod", "mDelete"}
    /\ c.entry \in EntriesOf(k)
    /\ ChangeFits(c, s)
    /\ e = After(c, s)
    /\ k \in Accounts =>
          /\ c.in # "mDelete"
          /\ e # Absent => Solvent(e)
          /\ s # Absent => e # Absent /\ e.seqNum = s.seqNum

\* A row that is there is stored again.
LEMMA StoreKeeps ==
    ASSUME NEW k \in Keys, NEW e, NEW c, NEW s, KeyInv(k, e, c, s), e # Absent,
           NEW new \in EntriesOf(k), new # Absent,
           k \in Accounts => /\ Solvent(new)
                             /\ s # Absent => new.seqNum = s.seqNum
    PROVE  ModAllowed(c) /\ KeyInv(k, new, modEntry(c, new), s)
<1>1. /\ ModAllowed(c)
      /\ ChangeFits(modEntry(c, new), s)
      /\ After(modEntry(c, new), s) = new
      /\ modEntry(c, new).in \in {"mNew", "mMod"}
      /\ modEntry(c, new).entry = new
  BY ModFits DEF KeyInv
<1> QED
  BY <1>1 DEF KeyInv

\* A row is added.
LEMMA AddKeeps ==
    ASSUME NEW k \in Keys, NEW e, NEW c, NEW s, KeyInv(k, e, c, s), e = Absent,
           NEW new \in EntriesOf(k), new # Absent, k \in Accounts => Solvent(new)
    PROVE  AddAllowed(c) /\ KeyInv(k, new, addEntry(c, new), s)
<1>1. /\ AddAllowed(c)
      /\ ChangeFits(addEntry(c, new), s)
      /\ After(addEntry(c, new), s) = new
      /\ addEntry(c, new).in \in {"mNew", "mMod"}
      /\ addEntry(c, new).entry = new
  <2>1. /\ ChangeFits(c, s) /\ c.in \in {"none", "mNew", "mMod", "mDelete"}
        /\ After(c, s) = Absent
    BY DEF KeyInv
  <2> QED
    BY <2>1, AddFits
<1>2. k \in Accounts => s = Absent
  BY DEF KeyInv
<1> QED
  BY <1>1, <1>2 DEF KeyInv

\* A line is deleted.
LEMMA DeleteKeeps ==
    ASSUME NEW k \in Keys, k \notin Accounts, NEW e, NEW c, NEW s,
           KeyInv(k, e, c, s), e # Absent
    PROVE  DeleteAllowed(c) /\ KeyInv(k, Absent, deleteEntry(c), s)
<1>1. /\ DeleteAllowed(c)
      /\ ChangeFits(deleteEntry(c), s)
      /\ After(deleteEntry(c), s) = Absent
      /\ deleteEntry(c).in \in {"none", "mDelete"}
      /\ deleteEntry(c).entry = Absent
  BY DeleteFits DEF KeyInv
<1> QED
  BY <1>1, KeyFacts DEF KeyInv

\* What the invariant says inside a transaction, key by key.
LEMMA OpsKeys ==
    ASSUME IInv, pc = "ops"
    PROVE  \A k \in Keys : KeyInv(k, sql[k], thisTxDelta[k], savepoint[k])
BY DEF IInv, TypeOK, IsTable, IsChanges, TxInv, SolventInv, IsSolvent, SeqInv,
       Fits, AccountsStay, KeyInv

\* The transaction at the head and its source.
LEMMA TxIsTx ==
    ASSUME TypeOK, txs # <<>>
    PROVE  Tx \in Txs /\ Src \in Accounts /\ Src \in Keys /\ Tail(txs) \in Seq(Txs)
<1>1. txs \in Seq(Txs)
  BY DEF TypeOK
<1>2. Tx \in Txs /\ Tail(txs) \in Seq(Txs)
  BY <1>1 DEF Tx
<1> QED
  BY <1>2, TxFacts, KeyFacts DEF Src

\* A step of an operation that keeps every key, the transaction's copy of its
\* source and the money leads to a state of the invariant.
LEMMA OpsStep ==
    ASSUME IInv, pc = "ops", pc' = "ops", UNCHANGED opKept,
           next' = next + 1, errorEncountered' \in BOOLEAN,
           NEW st \in BOOLEAN, ghost' = [ghost EXCEPT !.stale = st],
           DOMAIN sql' = Keys, DOMAIN thisTxDelta' = Keys,
           \A k \in Keys : KeyInv(k, sql'[k], thisTxDelta'[k], savepoint[k]),
           mSigningAccount' \in Entry, Solvent(mSigningAccount'),
           mSigningAccount'.seqNum = mSigningAccount.seqNum,
           ~st => /\ ~ghost.stale
                  /\ mSigningAccount' = sql'[Src]
                  /\ errorEncountered' \/ Balances(sql') = Balances(savepoint)
    PROVE  IInv'
<1>1. /\ list' = list /\ ledgerSeq' = ledgerSeq /\ feePool' = feePool /\ txs' = txs
      /\ ledgerDelta' = ledgerDelta /\ delta' = delta /\ savepoint' = savepoint
  BY DEF opKept
<1>2. /\ ghost' \in Ghost /\ ghost'.stale = st
      /\ ghost'.total = ghost.total /\ ghost'.lost = ghost.lost
      /\ ghost'.dirty = ghost.dirty /\ ghost'.consumed = ghost.consumed
  BY DEF IInv, TypeOK, Ghost
<1>3. Tx' = Tx /\ Src' = Src /\ Base' = Base /\ Closed' = Closed /\ Pool' = Pool
  BY <1>1 DEF Tx, Src, Base, Closed, Pool, addBatch
<1>4. txs # <<>> /\ Src \in Keys /\ Src \in Accounts
  BY TxIsTx DEF IInv, TxInv
<1>5. TypeOK'
  <2>1. IsTable(sql)' /\ IsChanges(thisTxDelta)'
    BY DEF KeyInv, IsTable, IsChanges
  <2> QED
    BY <2>1, <1>1, <1>2 DEF IInv, TypeOK, IsTable, IsChanges
<1>6. NoAbort'
  BY DEF NoAbort
<1>7. ListInv'
  BY <1>1, <1>2, <1>3 DEF IInv, ListInv, Fits, AccountsStay
<1>8. TxInv'
  <2>1. Fits(thisTxDelta, savepoint)' /\ AccountsStay(thisTxDelta)'
    BY <1>1, KeyFacts DEF KeyInv, Fits, AccountsStay
  <2>2. \A k \in Keys : sql'[k] = After(thisTxDelta'[k], savepoint'[k])
    BY <1>1 DEF KeyInv
  <2> QED
    BY <2>1, <2>2, <1>1, <1>2, <1>3 DEF IInv, TxInv
<1>9. SolventInv'
  BY <1>1, KeyFacts DEF IInv, SolventInv, IsSolvent, KeyInv
<1>10. SeqInv'
  <2>1. \A a \in Accounts : savepoint[a] # Absent =>
            sql'[a] # Absent /\ sql'[a].seqNum = savepoint[a].seqNum
    BY KeyFacts DEF KeyInv
  <2> QED
    BY <2>1, <1>1, <1>2, <1>3 DEF IInv, SeqInv
<1>11. MoneyInv'
  <2>1. Balances(Base)' = Balances(Base) /\ Balances(savepoint)' = Balances(savepoint)
    BY <1>1, <1>3 DEF Balances, BalanceIn
  <2> QED
    BY <2>1, <1>1, <1>2, <1>3 DEF IInv, MoneyInv
<1> QED
  BY <1>5, <1>6, <1>7, <1>8, <1>9, <1>10, <1>11 DEF IInv

\* Sums of balances.
LEMMA BalancesNat ==
    ASSUME NEW t, IsTable(t)
    PROVE  Balances(t) \in Nat /\ \A a \in Accounts : BalanceIn(t, a) \in Nat
<1> DEFINE f == [a \in Accounts |-> BalanceIn(t, a)]
<1>1. \A a \in Accounts : BalanceIn(t, a) \in Nat
  BY KeyFacts DEF BalanceIn, IsTable, Entry
<1>2. \A a \in Accounts : f[a] \in Int /\ f[a] >= 0
  BY <1>1
<1> HIDE DEF f
<1>3. SumFunctionOnSet(f, Accounts) \in Int /\ SumFunctionOnSet(f, Accounts) >= 0
  BY <1>2, SumInt, LedgerCloseAssumption
<1>4. SumFunctionOnSet(f, Accounts) \in Nat
  BY <1>3
<1> QED
  BY <1>1, <1>4 DEF Balances, f

\* A table that differs in one account adds up to what that account differs by.
LEMMA BalancesUpdate ==
    ASSUME NEW t, NEW u, IsTable(t), IsTable(u), NEW x \in Accounts,
           \A a \in Accounts \ {x} : u[a] = t[a]
    PROVE  Balances(u) = Balances(t) + (BalanceIn(u, x) - BalanceIn(t, x))
<1> DEFINE f == [a \in Accounts |-> BalanceIn(t, a)]
           g == [a \in Accounts |-> BalanceIn(u, a)]
<1>1. \A a \in Accounts : f[a] \in Int /\ g[a] \in Int
  BY BalancesNat
<1>2. \A a \in Accounts \ {x} : f[a] = g[a]
  BY DEF BalanceIn
<1>3. f[x] = BalanceIn(t, x) /\ g[x] = BalanceIn(u, x)
  OBVIOUS
<1>4. /\ Balances(t) = SumFunctionOnSet(f, Accounts)
      /\ Balances(u) = SumFunctionOnSet(g, Accounts)
  BY DEF Balances
<1>5. IsFiniteSet(Accounts)
  BY LedgerCloseAssumption
<1> HIDE DEF f, g
<1>6. SumFunctionOnSet(g, Accounts) = SumFunctionOnSet(f, Accounts) + (g[x] - f[x])
  BY <1>1, <1>2, <1>5, SumUpdate
<1> QED
  BY <1>3, <1>4, <1>6

\* Tables with the same accounts add up to the same.
LEMMA BalancesSame ==
    ASSUME NEW t, NEW u, \A a \in Accounts : u[a] = t[a]
    PROVE  Balances(u) = Balances(t)
<1>1. \A a \in Accounts : BalanceIn(u, a) = BalanceIn(t, a)
  BY DEF BalanceIn
<1>2. [a \in Accounts |-> BalanceIn(u, a)] = [a \in Accounts |-> BalanceIn(t, a)]
  BY <1>1
<1> QED
  BY <1>2 DEF Balances

\* The operation at hand and the account it comes from.
LEMMA OpFacts ==
    ASSUME IInv, AtOp
    PROVE  /\ pc = "ops" /\ txs # <<>>
           /\ Tx \in Txs /\ Src \in Accounts
           /\ Op0 \in Op /\ Op0.source \in Accounts
           /\ Op0.type = "Payment" => /\ Op0.destination \in Accounts
                                      /\ Op0.amount \in Nat
           /\ Op0.type = "ChangeTrust" => Op0.limit \in Nat
<1>1. pc = "ops" /\ txs # <<>> /\ Tx \in Txs /\ Src \in Accounts
  BY TxIsTx DEF IInv, TxInv, AtOp
<1>2. Tx.operations \in Seq(Op) /\ next \in Nat \ {0} /\ next <= Len(Tx.operations)
  BY <1>1, TxFacts DEF IInv, TypeOK, AtOp
<1>3. Op0 \in Op
  BY <1>2 DEF Op0
<1> QED
  BY <1>1, <1>3 DEF Op

\* The account an operation works on, cached or loaded, is one that can pay.
LEMMA SourceFacts ==
    ASSUME IInv, AtOp, OpValid(Tx, Op0, Source)
    PROVE  /\ Source \in Entry /\ Solvent(Source)
           /\ sql[Op0.source] \in Entry
           /\ savepoint[Op0.source] # Absent
                => Source.seqNum = savepoint[Op0.source].seqNum
           /\ Cached => Op0.source = Src /\ Source = mSigningAccount
           /\ ~Cached => Op0.source # Src /\ Source = sql[Op0.source]
           /\ ~ghost.stale => Source = sql[Op0.source]
           /\ mSigningAccount \in Entry /\ Solvent(mSigningAccount)
<1>1. pc = "ops" /\ Src \in Accounts /\ Op0.source \in Accounts
  BY OpFacts
<1>2. \A k \in Keys : KeyInv(k, sql[k], thisTxDelta[k], savepoint[k])
  BY <1>1, OpsKeys
<1>3. mSigningAccount \in Entry /\ Solvent(mSigningAccount)
  BY <1>1 DEF IInv, TypeOK, SolventInv
<1>4. /\ Cached => Op0.source = Src /\ Source = mSigningAccount
      /\ ~Cached => Op0.source # Src /\ Source = sql[Op0.source]
      /\ Source # Absent
  BY DEF Cached, Source, loadAccount, Src, OpValid
<1>5. sql[Src] # Absent /\ savepoint[Src] # Absent
      /\ mSigningAccount.seqNum = savepoint[Src].seqNum
  BY <1>1 DEF IInv, SeqInv
<1>6. ~ghost.stale => mSigningAccount = sql[Src]
  BY <1>1 DEF IInv, MoneyInv
<1>7. CASE Cached
  BY <1>1, <1>2, <1>3, <1>4, <1>5, <1>6, <1>7, KeyFacts DEF KeyInv
<1>8. CASE ~Cached
  BY <1>1, <1>2, <1>3, <1>4, <1>8, KeyFacts DEF KeyInv
<1> QED
  BY <1>7, <1>8

\* Operations that fail before they change anything, and payments to oneself.
LEMMA IdleOp ==
    ASSUME IInv, opFails \/ opPaymentToSelf
    PROVE  IInv'
<1>1. /\ AtOp
      /\ UNCHANGED <<pc, opKept, sql, thisTxDelta, mSigningAccount, ghost>>
      /\ next' = next + 1
      /\ errorEncountered' \in BOOLEAN
      /\ ~errorEncountered' => ~errorEncountered
  BY DEF opFails, opPaymentToSelf, IInv, TypeOK
<1>2. pc = "ops" /\ pc' = "ops"
  BY <1>1, OpFacts
<1>3. ghost' = [ghost EXCEPT !.stale = ghost.stale] /\ ghost.stale \in BOOLEAN
  BY <1>1 DEF IInv, TypeOK, Ghost
<1>4. \A k \in Keys : KeyInv(k, sql'[k], thisTxDelta'[k], savepoint[k])
  BY <1>1, <1>2, OpsKeys
<1>5. DOMAIN sql' = Keys /\ DOMAIN thisTxDelta' = Keys
  BY <1>1 DEF IInv, TypeOK, IsTable, IsChanges
<1>6. mSigningAccount' \in Entry /\ Solvent(mSigningAccount')
  BY <1>1, <1>2 DEF IInv, TypeOK, SolventInv
<1>7. ~ghost.stale => /\ mSigningAccount' = sql'[Src]
                      /\ errorEncountered' \/ Balances(sql') = Balances(savepoint)
  BY <1>1, <1>2 DEF IInv, MoneyInv, TypeOK
<1>8. UNCHANGED opKept /\ mSigningAccount' = mSigningAccount
  BY <1>1 DEF opKept
<1> QED
  BY <1>1, <1>2, <1>3, <1>4, <1>5, <1>6, <1>7, <1>8, OpsStep

\* A payment: the destination is made or credited, then the source pays unless
\* it is refused.
LEMMA CreditKeeps ==
    ASSUME IInv, AtOp, Op0.type = "Payment", ~LowReserve, Op0.destination # Op0.source
    PROVE  LET d == Op0.destination
               new == DestinationEntry(d, Op0.amount)
           IN  /\ CreditAllowed(d)
               /\ new \in Entry
               /\ new.balance = BalanceIn(sql, d) + Op0.amount
               /\ KeyInv(d, new, CreditedChange(d, Op0.amount), savepoint[d])
<1> DEFINE d == Op0.destination
           amount == Op0.amount
           new == DestinationEntry(d, amount)
           c == thisTxDelta[d]
           start == [balance |-> 0, numSubEntries |-> 0, seqNum |-> getStartingSequenceNumber]
<1>1. d \in Accounts /\ d \in Keys /\ amount \in Nat /\ pc = "ops"
  BY OpFacts, KeyFacts
<1>2. KeyInv(d, sql[d], c, savepoint[d])
  BY <1>1, OpsKeys
<1>3. getStartingSequenceNumber \in Nat
  <2>1. ledgerSeq \in Nat /\ SeqsPerLedger \in Nat
    BY LedgerCloseAssumption DEF IInv, TypeOK
  <2> QED
    BY <2>1 DEF getStartingSequenceNumber
<1>4. CASE sql[d] = Absent
  <2>1. new = [balance |-> amount, seqNum |-> getStartingSequenceNumber, numSubEntries |-> 0]
    BY <1>4 DEF DestinationEntry
  <2>2. new \in Entry /\ new.balance = amount /\ new.numSubEntries = 0
    BY <2>1, <1>1, <1>3 DEF Entry
  <2>3. amount >= getMinBalance(0)
    <3>1. ~(amount < getMinBalance(0))
      BY <1>4 DEF LowReserve
    <3> QED
      BY <3>1, <1>1, MinBalanceFacts
  <2>4. Solvent(new)
    BY <2>2, <2>3 DEF Solvent, getMinimumBalance
  <2>5. new \in EntriesOf(d) /\ new # Absent
    BY <2>2, <1>1, KeyFacts
  <2> HIDE DEF new
  <2>6. AddAllowed(c) /\ KeyInv(d, new, addEntry(c, new), savepoint[d])
    BY <2>4, <2>5, <1>1, <1>2, <1>4, AddKeeps
  <2>7. CreditedChange(d, amount) = modEntry(addEntry(c, start), new)
    BY <1>4 DEF CreditedChange, new
  <2>8. modEntry(addEntry(c, start), new) = addEntry(c, new)
    BY DEF modEntry, addEntry
  <2>9. CreditAllowed(d)
    BY <2>6, <1>4 DEF CreditAllowed, ModAllowed, addEntry
  <2>10. BalanceIn(sql, d) = 0
    BY <1>4 DEF BalanceIn
  <2> QED
    BY <2>2, <2>6, <2>7, <2>8, <2>9, <2>10, <1>1 DEF new
<1>5. CASE sql[d] # Absent
  <2>1. sql[d] \in Entry /\ Solvent(sql[d])
    BY <1>1, <1>2, <1>5, KeyFacts DEF KeyInv
  <2>2. new = [sql[d] EXCEPT !.balance = @ + amount]
    BY <1>5 DEF DestinationEntry
  <2>3. /\ new \in Entry
        /\ new.balance = sql[d].balance + amount
        /\ new.seqNum = sql[d].seqNum
        /\ new.numSubEntries = sql[d].numSubEntries
    BY <2>1, <2>2, <1>1 DEF Entry
  <2>4. Solvent(new)
    <3>1. sql[d].balance \in Nat /\ sql[d].numSubEntries \in Nat
      BY <2>1 DEF Entry
    <3>2. getMinBalance(sql[d].numSubEntries) \in Nat
      BY <3>1, MinBalanceFacts
    <3> QED
      BY <3>1, <3>2, <2>1, <2>3, <1>1 DEF Solvent, getMinimumBalance
  <2>5. new \in EntriesOf(d) /\ new # Absent
    BY <2>3, <1>1, KeyFacts
  <2>6. savepoint[d] # Absent => new.seqNum = savepoint[d].seqNum
    BY <2>3, <1>1, <1>2 DEF KeyInv
  <2> HIDE DEF new
  <2>7. ModAllowed(c) /\ KeyInv(d, new, modEntry(c, new), savepoint[d])
    BY <2>4, <2>5, <2>6, <1>1, <1>2, <1>5, StoreKeeps
  <2>8. CreditedChange(d, amount) = modEntry(c, new)
    BY <1>5 DEF CreditedChange, new
  <2>9. CreditAllowed(d)
    BY <2>7, <1>5 DEF CreditAllowed
  <2>10. BalanceIn(sql, d) = sql[d].balance
    BY <1>5 DEF BalanceIn
  <2> QED
    BY <2>3, <2>7, <2>8, <2>9, <2>10 DEF new
<1> QED
  BY <1>4, <1>5

\* A payment, with the account it may create and the credit it may leave behind.
LEMMA PaymentOp ==
    ASSUME IInv, opPayment
    PROVE  IInv'
<1> DEFINE d == Op0.destination
           s == Op0.source
           amount == Op0.amount
           paid == [Source EXCEPT !.balance = @ - amount]
           credited == DestinationEntry(d, amount)
           st == ghost.stale \/ (d = Src /\ ~Cached)
<1>1. AtOp /\ OpValid(Tx, Op0, Source) /\ Op0.type = "Payment" /\ d # s /\ ~LowReserve
  BY DEF opPayment
<1>2. /\ pc = "ops" /\ d \in Accounts /\ s \in Accounts /\ amount \in Nat
      /\ Src \in Accounts /\ d \in Keys /\ s \in Keys /\ Src \in Keys
  BY <1>1, OpFacts, KeyFacts
<1>3. /\ CreditAllowed(d)
      /\ credited \in Entry
      /\ credited.balance = BalanceIn(sql, d) + amount
      /\ KeyInv(d, credited, CreditedChange(d, amount), savepoint[d])
  BY <1>1, CreditKeeps
<1>4. /\ Source \in Entry /\ Solvent(Source)
      /\ sql[s] \in Entry
      /\ savepoint[s] # Absent => Source.seqNum = savepoint[s].seqNum
      /\ Cached => s = Src /\ Source = mSigningAccount
      /\ ~Cached => s # Src /\ Source = sql[s]
      /\ ~ghost.stale => Source = sql[s]
      /\ mSigningAccount \in Entry /\ Solvent(mSigningAccount)
  BY <1>1, SourceFacts
<1>5. \A k \in Keys : KeyInv(k, sql[k], thisTxDelta[k], savepoint[k])
  BY <1>2, OpsKeys
<1>6. /\ DOMAIN sql = Keys /\ DOMAIN thisTxDelta = Keys /\ IsTable(sql)
      /\ ghost \in Ghost /\ errorEncountered \in BOOLEAN
  BY DEF IInv, TypeOK, IsTable, IsChanges
<1>7. st \in BOOLEAN /\ ghost' = [ghost EXCEPT !.stale = st]
  BY <1>6 DEF opPayment, StaleGhost, Src, Ghost
<1>8. UNCHANGED opKept /\ next' = next + 1
  BY DEF opPayment
<1>9. ~ghost.stale => /\ mSigningAccount = sql[Src]
                      /\ errorEncountered \/ Balances(sql) = Balances(savepoint)
  BY <1>2 DEF IInv, MoneyInv
<1>10. /\ sql' = IF Refusal
                 THEN [sql EXCEPT ![d] = credited]
                 ELSE [sql EXCEPT ![d] = credited, ![s] = paid]
       /\ thisTxDelta' =
             IF Refusal
             THEN [thisTxDelta EXCEPT ![d] = CreditedChange(d, amount)]
             ELSE [thisTxDelta EXCEPT ![d] = CreditedChange(d, amount),
                                      ![s] = modEntry(@, paid)]
       /\ mSigningAccount' = IF Cached /\ ~Refusal THEN paid ELSE mSigningAccount
       /\ pc' = IF CreditAllowed(d) /\ (Refusal \/ ModAllowed(thisTxDelta[s]))
                THEN pc ELSE "aborted"
       /\ errorEncountered' = (errorEncountered \/ Refusal)
  BY DEF opPayment
<1>11. CASE Refusal
  <2>1. pc' = "ops" /\ errorEncountered' = TRUE /\ mSigningAccount' = mSigningAccount
    BY <1>2, <1>3, <1>10, <1>11
  <2>2. /\ sql'[d] = credited /\ thisTxDelta'[d] = CreditedChange(d, amount)
        /\ DOMAIN sql' = Keys /\ DOMAIN thisTxDelta' = Keys
        /\ \A k \in Keys \ {d} : sql'[k] = sql[k] /\ thisTxDelta'[k] = thisTxDelta[k]
    BY <1>2, <1>6, <1>10, <1>11
  <2> HIDE DEF d, s, amount, paid, credited
  <2>3. \A k \in Keys : KeyInv(k, sql'[k], thisTxDelta'[k], savepoint[k])
    BY <2>2, <1>3, <1>5
  <2>4. ~st => /\ ~ghost.stale
               /\ mSigningAccount' = sql'[Src]
               /\ errorEncountered' \/ Balances(sql') = Balances(savepoint)
    BY <2>1, <2>2, <1>1, <1>2, <1>4, <1>9
  <2> HIDE DEF st
  <2> QED
    BY <2>1, <2>2, <2>3, <2>4, <1>2, <1>4, <1>7, <1>8, OpsStep
<1>12. CASE ~Refusal
  <2>1. /\ paid \in Entry /\ paid.balance = Source.balance - amount
        /\ paid.seqNum = Source.seqNum /\ Solvent(paid)
    <3>1. ~Underfunded(Source, amount)
      BY <1>12 DEF Refusal
    <3>2. /\ Source.balance \in Nat /\ Source.numSubEntries \in Nat
          /\ Source.seqNum \in Nat
      BY <1>4 DEF Entry
    <3>3. getMinimumBalance(Source) \in Nat
      BY <3>2, MinBalanceFacts DEF getMinimumBalance
    <3>4. Source.balance - amount \in Nat
          /\ Source.balance - amount >= getMinimumBalance(Source)
      BY <3>1, <3>2, <3>3, <1>2 DEF Underfunded
    <3>5. /\ paid \in Entry /\ paid.balance = Source.balance - amount
          /\ paid.seqNum = Source.seqNum /\ paid.numSubEntries = Source.numSubEntries
      BY <3>4, <1>4 DEF Entry
    <3> QED
      BY <3>4, <3>5 DEF Solvent, getMinimumBalance
  <2>2. ModAllowed(thisTxDelta[s])
        /\ KeyInv(s, paid, modEntry(thisTxDelta[s], paid), savepoint[s])
    <3> HIDE DEF paid
    <3>1. paid \in EntriesOf(s) /\ paid # Absent /\ sql[s] # Absent
      BY <2>1, <1>2, <1>4, KeyFacts
    <3>2. savepoint[s] # Absent => paid.seqNum = savepoint[s].seqNum
      BY <2>1, <1>4
    <3>3. KeyInv(s, sql[s], thisTxDelta[s], savepoint[s])
      BY <1>2, <1>5
    <3> QED
      BY <3>1, <3>2, <3>3, <2>1, <1>2, StoreKeeps
  <2>3. /\ pc' = "ops" /\ errorEncountered' = errorEncountered
        /\ mSigningAccount' = IF Cached THEN paid ELSE mSigningAccount
    BY <2>2, <1>2, <1>3, <1>6, <1>10, <1>12
  <2>4. /\ sql'[d] = credited /\ thisTxDelta'[d] = CreditedChange(d, amount)
        /\ sql'[s] = paid /\ thisTxDelta'[s] = modEntry(thisTxDelta[s], paid)
        /\ DOMAIN sql' = Keys /\ DOMAIN thisTxDelta' = Keys
        /\ \A k \in Keys \ {d, s} : sql'[k] = sql[k] /\ thisTxDelta'[k] = thisTxDelta[k]
    BY <1>1, <1>2, <1>6, <1>10, <1>12
  <2> DEFINE mid == [sql EXCEPT ![d] = credited]
  <2>5. IsTable(mid) /\ mid[d] = credited /\ \A k \in Keys \ {d} : mid[k] = sql[k]
    BY <1>2, <1>3, <1>6, KeyFacts DEF IsTable
  <2> HIDE DEF d, s, amount, paid, credited, mid
  <2>6. \A k \in Keys : KeyInv(k, sql'[k], thisTxDelta'[k], savepoint[k])
    BY <2>2, <2>4, <1>3, <1>5
  <2>7. IsTable(sql')
    BY <2>4, <2>6 DEF IsTable, KeyInv
  <2>8. ~ghost.stale => Balances(sql') = Balances(sql)
    <3> SUFFICES ASSUME ~ghost.stale PROVE Balances(sql') = Balances(sql)
      OBVIOUS
    <3>1. Balances(mid) = Balances(sql) + (BalanceIn(mid, d) - BalanceIn(sql, d))
      BY <2>5, <1>2, <1>6, KeyFacts, BalancesUpdate
    <3>2. \A a \in Accounts \ {s} : sql'[a] = mid[a]
      BY <2>4, <2>5, <1>2, KeyFacts
    <3>3. Balances(sql') = Balances(mid) + (BalanceIn(sql', s) - BalanceIn(mid, s))
      BY <3>2, <2>5, <2>7, <1>2, BalancesUpdate
    <3>4. credited # Absent /\ paid # Absent /\ sql[s] # Absent
      BY <1>3, <1>4, <2>1, KeyFacts
    <3>5. BalanceIn(mid, d) = BalanceIn(sql, d) + amount
      BY <3>4, <2>5, <1>3 DEF BalanceIn
    <3>6. BalanceIn(mid, s) = sql[s].balance /\ BalanceIn(sql', s) = sql[s].balance - amount
      BY <3>4, <2>1, <2>4, <2>5, <1>1, <1>2, <1>4 DEF BalanceIn, d, s
    <3>7. Balances(sql) \in Nat /\ BalanceIn(sql, d) \in Nat /\ sql[s].balance \in Nat
      BY <1>2, <1>4, <1>6, BalancesNat DEF Entry
    <3> QED
      BY <3>1, <3>3, <3>5, <3>6, <3>7, <1>2
  <2>9. ~st => /\ ~ghost.stale
               /\ mSigningAccount' = sql'[Src]
               /\ errorEncountered' \/ Balances(sql') = Balances(savepoint)
    BY <2>3, <2>4, <2>8, <1>1, <1>2, <1>4, <1>9
  <2>10. /\ mSigningAccount' \in Entry /\ Solvent(mSigningAccount')
         /\ mSigningAccount'.seqNum = mSigningAccount.seqNum
    BY <2>1, <2>3, <1>4
  <2> HIDE DEF st
  <2> QED
    BY <2>3, <2>4, <2>6, <2>9, <2>10, <1>2, <1>6, <1>7, <1>8, OpsStep
<1> QED
  BY <1>11, <1>12

\* addNumEntries asks for the reserve of what it counts, so the account stays
\* solvent; a count that goes down asks for less.
LEMMA CountFacts ==
    ASSUME NEW e \in Entry, Solvent(e), NEW count \in {1, -1},
           count = -1 => e.numSubEntries > 0
    PROVE  LET n == addNumEntries(e, count) IN
           n \in Entry /\ Solvent(n) /\ n.balance = e.balance /\ n.seqNum = e.seqNum
<1> DEFINE n == addNumEntries(e, count)
           m == e.numSubEntries + count
<1>1. e.numSubEntries \in Nat /\ e.balance \in Nat /\ e.seqNum \in Nat /\ m \in Nat
  BY DEF Entry
<1>2. getMinBalance(m) \in Nat
  BY <1>1, MinBalanceFacts
<1>3. CASE e.balance < getMinBalance(m)
  <2>1. n = e
    BY <1>3 DEF addNumEntries
  <2> QED
    BY <2>1
<1>4. CASE ~(e.balance < getMinBalance(m))
  <2>1. n = [e EXCEPT !.numSubEntries = @ + count]
    BY <1>4 DEF addNumEntries
  <2>2. /\ n \in Entry /\ n.balance = e.balance /\ n.seqNum = e.seqNum
        /\ n.numSubEntries = m
    BY <2>1, <1>1 DEF Entry
  <2>3. e.balance >= getMinBalance(m)
    BY <1>1, <1>2, <1>4
  <2> QED
    BY <2>2, <2>3 DEF Solvent, getMinimumBalance
<1> QED
  BY <1>3, <1>4

\* ChangeTrust: a line and its owner are written.
LEMMA TrustStore ==
    ASSUME IInv, AtTrust, UNCHANGED <<opKept, errorEncountered, ghost>>,
           pc' = "ops", next' = next + 1,
           NEW account \in Entry, Solvent(account),
           account.balance = Source.balance, account.seqNum = Source.seqNum,
           NEW line, NEW change,
           KeyInv(Line(Op0.source), line, change, savepoint[Line(Op0.source)]),
           sql' = [sql EXCEPT ![Op0.source] = account, ![Line(Op0.source)] = line],
           thisTxDelta' = [thisTxDelta EXCEPT
                             ![Op0.source] = modEntry(@, account),
                             ![Line(Op0.source)] = change],
           mSigningAccount' = IF Cached THEN account ELSE mSigningAccount
    PROVE  IInv'
<1> DEFINE s == Op0.source
           l == Line(s)
<1>1. AtOp /\ OpValid(Tx, Op0, Source)
  BY DEF AtTrust
<1>2. /\ pc = "ops" /\ s \in Accounts /\ s \in Keys /\ l \in Keys /\ l \notin Accounts
      /\ Src \in Accounts /\ Src \in Keys
  BY <1>1, OpFacts, KeyFacts
<1>3. /\ Source \in Entry /\ Solvent(Source)
      /\ sql[s] \in Entry
      /\ savepoint[s] # Absent => Source.seqNum = savepoint[s].seqNum
      /\ Cached => s = Src /\ Source = mSigningAccount
      /\ ~Cached => s # Src /\ Source = sql[s]
      /\ ~ghost.stale => Source = sql[s]
      /\ mSigningAccount \in Entry /\ Solvent(mSigningAccount)
  BY <1>1, SourceFacts
<1>4. \A k \in Keys : KeyInv(k, sql[k], thisTxDelta[k], savepoint[k])
  BY <1>2, OpsKeys
<1>5. /\ DOMAIN sql = Keys /\ DOMAIN thisTxDelta = Keys /\ IsTable(sql)
      /\ ghost \in Ghost /\ errorEncountered \in BOOLEAN
  BY DEF IInv, TypeOK, IsTable, IsChanges
<1>6. /\ sql'[s] = account /\ sql'[l] = line
      /\ thisTxDelta'[s] = modEntry(thisTxDelta[s], account)
      /\ thisTxDelta'[l] = change
      /\ DOMAIN sql' = Keys /\ DOMAIN thisTxDelta' = Keys
      /\ \A k \in Keys \ {s, l} : sql'[k] = sql[k] /\ thisTxDelta'[k] = thisTxDelta[k]
  BY <1>2, <1>5
<1>7. KeyInv(l, line, change, savepoint[l])
  OBVIOUS
<1>8. /\ ghost' = [ghost EXCEPT !.stale = ghost.stale] /\ ghost.stale \in BOOLEAN
      /\ errorEncountered' = errorEncountered
      /\ UNCHANGED opKept
  BY <1>5 DEF Ghost
<1> HIDE DEF s, l
<1>9. KeyInv(s, account, modEntry(thisTxDelta[s], account), savepoint[s])
  <2>1. account \in EntriesOf(s) /\ account # Absent /\ sql[s] # Absent
    BY <1>2, <1>3, KeyFacts
  <2>2. savepoint[s] # Absent => account.seqNum = savepoint[s].seqNum
    BY <1>3
  <2>3. KeyInv(s, sql[s], thisTxDelta[s], savepoint[s])
    BY <1>2, <1>4
  <2> QED
    BY <2>1, <2>2, <2>3, <1>2, StoreKeeps
<1>10. \A k \in Keys : KeyInv(k, sql'[k], thisTxDelta'[k], savepoint[k])
  BY <1>4, <1>6, <1>7, <1>9
<1>11. ~ghost.stale => Balances(sql') = Balances(sql)
  <2> SUFFICES ASSUME ~ghost.stale PROVE Balances(sql') = Balances(sql)
    OBVIOUS
  <2>1. IsTable(sql')
    BY <1>6, <1>10 DEF IsTable, KeyInv
  <2>2. \A a \in Accounts \ {s} : sql'[a] = sql[a]
    BY <1>2, <1>6, KeyFacts
  <2>3. Balances(sql') = Balances(sql) + (BalanceIn(sql', s) - BalanceIn(sql, s))
    BY <2>1, <2>2, <1>2, <1>5, BalancesUpdate
  <2>4. BalanceIn(sql', s) = BalanceIn(sql, s)
    BY <1>3, <1>6, KeyFacts DEF BalanceIn
  <2>5. Balances(sql) \in Nat /\ BalanceIn(sql, s) \in Nat
    BY <1>2, <1>5, BalancesNat
  <2> QED
    BY <2>3, <2>4, <2>5
<1>12. ~ghost.stale => /\ mSigningAccount' = sql'[Src]
                       /\ errorEncountered' \/ Balances(sql') = Balances(savepoint)
  <2>1. ~ghost.stale => /\ mSigningAccount = sql[Src]
                        /\ errorEncountered \/ Balances(sql) = Balances(savepoint)
    BY <1>2 DEF IInv, MoneyInv
  <2>2. ~Cached => sql'[Src] = sql[Src]
    BY <1>2, <1>3, <1>6
  <2> QED
    BY <2>1, <2>2, <1>3, <1>6, <1>8, <1>11
<1>13. /\ mSigningAccount' \in Entry /\ Solvent(mSigningAccount')
       /\ mSigningAccount'.seqNum = mSigningAccount.seqNum
  BY <1>3
<1> QED
  BY <1>2, <1>5, <1>6, <1>8, <1>10, <1>12, <1>13, OpsStep

\* The key of the source's line and what ModAllowed asks of the source.
LEMMA TrustFacts ==
    ASSUME IInv, AtTrust
    PROVE  LET l == Line(Op0.source) IN
           /\ pc = "ops" /\ l \in Keys /\ l \notin Accounts /\ Op0.limit \in Nat
           /\ EntriesOf(l) = LineEntry \cup {Absent}
           /\ KeyInv(l, SourceLine, thisTxDelta[l], savepoint[l])
           /\ ModAllowed(thisTxDelta[Op0.source])
           /\ Source \in Entry /\ Solvent(Source)
<1> DEFINE l == Line(Op0.source)
<1>1. AtOp /\ OpValid(Tx, Op0, Source) /\ Op0.type = "ChangeTrust"
  BY DEF AtTrust
<1>2. /\ pc = "ops" /\ Op0.limit \in Nat /\ Op0.source \in Keys /\ Op0.source \in Accounts
      /\ l \in Keys /\ l \notin Accounts /\ EntriesOf(l) = LineEntry \cup {Absent}
  BY <1>1, OpFacts, KeyFacts
<1>3. KeyInv(l, SourceLine, thisTxDelta[l], savepoint[l])
  BY <1>2, OpsKeys DEF SourceLine
<1>4. KeyInv(Op0.source, sql[Op0.source], thisTxDelta[Op0.source], savepoint[Op0.source])
  BY <1>2, OpsKeys
<1>5. Source \in Entry /\ Solvent(Source)
  BY <1>1, SourceFacts
<1> QED
  BY <1>2, <1>3, <1>4, <1>5 DEF KeyInv, ModAllowed

\* A trust line comes or goes, and the count of its account with it.
LEMMA TrustOp ==
    ASSUME IInv, opNewLine \/ opDropLine
    PROVE  IInv'
<1> DEFINE l == Line(Op0.source)
           c == thisTxDelta[l]
<1>1. AtTrust
  BY DEF opNewLine, opDropLine
<1>2. /\ pc = "ops" /\ l \in Keys /\ l \notin Accounts /\ Op0.limit \in Nat
      /\ EntriesOf(l) = LineEntry \cup {Absent}
      /\ KeyInv(l, SourceLine, c, savepoint[l])
      /\ ModAllowed(thisTxDelta[Op0.source])
      /\ Source \in Entry /\ Solvent(Source)
  BY <1>1, TrustFacts
<1>3. CASE opNewLine
  <2> DEFINE line == [limit |-> Op0.limit]
             account == addNumEntries(Source, 1)
  <2>1. SourceLine = Absent /\ storeSourceAnd(account, line, addEntry(c, line), AddAllowed(c))
    BY <1>3 DEF opNewLine
  <2>2. line \in EntriesOf(l) /\ line # Absent
    BY <1>2, KeyFacts DEF LineEntry
  <2>3. AddAllowed(c) /\ KeyInv(l, line, addEntry(c, line), savepoint[l])
    <3> HIDE DEF line, l, c
    <3> QED
      BY <2>1, <2>2, <1>2, AddKeeps
  <2>4. /\ account \in Entry /\ Solvent(account)
        /\ account.balance = Source.balance /\ account.seqNum = Source.seqNum
    BY <1>2, CountFacts
  <2>5. /\ sql' = [sql EXCEPT ![Op0.source] = account, ![l] = line]
        /\ thisTxDelta' = [thisTxDelta EXCEPT ![Op0.source] = modEntry(@, account),
                                              ![l] = addEntry(c, line)]
        /\ mSigningAccount' = IF Cached THEN account ELSE mSigningAccount
        /\ next' = next + 1
        /\ UNCHANGED <<opKept, errorEncountered, ghost>>
        /\ pc' = "ops"
    BY <2>1, <2>3, <1>2 DEF storeSourceAnd
  <2> HIDE DEF line, account
  <2> QED
    BY <2>3, <2>4, <2>5, <1>1, TrustStore
<1>4. CASE opDropLine
  <2> DEFINE account == addNumEntries(Source, -1)
  <2>1. /\ SourceLine # Absent /\ Source.numSubEntries > 0
        /\ storeSourceAnd(account, Absent, deleteEntry(c), DeleteAllowed(c))
    BY <1>4 DEF opDropLine
  <2>2. DeleteAllowed(c) /\ KeyInv(l, Absent, deleteEntry(c), savepoint[l])
    <3> HIDE DEF l, c
    <3> QED
      BY <2>1, <1>2, DeleteKeeps
  <2>3. /\ account \in Entry /\ Solvent(account)
        /\ account.balance = Source.balance /\ account.seqNum = Source.seqNum
    BY <2>1, <1>2, CountFacts
  <2>4. /\ sql' = [sql EXCEPT ![Op0.source] = account, ![l] = Absent]
        /\ thisTxDelta' = [thisTxDelta EXCEPT ![Op0.source] = modEntry(@, account),
                                              ![l] = deleteEntry(c)]
        /\ mSigningAccount' = IF Cached THEN account ELSE mSigningAccount
        /\ next' = next + 1
        /\ UNCHANGED <<opKept, errorEncountered, ghost>>
        /\ pc' = "ops"
    BY <2>1, <2>2, <1>2 DEF storeSourceAnd
  <2> HIDE DEF account
  <2> QED
    BY <2>2, <2>3, <2>4, <1>1, TrustStore
<1> QED
  BY <1>3, <1>4

\* The limit of a line changes.
LEMMA ChangeLineOp ==
    ASSUME IInv, opChangeLine
    PROVE  IInv'
<1> DEFINE l == Line(Op0.source)
           c == thisTxDelta[l]
           line == [limit |-> Op0.limit]
<1>1. AtTrust /\ SourceLine # Absent
  BY DEF opChangeLine
<1>2. /\ pc = "ops" /\ l \in Keys /\ l \notin Accounts /\ Op0.limit \in Nat
      /\ EntriesOf(l) = LineEntry \cup {Absent}
      /\ KeyInv(l, SourceLine, c, savepoint[l])
  BY <1>1, TrustFacts
<1>3. line \in EntriesOf(l) /\ line # Absent
  BY <1>2, KeyFacts DEF LineEntry
<1>4. ModAllowed(c) /\ KeyInv(l, line, modEntry(c, line), savepoint[l])
  <2> HIDE DEF line, l, c
  <2> QED
    BY <1>1, <1>2, <1>3, StoreKeeps
<1>5. sql[l] \in LineEntry
  BY <1>1, <1>2 DEF KeyInv, SourceLine
<1>6. [sql[l] EXCEPT !.limit = Op0.limit] = line
  BY <1>5 DEF LineEntry
<1>7. /\ DOMAIN sql = Keys /\ DOMAIN thisTxDelta = Keys
      /\ ghost \in Ghost /\ errorEncountered \in BOOLEAN
  BY DEF IInv, TypeOK, IsTable, IsChanges
<1>8. /\ sql'[l] = line /\ thisTxDelta'[l] = modEntry(c, line)
      /\ DOMAIN sql' = Keys /\ DOMAIN thisTxDelta' = Keys
      /\ \A k \in Keys \ {l} : sql'[k] = sql[k] /\ thisTxDelta'[k] = thisTxDelta[k]
  BY <1>2, <1>6, <1>7 DEF opChangeLine
<1>9. /\ pc' = "ops" /\ next' = next + 1
      /\ UNCHANGED opKept /\ mSigningAccount' = mSigningAccount
      /\ errorEncountered' = errorEncountered
      /\ ghost' = [ghost EXCEPT !.stale = ghost.stale] /\ ghost.stale \in BOOLEAN
  BY <1>2, <1>4, <1>7 DEF opChangeLine, Ghost
<1>10. \A k \in Keys : KeyInv(k, sql'[k], thisTxDelta'[k], savepoint[k])
  <2> HIDE DEF line, l, c
  <2> QED
    BY <1>2, <1>4, <1>8, OpsKeys DEF c
<1>11. \A a \in Accounts : sql'[a] = sql[a]
  BY <1>2, <1>8, KeyFacts
<1>12. Balances(sql') = Balances(sql)
  BY <1>11, BalancesSame
<1>13. Src \in Accounts
  BY <1>1, OpFacts DEF AtTrust
<1>14. ~ghost.stale => /\ mSigningAccount' = sql'[Src]
                       /\ errorEncountered' \/ Balances(sql') = Balances(savepoint)
  BY <1>2, <1>9, <1>11, <1>12, <1>13 DEF IInv, MoneyInv
<1>15. mSigningAccount' \in Entry /\ Solvent(mSigningAccount')
  BY <1>2, <1>9 DEF IInv, TypeOK, SolventInv
<1> QED
  BY <1>2, <1>7, <1>8, <1>9, <1>10, <1>14, <1>15, OpsStep

-----------------------------------------------------------------------------
(* The beginning and the end of a transaction.                             *)

\* The close so far, key by key.
LEMMA ClosedIsAfter ==
    \A k \in Keys : Closed[k] = After(ledgerDelta.changes[k], list[k])
BY DEF Closed, addBatch, After

\* A transaction that got as far as the balance has an account and comes next.
LEMMA CodeFacts ==
    ASSUME NEW tx \in Txs,
           ResultCode(tx, sql, 0) \in {"txINSUFFICIENT_BALANCE", "txSUCCESS"}
    PROVE  /\ sql[tx.sourceAccount] # Absent
           /\ tx.seqNum = 1 + sql[tx.sourceAccount].seqNum
BY DEF ResultCode

\* The invariant between transactions, from what the step left.
LEMMA BetweenTxs ==
    ASSUME TypeOK', pc' \in {"apply", "open"}, ListInv', IsSolvent(sql'),
           \A tx \in ghost'.consumed : /\ sql'[tx.sourceAccount] # Absent
                                       /\ sql'[tx.sourceAccount].seqNum >= tx.seqNum,
           ~ghost'.stale =>
               Balances(sql') + ledgerDelta'.feePool + ghost'.lost = ghost'.total
    PROVE  IInv'
<1>1. pc' # "ops" /\ pc' # "aborted"
  OBVIOUS
<1>2. Base' = sql' /\ Pool' = ledgerDelta'.feePool
  BY <1>1 DEF Base, Pool
<1>3. Balances(Base)' = Balances(sql')
  BY <1>2 DEF Balances, BalanceIn
<1>4. TxInv' /\ NoAbort' /\ SolventInv' /\ SeqInv'
  BY <1>1, <1>2 DEF TxInv, NoAbort, SolventInv, SeqInv, IsSolvent
<1>5. MoneyInv'
  BY <1>1, <1>2, <1>3 DEF MoneyInv
<1> QED
  BY <1>4, <1>5 DEF IInv

\* prepareResult takes the fee of a valid transaction, and sqlTx begins.
LEMMA BeginStep ==
    ASSUME IInv, txBegin
    PROVE  IInv'
<1> DEFINE a == Tx.sourceAccount
           charged == Charged(sql[a], Tx)
           taken == FeeTaken(sql[a], getFee(Tx))
<1>1. pc = "apply" /\ txs # <<>> /\ ResultCode(Tx, sql, 0) = "txSUCCESS" /\ pc' = "ops"
  BY DEF txBegin
<1>2. Tx \in Txs /\ a \in Accounts /\ a \in Keys /\ Src = a
  BY <1>1, TxIsTx DEF IInv, Src
<1>3. sql[a] # Absent /\ Tx.seqNum = 1 + sql[a].seqNum
  BY <1>1, <1>2, CodeFacts
<1>4. IsTable(sql) /\ DOMAIN sql = Keys /\ sql[a] \in Entry /\ Solvent(sql[a])
  <2>1. IsTable(sql) /\ IsSolvent(sql)
    BY DEF IInv, TypeOK, SolventInv
  <2> QED
    BY <2>1, <1>2, <1>3, KeyFacts DEF IsTable, IsSolvent
<1>5. /\ taken \in Nat /\ charged \in Entry /\ charged.balance = sql[a].balance - taken
      /\ charged.seqNum = Tx.seqNum /\ Solvent(charged)
  BY <1>2, <1>4, FeeFacts
<1>6. charged # Absent /\ charged \in EntriesOf(a)
  BY <1>2, <1>5, KeyFacts
<1>7. /\ sql' = [sql EXCEPT ![a] = charged]
      /\ savepoint' = sql'
      /\ mSigningAccount' = charged
      /\ delta' = [changes |-> [NoChanges EXCEPT ![a] = modEntry(@, charged)],
                   feePool |-> ledgerDelta.feePool + taken]
      /\ thisTxDelta' = NoChanges
      /\ next' = 1 /\ errorEncountered' = FALSE
      /\ UNCHANGED <<list, ledgerSeq, feePool, txs, ledgerDelta, ghost>>
  BY DEF txBegin, sqlTx
<1>8. NoChanges[a] = Nothing /\ modEntry(Nothing, charged) = [in |-> "mMod", entry |-> charged]
  BY <1>2 DEF NoChanges, modEntry, Nothing
<1>9. /\ delta'.changes = [NoChanges EXCEPT ![a] = [in |-> "mMod", entry |-> charged]]
      /\ delta'.feePool = ledgerDelta.feePool + taken
  BY <1>7, <1>8
<1> HIDE DEF charged, taken
<1>10. /\ sql'[a] = charged /\ DOMAIN sql' = Keys
       /\ \A k \in Keys \ {a} : sql'[k] = sql[k]
  BY <1>2, <1>4, <1>7
<1>11. IsTable(sql') /\ IsSolvent(sql')
  BY <1>4, <1>5, <1>6, <1>10, KeyFacts DEF IsTable, IsSolvent, IInv, SolventInv
<1>12. ledgerDelta.feePool \in Nat /\ ghost \in Ghost
  BY DEF IInv, TypeOK
<1>13. \A k \in Keys : NoChanges[k].in = "none" /\ NoChanges[k].entry = Absent
  BY DEF NoChanges, Nothing
<1>14. IsChanges(NoChanges) /\ Fits(NoChanges, savepoint') /\ AccountsStay(NoChanges)
  BY <1>13, KeyFacts DEF IsChanges, Fits, ChangeFits, AccountsStay, NoChanges
<1>15. IsChanges(delta'.changes)
  <2>1. DOMAIN delta'.changes = Keys
    BY <1>9 DEF NoChanges
  <2>2. \A k \in Keys : delta'.changes[k] = IF k = a THEN [in |-> "mMod", entry |-> charged]
                                            ELSE NoChanges[k]
    BY <1>9 DEF NoChanges
  <2> QED
    BY <2>1, <2>2, <1>6, <1>13, KeyFacts DEF IsChanges
<1>16. TypeOK'
  <2>1. IsTable(sql)' /\ IsTable(savepoint)' /\ IsTable(list)'
    BY <1>7, <1>11 DEF IInv, TypeOK, IsTable
  <2>2. /\ IsChanges(ledgerDelta.changes)' /\ IsChanges(delta.changes)'
        /\ IsChanges(thisTxDelta)'
    BY <1>7, <1>14, <1>15 DEF IInv, TypeOK, IsChanges
  <2>3. delta'.feePool \in Nat /\ ledgerDelta'.feePool \in Nat
    BY <1>5, <1>7, <1>9, <1>12
  <2> QED
    <3>1. /\ ledgerSeq' = ledgerSeq /\ feePool' = feePool /\ txs' = txs
          /\ mSigningAccount' = charged /\ next' = 1 /\ errorEncountered' = FALSE
          /\ ghost' = ghost
      BY <1>7
    <3>2. /\ ledgerSeq \in Nat /\ feePool \in Nat /\ txs \in Seq(Txs) /\ ghost \in Ghost
      BY DEF IInv, TypeOK
    <3>3. /\ pc' \in {"open", "apply", "ops", "aborted"}
          /\ ledgerSeq' \in Nat /\ feePool' \in Nat
          /\ txs' \in Seq(Txs)
          /\ mSigningAccount' \in Entry \cup {Absent}
          /\ next' \in Nat \ {0}
          /\ ghost' \in Ghost
      BY <3>1, <3>2, <1>1, <1>5
    <3>4. errorEncountered' \in BOOLEAN
      BY <3>1
    <3> QED
      BY <3>3, <3>4, <2>1, <2>2, <2>3 DEF TypeOK
<1>17. Tx' = Tx /\ Src' = a /\ Closed' = Closed /\ Base' = sql' /\ Pool' = delta'.feePool
  BY <1>1, <1>7 DEF Tx, Src, Closed, Base, Pool, addBatch
<1>18. \A k \in Keys : (sql[k] = Absent <=> Closed[k] = Absent)
                       /\ (k \notin ghost.dirty => sql[k] = Closed[k])
  BY <1>1 DEF IInv, ListInv, Base
<1>19. ListInv'
  <2>1. Fits(ledgerDelta.changes, list)' /\ AccountsStay(ledgerDelta.changes)'
    BY <1>7 DEF IInv, ListInv, Fits, AccountsStay
  <2>2. \A k \in Keys : Base'[k] = Absent <=> Closed'[k] = Absent
    BY <1>3, <1>6, <1>10, <1>17, <1>18
  <2>3. \A k \in Keys \ ghost'.dirty : k # Src' => Base'[k] = Closed'[k]
    BY <1>7, <1>10, <1>17, <1>18
  <2> QED
    BY <2>1, <2>2, <2>3, <1>1 DEF ListInv
<1>20. \A tx \in ghost.consumed : /\ tx \in Txs
                                  /\ sql[tx.sourceAccount] # Absent
                                  /\ sql[tx.sourceAccount].seqNum >= tx.seqNum
  BY <1>1 DEF IInv, SeqInv, Base, TypeOK, Ghost
<1>21. sql[a].seqNum \in Nat
  BY <1>4 DEF Entry
<1>22. TxInv'
  <2>1. Tx \notin ghost.consumed
    BY <1>3, <1>20, <1>21, <1>2, TxFacts
  <2>2. \A k \in Keys : sql'[k] = After(thisTxDelta'[k], savepoint'[k])
    BY <1>7, <1>13 DEF After
  <2>3. delta'.feePool >= ledgerDelta'.feePool
    BY <1>5, <1>7, <1>9, <1>12
  <2>4. delta'.changes =
            [NoChanges EXCEPT ![Src'] = [in |-> "mMod", entry |-> savepoint'[Src']]]
    BY <1>7, <1>9, <1>10, <1>17
  <2>5. Fits(thisTxDelta, savepoint)' /\ AccountsStay(thisTxDelta)'
    BY <1>7, <1>14
  <2> QED
    BY <2>1, <2>2, <2>3, <2>4, <2>5, <1>1, <1>7, <1>17 DEF TxInv
<1>23. SolventInv'
  BY <1>5, <1>6, <1>7, <1>11 DEF SolventInv
<1>24. SeqInv'
  <2>1. \A tx \in ghost.consumed : /\ sql'[tx.sourceAccount] # Absent
                                   /\ sql'[tx.sourceAccount].seqNum >= tx.seqNum
    <3> SUFFICES ASSUME NEW tx \in ghost.consumed
                 PROVE  /\ sql'[tx.sourceAccount] # Absent
                        /\ sql'[tx.sourceAccount].seqNum >= tx.seqNum
      OBVIOUS
    <3>1. tx.sourceAccount \in Accounts /\ tx.seqNum \in Nat /\ tx.sourceAccount \in Keys
      BY <1>20, TxFacts, KeyFacts
    <3>2. CASE tx.sourceAccount = a
      BY <3>1, <3>2, <1>3, <1>5, <1>6, <1>10, <1>20, <1>21
    <3>3. CASE tx.sourceAccount # a
      BY <3>1, <3>3, <1>10, <1>20
    <3> QED
      BY <3>2, <3>3
  <2>2. \A b \in Accounts : savepoint'[b] # Absent =>
            sql'[b] # Absent /\ sql'[b].seqNum = savepoint'[b].seqNum
    BY <1>7
  <2> QED
    BY <2>1, <2>2, <1>5, <1>6, <1>7, <1>10, <1>17 DEF SeqInv
<1>25. MoneyInv'
  <2>1. Balances(sql') = Balances(sql) + (BalanceIn(sql', a) - BalanceIn(sql, a))
    BY <1>2, <1>4, <1>10, <1>11, KeyFacts, BalancesUpdate
  <2>2. BalanceIn(sql', a) = sql[a].balance - taken /\ BalanceIn(sql, a) = sql[a].balance
    BY <1>3, <1>5, <1>6, <1>10 DEF BalanceIn
  <2>3. Balances(sql) \in Nat /\ sql[a].balance \in Nat
    BY <1>4, BalancesNat DEF Entry
  <2>4. Balances(Base)' = Balances(sql')
    BY <1>17 DEF Balances, BalanceIn
  <2>5. Balances(savepoint)' = Balances(sql')
    BY <1>7 DEF Balances, BalanceIn
  <2>6. ~ghost.stale => Balances(sql) + ledgerDelta.feePool + ghost.lost = ghost.total
    BY <1>1 DEF IInv, MoneyInv, Base, Pool
  <2>7. ghost.lost \in Nat
    BY <1>12 DEF Ghost
  <2>8. ~ghost.stale => Balances(sql') + delta'.feePool + ghost.lost = ghost.total
    BY <2>1, <2>2, <2>3, <2>6, <2>7, <1>5, <1>9, <1>12
  <2> QED
    BY <2>4, <2>5, <2>8, <1>7, <1>10, <1>17 DEF MoneyInv
<1> QED
  BY <1>1, <1>16, <1>19, <1>22, <1>23, <1>24, <1>25 DEF IInv, NoAbort

\* A rejected transaction pays what it can and uses its sequence number, or
\* does nothing.
LEMMA RejectedGhostFacts ==
    ASSUME TypeOK, txs # <<>>, NEW fee \in Nat, ghost' = RejectedGhost(fee)
    PROVE  /\ ghost' \in Ghost
           /\ ghost'.total = ghost.total /\ ghost'.lost = ghost.lost + fee
           /\ ghost'.dirty = ghost.dirty \cup {Src} /\ ghost'.stale = ghost.stale
           /\ ghost'.consumed = ghost.consumed \cup {Tx}
<1>1. ghost \in Ghost /\ Tx \in Txs /\ Src \in Accounts
  BY TxIsTx DEF TypeOK
<1>2. ghost' = [ghost EXCEPT !.lost = ghost.lost + fee,
                             !.dirty = ghost.dirty \cup {Src},
                             !.consumed = ghost.consumed \cup {Tx}]
  BY DEF RejectedGhost, Src
<1>3. ghost.lost + fee \in Nat
  BY <1>1 DEF Ghost
<1> QED
  BY <1>1, <1>2, <1>3 DEF Ghost

\* closeLedger rejects a transaction, whose fee may be taken all the same.
LEMMA RejectedStep ==
    ASSUME IInv, txRejected
    PROVE  IInv'
<1> DEFINE a == Tx.sourceAccount
           code == ResultCode(Tx, sql, 0)
           charges == code = "txINSUFFICIENT_BALANCE" /\ ~FeeThrows(Tx)
           charged == Charged(sql[a], Tx)
           taken == FeeTaken(sql[a], getFee(Tx))
<1>1. pc = "apply" /\ txs # <<>> /\ pc' = "apply" /\ txs' = Tail(txs)
  BY DEF txRejected
<1>2. TypeOK /\ Tx \in Txs /\ a \in Accounts /\ a \in Keys /\ Src = a /\ txs' \in Seq(Txs)
  BY <1>1, TxIsTx DEF IInv, Src
<1>3. /\ list' = list /\ ledgerSeq' = ledgerSeq /\ feePool' = feePool
      /\ ledgerDelta' = ledgerDelta /\ delta' = delta /\ thisTxDelta' = thisTxDelta
      /\ savepoint' = savepoint /\ mSigningAccount' = mSigningAccount /\ next' = next
      /\ errorEncountered' = errorEncountered
  BY DEF txRejected, txVars
<1>4. /\ sql' = IF charges THEN [sql EXCEPT ![a] = charged] ELSE sql
      /\ ghost' = IF charges THEN RejectedGhost(taken)
                  ELSE [ghost EXCEPT !.refused = @ \cup {Tx}]
  BY DEF txRejected
<1>5. Closed' = Closed
  BY <1>3 DEF Closed, addBatch
<1>6. \A k \in Keys : (sql[k] = Absent <=> Closed[k] = Absent)
                      /\ (k \notin ghost.dirty => sql[k] = Closed[k])
  BY <1>1 DEF IInv, ListInv, Base
<1>7. \A tx \in ghost.consumed : /\ tx \in Txs
                                 /\ sql[tx.sourceAccount] # Absent
                                 /\ sql[tx.sourceAccount].seqNum >= tx.seqNum
  BY <1>1 DEF IInv, SeqInv, Base, TypeOK, Ghost
<1>8. ~ghost.stale => Balances(sql) + ledgerDelta.feePool + ghost.lost = ghost.total
  BY <1>1 DEF IInv, MoneyInv, Base, Pool
<1>9. IsTable(sql) /\ IsSolvent(sql) /\ ghost \in Ghost /\ ledgerDelta.feePool \in Nat
  BY DEF IInv, TypeOK, SolventInv
<1>10. ASSUME IsTable(sql'), ghost' \in Ghost PROVE TypeOK'
  BY <1>1, <1>2, <1>3, <1>10 DEF TypeOK, IsTable, IsChanges
<1>11. ASSUME \A k \in Keys : sql'[k] = Absent <=> sql[k] = Absent,
              ghost.dirty \subseteq ghost'.dirty,
              \A k \in Keys \ ghost'.dirty : sql'[k] = sql[k]
       PROVE  ListInv'
  <2>1. Base' = sql'
    BY <1>1 DEF Base
  <2>2. Fits(ledgerDelta.changes, list)' /\ AccountsStay(ledgerDelta.changes)'
    BY <1>3 DEF IInv, ListInv, Fits, AccountsStay
  <2> QED
    BY <2>1, <2>2, <1>1, <1>5, <1>6, <1>11 DEF ListInv
<1>12. CASE charges
  <2>1. sql[a] # Absent /\ Tx.seqNum = 1 + sql[a].seqNum
    BY <1>2, <1>12, CodeFacts
  <2>2. sql[a] \in Entry /\ Solvent(sql[a])
    BY <2>1, <1>2, <1>9, KeyFacts DEF IsTable, IsSolvent
  <2>3. /\ taken \in Nat /\ charged \in Entry /\ charged.balance = sql[a].balance - taken
        /\ charged.seqNum = Tx.seqNum /\ Solvent(charged)
    BY <2>2, <1>2, FeeFacts
  <2>4. sql' = [sql EXCEPT ![a] = charged] /\ ghost' = RejectedGhost(taken)
    BY <1>4, <1>12
  <2>5. /\ ghost' \in Ghost
        /\ ghost'.total = ghost.total /\ ghost'.lost = ghost.lost + taken
        /\ ghost'.dirty = ghost.dirty \cup {a} /\ ghost'.stale = ghost.stale
        /\ ghost'.consumed = ghost.consumed \cup {Tx}
    BY <2>3, <2>4, <1>1, <1>2, RejectedGhostFacts
  <2> HIDE DEF charged, taken
  <2>6. charged # Absent /\ charged \in EntriesOf(a)
    BY <2>3, <1>2, KeyFacts
  <2>7. sql'[a] = charged /\ DOMAIN sql' = Keys /\ \A k \in Keys \ {a} : sql'[k] = sql[k]
    BY <2>4, <1>2, <1>9 DEF IsTable
  <2>8. IsTable(sql') /\ IsSolvent(sql')
    BY <2>3, <2>6, <2>7, <1>9, KeyFacts DEF IsTable, IsSolvent
  <2>9. TypeOK'
    BY <2>5, <2>8, <1>10
  <2>10. ListInv'
    BY <2>1, <2>5, <2>6, <2>7, <1>11
  <2>11. \A tx \in ghost'.consumed : /\ sql'[tx.sourceAccount] # Absent
                                     /\ sql'[tx.sourceAccount].seqNum >= tx.seqNum
    <3> SUFFICES ASSUME NEW tx \in ghost'.consumed
                 PROVE  /\ sql'[tx.sourceAccount] # Absent
                        /\ sql'[tx.sourceAccount].seqNum >= tx.seqNum
      OBVIOUS
    <3>1. sql[a].seqNum \in Nat /\ Tx.seqNum \in Nat
      BY <2>2, <1>2, TxFacts DEF Entry
    <3>2. CASE tx = Tx
      BY <3>1, <3>2, <2>3, <2>6, <2>7
    <3>3. CASE tx # Tx
      <4>1. tx \in ghost.consumed
        BY <3>3, <2>5
      <4>2. tx.sourceAccount \in Keys /\ tx.seqNum \in Nat
        BY <4>1, <1>7, TxFacts, KeyFacts
      <4>3. CASE tx.sourceAccount = a
        BY <4>1, <4>2, <4>3, <3>1, <2>1, <2>3, <2>6, <2>7, <1>7
      <4>4. CASE tx.sourceAccount # a
        BY <4>1, <4>2, <4>4, <2>7, <1>7
      <4> QED
        BY <4>3, <4>4
    <3> QED
      BY <3>2, <3>3
  <2>12. ~ghost'.stale =>
            Balances(sql') + ledgerDelta'.feePool + ghost'.lost = ghost'.total
    <3>1. Balances(sql') = Balances(sql) + (BalanceIn(sql', a) - BalanceIn(sql, a))
      BY <2>7, <2>8, <1>2, <1>9, KeyFacts, BalancesUpdate
    <3>2. BalanceIn(sql', a) = sql[a].balance - taken /\ BalanceIn(sql, a) = sql[a].balance
      BY <2>1, <2>3, <2>6, <2>7 DEF BalanceIn
    <3>3. Balances(sql) \in Nat /\ sql[a].balance \in Nat /\ ghost.lost \in Nat
      BY <2>2, <1>9, BalancesNat DEF Entry, Ghost
    <3> QED
      BY <3>1, <3>2, <3>3, <2>3, <2>5, <1>3, <1>8, <1>9
  <2> QED
    BY <2>8, <2>9, <2>10, <2>11, <2>12, <1>1, BetweenTxs
<1>13. CASE ~charges
  <2>1. sql' = sql /\ ghost' = [ghost EXCEPT !.refused = @ \cup {Tx}]
    BY <1>4, <1>13
  <2>2. /\ ghost' \in Ghost
        /\ ghost'.total = ghost.total /\ ghost'.lost = ghost.lost
        /\ ghost'.dirty = ghost.dirty /\ ghost'.stale = ghost.stale
        /\ ghost'.consumed = ghost.consumed
    BY <2>1, <1>2, <1>9 DEF Ghost
  <2>3. TypeOK'
    BY <2>1, <2>2, <1>9, <1>10
  <2>4. ListInv'
    BY <2>1, <2>2, <1>11
  <2> QED
    BY <2>1, <2>2, <2>3, <2>4, <1>1, <1>3, <1>7, <1>8, <1>9, BetweenTxs
<1> QED
  BY <1>12, <1>13

\* A throw rolls back to where sqlTx began; the fee stays taken.
LEMMA ThrowStep ==
    ASSUME IInv, opThrows
    PROVE  IInv'
<1> DEFINE fee == delta.feePool - ledgerDelta.feePool
<1>1. pc = "ops" /\ txs # <<>> /\ pc' = "apply" /\ sql' = savepoint /\ txs' = Tail(txs)
  BY DEF opThrows, AtOp, AtTrust, IInv, TxInv
<1>2. /\ list' = list /\ ledgerSeq' = ledgerSeq /\ feePool' = feePool
      /\ ledgerDelta' = ledgerDelta /\ delta' = delta /\ thisTxDelta' = thisTxDelta
      /\ savepoint' = savepoint /\ mSigningAccount' = mSigningAccount /\ next' = next
      /\ errorEncountered' = errorEncountered
      /\ ghost' = RejectedGhost(fee)
  BY DEF opThrows, txVars
<1>3. TypeOK /\ Tx \in Txs /\ Src \in Accounts /\ Src \in Keys /\ txs' \in Seq(Txs)
  BY <1>1, TxIsTx DEF IInv
<1>4. delta.feePool \in Nat /\ ledgerDelta.feePool \in Nat /\ fee \in Nat
  BY <1>1 DEF IInv, TypeOK, TxInv
<1>5. /\ ghost' \in Ghost
      /\ ghost'.total = ghost.total /\ ghost'.lost = ghost.lost + fee
      /\ ghost'.dirty = ghost.dirty \cup {Src} /\ ghost'.stale = ghost.stale
      /\ ghost'.consumed = ghost.consumed \cup {Tx}
  BY <1>1, <1>2, <1>3, <1>4, RejectedGhostFacts
<1>6. TypeOK'
  BY <1>1, <1>2, <1>3, <1>5 DEF TypeOK, IsTable, IsChanges
<1>7. ListInv'
  <2>1. Base' = savepoint /\ Base = savepoint /\ Closed' = Closed
    BY <1>1, <1>2 DEF Base, Closed, addBatch
  <2>2. Fits(ledgerDelta.changes, list)' /\ AccountsStay(ledgerDelta.changes)'
    BY <1>2 DEF IInv, ListInv, Fits, AccountsStay
  <2>3. \A k \in Keys : Base'[k] = Absent <=> Closed'[k] = Absent
    BY <2>1 DEF IInv, ListInv
  <2>4. \A k \in Keys \ ghost'.dirty : Base'[k] = Closed'[k]
    BY <2>1, <1>5 DEF IInv, ListInv
  <2> QED
    BY <2>2, <2>3, <2>4, <1>1 DEF ListInv
<1>8. IsSolvent(sql')
  BY <1>1 DEF IInv, SolventInv, IsSolvent
<1>9. \A tx \in ghost'.consumed : /\ sql'[tx.sourceAccount] # Absent
                                  /\ sql'[tx.sourceAccount].seqNum >= tx.seqNum
  <2>1. /\ savepoint[Tx.sourceAccount] # Absent
        /\ savepoint[Tx.sourceAccount].seqNum = Tx.seqNum
    BY <1>1 DEF IInv, SeqInv, Src
  <2>2. Tx.seqNum \in Nat
    BY <1>3, TxFacts
  <2>3. \A tx \in ghost.consumed : /\ savepoint[tx.sourceAccount] # Absent
                                   /\ savepoint[tx.sourceAccount].seqNum >= tx.seqNum
    BY <1>1 DEF IInv, SeqInv, Base
  <2> QED
    BY <2>1, <2>2, <2>3, <1>1, <1>5
<1>10. ~ghost'.stale => Balances(sql') + ledgerDelta'.feePool + ghost'.lost = ghost'.total
  <2>1. ~ghost.stale => Balances(savepoint) + delta.feePool + ghost.lost = ghost.total
    BY <1>1 DEF IInv, MoneyInv, Base, Pool
  <2>2. Balances(savepoint) \in Nat /\ ghost.lost \in Nat
    BY BalancesNat DEF IInv, TypeOK, Ghost
  <2> QED
    BY <2>1, <2>2, <1>1, <1>2, <1>4, <1>5
<1> QED
  BY <1>1, <1>6, <1>7, <1>8, <1>9, <1>10, BetweenTxs

\* What a transaction leaves, on top of the close so far: its changes fit, they
\* meet no assert, and with them the deltas say what the table says.
LEMMA TxChanges ==
    ASSUME IInv, pc = "ops", NEW k \in Keys
    PROVE  LET c == ChangesOfTx[k] IN
           /\ errorEncountered \/ (CASE thisTxDelta[k].in = "mDelete" ->
                                            DeleteAllowed(delta.changes[k])
                                     [] thisTxDelta[k].in = "mNew" ->
                                            AddAllowed(delta.changes[k])
                                     [] thisTxDelta[k].in = "mMod" ->
                                            ModAllowed(delta.changes[k])
                                     [] OTHER -> TRUE)
           /\ c.in \in {"none", "mNew", "mMod", "mDelete"}
           /\ c.entry \in EntriesOf(k)
           /\ ChangeFits(c, Closed[k])
           /\ k \in Accounts => c.in # "mDelete"
           /\ TableOfTx[k] = Absent <=> After(c, Closed[k]) = Absent
           /\ (k \notin ghost.dirty \/ c.in # "none")
                => TableOfTx[k] = After(c, Closed[k])
<1> DEFINE o == delta.changes[k]
           i == thisTxDelta[k]
           c == ChangesOfTx[k]
<1>1. txs # <<>> /\ Src \in Accounts /\ Src \in Keys /\ TypeOK
  BY TxIsTx DEF IInv, TxInv
<1>2. savepoint[Src] # Absent
  BY DEF IInv, SeqInv
<1>3. IsChanges(delta.changes) /\ IsChanges(thisTxDelta)
  BY DEF IInv, TypeOK
<1>4. /\ k = Src => o = [in |-> "mMod", entry |-> savepoint[k]]
      /\ k # Src => o = Nothing
  BY <1>1 DEF IInv, TxInv, NoChanges
<1>5. savepoint[k] = Absent <=> Closed[k] = Absent
  BY DEF IInv, ListInv, Base
<1>6. k \notin ghost.dirty /\ k # Src => savepoint[k] = Closed[k]
  BY DEF IInv, ListInv, Base
<1>7. KeyInv(k, sql[k], i, savepoint[k])
  BY OpsKeys
<1> HIDE DEF o, i, c
<1>8. /\ ChangeFits(o, Closed[k])
      /\ o.in \in {"none", "mMod"}
      /\ o.in # "none" => k = Src
      /\ k = Src => After(o, Closed[k]) = savepoint[k]
      /\ k # Src => After(o, Closed[k]) = Closed[k]
  BY <1>2, <1>4, <1>5 DEF ChangeFits, After, Nothing
<1>9. After(o, Closed[k]) = Absent <=> savepoint[k] = Absent
  BY <1>5, <1>8
<1>10. k \notin ghost.dirty \/ k = Src => After(o, Closed[k]) = savepoint[k]
  BY <1>6, <1>8
<1>11. CASE errorEncountered
  <2>1. c = o /\ TableOfTx = savepoint
    BY <1>11 DEF ChangesOfTx, TableOfTx, c, o
  <2>2. o.entry \in EntriesOf(k)
    BY <1>3 DEF IsChanges, o
  <2> QED
    BY <2>1, <2>2, <1>8, <1>9, <1>10, <1>11 DEF c
<1>12. CASE ~errorEncountered
  <2>1. c = mergeEntries(delta.changes, thisTxDelta)[k] /\ TableOfTx = sql
    BY <1>12 DEF ChangesOfTx, TableOfTx, c
  <2>2. ChangeFits(i, savepoint[k]) /\ sql[k] = After(i, savepoint[k])
    BY <1>7 DEF KeyInv
  <2>3. /\ CASE thisTxDelta[k].in = "mDelete" -> DeleteAllowed(delta.changes[k])
             [] thisTxDelta[k].in = "mNew" -> AddAllowed(delta.changes[k])
             [] thisTxDelta[k].in = "mMod" -> ModAllowed(delta.changes[k])
             [] OTHER -> TRUE
        /\ c.in \in {"none", "mNew", "mMod", "mDelete"}
        /\ c.entry \in EntriesOf(k)
        /\ ChangeFits(c, Closed[k])
        /\ After(c, Closed[k]) = After(i, After(o, Closed[k]))
        /\ c.in = "mDelete" => "mDelete" \in {i.in, o.in}
    <3> DEFINE before == Closed[k]
               between == savepoint[k]
    <3>1. /\ ChangeFits(delta.changes[k], before) /\ ChangeFits(thisTxDelta[k], between)
          /\ After(delta.changes[k], before) = Absent <=> between = Absent
      BY <2>2, <1>8, <1>9 DEF o, i
    <3> HIDE DEF before, between
    <3>2. LET merged == mergeEntries(delta.changes, thisTxDelta)[k] IN
          /\ CASE thisTxDelta[k].in = "mDelete" -> DeleteAllowed(delta.changes[k])
               [] thisTxDelta[k].in = "mNew" -> AddAllowed(delta.changes[k])
               [] thisTxDelta[k].in = "mMod" -> ModAllowed(delta.changes[k])
               [] OTHER -> TRUE
          /\ merged.in \in {"none", "mNew", "mMod", "mDelete"}
          /\ merged.entry \in EntriesOf(k)
          /\ ChangeFits(merged, before)
          /\ After(merged, before)
                = After(thisTxDelta[k], After(delta.changes[k], before))
          /\ merged.in = "mDelete"
                => "mDelete" \in {thisTxDelta[k].in, delta.changes[k].in}
      BY <3>1, <1>3, MergeFits, Zenon
    <3> QED
      BY <3>2, <2>1, Zenon DEF o, i, before
  <2>4. i.in = "none" => c = o
    BY <2>1 DEF mergeEntries, o, i
  <2>5. k \in Accounts => c.in # "mDelete"
    BY <2>3, <1>7, <1>8 DEF KeyInv
  <2>6. TableOfTx[k] = Absent <=> After(c, Closed[k]) = Absent
    BY <2>1, <2>2, <2>3, <1>9 DEF After
  <2>7. (k \notin ghost.dirty \/ c.in # "none") => TableOfTx[k] = After(c, Closed[k])
    <3>1. CASE i.in # "none"
      BY <3>1, <2>1, <2>2, <2>3 DEF After
    <3>2. CASE i.in = "none"
      <4>1. sql[k] = savepoint[k] /\ After(c, Closed[k]) = After(o, Closed[k])
        BY <3>2, <2>2, <2>4 DEF After
      <4>2. c.in # "none" => k = Src
        BY <3>2, <2>4, <1>8
      <4> QED
        BY <4>1, <4>2, <2>1, <1>10
    <3> QED
      BY <3>1, <3>2
  <2> QED
    BY <2>3, <2>5, <2>6, <2>7 DEF c
<1> QED
  BY <1>11, <1>12

\* The deltas of a transaction are committed, or its operations rolled back.
LEMMA EndStep ==
    ASSUME IInv, txEnd
    PROVE  IInv'
<1> DEFINE ch == ChangesOfTx
           old == ledgerDelta.changes
           merged == mergeEntries(old, ch)
<1>1. pc = "ops" /\ sql' = TableOfTx /\ txs' = Tail(txs) /\ txs # <<>>
  BY DEF txEnd, IInv, TxInv
<1>2. /\ list' = list /\ ledgerSeq' = ledgerSeq /\ feePool' = feePool
      /\ delta' = delta /\ thisTxDelta' = thisTxDelta
      /\ savepoint' = savepoint /\ mSigningAccount' = mSigningAccount /\ next' = next
      /\ errorEncountered' = errorEncountered
      /\ ledgerDelta' = [changes |-> merged, feePool |-> delta.feePool]
      /\ ghost' = [ghost EXCEPT !.dirty = @ \ Changed(ch), !.consumed = @ \cup {Tx}]
  BY DEF txEnd, txVars
<1>3. TypeOK /\ Tx \in Txs /\ Src \in Accounts /\ Src \in Keys /\ txs' \in Seq(Txs)
  BY <1>1, TxIsTx DEF IInv
<1>4. ledgerDelta'.changes = merged /\ ledgerDelta'.feePool = delta.feePool
  BY <1>2
<1>5. /\ ghost' \in Ghost
      /\ ghost'.total = ghost.total /\ ghost'.lost = ghost.lost
      /\ ghost'.dirty = ghost.dirty \ Changed(ch) /\ ghost'.stale = ghost.stale
      /\ ghost'.consumed = ghost.consumed \cup {Tx}
  <2>1. ghost \in Ghost
    BY <1>3 DEF TypeOK
  <2> QED
    BY <2>1, <1>2, <1>3 DEF Ghost
<1>6. IsChanges(ch) /\ IsChanges(old)
  <2>1. DOMAIN ch = Keys
    BY <1>3 DEF ChangesOfTx, mergeEntries, TypeOK, IsChanges
  <2>2. \A k \in Keys : /\ ch[k].in \in {"none", "mNew", "mMod", "mDelete"}
                        /\ ch[k].entry \in EntriesOf(k)
    BY <1>1, TxChanges
  <2>3. IsChanges(old)
    BY <1>3 DEF TypeOK
  <2> QED
    BY <2>1, <2>2, <2>3 DEF IsChanges
<1>7. \A k \in Keys : Closed[k] = After(old[k], list[k])
  BY ClosedIsAfter
<1>8. ASSUME NEW k \in Keys
      PROVE  /\ CASE ch[k].in = "mDelete" -> DeleteAllowed(old[k])
                  [] ch[k].in = "mNew" -> AddAllowed(old[k])
                  [] ch[k].in = "mMod" -> ModAllowed(old[k])
                  [] OTHER -> TRUE
             /\ merged[k].in \in {"none", "mNew", "mMod", "mDelete"}
             /\ merged[k].entry \in EntriesOf(k)
             /\ ChangeFits(merged[k], list[k])
             /\ After(merged[k], list[k]) = After(ch[k], After(old[k], list[k]))
             /\ merged[k].in = "mDelete" => "mDelete" \in {ch[k].in, old[k].in}
  <2> DEFINE before == list[k]
             between == Closed[k]
  <2>1. /\ ChangeFits(old[k], before) /\ ChangeFits(ch[k], between)
        /\ After(old[k], before) = Absent <=> between = Absent
    <3>1. ChangeFits(old[k], before)
      BY DEF IInv, ListInv, Fits
    <3>2. ChangeFits(ch[k], between)
      BY <1>1, TxChanges
    <3> QED
      BY <3>1, <3>2, <1>7
  <2> HIDE DEF before, between, ch, old
  <2> QED
    BY <2>1, <1>6, MergeFits, Zenon DEF before
<1>9. pc' = "apply"
  <2>1. MergeAllowed(old, ch)
    BY <1>8, Zenon DEF MergeAllowed
  <2>2. errorEncountered \/ MergeAllowed(delta.changes, thisTxDelta)
    BY <1>1, TxChanges, Zenon DEF MergeAllowed
  <2> QED
    BY <2>1, <2>2 DEF txEnd
<1>10. \A k \in Keys : /\ ch[k].in \in {"none", "mNew", "mMod", "mDelete"}
                       /\ k \in Accounts => ch[k].in # "mDelete"
                       /\ sql'[k] = Absent <=> After(ch[k], Closed[k]) = Absent
                       /\ (k \notin ghost.dirty \/ ch[k].in # "none")
                             => sql'[k] = After(ch[k], Closed[k])
  BY <1>1, TxChanges
<1>11. \A k \in Keys : /\ merged[k].in \in {"none", "mNew", "mMod", "mDelete"}
                       /\ merged[k].entry \in EntriesOf(k)
                       /\ ChangeFits(merged[k], list[k])
                       /\ After(merged[k], list[k]) = After(ch[k], Closed[k])
                       /\ merged[k].in = "mDelete" => "mDelete" \in {ch[k].in, old[k].in}
  BY <1>7, <1>8
<1>12. DOMAIN merged = Keys
  BY DEF mergeEntries
<1> HIDE DEF merged, ch, old
<1>13. TypeOK'
  <2>1. IsTable(sql')
    BY <1>1, <1>3 DEF TableOfTx, TypeOK
  <2>2. IsChanges(ledgerDelta'.changes)
    BY <1>4, <1>11, <1>12 DEF IsChanges
  <2>3. delta.feePool \in Nat
    BY <1>3 DEF TypeOK
  <2> QED
    BY <2>1, <2>2, <2>3, <1>2, <1>3, <1>4, <1>5, <1>9 DEF TypeOK, IsTable, IsChanges
<1>14. ListInv'
  <2>1. Base' = sql' /\ \A k \in Keys : Closed'[k] = After(merged[k], list[k])
    BY <1>2, <1>4, <1>9 DEF Base, Closed, addBatch, After
  <2>2. Fits(ledgerDelta.changes, list)'
    BY <1>2, <1>4, <1>11 DEF Fits
  <2>3. AccountsStay(ledgerDelta.changes)'
    <3>1. \A a \in Accounts : old[a].in # "mDelete"
      BY DEF IInv, ListInv, AccountsStay, old
    <3> QED
      BY <3>1, <1>4, <1>10, <1>11, KeyFacts DEF AccountsStay
  <2>4. \A k \in Keys : Base'[k] = Absent <=> Closed'[k] = Absent
    BY <2>1, <1>10, <1>11
  <2>5. \A k \in Keys \ ghost'.dirty : Base'[k] = Closed'[k]
    <3> SUFFICES ASSUME NEW k \in Keys, k \notin ghost'.dirty
                 PROVE  Base'[k] = Closed'[k]
      OBVIOUS
    <3>1. k \notin ghost.dirty \/ ch[k].in # "none"
      BY <1>5 DEF Changed
    <3> QED
      BY <3>1, <2>1, <1>10, <1>11
  <2> QED
    BY <2>2, <2>3, <2>4, <2>5, <1>9 DEF ListInv
<1>15. IsSolvent(sql')
  BY <1>1 DEF IInv, SolventInv, TableOfTx
<1>16. \A tx \in ghost'.consumed : /\ sql'[tx.sourceAccount] # Absent
                                   /\ sql'[tx.sourceAccount].seqNum >= tx.seqNum
  <2>1. /\ savepoint[Tx.sourceAccount] # Absent
        /\ savepoint[Tx.sourceAccount].seqNum = Tx.seqNum
    BY <1>1 DEF IInv, SeqInv, Src
  <2>2. Tx.seqNum \in Nat
    BY <1>3, TxFacts
  <2>3. \A tx \in ghost.consumed : /\ tx \in Txs
                                   /\ savepoint[tx.sourceAccount] # Absent
                                   /\ savepoint[tx.sourceAccount].seqNum >= tx.seqNum
    BY <1>1 DEF IInv, SeqInv, Base, TypeOK, Ghost
  <2>4. \A a \in Accounts : savepoint[a] # Absent =>
            sql'[a] # Absent /\ sql'[a].seqNum = savepoint[a].seqNum
    BY <1>1 DEF IInv, SeqInv, TableOfTx
  <2> QED
    BY <2>1, <2>2, <2>3, <2>4, <1>3, <1>5, TxFacts
<1>17. ~ghost'.stale => Balances(sql') + ledgerDelta'.feePool + ghost'.lost = ghost'.total
  <2>1. ~ghost.stale => /\ Balances(savepoint) + delta.feePool + ghost.lost = ghost.total
                        /\ errorEncountered \/ Balances(sql) = Balances(savepoint)
    BY <1>1 DEF IInv, MoneyInv, Base, Pool
  <2>2. ~ghost.stale => Balances(sql') = Balances(savepoint)
    BY <2>1, <1>1 DEF TableOfTx
  <2> QED
    BY <2>1, <2>2, <1>4, <1>5
<1> QED
  BY <1>9, <1>13, <1>14, <1>15, <1>16, <1>17, BetweenTxs

-----------------------------------------------------------------------------
(* The beginning and the end of a close.                                   *)

\* A new LedgerDelta changes nothing.
LEMMA EmptyFacts ==
    ASSUME NEW pool, NEW entries
    PROVE  /\ IsChanges(EmptyDelta(pool).changes) /\ EmptyDelta(pool).feePool = pool
           /\ Fits(EmptyDelta(pool).changes, entries)
           /\ AccountsStay(EmptyDelta(pool).changes)
           /\ \A k \in Keys : addBatch(entries, EmptyDelta(pool).changes)[k] = entries[k]
<1>1. \A k \in Keys : NoChanges[k].in = "none" /\ NoChanges[k].entry = Absent
  BY DEF NoChanges, Nothing
<1>2. EmptyDelta(pool).changes = NoChanges /\ EmptyDelta(pool).feePool = pool
  BY DEF EmptyDelta
<1> QED
  BY <1>1, <1>2, KeyFacts
     DEF IsChanges, Fits, ChangeFits, AccountsStay, addBatch, NoChanges

\* closeLedger takes on a valid set.
LEMMA CloseStep ==
    ASSUME IInv, NEW set \in Sets, closeLedger(set)
    PROVE  IInv'
<1>1. /\ pc = "open" /\ pc' = "apply"
      /\ sql' = sql /\ list' = list /\ ledgerSeq' = ledgerSeq /\ feePool' = feePool
      /\ delta' = delta /\ thisTxDelta' = thisTxDelta
      /\ savepoint' = savepoint /\ mSigningAccount' = mSigningAccount /\ next' = next
      /\ errorEncountered' = errorEncountered
      /\ ledgerDelta' = EmptyDelta(feePool)
      /\ ghost' = [ghost EXCEPT !.refused = {}]
      /\ txs' \in sortForApply(set)
  BY DEF closeLedger, txVars
<1>2. ledgerDelta' = ledgerDelta
  BY <1>1 DEF IInv, ListInv
<1>3. txs' \in Seq(Txs)
  <2>1. IsFiniteSet(set) /\ set \subseteq Txs
    BY DEF Sets
  <2>2. Cardinality(set) \in Nat
    BY <2>1, FS_CardinalityType
  <2>3. txs' \in [1 .. Cardinality(set) -> set]
    BY <1>1 DEF sortForApply, SetToSeqs
  <2> QED
    BY <2>1, <2>2, <2>3
<1>4. /\ ghost' \in Ghost
      /\ ghost'.total = ghost.total /\ ghost'.lost = ghost.lost
      /\ ghost'.dirty = ghost.dirty /\ ghost'.stale = ghost.stale
      /\ ghost'.consumed = ghost.consumed
  BY <1>1 DEF IInv, TypeOK, Ghost
<1>5. TypeOK'
  BY <1>1, <1>2, <1>3, <1>4 DEF IInv, TypeOK, IsTable, IsChanges
<1>6. ListInv'
  <2>1. Base' = Base /\ Closed' = Closed /\ pc # "ops"
    BY <1>1, <1>2 DEF Base, Closed, addBatch
  <2>2. Fits(ledgerDelta.changes, list)' /\ AccountsStay(ledgerDelta.changes)'
    BY <1>1, <1>2 DEF IInv, ListInv, Fits, AccountsStay
  <2> QED
    BY <2>1, <2>2, <1>1, <1>4 DEF IInv, ListInv
<1>7. IsSolvent(sql')
  BY <1>1 DEF IInv, SolventInv
<1>8. \A tx \in ghost'.consumed : /\ sql'[tx.sourceAccount] # Absent
                                  /\ sql'[tx.sourceAccount].seqNum >= tx.seqNum
  BY <1>1, <1>4 DEF IInv, SeqInv, Base
<1>9. ~ghost'.stale => Balances(sql') + ledgerDelta'.feePool + ghost'.lost = ghost'.total
  BY <1>1, <1>2, <1>4 DEF IInv, MoneyInv, Base, Pool
<1> QED
  BY <1>1, <1>5, <1>6, <1>7, <1>8, <1>9, BetweenTxs

\* The ledger delta goes to the bucket list, and the ledger is closed.
LEMMA HelperStep ==
    ASSUME IInv, closeLedgerHelper
    PROVE  IInv'
<1>1. /\ pc = "apply" /\ pc' = "open" /\ sql' = sql /\ txs' = txs /\ ghost' = ghost
      /\ delta' = delta /\ thisTxDelta' = thisTxDelta
      /\ savepoint' = savepoint /\ mSigningAccount' = mSigningAccount /\ next' = next
      /\ errorEncountered' = errorEncountered
      /\ list' = Closed
      /\ feePool' = ledgerDelta.feePool
      /\ ledgerSeq' = ledgerSeq + 1
      /\ ledgerDelta' = EmptyDelta(feePool')
  BY DEF closeLedgerHelper, txVars, Closed
<1>2. ledgerDelta'.feePool = ledgerDelta.feePool /\ ledgerDelta.feePool \in Nat
  BY <1>1, EmptyFacts DEF IInv, TypeOK
<1>3. IsTable(list')
  <2>1. DOMAIN Closed = Keys
    BY DEF Closed, addBatch
  <2>2. \A k \in Keys : Closed[k] \in EntriesOf(k)
    BY ClosedIsAfter DEF After, IInv, TypeOK, IsTable, IsChanges
  <2> QED
    BY <2>1, <2>2, <1>1 DEF IsTable
<1>4. TypeOK'
  <2>1. IsChanges(ledgerDelta'.changes)
    BY <1>1, EmptyFacts
  <2> QED
    BY <2>1, <1>1, <1>2, <1>3 DEF IInv, TypeOK, IsTable, IsChanges
<1>5. ListInv'
  <2>1. \A k \in Keys : Closed'[k] = list'[k]
    BY <1>1, EmptyFacts DEF Closed
  <2>2. Fits(ledgerDelta.changes, list)' /\ AccountsStay(ledgerDelta.changes)'
    BY <1>1, EmptyFacts
  <2>3. Base' = sql /\ Base = sql
    BY <1>1 DEF Base
  <2> QED
    BY <2>1, <2>2, <2>3, <1>1 DEF IInv, ListInv
<1>6. IsSolvent(sql')
  BY <1>1 DEF IInv, SolventInv
<1>7. \A tx \in ghost'.consumed : /\ sql'[tx.sourceAccount] # Absent
                                  /\ sql'[tx.sourceAccount].seqNum >= tx.seqNum
  BY <1>1 DEF IInv, SeqInv, Base
<1>8. ~ghost'.stale => Balances(sql') + ledgerDelta'.feePool + ghost'.lost = ghost'.total
  BY <1>1, <1>2 DEF IInv, MoneyInv, Base, Pool
<1> QED
  BY <1>1, <1>4, <1>5, <1>6, <1>7, <1>8, BetweenTxs

\* The tables and the list both start from Genesis.
LEMMA InitIInv == Init => IInv
<1> SUFFICES ASSUME Init PROVE IInv
  OBVIOUS
<1>1. IsTable(Genesis) /\ IsSolvent(Genesis)
  BY LedgerCloseAssumption, GenesisAssumption DEF IsTable, IsSolvent, Solvent
<1>2. Balances(Genesis) \in Nat
  BY <1>1, BalancesNat
<1>3. ghost = [total |-> Balances(Genesis), lost |-> 0, dirty |-> {}, stale |-> FALSE,
               consumed |-> {}, refused |-> {}]
  BY DEF Init
<1>4. ghost \in Ghost
  BY <1>2, <1>3 DEF Ghost
<1>5. TypeOK
  <2>1. IsChanges(EmptyDelta(0).changes) /\ EmptyDelta(0).feePool = 0
    BY EmptyFacts
  <2>2. /\ IsChanges(ledgerDelta.changes) /\ ledgerDelta.feePool \in Nat
        /\ IsChanges(delta.changes) /\ delta.feePool \in Nat
    BY <2>1 DEF Init
  <2>3. IsChanges(thisTxDelta)
    BY <2>1 DEF Init, EmptyDelta
  <2>4. txs \in Seq(Txs) /\ ledgerSeq \in Nat /\ feePool \in Nat
    BY LedgerCloseAssumption DEF Init
  <2>5. IsTable(sql) /\ IsTable(list) /\ IsTable(savepoint)
    BY <1>1 DEF Init
  <2>6. mSigningAccount \in Entry \cup {Absent} /\ next \in Nat \ {0}
    BY SMT DEF Init
  <2>7. errorEncountered \in BOOLEAN
    BY Zenon DEF Init
  <2>8. pc \in {"open", "apply", "ops", "aborted"}
    BY DEF Init
  <2> QED
    BY <2>2, <2>3, <2>4, <2>5, <2>6, <2>7, <2>8, <1>4 DEF TypeOK
<1>6. ListInv
  <2>1. \A k \in Keys : Closed[k] = list[k]
    BY EmptyFacts DEF Init, Closed
  <2>2. Fits(ledgerDelta.changes, list) /\ AccountsStay(ledgerDelta.changes)
    BY EmptyFacts DEF Init
  <2> QED
    BY <2>1, <2>2 DEF Init, ListInv, Base
<1>7. SeqInv /\ MoneyInv
  <2>1. Base = Genesis /\ Pool = 0 /\ pc # "ops"
    BY EmptyFacts DEF Init, Base, Pool
  <2>2. Balances(Base) + Pool + ghost.lost = ghost.total
    BY <2>1, <1>2, <1>3
  <2> QED
    BY <2>1, <2>2, <1>3 DEF SeqInv, MoneyInv
<1> QED
  BY <1>1, <1>5, <1>6, <1>7 DEF Init, IInv, NoAbort, TxInv, SolventInv

\* Every step of a close keeps the invariant.
LEMMA NextIInv == IInv /\ [Next]_vars => IInv'
<1> SUFFICES ASSUME IInv, [Next]_vars PROVE IInv'
  OBVIOUS
<1>1. ASSUME NEW set \in Sets, closeLedger(set) PROVE IInv'
  BY <1>1, CloseStep
<1>2. CASE txRejected
  BY <1>2, RejectedStep
<1>3. CASE txBegin
  BY <1>3, BeginStep
<1>4. CASE opFails \/ opPaymentToSelf
  BY <1>4, IdleOp
<1>5. CASE opPayment
  BY <1>5, PaymentOp
<1>6. CASE opNewLine \/ opDropLine
  BY <1>6, TrustOp
<1>7. CASE opChangeLine
  BY <1>7, ChangeLineOp
<1>8. CASE opThrows
  BY <1>8, ThrowStep
<1>9. CASE txEnd
  BY <1>9, EndStep
<1>10. CASE closeLedgerHelper
  BY <1>10, HelperStep
<1>11. CASE UNCHANGED vars
  BY <1>11 DEF vars, IInv, TypeOK, IsTable, IsChanges, NoAbort, ListInv, TxInv,
               SolventInv, IsSolvent, SeqInv, MoneyInv, Fits, AccountsStay, Base,
               Closed, Src, Tx, Pool, Balances, BalanceIn
<1> QED
  BY <1>1, <1>2, <1>3, <1>4, <1>5, <1>6, <1>7, <1>8, <1>9, <1>10, <1>11 DEF Next

-----------------------------------------------------------------------------
(* What trimInvalid leaves.                                                *)

Ascending(seq) == \A i, j \in DOMAIN seq : i < j => seq[i].seqNum <= seq[j].seqNum

\* Any finite set of transactions can be sorted by sequence number.
LEMMA SortExists ==
    ASSUME NEW set \in SUBSET Txs, IsFiniteSet(set)
    PROVE  \E seq \in SetToSeqs(set) : Ascending(seq)
<1> DEFINE Sortable(s) == \E seq \in SetToSeqs(s) : Ascending(seq)
           G == {s \in SUBSET set : Sortable(s)}
<1>1. ASSUME NEW s \in SUBSET set, \A x \in s : s \ {x} \in G PROVE s \in G
  <2>1. IsFiniteSet(s) /\ Cardinality(s) \in Nat
    BY FS_Subset, FS_CardinalityType
  <2>2. CASE s = {}
    <3>1. Cardinality(s) = 0
      BY <2>2, FS_EmptySet
    <3>2. <<>> \in SetToSeqs(s) /\ Ascending(<<>>)
      BY <3>1 DEF SetToSeqs, Ascending
    <3> QED
      BY <3>2
  <2>3. CASE s # {}
    <3> DEFINE numbers == {tx.seqNum : tx \in s}
    <3>1. numbers \in SUBSET Nat /\ numbers # {}
      BY <2>3, TxFacts
    <3>2. PICK least \in numbers : \A y \in numbers : least <= y
      BY <3>1, LeastNatural
    <3>3. PICK x \in s : \A y \in s : x.seqNum <= y.seqNum
      BY <3>2
    <3>4. PICK rest \in SetToSeqs(s \ {x}) : Ascending(rest)
      BY <1>1, <3>3
    <3> DEFINE n == Cardinality(s)
               seq == [i \in 1 .. n |-> IF i = 1 THEN x ELSE rest[i - 1]]
    <3>5. Cardinality(s \ {x}) = n - 1
      BY <2>1, FS_RemoveElement
    <3>6. /\ rest \in [1 .. n - 1 -> s \ {x}]
          /\ \A i, j \in 1 .. n - 1 : i # j => rest[i] # rest[j]
      BY <3>4, <3>5 DEF SetToSeqs
    <3>7. \A i \in 1 .. n : i # 1 => i - 1 \in 1 .. n - 1 /\ rest[i - 1] \in s \ {x}
      BY <2>1, <3>6
    <3>8. seq \in [1 .. n -> s]
      BY <3>7
    <3>9. \A i, j \in 1 .. n : i # j => seq[i] # seq[j]
      BY <2>1, <3>6, <3>7
    <3>10. \A i, j \in 1 .. n : i < j => seq[i].seqNum <= seq[j].seqNum
      <4> SUFFICES ASSUME NEW i \in 1 .. n, NEW j \in 1 .. n, i < j
                   PROVE  seq[i].seqNum <= seq[j].seqNum
        OBVIOUS
      <4>1. j # 1 /\ seq[j] = rest[j - 1] /\ seq[j] \in s
        BY <2>1, <3>7
      <4>2. CASE i = 1
        BY <4>1, <4>2, <3>3
      <4>3. CASE i # 1
        <5>1. i - 1 \in DOMAIN rest /\ j - 1 \in DOMAIN rest /\ i - 1 < j - 1
          BY <4>1, <4>3, <3>6, <3>7, <2>1
        <5> QED
          BY <5>1, <4>1, <4>3, <3>4 DEF Ascending
      <4> QED
        BY <4>2, <4>3
    <3> HIDE DEF seq
    <3>11. seq \in SetToSeqs(s)
      BY <3>8, <3>9 DEF SetToSeqs
    <3>12. Ascending(seq)
      BY <3>8, <3>10 DEF Ascending
    <3> QED
      BY <3>11, <3>12
  <2> QED
    BY <2>2, <2>3
<1>2. SUBSET set \subseteq G
  <2> HIDE DEF G
  <2> QED
    BY <1>1, SubsetsAreGood
<1> QED
  BY <1>2

\* SeqSorted gives a sequence of the set's transactions.
LEMMA SortedOfSet ==
    ASSUME NEW set \in SUBSET Txs, IsFiniteSet(set)
    PROVE  SeqSorted(set) \in Seq(set)
<1>1. SeqSorted(set) \in SetToSeqs(set)
  BY SortExists, Zenon DEF SeqSorted, Ascending
<1>2. Cardinality(set) \in Nat
  BY FS_CardinalityType
<1> QED
  BY <1>1, <1>2 DEF SetToSeqs

\* kept is what the loop has kept after each of the first n transactions.
Keeps(kept, seq, n) ==
    kept = [i \in 0 .. n |-> IF i = 0 THEN <<>> ELSE KeepIfValid(kept[i - 1], seq[i])]

\* The loop keeps something after every number of transactions.
LEMMA KeepsExists ==
    ASSUME NEW seq, NEW n \in Nat
    PROVE  \E kept : Keeps(kept, seq, n)
<1> DEFINE G == {m \in Nat : \E kept : Keeps(kept, seq, m)}
<1>1. 0 \in G
  <2> DEFINE kept == [i \in 0 .. 0 |-> <<>>]
  <2>1. Keeps(kept, seq, 0)
    BY DEF Keeps
  <2> QED
    BY <2>1
<1>2. ASSUME NEW m \in Nat, m \in G PROVE m + 1 \in G
  <2>1. PICK kept : Keeps(kept, seq, m)
    BY <1>2
  <2> DEFINE up == [i \in 0 .. m + 1 |->
                       IF i = 0 THEN <<>> ELSE KeepIfValid(kept[i - 1], seq[i])]
  <2>2. \A i \in 0 .. m : up[i] = kept[i]
    BY <2>1 DEF Keeps
  <2>3. \A i \in 0 .. m + 1 : i # 0 => i - 1 \in 0 .. m
    OBVIOUS
  <2>4. Keeps(up, seq, m + 1)
    BY <2>2, <2>3 DEF Keeps
  <2> HIDE DEF up
  <2>5. m + 1 \in Nat /\ \E k : Keeps(k, seq, m + 1)
    BY <2>4
  <2> QED
    BY <2>5
<1>3. Nat \subseteq G
  <2> HIDE DEF G
  <2> QED
    BY <1>1, <1>2, NaturalsAreGood
<1> QED
  BY <1>3

\* The transactions kept follow one another from the account's number on, and
\* each was valid after the one before it.
Chain(kept, a) ==
    \A i \in 1 .. Len(kept) :
        /\ kept[i].seqNum = sql[a].seqNum + i
        /\ checkValid(kept[i], IF i = 1 THEN 0 ELSE sql[a].seqNum + i - 1)

\* Whether the loop keeps the next transaction or not, it has a chain.
LEMMA KeepStep ==
    ASSUME IInv, NEW a \in Accounts, NEW set \in SUBSET Txs,
           \A tx \in set : tx.sourceAccount = a,
           NEW kept \in Seq(set), Chain(kept, a), NEW tx \in set
    PROVE  /\ KeepIfValid(kept, tx) \in Seq(set)
           /\ Chain(KeepIfValid(kept, tx), a)
<1> DEFINE n == Len(kept)
           current == IF kept = <<>> THEN 0 ELSE Last(kept).seqNum
<1>1. n \in Nat /\ tx.seqNum \in Nat /\ (kept = <<>> <=> n = 0)
  BY TxFacts
<1>2. CASE ~checkValid(tx, current)
  BY <1>2 DEF KeepIfValid
<1>3. CASE checkValid(tx, current)
  <2> DEFINE more == Append(kept, tx)
  <2>1. KeepIfValid(kept, tx) = more
    BY <1>3 DEF KeepIfValid
  <2>2. /\ more \in Seq(set) /\ Len(more) = n + 1 /\ more[n + 1] = tx
        /\ \A i \in 1 .. n : more[i] = kept[i]
    OBVIOUS
  <2>3. sql[a] # Absent /\ tx.seqNum = 1 + (IF current = 0 THEN sql[a].seqNum ELSE current)
    BY <1>3 DEF checkValid, ResultCode
  <2>4. sql[a].seqNum \in Nat
    BY <2>3, KeyFacts DEF IInv, TypeOK, IsTable, Entry
  <2>5. n # 0 => current = sql[a].seqNum + n /\ current # 0
    BY <1>1, <2>4 DEF Last, Chain
  <2>6. n = 0 => current = 0
    BY <1>1
  <2>7. tx.seqNum = sql[a].seqNum + (n + 1)
    BY <2>3, <2>4, <2>5, <2>6, <1>1
  <2>8. current = IF n + 1 = 1 THEN 0 ELSE sql[a].seqNum + (n + 1) - 1
    BY <2>4, <2>5, <2>6, <1>1
  <2> HIDE DEF more, current
  <2>9. Chain(more, a)
    <3> SUFFICES ASSUME NEW i \in 1 .. n + 1
                 PROVE  /\ more[i].seqNum = sql[a].seqNum + i
                        /\ checkValid(more[i], IF i = 1 THEN 0 ELSE sql[a].seqNum + i - 1)
      BY <2>2 DEF Chain
    <3>1. CASE i = n + 1
      BY <3>1, <2>2, <2>7, <2>8, <1>3
    <3>2. CASE i # n + 1
      <4>1. i \in 1 .. n
        BY <3>2, <1>1
      <4> QED
        BY <4>1, <2>2 DEF Chain
    <3> QED
      BY <3>1, <3>2
  <2> QED
    BY <2>1, <2>2, <2>9
<1> QED
  BY <1>2, <1>3

\* What the loop keeps is a chain.
LEMMA KeptIsChain ==
    ASSUME IInv, NEW a \in Accounts, NEW set \in SUBSET Txs,
           \A tx \in set : tx.sourceAccount = a, NEW seq \in Seq(set)
    PROVE  KeptByLoop(seq) \in Seq(set) /\ Chain(KeptByLoop(seq), a)
<1> DEFINE n == Len(seq)
           kept == CHOOSE k : Keeps(k, seq, n)
<1>1. n \in Nat
  OBVIOUS
<1>2. KeptByLoop(seq) = kept[n]
  BY Zenon DEF KeptByLoop, Keeps
<1>3. Keeps(kept, seq, n)
  <2>1. \E k : Keeps(k, seq, n)
    BY <1>1, KeepsExists
  <2> QED
    BY <2>1, Zenon
<1> HIDE DEF kept
<1>4. kept[0] = <<>>
  BY <1>1, <1>3 DEF Keeps
<1>5. \A i \in 1 .. n : kept[i] = KeepIfValid(kept[i - 1], seq[i])
  BY <1>1, <1>3 DEF Keeps
<1> DEFINE Good(i) == kept[i] \in Seq(set) /\ Chain(kept[i], a)
           G == {i \in Nat : i <= n => Good(i)}
<1>6. 0 \in G
  <2>1. <<>> \in Seq(set) /\ Chain(<<>>, a)
    BY DEF Chain
  <2> QED
    BY <2>1, <1>4
<1>7. ASSUME NEW i \in Nat, i \in G PROVE i + 1 \in G
  <2> SUFFICES ASSUME i + 1 <= n PROVE Good(i + 1)
    OBVIOUS
  <2>1. i + 1 \in 1 .. n /\ (i + 1) - 1 = i /\ i <= n
    BY <1>1
  <2>2. kept[i + 1] = KeepIfValid(kept[i], seq[i + 1])
    BY <2>1, <1>5
  <2>3. seq[i + 1] \in set /\ kept[i] \in Seq(set) /\ Chain(kept[i], a)
    BY <2>1, <1>7
  <2> QED
    BY <2>2, <2>3, KeepStep
<1>8. Nat \subseteq G
  <2> HIDE DEF G
  <2> QED
    BY <1>6, <1>7, NaturalsAreGood
<1> QED
  BY <1>1, <1>2, <1>8

\* The transactions of tx's account that do not come after it.
Before(set, tx) == {v \in Of(set, tx.sourceAccount) \ {tx} : v.seqNum <= tx.seqNum}

\* SeqBefore is the highest of their numbers, or 0.
LEMMA SeqBeforeFacts ==
    ASSUME NEW set \in SUBSET Txs, NEW tx \in set
    PROVE  /\ SeqBefore(set, tx) \in Nat
           /\ \A v \in Before(set, tx) : v.seqNum <= SeqBefore(set, tx)
           /\ \/ SeqBefore(set, tx) = 0
              \/ \E v \in Before(set, tx) : v.seqNum = SeqBefore(set, tx)
<1> DEFINE B == Before(set, tx)
           numbers == {0} \cup {u.seqNum : u \in B}
<1>1. B \subseteq set /\ \A v \in B : v.seqNum \in Nat /\ v.seqNum <= tx.seqNum
  BY TxFacts DEF Before, Of
<1>2. tx.seqNum \in Nat
  BY TxFacts
<1>3. SeqBefore(set, tx) = Max(numbers)
  BY DEF SeqBefore, Before
<1> HIDE DEF B
<1>4. numbers \in SUBSET Nat /\ numbers # {} /\ \A x \in numbers : x <= tx.seqNum
  BY <1>1, <1>2
<1> HIDE DEF numbers
<1>5. \E x \in numbers : \A y \in numbers : x >= y
  BY <1>2, <1>4, GreatestNatural
<1>6. Max(numbers) \in numbers /\ \A y \in numbers : Max(numbers) >= y
  BY <1>5, Zenon DEF Max
<1>7. Max(numbers) \in Nat
  BY <1>4, <1>6
<1>8. \A v \in B : v.seqNum <= Max(numbers)
  BY <1>1, <1>6, <1>7 DEF numbers
<1>9. Max(numbers) = 0 \/ \E v \in B : v.seqNum = Max(numbers)
  BY <1>6 DEF numbers
<1> QED
  BY <1>3, <1>7, <1>8, <1>9 DEF B

KeptSet(set, a) == ToSet(KeptByLoop(SeqSorted(Of(set, a))))

\* What trimInvalid leaves of an account is nothing, or a chain it can pay for.
LEMMA LeftOfAccount ==
    ASSUME IInv, NEW set \in Sets, NEW a \in Accounts, Of(trimInvalid(set), a) # {}
    PROVE  /\ CanPay(Of(trimInvalid(set), a), a)
           /\ \E kept \in Seq(Txs) : /\ Chain(kept, a)
                                     /\ Of(trimInvalid(set), a) = ToSet(kept)
<1> DEFINE Kept(b) == KeptByLoop(SeqSorted(Of(set, b)))
           Left(b) == IF KeptSet(set, b) # {} /\ ~CanPay(KeptSet(set, b), b)
                      THEN {} ELSE KeptSet(set, b)
<1>1. ASSUME NEW b \in Accounts
      PROVE  Kept(b) \in Seq(Of(set, b)) /\ Chain(Kept(b), b)
  <2>1. /\ Of(set, b) \in SUBSET Txs /\ IsFiniteSet(Of(set, b))
        /\ \A tx \in Of(set, b) : tx.sourceAccount = b
    <3>1. set \subseteq Txs /\ IsFiniteSet(set) /\ Of(set, b) \subseteq set
      BY DEF Sets, Of
    <3> QED
      BY <3>1, FS_Subset DEF Of
  <2>2. SeqSorted(Of(set, b)) \in Seq(Of(set, b))
    BY <2>1, SortedOfSet
  <2> QED
    BY <2>1, <2>2, KeptIsChain
<1>2. trimInvalid(set) = UNION {Left(b) : b \in Accounts}
  BY DEF trimInvalid, KeptSet
<1>3. \A b \in Accounts : KeptSet(set, b) \subseteq Of(set, b)
  BY <1>1 DEF KeptSet, ToSet
<1>4. \A b \in Accounts : Left(b) \subseteq KeptSet(set, b)
  OBVIOUS
<1>5. Of(trimInvalid(set), a) = Left(a)
  <2> HIDE DEF Left
  <2>1. \A tx : tx \in Of(trimInvalid(set), a) => tx \in Left(a)
    BY <1>2, <1>3, <1>4 DEF Of
  <2>2. \A tx : tx \in Left(a) => tx \in Of(trimInvalid(set), a)
    BY <1>2, <1>3, <1>4 DEF Of
  <2> QED
    BY <2>1, <2>2
<1>6. Left(a) = KeptSet(set, a) /\ CanPay(KeptSet(set, a), a)
  BY <1>5
<1>7. Kept(a) \in Seq(Txs)
  <2>1. Of(set, a) \subseteq Txs
    BY DEF Sets, Of
  <2> QED
    BY <1>1, <2>1
<1> QED
  BY <1>1, <1>5, <1>6, <1>7 DEF KeptSet

\* In a chain, the one before is the one before.
LEMMA ChainBefore ==
    ASSUME IInv, NEW a \in Accounts, NEW set \in SUBSET Txs,
           NEW kept \in Seq(Txs), Chain(kept, a), Of(set, a) = ToSet(kept),
           NEW i \in 1 .. Len(kept)
    PROVE  SeqBefore(set, kept[i]) = IF i = 1 THEN 0 ELSE sql[a].seqNum + i - 1
<1> DEFINE n == Len(kept)
           tx == kept[i]
           base == sql[a].seqNum
<1>1. n \in Nat /\ i \in Nat /\ i >= 1 /\ i <= n /\ DOMAIN kept = 1 .. n
  OBVIOUS
<1>2. \A j \in 1 .. n : kept[j] \in set /\ kept[j].sourceAccount = a
  BY <1>1 DEF ToSet, Of
<1>3. base \in Nat
  <2>1. sql[a] # Absent
    BY <1>2 DEF Chain, checkValid, ResultCode
  <2> QED
    BY <2>1, KeyFacts DEF IInv, TypeOK, IsTable, Entry
<1>4. \A j \in 1 .. n : kept[j].seqNum = base + j
  BY DEF Chain
<1> HIDE DEF base
<1>5. \A v : v \in Before(set, tx) <=> \E j \in 1 .. i - 1 : v = kept[j]
  <2>1. ASSUME NEW v \in Before(set, tx) PROVE \E j \in 1 .. i - 1 : v = kept[j]
    <3>1. v \in ToSet(kept) /\ v # tx /\ v.seqNum <= tx.seqNum
      BY <2>1, <1>2 DEF Before
    <3>2. PICK j \in 1 .. n : v = kept[j]
      BY <3>1, <1>1 DEF ToSet
    <3>3. j # i /\ base + j <= base + i
      BY <3>1, <3>2, <1>4
    <3> QED
      BY <3>2, <3>3, <1>1, <1>3
  <2>2. ASSUME NEW j \in 1 .. i - 1 PROVE kept[j] \in Before(set, tx)
    <3>1. j \in 1 .. n /\ base + j < base + i
      BY <1>1, <1>3
    <3>2. kept[j] # tx /\ kept[j].seqNum <= tx.seqNum
      BY <3>1, <1>1, <1>3, <1>4
    <3>3. kept[j] \in ToSet(kept)
      BY <3>1, <1>1 DEF ToSet
    <3> QED
      BY <3>2, <3>3, <1>2 DEF Before
  <2> QED
    BY <2>1, <2>2
<1> DEFINE s == SeqBefore(set, tx)
<1>6. /\ s \in Nat
      /\ \A v \in Before(set, tx) : v.seqNum <= s
      /\ s = 0 \/ \E v \in Before(set, tx) : v.seqNum = s
  BY <1>2, SeqBeforeFacts
<1> HIDE DEF s, tx
<1>7. CASE i = 1
  <2>1. \A v : v \notin Before(set, tx)
    BY <1>5, <1>7
  <2>2. s = 0
    BY <1>6, <2>1
  <2> QED
    BY <2>2, <1>7 DEF s, tx
<1>8. CASE i # 1
  <2>1. i - 1 \in 1 .. i - 1 /\ i - 1 \in 1 .. n
    BY <1>1, <1>8
  <2>2. base + (i - 1) <= s
    BY <2>1, <1>4, <1>5, <1>6
  <2>3. s # 0
    BY <2>2, <1>1, <1>3, <1>6, <1>8
  <2>4. PICK j \in 1 .. i - 1 : kept[j].seqNum = s
    BY <2>3, <1>5, <1>6
  <2>5. j \in 1 .. n /\ s = base + j
    BY <2>4, <1>1, <1>4
  <2>6. s = base + i - 1
    BY <2>2, <2>5, <1>1, <1>3
  <2> QED
    BY <2>6, <1>8 DEF s, tx, base
<1> QED
  BY <1>7, <1>8

\* What trimInvalid leaves of any set is valid.
LEMMA TrimmedIsValid ==
    ASSUME IInv, NEW set \in Sets
    PROVE  txSetValid(trimInvalid(set))
<1> DEFINE T == trimInvalid(set)
<1>1. ASSUME NEW tx \in T
      PROVE  /\ tx.sourceAccount \in Accounts
             /\ tx \in Of(T, tx.sourceAccount)
             /\ tx \in Txs
  <2>1. PICK b \in Accounts : tx \in KeptSet(set, b)
    BY DEF trimInvalid, KeptSet
  <2>2. Of(set, b) \in SUBSET Txs /\ IsFiniteSet(Of(set, b))
    <3>1. set \subseteq Txs /\ IsFiniteSet(set) /\ Of(set, b) \subseteq set
      BY DEF Sets, Of
    <3> QED
      BY <3>1, FS_Subset
  <2>3. KeptByLoop(SeqSorted(Of(set, b))) \in Seq(Of(set, b))
    <3>1. \A u \in Of(set, b) : u.sourceAccount = b
      BY DEF Of
    <3> QED
      BY <2>2, <3>1, SortedOfSet, KeptIsChain
  <2>4. tx \in Txs
    BY <2>1, <2>2, <2>3 DEF KeptSet, ToSet
  <2> QED
    BY <2>4, TxFacts DEF Of
<1>2. T \in SUBSET Txs
  BY <1>1
<1> HIDE DEF T
<1>3. ASSUME NEW tx \in T
      PROVE  checkValid(tx, SeqBefore(T, tx)) /\ CanPay(Of(T, tx.sourceAccount), tx.sourceAccount)
  <2> DEFINE a == tx.sourceAccount
  <2>1. a \in Accounts /\ tx \in Of(T, a)
    BY <1>1
  <2> HIDE DEF a
  <2>2. PICK kept \in Seq(Txs) : Chain(kept, a) /\ Of(T, a) = ToSet(kept)
    BY <2>1, LeftOfAccount DEF T
  <2>3. CanPay(Of(T, a), a)
    BY <2>1, LeftOfAccount DEF T
  <2>4. PICK i \in 1 .. Len(kept) : tx = kept[i]
    BY <2>1, <2>2 DEF ToSet
  <2>5. SeqBefore(T, tx) = IF i = 1 THEN 0 ELSE sql[a].seqNum + i - 1
    BY <2>1, <2>2, <2>4, <1>2, ChainBefore
  <2>6. checkValid(tx, IF i = 1 THEN 0 ELSE sql[a].seqNum + i - 1)
    BY <2>2, <2>4 DEF Chain
  <2> QED
    BY <2>3, <2>5, <2>6 DEF a
<1> QED
  BY <1>3 DEF txSetValid, T

-----------------------------------------------------------------------------
(* The transactions still to apply.                                        *)

\* What is left to apply once the transaction inside apply is done.
Queue == IF pc = "ops" THEN Tail(txs) ELSE txs

\* What does not depend on the balance and the sequence number.
Admitted(tx) ==
    /\ tx.operations # <<>>
    /\ ledgerSeq \in tx.minLedger .. tx.maxLedger
    /\ ~(tx.maxFee < getFee(tx))
    /\ tx.sourceAccount \in tx.signers

\* tx, at place i of the queue, has the number its account will then expect:
\* the next one, or the one after a transaction that comes earlier.
ComesAfter(queue, i, table) ==
    LET tx == queue[i]
        account == table[tx.sourceAccount]
    IN  /\ account # Absent
        /\ tx.seqNum > account.seqNum
        /\ \/ tx.seqNum = account.seqNum + 1
           \/ \E j \in 1 .. i - 1 : /\ queue[j].sourceAccount = tx.sourceAccount
                                    /\ queue[j].seqNum = tx.seqNum - 1

Increasing(queue) ==
    \A i, j \in 1 .. Len(queue) :
        i < j /\ queue[i].sourceAccount = queue[j].sourceAccount
            => queue[i].seqNum < queue[j].seqNum

InOrder(queue, table) ==
    /\ \A i \in 1 .. Len(queue) : Admitted(queue[i]) /\ ComesAfter(queue, i, table)
    /\ Increasing(queue)

QueueInv ==
    /\ ghost.refused = {}
    /\ pc = "open" => txs = <<>>
    /\ InOrder(Queue, Base)

\* The transactions of a valid set have, account by account, different numbers
\* above the account's, each the next one or the one after another's.
LEMMA ValidSetFacts ==
    ASSUME IInv, NEW set \in SUBSET Txs, txSetValid(set), NEW tx \in set
    PROVE  /\ Admitted(tx)
           /\ sql[tx.sourceAccount] # Absent
           /\ tx.seqNum > sql[tx.sourceAccount].seqNum
           /\ \/ tx.seqNum = sql[tx.sourceAccount].seqNum + 1
              \/ \E u \in set : /\ u.sourceAccount = tx.sourceAccount
                                /\ u.seqNum = tx.seqNum - 1
           /\ \A u \in set : u.sourceAccount = tx.sourceAccount /\ u # tx
                                 => u.seqNum # tx.seqNum
<1> DEFINE a == tx.sourceAccount
           base == sql[a].seqNum
<1>1. a \in Accounts /\ \A u \in set : u.seqNum \in Nat /\ u.seqNum # 0
  BY TxFacts
<1>2. ASSUME NEW u \in set
      PROVE  /\ checkValid(u, SeqBefore(set, u))
             /\ Admitted(u)
             /\ sql[u.sourceAccount] # Absent
             /\ u.seqNum = 1 + (IF SeqBefore(set, u) = 0 THEN sql[u.sourceAccount].seqNum
                                ELSE SeqBefore(set, u))
  <2>1. checkValid(u, SeqBefore(set, u))
    BY DEF txSetValid
  <2> QED
    BY <2>1 DEF checkValid, ResultCode, Admitted
<1>3. base \in Nat
  BY <1>1, <1>2, KeyFacts DEF IInv, TypeOK, IsTable, Entry
<1> HIDE DEF a
<1>4. \A u \in set : u.sourceAccount = a =>
          u.seqNum = 1 + (IF SeqBefore(set, u) = 0 THEN base ELSE SeqBefore(set, u))
  BY <1>2
<1> HIDE DEF base
<1>5. ASSUME NEW u \in set, NEW v \in set, u.sourceAccount = a, v.sourceAccount = a,
             v # u, v.seqNum <= u.seqNum
      PROVE  v.seqNum < u.seqNum
  <2>1. v \in Before(set, u)
    BY <1>5 DEF Before, Of
  <2>2. SeqBefore(set, u) \in Nat /\ v.seqNum <= SeqBefore(set, u)
    BY <2>1, SeqBeforeFacts
  <2> QED
    BY <2>2, <1>1, <1>4, <1>5
<1>6. tx.sourceAccount = a
  BY DEF a
<1>7. \A u \in set : u.sourceAccount = a /\ u # tx => u.seqNum # tx.seqNum
  BY <1>1, <1>5, <1>6
<1>8. tx.seqNum = base + 1 \/ \E u \in set : u.sourceAccount = a /\ u.seqNum = tx.seqNum - 1
  <2>1. CASE SeqBefore(set, tx) = 0
    BY <2>1, <1>3, <1>4, <1>6
  <2>2. CASE SeqBefore(set, tx) # 0
    <3>1. PICK u \in Before(set, tx) : u.seqNum = SeqBefore(set, tx)
      BY <2>2, SeqBeforeFacts
    <3>2. u \in set /\ u.sourceAccount = a
      BY <1>6 DEF Before, Of
    <3>3. tx.seqNum = 1 + u.seqNum
      BY <2>2, <3>1, <1>4, <1>6
    <3> QED
      BY <3>2, <3>3, <1>1
  <2> QED
    BY <2>1, <2>2
<1>9. tx.seqNum > base
  <2> DEFINE numbers == {u.seqNum : u \in Of(set, a)}
  <2>1. numbers \in SUBSET Nat /\ tx.seqNum \in numbers
    BY <1>1, <1>6 DEF Of
  <2>2. PICK least \in numbers : \A y \in numbers : least <= y
    BY <2>1, LeastNatural
  <2>3. PICK u \in Of(set, a) : u.seqNum = least
    BY <2>2
  <2>4. u \in set /\ u.sourceAccount = a /\ u.seqNum <= tx.seqNum
    BY <2>1, <2>2, <2>3 DEF Of
  <2>5. SeqBefore(set, u) = 0
    <3>1. ASSUME NEW v \in Before(set, u) PROVE FALSE
      <4>1. v \in set /\ v.sourceAccount = a /\ v # u /\ v.seqNum <= u.seqNum
        BY <2>4 DEF Before, Of
      <4>2. v.seqNum \in numbers
        BY <4>1 DEF Of
      <4>3. least <= v.seqNum /\ v.seqNum < u.seqNum
        BY <4>1, <4>2, <2>2, <2>4, <1>5
      <4> QED
        BY <4>1, <4>3, <2>3, <2>4, <1>1
    <3> QED
      BY <3>1, <2>4, SeqBeforeFacts
  <2>6. u.seqNum = 1 + base
    BY <2>4, <2>5, <1>4
  <2> QED
    BY <2>4, <2>6, <1>1, <1>3
<1> QED
  BY <1>2, <1>6, <1>7, <1>8, <1>9 DEF base

\* Of two transactions of an account, the one with the lower number is in an
\* earlier batch.
LEMMA BatchFacts ==
    ASSUME NEW set \in SUBSET Txs, IsFiniteSet(set), NEW u \in set, NEW v \in set,
           u.sourceAccount = v.sourceAccount, u.seqNum < v.seqNum
    PROVE  BatchOf(set, u) < BatchOf(set, v)
<1> DEFINE P(t) == {w \in Of(set, t.sourceAccount) : w.seqNum < t.seqNum}
<1>1. \A w \in set : w.seqNum \in Nat
  BY TxFacts
<1>2. P(u) \subseteq P(v) /\ u \in P(v) /\ u \notin P(u) /\ P(v) \subseteq set
  BY <1>1 DEF Of
<1>3. /\ IsFiniteSet(P(v)) /\ IsFiniteSet(P(u))
      /\ Cardinality(P(u)) \in Nat /\ Cardinality(P(v)) \in Nat
  BY <1>2, FS_Subset, FS_CardinalityType
<1> HIDE DEF P
<1>4. Cardinality(P(u)) <= Cardinality(P(v)) /\ Cardinality(P(u)) # Cardinality(P(v))
  BY <1>2, <1>3, FS_Subset
<1> QED
  BY <1>3, <1>4 DEF BatchOf, P

\* sortForApply puts a valid set into an order that works.
LEMMA SortedForApply ==
    ASSUME IInv, NEW set \in Sets, txSetValid(set), NEW queue \in sortForApply(set)
    PROVE  InOrder(queue, sql)
<1> DEFINE n == Cardinality(set)
<1>1. set \in SUBSET Txs /\ IsFiniteSet(set) /\ n \in Nat
  BY FS_CardinalityType DEF Sets
<1>2. /\ queue \in [1 .. n -> set]
      /\ \A i, j \in 1 .. n : i # j => queue[i] # queue[j]
      /\ \A i, j \in 1 .. n : i < j => BatchOf(set, queue[i]) <= BatchOf(set, queue[j])
  BY DEF sortForApply, SetToSeqs
<1>3. Len(queue) = n
  BY <1>1, <1>2
<1>4. \A u \in set : \E i \in 1 .. n : queue[i] = u
  <2>1. queue \in Injection(1 .. n, set)
    BY <1>2 DEF Injection, IsInjective
  <2>2. Cardinality(1 .. n) = n
    BY <1>1, FS_Interval
  <2>3. queue \in Surjection(1 .. n, set)
    BY <2>1, <2>2, <1>1, FS_Injection
  <2> QED
    BY <2>3 DEF Surjection
<1>5. \A t \in set : t.seqNum \in Nat /\ BatchOf(set, t) \in Nat
  <2> SUFFICES ASSUME NEW t \in set PROVE t.seqNum \in Nat /\ BatchOf(set, t) \in Nat
    OBVIOUS
  <2> DEFINE P == {w \in Of(set, t.sourceAccount) : w.seqNum < t.seqNum}
  <2>1. P \subseteq set
    BY DEF Of
  <2>2. Cardinality(P) \in Nat
    BY <2>1, <1>1, FS_Subset, FS_CardinalityType
  <2> QED
    BY <2>2, <1>1, TxFacts DEF BatchOf
<1>6. ASSUME NEW i \in 1 .. n, NEW j \in 1 .. n,
             queue[i].sourceAccount = queue[j].sourceAccount,
             queue[j].seqNum < queue[i].seqNum
      PROVE  j < i
  <2>1. BatchOf(set, queue[j]) < BatchOf(set, queue[i])
    BY <1>1, <1>2, <1>6, BatchFacts
  <2>2. ~(i < j)
    BY <2>1, <1>2, <1>5
  <2>3. i # j
    BY <1>2, <1>5, <1>6
  <2> QED
    BY <2>2, <2>3
<1>7. ASSUME NEW i \in 1 .. n
      PROVE  Admitted(queue[i]) /\ ComesAfter(queue, i, sql)
  <2> DEFINE tx == queue[i]
  <2>1. tx \in set
    BY <1>2
  <2>2. /\ Admitted(tx)
        /\ sql[tx.sourceAccount] # Absent
        /\ tx.seqNum > sql[tx.sourceAccount].seqNum
        /\ \/ tx.seqNum = sql[tx.sourceAccount].seqNum + 1
           \/ \E u \in set : /\ u.sourceAccount = tx.sourceAccount
                             /\ u.seqNum = tx.seqNum - 1
    BY <2>1, <1>1, ValidSetFacts
  <2>3. ASSUME NEW u \in set, u.sourceAccount = tx.sourceAccount, u.seqNum = tx.seqNum - 1
        PROVE  \E j \in 1 .. i - 1 : /\ queue[j].sourceAccount = tx.sourceAccount
                                     /\ queue[j].seqNum = tx.seqNum - 1
    <3>1. PICK j \in 1 .. n : queue[j] = u
      BY <1>4
    <3>2. queue[j].seqNum < queue[i].seqNum
      BY <3>1, <2>1, <2>3, <1>5
    <3>3. j < i
      BY <3>1, <3>2, <2>3, <1>6
    <3>4. j \in 1 .. i - 1
      BY <3>3
    <3> QED
      BY <3>1, <3>4, <2>3
  <2> QED
    BY <2>2, <2>3 DEF ComesAfter
<1>8. Increasing(queue)
  <2> SUFFICES ASSUME NEW i \in 1 .. n, NEW j \in 1 .. n, i < j,
                      queue[i].sourceAccount = queue[j].sourceAccount
               PROVE  queue[i].seqNum < queue[j].seqNum
    BY <1>3 DEF Increasing
  <2>1. queue[i] \in set /\ queue[j] \in set /\ queue[i] # queue[j]
    BY <1>2
  <2>2. queue[i].seqNum # queue[j].seqNum
    BY <2>1, <1>1, ValidSetFacts
  <2>3. ~(queue[j].seqNum < queue[i].seqNum)
    BY <1>6
  <2> QED
    BY <2>1, <2>2, <2>3, <1>5
<1> QED
  BY <1>3, <1>7, <1>8 DEF InOrder

\* The head of the queue has the number its account expects, and once the
\* account has it the rest of the queue is in order.
LEMMA PopKeeps ==
    ASSUME NEW queue \in Seq(Txs), queue # <<>>, NEW table, NEW after, InOrder(queue, table),
           NEW a, a = Head(queue).sourceAccount,
           \A b \in Accounts : table[b] # Absent => table[b].seqNum \in Nat,
           after[a] # Absent, after[a].seqNum = Head(queue).seqNum,
           \A b \in Accounts : b # a /\ table[b] # Absent =>
               after[b] # Absent /\ after[b].seqNum = table[b].seqNum
    PROVE  InOrder(Tail(queue), after)
<1> DEFINE n == Len(queue)
           rest == Tail(queue)
           first == queue[1]
<1>1. n \in Nat /\ n >= 1 /\ Head(queue) = first
  OBVIOUS
<1>2. /\ Len(rest) = n - 1
      /\ \A i \in 1 .. n - 1 : rest[i] = queue[i + 1] /\ i + 1 \in 1 .. n /\ i + 1 > 1
  BY <1>1
<1> HIDE DEF rest
<1>3. \A i \in 1 .. n : /\ queue[i].seqNum \in Nat
                        /\ queue[i].sourceAccount \in Accounts
                        /\ Admitted(queue[i])
                        /\ ComesAfter(queue, i, table)
  BY TxFacts DEF InOrder
<1>4. \A i \in 2 .. n : queue[i].sourceAccount = a => first.seqNum < queue[i].seqNum
  BY <1>1 DEF InOrder, Increasing
<1>5. first.seqNum = table[a].seqNum + 1
  <2>1. 1 \in 1 .. n
    BY <1>1
  <2> QED
    BY <2>1, <1>1, <1>3 DEF ComesAfter
<1>6. ASSUME NEW i \in 1 .. n - 1
      PROVE  Admitted(rest[i]) /\ ComesAfter(rest, i, after)
  <2> DEFINE tx == queue[i + 1]
             b == tx.sourceAccount
  <2>1. rest[i] = tx /\ i + 1 \in 1 .. n /\ i + 1 \in 2 .. n
    BY <1>1, <1>2
  <2>2. /\ Admitted(tx) /\ b \in Accounts /\ tx.seqNum \in Nat
        /\ table[b] # Absent /\ tx.seqNum > table[b].seqNum
        /\ \/ tx.seqNum = table[b].seqNum + 1
           \/ \E j \in 1 .. (i + 1) - 1 : /\ queue[j].sourceAccount = b
                                          /\ queue[j].seqNum = tx.seqNum - 1
    BY <2>1, <1>3 DEF ComesAfter
  <2> HIDE DEF tx, b
  <2>3. ASSUME NEW j \in 1 .. (i + 1) - 1, queue[j].sourceAccount = b,
               queue[j].seqNum = tx.seqNum - 1, j # 1
        PROVE  \E k \in 1 .. i - 1 : /\ rest[k].sourceAccount = b
                                     /\ rest[k].seqNum = tx.seqNum - 1
    <3>1. j - 1 \in 1 .. i - 1 /\ j - 1 \in 1 .. n - 1 /\ (j - 1) + 1 = j
      BY <2>3, <1>1
    <3>2. rest[j - 1] = queue[j]
      BY <3>1, <1>2
    <3> QED
      BY <3>1, <3>2, <2>3
  <2>4. CASE b = a
    <3>1. first.seqNum < tx.seqNum
      BY <2>1, <2>4, <1>4 DEF tx, b
    <3>2. tx.seqNum # table[a].seqNum + 1
      BY <3>1, <1>1, <1>3, <1>5, <2>2
    <3>3. PICK j \in 1 .. (i + 1) - 1 : /\ queue[j].sourceAccount = b
                                        /\ queue[j].seqNum = tx.seqNum - 1
      BY <3>2, <2>2, <2>4
    <3>4. j = 1 => tx.seqNum = first.seqNum + 1
      BY <3>3, <2>2
    <3>5. \/ tx.seqNum = first.seqNum + 1
          \/ \E k \in 1 .. i - 1 : /\ rest[k].sourceAccount = b
                                   /\ rest[k].seqNum = tx.seqNum - 1
      BY <3>3, <3>4, <2>3
    <3>6. after[b] # Absent /\ after[b].seqNum = first.seqNum
      BY <2>4, <1>1
    <3>7. tx.seqNum > first.seqNum
      BY <3>1, <2>2, <1>1, <1>3
    <3>8. ComesAfter(rest, i, after)
      BY <3>5, <3>6, <3>7, <2>1 DEF ComesAfter, b
    <3> QED
      BY <3>8, <2>1, <2>2
  <2>5. CASE b # a
    <3>1. after[b] # Absent /\ after[b].seqNum = table[b].seqNum
      BY <2>2, <2>5
    <3>2. \/ tx.seqNum = table[b].seqNum + 1
          \/ \E k \in 1 .. i - 1 : /\ rest[k].sourceAccount = b
                                   /\ rest[k].seqNum = tx.seqNum - 1
      <4>1. \A j \in 1 .. (i + 1) - 1 : queue[j].sourceAccount = b => j # 1
        BY <2>5, <1>1
      <4> QED
        BY <4>1, <2>2, <2>3
    <3>3. ComesAfter(rest, i, after)
      BY <3>1, <3>2, <2>1, <2>2 DEF ComesAfter, b
    <3> QED
      BY <3>3, <2>1, <2>2
  <2> QED
    BY <2>4, <2>5
<1>7. Increasing(rest)
  <2> SUFFICES ASSUME NEW i \in 1 .. n - 1, NEW j \in 1 .. n - 1, i < j,
                      rest[i].sourceAccount = rest[j].sourceAccount
               PROVE  rest[i].seqNum < rest[j].seqNum
    BY <1>2 DEF Increasing
  <2>1. /\ rest[i] = queue[i + 1] /\ rest[j] = queue[j + 1]
        /\ i + 1 \in 1 .. n /\ j + 1 \in 1 .. n /\ i + 1 < j + 1
    BY <1>1, <1>2
  <2> QED
    BY <2>1 DEF InOrder, Increasing
<1> QED
  BY <1>2, <1>6, <1>7 DEF InOrder, rest

\* The head of the queue fails, if it does, for want of balance, and its fee is
\* taken.
LEMMA HeadIsNext ==
    ASSUME IInv, QueueInv, pc = "apply", txs # <<>>
    PROVE  /\ InOrder(txs, sql) /\ txs \in Seq(Txs) /\ Tx = Head(txs)
           /\ Src \in Accounts /\ sql[Src] # Absent
           /\ ResultCode(Tx, sql, 0) \in {"txINSUFFICIENT_BALANCE", "txSUCCESS"}
           /\ ~FeeThrows(Tx)
           /\ \A b \in Accounts : sql[b] # Absent => sql[b].seqNum \in Nat
<1>1. InOrder(txs, sql) /\ txs \in Seq(Txs) /\ Src \in Accounts /\ Tx \in Txs /\ Tx = Head(txs)
  BY TxIsTx DEF IInv, TypeOK, QueueInv, Queue, Base, Tx
<1>2. 1 \in 1 .. Len(txs) /\ txs[1] = Tx
  BY <1>1
<1>3. Admitted(Tx) /\ ComesAfter(txs, 1, sql)
  BY <1>1, <1>2 DEF InOrder
<1>4. sql[Src] # Absent /\ Tx.seqNum = sql[Src].seqNum + 1
  BY <1>2, <1>3 DEF ComesAfter, Src
<1>5. \A b \in Accounts : sql[b] # Absent => sql[b].seqNum \in Nat
  BY KeyFacts DEF IInv, TypeOK, IsTable, Entry
<1>6. Tx.seqNum = 1 + sql[Src].seqNum
  BY <1>1, <1>4, <1>5
<1>7. ResultCode(Tx, sql, 0) \in {"txINSUFFICIENT_BALANCE", "txSUCCESS"}
  BY <1>3, <1>4, <1>6 DEF ResultCode, Admitted, Src
<1>8. ~FeeThrows(Tx)
  <2>1. Solvent(sql[Src]) /\ sql[Src] \in Entry
    BY <1>1, <1>4, KeyFacts DEF IInv, SolventInv, IsSolvent, TypeOK, IsTable
  <2>2. sql[Src].balance \in Nat /\ getMinimumBalance(sql[Src]) \in Nat
    BY <2>1, MinBalanceFacts DEF Entry, getMinimumBalance
  <2> QED
    BY <2>1, <2>2 DEF FeeThrows, Solvent, Src
<1> QED
  BY <1>1, <1>4, <1>5, <1>7, <1>8

\* The order of the next state's queue, with the ledger it is applied to.
LEMMA OrderNext ==
    ASSUME ledgerSeq' = ledgerSeq, NEW queue, NEW table, InOrder(queue, table),
           Queue' = queue, Base' = table
    PROVE  InOrder(Queue, Base)'
BY DEF InOrder, Increasing, ComesAfter, Admitted, getFee

\* No step leaves a transaction of the set where it will be refused.
LEMMA QueueStep == IInv /\ IInv' /\ QueueInv /\ [Next]_vars => QueueInv'
<1> SUFFICES ASSUME IInv, IInv', QueueInv, [Next]_vars PROVE QueueInv'
  OBVIOUS
<1>a. /\ ghost.refused = {} /\ InOrder(Queue, Base) /\ pc' # "aborted"
      /\ TypeOK /\ ghost \in Ghost
  BY DEF QueueInv, IInv, NoAbort, TypeOK
<1>1. ASSUME NEW set \in Sets, closeLedger(set) PROVE QueueInv'
  <2>1. /\ pc' = "apply" /\ sql' = sql /\ ledgerSeq' = ledgerSeq
        /\ txs' \in sortForApply(set) /\ txSetValid(set)
        /\ ghost' = [ghost EXCEPT !.refused = {}]
    BY <1>1 DEF closeLedger
  <2>2. InOrder(txs', sql)
    BY <2>1, SortedForApply
  <2>3. Queue' = txs' /\ Base' = sql
    BY <2>1 DEF Queue, Base
  <2>4. InOrder(Queue, Base)'
    BY <2>1, <2>2, <2>3, OrderNext
  <2>5. ghost'.refused = {}
    BY <2>1, <1>a DEF Ghost
  <2> QED
    BY <2>1, <2>4, <2>5 DEF QueueInv
<1>2. CASE txRejected
  <2>1. /\ pc = "apply" /\ txs # <<>> /\ pc' = "apply" /\ txs' = Tail(txs)
        /\ ledgerSeq' = ledgerSeq
    BY <1>2 DEF txRejected
  <2>2. /\ InOrder(txs, sql) /\ txs \in Seq(Txs) /\ Tx = Head(txs)
        /\ Src \in Accounts /\ sql[Src] # Absent
        /\ ResultCode(Tx, sql, 0) \in {"txINSUFFICIENT_BALANCE", "txSUCCESS"}
        /\ ~FeeThrows(Tx)
        /\ \A b \in Accounts : sql[b] # Absent => sql[b].seqNum \in Nat
    BY <2>1, HeadIsNext
  <2> DEFINE charged == Charged(sql[Src], Tx)
             taken == FeeTaken(sql[Src], getFee(Tx))
  <2>3. sql' = [sql EXCEPT ![Src] = charged] /\ ghost' = RejectedGhost(taken)
    BY <1>2, <2>2 DEF txRejected, Src
  <2>4. sql[Src] \in Entry /\ DOMAIN sql = Keys /\ Src \in Keys /\ Solvent(sql[Src]) /\ Tx \in Txs
    BY <2>1, <2>2, TxIsTx, KeyFacts DEF IInv, SolventInv, IsSolvent, TypeOK, IsTable
  <2>5. charged \in Entry /\ charged.seqNum = Tx.seqNum /\ charged # Absent
    BY <2>4, FeeFacts, KeyFacts
  <2>6. ghost'.refused = {}
    BY <2>3, <1>a DEF RejectedGhost, Ghost
  <2> HIDE DEF charged
  <2>7. InOrder(Tail(txs), sql')
    <3>1. sql'[Src] = charged /\ \A b \in Accounts : b # Src => sql'[b] = sql[b]
      BY <2>3, <2>4, KeyFacts
    <3> QED
      BY <3>1, <2>1, <2>2, <2>5, PopKeeps DEF Src
  <2>8. Queue' = Tail(txs) /\ Base' = sql'
    BY <2>1 DEF Queue, Base
  <2>9. InOrder(Queue, Base)'
    BY <2>1, <2>7, <2>8, OrderNext
  <2> QED
    BY <2>1, <2>6, <2>9 DEF QueueInv
<1>3. CASE txBegin
  <2>1. /\ pc = "apply" /\ txs # <<>> /\ pc' = "ops" /\ txs' = txs
        /\ ledgerSeq' = ledgerSeq /\ ghost' = ghost /\ savepoint' = sql'
        /\ sql' = [sql EXCEPT ![Src] = Charged(sql[Src], Tx)]
    BY <1>3 DEF txBegin, sqlTx, Src
  <2>2. /\ InOrder(txs, sql) /\ txs \in Seq(Txs) /\ Tx = Head(txs)
        /\ Src \in Accounts /\ sql[Src] # Absent
        /\ \A b \in Accounts : sql[b] # Absent => sql[b].seqNum \in Nat
    BY <2>1, HeadIsNext
  <2> DEFINE charged == Charged(sql[Src], Tx)
  <2>4. sql[Src] \in Entry /\ DOMAIN sql = Keys /\ Src \in Keys /\ Solvent(sql[Src]) /\ Tx \in Txs
    BY <2>1, <2>2, TxIsTx, KeyFacts DEF IInv, SolventInv, IsSolvent, TypeOK, IsTable
  <2>5. charged \in Entry /\ charged.seqNum = Tx.seqNum /\ charged # Absent
    BY <2>4, FeeFacts, KeyFacts
  <2> HIDE DEF charged
  <2>7. InOrder(Tail(txs), sql')
    <3>1. sql'[Src] = charged /\ \A b \in Accounts : b # Src => sql'[b] = sql[b]
      BY <2>1, <2>4, KeyFacts DEF charged
    <3>2. txs # <<>> /\ Src = Head(txs).sourceAccount
      BY <2>1, <2>2 DEF Src
    <3> QED
      BY <3>1, <3>2, <2>2, <2>5, PopKeeps
  <2>8. Queue' = Tail(txs) /\ Base' = sql'
    BY <2>1 DEF Queue, Base
  <2>9. InOrder(Queue, Base)'
    BY <2>1, <2>7, <2>8, OrderNext
  <2> QED
    BY <2>1, <2>9, <1>a DEF QueueInv
<1>4. CASE opFails \/ opPaymentToSelf \/ opPayment \/ opNewLine \/ opDropLine \/ opChangeLine
  <2>1. /\ pc = "ops" /\ pc' \in {pc, "aborted"} /\ txs' = txs /\ savepoint' = savepoint
        /\ ledgerSeq' = ledgerSeq /\ ghost' \in {ghost, StaleGhost}
    BY <1>4 DEF opFails, opPaymentToSelf, opPayment, opNewLine, opDropLine, opChangeLine,
                AtOp, AtTrust, storeSourceAnd, opKept
  <2>2. pc' = "ops" /\ Queue' = Queue /\ Base' = Base
    BY <2>1, <1>a DEF Queue, Base
  <2>3. ghost'.refused = {}
    BY <2>1, <1>a DEF StaleGhost, Ghost
  <2>4. InOrder(Queue, Base)'
    BY <2>1, <2>2, <1>a, OrderNext
  <2> QED
    BY <2>2, <2>3, <2>4 DEF QueueInv
<1>5. CASE opThrows
  <2>1. /\ pc = "ops" /\ pc' = "apply" /\ txs' = Tail(txs) /\ sql' = savepoint
        /\ ledgerSeq' = ledgerSeq
        /\ ghost' = RejectedGhost(delta.feePool - ledgerDelta.feePool)
    BY <1>5 DEF opThrows, AtOp, AtTrust
  <2>2. Queue' = Queue /\ Base' = Base
    BY <2>1 DEF Queue, Base
  <2>3. ghost'.refused = {}
    BY <2>1, <1>a DEF RejectedGhost, Ghost
  <2>4. InOrder(Queue, Base)'
    BY <2>1, <2>2, <1>a, OrderNext
  <2> QED
    BY <2>1, <2>3, <2>4 DEF QueueInv
<1>6. CASE txEnd
  <2>1. /\ pc = "ops" /\ pc' = "apply" /\ txs' = Tail(txs) /\ sql' = TableOfTx
        /\ ledgerSeq' = ledgerSeq
        /\ ghost' = [ghost EXCEPT !.dirty = @ \ Changed(ChangesOfTx),
                                  !.consumed = @ \cup {Tx}]
    BY <1>6, <1>a DEF txEnd
  <2>2. Queue = Tail(txs) /\ Queue' = Queue /\ Base = savepoint /\ Base' = sql'
    BY <2>1 DEF Queue, Base
  <2>3. ghost'.refused = {}
    BY <2>1, <1>a DEF Ghost
  <2>4. \A b \in Accounts : savepoint[b] # Absent =>
            sql'[b] # Absent /\ sql'[b].seqNum = savepoint[b].seqNum
    BY <2>1 DEF IInv, SeqInv, TableOfTx
  <2>5. Queue \in Seq(Txs)
    BY <2>1, <2>2, TxIsTx DEF IInv, TxInv
  <2>6. InOrder(Queue, sql')
    <3>1. \A i \in 1 .. Len(Queue) : Queue[i].sourceAccount \in Accounts
      BY <2>5, TxFacts
    <3> QED
      BY <3>1, <2>2, <2>4, <1>a DEF InOrder, ComesAfter
  <2>7. InOrder(Queue, Base)'
    BY <2>1, <2>2, <2>6, OrderNext
  <2> QED
    BY <2>1, <2>3, <2>7 DEF QueueInv
<1>7. CASE closeLedgerHelper
  <2>1. pc' = "open" /\ txs = <<>> /\ txs' = <<>> /\ ghost' = ghost
    BY <1>7 DEF closeLedgerHelper
  <2>2. Queue' = <<>>
    BY <2>1 DEF Queue
  <2>3. InOrder(Queue, Base)'
    BY <2>2 DEF InOrder, Increasing
  <2> QED
    BY <2>1, <2>3, <1>a DEF QueueInv
<1>8. CASE UNCHANGED vars
  <2>1. /\ Queue' = Queue /\ Base' = Base /\ ledgerSeq' = ledgerSeq /\ pc' = pc
        /\ txs' = txs /\ ghost' = ghost
    BY <1>8 DEF vars, Queue, Base
  <2>2. InOrder(Queue, Base)'
    BY <2>1, <1>a, OrderNext
  <2> QED
    BY <2>1, <2>2 DEF QueueInv
<1> QED
  BY <1>1, <1>2, <1>3, <1>4, <1>5, <1>6, <1>7, <1>8 DEF Next

-----------------------------------------------------------------------------
(* The theorems.                                                           *)

\* The inductive invariant holds of every behaviour of closeLedger.
THEOREM Invariance == Spec => []IInv
<1>1. Init => IInv
  BY InitIInv
<1>2. IInv /\ [Next]_vars => IInv'
  BY NextIInv
<1> QED
  BY <1>1, <1>2, PTL DEF Spec

\* No close meets an assert of LedgerDelta::addEntry, deleteEntry, modEntry or
\* mergeEntries, and no account is ever below its reserve between transactions,
\* so that getBalanceAboveReserve never throws in prepareResult.
THEOREM CloseThrowsNothing == Spec => []NothingThrows
<1>1. IInv => NothingThrows
  BY DEF IInv, NothingThrows, AboveReserve, SolventInv, IsSolvent, Solvent
<1> QED
  BY <1>1, Invariance, PTL

\* The SQL tables and the bucket list with the deltas of the close on top hold
\* the same entries at every step of closeLedger and of TransactionFrame::apply,
\* save the sources of rejected transactions.
THEOREM TablesMatchDeltas == Spec => []SqlMatchesDeltas
<1>1. ASSUME IInv PROVE SqlMatchesDeltas
  <2> SUFFICES ASSUME NEW k \in Keys \ ghost.dirty PROVE sql[k] = FromDeltas[k]
    BY DEF SqlMatchesDeltas
  <2>1. CASE pc # "ops"
    BY <1>1, <2>1 DEF IInv, ListInv, Base, Closed, FromDeltas
  <2>2. CASE pc = "ops"
    <3>1. Src \in Accounts /\ Src \in Keys
      BY <1>1, <2>2, TxIsTx DEF IInv, TxInv
    <3>2. FromDeltas[k] = After(thisTxDelta[k], After(delta.changes[k], Closed[k]))
      BY <2>2 DEF FromDeltas, addBatch, Closed, After
    <3>3. sql[k] = After(thisTxDelta[k], savepoint[k])
      BY <1>1, <2>2 DEF IInv, TxInv
    <3>4. delta.changes =
             [NoChanges EXCEPT ![Src] = [in |-> "mMod", entry |-> savepoint[Src]]]
      BY <1>1, <2>2 DEF IInv, TxInv
    <3>5. k = Src => After(delta.changes[k], Closed[k]) = savepoint[k]
      BY <3>1, <3>4 DEF NoChanges, After
    <3>6. k # Src => After(delta.changes[k], Closed[k]) = savepoint[k]
      <4> HAVE k # Src
      <4>1. delta.changes[k].in = "none"
        BY <3>4 DEF NoChanges, Nothing
      <4>2. savepoint[k] = Closed[k]
        BY <1>1, <2>2 DEF IInv, ListInv, Base
      <4> QED
        BY <4>1, <4>2 DEF After
    <3> QED
      BY <3>2, <3>3, <3>5, <3>6
  <2> QED
    BY <2>1, <2>2
<1> QED
  BY <1>1, Invariance, PTL

\* No transaction is applied twice, whichever of success, failure, rejection or
\* a throw its first application ended in: no rollback gives back the sequence
\* number it used.
THEOREM NothingIsReplayed == Spec => []NoReplay
<1>1. IInv => NoReplay
  BY DEF IInv, TxInv, NoReplay
<1> QED
  BY <1>1, Invariance, PTL

\* Between transactions the balances, the fee pool and the fees of rejected
\* transactions add up to what Genesis held, as long as no cached source
\* account was behind its row.
THEOREM MoneyIsConserved == Spec => []Conservation
<1>1. IInv => Conservation
  BY DEF IInv, MoneyInv, Conservation, Base, Pool
<1> QED
  BY <1>1, Invariance, PTL

\* No transaction of a set that txSetValid accepted is dropped without a fee,
\* in whichever order of hashes sortForApply puts its batches and whatever the
\* transactions before it did; and what trimInvalid leaves of any received set
\* is a set that txSetValid accepts.
THEOREM ValidSetsApply == Spec => []SetsStayValid
<1>1. Init => QueueInv
  <2> SUFFICES ASSUME Init PROVE QueueInv
    OBVIOUS
  <2>1. Queue = <<>> /\ txs = <<>> /\ ghost.refused = {}
    BY DEF Init, Queue
  <2> QED
    BY <2>1 DEF QueueInv, InOrder, Increasing
<1>2. IInv /\ IInv' /\ QueueInv /\ [Next]_vars => QueueInv'
  BY QueueStep
<1>3. IInv /\ QueueInv => SetsStayValid
  BY TrimmedIsValid DEF QueueInv, SetsStayValid, NothingRefused, ProposalsAreValid
<1> QED
  BY <1>1, <1>2, <1>3, Invariance, PTL DEF Spec

=============================================================================
