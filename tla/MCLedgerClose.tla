--------------------------- MODULE MCLedgerClose ---------------------------
(***************************************************************************)
(* LedgerClose for TLC.  Ledgers start at 2 and their starting sequence    *)
(* numbers are 4 apart, so an account made in ledger n may sign 4n + 1.    *)
(***************************************************************************)
EXTENDS LedgerClose

CONSTANTS alice, bob, carol

Pay(from, to, amount) ==
    [type |-> "Payment", source |-> from, destination |-> to, amount |-> amount,
     sendMax |-> 4]
Trust(holder, limit) == [type |-> "ChangeTrust", source |-> holder, limit |-> limit]
Merge(from, to) == [type |-> "Merge", source |-> from, destination |-> to]
TxOf(source, seqNum, operations) ==
    [sourceAccount |-> source, seqNum |-> seqNum, operations |-> operations,
     minLedger |-> 0, maxLedger |-> 9, maxFee |-> 9,
     signers |-> {source} \cup {operations[i].source : i \in DOMAIN operations}]

MCGenesis == [k \in Keys |->
                 CASE k = alice -> [balance |-> 15, seqNum |-> 4, numSubEntries |-> 0]
                   [] k = bob -> [balance |-> 8, seqNum |-> 4, numSubEntries |-> 0]
                   [] OTHER -> Absent]

\* Two accounts with a history of their own, a third that is made; lines that
\* come, change and go, within a transaction, a close or across closes.
MCTxs ==
    {TxOf(alice, 5, <<Pay(alice, carol, 3), Pay(alice, bob, 1)>>),
     TxOf(alice, 5, <<Pay(alice, carol, 5)>>),
     TxOf(alice, 6, <<Trust(alice, 1), Trust(bob, 1)>>),
     TxOf(alice, 7, <<Pay(bob, alice, 1), Trust(alice, 2)>>),
     TxOf(alice, 8, <<Trust(alice, 0), Trust(alice, 3), Trust(alice, 2)>>),
     TxOf(bob, 5, <<Trust(bob, 1)>>),
     TxOf(bob, 5, <<Pay(bob, carol, 3)>>),
     TxOf(bob, 6, <<Pay(bob, alice, 2), Pay(bob, alice, 4)>>),
     TxOf(bob, 6, <<Trust(bob, 0), Merge(bob, carol)>>),
     TxOf(bob, 6, <<Trust(bob, 2), Trust(bob, 0)>>),
     [TxOf(bob, 7, <<Pay(bob, carol, 1)>>) EXCEPT !.minLedger = 4],
     TxOf(carol, 9, <<Trust(carol, 1), Pay(carol, bob, 2)>>),
     TxOf(carol, 9, <<Pay(carol, carol, 1), Trust(alice, 0)>>),
     TxOf(carol, 10, <<Trust(carol, 0)>>)}

\* Transactions that refute claims: the source of the first is paid by another
\* account before it pays itself; the second leaves the third no fee.
MCClaims ==
    {TxOf(alice, 5, <<Pay(bob, alice, 1), Pay(alice, bob, 2)>>),
     TxOf(bob, 5, <<Pay(bob, alice, 4)>>),
     TxOf(bob, 6, <<Pay(bob, alice, 1), Pay(bob, alice, 1)>>)}
=============================================================================
