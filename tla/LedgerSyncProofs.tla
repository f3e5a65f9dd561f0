-------------------------- MODULE LedgerSyncProofs --------------------------
(***************************************************************************)
(* Proofs about the LedgerManager's following of consensus, for every      *)
(* checkpoint frequency, however many ledgers, missed closes, late         *)
(* transaction sets, commands of the operator and crashes: its asserts     *)
(* hold, what it buffered continues what it catches up to, and what it     *)
(* publishes is whole.                                                     *)
(***************************************************************************)
EXTENDS LedgerSync, NumberProofs

-----------------------------------------------------------------------------
(* The inductive invariant.                                                *)

\* The buffered ledgers follow each other.
Contiguous(buf) == \A i \in 1..Len(buf) : buf[i] = buf[1] + (i - 1)

\* What holds whatever the operator and late transaction sets do.
BaseInv ==
    /\ net \in 1..MaxNet
    /\ late \subseteq 2..net
    /\ proc \in {"running", "killed", "aborted"}
    /\ mState \in {"BOOTING", "SYNCED", "CATCHING_UP"}
    /\ lcl \in 1..net /\ dbLcl \in 1..net /\ dbLedger \in 1..net
    /\ stored \subseteq 1..net
    /\ mSyncingLedgers \in Seq(2..net)
    /\ Contiguous(mSyncingLedgers)
    /\ published \subseteq [seq : 1..net, whole : BOOLEAN]

FlagInv ==
    /\ mComplete \in Configs /\ mComplete \in BOOLEAN
    /\ mManualCatchup \in BOOLEAN
    /\ budget \in [{"gap", "late", "manual", "crash"} -> Nat]
    /\ budget.late <= MaxLate /\ budget.manual <= MaxManual

CatchupInv ==
    /\ catchup \in [next : 0..(MaxNet + Freq), complete : BOOLEAN,
                    applied : BOOLEAN, last : 0..net]
    /\ catchup # NoCatchup => catchup.next >= 2
    /\ catchup.applied /\ ~catchup.complete => catchup.last = catchup.next - 1 /\ catchup.last >= 1

\* The blocks of history that a node left to itself has in its database.
IsCheckpoint(seq) == prevCheckpointLedger(seq) = seq
BlockSoFar == (prevCheckpointLedger(lcl + 1) .. lcl) \ {0}

\* A node left to itself.
QuietInv ==
    /\ proc # "aborted"
    /\ late = {}
    /\ ~mManualCatchup
    /\ lcl = dbLcl
    /\ stored \subseteq 1..lcl
    /\ BlockSoFar \subseteq stored
    /\ mComplete => 1..lcl \subseteq stored /\ dbLedger = lcl
    /\ BlocksAlwaysWhole

\* Its catchup: to a checkpoint ahead of the LCL, onto which the buffer knits.
AheadInv ==
    catchup # NoCatchup =>
        /\ IsCheckpoint(catchup.next)
        /\ catchup.complete = mComplete
        /\ ~catchup.applied => catchup.next > lcl + 1
        /\ catchup.applied =>
              /\ Contains(mSyncingLedgers, catchup.next)
              /\ catchup.last = catchup.next - 1
              /\ IF catchup.complete THEN lcl = catchup.last ELSE lcl < catchup.last

IInv ==
    /\ BaseInv /\ FlagInv /\ CatchupInv
    /\ SyncedIsQuiet
    /\ Undisturbed => QuietInv /\ AheadInv

-----------------------------------------------------------------------------
(* Checkpoints: rounding to a multiple of the frequency.                   *)

\* Division rounds down, by less than the divisor.
LEMMA DivBounds ==
    ASSUME NEW a \in Nat, NEW F \in Nat \ {0}
    PROVE  /\ a \div F \in Nat
           /\ (a \div F) * F <= a
           /\ a < (a \div F) * F + F
OBVIOUS

\* Nothing else does.
LEMMA DivUnique ==
    ASSUME NEW a \in Nat, NEW F \in Nat \ {0}, NEW k \in Nat, k * F <= a, a < k * F + F
    PROVE  a \div F = k
<1> DEFINE q == a \div F
<1>1. q \in Nat /\ q * F <= a /\ a < q * F + F
  BY DivBounds
<1> HIDE DEF q
<1>2. CASE q < k
  <2>1. q + 1 <= k
    BY <1>1, <1>2
  <2>2. (q + 1) * F <= k * F /\ (q + 1) * F = q * F + F
    BY <1>1, <2>1
  <2> QED
    BY <1>1, <2>2
<1>3. CASE q > k
  <2>1. k + 1 <= q
    BY <1>1, <1>3
  <2>2. (k + 1) * F <= q * F /\ (k + 1) * F = k * F + F
    BY <1>1, <2>1
  <2> QED
    BY <1>1, <2>2
<1> QED
  BY <1>1, <1>2, <1>3 DEF q

\* A product has no remainder.
LEMMA ProductMod ==
    ASSUME NEW F \in Nat \ {0}, NEW k \in Nat
    PROVE  (k * F) % F = 0
OBVIOUS

\* prevCheckpointLedger is the last multiple that is not above.
LEMMA PrevBounds ==
    ASSUME NEW s \in Nat
    PROVE  /\ prevCheckpointLedger(s) \in Nat
           /\ prevCheckpointLedger(s) <= s
BY DivBounds, LedgerSyncAssumption DEF prevCheckpointLedger

\* The checkpoint before a later ledger is not an earlier one.
LEMMA PrevMonotone ==
    ASSUME NEW s \in Nat, NEW t \in Nat, s <= t
    PROVE  prevCheckpointLedger(s) <= prevCheckpointLedger(t)
<1> DEFINE p == s \div Freq
           q == t \div Freq
<1>1. Freq \in Nat \ {0}
  BY LedgerSyncAssumption
<1>2. p \in Nat /\ p * Freq <= s
  BY <1>1, DivBounds
<1>3. q \in Nat /\ t < q * Freq + Freq
  BY <1>1, DivBounds
<1> HIDE DEF p, q
<1>4. p * Freq < q * Freq + Freq
  BY <1>1, <1>2, <1>3
<1>5. p <= q
  <2>1. CASE q + 1 <= p
    <3>1. (q + 1) * Freq <= p * Freq /\ (q + 1) * Freq = q * Freq + Freq
      BY <1>1, <1>2, <1>3, <2>1
    <3> QED
      BY <1>1, <1>2, <1>3, <1>4, <3>1
  <2> QED
    BY <1>2, <1>3, <2>1
<1>6. p * Freq <= q * Freq
  BY <1>1, <1>2, <1>3, <1>5
<1> QED
  BY <1>6 DEF p, q, prevCheckpointLedger

\* Multiples are checkpoints, and checkpoints are multiples.
LEMMA CheckpointIsMultiple ==
    /\ \A k \in Nat : IsCheckpoint(k * Freq)
    /\ \A s \in Nat : IsCheckpoint(s) => s % Freq = 0
<1>1. Freq \in Nat \ {0}
  BY LedgerSyncAssumption
<1>2. ASSUME NEW k \in Nat PROVE IsCheckpoint(k * Freq)
  <2>1. k * Freq \in Nat
    BY <1>1
  <2>2. (k * Freq) \div Freq = k
    BY <1>1, <2>1, DivUnique
  <2> QED
    BY <2>2 DEF IsCheckpoint, prevCheckpointLedger
<1>3. ASSUME NEW s \in Nat, IsCheckpoint(s) PROVE s % Freq = 0
  <2>1. s \div Freq \in Nat /\ (s \div Freq) * Freq = s
    BY <1>1, <1>3, DivBounds DEF IsCheckpoint, prevCheckpointLedger
  <2>2. ((s \div Freq) * Freq) % Freq = 0
    BY <1>1, <2>1, ProductMod
  <2> QED
    BY <2>1, <2>2
<1> QED
  BY <1>2, <1>3

\* nextCheckpointLedger rounds up to a checkpoint; a manual catchup goes where
\* it was told to.
LEMMA NextCheckpoint ==
    ASSUME NEW s \in Nat \ {0}
    PROVE  /\ nextCheckpointLedger(s, TRUE) = s
           /\ nextCheckpointLedger(s, FALSE) \in s .. (s + Freq - 1)
           /\ IsCheckpoint(nextCheckpointLedger(s, FALSE))
<1> DEFINE a == s + Freq - 1
           k == a \div Freq
<1>1. Freq \in Nat \ {0} /\ a \in Nat
  BY LedgerSyncAssumption
<1>2. nextCheckpointLedger(s, TRUE) = s
  BY DEF nextCheckpointLedger
<1>3. nextCheckpointLedger(s, FALSE) = k * Freq
  BY DEF nextCheckpointLedger
<1>4. k \in Nat /\ k * Freq <= a /\ a < k * Freq + Freq
  BY <1>1, DivBounds
<1>5. k * Freq \in Nat
  BY <1>1, <1>4
<1>6. k * Freq \in s .. a
  <2> HIDE DEF k
  <2> QED
    BY <1>1, <1>4, <1>5
<1>7. IsCheckpoint(k * Freq)
  BY <1>4, CheckpointIsMultiple
<1> QED
  BY <1>2, <1>3, <1>6, <1>7

-----------------------------------------------------------------------------
(* closeLedger, for a row of ledgers.                                      *)

\* The least and the greatest of a bounded set of ledgers.
LEMMA MinFacts ==
    ASSUME NEW S \in SUBSET Nat, S # {}
    PROVE  Min(S) \in S /\ \A x \in S : Min(S) <= x
<1>1. \E x \in S : \A y \in S : x <= y
  BY LeastNatural
<1> QED
  BY <1>1, Zenon DEF Min

\* What the maximum of a finite, non-empty set of ledgers is: a member above the others.
LEMMA MaxFacts ==
    ASSUME NEW S \in SUBSET Nat, S # {}, NEW b \in Nat, \A x \in S : x <= b
    PROVE  Max(S) \in S /\ \A x \in S : Max(S) >= x
<1>1. \E x \in S : \A y \in S : x >= y
  BY GreatestNatural
<1> QED
  BY <1>1, Zenon DEF Max

\* Closing gets as far as the first ledger that is stored already.
LEMMA LastClosableFacts ==
    ASSUME stored \subseteq Nat, NEW from \in Nat, NEW to \in Nat, from <= to
    PROVE  /\ LastClosable(from, to) \in from .. to
           /\ (\A x \in stored : x <= from) => LastClosable(from, to) = to
<1> DEFINE S == stored \cap (from + 1 .. to)
<1>1. S \in SUBSET Nat /\ \A x \in S : x \in from + 1 .. to
  OBVIOUS
<1>2. (\A x \in stored : x <= from) => S = {}
  OBVIOUS
<1>3. S # {} => LastClosable(from, to) = Min(S) - 1
  BY DEF LastClosable
<1>4. S = {} => LastClosable(from, to) = to
  BY DEF LastClosable
<1>5. S # {} => Min(S) \in S
  <2> HIDE DEF S
  <2> QED
    BY <1>1, MinFacts
<1>6. S # {} => Min(S) \in from + 1 .. to
  BY <1>5
<1> HIDE DEF S
<1> QED
  BY <1>2, <1>3, <1>4, <1>6

\* The checkpoints it publishes are ledgers it closed.
LEMMA CheckpointsType ==
    ASSUME NEW seqs, NEW rows, NEW m, seqs \subseteq 1..m
    PROVE  /\ Checkpoints(seqs, rows) \subseteq [seq : 1..m, whole : BOOLEAN]
           /\ \A p \in Checkpoints(seqs, rows) :
                 /\ p.seq \in seqs
                 /\ nextCheckpointLedger(p.seq + 1, mManualCatchup) = p.seq + 1
                 /\ HistoryBlock(p.seq) \subseteq rows => p.whole
<1> SUFFICES ASSUME NEW p \in Checkpoints(seqs, rows)
             PROVE  /\ p \in [seq : 1..m, whole : BOOLEAN]
                    /\ p.seq \in seqs
                    /\ nextCheckpointLedger(p.seq + 1, mManualCatchup) = p.seq + 1
                    /\ HistoryBlock(p.seq) \subseteq rows => p.whole
  OBVIOUS
<1>1. PICK s \in {c \in seqs : nextCheckpointLedger(c + 1, mManualCatchup) = c + 1} :
         p = [seq |-> s, whole |-> HistoryBlock(s) \subseteq rows]
  BY Zenon DEF Checkpoints
<1>2. (HistoryBlock(s) \subseteq rows) \in BOOLEAN
  BY Zenon
<1>3. p.seq = s /\ p.whole = (HistoryBlock(s) \subseteq rows)
  BY <1>1, Zenon
<1>4. s \in seqs /\ nextCheckpointLedger(s + 1, mManualCatchup) = s + 1
  BY <1>1, Zenon
<1>5. p \in [seq : 1..m, whole : BOOLEAN]
  BY <1>1, <1>2, <1>4, Zenon
<1>6. HistoryBlock(p.seq) \subseteq rows => p.whole
  BY <1>3, Zenon
<1> QED
  BY <1>3, <1>4, <1>5, <1>6, Zenon

\* What closing leaves, whatever is stored.
LEMMA CloseLedgersType ==
    ASSUME BaseInv, NEW from \in 1..net', NEW to \in 1..net', from <= to,
           net' \in Nat, net <= net', CloseLedgers(from, to)
    PROVE  /\ lcl' \in from .. to /\ lcl' \in 1..net'
           /\ dbLcl' \in 1..net' /\ dbLedger' \in 1..net'
           /\ stored' \subseteq 1..net'
           /\ published' \subseteq [seq : 1..net', whole : BOOLEAN]
           /\ proc' \in {"running", "aborted"}
<1> DEFINE last == LastClosable(from, to)
<1>1. stored \subseteq Nat /\ stored \subseteq 1..net' /\ from \in Nat /\ to \in Nat
  BY DEF BaseInv
<1>2. last \in from .. to
  BY <1>1, LastClosableFacts
<1>3. /\ lcl' = last
      /\ stored' = stored \cup (from + 1 .. last)
      /\ dbLcl' = IF last > from THEN last ELSE dbLcl
      /\ dbLedger' = IF last > from THEN last ELSE dbLedger
      /\ published' = published \cup Checkpoints(from + 1 .. last, stored')
      /\ proc' = IF last = to THEN "running" ELSE "aborted"
  BY DEF CloseLedgers
<1> HIDE DEF last
<1>4. last \in 1..net' /\ from + 1 .. last \subseteq 1..net'
  BY <1>1, <1>2
<1>5. Checkpoints(from + 1 .. last, stored') \subseteq [seq : 1..net', whole : BOOLEAN]
  BY <1>4, CheckpointsType
<1>6. published \subseteq [seq : 1..net', whole : BOOLEAN]
  BY DEF BaseInv
<1>7. published' \subseteq [seq : 1..net', whole : BOOLEAN]
  BY <1>3, <1>5, <1>6
<1>8. dbLcl' \in 1..net' /\ dbLedger' \in 1..net'
  BY <1>3, <1>4 DEF BaseInv
<1> QED
  BY <1>1, <1>2, <1>3, <1>4, <1>7, <1>8

\* The block of a ledger that is closed after `from', and of the one after it,
\* is there if the block up to `from' was.
LEMMA BlockGrows ==
    ASSUME NEW from \in Nat, NEW last \in Nat, from < last, NEW rows,
           (prevCheckpointLedger(from + 1) .. from) \ {0} \subseteq rows,
           from + 1 .. last \subseteq rows,
           NEW s \in from + 1 .. last + 1, NEW x \in prevCheckpointLedger(s) .. s,
           x # 0, x <= last
    PROVE  x \in rows
<1>1. s \in Nat /\ from + 1 \in Nat /\ from + 1 <= s
  OBVIOUS
<1>2. /\ prevCheckpointLedger(s) \in Nat /\ prevCheckpointLedger(from + 1) \in Nat
      /\ prevCheckpointLedger(from + 1) <= prevCheckpointLedger(s)
  BY <1>1, PrevBounds, PrevMonotone
<1>3. x \in Nat
  BY <1>1, <1>2
<1>4. CASE x > from
  BY <1>3, <1>4
<1>5. CASE x <= from
  <2>1. x \in (prevCheckpointLedger(from + 1) .. from) \ {0}
    BY <1>2, <1>3, <1>5
  <2> QED
    BY <2>1
<1> QED
  BY <1>3, <1>4, <1>5

\* What closing leaves when nothing after `from' is stored and the block up to
\* `from' is: the blocks it publishes are whole.
LEMMA CloseLedgersQuiet ==
    ASSUME NEW from \in Nat, NEW to \in Nat, from < to, ~mManualCatchup, mManualCatchup \in BOOLEAN,
           stored \subseteq 1..from,
           (prevCheckpointLedger(from + 1) .. from) \ {0} \subseteq stored,
           BlocksAlwaysWhole, CloseLedgers(from, to)
    PROVE  /\ lcl' = to /\ dbLcl' = to /\ dbLedger' = to /\ proc' = "running"
           /\ stored' \subseteq 1..to
           /\ BlockSoFar' \subseteq stored'
           /\ 1..from \subseteq stored => 1..to \subseteq stored'
           /\ BlocksAlwaysWhole'
<1>1. stored \subseteq Nat /\ \A x \in stored : x <= from
  OBVIOUS
<1>2. LastClosable(from, to) = to
  BY <1>1, LastClosableFacts
<1>3. /\ lcl' = to /\ dbLcl' = to /\ dbLedger' = to /\ proc' = "running"
      /\ stored' = stored \cup (from + 1 .. to)
      /\ published' = published \cup Checkpoints(from + 1 .. to, stored')
  BY <1>2 DEF CloseLedgers
<1>4. (prevCheckpointLedger(from + 1) .. from) \ {0} \subseteq stored'
      /\ from + 1 .. to \subseteq stored'
  BY <1>3
<1>5. stored' \subseteq 1..to /\ (1..from \subseteq stored => 1..to \subseteq stored')
  BY <1>3
<1>6. \A s \in from + 1 .. to + 1 : \A x \in prevCheckpointLedger(s) .. s :
         x # 0 /\ x <= to => x \in stored'
  BY <1>4, BlockGrows
<1>7. BlockSoFar' \subseteq stored'
  <2> SUFFICES ASSUME NEW x \in (prevCheckpointLedger(to + 1) .. to) \ {0}
               PROVE  x \in stored'
    BY <1>3 DEF BlockSoFar, prevCheckpointLedger
  <2>1. prevCheckpointLedger(to + 1) \in Nat
    BY PrevBounds
  <2>2. x \in prevCheckpointLedger(to + 1) .. to + 1 /\ x # 0 /\ x <= to
    BY <2>1
  <2> QED
    BY <1>6, <2>2
<1>8. \A s \in from + 1 .. to : HistoryBlock(s) \subseteq stored'
  <2> SUFFICES ASSUME NEW s \in from + 1 .. to, NEW x \in (prevCheckpointLedger(s) .. s) \ {0}
               PROVE  x \in stored'
    BY DEF HistoryBlock
  <2>1. prevCheckpointLedger(s) \in Nat
    BY PrevBounds
  <2> QED
    BY <1>6, <2>1
<1>9. \A s \in from + 1 .. to :
         nextCheckpointLedger(s + 1, mManualCatchup) = s + 1 => (s + 1) % Freq = 0
  <2> SUFFICES ASSUME NEW s \in from + 1 .. to,
                      nextCheckpointLedger(s + 1, mManualCatchup) = s + 1
               PROVE  (s + 1) % Freq = 0
    OBVIOUS
  <2>1. mManualCatchup = FALSE /\ s + 1 \in Nat \ {0}
    OBVIOUS
  <2>2. IsCheckpoint(nextCheckpointLedger(s + 1, FALSE))
    BY <2>1, NextCheckpoint
  <2> QED
    BY <2>1, <2>2, CheckpointIsMultiple
<1>10. \A p \in Checkpoints(from + 1 .. to, stored') : p.whole /\ (p.seq + 1) % Freq = 0
  <2>1. from + 1 .. to \subseteq 1..to
    OBVIOUS
  <2> QED
    BY <1>8, <1>9, <2>1, CheckpointsType, Zenon
<1>11. BlocksAlwaysWhole'
  BY <1>3, <1>10 DEF BlocksAlwaysWhole
<1> QED
  BY <1>3, <1>5, <1>7, <1>11

-----------------------------------------------------------------------------
(* The buffer and the start of a catchup.                                  *)

\* externalizeValue appends the ledger after the last one.
LEMMA AppendKeeps ==
    ASSUME NEW m \in Nat, NEW buf \in Seq(2..m), Contiguous(buf), NEW s \in 2..m,
           buf = <<>> \/ Last(buf) + 1 = s
    PROVE  Append(buf, s) \in Seq(2..m) /\ Contiguous(Append(buf, s))
<1>1. Append(buf, s) \in Seq(2..m) /\ Len(Append(buf, s)) = Len(buf) + 1 /\ Len(buf) \in Nat
  OBVIOUS
<1>2. \A i \in 1..Len(buf) : Append(buf, s)[i] = buf[i] /\ buf[i] \in 2..m
  OBVIOUS
<1>3. Append(buf, s)[Len(buf) + 1] = s
  OBVIOUS
<1>4. CASE Len(buf) = 0
  BY <1>1, <1>3, <1>4 DEF Contiguous
<1>5. CASE Len(buf) # 0
  <2>1. 1 \in 1..Len(buf) /\ Len(buf) \in 1..Len(buf)
    BY <1>1, <1>5
  <2>2. s = buf[Len(buf)] + 1 /\ buf[Len(buf)] = buf[1] + (Len(buf) - 1)
    BY <1>1, <1>5, <2>1 DEF Last, Contiguous
  <2>3. \A i \in 1..Len(buf) + 1 : i \in 1..Len(buf) \/ i = Len(buf) + 1
    BY <1>1
  <2>4. \A i \in 1..Len(buf) : Append(buf, s)[i] = Append(buf, s)[1] + (i - 1)
    BY <1>2, <2>1 DEF Contiguous
  <2>5. Append(buf, s)[Len(buf) + 1] = Append(buf, s)[1] + (Len(buf) + 1 - 1)
    BY <1>1, <1>2, <1>3, <2>1, <2>2
  <2> QED
    BY <1>1, <2>3, <2>4, <2>5 DEF Contiguous
<1> QED
  BY <1>1, <1>4, <1>5

\* Of a buffer that has `from', every ledger above it follows another.
LEMMA BufferFollows ==
    ASSUME NEW m \in Nat, NEW buf \in Seq(2..m), Contiguous(buf), NEW from,
           Contains(buf, from), NEW s \in Range(buf), s > from
    PROVE  s - 1 \in Range(buf) /\ s - 1 >= from
<1>1. Len(buf) \in Nat /\ DOMAIN buf = 1..Len(buf)
  OBVIOUS
<1>2. PICK i \in 1..Len(buf) : buf[i] = from
  BY DEF Contains
<1>3. PICK j \in 1..Len(buf) : buf[j] = s
  BY <1>1 DEF Range
<1>4. /\ buf[i] = buf[1] + (i - 1) /\ buf[j] = buf[1] + (j - 1)
      /\ buf[1] \in 2..m
  BY <1>1, <1>2, <1>3 DEF Contiguous
<1>5. j > i /\ j - 1 \in 1..Len(buf)
  BY <1>1, <1>2, <1>3, <1>4
<1>6. buf[j - 1] = buf[1] + (j - 1 - 1)
  BY <1>5 DEF Contiguous
<1>7. buf[j - 1] = s - 1 /\ s - 1 >= from
  <2>1. /\ buf[1] \in Int /\ i \in Int /\ j \in Int /\ i <= j - 1
        /\ from = buf[1] + (i - 1) /\ s = buf[1] + (j - 1)
    BY <1>1, <1>2, <1>3, <1>4, <1>5
  <2>2. from \in Int /\ s \in Int /\ s - 1 = buf[1] + (j - 1 - 1)
    <3> DEFINE b == buf[1]
    <3>1. \A x, y \in Int : x + (y - 1) \in Int /\ (x + (y - 1)) - 1 = x + (y - 1 - 1)
      OBVIOUS
    <3>2. b \in Int /\ i \in Int /\ j \in Int /\ from = b + (i - 1) /\ s = b + (j - 1)
      BY <2>1
    <3> HIDE DEF b
    <3>3. from \in Int /\ s \in Int
      BY <3>1, <3>2
    <3>4. s - 1 = b + (j - 1 - 1)
      BY <3>1, <3>2
    <3> QED
      BY <3>3, <3>4 DEF b
  <2>3. buf[j - 1] = s - 1
    BY <1>6, <2>2
  <2>4. s - 1 >= from
    BY <2>1, <2>2
  <2> QED
    BY <2>3, <2>4
<1>8. buf[j - 1] \in Range(buf)
  BY <1>1, <1>5 DEF Range
<1> QED
  BY <1>7, <1>8

\* A buffer of fewer ledgers is one of more, and its last ledger one of them.
LEMMA SeqFacts ==
    ASSUME NEW A, NEW B, A \subseteq B, NEW s \in Seq(A)
    PROVE  s \in Seq(B) /\ (s # <<>> => s[Len(s)] \in A)
OBVIOUS

\* A buffer of consecutive ledgers stays one when its successor is appended.
LEMMA BufferGrows ==
    ASSUME NEW m \in Nat, NEW n \in Nat, m <= n, NEW buf \in Seq(2..m)
    PROVE  buf \in Seq(2..n)
<1>1. 2..m \subseteq 2..n
  OBVIOUS
<1> QED
  BY <1>1, SeqFacts

\* startCatchUp aims at the ledger before a checkpoint, or before the one it
\* was told.
LEMMA StartFacts ==
    ASSUME NEW init \in 2..(MaxNet + 1), NEW complete \in BOOLEAN, NEW manual \in BOOLEAN,
           ~manual => init <= MaxNet, startCatchUp(init, complete, manual), net' \in Nat
    PROVE  /\ mState' = "CATCHING_UP" /\ mManualCatchup' = manual
           /\ CatchupInv'
           /\ catchup' # NoCatchup
           /\ catchup'.complete = complete /\ ~catchup'.applied
           /\ catchup'.next >= init
           /\ ~manual => IsCheckpoint(catchup'.next)
<1> DEFINE n == nextCheckpointLedger(init, manual)
<1>1. Freq \in Nat \ {0} /\ MaxNet \in Nat \ {0} /\ init \in Nat \ {0}
  BY LedgerSyncAssumption
<1>2. /\ n \in Nat /\ n >= init /\ n <= MaxNet + Freq
      /\ ~manual => IsCheckpoint(n)
  <2>1. CASE manual
    <3>1. n = init
      BY <1>1, <2>1, NextCheckpoint
    <3> HIDE DEF n
    <3> QED
      BY <1>1, <2>1, <3>1
  <2>2. CASE ~manual
    <3>1. manual = FALSE
      BY <2>2
    <3>2. n \in init .. (init + Freq - 1) /\ IsCheckpoint(n)
      BY <1>1, <3>1, NextCheckpoint
    <3> HIDE DEF n
    <3> QED
      BY <1>1, <2>2, <3>2
  <2> QED
    BY <2>1, <2>2
<1>3. /\ mState' = "CATCHING_UP" /\ mManualCatchup' = manual
      /\ catchup' = [next |-> n, complete |-> complete, applied |-> FALSE, last |-> 0]
  BY DEF startCatchUp, NoCatchup
<1> HIDE DEF n
<1>4. /\ catchup'.next = n /\ catchup'.complete = complete /\ catchup'.applied = FALSE
      /\ catchup'.last = 0
  BY <1>3
<1>5. catchup' # NoCatchup
  BY <1>1, <1>2, <1>4 DEF NoCatchup
<1>6. n \in 0..(MaxNet + Freq) /\ 0 \in 0..net'
  BY <1>1, <1>2
<1>7. catchup' \in [next : 0..(MaxNet + Freq), complete : BOOLEAN,
                    applied : BOOLEAN, last : 0..net']
  BY <1>3, <1>6
<1>8. CatchupInv'
  BY <1>1, <1>2, <1>4, <1>7 DEF CatchupInv
<1> QED
  BY <1>2, <1>3, <1>4, <1>5, <1>8

-----------------------------------------------------------------------------
(* The steps.                                                              *)

\* What the network and the disk keep when only more ledgers are closed.
LEMMA BaseGrows ==
    ASSUME BaseInv, net' \in net .. MaxNet, late' \subseteq 2..net',
           proc' \in {"running", "killed", "aborted"},
           mState' \in {"BOOTING", "SYNCED", "CATCHING_UP"},
           UNCHANGED <<lcl, published, disk>>,
           mSyncingLedgers' \in Seq(2..net'), Contiguous(mSyncingLedgers')
    PROVE  BaseInv'
<1>1. net' \in 1..MaxNet /\ 1..net \subseteq 1..net'
  BY LedgerSyncAssumption DEF BaseInv
<1>2. [seq : 1..net, whole : BOOLEAN] \subseteq [seq : 1..net', whole : BOOLEAN]
  BY <1>1
<1>3. published' \subseteq [seq : 1..net', whole : BOOLEAN]
  BY <1>2 DEF BaseInv
<1> QED
  BY <1>1, <1>3 DEF BaseInv, disk

\* externalizeValue, of the next ledger or of one whose set came late.
LEMMA ExternalizeStep ==
    ASSUME IInv, Idle, net' \in net .. MaxNet, NEW seq \in 2..net', ExternalizeValue(seq),
           late' \subseteq 2..net', UNCHANGED <<mComplete, budget>>,
           Undisturbed => seq = net + 1 /\ late' = {}
    PROVE  IInv'
<1>1. /\ net' \in Nat /\ net \in Nat /\ net <= net' /\ net' <= MaxNet /\ MaxNet \in Nat
      /\ lcl \in 1..net /\ mComplete \in BOOLEAN /\ proc = "running" /\ ~catchup.applied
  BY LedgerSyncAssumption DEF IInv, BaseInv, FlagInv, Idle, Up
<1>2. /\ mSyncingLedgers \in Seq(2..net') /\ Contiguous(mSyncingLedgers)
  BY <1>1, BufferGrows DEF IInv, BaseInv
<1>3. Undisturbed' <=> Undisturbed
  BY DEF Undisturbed
<1>4. CASE /\ mState # "CATCHING_UP" /\ seq = lcl + 1 /\ CloseLedgers(lcl, seq)
           /\ UNCHANGED <<mState, mSyncingLedgers, catchup, mManualCatchup>>
  <2>1. mSyncingLedgers = <<>> /\ catchup = NoCatchup
    BY <1>1, <1>4 DEF IInv, SyncedIsQuiet, Up
  <2>2. /\ lcl' \in 1..net'
        /\ dbLcl' \in 1..net' /\ dbLedger' \in 1..net'
        /\ stored' \subseteq 1..net'
        /\ published' \subseteq [seq : 1..net', whole : BOOLEAN]
        /\ proc' \in {"running", "aborted"}
    BY <1>1, <1>4, CloseLedgersType DEF IInv
  <2>3. BaseInv'
    BY <1>1, <1>2, <1>4, <2>2 DEF IInv, BaseInv
  <2>4. FlagInv'
    BY <1>4 DEF IInv, FlagInv
  <2>5. CatchupInv'
    <3>1. NoCatchup \in [next : 0..(MaxNet + Freq), complete : BOOLEAN,
                         applied : BOOLEAN, last : 0..net']
      BY <1>1, LedgerSyncAssumption DEF NoCatchup
    <3>2. catchup' = NoCatchup /\ ~NoCatchup.applied
      BY <1>4, <2>1 DEF NoCatchup
    <3> QED
      BY <3>1, <3>2 DEF CatchupInv
  <2>6. SyncedIsQuiet'
    BY <1>4, <2>1 DEF SyncedIsQuiet
  <2>7. ASSUME Undisturbed' PROVE QuietInv' /\ AheadInv'
    <3>1. QuietInv
      BY <1>3, <2>7 DEF IInv
    <3>2. /\ lcl' = seq /\ dbLcl' = seq /\ dbLedger' = seq /\ proc' = "running"
          /\ stored' \subseteq 1..seq
          /\ BlockSoFar' \subseteq stored'
          /\ 1..lcl \subseteq stored => 1..seq \subseteq stored'
          /\ BlocksAlwaysWhole'
      <4>1. mManualCatchup \in BOOLEAN
        BY DEF IInv, FlagInv
      <4>2. lcl \in Nat /\ seq \in Nat /\ lcl < seq
        BY <1>1, <1>4
      <4>3. /\ ~mManualCatchup /\ stored \subseteq 1..lcl /\ BlocksAlwaysWhole
            /\ (prevCheckpointLedger(lcl + 1) .. lcl) \ {0} \subseteq stored
        BY <3>1 DEF QuietInv, BlockSoFar
      <4> QED
        BY <1>4, <4>1, <4>2, <4>3, CloseLedgersQuiet
    <3>3. late' = {} /\ ~mManualCatchup'
      BY <1>3, <1>4, <2>7, <3>1 DEF QuietInv
    <3>4. mComplete' => 1..lcl' \subseteq stored' /\ dbLedger' = lcl'
      BY <3>1, <3>2 DEF QuietInv
    <3>5. QuietInv'
      BY <3>2, <3>3, <3>4 DEF QuietInv
    <3>6. AheadInv'
      BY <1>4, <2>1 DEF AheadInv
    <3> QED
      BY <3>5, <3>6
  <2> QED
    BY <2>3, <2>4, <2>5, <2>6, <2>7 DEF IInv
<1>5. CASE /\ mState # "CATCHING_UP" /\ seq # lcl + 1
           /\ mSyncingLedgers' = Append(mSyncingLedgers, seq)
           /\ startCatchUp(seq, mComplete, FALSE)
           /\ UNCHANGED <<lcl, proc, published, disk>>
  <2>1. mSyncingLedgers = <<>> /\ catchup = NoCatchup
    BY <1>1, <1>5 DEF IInv, SyncedIsQuiet, Up
  <2>2. mSyncingLedgers' \in Seq(2..net') /\ Contiguous(mSyncingLedgers')
    BY <1>1, <1>2, <1>5, <2>1, AppendKeeps
  <2>3. /\ mState' = "CATCHING_UP" /\ mManualCatchup' = FALSE
        /\ CatchupInv'
        /\ catchup' # NoCatchup
        /\ catchup'.complete = mComplete /\ ~catchup'.applied
        /\ catchup'.next >= seq
        /\ IsCheckpoint(catchup'.next)
    <3>1. seq \in 2..(MaxNet + 1) /\ seq <= MaxNet
      BY <1>1
    <3> QED
      BY <1>1, <1>5, <3>1, StartFacts
  <2>4. BaseInv'
    BY <1>1, <1>5, <2>2, <2>3, BaseGrows DEF IInv
  <2>5. FlagInv'
    BY <2>3 DEF IInv, FlagInv
  <2>6. SyncedIsQuiet'
    BY <2>3 DEF SyncedIsQuiet
  <2>7. ASSUME Undisturbed' PROVE QuietInv' /\ AheadInv'
    <3>1. QuietInv /\ seq = net + 1 /\ late' = {}
      BY <1>3, <2>7 DEF IInv
    <3>2. QuietInv'
      BY <1>5, <2>3, <3>1 DEF QuietInv, BlockSoFar, prevCheckpointLedger, BlocksAlwaysWhole, disk
    <3>3. catchup'.next > lcl' + 1
      <4>1. catchup'.next \in Int
        BY <2>3 DEF CatchupInv
      <4> QED
        BY <1>1, <1>5, <2>3, <3>1, <4>1
    <3>4. AheadInv'
      BY <2>3, <3>3 DEF AheadInv, IsCheckpoint, prevCheckpointLedger
    <3> QED
      BY <3>2, <3>4
  <2> QED
    BY <2>3, <2>4, <2>5, <2>6, <2>7 DEF IInv
<1>6. CASE /\ mState = "CATCHING_UP"
           /\ mSyncingLedgers' =
                IF mSyncingLedgers = <<>> \/ Last(mSyncingLedgers) + 1 = seq
                THEN Append(mSyncingLedgers, seq) ELSE mSyncingLedgers
           /\ UNCHANGED <<mState, catchup, mManualCatchup, lcl, proc, published, disk>>
  <2>1. mSyncingLedgers' \in Seq(2..net') /\ Contiguous(mSyncingLedgers')
    BY <1>1, <1>2, <1>6, AppendKeeps
  <2>2. BaseInv'
    BY <1>1, <1>6, <2>1, BaseGrows DEF IInv, BaseInv
  <2>3. FlagInv'
    BY <1>6 DEF IInv, FlagInv
  <2>4. CatchupInv'
    <3>1. 0..net \subseteq 0..net'
      BY <1>1
    <3> QED
      BY <1>6, <3>1 DEF IInv, CatchupInv
  <2>5. SyncedIsQuiet'
    BY <1>6 DEF SyncedIsQuiet
  <2>6. ASSUME Undisturbed' PROVE QuietInv' /\ AheadInv'
    <3>1. QuietInv /\ AheadInv /\ late' = {}
      BY <1>3, <2>6 DEF IInv
    <3>2. QuietInv'
      BY <1>6, <3>1 DEF QuietInv, BlockSoFar, prevCheckpointLedger, BlocksAlwaysWhole, disk
    <3>3. AheadInv'
      BY <1>1, <1>6, <3>1 DEF AheadInv, IsCheckpoint, prevCheckpointLedger
    <3> QED
      BY <3>2, <3>3
  <2> QED
    BY <2>2, <2>3, <2>4, <2>5, <2>6 DEF IInv
<1> QED
  BY <1>4, <1>5, <1>6 DEF ExternalizeValue

\* Steps that leave the node as it is, but for what was externalized late and
\* for the life of the process.
LEMMA IdleStep ==
    ASSUME IInv, net' \in net .. MaxNet, late' \subseteq 2..net',
           proc' = proc \/ proc' = "killed", proc' = "running" => proc = "running",
           UNCHANGED <<mComplete, mState, lcl, mSyncingLedgers, catchup, mManualCatchup,
                       published, disk>>,
           budget' \in [{"gap", "late", "manual", "crash"} -> Nat],
           budget'.late <= budget.late, budget'.manual = budget.manual,
           budget'.late = budget.late => late' = late
    PROVE  IInv'
<1>1. /\ net' \in Nat /\ net \in Nat /\ net <= net' /\ net' <= MaxNet /\ MaxNet \in Nat
      /\ MaxLate \in Nat /\ budget.late \in Nat /\ budget.late <= MaxLate
      /\ budget'.late \in Nat
  BY LedgerSyncAssumption DEF IInv, BaseInv, FlagInv
<1>2. mSyncingLedgers' \in Seq(2..net') /\ Contiguous(mSyncingLedgers')
  BY <1>1, BufferGrows DEF IInv, BaseInv
<1>3. BaseInv'
  BY <1>1, <1>2, BaseGrows DEF IInv, BaseInv
<1>4. FlagInv'
  BY <1>1 DEF IInv, FlagInv
<1>5. CatchupInv'
  <2>1. 0..net \subseteq 0..net'
    BY <1>1
  <2> QED
    BY <2>1 DEF IInv, CatchupInv
<1>6. SyncedIsQuiet'
  BY DEF IInv, SyncedIsQuiet, Up
<1>7. ASSUME Undisturbed' PROVE QuietInv' /\ AheadInv'
  <2>1. Undisturbed /\ late' = late
    BY <1>1, <1>7 DEF Undisturbed
  <2>2. QuietInv /\ AheadInv
    BY <2>1 DEF IInv
  <2>3. QuietInv'
    BY <2>1, <2>2 DEF QuietInv, BlockSoFar, prevCheckpointLedger, BlocksAlwaysWhole, disk
  <2>4. AheadInv'
    BY <2>2 DEF AheadInv, IsCheckpoint, prevCheckpointLedger
  <2> QED
    BY <2>3, <2>4
<1> QED
  BY <1>3, <1>4, <1>5, <1>6, <1>7 DEF IInv

\* What is spent of a bound.
LEMMA SpendFacts ==
    ASSUME FlagInv, NEW what \in {"gap", "late", "manual", "crash"}, Spend(what)
    PROVE  /\ budget' \in [{"gap", "late", "manual", "crash"} -> Nat]
           /\ budget'[what] = budget[what] - 1 /\ budget[what] \in Nat
           /\ \A other \in {"gap", "late", "manual", "crash"} \ {what} :
                 budget'[other] = budget[other] /\ budget[other] \in Nat
BY DEF FlagInv, Spend

\* A close that is heard at once, late or never, and a crash.
LEMMA NetworkStep ==
    ASSUME IInv,
           \/ HearsClose \/ HearsCloseLate \/ MissesClose \/ Crash
           \/ \E seq \in late : TxSetFetched(seq)
    PROVE  IInv'
<1>1. /\ net \in 1..MaxNet /\ MaxNet \in Nat /\ late \subseteq 2..net
      /\ FlagInv
  BY LedgerSyncAssumption DEF IInv, BaseInv
<1>2. CASE HearsClose
  <2>1. net' = net + 1 /\ net' \in net .. MaxNet /\ net + 1 \in 2..net' /\ late' \subseteq 2..net'
    BY <1>1, <1>2 DEF HearsClose
  <2>2. Undisturbed => late' = {}
    BY <1>2 DEF HearsClose, IInv, QuietInv
  <2> QED
    BY <1>2, <2>1, <2>2, ExternalizeStep DEF HearsClose
<1>3. CASE \E seq \in late : TxSetFetched(seq)
  <2>1. PICK seq \in late : TxSetFetched(seq)
    BY <1>3
  <2>2. net' = net /\ net' \in net .. MaxNet /\ seq \in 2..net' /\ late' \subseteq 2..net'
    BY <1>1, <2>1 DEF TxSetFetched
  <2>3. ~Undisturbed
    BY <2>1 DEF IInv, QuietInv
  <2> QED
    BY <2>1, <2>2, <2>3, ExternalizeStep DEF TxSetFetched
<1>4. CASE HearsCloseLate
  <2>1. net' \in net .. MaxNet /\ late' \subseteq 2..net'
    BY <1>1, <1>4 DEF HearsCloseLate
  <2>2. Spend("late")
    BY <1>4 DEF HearsCloseLate
  <2>3. /\ budget' \in [{"gap", "late", "manual", "crash"} -> Nat]
        /\ budget'.late = budget.late - 1 /\ budget.late \in Nat
        /\ budget'.manual = budget.manual
    BY <1>1, <2>2, SpendFacts
  <2> QED
    BY <1>4, <2>1, <2>3, IdleStep DEF HearsCloseLate
<1>5. CASE MissesClose
  <2>1. net' \in net .. MaxNet /\ late' \subseteq 2..net' /\ late' = late /\ proc' = proc
    BY <1>1, <1>5 DEF MissesClose
  <2>2. /\ budget' \in [{"gap", "late", "manual", "crash"} -> Nat]
        /\ budget'.late = budget.late /\ budget.late \in Nat
        /\ budget'.manual = budget.manual
    <3>1. CASE Up
      BY <1>1, <1>5, <3>1, SpendFacts DEF MissesClose
    <3>2. CASE ~Up
      BY <1>1, <1>5, <3>2 DEF MissesClose, FlagInv
    <3> QED
      BY <3>1, <3>2
  <2> QED
    BY <1>5, <2>1, <2>2, IdleStep DEF MissesClose
<1>6. CASE Crash
  <2>1. /\ net' \in net .. MaxNet /\ late' \subseteq 2..net' /\ late' = late
        /\ proc' = "killed" /\ Spend("crash")
    BY <1>1, <1>6 DEF Crash
  <2>2. /\ budget' \in [{"gap", "late", "manual", "crash"} -> Nat]
        /\ budget'.late = budget.late /\ budget.late \in Nat
        /\ budget'.manual = budget.manual
    BY <1>1, <2>1, SpendFacts
  <2> QED
    BY <1>6, <2>1, <2>2, IdleStep DEF Crash
<1> QED
  BY <1>2, <1>3, <1>4, <1>5, <1>6

\* loadLastKnownLedger: memory is empty, the LCL is the one on disk.
LEMMA BootStep ==
    ASSUME IInv, Boot
    PROVE  IInv'
<1>1. /\ proc' = "running" /\ mState' = "BOOTING" /\ lcl' = dbLcl /\ late' = {}
      /\ mSyncingLedgers' = <<>> /\ catchup' = NoCatchup /\ mManualCatchup' = FALSE
      /\ UNCHANGED <<mComplete, net, published, stored, dbLcl, dbLedger, budget>>
  BY DEF Boot, disk
<1>2. BaseInv'
  BY <1>1 DEF IInv, BaseInv, Contiguous
<1>3. FlagInv'
  BY <1>1 DEF IInv, FlagInv
<1>4. CatchupInv'
  <2>1. NoCatchup \in [next : 0..(MaxNet + Freq), complete : BOOLEAN,
                       applied : BOOLEAN, last : 0..net']
    BY <1>2, LedgerSyncAssumption DEF NoCatchup, BaseInv
  <2>2. ~NoCatchup.applied
    BY DEF NoCatchup
  <2> QED
    BY <1>1, <2>1, <2>2 DEF CatchupInv
<1>5. SyncedIsQuiet'
  BY <1>1 DEF SyncedIsQuiet
<1>6. ASSUME Undisturbed' PROVE QuietInv' /\ AheadInv'
  <2>1. QuietInv
    BY <1>1, <1>6 DEF IInv, Undisturbed
  <2>2. QuietInv'
    BY <1>1, <2>1 DEF QuietInv, BlockSoFar, prevCheckpointLedger, BlocksAlwaysWhole
  <2> QED
    BY <1>1, <2>2 DEF AheadInv
<1> QED
  BY <1>2, <1>3, <1>4, <1>5, <1>6 DEF IInv

\* The operator's command, after which a node is not left to itself.
LEMMA ManualStep ==
    ASSUME IInv, NEW init \in 2..(net + 1), NEW complete \in BOOLEAN,
           ManualCatchup(init, complete)
    PROVE  IInv'
<1>1. /\ startCatchUp(init, complete, TRUE) /\ Spend("manual")
      /\ UNCHANGED <<mComplete, net, late, proc, lcl, mSyncingLedgers, published, disk>>
  BY DEF ManualCatchup
<1>2. net \in 1..MaxNet /\ MaxNet \in Nat /\ init \in 2..(MaxNet + 1) /\ net' \in Nat
  BY <1>1, LedgerSyncAssumption DEF IInv, BaseInv
<1>3. mState' = "CATCHING_UP" /\ mManualCatchup' = TRUE /\ CatchupInv'
  BY <1>1, <1>2, StartFacts
<1>4. BaseInv'
  BY <1>1, <1>2, <1>3, BaseGrows DEF IInv, BaseInv
<1>5. /\ budget' \in [{"gap", "late", "manual", "crash"} -> Nat]
      /\ budget'.manual = budget.manual - 1 /\ budget.manual \in Nat
      /\ budget'.late = budget.late /\ budget.late \in Nat
  BY <1>1, SpendFacts DEF IInv
<1>6. MaxManual \in Nat /\ budget.manual <= MaxManual
  BY LedgerSyncAssumption DEF IInv, FlagInv
<1>7. FlagInv'
  BY <1>1, <1>3, <1>5, <1>6 DEF IInv, FlagInv
<1>8. ~Undisturbed'
  BY <1>5, <1>6 DEF Undisturbed
<1> QED
  BY <1>3, <1>4, <1>7, <1>8 DEF IInv, SyncedIsQuiet

\* A target that consensus vouched for is, for a node left to itself, in the
\* buffer's reach: it is too far ahead to be the LCL.
LEMMA VerifiedIsBuffered ==
    ASSUME IInv, Undisturbed, Fetched, verifyCatchupCandidate(catchup.next - 1)
    PROVE  /\ Contains(mSyncingLedgers, catchup.next)
           /\ catchup.next \in Int /\ catchup.next - 1 > lcl
<1>1. catchup # NoCatchup /\ ~catchup.applied
  BY DEF Fetched, Idle
<1>2. catchup.next \in Int /\ lcl \in Int /\ catchup.next > lcl + 1
  BY <1>1 DEF IInv, AheadInv, CatchupInv, BaseInv
<1>3. catchup.next - 1 \notin {lcl, lcl - 1} /\ catchup.next - 1 + 1 = catchup.next
      /\ catchup.next - 1 > lcl
  BY <1>2
<1> QED
  BY <1>2, <1>3 DEF verifyCatchupCandidate

\* applyBucketsAtLastClosedLedger.
LEMMA MinimalStep ==
    ASSUME IInv, CatchupMinimal
    PROVE  IInv'
<1> DEFINE n == catchup.next
<1>1. /\ Fetched /\ ~catchup.complete /\ verifyCatchupCandidate(n - 1)
      /\ dbLedger' = n - 1
      /\ catchup' = [catchup EXCEPT !.applied = TRUE, !.last = n - 1]
      /\ UNCHANGED <<mComplete, net, late, proc, mState, lcl, mSyncingLedgers,
                     mManualCatchup, stored, dbLcl, published, budget>>
  BY DEF CatchupMinimal
<1>2. /\ catchup # NoCatchup /\ ~catchup.applied /\ n - 1 <= net
      /\ n \in 2..(MaxNet + Freq) /\ net \in Nat
  BY <1>1, LedgerSyncAssumption DEF IInv, BaseInv, CatchupInv, Fetched, Idle
<1>3. /\ catchup'.next = n /\ catchup'.complete = catchup.complete /\ catchup'.applied
      /\ catchup'.last = n - 1
  BY <1>1 DEF IInv, CatchupInv
<1>4. /\ n - 1 \in 1..net
      /\ catchup' \in [next : 0..(MaxNet + Freq), complete : BOOLEAN,
                       applied : BOOLEAN, last : 0..net]
  <2>1. n - 1 \in 1..net /\ n - 1 \in 0..net
    BY <1>2, LedgerSyncAssumption
  <2> QED
    BY <1>1, <2>1 DEF IInv, CatchupInv
<1>5. CatchupInv'
  BY <1>1, <1>2, <1>3, <1>4 DEF CatchupInv
<1>6. BaseInv'
  BY <1>1, <1>4 DEF IInv, BaseInv
<1>7. FlagInv'
  BY <1>1 DEF IInv, FlagInv
<1>8. SyncedIsQuiet'
  BY <1>1, <1>2 DEF IInv, SyncedIsQuiet, Up
<1>9. ASSUME Undisturbed' PROVE QuietInv' /\ AheadInv'
  <2>1. Undisturbed /\ QuietInv /\ AheadInv
    BY <1>1, <1>9 DEF IInv, Undisturbed
  <2>2. ~mComplete
    BY <1>1, <1>2, <2>1 DEF AheadInv
  <2>3. QuietInv'
    BY <1>1, <2>1, <2>2 DEF QuietInv, BlockSoFar, prevCheckpointLedger, BlocksAlwaysWhole
  <2>4. Contains(mSyncingLedgers, n) /\ n - 1 > lcl
    BY <1>1, <2>1, VerifiedIsBuffered
  <2>5. /\ IsCheckpoint(n)
        /\ catchup'.complete = mComplete'
    BY <1>1, <1>2, <1>3, <2>1 DEF AheadInv
  <2>6. lcl < n - 1
    BY <1>2, <2>4 DEF IInv, BaseInv
  <2>7. AheadInv'
    BY <1>1, <1>3, <2>4, <2>5, <2>6 DEF AheadInv, IsCheckpoint, prevCheckpointLedger
  <2> QED
    BY <2>3, <2>7
<1> QED
  BY <1>5, <1>6, <1>7, <1>8, <1>9 DEF IInv

\* applyHistoryFromLastClosedLedger.
LEMMA CompleteStep ==
    ASSUME IInv, CatchupComplete
    PROVE  IInv'
<1> DEFINE n == catchup.next
<1>1. /\ Fetched /\ catchup.complete /\ verifyCatchupCandidate(n - 1) /\ lcl < n
      /\ CloseLedgers(lcl, n - 1)
      /\ catchup' = [catchup EXCEPT !.applied = TRUE,
                                    !.last = IF lcl' > lcl THEN lcl' ELSE 0]
      /\ UNCHANGED <<mComplete, net, late, mState, mSyncingLedgers, mManualCatchup, budget>>
  BY DEF CatchupComplete
<1>2. /\ catchup # NoCatchup /\ ~catchup.applied /\ n - 1 <= net /\ proc = "running"
      /\ n \in 2..(MaxNet + Freq) /\ net \in Nat /\ lcl \in 1..net
  BY <1>1, LedgerSyncAssumption DEF IInv, BaseInv, CatchupInv, Fetched, Idle, Up
<1>3. n - 1 \in 1..net /\ lcl <= n - 1
  BY <1>1, <1>2, LedgerSyncAssumption
<1>4. /\ lcl' \in 1..net'
      /\ dbLcl' \in 1..net' /\ dbLedger' \in 1..net'
      /\ stored' \subseteq 1..net'
      /\ published' \subseteq [seq : 1..net', whole : BOOLEAN]
      /\ proc' \in {"running", "aborted"}
  BY <1>1, <1>2, <1>3, CloseLedgersType DEF IInv
<1>5. BaseInv'
  BY <1>1, <1>4 DEF IInv, BaseInv
<1>6. (IF lcl' > lcl THEN lcl' ELSE 0) \in 0..net
  BY <1>1, <1>2, <1>4
<1>7. /\ catchup'.next = n /\ catchup'.complete = catchup.complete /\ catchup'.applied
      /\ catchup'.last = IF lcl' > lcl THEN lcl' ELSE 0
      /\ catchup' \in [next : 0..(MaxNet + Freq), complete : BOOLEAN,
                       applied : BOOLEAN, last : 0..net]
  BY <1>1, <1>6 DEF IInv, CatchupInv
<1>8. CatchupInv'
  BY <1>1, <1>2, <1>7 DEF CatchupInv
<1>9. FlagInv'
  BY <1>1 DEF IInv, FlagInv
<1>10. SyncedIsQuiet'
  BY <1>1, <1>2 DEF IInv, SyncedIsQuiet, Up
<1>11. ASSUME Undisturbed' PROVE QuietInv' /\ AheadInv'
  <2>1. Undisturbed /\ QuietInv /\ AheadInv
    BY <1>1, <1>11 DEF IInv, Undisturbed
  <2>2. Contains(mSyncingLedgers, n) /\ n - 1 > lcl
    BY <1>1, <2>1, VerifiedIsBuffered
  <2>3. /\ lcl' = n - 1 /\ dbLcl' = n - 1 /\ dbLedger' = n - 1 /\ proc' = "running"
        /\ stored' \subseteq 1..(n - 1)
        /\ BlockSoFar' \subseteq stored'
        /\ 1..lcl \subseteq stored => 1..(n - 1) \subseteq stored'
        /\ BlocksAlwaysWhole'
    <3>1. mManualCatchup \in BOOLEAN
      BY DEF IInv, FlagInv
    <3>2. lcl \in Nat /\ n - 1 \in Nat /\ lcl < n - 1
      BY <1>2, <1>3, <2>2
    <3>3. /\ ~mManualCatchup /\ stored \subseteq 1..lcl /\ BlocksAlwaysWhole
          /\ (prevCheckpointLedger(lcl + 1) .. lcl) \ {0} \subseteq stored
      BY <2>1 DEF QuietInv, BlockSoFar
    <3> QED
      BY <1>1, <3>1, <3>2, <3>3, CloseLedgersQuiet
  <2>4. QuietInv'
    BY <1>1, <2>1, <2>3 DEF QuietInv
  <2>5. catchup'.last = n - 1 /\ lcl' = catchup'.last
    BY <1>2, <1>7, <2>2, <2>3
  <2>6. IsCheckpoint(n) /\ catchup'.complete = mComplete'
    BY <1>1, <1>2, <1>7, <2>1 DEF AheadInv
  <2>7. AheadInv'
    BY <1>1, <1>7, <2>2, <2>5, <2>6 DEF AheadInv, IsCheckpoint, prevCheckpointLedger
  <2> QED
    BY <2>4, <2>7
<1> QED
  BY <1>5, <1>8, <1>9, <1>10, <1>11 DEF IInv

\* What the buffer is replayed on, and how far the replay gets.
LEMMA KnitFacts ==
    ASSUME IInv, catchup.applied
    PROVE  /\ KnitPoint \in 1..net
           /\ ReplayEnd \in KnitPoint .. net
           /\ \A s \in Range(mSyncingLedgers) : s \in 2..net
           /\ \A s \in Range(mSyncingLedgers) :
                 s > KnitPoint /\ Overshooting = {} => ReplayEnd >= s
<1>1. net \in Nat /\ lcl \in 1..net /\ mSyncingLedgers \in Seq(2..net)
  BY LedgerSyncAssumption DEF IInv, BaseInv
<1>2. KnitPoint \in 1..net
  <2>1. CASE catchup.complete
    BY <1>1, <2>1 DEF KnitPoint
  <2>2. CASE ~catchup.complete
    BY <1>1, <2>2 DEF KnitPoint, IInv, CatchupInv
  <2> QED
    BY <2>1, <2>2
<1>3. \A s \in Range(mSyncingLedgers) : s \in 2..net
  BY <1>1 DEF Range
<1> DEFINE S == {KnitPoint} \cup
                {s \in Range(mSyncingLedgers) :
                    s > KnitPoint /\ \A o \in Overshooting : s < o}
<1>4. S \in SUBSET Nat /\ S # {} /\ \A x \in S : x <= net
  BY <1>1, <1>2, <1>3
<1>5. ReplayEnd = Max(S)
  BY DEF ReplayEnd
<1>6. \A s \in S : s \in KnitPoint .. net
  BY <1>1, <1>2, <1>3
<1>7. \A s \in Range(mSyncingLedgers) : s > KnitPoint /\ Overshooting = {} => s \in S
  OBVIOUS
<1>8. KnitPoint \in S
  OBVIOUS
<1> HIDE DEF S
<1>9. Max(S) \in S /\ \A x \in S : Max(S) >= x
  BY <1>1, <1>4, MaxFacts
<1> QED
  BY <1>2, <1>3, <1>5, <1>6, <1>7, <1>9

\* historyCaughtup finds no gap at a node left to itself, and something to
\* replay.
LEMMA KnitQuiet ==
    ASSUME IInv, Undisturbed, catchup.applied
    PROVE  /\ Overshooting = {}
           /\ catchup.complete => catchup.last = lcl
           /\ KnitPoint = catchup.next - 1 /\ KnitPoint >= lcl
           /\ ReplayEnd > KnitPoint
           /\ catchup # NoCatchup
<1>1. catchup # NoCatchup
  BY DEF NoCatchup
<1>2. /\ Contains(mSyncingLedgers, catchup.next)
      /\ catchup.last = catchup.next - 1
      /\ IF catchup.complete THEN lcl = catchup.last ELSE lcl < catchup.last
  BY <1>1 DEF IInv, AheadInv
<1>3. KnitPoint = catchup.next - 1
  BY <1>2 DEF KnitPoint
<1>4. /\ net \in Nat /\ lcl \in 1..net /\ mSyncingLedgers \in Seq(2..net)
      /\ Contiguous(mSyncingLedgers) /\ catchup.next \in Nat
  BY LedgerSyncAssumption DEF IInv, BaseInv, CatchupInv
<1>5. KnitPoint >= lcl
  BY <1>2, <1>3, <1>4
<1>6. KnitPoint \in 1..net
      /\ \A s \in Range(mSyncingLedgers) : s \in 2..net
  BY KnitFacts
<1>7. catchup.next \in Range(mSyncingLedgers)
  BY <1>2, <1>4 DEF Contains, Range
<1>8. Overshooting = {}
  <2> SUFFICES ASSUME NEW s \in Overshooting PROVE FALSE
    OBVIOUS
  <2> DEFINE ahead == {t \in Range(mSyncingLedgers) : t > KnitPoint}
  <2>1. s \in ahead /\ s - 1 \notin ahead /\ s - 1 # KnitPoint
    BY DEF Overshooting
  <2>2. s \in 2..net /\ s > KnitPoint /\ s \in Range(mSyncingLedgers)
    BY <1>6, <2>1
  <2>3. s > catchup.next
    BY <1>3, <1>4, <2>1, <2>2
  <2>4. s - 1 \in Range(mSyncingLedgers) /\ s - 1 >= catchup.next
    BY <1>2, <1>4, <2>2, <2>3, BufferFollows
  <2>5. s - 1 > KnitPoint
    BY <1>3, <1>4, <2>2, <2>4
  <2> QED
    BY <2>1, <2>4, <2>5
<1>9. ReplayEnd > KnitPoint
  <2>1. catchup.next > KnitPoint
    BY <1>3, <1>4
  <2>2. ReplayEnd >= catchup.next /\ ReplayEnd \in KnitPoint .. net
    BY <1>7, <1>8, <2>1, KnitFacts
  <2> QED
    BY <1>4, <1>6, <2>1, <2>2
<1> QED
  BY <1>1, <1>2, <1>3, <1>5, <1>8, <1>9

\* historyCaughtup.
LEMMA CaughtupStep ==
    ASSUME IInv, HistoryCaughtup
    PROVE  IInv'
<1>1. /\ Up /\ catchup.applied
      /\ UNCHANGED <<mComplete, net, late, budget>>
  BY DEF HistoryCaughtup
<1>2. /\ net \in 1..MaxNet /\ MaxNet \in Nat /\ net' = net
      /\ lcl \in 1..net /\ mComplete \in BOOLEAN
      /\ catchup # NoCatchup
  BY <1>1, LedgerSyncAssumption DEF IInv, BaseInv, FlagInv, NoCatchup
<1>3. Undisturbed' <=> Undisturbed
  BY <1>1 DEF Undisturbed
<1>4. /\ KnitPoint \in 1..net /\ ReplayEnd \in KnitPoint .. net
      /\ \A s \in Range(mSyncingLedgers) : s \in 2..net
  BY <1>1, KnitFacts
<1>5. ASSUME catchup.complete, catchup.last # lcl, proc' = "aborted",
             UNCHANGED <<mState, lcl, mSyncingLedgers, catchup, mManualCatchup, published, disk>>
      PROVE  IInv'
  <2>1. ~Undisturbed
    BY <1>1, <1>5, KnitQuiet
  <2>2. BaseInv'
    BY <1>1, <1>5 DEF IInv, BaseInv, disk
  <2>3. FlagInv' /\ CatchupInv' /\ SyncedIsQuiet'
    BY <1>1, <1>5 DEF IInv, FlagInv, CatchupInv, SyncedIsQuiet, Up
  <2> QED
    BY <1>3, <2>1, <2>2, <2>3 DEF IInv
<1>6. ASSUME CloseLedgers(KnitPoint, ReplayEnd), mSyncingLedgers' = <<>>,
             mState' \in {"SYNCED", "CATCHING_UP"}
      PROVE  /\ BaseInv'
             /\ Undisturbed /\ ~mManualCatchup' => QuietInv'
  <2>1. /\ lcl' \in 1..net'
        /\ dbLcl' \in 1..net' /\ dbLedger' \in 1..net'
        /\ stored' \subseteq 1..net'
        /\ published' \subseteq [seq : 1..net', whole : BOOLEAN]
        /\ proc' \in {"running", "aborted"}
    <3>1. ReplayEnd \in 1..net' /\ KnitPoint <= ReplayEnd
      BY <1>2, <1>4
    <3> QED
      BY <1>2, <1>4, <1>6, <3>1, CloseLedgersType DEF IInv
  <2>2. BaseInv'
    BY <1>1, <1>6, <2>1 DEF IInv, BaseInv, Contiguous
  <2>3. ASSUME Undisturbed, ~mManualCatchup' PROVE QuietInv'
    <3>1. QuietInv /\ AheadInv
      BY <2>3 DEF IInv
    <3>2. /\ KnitPoint = catchup.next - 1 /\ KnitPoint >= lcl
          /\ ReplayEnd > KnitPoint
      BY <1>1, <2>3, KnitQuiet
    <3>3. KnitPoint \in Nat /\ ReplayEnd \in Nat /\ KnitPoint < ReplayEnd
      BY <1>2, <1>4, <3>2
    <3>4. ~mManualCatchup /\ mManualCatchup \in BOOLEAN /\ BlocksAlwaysWhole
      BY <3>1 DEF QuietInv, IInv, FlagInv
    <3>5. stored \subseteq 1..KnitPoint
      BY <1>2, <1>4, <3>1, <3>2 DEF QuietInv
    <3>6. mComplete => KnitPoint = lcl
      BY <1>2, <3>1 DEF AheadInv, KnitPoint
    <3>7. (prevCheckpointLedger(KnitPoint + 1) .. KnitPoint) \ {0} \subseteq stored
      <4>1. prevCheckpointLedger(catchup.next) = catchup.next /\ catchup.next \in Nat
        BY <1>2, <3>1 DEF AheadInv, IsCheckpoint, IInv, CatchupInv
      <4>2. KnitPoint + 1 = catchup.next
        BY <3>2, <4>1
      <4> QED
        BY <3>3, <4>1, <4>2
    <3>8. /\ lcl' = ReplayEnd /\ dbLcl' = ReplayEnd /\ dbLedger' = ReplayEnd
          /\ proc' = "running"
          /\ stored' \subseteq 1..ReplayEnd
          /\ BlockSoFar' \subseteq stored'
          /\ 1..KnitPoint \subseteq stored => 1..ReplayEnd \subseteq stored'
          /\ BlocksAlwaysWhole'
      BY <1>6, <3>3, <3>4, <3>5, <3>7, CloseLedgersQuiet
    <3> QED
      BY <1>1, <2>3, <3>1, <3>6, <3>8 DEF QuietInv
  <2> QED
    BY <2>2, <2>3
<1>7. ASSUME CloseLedgers(KnitPoint, ReplayEnd), mSyncingLedgers' = BufferAfterReplay,
             mState' = "SYNCED", catchup' = NoCatchup, UNCHANGED mManualCatchup
      PROVE  IInv'
  <2>1. mSyncingLedgers' = <<>>
    BY <1>7 DEF BufferAfterReplay
  <2>2. BaseInv' /\ (Undisturbed /\ ~mManualCatchup' => QuietInv')
    BY <1>6, <1>7, <2>1
  <2>3. FlagInv'
    BY <1>1, <1>7 DEF IInv, FlagInv
  <2>4. CatchupInv'
    <3>1. NoCatchup \in [next : 0..(MaxNet + Freq), complete : BOOLEAN,
                         applied : BOOLEAN, last : 0..net']
      BY <1>2, LedgerSyncAssumption DEF NoCatchup
    <3>2. ~NoCatchup.applied
      BY DEF NoCatchup
    <3> QED
      BY <1>7, <3>1, <3>2 DEF CatchupInv
  <2>5. SyncedIsQuiet'
    BY <1>7, <2>1 DEF SyncedIsQuiet
  <2>6. Undisturbed' => QuietInv' /\ AheadInv'
    BY <1>3, <1>7, <2>2 DEF IInv, QuietInv, AheadInv
  <2> QED
    BY <2>2, <2>3, <2>4, <2>5, <2>6 DEF IInv
<1>8. ASSUME Overshooting # {}, CloseLedgers(KnitPoint, ReplayEnd), mSyncingLedgers' = <<>>,
             startCatchUp(Last(mSyncingLedgers), mComplete, FALSE)
      PROVE  IInv'
  <2>1. ~Undisturbed
    BY <1>1, <1>8, KnitQuiet
  <2>2. Last(mSyncingLedgers) \in 2..net
    <3>1. mSyncingLedgers \in Seq(2..net)
      BY DEF IInv, BaseInv
    <3>2. mSyncingLedgers # <<>>
      BY <1>8 DEF Overshooting, Range
    <3> QED
      BY <3>1, <3>2, SeqFacts DEF Last
  <2>3. mState' = "CATCHING_UP" /\ mManualCatchup' = FALSE /\ CatchupInv'
    <3>1. Last(mSyncingLedgers) \in 2..(MaxNet + 1) /\ Last(mSyncingLedgers) <= MaxNet
          /\ net' \in Nat
      BY <1>2, <2>2
    <3> QED
      BY <1>2, <1>8, <3>1, StartFacts
  <2>4. BaseInv'
    BY <1>6, <1>8, <2>3
  <2>5. FlagInv'
    BY <1>1, <2>3 DEF IInv, FlagInv
  <2> QED
    BY <1>3, <2>1, <2>3, <2>4, <2>5 DEF IInv, SyncedIsQuiet
<1> QED
  BY <1>5, <1>7, <1>8 DEF HistoryCaughtup

\* A node with a new ledger.
LEMMA InitIInv == Init => IInv
<1> SUFFICES ASSUME Init PROVE IInv
  OBVIOUS
<1>1. Freq \in Nat \ {0} /\ MaxNet \in Nat \ {0} /\ Configs \subseteq BOOLEAN
      /\ {MaxGaps, MaxLate, MaxManual, MaxCrashes} \subseteq Nat
  BY LedgerSyncAssumption
<1>2. BaseInv
  BY <1>1 DEF Init, BaseInv, Contiguous
<1>3. mComplete \in Configs /\ mComplete \in BOOLEAN
  BY <1>1 DEF Init
<1>4. mManualCatchup \in BOOLEAN
  BY Zenon DEF Init
<1>5. /\ budget \in [{"gap", "late", "manual", "crash"} -> Nat]
      /\ budget.late = MaxLate /\ budget.manual = MaxManual
      /\ MaxLate \in Nat /\ MaxManual \in Nat
  BY <1>1 DEF Init
<1>6. FlagInv
  BY <1>3, <1>4, <1>5 DEF FlagInv
<1>7. CatchupInv
  <2>1. NoCatchup \in [next : 0..(MaxNet + Freq), complete : BOOLEAN,
                       applied : BOOLEAN, last : 0..net]
    BY <1>1 DEF NoCatchup, Init
  <2>2. catchup = NoCatchup /\ ~NoCatchup.applied
    BY DEF NoCatchup, Init
  <2> QED
    BY <2>1, <2>2 DEF CatchupInv
<1>8. SyncedIsQuiet /\ AheadInv
  BY DEF Init, SyncedIsQuiet, AheadInv
<1>9. QuietInv
  <2>1. BlockSoFar \subseteq stored
    <3>1. lcl = 1 /\ stored = {1}
      BY DEF Init
    <3>2. prevCheckpointLedger(2) \in Nat
      BY PrevBounds
    <3> QED
      BY <3>1, <3>2 DEF BlockSoFar
  <2>2. 1..lcl \subseteq stored /\ stored \subseteq 1..lcl
    BY DEF Init
  <2> QED
    BY <2>1, <2>2 DEF Init, QuietInv, BlocksAlwaysWhole
<1> QED
  BY <1>2, <1>6, <1>7, <1>8, <1>9 DEF IInv

\* Every step of the network, the node, the operator and the process.
LEMMA NextIInv == IInv /\ [Next]_vars => IInv'
<1> SUFFICES ASSUME IInv, [Next]_vars PROVE IInv'
  OBVIOUS
<1>1. CASE \/ HearsClose \/ HearsCloseLate \/ MissesClose \/ Crash
           \/ \E seq \in late : TxSetFetched(seq)
  BY <1>1, NetworkStep
<1>2. CASE CatchupMinimal
  BY <1>2, MinimalStep
<1>3. CASE CatchupComplete
  BY <1>3, CompleteStep
<1>4. CASE HistoryCaughtup
  BY <1>4, CaughtupStep
<1>5. CASE \E init \in 2..(net + 1), complete \in BOOLEAN : ManualCatchup(init, complete)
  BY <1>5, ManualStep
<1>6. CASE Boot
  BY <1>6, BootStep
<1>7. CASE UNCHANGED vars
  <2>1. UNCHANGED <<mComplete, mState, lcl, mSyncingLedgers, catchup, mManualCatchup,
                    published, disk, budget, late, net, proc>>
    BY <1>7 DEF vars, disk
  <2>2. /\ net' \in net .. MaxNet /\ late' \subseteq 2..net'
        /\ budget' \in [{"gap", "late", "manual", "crash"} -> Nat]
        /\ budget'.late <= budget.late
    BY <2>1, LedgerSyncAssumption DEF IInv, BaseInv, FlagInv
  <2> QED
    BY <2>1, <2>2, IdleStep
<1> QED
  BY <1>1, <1>2, <1>3, <1>4, <1>5, <1>6, <1>7 DEF Next

-----------------------------------------------------------------------------
(* The theorems.                                                           *)

\* The invariant holds of every behaviour of the LedgerManager.
THEOREM Invariance == Spec => []IInv
<1>1. Init => IInv
  BY InitIInv
<1>2. IInv /\ [Next]_vars => IInv'
  BY NextIInv
<1> QED
  BY <1>1, <1>2, PTL DEF Spec

\* The asserts and throws of externalizeValue and historyCaughtup: nothing is
\* left over while in sync, and no close of a node left to itself fails.
THEOREM SyncIsOrderly == Spec => []Orderly
<1>1. ASSUME IInv PROVE Orderly
  <2>1. /\ net \in 1..MaxNet /\ 1..net \subseteq 1..MaxNet /\ 2..net \subseteq 1..MaxNet
        /\ 1..net \subseteq 0..(MaxNet + Freq) /\ 1..net \subseteq 0..MaxNet
        /\ 0..net \subseteq 0..(MaxNet + Freq)
        /\ \A s \in Seq(2..net) : s \in Seq(1..MaxNet)
    <3>1. net \in 1..MaxNet /\ MaxNet \in Nat /\ Freq \in Nat
      BY <1>1, LedgerSyncAssumption DEF IInv, BaseInv
    <3>2. 2..net \subseteq 1..MaxNet
      BY <3>1
    <3>3. ASSUME NEW s \in Seq(2..net) PROVE s \in Seq(1..MaxNet)
      BY <3>2, SeqFacts
    <3> QED
      BY <3>1, <3>2, <3>3
  <2>2. published \subseteq [seq : 1..MaxNet, whole : BOOLEAN]
    BY <1>1, <2>1 DEF IInv, BaseInv
  <2>3. catchup \in [next : 0..(MaxNet + Freq), complete : BOOLEAN,
                     applied : BOOLEAN, last : 0..(MaxNet + Freq)]
    BY <1>1, <2>1 DEF IInv, CatchupInv
  <2>4. TypeOK
    BY <1>1, <2>1, <2>2, <2>3 DEF IInv, BaseInv, FlagInv, TypeOK
  <2> QED
    BY <1>1, <2>4 DEF IInv, Orderly, NoAbort, QuietInv
<1> QED
  BY <1>1, Invariance, PTL

\* The buffer continues what the catchup reached, and the tables of a node with
\* CATCHUP_COMPLETE are of the LCL's ledger.
THEOREM CatchupKnits == Spec => []CatchupKnitsOn
<1>1. ASSUME IInv PROVE CatchupKnitsOn
  <2>1. NeverOvershoots
    BY <1>1, KnitQuiet DEF NeverOvershoots
  <2>2. CompleteHoldsLcl
    BY <1>1 DEF IInv, QuietInv, CompleteHoldsLcl, SqlStoreHoldsLcl
  <2> QED
    BY <2>1, <2>2 DEF CatchupKnitsOn
<1> QED
  BY <1>1, Invariance, PTL

\* A checkpoint is published with every ledger of its block, in either mode,
\* and with CATCHUP_COMPLETE the database misses no ledger.
THEOREM PublishedBlocksAreWhole == Spec => []PublishedIsWhole
<1>1. IInv => PublishedIsWhole
  BY DEF IInv, QuietInv, PublishedIsWhole, HistoryIsComplete, BlocksAreWhole
<1> QED
  BY <1>1, Invariance, PTL

\* A buffered close at or before the LCL: one whose transaction set came late.
LateRound == mSyncingLedgers # <<>> /\ Head(mSyncingLedgers) <= lcl

\* What a minimal catchup that nobody asked for aims at, disturbed or not: no
\* ledger before the LCL, unless a late close started it.
RoundInv ==
    Up /\ catchup # NoCatchup /\ ~catchup.complete /\ ~mManualCatchup =>
        catchup.next > lcl \/ LateRound

\* A round that starts over aims at the newest buffered ledger, which the
\* replay of the buffer did not get to.
LEMMA ReplayEndsBefore ==
    ASSUME IInv, catchup.applied, Overshooting # {}
    PROVE  Last(mSyncingLedgers) \in 2..net /\ ReplayEnd < Last(mSyncingLedgers)
<1> DEFINE buf == mSyncingLedgers
<1>1. net \in Nat /\ buf \in Seq(2..net) /\ Contiguous(buf)
  BY LedgerSyncAssumption DEF IInv, BaseInv
<1>2. PICK o \in Overshooting : TRUE
  OBVIOUS
<1>3. o \in Range(buf) /\ o > KnitPoint
  BY <1>2 DEF Overshooting
<1>4. Len(buf) \in Nat /\ DOMAIN buf = 1..Len(buf)
  BY <1>1
<1>5. PICK i \in 1..Len(buf) : buf[i] = o
  BY <1>3, <1>4 DEF Range
<1>6. Len(buf) \in 1..Len(buf) /\ Last(buf) = buf[Len(buf)]
  BY <1>4, <1>5 DEF Last
<1>7. Last(buf) \in 2..net /\ buf[1] \in 2..net /\ o \in 2..net
  BY <1>1, <1>4, <1>5, <1>6
<1>8. o <= Last(buf)
  <2>1. o = buf[1] + (i - 1) /\ Last(buf) = buf[1] + (Len(buf) - 1)
    BY <1>1, <1>5, <1>6 DEF Contiguous
  <2> HIDE DEF buf
  <2> QED
    BY <1>4, <1>5, <1>7, <2>1
<1>9. ReplayEnd < o
  <2> DEFINE S == {KnitPoint} \cup
                  {s \in Range(mSyncingLedgers) :
                      s > KnitPoint /\ \A p \in Overshooting : s < p}
  <2>1. KnitPoint \in 1..net /\ \A s \in Range(mSyncingLedgers) : s \in 2..net
    BY KnitFacts
  <2>2. S \in SUBSET Nat /\ S # {} /\ \A x \in S : x <= net
    BY <1>1, <2>1
  <2>3. \A x \in S : x < o
    BY <1>2, <1>3, <1>7, <2>1
  <2>4. ReplayEnd = Max(S)
    BY DEF ReplayEnd
  <2> HIDE DEF S
  <2>5. Max(S) \in S
    BY <1>1, <2>2, MaxFacts
  <2> QED
    BY <2>3, <2>4, <2>5
<1>10. ReplayEnd \in Nat
  BY <1>1, KnitFacts
<1> QED
  BY <1>1, <1>7, <1>8, <1>9, <1>10

\* externalizeValue: a round starts ahead of the LCL or with a late close.
LEMMA ExternalizeRound ==
    ASSUME IInv, IInv', RoundInv, Up, NEW seq \in 2..MaxNet, ExternalizeValue(seq)
    PROVE  RoundInv'
<1>1. /\ lcl \in Nat /\ catchup.next \in Nat /\ catchup'.next \in Nat /\ MaxNet \in Nat
      /\ mSyncingLedgers \in Seq(2..net) /\ mComplete \in BOOLEAN /\ net' \in Nat
  BY LedgerSyncAssumption DEF IInv, BaseInv, CatchupInv, FlagInv
<1>2. CASE mState # "CATCHING_UP" /\ UNCHANGED catchup
  BY <1>2 DEF IInv, SyncedIsQuiet, RoundInv
<1>3. CASE /\ mState # "CATCHING_UP" /\ seq # lcl + 1
           /\ mSyncingLedgers' = Append(mSyncingLedgers, seq)
           /\ startCatchUp(seq, mComplete, FALSE)
           /\ UNCHANGED <<lcl, proc, published, disk>>
  <2>1. mSyncingLedgers = <<>>
    BY <1>3 DEF IInv, SyncedIsQuiet
  <2>2. mSyncingLedgers' = <<seq>>
    BY <1>3, <2>1
  <2>3. mSyncingLedgers' # <<>> /\ Head(mSyncingLedgers') = seq
    BY <2>2
  <2>4. catchup'.next >= seq
    <3>1. seq \in 2..(MaxNet + 1) /\ seq <= MaxNet
      BY <1>1
    <3> QED
      BY <1>1, <1>3, <3>1, StartFacts
  <2>5. catchup'.next > lcl \/ seq <= lcl
    BY <1>1, <1>3, <2>4
  <2> QED
    BY <1>3, <2>3, <2>5 DEF RoundInv, LateRound
<1>4. CASE /\ mState = "CATCHING_UP"
           /\ mSyncingLedgers' =
                IF mSyncingLedgers = <<>> \/ Last(mSyncingLedgers) + 1 = seq
                THEN Append(mSyncingLedgers, seq) ELSE mSyncingLedgers
           /\ UNCHANGED <<mState, catchup, mManualCatchup, lcl, proc, published, disk>>
  <2>1. LateRound => LateRound'
    <3>1. mSyncingLedgers # <<>> =>
             Append(mSyncingLedgers, seq) # <<>>
             /\ Head(Append(mSyncingLedgers, seq)) = Head(mSyncingLedgers)
      BY <1>1
    <3> QED
      BY <1>4, <3>1 DEF LateRound
  <2> QED
    BY <1>4, <2>1 DEF RoundInv, Up
<1> QED
  BY <1>2, <1>3, <1>4 DEF ExternalizeValue

\* Every step keeps what a round aims at.
LEMMA RoundStep ==
    ASSUME IInv, IInv', RoundInv, [Next]_vars
    PROVE  RoundInv'
<1>1. /\ net \in 1..MaxNet /\ MaxNet \in Nat /\ late \subseteq 2..net /\ stored \subseteq Nat
      /\ lcl' \in Nat /\ catchup'.next \in Nat /\ mComplete \in BOOLEAN
  <2>1. MaxNet \in Nat /\ Freq \in Nat
    BY LedgerSyncAssumption
  <2>2. net \in 1..MaxNet /\ late \subseteq 2..net /\ stored \subseteq 1..net
    BY DEF IInv, BaseInv
  <2>3. net' \in 1..MaxNet /\ lcl' \in 1..net'
    BY DEF IInv, BaseInv
  <2>4. catchup'.next \in 0..(MaxNet + Freq) /\ mComplete \in BOOLEAN
    BY DEF IInv, CatchupInv, FlagInv
  <2> QED
    BY <2>1, <2>2, <2>3, <2>4
<1>2. CASE HearsClose
  <2>1. net + 1 \in 2..MaxNet
    BY <1>1, <1>2 DEF HearsClose
  <2> QED
    BY <1>2, <2>1, ExternalizeRound DEF HearsClose, Idle
<1>3. CASE \E seq \in late : TxSetFetched(seq)
  <2>1. PICK seq \in late : TxSetFetched(seq)
    BY <1>3
  <2>2. seq \in 2..MaxNet
    BY <1>1
  <2> QED
    BY <2>1, <2>2, ExternalizeRound DEF TxSetFetched, Idle
<1>4. CASE HearsCloseLate \/ MissesClose \/ UNCHANGED vars
  <2>1. UNCHANGED <<proc, catchup, mManualCatchup, lcl, mSyncingLedgers>>
    BY <1>4, Zenon DEF HearsCloseLate, MissesClose, vars
  <2> QED
    BY <2>1 DEF RoundInv, LateRound, Up
<1>5. CASE CatchupMinimal
  <2>1. /\ catchup'.next = catchup.next /\ ~catchup.complete /\ catchup # NoCatchup
        /\ UNCHANGED <<proc, mManualCatchup, lcl, mSyncingLedgers>>
    BY <1>5 DEF CatchupMinimal, Fetched, IInv, CatchupInv
  <2> QED
    BY <2>1 DEF RoundInv, LateRound, Up
<1>6. CASE CatchupComplete
  <2>1. catchup'.complete
    BY <1>6 DEF CatchupComplete, IInv, CatchupInv
  <2> QED
    BY <2>1 DEF RoundInv
<1>7. CASE HistoryCaughtup
  <2>1. CASE proc' = "aborted" \/ catchup' = NoCatchup
    BY <2>1 DEF RoundInv, Up
  <2>2. CASE /\ Overshooting # {}
             /\ CloseLedgers(KnitPoint, ReplayEnd)
             /\ startCatchUp(Last(mSyncingLedgers), mComplete, FALSE)
    <3>1. catchup.applied /\ net' = net
      BY <1>7 DEF HistoryCaughtup
    <3>2. Last(mSyncingLedgers) \in 2..net /\ ReplayEnd < Last(mSyncingLedgers)
      BY <2>2, <3>1, ReplayEndsBefore
    <3>3. KnitPoint \in Nat /\ ReplayEnd \in Nat /\ KnitPoint <= ReplayEnd
      BY <1>1, <3>1, KnitFacts
    <3>4. lcl' = LastClosable(KnitPoint, ReplayEnd)
          /\ LastClosable(KnitPoint, ReplayEnd) \in KnitPoint .. ReplayEnd
      BY <1>1, <2>2, <3>3, LastClosableFacts DEF CloseLedgers
    <3>5. catchup'.next >= Last(mSyncingLedgers)
      <4>1. Last(mSyncingLedgers) \in 2..(MaxNet + 1) /\ Last(mSyncingLedgers) <= MaxNet
            /\ net' \in Nat
        BY <1>1, <3>1, <3>2
      <4> QED
        BY <1>1, <2>2, <4>1, StartFacts
    <3>6. catchup'.next > lcl'
      BY <1>1, <3>2, <3>3, <3>4, <3>5
    <3> QED
      BY <3>6 DEF RoundInv
  <2> QED
    BY <1>7, <2>1, <2>2 DEF HistoryCaughtup
<1>8. CASE \E init \in 2..(net + 1), complete \in BOOLEAN : ManualCatchup(init, complete)
  BY <1>8 DEF ManualCatchup, startCatchUp, RoundInv
<1>9. CASE Crash \/ Boot
  BY <1>9 DEF Crash, Boot, RoundInv, Up
<1> QED
  BY <1>2, <1>3, <1>4, <1>5, <1>6, <1>7, <1>8, <1>9 DEF Next

\* Disturbed or not, the LCL of a running node goes back only at the end of a
\* minimal catchup that the operator asked for or that a late close started:
\* not by a close, not by the replay of history, not by the buckets of a
\* checkpoint and the buffer on top of them.
THEOREM LclNeverGoesBack == Spec => LclMonotone
<1> DEFINE Excused == ~catchup.complete /\ (mManualCatchup \/ LateRound)
<1>1. ASSUME IInv, RoundInv, [Next]_vars PROVE [Up /\ Up' /\ lcl' < lcl => Excused]_vars
  <2> SUFFICES ASSUME Next, Up, ~Excused PROVE lcl' >= lcl \/ ~Up'
    <3>1. lcl \in Int /\ lcl' \in Int
      BY <1>1, NextIInv DEF IInv, BaseInv
    <3> QED
      BY <1>1, <3>1
  <2>1. lcl \in Nat /\ net \in Nat /\ BaseInv /\ stored \subseteq Nat
    BY <1>1, LedgerSyncAssumption DEF IInv, BaseInv
  <2>2. ASSUME NEW from \in Nat, NEW to \in Nat, from <= to, lcl <= from,
               CloseLedgers(from, to)
        PROVE  lcl' >= lcl
    <3>1. LastClosable(from, to) \in from .. to /\ lcl' = LastClosable(from, to)
      BY <2>1, <2>2, LastClosableFacts DEF CloseLedgers
    <3> QED
      BY <2>1, <2>2, <3>1
  <2>3. ASSUME NEW seq, ExternalizeValue(seq) PROVE lcl' >= lcl
    <3>1. CASE seq = lcl + 1 /\ CloseLedgers(lcl, seq)
      BY <2>1, <2>2, <3>1
    <3>2. CASE lcl' = lcl
      BY <2>1, <3>2
    <3> QED
      BY <2>3, <3>1, <3>2 DEF ExternalizeValue
  <2>4. CASE HearsClose \/ \E seq \in late : TxSetFetched(seq)
    BY <2>3, <2>4 DEF HearsClose, TxSetFetched
  <2>5. CASE \/ HearsCloseLate \/ MissesClose \/ CatchupMinimal \/ Crash
             \/ \E init \in 2..(net + 1), complete \in BOOLEAN : ManualCatchup(init, complete)
    <3>1. lcl' = lcl
      BY <2>5, Zenon DEF HearsCloseLate, MissesClose, CatchupMinimal, Crash, ManualCatchup
    <3> QED
      BY <2>1, <3>1
  <2>6. CASE CatchupComplete
    <3>1. catchup.next \in Nat /\ lcl < catchup.next /\ CloseLedgers(lcl, catchup.next - 1)
      BY <1>1, <2>6 DEF CatchupComplete, IInv, CatchupInv
    <3>2. catchup.next - 1 \in Nat /\ lcl <= catchup.next - 1
      BY <2>1, <3>1
    <3> QED
      BY <2>1, <2>2, <3>1, <3>2
  <2>7. CASE HistoryCaughtup
    <3>1. catchup.applied /\ catchup # NoCatchup
      BY <2>7 DEF HistoryCaughtup, NoCatchup
    <3>2. KnitPoint \in 1..net /\ ReplayEnd \in KnitPoint .. net
      BY <1>1, <3>1, KnitFacts
    <3>3. KnitPoint >= lcl
      <4>1. CASE catchup.complete
        BY <2>1, <4>1 DEF KnitPoint
      <4>2. CASE ~catchup.complete
        <5>1. catchup.next > lcl /\ catchup.next \in Int /\ catchup.last = catchup.next - 1
          BY <1>1, <3>1, <4>2 DEF RoundInv, IInv, CatchupInv
        <5> QED
          BY <2>1, <4>2, <5>1 DEF KnitPoint
      <4> QED
        BY <4>1, <4>2
    <3>4. KnitPoint \in Nat /\ ReplayEnd \in Nat /\ KnitPoint <= ReplayEnd /\ lcl <= KnitPoint
      BY <2>1, <3>2, <3>3
    <3>5. lcl' = lcl \/ CloseLedgers(KnitPoint, ReplayEnd)
      BY <2>7 DEF HistoryCaughtup
    <3> QED
      BY <2>1, <2>2, <3>4, <3>5
  <2>8. CASE Boot
    BY <2>8 DEF Boot
  <2> QED
    BY <2>4, <2>5, <2>6, <2>7, <2>8 DEF Next
<1>2. Init => RoundInv
  BY DEF Init, RoundInv
<1>3. IInv /\ IInv' /\ RoundInv /\ [Next]_vars => RoundInv'
  BY RoundStep
<1>4. Spec => []RoundInv
  BY <1>2, <1>3, Invariance, PTL DEF Spec
<1>5. [Up /\ Up' /\ lcl' < lcl => Excused]_vars <=>
      [Up /\ Up' /\ lcl' < lcl =>
        /\ ~catchup.complete
        /\ \/ mManualCatchup
           \/ mSyncingLedgers # <<>> /\ Head(mSyncingLedgers) <= lcl]_vars
  BY DEF LateRound
<1> HIDE DEF Excused
<1>6. Spec => [][Next]_vars
  BY PTL DEF Spec
<1> QED
  BY <1>1, <1>4, <1>5, <1>6, Invariance, PTL DEF LclMonotone
=============================================================================
