----------------------- MODULE BucketsCatchupProofs -----------------------
(***************************************************************************)
(* Proofs about the bucket list, and about the catchup that rebuilds one   *)
(* from a history archive.                                                 *)
(*                                                                         *)
(* The bucket list, for every number of levels and all keys, values and    *)
(* batches: every file that will be read is there, and under two views of  *)
(* its state the list implements the durable store.                        *)
(*                                                                         *)
(* Three things carry that.  Level sizes: a level spills at the multiples  *)
(* of its half, so one that spills makes all above it spill, and the       *)
(* ledger at which a merge is taken over is known when it is started.      *)
(* Merges: what a merge will put into a level is what the newest of its    *)
(* sources has, except where a newer bucket has the key (MergesSound).     *)
(* Futures: saving, loading and finishing a merge give a list that is the  *)
(* same but for how far its merges are (SameList).                         *)
(*                                                                         *)
(* The catchup state machine, for any archives, files, modes and retry     *)
(* limit: the file bookkeeping never loses a callback, and catchup never   *)
(* ends on material that is wrong or that consensus did not vouch for.     *)
(***************************************************************************)
EXTENDS Buckets, Catchup, NumberProofs

LevelType == [curr : Bucket, snap : Bucket, next : Future]
Levels == [Level -> LevelType]

-----------------------------------------------------------------------------
(* Types                                                                   *)

LEMMA EmptyType == Empty \in Bucket /\ Clear \in Future /\ Clear.state = "CLEAR"
  <1>1. Empty \in Bucket
    BY DEF Empty, Bucket, Entry
  <1> QED
    BY <1>1 DEF Clear, Future

LEMMA MergeType ==
  ASSUME NEW o \in Bucket, NEW n \in Bucket, NEW sh
  PROVE  Merge(o, n, sh) \in Bucket
  BY DEF Merge, Bucket, Entry

(* A batch has no key both live and dead, so it is its own fresh bucket.   *)
LEMMA FreshIsBatch ==
  ASSUME NEW b \in Bucket
  PROVE  Fresh(b) = b /\ LiveEntries(b) \in Bucket /\ DeadEntries(b) \in Bucket
  <1>1. LiveEntries(b) \in Bucket /\ DeadEntries(b) \in Bucket
    BY BucketsAssumption DEF LiveEntries, DeadEntries, Bucket, Entry
  <1>2. ASSUME NEW k \in Keys PROVE Fresh(b)[k] = b[k]
    BY BucketsAssumption DEF LiveEntries, DeadEntries, Bucket, Entry, Fresh, Merge
  <1>3. Fresh(b) = [k \in Keys |-> Fresh(b)[k]] /\ b = [k \in Keys |-> b[k]]
    BY DEF Fresh, Merge, Bucket
  <1> QED
    BY <1>1, <1>2, <1>3

LEMMA ResolveType ==
  ASSUME NEW n \in Future
  PROVE  resolve(n) \in Bucket
  BY MergeType DEF resolve, Future

LEMMA LiveInputsFacts ==
  ASSUME NEW c \in Bucket, NEW s \in Bucket, NEW sh \in SUBSET Bucket
  PROVE  /\ LiveInputs(c, s, sh) \in Future
         /\ LiveInputs(c, s, sh).state = "LIVE_INPUTS"
         /\ LiveInputs(c, s, sh).curr = c
         /\ LiveInputs(c, s, sh).snap = s
         /\ LiveInputs(c, s, sh).shadows = sh
         /\ ~LiveInputs(c, s, sh).ready
  BY EmptyType DEF LiveInputs, Clear, Future

LEMMA OutputFacts ==
  ASSUME NEW o \in Bucket, NEW t \in {"LIVE_OUTPUT", "HASH_OUTPUT"}
  PROVE  /\ [Output(o) EXCEPT !.state = t] \in Future
         /\ [Output(o) EXCEPT !.state = t].state = t
         /\ [Output(o) EXCEPT !.state = t].out = o
         /\ ~[Output(o) EXCEPT !.state = t].ready
  BY EmptyType DEF Output, Clear, Future

LEMMA ShadowsType ==
  ASSUME NEW L \in Levels, NEW i \in Level
  PROVE  Shadows(L, i) \in SUBSET Bucket
  <1>1. \A j \in 0 .. i - 2 : j \in Level
    BY BucketsAssumption DEF Level
  <1> QED
    BY <1>1 DEF Shadows, Levels, LevelType

(* What addBatch makes of a level.                                         *)
CurrAfter(L, seq, i) ==
    LET curr0 == IF levelShouldSpill(seq, i) THEN Empty ELSE L[i].curr
    IN  IF i > 0 /\ levelShouldSpill(seq, i - 1) /\ isLive(L[i].next)
        THEN resolve(L[i].next) ELSE curr0
SnapAfter(L, seq, i) == IF levelShouldSpill(seq, i) THEN L[i].curr ELSE L[i].snap
NextAfter(L, seq, i) ==
    IF i > 0 /\ levelShouldSpill(seq, i - 1)
    THEN LiveInputs(CurrToMerge(i, seq, CurrAfter(L, seq, i)), L[i - 1].curr, Shadows(L, i))
    ELSE L[i].next

LEMMA SpillFacts ==
  ASSUME NEW L \in Levels, NEW seq, NEW i \in Level
  PROVE  SpillLevel(L, seq, i) =
            [curr |-> CurrAfter(L, seq, i), snap |-> SnapAfter(L, seq, i),
             next |-> NextAfter(L, seq, i)]
  BY DEF SpillLevel, CurrAfter, SnapAfter, NextAfter

LEMMA AfterTypes ==
  ASSUME NEW L \in Levels, NEW seq, NEW i \in Level
  PROVE  /\ CurrAfter(L, seq, i) \in Bucket
         /\ SnapAfter(L, seq, i) \in Bucket
         /\ CurrToMerge(i, seq, CurrAfter(L, seq, i)) \in {Empty, CurrAfter(L, seq, i)}
         /\ NextAfter(L, seq, i) \in Future
         /\ isLive(L[i].next) \/ L[i].next = Clear =>
               isLive(NextAfter(L, seq, i)) \/ NextAfter(L, seq, i) = Clear
  <1>1. L[i] \in LevelType
    BY DEF Levels
  <1>2. CurrAfter(L, seq, i) \in Bucket
    BY <1>1, EmptyType, ResolveType DEF CurrAfter, LevelType
  <1>3. SnapAfter(L, seq, i) \in Bucket
    BY <1>1 DEF SnapAfter, LevelType
  <1>4. CurrToMerge(i, seq, CurrAfter(L, seq, i)) \in {Empty, CurrAfter(L, seq, i)}
    BY DEF CurrToMerge
  <1>5. CASE i > 0 /\ levelShouldSpill(seq, i - 1)
    <2> DEFINE c == CurrToMerge(i, seq, CurrAfter(L, seq, i))
    <2>1. c \in Bucket
      BY <1>2, <1>4, EmptyType
    <2>2. L[i - 1].curr \in Bucket
      BY <1>5, BucketsAssumption DEF Level, Levels, LevelType
    <2>3. NextAfter(L, seq, i) = LiveInputs(c, L[i - 1].curr, Shadows(L, i))
      BY <1>5 DEF NextAfter
    <2> HIDE DEF c
    <2> QED
      BY <1>2, <1>3, <1>4, <2>1, <2>2, <2>3, ShadowsType, LiveInputsFacts DEF isLive
  <1>6. CASE ~(i > 0 /\ levelShouldSpill(seq, i - 1))
    BY <1>1, <1>2, <1>3, <1>4, <1>6 DEF NextAfter, LevelType
  <1> QED
    BY <1>5, <1>6

(* The list after addBatch.                                                *)
LEMMA AddFacts ==
  ASSUME NEW L \in Levels, NEW seq, NEW b \in Bucket
  PROVE  /\ AddToList(L, seq, b) \in Levels
         /\ \A i \in Level :
               /\ AddToList(L, seq, b)[i].curr =
                     IF i = 0 THEN Merge(CurrAfter(L, seq, 0), b, {}) ELSE CurrAfter(L, seq, i)
               /\ AddToList(L, seq, b)[i].snap = SnapAfter(L, seq, i)
               /\ AddToList(L, seq, b)[i].next = NextAfter(L, seq, i)
  <1> DEFINE sp == [i \in Level |-> SpillLevel(L, seq, i)]
             c0 == Merge(CurrAfter(L, seq, 0), b, {})
  <1>1. 0 \in Level
    BY BucketsAssumption DEF Level
  <1>2. \A i \in Level : sp[i] = [curr |-> CurrAfter(L, seq, i), snap |-> SnapAfter(L, seq, i),
                                  next |-> NextAfter(L, seq, i)]
    BY SpillFacts
  <1>3. AddToList(L, seq, b) = [sp EXCEPT ![0].curr = Merge(@, Fresh(b), {})]
    BY DEF AddToList
  <1>4. Fresh(b) = b
    BY FreshIsBatch
  <1>5. sp = [i \in Level |-> sp[i]]
    OBVIOUS
  <1> HIDE DEF sp
  <1>6. AddToList(L, seq, b) = [i \in Level |-> IF i = 0 THEN [sp[0] EXCEPT !.curr = c0] ELSE sp[i]]
    BY <1>1, <1>2, <1>3, <1>4, <1>5
  <1>7. c0 \in Bucket
    BY <1>1, AfterTypes, MergeType
  <1> HIDE DEF c0
  <1>8. ASSUME NEW i \in Level
        PROVE  AddToList(L, seq, b)[i] =
                  [curr |-> IF i = 0 THEN c0 ELSE CurrAfter(L, seq, i),
                   snap |-> SnapAfter(L, seq, i), next |-> NextAfter(L, seq, i)]
    <2>1. CASE i = 0
      <3> DEFINE A == CurrAfter(L, seq, 0)  S == SnapAfter(L, seq, 0)  N == NextAfter(L, seq, 0)
      <3>1. AddToList(L, seq, b)[i] = [[curr |-> A, snap |-> S, next |-> N] EXCEPT !.curr = c0]
        BY <1>1, <1>2, <1>6, <2>1, Zenon
      <3> HIDE DEF A, S, N
      <3>2. [[curr |-> A, snap |-> S, next |-> N] EXCEPT !.curr = c0] =
               [curr |-> c0, snap |-> S, next |-> N]
        OBVIOUS
      <3> QED
        BY <2>1, <3>1, <3>2 DEF S, N
    <2>2. CASE i # 0
      BY <1>2, <1>6, <2>2
    <2> QED
      BY <2>1, <2>2
  <1>9. ASSUME NEW i \in Level
        PROVE  /\ AddToList(L, seq, b)[i] \in LevelType
               /\ AddToList(L, seq, b)[i].curr = IF i = 0 THEN c0 ELSE CurrAfter(L, seq, i)
               /\ AddToList(L, seq, b)[i].snap = SnapAfter(L, seq, i)
               /\ AddToList(L, seq, b)[i].next = NextAfter(L, seq, i)
    <2> DEFINE A == IF i = 0 THEN c0 ELSE CurrAfter(L, seq, i)
               S == SnapAfter(L, seq, i)
               N == NextAfter(L, seq, i)
               r == AddToList(L, seq, b)[i]
    <2>1. A \in Bucket /\ S \in Bucket /\ N \in Future
      BY <1>7, AfterTypes
    <2>2. r = [curr |-> A, snap |-> S, next |-> N]
      BY <1>8
    <2> HIDE DEF A, S, N, r
    <2>3. r \in LevelType /\ r.curr = A /\ r.snap = S /\ r.next = N
      BY <2>1, <2>2 DEF LevelType
    <2> QED
      BY <2>3 DEF A, S, N, r
  <1>10. AddToList(L, seq, b) \in Levels
    BY <1>6, <1>9 DEF Levels
  <1> QED
    BY <1>9, <1>10 DEF c0

-----------------------------------------------------------------------------
(* Level sizes                                                             *)

(* The first sizes up to a level, and that they are all there are.         *)
Sizes(n) == {g \in [0 .. n -> Nat] : g[0] = 4 /\ \A i \in 1 .. n : g[i] = 4 * g[i - 1]}

LEMMA SizesExist == \A n \in Nat : Sizes(n) # {}
  <1> DEFINE G == {n \in Nat : Sizes(n) # {}}
  <1>1. 0 \in G
    <2>1. [i \in 0 .. 0 |-> 4] \in Sizes(0)
      BY DEF Sizes
    <2> QED
      BY <2>1
  <1>2. ASSUME NEW n \in Nat, n \in G PROVE n + 1 \in G
    <2>1. PICK g : g \in Sizes(n)
      BY <1>2
    <2> DEFINE f == [i \in 0 .. n + 1 |-> IF i = n + 1 THEN 4 * g[n] ELSE g[i]]
    <2>2. g \in [0 .. n -> Nat] /\ g[0] = 4 /\ \A i \in 1 .. n : g[i] = 4 * g[i - 1]
      BY <2>1 DEF Sizes
    <2>3. f \in [0 .. n + 1 -> Nat] /\ f[0] = 4
      BY <2>2
    <2>4. \A i \in 1 .. n + 1 : f[i] = 4 * f[i - 1]
      BY <2>2
    <2>5. f \in Sizes(n + 1)
      BY <2>3, <2>4 DEF Sizes
    <2> QED
      BY <2>5
  <1> HIDE DEF G
  <1>3. Nat \subseteq G
    BY <1>1, <1>2, NaturalsAreGood
  <1> QED
    BY <1>3 DEF G

LEMMA SizesAgree ==
  ASSUME NEW n \in Nat, NEW m \in Nat, n <= m, NEW g \in Sizes(n), NEW h \in Sizes(m)
  PROVE  g[n] = h[n]
  <1> DEFINE G == {i \in Nat : i <= n => g[i] = h[i]}
  <1>1. /\ g[0] = 4 /\ \A i \in 1 .. n : g[i] = 4 * g[i - 1]
        /\ h[0] = 4 /\ \A i \in 1 .. m : h[i] = 4 * h[i - 1]
    BY DEF Sizes
  <1>2. 0 \in G
    BY <1>1
  <1>3. ASSUME NEW i \in Nat, i \in G PROVE i + 1 \in G
    <2>1. CASE i + 1 <= n
      <3>1. i + 1 \in 1 .. n /\ i + 1 \in 1 .. m /\ i <= n /\ (i + 1) - 1 = i
        BY <2>1
      <3> QED
        BY <1>1, <1>3, <3>1
    <2> QED
      BY <2>1
  <1> HIDE DEF G
  <1>4. Nat \subseteq G
    BY <1>2, <1>3, NaturalsAreGood
  <1> QED
    BY <1>4 DEF G

(* levelSize is the function its definition says.                          *)
LEMMA LevelSizeFacts ==
  /\ levelSize \in [Nat -> Nat]
  /\ levelSize[0] = 4
  /\ \A i \in Nat : levelSize[i + 1] = 4 * levelSize[i]
  <1> DEFINE pick(n) == CHOOSE g : g \in Sizes(n)
             f == [i \in Nat |-> pick(i)[i]]
  <1>1. \A n \in Nat : pick(n) \in Sizes(n)
    BY SizesExist
  <1> HIDE DEF pick
  <1>2. f[0] = 4 /\ f \in [Nat -> Nat]
    BY <1>1 DEF Sizes
  <1>3. ASSUME NEW i \in Nat \ {0} PROVE f[i] = 4 * f[i - 1]
    <2>1. i - 1 \in Nat /\ i - 1 <= i /\ i \in 1 .. i
      OBVIOUS
    <2>2. pick(i)[i] = 4 * pick(i)[i - 1]
      BY <1>1, <2>1 DEF Sizes
    <2>3. pick(i - 1)[i - 1] = pick(i)[i - 1]
      BY <1>1, <2>1, SizesAgree
    <2> QED
      BY <2>1, <2>2, <2>3
  <1>4. f = [i \in Nat |-> IF i = 0 THEN 4 ELSE 4 * f[i - 1]]
    <2> HIDE DEF f
    <2>1. f = [i \in Nat |-> f[i]]
      BY <1>2
    <2>2. ASSUME NEW i \in Nat PROVE f[i] = IF i = 0 THEN 4 ELSE 4 * f[i - 1]
      BY <1>2, <1>3
    <2> QED
      BY <2>1, <2>2
  <1> HIDE DEF f
  <1>5. levelSize = [i \in Nat |-> IF i = 0 THEN 4 ELSE 4 * levelSize[i - 1]]
    BY <1>4 DEF levelSize
  <1>6. levelSize[0] = 4 /\ \A i \in Nat : levelSize[i + 1] = 4 * levelSize[i]
    <2>1. \A i \in Nat : i + 1 \in Nat /\ i + 1 # 0 /\ (i + 1) - 1 = i
      OBVIOUS
    <2> QED
      BY <1>5, <2>1
  <1> DEFINE G == {i \in Nat : levelSize[i] \in Nat}
  <1>7. 0 \in G /\ \A n \in Nat : n \in G => n + 1 \in G
    BY <1>6
  <1> HIDE DEF G
  <1>8. Nat \subseteq G
    BY <1>7, NaturalsAreGood
  <1>9. \A i \in Nat : levelSize[i] \in Nat
    BY <1>8 DEF G
  <1> QED
    BY <1>5, <1>6, <1>9

LEMMA DivModUnique ==
  ASSUME NEW h \in Nat \ {0}, NEW q \in Nat, NEW r \in 0 .. h - 1, NEW a \in Nat, a = h * q + r
  PROVE  a \div h = q /\ a % h = r
  BY SMT

LEMMA DivMod ==
  ASSUME NEW h \in Nat \ {0}, NEW a \in Nat
  PROVE  a = h * (a \div h) + (a % h) /\ a % h \in 0 .. h - 1 /\ a \div h \in Nat
  BY SMT

LEMMA HalfFacts ==
  \A i \in Nat : /\ levelHalf(i) \in Nat \ {0}
                 /\ levelSize[i] = 2 * levelHalf(i)
                 /\ levelHalf(i + 1) = 4 * levelHalf(i)
  <1> DEFINE G == {i \in Nat : \E q \in Nat \ {0} : levelSize[i] = 2 * q}
  <1>1. 0 \in G
    <2>1. 2 \in Nat \ {0} /\ levelSize[0] = 2 * 2
      BY LevelSizeFacts
    <2> QED
      BY <2>1
  <1>2. ASSUME NEW i \in Nat, i \in G PROVE i + 1 \in G
    <2>1. PICK q \in Nat \ {0} : levelSize[i] = 2 * q
      BY <1>2
    <2>2. 4 * q \in Nat \ {0} /\ levelSize[i + 1] = 2 * (4 * q)
      BY <2>1, LevelSizeFacts
    <2>3. \E p \in Nat \ {0} : levelSize[i + 1] = 2 * p
      BY <2>2, Zenon
    <2> QED
      BY <2>3
  <1> HIDE DEF G
  <1>3. Nat \subseteq G
    BY <1>1, <1>2, NaturalsAreGood
  <1>4. ASSUME NEW i \in Nat
        PROVE  levelHalf(i) \in Nat \ {0} /\ levelSize[i] = 2 * levelHalf(i)
    BY <1>3 DEF G, levelHalf
  <1>5. ASSUME NEW i \in Nat
        PROVE  levelHalf(i + 1) = 4 * levelHalf(i)
    <2>1. i + 1 \in Nat /\ levelSize[i + 1] = 4 * levelSize[i]
      BY LevelSizeFacts
    <2> DEFINE x == levelHalf(i)
               y == levelHalf(i + 1)
    <2>2. x \in Nat /\ y \in Nat /\ 2 * y = 4 * (2 * x)
      BY <1>4, <2>1
    <2> HIDE DEF x, y
    <2>3. y = 4 * x
      BY <2>2
    <2> QED
      BY <2>3 DEF x, y
  <1> QED
    BY <1>4, <1>5

(* A level spills at the multiples of its half, but for the last one.      *)
LEMMA SpillIff ==
  ASSUME NEW seq \in Nat, NEW i \in Level
  PROVE  levelShouldSpill(seq, i) <=> i # kNumLevels - 1 /\ seq % levelHalf(i) = 0
  <1> DEFINE h == levelHalf(i)
             q == seq \div levelSize[i]
  <1>1. i \in Nat
    BY BucketsAssumption DEF Level
  <1>2. h \in Nat \ {0} /\ levelSize[i] = 2 * h /\ levelSize[i] \in Nat \ {0}
    BY <1>1, HalfFacts
  <1>3. seq = levelSize[i] * q + (seq % levelSize[i]) /\ q \in Nat
    BY <1>2, DivMod
  <1> HIDE DEF h, q
  <1>4. ASSUME seq % levelSize[i] = 0 PROVE seq % h = 0
    <2>1. seq = h * (2 * q) + 0 /\ 2 * q \in Nat /\ 0 \in 0 .. h - 1
      BY <1>2, <1>3, <1>4
    <2> QED
      BY <1>2, <2>1, DivModUnique
  <1> QED
    BY <1>4 DEF levelShouldSpill, h

(* When a level spills, so do all above it.                                *)
LEMMA SpillAbove ==
  ASSUME NEW seq \in Nat, NEW i \in Level \ {0}, levelShouldSpill(seq, i)
  PROVE  i - 1 \in Level /\ levelShouldSpill(seq, i - 1)
  <1> DEFINE h == levelHalf(i - 1)
             q == seq \div levelHalf(i)
  <1>1. i - 1 \in Nat /\ i - 1 \in Level /\ i - 1 # kNumLevels - 1 /\ (i - 1) + 1 = i
    BY BucketsAssumption DEF Level
  <1>2. h \in Nat \ {0} /\ levelHalf(i) = 4 * h
    BY <1>1, HalfFacts
  <1>3. seq % levelHalf(i) = 0
    BY SpillIff
  <1>4. seq = levelHalf(i) * q + 0 /\ q \in Nat
    <2>1. levelHalf(i) \in Nat \ {0}
      BY <1>2
    <2> QED
      BY <1>3, <2>1, DivMod
  <1> HIDE DEF h, q
  <1>5. seq = h * (4 * q) + 0 /\ 4 * q \in Nat /\ 0 \in 0 .. h - 1
    BY <1>2, <1>4
  <1>6. seq % h = 0
    BY <1>2, <1>5, DivModUnique
  <1> QED
    BY <1>1, <1>6, SpillIff DEF h

(* The ledger at which level i takes over the merge that was started.      *)
NextMerge(seq, i) == (seq \div levelHalf(i - 1) + 1) * levelHalf(i - 1)

LEMMA NextMergeFacts ==
  ASSUME NEW seq \in Nat, NEW i \in Level \ {0}
  PROVE  /\ levelShouldSpill(seq + 1, i - 1) => NextMerge(seq, i) = seq + 1
         /\ levelShouldSpill(seq, i - 1) => NextMerge(seq, i) = seq + levelHalf(i - 1)
         /\ ~levelShouldSpill(seq + 1, i - 1) => NextMerge(seq + 1, i) = NextMerge(seq, i)
  <1> DEFINE h == levelHalf(i - 1)
             q == seq \div h
             r == seq % h
  <1>1. i - 1 \in Nat /\ i - 1 \in Level /\ i - 1 # kNumLevels - 1
    BY BucketsAssumption DEF Level
  <1>2. h \in Nat \ {0}
    BY <1>1, HalfFacts
  <1>3. levelShouldSpill(seq, i - 1) <=> r = 0
    BY <1>1, SpillIff
  <1>4. levelShouldSpill(seq + 1, i - 1) <=> (seq + 1) % h = 0
    BY <1>1, SpillIff
  <1> HIDE DEF h
  <1>5. seq = h * q + r /\ r \in 0 .. h - 1 /\ q \in Nat
    BY <1>2, DivMod
  <1> HIDE DEF q, r
  <1>6. CASE r + 1 = h
    <2>1. seq + 1 = h * (q + 1) + 0 /\ 0 \in 0 .. h - 1 /\ q + 1 \in Nat /\ (q + 1) * h = seq + 1
      BY <1>2, <1>5, <1>6
    <2>2. (seq + 1) % h = 0
      BY <1>2, <2>1, DivModUnique
    <2>3. r = 0 => (q + 1) * h = seq + h
      BY <1>2, <1>5
    <2> QED
      BY <1>3, <1>4, <2>1, <2>2, <2>3 DEF NextMerge, h, q
  <1>7. CASE r + 1 # h
    <2>1. seq + 1 = h * q + (r + 1) /\ r + 1 \in 0 .. h - 1 /\ seq + 1 \in Nat
      BY <1>2, <1>5, <1>7
    <2>2. (seq + 1) % h = r + 1 /\ (seq + 1) \div h = q
      BY <1>2, <1>5, <2>1, DivModUnique
    <2>3. r = 0 => (q + 1) * h = seq + h
      BY <1>2, <1>5
    <2>4. r + 1 # 0
      BY <1>2, <1>5
    <2> QED
      BY <1>3, <1>4, <2>2, <2>3, <2>4 DEF NextMerge, h, q
  <1> QED
    BY <1>6, <1>7

-----------------------------------------------------------------------------
(* The entries a list stands for                                           *)

(* No bucket above level i has the key.                                    *)
Clean(L, i, k) == \A j \in Level : j < i => Upper(L[j], k) = None

LEMMA LeastHolder ==
  ASSUME NEW L, NEW k, NEW m \in Level, Upper(L[m], k) # None
  PROVE  \E i \in Level : i <= m /\ Upper(L[i], k) # None /\ Clean(L, i, k)
  <1> DEFINE T == {j \in Level : Upper(L[j], k) # None}
  <1>1. \A j \in Level : j \in Nat
    BY BucketsAssumption DEF Level
  <1>2. T \in SUBSET Nat /\ m \in T
    BY <1>1
  <1> HIDE DEF T
  <1>3. PICK i \in T : \A j \in T : i <= j
    BY <1>2, LeastNatural
  <1>4. i \in Level /\ Upper(L[i], k) # None /\ i <= m
    BY <1>2, <1>3 DEF T
  <1>5. Clean(L, i, k)
    <2> SUFFICES ASSUME NEW j \in Level, j < i, Upper(L[j], k) # None PROVE FALSE
      BY DEF Clean
    <2>1. i <= j
      BY <1>3 DEF T
    <2> QED
      BY <1>1, <1>4, <2>1
  <1> QED
    BY <1>4, <1>5

(* The newest entry is that of the first level that has the key.           *)
LEMMA NewestIs ==
  ASSUME NEW L, NEW k, NEW i \in Level, Upper(L[i], k) # None, Clean(L, i, k)
  PROVE  Newest(L, k) = Upper(L[i], k)
  <1> DEFINE S == Holding(L, k)
  <1>1. \A j \in Level : j \in Int
    BY BucketsAssumption DEF Level
  <1>2. i \in S /\ S \subseteq Level
    BY DEF Holding
  <1>3. \A j \in S : i <= j
    BY <1>1 DEF Holding, Clean
  <1> HIDE DEF S
  <1>4. First(S) \in S /\ \A j \in S : First(S) <= j
    BY <1>2, <1>3 DEF First
  <1>5. First(S) = i
    BY <1>1, <1>2, <1>3, <1>4
  <1> QED
    BY <1>2, <1>5 DEF Newest, S

LEMMA NewestNone ==
  ASSUME NEW L, NEW k, \A i \in Level : Upper(L[i], k) = None
  PROVE  Newest(L, k) = None
  BY DEF Newest, Holding

(* What keeps the entries while merges run.  The merge level i will take   *)
(* over at NextMerge has, key by key, what the newest of curr (unless curr *)
(* becomes snap at that ledger) and of the snap above it has; where it has *)
(* nothing instead, because a shadow had the key, a newer bucket has it.   *)
Basis(L, seq, i) == IF levelShouldSpill(NextMerge(seq, i), i) THEN Empty ELSE L[i].curr
Covered(L, i, k) == L[i - 1].curr[k] # None \/ \E j \in 0 .. i - 2 : Upper(L[j], k) # None
MergeSound(L, seq, i) ==
    IF L[i].next.state = "CLEAR" THEN L[i - 1].snap = Empty
    ELSE \A k \in Keys :
            \/ resolve(L[i].next)[k] = Merge(Basis(L, seq, i), L[i - 1].snap, {})[k]
            \/ resolve(L[i].next)[k] = None /\ Covered(L, i, k)
MergesSound(L, seq) == \A i \in Level \ {0} : MergeSound(L, seq, i)

LiveList(L) == \A i \in Level : isLive(L[i].next) \/ L[i].next = Clear

LEMMA LiveOrClear ==
  ASSUME NEW L, LiveList(L), NEW i \in Level
  PROVE  isLive(L[i].next) <=> L[i].next.state # "CLEAR"
  BY EmptyType DEF LiveList, isLive

(* The merge of two buckets at a key.                                      *)
LEMMA MergeAt ==
  ASSUME NEW o, NEW n, NEW k \in Keys
  PROVE  Merge(o, n, {})[k] = IF n[k] # None THEN n[k] ELSE o[k]
  BY DEF Merge

LEMMA EmptyAt == ASSUME NEW k \in Keys PROVE Empty[k] = None
  BY DEF Empty

(* A key that no level above i has is left where it is, or becomes part of *)
(* the snap.                                                               *)
LEMMA CurrStays ==
  ASSUME NEW L \in Levels, LiveList(L), NEW seq \in Nat, MergesSound(L, seq),
         NEW k \in Keys, NEW i \in Level, Clean(L, i, k)
  PROVE  CurrAfter(L, seq + 1, i)[k] =
            IF levelShouldSpill(seq + 1, i) THEN None ELSE L[i].curr[k]
  <1> DEFINE s == seq + 1
  <1>1. CASE i > 0 /\ levelShouldSpill(s, i - 1) /\ isLive(L[i].next)
    <2>1. CurrAfter(L, s, i) = resolve(L[i].next)
      BY <1>1 DEF CurrAfter
    <2>2. /\ i \in Level \ {0} /\ i - 1 \in Level /\ i - 1 < i
          /\ \A j \in 0 .. i - 2 : j \in Level /\ j < i
      BY <1>1, BucketsAssumption DEF Level
    <2>3. NextMerge(seq, i) = s
      BY <1>1, <2>2, NextMergeFacts
    <2>4. L[i].next.state # "CLEAR"
      BY <1>1, LiveOrClear
    <2>5. Upper(L[i - 1], k) = None
      BY <2>2 DEF Clean
    <2>6. L[i - 1].curr[k] = None /\ L[i - 1].snap[k] = None
      BY <2>5 DEF Upper
    <2>7. ~Covered(L, i, k)
      BY <2>2, <2>6 DEF Clean, Covered
    <2>8. resolve(L[i].next)[k] = Merge(Basis(L, seq, i), L[i - 1].snap, {})[k]
      BY <2>2, <2>4, <2>7 DEF MergesSound, MergeSound
    <2>9. resolve(L[i].next)[k] = Basis(L, seq, i)[k]
      BY <2>6, <2>8, MergeAt
    <2> QED
      BY <2>1, <2>3, <2>9, EmptyAt DEF Basis
  <1>2. CASE ~(i > 0 /\ levelShouldSpill(s, i - 1) /\ isLive(L[i].next))
    BY <1>2, EmptyAt DEF CurrAfter
  <1> QED
    BY <1>1, <1>2

(* What the snap of a level gives away is in the curr below.               *)
LEMMA SnapMoves ==
  ASSUME NEW L \in Levels, LiveList(L), NEW seq \in Nat, MergesSound(L, seq),
         NEW k \in Keys, NEW i \in Level, Clean(L, i, k),
         levelShouldSpill(seq + 1, i), L[i].curr[k] = None, L[i].snap[k] # None
  PROVE  i + 1 \in Level /\ CurrAfter(L, seq + 1, i + 1)[k] = L[i].snap[k]
  <1> DEFINE m == i + 1
  <1>1. i # kNumLevels - 1
    BY DEF levelShouldSpill
  <1>2. m \in Level \ {0} /\ m > 0 /\ m - 1 = i /\ \A j \in 0 .. m - 2 : j \in Level /\ j < i
    BY <1>1, BucketsAssumption DEF Level
  <1> HIDE DEF m
  <1>3. NextMerge(seq, m) = seq + 1
    BY <1>2, NextMergeFacts
  <1>4. L[m].next.state # "CLEAR"
    BY <1>2, EmptyAt DEF MergesSound, MergeSound
  <1>5. ~Covered(L, m, k)
    BY <1>2 DEF Clean, Covered
  <1>6. resolve(L[m].next)[k] = Merge(Basis(L, seq, m), L[i].snap, {})[k]
    BY <1>2, <1>4, <1>5 DEF MergesSound, MergeSound
  <1>7. resolve(L[m].next)[k] = L[i].snap[k]
    BY <1>6, MergeAt
  <1>8. CurrAfter(L, seq + 1, m) = resolve(L[m].next)
    BY <1>2, <1>4, LiveOrClear DEF CurrAfter
  <1> QED
    BY <1>2, <1>7, <1>8 DEF m

(* Key by key, the list after a batch that leaves the key alone.           *)
LEMMA FieldsAfter ==
  ASSUME NEW L \in Levels, NEW seq \in Nat, NEW b \in Bucket, NEW k \in Keys, b[k] = None,
         NEW i \in Level
  PROVE  /\ AddToList(L, seq, b)[i].curr[k] = CurrAfter(L, seq, i)[k]
         /\ AddToList(L, seq, b)[i].snap = SnapAfter(L, seq, i)
  <1>1. CASE i = 0
    <2>1. AddToList(L, seq, b)[i].curr = Merge(CurrAfter(L, seq, 0), b, {})
      BY <1>1, AddFacts
    <2> QED
      BY <1>1, <2>1, AddFacts, MergeAt
  <1>2. CASE i # 0
    BY <1>2, AddFacts
  <1> QED
    BY <1>1, <1>2

(* A key that nothing down to level i has does not get there either.       *)
LEMMA StaysClean ==
  ASSUME NEW L \in Levels, LiveList(L), NEW seq \in Nat, MergesSound(L, seq),
         NEW b \in Bucket, NEW k \in Keys, b[k] = None, NEW i \in Level,
         Clean(L, i, k), Upper(L[i], k) = None
  PROVE  Upper(AddToList(L, seq + 1, b)[i], k) = None
  <1>1. L[i].curr[k] = None /\ L[i].snap[k] = None
    BY DEF Upper
  <1>2. CurrAfter(L, seq + 1, i)[k] = None
    BY <1>1, CurrStays
  <1>3. SnapAfter(L, seq + 1, i)[k] = None
    BY <1>1 DEF SnapAfter
  <1>4. seq + 1 \in Nat
    OBVIOUS
  <1> QED
    BY <1>2, <1>3, <1>4, FieldsAfter DEF Upper

LEMMA CleanBelow ==
  ASSUME NEW L, NEW k, NEW i \in Level, Clean(L, i, k), NEW j \in Level, j < i
  PROVE  Clean(L, j, k) /\ Upper(L[j], k) = None
  BY BucketsAssumption DEF Clean, Level

(* The newest entry of a key stays at its level or moves to the curr of    *)
(* the next one, and nothing newer appears.                                *)
LEMMA NewestMoves ==
  ASSUME NEW L \in Levels, LiveList(L), NEW seq \in Nat, MergesSound(L, seq),
         NEW b \in Bucket, NEW k \in Keys, b[k] = None, NEW i \in Level,
         Clean(L, i, k), Upper(L[i], k) # None
  PROVE  LET L2 == AddToList(L, seq + 1, b)
         IN  /\ Clean(L2, i, k)
             /\ \/ Upper(L2[i], k) = Upper(L[i], k)
                \/ /\ Upper(L2[i], k) = None
                   /\ i + 1 \in Level
                   /\ L2[i + 1].curr[k] = Upper(L[i], k)
             /\ ~levelShouldSpill(seq + 1, i) => L2[i].curr[k] = L[i].curr[k]
  <1> DEFINE L2 == AddToList(L, seq + 1, b)
  <1>0. seq + 1 \in Nat
    OBVIOUS
  <1>1. Clean(L2, i, k)
    <2> SUFFICES ASSUME NEW j \in Level, j < i PROVE Upper(L2[j], k) = None
      BY DEF Clean
    <2>1. Clean(L, j, k) /\ Upper(L[j], k) = None
      BY CleanBelow
    <2> QED
      BY <2>1, StaysClean
  <1>2. /\ L2[i].curr[k] = IF levelShouldSpill(seq + 1, i) THEN None ELSE L[i].curr[k]
        /\ L2[i].snap = IF levelShouldSpill(seq + 1, i) THEN L[i].curr ELSE L[i].snap
    BY <1>0, FieldsAfter, CurrStays DEF SnapAfter
  <1>3. CASE ~levelShouldSpill(seq + 1, i)
    <2> HIDE DEF L2
    <2>1. Upper(L2[i], k) = Upper(L[i], k)
      BY <1>2, <1>3 DEF Upper
    <2> QED
      BY <1>1, <1>2, <1>3, <2>1 DEF L2
  <1>4. CASE levelShouldSpill(seq + 1, i) /\ L[i].curr[k] # None
    <2> HIDE DEF L2
    <2>1. Upper(L2[i], k) = Upper(L[i], k)
      BY <1>2, <1>4 DEF Upper
    <2> QED
      BY <1>1, <1>4, <2>1 DEF L2
  <1>5. CASE levelShouldSpill(seq + 1, i) /\ L[i].curr[k] = None
    <2>1. L[i].snap[k] # None /\ Upper(L[i], k) = L[i].snap[k]
      BY <1>5 DEF Upper
    <2>2. i + 1 \in Level /\ CurrAfter(L, seq + 1, i + 1)[k] = L[i].snap[k]
      BY <1>5, <2>1, SnapMoves
    <2>3. L2[i + 1].curr[k] = Upper(L[i], k)
      BY <1>0, <2>1, <2>2, FieldsAfter
    <2> HIDE DEF L2
    <2>4. Upper(L2[i], k) = None
      BY <1>2, <1>5 DEF Upper
    <2> QED
      BY <1>1, <1>5, <2>2, <2>3, <2>4 DEF L2
  <1> QED
    BY <1>3, <1>4, <1>5

(* A batch puts its entries first.                                         *)
LEMMA BatchOnTop ==
  ASSUME NEW L \in Levels, NEW seq \in Nat, NEW b \in Bucket, NEW k \in Keys, b[k] # None
  PROVE  /\ 0 \in Level
         /\ AddToList(L, seq, b)[0].curr[k] = b[k]
         /\ Upper(AddToList(L, seq, b)[0], k) = b[k]
         /\ Clean(AddToList(L, seq, b), 0, k)
  <1>1. 0 \in Level /\ \A j \in Level : ~(j < 0)
    BY BucketsAssumption DEF Level
  <1>2. AddToList(L, seq, b)[0].curr = Merge(CurrAfter(L, seq, 0), b, {})
    BY <1>1, AddFacts
  <1>3. AddToList(L, seq, b)[0].curr[k] = b[k]
    BY <1>2, MergeAt
  <1> QED
    BY <1>1, <1>3 DEF Upper, Clean

(* Adding a batch to the list adds it to the entries.                      *)
LEMMA BatchEntries ==
  ASSUME NEW L \in Levels, LiveList(L), NEW seq \in Nat, MergesSound(L, seq), NEW b \in Bucket,
         NEW k \in Keys
  PROVE  Newest(AddToList(L, seq + 1, b), k) = IF b[k] = None THEN Newest(L, k) ELSE b[k]
  <1> DEFINE L2 == AddToList(L, seq + 1, b)
  <1>0. seq + 1 \in Nat
    OBVIOUS
  <1>1. CASE b[k] # None
    BY <1>0, <1>1, BatchOnTop, NewestIs
  <1>2. CASE b[k] = None /\ \A i \in Level : Upper(L[i], k) = None
    <2>1. \A i \in Level : Clean(L, i, k)
      BY <1>2 DEF Clean
    <2>2. \A i \in Level : Upper(L2[i], k) = None
      BY <1>2, <2>1, StaysClean
    <2>3. Newest(L2, k) = None /\ Newest(L, k) = None
      <3> HIDE DEF L2
      <3> QED
        BY <1>2, <2>2, NewestNone
    <2> QED
      BY <1>2, <2>3
  <1>3. CASE b[k] = None /\ \E i \in Level : Upper(L[i], k) # None
    <2>1. PICK i \in Level : Upper(L[i], k) # None /\ Clean(L, i, k)
      BY <1>3, LeastHolder
    <2>2. Newest(L, k) = Upper(L[i], k)
      BY <2>1, NewestIs
    <2>3. /\ Clean(L2, i, k)
          /\ \/ Upper(L2[i], k) = Upper(L[i], k)
             \/ /\ Upper(L2[i], k) = None
                /\ i + 1 \in Level
                /\ L2[i + 1].curr[k] = Upper(L[i], k)
      BY <1>3, <2>1, NewestMoves
    <2> HIDE DEF L2
    <2>4. CASE Upper(L2[i], k) = Upper(L[i], k)
      BY <1>3, <2>1, <2>2, <2>3, <2>4, NewestIs DEF L2
    <2>5. CASE Upper(L2[i], k) = None /\ i + 1 \in Level /\ L2[i + 1].curr[k] = Upper(L[i], k)
      <3>1. Upper(L2[i + 1], k) = Upper(L[i], k)
        BY <2>1, <2>5 DEF Upper
      <3>2. \A j \in Level : j < i + 1 => j < i \/ j = i
        BY BucketsAssumption DEF Level
      <3>3. Clean(L2, i + 1, k)
        BY <2>3, <2>5, <3>2 DEF Clean
      <3> QED
        BY <1>3, <2>1, <2>2, <2>5, <3>1, <3>3, NewestIs DEF L2
    <2> QED
      BY <2>3, <2>4, <2>5
  <1> QED
    BY <1>1, <1>2, <1>3

(* What a newer bucket has, a newer bucket still has after the batch.      *)
LEMMA StaysCovered ==
  ASSUME NEW L \in Levels, LiveList(L), NEW seq \in Nat, MergesSound(L, seq), NEW b \in Bucket,
         NEW k \in Keys, NEW i \in Level \ {0},
         \/ \E j \in 0 .. i - 2 : Upper(L[j], k) # None
         \/ L[i - 1].curr[k] # None /\ ~levelShouldSpill(seq + 1, i - 1)
  PROVE  Covered(AddToList(L, seq + 1, b), i, k)
  <1> DEFINE L2 == AddToList(L, seq + 1, b)
  <1>0. seq + 1 \in Nat /\ i - 1 \in Level /\ i \in Nat \ {0} /\ \A j \in 0 .. i - 2 : j \in Level
    BY BucketsAssumption DEF Level
  <1>1. CASE b[k] # None
    <2>1. L2[0].curr[k] # None /\ Upper(L2[0], k) # None
      BY <1>0, <1>1, BatchOnTop
    <2> HIDE DEF L2
    <2>2. i = 1 \/ 0 \in 0 .. i - 2
      BY <1>0
    <2>3. Covered(L2, i, k)
      BY <2>1, <2>2 DEF Covered
    <2> QED
      BY <2>3 DEF L2
  <1>2. CASE b[k] = None
    <2>1. PICK m \in 0 .. i - 1 :
            /\ m \in Level /\ Upper(L[m], k) # None
            /\ m = i - 1 => L[m].curr[k] # None /\ ~levelShouldSpill(seq + 1, m)
      <3>1. CASE \E j \in 0 .. i - 2 : Upper(L[j], k) # None
        <4>1. PICK j \in 0 .. i - 2 : Upper(L[j], k) # None
          BY <3>1
        <4>2. j \in 0 .. i - 1 /\ j \in Level /\ j # i - 1
          BY <1>0
        <4> QED
          BY <4>1, <4>2
      <3>2. CASE L[i - 1].curr[k] # None /\ ~levelShouldSpill(seq + 1, i - 1)
        <4>1. i - 1 \in 0 .. i - 1 /\ Upper(L[i - 1], k) # None
          BY <1>0, <3>2 DEF Upper
        <4> QED
          BY <1>0, <3>2, <4>1
      <3> QED
        BY <3>1, <3>2
    <2>2. PICK n \in Level : n <= m /\ Upper(L[n], k) # None /\ Clean(L, n, k)
      BY <2>1, LeastHolder
    <2>3. n \in 0 .. i - 1 /\ n \in Nat
      BY <1>0, <2>2, BucketsAssumption DEF Level
    <2>4. /\ \/ Upper(L2[n], k) = Upper(L[n], k)
             \/ /\ n + 1 \in Level
                /\ L2[n + 1].curr[k] = Upper(L[n], k)
          /\ ~levelShouldSpill(seq + 1, n) => L2[n].curr[k] = L[n].curr[k]
      BY <1>2, <2>2, NewestMoves
    <2> HIDE DEF L2
    <2>5. CASE n = i - 1
      <3>1. m = i - 1
        BY <1>0, <2>2, <2>5
      <3>2. L2[i - 1].curr[k] # None
        BY <2>1, <2>4, <2>5, <3>1
      <3>3. Covered(L2, i, k)
        BY <3>2 DEF Covered
      <3> QED
        BY <3>3 DEF L2
    <2>6. CASE n # i - 1
      <3>1. n \in 0 .. i - 2 /\ (n + 1 = i - 1 \/ n + 1 \in 0 .. i - 2)
        BY <1>0, <2>3, <2>6
      <3>2. CASE Upper(L2[n], k) = Upper(L[n], k)
        <4>1. Covered(L2, i, k)
          BY <2>2, <3>1, <3>2 DEF Covered
        <4> QED
          BY <4>1 DEF L2
      <3>3. CASE L2[n + 1].curr[k] = Upper(L[n], k)
        <4>1. L2[n + 1].curr[k] # None /\ Upper(L2[n + 1], k) # None
          BY <2>2, <3>3 DEF Upper
        <4>2. Covered(L2, i, k)
          BY <3>1, <4>1 DEF Covered
        <4> QED
          BY <4>2 DEF L2
      <3> QED
        BY <2>4, <3>2, <3>3
    <2> QED
      BY <2>5, <2>6
  <1> QED
    BY <1>1, <1>2

(* What resolve makes of a merge that has just been started.               *)
LEMMA StartedMerge ==
  ASSUME NEW c \in Bucket, NEW n \in Bucket, NEW sh \in SUBSET Bucket, NEW k \in Keys
  PROVE  /\ resolve(LiveInputs(c, n, sh)) = Merge(c, n, sh)
         /\ \/ resolve(LiveInputs(c, n, sh))[k] = Merge(c, n, {})[k]
            \/ /\ resolve(LiveInputs(c, n, sh))[k] = None
               /\ \E s \in sh : s[k] # None
  <1>1. resolve(LiveInputs(c, n, sh)) = Merge(c, n, sh)
    BY LiveInputsFacts DEF resolve, isMerging
  <1>2. CASE \E s \in sh : s[k] # None
    BY <1>1, <1>2 DEF Merge
  <1>3. CASE ~\E s \in sh : s[k] # None
    BY <1>1, <1>3 DEF Merge
  <1> QED
    BY <1>1, <1>2, <1>3

(* A batch leaves every merge sound: one that is started at this ledger    *)
(* becomes so, the others stay so.                                         *)
LEMMA BatchMerges ==
  ASSUME NEW L \in Levels, LiveList(L), NEW seq \in Nat, MergesSound(L, seq), NEW b \in Bucket
  PROVE  MergesSound(AddToList(L, seq + 1, b), seq + 1)
  <1> DEFINE L2 == AddToList(L, seq + 1, b)
  <1> SUFFICES ASSUME NEW i \in Level \ {0} PROVE MergeSound(L2, seq + 1, i)
    BY DEF MergesSound
  <1>0. /\ seq + 1 \in Nat /\ i - 1 \in Level /\ i \in Nat \ {0} /\ i > 0
        /\ \A j \in 0 .. i - 2 : j \in Level
    BY BucketsAssumption DEF Level
  <1>1. /\ L2[i].curr = CurrAfter(L, seq + 1, i)
        /\ L2[i].next = NextAfter(L, seq + 1, i)
        /\ L2[i - 1].snap = SnapAfter(L, seq + 1, i - 1)
    BY <1>0, AddFacts
  <1>2. L[i] \in LevelType /\ L[i - 1] \in LevelType
    BY <1>0 DEF Levels
  <1>3. \A k \in Keys :
            \/ \E j \in 0 .. i - 2 : Upper(L[j], k) # None
            \/ L[i - 1].curr[k] # None /\ ~levelShouldSpill(seq + 1, i - 1)
            => Covered(L2, i, k)
    BY StaysCovered
  <1> HIDE DEF L2
  <1>4. CASE levelShouldSpill(seq + 1, i - 1)
    <2> DEFINE c  == CurrToMerge(i, seq + 1, CurrAfter(L, seq + 1, i))
               n  == L[i - 1].curr
               sh == Shadows(L, i)
    <2>1. c \in Bucket /\ n \in Bucket /\ sh \in SUBSET Bucket
      BY <1>2, AfterTypes, EmptyType, ShadowsType DEF LevelType
    <2>2. L2[i].next = LiveInputs(c, n, sh) /\ L2[i - 1].snap = n
      BY <1>0, <1>1, <1>4 DEF NextAfter, SnapAfter
    <2>3. NextMerge(seq + 1, i) = seq + 1 + levelHalf(i - 1)
      BY <1>0, <1>4, NextMergeFacts
    <2>4. Basis(L2, seq + 1, i) = c
      BY <1>0, <1>1, <2>3 DEF Basis, CurrToMerge
    <2>5. ASSUME NEW k \in Keys, \E s \in sh : s[k] # None
          PROVE  \E j \in 0 .. i - 2 : Upper(L[j], k) # None
      <3>1. PICK j \in 0 .. i - 2 : L[j].curr[k] # None \/ L[j].snap[k] # None
        BY <2>5 DEF Shadows
      <3> QED
        BY <3>1 DEF Upper
    <2> HIDE DEF c, n, sh
    <2>6. LiveInputs(c, n, sh).state # "CLEAR"
      BY <2>1, LiveInputsFacts
    <2>7. ASSUME NEW k \in Keys
          PROVE  \/ resolve(L2[i].next)[k] = Merge(Basis(L2, seq + 1, i), L2[i - 1].snap, {})[k]
                 \/ resolve(L2[i].next)[k] = None /\ Covered(L2, i, k)
      BY <1>3, <2>1, <2>2, <2>4, <2>5, StartedMerge
    <2> QED
      BY <2>2, <2>6, <2>7 DEF MergeSound
  <1>5. CASE ~levelShouldSpill(seq + 1, i - 1)
    <2>1. ~levelShouldSpill(seq + 1, i)
      BY <1>0, <1>5, SpillAbove
    <2>2. L2[i].curr = L[i].curr /\ L2[i].next = L[i].next /\ L2[i - 1].snap = L[i - 1].snap
      BY <1>1, <1>5, <2>1 DEF CurrAfter, NextAfter, SnapAfter
    <2>3. NextMerge(seq + 1, i) = NextMerge(seq, i)
      BY <1>5, NextMergeFacts
    <2>4. Basis(L2, seq + 1, i) = Basis(L, seq, i)
      BY <2>2, <2>3 DEF Basis
    <2>5. \A k \in Keys : Covered(L, i, k) => Covered(L2, i, k)
      BY <1>3, <1>5 DEF Covered
    <2>6. MergeSound(L, seq, i)
      BY DEF MergesSound
    <2> QED
      BY <2>2, <2>4, <2>5, <2>6 DEF MergeSound
  <1> QED
    BY <1>4, <1>5

-----------------------------------------------------------------------------
(* Lists that differ only in how far their merges are                      *)

SameNext(n1, n2) ==
    /\ (n1.state = "CLEAR") = (n2.state = "CLEAR")
    /\ resolve(n1) = resolve(n2)
SameList(L1, L2) ==
    \A i \in Level : /\ L1[i].curr = L2[i].curr
                     /\ L1[i].snap = L2[i].snap
                     /\ SameNext(L1[i].next, L2[i].next)

LEMMA SameEntries ==
  ASSUME NEW L1, NEW L2, SameList(L1, L2)
  PROVE  EntriesOf(L1) = EntriesOf(L2)
  <1>1. ASSUME NEW k \in Keys PROVE Newest(L1, k) = Newest(L2, k)
    <2>1. \A i \in Level : Upper(L1[i], k) = Upper(L2[i], k)
      BY DEF SameList, Upper
    <2>2. Holding(L1, k) = Holding(L2, k)
      BY <2>1 DEF Holding
    <2>3. CASE Holding(L1, k) = {}
      BY <2>2, <2>3 DEF Newest
    <2>4. CASE Holding(L1, k) # {}
      <3>1. PICK m \in Level : Upper(L1[m], k) # None
        BY <2>4 DEF Holding
      <3>2. PICK i \in Level : Upper(L1[i], k) # None /\ Clean(L1, i, k)
        BY <3>1, LeastHolder
      <3>3. Upper(L2[i], k) # None /\ Clean(L2, i, k)
        BY <2>1, <3>2 DEF Clean
      <3> QED
        BY <2>1, <3>2, <3>3, NewestIs
    <2> QED
      BY <2>3, <2>4
  <1> QED
    BY <1>1 DEF EntriesOf

LEMMA SameSettled ==
  ASSUME NEW L1, NEW L2, SameList(L1, L2)
  PROVE  Settled(L1) = Settled(L2)
  <1>1. ASSUME NEW i \in Level
        PROVE  /\ L1[i].curr = L2[i].curr
               /\ L1[i].snap = L2[i].snap
               /\ (L1[i].next.state = "CLEAR") = (L2[i].next.state = "CLEAR")
               /\ resolve(L1[i].next) = resolve(L2[i].next)
    BY DEF SameList, SameNext
  <1> QED
    BY <1>1, Zenon DEF Settled

LEMMA SameMerges ==
  ASSUME NEW L1, NEW L2, NEW seq, SameList(L1, L2), MergesSound(L1, seq)
  PROVE  MergesSound(L2, seq)
  <1> SUFFICES ASSUME NEW i \in Level \ {0} PROVE MergeSound(L2, seq, i)
    BY DEF MergesSound
  <1>0. i - 1 \in Level /\ \A j \in 0 .. i - 2 : j \in Level
    BY BucketsAssumption DEF Level
  <1>1. /\ L1[i].curr = L2[i].curr /\ L1[i - 1].curr = L2[i - 1].curr
        /\ L1[i - 1].snap = L2[i - 1].snap
        /\ (L1[i].next.state = "CLEAR") = (L2[i].next.state = "CLEAR")
        /\ resolve(L1[i].next) = resolve(L2[i].next)
    BY <1>0 DEF SameList, SameNext
  <1>2. ASSUME NEW k \in Keys PROVE Covered(L1, i, k) => Covered(L2, i, k)
    <2>1. \A j \in 0 .. i - 2 : Upper(L1[j], k) = Upper(L2[j], k)
      BY <1>0 DEF SameList, Upper
    <2> QED
      BY <1>1, <2>1 DEF Covered
  <1>3. Basis(L1, seq, i) = Basis(L2, seq, i)
    BY <1>1 DEF Basis
  <1>4. MergeSound(L1, seq, i)
    BY DEF MergesSound
  <1> QED
    BY <1>1, <1>2, <1>3, <1>4 DEF MergeSound

LEMMA SameSym ==
  ASSUME NEW L1, NEW L2, SameList(L1, L2) PROVE SameList(L2, L1)
  BY DEF SameList, SameNext

LEMMA SameTrans ==
  ASSUME NEW L1, NEW L2, NEW L3, SameList(L1, L2), SameList(L2, L3) PROVE SameList(L1, L3)
  BY DEF SameList, SameNext

(* The batch does the same to both.                                        *)
LEMMA SameAfter ==
  ASSUME NEW L1 \in Levels, NEW L2 \in Levels, LiveList(L1), LiveList(L2), SameList(L1, L2),
         NEW seq, NEW b \in Bucket
  PROVE  SameList(AddToList(L1, seq, b), AddToList(L2, seq, b))
  <1> DEFINE M1 == AddToList(L1, seq, b)
             M2 == AddToList(L2, seq, b)
  <1> SUFFICES ASSUME NEW i \in Level
               PROVE  /\ M1[i].curr = M2[i].curr /\ M1[i].snap = M2[i].snap
                      /\ SameNext(M1[i].next, M2[i].next)
    BY DEF SameList
  <1>1. /\ L1[i].curr = L2[i].curr /\ L1[i].snap = L2[i].snap
        /\ SameNext(L1[i].next, L2[i].next)
    BY DEF SameList
  <1>2. isLive(L1[i].next) <=> isLive(L2[i].next)
    BY <1>1, LiveOrClear DEF SameNext
  <1>3. CurrAfter(L1, seq, i) = CurrAfter(L2, seq, i)
    BY <1>1, <1>2 DEF CurrAfter, SameNext
  <1>4. SnapAfter(L1, seq, i) = SnapAfter(L2, seq, i)
    BY <1>1 DEF SnapAfter
  <1>5. SameNext(NextAfter(L1, seq, i), NextAfter(L2, seq, i))
    <2>1. CASE i > 0 /\ levelShouldSpill(seq, i - 1)
      <3>1. i - 1 \in Level /\ \A j \in 0 .. i - 2 : j \in Level
        BY <2>1, BucketsAssumption DEF Level
      <3>2. L1[i - 1].curr = L2[i - 1].curr
        BY <3>1 DEF SameList
      <3>3. Shadows(L1, i) = Shadows(L2, i)
        BY <3>1 DEF Shadows, SameList
      <3>4. NextAfter(L1, seq, i) = NextAfter(L2, seq, i)
        BY <1>3, <2>1, <3>2, <3>3 DEF NextAfter
      <3> QED
        BY <3>4 DEF SameNext
    <2>2. CASE ~(i > 0 /\ levelShouldSpill(seq, i - 1))
      BY <1>1, <2>2 DEF NextAfter
    <2> QED
      BY <2>1, <2>2
  <1>6. CASE i = 0
    BY <1>3, <1>4, <1>5, <1>6, AddFacts
  <1>7. CASE i # 0
    BY <1>3, <1>4, <1>5, <1>7, AddFacts
  <1> QED
    BY <1>6, <1>7

-----------------------------------------------------------------------------
(* Saving, loading and finishing merges changes only how far they are      *)

HashedNext(n) ==
    n = Clear \/ (n.state = "HASH_INPUTS" /\ ~n.ready) \/ n.state = "HASH_OUTPUT"
HashedList(L) == \A i \in Level : HashedNext(L[i].next)

LEMMA ResolveStates ==
  ASSUME NEW n \in Future
  PROVE  /\ n.state \in {"LIVE_OUTPUT", "HASH_OUTPUT", "CLEAR"} => resolve(n) = n.out
         /\ n.state \in {"LIVE_INPUTS", "HASH_INPUTS"} =>
               resolve(n) = Merge(n.curr, n.snap, n.shadows)
  BY DEF resolve, isMerging

LEMMA SettledNext ==
  ASSUME NEW n \in Future, n.state # "CLEAR", NEW t \in {"LIVE_OUTPUT", "HASH_OUTPUT"}
  PROVE  SameNext(n, [Output(resolve(n)) EXCEPT !.state = t])
  <1> DEFINE o == resolve(n)
             m == [Output(o) EXCEPT !.state = t]
  <1>1. o \in Bucket
    BY ResolveType
  <1> HIDE DEF o
  <1>2. m \in Future /\ m.state = t /\ m.out = o
    BY <1>1, OutputFacts
  <1> HIDE DEF m
  <1>3. resolve(m) = o /\ m.state # "CLEAR"
    BY <1>2, ResolveStates
  <1>4. SameNext(n, m)
    BY <1>3 DEF SameNext, o
  <1> QED
    BY <1>4 DEF m, o

(* An entry of a list with another future.                                 *)
LEMMA LevelWith ==
  ASSUME NEW l \in LevelType, NEW n \in Future
  PROVE  /\ [l EXCEPT !.next = n] \in LevelType
         /\ [l EXCEPT !.next = n].curr = l.curr
         /\ [l EXCEPT !.next = n].snap = l.snap
         /\ [l EXCEPT !.next = n].next = n
  BY DEF LevelType

LEMMA SaveFacts ==
  ASSUME NEW n \in Future, isLive(n) \/ n = Clear
  PROVE  /\ save(n) \in Future /\ HashedNext(save(n)) /\ SameNext(n, save(n))
         /\ SavedHashes(save(n)) \subseteq Held(n)
  <1>1. CASE isMerging(n) /\ ~n.ready
    <2> DEFINE m == [n EXCEPT !.state = "HASH_INPUTS"]
    <2>1. /\ m \in Future /\ m.state = "HASH_INPUTS" /\ m.curr = n.curr /\ m.snap = n.snap
          /\ m.shadows = n.shadows /\ m.ready = n.ready
      BY DEF Future
    <2>2. save(n) = m
      BY <1>1 DEF save
    <2> HIDE DEF m
    <2>3. resolve(m) = resolve(n)
      BY <1>1, <2>1, ResolveStates DEF isMerging
    <2>4. SameNext(n, m)
      BY <1>1, <2>1, <2>3 DEF SameNext, isMerging
    <2>5. SavedHashes(m) \subseteq Held(n)
      BY <1>1, <2>1 DEF SavedHashes, Held
    <2> QED
      BY <1>1, <2>1, <2>2, <2>4, <2>5 DEF HashedNext
  <1>2. CASE ~(isMerging(n) /\ ~n.ready) /\ isLive(n)
    <2> DEFINE m == [Output(resolve(n)) EXCEPT !.state = "HASH_OUTPUT"]
    <2>1. save(n) = m
      BY <1>2 DEF save
    <2>2. SameNext(n, m)
      BY <1>2, SettledNext DEF isLive
    <2>3. m \in Future /\ m.state = "HASH_OUTPUT" /\ m.out = resolve(n)
      BY ResolveType, OutputFacts
    <2> HIDE DEF m
    <2>4. SavedHashes(m) = {resolve(n)}
      BY <2>3 DEF SavedHashes
    <2>5. resolve(n) \in Held(n)
      <3>1. CASE n.state = "LIVE_INPUTS"
        BY <1>2, <3>1 DEF Held, isMerging
      <3>2. CASE n.state = "LIVE_OUTPUT"
        BY <3>2, ResolveStates DEF Held, isMerging
      <3> QED
        BY <1>2, <3>1, <3>2 DEF isLive
    <2> QED
      BY <2>1, <2>2, <2>3, <2>4, <2>5 DEF HashedNext
  <1>3. CASE ~isLive(n)
    <2>1. n = Clear /\ save(n) = n
      BY <1>3 DEF save, isMerging, isLive
    <2>2. SavedHashes(n) = {}
      BY <2>1, EmptyType DEF SavedHashes
    <2> QED
      BY <2>1, <2>2 DEF HashedNext, SameNext
  <1> QED
    BY <1>1, <1>2, <1>3

LEMMA MakeLiveFacts ==
  ASSUME NEW n \in Future, HashedNext(n)
  PROVE  /\ makeLive(n) \in Future /\ (isLive(makeLive(n)) \/ makeLive(n) = Clear)
         /\ SameNext(n, makeLive(n))
         /\ Held(makeLive(n)) = SavedHashes(n)
  <1>1. CASE n.state = "HASH_OUTPUT"
    <2> DEFINE m == [n EXCEPT !.state = "LIVE_OUTPUT"]
    <2>1. m \in Future /\ m.state = "LIVE_OUTPUT" /\ m.out = n.out
      BY DEF Future
    <2>2. makeLive(n) = m
      BY <1>1 DEF makeLive
    <2> HIDE DEF m
    <2>3. resolve(m) = resolve(n)
      BY <1>1, <2>1, ResolveStates
    <2>4. Held(m) = SavedHashes(n)
      BY <1>1, <2>1 DEF Held, SavedHashes, isMerging
    <2> QED
      BY <1>1, <2>1, <2>2, <2>3, <2>4 DEF SameNext, isLive
  <1>2. CASE n.state = "HASH_INPUTS" /\ ~n.ready
    <2> DEFINE m == [n EXCEPT !.state = "LIVE_INPUTS"]
    <2>1. /\ m \in Future /\ m.state = "LIVE_INPUTS" /\ m.curr = n.curr /\ m.snap = n.snap
          /\ m.shadows = n.shadows /\ ~m.ready
      BY <1>2 DEF Future
    <2>2. makeLive(n) = m
      BY <1>2 DEF makeLive
    <2> HIDE DEF m
    <2>3. resolve(m) = resolve(n)
      BY <1>2, <2>1, ResolveStates
    <2>4. Held(m) = SavedHashes(n)
      BY <1>2, <2>1 DEF Held, SavedHashes, isMerging
    <2> QED
      BY <1>2, <2>1, <2>2, <2>3, <2>4 DEF SameNext, isLive
  <1>3. CASE n = Clear
    <2>1. n.state = "CLEAR" /\ makeLive(n) = n
      BY <1>3, EmptyType DEF makeLive
    <2>2. Held(n) = {} /\ SavedHashes(n) = {}
      BY <2>1 DEF Held, SavedHashes, isMerging
    <2> QED
      BY <1>3, <2>1, <2>2 DEF SameNext
  <1> QED
    BY <1>1, <1>2, <1>3 DEF HashedNext

(* What is among the buckets named, in use or needed.                      *)
LEMMA NamedHas ==
  ASSUME NEW L, NEW x
  PROVE  x \in Named(L) <=> x # Empty /\ \E i \in Level : x \in {L[i].curr, L[i].snap}
  <1> DEFINE U == UNION {{L[i].curr, L[i].snap} : i \in Level}
  <1>1. x \in U <=> \E i \in Level : x \in {L[i].curr, L[i].snap}
    BY Zenon
  <1>2. Named(L) = U \ {Empty}
    BY DEF Named
  <1> HIDE DEF U
  <1> QED
    BY <1>1, <1>2

LEMMA InUseHas ==
  ASSUME NEW L, NEW x
  PROVE  x \in InUse(L) <=> x # Empty /\ \E i \in Level : x \in Held(L[i].next)
  <1> DEFINE U == UNION {Held(L[i].next) : i \in Level}
  <1>1. x \in U <=> \E i \in Level : x \in Held(L[i].next)
    BY Zenon
  <1>2. InUse(L) = U \ {Empty}
    BY DEF InUse
  <1> HIDE DEF U
  <1> QED
    BY <1>1, <1>2

LEMMA NeededHas ==
  ASSUME NEW L, NEW x
  PROVE  x \in Needed(L) <=>
            x \in Named(L) \/ (x # Empty /\ \E i \in Level : x \in SavedHashes(L[i].next))
  <1> DEFINE U == UNION {SavedHashes(L[i].next) : i \in Level}
  <1>1. x \in U <=> \E i \in Level : x \in SavedHashes(L[i].next)
    BY Zenon
  <1>2. Needed(L) = Named(L) \cup (U \ {Empty})
    BY DEF Needed
  <1> HIDE DEF U
  <1> QED
    BY <1>1, <1>2

LEMMA SavedFacts ==
  ASSUME NEW L \in Levels, LiveList(L)
  PROVE  /\ Saved(L) \in Levels /\ HashedList(Saved(L)) /\ SameList(L, Saved(L))
         /\ Needed(Saved(L)) \subseteq Named(L) \cup InUse(L)
         /\ \A i \in Level : Saved(L)[i].next = save(L[i].next)
  <1>1. ASSUME NEW i \in Level
        PROVE  /\ Saved(L)[i] \in LevelType /\ Saved(L)[i].curr = L[i].curr
               /\ Saved(L)[i].snap = L[i].snap /\ Saved(L)[i].next = save(L[i].next)
    <2>1. L[i] \in LevelType /\ L[i].next \in Future
      BY DEF Levels, LevelType
    <2>2. save(L[i].next) \in Future
      BY <2>1, SaveFacts DEF LiveList
    <2>3. Saved(L)[i] = [L[i] EXCEPT !.next = save(L[i].next)]
      BY <2>1 DEF Saved, LevelType
    <2> QED
      BY <2>1, <2>2, <2>3, LevelWith
  <1>2. \A i \in Level : L[i].next \in Future
    BY DEF Levels, LevelType
  <1>3. Saved(L) \in Levels
    BY <1>1 DEF Saved, Levels
  <1>4. HashedList(Saved(L)) /\ SameList(L, Saved(L))
    BY <1>1, <1>2, SaveFacts DEF HashedList, SameList, LiveList
  <1>5. Named(Saved(L)) = Named(L)
    BY <1>1 DEF Named
  <1>6. \A i \in Level : SavedHashes(Saved(L)[i].next) \subseteq Held(L[i].next)
    BY <1>1, <1>2, SaveFacts DEF LiveList
  <1>7. Needed(Saved(L)) \subseteq Named(L) \cup InUse(L)
    <2> DEFINE M == Saved(L)
    <2> HIDE DEF M
    <2> SUFFICES ASSUME NEW x \in Needed(M) PROVE x \in Named(L) \cup InUse(L)
      BY DEF M
    <2>1. CASE x \in Named(M)
      BY <1>5, <2>1 DEF M
    <2>2. CASE x \notin Named(M)
      <3>1. x # Empty /\ \E i \in Level : x \in SavedHashes(M[i].next)
        BY <2>2, NeededHas
      <3>2. \E i \in Level : x \in Held(L[i].next)
        BY <1>6, <3>1 DEF M
      <3> QED
        BY <3>1, <3>2, InUseHas
    <2> QED
      BY <2>1, <2>2
  <1> QED
    BY <1>1, <1>3, <1>4, <1>7

LEMMA LoadedFacts ==
  ASSUME NEW L \in Levels, HashedList(L)
  PROVE  /\ Loaded(L) \in Levels /\ LiveList(Loaded(L)) /\ SameList(L, Loaded(L))
         /\ Named(Loaded(L)) \cup InUse(Loaded(L)) = Needed(L)
  <1>1. ASSUME NEW i \in Level
        PROVE  /\ Loaded(L)[i] \in LevelType /\ Loaded(L)[i].curr = L[i].curr
               /\ Loaded(L)[i].snap = L[i].snap /\ Loaded(L)[i].next = makeLive(L[i].next)
    <2>1. L[i] \in LevelType /\ L[i].next \in Future
      BY DEF Levels, LevelType
    <2>2. makeLive(L[i].next) \in Future
      BY <2>1, MakeLiveFacts DEF HashedList
    <2>3. Loaded(L)[i] = [L[i] EXCEPT !.next = makeLive(L[i].next)]
      BY <2>1 DEF Loaded, LevelType
    <2> QED
      BY <2>1, <2>2, <2>3, LevelWith
  <1>2. \A i \in Level : L[i].next \in Future
    BY DEF Levels, LevelType
  <1>3. Loaded(L) \in Levels
    BY <1>1 DEF Loaded, Levels
  <1>4. LiveList(Loaded(L)) /\ SameList(L, Loaded(L))
    BY <1>1, <1>2, MakeLiveFacts DEF HashedList, SameList, LiveList
  <1>5. Named(Loaded(L)) = Named(L)
    BY <1>1 DEF Named
  <1>6. \A i \in Level : Held(Loaded(L)[i].next) = SavedHashes(L[i].next)
    BY <1>1, <1>2, MakeLiveFacts DEF HashedList
  <1> QED
    BY <1>3, <1>4, <1>5, <1>6 DEF Needed, InUse

LEMMA SettledFacts ==
  ASSUME NEW L \in Levels, LiveList(L)
  PROVE  Settled(L) \in Levels /\ LiveList(Settled(L)) /\ SameList(L, Settled(L))
  <1> DEFINE N(i) == IF L[i].next.state = "CLEAR" THEN Clear
                     ELSE [Output(resolve(L[i].next)) EXCEPT !.state = "LIVE_OUTPUT"]
  <1>1. ASSUME NEW i \in Level
        PROVE  /\ N(i) \in Future /\ SameNext(L[i].next, N(i))
               /\ isLive(N(i)) \/ N(i) = Clear
    <2>1. L[i].next \in Future
      BY DEF Levels, LevelType
    <2>2. CASE L[i].next.state = "CLEAR"
      <3>1. L[i].next = Clear /\ N(i) = Clear
        BY <2>2 DEF LiveList, isLive
      <3> QED
        BY <3>1, EmptyType DEF SameNext
    <2>3. CASE L[i].next.state # "CLEAR"
      <3> DEFINE m == [Output(resolve(L[i].next)) EXCEPT !.state = "LIVE_OUTPUT"]
      <3>1. N(i) = m
        BY <2>3
      <3>2. m \in Future /\ m.state = "LIVE_OUTPUT"
        BY <2>1, ResolveType, OutputFacts
      <3>3. SameNext(L[i].next, m)
        BY <2>1, <2>3, SettledNext
      <3> HIDE DEF m, N
      <3> QED
        BY <3>1, <3>2, <3>3 DEF isLive
    <2> QED
      BY <2>2, <2>3
  <1>2. Settled(L) = [i \in Level |-> [curr |-> L[i].curr, snap |-> L[i].snap, next |-> N(i)]]
    BY Zenon DEF Settled
  <1> HIDE DEF N
  <1>3. ASSUME NEW i \in Level
        PROVE  /\ Settled(L)[i] \in LevelType /\ Settled(L)[i].curr = L[i].curr
               /\ Settled(L)[i].snap = L[i].snap /\ Settled(L)[i].next = N(i)
    BY <1>1, <1>2 DEF Levels, LevelType
  <1>4. Settled(L) \in Levels
    BY <1>2, <1>3 DEF Levels
  <1> QED
    BY <1>1, <1>3, <1>4 DEF LiveList, SameList

(* A worker finishes the merge of level i.                                 *)
LEMMA WorkerFacts ==
  ASSUME NEW L \in Levels, LiveList(L), NEW i \in Level, isMerging(L[i].next), ~L[i].next.ready
  PROVE  LET M == [L EXCEPT ![i].next.ready = TRUE]
         IN  /\ M \in Levels /\ LiveList(M) /\ SameList(L, M)
             /\ Named(M) = Named(L)
             /\ InUse(M) = InUse(L) \cup ({resolve(L[i].next)} \ {Empty})
  <1> DEFINE n == L[i].next
             m == [n EXCEPT !.ready = TRUE]
             M == [L EXCEPT ![i].next.ready = TRUE]
  <1>1. L[i] \in LevelType /\ n \in Future
    BY DEF Levels, LevelType
  <1>2. /\ m \in Future /\ m.state = n.state /\ m.curr = n.curr /\ m.snap = n.snap
        /\ m.shadows = n.shadows /\ m.ready
    BY <1>1 DEF Future
  <1>3. M = [j \in Level |-> IF j = i THEN [L[i] EXCEPT !.next = m] ELSE L[j]]
    BY <1>1 DEF Levels, LevelType
  <1>4. n.state = "LIVE_INPUTS" /\ ~n.ready
    BY DEF isMerging
  <1> HIDE DEF m, M
  <1>5. /\ M \in Levels
        /\ \A j \in Level : /\ M[j].curr = L[j].curr /\ M[j].snap = L[j].snap
                            /\ M[j].next = IF j = i THEN m ELSE L[j].next
    <2>1. ASSUME NEW j \in Level
          PROVE  /\ M[j] \in LevelType /\ M[j].curr = L[j].curr /\ M[j].snap = L[j].snap
                 /\ M[j].next = IF j = i THEN m ELSE L[j].next
      <3>1. CASE j = i
        <4>1. M[j] = [L[i] EXCEPT !.next = m]
          BY <1>3, <3>1
        <4> QED
          BY <1>1, <1>2, <3>1, <4>1, LevelWith
      <3>2. CASE j # i
        BY <1>3, <3>2 DEF Levels
      <3> QED
        BY <3>1, <3>2
    <2> QED
      BY <1>3, <2>1 DEF Levels
  <1>6. SameNext(n, m)
    <2>1. resolve(n) = resolve(m)
      BY <1>1, <1>2, <1>4, ResolveStates
    <2> QED
      BY <1>2, <2>1 DEF SameNext
  <1>7. LiveList(M)
    BY <1>2, <1>4, <1>5 DEF LiveList, isLive
  <1>8. SameList(L, M)
    BY <1>5, <1>6 DEF SameList, SameNext
  <1>9. Named(M) = Named(L)
    BY <1>5 DEF Named
  <1>10. Held(m) = Held(n) \cup {resolve(n)}
    <2>1. resolve(n) = resolve(m)
      BY <1>1, <1>2, <1>4, ResolveStates
    <2>2. Held(m) = {n.curr, n.snap} \cup n.shadows \cup {resolve(m)}
      BY <1>2, <1>4 DEF Held, isMerging
    <2>3. Held(n) = {n.curr, n.snap} \cup n.shadows
      BY <1>4 DEF Held, isMerging
    <2> QED
      BY <2>1, <2>2, <2>3
  <1>11. InUse(M) = InUse(L) \cup ({resolve(L[i].next)} \ {Empty})
    <2>1. ASSUME NEW x
          PROVE  x \in InUse(M) <=> x \in InUse(L) \/ (x = resolve(L[i].next) /\ x # Empty)
      <3>1. (\E j \in Level : x \in Held(M[j].next))
               <=> (\E j \in Level : x \in Held(L[j].next)) \/ x = resolve(n)
        BY <1>5, <1>10
      <3> QED
        BY <3>1, InUseHas
    <2> QED
      BY <2>1
  <1> QED
    BY <1>5, <1>7, <1>8, <1>9, <1>11 DEF M

(* Everything the list holds after a batch it held before, or was adopted. *)
LEMMA BatchFiles ==
  ASSUME NEW L \in Levels, LiveList(L), NEW seq \in Nat, NEW b \in Bucket
  PROVE  /\ Named(AddToList(L, seq, b)) \cup InUse(AddToList(L, seq, b))
               \subseteq Named(L) \cup InUse(L) \cup Adopted(L, seq, b)
         /\ Adopted(L, seq, b) \subseteq Bucket \ {Empty}
         /\ LiveList(AddToList(L, seq, b))
  <1> DEFINE M == AddToList(L, seq, b)
             A == Adopted(L, seq, b)
             R == {resolve(L[i].next) : i \in {j \in Level \ {0} : levelShouldSpill(seq, j - 1)
                                                                   /\ isLive(L[j].next)}}
             K == Named(L) \cup InUse(L) \cup A \cup {Empty}
  <1>0. 0 \in Level
    BY BucketsAssumption DEF Level
  <1>1. M \in Levels
    BY AddFacts
  <1>2. A = ({LiveEntries(b), DeadEntries(b), Fresh(b), M[0].curr} \cup R) \ {Empty}
    BY Zenon DEF Adopted
  <1>3. M[0].curr \in Bucket /\ M[0].curr \in A \cup {Empty}
    <2>1. M[0].curr \in Bucket
      BY <1>0, <1>1 DEF Levels, LevelType
    <2> HIDE DEF M, A, R
    <2> QED
      BY <1>2, <2>1
  <1>4. \A i \in Level : L[i].curr \in Bucket /\ L[i].snap \in Bucket /\ L[i].next \in Future
    BY DEF Levels, LevelType
  <1>5. R \subseteq Bucket
    BY <1>4, ResolveType
  <1>6. A \subseteq Bucket \ {Empty}
    <2> HIDE DEF M, A, R
    <2> QED
      BY <1>2, <1>3, <1>5, FreshIsBatch
  <1>7. ASSUME NEW i \in Level, i > 0, levelShouldSpill(seq, i - 1), isLive(L[i].next)
        PROVE  resolve(L[i].next) \in A \cup {Empty}
    <2>1. resolve(L[i].next) \in R
      BY <1>7
    <2> HIDE DEF M, A, R
    <2> QED
      BY <1>2, <2>1
  <1>8. \A i \in Level : M[i].snap = SnapAfter(L, seq, i) /\ M[i].next = NextAfter(L, seq, i)
                         /\ (i # 0 => M[i].curr = CurrAfter(L, seq, i))
    BY AddFacts
  <1>9. \A i \in Level : L[i].curr \in K /\ L[i].snap \in K
    <2> HIDE DEF A, M, R
    <2> QED
      BY NamedHas
  <1>10. \A i \in Level : \A x \in Held(L[i].next) : x \in K
    <2> HIDE DEF A, M, R
    <2> QED
      BY InUseHas
  <1> HIDE DEF M, A, R, K
  <1>11. \A i \in Level : CurrAfter(L, seq, i) \in K
    <2>1. Empty \in K /\ A \subseteq K
      BY DEF K
    <2> QED
      BY <1>7, <1>9, <2>1 DEF CurrAfter
  <1>12. \A i \in Level : M[i].curr \in K /\ M[i].snap \in K
    <2>1. Empty \in K /\ A \subseteq K
      BY DEF K
    <2> QED
      BY <1>3, <1>8, <1>9, <1>11, <2>1 DEF SnapAfter
  <1>13. ASSUME NEW i \in Level PROVE \A x \in Held(NextAfter(L, seq, i)) : x \in K
    <2>1. CASE i > 0 /\ levelShouldSpill(seq, i - 1)
      <3> DEFINE c  == CurrToMerge(i, seq, CurrAfter(L, seq, i))
                 n  == L[i - 1].curr
                 sh == Shadows(L, i)
                 N  == LiveInputs(c, n, sh)
      <3>1. i - 1 \in Level /\ \A j \in 0 .. i - 2 : j \in Level
        BY <2>1, BucketsAssumption DEF Level
      <3>2. c \in Bucket /\ n \in Bucket /\ sh \in SUBSET Bucket
        BY <1>4, <3>1, AfterTypes, EmptyType, ShadowsType
      <3>3. c \in K /\ n \in K
        <4>1. Empty \in K
          BY DEF K
        <4> QED
          BY <1>9, <1>11, <3>1, <4>1 DEF CurrToMerge
      <3>4. \A x \in sh : x \in K
        BY <1>9, <3>1 DEF Shadows
      <3>5. NextAfter(L, seq, i) = N
        BY <2>1 DEF NextAfter
      <3> HIDE DEF c, n, sh
      <3>6. N.state = "LIVE_INPUTS" /\ N.curr = c /\ N.snap = n /\ N.shadows = sh /\ ~N.ready
        BY <3>2, LiveInputsFacts
      <3> HIDE DEF N
      <3>7. Held(N) = {c, n} \cup sh
        BY <3>6 DEF Held, isMerging
      <3> QED
        BY <3>3, <3>4, <3>5, <3>7
    <2>2. CASE ~(i > 0 /\ levelShouldSpill(seq, i - 1))
      BY <1>10, <2>2 DEF NextAfter
    <2> QED
      BY <2>1, <2>2
  <1>14. Named(M) \cup InUse(M) \subseteq K \ {Empty}
    BY <1>8, <1>12, <1>13, NamedHas, InUseHas
  <1>15. LiveList(M)
    BY <1>8, AfterTypes DEF LiveList
  <1> QED
    BY <1>6, <1>14, <1>15 DEF K, M, A

-----------------------------------------------------------------------------
(* The inductive invariant                                                 *)

(* The files: what the list in memory holds has its shared object and      *)
(* file; what the state just stored needs is still held until              *)
(* forgetUnreferencedBuckets ran, and retained from then on, but for the   *)
(* outputs of merges.                                                      *)
FilesInv ==
    /\ Named(mLevels) \cup InUse(mLevels) \subseteq shared
    /\ shared \subseteq files
    /\ OnlyOutputsLost
    /\ pc = "stored" => Needed(has.levels) \subseteq Named(mLevels) \cup InUse(mLevels)
    /\ pc = "idle" => Needed(has.levels) \ Outputs(has.levels) \subseteq retained

(* The lists: outside of a close the one in memory is the stored one, and  *)
(* the merges under way keep the entries.                                  *)
ListsInv ==
    /\ HashedList(has.levels)
    /\ pc # "added" => ledger = has.seq
    /\ pc \in {"idle", "stored"} => SameList(has.levels, mLevels)
    /\ pc # "down" => MergesSound(mLevels, ledger)
    /\ MergesSound(has.levels, has.seq)

BucketsInv == TypeOK /\ FilesInv /\ ListsInv

(* The state as the lemmas above need it.                                  *)
LEMMA TypeFacts ==
  ASSUME TypeOK
  PROVE  /\ mLevels \in Levels /\ LiveList(mLevels) /\ has.levels \in Levels
         /\ ledger \in Nat /\ has.seq \in Nat
  <1>1. mLevels \in Levels /\ has.levels \in Levels
    BY DEF TypeOK, Levels, LevelType
  <1>2. LiveList(mLevels)
    BY DEF TypeOK, LiveList
  <1> QED
    BY <1>1, <1>2, BucketsAssumption DEF TypeOK

(* and back.                                                               *)
LEMMA TypeBack ==
  ASSUME pc \in {"down", "idle", "added", "stored"},
         ledger \in 1 .. MaxLedger, has.seq \in 1 .. MaxLedger,
         delta \in Bucket, changes \in 0 .. MaxChanges, downs \in 0 .. MaxDowns,
         shared \subseteq Bucket \ {Empty}, retained \subseteq Bucket \ {Empty},
         files \subseteq Bucket \ {Empty},
         mLevels \in Levels, LiveList(mLevels),
         has.levels \in Levels, HashedList(has.levels)
  PROVE  TypeOK
  <1>1. \A i \in Level : ~isLive(has.levels[i].next)
    BY EmptyType DEF HashedList, HashedNext, isLive
  <1> QED
    BY <1>1 DEF TypeOK, LiveList, Levels, LevelType

LEMMA TypeNext ==
  ASSUME pc' \in {"down", "idle", "added", "stored"},
         ledger' \in 1 .. MaxLedger, has.seq' \in 1 .. MaxLedger,
         delta' \in Bucket, changes' \in 0 .. MaxChanges, downs' \in 0 .. MaxDowns,
         shared' \subseteq Bucket \ {Empty}, retained' \subseteq Bucket \ {Empty},
         files' \subseteq Bucket \ {Empty},
         mLevels' \in Levels, LiveList(mLevels'),
         has'.levels \in Levels, HashedList(has'.levels)
  PROVE  TypeOK'
  <1>1. \A i \in Level : ~isLive(has'.levels[i].next)
    BY EmptyType DEF HashedList, HashedNext, isLive
  <1> QED
    BY <1>1 DEF TypeOK, LiveList, Levels, LevelType

LEMMA BucketTypes ==
  ASSUME NEW L \in Levels
  PROVE  Named(L) \subseteq Bucket \ {Empty} /\ InUse(L) \subseteq Bucket \ {Empty}
         /\ Needed(L) \subseteq Bucket \ {Empty}
  <1>1. \A i \in Level : L[i].curr \in Bucket /\ L[i].snap \in Bucket /\ L[i].next \in Future
    BY DEF Levels, LevelType
  <1>2. ASSUME NEW n \in Future PROVE Held(n) \subseteq Bucket /\ SavedHashes(n) \subseteq Bucket
    BY ResolveType DEF Held, SavedHashes, Future
  <1>3. \A i \in Level : Held(L[i].next) \subseteq Bucket /\ SavedHashes(L[i].next) \subseteq Bucket
    BY <1>1, <1>2
  <1>4. ASSUME NEW x PROVE /\ x \in Named(L) => x \in Bucket \ {Empty}
                           /\ x \in InUse(L) => x \in Bucket \ {Empty}
                           /\ x \in Needed(L) => x \in Bucket \ {Empty}
    BY <1>1, <1>3, NamedHas, InUseHas, NeededHas
  <1> QED
    BY <1>4

LEMMA NewListFacts ==
  /\ NewList \in Levels /\ LiveList(NewList)
  /\ Named(NewList) = {} /\ InUse(NewList) = {}
  /\ MergesSound(NewList, 0)
  /\ \A k \in Keys : Newest(NewList, k) = None
  <1>1. \A i \in Level : /\ NewList[i].curr = Empty /\ NewList[i].snap = Empty
                         /\ NewList[i].next = Clear /\ NewList[i] \in LevelType
    BY EmptyType DEF NewList, LevelType
  <1>2. NewList \in Levels
    BY <1>1 DEF Levels, NewList
  <1>3. LiveList(NewList)
    BY <1>1 DEF LiveList
  <1>4. Held(Clear) = {}
    BY EmptyType DEF Held, isMerging
  <1>5. ASSUME NEW x PROVE x \notin Named(NewList) /\ x \notin InUse(NewList)
    BY <1>1, <1>4, NamedHas, InUseHas
  <1>6. MergesSound(NewList, 0)
    <2>1. \A i \in Level \ {0} : i - 1 \in Level
      BY BucketsAssumption DEF Level
    <2> QED
      BY <1>1, <2>1, EmptyType DEF MergesSound, MergeSound
  <1>7. ASSUME NEW k \in Keys PROVE Newest(NewList, k) = None
    <2>1. \A i \in Level : Upper(NewList[i], k) = None
      BY <1>1, EmptyAt DEF Upper
    <2> QED
      BY <2>1, NewestNone
  <1> QED
    BY <1>2, <1>3, <1>5, <1>6, <1>7

(* Nothing spills at the first ledger.                                     *)
LEMMA FirstLedger == \A i \in Level : ~levelShouldSpill(1, i)
  <1> DEFINE G == {i \in Nat : levelHalf(i) > 1}
  <1>1. 0 \in G
    BY HalfFacts, LevelSizeFacts
  <1>2. ASSUME NEW i \in Nat, i \in G PROVE i + 1 \in G
    BY <1>2, HalfFacts
  <1> HIDE DEF G
  <1>3. Nat \subseteq G
    BY <1>1, <1>2, NaturalsAreGood
  <1> SUFFICES ASSUME NEW i \in Level PROVE ~levelShouldSpill(1, i)
    OBVIOUS
  <1> DEFINE h == levelHalf(i)
  <1>4. i \in Nat
    BY BucketsAssumption DEF Level
  <1>5. h \in Nat \ {0} /\ h > 1
    BY <1>3, <1>4, HalfFacts DEF G
  <1>6. 1 % h = 1
    <2> HIDE DEF h
    <2>1. 1 = h * 0 + 1 /\ 1 \in 0 .. h - 1 /\ 0 \in Nat
      BY <1>5
    <2> QED
      BY <1>5, <2>1, DivModUnique
  <1> QED
    BY <1>6, SpillIff

(* startNewLedger leaves the genesis batch in the first curr.              *)
LEMMA FirstList ==
  LET L == AddToList(NewList, 1, Genesis)
  IN  /\ L \in Levels /\ LiveList(L) /\ MergesSound(L, 1)
      /\ L[0].curr = Genesis /\ Genesis \in Bucket \ {Empty}
      /\ \A i \in Level : /\ L[i].snap = Empty /\ L[i].next = Clear
                          /\ i # 0 => L[i].curr = Empty
      /\ EntriesOf(L) = Genesis
  <1> DEFINE L == AddToList(NewList, 1, Genesis)
  <1>1. Genesis \in Bucket /\ Genesis # Empty
    BY BucketsAssumption DEF Bucket, Entry
  <1>2. 0 \in Level /\ 0 + 1 = 1 /\ 0 \in Nat
    BY BucketsAssumption DEF Level
  <1>3. L \in Levels
    BY <1>1, NewListFacts, AddFacts
  <1>4. LiveList(L)
    BY <1>1, NewListFacts, BatchFiles
  <1>5. MergesSound(L, 1)
    <2>1. MergesSound(AddToList(NewList, 0 + 1, Genesis), 0 + 1)
      BY <1>1, <1>2, NewListFacts, BatchMerges
    <2> QED
      BY <2>1
  <1>6. \A i \in Level : /\ NewList[i].curr = Empty /\ NewList[i].snap = Empty
                         /\ NewList[i].next = Clear
    BY DEF NewList
  <1>7. ~isLive(Clear)
    BY EmptyType DEF isLive
  <1>8. \A i \in Level : /\ CurrAfter(NewList, 1, i) = Empty /\ SnapAfter(NewList, 1, i) = Empty
                         /\ NextAfter(NewList, 1, i) = Clear
    <2>1. \A i \in Level : i > 0 => i - 1 \in Level
      BY BucketsAssumption DEF Level
    <2> QED
      BY <1>6, <2>1, FirstLedger DEF CurrAfter, SnapAfter, NextAfter
  <1>9. L[0].curr = Merge(Empty, Genesis, {})
    BY <1>1, <1>2, <1>8, NewListFacts, AddFacts
  <1>10. L[0].curr = Genesis
    <2>1. \A k \in Keys : Merge(Empty, Genesis, {})[k] = Genesis[k]
      BY MergeAt, EmptyAt
    <2>2. Merge(Empty, Genesis, {}) = [k \in Keys |-> Merge(Empty, Genesis, {})[k]]
          /\ Genesis = [k \in Keys |-> Genesis[k]]
      BY <1>1 DEF Merge, Bucket
    <2> QED
      BY <1>9, <2>1, <2>2
  <1>11. \A i \in Level : /\ L[i].snap = Empty /\ L[i].next = Clear
                          /\ i # 0 => L[i].curr = Empty
    BY <1>1, <1>8, NewListFacts, AddFacts
  <1>12. EntriesOf(L) = Genesis
    <2>1. ASSUME NEW k \in Keys PROVE Newest(L, k) = Genesis[k]
      <3>1. Newest(AddToList(NewList, 0 + 1, Genesis), k) =
               IF Genesis[k] = None THEN Newest(NewList, k) ELSE Genesis[k]
        BY <1>1, <1>2, NewListFacts, BatchEntries
      <3> QED
        BY <3>1, NewListFacts
    <2>2. \A k \in Keys : Genesis[k] # Dead
      BY BucketsAssumption
    <2>3. Genesis = [k \in Keys |-> Genesis[k]]
      BY <1>1 DEF Bucket
    <2> HIDE DEF L
    <2> QED
      BY <2>1, <2>2, <2>3 DEF EntriesOf
  <1> QED
    BY <1>1, <1>3, <1>4, <1>5, <1>10, <1>11, <1>12

LEMMA InitInv == Init => BucketsInv
  <1> SUFFICES ASSUME Init PROVE BucketsInv
    OBVIOUS
  <1> DEFINE L == AddToList(NewList, 1, Genesis)
             A == Adopted(NewList, 1, Genesis)
  <1>1. /\ pc = "idle" /\ ledger = 1 /\ delta = Empty /\ mLevels = L /\ shared = A
        /\ retained = {mLevels[0].curr} /\ files = shared /\ has.seq = 1
        /\ has.levels = Saved(mLevels) /\ changes = 0 /\ downs = 0
    BY DEF Init
  <1>2. /\ L \in Levels /\ LiveList(L) /\ MergesSound(L, 1)
        /\ L[0].curr = Genesis /\ Genesis \in Bucket \ {Empty}
        /\ \A i \in Level : /\ L[i].snap = Empty /\ L[i].next = Clear
                            /\ i # 0 => L[i].curr = Empty
    BY FirstList
  <1>3. A \subseteq Bucket \ {Empty} /\ Named(L) \cup InUse(L) \subseteq A
    <2>1. Named(L) \cup InUse(L) \subseteq Named(NewList) \cup InUse(NewList) \cup A
          /\ A \subseteq Bucket \ {Empty}
      BY <1>2, NewListFacts, BatchFiles
    <2> QED
      BY <2>1, NewListFacts
  <1> HIDE DEF L, A
  <1>4. /\ Saved(L) \in Levels /\ HashedList(Saved(L)) /\ SameList(L, Saved(L))
        /\ Needed(Saved(L)) \subseteq Named(L) \cup InUse(L)
    BY <1>2, SavedFacts
  <1>5. TypeOK
    BY <1>1, <1>2, <1>3, <1>4, TypeBack, EmptyType, BucketsAssumption
  <1>6. Named(L) \cup InUse(L) \subseteq {L[0].curr}
    <2>1. Held(Clear) = {}
      BY EmptyType DEF Held, isMerging
    <2>2. ASSUME NEW x, x \in Named(L) \cup InUse(L) PROVE x = L[0].curr
      BY <1>2, <2>1, <2>2, NamedHas, InUseHas
    <2> QED
      BY <2>2
  <1>7. FilesInv
    BY <1>1, <1>3, <1>4, <1>6 DEF FilesInv, OnlyOutputsLost
  <1>8. ListsInv
    BY <1>1, <1>2, <1>4, SameSym, SameMerges DEF ListsInv
  <1> QED
    BY <1>5, <1>7, <1>8 DEF BucketsInv

LEMMA AddBatchInv ==
  ASSUME BucketsInv, NEW b \in Batches, AddBatch(b)
  PROVE  BucketsInv'
  <1> DEFINE L == mLevels
             M == AddToList(L, ledger + 1, b)
             A == Adopted(L, ledger + 1, b)
  <1>1. TypeOK /\ FilesInv /\ ListsInv
    BY DEF BucketsInv
  <1>2. L \in Levels /\ LiveList(L) /\ has.levels \in Levels /\ ledger \in Nat
    BY <1>1, TypeFacts
  <1>3. b \in Bucket
    BY BucketsAssumption
  <1>4. /\ pc = "idle" /\ ledger < MaxLedger /\ ledger' = ledger + 1 /\ delta' = b
        /\ mLevels' = M /\ shared' = shared \cup A /\ files' = files \cup A /\ pc' = "added"
        /\ retained' = retained /\ has' = has /\ downs' = downs
    BY DEF AddBatch
  <1>5. changes' \in 0 .. MaxChanges
    BY <1>1, BucketsAssumption DEF AddBatch, TypeOK
  <1>6. M \in Levels /\ LiveList(M)
        /\ Named(M) \cup InUse(M) \subseteq Named(L) \cup InUse(L) \cup A
        /\ A \subseteq Bucket \ {Empty}
    <2>1. M \in Levels
      BY <1>2, <1>3, AddFacts
    <2>2. ledger + 1 \in Nat
      BY <1>2
    <2> QED
      BY <1>2, <1>3, <2>1, <2>2, BatchFiles
  <1>7. MergesSound(M, ledger + 1)
    BY <1>1, <1>2, <1>3, <1>4, BatchMerges DEF ListsInv
  <1> HIDE DEF M, A
  <1>8. TypeOK'
    <2>1. ledger' \in 1 .. MaxLedger
      BY <1>1, <1>2, <1>4, BucketsAssumption DEF TypeOK
    <2>2. shared' \subseteq Bucket \ {Empty} /\ files' \subseteq Bucket \ {Empty}
          /\ retained' \subseteq Bucket \ {Empty}
      BY <1>1, <1>4, <1>6 DEF TypeOK
    <2> QED
      BY <1>1, <1>2, <1>3, <1>4, <1>5, <1>6, <2>1, <2>2, TypeNext DEF TypeOK, ListsInv
  <1>9. FilesInv'
    <2>1. Named(M) \cup InUse(M) \subseteq shared \cup A
      BY <1>1, <1>6 DEF FilesInv
    <2>2. Needed(has.levels) \ (files \cup A) \subseteq Outputs(has.levels)
      BY <1>1 DEF FilesInv, OnlyOutputsLost
    <2> QED
      BY <1>1, <1>4, <2>1, <2>2 DEF FilesInv, OnlyOutputsLost
  <1>10. ListsInv'
    BY <1>1, <1>4, <1>7 DEF ListsInv
  <1> QED
    BY <1>8, <1>9, <1>10 DEF BucketsInv

LEMMA CommitInv ==
  ASSUME BucketsInv, CommitLedger
  PROVE  BucketsInv'
  <1>1. TypeOK /\ FilesInv /\ ListsInv
    BY DEF BucketsInv
  <1>2. mLevels \in Levels /\ LiveList(mLevels) /\ ledger \in Nat
    BY <1>1, TypeFacts
  <1>3. /\ pc = "added" /\ has'.seq = ledger /\ has'.levels = Saved(mLevels)
        /\ delta' = Empty /\ pc' = "stored" /\ ledger' = ledger /\ mLevels' = mLevels
        /\ shared' = shared /\ retained' = retained /\ files' = files
        /\ changes' = changes /\ downs' = downs
    BY DEF CommitLedger
  <1>4. /\ Saved(mLevels) \in Levels /\ HashedList(Saved(mLevels))
        /\ SameList(mLevels, Saved(mLevels))
        /\ Needed(Saved(mLevels)) \subseteq Named(mLevels) \cup InUse(mLevels)
    BY <1>2, SavedFacts
  <1>5. TypeOK'
    BY <1>1, <1>2, <1>3, <1>4, EmptyType, TypeNext DEF TypeOK
  <1>6. FilesInv'
    BY <1>1, <1>3, <1>4 DEF FilesInv, OnlyOutputsLost
  <1>7. ListsInv'
    <2>1. MergesSound(mLevels, ledger)
      BY <1>1, <1>3 DEF ListsInv
    <2>2. MergesSound(Saved(mLevels), ledger)
      BY <1>4, <2>1, SameMerges
    <2> QED
      BY <1>3, <1>4, <2>1, <2>2, SameSym DEF ListsInv
  <1> QED
    BY <1>5, <1>6, <1>7 DEF BucketsInv

LEMMA ForgetInv ==
  ASSUME BucketsInv, ForgetUnreferencedBuckets
  PROVE  BucketsInv'
  <1> DEFINE H == Named(mLevels) \cup InUse(mLevels)
  <1>1. TypeOK /\ FilesInv /\ ListsInv
    BY DEF BucketsInv
  <1>2. mLevels \in Levels /\ LiveList(mLevels) /\ has.levels \in Levels
    BY <1>1, TypeFacts
  <1>3. /\ pc = "stored" /\ pc' = "idle" /\ ledger' = ledger /\ delta' = delta
        /\ mLevels' = mLevels /\ has' = has /\ changes' = changes /\ downs' = downs
        /\ shared' = shared \cap H /\ retained' = shared \cap H
        /\ files' = files \ (shared \ (shared \cap H))
    BY DEF ForgetUnreferencedBuckets, Forget
  <1>4. H \subseteq shared /\ shared \subseteq files /\ Needed(has.levels) \subseteq H
    BY <1>1, <1>3 DEF FilesInv
  <1>5. shared' = H /\ retained' = H /\ H \subseteq files' /\ files' \subseteq files
    <2> HIDE DEF H
    <2> QED
      BY <1>3, <1>4
  <1>6. shared' \subseteq Bucket \ {Empty} /\ retained' \subseteq Bucket \ {Empty}
        /\ files' \subseteq Bucket \ {Empty}
    BY <1>1, <1>4, <1>5 DEF TypeOK
  <1>7. TypeOK'
    BY <1>1, <1>2, <1>3, <1>6, TypeNext DEF TypeOK, ListsInv
  <1>8. FilesInv'
    <2>1. H' = H
      BY <1>3
    <2> QED
      BY <1>3, <1>4, <1>5, <2>1 DEF FilesInv, OnlyOutputsLost
  <1>9. ListsInv'
    BY <1>1, <1>3 DEF ListsInv
  <1> QED
    BY <1>7, <1>8, <1>9 DEF BucketsInv

LEMMA WorkerInv ==
  ASSUME BucketsInv, NEW i \in Level, WorkerMerges(i)
  PROVE  BucketsInv'
  <1> DEFINE L == mLevels
             M == [mLevels EXCEPT ![i].next.ready = TRUE]
             o == {resolve(mLevels[i].next)} \ {Empty}
  <1>1. TypeOK /\ FilesInv /\ ListsInv
    BY DEF BucketsInv
  <1>2. L \in Levels /\ LiveList(L) /\ has.levels \in Levels
    BY <1>1, TypeFacts
  <1>3. /\ pc # "down" /\ isMerging(L[i].next) /\ ~L[i].next.ready /\ mLevels' = M
        /\ shared' = shared \cup o /\ files' = files \cup o
        /\ pc' = pc /\ ledger' = ledger /\ delta' = delta /\ retained' = retained
        /\ has' = has /\ changes' = changes /\ downs' = downs
    BY DEF WorkerMerges
  <1>4. /\ M \in Levels /\ LiveList(M) /\ SameList(L, M)
        /\ Named(M) = Named(L)
        /\ InUse(M) = InUse(L) \cup o
    BY <1>2, <1>3, WorkerFacts
  <1>5. o \subseteq Bucket \ {Empty}
    BY <1>2, ResolveType DEF Levels, LevelType
  <1> HIDE DEF M, o
  <1>6. TypeOK'
    BY <1>1, <1>2, <1>3, <1>4, <1>5, TypeNext DEF TypeOK, ListsInv
  <1>7. FilesInv'
    BY <1>1, <1>3, <1>4 DEF FilesInv, OnlyOutputsLost
  <1>8. ListsInv'
    <2>1. MergesSound(M, ledger)
      BY <1>1, <1>3, <1>4, SameMerges DEF ListsInv
    <2>2. pc \in {"idle", "stored"} => SameList(has.levels, M)
      BY <1>1, <1>4, SameTrans DEF ListsInv
    <2> QED
      BY <1>1, <1>3, <2>1, <2>2 DEF ListsInv
  <1> QED
    BY <1>6, <1>7, <1>8 DEF BucketsInv

(* The process ends, whatever becomes of the files.                        *)
LEMMA GoesInv ==
  ASSUME BucketsInv, Goes, files' \subseteq Bucket \ {Empty},
         Needed(has.levels) \ files' \subseteq Outputs(has.levels)
  PROVE  BucketsInv'
  <1>1. TypeOK /\ FilesInv /\ ListsInv
    BY DEF BucketsInv
  <1>2. has.levels \in Levels
    BY <1>1, TypeFacts
  <1>3. /\ downs < MaxDowns /\ downs' = downs + 1 /\ pc' = "down" /\ mLevels' = NewList
        /\ ledger' = has.seq /\ delta' = Empty /\ shared' = {} /\ retained' = {}
        /\ has' = has /\ changes' = changes
    BY DEF Goes
  <1>4. downs' \in 0 .. MaxDowns
    BY <1>1, <1>3, BucketsAssumption DEF TypeOK
  <1>5. TypeOK'
    BY <1>1, <1>2, <1>3, <1>4, EmptyType, NewListFacts, TypeNext DEF TypeOK, ListsInv
  <1>6. FilesInv'
    BY <1>3, NewListFacts DEF FilesInv, OnlyOutputsLost
  <1>7. ListsInv'
    BY <1>1, <1>3 DEF ListsInv
  <1> QED
    BY <1>5, <1>6, <1>7 DEF BucketsInv

LEMMA CrashInv ==
  ASSUME BucketsInv, Crash
  PROVE  BucketsInv'
  <1>1. Goes /\ files' = files
    BY DEF Crash
  <1>2. /\ files' \subseteq Bucket \ {Empty}
        /\ Needed(has.levels) \ files' \subseteq Outputs(has.levels)
    BY <1>1 DEF BucketsInv, TypeOK, FilesInv, OnlyOutputsLost
  <1> QED
    BY <1>1, <1>2, GoesInv

LEMMA StopInv ==
  ASSUME BucketsInv, Stop
  PROVE  BucketsInv'
  <1> DEFINE R == {resolve(mLevels[i].next) : i \in {j \in Level : isMerging(mLevels[j].next)}}
             o == R \ {Empty}
  <1>1. pc = "idle" /\ Goes /\ files' = (files \cup o) \ ((shared \cup o) \ retained)
    BY DEF Stop
  <1>2. R \subseteq Bucket
    BY ResolveType, TypeFacts DEF BucketsInv, Levels, LevelType
  <1> HIDE DEF R
  <1>3. files' \subseteq Bucket \ {Empty}
    BY <1>1, <1>2 DEF BucketsInv, TypeOK
  <1> HIDE DEF o
  <1>4. Needed(has.levels) \ files' \subseteq Outputs(has.levels)
    BY <1>1 DEF BucketsInv, FilesInv, OnlyOutputsLost
  <1> QED
    BY <1>1, <1>3, <1>4, GoesInv

(* What a start retains: all but outputs of merges.                        *)
LEMMA RetainedFacts ==
  ASSUME NEW L \in Levels, HashedList(L)
  PROVE  RetainedFrom(L) \subseteq Needed(L) /\ Needed(L) \ Outputs(L) \subseteq RetainedFrom(L)
  <1> DEFINE J == {j \in Level : L[j].next.state = "HASH_INPUTS"}
             U == UNION {SavedHashes(L[i].next) : i \in J}
  <1>1. RetainedFrom(L) = Named(L) \cup (U \ {Empty})
    BY Zenon DEF RetainedFrom
  <1>2. \A x : x \in U <=> \E i \in J : x \in SavedHashes(L[i].next)
    BY Zenon
  <1> HIDE DEF U
  <1>3. ASSUME NEW x \in RetainedFrom(L) PROVE x \in Needed(L)
    BY <1>1, <1>2, NeededHas
  <1>4. ASSUME NEW x \in Needed(L), x \notin Outputs(L) PROVE x \in RetainedFrom(L)
    <2>1. CASE x \in Named(L)
      BY <1>1, <2>1
    <2>2. CASE x \notin Named(L)
      <3>1. x # Empty
        BY <2>2, NeededHas
      <3>2. PICK i \in Level : x \in SavedHashes(L[i].next)
        BY <2>2, NeededHas
      <3>3. L[i].next.state = "HASH_INPUTS"
        <4>1. L[i].next.state # "HASH_OUTPUT"
          BY <1>4, <3>1, <3>2 DEF SavedHashes, Outputs
        <4> QED
          BY <3>2, <4>1 DEF SavedHashes
      <3> QED
        BY <1>1, <1>2, <3>1, <3>2, <3>3
    <2> QED
      BY <2>1, <2>2
  <1> QED
    BY <1>3, <1>4

LEMMA StartInv ==
  ASSUME BucketsInv, Start
  PROVE  BucketsInv'
  <1> DEFINE M == Loaded(has.levels)
  <1>1. TypeOK /\ FilesInv /\ ListsInv
    BY DEF BucketsInv
  <1>2. has.levels \in Levels /\ HashedList(has.levels)
    BY <1>1, TypeFacts DEF ListsInv
  <1>3. /\ pc = "down" /\ Needed(has.levels) \subseteq files /\ mLevels' = M
        /\ ledger' = has.seq /\ shared' = Needed(has.levels)
        /\ retained' = RetainedFrom(has.levels) /\ pc' = "idle"
        /\ delta' = delta /\ files' = files /\ has' = has /\ changes' = changes /\ downs' = downs
    BY DEF Start, ListFrom
  <1>4. /\ M \in Levels /\ LiveList(M) /\ SameList(has.levels, M)
        /\ Named(M) \cup InUse(M) = Needed(has.levels)
    BY <1>2, LoadedFacts
  <1> HIDE DEF M
  <1>5. /\ RetainedFrom(has.levels) \subseteq Needed(has.levels)
        /\ Needed(has.levels) \ Outputs(has.levels) \subseteq RetainedFrom(has.levels)
        /\ Needed(has.levels) \subseteq Bucket \ {Empty}
    BY <1>2, RetainedFacts, BucketTypes
  <1>6. TypeOK'
    BY <1>1, <1>2, <1>3, <1>4, <1>5, TypeNext DEF TypeOK
  <1>7. FilesInv'
    BY <1>1, <1>3, <1>4, <1>5 DEF FilesInv, OnlyOutputsLost
  <1>8. ListsInv'
    <2>1. MergesSound(M, has.seq)
      BY <1>1, <1>4, SameMerges DEF ListsInv
    <2> QED
      BY <1>1, <1>3, <1>4, <2>1 DEF ListsInv
  <1> QED
    BY <1>6, <1>7, <1>8 DEF BucketsInv

LEMMA RepairInv ==
  ASSUME BucketsInv, Repair
  PROVE  BucketsInv'
  <1>1. TypeOK /\ FilesInv /\ ListsInv
    BY DEF BucketsInv
  <1>2. has.levels \in Levels /\ mLevels \in Levels /\ LiveList(mLevels)
    BY <1>1, TypeFacts
  <1>3. /\ pc = "down" /\ files' = files \cup Needed(has.levels)
        /\ UNCHANGED <<pc, ledger, delta, mLevels, shared, retained, has, changes, downs>>
    BY DEF Repair
  <1>4. Needed(has.levels) \subseteq Bucket \ {Empty}
    BY <1>2, BucketTypes
  <1>5. TypeOK'
    BY <1>1, <1>2, <1>3, <1>4, TypeNext DEF TypeOK, ListsInv
  <1>6. FilesInv'
    BY <1>1, <1>3 DEF FilesInv, OnlyOutputsLost
  <1>7. ListsInv'
    BY <1>1, <1>3 DEF ListsInv
  <1> QED
    BY <1>5, <1>6, <1>7 DEF BucketsInv

LEMMA StepInv == BucketsInv /\ [Next]_vars => BucketsInv'
  <1> SUFFICES ASSUME BucketsInv, [Next]_vars PROVE BucketsInv'
    OBVIOUS
  <1>1. CASE \E b \in Batches : AddBatch(b)
    BY <1>1, AddBatchInv
  <1>2. CASE CommitLedger
    BY <1>2, CommitInv
  <1>3. CASE ForgetUnreferencedBuckets
    BY <1>3, ForgetInv
  <1>4. CASE \E i \in Level : WorkerMerges(i)
    BY <1>4, WorkerInv
  <1>5. CASE Crash
    BY <1>5, CrashInv
  <1>6. CASE Stop
    BY <1>6, StopInv
  <1>7. CASE Start
    BY <1>7, StartInv
  <1>8. CASE Repair
    BY <1>8, RepairInv
  <1>9. CASE UNCHANGED vars
    BY <1>9 DEF vars, BucketsInv, TypeOK, FilesInv, ListsInv, OnlyOutputsLost
  <1> QED
    BY <1>1, <1>2, <1>3, <1>4, <1>5, <1>6, <1>7, <1>8, <1>9 DEF Next

LEMMA AlwaysInv == Spec => []BucketsInv
  BY InitInv, StepInv, PTL DEF Spec

(* FilesAreThere for every number of levels and every sequence of batches, *)
(* merges, garbage collections, crashes, stops and starts                  *)
(* (BucketManagerImpl::forgetUnreferencedBuckets, ~Bucket,                 *)
(* LedgerManagerImpl::loadLastKnownLedger).                                *)
THEOREM FilesStay == Spec => []FilesAreThere
  <1>1. BucketsInv => FilesAreThere
    BY DEF BucketsInv, FilesInv, FilesAreThere, ListHasFiles
  <1> QED
    BY <1>1, AlwaysInv, PTL

-----------------------------------------------------------------------------
(* The two views of the list as a durable store                            *)

(* What the steps do to the list that counts: the one in memory, or, while *)
(* the process is down, the stored one.                                    *)
CurSeq == Current.seq
CurLevels == Current.levels

LEMMA CurrentIs ==
  /\ CurSeq = IF pc = "down" THEN has.seq ELSE ledger
  /\ CurLevels = IF pc = "down" THEN has.levels ELSE mLevels
  BY DEF CurSeq, CurLevels, Current

LEMMA CurrentIsNext ==
  /\ CurSeq' = IF pc' = "down" THEN has'.seq ELSE ledger'
  /\ CurLevels' = IF pc' = "down" THEN has'.levels ELSE mLevels'
  BY DEF CurSeq, CurLevels, Current

(* Every step adds a batch to a list that is stored, stores the list, goes *)
(* back to the stored one, or leaves both the same but for how far their   *)
(* merges are.                                                             *)
Adds ==
    \E b \in Batches :
        /\ pc = "idle" /\ delta' = b
        /\ CurSeq = has.seq /\ SameList(has.levels, CurLevels)
        /\ CurLevels = mLevels /\ MergesSound(CurLevels, CurSeq)
        /\ CurSeq' = CurSeq + 1 /\ CurLevels' = AddToList(CurLevels, CurSeq + 1, b)
        /\ has'.seq = has.seq /\ has'.levels = has.levels
Stores ==
    /\ has'.seq = CurSeq /\ SameList(CurLevels, has'.levels)
    /\ CurSeq' = CurSeq /\ CurLevels' = CurLevels
GoesBack ==
    /\ CurSeq' = has.seq /\ CurLevels' = has.levels
    /\ has'.seq = has.seq /\ has'.levels = has.levels
Keeps ==
    /\ CurSeq' = CurSeq /\ SameList(CurLevels, CurLevels')
    /\ has'.seq = has.seq /\ has'.levels = has.levels

LEMMA SameRefl == \A L : SameList(L, L)
  BY DEF SameList, SameNext

LEMMA Steps ==
  ASSUME BucketsInv, [Next]_vars
  PROVE  Adds \/ Stores \/ GoesBack \/ Keeps
  <1>0. TypeOK /\ ListsInv /\ mLevels \in Levels /\ LiveList(mLevels) /\ has.levels \in Levels
    BY TypeFacts DEF BucketsInv
  <1>1. ASSUME NEW b \in Batches, AddBatch(b) PROVE Adds
    <2>1. /\ pc = "idle" /\ pc' = "added" /\ delta' = b /\ ledger' = ledger + 1 /\ has' = has
          /\ mLevels' = AddToList(mLevels, ledger + 1, b)
      BY <1>1 DEF AddBatch
    <2>2. CurSeq = ledger /\ CurLevels = mLevels /\ CurSeq' = ledger' /\ CurLevels' = mLevels'
      BY <2>1, CurrentIs, CurrentIsNext
    <2>3. ledger = has.seq /\ SameList(has.levels, mLevels) /\ MergesSound(mLevels, ledger)
      BY <1>0, <2>1 DEF ListsInv
    <2> QED
      BY <2>1, <2>2, <2>3 DEF Adds
  <1>2. CASE CommitLedger
    <2>1. /\ pc = "added" /\ pc' = "stored" /\ has'.seq = ledger /\ has'.levels = Saved(mLevels)
          /\ ledger' = ledger /\ mLevels' = mLevels
      BY <1>2 DEF CommitLedger
    <2>2. CurSeq = ledger /\ CurLevels = mLevels /\ CurSeq' = ledger' /\ CurLevels' = mLevels'
      BY <2>1, CurrentIs, CurrentIsNext
    <2> QED
      BY <1>0, <2>1, <2>2, SavedFacts DEF Stores
  <1>3. CASE ForgetUnreferencedBuckets
    <2>1. pc # "down" /\ pc' # "down" /\ ledger' = ledger /\ mLevels' = mLevels /\ has' = has
      BY <1>3 DEF ForgetUnreferencedBuckets
    <2> QED
      BY <2>1, CurrentIs, CurrentIsNext, SameRefl DEF Keeps
  <1>4. ASSUME NEW i \in Level, WorkerMerges(i) PROVE Keeps
    <2>1. /\ pc # "down" /\ pc' # "down" /\ ledger' = ledger /\ has' = has
          /\ isMerging(mLevels[i].next) /\ ~mLevels[i].next.ready
          /\ mLevels' = [mLevels EXCEPT ![i].next.ready = TRUE]
      BY <1>4 DEF WorkerMerges
    <2>2. SameList(mLevels, mLevels')
      BY <1>0, <2>1, WorkerFacts
    <2> QED
      BY <2>1, <2>2, CurrentIs, CurrentIsNext DEF Keeps
  <1>5. CASE Goes
    <2>1. pc' = "down" /\ has' = has
      BY <1>5 DEF Goes
    <2> QED
      BY <2>1, CurrentIsNext DEF GoesBack
  <1>6. CASE Start
    <2>1. pc = "down" /\ pc' = "idle" /\ ledger' = has.seq /\ mLevels' = Loaded(has.levels)
          /\ has' = has
      BY <1>6 DEF Start, ListFrom
    <2>2. SameList(has.levels, Loaded(has.levels))
      BY <1>0, LoadedFacts DEF ListsInv
    <2> QED
      BY <2>1, <2>2, CurrentIs, CurrentIsNext DEF Keeps
  <1>7. CASE Repair \/ UNCHANGED vars
    <2>1. pc' = pc /\ ledger' = ledger /\ mLevels' = mLevels /\ has' = has
      BY <1>7 DEF Repair, vars
    <2> QED
      BY <2>1, CurrentIs, CurrentIsNext, SameRefl DEF Keeps
  <1> QED
    BY <1>1, <1>2, <1>3, <1>4, <1>5, <1>6, <1>7 DEF Next, Crash, Stop

(* The list is a function of the batches (ImplementsList): whatever the    *)
(* pace of the merges and wherever the process ends, the list, and so its  *)
(* hash, is the one that adding the same batches to settled lists gives    *)
(* (BucketList::addBatch, FutureBucket::makeLive).                         *)
THEOREM ListRefines == Spec => ImplementsList
  <1> DEFINE mem  == [seq |-> Current.seq, state |-> Settled(Current.levels)]
             disk == [seq |-> has.seq, state |-> Settled(has.levels)]
  <1>1. Init => ListStore!Init
    <2> SUFFICES ASSUME Init PROVE ListStore!Init
      OBVIOUS
    <2>1. /\ pc = "idle" /\ ledger = 1 /\ mLevels = AddToList(NewList, 1, Genesis)
          /\ has.seq = 1 /\ has.levels = Saved(mLevels)
      BY DEF Init
    <2>2. Current.seq = 1 /\ Current.levels = mLevels
      BY <2>1 DEF Current
    <2>3. Settled(Saved(mLevels)) = Settled(mLevels)
      BY <2>1, FirstList, SavedFacts, SameSettled
    <2> QED
      BY <2>1, <2>2, <2>3 DEF ListStore!Init
  <1>2. BucketsInv /\ [Next]_vars => [ListStore!Next]_<<mem, disk>>
    <2> SUFFICES ASSUME BucketsInv, [Next]_vars PROVE [ListStore!Next]_<<mem, disk>>
      OBVIOUS
    <2>0. mLevels \in Levels /\ LiveList(mLevels) /\ has.levels \in Levels
      BY TypeFacts DEF BucketsInv
    <2>1. /\ mem = [seq |-> CurSeq, state |-> Settled(CurLevels)]
          /\ mem' = [seq |-> CurSeq', state |-> Settled(CurLevels')]
          /\ disk' = [seq |-> has'.seq, state |-> Settled(has'.levels)]
      BY DEF CurSeq, CurLevels
    <2>2. CASE Adds
      <3>1. PICK b \in Batches :
              /\ pc = "idle" /\ delta' = b
              /\ CurSeq = has.seq /\ SameList(has.levels, CurLevels)
              /\ CurLevels = mLevels /\ MergesSound(CurLevels, CurSeq)
              /\ CurSeq' = CurSeq + 1 /\ CurLevels' = AddToList(CurLevels, CurSeq + 1, b)
              /\ has'.seq = has.seq /\ has'.levels = has.levels
        BY <2>2 DEF Adds
      <3>2. mem = disk
        BY <2>1, <3>1, SameSettled
      <3>3. /\ Settled(CurLevels) \in Levels /\ LiveList(Settled(CurLevels))
            /\ SameList(CurLevels, Settled(CurLevels))
        BY <2>0, <3>1, SettledFacts
      <3>4. b \in Bucket
        BY BucketsAssumption
      <3>5. SameList(AddToList(CurLevels, CurSeq + 1, b),
                     AddToList(Settled(CurLevels), CurSeq + 1, b))
        BY <2>0, <3>1, <3>3, <3>4, SameAfter
      <3>6. Settled(CurLevels') = Settled(AddToList(Settled(CurLevels), CurSeq + 1, b))
        BY <3>1, <3>5, SameSettled
      <3>7. mem.seq = CurSeq /\ mem.state = Settled(CurLevels)
        BY <2>1
      <3>8. mem' = [seq |-> mem.seq + 1, state |-> ApplyToList(mem, delta')]
        BY <2>1, <3>1, <3>6, <3>7 DEF ApplyToList
      <3>9. disk' = disk
        BY <2>1, <3>1
      <3>10. ListStore!AddBatch
        BY <3>1, <3>2, <3>8, <3>9 DEF ListStore!AddBatch
      <3> QED
        BY <3>10 DEF ListStore!Next
    <2>3. CASE Stores
      <3>1. disk' = mem /\ mem' = mem
        BY <2>1, <2>3, SameSettled DEF Stores
      <3> QED
        BY <3>1 DEF ListStore!Next, ListStore!Commit
    <2>4. CASE GoesBack
      <3>1. mem' = disk /\ disk' = disk
        BY <2>1, <2>4 DEF GoesBack
      <3> QED
        BY <3>1 DEF ListStore!Next, ListStore!Restart
    <2>5. CASE Keeps
      BY <2>1, <2>5, SameSettled DEF Keeps
    <2> QED
      BY <2>2, <2>3, <2>4, <2>5, Steps
  <1> QED
    BY <1>1, <1>2, AlwaysInv, PTL DEF Spec, ImplementsList, ListStore!Spec

(* Adding a batch to the list adds it to the entries.                      *)
LEMMA BatchApplies ==
  ASSUME NEW L \in Levels, LiveList(L), NEW seq \in Nat, MergesSound(L, seq), NEW b \in Bucket,
         NEW m, m.state = EntriesOf(L)
  PROVE  EntriesOf(AddToList(L, seq + 1, b)) = ApplyToEntries(m, b)
  <1> DEFINE M == AddToList(L, seq + 1, b)
  <1>1. ASSUME NEW k \in Keys PROVE Newest(M, k) = IF b[k] = None THEN Newest(L, k) ELSE b[k]
    BY BatchEntries
  <1> HIDE DEF M
  <1>2. ASSUME NEW k \in Keys
        PROVE  (IF Newest(M, k) = Dead THEN None ELSE Newest(M, k)) =
               (IF b[k] = None THEN m.state[k] ELSE IF b[k] = Dead THEN None ELSE b[k])
    <2>1. m.state[k] = IF Newest(L, k) = Dead THEN None ELSE Newest(L, k)
      BY DEF EntriesOf
    <2> QED
      BY <1>1, <2>1
  <1>3. EntriesOf(M) = ApplyToEntries(m, b)
    BY <1>2 DEF EntriesOf, ApplyToEntries
  <1> QED
    BY <1>3 DEF M

(* The list stands for the entries the closed ledgers left                 *)
(* (ImplementsEntries): no spill, shadow, tombstone, merge or restart      *)
(* loses an entry, brings one back or makes an older one count             *)
(* (Bucket::merge, BucketList::addBatch).                                  *)
THEOREM EntriesRefine == Spec => ImplementsEntries
  <1> DEFINE mem  == [seq |-> Current.seq, state |-> EntriesOf(Current.levels)]
             disk == [seq |-> has.seq, state |-> EntriesOf(has.levels)]
  <1>1. Init => EntriesStore!Init
    <2> SUFFICES ASSUME Init PROVE EntriesStore!Init
      OBVIOUS
    <2>1. /\ pc = "idle" /\ ledger = 1 /\ mLevels = AddToList(NewList, 1, Genesis)
          /\ has.seq = 1 /\ has.levels = Saved(mLevels)
      BY DEF Init
    <2>2. Current.seq = 1 /\ Current.levels = mLevels
      BY <2>1 DEF Current
    <2>3. EntriesOf(Saved(mLevels)) = EntriesOf(mLevels)
      BY <2>1, FirstList, SavedFacts, SameEntries
    <2>4. EntriesOf(mLevels) = Genesis
      BY <2>1, FirstList
    <2> QED
      BY <2>1, <2>2, <2>3, <2>4 DEF EntriesStore!Init
  <1>2. BucketsInv /\ [Next]_vars => [EntriesStore!Next]_<<mem, disk>>
    <2> SUFFICES ASSUME BucketsInv, [Next]_vars PROVE [EntriesStore!Next]_<<mem, disk>>
      OBVIOUS
    <2>0. mLevels \in Levels /\ LiveList(mLevels) /\ has.seq \in Nat
      BY TypeFacts DEF BucketsInv
    <2>1. /\ mem = [seq |-> CurSeq, state |-> EntriesOf(CurLevels)]
          /\ mem' = [seq |-> CurSeq', state |-> EntriesOf(CurLevels')]
          /\ disk' = [seq |-> has'.seq, state |-> EntriesOf(has'.levels)]
      BY DEF CurSeq, CurLevels
    <2>2. CASE Adds
      <3>1. PICK b \in Batches :
              /\ pc = "idle" /\ delta' = b
              /\ CurSeq = has.seq /\ SameList(has.levels, CurLevels)
              /\ CurLevels = mLevels /\ MergesSound(CurLevels, CurSeq)
              /\ CurSeq' = CurSeq + 1 /\ CurLevels' = AddToList(CurLevels, CurSeq + 1, b)
              /\ has'.seq = has.seq /\ has'.levels = has.levels
        BY <2>2 DEF Adds
      <3>2. mem = disk
        BY <2>1, <3>1, SameEntries
      <3>3. b \in Bucket /\ CurSeq \in Nat
        BY <2>0, <3>1, BucketsAssumption
      <3>4. mem.seq = CurSeq /\ mem.state = EntriesOf(CurLevels)
        BY <2>1
      <3>5. EntriesOf(CurLevels') = ApplyToEntries(mem, b)
        <4> HIDE DEF mem
        <4> QED
          BY <2>0, <3>1, <3>3, <3>4, BatchApplies
      <3>6. mem' = [seq |-> mem.seq + 1, state |-> ApplyToEntries(mem, delta')]
        BY <2>1, <3>1, <3>4, <3>5
      <3>7. disk' = disk
        BY <2>1, <3>1
      <3>8. EntriesStore!AddBatch
        BY <3>1, <3>2, <3>6, <3>7 DEF EntriesStore!AddBatch
      <3> QED
        BY <3>8 DEF EntriesStore!Next
    <2>3. CASE Stores
      <3>1. disk' = mem /\ mem' = mem
        BY <2>1, <2>3, SameEntries DEF Stores
      <3> QED
        BY <3>1 DEF EntriesStore!Next, EntriesStore!Commit
    <2>4. CASE GoesBack
      <3>1. mem' = disk /\ disk' = disk
        BY <2>1, <2>4 DEF GoesBack
      <3> QED
        BY <3>1 DEF EntriesStore!Next, EntriesStore!Restart
    <2>5. CASE Keeps
      BY <2>1, <2>5, SameEntries DEF Keeps
    <2> QED
      BY <2>2, <2>3, <2>4, <2>5, Steps
  <1> QED
    BY <1>1, <1>2, AlwaysInv, PTL DEF Spec, ImplementsEntries, EntriesStore!Spec

-----------------------------------------------------------------------------
(* The catchup state machine.                                              *)

\* InProgressHasCallback of any file states fi and outstanding tasks ts.
HasCallback(f, fi, ts) ==
    IF fi[f] \in InProgress
    THEN \E t \in ts : /\ t.file = f /\ t.op = OpOf(fi[f])
                       /\ \A u \in ts : u.file = f => u = t
    ELSE \A t \in ts : t.file # f

Callbacks(fi, ts) == \A f \in Files : HasCallback(f, fi, ts)

\* A bucket that passed for verified has the content its hash names.
BucketsGood(fi, c) ==
    \A f \in BucketFiles : fi[f] = "VERIFIED" => c[f] = "good"

AllVerified(fi) == \A f \in Files : fi[f] \in {"absent", "VERIFIED"}

\* While files are fetched, and while a fetched set waits for consensus,
\* everything wanted is in mFileInfos; the waiting set is verified.
WantedQueued ==
    (mState \in {"FETCHING", "END"} \/ (mState = "RETRYING" /\ resume = "verify"))
        => Wanted \subseteq Queued(mFileInfos)
WaitsVerified ==
    (mState = "END" \/ (mState = "RETRYING" /\ resume = "verify"))
        => AllVerified(mFileInfos)

\* The inductive invariant.
IInv ==
    /\ CatchupTypeOK
    /\ Callbacks(mFileInfos, tasks)
    /\ BucketsGood(mFileInfos, content)
    /\ WantedQueued
    /\ WaitsVerified
    /\ EndIsSound


-----------------------------------------------------------------------------
(***************************************************************************)
(* What enterFetchingState does to the files.                              *)
(***************************************************************************)

\* Every file state has a next one; it is in progress only if the file was
\* in that state already or has just been given a task.
LEMMA AdvanceFacts ==
    ASSUME NEW f, NEW st \in FileStates
    PROVE  /\ Advance(f, st) \in FileStates
           /\ st \in InProgress \cup {"absent", "FAILED", "VERIFIED"}
                => Advance(f, st) = st
           /\ st \in {"NEEDED", "DOWNLOADED", "DECOMPRESSED"}
                => /\ Advance(f, st) # st
                   /\ Advance(f, st) \in InProgress \cup {"VERIFIED"}
           /\ (Advance(f, st) = "VERIFIED" /\ f \in BucketFiles)
                => st = "VERIFIED" \/ st = "NEEDED"
           /\ Advance(f, st) = "absent" <=> st = "absent"
BY DEF Advance, FileStates, InProgress

\* Every state in progress has the one kind of task that ends it.
LEMMA OpOfFacts ==
    ASSUME NEW st \in InProgress
    PROVE  OpOf(st) \in {"get", "gunzip", "verify"}
BY DEF OpOf, InProgress

\* The callbacks and the verified buckets survive a pass over the files.
LEMMA FetchFiles ==
    ASSUME CatchupTypeOK,
           NEW fi \in [Files -> FileStates],
           NEW c \in [Files -> Contents],
           NEW ts \in SUBSET Tasks, NEW count,
           Callbacks(fi, ts), BucketsGood(fi, c),
           EnterFetchingState(fi, c, ts, count)
    PROVE  /\ mFileInfos' \in [Files -> FileStates]
           /\ content' \in [Files -> Contents]
           /\ tasks' \in SUBSET Tasks
           /\ Callbacks(mFileInfos', tasks')
           /\ BucketsGood(mFileInfos', content')
           /\ Queued(mFileInfos') = Queued(fi)
           /\ Fetched(fi) => AllVerified(mFileInfos')
<1> DEFINE after(f) == Advance(f, fi[f])
           moved == {f \in Queued(fi) : after(f) # fi[f]}
           started == {f \in moved : after(f) # "VERIFIED"}
           new == {[file |-> f, op |-> OpOf(after(f)), arch |-> mArchive]
                     : f \in started}
<1>1. /\ mFileInfos' = [f \in Files |-> after(f)]
      /\ content' = [f \in Files |->
                       IF f \in moved /\ fi[f] = "NEEDED"
                          /\ after(f) = "VERIFIED" THEN "good" ELSE c[f]]
      /\ tasks' = ts \cup new
  BY DEF EnterFetchingState
<1>2. \A f \in Files : /\ fi[f] \in FileStates
                       /\ after(f) \in FileStates
                       /\ after(f) = "absent" <=> fi[f] = "absent"
  BY AdvanceFacts
<1>3. \A f \in started : /\ f \in Files
                         /\ fi[f] \in {"NEEDED", "DOWNLOADED", "DECOMPRESSED"}
                         /\ after(f) \in InProgress
  BY <1>2, AdvanceFacts DEF Queued, FileStates, InProgress
<1> HIDE DEF after, moved, started, new
<1>4. new \in SUBSET Tasks
  <2>1. \A f \in started : OpOf(after(f)) \in {"get", "gunzip", "verify"}
    BY <1>3, OpOfFacts
  <2> QED
    BY <2>1, <1>3 DEF new, Tasks, CatchupTypeOK
<1>5. /\ mFileInfos' \in [Files -> FileStates]
      /\ content' \in [Files -> Contents]
      /\ tasks' \in SUBSET Tasks
  <2>1. mFileInfos' \in [Files -> FileStates]
    BY <1>1, <1>2
  <2>2. \A f \in Files : c[f] \in Contents
    OBVIOUS
  <2>3. content' \in [Files -> Contents]
    BY <1>1, <2>2 DEF Contents
  <2> QED
    BY <2>1, <2>3, <1>1, <1>4
<1>6. Callbacks(mFileInfos', tasks')
  <2> SUFFICES ASSUME NEW f \in Files
               PROVE  HasCallback(f, mFileInfos', tasks')
    BY DEF Callbacks
  <2>1. mFileInfos'[f] = after(f) /\ HasCallback(f, fi, ts)
    BY <1>1 DEF Callbacks
  <2>2. CASE f \in started
    <3> DEFINE t == [file |-> f, op |-> OpOf(after(f)), arch |-> mArchive]
    <3>1. t \in tasks'
      BY <2>2, <1>1 DEF new
    <3>2. \A u \in ts : u.file # f
      BY <2>1, <2>2, <1>3 DEF HasCallback, InProgress
    <3>3. \A u \in new : u.file = f => u = t
      BY DEF new
    <3>4. t.file = f /\ t.op = OpOf(after(f))
      OBVIOUS
    <3> HIDE DEF t
    <3>5. \A u \in tasks' : u.file = f => u = t
      BY <3>2, <3>3, <1>1
    <3> QED
      BY <3>1, <3>4, <3>5, <2>1, <2>2, <1>3 DEF HasCallback
  <2>3. CASE f \notin started
    <3>1. \A u \in new : u.file # f
      BY <2>3 DEF new
    <3>2. /\ fi[f] \in InProgress => after(f) = fi[f]
          /\ fi[f] \notin InProgress => after(f) \notin InProgress
      BY <2>3, <1>2, AdvanceFacts DEF started, moved, after, Queued, InProgress
    <3> QED
      BY <3>1, <3>2, <2>1, <1>1 DEF HasCallback
  <2> QED
    BY <2>2, <2>3
<1>7. BucketsGood(mFileInfos', content')
  <2> SUFFICES ASSUME NEW f \in BucketFiles, after(f) = "VERIFIED"
               PROVE  content'[f] = "good"
    BY <1>1 DEF BucketsGood, Files
  <2>1. f \in Files /\ (fi[f] = "VERIFIED" \/ fi[f] = "NEEDED")
    BY <1>2, AdvanceFacts DEF Files, after
  <2>2. CASE fi[f] = "VERIFIED"
    BY <2>1, <2>2, <1>1 DEF BucketsGood
  <2>3. CASE fi[f] = "NEEDED"
    BY <2>1, <2>3, <1>1 DEF moved, Queued
  <2> QED
    BY <2>1, <2>2, <2>3
<1>8. Queued(mFileInfos') = Queued(fi)
  <2>1. \A f \in Files : mFileInfos'[f] = "absent" <=> fi[f] = "absent"
    BY <1>1, <1>2
  <2> QED
    BY <2>1 DEF Queued
<1>9. Fetched(fi) => AllVerified(mFileInfos')
  BY <1>1, <1>2 DEF Fetched, AllVerified, Queued, after
<1> QED
  BY <1>5, <1>6, <1>7, <1>8, <1>9

-----------------------------------------------------------------------------
(***************************************************************************)
(* Where the machine goes once the files are fetched.                      *)
(***************************************************************************)

ControlOK ==
    /\ mState \in {"BEGIN", "RETRYING", "FETCHING", "END"}
    /\ mRetryCount \in 0..(RetryLimit + 1)
    /\ mArchive \in Archives
    /\ resume \in {"begin", "anchor", "verify"}
    /\ crashed \in {"no", "assert", "throw"}

\* What verifying has made sure of when it says OK.
HeadersPass(c) ==
    mMode # "REPAIR" =>
        /\ consensus
        /\ HeaderContents(c) \cap {"none", "bad", "other"} = {}
        /\ mMode = "COMPLETE" => HeaderContents(c) \subseteq {"good"}

\* enterVerifyingState and what it runs into: the machine ends only past
\* every check of its mode, and never goes back to fetching.
LEMMA VerifyControl ==
    ASSUME ControlOK, mMode \in Modes, NEW c, NEW count \in 0..(RetryLimit + 1),
           mState # "END", EnterVerifyingState(c, count)
    PROVE  /\ ControlOK'
           /\ mState' = "FETCHING" => mState = "FETCHING"
           /\ mState' = "END" => AllGood(TxFiles, c) /\ HeadersPass(c)
<1>1. PICK status \in VerifyStatus(HeaderContents(c)) :
        \/ status = "OK" /\ EnterApplyingState(c, count)
        \/ status = "BAD" /\ EnterBeginState
        \/ status = "UNKNOWN" /\ EnterRetryingState("verify", count)
        \/ status = "throw" /\ Throw
  BY DEF EnterVerifyingState
<1>2. CASE status = "OK" /\ EnterApplyingState(c, count)
  <2>1. ASSUME NEW right \in BOOLEAN, verifyCatchupCandidate(right) = "OK"
        PROVE  right /\ consensus
    BY <2>1 DEF verifyCatchupCandidate
  <2>2. HeadersPass(c)
    <3> DEFINE hc == HeaderContents(c)
    <3>1. CASE mMode = "COMPLETE"
      <4>1. /\ "OK" = verifyCatchupCandidate("other" \notin hc)
            /\ hc \subseteq {"good", "other"}
        BY <1>1, <1>2, <3>1 DEF VerifyStatus
      <4> QED
        BY <2>1, <4>1 DEF HeadersPass
    <3>2. CASE mMode = "MINIMAL"
      <4>1. hc \cap {"none", "bad"} = {} /\ "OK" = verifyCatchupCandidate("other" \notin hc)
        BY <1>1, <1>2, <3>2 DEF VerifyStatus, Unreadable
      <4> QED
        BY <2>1, <3>2, <4>1 DEF HeadersPass
    <3>3. CASE mMode = "REPAIR"
      BY <3>3 DEF HeadersPass
    <3> QED
      BY <3>1, <3>2, <3>3, CatchupAssumption
  <2> QED
    BY <1>2, <2>2 DEF ControlOK, EnterApplyingState, Throw
<1>3. CASE status # "OK"
  BY <1>1, <1>3, CatchupAssumption
     DEF ControlOK, EnterBeginState, EnterRetryingState, Throw
<1> QED
  BY <1>1, <1>2, <1>3

\* Files that are all fetched and pass are those a catchup may end with.
LEMMA PassIsSound ==
    ASSUME mMode \in Modes, NEW fi, NEW c, \A f \in Files : c[f] \in Contents,
           Wanted \subseteq Queued(fi), AllVerified(fi), BucketsGood(fi, c),
           AllGood(TxFiles, c), HeadersPass(c)
    PROVE  /\ AllGood(BucketFiles \cup TxFiles, c)
           /\ HeaderContents(c) \subseteq
                IF mMode = "COMPLETE" THEN {"good"} ELSE {"good", "forged"}
           /\ mMode # "REPAIR" => consensus
<1>1. \A f \in Wanted \cap BucketFiles : c[f] = "good"
  BY DEF AllVerified, Queued, BucketsGood, Files
<1>2. AllGood(BucketFiles \cup TxFiles, c)
  BY <1>1 DEF AllGood
<1>3. HeaderContents(c) \subseteq Contents
  BY DEF HeaderContents, Files
<1>4. mMode = "REPAIR" => HeaderContents(c) = {}
  BY CatchupAssumption DEF HeaderContents, Wanted
<1> QED
  BY <1>2, <1>3, <1>4 DEF HeadersPass, Contents

\* A pass over the files of any state that has its callbacks, its verified
\* buckets and all that is wanted queued leads to a state of IInv.
LEMMA FetchStep ==
    ASSUME IInv, mState # "END",
           NEW fi \in [Files -> FileStates],
           NEW c \in [Files -> Contents],
           NEW ts \in SUBSET Tasks, NEW count \in 0..(RetryLimit + 1),
           Callbacks(fi, ts), BucketsGood(fi, c), Wanted \subseteq Queued(fi),
           EnterFetchingState(fi, c, ts, count),
           mMode' = mMode, consensus' = consensus, faults' \in 0..MaxFaults
    PROVE  IInv'
<1>1. CatchupTypeOK /\ ControlOK
  BY DEF IInv, CatchupTypeOK, ControlOK
<1>2. /\ mFileInfos' \in [Files -> FileStates]
      /\ content' \in [Files -> Contents]
      /\ tasks' \in SUBSET Tasks
      /\ Callbacks(mFileInfos', tasks')
      /\ BucketsGood(mFileInfos', content')
      /\ Queued(mFileInfos') = Queued(fi)
      /\ Fetched(fi) => AllVerified(mFileInfos')
  BY <1>1, FetchFiles
<1>3. Wanted' = Wanted
  BY DEF Wanted
<1>4. \/ SomeFailed(fi) /\ EnterRetryingState("anchor", count)
      \/ Fetched(fi) /\ EnterVerifyingState(content', count)
      \/ /\ mState' = "FETCHING"
         /\ mRetryCount' = count
         /\ UNCHANGED <<mArchive, resume, crashed>>
  BY DEF EnterFetchingState
<1>5. Callbacks(mFileInfos, tasks)' /\ BucketsGood(mFileInfos, content)'
  BY <1>2
<1>6. Wanted' \subseteq Queued(mFileInfos')
  BY <1>2, <1>3
<1>7. WantedQueued'
  BY <1>6 DEF WantedQueued
<1>8. CASE SomeFailed(fi) /\ EnterRetryingState("anchor", count)
  <2>1. ControlOK' /\ mState' = "RETRYING" /\ resume' = "anchor"
    BY <1>8, <1>1 DEF EnterRetryingState, ControlOK
  <2>2. CatchupTypeOK'
    BY <2>1, <1>1, <1>2 DEF CatchupTypeOK, ControlOK
  <2> QED
    BY <2>1, <2>2, <1>5, <1>7 DEF IInv, WaitsVerified, EndIsSound
<1>9. CASE Fetched(fi) /\ EnterVerifyingState(content', count)
  <2>1. mMode \in Modes
    BY <1>1 DEF CatchupTypeOK
  <2>2. /\ ControlOK'
        /\ mState' = "END" => AllGood(TxFiles, content') /\ HeadersPass(content')
    BY <1>9, <1>1, <2>1, VerifyControl
  <2>3. AllVerified(mFileInfos') /\ \A f \in Files : content'[f] \in Contents
    BY <1>9, <1>2
  <2>4. EndIsSound'
    <3>1. ASSUME mState' = "END"
          PROVE  /\ AllGood(BucketFiles \cup TxFiles, content')
                 /\ HeaderContents(content') \subseteq
                      IF mMode = "COMPLETE" THEN {"good"} ELSE {"good", "forged"}
                 /\ mMode # "REPAIR" => consensus
      BY <1>2, <1>3, <1>6, <2>1, <2>2, <2>3, <3>1, PassIsSound
    <3> QED
      BY <1>3, <3>1 DEF EndIsSound, AllGood, HeaderContents
  <2>5. CatchupTypeOK'
    BY <2>2, <1>1, <1>2 DEF CatchupTypeOK, ControlOK
  <2> QED
    BY <2>3, <2>4, <2>5, <1>5, <1>7 DEF IInv, WaitsVerified
<1>10. CASE /\ mState' = "FETCHING"
            /\ mRetryCount' = count
            /\ UNCHANGED <<mArchive, resume, crashed>>
  <2>1. CatchupTypeOK'
    BY <1>10, <1>1, <1>2 DEF CatchupTypeOK
  <2> QED
    BY <2>1, <1>10, <1>5, <1>7 DEF IInv, WaitsVerified, EndIsSound
<1> QED
  BY <1>4, <1>8, <1>9, <1>10

\* enterAnchoredState queues what is wanted and starts a pass.
LEMMA AnchoredStep ==
    ASSUME IInv, mState # "END", NEW count \in 0..(RetryLimit + 1),
           EnterAnchoredState(count),
           mMode' = mMode, consensus' = consensus, faults' \in 0..MaxFaults
    PROVE  IInv'
<1> DEFINE fi == [f \in Files |-> Requeued(f)]
           c == [f \in Files |->
                   IF mFileInfos[f] = "FAILED" THEN "none" ELSE content[f]]
<1>1. EnterFetchingState(fi, c, tasks, count)
  BY DEF EnterAnchoredState
<1>2. /\ mFileInfos \in [Files -> FileStates]
      /\ content \in [Files -> Contents]
      /\ tasks \in SUBSET Tasks
  BY DEF IInv, CatchupTypeOK
<1>3. \A f \in Files : /\ fi[f] \in FileStates
                       /\ fi[f] = mFileInfos[f] \/ fi[f] = "NEEDED"
                       /\ fi[f] # mFileInfos[f]
                            => mFileInfos[f] \in {"FAILED", "absent"}
                       /\ f \in Wanted => fi[f] # "absent"
  BY <1>2 DEF Requeued, FileStates
<1>4. fi \in [Files -> FileStates]
  BY <1>3
<1>5. c \in [Files -> Contents]
  BY <1>2 DEF Contents
<1>6. Callbacks(fi, tasks)
  <2> SUFFICES ASSUME NEW f \in Files PROVE HasCallback(f, fi, tasks)
    BY DEF Callbacks
  <2>1. HasCallback(f, mFileInfos, tasks)
    BY DEF IInv, Callbacks
  <2> HIDE DEF fi
  <2>2. CASE fi[f] = mFileInfos[f]
    BY <2>1, <2>2 DEF HasCallback
  <2>3. CASE fi[f] # mFileInfos[f]
    BY <2>1, <2>3, <1>3 DEF HasCallback, InProgress
  <2> QED
    BY <2>2, <2>3
<1>7. BucketsGood(fi, c)
  <2> SUFFICES ASSUME NEW f \in BucketFiles, fi[f] = "VERIFIED"
               PROVE  c[f] = "good"
    BY DEF BucketsGood
  <2>1. f \in Files /\ mFileInfos[f] = "VERIFIED"
    BY <1>3 DEF Files
  <2> QED
    BY <2>1 DEF IInv, BucketsGood
<1>8. Wanted \subseteq Files
  BY CatchupAssumption DEF IInv, CatchupTypeOK, Wanted, Files
<1>9. Wanted \subseteq Queued(fi)
  BY <1>3, <1>8 DEF Queued
<1> HIDE DEF fi, c
<1> QED
  BY <1>1, <1>2, <1>4, <1>5, <1>6, <1>7, <1>9, FetchStep

-----------------------------------------------------------------------------
(***************************************************************************)
(* The callbacks of tasks.                                                 *)
(***************************************************************************)

\* A fetched set has no task left.
LEMMA VerifiedHasNoTasks ==
    ASSUME IInv, AllVerified(mFileInfos)
    PROVE  tasks = {}
<1> SUFFICES ASSUME NEW t \in tasks PROVE FALSE
  OBVIOUS
<1>1. t.file \in Files
  BY DEF IInv, CatchupTypeOK, Tasks
<1>2. mFileInfos[t.file] \notin InProgress
  BY <1>1 DEF AllVerified, InProgress
<1> QED
  BY <1>1, <1>2 DEF IInv, Callbacks, HasCallback

\* fileStateChange: the report of a task takes the file out of its
\* in-progress state together with the task.
LEMMA FileStep ==
    ASSUME IInv, NEW t \in tasks,
           NEW st \in {"DOWNLOADED", "DECOMPRESSED", "VERIFIED", "FAILED"},
           NEW c \in Contents, st = "VERIFIED" => c = "good",
           FileStateChange(t, st, c),
           mMode' = mMode, consensus' = consensus, faults' \in 0..MaxFaults
    PROVE  IInv'
<1> DEFINE fi == [mFileInfos EXCEPT ![t.file] = st]
           cs == [content EXCEPT ![t.file] = c]
           ts == tasks \ {t}
<1>1. /\ mFileInfos \in [Files -> FileStates]
      /\ content \in [Files -> Contents]
      /\ tasks \in SUBSET Tasks
      /\ t.file \in Files
  BY DEF IInv, CatchupTypeOK, Tasks
<1>2. mState # "END" /\ ~(mState = "RETRYING" /\ resume = "verify")
  BY VerifiedHasNoTasks DEF IInv, WaitsVerified
<1>3. fi \in [Files -> FileStates]
  BY <1>1 DEF FileStates
<1>4. cs \in [Files -> Contents]
  BY <1>1
<1>5. \A f \in Files : f # t.file => fi[f] = mFileInfos[f] /\ cs[f] = content[f]
  BY <1>1
<1>6. fi[t.file] = st /\ cs[t.file] = c
  BY <1>1
<1>7. Callbacks(fi, ts)
  <2> SUFFICES ASSUME NEW f \in Files PROVE HasCallback(f, fi, ts)
    BY DEF Callbacks
  <2> HIDE DEF fi
  <2>1. HasCallback(f, mFileInfos, tasks)
    BY DEF IInv, Callbacks
  <2>2. CASE f = t.file
    BY <2>1, <2>2, <1>6 DEF HasCallback, InProgress
  <2>3. CASE f # t.file
    BY <2>1, <2>3, <1>5 DEF HasCallback
  <2> QED
    BY <2>2, <2>3
<1>8. BucketsGood(fi, cs)
  <2> HIDE DEF fi, cs
  <2> QED
    BY <1>5, <1>6 DEF BucketsGood, IInv, Files
<1>9. ts \in SUBSET Tasks
  BY <1>1
<1>10. CASE mState = "RETRYING"
  <2>1. /\ mFileInfos' = fi
        /\ content' = cs
        /\ tasks' = ts
        /\ UNCHANGED <<mState, mRetryCount, mArchive, resume, crashed>>
    BY <1>10 DEF FileStateChange
  <2> HIDE DEF fi, cs, ts
  <2>2. CatchupTypeOK'
    BY <2>1, <1>3, <1>4, <1>9 DEF IInv, CatchupTypeOK
  <2>3. Callbacks(mFileInfos, tasks)' /\ BucketsGood(mFileInfos, content)'
    BY <2>1, <1>7, <1>8
  <2> QED
    BY <2>1, <2>2, <2>3, <1>2, <1>10
       DEF IInv, WantedQueued, WaitsVerified, EndIsSound
<1>11. CASE mState = "FETCHING"
  <2>1. EnterFetchingState(fi, cs, ts, mRetryCount)
    BY <1>11 DEF FileStateChange
  <2> HIDE DEF fi, cs, ts
  <2>2. Wanted \subseteq Queued(fi)
    BY <1>5, <1>6, <1>11 DEF IInv, WantedQueued, Queued
  <2>3. mRetryCount \in 0..(RetryLimit + 1)
    BY DEF IInv, CatchupTypeOK
  <2> QED
    BY <2>1, <2>2, <2>3, <1>2, <1>3, <1>4, <1>7, <1>8, <1>9, FetchStep
<1>12. CASE mState \notin {"RETRYING", "FETCHING"}
  <2>1. /\ crashed' = "assert"
        /\ UNCHANGED <<mState, mRetryCount, mArchive, resume, mFileInfos,
                       content, tasks>>
    BY <1>12 DEF FileStateChange
  <2>2. CatchupTypeOK'
    BY <2>1 DEF IInv, CatchupTypeOK
  <2>3. Wanted' = Wanted
    BY DEF Wanted
  <2> QED
    BY <2>1, <2>2, <2>3, <1>2, <1>12 DEF IInv, WantedQueued, WaitsVerified, EndIsSound
<1> QED
  BY <1>10, <1>11, <1>12

-----------------------------------------------------------------------------
(***************************************************************************)
(* The inductive invariant.                                                *)
(***************************************************************************)

\* The machine the constructor leaves has its invariant.
LEMMA InitIInv == CatchupInit => IInv
<1> SUFFICES ASSUME CatchupInit PROVE IInv
  OBVIOUS
<1>1. CatchupTypeOK
  BY CatchupAssumption DEF CatchupInit, CatchupTypeOK, FileStates, Contents
<1>2. Callbacks(mFileInfos, tasks)
  BY DEF CatchupInit, Callbacks, HasCallback, InProgress
<1>3. BucketsGood(mFileInfos, content)
  BY DEF CatchupInit, BucketsGood, Files
<1> QED
  BY <1>1, <1>2, <1>3 DEF CatchupInit, IInv, WantedQueued, WaitsVerified, EndIsSound

\* The arrival, or not, of the archive's state.
LEMMA SnapStep ==
    ASSUME IInv, GotSnapState, mMode' = mMode
    PROVE  IInv'
<1>1. consensus' = consensus /\ mState = "BEGIN" /\ faults' \in 0..MaxFaults
  BY CatchupAssumption DEF GotSnapState, Fails, IInv, CatchupTypeOK
<1>2. CASE /\ EnterRetryingState("begin", mRetryCount)
           /\ UNCHANGED <<mFileInfos, content, tasks>>
  <2>1. CatchupTypeOK'
    BY <1>1, <1>2 DEF EnterRetryingState, IInv, CatchupTypeOK
  <2> QED
    BY <2>1, <1>2
       DEF EnterRetryingState, IInv, WantedQueued, WaitsVerified, EndIsSound
<1>3. CASE EnterAnchoredState(mRetryCount)
  <2>1. mRetryCount \in 0..(RetryLimit + 1)
    BY DEF IInv, CatchupTypeOK
  <2> QED
    BY <2>1, <1>1, <1>3, AnchoredStep
<1> QED
  BY <1>2, <1>3 DEF GotSnapState

\* The retry timer goes back to the start, to the anchor or to the check
\* against consensus.
LEMMA TimerStep ==
    ASSUME IInv, RetryTimer, mMode' = mMode
    PROVE  IInv'
<1>1. /\ consensus' = consensus
      /\ mState = "RETRYING"
      /\ faults' \in 0..MaxFaults
      /\ CatchupTypeOK /\ ControlOK
  BY DEF RetryTimer, IInv, CatchupTypeOK, ControlOK
<1>2. CASE EnterBeginState /\ UNCHANGED <<mFileInfos, content, tasks>>
  <2>1. CatchupTypeOK'
    BY <1>1, <1>2, CatchupAssumption DEF EnterBeginState, CatchupTypeOK
  <2> QED
    BY <2>1, <1>2
       DEF EnterBeginState, IInv, WantedQueued, WaitsVerified, EndIsSound
<1>3. CASE mRetryCount <= RetryLimit /\ EnterAnchoredState(mRetryCount + 1)
  <2>1. mRetryCount + 1 \in 0..(RetryLimit + 1)
    BY <1>1, <1>3, CatchupAssumption DEF CatchupTypeOK
  <2> QED
    BY <2>1, <1>1, <1>3, AnchoredStep
<1>4. CASE /\ mRetryCount <= RetryLimit /\ resume = "verify"
           /\ EnterVerifyingState(content, mRetryCount + 1)
           /\ UNCHANGED <<mFileInfos, content, tasks>>
  <2>1. mRetryCount + 1 \in 0..(RetryLimit + 1)
    BY <1>1, <1>4, CatchupAssumption DEF CatchupTypeOK
  <2>2. /\ ControlOK'
        /\ mState' # "FETCHING"
        /\ mState' = "END" => AllGood(TxFiles, content) /\ HeadersPass(content)
    BY <2>1, <1>1, <1>4, VerifyControl DEF CatchupTypeOK
  <2>3. Wanted \subseteq Queued(mFileInfos) /\ AllVerified(mFileInfos)
    BY <1>1, <1>4 DEF IInv, WantedQueued, WaitsVerified
  <2>4. Wanted' = Wanted
    BY DEF Wanted
  <2>5. EndIsSound'
    <3>1. /\ mMode \in Modes /\ \A f \in Files : content[f] \in Contents
          /\ BucketsGood(mFileInfos, content)
      BY DEF IInv, CatchupTypeOK
    <3>2. ASSUME mState' = "END"
          PROVE  /\ AllGood(BucketFiles \cup TxFiles, content)
                 /\ HeaderContents(content) \subseteq
                      IF mMode = "COMPLETE" THEN {"good"} ELSE {"good", "forged"}
                 /\ mMode # "REPAIR" => consensus
      BY <2>2, <2>3, <3>1, <3>2, PassIsSound
    <3> QED
      BY <1>1, <1>4, <2>4, <3>2 DEF EndIsSound, AllGood, HeaderContents
  <2>6. CatchupTypeOK'
    BY <2>2, <1>1, <1>4 DEF CatchupTypeOK, ControlOK
  <2> QED
    BY <2>3, <2>4, <2>5, <2>6, <1>4 DEF IInv, WantedQueued, WaitsVerified
<1> QED
  BY <1>2, <1>3, <1>4 DEF RetryTimer

\* A task ends well or not; a bucket counts as verified only when its hash
\* is right.
LEMMA TaskStep ==
    ASSUME IInv, NEW t \in tasks, TaskDone(t) \/ TaskFails(t), mMode' = mMode
    PROVE  IInv'
<1>1. consensus' = consensus /\ faults' \in 0..MaxFaults
  BY CatchupAssumption DEF TaskDone, TaskFails, Fails, IInv, CatchupTypeOK
<1>2. content[t.file] \in Contents
  BY DEF IInv, CatchupTypeOK, Tasks
<1>3. PICK st \in {"DOWNLOADED", "DECOMPRESSED", "VERIFIED", "FAILED"},
           c \in Contents :
         FileStateChange(t, st, c) /\ (st = "VERIFIED" => c = "good")
  BY <1>2 DEF TaskDone, TaskFails, GetDone, GunzipDone, VerifyDone, Served, Contents
<1> QED
  BY <1>1, <1>3, FileStep

\* Every handler, timer and subprocess keeps it.
LEMMA NextIInv == IInv /\ [CatchupNext]_catchupVars => IInv'
<1> SUFFICES ASSUME IInv, [CatchupNext]_catchupVars PROVE IInv'
  OBVIOUS
<1>1. CASE GotSnapState /\ mMode' = mMode
  BY <1>1, SnapStep
<1>2. CASE RetryTimer /\ mMode' = mMode
  BY <1>2, TimerStep
<1>3. ASSUME NEW t \in tasks, TaskDone(t) \/ TaskFails(t), mMode' = mMode
      PROVE  IInv'
  BY <1>3, TaskStep
<1>4. CASE ConsensusAdvances
  <2>1. /\ UNCHANGED <<mMode, mState, mRetryCount, mArchive, resume, mFileInfos, content,
                        tasks, crashed, faults>>
        /\ consensus' = TRUE
    BY <1>4 DEF ConsensusAdvances
  <2>2. EndIsSound'
    BY <2>1 DEF IInv, EndIsSound, AllGood, HeaderContents, Wanted
  <2> QED
    BY <2>1, <2>2 DEF IInv, CatchupTypeOK, WantedQueued, WaitsVerified, Wanted
<1>5. CASE UNCHANGED catchupVars
  <2>1. EndIsSound'
    BY <1>5 DEF catchupVars, IInv, EndIsSound, AllGood, HeaderContents, Wanted
  <2> QED
    BY <1>5, <2>1 DEF catchupVars, IInv, CatchupTypeOK, WantedQueued, WaitsVerified, Wanted
<1> QED
  BY <1>1, <1>2, <1>3, <1>4, <1>5 DEF CatchupNext, Handlers

\* The invariant holds of every behaviour of the catchup machine.
THEOREM Invariance == CatchupSpec => []IInv
BY InitIInv, NextIInv, PTL DEF CatchupSpec

\* CatchupStateMachine::fileStateChange and enterFetchingState: whatever the
\* archives, the failures and the restarts, every file in progress has exactly
\* the one subprocess that will report on it, and nothing is outstanding when
\* the machine is destroyed.
THEOREM CatchupFilesInOrder == CatchupSpec => []FilesInOrder
<1>1. ASSUME IInv PROVE FilesInOrder
  <2>1. EndIsQuiet
    BY <1>1, VerifiedHasNoTasks DEF EndIsQuiet, IInv, WaitsVerified
  <2>2. InProgressHasCallback
    BY <1>1 DEF IInv, Callbacks, HasCallback, InProgressHasCallback
  <2> QED
    BY <1>1, <2>1, <2>2 DEF FilesInOrder, IInv
<1> QED
  BY <1>1, Invariance, PTL

\* CatchupStateMachine::enterEndState: catchup reports success only with the
\* right content in every bucket and transaction file it applied and with a
\* last header whose claimed hash is consensus's; the headers themselves are
\* right in COMPLETE mode.
THEOREM CatchupEndIsSound == CatchupSpec => []EndIsSound
<1>1. ASSUME IInv PROVE EndIsSound
  BY <1>1 DEF IInv
<1> QED
  BY <1>1, Invariance, PTL

=============================================================================
