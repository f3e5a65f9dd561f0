---------------------------- MODULE OrderBookProofs ---------------------------
(***************************************************************************)
(* Proofs about credit, for any accounts, currencies, operations, prices   *)
(* and amounts: the tables stay in order, what is computed ahead can be    *)
(* settled, no credit appears or is lost, everyone gets the price that was *)
(* asked for, and the book is swept from its best offer on.                *)
(***************************************************************************)
EXTENDS OrderBook, NumberProofs

-----------------------------------------------------------------------------
(* The inductive invariant.                                                *)

OpPrices == {op.price : op \in Ops \cap CreateOfferOps}

\* BuyersPrice at every step of the conversion.
BuyersPriceSoFar ==
    call.sheepSend * call.op.price.n <= (call.wheatReceived + call.crossed) * call.op.price.d

OfferRow ==
    [offerID : Nat \ {0}, accountID : Accounts, amount : 1 .. MaxInt,
     takerGets : Currencies, takerPays : Currencies, price : OpPrices]
Tables ==
    [lines : [Holdings -> TrustLine \cup {Absent}], offers : SUBSET OfferRow, idPool : Nat,
     numSubEntries : [Accounts -> Nat], issued : [Currencies -> Int],
     unpaid : [Currencies -> Int], miscounted : [Accounts -> Int]]

LinesIn(d, a) == {h \in Holdings : h[1] = a /\ d.lines[h] # Absent}
OffersIn(d, a) == {o \in d.offers : o.accountID = a}

\* Lines within their limits, and offers of one id each that exchange something
\* for something else.
TablesOK(d) ==
    /\ d \in Tables
    /\ \A h \in Holdings : d.lines[h] # Absent => d.lines[h].balance <= d.lines[h].limit
    /\ IsFiniteSet(d.offers)
    /\ \A o \in d.offers : o.offerID <= d.idPool /\ o.takerPays # o.takerGets
    /\ \A o, p \in d.offers : o.offerID = p.offerID => o = p

Counted(d) ==
    \A a \in Accounts :
        d.numSubEntries[a] = Cardinality(LinesIn(d, a)) + Cardinality(OffersIn(d, a))
                             + d.miscounted[a]

\* The calls: none, a payment between two conversions, a conversion.
PathCall ==
    [type : {"payment"}, stage : {"path"}, op : Ops \cap PaymentOps, path : Seq(Currencies),
     curB : Currencies, curBReceived : Nat]
ConversionCall ==
    [type : {"offer", "payment"}, op : Ops, path : Seq(Currencies),
     stage : {"load", "each", "end"}, result : {"eOK", "ePartial", "eFilterStop"},
     sheep : Currencies, forSale : Nat, maxSheepSend : Nat, sheepSend : Nat,
     wheat : Currencies, curBReceived : Nat, maxWheatReceive : Nat, wheatReceived : Nat,
     retList : Seq(OfferRow), size : Nat, offerOffset : Int, crossed : Nat]
CallOK ==
    \/ call = Idle
    \/ call \in PathCall
    \/ /\ call \in ConversionCall
       /\ call.op \in IF call.type = "offer" THEN CreateOfferOps ELSE PaymentOps
Converting == call.stage \in {"load", "each", "end"}
Offering == Converting /\ call.type = "offer"

BooksInv ==
    /\ TablesOK(db) /\ TablesOK(saved)
    /\ Counted(db) /\ Counted(saved)
    /\ applied \in 0 .. MaxOps
    /\ CallOK

\* What the lines of a currency hold beyond what was issued, and how much of
\* that the call in progress still owes.
Net(d, c) == Sum(d.lines, c) - d.issued[c] - d.unpaid[c]
InFlight(c) ==
    IF Converting
    THEN (IF c = call.sheep THEN call.sheepSend ELSE 0)
         - (IF c = call.wheat THEN call.wheatReceived ELSE 0)
         + (IF c = call.wheat /\ call.type = "payment" THEN call.curBReceived ELSE 0)
    ELSE IF call.stage = "path" /\ c = call.curB THEN call.curBReceived ELSE 0
MoneyInv == \A c \in Currencies : Net(saved, c) = 0 /\ Net(db, c) = InFlight(c)

\* What was asked for, what is exchanged and what is still wanted.
AmountInv ==
    Converting =>
        /\ call.sheepSend + call.maxSheepSend = call.forSale
        /\ call.wheatReceived + call.maxWheatReceive = call.curBReceived
        /\ call.wheatReceived = 0 => call.sheepSend = 0
        /\ call.stage # "end" => call.maxSheepSend > 0 /\ call.maxWheatReceive > 0

\* A new offer: its source's lines are as they were when the amounts were
\* computed.
SourceInv ==
    Offering =>
        LET a == call.op.source IN
        /\ call.sheep = call.op.takerGets /\ call.wheat = call.op.takerPays
        /\ HasLine(db, a, call.sheep) /\ HasLine(db, a, call.wheat)
        /\ loadTrustLine(db, a, call.wheat).authorized
        /\ call.forSale <= loadTrustLine(db, a, call.sheep).balance
        /\ call.forSale <= call.op.amount
        /\ call.curBReceived = getMaxAmountReceive(db, a, call.wheat)
        /\ BuyersPriceSoFar

\* The page that is left is the beginning of the book.
IsPage(s, book) ==
    /\ s \in Seq(book)
    /\ \A i, j \in DOMAIN s : i < j => Before(s[i], s[j])
    /\ \A o \in book : (\A j \in DOMAIN s : s[j] # o) => \A i \in DOMAIN s : Before(s[i], o)
Book == OffersFor(db, call.sheep, call.wheat)
DearOrHidden(o) == TooDear(o) \/ \E p \in Book : TooDear(p) /\ Hides(p, o)
PageInv ==
    /\ call.stage = "load" => call.offerOffset = 0
    /\ call.stage = "each" =>
          /\ IsPage(call.retList, Book)
          /\ call.offerOffset = Len(call.retList)
          /\ call.size < PageSize => \A o \in Book : \E j \in DOMAIN call.retList : call.retList[j] = o
    /\ call.stage = "end" =>
          /\ call.result = "eOK" /\ call.maxWheatReceive > 0 /\ call.maxSheepSend > 0 => Book = {}
          /\ call.result = "eFilterStop" => \A o \in Book : DearOrHidden(o)

\* No book grows while a call is in progress, and the one that is crossed loses
\* an offer each time, but for the last.
CrossedInv ==
    /\ call # Idle => \A s, w \in Currencies :
          Cardinality(OffersFor(db, s, w)) <= Cardinality(OffersFor(saved, s, w))
    /\ Converting =>
          call.crossed + (IF call.stage = "end" THEN 0 ELSE Cardinality(Book))
              <= Cardinality(OffersFor(saved, call.sheep, call.wheat))

IInv == BooksInv /\ MoneyInv /\ AmountInv /\ SourceInv /\ PageInv /\ CrossedInv

-----------------------------------------------------------------------------
(* Arithmetic.                                                             *)

\* The least of two numbers.
LEMMA MinOfTwo ==
    ASSUME NEW a \in Nat, NEW b \in Nat
    PROVE  \E m \in Nat : m = Min({a, b}) /\ m <= a /\ m <= b
<1>1. Min({a, b}) \in Nat /\ Min({a, b}) <= a /\ Min({a, b}) <= b
  BY DEF Min
<1> QED
  BY <1>1

\* The least of three numbers.
LEMMA MinOfThree ==
    ASSUME NEW a \in Nat, NEW b \in Nat, NEW c \in Nat
    PROVE  \E m \in Nat : m = Min({a, b, c}) /\ m <= a /\ m <= b /\ m <= c
<1>1. \E x \in {a, b, c} : \A y \in {a, b, c} : x <= y
  OBVIOUS
<1>2. /\ Min({a, b, c}) \in Nat
      /\ Min({a, b, c}) <= a /\ Min({a, b, c}) <= b /\ Min({a, b, c}) <= c
  BY <1>1 DEF Min
<1> QED
  BY <1>2

\* bigDivide rounds down.
LEMMA DivideFacts ==
    ASSUME NEW a \in Nat, NEW b \in Nat \ {0}
    PROVE  a \div b \in Nat /\ (a \div b) * b <= a /\ a < (a \div b + 1) * b
OBVIOUS

\* A factor that is no greater makes a product that is no greater.
LEMMA TimesMonotone ==
    ASSUME NEW a \in Nat, NEW b \in Nat, NEW c \in Nat, a <= b
    PROVE  a * c <= b * c /\ a * c \in Nat
OBVIOUS

\* A common factor cancels.
LEMMA TimesCancel ==
    ASSUME NEW a \in Nat, NEW b \in Nat, NEW c \in Nat \ {0}
    PROVE  /\ a * c <= b * c => a <= b
           /\ a * c < b * c => a < b
OBVIOUS

\* What crossOffer computes, when r is what the seller can receive: nobody
\* gets more than it can take, the seller gets its price or better, and the
\* buyer loses less than one unit.
LEMMA CrossAmounts ==
    ASSUME NEW r \in Nat, NEW n \in Nat \ {0}, NEW d \in Nat \ {0},
           NEW amount \in Nat, amount <= bigDivide(r, d, n),
           NEW wheat0 \in Nat, wheat0 <= amount,
           NEW sheep \in Nat, sheep <= bigDivide(wheat0, n, d)
    PROVE  LET wheat == bigDivide(sheep, d, n) IN
           /\ wheat \in Nat /\ wheat <= wheat0
           /\ sheep <= r
           /\ wheat * n <= sheep * d
           /\ sheep * d < (wheat + 1) * n
<1> DEFINE wheat == bigDivide(sheep, d, n)
<1>1. sheep * d \in Nat /\ r * d \in Nat /\ wheat0 * n \in Nat /\ amount * n \in Nat
  BY TimesMonotone
<1>2. wheat \in Nat /\ wheat * n <= sheep * d /\ sheep * d < (wheat + 1) * n
  BY <1>1, DivideFacts DEF bigDivide
<1>3. sheep * d <= wheat0 * n
  <2> DEFINE q == (wheat0 * n) \div d
  <2>1. q \in Nat /\ q * d <= wheat0 * n /\ sheep <= q
    BY <1>1, DivideFacts DEF bigDivide
  <2> HIDE DEF q
  <2>2. sheep * d <= q * d /\ q * d \in Nat
    BY <2>1, TimesMonotone
  <2> QED
    BY <1>1, <2>1, <2>2
<1>4. amount * n <= r * d
  <2> DEFINE q == (r * d) \div n
  <2>1. q \in Nat /\ q * n <= r * d /\ amount <= q
    BY <1>1, DivideFacts DEF bigDivide
  <2> HIDE DEF q
  <2>2. amount * n <= q * n /\ q * n \in Nat
    BY <2>1, TimesMonotone
  <2> QED
    BY <1>1, <2>1, <2>2
<1>5. wheat0 * n <= amount * n
  BY TimesMonotone
<1> HIDE DEF wheat
<1>6. wheat <= wheat0
  <2>1. wheat * n <= wheat0 * n
    <3>1. wheat * n \in Nat
      BY <1>2, TimesMonotone
    <3> QED
      BY <1>1, <1>2, <1>3, <3>1
  <2> QED
    BY <1>2, <2>1, TimesCancel
<1>7. sheep <= r
  <2>1. sheep * d <= r * d
    BY <1>1, <1>3, <1>4, <1>5
  <2> QED
    BY <2>1, TimesCancel
<1> QED
  BY <1>2, <1>6, <1>7 DEF wheat

-----------------------------------------------------------------------------
(* Trust lines.                                                            *)

\* Who holds what, and what a line is.
LEMMA LineFacts ==
    ASSUME NEW d, TablesOK(d), NEW a \in Accounts, NEW c \in Currencies, HasLine(d, a, c)
    PROVE  LET line == loadTrustLine(d, a, c) IN
           /\ ~IsIssuer(a, c) => <<a, c>> \in Holdings /\ line = d.lines[<<a, c>>]
           /\ line \in TrustLine
           /\ line.balance \in Nat /\ line.limit \in Nat /\ line.authorized \in BOOLEAN
           /\ line.balance <= MaxInt /\ line.limit <= MaxInt
           /\ line.balance <= line.limit
           /\ getMaxAmountReceive(d, a, c) \in 0 .. MaxInt
           /\ ~IsIssuer(a, c) =>
                getMaxAmountReceive(d, a, c) =
                    IF line.authorized THEN line.limit - line.balance ELSE 0
<1> USE OrderBookAssumption
<1>1. CASE IsIssuer(a, c)
  BY <1>1 DEF loadTrustLine, setAsIssuer, TrustLine, getMaxAmountReceive
<1>2. CASE ~IsIssuer(a, c)
  <2>1. <<a, c>> \in Holdings
    BY <1>2 DEF Holdings, IsIssuer
  <2> DEFINE line == loadTrustLine(d, a, c)
  <2>2. line = d.lines[<<a, c>>] /\ line # Absent
    BY <1>2 DEF loadTrustLine, HasLine
  <2>3. line \in TrustLine /\ line.balance <= line.limit
    BY <2>1, <2>2 DEF TablesOK, Tables
  <2>4. getMaxAmountReceive(d, a, c) = IF line.authorized THEN line.limit - line.balance ELSE 0
    BY <1>2 DEF getMaxAmountReceive
  <2> HIDE DEF line
  <2>5. /\ line.balance \in Nat /\ line.limit \in Nat /\ line.authorized \in BOOLEAN
        /\ line.balance <= MaxInt /\ line.limit <= MaxInt
    BY <2>3 DEF TrustLine
  <2> QED
    BY <1>2, <2>1, <2>2, <2>3, <2>4, <2>5 DEF line
<1> QED
  BY <1>1, <1>2

\* There are finitely many lines.
LEMMA HoldingsFinite ==
    /\ IsFiniteSet(Holdings)
    /\ \A c : IsFiniteSet(HoldingsOf(c))
    /\ \A d, a : IsFiniteSet(LinesIn(d, a)) /\ Cardinality(LinesIn(d, a)) \in Nat
<1>1. IsFiniteSet(Accounts \X Currencies)
  BY OrderBookAssumption, FS_Product
<1>2. IsFiniteSet(Holdings)
  BY <1>1, FS_Subset DEF Holdings
<1>3. \A c : HoldingsOf(c) \in SUBSET Holdings
  BY DEF HoldingsOf
<1>4. \A d, a : LinesIn(d, a) \in SUBSET Holdings
  BY DEF LinesIn
<1> QED
  BY <1>2, <1>3, <1>4, FS_Subset, FS_CardinalityType

\* What the lines hold is a number.
LEMMA SumIsInt ==
    ASSUME NEW d, d \in Tables, NEW c \in Currencies
    PROVE  Sum(d.lines, c) \in Int /\ Net(d, c) \in Int
<1> DEFINE f == [h \in HoldingsOf(c) |-> BalanceIn(d.lines, h)]
<1>1. \A h \in HoldingsOf(c) : f[h] \in Int
  <2> SUFFICES ASSUME NEW h \in HoldingsOf(c) PROVE BalanceIn(d.lines, h) \in Int
    OBVIOUS
  <2>1. d.lines[h] \in TrustLine \cup {Absent}
    BY DEF Tables, HoldingsOf
  <2> QED
    BY <2>1 DEF BalanceIn, TrustLine
<1> HIDE DEF f
<1>2. SumFunctionOnSet(f, HoldingsOf(c)) \in Int
  BY <1>1, HoldingsFinite, SumInt
<1>3. Sum(d.lines, c) \in Int
  BY <1>2 DEF Sum, f
<1>4. d.issued[c] \in Int /\ d.unpaid[c] \in Int
  BY DEF Tables
<1> QED
  BY <1>3, <1>4 DEF Net

\* One line that holds more makes the lines of its currency hold more.
LEMMA SumOfUpdate ==
    ASSUME NEW d \in Tables, NEW e \in Tables, NEW a \in Accounts, NEW c \in Currencies,
           <<a, c>> \in Holdings,
           \A h \in Holdings \ {<<a, c>>} : e.lines[h] = d.lines[h],
           NEW k \in Currencies
    PROVE  /\ k = c => Sum(e.lines, k) =
                          Sum(d.lines, k) + (BalanceIn(e.lines, <<a, c>>) - BalanceIn(d.lines, <<a, c>>))
           /\ k # c => Sum(e.lines, k) = Sum(d.lines, k)
<1> DEFINE S == HoldingsOf(k)
           f == [h \in S |-> BalanceIn(d.lines, h)]
           g == [h \in S |-> BalanceIn(e.lines, h)]
<1>1. \A h \in Holdings : BalanceIn(d.lines, h) \in Int /\ BalanceIn(e.lines, h) \in Int
  BY DEF Tables, BalanceIn, TrustLine
<1>2. S \subseteq Holdings
  BY DEF HoldingsOf
<1>3. \A h \in S : f[h] \in Int /\ g[h] \in Int
  BY <1>1, <1>2
<1>4. \A h \in S \ {<<a, c>>} : f[h] = g[h]
  BY <1>2 DEF BalanceIn
<1>5. IsFiniteSet(S)
  BY HoldingsFinite
<1>6. CASE k = c
  <2>1. <<a, c>> \in S
    BY <1>6 DEF HoldingsOf
  <2>2. f[<<a, c>>] = BalanceIn(d.lines, <<a, c>>) /\ g[<<a, c>>] = BalanceIn(e.lines, <<a, c>>)
    BY <2>1
  <2> HIDE DEF f, g, S
  <2>3. SumFunctionOnSet(g, S) = SumFunctionOnSet(f, S) + (g[<<a, c>>] - f[<<a, c>>])
    BY <1>3, <1>4, <1>5, <2>1, SumUpdate
  <2>4. SumFunctionOnSet(f, S) = Sum(d.lines, k) /\ SumFunctionOnSet(g, S) = Sum(e.lines, k)
    BY DEF Sum, f, g, S
  <2> QED
    BY <1>6, <2>2, <2>3, <2>4
<1>7. CASE k # c
  <2>1. <<a, c>> \notin S
    BY <1>7 DEF HoldingsOf
  <2> HIDE DEF f, g, S
  <2>2. SumFunctionOnSet(f, S) = SumFunctionOnSet(g, S)
    BY <1>4, <1>5, <2>1, SumCongruent
  <2>3. SumFunctionOnSet(f, S) = Sum(d.lines, k) /\ SumFunctionOnSet(g, S) = Sum(e.lines, k)
    BY DEF Sum, f, g, S
  <2> QED
    BY <1>7, <2>2, <2>3
<1> QED
  BY <1>6, <1>7

\* A line that takes a change of its balance, or its issuer, changes nothing
\* but what its currency's lines hold beyond what was issued.
LEMMA AddBalanceFacts ==
    ASSUME NEW d, TablesOK(d), NEW a \in Accounts, NEW c \in Currencies, HasLine(d, a, c),
           NEW delta \in Int, MayAddBalance(d, a, c, delta)
    PROVE  LET e == addBalance(d, a, c, delta) IN
           /\ TablesOK(e)
           /\ e.offers = d.offers /\ e.idPool = d.idPool
           /\ e.numSubEntries = d.numSubEntries /\ e.miscounted = d.miscounted
           /\ e.unpaid = d.unpaid
           /\ \A h \in Holdings : /\ e.lines[h] = Absent <=> d.lines[h] = Absent
                                  /\ h # <<a, c>> => e.lines[h] = d.lines[h]
           /\ \A k \in Currencies : Net(e, k) = Net(d, k) + (IF k = c THEN delta ELSE 0)
<1> DEFINE e == addBalance(d, a, c, delta)
<1>0. d \in Tables
  BY DEF TablesOK
<1>1. CASE IsIssuer(a, c)
  <2>1. e = [d EXCEPT !.issued[c] = @ - delta]
    BY <1>1 DEF addBalance
  <2>2. /\ e.offers = d.offers /\ e.idPool = d.idPool /\ e.lines = d.lines
        /\ e.numSubEntries = d.numSubEntries /\ e.miscounted = d.miscounted
        /\ e.unpaid = d.unpaid
        /\ e.issued = [d.issued EXCEPT ![c] = @ - delta]
        /\ e \in Tables
    BY <1>0, <2>1 DEF Tables
  <2> HIDE DEF e
  <2>3. TablesOK(e)
    BY <2>2 DEF TablesOK
  <2>4. ASSUME NEW k \in Currencies PROVE Net(e, k) = Net(d, k) + (IF k = c THEN delta ELSE 0)
    <3>1. Sum(e.lines, k) = Sum(d.lines, k) /\ Sum(d.lines, k) \in Int
      BY <1>0, <2>2, SumIsInt
    <3>2. e.issued[k] = d.issued[k] - (IF k = c THEN delta ELSE 0)
      BY <1>0, <2>2 DEF Tables
    <3>3. d.issued[k] \in Int /\ d.unpaid[k] \in Int
      BY <1>0 DEF Tables
    <3> QED
      BY <2>2, <3>1, <3>2, <3>3 DEF Net
  <2> QED
    BY <2>2, <2>3, <2>4 DEF e
<1>2. CASE ~IsIssuer(a, c)
  <2> DEFINE line == d.lines[<<a, c>>]
             new == [line EXCEPT !.balance = @ + delta]
  <2>1. /\ <<a, c>> \in Holdings /\ line = loadTrustLine(d, a, c)
        /\ line \in TrustLine /\ line.balance <= line.limit /\ line # Absent
    BY <1>2, LineFacts DEF HasLine
  <2>2. line.balance + delta \in 0 .. line.limit /\ line.limit \in 0 .. MaxInt
    <3>1. delta # 0 => line.balance + delta \in 0 .. line.limit
      BY <1>2, <2>1 DEF MayAddBalance
    <3>2. line.balance \in Nat /\ line.limit \in 0 .. MaxInt
      BY <2>1 DEF TrustLine
    <3> QED
      BY <2>1, <3>1, <3>2, OrderBookAssumption
  <2>3. /\ new \in TrustLine /\ new.balance = line.balance + delta /\ new.limit = line.limit
        /\ new.authorized = line.authorized
    BY <2>1, <2>2, OrderBookAssumption DEF TrustLine
  <2>4. new # Absent
    BY <2>3, OrderBookAssumption
  <2>5. e = [d EXCEPT !.lines[<<a, c>>] = new]
    BY <1>2 DEF addBalance
  <2> HIDE DEF new
  <2>6. /\ e.offers = d.offers /\ e.idPool = d.idPool
        /\ e.lines = [d.lines EXCEPT ![<<a, c>>] = new]
        /\ e.numSubEntries = d.numSubEntries /\ e.miscounted = d.miscounted
        /\ e.unpaid = d.unpaid /\ e.issued = d.issued
        /\ e \in Tables
    BY <1>0, <2>1, <2>3, <2>5 DEF Tables
  <2> HIDE DEF e
  <2>7. /\ e.lines[<<a, c>>] = new
        /\ \A h \in Holdings : h # <<a, c>> => e.lines[h] = d.lines[h]
    BY <1>0, <2>1, <2>6 DEF Tables
  <2>8. TablesOK(e)
    <3>1. \A h \in Holdings : e.lines[h] # Absent => e.lines[h].balance <= e.lines[h].limit
      BY <2>2, <2>3, <2>7 DEF TablesOK
    <3> QED
      BY <2>6, <3>1 DEF TablesOK
  <2>9. ASSUME NEW k \in Currencies PROVE Net(e, k) = Net(d, k) + (IF k = c THEN delta ELSE 0)
    <3>1. BalanceIn(e.lines, <<a, c>>) - BalanceIn(d.lines, <<a, c>>) = delta
      <4>1. line.balance \in Int
        BY <2>1 DEF TrustLine
      <4> QED
        BY <2>1, <2>3, <2>4, <2>7, <4>1 DEF BalanceIn
    <3>2. /\ k = c => Sum(e.lines, k) = Sum(d.lines, k) + delta
          /\ k # c => Sum(e.lines, k) = Sum(d.lines, k)
      <4>1. /\ d \in Tables /\ e \in Tables /\ <<a, c>> \in Holdings
            /\ \A h \in Holdings \ {<<a, c>>} : e.lines[h] = d.lines[h]
        BY <1>0, <2>1, <2>6, <2>7
      <4>2. /\ k = c => Sum(e.lines, k) =
                  Sum(d.lines, k) + (BalanceIn(e.lines, <<a, c>>) - BalanceIn(d.lines, <<a, c>>))
            /\ k # c => Sum(e.lines, k) = Sum(d.lines, k)
        BY <4>1, SumOfUpdate
      <4> QED
        BY <3>1, <4>2
    <3>3. d.issued[k] \in Int /\ d.unpaid[k] \in Int /\ Sum(d.lines, k) \in Int
      BY <1>0, SumIsInt DEF Tables
    <3> QED
      BY <2>6, <3>2, <3>3 DEF Net
  <2>10. \A h \in Holdings : e.lines[h] = Absent <=> d.lines[h] = Absent
    BY <2>1, <2>4, <2>7
  <2> QED
    BY <2>6, <2>7, <2>8, <2>9, <2>10 DEF e
<1> QED
  BY <1>1, <1>2

-----------------------------------------------------------------------------
(* Offers.                                                                 *)

\* The operations that make offers, and their prices.
LEMMA PriceFacts ==
    ASSUME NEW p \in OpPrices
    PROVE  p \in Price /\ p.n \in Nat \ {0} /\ p.d \in Nat \ {0} /\ computePrice(p) \in Nat
<1>1. p \in Price
  BY DEF OpPrices, CreateOfferOps
<1>2. p.n \in Nat \ {0} /\ p.d \in Nat \ {0}
  BY <1>1 DEF Price
<1>3. p.n * PriceDivisor \in Nat
  BY <1>2, OrderBookAssumption, TimesMonotone
<1> QED
  BY <1>1, <1>2, <1>3, DivideFacts DEF computePrice, bigDivide

\* A row of the table of offers.
LEMMA OfferFacts ==
    ASSUME NEW d, TablesOK(d), NEW o \in d.offers
    PROVE  /\ o \in OfferRow
           /\ o.offerID \in 1 .. d.idPool /\ o.accountID \in Accounts
           /\ o.amount \in 1 .. MaxInt /\ o.amount \in Nat
           /\ o.takerGets \in Currencies /\ o.takerPays \in Currencies
           /\ o.takerPays # o.takerGets
           /\ o.price \in OpPrices /\ o.price \in Price
           /\ o.price.n \in Nat \ {0} /\ o.price.d \in Nat \ {0}
<1>1. o \in OfferRow /\ d.idPool \in Nat
  BY DEF TablesOK, Tables
<1>2. o.offerID <= d.idPool /\ o.takerPays # o.takerGets
  BY DEF TablesOK
<1>3. /\ o.offerID \in Nat \ {0} /\ o.accountID \in Accounts /\ o.amount \in 1 .. MaxInt
      /\ o.takerGets \in Currencies /\ o.takerPays \in Currencies /\ o.price \in OpPrices
  BY <1>1 DEF OfferRow
<1> QED
  BY <1>1, <1>2, <1>3, PriceFacts, OrderBookAssumption

\* The books and the offers of an account are finite.
LEMMA BookFinite ==
    ASSUME NEW d, TablesOK(d)
    PROVE  /\ \A s, w : IsFiniteSet(OffersFor(d, s, w)) /\ Cardinality(OffersFor(d, s, w)) \in Nat
           /\ \A a : IsFiniteSet(OffersIn(d, a)) /\ Cardinality(OffersIn(d, a)) \in Nat
<1>1. \A s, w : OffersFor(d, s, w) \in SUBSET d.offers
  BY DEF OffersFor
<1>2. \A a : OffersIn(d, a) \in SUBSET d.offers
  BY DEF OffersIn
<1>3. IsFiniteSet(d.offers)
  BY DEF TablesOK
<1> QED
  BY <1>1, <1>2, <1>3, FS_Subset, FS_CardinalityType

\* What the seller can sell and the buyer can take and pay.
LEMMA LimitFacts ==
    ASSUME NEW r \in Nat, NEW n \in Nat \ {0}, NEW den \in Nat \ {0},
           NEW bal \in Nat, NEW most \in Nat, NEW mw \in Nat, NEW ms \in Nat
    PROVE  LET amount == Min({AtMostMaxInt(bigDivide(r, den, n)), bal, most})
               wheat0 == Min({amount, mw})
               sheep == Min({AtMostMaxInt(bigDivide(wheat0, n, den)), ms})
           IN  /\ amount \in Nat /\ amount <= most /\ amount <= bal
               /\ amount <= bigDivide(r, den, n)
               /\ wheat0 \in Nat /\ wheat0 <= amount /\ wheat0 <= mw
               /\ sheep \in Nat /\ sheep <= ms /\ sheep <= bigDivide(wheat0, n, den)
<1>0. MaxInt \in Nat
  BY OrderBookAssumption
<1>1. \A q \in Nat : AtMostMaxInt(q) \in Nat /\ AtMostMaxInt(q) <= q
  BY <1>0, MinOfTwo DEF AtMostMaxInt
<1>2. r * den \in Nat
  BY TimesMonotone
<1>3. PICK q \in Nat : q = bigDivide(r, den, n)
  BY <1>2, DivideFacts DEF bigDivide
<1>4. PICK q1 \in Nat : q1 = AtMostMaxInt(q) /\ q1 <= q
  BY <1>1
<1>5. PICK amount \in Nat : /\ amount = Min({q1, bal, most})
                            /\ amount <= q1 /\ amount <= most /\ amount <= bal
  BY MinOfThree
<1>6. PICK wheat0 \in Nat : wheat0 = Min({amount, mw}) /\ wheat0 <= amount /\ wheat0 <= mw
  BY MinOfTwo
<1>7. wheat0 * n \in Nat
  BY TimesMonotone
<1>8. PICK p \in Nat : p = bigDivide(wheat0, n, den)
  BY <1>7, DivideFacts DEF bigDivide
<1>9. PICK p1 \in Nat : p1 = AtMostMaxInt(p) /\ p1 <= p
  BY <1>1
<1>10. PICK sheep \in Nat : sheep = Min({p1, ms}) /\ sheep <= ms /\ sheep <= p1
  BY MinOfTwo
<1>11. sheep <= p /\ amount <= q
  BY <1>4, <1>5, <1>9, <1>10
<1> QED
  BY <1>3, <1>4, <1>5, <1>6, <1>8, <1>9, <1>10, <1>11

\* What crossing an offer exchanges.
LEMMA ExchangeFacts ==
    ASSUME NEW d, TablesOK(d), NEW o \in d.offers,
           HasLine(d, o.accountID, o.takerGets), HasLine(d, o.accountID, o.takerPays),
           NEW mw \in Nat, NEW ms \in Nat
    PROVE  LET x == Exchange(d, o, mw, ms) IN
           /\ x.amount \in Nat /\ x.amount <= o.amount
           /\ x.numWheatReceived \in Nat /\ x.numWheatReceived <= mw
           /\ x.numSheepSend \in Nat /\ x.numSheepSend <= ms
           /\ x.numWheatReceived = 0 <=> x.numSheepSend = 0
           /\ x.offerTaken \in BOOLEAN /\ x.cantConvert \in BOOLEAN
           /\ ~x.offerTaken => x.amount - x.numWheatReceived \in 1 .. MaxInt
           /\ x.numSheepSend <= getMaxAmountReceive(d, o.accountID, o.takerPays)
           /\ x.numWheatReceived <= loadTrustLine(d, o.accountID, o.takerGets).balance
           /\ x.numWheatReceived * o.price.n <= x.numSheepSend * o.price.d
           /\ x.numSheepSend * o.price.d <= (x.numWheatReceived + 1) * o.price.n
<1> DEFINE r == getMaxAmountReceive(d, o.accountID, o.takerPays)
           bal == loadTrustLine(d, o.accountID, o.takerGets).balance
           n == o.price.n
           den == o.price.d
           amount == SellerCanSell(d, o)
           wheat0 == Min({amount, mw})
           sheep0 == AtMostMaxInt(bigDivide(wheat0, n, den))
           sheep == Min({sheep0, ms})
           wheat == bigDivide(sheep, den, n)
           nothing == wheat = 0 \/ sheep = 0
           x == Exchange(d, o, mw, ms)
<1>1. /\ x.amount = amount
      /\ x.cantConvert = (nothing /\ (amount > mw \/ sheep0 > ms))
      /\ x.numWheatReceived = IF nothing THEN 0 ELSE wheat
      /\ x.numSheepSend = IF nothing THEN 0 ELSE sheep
      /\ x.offerTaken = (nothing \/ amount <= wheat)
  <2> HIDE DEF amount
  <2>1. x = [amount |-> amount,
             cantConvert |-> nothing /\ (amount > mw \/ sheep0 > ms),
             numWheatReceived |-> IF nothing THEN 0 ELSE wheat,
             numSheepSend |-> IF nothing THEN 0 ELSE sheep,
             offerTaken |-> nothing \/ amount <= wheat]
    BY DEF Exchange, BiasTowardsSeller, amount
  <2> HIDE DEF x, nothing, wheat, sheep, sheep0
  <2> QED
    BY <2>1, Zenon
<1>2. /\ o.accountID \in Accounts /\ o.takerGets \in Currencies /\ o.takerPays \in Currencies
      /\ o.amount \in Nat /\ o.amount <= MaxInt /\ MaxInt \in Nat
      /\ o.price.n \in Nat \ {0} /\ o.price.d \in Nat \ {0}
  BY OfferFacts, OrderBookAssumption
<1>3. r \in Nat /\ bal \in Nat
  <2>1. r \in 0 .. MaxInt
    BY <1>2, LineFacts
  <2>2. bal \in Nat
    BY <1>2, LineFacts
  <2> QED
    BY <1>2, <2>1, <2>2
<1>4. /\ amount \in Nat /\ amount <= o.amount /\ amount <= bal
      /\ amount <= bigDivide(r, den, n)
      /\ wheat0 \in Nat /\ wheat0 <= amount /\ wheat0 <= mw
      /\ sheep \in Nat /\ sheep <= ms /\ sheep <= bigDivide(wheat0, n, den)
  BY <1>2, <1>3, LimitFacts DEF SellerCanSell
<1> HIDE DEF r, bal, n, den, amount, wheat0, sheep0, sheep
<1>5. n \in Nat \ {0} /\ den \in Nat \ {0}
  BY <1>2 DEF n, den
<1>7. /\ wheat \in Nat /\ wheat <= wheat0 /\ sheep <= r
      /\ wheat * n <= sheep * den /\ sheep * den < (wheat + 1) * n
  BY <1>3, <1>4, <1>5, CrossAmounts
<1> HIDE DEF wheat, x
<1>8. CASE nothing
  <2>1. x.numWheatReceived = 0 /\ x.numSheepSend = 0 /\ x.offerTaken = TRUE
    BY <1>1, <1>8
  <2>2. 0 * n = 0 /\ 0 * den = 0 /\ (0 + 1) * n = n
    BY <1>5
  <2>3. x.cantConvert \in BOOLEAN
    BY <1>1
  <2>4. /\ x.amount \in Nat /\ x.amount <= o.amount
        /\ x.numWheatReceived \in Nat /\ x.numWheatReceived <= mw
        /\ x.numSheepSend \in Nat /\ x.numSheepSend <= ms
        /\ x.numSheepSend <= r /\ x.numWheatReceived <= bal
        /\ x.numWheatReceived * n <= x.numSheepSend * den
        /\ x.numSheepSend * den <= (x.numWheatReceived + 1) * n
    BY <1>1, <1>3, <1>4, <1>5, <2>1, <2>2
  <2> QED
    BY <2>1, <2>3, <2>4 DEF r, bal, n, den, x
<1>9. CASE ~nothing
  <2>1. /\ x.numWheatReceived = wheat /\ x.numSheepSend = sheep /\ wheat # 0 /\ sheep # 0
        /\ x.offerTaken = (amount <= wheat)
    BY <1>1, <1>9
  <2>2. sheep * den \in Int /\ (wheat + 1) * n \in Int
    BY <1>4, <1>5, <1>7
  <2>3. x.cantConvert \in BOOLEAN
    BY <1>1
  <2>4. /\ x.amount \in Nat /\ x.amount <= o.amount
        /\ x.numWheatReceived \in Nat /\ x.numWheatReceived <= mw
        /\ x.numSheepSend \in Nat /\ x.numSheepSend <= ms
        /\ x.numSheepSend <= r /\ x.numWheatReceived <= bal
        /\ x.numWheatReceived * n <= x.numSheepSend * den
        /\ x.numSheepSend * den <= (x.numWheatReceived + 1) * n
        /\ ~x.offerTaken => x.amount - x.numWheatReceived \in 1 .. MaxInt
    <3>1. /\ x.amount \in Nat /\ x.amount <= o.amount
          /\ x.numWheatReceived \in Nat /\ x.numWheatReceived <= mw
          /\ x.numSheepSend \in Nat /\ x.numSheepSend <= ms
          /\ x.numSheepSend <= r /\ x.numWheatReceived <= bal
      BY <1>1, <1>2, <1>3, <1>4, <1>7, <2>1
    <3>2. /\ x.numWheatReceived * n <= x.numSheepSend * den
          /\ x.numSheepSend * den <= (x.numWheatReceived + 1) * n
      BY <1>7, <2>1, <2>2
    <3>3. ~x.offerTaken => x.amount - x.numWheatReceived \in 1 .. MaxInt
      <4>1. ~x.offerTaken => ~(amount <= wheat)
        BY <2>1, Zenon
      <4>2. ~(amount <= wheat) => amount - wheat \in 1 .. MaxInt
        BY <1>2, <1>4, <1>7
      <4>3. x.amount = amount
        BY <1>1
      <4> QED
        BY <2>1, <4>1, <4>2, <4>3, Zenon
    <3> QED
      BY <3>1, <3>2, <3>3
  <2> QED
    BY <2>1, <2>3, <2>4 DEF r, bal, n, den, x
<1> QED
  BY <1>8, <1>9

\* A set without one of its members.
LEMMA CardRemove ==
    ASSUME NEW S, IsFiniteSet(S), NEW x \in S
    PROVE  /\ Cardinality(S \ {x}) = Cardinality(S) - 1 /\ IsFiniteSet(S \ {x})
           /\ Cardinality(S) \in Nat /\ Cardinality(S \ {x}) \in Nat
BY FS_RemoveElement, FS_CardinalityType

\* A set with another member in place of one.
LEMMA CardReplace ==
    ASSUME NEW S, IsFiniteSet(S), NEW x \in S, NEW y, y \notin S \ {x}
    PROVE  /\ Cardinality((S \ {x}) \cup {y}) = Cardinality(S)
           /\ IsFiniteSet((S \ {x}) \cup {y})
<1>1. IsFiniteSet(S \ {x}) /\ Cardinality(S \ {x}) = Cardinality(S) - 1 /\ Cardinality(S) \in Nat
  BY CardRemove
<1>2. /\ IsFiniteSet((S \ {x}) \cup {y})
      /\ Cardinality((S \ {x}) \cup {y}) = Cardinality(S \ {x}) + 1
  BY <1>1, FS_AddElement
<1> QED
  BY <1>1, <1>2

\* A deleted offer is one less of its account and of its book.
LEMMA OfferRemoved ==
    ASSUME NEW d, TablesOK(d), NEW e, NEW o \in d.offers, e.offers = d.offers \ {o}
    PROVE  /\ \A a : Cardinality(OffersIn(e, a)) =
                        Cardinality(OffersIn(d, a)) - (IF a = o.accountID THEN 1 ELSE 0)
           /\ \A s, w : Cardinality(OffersFor(e, s, w)) =
                           Cardinality(OffersFor(d, s, w))
                           - (IF s = o.takerPays /\ w = o.takerGets THEN 1 ELSE 0)
<1>1. ASSUME NEW a
      PROVE  Cardinality(OffersIn(e, a)) =
                 Cardinality(OffersIn(d, a)) - (IF a = o.accountID THEN 1 ELSE 0)
  <2>0. IsFiniteSet(OffersIn(d, a)) /\ Cardinality(OffersIn(d, a)) \in Nat
    BY BookFinite
  <2>1. CASE a = o.accountID
    <3>1. OffersIn(e, a) = OffersIn(d, a) \ {o} /\ o \in OffersIn(d, a)
      BY <2>1 DEF OffersIn
    <3> QED
      BY <2>0, <2>1, <3>1, CardRemove
  <2>2. CASE a # o.accountID
    <3>1. OffersIn(e, a) = OffersIn(d, a)
      BY <2>2 DEF OffersIn
    <3> QED
      BY <2>0, <2>2, <3>1
  <2> QED
    BY <2>1, <2>2
<1>2. ASSUME NEW s, NEW w
      PROVE  Cardinality(OffersFor(e, s, w)) =
                 Cardinality(OffersFor(d, s, w))
                 - (IF s = o.takerPays /\ w = o.takerGets THEN 1 ELSE 0)
  <2>0. IsFiniteSet(OffersFor(d, s, w)) /\ Cardinality(OffersFor(d, s, w)) \in Nat
    BY BookFinite
  <2>1. CASE s = o.takerPays /\ w = o.takerGets
    <3>1. OffersFor(e, s, w) = OffersFor(d, s, w) \ {o} /\ o \in OffersFor(d, s, w)
      BY <2>1 DEF OffersFor
    <3> QED
      BY <2>0, <2>1, <3>1, CardRemove
  <2>2. CASE ~(s = o.takerPays /\ w = o.takerGets)
    <3>1. OffersFor(e, s, w) = OffersFor(d, s, w)
      BY <2>2 DEF OffersFor
    <3> QED
      BY <2>0, <2>2, <3>1
  <2> QED
    BY <2>1, <2>2
<1> QED
  BY <1>1, <1>2

\* An offer whose amount changes counts as before.
LEMMA OfferReplaced ==
    ASSUME NEW d, TablesOK(d), NEW e, NEW o \in d.offers, NEW p,
           p.offerID = o.offerID, p.accountID = o.accountID,
           p.takerGets = o.takerGets, p.takerPays = o.takerPays,
           e.offers = (d.offers \ {o}) \cup {p}
    PROVE  /\ \A a : Cardinality(OffersIn(e, a)) = Cardinality(OffersIn(d, a))
           /\ \A s, w : Cardinality(OffersFor(e, s, w)) = Cardinality(OffersFor(d, s, w))
           /\ IsFiniteSet(e.offers)
           /\ \A q, r \in e.offers : q.offerID = r.offerID => q = r
<1>0. p \notin d.offers \ {o}
  BY DEF TablesOK
<1>1. ASSUME NEW a PROVE Cardinality(OffersIn(e, a)) = Cardinality(OffersIn(d, a))
  <2>0. IsFiniteSet(OffersIn(d, a))
    BY BookFinite
  <2>1. CASE a = o.accountID
    <3>1. OffersIn(e, a) = (OffersIn(d, a) \ {o}) \cup {p} /\ o \in OffersIn(d, a)
      BY <2>1 DEF OffersIn
    <3>2. p \notin OffersIn(d, a) \ {o}
      BY <1>0 DEF OffersIn
    <3> QED
      BY <2>0, <3>1, <3>2, CardReplace
  <2>2. CASE a # o.accountID
    <3>1. OffersIn(e, a) = OffersIn(d, a)
      BY <2>2 DEF OffersIn
    <3> QED
      BY <3>1
  <2> QED
    BY <2>1, <2>2
<1>2. ASSUME NEW s, NEW w
      PROVE  Cardinality(OffersFor(e, s, w)) = Cardinality(OffersFor(d, s, w))
  <2>0. IsFiniteSet(OffersFor(d, s, w))
    BY BookFinite
  <2>1. CASE s = o.takerPays /\ w = o.takerGets
    <3>1. OffersFor(e, s, w) = (OffersFor(d, s, w) \ {o}) \cup {p} /\ o \in OffersFor(d, s, w)
      BY <2>1 DEF OffersFor
    <3>2. p \notin OffersFor(d, s, w) \ {o}
      BY <1>0 DEF OffersFor
    <3> QED
      BY <2>0, <3>1, <3>2, CardReplace
  <2>2. CASE ~(s = o.takerPays /\ w = o.takerGets)
    <3>1. OffersFor(e, s, w) = OffersFor(d, s, w)
      BY <2>2 DEF OffersFor
    <3> QED
      BY <3>1
  <2> QED
    BY <2>1, <2>2
<1>3. IsFiniteSet(e.offers)
  BY <1>0, CardReplace DEF TablesOK
<1>4. \A q, r \in e.offers : q.offerID = r.offerID => q = r
  BY DEF TablesOK
<1> QED
  BY <1>1, <1>2, <1>3, <1>4

\* Counting depends on which lines there are, on the offers and on the counts.
LEMMA CountedFacts ==
    ASSUME NEW d, NEW e, Counted(d), e.numSubEntries = d.numSubEntries,
           e.miscounted = d.miscounted,
           \A a \in Accounts : Cardinality(OffersIn(e, a)) = Cardinality(OffersIn(d, a)),
           \A h \in Holdings : e.lines[h] = Absent <=> d.lines[h] = Absent
    PROVE  Counted(e)
<1>1. \A a : LinesIn(e, a) = LinesIn(d, a)
  BY DEF LinesIn
<1> QED
  BY <1>1 DEF Counted

\* The offer after an exchange: the tables stay in order, no line changes and
\* the offer is gone or still there for less.
LEMMA UpdateOfferFacts ==
    ASSUME NEW d, TablesOK(d), Counted(d), NEW o \in d.offers, NEW x,
           x.offerTaken \in BOOLEAN,
           x.offerTaken => d.numSubEntries[o.accountID] > 0,
           ~x.offerTaken => x.amount - x.numWheatReceived \in 1 .. MaxInt
    PROVE  LET e == UpdateOffer(d, o, x) IN
           /\ TablesOK(e) /\ Counted(e)
           /\ e.lines = d.lines /\ e.issued = d.issued /\ e.unpaid = d.unpaid
           /\ \A s, w : Cardinality(OffersFor(e, s, w)) <= Cardinality(OffersFor(d, s, w))
           /\ x.offerTaken =>
                 /\ OffersFor(e, o.takerPays, o.takerGets) =
                       OffersFor(d, o.takerPays, o.takerGets) \ {o}
                 /\ Cardinality(OffersFor(e, o.takerPays, o.takerGets)) =
                       Cardinality(OffersFor(d, o.takerPays, o.takerGets)) - 1
<1> DEFINE e == UpdateOffer(d, o, x)
<1>0. d \in Tables
  BY DEF TablesOK
<1>1. /\ o \in OfferRow /\ o.accountID \in Accounts
      /\ \A s, w : Cardinality(OffersFor(d, s, w)) \in Nat
      /\ \A a : Cardinality(OffersIn(d, a)) \in Nat
  BY OfferFacts, BookFinite
<1>2. CASE x.offerTaken
  <2>1. e = [d EXCEPT !.offers = @ \ {o}, !.numSubEntries[o.accountID] = @ - 1]
    BY <1>2 DEF UpdateOffer
  <2>2. /\ e.lines = d.lines /\ e.issued = d.issued /\ e.unpaid = d.unpaid
        /\ e.idPool = d.idPool /\ e.miscounted = d.miscounted
        /\ e.offers = d.offers \ {o}
        /\ e.numSubEntries = [d.numSubEntries EXCEPT ![o.accountID] = @ - 1]
        /\ DOMAIN e = DOMAIN d
    BY <1>0, <1>1, <2>1 DEF Tables
  <2>3. \A a \in Accounts : /\ d.numSubEntries[a] \in Nat
                            /\ e.numSubEntries[a] =
                                 d.numSubEntries[a] - (IF a = o.accountID THEN 1 ELSE 0)
    BY <1>0, <1>1, <2>2 DEF Tables
  <2>4. e \in Tables
    <3>1. e.numSubEntries \in [Accounts -> Nat]
      BY <1>0, <1>1, <1>2, <2>2 DEF Tables
    <3>2. e.offers \in SUBSET OfferRow
      BY <1>0, <2>2 DEF Tables
    <3> QED
      BY <1>0, <2>1, <3>1, <3>2 DEF Tables
  <2> HIDE DEF e
  <2>5. TablesOK(e)
    <3>1. IsFiniteSet(d.offers \ {o})
      BY CardRemove DEF TablesOK
    <3> QED
      BY <2>2, <2>4, <3>1 DEF TablesOK
  <2>6. /\ \A a : Cardinality(OffersIn(e, a)) =
                     Cardinality(OffersIn(d, a)) - (IF a = o.accountID THEN 1 ELSE 0)
        /\ \A s, w : Cardinality(OffersFor(e, s, w)) =
                        Cardinality(OffersFor(d, s, w))
                        - (IF s = o.takerPays /\ w = o.takerGets THEN 1 ELSE 0)
    BY <2>2, OfferRemoved
  <2>7. Counted(e)
    <3> SUFFICES ASSUME NEW a \in Accounts
                 PROVE  e.numSubEntries[a] = Cardinality(LinesIn(e, a))
                           + Cardinality(OffersIn(e, a)) + e.miscounted[a]
      BY DEF Counted
    <3>0. LinesIn(e, a) = LinesIn(d, a)
      BY <2>2 DEF LinesIn
    <3>1. Cardinality(LinesIn(d, a)) \in Nat
      BY HoldingsFinite
    <3>2. d.miscounted[a] \in Int /\ Cardinality(OffersIn(d, a)) \in Nat
      BY <1>0, <1>1 DEF Tables
    <3>3. d.numSubEntries[a] = Cardinality(LinesIn(d, a)) + Cardinality(OffersIn(d, a))
                                   + d.miscounted[a]
      BY DEF Counted
    <3>4. Cardinality(OffersIn(e, a)) =
              Cardinality(OffersIn(d, a)) - (IF a = o.accountID THEN 1 ELSE 0)
      BY <2>6
    <3> QED
      BY <2>2, <2>3, <3>0, <3>1, <3>2, <3>3, <3>4
  <2>8. \A s, w : Cardinality(OffersFor(e, s, w)) <= Cardinality(OffersFor(d, s, w))
    BY <1>1, <2>6
  <2>9. /\ OffersFor(e, o.takerPays, o.takerGets) = OffersFor(d, o.takerPays, o.takerGets) \ {o}
        /\ Cardinality(OffersFor(e, o.takerPays, o.takerGets)) =
              Cardinality(OffersFor(d, o.takerPays, o.takerGets)) - 1
    BY <2>2, <2>6 DEF OffersFor
  <2> QED
    BY <2>2, <2>5, <2>7, <2>8, <2>9 DEF e
<1>3. CASE ~x.offerTaken
  <2> DEFINE p == [o EXCEPT !.amount = x.amount - x.numWheatReceived]
  <2>1. e = [d EXCEPT !.offers = (@ \ {o}) \cup {p}]
    BY <1>3 DEF UpdateOffer
  <2>2. /\ p \in OfferRow /\ p.offerID = o.offerID /\ p.accountID = o.accountID
        /\ p.takerGets = o.takerGets /\ p.takerPays = o.takerPays
    BY <1>1, <1>3 DEF OfferRow
  <2> HIDE DEF p
  <2>3. /\ e.lines = d.lines /\ e.issued = d.issued /\ e.unpaid = d.unpaid
        /\ e.idPool = d.idPool /\ e.miscounted = d.miscounted
        /\ e.numSubEntries = d.numSubEntries
        /\ e.offers = (d.offers \ {o}) \cup {p}
        /\ e \in Tables
    BY <1>0, <2>1, <2>2 DEF Tables
  <2> HIDE DEF e
  <2>4. /\ \A a : Cardinality(OffersIn(e, a)) = Cardinality(OffersIn(d, a))
        /\ \A s, w : Cardinality(OffersFor(e, s, w)) = Cardinality(OffersFor(d, s, w))
        /\ IsFiniteSet(e.offers)
        /\ \A q, r \in e.offers : q.offerID = r.offerID => q = r
    <3>1. /\ p.offerID = o.offerID /\ p.accountID = o.accountID
          /\ p.takerGets = o.takerGets /\ p.takerPays = o.takerPays
          /\ e.offers = (d.offers \ {o}) \cup {p}
      BY <2>2, <2>3
    <3> QED
      BY ONLY <3>1, TablesOK(d), o \in d.offers, OfferReplaced
  <2>5. TablesOK(e)
    BY <2>2, <2>3, <2>4 DEF TablesOK
  <2>6. Counted(e)
    BY <2>3, <2>4, CountedFacts
  <2>7. \A s, w : Cardinality(OffersFor(e, s, w)) <= Cardinality(OffersFor(d, s, w))
    BY <1>1, <2>4
  <2> QED
    BY <1>3, <2>3, <2>5, <2>6, <2>7 DEF e
<1> QED
  BY <1>2, <1>3

-----------------------------------------------------------------------------
(* The book in the order of its column of prices.                          *)

\* No offer is before one that is before it.
LEMMA BeforeFacts ==
    ASSUME NEW o \in OfferRow, NEW p \in OfferRow
    PROVE  /\ Before(o, p) => ~Before(p, o)
           /\ Before(o, p) => computePrice(o.price) <= computePrice(p.price)
<1>1. /\ computePrice(o.price) \in Nat /\ computePrice(p.price) \in Nat
      /\ o.offerID \in Nat /\ p.offerID \in Nat
  BY PriceFacts DEF OfferRow
<1> QED
  BY <1>1 DEF Before

\* A set of offers, no two of one id, has one before all others.
LEMMA BestExists ==
    ASSUME NEW S \in SUBSET OfferRow, S # {},
           \A o, p \in S : o.offerID = p.offerID => o = p
    PROVE  \E x \in S : \A y \in S \ {x} : Before(x, y)
<1>0. \A o \in S : computePrice(o.price) \in Nat /\ o.offerID \in Nat
  BY PriceFacts DEF OfferRow
<1> DEFINE prices == {computePrice(o.price) : o \in S}
<1>1. prices \in SUBSET Nat /\ prices # {}
  BY <1>0
<1>2. PICK low \in prices : \A y \in prices : low <= y
  <2> HIDE DEF prices
  <2> QED
    BY <1>1, LeastNatural
<1> DEFINE cheap == {o \in S : computePrice(o.price) = low}
           ids == {o.offerID : o \in cheap}
<1>3. cheap # {} /\ cheap \subseteq S
  BY <1>2
<1>4. ids \in SUBSET Nat /\ ids # {}
  BY <1>0, <1>3
<1>5. PICK first \in ids : \A y \in ids : first <= y
  <2> HIDE DEF ids
  <2> QED
    BY <1>4, LeastNatural
<1>6. PICK x \in cheap : x.offerID = first
  BY <1>5
<1>7. x \in S /\ computePrice(x.price) = low /\ low \in Nat /\ first \in Nat
  BY <1>0, <1>6
<1>8. ASSUME NEW y \in S \ {x} PROVE Before(x, y)
  <2>1. computePrice(y.price) \in Nat /\ low <= computePrice(y.price) /\ y.offerID \in Nat
    BY <1>0, <1>2
  <2>2. CASE computePrice(y.price) = low
    <3>1. y.offerID \in ids /\ y.offerID # first
      BY <1>6, <1>7, <2>2
    <3> QED
      BY <1>5, <1>6, <1>7, <2>1, <2>2, <3>1 DEF Before
  <2>3. CASE computePrice(y.price) # low
    BY <1>7, <2>1, <2>3 DEF Before
  <2> QED
    BY <2>2, <2>3
<1> QED
  BY <1>7, <1>8

Ascending(s) == \A i, j \in DOMAIN s : i < j => Before(s[i], s[j])

\* Such a set can be listed in that order.
LEMMA SortExists ==
    ASSUME NEW book \in SUBSET OfferRow, IsFiniteSet(book),
           \A o, p \in book : o.offerID = p.offerID => o = p
    PROVE  \E seq \in SetToSeqs(book) : Ascending(seq)
<1> DEFINE Sortable(s) == \E seq \in SetToSeqs(s) : Ascending(seq)
           G == {s \in SUBSET book : Sortable(s)}
<1>1. ASSUME NEW s \in SUBSET book, \A x \in s : s \ {x} \in G PROVE s \in G
  <2>1. IsFiniteSet(s) /\ Cardinality(s) \in Nat
    BY FS_Subset, FS_CardinalityType
  <2>2. CASE s = {}
    <3>1. Cardinality(s) = 0
      BY <2>2, FS_EmptySet
    <3>2. <<>> \in SetToSeqs(s) /\ Ascending(<<>>)
      BY <3>1 DEF SetToSeqs, Ascending
    <3> QED
      BY <3>2
  <2>3. CASE s # {}
    <3>1. PICK x \in s : \A y \in s \ {x} : Before(x, y)
      BY <2>3, BestExists
    <3>2. PICK rest \in SetToSeqs(s \ {x}) : Ascending(rest)
      BY <1>1
    <3> DEFINE n == Cardinality(s)
               seq == [i \in 1 .. n |-> IF i = 1 THEN x ELSE rest[i - 1]]
    <3>3. Cardinality(s \ {x}) = n - 1
      BY <2>1, FS_RemoveElement
    <3>4. /\ rest \in [1 .. n - 1 -> s \ {x}]
          /\ \A i, j \in 1 .. n - 1 : i # j => rest[i] # rest[j]
      BY <3>2, <3>3 DEF SetToSeqs
    <3>5. \A i \in 1 .. n : i # 1 => i - 1 \in 1 .. n - 1 /\ rest[i - 1] \in s \ {x}
      BY <2>1, <3>4
    <3>6. seq \in [1 .. n -> s]
      BY <3>5
    <3>7. \A i, j \in 1 .. n : i # j => seq[i] # seq[j]
      BY <2>1, <3>4, <3>5
    <3>8. \A i, j \in 1 .. n : i < j => Before(seq[i], seq[j])
      <4> SUFFICES ASSUME NEW i \in 1 .. n, NEW j \in 1 .. n, i < j
                   PROVE  Before(seq[i], seq[j])
        OBVIOUS
      <4>1. j # 1 /\ seq[j] = rest[j - 1] /\ seq[j] \in s \ {x}
        BY <2>1, <3>5
      <4>2. CASE i = 1
        BY <4>1, <4>2, <3>1
      <4>3. CASE i # 1
        <5>1. i - 1 \in DOMAIN rest /\ j - 1 \in DOMAIN rest /\ i - 1 < j - 1
          BY <4>1, <4>3, <3>4, <3>5, <2>1
        <5> QED
          BY <5>1, <4>1, <4>3, <3>2 DEF Ascending
      <4> QED
        BY <4>2, <4>3
    <3> HIDE DEF seq
    <3>9. seq \in SetToSeqs(s)
      BY <3>6, <3>7 DEF SetToSeqs
    <3>10. Ascending(seq)
      BY <3>6, <3>8 DEF Ascending
    <3> QED
      BY <3>9, <3>10
  <2> QED
    BY <2>2, <2>3
<1>2. SUBSET book \subseteq G
  <2> HIDE DEF G
  <2> QED
    BY <1>1, SubsetsAreGood
<1> QED
  BY <1>2

\* A list of all of a finite set, each once, misses none.
LEMMA ListHasAll ==
    ASSUME NEW S, IsFiniteSet(S), NEW s \in SetToSeqs(S)
    PROVE  /\ s \in [1 .. Cardinality(S) -> S]
           /\ \A x \in S : \E i \in 1 .. Cardinality(S) : s[i] = x
<1> DEFINE n == Cardinality(S)
<1>1. n \in Nat
  BY FS_CardinalityType
<1>2. s \in [1 .. n -> S] /\ \A i, j \in 1 .. n : i # j => s[i] # s[j]
  BY DEF SetToSeqs
<1>3. IsFiniteSet(1 .. n) /\ Cardinality(1 .. n) = n
  BY <1>1, FS_Interval
<1>4. s \in Injection(1 .. n, S)
  BY <1>2 DEF Injection, IsInjective
<1>5. s \in Surjection(1 .. n, S)
  BY <1>3, <1>4, FS_Injection
<1> QED
  BY <1>2, <1>5 DEF Surjection

\* A page from offset 0 is the beginning of the book, and all of it if the page
\* is not full.
LEMMA BestOffersArePage ==
    ASSUME NEW d, TablesOK(d), NEW sheep, NEW wheat
    PROVE  LET page == loadBestOffers(d, sheep, wheat, 0)
               book == OffersFor(d, sheep, wheat)
           IN  /\ IsPage(page, book)
               /\ Len(page) < PageSize =>
                     \A o \in book : \E j \in DOMAIN page : page[j] = o
<1> DEFINE book == OffersFor(d, sheep, wheat)
           sorted == CHOOSE s \in SetToSeqs(book) :
                         \A i, j \in DOMAIN s : i < j => Before(s[i], s[j])
           n == Cardinality(book)
           m == Min({0 + PageSize, Len(sorted)})
           page == loadBestOffers(d, sheep, wheat, 0)
<1>1. /\ book \in SUBSET OfferRow /\ IsFiniteSet(book) /\ n \in Nat
      /\ \A o, p \in book : o.offerID = p.offerID => o = p
  <2>1. book \in SUBSET OfferRow /\ \A o, p \in book : o.offerID = p.offerID => o = p
    BY DEF OffersFor, TablesOK, Tables
  <2> QED
    BY <2>1, BookFinite
<1>2. page = SubSeq(sorted, 0 + 1, m)
  BY DEF loadBestOffers
<1>3. sorted \in SetToSeqs(book) /\ Ascending(sorted)
  <2> HIDE DEF book
  <2>1. \E seq \in SetToSeqs(book) : Ascending(seq)
    BY <1>1, SortExists
  <2> QED
    BY <2>1, Zenon DEF Ascending
<1> HIDE DEF book, sorted
<1>4. /\ sorted \in [1 .. n -> book]
      /\ \A x \in book : \E i \in 1 .. n : sorted[i] = x
  BY <1>1, <1>3, ListHasAll
<1> HIDE DEF n
<1>5. sorted \in Seq(book) /\ Len(sorted) = n
  BY <1>1, <1>4
<1>6. m \in Nat /\ m <= n /\ m <= PageSize /\ (m = n \/ m = PageSize)
  <2> HIDE DEF n
  <2>1. PageSize \in Nat /\ m = Min({PageSize, n})
    BY <1>1, <1>5, OrderBookAssumption
  <2>2. \A a, b \in Nat : LET x == Min({a, b}) IN x \in Nat /\ x <= a /\ x <= b /\ (x = a \/ x = b)
    BY DEF Min
  <2> HIDE DEF m
  <2> QED
    BY <1>1, <2>1, <2>2
<1> HIDE DEF m
<1>7. page = SubSeq(sorted, 1, m)
  BY <1>2
<1> HIDE DEF page
<1>8. /\ page \in Seq(book) /\ Len(page) = m /\ DOMAIN page = 1 .. m
      /\ \A i \in 1 .. m : page[i] = sorted[i]
  BY <1>5, <1>6, <1>7
<1>9. \A i, j \in 1 .. m : i < j => Before(page[i], page[j])
  <2> SUFFICES ASSUME NEW i \in 1 .. m, NEW j \in 1 .. m, i < j PROVE Before(page[i], page[j])
    OBVIOUS
  <2>1. i \in DOMAIN sorted /\ j \in DOMAIN sorted
    BY <1>1, <1>4, <1>6
  <2> QED
    BY <1>3, <1>8, <2>1 DEF Ascending
<1>10. ASSUME NEW o \in book, \A j \in 1 .. m : page[j] # o, NEW i \in 1 .. m
       PROVE  Before(page[i], o)
  <2>1. PICK j \in 1 .. n : sorted[j] = o
    BY <1>4
  <2>2. j \notin 1 .. m
    BY <1>8, <1>10, <2>1
  <2>3. i < j /\ i \in DOMAIN sorted /\ j \in DOMAIN sorted
    BY <1>1, <1>4, <1>6, <2>2
  <2> QED
    BY <1>3, <1>8, <2>1, <2>3 DEF Ascending
<1>11. IsPage(page, book)
  BY <1>8, <1>9, <1>10 DEF IsPage
<1>12. ASSUME Len(page) < PageSize, NEW o \in book PROVE \E j \in DOMAIN page : page[j] = o
  <2>1. m = n
    BY <1>6, <1>8, <1>12, OrderBookAssumption
  <2> QED
    BY <1>4, <1>8, <2>1
<1> QED
  BY <1>11, <1>12 DEF page, book

\* Without its best offer the page is the beginning of the book without it.
LEMMA PageTail ==
    ASSUME NEW book \in SUBSET OfferRow, NEW s, IsPage(s, book), s # <<>>
    PROVE  /\ Head(s) \in book
           /\ \A o \in book : ~Before(o, Head(s))
           /\ \A o \in book \ {Head(s)} : Before(Head(s), o)
           /\ IsPage(Tail(s), book \ {Head(s)})
           /\ Len(Tail(s)) = Len(s) - 1 /\ Len(s) \in Nat
           /\ \A o \in book \ {Head(s)} : (\E j \in DOMAIN s : s[j] = o) =>
                 \E j \in DOMAIN Tail(s) : Tail(s)[j] = o
<1> DEFINE n == Len(s)
           t == Tail(s)
<1>1. s \in Seq(book) /\ n \in Nat /\ n > 0 /\ DOMAIN s = 1 .. n /\ Head(s) = s[1]
  BY DEF IsPage
<1>2. /\ t \in Seq(book) /\ Len(t) = n - 1 /\ DOMAIN t = 1 .. n - 1
      /\ \A i \in 1 .. n - 1 : t[i] = s[i + 1]
  BY <1>1
<1>3. /\ \A i, j \in 1 .. n : i < j => Before(s[i], s[j])
      /\ \A o \in book : (\A j \in 1 .. n : s[j] # o) => \A i \in 1 .. n : Before(s[i], o)
  BY <1>1 DEF IsPage
<1> HIDE DEF n, t
<1>4. s[1] \in book /\ \A i \in 1 .. n : s[i] \in book
  BY <1>1
<1>5. \A o \in book : ~Before(o, o)
  BY BeforeFacts
<1>6. \A i \in 1 .. n : i # 1 => s[i] # s[1]
  BY <1>1, <1>3, <1>4, <1>5
<1>7. ASSUME NEW o \in book, o # s[1] PROVE Before(s[1], o)
  <2>1. CASE \E j \in 1 .. n : s[j] = o
    BY <1>1, <1>3, <1>7, <2>1
  <2>2. CASE \A j \in 1 .. n : s[j] # o
    BY <1>1, <1>3, <2>2
  <2> QED
    BY <2>1, <2>2
<1>8. \A o \in book : ~Before(o, s[1])
  BY <1>4, <1>5, <1>7, BeforeFacts
<1>9. t \in Seq(book \ {s[1]})
  <2>1. \A i \in 1 .. n - 1 : t[i] \in book \ {s[1]}
    <3> SUFFICES ASSUME NEW i \in 1 .. n - 1 PROVE t[i] \in book \ {s[1]}
      OBVIOUS
    <3>1. i + 1 \in 1 .. n /\ i + 1 # 1 /\ t[i] = s[i + 1]
      BY <1>1, <1>2
    <3> QED
      BY <3>1, <1>4, <1>6
  <2> QED
    BY <1>1, <1>2, <2>1
<1>10. \A i, j \in 1 .. n - 1 : i < j => Before(t[i], t[j])
  <2> SUFFICES ASSUME NEW i \in 1 .. n - 1, NEW j \in 1 .. n - 1, i < j
               PROVE  Before(t[i], t[j])
    OBVIOUS
  <2>1. i + 1 \in 1 .. n /\ j + 1 \in 1 .. n /\ i + 1 < j + 1
    BY <1>1
  <2> QED
    BY <1>2, <1>3, <2>1
<1>11. ASSUME NEW o \in book \ {s[1]}, \E j \in 1 .. n : s[j] = o
       PROVE  \E j \in 1 .. n - 1 : t[j] = o
  <2>1. PICK j \in 1 .. n : s[j] = o
    BY <1>11
  <2>2. j # 1 /\ j - 1 \in 1 .. n - 1 /\ t[j - 1] = s[(j - 1) + 1] /\ (j - 1) + 1 = j
    BY <1>1, <1>2, <1>11, <2>1
  <2> QED
    BY <2>1, <2>2
<1>12. ASSUME NEW o \in book \ {s[1]}, \A j \in 1 .. n - 1 : t[j] # o, NEW i \in 1 .. n - 1
       PROVE  Before(t[i], o)
  <2>1. \A j \in 1 .. n : s[j] # o
    BY <1>11, <1>12
  <2>2. i + 1 \in 1 .. n /\ t[i] = s[i + 1]
    BY <1>1, <1>2
  <2> QED
    BY <1>3, <2>1, <2>2
<1>13. IsPage(t, book \ {s[1]})
  BY <1>2, <1>9, <1>10, <1>12 DEF IsPage
<1> QED
  BY <1>1, <1>2, <1>4, <1>7, <1>8, <1>11, <1>13 DEF n, t

-----------------------------------------------------------------------------
(* Prices.                                                                 *)

\* The buyer's price so far, and after one more offer that is not too dear.
LEMMA BuyersPriceStep ==
    ASSUME NEW sent \in Nat, NEW got \in Nat, NEW crossed \in Nat,
           NEW pn \in Nat \ {0}, NEW pd \in Nat \ {0}, sent * pn <= (got + crossed) * pd,
           NEW sheep \in Nat, NEW wheat \in Nat, NEW on \in Nat \ {0}, NEW od \in Nat \ {0},
           sheep * od <= (wheat + 1) * on,
           ~(on * pn > od * pd)
    PROVE  (sent + sheep) * pn <= ((got + wheat) + (crossed + 1)) * pd
<1>0. on * pn \in Nat /\ od * pd \in Nat /\ sheep * od \in Nat /\ (wheat + 1) * on \in Nat
  BY TimesMonotone
<1>1. (sheep * od) * pn <= ((wheat + 1) * on) * pn
  BY <1>0, TimesMonotone
<1>2. (on * pn) * (wheat + 1) <= (od * pd) * (wheat + 1)
  <2>1. on * pn <= od * pd
    BY <1>0
  <2> QED
    BY <1>0, <2>1, TimesMonotone
<1>3. ((wheat + 1) * on) * pn = (on * pn) * (wheat + 1)
  OBVIOUS
<1>4. (od * pd) * (wheat + 1) = ((wheat + 1) * pd) * od
  OBVIOUS
<1>5. (sheep * od) * pn = (sheep * pn) * od
  OBVIOUS
<1>6. sheep * pn \in Nat /\ (wheat + 1) * pd \in Nat
  BY TimesMonotone
<1>7. (sheep * pn) * od <= ((wheat + 1) * pd) * od
  <2>1. /\ (sheep * od) * pn \in Int /\ (on * pn) * (wheat + 1) \in Int
        /\ (od * pd) * (wheat + 1) \in Int
    OBVIOUS
  <2> QED
    BY <1>1, <1>2, <1>3, <1>4, <1>5, <2>1
<1>8. sheep * pn <= (wheat + 1) * pd
  BY <1>6, <1>7, TimesCancel
<1>9. /\ (sent + sheep) * pn = sent * pn + sheep * pn
      /\ ((got + wheat) + (crossed + 1)) * pd = (got + crossed) * pd + (wheat + 1) * pd
  OBVIOUS
<1>10. sent * pn \in Nat /\ (got + crossed) * pd \in Nat
  BY TimesMonotone
<1> QED
  BY <1>6, <1>8, <1>9, <1>10

\* Of two prices the lower one has no higher column.
LEMMA ColumnMonotone ==
    ASSUME NEW b \in OpPrices, NEW q \in OpPrices, q.n * b.d < b.n * q.d
    PROVE  computePrice(q) <= computePrice(b)
<1> DEFINE D == PriceDivisor
           c == computePrice(q)
           e == computePrice(b)
<1>1. /\ b.n \in Nat \ {0} /\ b.d \in Nat \ {0} /\ q.n \in Nat \ {0} /\ q.d \in Nat \ {0}
      /\ c \in Nat /\ e \in Nat
  BY PriceFacts
<1>2. D \in Nat \ {0}
  BY OrderBookAssumption
<1> SUFFICES ASSUME e + 1 <= c PROVE FALSE
  BY <1>1
<1>3. c * q.d <= q.n * D /\ b.n * D < (e + 1) * b.d
  <2>1. q.n * D \in Nat /\ b.n * D \in Nat
    BY <1>1, <1>2, TimesMonotone
  <2> QED
    BY <1>1, <2>1, DivideFacts DEF computePrice, bigDivide
<1> HIDE DEF D, c, e
<1>4. ASSUME NEW bn \in Nat \ {0}, NEW bd \in Nat \ {0}, NEW qn \in Nat \ {0},
             NEW qd \in Nat \ {0}, NEW cc \in Nat, NEW ee \in Nat, NEW DD \in Nat \ {0},
             ee + 1 <= cc, cc * qd <= qn * DD, bn * DD < (ee + 1) * bd, qn * bd < bn * qd
      PROVE  FALSE
  <2>1. bn * DD < cc * bd
    <3>1. (ee + 1) * bd <= cc * bd /\ (ee + 1) * bd \in Nat /\ cc * bd \in Nat
      BY <1>4, TimesMonotone
    <3>2. bn * DD \in Nat
      BY TimesMonotone
    <3> QED
      BY <1>4, <3>1, <3>2
  <2>2. (bn * DD) * qd <= (cc * bd) * qd
    <3>1. bn * DD \in Nat /\ cc * bd \in Nat
      BY TimesMonotone
    <3> QED
      BY <2>1, <3>1, TimesMonotone
  <2>3. (cc * qd) * bd <= (qn * DD) * bd
    <3>1. cc * qd \in Nat /\ qn * DD \in Nat
      BY TimesMonotone
    <3> QED
      BY <1>4, <3>1, TimesMonotone
  <2>4. /\ (bn * DD) * qd = (bn * qd) * DD /\ (cc * bd) * qd = (cc * qd) * bd
        /\ (qn * DD) * bd = (qn * bd) * DD
    OBVIOUS
  <2>5. bn * qd \in Nat /\ qn * bd \in Nat
    BY TimesMonotone
  <2>6. (qn * bd + 1) * DD <= (bn * qd) * DD
    BY <1>4, <2>5, TimesMonotone
  <2>7. (qn * bd + 1) * DD = (qn * bd) * DD + DD
    OBVIOUS
  <2>8. /\ (bn * qd) * DD \in Int /\ (qn * bd) * DD \in Int /\ (cc * qd) * bd \in Int
        /\ (qn * bd + 1) * DD \in Int
    OBVIOUS
  <2> QED
    BY <2>2, <2>3, <2>4, <2>6, <2>7, <2>8
<1> QED
  BY <1>1, <1>2, <1>3, <1>4

-----------------------------------------------------------------------------
(* Between transactions.                                                   *)

\* Which kind of call is in progress.
LEMMA CallFacts ==
    ASSUME CallOK
    PROVE  /\ call.stage \in {"idle", "path", "load", "each", "end"}
           /\ call = Idle <=> call.stage = "idle"
           /\ call.stage = "path" => call \in PathCall
           /\ Converting => /\ call \in ConversionCall
                            /\ call.type = "offer" => call.op \in CreateOfferOps
                            /\ call.type = "payment" => call.op \in PaymentOps
<1>1. Idle.stage = "idle"
  BY DEF Idle
<1>2. call \in PathCall => call.stage = "path"
  BY DEF PathCall
<1>3. call \in ConversionCall => call.stage \in {"load", "each", "end"}
  BY DEF ConversionCall
<1> QED
  BY <1>1, <1>2, <1>3 DEF CallOK, Converting

\* A number of operations that is no more than the bound.
LEMMA BoundsFacts ==
    /\ MaxInt \in Nat /\ MaxOps \in Nat /\ PageSize \in Nat \ {0} /\ PriceDivisor \in Nat \ {0}
BY OrderBookAssumption

\* Nothing is in progress, and the tables are in order.
LEMMA IdleInv ==
    ASSUME call' = Idle, applied' \in 0 .. MaxOps,
           TablesOK(db'), TablesOK(saved'), Counted(db'), Counted(saved'),
           \A c \in Currencies : Net(db', c) = 0 /\ Net(saved', c) = 0
    PROVE  IInv'
<1>1. call'.stage = "idle"
  BY DEF Idle
<1>2. ~Converting'
  BY <1>1 DEF Converting
<1>3. BooksInv'
  BY DEF BooksInv, CallOK
<1>4. MoneyInv'
  BY <1>1, <1>2 DEF MoneyInv, InFlight
<1>5. AmountInv' /\ SourceInv'
  BY <1>2 DEF AmountInv, SourceInv, Offering
<1>6. PageInv'
  BY <1>1 DEF PageInv
<1>7. CrossedInv'
  BY <1>2 DEF CrossedInv
<1> QED
  BY <1>3, <1>4, <1>5, <1>6, <1>7 DEF IInv

\* A failed transaction leaves what was there before it.
LEMMA RollbackInv ==
    ASSUME IInv, Rollback
    PROVE  IInv'
<1>1. /\ call' = Idle /\ db' = saved /\ saved' = saved /\ applied' = applied
      /\ TablesOK(saved) /\ Counted(saved) /\ applied \in 0 .. MaxOps
      /\ \A c \in Currencies : Net(saved, c) = 0
  BY DEF Rollback, IInv, BooksInv, MoneyInv
<1> QED
  BY <1>1, IdleInv

\* A transaction that succeeds leaves tables that are in order.
LEMMA CommitInv ==
    ASSUME IInv, NEW d, Commit(d), TablesOK(d), Counted(d),
           \A c \in Currencies : Net(d, c) = 0
    PROVE  IInv'
<1>1. /\ call' = Idle /\ db' = d /\ saved' = saved /\ applied' = applied
      /\ TablesOK(saved) /\ Counted(saved) /\ applied \in 0 .. MaxOps
      /\ \A c \in Currencies : Net(saved, c) = 0
  BY DEF Commit, IInv, BooksInv, MoneyInv
<1> QED
  BY <1>1, IdleInv

\* So does one of a single step.
LEMMA ApplyInv ==
    ASSUME IInv, NEW d, Apply(d), TablesOK(d), Counted(d),
           \A c \in Currencies : Net(d, c) = Net(db, c)
    PROVE  IInv'
<1>1. /\ call = Idle /\ call' = Idle /\ db' = d /\ saved' = saved /\ applied' = applied + 1
      /\ TablesOK(saved) /\ Counted(saved) /\ applied \in 0 .. MaxOps /\ applied < MaxOps
      /\ \A c \in Currencies : Net(saved, c) = 0 /\ Net(db, c) = InFlight(c)
  BY DEF Apply, IInv, BooksInv, MoneyInv
<1>2. applied' \in 0 .. MaxOps
  BY <1>1, BoundsFacts
<1>3. ~Converting /\ call.stage # "path"
  BY <1>1 DEF Converting, Idle
<1>4. \A c \in Currencies : Net(d, c) = 0
  BY <1>1, <1>3 DEF InFlight
<1> QED
  BY <1>1, <1>2, <1>4, IdleInv

\* Initially the lines are all counted and hold what was issued.
LEMMA InitInv == ASSUME Init PROVE IInv
<1> DEFINE Ls(a) == {h \in Holdings : h[1] = a /\ Genesis[h] # Absent}
<1>1. /\ db.lines = Genesis /\ db.offers = {} /\ db.idPool = 0
      /\ db.numSubEntries = [a \in Accounts |-> Cardinality(Ls(a))]
      /\ db.issued = [c \in Currencies |-> Sum(Genesis, c)]
      /\ db.unpaid = [c \in Currencies |-> 0]
      /\ db.miscounted = [a \in Accounts |-> 0]
      /\ saved = db /\ call = Idle /\ applied = 0
  BY DEF Init
<1>2. \A a : LinesIn(db, a) = Ls(a)
  BY <1>1 DEF LinesIn
<1>3. \A a : Cardinality(Ls(a)) \in Nat
  <2>1. \A a : Cardinality(LinesIn(db, a)) \in Nat
    BY HoldingsFinite
  <2> QED
    BY <1>2, <2>1, Zenon
<1>4. \A c \in Currencies : Sum(Genesis, c) \in Int
  <2> SUFFICES ASSUME NEW c \in Currencies PROVE Sum(Genesis, c) \in Int
    OBVIOUS
  <2> DEFINE f == [h \in HoldingsOf(c) |-> BalanceIn(Genesis, h)]
  <2>1. \A h \in HoldingsOf(c) : f[h] \in Int
    BY OrderBookAssumption DEF HoldingsOf, BalanceIn, TrustLine
  <2> HIDE DEF f
  <2>2. SumFunctionOnSet(f, HoldingsOf(c)) \in Int
    BY <2>1, HoldingsFinite, SumInt
  <2> QED
    BY <2>2 DEF Sum, f
<1>5. db \in Tables
  <2> HIDE DEF Ls
  <2>1. /\ [a \in Accounts |-> Cardinality(Ls(a))] \in [Accounts -> Nat]
        /\ [c \in Currencies |-> Sum(Genesis, c)] \in [Currencies -> Int]
        /\ [c \in Currencies |-> 0] \in [Currencies -> Int]
        /\ [a \in Accounts |-> 0] \in [Accounts -> Int]
    BY <1>3, <1>4
  <2>2. DOMAIN db = {"lines", "offers", "idPool", "numSubEntries", "issued", "unpaid", "miscounted"}
    BY DEF Init
  <2>3. db = [lines |-> db.lines, offers |-> db.offers, idPool |-> db.idPool,
              numSubEntries |-> db.numSubEntries, issued |-> db.issued, unpaid |-> db.unpaid,
              miscounted |-> db.miscounted]
    BY DEF Init
  <2>4. Genesis \in [Holdings -> TrustLine \cup {Absent}]
    BY OrderBookAssumption
  <2>5. /\ db.lines \in [Holdings -> TrustLine \cup {Absent}]
        /\ db.offers \in SUBSET OfferRow /\ db.idPool \in Nat
        /\ db.numSubEntries \in [Accounts -> Nat] /\ db.issued \in [Currencies -> Int]
        /\ db.unpaid \in [Currencies -> Int] /\ db.miscounted \in [Accounts -> Int]
    BY <1>1, <2>1, <2>4
  <2> QED
    BY <2>3, <2>5 DEF Tables
<1>6. TablesOK(db)
  <2>1. \A h \in Holdings : db.lines[h] # Absent => db.lines[h].balance <= db.lines[h].limit
    BY <1>1, OrderBookAssumption
  <2>2. IsFiniteSet(db.offers)
    BY <1>1, FS_EmptySet
  <2> QED
    BY <1>1, <1>5, <2>1, <2>2 DEF TablesOK
<1>7. Counted(db)
  <2> SUFFICES ASSUME NEW a \in Accounts
               PROVE  db.numSubEntries[a] = Cardinality(LinesIn(db, a))
                         + Cardinality(OffersIn(db, a)) + db.miscounted[a]
    BY DEF Counted
  <2>1. OffersIn(db, a) = {}
    BY <1>1 DEF OffersIn
  <2>2. Cardinality(OffersIn(db, a)) = 0
    BY <2>1, FS_EmptySet
  <2>3. db.numSubEntries[a] = Cardinality(LinesIn(db, a)) /\ db.miscounted[a] = 0
    BY <1>1, <1>2
  <2>4. Cardinality(LinesIn(db, a)) \in Nat
    BY HoldingsFinite
  <2> QED
    BY <2>2, <2>3, <2>4
<1>8. \A c \in Currencies : Net(db, c) = 0
  BY <1>1, <1>4 DEF Net
<1>9. call.stage = "idle" /\ ~Converting
  BY <1>1 DEF Idle, Converting
<1>10. BooksInv
  BY <1>1, <1>6, <1>7, BoundsFacts DEF BooksInv, CallOK
<1>11. MoneyInv
  BY <1>1, <1>8, <1>9 DEF MoneyInv, InFlight
<1>12. AmountInv /\ SourceInv /\ PageInv /\ CrossedInv
  BY <1>1, <1>9 DEF AmountInv, SourceInv, Offering, PageInv, CrossedInv
<1> QED
  BY <1>10, <1>11, <1>12 DEF IInv

-----------------------------------------------------------------------------
(* ChangeTrust and AllowTrust.                                             *)

Present(line) == IF line = Absent THEN 0 ELSE 1

\* A line that comes, goes or changes but holds what it held.
LEMMA LineReplaced ==
    ASSUME NEW d, TablesOK(d), NEW a \in Accounts, NEW c \in Currencies,
           <<a, c>> \in Holdings, NEW new,
           new # Absent => new.balance <= new.limit,
           NEW e \in Tables, e.lines = [d.lines EXCEPT ![<<a, c>>] = new],
           e.offers = d.offers, e.idPool = d.idPool,
           e.issued = d.issued, e.unpaid = d.unpaid,
           BalanceIn(e.lines, <<a, c>>) = BalanceIn(d.lines, <<a, c>>)
    PROVE  /\ TablesOK(e)
           /\ \A k \in Currencies : Net(e, k) = Net(d, k)
           /\ \A b : OffersIn(e, b) = OffersIn(d, b)
           /\ \A b : b # a => LinesIn(e, b) = LinesIn(d, b)
           /\ Cardinality(LinesIn(e, a)) =
                 Cardinality(LinesIn(d, a)) + (Present(new) - Present(d.lines[<<a, c>>]))
<1> DEFINE h == <<a, c>>
<1>0. d \in Tables
  BY DEF TablesOK
<1>1. e.lines[h] = new /\ \A g \in Holdings \ {h} : e.lines[g] = d.lines[g]
  BY <1>0 DEF Tables
<1>2. TablesOK(e)
  <2>1. \A g \in Holdings : e.lines[g] # Absent => e.lines[g].balance <= e.lines[g].limit
    BY <1>1 DEF TablesOK
  <2> QED
    BY <2>1 DEF TablesOK
<1>3. ASSUME NEW k \in Currencies PROVE Net(e, k) = Net(d, k)
  <2>1. \A g \in Holdings : BalanceIn(d.lines, g) \in Int
    BY <1>0 DEF Tables, BalanceIn, TrustLine
  <2>2. BalanceIn(e.lines, h) - BalanceIn(d.lines, h) = 0
    BY <2>1
  <2>3. /\ k = c => Sum(e.lines, k) =
              Sum(d.lines, k) + (BalanceIn(e.lines, h) - BalanceIn(d.lines, h))
        /\ k # c => Sum(e.lines, k) = Sum(d.lines, k)
    <3>1. d \in Tables /\ e \in Tables /\ a \in Accounts /\ c \in Currencies /\ h \in Holdings
      BY <1>0
    <3> QED
      BY ONLY <1>1, <3>1, k \in Currencies, SumOfUpdate
  <2>4. Sum(d.lines, k) \in Int
    BY <1>0, SumIsInt
  <2>5. Sum(e.lines, k) = Sum(d.lines, k)
    BY <2>2, <2>3, <2>4
  <2> QED
    BY <2>5 DEF Net
<1>4. \A b : OffersIn(e, b) = OffersIn(d, b)
  BY DEF OffersIn
<1>5. \A b : b # a => LinesIn(e, b) = LinesIn(d, b)
  BY <1>1 DEF LinesIn
<1>6. Cardinality(LinesIn(e, a)) =
          Cardinality(LinesIn(d, a)) + (Present(new) - Present(d.lines[h]))
  <2>0. IsFiniteSet(LinesIn(d, a)) /\ Cardinality(LinesIn(d, a)) \in Nat
    BY HoldingsFinite
  <2>1. CASE new = Absent /\ d.lines[h] # Absent
    <3>1. LinesIn(e, a) = LinesIn(d, a) \ {h} /\ h \in LinesIn(d, a)
      BY <1>1, <2>1 DEF LinesIn
    <3>2. Cardinality(LinesIn(e, a)) = Cardinality(LinesIn(d, a)) - 1
      BY <2>0, <3>1, CardRemove
    <3> QED
      BY <2>0, <2>1, <3>2 DEF Present
  <2>2. CASE new # Absent /\ d.lines[h] = Absent
    <3>1. LinesIn(e, a) = LinesIn(d, a) \cup {h} /\ h \notin LinesIn(d, a)
      BY <1>1, <2>2 DEF LinesIn
    <3>2. Cardinality(LinesIn(e, a)) = Cardinality(LinesIn(d, a)) + 1
      BY <2>0, <3>1, FS_AddElement
    <3> QED
      BY <2>0, <2>2, <3>2 DEF Present
  <2>3. CASE new = Absent <=> d.lines[h] = Absent
    <3>1. LinesIn(e, a) = LinesIn(d, a)
      BY <1>1, <2>3 DEF LinesIn
    <3> QED
      BY <2>0, <2>3, <3>1 DEF Present
  <2> QED
    BY <2>1, <2>2, <2>3
<1> QED
  BY <1>2, <1>3, <1>4, <1>5, <1>6

\* What an operation is, by its type.
LEMMA OpFacts ==
    ASSUME NEW op \in Ops
    PROVE  /\ op.type = "CreateOffer" => op \in CreateOfferOps
           /\ op.type = "Payment" => op \in PaymentOps
           /\ op.type = "ChangeTrust" => op \in ChangeTrustOps
           /\ op.type = "AllowTrust" => op \in AllowTrustOps
<1>1. /\ op \in CreateOfferOps => op.type = "CreateOffer"
      /\ op \in PaymentOps => op.type = "Payment"
      /\ op \in ChangeTrustOps => op.type = "ChangeTrust"
      /\ op \in AllowTrustOps => op.type = "AllowTrust"
  BY DEF CreateOfferOps, PaymentOps, ChangeTrustOps, AllowTrustOps
<1> QED
  BY <1>1, OpsAssumption

\* A new line, counted or not.
LEMMA newLineInv ==
    ASSUME IInv, NEW op \in Ops, newLine(op)
    PROVE  IInv'
<1> DEFINE a == op.source
           c == op.line
           h == <<a, c>>
           counted == IF MayAddEntry(db, a) THEN 1 ELSE 0
           auth == IssuerOf[c] \notin AuthRequired
           new == [limit |-> op.limit, balance |-> 0, authorized |-> auth]
           e == [db EXCEPT !.lines[h] = new, !.numSubEntries[a] = @ + counted,
                           !.miscounted[a] = @ + counted - 1]
<1>1. /\ a \in Accounts /\ c \in Currencies /\ op.limit \in 0 .. MaxInt
      /\ ~IsIssuer(a, c) /\ db.lines[h] = Absent
  BY OpFacts DEF newLine, ChangeTrustOps, HasLine
<1>2. h \in Holdings /\ counted \in {0, 1}
  BY <1>1 DEF IsIssuer, Holdings
<1>3. TablesOK(db) /\ db \in Tables /\ Counted(db)
  BY DEF IInv, BooksInv, TablesOK
<1>4. new \in TrustLine /\ new.balance = 0 /\ new.limit \in Nat /\ new # Absent
  <2>1. auth \in BOOLEAN
    OBVIOUS
  <2> HIDE DEF auth
  <2>2. new \in TrustLine /\ new.balance = 0 /\ new.limit \in Nat
    BY <1>1, <2>1, BoundsFacts DEF TrustLine
  <2> QED
    BY <2>2, OrderBookAssumption
<1>5. Apply(e)
  BY DEF newLine
<1> HIDE DEF new, counted
<1>6. /\ e \in Tables /\ e.lines = [db.lines EXCEPT ![h] = new] /\ e.offers = db.offers
      /\ e.idPool = db.idPool /\ e.issued = db.issued /\ e.unpaid = db.unpaid
      /\ e.numSubEntries = [db.numSubEntries EXCEPT ![a] = @ + counted]
      /\ e.miscounted = [db.miscounted EXCEPT ![a] = @ + counted - 1]
  <2> DEFINE ls == [db.lines EXCEPT ![h] = new]
             ns == [db.numSubEntries EXCEPT ![a] = @ + counted]
             ms == [db.miscounted EXCEPT ![a] = @ + counted - 1]
  <2>1. e = [db EXCEPT !.lines = ls, !.numSubEntries = ns, !.miscounted = ms]
    OBVIOUS
  <2>2. /\ ls \in [Holdings -> TrustLine \cup {Absent}]
        /\ ns \in [Accounts -> Nat] /\ ms \in [Accounts -> Int]
    BY <1>1, <1>2, <1>3, <1>4 DEF Tables
  <2> HIDE DEF ls, ns, ms
  <2>3. /\ e \in Tables /\ e.lines = ls /\ e.offers = db.offers
        /\ e.idPool = db.idPool /\ e.issued = db.issued /\ e.unpaid = db.unpaid
        /\ e.numSubEntries = ns /\ e.miscounted = ms
    BY <1>3, <2>1, <2>2 DEF Tables
  <2> QED
    BY <2>3 DEF ls, ns, ms
<1> HIDE DEF e
<1>7. e.lines[h] = new
  BY <1>2, <1>3, <1>6 DEF Tables
<1>8. BalanceIn(e.lines, h) = BalanceIn(db.lines, h)
  BY <1>1, <1>4, <1>7 DEF BalanceIn
<1>9. /\ TablesOK(e)
      /\ \A k \in Currencies : Net(e, k) = Net(db, k)
      /\ \A b : OffersIn(e, b) = OffersIn(db, b)
      /\ \A b : b # a => LinesIn(e, b) = LinesIn(db, b)
      /\ Cardinality(LinesIn(e, a)) = Cardinality(LinesIn(db, a)) + (1 - 0)
  <2>1. new # Absent => new.balance <= new.limit
    BY <1>4
  <2>2. Present(new) = 1 /\ Present(db.lines[h]) = 0
    BY <1>1, <1>4 DEF Present
  <2> QED
    BY ONLY <1>1, <1>2, <1>3, <1>6, <1>8, <2>1, <2>2, LineReplaced
<1>10. Counted(e)
  <2> SUFFICES ASSUME NEW b \in Accounts
               PROVE  e.numSubEntries[b] = Cardinality(LinesIn(e, b))
                         + Cardinality(OffersIn(e, b)) + e.miscounted[b]
    BY DEF Counted
  <2>1. /\ Cardinality(LinesIn(db, b)) \in Nat /\ Cardinality(OffersIn(db, b)) \in Nat
        /\ db.miscounted[b] \in Int
    BY <1>3, HoldingsFinite, BookFinite DEF Tables
  <2>2. db.numSubEntries[b] = Cardinality(LinesIn(db, b)) + Cardinality(OffersIn(db, b))
                                  + db.miscounted[b]
    BY <1>3 DEF Counted
  <2>3. CASE b = a
    <3>1. /\ e.numSubEntries[b] = db.numSubEntries[b] + counted
          /\ e.miscounted[b] = db.miscounted[b] + counted - 1
      BY <1>3, <1>6, <2>3 DEF Tables
    <3> QED
      BY <1>2, <1>9, <2>1, <2>2, <2>3, <3>1
  <2>4. CASE b # a
    <3>1. e.numSubEntries[b] = db.numSubEntries[b] /\ e.miscounted[b] = db.miscounted[b]
      BY <1>3, <1>6, <2>4 DEF Tables
    <3> QED
      BY <1>9, <2>2, <2>4, <3>1
  <2> QED
    BY <2>3, <2>4
<1> QED
  BY <1>5, <1>9, <1>10, ApplyInv

\* A line with another limit, or that goes when it is empty.
LEMMA changeLineInv ==
    ASSUME IInv, NEW op \in Ops, changeLine(op)
    PROVE  IInv'
<1> DEFINE a == op.source
           c == op.line
           h == <<a, c>>
           line == db.lines[h]
<1>1. /\ a \in Accounts /\ c \in Currencies /\ op.limit \in 0 .. MaxInt
      /\ ~IsIssuer(a, c) /\ HasLine(db, a, c)
  BY OpFacts DEF changeLine, ChangeTrustOps
<1>2. TablesOK(db) /\ db \in Tables /\ Counted(db)
  BY DEF IInv, BooksInv, TablesOK
<1>3. /\ h \in Holdings /\ line \in TrustLine /\ line.balance \in Nat /\ line # Absent
      /\ loadTrustLine(db, a, c) = line
  BY <1>1, <1>2, LineFacts DEF HasLine
<1>4. \A b \in Accounts :
          /\ Cardinality(LinesIn(db, b)) \in Nat /\ Cardinality(OffersIn(db, b)) \in Nat
          /\ db.miscounted[b] \in Int /\ db.numSubEntries[b] \in Nat
          /\ db.numSubEntries[b] = Cardinality(LinesIn(db, b)) + Cardinality(OffersIn(db, b))
                                       + db.miscounted[b]
  <2> SUFFICES ASSUME NEW b \in Accounts
               PROVE  /\ Cardinality(LinesIn(db, b)) \in Nat
                      /\ Cardinality(OffersIn(db, b)) \in Nat
                      /\ db.miscounted[b] \in Int /\ db.numSubEntries[b] \in Nat
                      /\ db.numSubEntries[b] = Cardinality(LinesIn(db, b))
                            + Cardinality(OffersIn(db, b)) + db.miscounted[b]
    OBVIOUS
  <2>1. Cardinality(LinesIn(db, b)) \in Nat
    BY HoldingsFinite
  <2>2. Cardinality(OffersIn(db, b)) \in Nat
    BY <1>2, BookFinite
  <2>3. db.miscounted[b] \in Int /\ db.numSubEntries[b] \in Nat
    BY <1>2 DEF Tables
  <2> QED
    BY <1>2, <2>1, <2>2, <2>3 DEF Counted
<1>5. CASE op.limit = 0 /\ line.balance = 0
  <2> DEFINE e == [db EXCEPT !.lines[h] = Absent, !.numSubEntries[a] = @ - 1]
  <2>1. Apply(e) /\ db.numSubEntries[a] > 0
    BY <1>3, <1>5 DEF changeLine
  <2>2. /\ e \in Tables /\ e.lines = [db.lines EXCEPT ![h] = Absent] /\ e.offers = db.offers
        /\ e.idPool = db.idPool /\ e.issued = db.issued /\ e.unpaid = db.unpaid
        /\ e.numSubEntries = [db.numSubEntries EXCEPT ![a] = @ - 1]
        /\ e.miscounted = db.miscounted
    <3> DEFINE ls == [db.lines EXCEPT ![h] = Absent]
               ns == [db.numSubEntries EXCEPT ![a] = @ - 1]
    <3>1. e = [db EXCEPT !.lines = ls, !.numSubEntries = ns]
      OBVIOUS
    <3>2. ls \in [Holdings -> TrustLine \cup {Absent}] /\ ns \in [Accounts -> Nat]
      BY <1>1, <1>2, <1>3, <1>4, <2>1 DEF Tables
    <3> HIDE DEF ls, ns
    <3>3. /\ e \in Tables /\ e.lines = ls /\ e.offers = db.offers
          /\ e.idPool = db.idPool /\ e.issued = db.issued /\ e.unpaid = db.unpaid
          /\ e.numSubEntries = ns /\ e.miscounted = db.miscounted
      BY <1>2, <3>1, <3>2 DEF Tables
    <3> QED
      BY <3>3 DEF ls, ns
  <2> HIDE DEF e
  <2>3. e.lines[h] = Absent
    BY <1>2, <1>3, <2>2 DEF Tables
  <2>4. BalanceIn(e.lines, h) = BalanceIn(db.lines, h)
    BY <1>3, <1>5, <2>3 DEF BalanceIn
  <2>5. /\ TablesOK(e)
        /\ \A k \in Currencies : Net(e, k) = Net(db, k)
        /\ \A b : OffersIn(e, b) = OffersIn(db, b)
        /\ \A b : b # a => LinesIn(e, b) = LinesIn(db, b)
        /\ Cardinality(LinesIn(e, a)) = Cardinality(LinesIn(db, a)) + (0 - 1)
    <3>1. Absent # Absent => Absent.balance <= Absent.limit
      OBVIOUS
    <3>2. Present(Absent) = 0 /\ Present(line) = 1
      BY <1>3 DEF Present
    <3> QED
      BY ONLY <1>1, <1>2, <1>3, <2>2, <2>4, <3>1, <3>2, LineReplaced
  <2>6. Counted(e)
    <3> SUFFICES ASSUME NEW b \in Accounts
                 PROVE  e.numSubEntries[b] = Cardinality(LinesIn(e, b))
                           + Cardinality(OffersIn(e, b)) + e.miscounted[b]
      BY DEF Counted
    <3>1. CASE b = a
      <4>1. e.numSubEntries[b] = db.numSubEntries[b] - 1
        BY <1>2, <2>2, <3>1 DEF Tables
      <4> QED
        BY <1>4, <2>2, <2>5, <3>1, <4>1
    <3>2. CASE b # a
      <4>1. e.numSubEntries[b] = db.numSubEntries[b]
        BY <1>2, <2>2, <3>2 DEF Tables
      <4> QED
        BY <1>4, <2>2, <2>5, <3>2, <4>1
    <3> QED
      BY <3>1, <3>2
  <2> QED
    BY <2>1, <2>5, <2>6, ApplyInv
<1>6. CASE ~(op.limit = 0 /\ line.balance = 0)
  <2> DEFINE new == [line EXCEPT !.limit = op.limit]
             e == [db EXCEPT !.lines[h] = new]
  <2>1. Apply(e) /\ op.limit >= line.balance
    BY <1>3, <1>6 DEF changeLine, LimitAllowed
  <2>2. /\ new \in TrustLine /\ new.balance = line.balance /\ new.limit = op.limit
        /\ new # Absent
    BY <1>1, <1>3, OrderBookAssumption DEF TrustLine
  <2> HIDE DEF new
  <2>3. /\ e \in Tables /\ e.lines = [db.lines EXCEPT ![h] = new] /\ e.offers = db.offers
        /\ e.idPool = db.idPool /\ e.issued = db.issued /\ e.unpaid = db.unpaid
        /\ e.numSubEntries = db.numSubEntries
        /\ e.miscounted = db.miscounted
    BY <1>1, <1>2, <1>3, <2>2 DEF Tables
  <2> HIDE DEF e
  <2>4. e.lines[h] = new /\ \A g \in Holdings \ {h} : e.lines[g] = db.lines[g]
    BY <1>2, <1>3, <2>3 DEF Tables
  <2>5. BalanceIn(e.lines, h) = BalanceIn(db.lines, h)
    BY <1>3, <2>2, <2>4 DEF BalanceIn
  <2>6. /\ TablesOK(e)
        /\ \A k \in Currencies : Net(e, k) = Net(db, k)
        /\ \A b : OffersIn(e, b) = OffersIn(db, b)
    <3>1. new # Absent => new.balance <= new.limit
      BY <1>1, <1>3, <2>1, <2>2
    <3> QED
      <4>1. TablesOK(db) /\ a \in Accounts /\ c \in Currencies /\ h \in Holdings
        BY <1>1, <1>2, <1>3
      <4> HIDE DEF a, c
      <4> QED
        BY ONLY <4>1, <2>3, <2>5, <3>1, LineReplaced
  <2>7. Counted(e)
    <3>1. \A g \in Holdings : e.lines[g] = Absent <=> db.lines[g] = Absent
      BY <1>3, <2>2, <2>4
    <3> QED
      BY <1>2, <2>3, <2>6, <3>1, CountedFacts
  <2> QED
    BY <2>1, <2>6, <2>7, ApplyInv
<1> QED
  BY <1>5, <1>6

\* A line that is authorized, or no longer.
LEMMA allowTrustInv ==
    ASSUME IInv, NEW op \in Ops, allowTrust(op)
    PROVE  IInv'
<1> DEFINE a == op.trustor
           c == op.currency
           h == <<a, c>>
           line == db.lines[h]
           new == [line EXCEPT !.authorized = op.authorize]
           e == [db EXCEPT !.lines[h] = new]
<1>1. /\ a \in Accounts /\ c \in Currencies /\ op.authorize \in BOOLEAN
      /\ ~IsIssuer(a, c) /\ HasLine(db, a, c)
  BY OpFacts DEF allowTrust, AllowTrustOps
<1>2. TablesOK(db) /\ db \in Tables /\ Counted(db)
  BY DEF IInv, BooksInv, TablesOK
<1>3. h \in Holdings /\ line \in TrustLine /\ line.balance <= line.limit /\ line # Absent
  BY <1>1, <1>2, LineFacts DEF HasLine
<1>4. Apply(e)
  BY DEF allowTrust
<1>5. /\ new \in TrustLine /\ new.balance = line.balance /\ new.limit = line.limit
      /\ new # Absent
  BY <1>1, <1>3, OrderBookAssumption DEF TrustLine
<1> HIDE DEF new
<1>6. /\ e \in Tables /\ e.lines = [db.lines EXCEPT ![h] = new] /\ e.offers = db.offers
      /\ e.idPool = db.idPool /\ e.issued = db.issued /\ e.unpaid = db.unpaid
      /\ e.numSubEntries = db.numSubEntries /\ e.miscounted = db.miscounted
  BY <1>1, <1>2, <1>3, <1>5 DEF Tables
<1> HIDE DEF e
<1>7. e.lines[h] = new /\ \A g \in Holdings \ {h} : e.lines[g] = db.lines[g]
  BY <1>2, <1>3, <1>6 DEF Tables
<1>8. BalanceIn(e.lines, h) = BalanceIn(db.lines, h)
  BY <1>3, <1>5, <1>7 DEF BalanceIn
<1>9. /\ TablesOK(e)
      /\ \A k \in Currencies : Net(e, k) = Net(db, k)
      /\ \A b : OffersIn(e, b) = OffersIn(db, b)
  <2>1. new # Absent => new.balance <= new.limit
    BY <1>3, <1>5
  <2> QED
    <3>1. TablesOK(db) /\ a \in Accounts /\ c \in Currencies /\ h \in Holdings
      BY <1>1, <1>2, <1>3
    <3> HIDE DEF a, c
    <3> QED
      BY ONLY <3>1, <1>6, <1>8, <2>1, LineReplaced
<1>10. Counted(e)
  <2>1. \A g \in Holdings : e.lines[g] = Absent <=> db.lines[g] = Absent
    BY <1>3, <1>5, <1>7
  <2> QED
    BY <1>2, <1>6, <1>9, <2>1, CountedFacts
<1> QED
  BY <1>4, <1>9, <1>10, ApplyInv

-----------------------------------------------------------------------------
(* A conversion begins.                                                    *)

\* What a new conversion has.
LEMMA ConversionFacts ==
    ASSUME NEW type \in {"offer", "payment"}, NEW op \in Ops, NEW path \in Seq(Currencies),
           NEW sheep \in Currencies, NEW ms \in Nat, NEW wheat \in Currencies, NEW mw \in Nat
    PROVE  LET c == Conversion(type, op, path, sheep, ms, wheat, mw) IN
           /\ c \in ConversionCall
           /\ c.stage = "load" \/ c.stage = "end"
           /\ c.stage = "load" <=> mw > 0 /\ ms > 0
           /\ c.type = type /\ c.op = op /\ c.path = path /\ c.result = "eOK"
           /\ c.sheep = sheep /\ c.forSale = ms /\ c.maxSheepSend = ms /\ c.sheepSend = 0
           /\ c.wheat = wheat /\ c.curBReceived = mw /\ c.maxWheatReceive = mw
           /\ c.wheatReceived = 0
           /\ c.retList = <<>> /\ c.size = 0 /\ c.offerOffset = 0 /\ c.crossed = 0
<1> DEFINE st == IF mw > 0 /\ ms > 0 THEN "load" ELSE "end"
           c == Conversion(type, op, path, sheep, ms, wheat, mw)
<1>1. st \in {"load", "end"} /\ (st = "load" <=> mw > 0 /\ ms > 0)
  OBVIOUS
<1>2. c = [type |-> type, op |-> op, path |-> path, stage |-> st, result |-> "eOK",
           sheep |-> sheep, forSale |-> ms, maxSheepSend |-> ms, sheepSend |-> 0,
           wheat |-> wheat, curBReceived |-> mw, maxWheatReceive |-> mw, wheatReceived |-> 0,
           retList |-> <<>>, size |-> 0, offerOffset |-> 0, crossed |-> 0]
  BY DEF Conversion
<1> HIDE DEF st, c
<1>3. c \in ConversionCall
  BY <1>1, <1>2 DEF ConversionCall
<1>4. /\ c.stage = st
      /\ c.type = type /\ c.op = op /\ c.path = path /\ c.result = "eOK"
      /\ c.sheep = sheep /\ c.forSale = ms /\ c.maxSheepSend = ms /\ c.sheepSend = 0
      /\ c.wheat = wheat /\ c.curBReceived = mw /\ c.maxWheatReceive = mw
      /\ c.wheatReceived = 0
      /\ c.retList = <<>> /\ c.size = 0 /\ c.offerOffset = 0 /\ c.crossed = 0
  BY <1>2
<1> QED
  BY <1>1, <1>3, <1>4 DEF c

\* It has exchanged nothing yet, and a new offer's amounts fit its lines.
LEMMA ConversionInv ==
    ASSUME NEW type \in {"offer", "payment"}, NEW op \in Ops, NEW path \in Seq(Currencies),
           NEW sheep \in Currencies, NEW ms \in Nat, NEW wheat \in Currencies, NEW mw \in Nat,
           call' = Conversion(type, op, path, sheep, ms, wheat, mw),
           type = "offer" => op \in CreateOfferOps, type = "payment" => op \in PaymentOps,
           TablesOK(db'), TablesOK(saved'), Counted(db'), Counted(saved'),
           applied' \in 0 .. MaxOps,
           \A c \in Currencies :
               /\ Net(saved', c) = 0
               /\ Net(db', c) = IF c = wheat /\ type = "payment" THEN mw ELSE 0,
           \A s, w \in Currencies :
               Cardinality(OffersFor(db', s, w)) <= Cardinality(OffersFor(saved', s, w)),
           type = "offer" =>
               /\ sheep = op.takerGets /\ wheat = op.takerPays
               /\ HasLine(db', op.source, sheep) /\ HasLine(db', op.source, wheat)
               /\ loadTrustLine(db', op.source, wheat).authorized
               /\ ms <= loadTrustLine(db', op.source, sheep).balance
               /\ ms <= op.amount
               /\ mw = getMaxAmountReceive(db', op.source, wheat)
    PROVE  IInv'
<1> DEFINE c == call'
<1>1. /\ c \in ConversionCall
      /\ c.stage = "load" \/ c.stage = "end"
      /\ c.stage = "load" <=> mw > 0 /\ ms > 0
      /\ c.type = type /\ c.op = op /\ c.path = path /\ c.result = "eOK"
      /\ c.sheep = sheep /\ c.forSale = ms /\ c.maxSheepSend = ms /\ c.sheepSend = 0
      /\ c.wheat = wheat /\ c.curBReceived = mw /\ c.maxWheatReceive = mw
      /\ c.wheatReceived = 0
      /\ c.retList = <<>> /\ c.size = 0 /\ c.offerOffset = 0 /\ c.crossed = 0
  BY ConversionFacts
<1>2. Converting'
  BY <1>1 DEF Converting
<1>3. BooksInv'
  BY <1>1 DEF BooksInv, CallOK
<1>4. MoneyInv'
  <2>1. \A k \in Currencies : InFlight(k)' = IF k = wheat /\ type = "payment" THEN mw ELSE 0
    BY <1>1, <1>2 DEF InFlight
  <2> QED
    BY <2>1 DEF MoneyInv
<1>5. AmountInv'
  BY <1>1 DEF AmountInv
<1>6. SourceInv'
  <2> SUFFICES ASSUME Offering' PROVE SourceInv'
    BY DEF SourceInv
  <2>1. type = "offer" /\ op \in CreateOfferOps
    BY <1>1 DEF Offering
  <2>2. BuyersPriceSoFar'
    <3>1. op.price.n \in Nat /\ op.price.d \in Nat
      BY <2>1 DEF CreateOfferOps, Price
    <3>2. 0 * op.price.n <= (0 + 0) * op.price.d
      BY <3>1
    <3> QED
      BY <1>1, <3>2 DEF BuyersPriceSoFar
  <2> QED
    BY <1>1, <2>1, <2>2 DEF SourceInv
<1>7. PageInv'
  BY <1>1 DEF PageInv
<1>8. CrossedInv'
  <2>1. \A s, w \in Currencies : /\ Cardinality(OffersFor(db', s, w)) \in Nat
                                 /\ Cardinality(OffersFor(saved', s, w)) \in Nat
    BY BookFinite
  <2>2. c.crossed + (IF c.stage = "end" THEN 0 ELSE Cardinality(OffersFor(db', sheep, wheat)))
            <= Cardinality(OffersFor(saved', sheep, wheat))
    BY <1>1, <2>1
  <2> QED
    BY <1>1, <2>2 DEF CrossedInv, Book
<1> QED
  BY <1>3, <1>4, <1>5, <1>6, <1>7, <1>8 DEF IInv

\* Nothing is in progress: no credit is owed.
LEMMA IdleFacts ==
    ASSUME IInv, call = Idle
    PROVE  /\ TablesOK(db) /\ Counted(db) /\ applied \in 0 .. MaxOps
           /\ \A c \in Currencies : Net(db, c) = 0
<1>1. ~Converting /\ call.stage # "path"
  BY DEF Converting, Idle
<1> QED
  BY <1>1 DEF IInv, BooksInv, MoneyInv, InFlight

\* A new offer: what it sells it has, what it buys it can receive.
LEMMA createOfferInv ==
    ASSUME IInv, NEW op \in Ops, createOffer(op)
    PROVE  IInv'
<1> DEFINE a == op.source
           ms == maxSheepSend(op)
           mw == getMaxAmountReceive(db, a, op.takerPays)
           line == loadTrustLine(db, a, op.takerGets)
<1>1. /\ op \in CreateOfferOps /\ call = Idle /\ applied < MaxOps /\ applied' = applied + 1
      /\ call' = Conversion("offer", op, <<>>, op.takerGets, ms, op.takerPays, mw)
      /\ db' = db /\ saved' = db
      /\ HasLine(db, a, op.takerGets) /\ HasLine(db, a, op.takerPays)
      /\ loadTrustLine(db, a, op.takerPays).authorized
  BY OpFacts DEF createOffer, Begin, checkOfferValid
<1>2. /\ a \in Accounts /\ op.takerGets \in Currencies /\ op.takerPays \in Currencies
      /\ op.amount \in 0 .. MaxInt /\ op.price \in Price
  BY <1>1 DEF CreateOfferOps
<1>3. /\ TablesOK(db) /\ Counted(db) /\ applied \in 0 .. MaxOps
      /\ \A c \in Currencies : Net(db, c) = 0
  BY <1>1, IdleFacts
<1>4. mw \in Nat /\ line.balance \in Nat
  <2>1. mw \in 0 .. MaxInt
    BY <1>1, <1>2, <1>3, LineFacts
  <2>2. line.balance \in Nat
    BY <1>1, <1>2, <1>3, LineFacts
  <2> QED
    BY <2>1, <2>2, BoundsFacts
<1>5. ms \in Nat /\ ms <= line.balance /\ ms <= op.amount
  <2>1. op.price.n \in Nat \ {0} /\ op.price.d \in Nat \ {0} /\ op.amount \in Nat
    BY <1>2, BoundsFacts DEF Price
  <2>2. ms = Min({op.amount, line.balance, AtMostMaxInt(bigDivide(mw, op.price.d, op.price.n))})
    BY DEF maxSheepSend
  <2> HIDE DEF ms, mw, line
  <2>3. PICK m \in Nat : m = mw
    BY <1>4
  <2>4. PICK x \in Nat : x = op.amount
    BY <2>1
  <2>5. PICK y \in Nat : y = line.balance
    BY <1>4
  <2>6. m * op.price.d \in Nat
    BY <2>1, TimesMonotone
  <2>7. PICK q \in Nat : q = bigDivide(mw, op.price.d, op.price.n)
    BY <2>1, <2>3, <2>6, DivideFacts DEF bigDivide
  <2>8. PICK z \in Nat : z = AtMostMaxInt(q)
    BY BoundsFacts, MinOfTwo DEF AtMostMaxInt
  <2>9. PICK k \in Nat : k = Min({x, y, z}) /\ k <= x /\ k <= y
    BY MinOfThree
  <2>10. ms = k
    BY <2>2, <2>4, <2>5, <2>7, <2>8, <2>9
  <2> QED
    BY <2>4, <2>5, <2>9, <2>10
<1>6. applied' \in 0 .. MaxOps
  BY <1>1, <1>3, BoundsFacts
<1> HIDE DEF ms, mw, line
<1>7. \A s, w \in Currencies :
          Cardinality(OffersFor(db', s, w)) <= Cardinality(OffersFor(saved', s, w))
  <2>1. \A s, w \in Currencies : Cardinality(OffersFor(db, s, w)) \in Nat
    BY <1>3, BookFinite
  <2> QED
    BY <1>1, <2>1
<1>8. \A c \in Currencies :
          /\ Net(saved', c) = 0
          /\ Net(db', c) = IF c = op.takerPays /\ "offer" = "payment" THEN mw ELSE 0
  BY <1>1, <1>3
<1>9. <<>> \in Seq(Currencies)
  OBVIOUS
<1>10. /\ HasLine(db', a, op.takerGets) /\ HasLine(db', a, op.takerPays)
       /\ loadTrustLine(db', a, op.takerPays).authorized
       /\ ms <= loadTrustLine(db', a, op.takerGets).balance
       /\ ms <= op.amount
       /\ mw = getMaxAmountReceive(db', a, op.takerPays)
  BY <1>1, <1>5 DEF line, mw
<1>11. TablesOK(db') /\ TablesOK(saved') /\ Counted(db') /\ Counted(saved')
  BY <1>1, <1>3
<1> HIDE DEF a
<1> QED
  BY <1>1, <1>2, <1>4, <1>5, <1>6, <1>7, <1>8, <1>9, <1>10, <1>11, ConversionInv DEF a

-----------------------------------------------------------------------------
(* Payments along a path.                                                  *)

\* Between two conversions the next to be paid is owed what was received.
LEMMA PathInv ==
    ASSUME NEW op \in Ops, op \in PaymentOps, NEW path \in Seq(Currencies),
           NEW curB \in Currencies, NEW amount \in Nat,
           call' = [type |-> "payment", stage |-> "path", op |-> op, path |-> path,
                    curB |-> curB, curBReceived |-> amount],
           TablesOK(db'), TablesOK(saved'), Counted(db'), Counted(saved'),
           applied' \in 0 .. MaxOps,
           \A c \in Currencies : /\ Net(saved', c) = 0
                                 /\ Net(db', c) = IF c = curB THEN amount ELSE 0,
           \A s, w \in Currencies :
               Cardinality(OffersFor(db', s, w)) <= Cardinality(OffersFor(saved', s, w))
    PROVE  IInv'
<1>1. /\ call' \in PathCall /\ call'.stage = "path" /\ call'.curB = curB
      /\ call'.curBReceived = amount
  BY DEF PathCall
<1>2. ~Converting'
  BY <1>1 DEF Converting
<1>3. BooksInv'
  BY <1>1 DEF BooksInv, CallOK
<1>4. MoneyInv'
  BY <1>1, <1>2 DEF MoneyInv, InFlight
<1>5. AmountInv' /\ SourceInv'
  BY <1>2 DEF AmountInv, SourceInv, Offering
<1>6. PageInv'
  BY <1>1 DEF PageInv
<1>7. CrossedInv'
  BY <1>2 DEF CrossedInv
<1> QED
  BY <1>3, <1>4, <1>5, <1>6, <1>7 DEF IInv

\* What a payment between two conversions has.
LEMMA PathFacts ==
    ASSUME IInv, call.stage = "path"
    PROVE  /\ call.op \in Ops /\ call.op \in PaymentOps /\ call.path \in Seq(Currencies)
           /\ call.curB \in Currencies /\ call.curBReceived \in Nat
           /\ TablesOK(db) /\ TablesOK(saved) /\ Counted(db) /\ Counted(saved)
           /\ applied \in 0 .. MaxOps
           /\ \A c \in Currencies :
                 Net(saved, c) = 0 /\ Net(db, c) = IF c = call.curB THEN call.curBReceived ELSE 0
           /\ \A s, w \in Currencies :
                 Cardinality(OffersFor(db, s, w)) <= Cardinality(OffersFor(saved, s, w))
<1>1. CallOK
  BY DEF IInv, BooksInv
<1>2. call \in PathCall /\ call # Idle /\ ~Converting
  BY <1>1, CallFacts DEF Converting
<1>3. /\ call.op \in Ops /\ call.op \in PaymentOps /\ call.path \in Seq(Currencies)
      /\ call.curB \in Currencies /\ call.curBReceived \in Nat
  BY <1>2 DEF PathCall
<1> QED
  BY <1>2, <1>3 DEF IInv, BooksInv, MoneyInv, InFlight, CrossedInv

\* A payment credits its destination first.
LEMMA paymentInv ==
    ASSUME IInv, NEW op \in Ops, payment(op)
    PROVE  IInv'
<1> DEFINE a == op.destination
           c == op.currency
           e == addBalance(db, a, c, op.amount)
<1>1. /\ op \in PaymentOps /\ call = Idle /\ applied < MaxOps /\ applied' = applied + 1
      /\ call' = [type |-> "payment", stage |-> "path", op |-> op, path |-> op.path,
                  curB |-> op.currency, curBReceived |-> op.amount]
      /\ db' = e /\ saved' = db
      /\ HasLine(db, a, c) /\ MayAddBalance(db, a, c, op.amount)
  BY OpFacts DEF payment, Begin
<1>2. /\ a \in Accounts /\ c \in Currencies /\ op.amount \in 0 .. MaxInt
      /\ op.path \in Seq(Currencies)
  BY <1>1 DEF PaymentOps
<1>3. op.amount \in Nat /\ op.amount \in Int
  BY <1>2, BoundsFacts
<1>4. /\ TablesOK(db) /\ Counted(db) /\ applied \in 0 .. MaxOps
      /\ \A k \in Currencies : Net(db, k) = 0
  BY <1>1, IdleFacts
<1>5. /\ TablesOK(e) /\ e.offers = db.offers
      /\ e.numSubEntries = db.numSubEntries /\ e.miscounted = db.miscounted
      /\ \A h \in Holdings : e.lines[h] = Absent <=> db.lines[h] = Absent
      /\ \A k \in Currencies : Net(e, k) = Net(db, k) + (IF k = c THEN op.amount ELSE 0)
  BY <1>1, <1>2, <1>3, <1>4, AddBalanceFacts
<1> HIDE DEF e
<1>6. \A s, w : OffersFor(e, s, w) = OffersFor(db, s, w)
  BY <1>5 DEF OffersFor
<1>7. \A b : OffersIn(e, b) = OffersIn(db, b)
  BY <1>5 DEF OffersIn
<1>8. Counted(e)
  BY <1>4, <1>5, <1>7, CountedFacts
<1>9. \A k \in Currencies : Net(e, k) = IF k = c THEN op.amount ELSE 0
  BY <1>3, <1>4, <1>5
<1>10. \A s, w \in Currencies :
           Cardinality(OffersFor(e, s, w)) <= Cardinality(OffersFor(db, s, w))
  <2>1. \A s, w \in Currencies : Cardinality(OffersFor(db, s, w)) \in Nat
    BY <1>4, BookFinite
  <2> QED
    BY <1>6, <2>1
<1>11. applied' \in 0 .. MaxOps
  BY <1>1, <1>4, BoundsFacts
<1> QED
  BY <1>1, <1>2, <1>3, <1>4, <1>5, <1>8, <1>9, <1>10, <1>11, PathInv

\* The next step back along the path.
LEMMA walkPathInv ==
    ASSUME IInv, walkPath
    PROVE  IInv'
<1> DEFINE front == Front(call.path)
           last == Last(call.path)
<1>1. /\ call.stage = "path" /\ call.path # <<>> /\ db' = db /\ saved' = saved
      /\ applied' = applied
      /\ call' = Conversion("payment", call.op, front, last, MaxInt, call.curB, call.curBReceived)
  BY DEF walkPath
<1>2. /\ call.op \in Ops /\ call.op \in PaymentOps /\ call.path \in Seq(Currencies)
      /\ call.curB \in Currencies /\ call.curBReceived \in Nat
      /\ TablesOK(db) /\ TablesOK(saved) /\ Counted(db) /\ Counted(saved)
      /\ applied \in 0 .. MaxOps
      /\ \A c \in Currencies :
            Net(saved, c) = 0 /\ Net(db, c) = IF c = call.curB THEN call.curBReceived ELSE 0
      /\ \A s, w \in Currencies :
            Cardinality(OffersFor(db, s, w)) <= Cardinality(OffersFor(saved, s, w))
  BY <1>1, PathFacts
<1>3. front \in Seq(Currencies) /\ last \in Currencies
  <2>1. Len(call.path) \in Nat /\ Len(call.path) # 0
    BY <1>1, <1>2
  <2> QED
    BY <1>2, <2>1 DEF Front, Last
<1> HIDE DEF front, last
<1>4. /\ TablesOK(db') /\ TablesOK(saved') /\ Counted(db') /\ Counted(saved')
      /\ applied' \in 0 .. MaxOps
      /\ \A c \in Currencies :
            /\ Net(saved', c) = 0
            /\ Net(db', c) =
                  IF c = call.curB /\ "payment" = "payment" THEN call.curBReceived ELSE 0
      /\ \A s, w \in Currencies :
            Cardinality(OffersFor(db', s, w)) <= Cardinality(OffersFor(saved', s, w))
  BY <1>1, <1>2
<1>5. MaxInt \in Nat
  BY BoundsFacts
<1> QED
  BY <1>1, <1>2, <1>3, <1>4, <1>5, ConversionInv

\* What a conversion has, for a payment or an offer.
LEMMA ConvertingFacts ==
    ASSUME IInv, Converting
    PROVE  /\ call \in ConversionCall
           /\ call.type \in {"offer", "payment"} /\ call.op \in Ops
           /\ call.type = "offer" => call.op \in CreateOfferOps
           /\ call.type = "payment" => call.op \in PaymentOps
           /\ call.path \in Seq(Currencies)
           /\ call.sheep \in Currencies /\ call.wheat \in Currencies
           /\ call.forSale \in Nat /\ call.maxSheepSend \in Nat /\ call.sheepSend \in Nat
           /\ call.curBReceived \in Nat /\ call.maxWheatReceive \in Nat
           /\ call.wheatReceived \in Nat /\ call.crossed \in Nat /\ call.size \in Nat
           /\ call.retList \in Seq(OfferRow)
           /\ TablesOK(db) /\ TablesOK(saved) /\ Counted(db) /\ Counted(saved)
           /\ applied \in 0 .. MaxOps
           /\ call # Idle
           /\ \A c \in Currencies :
                 /\ Net(saved, c) = 0
                 /\ Net(db, c) = (IF c = call.sheep THEN call.sheepSend ELSE 0)
                                 - (IF c = call.wheat THEN call.wheatReceived ELSE 0)
                                 + (IF c = call.wheat /\ call.type = "payment"
                                    THEN call.curBReceived ELSE 0)
           /\ \A s, w \in Currencies :
                 Cardinality(OffersFor(db, s, w)) <= Cardinality(OffersFor(saved, s, w))
<1>1. CallOK
  BY DEF IInv, BooksInv
<1>2. /\ call \in ConversionCall /\ call # Idle
      /\ call.type = "offer" => call.op \in CreateOfferOps
      /\ call.type = "payment" => call.op \in PaymentOps
  BY <1>1, CallFacts DEF Converting
<1>3. /\ call.type \in {"offer", "payment"} /\ call.op \in Ops
      /\ call.path \in Seq(Currencies)
      /\ call.sheep \in Currencies /\ call.wheat \in Currencies
      /\ call.forSale \in Nat /\ call.maxSheepSend \in Nat /\ call.sheepSend \in Nat
      /\ call.curBReceived \in Nat /\ call.maxWheatReceive \in Nat
      /\ call.wheatReceived \in Nat /\ call.crossed \in Nat /\ call.size \in Nat
      /\ call.retList \in Seq(OfferRow)
  BY <1>2 DEF ConversionCall
<1> QED
  BY <1>2, <1>3 DEF IInv, BooksInv, MoneyInv, InFlight, CrossedInv

\* What was sent is to be received one step before.
LEMMA pathWalkedInv ==
    ASSUME IInv, pathWalked
    PROVE  IInv'
<1>1. CASE ~Enough
  BY <1>1, RollbackInv DEF pathWalked
<1>2. CASE Enough
  <2>1. /\ call.stage = "end" /\ call.type = "payment" /\ db' = db /\ saved' = saved
        /\ applied' = applied /\ call.wheatReceived = call.curBReceived
        /\ call' = [type |-> "payment", stage |-> "path", op |-> call.op, path |-> call.path,
                    curB |-> call.sheep, curBReceived |-> call.sheepSend]
    BY <1>2 DEF pathWalked, Enough
  <2>2. Converting
    BY <2>1 DEF Converting
  <2>3. /\ call.op \in Ops /\ call.op \in PaymentOps /\ call.path \in Seq(Currencies)
        /\ call.sheep \in Currencies /\ call.sheepSend \in Nat /\ call.curBReceived \in Nat
        /\ TablesOK(db) /\ TablesOK(saved) /\ Counted(db) /\ Counted(saved)
        /\ applied \in 0 .. MaxOps
        /\ \A c \in Currencies :
              /\ Net(saved, c) = 0
              /\ Net(db, c) = (IF c = call.sheep THEN call.sheepSend ELSE 0)
                              - (IF c = call.wheat THEN call.wheatReceived ELSE 0)
                              + (IF c = call.wheat /\ call.type = "payment"
                                 THEN call.curBReceived ELSE 0)
        /\ \A s, w \in Currencies :
              Cardinality(OffersFor(db, s, w)) <= Cardinality(OffersFor(saved, s, w))
    BY <2>1, <2>2, ConvertingFacts
  <2>4. \A c \in Currencies : Net(db, c) = IF c = call.sheep THEN call.sheepSend ELSE 0
    BY <2>1, <2>3
  <2> QED
    BY <2>1, <2>3, <2>4, PathInv
<1> QED
  BY <1>1, <1>2

\* The source pays what the last conversion asked for.
LEMMA sourcePaysInv ==
    ASSUME IInv, sourcePays
    PROVE  IInv'
<1> DEFINE a == call.op.source
           c == call.curB
           e == addBalance(db, a, c, -call.curBReceived)
<1>1. call.stage = "path"
  BY DEF sourcePays
<1>2. /\ call.op \in Ops /\ call.op \in PaymentOps
      /\ c \in Currencies /\ call.curBReceived \in Nat
      /\ TablesOK(db) /\ Counted(db)
      /\ \A k \in Currencies : Net(db, k) = IF k = c THEN call.curBReceived ELSE 0
  BY <1>1, PathFacts
<1>3. CASE Rollback
  BY <1>3, RollbackInv
<1>4. CASE /\ HasLine(db, a, c) /\ MayAddBalance(db, a, c, -call.curBReceived)
           /\ Commit(e)
  <2>1. a \in Accounts /\ -call.curBReceived \in Int
    BY <1>2 DEF PaymentOps
  <2>2. /\ TablesOK(e) /\ e.offers = db.offers
        /\ e.numSubEntries = db.numSubEntries /\ e.miscounted = db.miscounted
        /\ \A h \in Holdings : e.lines[h] = Absent <=> db.lines[h] = Absent
        /\ \A k \in Currencies : Net(e, k) = Net(db, k) + (IF k = c THEN -call.curBReceived ELSE 0)
    BY <1>2, <1>4, <2>1, AddBalanceFacts
  <2> HIDE DEF e
  <2>3. \A b : OffersIn(e, b) = OffersIn(db, b)
    BY <2>2 DEF OffersIn
  <2>4. Counted(e)
    BY <1>2, <2>2, <2>3, CountedFacts
  <2>5. \A k \in Currencies : Net(e, k) = 0
    BY <1>2, <2>2
  <2> QED
    BY <1>4, <2>2, <2>4, <2>5, CommitInv
<1> QED
  BY <1>3, <1>4 DEF sourcePays

-----------------------------------------------------------------------------
(* A new offer is settled.                                                 *)

\* What a conversion for an offer has.
LEMMA OfferingFacts ==
    ASSUME IInv, Offering
    PROVE  LET a == call.op.source IN
           /\ call.op \in Ops /\ call.op \in CreateOfferOps /\ a \in Accounts
           /\ call.op.offerID \in Nat /\ call.op.amount \in 0 .. MaxInt
           /\ call.op.price \in OpPrices
           /\ call.op.price.n \in Nat \ {0} /\ call.op.price.d \in Nat \ {0}
           /\ call.sheep = call.op.takerGets /\ call.wheat = call.op.takerPays
           /\ call.sheep # call.wheat
           /\ HasLine(db, a, call.sheep) /\ HasLine(db, a, call.wheat)
           /\ loadTrustLine(db, a, call.wheat).authorized
           /\ call.forSale <= loadTrustLine(db, a, call.sheep).balance
           /\ call.forSale <= call.op.amount
           /\ call.curBReceived = getMaxAmountReceive(db, a, call.wheat)
           /\ BuyersPriceSoFar
           /\ call.sheepSend <= call.forSale /\ call.wheatReceived <= call.curBReceived
           /\ call.wheatReceived = 0 => call.sheepSend = 0
<1>1. Converting /\ call.type = "offer"
  BY DEF Offering
<1>2. /\ call.op \in Ops /\ call.op \in CreateOfferOps
      /\ call.forSale \in Nat /\ call.maxSheepSend \in Nat /\ call.sheepSend \in Nat
      /\ call.curBReceived \in Nat /\ call.maxWheatReceive \in Nat /\ call.wheatReceived \in Nat
  BY <1>1, ConvertingFacts
<1>3. /\ call.op.source \in Accounts /\ call.op.offerID \in Nat /\ call.op.amount \in 0 .. MaxInt
      /\ call.op.takerGets # call.op.takerPays
  BY <1>2 DEF CreateOfferOps
<1>4. call.op.price \in OpPrices
  BY <1>2 DEF OpPrices
<1>5. call.op.price.n \in Nat \ {0} /\ call.op.price.d \in Nat \ {0}
  BY <1>4, PriceFacts
<1>6. /\ call.sheepSend <= call.forSale /\ call.wheatReceived <= call.curBReceived
      /\ call.wheatReceived = 0 => call.sheepSend = 0
  BY <1>1, <1>2 DEF IInv, AmountInv
<1> QED
  BY <1>2, <1>3, <1>4, <1>5, <1>6 DEF IInv, SourceInv

\* The two throws that "would indicate a bug in OfferExchange": what was
\* received fits the source's line, and what was sold is what it had.
LEMMA SettlementFits ==
    ASSUME IInv, AtSettlement
    PROVE  Claimed /\ (Sold \/ ~loadTrustLine(db, call.op.source, call.sheep).authorized)
<1> DEFINE a == call.op.source
           wl == loadTrustLine(db, a, call.wheat)
           sl == loadTrustLine(db, a, call.sheep)
<1>1. Offering /\ Converting
  BY DEF Offering, Converting, AtSettlement
<1>2. /\ a \in Accounts /\ HasLine(db, a, call.sheep) /\ HasLine(db, a, call.wheat)
      /\ wl.authorized
      /\ call.forSale <= sl.balance /\ call.curBReceived = getMaxAmountReceive(db, a, call.wheat)
      /\ call.sheepSend <= call.forSale /\ call.wheatReceived <= call.curBReceived
  BY <1>1, OfferingFacts
<1>3. /\ TablesOK(db) /\ call.sheep \in Currencies /\ call.wheat \in Currencies
      /\ call.sheepSend \in Nat /\ call.wheatReceived \in Nat /\ call.forSale \in Nat
      /\ call.curBReceived \in Nat
  BY <1>1, ConvertingFacts
<1>4. /\ wl.balance \in Nat /\ wl.limit \in Nat
      /\ ~IsIssuer(a, call.wheat) => call.curBReceived = wl.limit - wl.balance
  BY <1>2, <1>3, LineFacts
<1>5. sl.balance \in Nat /\ sl.limit \in Nat /\ sl.balance <= sl.limit
  BY <1>2, <1>3, LineFacts
<1>6. Claimed
  <2>1. ~IsIssuer(a, call.wheat) => wl.balance + call.wheatReceived \in 0 .. wl.limit
    BY <1>2, <1>3, <1>4
  <2> QED
    BY <1>2, <2>1 DEF Claimed, MayAddBalance
<1>7. Sold \/ ~sl.authorized
  <2>1. sl.balance + (-call.sheepSend) \in 0 .. sl.limit
    BY <1>2, <1>3, <1>5
  <2> QED
    BY <2>1 DEF Sold, MayAddBalance
<1> QED
  BY <1>6, <1>7

\* A line is its account's: adding to another leaves it.
LEMMA OtherLineStays ==
    ASSUME NEW d, NEW e, NEW a \in Accounts, NEW c \in Currencies, NEW b \in Accounts,
           NEW k \in Currencies, <<a, c>> # <<b, k>>,
           \A h \in Holdings : h # <<a, c>> => e.lines[h] = d.lines[h]
    PROVE  /\ HasLine(d, b, k) <=> HasLine(e, b, k)
           /\ loadTrustLine(e, b, k) = loadTrustLine(d, b, k)
           /\ getMaxAmountReceive(e, b, k) = getMaxAmountReceive(d, b, k)
           /\ \A delta : MayAddBalance(e, b, k, delta) <=> MayAddBalance(d, b, k, delta)
<1>1. ~IsIssuer(b, k) => e.lines[<<b, k>>] = d.lines[<<b, k>>]
  BY DEF IsIssuer, Holdings
<1>2. loadTrustLine(e, b, k) = loadTrustLine(d, b, k)
  BY <1>1 DEF loadTrustLine
<1>3. HasLine(d, b, k) <=> HasLine(e, b, k)
  BY <1>1 DEF HasLine
<1> QED
  BY <1>2, <1>3 DEF getMaxAmountReceive, MayAddBalance

\* The tables once the source's balances are stored: nothing is owed.
LEMMA SettledFacts ==
    ASSUME IInv, AfterSettlement
    PROVE  /\ TablesOK(Settled) /\ Counted(Settled)
           /\ Settled.offers = db.offers /\ Settled.idPool = db.idPool
           /\ Settled.numSubEntries = db.numSubEntries /\ Settled.miscounted = db.miscounted
           /\ \A c \in Currencies : Net(Settled, c) = 0
<1> DEFINE a == call.op.source
           w == call.wheat
           s == call.sheep
           e == addBalance(db, a, w, call.wheatReceived)
           f == addBalance(e, a, s, -call.sheepSend)
<1>1. Offering /\ Converting /\ call.type = "offer"
  BY DEF Offering, Converting, AfterSettlement, AtSettlement
<1>2. /\ a \in Accounts /\ HasLine(db, a, s) /\ HasLine(db, a, w) /\ s # w
      /\ call.wheatReceived = 0 => call.sheepSend = 0
  BY <1>1, OfferingFacts
<1>3. /\ TablesOK(db) /\ Counted(db) /\ s \in Currencies /\ w \in Currencies
      /\ call.sheepSend \in Nat /\ call.wheatReceived \in Nat /\ call.curBReceived \in Nat
      /\ \A c \in Currencies :
            Net(db, c) = (IF c = s THEN call.sheepSend ELSE 0)
                         - (IF c = w THEN call.wheatReceived ELSE 0)
                         + (IF c = w /\ call.type = "payment" THEN call.curBReceived ELSE 0)
  BY <1>1, ConvertingFacts
<1>4. MayAddBalance(db, a, w, call.wheatReceived) /\ MayAddBalance(db, a, s, -call.sheepSend)
  <2>1. CASE call.wheatReceived > 0
    BY <2>1 DEF AfterSettlement, Claimed, Sold
  <2>2. CASE ~(call.wheatReceived > 0)
    <3>1. call.wheatReceived = 0 /\ -call.sheepSend = 0
      BY <1>2, <1>3, <2>2
    <3> QED
      BY <3>1 DEF MayAddBalance
  <2> QED
    BY <2>1, <2>2
<1>5. /\ TablesOK(e) /\ e.offers = db.offers /\ e.idPool = db.idPool
      /\ e.numSubEntries = db.numSubEntries /\ e.miscounted = db.miscounted
      /\ \A h \in Holdings : /\ e.lines[h] = Absent <=> db.lines[h] = Absent
                             /\ h # <<a, w>> => e.lines[h] = db.lines[h]
      /\ \A k \in Currencies : Net(e, k) = Net(db, k) + (IF k = w THEN call.wheatReceived ELSE 0)
  BY <1>2, <1>3, <1>4, AddBalanceFacts
<1> HIDE DEF e
<1>6. HasLine(e, a, s) /\ MayAddBalance(e, a, s, -call.sheepSend)
  <2>1. /\ <<a, w>> # <<a, s>> /\ a \in Accounts /\ s \in Currencies /\ w \in Currencies
        /\ \A h \in Holdings : h # <<a, w>> => e.lines[h] = db.lines[h]
    BY <1>2, <1>3, <1>5
  <2> HIDE DEF a, s, w
  <2>2. /\ HasLine(db, a, s) <=> HasLine(e, a, s)
        /\ \A delta : MayAddBalance(e, a, s, delta) <=> MayAddBalance(db, a, s, delta)
    BY ONLY <2>1, OtherLineStays
  <2> QED
    BY <1>2, <1>4, <2>2
<1>7. /\ TablesOK(f) /\ f.offers = e.offers /\ f.idPool = e.idPool
      /\ f.numSubEntries = e.numSubEntries /\ f.miscounted = e.miscounted
      /\ \A h \in Holdings : f.lines[h] = Absent <=> e.lines[h] = Absent
      /\ \A k \in Currencies : Net(f, k) = Net(e, k) + (IF k = s THEN -call.sheepSend ELSE 0)
  <2>1. -call.sheepSend \in Int
    BY <1>3
  <2> QED
    BY <1>2, <1>3, <1>5, <1>6, <2>1, AddBalanceFacts
<1> HIDE DEF f
<1>8. \A b : OffersIn(f, b) = OffersIn(db, b)
  BY <1>5, <1>7 DEF OffersIn
<1>9. Counted(f)
  <2>1. \A h \in Holdings : f.lines[h] = Absent <=> db.lines[h] = Absent
    BY <1>5, <1>7
  <2> QED
    BY <1>3, <1>5, <1>7, <1>8, <2>1, CountedFacts
<1>10. ASSUME NEW k \in Currencies PROVE Net(f, k) = 0
  <2>1. Net(db, k) = (IF k = s THEN call.sheepSend ELSE 0)
                         - (IF k = w THEN call.wheatReceived ELSE 0) + 0
    BY <1>1, <1>3
  <2>2. Net(e, k) = Net(db, k) + (IF k = w THEN call.wheatReceived ELSE 0)
    BY <1>5
  <2>3. Net(f, k) = Net(e, k) + (IF k = s THEN -call.sheepSend ELSE 0)
    BY <1>7
  <2> QED
    BY <1>2, <1>3, <2>1, <2>2, <2>3
<1>11. Settled = f
  BY DEF Settled, f, e
<1> QED
  BY <1>5, <1>7, <1>9, <1>10, <1>11

\* What is left of the offer is for sale.
LEMMA LeftFacts ==
    ASSUME IInv, AfterSettlement, Left > 0
    PROVE  Left \in 1 .. MaxInt
<1>1. Offering /\ Converting
  BY DEF Offering, Converting, AfterSettlement, AtSettlement
<1>2. /\ call.sheepSend <= call.forSale /\ call.forSale <= call.op.amount
      /\ call.op.amount \in 0 .. MaxInt
  BY <1>1, OfferingFacts
<1>3. call.sheepSend \in Nat /\ call.forSale \in Nat
  BY <1>1, ConvertingFacts
<1> QED
  BY <1>2, <1>3, BoundsFacts DEF Left

\* What credit the lines hold depends on them and on what was issued.
LEMMA NetFacts ==
    ASSUME NEW d, NEW e, e.lines = d.lines, e.issued = d.issued, e.unpaid = d.unpaid
    PROVE  \A c : Net(e, c) = Net(d, c)
BY DEF Net

\* The rest of a new offer is stored, or there is no reserve for it.
LEMMA leaveOfferInv ==
    ASSUME IInv, leaveOffer
    PROVE  IInv'
<1> DEFINE a == call.op.source
           d == Settled
           offer == [offerID |-> Settled.idPool + 1, accountID |-> a, amount |-> Left,
                     takerGets |-> call.sheep, takerPays |-> call.wheat, price |-> call.op.price]
           e == [Settled EXCEPT !.offers = @ \cup {offer}, !.idPool = @ + 1,
                                !.numSubEntries[a] = @ + 1]
<1>1. AfterSettlement /\ Left > 0 /\ (Rollback \/ Commit(e))
  BY DEF leaveOffer
<1>2. CASE Rollback
  BY <1>2, RollbackInv
<1>3. CASE Commit(e)
  <2>1. /\ TablesOK(d) /\ Counted(d) /\ d \in Tables
        /\ \A c \in Currencies : Net(d, c) = 0
    BY <1>1, SettledFacts DEF TablesOK
  <2>2. Offering /\ Converting
    BY <1>1 DEF Offering, Converting, AfterSettlement, AtSettlement
  <2>3. a \in Accounts /\ call.op.price \in OpPrices /\ call.sheep # call.wheat
    BY <2>2, OfferingFacts
  <2>4. call.sheep \in Currencies /\ call.wheat \in Currencies
    BY <2>2, ConvertingFacts
  <2>5. Left \in 1 .. MaxInt
    BY <1>1, LeftFacts
  <2>6. d.idPool \in Nat
    BY <2>1 DEF Tables
  <2>7. /\ offer \in OfferRow /\ offer.offerID = d.idPool + 1 /\ offer.accountID = a
        /\ offer.takerGets = call.sheep /\ offer.takerPays = call.wheat
    BY <2>3, <2>4, <2>5, <2>6 DEF OfferRow
  <2> HIDE DEF offer, d, a
  <2> DEFINE ns == [d.numSubEntries EXCEPT ![a] = @ + 1]
             os == d.offers \cup {offer}
             ip == d.idPool + 1
  <2>8. e = [d EXCEPT !.offers = os, !.idPool = ip, !.numSubEntries = ns]
    BY DEF d
  <2>9. ns \in [Accounts -> Nat] /\ os \in SUBSET OfferRow /\ ip \in Nat
    BY <2>1, <2>3, <2>7 DEF Tables
  <2> HIDE DEF ns, os, ip, e
  <2>10. /\ e \in Tables /\ e.lines = d.lines /\ e.offers = os
         /\ e.idPool = ip /\ e.issued = d.issued /\ e.unpaid = d.unpaid
         /\ e.numSubEntries = ns /\ e.miscounted = d.miscounted
    BY <2>1, <2>8, <2>9 DEF Tables
  <2>11. \A o \in d.offers : o.offerID <= d.idPool /\ o.offerID \in Nat
    BY <2>1, OfferFacts
  <2>12. offer \notin d.offers
    BY <2>6, <2>7, <2>11
  <2>13. TablesOK(e)
    <3>1. IsFiniteSet(e.offers)
      <4>1. IsFiniteSet(d.offers)
        BY <2>1 DEF TablesOK
      <4> QED
        BY <2>10, <4>1, FS_AddElement DEF os
    <3>2. \A o \in e.offers : o.offerID <= e.idPool /\ o.takerPays # o.takerGets
      <4>1. \A o \in d.offers : o.takerPays # o.takerGets
        BY <2>1 DEF TablesOK
      <4> QED
        BY <2>3, <2>6, <2>7, <2>10, <2>11, <4>1 DEF os, ip
    <3>3. \A o, p \in e.offers : o.offerID = p.offerID => o = p
      <4>1. \A o \in d.offers : o.offerID # offer.offerID
        BY <2>6, <2>7, <2>11
      <4>2. \A o, p \in d.offers : o.offerID = p.offerID => o = p
        BY <2>1 DEF TablesOK
      <4> QED
        BY <2>10, <4>1, <4>2 DEF os
    <3>4. \A h \in Holdings : e.lines[h] # Absent => e.lines[h].balance <= e.lines[h].limit
      BY <2>1, <2>10 DEF TablesOK
    <3> QED
      BY <2>10, <3>1, <3>2, <3>3, <3>4 DEF TablesOK
  <2>14. Counted(e)
    <3> SUFFICES ASSUME NEW b \in Accounts
                 PROVE  e.numSubEntries[b] = Cardinality(LinesIn(e, b))
                           + Cardinality(OffersIn(e, b)) + e.miscounted[b]
      BY DEF Counted
    <3>1. LinesIn(e, b) = LinesIn(d, b)
      BY <2>10 DEF LinesIn
    <3>2. IsFiniteSet(OffersIn(d, b)) /\ Cardinality(OffersIn(d, b)) \in Nat
      BY <2>1, BookFinite
    <3>3. Cardinality(LinesIn(d, b)) \in Nat
      BY HoldingsFinite
    <3>4. d.miscounted[b] \in Int /\ d.numSubEntries[b] \in Nat
      BY <2>1 DEF Tables
    <3>5. d.numSubEntries[b] = Cardinality(LinesIn(d, b)) + Cardinality(OffersIn(d, b))
                                   + d.miscounted[b]
      BY <2>1 DEF Counted
    <3>6. CASE b = a
      <4>1. OffersIn(e, b) = OffersIn(d, b) \cup {offer} /\ offer \notin OffersIn(d, b)
        BY <2>7, <2>10, <2>12, <3>6 DEF OffersIn, os
      <4>2. Cardinality(OffersIn(e, b)) = Cardinality(OffersIn(d, b)) + 1
        BY <3>2, <4>1, FS_AddElement
      <4>3. e.numSubEntries[b] = d.numSubEntries[b] + 1
        BY <2>1, <2>10, <3>6 DEF Tables, ns
      <4> QED
        BY <2>10, <3>1, <3>2, <3>3, <3>4, <3>5, <4>2, <4>3
    <3>7. CASE b # a
      <4>1. OffersIn(e, b) = OffersIn(d, b)
        BY <2>7, <2>10, <3>7 DEF OffersIn, os
      <4>2. e.numSubEntries[b] = d.numSubEntries[b]
        BY <2>1, <2>10, <3>7 DEF Tables, ns
      <4> QED
        BY <2>10, <3>1, <3>5, <4>1, <4>2
    <3> QED
      BY <3>6, <3>7
  <2>15. \A c \in Currencies : Net(e, c) = 0
    BY <2>1, <2>10, NetFacts
  <2> QED
    BY <1>3, <2>13, <2>14, <2>15, CommitInv
<1> QED
  BY <1>1, <1>2, <1>3

\* At most one offer has the id.
LEMMA ModifiedFacts ==
    ASSUME NEW d, TablesOK(d), NEW op
    PROVE  Modified(d, op) = {} \/ \E o \in d.offers : o.accountID = op.source /\ Modified(d, op) = {o}
BY DEF Modified, TablesOK

\* The offer that is modified has another amount.
LEMMA updateOfferInv ==
    ASSUME IInv, updateOffer
    PROVE  IInv'
<1> DEFINE old == Modified(db, call.op)
           d == Settled
           left == Left
           new == {[o EXCEPT !.amount = left] : o \in old}
           e == [d EXCEPT !.offers = (@ \ old) \cup new]
<1>1. AfterSettlement /\ Left > 0 /\ Commit(e)
  BY DEF updateOffer
<1>2. /\ TablesOK(d) /\ Counted(d) /\ d \in Tables /\ d.offers = db.offers
      /\ \A c \in Currencies : Net(d, c) = 0
  BY <1>1, SettledFacts DEF TablesOK
<1>3. TablesOK(db)
  BY DEF IInv, BooksInv
<1>4. left \in 1 .. MaxInt
  BY <1>1, LeftFacts
<1> HIDE DEF d, left
<1>5. CASE old = {}
  <2>1. e = [d EXCEPT !.offers = d.offers]
    BY <1>5
  <2>2. e = d
    BY <1>2, <2>1 DEF Tables
  <2> QED
    BY <1>1, <1>2, <2>2, CommitInv
<1>6. CASE \E o \in db.offers : o.accountID = call.op.source /\ old = {o}
  <2>1. PICK o \in d.offers : old = {o}
    BY <1>2, <1>6
  <2> DEFINE p == [o EXCEPT !.amount = left]
             os == (d.offers \ {o}) \cup {p}
  <2>2. e = [d EXCEPT !.offers = os]
    BY <2>1
  <2>3. o \in OfferRow /\ o.offerID \in 1 .. d.idPool /\ o.takerPays # o.takerGets
    BY <1>2, OfferFacts
  <2>4. /\ p \in OfferRow /\ p.offerID = o.offerID /\ p.accountID = o.accountID
        /\ p.takerGets = o.takerGets /\ p.takerPays = o.takerPays
    BY <1>4, <2>3 DEF OfferRow
  <2> HIDE DEF p, e, old
  <2>5. os \in SUBSET OfferRow
    BY <1>2, <2>4 DEF Tables
  <2> HIDE DEF os
  <2>6. /\ e \in Tables /\ e.lines = d.lines /\ e.offers = os
        /\ e.idPool = d.idPool /\ e.issued = d.issued /\ e.unpaid = d.unpaid
        /\ e.numSubEntries = d.numSubEntries /\ e.miscounted = d.miscounted
    BY <1>2, <2>2, <2>5 DEF Tables
  <2>7. /\ \A b : Cardinality(OffersIn(e, b)) = Cardinality(OffersIn(d, b))
        /\ IsFiniteSet(e.offers)
        /\ \A q, r \in e.offers : q.offerID = r.offerID => q = r
    <3>1. /\ TablesOK(d) /\ o \in d.offers
          /\ p.offerID = o.offerID /\ p.accountID = o.accountID
          /\ p.takerGets = o.takerGets /\ p.takerPays = o.takerPays
          /\ e.offers = (d.offers \ {o}) \cup {p}
      BY <1>2, <2>4, <2>6 DEF os
    <3> QED
      BY ONLY <3>1, OfferReplaced
  <2>8. TablesOK(e)
    <3>1. \A q \in e.offers : q.offerID <= e.idPool /\ q.takerPays # q.takerGets
      <4>1. \A q \in d.offers : q.offerID <= d.idPool /\ q.takerPays # q.takerGets
        BY <1>2 DEF TablesOK
      <4> QED
        BY <2>4, <2>6, <4>1 DEF os
    <3>2. \A h \in Holdings : e.lines[h] # Absent => e.lines[h].balance <= e.lines[h].limit
      BY <1>2, <2>6 DEF TablesOK
    <3> QED
      BY <2>6, <2>7, <3>1, <3>2 DEF TablesOK
  <2>9. Counted(e)
    BY <1>2, <2>6, <2>7, CountedFacts
  <2>10. \A c \in Currencies : Net(e, c) = 0
    BY <1>2, <2>6, NetFacts
  <2> QED
    BY <1>1, <2>8, <2>9, <2>10, CommitInv
<1> QED
  BY <1>3, <1>5, <1>6, ModifiedFacts

\* The offer that is modified goes, but stays counted.
LEMMA dropOfferInv ==
    ASSUME IInv, dropOffer
    PROVE  IInv'
<1> DEFINE old == Modified(db, call.op)
           a == call.op.source
           d == Settled
           n == Cardinality(old)
           e == [d EXCEPT !.offers = @ \ old, !.miscounted[a] = @ + n]
<1>1. AfterSettlement /\ Commit(e)
  BY DEF dropOffer
<1>2. /\ TablesOK(d) /\ Counted(d) /\ d \in Tables /\ d.offers = db.offers
      /\ \A c \in Currencies : Net(d, c) = 0
  BY <1>1, SettledFacts DEF TablesOK
<1>3. TablesOK(db) /\ Offering
  BY <1>1 DEF IInv, BooksInv, Offering, Converting, AfterSettlement, AtSettlement
<1>4. a \in Accounts
  BY <1>3, OfferingFacts
<1>5. \/ old = {}
      \/ \E o \in d.offers : o.accountID = a /\ old = {o}
  BY <1>2, <1>3, ModifiedFacts
<1>6. n \in {0, 1} /\ (old = {} => n = 0) /\ (\A o : old = {o} => n = 1)
  BY <1>5, FS_EmptySet, FS_Singleton
<1> HIDE DEF d, old, n
<1> DEFINE os == d.offers \ old
           ms == [d.miscounted EXCEPT ![a] = @ + n]
<1>7. e = [d EXCEPT !.offers = os, !.miscounted = ms]
  OBVIOUS
<1>8. os \in SUBSET OfferRow /\ ms \in [Accounts -> Int]
  BY <1>2, <1>4, <1>6 DEF Tables
<1> HIDE DEF a, os, ms, e
<1>9. /\ e \in Tables /\ e.lines = d.lines /\ e.offers = os
      /\ e.idPool = d.idPool /\ e.issued = d.issued /\ e.unpaid = d.unpaid
      /\ e.numSubEntries = d.numSubEntries /\ e.miscounted = ms
  BY <1>2, <1>7, <1>8 DEF Tables
<1>10. TablesOK(e)
  <2>1. IsFiniteSet(os)
    <3>1. os \in SUBSET d.offers /\ IsFiniteSet(d.offers)
      BY <1>2 DEF os, TablesOK
    <3> QED
      BY <3>1, FS_Subset
  <2> QED
    BY <1>2, <1>9, <2>1 DEF TablesOK, os
<1>11. Counted(e)
  <2> SUFFICES ASSUME NEW b \in Accounts
               PROVE  e.numSubEntries[b] = Cardinality(LinesIn(e, b))
                         + Cardinality(OffersIn(e, b)) + e.miscounted[b]
    BY DEF Counted
  <2>1. LinesIn(e, b) = LinesIn(d, b)
    BY <1>9 DEF LinesIn
  <2>2. Cardinality(OffersIn(d, b)) \in Nat
    BY <1>2, BookFinite
  <2>3. Cardinality(LinesIn(d, b)) \in Nat
    BY HoldingsFinite
  <2>4. d.miscounted[b] \in Int /\ e.miscounted[b] = d.miscounted[b] + (IF b = a THEN n ELSE 0)
    BY <1>2, <1>4, <1>6, <1>9 DEF Tables, ms
  <2>5. d.numSubEntries[b] = Cardinality(LinesIn(d, b)) + Cardinality(OffersIn(d, b))
                                 + d.miscounted[b]
    BY <1>2 DEF Counted
  <2>6. Cardinality(OffersIn(e, b)) = Cardinality(OffersIn(d, b)) - (IF b = a THEN n ELSE 0)
    <3>1. CASE old = {}
      <4>1. OffersIn(e, b) = OffersIn(d, b) /\ n = 0
        BY <1>6, <1>9, <3>1 DEF OffersIn, os
      <4> QED
        BY <2>2, <4>1
    <3>2. CASE \E o \in d.offers : o.accountID = a /\ old = {o}
      <4>1. PICK o \in d.offers : o.accountID = a /\ old = {o}
        BY <3>2
      <4>2. n = 1 /\ e.offers = d.offers \ {o}
        BY <1>6, <1>9, <4>1 DEF os
      <4>3. Cardinality(OffersIn(e, b)) =
                Cardinality(OffersIn(d, b)) - (IF b = o.accountID THEN 1 ELSE 0)
        BY <1>2, <4>2, OfferRemoved
      <4> QED
        BY <4>1, <4>2, <4>3
    <3> QED
      BY <1>5, <3>1, <3>2
  <2> QED
    BY <1>6, <1>9, <2>1, <2>2, <2>3, <2>4, <2>5, <2>6
<1>12. \A c \in Currencies : Net(e, c) = 0
  BY <1>2, <1>9, NetFacts
<1> QED
  BY <1>1, <1>10, <1>11, <1>12, CommitInv

-----------------------------------------------------------------------------
(* The book is crossed.                                                    *)

\* The best offer of the page is of the book, and none is before it.
LEMMA BestFacts ==
    ASSUME IInv, AtOffer
    PROVE  /\ Converting /\ call.stage = "each"
           /\ Best \in Book /\ Best \in db.offers /\ Best \in OfferRow
           /\ Best.takerPays = call.sheep /\ Best.takerGets = call.wheat
           /\ \A o \in Book : ~Before(o, Best)
           /\ IsPage(Tail(call.retList), Book \ {Best})
           /\ Len(Tail(call.retList)) = Len(call.retList) - 1 /\ Len(call.retList) \in Nat
           /\ call.offerOffset = Len(call.retList)
           /\ call.size < PageSize => \A o \in Book \ {Best} :
                 \E j \in DOMAIN Tail(call.retList) : Tail(call.retList)[j] = o
<1>1. call.stage = "each" /\ call.retList # <<>>
  BY DEF AtOffer
<1>2. Converting
  BY <1>1 DEF Converting
<1>3. TablesOK(db)
  BY <1>2, ConvertingFacts
<1>4. Book \in SUBSET OfferRow /\ \A o \in Book : o \in db.offers
  BY <1>3 DEF TablesOK, Tables, Book, OffersFor
<1>5. /\ IsPage(call.retList, Book) /\ call.offerOffset = Len(call.retList)
      /\ call.size < PageSize =>
            \A o \in Book : \E j \in DOMAIN call.retList : call.retList[j] = o
  BY <1>1 DEF IInv, PageInv
<1>6. /\ Best \in Book
      /\ \A o \in Book : ~Before(o, Best)
      /\ IsPage(Tail(call.retList), Book \ {Best})
      /\ Len(Tail(call.retList)) = Len(call.retList) - 1 /\ Len(call.retList) \in Nat
      /\ \A o \in Book \ {Best} : (\E j \in DOMAIN call.retList : call.retList[j] = o) =>
            \E j \in DOMAIN Tail(call.retList) : Tail(call.retList)[j] = o
  BY <1>1, <1>4, <1>5, PageTail DEF Best
<1>7. Best.takerPays = call.sheep /\ Best.takerGets = call.wheat
  BY <1>6 DEF Book, OffersFor
<1> QED
  BY <1>1, <1>2, <1>4, <1>5, <1>6, <1>7

\* A step that exchanges nothing keeps all but where the loop is.
LEMMA NothingExchangedInv ==
    ASSUME IInv, Converting, UNCHANGED <<db, saved, applied>>,
           NEW stage \in {"load", "each", "end"}, NEW result \in {"eOK", "ePartial", "eFilterStop"},
           NEW page \in Seq(OfferRow), NEW size \in Nat, NEW offset \in Int,
           call' = [call EXCEPT !.stage = stage, !.result = result, !.retList = page,
                                !.size = size, !.offerOffset = offset],
           stage # "end" => call.stage # "end",
           stage = "load" => offset = 0,
           stage = "each" =>
              /\ IsPage(page, Book) /\ offset = Len(page)
              /\ size < PageSize => \A o \in Book : \E j \in DOMAIN page : page[j] = o,
           stage = "end" =>
              /\ result = "eOK" /\ call.maxWheatReceive > 0 /\ call.maxSheepSend > 0 => Book = {}
              /\ result = "eFilterStop" => \A o \in Book : DearOrHidden(o)
    PROVE  IInv'
<1>1. call \in ConversionCall
  BY ConvertingFacts
<1>2. /\ call' \in ConversionCall /\ call'.type = call.type /\ call'.op = call.op
      /\ call'.stage = stage /\ call'.result = result
      /\ call'.sheep = call.sheep /\ call'.forSale = call.forSale
      /\ call'.maxSheepSend = call.maxSheepSend /\ call'.sheepSend = call.sheepSend
      /\ call'.wheat = call.wheat /\ call'.curBReceived = call.curBReceived
      /\ call'.maxWheatReceive = call.maxWheatReceive /\ call'.wheatReceived = call.wheatReceived
      /\ call'.retList = page /\ call'.size = size /\ call'.offerOffset = offset
      /\ call'.crossed = call.crossed
  BY <1>1 DEF ConversionCall
<1>3. /\ call.type = "offer" => call.op \in CreateOfferOps
      /\ call.type = "payment" => call.op \in PaymentOps
      /\ call.type \in {"offer", "payment"} /\ call # Idle
      /\ call.crossed \in Nat
      /\ TablesOK(db) /\ TablesOK(saved) /\ Counted(db) /\ Counted(saved)
      /\ applied \in 0 .. MaxOps
  BY ConvertingFacts
<1>4. Converting'
  BY <1>2 DEF Converting
<1>5. db' = db /\ saved' = saved /\ applied' = applied
  OBVIOUS
<1>6. BooksInv'
  <2>1. CallOK'
    BY <1>2, <1>3 DEF CallOK
  <2> QED
    BY <1>3, <1>5, <2>1 DEF BooksInv
<1>7. MoneyInv'
  <2>1. \A c : InFlight(c)' = InFlight(c)
    BY <1>2, <1>4 DEF InFlight
  <2> QED
    BY <1>5, <2>1 DEF IInv, MoneyInv
<1>8. AmountInv'
  BY <1>2, <1>4 DEF IInv, AmountInv
<1>9. SourceInv'
  <2>1. Offering' => Offering
    BY <1>2 DEF Offering
  <2> QED
    BY <1>2, <1>5, <2>1 DEF IInv, SourceInv, BuyersPriceSoFar
<1>10. Book' = Book
  BY <1>2, <1>5 DEF Book
<1>11. PageInv'
  <2>1. \A o : TooDear(o) <=> TooDear(o)'
    BY <1>2 DEF TooDear
  <2>2. \A o : DearOrHidden(o) <=> DearOrHidden(o)'
    BY <1>10, <2>1 DEF DearOrHidden
  <2> QED
    BY <1>2, <1>10, <2>2 DEF PageInv
<1>12. CrossedInv'
  <2>1. Cardinality(Book) \in Nat /\ Cardinality(OffersFor(saved, call.sheep, call.wheat)) \in Nat
    BY <1>3, BookFinite DEF Book
  <2>2. call.crossed + (IF call.stage = "end" THEN 0 ELSE Cardinality(Book))
              <= Cardinality(OffersFor(saved, call.sheep, call.wheat))
    BY DEF IInv, CrossedInv
  <2>3. call'.crossed + (IF call'.stage = "end" THEN 0 ELSE Cardinality(Book)')
              <= Cardinality(OffersFor(saved', call'.sheep, call'.wheat))
    <3> DEFINE m == Cardinality(OffersFor(saved, call.sheep, call.wheat))
               b == Cardinality(Book)
    <3>1. stage # "end" => call.stage # "end"
      OBVIOUS
    <3>2. m \in Nat /\ b \in Nat
      BY <2>1
    <3>3. call.crossed + (IF call.stage = "end" THEN 0 ELSE b) <= m
      BY <2>2
    <3> HIDE DEF m, b
    <3>4. call.crossed + (IF stage = "end" THEN 0 ELSE b) <= m
      BY <1>3, <3>1, <3>2, <3>3
    <3> QED
      BY <1>2, <1>5, <1>10, <3>4 DEF m, b
  <2>4. \A s, w \in Currencies :
            Cardinality(OffersFor(db, s, w)) <= Cardinality(OffersFor(saved, s, w))
    BY ConvertingFacts
  <2> QED
    BY <1>5, <2>3, <2>4 DEF CrossedInv
<1> QED
  BY <1>6, <1>7, <1>8, <1>9, <1>11, <1>12 DEF IInv

\* A page is loaded from the beginning of the book.
LEMMA LoadBestOffersInv ==
    ASSUME IInv, LoadBestOffers
    PROVE  IInv'
<1> DEFINE page == loadBestOffers(db, call.sheep, call.wheat, call.offerOffset)
           size == Len(page)
           offset == call.offerOffset + Len(page)
<1>1. call.stage = "load" /\ Converting
  BY DEF LoadBestOffers, Converting
<1>2. call.offerOffset = 0
  BY <1>1 DEF IInv, PageInv
<1>3. TablesOK(db) /\ call \in ConversionCall
  BY <1>1, ConvertingFacts
<1>4. IsPage(page, Book) /\ (Len(page) < PageSize =>
                                \A o \in Book : \E j \in DOMAIN page : page[j] = o)
  BY <1>2, <1>3, BestOffersArePage DEF Book
<1>5. page \in Seq(OfferRow)
  <2>1. Book \in SUBSET OfferRow
    BY <1>3 DEF TablesOK, Tables, Book, OffersFor
  <2>2. page \in Seq(Book)
    BY <1>4 DEF IsPage
  <2> HIDE DEF page
  <2> QED
    BY <2>1, <2>2
<1>6. call' = [call EXCEPT !.stage = "each", !.result = call.result, !.retList = page,
                           !.size = size, !.offerOffset = offset]
  <2>1. call' = [call EXCEPT !.stage = "each", !.retList = page, !.size = size,
                             !.offerOffset = offset]
    BY DEF LoadBestOffers
  <2> HIDE DEF page, size, offset
  <2> QED
    BY <1>3, <2>1 DEF ConversionCall
<1>7. call.result \in {"eOK", "ePartial", "eFilterStop"} /\ call.stage # "end"
  BY <1>1, <1>3 DEF ConversionCall
<1>8. size \in Nat /\ offset \in Int /\ offset = Len(page)
  <2> HIDE DEF page
  <2> QED
    BY <1>2, <1>5
<1>9. UNCHANGED <<db, saved, applied>>
  BY DEF LoadBestOffers
<1>10. size = Len(page)
  OBVIOUS
<1> HIDE DEF page, size, offset
<1> QED
  BY <1>1, <1>4, <1>5, <1>6, <1>7, <1>8, <1>9, <1>10, NothingExchangedInv

\* The page is used up, and so is the book if it was not full.
LEMMA NextPageInv ==
    ASSUME IInv, NextPage
    PROVE  IInv'
<1> DEFINE stage == IF call.size < PageSize THEN "end" ELSE "load"
<1>1. /\ call.stage = "each" /\ call.retList = <<>> /\ Converting
      /\ UNCHANGED <<db, saved, applied>>
  BY DEF NextPage, Converting
<1>2. TablesOK(db) /\ call \in ConversionCall
  BY <1>1, ConvertingFacts
<1>3. /\ call.offerOffset = Len(call.retList)
      /\ call.size < PageSize => \A o \in Book : \E j \in DOMAIN call.retList : call.retList[j] = o
  BY <1>1 DEF IInv, PageInv
<1>4. call.offerOffset = 0 /\ (call.size < PageSize => Book = {})
  BY <1>1, <1>3
<1>5. call' = [call EXCEPT !.stage = stage]
  BY DEF NextPage
<1>6. stage \in {"load", "each", "end"} /\ stage # "each" /\ (stage = "end" => call.size < PageSize)
  OBVIOUS
<1> HIDE DEF stage
<1>7. /\ call.result \in {"eOK", "ePartial", "eFilterStop"} /\ call.retList \in Seq(OfferRow)
      /\ call.size \in Nat /\ call.offerOffset \in Int
  BY <1>2 DEF ConversionCall
<1>8. call' = [call EXCEPT !.stage = stage, !.result = call.result, !.retList = call.retList,
                           !.size = call.size, !.offerOffset = call.offerOffset]
  BY <1>2, <1>5 DEF ConversionCall
<1> QED
  BY <1>1, <1>4, <1>6, <1>7, <1>8, NothingExchangedInv

\* When the best offer is too dear every other one is, but those of the same
\* column behind it.
LEMMA AllDearOrHidden ==
    ASSUME IInv, AtOffer, TooDear(Best), NEW o \in Book
    PROVE  DearOrHidden(o)
<1> SUFFICES ASSUME ~TooDear(o)
             PROVE  Best \in Book /\ Hides(Best, o)
  BY DEF DearOrHidden
<1> DEFINE bn == Best.price.n
           bd == Best.price.d
           on == o.price.n
           od == o.price.d
           pn == call.op.price.n
           pd == call.op.price.d
<1>1. /\ Converting /\ call.type = "offer" /\ Best \in OfferRow /\ ~Before(o, Best)
      /\ Best \in Book
  BY BestFacts DEF TooDear
<1>2. TablesOK(db) /\ o \in db.offers /\ Best \in db.offers
  BY <1>1, ConvertingFacts DEF Book, OffersFor
<1>3. o \in OfferRow /\ o.price \in OpPrices /\ on \in Nat \ {0} /\ od \in Nat \ {0}
  BY <1>2, OfferFacts
<1>4. Best.price \in OpPrices
  BY <1>1 DEF OfferRow
<1>5. bn \in Nat \ {0} /\ bd \in Nat \ {0}
  BY <1>4, PriceFacts
<1>6. pn \in Nat \ {0} /\ pd \in Nat \ {0}
  BY <1>1, OfferingFacts DEF Offering
<1>7. bn * pn > bd * pd
  BY DEF TooDear, PriceAbove
<1>8. ~(on * pn > od * pd)
  BY <1>1 DEF TooDear, PriceAbove
<1> HIDE DEF bn, bd, on, od, pn, pd
<1>9. on * bd < bn * od
  <2>1. on * pn <= od * pd
    BY <1>3, <1>6, <1>8
  <2>2. (on * pn) * bd <= (od * pd) * bd
    BY <1>3, <1>5, <1>6, <2>1, TimesMonotone
  <2>3. (bd * pd) * od < (bn * pn) * od
    BY <1>3, <1>5, <1>6, <1>7
  <2>4. (on * bd) * pn < (bn * od) * pn
    BY <1>3, <1>5, <1>6, <2>2, <2>3
  <2> QED
    BY <1>3, <1>5, <1>6, <2>4, TimesCancel
<1>10. computePrice(o.price) <= computePrice(Best.price)
  BY <1>3, <1>4, <1>9, ColumnMonotone DEF on, od, bn, bd
<1>11. computePrice(o.price) \in Nat /\ computePrice(Best.price) \in Nat
  BY <1>3, <1>4, PriceFacts
<1>12. computePrice(o.price) = computePrice(Best.price) /\ ~(o.offerID < Best.offerID)
  BY <1>1, <1>10, <1>11 DEF Before
<1>13. o.offerID # Best.offerID
  BY <1>2 DEF TablesOK
<1>14. o.offerID \in Nat /\ Best.offerID \in Nat
  BY <1>1, <1>3 DEF OfferRow
<1> QED
  BY <1>1, <1>12, <1>13, <1>14 DEF Hides

\* A step that ends the loop where it is and exchanges nothing.
LEMMA StopsInv ==
    ASSUME IInv, AtOffer, UNCHANGED <<db, saved, applied>>,
           NEW result \in {"ePartial", "eFilterStop"},
           call' = [call EXCEPT !.stage = "end", !.result = result],
           result = "eFilterStop" => TooDear(Best)
    PROVE  IInv'
<1>1. Converting
  BY BestFacts
<1>2. call \in ConversionCall
  BY <1>1, ConvertingFacts
<1>3. call.retList \in Seq(OfferRow) /\ call.size \in Nat /\ call.offerOffset \in Int
  BY <1>2 DEF ConversionCall
<1> DEFINE stage == "end"
<1>4. /\ call' = [call EXCEPT !.stage = stage, !.result = result, !.retList = call.retList,
                              !.size = call.size, !.offerOffset = call.offerOffset]
      /\ stage \in {"load", "each", "end"} /\ stage # "load" /\ stage # "each" /\ stage = "end"
  BY <1>2 DEF ConversionCall
<1>5. result = "eFilterStop" => \A o \in Book : DearOrHidden(o)
  BY AllDearOrHidden
<1>6. result # "eOK" /\ result \in {"eOK", "ePartial", "eFilterStop"}
  OBVIOUS
<1> HIDE DEF stage
<1>7. IInv /\ UNCHANGED <<db, saved, applied>>
  OBVIOUS
<1> QED
  BY ONLY <1>1, <1>3, <1>4, <1>5, <1>6, <1>7, NothingExchangedInv

\* doApply's filter stops the loop, or the transaction.
LEMMA FilterStopsInv ==
    ASSUME IInv, FilterStops
    PROVE  IInv'
<1>1. CASE TooDear(Best)
  BY <1>1, StopsInv DEF FilterStops
<1>2. CASE ~TooDear(Best)
  BY <1>2, RollbackInv DEF FilterStops
<1> QED
  BY <1>1, <1>2

\* The buyer's limits leave nothing to exchange.
LEMMA CantConvertInv ==
    ASSUME IInv, CantConvert
    PROVE  IInv'
BY StopsInv DEF CantConvert, Kept, Ends

\* What crossing stores before the wheat is asked for: the offer is less or
\* gone, and its seller takes the sheep.
LEMMA StoredFacts ==
    ASSUME IInv, Crosses
    PROVE  LET x == Crossing
               e == OfferStored
               f == SheepStored
               a == Best.accountID
           IN  /\ AtOffer /\ Converting /\ a \in Accounts
               /\ call.type = "offer" => a # call.op.source
               /\ x.numWheatReceived \in Nat /\ x.numWheatReceived <= call.maxWheatReceive
               /\ x.numSheepSend \in Nat /\ x.numSheepSend <= call.maxSheepSend
               /\ x.numWheatReceived = 0 <=> x.numSheepSend = 0
               /\ x.offerTaken \in BOOLEAN
               /\ x.numWheatReceived * Best.price.n <= x.numSheepSend * Best.price.d
               /\ x.numSheepSend * Best.price.d <= (x.numWheatReceived + 1) * Best.price.n
               /\ SheepAccepted
               /\ TablesOK(f) /\ Counted(f) /\ f.offers = e.offers
               /\ HasLine(f, a, call.wheat) /\ f.unpaid = db.unpaid
               /\ \A h \in Holdings : h[1] # a => f.lines[h] = db.lines[h]
               /\ \A k \in Currencies :
                     Net(f, k) = Net(db, k) + (IF k = call.sheep THEN x.numSheepSend ELSE 0)
               /\ \A s, w : Cardinality(OffersFor(f, s, w)) <= Cardinality(OffersFor(db, s, w))
               /\ x.offerTaken =>
                     /\ OffersFor(f, call.sheep, call.wheat) = Book \ {Best}
                     /\ Cardinality(OffersFor(f, call.sheep, call.wheat)) = Cardinality(Book) - 1
<1> DEFINE x == Crossing
           o == Best
           e == OfferStored
           f == SheepStored
           a == Best.accountID
           s == call.sheep
           w == call.wheat
<1>1. AtOffer /\ ~Own(o) /\ HasLine(db, a, o.takerGets) /\ HasLine(db, a, o.takerPays)
  BY DEF Crosses, Kept, CanLoad
<1>2. /\ Converting /\ o \in db.offers /\ o.takerPays = s /\ o.takerGets = w
  BY <1>1, BestFacts
<1>3. /\ TablesOK(db) /\ Counted(db) /\ s \in Currencies /\ w \in Currencies
      /\ call.maxWheatReceive \in Nat /\ call.maxSheepSend \in Nat
      /\ \A c \in Currencies : Net(db, c) \in Int
  <2>1. /\ TablesOK(db) /\ Counted(db) /\ s \in Currencies /\ w \in Currencies
        /\ call.maxWheatReceive \in Nat /\ call.maxSheepSend \in Nat
    BY <1>2, ConvertingFacts
  <2> QED
    BY <2>1, SumIsInt DEF TablesOK
<1>4. a \in Accounts /\ s # w
  BY <1>2, <1>3, OfferFacts
<1>5. call.type = "offer" => a # call.op.source
  BY <1>1 DEF Own
<1>6. /\ x.amount \in Nat /\ x.amount <= o.amount
      /\ x.numWheatReceived \in Nat /\ x.numWheatReceived <= call.maxWheatReceive
      /\ x.numSheepSend \in Nat /\ x.numSheepSend <= call.maxSheepSend
      /\ x.numWheatReceived = 0 <=> x.numSheepSend = 0
      /\ x.offerTaken \in BOOLEAN
      /\ ~x.offerTaken => x.amount - x.numWheatReceived \in 1 .. MaxInt
      /\ x.numSheepSend <= getMaxAmountReceive(db, a, s)
      /\ x.numWheatReceived * o.price.n <= x.numSheepSend * o.price.d
      /\ x.numSheepSend * o.price.d <= (x.numWheatReceived + 1) * o.price.n
  BY <1>1, <1>2, <1>3, ExchangeFacts DEF Crossing
<1>7. x.offerTaken => db.numSubEntries[a] > 0
  BY DEF Crosses
<1> HIDE DEF x, o
<1>8. /\ TablesOK(e) /\ Counted(e)
      /\ e.lines = db.lines /\ e.issued = db.issued /\ e.unpaid = db.unpaid
      /\ \A i, j : Cardinality(OffersFor(e, i, j)) <= Cardinality(OffersFor(db, i, j))
      /\ x.offerTaken =>
            /\ OffersFor(e, s, w) = OffersFor(db, s, w) \ {o}
            /\ Cardinality(OffersFor(e, s, w)) = Cardinality(OffersFor(db, s, w)) - 1
  <2>1. e = UpdateOffer(db, o, x) /\ a = o.accountID
    BY DEF OfferStored, o, x
  <2> HIDE DEF e, a
  <2> QED
    BY <1>2, <1>3, <1>6, <1>7, <2>1, UpdateOfferFacts
<1>9. /\ \A b, c : HasLine(e, b, c) <=> HasLine(db, b, c)
      /\ \A b, c : loadTrustLine(e, b, c) = loadTrustLine(db, b, c)
      /\ \A c : Net(e, c) = Net(db, c)
  BY <1>8 DEF HasLine, loadTrustLine, Net
<1>10. HasLine(db, a, s) /\ HasLine(db, a, w)
  BY <1>1, <1>2 DEF o
<1>11. MayAddBalance(e, a, s, x.numSheepSend)
  <2> DEFINE line == loadTrustLine(db, a, s)
  <2>1. /\ line.balance \in Nat /\ line.limit \in Nat
        /\ ~IsIssuer(a, s) => getMaxAmountReceive(db, a, s) =
                                  IF line.authorized THEN line.limit - line.balance ELSE 0
    BY <1>3, <1>4, <1>10, LineFacts
  <2> HIDE DEF line
  <2>2. ~IsIssuer(a, s) /\ x.numSheepSend # 0 =>
            line.authorized /\ line.balance + x.numSheepSend \in 0 .. line.limit
    BY <1>6, <2>1
  <2>3. loadTrustLine(e, a, s) = line
    BY <1>9 DEF line
  <2> QED
    BY <2>2, <2>3 DEF MayAddBalance
<1>12. SheepAccepted
  BY <1>2, <1>11 DEF SheepAccepted, x, o
<1>13. /\ TablesOK(f) /\ f.offers = e.offers
       /\ f.numSubEntries = e.numSubEntries /\ f.miscounted = e.miscounted
       /\ f.unpaid = e.unpaid
       /\ \A h \in Holdings : /\ f.lines[h] = Absent <=> e.lines[h] = Absent
                              /\ h # <<a, s>> => f.lines[h] = e.lines[h]
       /\ \A k \in Currencies : Net(f, k) = Net(e, k) + (IF k = s THEN x.numSheepSend ELSE 0)
  <2>1. f = addBalance(e, a, s, x.numSheepSend)
    BY <1>2 DEF SheepStored, x, o
  <2>2. HasLine(e, a, s) /\ x.numSheepSend \in Int
    BY <1>6, <1>9, <1>10
  <2> HIDE DEF e, f, a
  <2> QED
    BY <1>3, <1>4, <1>8, <1>11, <2>1, <2>2, AddBalanceFacts
<1> HIDE DEF e, f
<1>14. Counted(f)
  <2>1. \A b \in Accounts : Cardinality(OffersIn(f, b)) = Cardinality(OffersIn(e, b))
    BY <1>13 DEF OffersIn
  <2> QED
    BY <1>8, <1>13, <2>1, CountedFacts
<1>15. HasLine(f, a, w)
  <2>1. ~IsIssuer(a, w) => <<a, w>> \in Holdings
    BY <1>3, <1>4, <1>10, LineFacts
  <2> QED
    BY <1>8, <1>10, <1>13, <2>1 DEF HasLine
<1>16. \A h \in Holdings : h[1] # a => f.lines[h] = db.lines[h]
  <2>1. \A h \in Holdings : h[1] # a => h # <<a, s>>
    OBVIOUS
  <2> QED
    BY <1>8, <1>13, <2>1
<1>17. \A i, j : OffersFor(f, i, j) = OffersFor(e, i, j)
  BY <1>13 DEF OffersFor
<1>18. \A k \in Currencies :
          Net(f, k) = Net(db, k) + (IF k = s THEN x.numSheepSend ELSE 0)
  BY <1>9, <1>13
<1>19. x.offerTaken =>
            /\ OffersFor(f, s, w) = Book \ {o}
            /\ Cardinality(OffersFor(f, s, w)) = Cardinality(Book) - 1
  BY <1>8, <1>17 DEF Book
<1> QED
  BY <1>1, <1>2, <1>4, <1>5, <1>6, <1>8, <1>12, <1>13, <1>14, <1>15, <1>16, <1>17, <1>18, <1>19
     DEF e, f, x, o
\* The source of a new offer is no seller it crosses: its lines stay.
LEMMA SourceStays ==
    ASSUME IInv, Offering, NEW b \in Accounts, b # call.op.source, NEW e,
           \A h \in Holdings : h[1] # b => e.lines[h] = db.lines[h]
    PROVE  LET a == call.op.source IN
           /\ HasLine(e, a, call.sheep) /\ HasLine(e, a, call.wheat)
           /\ loadTrustLine(e, a, call.wheat).authorized
           /\ call.forSale <= loadTrustLine(e, a, call.sheep).balance
           /\ call.curBReceived = getMaxAmountReceive(e, a, call.wheat)
<1> DEFINE a == call.op.source
<1>1. /\ a \in Accounts /\ HasLine(db, a, call.sheep) /\ HasLine(db, a, call.wheat)
      /\ loadTrustLine(db, a, call.wheat).authorized
      /\ call.forSale <= loadTrustLine(db, a, call.sheep).balance
      /\ call.curBReceived = getMaxAmountReceive(db, a, call.wheat)
  BY OfferingFacts
<1>2. \A c \in Currencies : ~IsIssuer(a, c) => e.lines[<<a, c>>] = db.lines[<<a, c>>]
  BY <1>1 DEF IsIssuer, Holdings
<1>3. call.sheep \in Currencies /\ call.wheat \in Currencies
  BY ConvertingFacts DEF Offering
<1>4. \A c \in Currencies : /\ HasLine(e, a, c) <=> HasLine(db, a, c)
                            /\ loadTrustLine(e, a, c) = loadTrustLine(db, a, c)
                            /\ getMaxAmountReceive(e, a, c) = getMaxAmountReceive(db, a, c)
  BY <1>2 DEF HasLine, loadTrustLine, getMaxAmountReceive
<1> QED
  BY <1>1, <1>3, <1>4

\* A step that exchanges with a seller: what is owed, what is wanted and the
\* source's lines stay in order.
LEMMA ExchangedInv ==
    ASSUME IInv, Crosses, saved' = saved, applied' = applied,
           TablesOK(db'), Counted(db'),
           \A h \in Holdings : h[1] # Best.accountID => db'.lines[h] = db.lines[h],
           \A s, w : Cardinality(OffersFor(db', s, w)) <= Cardinality(OffersFor(db, s, w)),
           NEW sent \in Nat, NEW got \in Nat,
           sent <= call.maxSheepSend, got <= call.maxWheatReceive, got = 0 <=> sent = 0,
           \A k \in Currencies : Net(db', k) = Net(db, k) + (IF k = call.sheep THEN sent ELSE 0)
                                                          - (IF k = call.wheat THEN got ELSE 0),
           call' \in ConversionCall, call'.type = call.type, call'.op = call.op,
           call'.sheep = call.sheep, call'.wheat = call.wheat,
           call'.forSale = call.forSale, call'.curBReceived = call.curBReceived,
           call'.sheepSend = call.sheepSend + sent, call'.wheatReceived = call.wheatReceived + got,
           call'.maxSheepSend = call.maxSheepSend - sent,
           call'.maxWheatReceive = call.maxWheatReceive - got,
           call'.stage # "end" => call'.maxSheepSend > 0 /\ call'.maxWheatReceive > 0,
           PageInv',
           call'.crossed + (IF call'.stage = "end" THEN 0 ELSE Cardinality(Book'))
               <= call.crossed + Cardinality(Book),
           call.type = "offer" => BuyersPriceSoFar'
    PROVE  IInv'
<1>1. /\ AtOffer /\ Converting /\ Best.accountID \in Accounts
      /\ call.type = "offer" => Best.accountID # call.op.source
  BY StoredFacts
<1>2. /\ call.type \in {"offer", "payment"} /\ call.op \in Ops
      /\ call.type = "offer" => call.op \in CreateOfferOps
      /\ call.type = "payment" => call.op \in PaymentOps
      /\ call.sheep \in Currencies /\ call.wheat \in Currencies
      /\ call.forSale \in Nat /\ call.maxSheepSend \in Nat /\ call.sheepSend \in Nat
      /\ call.curBReceived \in Nat /\ call.maxWheatReceive \in Nat
      /\ call.wheatReceived \in Nat /\ call.crossed \in Nat
      /\ TablesOK(saved) /\ Counted(saved) /\ applied \in 0 .. MaxOps
      /\ TablesOK(db)
  BY <1>1, ConvertingFacts
<1>3. call'.stage \in {"load", "each", "end"} /\ call'.crossed \in Nat
  BY DEF ConversionCall
<1>4. Converting' /\ call.stage = "each"
  BY <1>1, <1>3 DEF Converting, AtOffer
<1>5. BooksInv'
  <2>1. CallOK'
    BY <1>2 DEF CallOK
  <2> QED
    BY <1>2, <2>1 DEF BooksInv
<1>6. MoneyInv'
  <2> SUFFICES ASSUME NEW c \in Currencies
               PROVE  Net(saved', c) = 0 /\ Net(db', c) = InFlight(c)'
    BY DEF MoneyInv
  <2>1. /\ Net(saved, c) = 0
        /\ Net(db, c) = (IF c = call.sheep THEN call.sheepSend ELSE 0)
                        - (IF c = call.wheat THEN call.wheatReceived ELSE 0)
                        + (IF c = call.wheat /\ call.type = "payment" THEN call.curBReceived ELSE 0)
    BY <1>1, ConvertingFacts
  <2>2. Net(db', c) = Net(db, c) + (IF c = call.sheep THEN sent ELSE 0)
                                 - (IF c = call.wheat THEN got ELSE 0)
    OBVIOUS
  <2>3. InFlight(c)' = (IF c = call.sheep THEN call.sheepSend + sent ELSE 0)
                       - (IF c = call.wheat THEN call.wheatReceived + got ELSE 0)
                       + (IF c = call.wheat /\ call.type = "payment" THEN call.curBReceived ELSE 0)
    BY <1>4 DEF InFlight
  <2>4. Net(db', c) = InFlight(c)'
    <3> DEFINE sh == c = call.sheep
               wh == c = call.wheat
               pay == call.type = "payment"
    <3>1. /\ Net(db, c) = (IF sh THEN call.sheepSend ELSE 0) - (IF wh THEN call.wheatReceived ELSE 0)
                          + (IF wh /\ pay THEN call.curBReceived ELSE 0)
          /\ Net(db', c) = Net(db, c) + (IF sh THEN sent ELSE 0) - (IF wh THEN got ELSE 0)
          /\ InFlight(c)' = (IF sh THEN call.sheepSend + sent ELSE 0)
                            - (IF wh THEN call.wheatReceived + got ELSE 0)
                            + (IF wh /\ pay THEN call.curBReceived ELSE 0)
      BY <2>1, <2>2, <2>3
    <3> HIDE DEF sh, wh, pay
    <3> QED
      BY <1>2, <3>1
  <2> QED
    BY <2>1, <2>4
<1>7. AmountInv'
  <2>1. /\ call.sheepSend + call.maxSheepSend = call.forSale
        /\ call.wheatReceived + call.maxWheatReceive = call.curBReceived
        /\ call.wheatReceived = 0 => call.sheepSend = 0
    BY <1>1 DEF IInv, AmountInv
  <2>2. /\ call'.sheepSend + call'.maxSheepSend = call'.forSale
        /\ call'.wheatReceived + call'.maxWheatReceive = call'.curBReceived
        /\ call'.wheatReceived = 0 => call'.sheepSend = 0
    BY <1>2, <2>1
  <2> QED
    BY <2>2 DEF AmountInv
<1>8. SourceInv'
  <2>1. Offering' => Offering /\ call.type = "offer"
    BY <1>1 DEF Offering
  <2>2. Offering' =>
           LET a == call.op.source IN
           /\ HasLine(db', a, call.sheep) /\ HasLine(db', a, call.wheat)
           /\ loadTrustLine(db', a, call.wheat).authorized
           /\ call.forSale <= loadTrustLine(db', a, call.sheep).balance
           /\ call.curBReceived = getMaxAmountReceive(db', a, call.wheat)
    BY <1>1, <2>1, SourceStays
  <2>3. Offering' => /\ call.sheep = call.op.takerGets /\ call.wheat = call.op.takerPays
                     /\ call.forSale <= call.op.amount
    BY <2>1, OfferingFacts
  <2> QED
    BY <2>1, <2>2, <2>3 DEF SourceInv
<1>9. CrossedInv'
  <2> DEFINE m == Cardinality(OffersFor(saved, call.sheep, call.wheat))
             b == Cardinality(Book)
             b2 == Cardinality(Book')
  <2>1. m \in Nat /\ b \in Nat /\ b2 \in Nat
    BY <1>2, BookFinite DEF Book
  <2>2. call.crossed + b <= m
    BY <1>1, <1>4 DEF IInv, CrossedInv
  <2>3. call'.crossed + (IF call'.stage = "end" THEN 0 ELSE b2) <= call.crossed + b
    OBVIOUS
  <2>4. ASSUME NEW s \in Currencies, NEW w \in Currencies
        PROVE  Cardinality(OffersFor(db', s, w)) <= Cardinality(OffersFor(saved', s, w))
    <3>1. Cardinality(OffersFor(db, s, w)) <= Cardinality(OffersFor(saved, s, w))
      BY <1>1, ConvertingFacts
    <3>2. /\ Cardinality(OffersFor(db', s, w)) \in Nat /\ Cardinality(OffersFor(db, s, w)) \in Nat
          /\ Cardinality(OffersFor(saved, s, w)) \in Nat
      BY <1>2, BookFinite
    <3>3. Cardinality(OffersFor(db', s, w)) <= Cardinality(OffersFor(db, s, w))
      OBVIOUS
    <3> QED
      BY <3>1, <3>2, <3>3
  <2> HIDE DEF m, b, b2
  <2>5. call'.crossed + (IF call'.stage = "end" THEN 0 ELSE b2) <= m
    BY <1>2, <1>3, <2>1, <2>2, <2>3
  <2> QED
    BY <2>4, <2>5 DEF CrossedInv, m, b2
<1> QED
  BY <1>5, <1>6, <1>7, <1>8, <1>9 DEF IInv

\* A seller that cannot give the wheat: its sheep are not owed to anyone.
LEMMA SellerRefusesInv ==
    ASSUME IInv, SellerRefuses
    PROVE  IInv'
<1> DEFINE n == Crossing.numSheepSend
           f == SheepStored
           s == call.sheep
           us == [f.unpaid EXCEPT ![s] = @ + n]
<1>1. Crosses /\ saved' = saved /\ applied' = applied /\ call' = Ends("ePartial")
  BY DEF SellerRefuses
<1>2. /\ AtOffer /\ Converting /\ n \in Nat /\ SheepAccepted
      /\ TablesOK(f) /\ Counted(f)
      /\ \A h \in Holdings : h[1] # Best.accountID => f.lines[h] = db.lines[h]
      /\ \A k \in Currencies : Net(f, k) = Net(db, k) + (IF k = s THEN n ELSE 0)
      /\ \A i, j : Cardinality(OffersFor(f, i, j)) <= Cardinality(OffersFor(db, i, j))
  BY <1>1, StoredFacts
<1>3. db' = [f EXCEPT !.unpaid = us]
  BY <1>2 DEF SellerRefuses
<1>4. /\ call \in ConversionCall /\ s \in Currencies /\ call.wheat \in Currencies
      /\ call.sheepSend \in Nat /\ call.wheatReceived \in Nat
      /\ call.maxSheepSend \in Nat /\ call.maxWheatReceive \in Nat /\ call.crossed \in Nat
      /\ TablesOK(db)
  BY <1>2, ConvertingFacts
<1>5. /\ f \in Tables /\ us \in [Currencies -> Int]
      /\ \A k \in Currencies : us[k] = f.unpaid[k] + (IF k = s THEN n ELSE 0)
      /\ \A k \in Currencies : f.unpaid[k] \in Int /\ f.issued[k] \in Int
  <2>1. f \in Tables
    BY <1>2 DEF TablesOK
  <2>2. f.unpaid \in [Currencies -> Int] /\ f.issued \in [Currencies -> Int]
    BY <2>1 DEF Tables
  <2> HIDE DEF f, n
  <2> QED
    BY <1>2, <1>4, <2>1, <2>2
<1> HIDE DEF f, n, us
<1>6. /\ db' \in Tables /\ db'.lines = f.lines /\ db'.offers = f.offers
      /\ db'.idPool = f.idPool /\ db'.issued = f.issued /\ db'.unpaid = us
      /\ db'.numSubEntries = f.numSubEntries /\ db'.miscounted = f.miscounted
  BY <1>3, <1>5 DEF Tables
<1>7. TablesOK(db')
  BY <1>2, <1>6 DEF TablesOK
<1>8. Counted(db')
  BY <1>2, <1>6 DEF Counted, LinesIn, OffersIn
<1>9. ASSUME NEW k \in Currencies PROVE Net(db', k) = Net(db, k)
  <2>1. Sum(f.lines, k) \in Int
    BY <1>5, SumIsInt
  <2>2. Net(db, k) \in Int
    BY <1>4, SumIsInt DEF TablesOK
  <2>3. Net(db', k) = Sum(f.lines, k) - f.issued[k] - us[k]
    BY <1>6 DEF Net
  <2>4. Net(f, k) = Sum(f.lines, k) - f.issued[k] - f.unpaid[k]
    BY DEF Net
  <2>5. Net(f, k) = Net(db, k) + (IF k = s THEN n ELSE 0)
    BY <1>2
  <2> QED
    BY <1>2, <1>5, <2>1, <2>2, <2>3, <2>4, <2>5
<1>10. /\ call' \in ConversionCall /\ call'.stage = "end" /\ call'.result = "ePartial"
       /\ call'.type = call.type /\ call'.op = call.op
       /\ call'.sheep = call.sheep /\ call'.forSale = call.forSale
       /\ call'.maxSheepSend = call.maxSheepSend /\ call'.sheepSend = call.sheepSend
       /\ call'.wheat = call.wheat /\ call'.curBReceived = call.curBReceived
       /\ call'.maxWheatReceive = call.maxWheatReceive /\ call'.wheatReceived = call.wheatReceived
       /\ call'.crossed = call.crossed
  BY <1>1, <1>4 DEF ConversionCall, Ends
<1>11. PageInv'
  BY <1>10 DEF PageInv
<1>12. \A i, j : Cardinality(OffersFor(db', i, j)) <= Cardinality(OffersFor(db, i, j))
  <2>1. \A i, j : OffersFor(db', i, j) = OffersFor(f, i, j)
    BY <1>6 DEF OffersFor
  <2> QED
    BY <1>2, <2>1
<1>13. call.type = "offer" => BuyersPriceSoFar'
  BY <1>2, <1>10, OfferingFacts DEF Offering, BuyersPriceSoFar
<1>14. call'.crossed + (IF call'.stage = "end" THEN 0 ELSE Cardinality(Book'))
           <= call.crossed + Cardinality(Book)
  <2>1. Cardinality(Book) \in Nat
    BY <1>4, BookFinite DEF Book
  <2> QED
    BY <1>4, <1>10, <2>1
<1>15. /\ call'.sheepSend = call.sheepSend + 0 /\ call'.wheatReceived = call.wheatReceived + 0
       /\ call'.maxSheepSend = call.maxSheepSend - 0
       /\ call'.maxWheatReceive = call.maxWheatReceive - 0
       /\ 0 <= call.maxSheepSend /\ 0 <= call.maxWheatReceive
  BY <1>4, <1>10
<1>16. \A k \in Currencies : Net(db', k) = Net(db, k) + (IF k = call.sheep THEN 0 ELSE 0)
                                                      - (IF k = call.wheat THEN 0 ELSE 0)
  <2>1. \A k \in Currencies : Net(db, k) \in Int
    BY <1>4, SumIsInt DEF TablesOK
  <2> QED
    BY <1>9, <2>1
<1>17. \A h \in Holdings : h[1] # Best.accountID => db'.lines[h] = db.lines[h]
  BY <1>2, <1>6
<1> DEFINE z == 0
<1>18. z \in Nat /\ (z = 0 <=> z = 0)
  OBVIOUS
<1> QED
  BY <1>1, <1>7, <1>8, <1>10, <1>11, <1>12, <1>13, <1>14, <1>15, <1>16, <1>17, ExchangedInv

\* The exchange: both balances of the seller, and what the call has received
\* and sent.
LEMMA crossOfferInv ==
    ASSUME IInv, crossOffer
    PROVE  IInv'
<1> DEFINE x == Crossing
           n == x.numSheepSend
           m == x.numWheatReceived
           f == SheepStored
           a == Best.accountID
           s == call.sheep
           w == call.wheat
           wheatLeft == call.maxWheatReceive - m
           sheepLeft == call.maxSheepSend - n
           needMore == wheatLeft > 0 /\ sheepLeft > 0
           stage == IF needMore /\ x.offerTaken THEN call.stage ELSE "end"
           result == IF needMore /\ ~x.offerTaken THEN "ePartial" ELSE "eOK"
           page == Tail(call.retList)
           offset == OffsetAfter(call.offerOffset, x)
<1>1. /\ Crosses /\ WheatGiven /\ saved' = saved /\ applied' = applied
      /\ db' = addBalance(f, a, Best.takerGets, -m)
      /\ call' = [call EXCEPT !.stage = stage, !.result = result,
                       !.sheepSend = @ + n, !.maxSheepSend = sheepLeft,
                       !.wheatReceived = @ + m, !.maxWheatReceive = wheatLeft,
                       !.crossed = @ + 1, !.retList = page, !.offerOffset = offset]
  BY DEF crossOffer
<1>2. /\ AtOffer /\ Converting /\ a \in Accounts
      /\ call.type = "offer" => a # call.op.source
      /\ m \in Nat /\ m <= call.maxWheatReceive /\ n \in Nat /\ n <= call.maxSheepSend
      /\ m = 0 <=> n = 0
      /\ x.offerTaken \in BOOLEAN
      /\ m * Best.price.n <= n * Best.price.d
      /\ n * Best.price.d <= (m + 1) * Best.price.n
      /\ TablesOK(f) /\ Counted(f)
      /\ HasLine(f, a, w)
      /\ \A h \in Holdings : h[1] # a => f.lines[h] = db.lines[h]
      /\ \A k \in Currencies : Net(f, k) = Net(db, k) + (IF k = s THEN n ELSE 0)
      /\ \A i, j : Cardinality(OffersFor(f, i, j)) <= Cardinality(OffersFor(db, i, j))
      /\ x.offerTaken => /\ OffersFor(f, s, w) = Book \ {Best}
                         /\ Cardinality(OffersFor(f, s, w)) = Cardinality(Book) - 1
  BY <1>1, StoredFacts
<1>3. /\ call.stage = "each" /\ Best \in Book /\ Best \in OfferRow
      /\ Best.takerPays = s /\ Best.takerGets = w
      /\ IsPage(page, Book \ {Best})
      /\ Len(page) = Len(call.retList) - 1 /\ Len(call.retList) \in Nat
      /\ call.offerOffset = Len(call.retList)
      /\ call.size < PageSize => \A o \in Book \ {Best} : \E j \in DOMAIN page : page[j] = o
  BY <1>2, BestFacts
<1>4. /\ call \in ConversionCall /\ s \in Currencies /\ w \in Currencies
      /\ call.sheepSend \in Nat /\ call.wheatReceived \in Nat
      /\ call.maxSheepSend \in Nat /\ call.maxWheatReceive \in Nat /\ call.crossed \in Nat
      /\ call.retList \in Seq(OfferRow) /\ call.retList # <<>>
      /\ TablesOK(db)
  BY <1>2, ConvertingFacts DEF AtOffer
<1>5. /\ stage \in {"each", "end"} /\ result \in {"eOK", "ePartial"}
      /\ stage = "each" => needMore /\ x.offerTaken
      /\ stage = "end" /\ result = "eOK" => ~needMore
  BY <1>2, <1>3
<1>6. /\ sheepLeft \in Nat /\ wheatLeft \in Nat /\ page \in Seq(OfferRow)
      /\ offset \in Int
      /\ x.offerTaken => offset = Len(page)
  BY <1>2, <1>3, <1>4 DEF OffsetAfter
<1>7. MayAddBalance(f, a, w, -m)
  BY <1>1, <1>3 DEF WheatGiven
<1>8. /\ needMore => wheatLeft > 0 /\ sheepLeft > 0
      /\ ~needMore => ~(wheatLeft > 0 /\ sheepLeft > 0)
  OBVIOUS
<1> HIDE DEF x, n, m, f, a, wheatLeft, sheepLeft, needMore, stage, result, page, offset
<1>9. /\ call' \in ConversionCall /\ call'.stage = stage /\ call'.result = result
      /\ call'.type = call.type /\ call'.op = call.op
      /\ call'.sheep = s /\ call'.forSale = call.forSale
      /\ call'.maxSheepSend = sheepLeft /\ call'.sheepSend = call.sheepSend + n
      /\ call'.wheat = w /\ call'.curBReceived = call.curBReceived
      /\ call'.maxWheatReceive = wheatLeft /\ call'.wheatReceived = call.wheatReceived + m
      /\ call'.retList = page /\ call'.size = call.size /\ call'.offerOffset = offset
      /\ call'.crossed = call.crossed + 1
  <2> DEFINE sent == call.sheepSend + n
             got == call.wheatReceived + m
             k == call.crossed + 1
  <2>1. sent \in Nat /\ got \in Nat /\ k \in Nat
    BY <1>2, <1>4
  <2>2. call' = [call EXCEPT !.stage = stage, !.result = result,
                       !.sheepSend = sent, !.maxSheepSend = sheepLeft,
                       !.wheatReceived = got, !.maxWheatReceive = wheatLeft,
                       !.crossed = k, !.retList = page, !.offerOffset = offset]
    BY <1>1
  <2> HIDE DEF sent, got, k
  <2>3. /\ call' \in ConversionCall /\ call'.stage = stage /\ call'.result = result
        /\ call'.type = call.type /\ call'.op = call.op
        /\ call'.sheep = s /\ call'.forSale = call.forSale
        /\ call'.maxSheepSend = sheepLeft /\ call'.sheepSend = sent
        /\ call'.wheat = w /\ call'.curBReceived = call.curBReceived
        /\ call'.maxWheatReceive = wheatLeft /\ call'.wheatReceived = got
        /\ call'.retList = page /\ call'.size = call.size /\ call'.offerOffset = offset
        /\ call'.crossed = k
    BY <1>4, <1>5, <1>6, <2>1, <2>2 DEF ConversionCall
  <2> QED
    BY <2>3 DEF sent, got, k
<1>10. /\ TablesOK(db') /\ db'.offers = f.offers
       /\ db'.numSubEntries = f.numSubEntries /\ db'.miscounted = f.miscounted
       /\ \A h \in Holdings : /\ db'.lines[h] = Absent <=> f.lines[h] = Absent
                              /\ h # <<a, w>> => db'.lines[h] = f.lines[h]
       /\ \A k \in Currencies : Net(db', k) = Net(f, k) + (IF k = w THEN -m ELSE 0)
  <2>1. db' = addBalance(f, a, w, -m) /\ -m \in Int
    BY <1>1, <1>2, <1>3
  <2> QED
    BY <1>2, <1>4, <1>7, <2>1, AddBalanceFacts
<1>11. Counted(db')
  <2>1. \A b \in Accounts : Cardinality(OffersIn(db', b)) = Cardinality(OffersIn(f, b))
    BY <1>10 DEF OffersIn
  <2> QED
    BY <1>2, <1>10, <2>1, CountedFacts
<1>12. \A h \in Holdings : h[1] # a => db'.lines[h] = db.lines[h]
  <2>1. \A h \in Holdings : h[1] # a => h # <<a, w>>
    OBVIOUS
  <2> QED
    BY <1>2, <1>10, <2>1
<1>13. \A i, j : OffersFor(db', i, j) = OffersFor(f, i, j)
  BY <1>10 DEF OffersFor
<1>14. \A k \in Currencies : Net(db', k) = Net(db, k) + (IF k = s THEN n ELSE 0)
                                                      - (IF k = w THEN m ELSE 0)
  <2>1. \A k \in Currencies : Net(db, k) \in Int
    BY <1>4, SumIsInt DEF TablesOK
  <2> QED
    BY <1>2, <1>10, <2>1
<1>15. x.offerTaken => Book' = Book \ {Best} /\ Cardinality(Book') = Cardinality(Book) - 1
  BY <1>2, <1>9, <1>13 DEF Book
<1>16. PageInv'
  <2>1. call'.stage # "load"
    BY <1>5, <1>9
  <2>2. CASE stage = "each"
    <3>1. Book' = Book \ {Best} /\ offset = Len(page)
      BY <1>5, <1>6, <1>15, <2>2
    <3> QED
      BY <1>3, <1>9, <2>2, <3>1 DEF PageInv
  <2>3. CASE stage = "end"
    <3>1. call'.result # "eFilterStop"
      BY <1>5, <1>9
    <3>2. ~(call'.result = "eOK" /\ call'.maxWheatReceive > 0 /\ call'.maxSheepSend > 0)
      BY <1>5, <1>8, <1>9, <2>3
    <3> QED
      BY <1>9, <2>1, <2>3, <3>1, <3>2 DEF PageInv
  <2> QED
    BY <1>5, <2>2, <2>3
<1>17. call'.crossed + (IF call'.stage = "end" THEN 0 ELSE Cardinality(Book'))
           <= call.crossed + Cardinality(Book)
  <2>1. IsFiniteSet(Book)
    BY <1>4, BookFinite DEF Book
  <2>2. Cardinality(Book) \in Nat /\ Cardinality(Book) >= 1
    <3>1. /\ Cardinality(Book \ {Best}) = Cardinality(Book) - 1
          /\ Cardinality(Book) \in Nat /\ Cardinality(Book \ {Best}) \in Nat
      BY <1>3, <2>1, CardRemove
    <3> QED
      BY <3>1
  <2>3. stage # "end" => Cardinality(Book') = Cardinality(Book) - 1
    BY <1>5, <1>15
  <2> QED
    BY <1>4, <1>9, <2>2, <2>3
<1>18. call.type = "offer" => BuyersPriceSoFar'
  <2> SUFFICES ASSUME call.type = "offer" PROVE BuyersPriceSoFar'
    OBVIOUS
  <2> DEFINE pn == call.op.price.n
             pd == call.op.price.d
             on == Best.price.n
             od == Best.price.d
             sent == call.sheepSend
             got == call.wheatReceived
             c == call.crossed
  <2>1. /\ pn \in Nat \ {0} /\ pd \in Nat \ {0}
        /\ sent * pn <= (got + c) * pd
    BY <1>2, OfferingFacts DEF Offering, BuyersPriceSoFar
  <2>2. on \in Nat \ {0} /\ od \in Nat \ {0}
    <3>1. Best.price \in OpPrices
      BY <1>3 DEF OfferRow
    <3> QED
      BY <3>1, PriceFacts
  <2>3. ~(on * pn > od * pd)
    BY <1>1 DEF Crosses, Kept, TooDear, PriceAbove
  <2>4. sent \in Nat /\ got \in Nat /\ c \in Nat /\ m \in Nat /\ n \in Nat
        /\ n * od <= (m + 1) * on
    BY <1>2, <1>4
  <2>5. /\ call'.sheepSend = sent + n /\ call'.wheatReceived = got + m /\ call'.crossed = c + 1
        /\ call'.op.price.n = pn /\ call'.op.price.d = pd
    BY <1>9
  <2> HIDE DEF pn, pd, on, od, sent, got, c
  <2>6. (sent + n) * pn <= ((got + m) + (c + 1)) * pd
    BY <2>1, <2>2, <2>3, <2>4, BuyersPriceStep
  <2> QED
    BY <2>5, <2>6 DEF BuyersPriceSoFar
<1>19. call'.stage # "end" => call'.maxSheepSend > 0 /\ call'.maxWheatReceive > 0
  BY <1>5, <1>8, <1>9
<1>20. /\ call'.maxSheepSend = call.maxSheepSend - n /\ call'.maxWheatReceive = call.maxWheatReceive - m
       /\ \A i, j : Cardinality(OffersFor(db', i, j)) <= Cardinality(OffersFor(db, i, j))
       /\ \A h \in Holdings : h[1] # Best.accountID => db'.lines[h] = db.lines[h]
  BY <1>2, <1>9, <1>12, <1>13 DEF sheepLeft, wheatLeft, a
<1>21. IInv /\ Crosses /\ saved' = saved /\ applied' = applied
  BY <1>1
<1> QED
  BY ONLY <1>2, <1>9, <1>10, <1>11, <1>14, <1>16, <1>17, <1>18, <1>19, <1>20, <1>21, ExchangedInv
-----------------------------------------------------------------------------
(* The theorems.                                                           *)

\* Every step keeps the invariant.
LEMMA NextInv ==
    ASSUME IInv, [Next]_vars
    PROVE  IInv'
<1>1. CASE Submit
  <2>1. PICK op \in Ops : createOffer(op) \/ payment(op) \/ newLine(op) \/ changeLine(op)
                          \/ allowTrust(op)
    BY <1>1 DEF Submit
  <2> QED
    BY <2>1, createOfferInv, paymentInv, newLineInv, changeLineInv, allowTrustInv
<1>2. CASE LoadBestOffers \/ NextPage \/ FilterStops \/ CantConvert \/ SellerRefuses \/ crossOffer
  BY <1>2, LoadBestOffersInv, NextPageInv, FilterStopsInv, CantConvertInv, SellerRefusesInv,
     crossOfferInv
<1>3. CASE CrossThrows \/ settleThrows
  <2>1. Rollback
    BY <1>3 DEF CrossThrows, settleThrows
  <2> QED
    BY <2>1, RollbackInv
<1>4. CASE leaveOffer \/ updateOffer \/ dropOffer
  BY <1>4, leaveOfferInv, updateOfferInv, dropOfferInv
<1>5. CASE walkPath \/ pathWalked \/ sourcePays
  BY <1>5, walkPathInv, pathWalkedInv, sourcePaysInv
<1>6. CASE UNCHANGED vars
  <2>1. db' = db /\ saved' = saved /\ call' = call /\ applied' = applied
    BY <1>6 DEF vars
  <2> QED
    BY <2>1 DEF IInv, BooksInv, MoneyInv, AmountInv, SourceInv, PageInv, CrossedInv,
                CallOK, Converting, Offering, InFlight, Book, BuyersPriceSoFar, TooDear,
                DearOrHidden
<1> QED
  BY <1>1, <1>2, <1>3, <1>4, <1>5, <1>6 DEF Next, Step

\* So it always holds.
LEMMA AlwaysIInv == Spec => []IInv
<1>1. Init => IInv
  BY InitInv
<1>2. IInv /\ [Next]_vars => IInv'
  BY NextInv
<1> QED
  BY <1>1, <1>2, PTL DEF Spec

\* The tables hold what their columns allow, the amounts that OfferExchange and
\* CreateOfferOpFrame compute ahead are ones the lines take, and numSubEntries
\* counts what it should.
THEOREM BooksStayInOrder == Spec => []BooksInOrder
<1>1. IInv => BooksInOrder
  <2> SUFFICES ASSUME IInv PROVE BooksInOrder
    OBVIOUS
  <2>1. TablesOK(db) /\ Counted(db) /\ applied \in 0 .. MaxOps /\ CallOK
    BY DEF IInv, BooksInv
  <2>2. TypeOK
    <3>1. \A h \in Holdings : db.lines[h] # Absent =>
              db.lines[h] \in TrustLine /\ db.lines[h].balance <= db.lines[h].limit
      BY <2>1 DEF TablesOK, Tables
    <3>2. \A o \in db.offers :
              /\ o.offerID \in 1 .. db.idPool /\ o.accountID \in Accounts
              /\ o.amount \in 1 .. MaxInt /\ o.price \in Price
              /\ o.takerGets \in Currencies /\ o.takerPays \in Currencies \ {o.takerGets}
      BY <2>1, OfferFacts
    <3>3. db.numSubEntries \in [Accounts -> Nat]
      BY <2>1 DEF TablesOK, Tables
    <3>4. call.stage \in {"idle", "path", "load", "each", "end"}
      BY <2>1, CallFacts
    <3> QED
      BY <2>1, <3>1, <3>2, <3>3, <3>4 DEF TypeOK
  <2>3. SettlementHolds
    BY StoredFacts, SettlementFits DEF SettlementHolds
  <2>4. SubEntriesCounted
    BY <2>1 DEF SubEntriesCounted, Counted, LineOf, LinesIn, OffersOf, OffersIn
  <2> QED
    BY <2>2, <2>3, <2>4 DEF BooksInOrder
<1> QED
  BY <1>1, AlwaysIInv, PTL

\* No operation, no partial or failed exchange and no rollback makes credit or
\* loses it: between transactions the lines of a currency hold what its issuer
\* issued, but for what a seller kept whose wheat line was not authorized.
THEOREM CreditIsConserved == Spec => []CreditConserved
<1>1. IInv => CreditConserved
  <2> SUFFICES ASSUME IInv, call = Idle, NEW c \in Currencies
               PROVE  Sum(db.lines, c) = db.issued[c] + db.unpaid[c]
    BY DEF CreditConserved
  <2>1. TablesOK(db) /\ Net(db, c) = 0
    BY IdleFacts
  <2>2. db \in Tables
    BY <2>1 DEF TablesOK
  <2>3. Sum(db.lines, c) \in Int /\ db.issued[c] \in Int /\ db.unpaid[c] \in Int
    BY <2>2, SumIsInt DEF Tables
  <2> QED
    BY <2>1, <2>3 DEF Net
<1> QED
  BY <1>1, AlwaysIInv, PTL

\* What is true of the loop whatever the prices are: the best offer is crossed
\* first, none twice, and the buyer pays no more than its price but for what
\* rounding takes.
THEOREM BestOffersFirst == Spec => [](BestFirst /\ CrossedOnce /\ BuyersPrice)
<1>1. IInv => BestFirst
  BY BestFacts DEF BestFirst, Book
<1>2. IInv => CrossedOnce
  <2> SUFFICES ASSUME IInv, Converting
               PROVE  call.crossed <= Cardinality(OffersFor(saved, call.sheep, call.wheat))
    BY DEF CrossedOnce, Converting
  <2> DEFINE m == Cardinality(OffersFor(saved, call.sheep, call.wheat))
             b == Cardinality(Book)
  <2>1. TablesOK(db) /\ TablesOK(saved) /\ call.crossed \in Nat
    BY ConvertingFacts
  <2>2. m \in Nat /\ b \in Nat
    BY <2>1, BookFinite DEF Book
  <2>3. call.crossed + (IF call.stage = "end" THEN 0 ELSE b) <= m
    BY DEF IInv, CrossedInv
  <2> HIDE DEF m, b
  <2>4. call.crossed <= m
    BY <2>1, <2>2, <2>3
  <2> QED
    BY <2>4 DEF m
<1>3. IInv => BuyersPrice
  BY OfferingFacts DEF BuyersPrice, BuyersPriceSoFar, AtSettlement, Offering, Converting
<1> QED
  BY <1>1, <1>2, <1>3, AlwaysIInv, PTL

\* And the loop leaves no offer that it should have crossed, but those behind an
\* older dear offer that the price column does not tell them from.
THEOREM BookIsSwept == Spec => []BookInOrder
<1>1. IInv => BookSwept
  BY DEF IInv, PageInv, BookSwept, Book, DearOrHidden
<1> QED
  BY <1>1, AlwaysIInv, BestOffersFirst, PTL DEF BookInOrder

\* Every offer that is crossed gets its price or better, at every step.
THEOREM SellersGetTheirPrice == Spec => SellersPrice
<1> DEFINE Fair == AtOffer /\ call'.stage \in {"each", "end"} =>
                      (call'.sheepSend - call.sheepSend) * Best.price.d
                          >= (call'.wheatReceived - call.wheatReceived) * Best.price.n
<1>1. ASSUME IInv, [Next]_vars PROVE [Fair]_vars
  <2> SUFFICES ASSUME AtOffer, call'.stage \in {"each", "end"}, Next
               PROVE  (call'.sheepSend - call.sheepSend) * Best.price.d
                          >= (call'.wheatReceived - call.wheatReceived) * Best.price.n
    BY <1>1
  <2>1. /\ Converting /\ call.stage = "each" /\ call.retList # <<>> /\ Best \in OfferRow
    BY <1>1, BestFacts DEF AtOffer
  <2>2. /\ call \in ConversionCall /\ call.sheepSend \in Nat /\ call.wheatReceived \in Nat
        /\ call # Idle
    BY <1>1, <2>1, ConvertingFacts
  <2>3. Best.price.n \in Nat \ {0} /\ Best.price.d \in Nat \ {0}
    <3>1. Best.price \in OpPrices
      BY <2>1 DEF OfferRow
    <3> QED
      BY <3>1, PriceFacts
  <2>4. ~Rollback /\ ~(\E d : Commit(d)) /\ ~(\E d : Apply(d)) /\ ~(\E c : Begin(c))
    BY <2>2 DEF Rollback, Commit, Apply, Begin, Idle
  <2>5. \/ FilterStops /\ ~Rollback
        \/ CantConvert \/ SellerRefuses \/ crossOffer
    <3>1. ~Submit
      BY <2>4 DEF Submit, createOffer, payment, newLine, changeLine, allowTrust
    <3>2. ~CrossThrows /\ ~settleThrows
      BY <2>4 DEF CrossThrows, settleThrows
    <3>3. /\ ~LoadBestOffers /\ ~NextPage /\ ~leaveOffer /\ ~updateOffer /\ ~dropOffer
          /\ ~walkPath /\ ~pathWalked /\ ~sourcePays
      BY <2>1 DEF LoadBestOffers, NextPage, leaveOffer, updateOffer, dropOffer, walkPath,
                  pathWalked, sourcePays, AfterSettlement, AtSettlement
    <3> QED
      BY <2>4, <3>1, <3>2, <3>3 DEF Next, Step
  <2>6. CASE crossOffer
    <3> DEFINE n == Crossing.numSheepSend
               m == Crossing.numWheatReceived
    <3>1. m \in Nat /\ n \in Nat /\ m * Best.price.n <= n * Best.price.d
      BY <1>1, <2>6, StoredFacts DEF crossOffer
    <3> HIDE DEF n, m
    <3>2. call'.sheepSend = call.sheepSend + n /\ call'.wheatReceived = call.wheatReceived + m
      BY <2>2, <2>6 DEF crossOffer, ConversionCall, n, m
    <3>3. call'.sheepSend - call.sheepSend = n /\ call'.wheatReceived - call.wheatReceived = m
      BY <2>2, <3>1, <3>2
    <3> QED
      BY <2>3, <3>1, <3>3
  <2>7. CASE ~crossOffer
    <3>1. \E result : call' = [call EXCEPT !.stage = "end", !.result = result]
      BY <2>5, <2>7 DEF FilterStops, CantConvert, SellerRefuses, Ends
    <3>2. call'.sheepSend = call.sheepSend /\ call'.wheatReceived = call.wheatReceived
      BY <2>2, <3>1 DEF ConversionCall
    <3> QED
      BY <2>2, <2>3, <3>2
  <2> QED
    BY <2>6, <2>7
<1>2. IInv /\ [Next]_vars => [Fair]_vars
  BY <1>1
<1> QED
  BY <1>2, AlwaysIInv, PTL DEF Spec, SellersPrice
=============================================================================
