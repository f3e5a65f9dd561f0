----------------------------- MODULE OrderBook -----------------------------
(***************************************************************************)
(* Credit: trust lines (ledger/TrustFrame.cpp), offers to exchange one     *)
(* currency for another (ledger/OfferFrame.cpp,                            *)
(* transactions/CreateOfferOpFrame.cpp), the loop that crosses them        *)
(* (transactions/OfferExchange.cpp) and the operations that move credit    *)
(* (PaymentOpFrame.cpp with a path, ChangeTrustOpFrame.cpp,                *)
(* AllowTrustOpFrame.cpp).                                                 *)
(*                                                                         *)
(* Every transaction has one operation; when it fails or throws its        *)
(* changes are rolled back.  Fees and native balances are LedgerClose's    *)
(* part: here a native balance is how many sub-entries it is a reserve     *)
(* for.  Offers are for credit only: the INSERT of an offer with the       *)
(* native currency leaves NOT NULL columns out and throws, so no such      *)
(* offer is ever in the table.                                             *)
(***************************************************************************)
EXTENDS Integers, Sequences, SequencesExt, FiniteSets, FiniteSetsExt, Functions

CONSTANTS
    Accounts,
    Currencies,
    IssuerOf,       \* the account of each currency
    AuthRequired,   \* accounts with AUTH_REQUIRED_FLAG
    MaxSubEntries,  \* the sub-entries an account's balance is a reserve for
    Absent,         \* no row
    Ops,            \* the operations anyone may submit
    Genesis,        \* the trust lines at the start, which are all counted
    MaxInt,         \* bound: INT64_MAX
    PageSize,       \* how many offers are loaded at once, 5 in the code
    PriceDivisor,   \* OFFER_PRICE_DIVISOR, 10^7 in the code
    MaxOps          \* bound: operations applied

Price == [n : Nat \ {0}, d : Nat \ {0}]
TrustLine == [limit : 0 .. MaxInt, balance : 0 .. MaxInt, authorized : BOOLEAN]
Holdings == {h \in Accounts \X Currencies : h[1] # IssuerOf[h[2]]}

ASSUME OrderBookAssumption ==
    /\ MaxInt \in Nat /\ PageSize \in Nat \ {0} /\ PriceDivisor \in Nat \ {0} /\ MaxOps \in Nat
    /\ IsFiniteSet(Accounts) /\ IsFiniteSet(Currencies)
    /\ IssuerOf \in [Currencies -> Accounts] /\ AuthRequired \subseteq Accounts
    /\ MaxSubEntries \in [Accounts -> Nat]
    /\ Absent \notin TrustLine
    /\ Genesis \in [Holdings -> TrustLine \cup {Absent}]
    /\ \A h \in Holdings : Genesis[h] # Absent => Genesis[h].balance <= Genesis[h].limit
    /\ \A a \in Accounts : Cardinality({h \in Holdings : h[1] = a /\ Genesis[h] # Absent})
                              <= MaxSubEntries[a]

\* What doCheckValid of each operation leaves.
CreateOfferOps ==
    {op \in [type : {"CreateOffer"}, source : Accounts, offerID : Nat, takerGets : Currencies,
             takerPays : Currencies, amount : 0 .. MaxInt, price : Price] :
        op.takerGets # op.takerPays}
PaymentOps ==
    [type : {"Payment"}, source : Accounts, destination : Accounts, currency : Currencies,
     amount : 0 .. MaxInt, sendMax : 0 .. MaxInt, path : Seq(Currencies)]
ChangeTrustOps ==
    [type : {"ChangeTrust"}, source : Accounts, line : Currencies, limit : 0 .. MaxInt]
AllowTrustOps ==
    [type : {"AllowTrust"}, source : Accounts, trustor : Accounts, currency : Currencies,
     authorize : BOOLEAN]

ASSUME OpsAssumption ==
    \A op \in Ops : \/ op \in CreateOfferOps
                    \/ op \in PaymentOps
                    \/ op \in ChangeTrustOps
                    \/ op \in AllowTrustOps

VARIABLES
    db,       \* the tables: lines, offers, numSubEntries and the header's
              \* idPool; and of the properties: issued, unpaid, miscounted
    saved,    \* db when the transaction began
    call,     \* the operation in progress; see Idle and convertWithOffers
    applied   \* how many operations were

vars == <<db, saved, call, applied>>

Idle == [stage |-> "idle"]

-----------------------------------------------------------------------------
(* util/types.cpp and TrustFrame.                                          *)

bigDivide(a, b, c) == (a * b) \div c
AtMostMaxInt(x) == Min({x, MaxInt})

\* operator> of two prices, and the column offers are ordered by.
PriceAbove(p, q) == p.n * q.d > p.d * q.n
computePrice(p) == bigDivide(p.n, PriceDivisor, p.d)

\* loadTrustLine makes the issuer a line that nothing can exhaust.
IsIssuer(a, c) == a = IssuerOf[c]
setAsIssuer == [limit |-> MaxInt, balance |-> MaxInt, authorized |-> TRUE]
HasLine(d, a, c) == ~IsIssuer(a, c) => d.lines[<<a, c>>] # Absent
loadTrustLine(d, a, c) == IF IsIssuer(a, c) THEN setAsIssuer ELSE d.lines[<<a, c>>]

\* Deviation: what the line holds already is not counted.
ReceivesUpToLimit(d, a, c) ==
    LET line == loadTrustLine(d, a, c) IN IF line.authorized THEN line.limit ELSE 0
getMaxAmountReceive(d, a, c) ==
    LET line == loadTrustLine(d, a, c) IN
    IF IsIssuer(a, c) THEN MaxInt
    ELSE IF line.authorized THEN line.limit - line.balance ELSE 0

\* addBalance's answer, and the tables after it and storeChange.
MayAddBalance(d, a, c, delta) ==
    LET line == loadTrustLine(d, a, c) IN
    ~IsIssuer(a, c) /\ delta # 0 => line.authorized /\ line.balance + delta \in 0 .. line.limit
addBalance(d, a, c, delta) ==
    IF IsIssuer(a, c) THEN [d EXCEPT !.issued[c] = @ - delta]
    ELSE [d EXCEPT !.lines[<<a, c>>].balance = @ + delta]

\* AccountFrame::addNumEntries of one more.
MayAddEntry(d, a) == d.numSubEntries[a] < MaxSubEntries[a]

-----------------------------------------------------------------------------
(* OfferExchange.                                                          *)

OffersFor(d, sheep, wheat) == {o \in d.offers : o.takerPays = sheep /\ o.takerGets = wheat}
Before(o, p) ==
    \/ computePrice(o.price) < computePrice(p.price)
    \/ computePrice(o.price) = computePrice(p.price) /\ o.offerID < p.offerID
loadBestOffers(d, sheep, wheat, offset) ==
    LET sorted == CHOOSE s \in SetToSeqs(OffersFor(d, sheep, wheat)) :
                      \A i, j \in DOMAIN s : i < j => Before(s[i], s[j])
    IN  SubSeq(sorted, offset + 1, Min({offset + PageSize, Len(sorted)}))

\* What crossOffer computes before it changes anything: what is left of the
\* offer given what its seller can receive and has, what is exchanged, and
\* whether the buyer's limits reduced that.
\* Deviation: the amount of wheat stays as it was before sheep were rounded.
NoBiasTowardsSeller(wheat, sheep, price) == wheat
BiasTowardsSeller(wheat, sheep, price) == bigDivide(sheep, price.d, price.n)

\* Deviation: what the seller can still receive is not asked for.
SellerSellsAny(d, o) == Min({loadTrustLine(d, o.accountID, o.takerGets).balance, o.amount})
SellerCanSell(d, o) ==
    Min({AtMostMaxInt(bigDivide(getMaxAmountReceive(d, o.accountID, o.takerPays),
                                o.price.d, o.price.n)),
         loadTrustLine(d, o.accountID, o.takerGets).balance,
         o.amount})

Exchange(d, o, maxWheatReceived, maxSheepSend) ==
    LET amount == SellerCanSell(d, o)
        wheat0 == Min({amount, maxWheatReceived})
        sheep0 == AtMostMaxInt(bigDivide(wheat0, o.price.n, o.price.d))
        sheep == Min({sheep0, maxSheepSend})
        wheat == BiasTowardsSeller(wheat0, sheep, o.price)
        nothing == wheat = 0 \/ sheep = 0
        reducedOffer == amount > maxWheatReceived \/ sheep0 > maxSheepSend
    IN  [amount |-> amount,
         cantConvert |-> nothing /\ reducedOffer,
         numWheatReceived |-> IF nothing THEN 0 ELSE wheat,
         numSheepSend |-> IF nothing THEN 0 ELSE sheep,
         offerTaken |-> nothing \/ amount <= wheat]

\* Deviation: an offer nothing can be exchanged for stays.
KeepsBogusOffer(d, o, x) ==
    IF x.offerTaken /\ x.numWheatReceived > 0
    THEN [d EXCEPT !.offers = @ \ {o}, !.numSubEntries[o.accountID] = @ - 1]
    ELSE [d EXCEPT !.offers = (@ \ {o}) \cup {[o EXCEPT !.amount = x.amount - x.numWheatReceived]}]
\* Deviation: the entry of an offer that is gone stays counted.
StillCounted(d, o, x) ==
    [d EXCEPT !.offers = IF x.offerTaken THEN @ \ {o}
                         ELSE (@ \ {o}) \cup {[o EXCEPT !.amount = x.amount - x.numWheatReceived]}]
\* The offer after the exchange: deleted, or less.
UpdateOffer(d, o, x) ==
    IF x.offerTaken
    THEN [d EXCEPT !.offers = @ \ {o}, !.numSubEntries[o.accountID] = @ - 1]
    ELSE [d EXCEPT !.offers = (@ \ {o}) \cup {[o EXCEPT !.amount = x.amount - x.numWheatReceived]}]

\* What calls convertWithOffers, the arguments, the locals and the result.
Conversion(type, op, path, sheep, maxSheepSend, wheat, maxWheatReceive) ==
    LET needMore == maxWheatReceive > 0 /\ maxSheepSend > 0 IN
    [type |-> type, op |-> op, path |-> path,
     stage |-> IF needMore THEN "load" ELSE "end", result |-> "eOK",
     sheep |-> sheep, forSale |-> maxSheepSend, maxSheepSend |-> maxSheepSend, sheepSend |-> 0,
     wheat |-> wheat, curBReceived |-> maxWheatReceive, maxWheatReceive |-> maxWheatReceive,
     wheatReceived |-> 0,
     retList |-> <<>>, size |-> 0, offerOffset |-> 0, crossed |-> 0]

\* Transactions begin and end.
Begin(c) == applied < MaxOps /\ call = Idle /\ call' = c /\ saved' = db /\ applied' = applied + 1
Commit(d) == db' = d /\ call' = Idle /\ UNCHANGED <<saved, applied>>
Rollback == db' = saved /\ call' = Idle /\ UNCHANGED <<saved, applied>>

LoadBestOffers ==
    /\ call.stage = "load"
    /\ LET page == loadBestOffers(db, call.sheep, call.wheat, call.offerOffset) IN
       call' = [call EXCEPT !.stage = "each", !.retList = page, !.size = Len(page),
                            !.offerOffset = @ + Len(page)]
    /\ UNCHANGED <<db, saved, applied>>

\* The page is used up: "still stuff to fill but no more offers", or another.
NextPage ==
    /\ call.stage = "each" /\ call.retList = <<>>
    /\ call' = [call EXCEPT !.stage = IF call.size < PageSize THEN "end" ELSE "load"]
    /\ UNCHANGED <<db, saved, applied>>

Best == Head(call.retList)
AtOffer == call.stage = "each" /\ call.retList # <<>>

\* doApply's filter: too dear, or an offer of the source itself.
\* Deviation: any price will do.
TooDearNever(o) == FALSE
TooDear(o) ==
    /\ call.type = "offer"
    /\ PriceAbove(o.price, [n |-> call.op.price.d, d |-> call.op.price.n])
Own(o) == call.type = "offer" /\ o.accountID = call.op.source

FilterStops ==
    /\ AtOffer
    /\ TooDear(Best) \/ Own(Best)
    /\ IF TooDear(Best)
       THEN /\ call' = [call EXCEPT !.stage = "end", !.result = "eFilterStop"]
            /\ UNCHANGED <<db, saved, applied>>
       ELSE Rollback   \* CREATE_OFFER_CROSS_SELF

Kept == AtOffer /\ ~TooDear(Best) /\ ~Own(Best)
CanLoad == HasLine(db, Best.accountID, Best.takerGets) /\ HasLine(db, Best.accountID, Best.takerPays)
Crossing == Exchange(db, Best, call.maxWheatReceive, call.maxSheepSend)

\* "offer must have matching trust line", or "invalid account state".
CrossThrows ==
    /\ Kept
    /\ CanLoad => /\ ~Crossing.cantConvert /\ Crossing.offerTaken
                  /\ db.numSubEntries[Best.accountID] = 0
    /\ Rollback

\* Deviation: the offset stays where it is when an offer before it goes.
OffsetStays(offset, x) == offset
OffsetAfter(offset, x) == IF x.offerTaken THEN offset - 1 ELSE offset

\* The seller's balances: the sheep are stored before the wheat is asked for.
Crosses ==
    /\ Kept /\ CanLoad /\ ~Crossing.cantConvert
    /\ Crossing.offerTaken => db.numSubEntries[Best.accountID] > 0
OfferStored == UpdateOffer(db, Best, Crossing)
SheepAccepted == MayAddBalance(OfferStored, Best.accountID, Best.takerPays, Crossing.numSheepSend)
SheepStored == addBalance(OfferStored, Best.accountID, Best.takerPays, Crossing.numSheepSend)
WheatGiven ==
    SheepAccepted /\ MayAddBalance(SheepStored, Best.accountID, Best.takerGets,
                                  -Crossing.numWheatReceived)
Ends(result) == [call EXCEPT !.stage = "end", !.result = result]

CantConvert ==
    /\ Kept /\ CanLoad /\ Crossing.cantConvert
    /\ call' = Ends("ePartial")
    /\ UNCHANGED <<db, saved, applied>>

\* The wheat line is not authorized: what was stored until then stays.
SellerRefuses ==
    /\ Crosses /\ ~WheatGiven
    /\ db' = IF SheepAccepted
             THEN [SheepStored EXCEPT !.unpaid[call.sheep] = @ + Crossing.numSheepSend]
             ELSE OfferStored
    /\ call' = Ends("ePartial")
    /\ UNCHANGED <<saved, applied>>

crossOffer ==
    /\ Crosses /\ WheatGiven
    /\ db' = addBalance(SheepStored, Best.accountID, Best.takerGets, -Crossing.numWheatReceived)
    /\ LET x == Crossing
           wheatLeft == call.maxWheatReceive - x.numWheatReceived
           sheepLeft == call.maxSheepSend - x.numSheepSend
           needMore == wheatLeft > 0 /\ sheepLeft > 0
       IN  call' = [call EXCEPT
                       !.stage = IF needMore /\ x.offerTaken THEN @ ELSE "end",
                       !.result = IF needMore /\ ~x.offerTaken THEN "ePartial" ELSE "eOK",
                       !.sheepSend = @ + x.numSheepSend, !.maxSheepSend = sheepLeft,
                       !.wheatReceived = @ + x.numWheatReceived, !.maxWheatReceive = wheatLeft,
                       !.crossed = @ + 1,
                       !.retList = Tail(@),
                       !.offerOffset = OffsetAfter(@, x)]
    /\ UNCHANGED <<saved, applied>>

-----------------------------------------------------------------------------
(* CreateOfferOpFrame.                                                     *)

checkOfferValid(op) ==
    /\ HasLine(db, op.source, op.takerGets)
    /\ loadTrustLine(db, op.source, op.takerGets).balance # 0
    /\ HasLine(db, op.source, op.takerPays)
    /\ loadTrustLine(db, op.source, op.takerPays).authorized

\* The offer the operation is about: none for a new one.
Modified(d, op) ==
    {o \in d.offers : /\ o.accountID = op.source /\ o.offerID = op.offerID
                      /\ o.takerGets = op.takerGets /\ o.takerPays = op.takerPays}

\* What of op.amount can be sold, given what the source has and can receive.
maxSheepSend(op) ==
    Min({op.amount,
         loadTrustLine(db, op.source, op.takerGets).balance,
         AtMostMaxInt(bigDivide(getMaxAmountReceive(db, op.source, op.takerPays),
                                op.price.d, op.price.n))})

createOffer(op) ==
    /\ op.type = "CreateOffer"
    /\ checkOfferValid(op)
    /\ op.offerID # 0 => Modified(db, op) # {}
    /\ getMaxAmountReceive(db, op.source, op.takerPays) > 0
    /\ Begin(Conversion("offer", op, <<>>, op.takerGets, maxSheepSend(op),
                        op.takerPays, getMaxAmountReceive(db, op.source, op.takerPays)))
    /\ UNCHANGED db

\* The source's balances, once the book is crossed.
Claimed == MayAddBalance(db, call.op.source, call.wheat, call.wheatReceived)
Sold == MayAddBalance(db, call.op.source, call.sheep, -call.sheepSend)
Settled ==
    addBalance(addBalance(db, call.op.source, call.wheat, call.wheatReceived),
               call.op.source, call.sheep, -call.sheepSend)
Left == call.forSale - call.sheepSend
AtSettlement == call.stage = "end" /\ call.type = "offer"

\* "offer claimed over limit" or "offer sold more than balance".
settleThrows ==
    /\ AtSettlement /\ call.wheatReceived > 0 /\ ~(Claimed /\ Sold)
    /\ Rollback

AfterSettlement == AtSettlement /\ (call.wheatReceived > 0 => Claimed /\ Sold)

\* CREATE_OFFER_CREATED, or CREATE_OFFER_LOW_RESERVE.
leaveOffer ==
    /\ AfterSettlement /\ Left > 0 /\ call.op.offerID = 0
    /\ LET a == call.op.source
           offer == [offerID |-> Settled.idPool + 1, accountID |-> a, amount |-> Left,
                     takerGets |-> call.sheep, takerPays |-> call.wheat, price |-> call.op.price]
       IN  IF MayAddEntry(db, a)
           THEN Commit([Settled EXCEPT !.offers = @ \cup {offer}, !.idPool = @ + 1,
                                       !.numSubEntries[a] = @ + 1])
           ELSE Rollback

\* CREATE_OFFER_UPDATED: the amount; the price stays what it was.
updateOffer ==
    /\ AfterSettlement /\ Left > 0 /\ call.op.offerID # 0
    /\ LET old == Modified(db, call.op) IN
       Commit([Settled EXCEPT !.offers = (@ \ old) \cup {[o EXCEPT !.amount = Left] : o \in old}])

\* CREATE_OFFER_DELETED: the offer, if there was one; its entry stays counted.
dropOffer ==
    /\ AfterSettlement /\ Left = 0
    /\ LET old == Modified(db, call.op) IN
       Commit([Settled EXCEPT !.offers = @ \ old,
                              !.miscounted[call.op.source] = @ + Cardinality(old)])

-----------------------------------------------------------------------------
(* PaymentOpFrame with credit: from the destination back along the path.   *)

\* sendNoCreate credits the destination first.
payment(op) ==
    /\ op.type = "Payment"
    /\ op.destination # op.source \/ op.path # <<>>
    /\ HasLine(db, op.destination, op.currency)
    /\ loadTrustLine(db, op.destination, op.currency).authorized
    /\ MayAddBalance(db, op.destination, op.currency, op.amount)
    /\ Begin([type |-> "payment", stage |-> "path", op |-> op, path |-> op.path,
              curB |-> op.currency, curBReceived |-> op.amount])
    /\ db' = addBalance(db, op.destination, op.currency, op.amount)

walkPath ==
    /\ call.stage = "path" /\ call.path # <<>>
    /\ call' = Conversion("payment", call.op, Front(call.path),
                          Last(call.path), MaxInt, call.curB, call.curBReceived)
    /\ UNCHANGED <<db, saved, applied>>

\* Deviation: whatever the offers gave is enough.
EnoughAnyway == TRUE
Enough == call.result = "eOK" /\ call.wheatReceived = call.curBReceived

\* What was sent is to be received one step before; or PAYMENT_TOO_FEW_OFFERS.
pathWalked ==
    /\ call.stage = "end" /\ call.type = "payment"
    /\ IF Enough
       THEN /\ call' = [type |-> "payment", stage |-> "path", op |-> call.op, path |-> call.path,
                        curB |-> call.sheep, curBReceived |-> call.sheepSend]
            /\ UNCHANGED <<db, saved, applied>>
       ELSE Rollback

\* The source pays; or PAYMENT_OVER_SENDMAX, PAYMENT_UNDERFUNDED.
sourcePays ==
    /\ call.stage = "path" /\ call.path = <<>>
    /\ IF /\ call.curBReceived <= call.op.sendMax
          /\ HasLine(db, call.op.source, call.curB)
          /\ MayAddBalance(db, call.op.source, call.curB, -call.curBReceived)
       THEN Commit(addBalance(db, call.op.source, call.curB, -call.curBReceived))
       ELSE Rollback

-----------------------------------------------------------------------------
(* ChangeTrustOpFrame and AllowTrustOpFrame.                               *)

\* An operation of one step.
Apply(d) == applied < MaxOps /\ call = Idle /\ db' = d /\ applied' = applied + 1
            /\ UNCHANGED <<saved, call>>

\* A new line is added with or without the reserve for it.
newLine(op) ==
    /\ op.type = "ChangeTrust" /\ ~HasLine(db, op.source, op.line)
    /\ LET counted == IF MayAddEntry(db, op.source) THEN 1 ELSE 0 IN
       Apply([db EXCEPT !.lines[<<op.source, op.line>>] =
                            [limit |-> op.limit, balance |-> 0,
                             authorized |-> IssuerOf[op.line] \notin AuthRequired],
                        !.numSubEntries[op.source] = @ + counted,
                        !.miscounted[op.source] = @ + counted - 1])

\* Deviation: no limit is too low.
AnyLimit(op, line) == TRUE
LimitAllowed(op, line) == op.limit >= line.balance

changeLine(op) ==
    /\ op.type = "ChangeTrust" /\ ~IsIssuer(op.source, op.line)
    /\ HasLine(db, op.source, op.line)
    /\ LET line == loadTrustLine(db, op.source, op.line) IN
       /\ LimitAllowed(op, line)
       /\ IF op.limit = 0 /\ line.balance = 0
          THEN /\ db.numSubEntries[op.source] > 0   \* else "invalid account state"
               /\ Apply([db EXCEPT !.lines[<<op.source, op.line>>] = Absent,
                                   !.numSubEntries[op.source] = @ - 1])
          ELSE Apply([db EXCEPT !.lines[<<op.source, op.line>>].limit = op.limit])

allowTrust(op) ==
    /\ op.type = "AllowTrust"
    /\ op.source \in AuthRequired /\ IsIssuer(op.source, op.currency)
    /\ ~IsIssuer(op.trustor, op.currency) /\ HasLine(db, op.trustor, op.currency)
    /\ Apply([db EXCEPT !.lines[<<op.trustor, op.currency>>].authorized = op.authorize])

-----------------------------------------------------------------------------

\* What the lines of a currency hold together.
HoldingsOf(c) == {h \in Holdings : h[2] = c}
BalanceIn(lines, h) == IF lines[h] = Absent THEN 0 ELSE lines[h].balance
Sum(lines, c) ==
    SumFunctionOnSet([h \in HoldingsOf(c) |-> BalanceIn(lines, h)], HoldingsOf(c))

Init ==
    /\ db = [lines |-> Genesis, offers |-> {}, idPool |-> 0,
             numSubEntries |-> [a \in Accounts |->
                 Cardinality({h \in Holdings : h[1] = a /\ Genesis[h] # Absent})],
             issued |-> [c \in Currencies |-> Sum(Genesis, c)],
             unpaid |-> [c \in Currencies |-> 0],
             miscounted |-> [a \in Accounts |-> 0]]
    /\ saved = db
    /\ call = Idle
    /\ applied = 0

Submit == \E op \in Ops : \/ createOffer(op)
                         \/ payment(op)
                         \/ newLine(op)
                         \/ changeLine(op)
                         \/ allowTrust(op)

Step == \/ LoadBestOffers \/ NextPage \/ FilterStops \/ CrossThrows
        \/ CantConvert \/ SellerRefuses \/ crossOffer
        \/ settleThrows \/ leaveOffer \/ updateOffer \/ dropOffer
        \/ walkPath \/ pathWalked \/ sourcePays

Next == Submit \/ Step

Spec == Init /\ [][Next]_vars

-----------------------------------------------------------------------------
(* Properties.                                                             *)

LineOf(a) == {h \in Holdings : h[1] = a /\ db.lines[h] # Absent}
OffersOf(a) == {o \in db.offers : o.accountID = a}

\* The tables hold what their columns allow, and isValid of every line: no
\* balance is above its limit.
TypeOK ==
    /\ \A h \in Holdings : db.lines[h] # Absent =>
          db.lines[h] \in TrustLine /\ db.lines[h].balance <= db.lines[h].limit
    /\ \A o \in db.offers :
          /\ o.offerID \in 1 .. db.idPool /\ o.accountID \in Accounts
          /\ o.amount \in 1 .. MaxInt /\ o.price \in Price
          /\ o.takerGets \in Currencies /\ o.takerPays \in Currencies \ {o.takerGets}
    /\ db.numSubEntries \in [Accounts -> Nat]
    /\ applied \in 0 .. MaxOps
    /\ call.stage \in {"idle", "path", "load", "each", "end"}

\* The amounts computed ahead are ones the lines take.  A seller whose offer is
\* stored takes the sheep; of the two throws that "would indicate a bug in
\* OfferExchange", what was received fits the source's line, and what was sold
\* is what it had, if its line still is authorized, which checkOfferValid does
\* not ask.
SettlementHolds ==
    /\ Crosses => SheepAccepted
    /\ AtSettlement /\ call.wheatReceived > 0 =>
          Claimed /\ (Sold \/ ~loadTrustLine(db, call.op.source, call.sheep).authorized)

\* An account's numSubEntries counts its lines and offers, but for the lines
\* it got without a reserve and the offers it withdrew itself.
SubEntriesCounted ==
    \A a \in Accounts :
        db.numSubEntries[a] = Cardinality(LineOf(a)) + Cardinality(OffersOf(a)) + db.miscounted[a]

BooksInOrder == TypeOK /\ SettlementHolds /\ SubEntriesCounted

\* Between transactions the lines of a currency hold what its issuer issued,
\* however payments, partial and failed exchanges moved it; but for what a
\* seller got whose wheat line had lost its authorization (SellerRefuses).
CreditConserved ==
    call = Idle => \A c \in Currencies : Sum(db.lines, c) = db.issued[c] + db.unpaid[c]

\* The best offer is crossed first: no page and no deletion makes the loop
\* pass over a better one.
BestFirst == AtOffer => \A o \in OffersFor(db, call.sheep, call.wheat) : ~Before(o, Best)

Hides(p, o) == computePrice(p.price) = computePrice(o.price) /\ p.offerID < o.offerID

\* When the loop ends for want of offers none is left; when it ends at one that
\* is too dear, so is every other one but those behind an older dear offer that
\* the price column, rounded down, does not tell them from.
BookSwept ==
    call.stage = "end" =>
        LET left == OffersFor(db, call.sheep, call.wheat) IN
        /\ call.result = "eOK" /\ call.maxWheatReceive > 0 /\ call.maxSheepSend > 0 => left = {}
        /\ call.result = "eFilterStop" =>
              \A o \in left : TooDear(o) \/ \E p \in left : TooDear(p) /\ Hides(p, o)

\* The loop ends: it crosses no offer twice, not even one that nothing can be
\* exchanged for.
CrossedOnce ==
    call.stage \in {"load", "each", "end"} =>
        call.crossed <= Cardinality(OffersFor(saved, call.sheep, call.wheat))

\* A new offer sells at its price or better, but for less than one unit of
\* wheat that rounding takes at each offer it crosses.
BuyersPrice ==
    AtSettlement => call.sheepSend * call.op.price.n
                       <= (call.wheatReceived + call.crossed) * call.op.price.d

\* What convertWithOffers promises: best offers first, all that are wanted, each
\* once, at the price that was asked for.
BookInOrder == BestFirst /\ BookSwept /\ CrossedOnce /\ BuyersPrice

\* Every offer that is crossed gets its price or better: rounding is on the
\* buyer's side.
SellersPrice ==
    [][AtOffer /\ call'.stage \in {"each", "end"} =>
          (call'.sheepSend - call.sheepSend) * Best.price.d
              >= (call'.wheatReceived - call.wheatReceived) * Best.price.n]_vars

\* crossOffer's "invalid database state: offer must have matching trust line".
OffersHaveLines ==
    \A o \in db.offers : HasLine(db, o.accountID, o.takerGets) /\ HasLine(db, o.accountID, o.takerPays)

\* numSubEntries is the "number of sub-entries this account has".
SubEntriesExact ==
    \A a \in Accounts : db.numSubEntries[a] = Cardinality(LineOf(a)) + Cardinality(OffersOf(a))

\* Nothing but its issuer makes credit.
CreditOnlyIssued == call = Idle => \A c \in Currencies : Sum(db.lines, c) = db.issued[c]

=============================================================================
