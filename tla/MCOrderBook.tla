---------------------------- MODULE MCOrderBook ----------------------------
(***************************************************************************)
(* OrderBook for TLC: a gateway that issues two currencies and authorizes  *)
(* who holds them, two sellers, a buyer.  The gateway has the reserve for  *)
(* one sub-entry and may hold a currency that alice issues.  The price     *)
(* column holds whole numbers (PriceDivisor = 1), so that 1/1 and 3/2, or  *)
(* 1/2 and 1/3, look alike in it and ids decide.                           *)
(***************************************************************************)
EXTENDS OrderBook

CONSTANTS gate, alice, bob, carol, USD, IDR, EUR

MCIssuerOf == [c \in Currencies |-> IF c = EUR THEN alice ELSE gate]
MCMaxSubEntries == [a \in Accounts |-> CASE a = gate -> 1 [] a = alice -> 4 [] OTHER -> 3]

Held(limit, balance) == [limit |-> limit, balance |-> balance, authorized |-> TRUE]
MCGenesis ==
    [h \in Holdings |->
        CASE h = <<alice, IDR>> -> Held(20, 9)
          [] h = <<alice, USD>> -> Held(5, 0)
          [] h = <<bob, IDR>> -> Held(9, 7)
          [] h = <<bob, USD>> -> Held(20, 2)
          [] h = <<carol, USD>> -> Held(20, 12)
          [] OTHER -> Absent]

Offer(id, source, gets, pays, amount, n, d) ==
    [type |-> "CreateOffer", offerID |-> id, source |-> source, takerGets |-> gets,
     takerPays |-> pays, amount |-> amount, price |-> [n |-> n, d |-> d]]
Pay(from, to, currency, amount, sendMax, path) ==
    [type |-> "Payment", source |-> from, destination |-> to, currency |-> currency,
     amount |-> amount, sendMax |-> sendMax, path |-> path]
Trust(holder, currency, limit) ==
    [type |-> "ChangeTrust", source |-> holder, line |-> currency, limit |-> limit]
Allow(trustor, currency, authorize) ==
    [type |-> "AllowTrust", source |-> gate, trustor |-> trustor, currency |-> currency,
     authorize |-> authorize]

MCOps ==
    {Offer(0, alice, IDR, USD, 5, 1, 2), Offer(0, alice, IDR, USD, 3, 3, 2),
     Offer(1, alice, IDR, USD, 0, 1, 2), Offer(1, alice, IDR, USD, 2, 2, 1),
     Offer(0, bob, IDR, USD, 4, 1, 1), Offer(0, gate, IDR, USD, 2, 1, 3),
     Offer(0, carol, USD, IDR, 6, 1, 1), Offer(0, carol, USD, IDR, 9, 2, 3),
     Offer(0, bob, USD, IDR, 2, 1, 1),
     Pay(carol, bob, IDR, 2, 9, <<USD>>), Pay(carol, bob, IDR, 4, 3, <<USD>>),
     Pay(bob, alice, IDR, 7, 7, <<>>), Pay(gate, carol, USD, 5, 9, <<>>),
     Trust(carol, IDR, 6), Trust(alice, USD, 0), Trust(bob, IDR, 5),
     Trust(gate, EUR, 1), Trust(gate, EUR, 0),
     Allow(alice, IDR, FALSE), Allow(carol, IDR, TRUE), Allow(bob, USD, FALSE)}
=============================================================================
