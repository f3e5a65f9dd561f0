SPECIFICATION Spec
CONSTANTS
    gate = gate
    alice = alice
    bob = bob
    carol = carol
    USD = USD
    IDR = IDR
    EUR = EUR
    Accounts = {gate, alice, bob, carol}
    Currencies = {USD, IDR, EUR}
    IssuerOf <- MCIssuerOf
    AuthRequired = {gate}
    MaxSubEntries <- MCMaxSubEntries
    Absent = Absent
    Ops <- MCOps
    Genesis <- MCGenesis
    MaxInt = 40
    PageSize = 2
    PriceDivisor = 1
    MaxOps = 4
INVARIANTS OffersHaveLines SubEntriesExact CreditOnlyIssued
CHECK_DEADLOCK FALSE
