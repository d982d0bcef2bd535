SPECIFICATION Spec
CONSTANTS
    r1 = r1
    r2 = r2
    r3 = r3
    ada = ada
    bob = bob
    None = None
    Requests = {r1, r2, r3}
    Users = {ada, bob}
    Keys = {"k1", "k2", "k3"}
    Currencies <- MCCurrencies
    Supported <- MCSupported
    Rank <- MCRank
    Offers <- RaceOffers
    Quotes <- MCQuotes
    Opening <- MCOpening
    RateScale = 2
    SubUnits = 1
    MaxAmount = 4
    PoolSize = 2
SYMMETRY Symmetry
INVARIANTS
    TypeOK
    AtMostOncePerKey
    NoOverdraft
    WritesReplaceWhatWasRead
    PendingInsertsAreUnique
    RepliesAreTrue
    NoWaitCycle
    LedgerExplainsBalances
PROPERTIES
    ImplementsAtomicLedger
