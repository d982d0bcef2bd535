SPECIFICATION Spec
CONSTANTS
    r1 = r1
    r2 = r2
    r3 = r3
    ada = ada
    bob = bob
    None = None
    Requests = {r1, r2}
    Users = {ada}
    Keys = {"k1", "k2", "k3"}
    Currencies <- MCCurrencies
    Supported <- MCSupported
    Rank <- MCRank
    Offers <- DuplicateOffers
    Quotes <- MCQuotes
    Opening <- MCOpening
    RateScale = 2
    SubUnits = 1
    MaxAmount = 4
    PoolSize = 2
INVARIANTS
    DuplicatesReturnOriginal
