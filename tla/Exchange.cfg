SPECIFICATION FairExchangeSpec
CONSTANTS
    Requests = {r1, r2}
    AuthCalls = {c1, c2, c3}
    Earlier = {e1}
    None = None
    Users <- MCAddresses
    Currencies <- MCCurrencies
    Supported <- MCSupported
    Rank <- MCRank
    Keys = {"k1", "k2"}
    Offers <- MCOffers
    Quotes = {2}
    RateScale = 2
    SubUnits = 1
    MaxAmount = 4
    PoolSize = 2
    Opening <- MCOpening
    Addresses <- MCAddresses
    Normalised <- MCNormalised
    Passwords = {"p1"}
    Otps = {"o1"}
    AuthOffers <- MCAuthOffers
    Openings <- MCOpenings
INVARIANTS
    WalletsAreReady
    OnlyVerifiedUsersTrade
PROPERTIES
    EveryCallEnds
