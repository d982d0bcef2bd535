SPECIFICATION FairSpec
CONSTANTS
    Clients = {"c1"}
    Cron = "cron"
    None = None
    Currencies <- MCCurrencies
    Supported <- MCCurrencies
    Home = "NGN"
    Queries <- MCQueries
    QuoteSets <- MCOneQuoteSet
    MaxRetries = 2
    RetryDelay = 1
    FetchTimeout = 1
    TTL = 2
    Hour = 5
    MaxTime = 4
PROPERTIES
    EveryCallEnds
