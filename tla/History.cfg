SPECIFICATION Spec
CONSTANTS
    Writers = {w1, w2}
    Readers = {r1}
    None = None
    Posts <- MCPosts
    Opening <- MCOpening
    Quotes = {"EUR", "USD"}
    MaxCaptures = 2
    Queries <- MCQueries
    Day = 2
INVARIANTS
    TypeOK
    PagesMissNothing
    RepeatsAreExplained
    HistoryInOrder
    OwnRowsOnly
    TotalsCoverPages
