SPECIFICATION Spec
CONSTANTS
    c1 = c1
    c2 = c2
    p1 = p1
    p2 = p2
    w1 = w1
    w2 = w2
    Codes <- MCCodes
    Prices <- MCPrices
    Workers = {w1}
    Receipts = {r1, r2}
    NoRow = NoRow
    Keep = Keep
    OrderWares <- Mixed
    DetailWares <- Raise
    InitialWares <- BothFew
    AddRequests <- NoRequests
    EditRequests <- NoRequests
    SqlMayFail = TRUE
    MayCrash = TRUE
    MaxOrders = 3
    MaxEdits = 0
    MaxDay = 2
INVARIANT StockBooksBalance
PROPERTY EveryRequestEnds
