SPECIFICATION Spec
CONSTANTS
    c1 = c1
    c2 = c2
    p1 = p1
    p2 = p2
    w1 = w1
    w2 = w2
    Codes <- MCCodes
    Prices <- MCPrices
    Workers = {w1, w2}
    Receipts = {r1}
    NoRow = NoRow
    Keep = Keep
    OrderWares <- OneLine
    DetailWares <- NoLines
    InitialWares <- OnlyC1
    AddRequests <- NoRequests
    EditRequests <- NoRequests
    SqlMayFail = FALSE
    MayCrash = FALSE
    MaxOrders = 1
    MaxEdits = 0
    MaxDay = 1
INVARIANT VoidedIsNotSold
