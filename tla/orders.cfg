SPECIFICATION Spec
CONSTANTS
    c1 = c1
    c2 = c2
    p1 = p1
    p2 = p2
    w1 = w1
    w2 = w2
    Codes <- MCCodes
    Prices <- MCPrices
    Workers = {w1, w2}
    Receipts = {r1}
    NoRow = NoRow
    Keep = Keep
    OrderWares <- Mixed
    DetailWares <- Raise
    InitialWares <- BothFew
    AddRequests <- NoRequests
    EditRequests <- NoRequests
    SqlMayFail = TRUE
    MayCrash = TRUE
    MaxOrders = 2
    MaxEdits = 0
    MaxDay = 2
SYMMETRY ThreadSymmetry
INVARIANTS TypeOK SoldWasTaken SuccessMeansSold UpdateListNotEmpty
           StockOutTakesFirstLines
PROPERTIES ImplementsOrderBook NoOrderLost NoOrderComesBack SalesAreFinal
