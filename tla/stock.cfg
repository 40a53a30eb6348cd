SPECIFICATION Spec
CONSTANTS
    c1 = c1
    c2 = c2
    p1 = p1
    p2 = p2
    w1 = w1
    w2 = w2
    Codes <- MCCodes
    Prices <- MCPrices
    Workers = {w1, w2}
    Receipts = {r1, r2}
    NoRow = NoRow
    Keep = Keep
    OrderWares <- OneWare
    DetailWares <- NoLines
    InitialWares <- OnlyC1
    AddRequests <- AddC2
    EditRequests <- PriceOnly
    SqlMayFail = FALSE
    MayCrash = FALSE
    MaxOrders = 2
    MaxEdits = 2
    MaxDay = 1
SYMMETRY ThreadSymmetry
INVARIANTS NoStockVanishes StockNeverNegative SoldLeavesTemp
