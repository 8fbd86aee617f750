CONSTANTS
    shirt = shirt
    gown = gown
    ada = ada
    admin = admin
    cashier = cashier
    Products <- OneProduct
    Customers <- OneCustomer
    Users <- Staff
    Admins <- Owner
    Prices <- TwoPrices
    Costs <- UnitPrice
    FormEdits <- Nobody
    MaxQuantity = 1
    MaxLines = 1
    MaxMoney = 2
    MaxSales = 2
    MaxExchanges = 2
    MaxPurchases = 1
    MaxMovements = 5
SPECIFICATION Spec
INVARIANTS
    ReturnedWithinSold
    CreditNeverNegative
    
    OutboxReplaysLedgers
    OutboxKnowsReceipts
PROPERTIES
    HistoryIsKept
CHECK_DEADLOCK FALSE
