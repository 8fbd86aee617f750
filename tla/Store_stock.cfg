CONSTANTS
    shirt = shirt
    gown = gown
    ada = ada
    admin = admin
    cashier = cashier
    Products <- TwoProducts
    Customers <- OneCustomer
    Users <- Owner
    Admins <- Owner
    Prices <- Free
    Costs <- UnitPrice
    FormEdits <- Nobody
    MaxQuantity = 1
    MaxLines = 2
    MaxMoney = 0
    MaxSales = 1
    MaxExchanges = 1
    MaxPurchases = 0
    MaxMovements = 3
SPECIFICATION Spec
SYMMETRY Interchangeable
INVARIANTS
    TypeOK
    AuditTrail
    ReceiptsExplainStock
PROPERTIES
    ImplementsStockLedger
CHECK_DEADLOCK FALSE
