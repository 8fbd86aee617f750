SPECIFICATION Spec
CONSTANTS
    None = None
    shirt = shirt
    cap = cap
    admin = admin
    clerk = clerk
    Products <- TwoProducts
    Users <- TwoUsers
    Admin = admin
    Price = 3
    Costs <- TwoCosts
    Discounts <- NoneOrOne
    Methods <- TwoMethods
    Amounts <- OneOrTwo
    Terms <- Dearer
    MaxPieces = 1
    MaxPaid = 2
    Opening = 1
    Threshold = 1
    MaxDay = 2
    MaxSales = 2
    MaxPurchases = 1
    MaxExpenses = 1
SYMMETRY Alike
CONSTRAINT Small
INVARIANTS
    TypeOK
    ReportsAgree
    SheetAgrees
PROPERTIES
    ClosedDaysAreKept
CHECK_DEADLOCK FALSE
