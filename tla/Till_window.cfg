SPECIFICATION Spec
CONSTANTS
    None = None
    shirt = shirt
    cap = cap
    amina = amina
    Products <- TwoProducts
    Customers <- OneCustomer
    Prices <- TwoPrices
    Discounts <- OneDiscount
    Opening = 1
    MaxStock = 2
    MaxSales = 2
    MaxExchanges = 2
    MaxEvents = 1
CONSTRAINT Small
SYMMETRY Alike
INVARIANTS
    TypeOK
    OneSalePerCart
    NoFalseClaim
    ReturnedWithinSold
    CancelledNeverPrinted
    BookedAsConfirmed

    
CHECK_DEADLOCK FALSE
