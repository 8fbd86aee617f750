SPECIFICATION Spec
CONSTANTS
    None = None
    office = office
    till = till
    r1 = r1
    r2 = r2
    PCs <- TwoPCs
    Receipts <- OneReceipt
    Opening = 1
    Limit = 2
    BatchSize = 2
    MaxExtras = 3
    MaxLog = 5
CONSTRAINT Small
SYMMETRY Alike
INVARIANTS
    TypeOK
    
    NothingBehindTheCursor
    
PROPERTIES
    CancelledForGood
CHECK_DEADLOCK FALSE
