SPECIFICATION Spec
CONSTANTS
    None = None
    gowns = gowns
    phone = phone
    Seed = 10
    Cap = 9223
    Words <- OneWord
    Codes <- TwoCodes
    Barcodes <- TwoBarcodes
    Phones <- OnePhone
    MaxProducts = 4
    MaxCustomers = 2
    MaxSuppliers = 1
    MaxRows = 2
CONSTRAINT Small
INVARIANTS
    TypeOK
    OneMisreadDigitFindsNoOther
PROPERTIES
    NothingSlips
CHECK_DEADLOCK FALSE
