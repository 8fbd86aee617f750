SPECIFICATION Spec
CONSTANTS
    None = None
    sale = sale
    Sales <- OneSale
    Found <- AllVersions
    Keep = 2
    MaxBackups = 4
INVARIANTS
    TypeOK
    
PROPERTIES
    NothingVanishes
    
CHECK_DEADLOCK FALSE
