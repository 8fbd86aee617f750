SPECIFICATION Spec
CONSTANTS
    None = None
    sale = sale
    Sales <- OneSale
    Found <- ThisVersion
    Keep = 1
    MaxBackups = 3
PROPERTIES
    RestoredIsTheBackup
CHECK_DEADLOCK FALSE
