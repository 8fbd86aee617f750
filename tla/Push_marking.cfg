CONSTANTS
    receipt = receipt
    refund = refund
    shirt = shirt
    loop = loop
    button = button
    Sales <- OneSale
    Products <- None
    Pushers <- Loop
    BatchSize = 2
    MaxRows = 2
    MaxLate = 0
    MaxMishaps = 0
SPECIFICATION Spec
PROPERTIES
    AnsweredIsSynced
CHECK_DEADLOCK FALSE
