CONSTANTS
    receipt = receipt
    refund = refund
    shirt = shirt
    loop = loop
    button = button
    Sales <- OneSale
    Products <- OneProduct
    Pushers <- LoopAndButton
    BatchSize = 2
    MaxRows = 3
    MaxLate = 1
    MaxMishaps = 0
SPECIFICATION FairSpec
INVARIANTS
    AbandonedIsDelivered

    
CHECK_DEADLOCK FALSE
