CONSTANTS
    receipt = receipt
    refund = refund
    shirt = shirt
    loop = loop
    button = button
    Sales <- TwoSales
    Products <- None
    Pushers <- LoopAndButton
    BatchSize = 2
    MaxRows = 4
    MaxLate = 1
    MaxMishaps = 1
SPECIFICATION Spec
SYMMETRY Alike
INVARIANTS
    TypeOK
PROPERTIES
    ImplementsMirror
CHECK_DEADLOCK FALSE
