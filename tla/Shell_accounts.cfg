SPECIFICATION Spec
CONSTANTS
    None = None
    one = one
    two = two
    amina = amina
    bello = bello
    usb = usb
    Copies <- TwoCopies
    Admin = admin
    Cashiers <- BothCashiers
    Seeded <- OneSeeded
    Printers <- OnePrinter
    EnvPrinter = None
    MaxRows = 5
    MaxLoops = 2
SYMMETRY Alike
CONSTRAINT Small
INVARIANTS
    TypeOK
    
    OneLoopGoesOn
CHECK_DEADLOCK FALSE
