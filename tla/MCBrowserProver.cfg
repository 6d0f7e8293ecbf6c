SPECIFICATION FairSpec
CONSTANTS
    c1 = c1
    c2 = c2
    Calls = {c1, c2}
    Inputs <- MCInputs
    MaxHead = 1
    AmountBits = 2
    PriceBits = 4
    None = None
INVARIANTS
    TypeOK
    NothingOutlivesItsCall
    RequestsEndOnTheirOwn
    BundleIsOfItsBlock
    CoreLoadsOnce
    HashBindsTransaction
PROPERTIES
    CallsSettle
    WorkersEnd
CHECK_DEADLOCK FALSE
