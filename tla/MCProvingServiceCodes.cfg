SPECIFICATION Spec
CONSTANTS
    Requests = {r1}
    MaxConcurrent = 1
    ValidateFees = TRUE
    Prefetch = TRUE
    Txs <- MCTxs
    Latest = Latest
    Pending = Pending
    MaxBlock = 1
    None = None
INVARIANTS
    ErrorCodesAsDocumented
CHECK_DEADLOCK FALSE
