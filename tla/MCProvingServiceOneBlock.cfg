SPECIFICATION Spec
CONSTANTS
    Requests = {r1}
    MaxConcurrent = 1
    ValidateFees = TRUE
    Prefetch = FALSE
    Txs <- MCRunnable
    Latest = Latest
    Pending = Pending
    MaxBlock = 1
    None = None
INVARIANTS
    ExecutesOnOneBlock
CHECK_DEADLOCK FALSE
