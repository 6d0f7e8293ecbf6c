SPECIFICATION FairSpec
CONSTANTS
    Requests = {r1, r2}
    MaxConcurrent = 1
    ValidateFees = TRUE
    Prefetch = TRUE
    Txs <- MCTxs
    Latest = Latest
    Pending = Pending
    MaxBlock = 2
    None = None
INVARIANTS
    TypeOK
    PermitsConserved
    ProofIsOfItsBlock
PROPERTIES
    ImplementsAdmission
    PermitsReturn
    AdmittedAreAnswered
CHECK_DEADLOCK FALSE
