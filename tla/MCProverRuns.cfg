SPECIFICATION FairSpec
CONSTANTS
    Scripts = {s1}
    SessionOf <- MCSessionOf
    Artifacts = {a1}
    Envs <- MCEnvs
    MaxTries = 2
    PipeSize = 1
    ChanSize = 1
    None = None
    Bad = Bad
INVARIANTS
    TypeOK
    NoStrayRunner
    OutcomeFitsSession
    RunnerObeysItsCaller
    OriginsAreNormal
PROPERTIES
    OutcomeIsLast
    RunsEnd
CHECK_DEADLOCK FALSE
