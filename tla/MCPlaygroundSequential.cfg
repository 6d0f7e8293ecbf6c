SPECIFICATION Spec
CONSTANTS
    Funds = {f1}
    AccountDeploys = {}
    CounterDeploys = {d1, d2}
    Invokes = {}
    Proves = {}
    Cycles = {c1, c2}
    Submits = {}
    Sequential = TRUE
    MaxBlock = 4
    MaxAttempts = 2
    MaxOther = 0
    None = None
INVARIANTS
    SubmitsWhatItProved
    ReferenceCoversContract
CHECK_DEADLOCK FALSE
