SPECIFICATION Spec
CONSTANTS
    Funds = {}
    AccountDeploys = {}
    CounterDeploys = {d1}
    Invokes = {}
    Proves = {}
    Cycles = {c1, c2}
    Submits = {}
    Sequential = FALSE
    MaxBlock = 4
    MaxAttempts = 2
    MaxOther = 1
    None = None
INVARIANTS
    TypeOK
    CyclesUseDistinctReferences
PROPERTIES
    ReferenceAdvances
CHECK_DEADLOCK FALSE
