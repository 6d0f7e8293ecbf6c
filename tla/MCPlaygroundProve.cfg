SPECIFICATION Spec
CONSTANTS
    Funds = {}
    AccountDeploys = {a1}
    CounterDeploys = {d1}
    Invokes = {i1, i2}
    Proves = {p1}
    Cycles = {}
    Submits = {u1}
    Sequential = FALSE
    MaxBlock = 4
    MaxAttempts = 1
    MaxOther = 0
    None = None
INVARIANTS
    InvokeBlockIsReal
PROPERTIES
    NoLostUpdate
CHECK_DEADLOCK FALSE
