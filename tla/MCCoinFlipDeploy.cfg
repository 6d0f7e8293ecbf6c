SPECIFICATION Spec
CONSTANTS
    ada = ada
    bob = bob
    Deployers = {d1, d2}
    Sids = {s1}
    Plays = {p1}
    Players = {ada}
    Nonces = {n1}
    QueryBets = {1}
    CoinOf <- MCCoinOf
    MaxBlock = 2
    HashBuffer = 1
    MaxAttempts = 2
    MaxOther = 0
    None = None
INVARIANTS
    DeployIsIdempotent
CHECK_DEADLOCK FALSE
