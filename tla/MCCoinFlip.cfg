SPECIFICATION FairSpec
CONSTANTS
    ada = ada
    bob = bob
    Deployers = {d1}
    Sids = {s1, s2}
    Plays = {p1, p2}
    Players = {ada, bob}
    Nonces = {n1}
    QueryBets = {2}
    CoinOf <- MCCoinOf
    MaxBlock = 2
    HashBuffer = 1
    MaxAttempts = 2
    MaxOther = 1
    None = None
INVARIANTS
    TypeOK
    OneTaskPerCommitment
    TaskPlaysThePledge
    ReadsItsOwnProof
    ResultIsOnChain
PROPERTIES
    ImplementsCommitReveal
    TasksEnd
CHECK_DEADLOCK FALSE
