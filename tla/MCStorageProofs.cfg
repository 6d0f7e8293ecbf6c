SPECIFICATION Spec
CONSTANTS
    Height = 2
    Classes = {1}
    Contracts = {1, 2}
    Keys = {0, 2}
    StorageTrie <- MCStorageTrie
    MaxKeys = 2
    Faults = {"no leaf", "no storage"}
    MaxBranch = 1
    None = None
INVARIANTS
    RequestsFit
    ChunksMakeUpQuery
    MergedIsWhole
    LeavesBelongToAddresses
    FactsAreSound
CHECK_DEADLOCK FALSE
