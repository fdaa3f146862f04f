SPECIFICATION FairSpec
CONSTANTS
    alice = alice
    bob = bob
    op = op
    ak = ak
    bk = bk
    x = x
    y = y
    Submissions <- MCFirstSession
    OperatorMessages <- MCOpenings
    Generated <- MCGenerated
    Opening = 1
    MaxBatch = 2
    MaxNonces = 3
    MaxAccounts = 2
    MaxPairings = 2
    MaxGenerated = 1
    MaxPending = 3
    PageLimit = 1
    RefusalLimit = 3
    MaxTrouble = 4
    MarkBudget = 1
    MaxFaults = 1
CHECK_DEADLOCK FALSE
PROPERTY AcceptedIsConfirmed
