SPECIFICATION Spec
CONSTANTS
    alice = alice
    bob = bob
    op = op
    ak = ak
    bk = bk
    x = x
    y = y
    Submissions <- MCSubmissions
    OperatorMessages <- MCOperatorMessages
    Generated <- MCGenerated
    Opening = 1
    MaxBatch = 2
    MaxNonces = 3
    MaxAccounts = 2
    MaxPairings = 2
    MaxGenerated = 0
    MaxPending = 3
    PageLimit = 2
    RefusalLimit = 3
    MaxTrouble = 2
    MarkBudget = 1
    MaxFaults = 2
CHECK_DEADLOCK FALSE
INVARIANT NoEvidenceAgainstHonestFeed
INVARIANT ListedOnceUnderItsKey
PROPERTY ImplementsSubmissionLog
INVARIANT DiskIsTheTruth
INVARIANT EveryoneUnderTheirKey
