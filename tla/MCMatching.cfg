SPECIFICATION SpecChecked
CONSTANTS
    alice = alice
    bob = bob
    gold = gold
    eth = eth
    op = op
    eve = eve
    nobody = nobody
    Accounts = {alice, bob}
    Assets = {gold}
    Symbols = {eth}
    BaseAsset <- MCNoMarket
    QuoteAsset <- MCNoMarket
    Funding <- MCNoFunding
    IsFunded = FALSE
    UnitsPerTenth = 1
    MaxUnits = 1
    MaxInt = 6
    Forms <- MCForms
    References <- MCReferences
    Steps <- MCSteps
    Versions <- MCVersions
    Signers = {op, eve}
    NoKey = nobody
    MaxActive = 9
    MaxPositions = 9
    MaxSymbols = 9
    MaxMessages = 6
    Unnamed = nobody
    RowPrices = {1, 2}
    RowQuantities = {1, 2}
    TamperedAfter = {3}
SYMMETRY NameSymmetry
CHECK_DEADLOCK FALSE
INVARIANT NeverCrossed
INVARIANT RestartRebuildsState
PROPERTY PriceTimePriority
PROPERTY OrdersGetTheirTerms
INVARIANT CheckerIsRight
INVARIANT PositionsAddUp
