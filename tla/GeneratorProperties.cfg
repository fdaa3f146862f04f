\* One market with room for seven steps, one account that quotes, one that takes
\* and one that is not the generator's; ticks of up to two messages, six in all,
\* one of them of a user, at a price on the step or below half of the lowest; one
\* lost write or restart.
SPECIFICATION Spec
CONSTANTS
    Symbols = {"m"}
    Quoters = {q}
    Takers = {t}
    Users = {u}
    Listed = 16
    Step = 4
    MaxPrice = 28
    Band = 1
    Widths = {1}
    Quantities = {1, 2}
    WalkSteps = 2
    StepCosts = 1
    TakeEvery = 2
    CancelsInARow = 1
    MostAtALevel = 1
    SideNeeds = 1
    MaxOpen = 4
    MaxBurst = 2
    MaxLog = 6
    UserPrices = {1, 12}
    MaxUser = 1
    MaxFaults = 1
    UserQuantities = {1}
CHECK_DEADLOCK FALSE
INVARIANT ListIsTheBooks
INVARIANT NeverItsOwnCounterparty
INVARIANT TakesBackItsOwn
