SPECIFICATION Spec
CONSTANTS
    alice = alice
    bob = bob
    coin = coin
    usd = usd
    eth = eth
    op = op
    nobody = nobody
    Accounts = {alice, bob}
    Assets = {coin, usd}
    btc = btc
    sol = sol
    intruder = intruder
    Symbols = {eth, btc, sol}
    BaseAsset <- MCBase
    QuoteAsset <- MCQuote
    Funding <- MCFunding
    IsFunded = TRUE
    UnitsPerTenth = 2
    MaxUnits = 6
    MaxInt = 5
    Forms <- MCForms
    References <- MCReferences
    Steps <- MCSteps
    Versions <- MCVersions
    Signers = {op, intruder}
    NoKey = nobody
    MaxActive = 2
    MaxPositions = 2
    MaxSymbols = 2
    MaxMessages = 7
SYMMETRY NameSymmetry
CHECK_DEADLOCK FALSE
PROPERTY RefusalLeavesNoTrace
INVARIANT WhatIsAdmittedFits
INVARIANT FundsFollowOrders
INVARIANT BooksAreSound
