\* Two markets that share an asset; two accounts, one of which holds three assets.
SPECIFICATION Spec
CONSTANTS
    alice = alice
    bob = bob
    usd = usd
    btc = btc
    eth = eth
    Accounts <- MCAccounts
    Assets <- MCAssets
    Symbols <- MCSymbols
    BaseAsset <- MCBase
    QuoteAsset <- MCQuote
    Funding <- MCFunding
    IsFunded = TRUE
    UnitsPerTenth = 1
    MaxUnits = 5
    Limits = {0, 1, 2, 3}
    Quantities = {1, 2, 3}
    MaxSequence = 3
INVARIANTS
    LedgerTypeOK
    SnapshotAlwaysAccepted
    BackingIsThere
PROPERTIES
    ValueOnlyMoves
    ObligationsOnlyShrink
CHECK_DEADLOCK FALSE
