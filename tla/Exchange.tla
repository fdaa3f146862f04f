------------------------------ MODULE Exchange ------------------------------
(***************************************************************************)
(* The exchange of src/services/src/matcher.rs: a deterministic machine    *)
(* that consumes the sequencer's log one message at a time.  Each action   *)
(* is one message handled whole, from the identity check of apply_inner    *)
(* to the ledger's finished sequence.                                      *)
(*                                                                         *)
(* A message is a choice of the environment.  Its identity is always the   *)
(* next expected one: apply_inner answers any other with an error and      *)
(* changes nothing.  The reference price of a market order is a choice as  *)
(* well: it stands for whatever the price window would answer.             *)
(***************************************************************************)
EXTENDS SpotLedger, Positions, OrderBook

CONSTANTS
    Forms,          \* the terms an order may have: [side, limit, qty, market, tif, postOnly]
    References,     \* the reference prices a market order may meet
    Steps,          \* the [price, qty] steps a listing may name; 0 is off the grid
    Versions,       \* the rule sets a message may name
    Signers,        \* the keys an operator message may be signed with
    NoKey,          \* no key has been named yet
    MaxActive,      \* resource limits: orders resting at once,
    MaxPositions,   \*                  rows of positions,
    MaxSymbols,     \*                  symbols ever listed
    MaxMessages     \* bound on the length of the log

KnownVersions == {1, 2}

ASSUME ExchangeInputs ==
    /\ Forms \subseteq [side : Sides, limit : Nat \ {0}, qty : Nat \ {0},
                        market : BOOLEAN, tif : {"GTC", "IOC", "FOK"}, postOnly : BOOLEAN]
    /\ References \subseteq Nat
    /\ Steps \subseteq [price : Nat, qty : Nat]
    /\ NoKey \notin Signers
    /\ {MaxActive, MaxPositions, MaxSymbols} \subseteq Nat \ {0}
    /\ MaxMessages \in Nat

VARIABLES
    lastSeen,       \* last_seen
    books,          \* the books that exist: symbol -> book
    openOrders,     \* the index by order id: id -> [symbol, side, price]
    positions,      \* <<account, symbol>> -> position
    ledger,         \* the funded ledger
    trades,         \* every trade of the log, oldest first
    listings,       \* every symbol ever listed -> [price, qty, listed, listedBy]
    rules,          \* the rule set in force
    operatorKey,    \* the key the log named, or NoKey
    rows,           \* the open_orders table the recorded changes build
    panicked        \* an `expect` or an assertion of the matcher failed

market == <<books, openOrders, positions, trades, rows>>
governance == <<listings, rules, operatorKey>>
vars == <<lastSeen, market, ledger, governance, panicked>>

EmptyMap == [x \in {} |-> {}]

Init ==
    /\ lastSeen = 0
    /\ books = EmptyMap
    /\ openOrders = EmptyMap
    /\ positions = EmptyMap
    /\ ledger = FundedLedger
    /\ trades = <<>>
    /\ listings = EmptyMap
    /\ rules = 1
    /\ operatorKey = NoKey
    /\ rows = EmptyMap
    /\ panicked = FALSE

-----------------------------------------------------------------------------
(* Reading the state. *)

BookOf(symbol) == IF symbol \in DOMAIN books THEN books[symbol] ELSE EmptyBook

Listed(symbol) == symbol \in DOMAIN listings /\ listings[symbol].listed

OnSteps(symbol, limit, qty) ==
    /\ limit % listings[symbol].price = 0
    /\ qty % listings[symbol].qty = 0

PositionIn(held, key) == IF key \in DOMAIN held THEN held[key] ELSE Flat

\* A slip the runs must notice: a refused order leaves the book it created.
KeepBook(map, symbol) == map

\* prune_book: a book nobody waits in leaves the map.
PruneBook(map, symbol) ==
    IF symbol \in DOMAIN map /\ IsEmptyBook(map[symbol]) THEN Without(map, {symbol}) ELSE map

-----------------------------------------------------------------------------
(* One fill: its two position legs, the maker's first. *)

TakerAtFill(o, held, f) ==
    TakerBefore(PositionIn(held, <<f.account, o.symbol>>),
                PositionIn(held, <<o.account, o.symbol>>),
                f.account = o.account, Facing(o.side), f.qty, f.price)

\* A slip the runs must notice: the taker's side of the fill is not checked.
FillFitsMaker(o, held, f) ==
    CanFill(PositionIn(held, <<f.account, o.symbol>>), Facing(o.side), f.qty, f.price)

FillFits(o, held, f) ==
    /\ CanFill(PositionIn(held, <<f.account, o.symbol>>), Facing(o.side), f.qty, f.price)
    /\ CanFill(TakerAtFill(o, held, f), o.side, f.qty, f.price)

\* A slip the runs must notice: the taker's leg is computed from the position
\* read before the maker's leg was booked.
BookLegsAtOnce(o, held, f) ==
    Put(Put(held, <<f.account, o.symbol>>,
            AfterFill(PositionIn(held, <<f.account, o.symbol>>), Facing(o.side), f.qty, f.price)),
        <<o.account, o.symbol>>,
        AfterFill(PositionIn(held, <<o.account, o.symbol>>), o.side, f.qty, f.price))

BookLegs(o, held, f) ==
    Put(Put(held, <<f.account, o.symbol>>,
            AfterFill(PositionIn(held, <<f.account, o.symbol>>), Facing(o.side), f.qty, f.price)),
        <<o.account, o.symbol>>,
        AfterFill(TakerAtFill(o, held, f), o.side, f.qty, f.price))

-----------------------------------------------------------------------------
(* Admission.  `o` carries the bounded limit, `arrived` the one it came    *)
(* with.  Steps 1 and 2 and the order capacity refuse before a book is     *)
(* created; everything after that prunes on its way out.                   *)

AdmittedEarly(arrived) ==
    /\ Listed(arrived.symbol)
    /\ OnSteps(arrived.symbol, arrived.limit, arrived.qty)
    /\ Cardinality(DOMAIN openOrders) < MaxActive
    /\ OrderTypeServed(arrived, BookOf(arrived.symbol))

\* A slip the runs must notice: only the arriving account's row is counted.
OwnPositionRowFits(o) ==
    (PlanFills(BookOf(o.symbol), o) # <<>> /\ <<o.account, o.symbol>> \notin DOMAIN positions)
        => Cardinality(DOMAIN positions) < MaxPositions

\* check_positions: the rows this order's fills would add, counted once each.
PositionRowsFit(o) ==
    LET plan  == PlanFills(BookOf(o.symbol), o)
        touch == UNION {{<<o.account, o.symbol>>, <<plan[i].account, o.symbol>>} :
                           i \in DOMAIN plan}
        added == touch \ DOMAIN positions
    IN  added # {} => Cardinality(DOMAIN positions) + Cardinality(added) <= MaxPositions

ReservedFor(o) == AfterReserve(ledger, o.id, o.account, o.symbol, o.side, o.limit, o.qty)

\* The whole plan on private copies: positions and ledger after each fill,
\* up to the first one that does not fit.
StageFill(o, s, f) ==
    IF /\ s.fits
       /\ FillFits(o, s.positions, f)
       /\ CanSettle(s.ledger, f.maker, o.id, f.price, f.qty)
    THEN [s EXCEPT !.positions = BookLegs(o, @, f),
                   !.ledger = AfterSettle(@, f.maker, o.id, f.price, f.qty)]
    ELSE [s EXCEPT !.fits = FALSE]

StagePlan(o, s, plan) == FoldLeft(LAMBDA staged, f : StageFill(o, staged, f), s, plan)

Staged(o) ==
    StagePlan(o, [positions |-> positions, ledger |-> ReservedFor(o), fits |-> TRUE],
              PlanFills(BookOf(o.symbol), o))

\* A slip the runs must notice: a fill-or-kill order runs like any other.
NeverStaged(o) == FALSE

IsStaged(o) == o.tif = "FOK"

\* A slip the runs must notice: the preflight looks at the reservation only.
FundsFit(o) ==
    /\ IsStaged(o) => SumOf(PlanFills(BookOf(o.symbol), o)) = o.qty
    /\ CanReserve(ledger, o.id, o.account, o.symbol, o.side, o.limit, o.qty)

\* stage_fok and stage_fok_ledger for a fill-or-kill order, the funded
\* preflight for any other; a synthetic run checks nothing for the latter.
FundsAndPlanFit(o) ==
    /\ IsStaged(o) => SumOf(PlanFills(BookOf(o.symbol), o)) = o.qty
    /\ IsStaged(o) \/ IsFunded =>
          /\ CanReserve(ledger, o.id, o.account, o.symbol, o.side, o.limit, o.qty)
          /\ Staged(o).fits

AdmittedLate(o, arrived, reference) ==
    /\ PriceBounded(arrived, reference)
    /\ SelfTradeChecked(o, BookOf(o.symbol), rules)
    /\ PositionRowsFit(o)
    /\ FundsAndPlanFit(o)

-----------------------------------------------------------------------------
(* Execution: fills are committed one by one on                            *)
(*   [book, ledger, positions, openOrders, rows, trades, left, stop].      *)

TradeOf(o, f) ==
    [symbol |-> o.symbol, price |-> f.price, qty |-> f.qty,
     maker |-> f.maker, makerAccount |-> f.account,
     taker |-> o.id, takerAccount |-> o.account, side |-> o.side]

\* A slip the runs must notice: a maker's smaller quantity is not recorded.
CommitFillUnrecorded(o, e, f) ==
    LET left == Head(e.book[Facing(o.side)][f.price]).qty - f.qty
    IN  [e EXCEPT !.book       = AfterTaking(@, o, f),
                  !.openOrders = IF left = 0 THEN Without(@, {f.maker}) ELSE @,
                  !.rows       = IF left = 0 THEN Without(@, {f.maker}) ELSE @,
                  !.positions  = BookLegs(o, @, f),
                  !.trades     = Append(@, TradeOf(o, f)),
                  !.left       = @ - f.qty]

\* commit_fill
CommitFill(o, e, f) ==
    LET left == Head(e.book[Facing(o.side)][f.price]).qty - f.qty
    IN  [e EXCEPT !.book       = AfterTaking(@, o, f),
                  !.openOrders = IF left = 0 THEN Without(@, {f.maker}) ELSE @,
                  !.rows       = IF left = 0 THEN Without(@, {f.maker})
                                 ELSE [@ EXCEPT ![f.maker].qty = left],
                  !.positions  = BookLegs(o, @, f),
                  !.trades     = Append(@, TradeOf(o, f)),
                  !.left       = @ - f.qty]

\* A slip the runs must notice: a fill is committed without being settled.
ExecuteUnsettled(o, e, f) ==
    IF ~FillFits(o, e.positions, f) THEN [e EXCEPT !.stop = "overflow"]
    ELSE CommitFill(o, e, f)

\* One turn of the loop of `execute`, and the fill it takes, if there is one.
ExecuteFill(o, e, f) ==
    IF ~FillFits(o, e.positions, f) THEN [e EXCEPT !.stop = "overflow"]
    ELSE IF ~CanSettle(e.ledger, f.maker, o.id, f.price, f.qty) THEN [e EXCEPT !.stop = "panic"]
    ELSE CommitFill(o, [e EXCEPT !.ledger = AfterSettle(@, f.maker, o.id, f.price, f.qty)], f)

ExecuteNext(o, e) ==
    IF e.stop # "no" \/ e.left = 0 \/ ~HasNextFill(e.book, o) THEN e
    ELSE ExecuteFill(o, e, NextFill(e.book, o, e.left))

\* One turn of the loop of `execute_fok`: the plan's fill, with the
\* assertion of commit_fill that the book still shows the planned maker.
ExecutePlanned(o, e, f) ==
    IF e.stop # "no" THEN e
    ELSE IF ~HasNextFill(e.book, o) \/ NextFill(e.book, o, f.qty) # f
         THEN [e EXCEPT !.stop = "panic"]
    ELSE CommitFill(o, e, f)

\* execute: every fill takes a tenth at least, so as many turns as the order
\* has tenths are enough.
ExecuteTurns(o, e, turns) ==
    FoldLeft(LAMBDA now, turn : ExecuteNext(o, now), e, [turn \in 1..turns |-> turn])

\* execute_fok
ExecutePlan(o, e, plan) == FoldLeft(LAMBDA now, f : ExecutePlanned(o, now, f), e, plan)

Starting(o, l) ==
    [book |-> BookOf(o.symbol), ledger |-> l, positions |-> positions,
     openOrders |-> openOrders, rows |-> rows, trades |-> trades,
     left |-> o.qty, stop |-> "no"]

Execution(o) ==
    IF IsStaged(o)
    THEN ExecutePlan(o, Starting(o, Staged(o).ledger), PlanFills(BookOf(o.symbol), o))
    ELSE ExecuteTurns(o, Starting(o, ReservedFor(o)), o.qty)

RestingRemainder(o, e) ==
    [e EXCEPT
        !.book       = AfterResting(@, o, e.left),
        !.openOrders = Put(@, o.id, [symbol |-> o.symbol, side |-> o.side,
                                     price |-> o.limit]),
        !.rows       = Put(@, o.id, [account |-> o.account, symbol |-> o.symbol,
                                     side |-> o.side, price |-> o.limit,
                                     qty |-> e.left])]

\* A slip the runs must notice: what an overflow stopped rests all the same.
AfterStoppedRemainder(o, e) ==
    IF Rests(o, e.left) THEN RestingRemainder(o, e)
    ELSE IF e.left = 0 \/ e.stop = "panic" THEN e
    ELSE [e EXCEPT !.ledger = AfterRelease(@, o.id)]

\* A slip the runs must notice: a remainder that does not rest keeps its units.
AfterUnreleasedRemainder(o, e) ==
    IF e.stop = "no" /\ Rests(o, e.left) THEN RestingRemainder(o, e) ELSE e

\* Step 6: what is left rests, or gives its reservation back.
AfterRemainder(o, e) ==
    IF e.stop = "no" /\ Rests(o, e.left)
    THEN RestingRemainder(o, e)
    ELSE IF e.left = 0 \/ e.stop = "panic" THEN e
    ELSE IF ~CanRelease(e.ledger, o.id) THEN [e EXCEPT !.stop = "panic"]
    ELSE [e EXCEPT !.ledger = AfterRelease(@, o.id)]

-----------------------------------------------------------------------------
(* The end of apply_inner: the message counts as consumed. *)

\* next_expected_id
NextId == lastSeen + 1
Running == ~panicked /\ lastSeen < MaxMessages

Consumed(l) ==
    IF CanFinish(l, NextId)
    THEN ledger' = AfterFinish(l, NextId) /\ lastSeen' = NextId /\ panicked' = FALSE
    ELSE panicked' = TRUE /\ UNCHANGED <<ledger, lastSeen>>

\* An `expect` failed: the process is gone.
Panic == panicked' = TRUE /\ UNCHANGED <<lastSeen, market, ledger, governance>>

-----------------------------------------------------------------------------
(* New *)

Arrived(account, symbol, form) ==
    [id |-> NextId, account |-> account, symbol |-> symbol, side |-> form.side,
     limit |-> form.limit, qty |-> form.qty, market |-> form.market,
     tif |-> form.tif, postOnly |-> form.postOnly]

Bounded(arrived, reference) ==
    [arrived EXCEPT !.limit = BoundedLimit(arrived, reference)]

\* Refused before the book exists.
RefuseEarly(arrived) ==
    /\ Running
    /\ ~AdmittedEarly(arrived)
    /\ Consumed(ledger)
    /\ UNCHANGED <<market, governance>>

\* Refused with the book created, and dropped again if it is empty.
RefuseLate(arrived, reference) ==
    /\ Running
    /\ AdmittedEarly(arrived)
    /\ ~AdmittedLate(Bounded(arrived, reference), arrived, reference)
    /\ books' = PruneBook(Put(books, arrived.symbol, BookOf(arrived.symbol)), arrived.symbol)
    /\ Consumed(ledger)
    /\ UNCHANGED <<openOrders, positions, trades, rows, governance>>

ApplyNew(arrived, reference) ==
    LET o == Bounded(arrived, reference)
    IN  /\ Running
        /\ AdmittedEarly(arrived)
        /\ AdmittedLate(o, arrived, reference)
        /\ \E e \in {AfterRemainder(o, Execution(o))} :
              IF e.stop = "panic" THEN Panic
              ELSE /\ books' = PruneBook(Put(books, o.symbol, e.book), o.symbol)
                   /\ openOrders' = e.openOrders
                   /\ positions' = e.positions
                   /\ trades' = e.trades
                   /\ rows' = e.rows
                   /\ Consumed(e.ledger)
                   /\ UNCHANGED governance

New(arrived, reference) ==
    \/ RefuseEarly(arrived)
    \/ RefuseLate(arrived, reference)
    \/ ApplyNew(arrived, reference)

-----------------------------------------------------------------------------
(* Cancel *)

\* The order the index and the book both know.
FoundInBook(target) ==
    LET ref == openOrders[target]
    IN  /\ target \in DOMAIN openOrders
        /\ ref.symbol \in DOMAIN books
        /\ ref.price \in DOMAIN books[ref.symbol][ref.side]
        /\ \E r \in ToSet(books[ref.symbol][ref.side][ref.price]) : r.id = target

OwnerOf(target) ==
    LET ref == openOrders[target]
    IN  (CHOOSE r \in ToSet(books[ref.symbol][ref.side][ref.price]) : r.id = target).account

IgnoreCancel(account, target) ==
    /\ Running
    /\ ~FoundInBook(target)
    /\ openOrders' = Without(openOrders, {target})
    /\ Consumed(ledger)
    /\ UNCHANGED <<books, positions, trades, rows, governance>>

RefuseCancel(account, target) ==
    /\ Running
    /\ FoundInBook(target)
    /\ OwnerOf(target) # account
    /\ Consumed(ledger)
    /\ UNCHANGED <<market, governance>>

ApplyCancel(account, target) ==
    LET ref == openOrders[target]
    IN  /\ Running
        /\ FoundInBook(target)
        /\ OwnerOf(target) = account
        /\ IF ~CanRelease(ledger, target) THEN Panic
           ELSE /\ openOrders' = Without(openOrders, {target})
                /\ books' = PruneBook([books EXCEPT ![ref.symbol] =
                                          AfterRemoving(@, ref, target)], ref.symbol)
                /\ rows' = Without(rows, {target})
                /\ Consumed(AfterRelease(ledger, target))
                /\ UNCHANGED <<positions, trades, governance>>

-----------------------------------------------------------------------------
(* Operator messages.  The first well signed one names the log's key, and  *)
(* it does so even when what it asks for is then refused.                  *)

OperatorSigned(signer) == operatorKey \in {NoKey, signer}
KeyAfter(signer) == IF operatorKey = NoKey THEN signer ELSE operatorKey

IgnoreOperator(signer) ==
    /\ Running
    /\ ~OperatorSigned(signer)
    /\ Consumed(ledger)
    /\ UNCHANGED <<market, governance>>

\* A slip the runs must notice: a listed symbol is listed again on other steps.
ListingServedAgain(symbol, step) ==
    /\ symbol \notin DOMAIN listings => Cardinality(DOMAIN listings) < MaxSymbols
    /\ step.price > 0
    /\ step.qty > 0

ListingServed(symbol, step) ==
    /\ symbol \notin DOMAIN listings => Cardinality(DOMAIN listings) < MaxSymbols
    /\ step.price > 0
    /\ step.qty > 0
    /\ ~Listed(symbol)

ApplyListSymbol(signer, symbol, step) ==
    /\ Running
    /\ OperatorSigned(signer)
    /\ operatorKey' = KeyAfter(signer)
    /\ listings' = IF ListingServed(symbol, step)
                   THEN Put(listings, symbol, [price |-> step.price, qty |-> step.qty,
                                               listed |-> TRUE, listedBy |-> NextId])
                   ELSE listings
    /\ Consumed(ledger)
    /\ UNCHANGED <<market, rules>>

\* Every order of the symbol gives back its reservation and is closed.
ReleaseAll(l, ids) == FoldSet(LAMBDA id, acc : AfterRelease(acc, id), l, ids)

ApplyDelistSymbol(signer, symbol) ==
    LET closed == {r.id : r \in OrdersIn(BookOf(symbol))}
    IN  /\ Running
        /\ OperatorSigned(signer)
        /\ Listed(symbol)
        /\ operatorKey' = KeyAfter(signer)
        /\ listings' = [listings EXCEPT ![symbol].listed = FALSE]
        /\ books' = Without(books, {symbol})
        /\ openOrders' = Without(openOrders, closed)
        /\ rows' = Without(rows, closed)
        /\ IF \A done \in SUBSET closed : \A id \in closed \ done :
                 CanRelease(ReleaseAll(ledger, done), id)
           THEN Consumed(ReleaseAll(ledger, closed))
           ELSE panicked' = TRUE /\ UNCHANGED <<lastSeen, ledger>>
        /\ UNCHANGED <<positions, trades, rules>>

RefuseDelistSymbol(signer, symbol) ==
    /\ Running
    /\ OperatorSigned(signer)
    /\ ~Listed(symbol)
    /\ operatorKey' = KeyAfter(signer)
    /\ Consumed(ledger)
    /\ UNCHANGED <<market, listings, rules>>

\* An unknown rule set is counted and changes no rule.
ApplyEngineRule(signer, version) ==
    /\ Running
    /\ OperatorSigned(signer)
    /\ operatorKey' = KeyAfter(signer)
    /\ rules' = IF version \in KnownVersions THEN version ELSE rules
    /\ Consumed(ledger)
    /\ UNCHANGED <<market, listings>>

-----------------------------------------------------------------------------
ReferencesFor(form) == IF form.market THEN References ELSE {NoReference}

Next ==
    \/ \E account \in Accounts, symbol \in Symbols, form \in Forms :
          \E reference \in ReferencesFor(form) :
             New(Arrived(account, symbol, form), reference)
    \/ \E account \in Accounts, target \in 1..lastSeen :
          \/ IgnoreCancel(account, target)
          \/ RefuseCancel(account, target)
          \/ ApplyCancel(account, target)
    \/ \E signer \in Signers :
          \/ IgnoreOperator(signer)
          \/ \E symbol \in Symbols, step \in Steps : ApplyListSymbol(signer, symbol, step)
          \/ \E symbol \in Symbols :
                \/ ApplyDelistSymbol(signer, symbol)
                \/ RefuseDelistSymbol(signer, symbol)
          \/ \E version \in Versions : ApplyEngineRule(signer, version)

Spec == Init /\ [][Next]_vars
=============================================================================
