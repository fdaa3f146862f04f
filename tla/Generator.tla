------------------------------ MODULE Generator ------------------------------
(***************************************************************************)
(* The sequencer's simulated market (src/services/src/feed/generate.rs):   *)
(* accounts that quote behind the best price, accounts that take the best  *)
(* resting order, and a list of the orders it believes to rest.  It reads  *)
(* no book: the list is all it knows of the exchange.                      *)
(*                                                                         *)
(* A tick generates a burst under one lock and writes it in one            *)
(* transaction; `burst` is what is generated and not yet written.  What a  *)
(* start would read back out of the stored messages is kept as the fold    *)
(* over them, `stored`.  An order's random life is a choice of the moment  *)
(* at which it is the first to be due.  The exchange's books are applied   *)
(* under the rules on self-trades in force from rule set 2.                *)
(***************************************************************************)
EXTENDS OrderBook

CONSTANTS
    Symbols,        \* SYMBOLS
    Quoters, Takers,    \* the accounts below and from quoting_accounts on
    Users,          \* accounts that are not the generator's
    Listed,         \* the price every market is listed at
    Step,           \* price_step, in cents
    MaxPrice,       \* MAX_GRID_UNITS
    Band,           \* PATIENCE_BANDS: the widest, for every account
    Widths,         \* PLACEMENT_WIDTH, by activity state
    Quantities,
    WalkSteps,      \* MOST_STEPS_FROM_THE_TOUCH
    StepCosts,      \* ORDERS_A_FREE_STEP_COSTS
    TakeEvery, CancelsInARow, MostAtALevel,
    SideNeeds,      \* TAKE_NEEDS_A_SIDE_OF
    MaxOpen,        \* MAX_OPEN_ORDERS
    MaxBurst,       \* bound: messages of one tick
    MaxLog,         \* bound: messages published
    UserPrices, UserQuantities,     \* bound: what a user's order names
    MaxUser, MaxFaults  \* bounds: messages of users; lost writes and restarts

ASSUME GeneratorInputs ==
    /\ IsFiniteSet(Symbols) /\ Symbols # {}
    /\ Quoters # {} /\ Quoters \cap Takers = {} /\ Users \cap (Quoters \cup Takers) = {}
    /\ {Step, MaxPrice, Listed, TakeEvery, SideNeeds, MaxOpen, WalkSteps, StepCosts,
        MostAtALevel, CancelsInARow, Band} \subseteq Nat \ {0}
    /\ Widths \cup Quantities \subseteq Nat \ {0}
    /\ Listed % Step = 0 /\ MaxPrice % Step = 0     \* SYMBOLS

VARIABLES
    open,           \* open_orders: [id, account, symbol, side, price, qty]
    sinceCrossing,  \* since_crossing, as far as TakeEvery
    crossings,      \* crossings, modulo the symbols
    cancels,        \* cancels_in_a_row
    mids,           \* mids: market -> the price it was last seen at
    burst,          \* the messages of this tick
    stored,         \* what a start reads back: [open, mids]
    authors,        \* who each published message is from, by id
    books,          \* the exchange's books after those messages
    faults,         \* the writes lost and the restarts so far
    seen            \* what has happened: {"user", "write", "taughtByUsers", "readBack", "selfTrade"}

generator == <<open, sinceCrossing, crossings, cancels, mids>>
published == <<stored, authors, books>>
vars == <<generator, burst, published, faults, seen>>

BothSides == {"buy", "sell"}
NextId == Len(authors) + Len(burst) + 1
AsListed == [s \in Symbols |-> Listed]

Init ==
    /\ open = {} /\ sinceCrossing = 0 /\ crossings = 0 /\ cancels = 0 /\ mids = AsListed
    /\ burst = <<>>
    /\ stored = [open |-> {}, mids |-> AsListed]
    /\ authors = <<>>
    /\ books = [s \in Symbols |-> EmptyBook]
    /\ faults = 0 /\ seen = {}

-----------------------------------------------------------------------------
(* Messages.  An order has the fields of OrderBook's.                        *)

OrderOf(id, account, symbol, side, price, qty, tif) ==
    [kind |-> "new", id |-> id, account |-> account, symbol |-> symbol, side |-> side,
     limit |-> price, qty |-> qty, market |-> FALSE, tif |-> tif, postOnly |-> FALSE]

CancelOf(id, account, target) ==
    [kind |-> "cancel", id |-> id, account |-> account, target |-> target]

-----------------------------------------------------------------------------
(* What the list says of the books.                                          *)

On(held, symbol, side) == {o \in held : o.symbol = symbol /\ o.side = side}

AtTheLevel(held, symbol, side, price) == {o \in On(held, symbol, side) : o.price = price}

\* best_cents, of a side that holds an order.
BestOn(symbol, side) ==
    LET prices == {o.price : o \in On(open, symbol, side)}
    IN  CHOOSE p \in prices : \A q \in prices : p = q \/ Better(Facing(side), p, q)

Oldest(orders) == CHOOSE o \in orders : \A other \in orders : o.id <= other.id

\* remember_the_price, and the price an empty side is quoted around.
Remembered(symbol) ==
    IF \A side \in BothSides : On(open, symbol, side) # {}
    THEN (BestOn(symbol, "buy") + BestOn(symbol, "sell")) \div 2
    ELSE mids[symbol]

Touch(symbol, side) ==
    IF On(open, symbol, side) # {} THEN BestOn(symbol, side) ELSE Remembered(symbol)

-----------------------------------------------------------------------------
(* Which message comes next.                                                 *)

Ticking == NextId <= MaxLog /\ Len(burst) < MaxBurst

AtTheBound == Cardinality(open) >= MaxOpen

\* A crossing order is due, and its market is the next in turn.
CrossingDue == sinceCrossing + 1 >= TakeEvery /\ Takers # {}

ChosenMarkets == IF CrossingDue THEN {SetToSeq(Symbols)[crossings + 1]} ELSE Symbols

\* the_best_level: the one order the exchange should fill first.
TakenOn(symbol, side) ==
    Oldest(AtTheLevel(open, symbol, Facing(side), BestOn(symbol, Facing(side))))

CanTake(symbol, side) ==
    /\ Cardinality(On(open, symbol, side)) >= SideNeeds
    /\ Cardinality(On(open, symbol, Facing(side))) - 1 >= SideNeeds

TakeIsDue(symbol) == CrossingDue /\ \E side \in BothSides : CanTake(symbol, side)

Generate(message) == burst' = Append(burst, message) /\ UNCHANGED <<published, faults>>

\* order_to_take_back: the order whose life ends first, or one too many.
TakeBack(o) ==
    /\ Ticking
    /\ AtTheBound \/ cancels < CancelsInARow
    /\ cancels' = IF cancels < CancelsInARow THEN cancels + 1 ELSE cancels
    /\ open' = open \ {o}
    /\ Generate(CancelOf(NextId, o.account, o.id))
    /\ UNCHANGED <<sinceCrossing, crossings, mids, seen>>

\* The crossing order names the price and the quantity of one resting order.
Take(account, symbol, side) ==
    LET taken == TakenOn(symbol, side)
    IN  /\ Ticking /\ ~AtTheBound
        /\ symbol \in ChosenMarkets /\ CrossingDue /\ CanTake(symbol, side)
        /\ mids' = [mids EXCEPT ![symbol] = Remembered(symbol)]
        /\ open' = open \ {taken}
        /\ crossings' = (crossings + 1) % Cardinality(Symbols)
        /\ sinceCrossing' = 0 /\ cancels' = 0
        /\ Generate(OrderOf(NextId, account, symbol, side, taken.price, taken.qty, "IOC"))
        /\ UNCHANGED seen

-----------------------------------------------------------------------------
(* A quote.                                                                  *)

LOCAL Clamped(n, low, high) == IF n < low THEN low ELSE IF n > high THEN high ELSE n

Highest == (MaxPrice \div Step) * Step

\* on_the_step: the nearest step, a half step up, inside the grid.
OnTheStep(price) ==
    Clamped(((2 * Clamped(price, 0, Highest) + Step) \div (2 * Step)) * Step, Step, Highest)

Behind(side, price, steps) ==
    OnTheStep(IF side = "buy" THEN price - steps * Step ELSE price + steps * Step)

\* a_free_step: behind the price drawn, the first price with room for an order,
\* unless the walk ends before it.
FreeStep(symbol, side, wanted, furthest, most) ==
    LET price(k) == Behind(side, wanted, k)
        next(k) == price(k + 1)
        stops(k) ==
            \/ k = most
            \/ Cardinality(AtTheLevel(open, symbol, side, price(k))) < MostAtALevel
            \/ next(k) = price(k)
            \/ IF side = "buy" THEN next(k) < furthest ELSE next(k) > furthest
    IN  price(CHOOSE k \in 0..most : stops(k) /\ \A j \in 0..(k - 1) : ~stops(j))

\* A slip the runs must notice: a quote may join its side's own best price.
QuotePriceAtTheTouch(symbol, side, width, steps) ==
    OnTheStep(Touch(symbol, Facing(side)))

QuotePrice(symbol, side, width, steps) ==
    LET touch == Touch(symbol, Facing(side))
        most == WalkSteps * width
        spend == Clamped(Cardinality(On(open, symbol, side)) \div StepCosts, 1, most)
    IN  FreeStep(symbol, side, Behind(side, touch, steps), Behind(side, touch, spend), most)

OwnInTheWay(account, symbol, side, price) ==
    {o \in On(open, symbol, Facing(side)) :
        o.account = account /\ Crosses(side, o.price, price)}

\* The message is to be a quote: no cancel, and not a crossing order either.
QuoteIsDue(symbol) ==
    /\ Ticking /\ ~AtTheBound
    /\ symbol \in ChosenMarkets /\ ~TakeIsDue(symbol)
    /\ mids' = [mids EXCEPT ![symbol] = Remembered(symbol)]
    /\ sinceCrossing' = Clamped(sinceCrossing + 1, 0, TakeEvery)
    /\ cancels' = 0
    /\ UNCHANGED <<crossings, seen>>

Quote(account, symbol, side, price, qty) ==
    /\ QuoteIsDue(symbol)
    /\ OwnInTheWay(account, symbol, side, price) = {}
    /\ open' = open \cup {[id |-> NextId, account |-> account, symbol |-> symbol,
                           side |-> side, price |-> price, qty |-> qty]}
    /\ Generate(OrderOf(NextId, account, symbol, side, price, qty, "GTC"))

\* Instead of a quote that would meet the account's own order o, o is cancelled:
\* of several whichever comes first in the list, which is in no order.
MakeWay(account, symbol, side, price, o) ==
    /\ QuoteIsDue(symbol)
    /\ o \in OwnInTheWay(account, symbol, side, price)
    /\ open' = open \ {o}
    /\ Generate(CancelOf(NextId, o.account, o.id))

-----------------------------------------------------------------------------
(* A message is published: the exchange applies it, a later start reads it.  *)

\* The book's part of the matching steps for a limit order.
Matched(book, o) ==
    LET plan == PlanFills(book, o)
        after == FoldLeft(LAMBDA b, fill : AfterTaking(b, o, fill), book, plan)
        left == o.qty - SumOf(plan)
    IN  IF Rests(o, left) THEN AfterResting(after, o, left) ELSE after

Cancelled(book, m) ==
    LET found == {o \in OrdersIn(book) : o.id = m.target /\ o.account = m.account}
    IN  FoldLeft(LAMBDA b, o : AfterRemoving(b, o, o.id), book, SetToSeq(found))

\* on_steps: the markets are listed on the steps the generator quotes on.
OnItsStep(m) == m.limit % Step = 0

IsSelfTrade(map, m) ==
    m.kind = "new" /\ OnItsStep(m) /\ OwnOrderInTheWay(m, map[m.symbol])

Applied(map, m) ==
    IF m.kind = "cancel" THEN [s \in Symbols |-> Cancelled(map[s], m)]
    ELSE IF ~OnItsStep(m) \/ IsSelfTrade(map, m) THEN map
    ELSE [map EXCEPT ![m.symbol] = Matched(@, m)]

\* A slip the runs must notice: the whole level is taken off.
ReadTakenLevel(held, m) == AtTheLevel(held, m.symbol, Facing(m.side), m.limit)

\* A crossing order read back: the level's oldest orders, up to its quantity.
ReadTaken(held, m) ==
    LET level == AtTheLevel(held, m.symbol, Facing(m.side), m.limit)
        before(o) == MapThenSumSet(LAMBDA p : p.qty, {p \in level : p.id < o.id})
    IN  {o \in level : before(o) < m.qty}

\* replay_into_the_open_orders
ReadBack(held, m) ==
    IF m.kind = "cancel" THEN {o \in held : o.id # m.target}
    ELSE IF m.tif # "GTC" THEN held \ ReadTaken(held, m)
    ELSE IF Cardinality(held) >= MaxOpen THEN held
    ELSE held \cup {[id |-> m.id, account |-> m.account, symbol |-> m.symbol,
                     side |-> m.side, price |-> m.limit, qty |-> m.qty]}

Reading(s, m) ==
    [open |-> ReadBack(s.open, m),
     mids |-> IF m.kind = "new" THEN [s.mids EXCEPT ![m.symbol] = m.limit] ELSE s.mids]

\* Whether the exchange refuses a message of this group as a self-trade.
SelfTradeIn(group) ==
    \E i \in DOMAIN group :
        IsSelfTrade(FoldLeft(Applied, books, SubSeq(group, 1, i - 1)), group[i])

Published(group, author) ==
    /\ books' = FoldLeft(Applied, books, group)
    /\ stored' = FoldLeft(Reading, stored, group)
    /\ authors' = authors \o [i \in DOMAIN group |-> author]

\* publish_batch, the write worked.
PublishBurst ==
    /\ burst # <<>>
    /\ Published(burst, "generator")
    /\ burst' = <<>>
    /\ seen' = IF SelfTradeIn(burst) THEN seen \cup {"selfTrade"} ELSE seen
    /\ UNCHANGED <<generator, faults>>

\* A slip the runs must notice: the orders of a lost burst stay in the list.
KeptAfterFailure == open

\* `sequence` gives the ids back; what the burst took off the list stays off.
HeldAfterFailure == {o \in open : o.id <= Len(authors)}

FaultHappens == faults < MaxFaults /\ faults' = faults + 1

FailBurst ==
    /\ burst # <<>> /\ FaultHappens
    /\ open' = HeldAfterFailure
    /\ burst' = <<>>
    /\ seen' = seen \cup {"write"}
    /\ UNCHANGED <<sinceCrossing, crossings, cancels, mids, published>>

\* An order or a cancel of somebody else, by the front door or the inbox.
UsersMaySend ==
    /\ burst = <<>> /\ NextId <= MaxLog
    /\ Cardinality({i \in DOMAIN authors : authors[i] = "user"}) < MaxUser

UserSends(m) ==
    /\ UsersMaySend
    /\ Published(<<m>>, "user")
    /\ seen' = seen \cup {"user"}
    /\ UNCHANGED <<generator, burst, faults>>

\* The process ends, with or without a burst under way, and starts again.
Restart ==
    /\ FaultHappens
    /\ open' = stored.open
    /\ mids' = stored.mids
    /\ sinceCrossing' = 0 /\ crossings' = 0 /\ cancels' = 0
    /\ burst' = <<>>
    /\ seen' = seen
               \cup (IF "user" \in seen THEN {"taughtByUsers"} ELSE {})
               \cup (IF \E o \in stored.open : authors[o.id] = "user" THEN {"readBack"} ELSE {})
    /\ UNCHANGED published

=============================================================================
