------------------------- MODULE ExchangeProperties -------------------------
(***************************************************************************)
(* What the exchange promises, as invariants and action properties of the  *)
(* Exchange module.                                                        *)
(***************************************************************************)
EXTENDS Exchange

Resting == UNION {OrdersIn(books[s]) : s \in DOMAIN books}
RestingIn(symbol) == OrdersIn(BookOf(symbol))

Traded == DOMAIN trades
NewTrades == DOMAIN trades' \ DOMAIN trades

SumOver(S, f(_)) == SumFunction([x \in S |-> f(x)])

-----------------------------------------------------------------------------
(* The type of the state. *)

QueueEntry == [id : Nat, account : Accounts, qty : Int]

\* The exchange's state has its type: every map has the keys and records the
\* structs MatcherState, Book, OrderRef, Position, Listing and Trade declare.
ExchangeTypeOK ==
    /\ lastSeen \in 0..MaxMessages
    /\ DOMAIN books \subseteq Symbols
    /\ \A s \in DOMAIN books : \A side \in Sides :
          \A p \in DOMAIN books[s][side] : books[s][side][p] \in Seq(QueueEntry)
    /\ DOMAIN openOrders \subseteq Nat
    /\ \A id \in DOMAIN openOrders :
          openOrders[id] \in [symbol : Symbols, side : Sides, price : Nat]
    /\ DOMAIN rows = DOMAIN openOrders
    /\ DOMAIN positions \subseteq Accounts \X Symbols
    /\ \A k \in DOMAIN positions :
          /\ positions[k] \in PositionType
          /\ \A field \in DOMAIN positions[k] : Fits(positions[k][field])
    /\ \A i \in Traded : trades[i].maker \in Nat /\ trades[i].taker \in Nat
    /\ DOMAIN listings \subseteq Symbols
    /\ rules \in KnownVersions
    /\ operatorKey \in Signers \cup {NoKey}
    /\ panicked \in BOOLEAN

-----------------------------------------------------------------------------
(* Books and their index. *)

\* The index by order id and the books describe the same resting orders, each
\* under one id, and neither a level nor a book that nobody waits in is kept.
\* apply_cancel reads the index and then the book, and `expect`s the second.
BookAndIndexAgree ==
    /\ {[id |-> r.id, side |-> r.side, price |-> r.price] : r \in Resting}
          = {[id |-> id, side |-> openOrders[id].side, price |-> openOrders[id].price] :
                id \in DOMAIN openOrders}
    /\ Cardinality(Resting) = Cardinality(DOMAIN openOrders)
    /\ \A id \in DOMAIN openOrders :
          \E r \in RestingIn(openOrders[id].symbol) : r.id = id /\ r.qty > 0
    /\ \A s \in DOMAIN books :
          /\ ~IsEmptyBook(books[s])
          /\ \A side \in Sides : \A p \in DOMAIN books[s][side] : books[s][side][p] # <<>>

\* No book is crossed once a message has been handled: every bid is below
\* every ask, whatever mixture of refused, market, immediate and stopped
\* orders came before.
NeverCrossed ==
    \A s \in DOMAIN books : \A bid \in DOMAIN books[s].buy, ask \in DOMAIN books[s].sell :
        bid < ask

-----------------------------------------------------------------------------
(* A restart.  restore() reads the rows the recorded changes left and the  *)
(* trades of the run; the state root of what it builds must be the one the *)
(* run committed, or the run cannot be resumed.                            *)

\* The queue of one price level: the rows come back in order of their id.
RestoredQueue(symbol, side, price) ==
    LET ids == {id \in DOMAIN rows : /\ rows[id].symbol = symbol
                                     /\ rows[id].side = side
                                     /\ rows[id].price = price}
        nth(i) == CHOOSE id \in ids : Cardinality({earlier \in ids : earlier < id}) = i - 1
    IN  [i \in 1..Cardinality(ids) |->
            [id |-> nth(i), account |-> rows[nth(i)].account, qty |-> rows[nth(i)].qty]]

RestoredSide(symbol, side) ==
    LET prices == {rows[id].price : id \in {id \in DOMAIN rows : /\ rows[id].symbol = symbol
                                                                 /\ rows[id].side = side}}
    IN  [p \in prices |-> RestoredQueue(symbol, side, p)]

RestoredBooks ==
    [s \in {rows[id].symbol : id \in DOMAIN rows} |->
        [buy |-> RestoredSide(s, "buy"), sell |-> RestoredSide(s, "sell")]]

RestoredIndex ==
    [id \in DOMAIN rows |-> [symbol |-> rows[id].symbol, side |-> rows[id].side,
                             price |-> rows[id].price]]

\* Every stored trade is replayed onto both its accounts, the maker's first.
Replay(held, t) ==
    BookLegs([account |-> t.takerAccount, symbol |-> t.symbol, side |-> t.side],
             held, [account |-> t.makerAccount, price |-> t.price, qty |-> t.qty])

Replayed(stored) == FoldLeft(Replay, EmptyMap, stored)

RestoredPositions == Replayed(trades)

\* A restart after any message rebuilds exactly the live books (queue order
\* included), index and positions, so the root it computes is the committed
\* one and open_state resumes the run instead of refusing it.
RestartRebuildsState ==
    ~panicked => /\ RestoredBooks = books
                 /\ RestoredIndex = openOrders
                 /\ RestoredPositions = positions

-----------------------------------------------------------------------------
(* Matching. *)

\* Every trade takes the best-priced and then oldest order that waited when
\* its message arrived: whatever came before the maker in that order is gone
\* when the message is done (step 5 walks the levels one fill at a time).
PriceTimePriority ==
    [][\A i \in NewTrades :
          LET t == trades'[i]
              earlier(r) == \/ Better(t.side, r.price, t.price)
                            \/ r.price = t.price /\ r.id < t.maker
          IN  \A r \in RestingIn(t.symbol) :
                 r.side # t.side /\ earlier(r) => r.id \notin DOMAIN openOrders']_vars

FilledBy(id) ==
    SumOver({i \in DOMAIN trades' : trades'[i].taker = id}, LAMBDA i : trades'[i].qty)

FilledInPart(id, qty) ==
    \/ FilledBy(id) > 0 /\ FilledBy(id) < qty
    \/ id \in DOMAIN openOrders'

\* A fill-or-kill order trades its whole quantity or nothing at all: a message
\* that filled in part, or that rests, was not one.  It holds even when a later
\* fill of the plan would overflow a position or a balance (stage_fok and
\* stage_fok_ledger run before the first effect).
FillOrKillIsAllOrNothing ==
    [][\A account \in Accounts, symbol \in Symbols :
          \A form \in {f \in Forms : f.tif = "FOK"} : \A reference \in ReferencesFor(form) :
             FilledInPart(NextId, form.qty) =>
                ~New(Arrived(account, symbol, form), reference)]_vars

\* Under rule set 2 no account trades with itself (step 4 looks at every
\* level the order's limit crosses, not at the best one only).
NoSelfTradeUnderRuleTwo ==
    [][rules >= 2 => \A i \in NewTrades : trades'[i].makerAccount # trades'[i].takerAccount]_vars

\* An order that neither trades nor rests leaves no trace but the message's
\* place in the log: no empty book, no reservation, no index entry, no row.
RefusalLeavesNoTrace ==
    [][(/\ trades' = trades
        /\ DOMAIN openOrders \subseteq DOMAIN openOrders'
        /\ lastSeen' \notin DOMAIN openOrders')
       => UNCHANGED <<market, ledger.bal, ledger.resv>>]_vars

-----------------------------------------------------------------------------
(* Accounting. *)

\* Every fill has two sides: over all accounts the net quantities of a symbol
\* and the cash paid for them cancel out, also when a fill that would overflow
\* one of its two accounts stops an order half way.
PositionsBalance ==
    \A s \in Symbols :
        LET held == {k \in DOMAIN positions : k[2] = s}
        IN  /\ SumOver(held, LAMBDA k : positions[k].net) = 0
            /\ SumOver(held, LAMBDA k : positions[k].cash) = 0

\* Every position the exchange holds accounts for every unit of cash: rounding
\* the cost of a partial close moves nothing out of it, whatever opened, added,
\* closed or turned it around (Position::after_fill).
ProfitIsAccounted == \A k \in DOMAIN positions : Accounted(positions[k])

-----------------------------------------------------------------------------
(* The funded ledger beside the matcher. *)

\* The live reservations are the resting orders, with their terms and what is
\* left of them: validate_obligations, which a restart insists on.
ReservationsMatchOrders ==
    (IsFunded /\ ~panicked) =>
        /\ DOMAIN ledger.resv = DOMAIN openOrders
        /\ \A s \in DOMAIN books : \A r \in OrdersIn(books[s]) :
              LET held == ledger.resv[r.id]
              IN  /\ held.account = r.account
                  /\ held.symbol = s
                  /\ held.side = r.side
                  /\ held.limit = r.price
                  /\ held.remaining = r.qty

\* No `expect` and no assertion of the matcher ever fails: what the preflight
\* or the staged plan accepted is what execution does.
NeverPanics == ~panicked

\* Two subsystems that never read each other agree: what an account's balance
\* moved by is the sum of what its positions traded.
LedgerAgreesWithPositions ==
    (IsFunded /\ ~panicked) =>
        \A a \in Accounts, asset \in Assets :
            LET mine    == {k \in DOMAIN positions : k[1] = a /\ k[2] \in Markets}
                goods   == {k \in mine : BaseAsset[k[2]] = asset}
                quoted  == {k \in mine : QuoteAsset[k[2]] = asset}
            IN  Total(ledger, a, asset) - Funding[<<a, asset>>]
                   = UnitsPerTenth * SumOver(goods, LAMBDA k : positions[k].net)
                     + SumOver(quoted, LAMBDA k : positions[k].cash)

-----------------------------------------------------------------------------
(* Listings, rules and limits. *)

\* Every resting order is in a listed symbol, at a price and a quantity that
\* are whole steps of the listing in force, also after the symbol was closed
\* and listed again with other steps and after partial fills.
RestingOrdersOnStep ==
    \A s \in DOMAIN books : \A r \in OrdersIn(books[s]) :
        Listed(s) /\ OnSteps(s, r.price, r.qty)

\* The admission limits hold after every message; validate_resource_capacity
\* ends a restart that finds one of them exceeded.
CapacityRespected ==
    /\ Cardinality(DOMAIN openOrders) <= MaxActive
    /\ Cardinality(DOMAIN positions) <= MaxPositions
    /\ Cardinality(DOMAIN listings) <= MaxSymbols

-----------------------------------------------------------------------------
(* What a run asks for together. *)

\* An order trades on the terms it carries and under the rules in force when it
\* arrives, whatever the book holds (stage_fok, own_order_in_the_way).
OrdersGetTheirTerms == FillOrKillIsAllOrNothing /\ NoSelfTradeUnderRuleTwo

\* What admission accepts is what execution can finish and what a restart can
\* hold (check_positions, the staged plan, validate_resource_capacity).
WhatIsAdmittedFits == NeverPanics /\ CapacityRespected

\* The books are what the index says, within the listings in force: no order is
\* lost, doubled or off its steps (apply_new, apply_cancel, apply_delist_symbol).
BooksAreSound == BookAndIndexAgree /\ RestingOrdersOnStep

\* The ledger follows the matcher: its reservations the resting orders, its
\* balances the fills (settle_fill, release, validate_obligations).
FundsFollowOrders == ReservationsMatchOrders /\ LedgerAgreesWithPositions

\* The accounts add up to the unit, over all accounts and within each, in a
\* state of its type (Position::after_fill, commit_fill).
PositionsAddUp == ExchangeTypeOK /\ PositionsBalance /\ ProfitIsAccounted
=============================================================================
