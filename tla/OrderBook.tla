----------------------------- MODULE OrderBook -----------------------------
(***************************************************************************)
(* One symbol's book and the walks the matching steps make over it         *)
(* (src/services/src/matcher.rs Book, matcher/step2..step6).  A book has   *)
(* two sides; a side maps every price that has orders waiting to their     *)
(* queue, oldest first.  A price with an empty queue is not in the map.    *)
(*                                                                         *)
(* An order is a record [id, account, symbol, side, limit, qty, market,    *)
(* tif, postOnly]; a planned fill is [maker, account, price, qty].         *)
(***************************************************************************)
EXTENDS Integers, FiniteSets, SequencesExt

LOCAL Smaller(m, n) == IF m <= n THEN m ELSE n
LOCAL Larger(m, n) == IF m >= n THEN m ELSE n

EmptySide == [price \in {} |-> <<>>]
EmptyBook == [buy |-> EmptySide, sell |-> EmptySide]
IsEmptyBook(book) == DOMAIN book.buy = {} /\ DOMAIN book.sell = {}

Level(book, side, price) == IF price \in DOMAIN book[side] THEN book[side][price] ELSE <<>>

\* The book with another queue at a price; an empty level leaves the side.
WithLevel(book, side, price, queue) ==
    [book EXCEPT ![side] =
        IF queue = <<>> THEN Restrict(book[side], DOMAIN book[side] \ {price})
        ELSE [p \in DOMAIN book[side] \cup {price} |->
                 IF p = price THEN queue ELSE book[side][p]]]

Facing(side) == IF side = "buy" THEN "sell" ELSE "buy"

\* crosses: a resting price is at or better than the arriving limit.
Crosses(side, price, limit) == IF side = "buy" THEN price <= limit ELSE price >= limit

\* The better of two resting prices for an arriving order of this side.
Better(side, p, q) == IF side = "buy" THEN p < q ELSE p > q

CrossingPrices(book, o, limit) ==
    {p \in DOMAIN book[Facing(o.side)] : Crosses(o.side, p, limit)}

-----------------------------------------------------------------------------
(* Step 2: validate the order type, against the limit the order arrived    *)
(* with.                                                                   *)

SumOf(queue) == FoldLeft(LAMBDA total, resting : total + resting.qty, 0, queue)

\* crossing_tenths
CrossingQuantity(book, o) ==
    SumFunction([p \in CrossingPrices(book, o, o.limit) |-> SumOf(book[Facing(o.side)][p])])

OrderTypeServed(o, book) ==
    /\ o.postOnly => ~o.market /\ o.tif = "GTC"
    /\ o.postOnly => CrossingQuantity(book, o) = 0
    /\ o.tif = "FOK" => CrossingQuantity(book, o) >= o.qty

-----------------------------------------------------------------------------
(* Step 3: bound the price of a market order.  0 is "no reference price".  *)

NoReference == 0
CollarBasisPoints == 200

\* collar: two percent of the reference, and at least one cent.
Collared(side, limit, reference) ==
    LET band == Larger((reference * CollarBasisPoints) \div 10000, 1)
    IN  IF side = "buy" THEN Smaller(limit, reference + band)
        ELSE Larger(limit, Larger(reference - band, 1))

PriceBounded(o, reference) ==
    o.market => /\ reference # NoReference
                /\ o.tif = "FOK" => Collared(o.side, o.limit, reference) = o.limit

BoundedLimit(o, reference) ==
    IF o.market THEN Collared(o.side, o.limit, reference) ELSE o.limit

-----------------------------------------------------------------------------
(* Step 4: an order of the same account anywhere on the crossing levels    *)
(* refuses the arriving order, from rule set 2 on.                         *)

FromRuleSet == 2

\* A slip the runs must notice: only the best level is looked at.
OwnOrderAtTheBest(o, book) ==
    \E p \in CrossingPrices(book, o, o.limit) :
        /\ \A q \in CrossingPrices(book, o, o.limit) : p = q \/ Better(o.side, p, q)
        /\ \E i \in DOMAIN book[Facing(o.side)][p] :
              book[Facing(o.side)][p][i].account = o.account

OwnOrderInTheWay(o, book) ==
    \E p \in CrossingPrices(book, o, o.limit) :
        \E i \in DOMAIN book[Facing(o.side)][p] :
            book[Facing(o.side)][p][i].account = o.account

SelfTradeChecked(o, book, rules) ==
    rules >= FromRuleSet => ~OwnOrderInTheWay(o, book)

-----------------------------------------------------------------------------
(* Step 5, planning: price first, then time, at the resting price.         *)

\* The places in the queues an order can reach, as <<price, position>>.
Spots(book, o) ==
    UNION {{p} \X DOMAIN book[Facing(o.side)][p] : p \in CrossingPrices(book, o, o.limit)}

\* Best price first, and oldest first within a price.
Sooner(o, x, y) == Better(o.side, x[1], y[1]) \/ (x[1] = y[1] /\ x[2] < y[2])

Ahead(book, o, x) == {y \in Spots(book, o) : Sooner(o, y, x)}

WaitingAt(book, o, x) == book[Facing(o.side)][x[1]][x[2]]

QuantityAhead(book, o, x) ==
    SumFunction([y \in Ahead(book, o, x) |-> WaitingAt(book, o, y).qty])

\* plan_fills: each maker gives what it has until the order is filled.
PlanFills(book, o) ==
    LET touched == {x \in Spots(book, o) : QuantityAhead(book, o, x) < o.qty}
        spot(i) == CHOOSE x \in touched : Cardinality(Ahead(book, o, x)) = i - 1
        fill(x) == [maker   |-> WaitingAt(book, o, x).id,
                    account |-> WaitingAt(book, o, x).account,
                    price   |-> x[1],
                    qty     |-> Smaller(WaitingAt(book, o, x).qty,
                                        o.qty - QuantityAhead(book, o, x))]
    IN  [i \in 1..Cardinality(touched) |-> fill(spot(i))]

-----------------------------------------------------------------------------
(* Step 5, execution: one fill at a time on the book as it then is.        *)

BestFacing(book, o) ==
    LET prices == DOMAIN book[Facing(o.side)]
    IN  CHOOSE p \in prices : \A q \in prices : p = q \/ Better(o.side, p, q)

\* next_fill finds a maker whenever the best facing level crosses.
HasNextFill(book, o) ==
    /\ DOMAIN book[Facing(o.side)] # {}
    /\ Crosses(o.side, BestFacing(book, o), o.limit)

NextFill(book, o, remaining) ==
    LET price == BestFacing(book, o)
        maker == Head(book[Facing(o.side)][price])
    IN  [maker |-> maker.id, account |-> maker.account, price |-> price,
         qty |-> Smaller(remaining, maker.qty)]

\* commit_fill, the book's part: the front maker gives its quantity and leaves
\* the queue when it has none left.
AfterTaking(book, o, fill) ==
    LET queue == book[Facing(o.side)][fill.price]
        left  == Head(queue).qty - fill.qty
        rest  == IF left = 0 THEN Tail(queue)
                 ELSE <<[Head(queue) EXCEPT !.qty = left]>> \o Tail(queue)
    IN  WithLevel(book, Facing(o.side), fill.price, rest)

-----------------------------------------------------------------------------
(* Step 6 and the book's other writers.                                    *)

\* decide: only a limit order that is good till cancelled rests.
Rests(o, remaining) == remaining > 0 /\ ~o.market /\ o.tif = "GTC"

WaitingEntry(o, remaining) == [id |-> o.id, account |-> o.account, qty |-> remaining]

\* A slip the runs must notice: the newest order goes to the front of its level.
AfterRestingInFront(book, o, remaining) ==
    WithLevel(book, o.side, o.limit,
              <<WaitingEntry(o, remaining)>> \o Level(book, o.side, o.limit))

\* push_back at the order's own price.
AfterResting(book, o, remaining) ==
    WithLevel(book, o.side, o.limit,
              Append(Level(book, o.side, o.limit), WaitingEntry(o, remaining)))

\* What retain leaves of a queue.
Retained(queue, id) ==
    FoldLeft(LAMBDA kept, resting : IF resting.id = id THEN kept ELSE Append(kept, resting),
             <<>>, queue)

\* A slip the runs must notice: a cancel leaves the level it emptied.
AfterRemovingOnly(book, ref, id) ==
    [book EXCEPT ![ref.side][ref.price] = Retained(@, id)]

\* apply_cancel: retain everything but the target at its price.
AfterRemoving(book, ref, id) ==
    WithLevel(book, ref.side, ref.price, Retained(book[ref.side][ref.price], id))

\* Every order waiting on a side, and in a book, as [id, account, side, price, qty].
OrdersOn(book, s) ==
    UNION {{[id |-> r.id, account |-> r.account, side |-> s, price |-> p, qty |-> r.qty] :
               r \in ToSet(book[s][p])} : p \in DOMAIN book[s]}

OrdersIn(book) == OrdersOn(book, "buy") \cup OrdersOn(book, "sell")
=============================================================================
