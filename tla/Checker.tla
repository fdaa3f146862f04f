------------------------------- MODULE Checker -------------------------------
(***************************************************************************)
(* The checker of src/services/src/verify.rs: the matching rules written a *)
(* second time, over what the feed published and the rows of the trade     *)
(* log.  One operator per kind of message takes the checker's state c from *)
(* before the message to after it; the names of the checks that failed     *)
(* gather in c.failed.  It shares no operator with the exchange.           *)
(*                                                                         *)
(* An order is the exchange's arriving record; a row of the trade log is   *)
(* [symbol, price, qty, maker, makerAccount, taker, takerAccount, side].   *)
(***************************************************************************)
EXTENDS Integers, FiniteSetsExt, SequencesExt

CONSTANT Unnamed    \* no operator key, and nothing that closed an order

LOCAL NoMap == [x \in {} |-> {}]
LOCAL With(map, key, value) ==
    [k \in DOMAIN map \cup {key} |-> IF k = key THEN value ELSE map[k]]
LOCAL Dropping(map, keys) == [k \in DOMAIN map \ keys |-> map[k]]

NewChecker ==
    [resting  |-> NoMap,    \* the replayed book: id -> the order, and what is left of it
     named    |-> NoMap,    \* the orders rows name: id -> the order and what became of it
     listings |-> NoMap,    \* the open symbols: symbol -> its steps
     rules    |-> 1,
     inForce  |-> Unnamed,  \* the operator key
     tooOld   |-> FALSE,    \* a message asked for rules this build does not know
     failed   |-> {}]

Fails(c, check, fails) == IF fails THEN [c EXCEPT !.failed = @ \cup {check}] ELSE c

-----------------------------------------------------------------------------
(* What the book and the listings answer. *)

Opposite(side) == CHOOSE s \in {"buy", "sell"} : s # side

Reaches(side, limit, price) == (side = "buy" /\ price <= limit) \/ (side = "sell" /\ price >= limit)

Admits(c, order) ==
    /\ order.symbol \in DOMAIN c.listings
    /\ order.limit % c.listings[order.symbol].price = 0
    /\ order.qty % c.listings[order.symbol].qty = 0

Waiting(c, symbol, side) ==
    {id \in DOMAIN c.resting : c.resting[id].symbol = symbol /\ c.resting[id].side = side}

\* A slip the runs must notice: the best price is next, whoever waits there.
AnyoneInLine(c, symbol, side, id) ==
    LET rest == Waiting(c, symbol, side)
        price(i) == c.resting[i].limit
    IN  /\ id \in rest
        /\ \A other \in rest : IF side = "sell" THEN price(id) <= price(other)
                                                ELSE price(id) >= price(other)

\* next_in_line: the first id of the best level.
IsNextInLine(c, symbol, side, id) ==
    LET rest == Waiting(c, symbol, side)
        price(i) == c.resting[i].limit
    IN  /\ id \in rest
        /\ \A other \in rest \ {id} :
              \/ IF side = "sell" THEN price(id) < price(other) ELSE price(id) > price(other)
              \/ price(id) = price(other) /\ id < other

CrossingTenths(c, order) ==
    MapThenSumSet(LAMBDA id : c.resting[id].left,
                  {id \in Waiting(c, order.symbol, Opposite(order.side)) :
                      Reaches(order.side, order.limit, c.resting[id].limit)})

\* A slip the runs must notice: an own order is looked for at the best level only.
SelfTradesAtTheBest(c, order) ==
    \E id \in Waiting(c, order.symbol, Opposite(order.side)) :
        /\ IsNextInLine(c, order.symbol, Opposite(order.side), id)
        /\ c.resting[id].account = order.account
        /\ Reaches(order.side, order.limit, c.resting[id].limit)

\* The limit is the one the order was signed with, a market order's too.
WouldSelfTrade(c, order) ==
    \E id \in Waiting(c, order.symbol, Opposite(order.side)) :
        /\ c.resting[id].account = order.account
        /\ Reaches(order.side, order.limit, c.resting[id].limit)

-----------------------------------------------------------------------------
(* The terms of an order: order_terms.rs.  0 is "no reference price".      *)

CollarOf(side, limit, reference) ==
    LET band == Max({1, (reference * 200) \div 10000})
    IN  IF side = "buy" THEN Min({limit, reference + band})
        ELSE Max({limit, 1, reference - band})

RefusedByTerms(c, order, reference) ==
    \/ order.postOnly /\ (order.market \/ order.tif # "GTC" \/ CrossingTenths(c, order) > 0)
    \/ order.tif = "FOK" /\ CrossingTenths(c, order) < order.qty
    \/ /\ order.market
       /\ \/ reference = 0
          \/ order.tif = "FOK" /\ CollarOf(order.side, order.limit, reference) # order.limit

RestsByTerms(order) == ~order.market /\ order.tif = "GTC"

Inside(order, reference, price) ==
    Reaches(order.side, CollarOf(order.side, order.limit, reference), price)

-----------------------------------------------------------------------------
(* One row against the book as the row finds it: the loop of `arrived`.    *)

Taken(c, row) ==
    LET left == c.resting[row.maker].left - row.qty
    IN  IF left <= 0 THEN [c EXCEPT !.resting = Dropping(@, {row.maker})]
        ELSE [c EXCEPT !.resting[row.maker].left = left]

\* w is [c, left]: what the rows walked so far leave of the arriving order.
WalkRow(order, reference, allowed, w, row) ==
    LET c == w.c
        passed == Fails(Fails(c, "priority",
                              ~IsNextInLine(c, order.symbol, Opposite(order.side), row.maker)),
                        "collared",
                        allowed /\ order.market /\ ~Inside(order, reference, row.price))
    IN  IF row.maker \notin DOMAIN c.named THEN w
        ELSE IF row.maker \notin DOMAIN c.resting THEN [w EXCEPT !.c = Fails(c, "priority", TRUE)]
        ELSE [c |-> Taken(passed, row), left |-> w.left - row.qty]

-----------------------------------------------------------------------------
(* One row against the two orders it names: Rows::check.                   *)

RowDisagrees(maker, taker, row) ==
    \/ ~maker.tradable \/ ~taker.tradable
    \/ maker.side = taker.side \/ taker.side # row.side
    \/ row.maker >= row.taker
    \/ {maker.symbol, taker.symbol} # {row.symbol}
    \/ maker.account # row.makerAccount \/ taker.account # row.takerAccount
    \/ row.price # maker.limit
    \/ ~Reaches(taker.side, taker.limit, row.price)
    \/ row.qty <= 0

ClosedBefore(c, row) ==
    row.maker \in DOMAIN c.named
        /\ \E by \in {c.named[row.maker].cancelledBy, c.named[row.maker].delistedBy} :
              by # Unnamed /\ by < row.taker

CheckRow(c, row) ==
    LET d == Fails(c, "cancelled", ClosedBefore(c, row))
    IN  IF ~({row.maker, row.taker} \subseteq DOMAIN c.named) THEN Fails(d, "known", TRUE)
        ELSE [Fails(d, "rows", RowDisagrees(c.named[row.maker], c.named[row.taker], row))
                EXCEPT !.named[row.maker].filled = @ + row.qty,
                       !.named[row.taker].filled = @ + row.qty]

\* An entry is dropped after the last row that names it, and closed then.
Overfilled(c, ids) == \E id \in DOMAIN c.named \cap ids : c.named[id].filled > c.named[id].qty

Closing(c, ids) == [Fails(c, "overfill", Overfilled(c, ids)) EXCEPT !.named = Dropping(@, ids)]

-----------------------------------------------------------------------------
(* The messages. *)

Published(c, order) ==
    [account |-> order.account, symbol |-> order.symbol, side |-> order.side,
     limit |-> order.limit, qty |-> order.qty, tradable |-> Admits(c, order),
     filled |-> 0, cancelledBy |-> Unnamed, delistedBy |-> Unnamed]

RowsFail(c, order, reference, rows) ==
    LET some   == rows # <<>>
        filled == FoldLeft(LAMBDA total, row : total + row.qty, 0, rows)
        paired == \E i \in DOMAIN rows : rows[i].makerAccount = rows[i].takerAccount
    IN  Fails(Fails(Fails(c, "paired", c.rules >= 2 /\ paired),
                    "allOrNone", some /\ order.tif = "FOK" /\ filled # order.qty),
              "refused", some /\ RefusedByTerms(c, order, reference))

\* arrived, for an order that crosses none of its account's own.
Walked(c, order, reference, rows) ==
    LET allowed == ~RefusedByTerms(c, order, reference)
        w == FoldLeft(LAMBDA acc, row : WalkRow(order, reference, allowed, acc, row),
                      [c |-> RowsFail(c, order, reference, rows), left |-> order.qty], rows)
    IN  IF allowed /\ RestsByTerms(order) /\ Admits(c, order) /\ w.left > 0
        THEN [w.c EXCEPT !.resting = With(@, order.id,
                 [account |-> order.account, symbol |-> order.symbol, side |-> order.side,
                  limit |-> order.limit, left |-> w.left])]
        ELSE w.c

\* A New message and the rows whose taker it is.
CheckNew(c, order, reference, rows) ==
    LET n == [c EXCEPT !.named = With(@, order.id, Published(c, order))]
        refused == n.rules >= 2 /\ WouldSelfTrade(n, order)
    IN  FoldLeft(CheckRow,
                 IF refused THEN Fails(n, "selfTrade", rows # <<>>)
                            ELSE Walked(n, order, reference, rows),
                 rows)

\* A slip the runs must notice: anybody's cancel takes effect.
AnyCancelTakesEffect(owner, id, account, target) == id > target

CancelTakesEffect(owner, id, account, target) == id > target /\ owner = account

CheckCancel(c, id, account, target) ==
    LET takesEffect(orders) ==
            target \in DOMAIN orders /\ CancelTakesEffect(orders[target].account, id, account, target)
    IN  [c EXCEPT
            !.named = IF takesEffect(@) /\ @[target].cancelledBy = Unnamed
                      THEN [@ EXCEPT ![target].cancelledBy = id] ELSE @,
            !.resting = IF takesEffect(@) THEN Dropping(@, {target}) ELSE @]

\* Operator::accepts, for a message that names a key and is signed with it.
AcceptsKey(c, signer) == c.inForce \in {Unnamed, signer}

Refused(c) == Fails(c, "operator", TRUE)
InForce(c, signer) == [c EXCEPT !.inForce = signer]

CheckListSymbol(c, signer, symbol, step) ==
    IF ~AcceptsKey(c, signer) THEN Refused(c)
    ELSE IF symbol \in DOMAIN c.listings \/ step.price <= 0 \/ step.qty <= 0
         THEN InForce(c, signer)
    ELSE [InForce(c, signer) EXCEPT !.listings = With(@, symbol, step)]

CheckDelistSymbol(c, signer, id, symbol) ==
    LET ofSymbol(orders) == {o \in DOMAIN orders : orders[o].symbol = symbol}
    IN  IF ~AcceptsKey(c, signer) THEN Refused(c)
        ELSE IF symbol \notin DOMAIN c.listings THEN InForce(c, signer)
        ELSE [InForce(c, signer) EXCEPT
                 !.listings = Dropping(@, {symbol}),
                 !.resting = Dropping(@, ofSymbol(@)),
                 !.named = [o \in DOMAIN @ |->
                     IF o \in ofSymbol(@) /\ @[o].delistedBy = Unnamed
                     THEN [@[o] EXCEPT !.delistedBy = id] ELSE @[o]]]

\* A rule set this build cannot replay makes the report incomplete.
CheckEngineRule(c, signer, version) ==
    IF ~AcceptsKey(c, signer) THEN Refused(c)
    ELSE IF version \in 1..2 THEN [InForce(c, signer) EXCEPT !.rules = version]
    ELSE [InForce(c, signer) EXCEPT !.tooOld = TRUE]
=============================================================================
