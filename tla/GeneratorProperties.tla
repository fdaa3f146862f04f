-------------------------- MODULE GeneratorProperties --------------------------
(* What the generator relies on, and what its comments say of it.           *)
EXTENDS Generator

UserMessages ==
    LET named(account, symbol, side, price, qty, tif) ==
            OrderOf(NextId, account, symbol, side, price, qty, tif)
    IN  {named(a, s, side, p, q, tif) :
            a \in Users, s \in Symbols, side \in BothSides, p \in UserPrices,
            q \in UserQuantities, tif \in {"GTC", "IOC"}}
        \cup {CancelOf(NextId, a, id) : a \in Users, id \in DOMAIN authors}

\* The prices a quote may be drawn at.
Drawn(symbol, side) ==
    {QuotePrice(symbol, side, width, steps) : width \in Widths, steps \in 1..Band}

Next ==
    \/ /\ Ticking
       /\ \/ \E o \in open : TakeBack(o)
          \/ \E account \in Takers, symbol \in Symbols, side \in BothSides :
                Take(account, symbol, side)
          \/ ~AtTheBound /\ \E account \in Quoters, symbol \in Symbols, side \in BothSides :
                \E price \in Drawn(symbol, side) :
                   \/ \E qty \in Quantities : Quote(account, symbol, side, price, qty)
                   \/ \E o \in OwnInTheWay(account, symbol, side, price) :
                         MakeWay(account, symbol, side, price, o)
    \/ PublishBurst
    \/ FailBurst
    \/ UsersMaySend /\ \E m \in UserMessages : UserSends(m)
    \/ Restart

Spec == Init /\ [][Next]_vars

-----------------------------------------------------------------------------

Waiting == burst = <<>>

InTheBooks ==
    UNION {{[id |-> o.id, account |-> o.account, symbol |-> s, side |-> o.side,
             price |-> o.price, qty |-> o.qty] : o \in OrdersIn(books[s])} : s \in Symbols}

\* The list is exact while nobody else sends and no write was lost (the comment
\* on OpenOrder in generate.rs): between two ticks it holds the orders that rest
\* in the books, with their quantities, although the generator never sees a book;
\* and a start would read the same list back out of the stored messages
\* (replay_into_the_open_orders), whichever of them it takes over at.
ListIsTheBooks ==
    Waiting /\ seen = {} => open = InTheBooks /\ stored.open = open

\* No account of the generator trades with itself.  The exchange refuses none of
\* its orders as a self-trade, through restarts, as long as nobody else sends and
\* no write is lost (the header of generate.rs: the self-trade rule "cannot
\* refuse a generated order at all").  And whatever others send and whatever is
\* lost, no account that takes ever leaves an order behind, and of the quotes that
\* may be drawn none meets an own order but in the "one case" the comment in
\* generate_message_at names, at the floor of the grid, which only a start that
\* read a message of somebody else's brings within reach.
NeverItsOwnCounterparty ==
    /\ "selfTrade" \in seen => {"user", "write"} \cap seen # {}
    /\ \A o \in InTheBooks : o.account \notin Takers
    /\ Ticking =>
          \A symbol \in Symbols, side \in BothSides : \A price \in Drawn(symbol, side) :
             (\E account \in Quoters : OwnInTheWay(account, symbol, side, price) # {}) =>
                price = Step /\ "taughtByUsers" \in seen

\* Every cancel about to be published names a message the generator published,
\* or one of the same burst.
CancelsIts(except) ==
    except \/ \A i \in DOMAIN burst :
        burst[i].kind = "cancel" /\ burst[i].target \in DOMAIN authors =>
            authors[burst[i].target] = "generator"

\* It takes back only what it sent (the comment on open_orders in feed.rs), through
\* lost writes, which give their ids to others.  Orders of others that a start
\* read back into the list are excepted; see CancelsNoRealOrder.
TakesBackItsOwn == CancelsIts("readBack" \in seen)

\* The same without the exception, as the comment in feed.rs has it: "Nothing it
\* publishes can cancel a real order, because it only cancels ids it generated
\* itself".
CancelsNoRealOrder == CancelsIts(FALSE)
=============================================================================
