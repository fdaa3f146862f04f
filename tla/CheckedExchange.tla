--------------------------- MODULE CheckedExchange ---------------------------
(***************************************************************************)
(* An exchange and, beside it, the checker reading the same messages and   *)
(* the rows the exchange writes.  The checker never feeds back.            *)
(*                                                                         *)
(* astray is history: some message was one the checker cannot read as the  *)
(* exchange did, since what decided it is not in the feed (a position at   *)
(* the end of its integer) or is read off another limit (the collared one).*)
(***************************************************************************)
EXTENDS ExchangeProperties, Checker

CONSTANTS
    RowPrices,      \* the prices and quantities a dishonest row may claim
    RowQuantities,
    TamperedAfter   \* bound: the logs after which a dishonest record is tried

VARIABLES checker, astray

checkedVars == <<vars, checker, astray>>

NewRows == SubSeq(trades', Len(trades) + 1, Len(trades'))

\* The record names an order for the last time when it is filled, or never
\* names it because it neither rested nor traded.
LastNamed(c) ==
    {id \in DOMAIN c.named :
        id \notin DOMAIN openOrders' /\ c.named[id].cancelledBy = Unnamed
                                     /\ c.named[id].delistedBy = Unnamed}

Reads(c) == checker' = Closing(c, LastNamed(c))

\* Step 4 asks after the collar, the checker asks with the signed limit.
OwnOrderBeyondCollar(arrived, o) ==
    /\ rules >= FromRuleSet /\ Listed(arrived.symbol)
    /\ OwnOrderInTheWay(arrived, BookOf(arrived.symbol))
    /\ ~OwnOrderInTheWay(o, BookOf(o.symbol))

Overflows(arrived, o, reference) ==
    /\ AdmittedEarly(arrived) /\ PriceBounded(arrived, reference)
    /\ SelfTradeChecked(o, BookOf(o.symbol), rules)
    /\ ~FundsAndPlanFit(o) \/ Execution(o).stop # "no"

LeadsAstray(arrived, reference) ==
    LET o == Bounded(arrived, reference)
    IN  OwnOrderBeyondCollar(arrived, o) \/ Overflows(arrived, o, reference)

InitChecked == Init /\ checker = NewChecker /\ astray = FALSE

ReadNew(arrived, reference) ==
    /\ New(arrived, reference)
    /\ Reads(CheckNew(checker, arrived, reference, NewRows))
    /\ astray' = (astray \/ LeadsAstray(arrived, reference))

ReadCancel(account, target) ==
    /\ Reads(CheckCancel(checker, NextId, account, target))
    /\ UNCHANGED astray

ReadOperator(c) == Reads(c) /\ UNCHANGED astray

NextChecked ==
    \/ \E account \in Accounts, symbol \in Symbols, form \in Forms :
          \E reference \in ReferencesFor(form) :
             ReadNew(Arrived(account, symbol, form), reference)
    \/ \E account \in Accounts, target \in 1..lastSeen :
          \/ IgnoreCancel(account, target) /\ ReadCancel(account, target)
          \/ RefuseCancel(account, target) /\ ReadCancel(account, target)
          \/ ApplyCancel(account, target) /\ ReadCancel(account, target)
    \/ \E signer \in Signers :
          \/ IgnoreOperator(signer) /\ ReadOperator(Refused(checker))
          \/ \E symbol \in Symbols, step \in Steps :
                /\ ApplyListSymbol(signer, symbol, step)
                /\ ReadOperator(CheckListSymbol(checker, signer, symbol, step))
          \/ \E symbol \in Symbols :
                \/ /\ ApplyDelistSymbol(signer, symbol)
                   /\ ReadOperator(CheckDelistSymbol(checker, signer, NextId, symbol))
                \/ /\ RefuseDelistSymbol(signer, symbol)
                   /\ ReadOperator(CheckDelistSymbol(checker, signer, NextId, symbol))
          \/ \E version \in Versions :
                /\ ApplyEngineRule(signer, version)
                /\ ReadOperator(CheckEngineRule(checker, signer, version))

SpecChecked == InitChecked /\ [][NextChecked]_checkedVars

-----------------------------------------------------------------------------
(* Properties. *)

RestingOf(id) == CHOOSE r \in Resting : r.id = id

\* The checker's book is the exchange's: the rules written twice leave the same
\* orders waiting, with the same quantities, after every message.
ReplayedBookIsTheBook ==
    /\ DOMAIN checker.resting = DOMAIN openOrders
    /\ \A id \in DOMAIN openOrders :
          checker.resting[id] = [account |-> RestingOf(id).account,
                                 symbol |-> openOrders[id].symbol,
                                 side |-> RestingOf(id).side,
                                 limit |-> RestingOf(id).price,
                                 left |-> RestingOf(id).qty]

(***************************************************************************)
(* A dishonest exchange may write any rows it likes for the next order.    *)
(***************************************************************************)
RowOf(order, claim) ==
    [symbol |-> order.symbol, price |-> claim.price, qty |-> claim.qty, maker |-> claim.maker,
     makerAccount |-> IF claim.maker \in DOMAIN checker.named
                      THEN checker.named[claim.maker].account ELSE order.account,
     taker |-> order.id, takerAccount |-> order.account, side |-> order.side]

Claims == [maker : 1..lastSeen, price : RowPrices, qty : RowQuantities]
DishonestRows(order) ==
    {[i \in DOMAIN claims |-> RowOf(order, claims[i])] : claims \in UNION {[1..n -> Claims] : n \in 1..2}}

HonestRows(arrived, reference) ==
    LET o == Bounded(arrived, reference)
    IN  IF AdmittedEarly(arrived) /\ AdmittedLate(o, arrived, reference)
        THEN PlanFills(BookOf(o.symbol), o) ELSE <<>>

\* A tenth at a time: which maker gave it, at which price.
Tenths(record) ==
    FlattenSeq([i \in DOMAIN record |-> [n \in 1..record[i].qty |-> <<record[i].maker, record[i].price>>]])

\* The report ends after this order's rows.
Accepted(arrived, reference, record) ==
    LET c == CheckNew(checker, arrived, reference, record)
    IN  Closing(c, DOMAIN c.named).failed = {}

\* The rows the checker accepts are the honest ones, or the honest ones cut
\* short: whatever an exchange writes for an order, it cannot give a fill to
\* another order, at another price, before its turn, beyond what either order
\* offered, or past a refusal, without a check that fails.
AcceptedRowsAreHonest ==
    lastSeen \in TamperedAfter /\ ~astray =>
        \A account \in Accounts, symbol \in Symbols, form \in Forms :
            \A reference \in ReferencesFor(form) :
                LET arrived == Arrived(account, symbol, form)
                    honest  == Tenths(HonestRows(arrived, reference))
                IN  ~LeadsAstray(arrived, reference) =>
                       \A record \in DishonestRows(arrived) :
                           Accepted(arrived, reference, record) => IsPrefix(Tenths(record), honest)

\* What the exchange writes under the rules, the checker accepts, and they agree
\* on which key is the operator's; a log with a message under another key than
\* the operator's fails for that message alone.
CheckerFollowsExchange ==
    /\ checker.inForce = operatorKey
    /\ ~astray => checker.failed \subseteq {"operator"} /\ ReplayedBookIsTheBook

\* The checker neither accuses an exchange that follows the rules nor takes the
\* rows of one that does not (verify.rs, Rows::check, ReplayBook).
CheckerIsRight == CheckerFollowsExchange /\ AcceptedRowsAreHonest

\* self_trade.rs on asking the self-trade question first: "The answers still
\* agree, because both refusals produce the same book".  The order of the two
\* questions is one thing; the limit each asks with is another.
TheAnswersStillAgree == "selfTrade" \notin checker.failed /\ ReplayedBookIsTheBook
=============================================================================
