----------------------------- MODULE SpotLedger -----------------------------
(***************************************************************************)
(* The funded spot ledger of src/services/src/ledger.rs as operators on a  *)
(* ledger value.  A ledger is the record                                   *)
(*                                                                         *)
(*   last   the last finished sequence number (last_sequence),             *)
(*   bal    available and reserved units per account and asset,            *)
(*   resv   the live reservations, a function on the ids of the orders     *)
(*          that hold one.                                                 *)
(*                                                                         *)
(* Every method of the code that can fail before its mutation boundary is  *)
(* a pair: Can...(l, ...) is the conjunction of its checks and After...    *)
(* (l, ...) the ledger it leaves.  A balance row that is absent in the     *)
(* code reads as zero there, so it is a row of zeros here.  Machine        *)
(* integers are capped at MaxUnits, which stands for i64::MAX.             *)
(***************************************************************************)
EXTENDS Integers, FiniteSets, Functions

CONSTANTS
    Accounts,       \* the accounts
    Assets,         \* the assets balances are kept in
    Symbols,        \* every symbol a message may name
    BaseAsset,      \* the funded markets: symbol -> base asset
    QuoteAsset,     \* the same symbols -> quote asset
    Funding,        \* genesis grant per <<account, asset>>, 0 where there is none
    IsFunded,       \* FundedSimulation (TRUE) or SyntheticLegacy (FALSE)
    UnitsPerTenth,  \* ledger units in one tenth of base quantity (100 in the code)
    MaxUnits        \* the largest machine integer

Markets == DOMAIN BaseAsset
Keys == Accounts \X Assets
Sides == {"buy", "sell"}

\* What validate_config demands of a configuration, and the arithmetic scale.
ASSUME LedgerConfig ==
    /\ MaxUnits \in Nat \ {0}
    /\ UnitsPerTenth \in Nat \ {0}
    /\ IsFunded \in BOOLEAN
    /\ IsFiniteSet(Accounts)
    /\ Markets \subseteq Symbols
    /\ BaseAsset \in [Markets -> Assets]
    /\ QuoteAsset \in [Markets -> Assets]
    /\ \A s \in Markets : BaseAsset[s] # QuoteAsset[s]
    /\ Funding \in [Keys -> 0..MaxUnits]

Balance == [available : Nat, reserved : Nat]
Reservation == [account : Accounts, symbol : Markets, side : Sides,
                limit : Nat \ {0}, remaining : Nat \ {0}, units : Nat \ {0}]

-----------------------------------------------------------------------------
(* Maps with a moving domain. *)

Put(f, k, v) == [x \in DOMAIN f \cup {k} |-> IF x = k THEN v ELSE f[x]]
Without(f, S) == Restrict(f, DOMAIN f \ S)

-----------------------------------------------------------------------------
(* Terms of a reservation. *)

\* reserve: a buy backs its cash, a sell backs its base quantity.
AssetFor(symbol, side) == IF side = "buy" THEN QuoteAsset[symbol] ELSE BaseAsset[symbol]

\* reserve_units, without its overflow and sign checks (see CanReserve).
ReserveUnits(side, limit, qty) ==
    IF side = "buy" THEN limit * qty ELSE qty * UnitsPerTenth

ReservationKey(r) == <<r.account, AssetFor(r.symbol, r.side)>>

\* check_balance: nonnegative, and the two together fit a machine integer.
BalanceFits(b) ==
    /\ b.available >= 0
    /\ b.reserved >= 0
    /\ b.available + b.reserved <= MaxUnits

-----------------------------------------------------------------------------
(* Genesis, and the value a restart starts from. *)

EmptyReservations == [id \in {} |-> {}]

FundedLedger ==
    [last |-> 0,
     bal  |-> [k \in Keys |-> [available |-> IF IsFunded THEN Funding[k] ELSE 0,
                               reserved  |-> 0]],
     resv |-> EmptyReservations]

-----------------------------------------------------------------------------
(* reserve *)

\* A slip the runs must notice: the order's id is not tied to the open
\* sequence.
CanReserveAnyId(l, id, account, symbol, side, limit, qty) ==
    IsFunded =>
        /\ id \notin DOMAIN l.resv
        /\ symbol \in Markets
        /\ limit > 0 /\ qty > 0
        /\ ReserveUnits(side, limit, qty) <= MaxUnits
        /\ l.bal[<<account, AssetFor(symbol, side)>>].available
              >= ReserveUnits(side, limit, qty)

CanReserve(l, id, account, symbol, side, limit, qty) ==
    IsFunded =>
        /\ id = l.last + 1
        /\ id \notin DOMAIN l.resv
        /\ symbol \in Markets
        /\ limit > 0
        /\ qty > 0
        /\ ReserveUnits(side, limit, qty) <= MaxUnits
        /\ l.bal[<<account, AssetFor(symbol, side)>>].available
              >= ReserveUnits(side, limit, qty)

AfterReserve(l, id, account, symbol, side, limit, qty) ==
    IF ~IsFunded THEN l
    ELSE LET units == ReserveUnits(side, limit, qty)
             key   == <<account, AssetFor(symbol, side)>>
         IN  [l EXCEPT
                !.bal[key] = [available |-> @.available - units,
                              reserved  |-> @.reserved + units],
                !.resv = Put(@, id, [account |-> account, symbol |-> symbol,
                                     side |-> side, limit |-> limit,
                                     remaining |-> qty, units |-> units])]

-----------------------------------------------------------------------------
(* settle_fill.  The four legs of a fill are combined per account and asset *)
(* before any balance is checked, so an account on both sides of a fill is  *)
(* debited and credited at once.                                            *)

Buyer(l, maker, taker) ==
    IF l.resv[maker].side = "buy" THEN l.resv[maker] ELSE l.resv[taker]
Seller(l, maker, taker) ==
    IF l.resv[maker].side = "buy" THEN l.resv[taker] ELSE l.resv[maker]

At(k, key, n) == IF k = key THEN n ELSE 0

\* A slip the runs must notice: a buyer who pays less than its limit does
\* not get the difference back.
BalanceAfterFillAtLimit(l, maker, taker, price, qty, k) ==
    LET buyer  == Buyer(l, maker, taker)
        seller == Seller(l, maker, taker)
    IN  [available |-> l.bal[k].available
                       + At(k, <<seller.account, QuoteAsset[buyer.symbol]>>, price * qty)
                       + At(k, <<buyer.account, BaseAsset[buyer.symbol]>>, qty * UnitsPerTenth),
         reserved  |-> l.bal[k].reserved
                       - At(k, <<buyer.account, QuoteAsset[buyer.symbol]>>, buyer.limit * qty)
                       - At(k, <<seller.account, BaseAsset[buyer.symbol]>>, qty * UnitsPerTenth)]

\* add_delta, summed: the balance of key k once the fill is booked.
BalanceAfterFill(l, maker, taker, price, qty, k) ==
    LET buyer  == Buyer(l, maker, taker)
        seller == Seller(l, maker, taker)
        quote  == QuoteAsset[buyer.symbol]
        base   == BaseAsset[buyer.symbol]
        cash   == price * qty
        backed == buyer.limit * qty
        goods  == qty * UnitsPerTenth
    IN  [available |-> l.bal[k].available
                       + At(k, <<buyer.account, quote>>, backed - cash)
                       + At(k, <<seller.account, quote>>, cash)
                       + At(k, <<buyer.account, base>>, goods),
         reserved  |-> l.bal[k].reserved
                       - At(k, <<buyer.account, quote>>, backed)
                       - At(k, <<seller.account, base>>, goods)]

FillKeys(l, maker, taker) ==
    LET buyer  == Buyer(l, maker, taker)
        seller == Seller(l, maker, taker)
    IN  {buyer.account, seller.account}
            \X {QuoteAsset[buyer.symbol], BaseAsset[buyer.symbol]}

\* A slip the runs must notice: a maker may give more than it has left.
FillTermsAgreeUncapped(l, maker, taker, price, qty) ==
    /\ taker = l.last + 1
    /\ maker # taker
    /\ price > 0 /\ qty > 0
    /\ {maker, taker} \subseteq DOMAIN l.resv
    /\ l.resv[maker].symbol = l.resv[taker].symbol
    /\ l.resv[maker].side # l.resv[taker].side
    /\ price <= Buyer(l, maker, taker).limit
    /\ price >= Seller(l, maker, taker).limit
    /\ qty <= l.resv[taker].remaining

\* The checks that do not depend on any balance.
FillTermsAgree(l, maker, taker, price, qty) ==
    /\ taker = l.last + 1
    /\ maker # taker
    /\ price > 0
    /\ qty > 0
    /\ {maker, taker} \subseteq DOMAIN l.resv
    /\ l.resv[maker].symbol = l.resv[taker].symbol
    /\ l.resv[maker].side # l.resv[taker].side
    /\ price <= Buyer(l, maker, taker).limit
    /\ price >= Seller(l, maker, taker).limit
    /\ qty <= l.resv[maker].remaining
    /\ qty <= l.resv[taker].remaining

CanSettle(l, maker, taker, price, qty) ==
    IsFunded =>
        /\ FillTermsAgree(l, maker, taker, price, qty)
        /\ \A k \in FillKeys(l, maker, taker) :
              BalanceFits(BalanceAfterFill(l, maker, taker, price, qty, k))

\* A slip the runs must notice: a partial fill leaves the units as they were.
ReduceReservationOnly(r, qty) == [r EXCEPT !.remaining = @ - qty]

\* after_fill on a reservation: the units always follow the remaining terms.
ReduceReservation(r, qty) ==
    LET left == r.remaining - qty
    IN  [r EXCEPT !.remaining = left,
                  !.units = IF left = 0 THEN 0 ELSE ReserveUnits(r.side, r.limit, left)]

\* A slip the runs must notice: a filled order keeps its empty reservation.
AfterSettleKeepingAll(l, maker, taker, price, qty) ==
    IF ~IsFunded THEN l
    ELSE [l EXCEPT
            !.bal  = [k \in Keys |-> BalanceAfterFill(l, maker, taker, price, qty, k)],
            !.resv = [id \in DOMAIN l.resv |->
                         IF id \in {maker, taker} THEN ReduceReservation(l.resv[id], qty)
                         ELSE l.resv[id]]]

AfterSettle(l, maker, taker, price, qty) ==
    IF ~IsFunded THEN l
    ELSE LET next(id) == ReduceReservation(l.resv[id], qty)
             done     == {id \in {maker, taker} : next(id).remaining = 0}
         IN  [l EXCEPT
                !.bal  = [k \in Keys |-> BalanceAfterFill(l, maker, taker, price, qty, k)],
                !.resv = [id \in DOMAIN l.resv \ done |->
                              IF id \in {maker, taker} THEN next(id) ELSE l.resv[id]]]

-----------------------------------------------------------------------------
(* release: a no-op for an order that holds nothing. *)

\* A slip the runs must notice: the units come back and stay reserved as well.
ReleasedBalanceTwice(l, id) ==
    LET b == l.bal[ReservationKey(l.resv[id])]
    IN  [b EXCEPT !.available = @ + l.resv[id].units]

ReleasedBalance(l, id) ==
    LET b == l.bal[ReservationKey(l.resv[id])]
    IN  [available |-> b.available + l.resv[id].units,
         reserved  |-> b.reserved - l.resv[id].units]

CanRelease(l, id) == id \in DOMAIN l.resv => BalanceFits(ReleasedBalance(l, id))

AfterRelease(l, id) ==
    IF id \notin DOMAIN l.resv THEN l
    ELSE [l EXCEPT !.bal[ReservationKey(l.resv[id])] = ReleasedBalance(l, id),
                   !.resv = Without(@, {id})]

-----------------------------------------------------------------------------
(* finish_sequence *)

CanFinish(l, sequence) == sequence = l.last + 1
AfterFinish(l, sequence) == [l EXCEPT !.last = sequence]

-----------------------------------------------------------------------------
(* validate: what from_snapshot demands of the stored ledger. *)

Total(l, account, asset) ==
    l.bal[<<account, asset>>].available + l.bal[<<account, asset>>].reserved

\* Every asset adds up to its genesis funding: version 1 charges no fee.
Conserved(l) ==
    \A asset \in Assets :
        SumFunction([a \in Accounts |-> Total(l, a, asset)])
            = SumFunction([a \in Accounts |-> Funding[<<a, asset>>]])

\* The units of every reservation follow from its own terms.
UnitsExact(l) ==
    \A id \in DOMAIN l.resv :
        l.resv[id].units
            = ReserveUnits(l.resv[id].side, l.resv[id].limit, l.resv[id].remaining)

Obligations(l, key) ==
    LET held == {id \in DOMAIN l.resv : ReservationKey(l.resv[id]) = key}
    IN  SumFunction([id \in held |-> l.resv[id].units])

\* What is reserved is exactly what live reservations are owed.
ReservesBacked(l) == \A k \in Keys : l.bal[k].reserved = Obligations(l, k)

Validate(l) ==
    IsFunded => /\ \A k \in Keys : BalanceFits(l.bal[k])
                /\ Conserved(l)
                /\ UnitsExact(l)
                /\ ReservesBacked(l)

\* from_snapshot: also no reservation from beyond the finished history.
SnapshotAccepted(l) ==
    /\ DOMAIN l.resv \subseteq 1..l.last
    /\ Validate(l)
=============================================================================
