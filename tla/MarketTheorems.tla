-------------------------- MODULE MarketTheorems --------------------------
(***************************************************************************)
(* What the operators on one ledger, one position and one book do, whoever *)
(* calls them: the facts that the theorems about Ledger, where a caller    *)
(* may be wrong, and about Exchange, where the matcher calls, rest on.  In *)
(* every lemma about the ledger l is the ledger before and m the one after. *)
(***************************************************************************)
EXTENDS SpotLedger, Positions, OrderBook, DataTheorems, TLAPS

\* A ledger of its type: LedgerTypeOK of a value.
LedgerFits(l) ==
    /\ DOMAIN l = {"last", "bal", "resv"}
    /\ l.last \in Nat
    /\ l.bal \in [Keys -> Balance]
    /\ \A k \in Keys : BalanceFits(l.bal[k])
    /\ DOMAIN l.resv \subseteq 1..(l.last + 1)
    /\ \A id \in DOMAIN l.resv : l.resv[id] \in Reservation
    /\ UnitsExact(l)

\* The operations, as the ledgers they take and leave.
Reserves(l, m, id, account, symbol, side, limit, qty) ==
    /\ IsFunded
    /\ CanReserve(l, id, account, symbol, side, limit, qty)
    /\ m = AfterReserve(l, id, account, symbol, side, limit, qty)

Settles(l, m, maker, taker, price, qty) ==
    /\ IsFunded
    /\ CanSettle(l, maker, taker, price, qty)
    /\ m = AfterSettle(l, maker, taker, price, qty)

Releases(l, m, id) ==
    /\ id \in DOMAIN l.resv
    /\ CanRelease(l, id)
    /\ m = AfterRelease(l, id)

-----------------------------------------------------------------------------
(* Terms *)

\* The key of a reservation is one the balances have.
LEMMA KeyOfReservation ==
    ASSUME NEW r \in Reservation
    PROVE  ReservationKey(r) \in Keys
BY LedgerConfig DEF Reservation, ReservationKey, AssetFor, Keys, Markets, Sides

\* reserve_units of positive terms is a positive number of units.
LEMMA UnitsPositive ==
    ASSUME NEW side \in Sides, NEW limit \in Nat \ {0}, NEW qty \in Nat \ {0}
    PROVE  ReserveUnits(side, limit, qty) \in Nat \ {0}
<1>1. limit * qty \in Nat \ {0}
  OBVIOUS
<1>2. qty * UnitsPerTenth \in Nat \ {0}
  BY LedgerConfig
<1>3. QED
  BY <1>1, <1>2 DEF ReserveUnits

\* after_fill takes exactly the filled quantity off the remaining one.
LEMMA RemainingAfterFill ==
    ASSUME NEW r \in Reservation, NEW qty \in Int
    PROVE  ReduceReservation(r, qty).remaining = r.remaining - qty
BY DEF ReduceReservation, Reservation

\* A reservation with something left after a fill is a reservation, with the
\* units its own terms ask for.
LEMMA ReducedReservation ==
    ASSUME NEW r \in Reservation, NEW qty \in Nat \ {0}, qty < r.remaining
    PROVE  /\ ReduceReservation(r, qty) \in Reservation
           /\ ReduceReservation(r, qty).remaining = r.remaining - qty
           /\ ReduceReservation(r, qty).units
                = ReserveUnits(r.side, r.limit, r.remaining - qty)
           /\ ReduceReservation(r, qty).side = r.side
           /\ ReduceReservation(r, qty).limit = r.limit
           /\ ReduceReservation(r, qty).account = r.account
           /\ ReduceReservation(r, qty).symbol = r.symbol
<1>1. r.remaining - qty \in Nat \ {0}
  BY DEF Reservation
<1>2. ReserveUnits(r.side, r.limit, r.remaining - qty) \in Nat \ {0}
  BY <1>1, UnitsPositive DEF Reservation
<1>3. QED
  BY <1>1, <1>2 DEF ReduceReservation, Reservation

-----------------------------------------------------------------------------
(* Every operation leaves a ledger of its type *)

\* A successful reserve: what moves from available to reserved fits the integer
\* on both sides, and the reservation filed has the units of its terms.
LEMMA ReserveFits ==
    ASSUME NEW l, NEW m, LedgerFits(l),
           NEW id, NEW account \in Accounts, NEW symbol, NEW side \in Sides,
           NEW limit \in Int, NEW qty \in Int,
           Reserves(l, m, id, account, symbol, side, limit, qty)
    PROVE  LedgerFits(m)
<1>0. l.last \in Nat /\ l.bal \in [Keys -> Balance]
  BY DEF LedgerFits
<1> DEFINE key == <<account, AssetFor(symbol, side)>>
           units == ReserveUnits(side, limit, qty)
           new == [account |-> account, symbol |-> symbol, side |-> side,
                   limit |-> limit, remaining |-> qty, units |-> units]
           moved == [available |-> l.bal[key].available - units,
                     reserved |-> l.bal[key].reserved + units]
<1>1. /\ id = l.last + 1
      /\ symbol \in Markets /\ limit \in Nat \ {0} /\ qty \in Nat \ {0}
      /\ l.bal[key].available >= units
      /\ m = [l EXCEPT !.bal[key] = moved, !.resv = Put(@, id, new)]
  BY DEF Reserves, CanReserve, AfterReserve
<1>2. units \in Nat \ {0}
  BY <1>1, UnitsPositive
<1>3. key \in Keys
  BY <1>1, LedgerConfig DEF AssetFor, Keys, Markets
<1> HIDE DEF units, key
<1>4. moved \in Balance /\ BalanceFits(moved)
  <2>1. l.bal[key] \in Balance /\ BalanceFits(l.bal[key])
    BY <1>3 DEF LedgerFits
  <2>2. QED
    BY <2>1, <1>1, <1>2, LedgerConfig DEF Balance, BalanceFits
<1>5. new \in Reservation
  BY <1>1, <1>2 DEF Reservation
<1> HIDE DEF moved
<1>6. /\ m.last = l.last
      /\ m.bal = [l.bal EXCEPT ![key] = moved]
      /\ m.resv = Put(l.resv, id, new)
      /\ DOMAIN m = {"last", "bal", "resv"}
  BY <1>1 DEF LedgerFits
<1>7. /\ m.bal \in [Keys -> Balance]
      /\ \A k \in Keys : BalanceFits(m.bal[k])
  BY <1>3, <1>4, <1>6 DEF LedgerFits
<1>8. /\ DOMAIN m.resv \subseteq 1..(m.last + 1)
      /\ \A i \in DOMAIN m.resv : m.resv[i] \in Reservation
  BY <1>0, <1>1, <1>5, <1>6 DEF LedgerFits, Put
<1>9. UnitsExact(m)
  BY <1>6 DEF LedgerFits, Put, UnitsExact, units
<1>10. QED
  BY <1>6, <1>7, <1>8, <1>9 DEF LedgerFits

\* A successful settle: CanSettle has looked at every balance the fill touches,
\* and a reduced reservation has the units of what remains of it.
LEMMA SettleFits ==
    ASSUME NEW l, NEW m, LedgerFits(l),
           NEW maker \in DOMAIN l.resv, NEW taker \in DOMAIN l.resv,
           NEW price \in Int, NEW qty \in Int,
           Settles(l, m, maker, taker, price, qty)
    PROVE  LedgerFits(m)
<1> DEFINE next(id) == ReduceReservation(l.resv[id], qty)
           done == {id \in {maker, taker} : next(id).remaining = 0}
           bal == [k \in Keys |-> BalanceAfterFill(l, maker, taker, price, qty, k)]
           resv == [id \in DOMAIN l.resv \ done |->
                      IF id \in {maker, taker} THEN next(id) ELSE l.resv[id]]
<1>1. /\ m = [l EXCEPT !.bal = bal, !.resv = resv]
      /\ FillTermsAgree(l, maker, taker, price, qty)
      /\ \A k \in FillKeys(l, maker, taker) : BalanceFits(bal[k])
  <2>1. FillKeys(l, maker, taker) \subseteq Keys
    BY LedgerConfig DEF FillKeys, Buyer, Seller, LedgerFits, Reservation, Keys, Markets
  <2>2. QED
    BY <2>1 DEF Settles, CanSettle, AfterSettle
<1>2. qty \in Nat \ {0} /\ price \in Nat \ {0}
  BY <1>1 DEF FillTermsAgree
<1>3. \A k \in Keys : bal[k] \in Balance /\ BalanceFits(bal[k])
  <2> SUFFICES ASSUME NEW k \in Keys PROVE bal[k] \in Balance /\ BalanceFits(bal[k])
    OBVIOUS
  <2> DEFINE buyer == Buyer(l, maker, taker)
             seller == Seller(l, maker, taker)
  <2>1. buyer \in Reservation /\ seller \in Reservation
    BY DEF LedgerFits, Buyer, Seller
  <2>2. l.bal[k] \in Balance /\ BalanceFits(l.bal[k])
    BY DEF LedgerFits
  <2> HIDE DEF buyer, seller
  <2> DEFINE cash == price * qty
             backed == buyer.limit * qty
             goods == qty * UnitsPerTenth
  <2>3. cash \in Int /\ backed \in Int /\ goods \in Int
    BY <1>2, <2>1, LedgerConfig DEF Reservation
  <2>4. bal[k] =
          [available |-> l.bal[k].available
                         + At(k, <<buyer.account, QuoteAsset[buyer.symbol]>>, backed - cash)
                         + At(k, <<seller.account, QuoteAsset[buyer.symbol]>>, cash)
                         + At(k, <<buyer.account, BaseAsset[buyer.symbol]>>, goods),
           reserved |-> l.bal[k].reserved
                         - At(k, <<buyer.account, QuoteAsset[buyer.symbol]>>, backed)
                         - At(k, <<seller.account, BaseAsset[buyer.symbol]>>, goods)]
    BY DEF BalanceAfterFill, buyer, seller
  <2> HIDE DEF cash, backed, goods
  <2>5. bal[k].available \in Int /\ bal[k].reserved \in Int
    BY <2>2, <2>3, <2>4 DEF At, Balance
  <2>6. CASE k \in FillKeys(l, maker, taker)
    <3>1. BalanceFits(bal[k])
      BY <2>6, <1>1
    <3>2. QED
      BY <2>4, <2>5, <3>1 DEF BalanceFits, Balance
  <2>7. CASE k \notin FillKeys(l, maker, taker)
    <3>1. /\ k # <<buyer.account, QuoteAsset[buyer.symbol]>>
          /\ k # <<seller.account, QuoteAsset[buyer.symbol]>>
          /\ k # <<buyer.account, BaseAsset[buyer.symbol]>>
          /\ k # <<seller.account, BaseAsset[buyer.symbol]>>
      BY <2>7 DEF FillKeys, buyer, seller
    <3>2. bal[k] = [available |-> l.bal[k].available,
                    reserved  |-> l.bal[k].reserved]
      BY <3>1, <2>2, <2>3, <2>4 DEF At, Balance
    <3>3. QED
      BY <3>2, <2>2 DEF Balance, BalanceFits
  <2>8. QED
    BY <2>6, <2>7
<1> HIDE DEF bal
<1>4. \A id \in DOMAIN resv : /\ resv[id] \in Reservation
                              /\ resv[id].units = ReserveUnits(resv[id].side,
                                    resv[id].limit, resv[id].remaining)
  <2> SUFFICES ASSUME NEW id \in DOMAIN resv
               PROVE  /\ resv[id] \in Reservation
                      /\ resv[id].units = ReserveUnits(resv[id].side,
                                    resv[id].limit, resv[id].remaining)
    OBVIOUS
  <2>1. CASE id \in {maker, taker}
    <3>1. /\ qty <= l.resv[id].remaining
          /\ l.resv[id] \in Reservation
          /\ ReduceReservation(l.resv[id], qty).remaining # 0
          /\ resv[id] = ReduceReservation(l.resv[id], qty)
      BY <2>1, <1>1 DEF FillTermsAgree, LedgerFits
    <3>2. qty < l.resv[id].remaining
      BY <3>1, <1>2, RemainingAfterFill DEF Reservation
    <3>3. QED
      BY <3>1, <3>2, <1>2, ReducedReservation
  <2>2. CASE id \notin {maker, taker}
    BY <2>2 DEF LedgerFits, UnitsExact
  <2>3. QED
    BY <2>1, <2>2
<1>5. DOMAIN resv \subseteq DOMAIN l.resv
  OBVIOUS
<1> HIDE DEF resv
<1>6. /\ m.last = l.last /\ m.bal = bal /\ m.resv = resv
      /\ DOMAIN m = {"last", "bal", "resv"}
  BY <1>1 DEF LedgerFits
<1>7. m.bal \in [Keys -> Balance]
  <2>1. bal = [k \in Keys |-> bal[k]]
    BY DEF bal
  <2>2. QED
    BY <2>1, <1>3, <1>6
<1>8. QED
  BY <1>3, <1>4, <1>5, <1>6, <1>7 DEF LedgerFits, UnitsExact

\* A successful release: the balance given back to fits, and a reservation less
\* leaves the others as they were.
LEMMA ReleaseFits ==
    ASSUME NEW l, NEW m, LedgerFits(l), NEW id, Releases(l, m, id)
    PROVE  LedgerFits(m)
<1> DEFINE key == ReservationKey(l.resv[id])
           back == ReleasedBalance(l, id)
<1>1. /\ m = [l EXCEPT !.bal[key] = back, !.resv = Without(@, {id})]
      /\ BalanceFits(back)
  BY DEF Releases, CanRelease, AfterRelease
<1>2. l.resv[id] \in Reservation /\ key \in Keys
  BY KeyOfReservation DEF LedgerFits, Releases
<1>3. back \in Balance
  <2>1. l.bal[key] \in Balance
    BY <1>2 DEF LedgerFits
  <2>2. QED
    BY <2>1, <1>1, <1>2 DEF ReleasedBalance, Balance, BalanceFits, Reservation
<1> HIDE DEF key, back
<1>4. /\ m.last = l.last
      /\ m.bal = [l.bal EXCEPT ![key] = back]
      /\ m.resv = Without(l.resv, {id})
      /\ DOMAIN m = {"last", "bal", "resv"}
  BY <1>1 DEF LedgerFits
<1>5. /\ m.bal \in [Keys -> Balance]
      /\ \A k \in Keys : BalanceFits(m.bal[k])
  BY <1>1, <1>2, <1>3, <1>4 DEF LedgerFits
<1>6. QED
  BY <1>4, <1>5 DEF LedgerFits, UnitsExact, Without, Restrict

\* Finishing a sequence number changes nothing else.
LEMMA FinishFits ==
    ASSUME NEW l, NEW m, LedgerFits(l), m = AfterFinish(l, l.last + 1)
    PROVE  LedgerFits(m)
<1>0. l.last \in Nat /\ l.bal \in [Keys -> Balance]
  BY DEF LedgerFits
<1>1. m = [l EXCEPT !.last = l.last + 1]
  BY DEF AfterFinish
<1>2. /\ m.last = l.last + 1
      /\ m.bal = l.bal
      /\ m.resv = l.resv
      /\ DOMAIN m = {"last", "bal", "resv"}
  BY <1>1 DEF LedgerFits
<1>3. DOMAIN m.resv \subseteq 1..(m.last + 1)
  BY <1>0, <1>2 DEF LedgerFits
<1>4. QED
  BY <1>0, <1>2, <1>3 DEF LedgerFits, UnitsExact

-----------------------------------------------------------------------------
(* Totals *)

\* What a fill adds to the total an account holds of an asset: the cash and the
\* goods of the fill, whatever was reserved for it.
LEMMA TotalAfterFill ==
    ASSUME NEW l, LedgerFits(l), IsFunded,
           NEW maker \in DOMAIN l.resv, NEW taker \in DOMAIN l.resv,
           NEW price \in Int, NEW qty \in Int, NEW a \in Accounts, NEW asset \in Assets
    PROVE  LET buyer  == Buyer(l, maker, taker)
               seller == Seller(l, maker, taker)
               k == <<a, asset>>
           IN  Total(AfterSettle(l, maker, taker, price, qty), a, asset)
                 = Total(l, a, asset)
                   - At(k, <<buyer.account, QuoteAsset[buyer.symbol]>>, price * qty)
                   + At(k, <<seller.account, QuoteAsset[buyer.symbol]>>, price * qty)
                   + At(k, <<buyer.account, BaseAsset[buyer.symbol]>>, qty * UnitsPerTenth)
                   - At(k, <<seller.account, BaseAsset[buyer.symbol]>>, qty * UnitsPerTenth)
<1> DEFINE buyer == Buyer(l, maker, taker)
           seller == Seller(l, maker, taker)
           k == <<a, asset>>
           cash == price * qty
           backed == buyer.limit * qty
           goods == qty * UnitsPerTenth
           next == AfterSettle(l, maker, taker, price, qty)
<1>1. buyer \in Reservation /\ seller \in Reservation
  BY DEF LedgerFits, Buyer, Seller
<1>2. k \in Keys /\ l.bal[k] \in Balance
  BY DEF LedgerFits, Keys
<1>3. next.bal[k] = BalanceAfterFill(l, maker, taker, price, qty, k)
  BY <1>2 DEF AfterSettle, LedgerFits
<1>4. cash \in Int /\ backed \in Int /\ goods \in Int
  BY <1>1, LedgerConfig DEF Reservation
<1>5. next.bal[k] =
        [available |-> l.bal[k].available
                       + At(k, <<buyer.account, QuoteAsset[buyer.symbol]>>, backed - cash)
                       + At(k, <<seller.account, QuoteAsset[buyer.symbol]>>, cash)
                       + At(k, <<buyer.account, BaseAsset[buyer.symbol]>>, goods),
         reserved |-> l.bal[k].reserved
                       - At(k, <<buyer.account, QuoteAsset[buyer.symbol]>>, backed)
                       - At(k, <<seller.account, BaseAsset[buyer.symbol]>>, goods)]
  BY <1>3 DEF BalanceAfterFill
<1> HIDE DEF cash, backed, goods, next, buyer, seller, k
<1>6. next.bal[k].available + next.bal[k].reserved
        = l.bal[k].available + l.bal[k].reserved
          - At(k, <<buyer.account, QuoteAsset[buyer.symbol]>>, cash)
          + At(k, <<seller.account, QuoteAsset[buyer.symbol]>>, cash)
          + At(k, <<buyer.account, BaseAsset[buyer.symbol]>>, goods)
          - At(k, <<seller.account, BaseAsset[buyer.symbol]>>, goods)
  BY <1>2, <1>4, <1>5 DEF At, Balance
<1>7. /\ Total(next, a, asset) = next.bal[k].available + next.bal[k].reserved
      /\ Total(l, a, asset) = l.bal[k].available + l.bal[k].reserved
  BY Zenon DEF Total, k
<1>8. Total(next, a, asset)
        = Total(l, a, asset)
          - At(k, <<buyer.account, QuoteAsset[buyer.symbol]>>, cash)
          + At(k, <<seller.account, QuoteAsset[buyer.symbol]>>, cash)
          + At(k, <<buyer.account, BaseAsset[buyer.symbol]>>, goods)
          - At(k, <<seller.account, BaseAsset[buyer.symbol]>>, goods)
  BY <1>2, <1>4, <1>6, <1>7 DEF At, Balance
<1>9. QED
  BY <1>8, Zenon DEF cash, goods, next, buyer, seller, k

-----------------------------------------------------------------------------
(* Obligations *)

\* Fewer tenths of the same terms never ask for more units.
LEMMA UnitsMonotone ==
    ASSUME NEW side \in Sides, NEW limit \in Nat \ {0},
           NEW few \in Nat \ {0}, NEW many \in Nat \ {0}, few <= many
    PROVE  ReserveUnits(side, limit, few) <= ReserveUnits(side, limit, many)
<1>1. ASSUME NEW c \in Nat \ {0} PROVE c * few <= c * many /\ few * c <= many * c
  <2> DEFINE more == many - few
  <2>1. more \in Nat /\ many = few + more
    OBVIOUS
  <2>2. c * many = c * few + c * more /\ many * c = few * c + more * c
    BY <2>1
  <2>3. c * more \in Nat /\ more * c \in Nat /\ c * few \in Int /\ few * c \in Int
    BY <2>1
  <2>4. QED
    BY <2>2, <2>3
<1>2. limit * few <= limit * many
  BY <1>1
<1>3. few * UnitsPerTenth <= many * UnitsPerTenth
  BY <1>1, LedgerConfig
<1>4. QED
  BY <1>2, <1>3 DEF ReserveUnits

\* What one id is owed of a key.
Owed(resv, key, id) ==
    IF id \in DOMAIN resv /\ ReservationKey(resv[id]) = key THEN resv[id].units ELSE 0

\* The ids that hold units of a key, and the sum of their units.
Holders(resv, key) == {id \in DOMAIN resv : ReservationKey(resv[id]) = key}
UnitsOf(resv, key) == [id \in Holders(resv, key) |-> resv[id].units]

\* The obligations of a key, which the code adds up in a loop, as the sum of a
\* function on a set, which is the form the lemmas about sums take.
LEMMA ObligationsAsSum ==
    ASSUME NEW l, NEW key
    PROVE  Obligations(l, key) = SumFunctionOnSet(UnitsOf(l.resv, key), Holders(l.resv, key))
BY SumFunctionIsSum DEF Obligations, UnitsOf, Holders

\* A map of reservations with finitely many ids has integer sums, and no
\* reservation is owed more than its key's obligations.
LEMMA ObligationsBoundEach ==
    ASSUME NEW l, IsFiniteSet(DOMAIN l.resv),
           \A id \in DOMAIN l.resv : l.resv[id] \in Reservation,
           NEW key
    PROVE  /\ Obligations(l, key) \in Nat
           /\ \A id \in DOMAIN l.resv :
                ReservationKey(l.resv[id]) = key => l.resv[id].units <= Obligations(l, key)
<1> DEFINE holders == Holders(l.resv, key)
           held == UnitsOf(l.resv, key)
<1>1. IsFiniteSet(holders)
  BY FS_Subset DEF Holders
<1>2. \A id \in holders : held[id] = l.resv[id].units /\ held[id] \in Nat
  BY DEF UnitsOf, Holders, Reservation
<1>3. /\ SumFunctionOnSet(held, holders) \in Nat
      /\ \A id \in holders : held[id] <= SumFunctionOnSet(held, holders)
  <2> HIDE DEF held, holders
  <2>1. QED
    BY <1>1, <1>2, SumBoundsEach
<1>4. Obligations(l, key) = SumFunctionOnSet(held, holders)
  BY ObligationsAsSum
<1> HIDE DEF held
<1>5. QED
  BY <1>2, <1>3, <1>4 DEF Holders

\* The sum of the others, when one id is set apart.
LEMMA ObligationsWithout ==
    ASSUME NEW l, IsFiniteSet(DOMAIN l.resv),
           \A i \in DOMAIN l.resv : l.resv[i] \in Reservation,
           NEW key, NEW id
    PROVE  LET others == Holders(l.resv, key) \ {id}
           IN  /\ IsFiniteSet(others)
               /\ SumFunctionOnSet(UnitsOf(l.resv, key), others) \in Int
               /\ Obligations(l, key)
                    = Owed(l.resv, key, id) + SumFunctionOnSet(UnitsOf(l.resv, key), others)
<1> DEFINE holders == Holders(l.resv, key)
           held == UnitsOf(l.resv, key)
           others == holders \ {id}
<1>1. IsFiniteSet(holders) /\ IsFiniteSet(others)
  BY FS_Subset, FS_RemoveElement DEF Holders
<1>2. \A i \in holders : held[i] = l.resv[i].units /\ held[i] \in Int
  BY DEF UnitsOf, Holders, Reservation
<1>3. Obligations(l, key) = SumFunctionOnSet(held, holders)
  BY ObligationsAsSum
<1>4. id \in holders => held[id] = Owed(l.resv, key, id)
  BY <1>2 DEF Holders, Owed
<1>5. id \notin holders => Owed(l.resv, key, id) = 0
  BY DEF Holders, Owed
<1> HIDE DEF holders, held
<1>6. SumFunctionOnSet(held, others) \in Int
  BY <1>1, <1>2, SumIsInteger
<1>7. CASE id \in holders
  <2>1. SumFunctionOnSet(held, holders) = held[id] + SumFunctionOnSet(held, holders \ {id})
    BY <1>1, <1>2, <1>7, SumTakesAny
  <2>2. QED
    BY <1>1, <1>3, <1>4, <1>6, <1>7, <2>1 DEF holders, held
<1>8. CASE id \notin holders
  <2>1. others = holders
    BY <1>8
  <2> HIDE DEF others
  <2>2. Obligations(l, key) = Owed(l.resv, key, id) + SumFunctionOnSet(held, others)
    BY <1>3, <1>5, <1>6, <1>8, <2>1
  <2>3. QED
    BY <1>1, <1>6, <2>2 DEF holders, held, others
<1>9. QED
  BY <1>7, <1>8

\* When only one id changes, the obligations of every key change by what that id
\* is owed.
LEMMA OneReservationChanges ==
    ASSUME NEW l, NEW m, IsFiniteSet(DOMAIN l.resv), IsFiniteSet(DOMAIN m.resv),
           \A i \in DOMAIN l.resv : l.resv[i] \in Reservation,
           \A i \in DOMAIN m.resv : m.resv[i] \in Reservation,
           NEW key, NEW id,
           Holders(l.resv, key) \ {id} = Holders(m.resv, key) \ {id},
           \A i \in Holders(l.resv, key) \ {id} : l.resv[i].units = m.resv[i].units
    PROVE  Obligations(m, key)
             = Obligations(l, key) - Owed(l.resv, key, id) + Owed(m.resv, key, id)
<1> DEFINE others == Holders(l.resv, key) \ {id}
           lsum == SumFunctionOnSet(UnitsOf(l.resv, key), others)
           msum == SumFunctionOnSet(UnitsOf(m.resv, key), others)
<1>1. /\ IsFiniteSet(others) /\ lsum \in Int
      /\ Obligations(l, key) = Owed(l.resv, key, id) + lsum
  BY ObligationsWithout
<1>2. msum \in Int /\ Obligations(m, key) = Owed(m.resv, key, id) + msum
  <2> DEFINE same == Holders(m.resv, key) \ {id}
             sum == SumFunctionOnSet(UnitsOf(m.resv, key), same)
  <2>1. sum \in Int /\ Obligations(m, key) = Owed(m.resv, key, id) + sum
    BY ObligationsWithout
  <2>2. same = others
    OBVIOUS
  <2> HIDE DEF same, others
  <2>3. QED
    BY <2>1, <2>2
<1>3. \A i \in others : UnitsOf(l.resv, key)[i] = UnitsOf(m.resv, key)[i]
  BY DEF UnitsOf
<1>4. lsum = msum
  <2> HIDE DEF others
  <2>1. QED
    BY <1>1, <1>3, SumOfSame
<1>5. Owed(l.resv, key, id) \in Int /\ Owed(m.resv, key, id) \in Int
  BY DEF Owed, Reservation
<1> HIDE DEF lsum, msum
<1>6. QED
  BY <1>1, <1>2, <1>4, <1>5

\* Ids are consumed sequence numbers, so there are finitely many.
LEMMA FinitelyManyReservations ==
    ASSUME NEW l, l.last \in Nat, DOMAIN l.resv \subseteq 1..(l.last + 1)
    PROVE  IsFiniteSet(DOMAIN l.resv)
<1>1. IsFiniteSet(1..(l.last + 1))
  BY FS_Interval
<1>2. QED
  BY <1>1, FS_Subset

\* The one step of every operation that touches a reservation: if the reserved
\* balances move with what the changed id is owed, the reserves stay backed.
LEMMA BackingFollows ==
    ASSUME NEW l, NEW m, LedgerFits(l), LedgerFits(m), ReservesBacked(l), NEW id, NEW key \in Keys,
           Holders(l.resv, key) \ {id} = Holders(m.resv, key) \ {id},
           \A i \in Holders(l.resv, key) \ {id} :
              l.resv[i].units = m.resv[i].units,
           m.bal[key].reserved = l.bal[key].reserved
              - Owed(l.resv, key, id) + Owed(m.resv, key, id)
    PROVE  m.bal[key].reserved = Obligations(m, key)
<1>1. /\ IsFiniteSet(DOMAIN l.resv) /\ IsFiniteSet(DOMAIN m.resv)
      /\ \A i \in DOMAIN l.resv : l.resv[i] \in Reservation
      /\ \A i \in DOMAIN m.resv : m.resv[i] \in Reservation
  BY FinitelyManyReservations DEF LedgerFits
<1>2. Obligations(m, key) = Obligations(l, key)
        - Owed(l.resv, key, id) + Owed(m.resv, key, id)
  BY <1>1, OneReservationChanges
<1>3. l.bal[key].reserved = Obligations(l, key)
  BY DEF ReservesBacked
<1>4. QED
  BY <1>2, <1>3

\* reserve moves exactly the units the new reservation is owed.
LEMMA ReserveKeepsBacking ==
    ASSUME NEW l, NEW m, LedgerFits(l), LedgerFits(m), ReservesBacked(l),
           NEW id, NEW account \in Accounts, NEW symbol \in Symbols,
           NEW side \in Sides, NEW limit \in Int, NEW qty \in Int,
           Reserves(l, m, id, account, symbol, side, limit, qty)
    PROVE  ReservesBacked(m)
<1> DEFINE key == <<account, AssetFor(symbol, side)>>
           units == ReserveUnits(side, limit, qty)
           new == [account |-> account, symbol |-> symbol, side |-> side,
                   limit |-> limit, remaining |-> qty, units |-> units]
           moved == [available |-> l.bal[key].available - units,
                     reserved |-> l.bal[key].reserved + units]
<1>1. /\ id \notin DOMAIN l.resv
      /\ symbol \in Markets /\ limit \in Nat \ {0} /\ qty \in Nat \ {0}
      /\ m.bal = [l.bal EXCEPT ![key] = moved]
      /\ m.resv = Put(l.resv, id, new)
  BY DEF Reserves, CanReserve, AfterReserve, LedgerFits
<1>2. units \in Nat \ {0}
  BY <1>1, UnitsPositive
<1>3. ReservationKey(new) = key /\ new.units = units
  BY DEF ReservationKey
<1> HIDE DEF units, key, new
<1>4. /\ DOMAIN m.resv = DOMAIN l.resv \cup {id}
      /\ m.resv[id] = new
      /\ \A i \in DOMAIN l.resv : m.resv[i] = l.resv[i]
  BY <1>1 DEF Put
<1> SUFFICES ASSUME NEW k \in Keys
             PROVE  m.bal[k].reserved = Obligations(m, k)
  BY DEF ReservesBacked
<1>5. Owed(l.resv, k, id) = 0
  BY <1>1 DEF Owed
<1>6. Owed(m.resv, k, id) = IF k = key THEN units ELSE 0
  BY <1>3, <1>4 DEF Owed
<1>7. m.bal[k].reserved = l.bal[k].reserved + (IF k = key THEN units ELSE 0)
  <2>1. l.bal \in [Keys -> Balance]
    BY DEF LedgerFits
  <2>2. CASE k = key
    BY <1>1, <1>2, <2>1, <2>2 DEF Balance
  <2>3. CASE k # key
    BY <1>1, <1>2, <2>1, <2>3 DEF Balance
  <2>4. QED
    BY <2>2, <2>3
<1>8. l.bal[k].reserved \in Int
  BY DEF LedgerFits, Balance
<1>9. m.bal[k].reserved = l.bal[k].reserved
        - Owed(l.resv, k, id) + Owed(m.resv, k, id)
  BY <1>2, <1>5, <1>6, <1>7, <1>8
<1>10. /\ Holders(l.resv, k) \ {id} = Holders(m.resv, k) \ {id}
       /\ \A i \in Holders(l.resv, k) \ {id} :
             l.resv[i].units = m.resv[i].units
  BY <1>4 DEF Holders
<1>11. QED
  BY <1>9, <1>10, BackingFollows

\* release gives back exactly the units the released reservation was owed.
LEMMA ReleaseKeepsBacking ==
    ASSUME NEW l, NEW m, LedgerFits(l), LedgerFits(m), ReservesBacked(l),
           NEW id \in DOMAIN l.resv, Releases(l, m, id)
    PROVE  ReservesBacked(m)
<1> DEFINE key == ReservationKey(l.resv[id])
           back == ReleasedBalance(l, id)
<1>1. /\ m.bal = [l.bal EXCEPT ![key] = back]
      /\ m.resv = Without(l.resv, {id})
  BY DEF Releases, AfterRelease, LedgerFits
<1>2. /\ DOMAIN m.resv = DOMAIN l.resv \ {id}
      /\ \A i \in DOMAIN m.resv : m.resv[i] = l.resv[i]
  BY <1>1 DEF Without, Restrict
<1>3. back.reserved = l.bal[key].reserved - l.resv[id].units
  BY DEF ReleasedBalance
<1>4. l.resv[id].units \in Nat
  BY DEF LedgerFits, Reservation
<1> SUFFICES ASSUME NEW k \in Keys
             PROVE  m.bal[k].reserved = Obligations(m, k)
  BY DEF ReservesBacked
<1>5. Owed(l.resv, k, id) = IF k = key THEN l.resv[id].units ELSE 0
  BY DEF Owed
<1>6. Owed(m.resv, k, id) = 0
  BY <1>2 DEF Owed
<1> HIDE DEF key, back
<1>7. l.bal[k].reserved \in Int /\ l.bal \in [Keys -> Balance]
  BY DEF LedgerFits, Balance
<1>8. m.bal[k].reserved = l.bal[k].reserved
        - Owed(l.resv, k, id) + Owed(m.resv, k, id)
  <2>1. CASE k = key
    BY <1>1, <1>3, <1>4, <1>5, <1>6, <1>7, <2>1
  <2>2. CASE k # key
    BY <1>1, <1>5, <1>6, <1>7, <2>2
  <2>3. QED
    BY <2>1, <2>2
<1>9. /\ Holders(l.resv, k) \ {id} = Holders(m.resv, k) \ {id}
       /\ \A i \in Holders(l.resv, k) \ {id} :
             l.resv[i].units = m.resv[i].units
  BY <1>2 DEF Holders
<1>10. QED
  BY <1>8, <1>9, BackingFollows

\* A fill takes off a reservation exactly the units its own terms ask for the
\* filled quantity, also when nothing is left of it.
LEMMA FillTakesItsUnits ==
    ASSUME NEW r \in Reservation, NEW qty \in Nat \ {0}, qty <= r.remaining,
           r.units = ReserveUnits(r.side, r.limit, r.remaining)
    PROVE  /\ ReserveUnits(r.side, r.limit, qty) \in Nat
           /\ (IF qty = r.remaining THEN 0
               ELSE ReserveUnits(r.side, r.limit, r.remaining - qty))
                = r.units - ReserveUnits(r.side, r.limit, qty)
<1> DEFINE left == r.remaining - qty
<1>1. left \in Nat /\ r.remaining = left + qty /\ r.limit \in Nat
  BY DEF Reservation
<1>2. UnitsPerTenth \in Nat
  BY LedgerConfig
<1>3. r.limit * r.remaining = r.limit * left + r.limit * qty
  BY <1>1
<1>4. r.remaining * UnitsPerTenth = left * UnitsPerTenth + qty * UnitsPerTenth
  BY <1>1, <1>2
<1>5. /\ r.limit * left \in Nat /\ r.limit * qty \in Nat
      /\ left * UnitsPerTenth \in Nat /\ qty * UnitsPerTenth \in Nat
  BY <1>1, <1>2
<1>6. ASSUME qty = r.remaining PROVE r.limit * left = 0 /\ left * UnitsPerTenth = 0
  <2>1. left = 0
    BY <1>6
  <2> HIDE DEF left
  <2>2. QED
    BY <1>1, <1>2, <2>1
<1>7. CASE r.side = "buy"
  <2>1. /\ ReserveUnits(r.side, r.limit, qty) = r.limit * qty
        /\ ReserveUnits(r.side, r.limit, left) = r.limit * left
        /\ r.units = r.limit * r.remaining
    BY <1>7 DEF ReserveUnits
  <2>2. qty = r.remaining => r.limit * left = 0
    BY <1>6
  <2>3. QED
    BY <1>3, <1>5, <2>1, <2>2
<1>8. CASE r.side # "buy"
  <2>1. /\ ReserveUnits(r.side, r.limit, qty) = qty * UnitsPerTenth
        /\ ReserveUnits(r.side, r.limit, left) = left * UnitsPerTenth
        /\ r.units = r.remaining * UnitsPerTenth
    BY <1>8 DEF ReserveUnits
  <2>2. qty = r.remaining => left * UnitsPerTenth = 0
    BY <1>6
  <2>3. QED
    BY <1>4, <1>5, <2>1, <2>2
<1>9. QED
  BY <1>7, <1>8

\* What a fill leaves of the two reservations it names.
LeavesFilled(l, m, maker, taker, qty) ==
    /\ qty \in Nat \ {0}
    /\ DOMAIN m.resv \subseteq DOMAIN l.resv
    /\ \A i \in DOMAIN l.resv \ {maker, taker} :
          i \in DOMAIN m.resv /\ m.resv[i] = l.resv[i]
    /\ \A id \in {maker, taker} :
          LET r == l.resv[id]
          IN  /\ id \in DOMAIN m.resv =>
                    ReservationKey(m.resv[id]) = ReservationKey(r)
              /\ \A k \in Keys : Owed(m.resv, k, id)
                    = Owed(l.resv, k, id)
                      - At(k, ReservationKey(r), ReserveUnits(r.side, r.limit, qty))

\* After a fill the two reservations are reduced by its quantity, gone where
\* nothing remains, and every other one stands as it was.
LEMMA FilledReservations ==
    ASSUME NEW l, NEW m, LedgerFits(l),
           NEW maker \in DOMAIN l.resv, NEW taker \in DOMAIN l.resv,
           NEW price \in Int, NEW qty \in Int,
           Settles(l, m, maker, taker, price, qty)
    PROVE  LeavesFilled(l, m, maker, taker, qty)
<1> DEFINE next(id) == ReduceReservation(l.resv[id], qty)
           done == {id \in {maker, taker} : next(id).remaining = 0}
<1>1. /\ qty \in Nat \ {0}
      /\ qty <= l.resv[maker].remaining
      /\ qty <= l.resv[taker].remaining
  BY DEF Settles, CanSettle, FillTermsAgree
<1>2. m.resv = [id \in DOMAIN l.resv \ done |->
                         IF id \in {maker, taker} THEN next(id) ELSE l.resv[id]]
  BY DEF Settles, AfterSettle, LedgerFits
<1>3. DOMAIN m.resv \subseteq DOMAIN l.resv
  BY <1>2
<1>4. \A i \in DOMAIN l.resv \ {maker, taker} :
         i \in DOMAIN m.resv /\ m.resv[i] = l.resv[i]
  BY <1>2
<1>5. ASSUME NEW id \in {maker, taker}
      PROVE  LET r == l.resv[id]
             IN  /\ id \in DOMAIN m.resv =>
                       ReservationKey(m.resv[id]) = ReservationKey(r)
                 /\ \A k \in Keys : Owed(m.resv, k, id)
                       = Owed(l.resv, k, id)
                         - At(k, ReservationKey(r), ReserveUnits(r.side, r.limit, qty))
  <2> DEFINE r == l.resv[id]
             taken == ReserveUnits(r.side, r.limit, qty)
  <2>1. /\ id \in DOMAIN l.resv /\ r \in Reservation /\ qty <= r.remaining
        /\ r.units = ReserveUnits(r.side, r.limit, r.remaining)
    BY <1>1 DEF LedgerFits, UnitsExact
  <2>2. /\ taken \in Nat /\ r.units \in Nat
        /\ (IF qty = r.remaining THEN 0
            ELSE ReserveUnits(r.side, r.limit, r.remaining - qty)) = r.units - taken
    BY <1>1, <2>1, FillTakesItsUnits DEF Reservation
  <2>3. id \in DOMAIN m.resv <=> next(id).remaining # 0
    BY <1>2, <2>1
  <2>4. next(id).remaining = r.remaining - qty
    BY <1>1, <2>1, RemainingAfterFill
  <2>5. CASE qty = r.remaining
    <3>1. id \notin DOMAIN m.resv
      BY <2>1, <2>3, <2>4, <2>5 DEF Reservation
    <3>2. taken = r.units
      BY <2>2, <2>5
    <3> HIDE DEF taken
    <3>3. \A k \in Keys : Owed(m.resv, k, id)
             = Owed(l.resv, k, id) - At(k, ReservationKey(r), taken)
      BY <2>1, <2>2, <3>1, <3>2 DEF Owed, At
    <3>4. QED
      BY <3>1, <3>3 DEF taken
  <2>6. CASE qty # r.remaining
    <3>1. qty < r.remaining
      BY <1>1, <2>1, <2>6 DEF Reservation
    <3>2. /\ next(id).remaining = r.remaining - qty
          /\ next(id).units = ReserveUnits(r.side, r.limit, r.remaining - qty)
          /\ next(id).side = r.side /\ next(id).account = r.account
          /\ next(id).symbol = r.symbol
      BY <1>1, <2>1, <3>1, ReducedReservation
    <3>3. id \in DOMAIN m.resv
      BY <1>1, <2>1, <2>3, <3>1, <3>2 DEF Reservation
    <3>4. m.resv[id] = next(id)
      BY <1>2, <3>3
    <3>5. ReservationKey(m.resv[id]) = ReservationKey(r)
      BY <3>2, <3>4 DEF ReservationKey
    <3>6. m.resv[id].units = r.units - taken
      BY <2>2, <2>6, <3>2, <3>4
    <3> HIDE DEF taken, next
    <3>7. \A k \in Keys : Owed(m.resv, k, id)
             = Owed(l.resv, k, id) - At(k, ReservationKey(r), taken)
      BY <2>1, <2>2, <3>3, <3>5, <3>6 DEF Owed, At
    <3>8. QED
      BY <3>5, <3>7 DEF taken
  <2>7. QED
    BY <2>5, <2>6
<1>6. QED
  BY <1>1, <1>3, <1>4, <1>5 DEF LeavesFilled

\* A fill uses up the buyer's cash and the seller's goods, each reserved by the
\* reservation that gives them.
LEMMA SettleKeepsBacking ==
    ASSUME NEW l, NEW m, LedgerFits(l), LedgerFits(m), ReservesBacked(l), IsFunded,
           NEW maker \in DOMAIN l.resv, NEW taker \in DOMAIN l.resv,
           NEW price \in Int, NEW qty \in Int,
           Settles(l, m, maker, taker, price, qty)
    PROVE  ReservesBacked(m)
<1> DEFINE buyer == Buyer(l, maker, taker)
           seller == Seller(l, maker, taker)
           b == IF l.resv[maker].side = "buy" THEN maker ELSE taker
           s == IF l.resv[maker].side = "buy" THEN taker ELSE maker
           cash == buyer.limit * qty
           goods == qty * UnitsPerTenth
           buyerKey == <<buyer.account, QuoteAsset[buyer.symbol]>>
           sellerKey == <<seller.account, BaseAsset[buyer.symbol]>>
<1>1. FillTermsAgree(l, maker, taker, price, qty)
  BY DEF Settles, CanSettle
<1>2. /\ maker # taker /\ {b, s} = {maker, taker} /\ b # s
      /\ buyer = l.resv[b] /\ seller = l.resv[s]
      /\ buyer.side = "buy" /\ seller.side = "sell" /\ seller.symbol = buyer.symbol
      /\ buyer \in Reservation /\ seller \in Reservation
  BY <1>1 DEF FillTermsAgree, Buyer, Seller, LedgerFits, Reservation, Sides
<1>3. ReservationKey(buyer) = buyerKey /\ ReservationKey(seller) = sellerKey
  BY <1>2 DEF ReservationKey, AssetFor
<1>4. buyerKey # sellerKey
  BY <1>2, LedgerConfig DEF Reservation, Markets
<1>5. /\ ReserveUnits(buyer.side, buyer.limit, qty) = cash
      /\ ReserveUnits(seller.side, seller.limit, qty) = goods
  BY <1>2 DEF ReserveUnits
<1>6. cash \in Int /\ goods \in Int
  BY <1>2, LedgerConfig DEF Reservation
<1>7. m.bal = [k \in Keys |-> BalanceAfterFill(l, maker, taker, price, qty, k)]
  BY DEF Settles, AfterSettle, LedgerFits
<1>8. \A k \in Keys : m.bal[k].reserved
          = l.bal[k].reserved - At(k, buyerKey, cash) - At(k, sellerKey, goods)
  BY <1>7 DEF BalanceAfterFill
<1> HIDE DEF buyer, seller, b, s, cash, goods, buyerKey, sellerKey
<1>9. /\ \A i \in DOMAIN l.resv \ {b, s} :
             i \in DOMAIN m.resv /\ m.resv[i] = l.resv[i]
      /\ DOMAIN m.resv \subseteq DOMAIN l.resv
      /\ b \in DOMAIN m.resv => ReservationKey(m.resv[b]) = buyerKey
      /\ s \in DOMAIN m.resv => ReservationKey(m.resv[s]) = sellerKey
      /\ \A k \in Keys :
            /\ Owed(m.resv, k, b) = Owed(l.resv, k, b) - At(k, buyerKey, cash)
            /\ Owed(m.resv, k, s) = Owed(l.resv, k, s) - At(k, sellerKey, goods)
  <2>0. LeavesFilled(l, m, maker, taker, qty)
    BY FilledReservations
  <2>1. b \in {maker, taker} /\ s \in {maker, taker}
    BY <1>2
  <2>2. \A id \in {maker, taker} :
           LET r == l.resv[id]
           IN  /\ id \in DOMAIN m.resv =>
                     ReservationKey(m.resv[id]) = ReservationKey(r)
               /\ \A k \in Keys : Owed(m.resv, k, id)
                     = Owed(l.resv, k, id)
                       - At(k, ReservationKey(r), ReserveUnits(r.side, r.limit, qty))
    BY <2>0 DEF LeavesFilled
  <2>3. /\ b \in DOMAIN m.resv => ReservationKey(m.resv[b]) = buyerKey
        /\ \A k \in Keys :
              Owed(m.resv, k, b) = Owed(l.resv, k, b) - At(k, buyerKey, cash)
    BY <1>2, <1>3, <1>5, <2>1, <2>2
  <2>4. /\ s \in DOMAIN m.resv => ReservationKey(m.resv[s]) = sellerKey
        /\ \A k \in Keys :
              Owed(m.resv, k, s) = Owed(l.resv, k, s) - At(k, sellerKey, goods)
    BY <1>2, <1>3, <1>5, <2>1, <2>2
  <2>5. /\ \A i \in DOMAIN l.resv \ {maker, taker} :
              i \in DOMAIN m.resv /\ m.resv[i] = l.resv[i]
        /\ DOMAIN m.resv \subseteq DOMAIN l.resv
    BY <2>0 DEF LeavesFilled
  <2>6. QED
    BY <1>2, <2>3, <2>4, <2>5
<1> SUFFICES ASSUME NEW k \in Keys
             PROVE  m.bal[k].reserved = Obligations(m, k)
  BY DEF ReservesBacked
<1>10. l.bal[k].reserved \in Int /\ {b, s} \subseteq DOMAIN l.resv
  <2>1. l.bal[k].reserved \in Int
    BY DEF LedgerFits, Balance
  <2>2. {b, s} \subseteq DOMAIN l.resv
    BY <1>2
  <2>3. QED
    BY <2>1, <2>2
<1>11. Owed(l.resv, k, b) \in Int /\ Owed(l.resv, k, s) \in Int
  BY <1>10 DEF Owed, LedgerFits, Reservation
<1>12. /\ k # buyerKey => At(k, buyerKey, cash) = 0
       /\ k # sellerKey => At(k, sellerKey, goods) = 0
       /\ At(k, buyerKey, cash) \in Int /\ At(k, sellerKey, goods) \in Int
  BY <1>6 DEF At
<1>13. CASE k = sellerKey
  <2>1. /\ Holders(l.resv, k) \ {s} = Holders(m.resv, k) \ {s}
        /\ \A i \in Holders(l.resv, k) \ {s} :
              l.resv[i].units = m.resv[i].units
    BY <1>2, <1>3, <1>4, <1>9, <1>13 DEF Holders
  <2>2. m.bal[k].reserved
          = l.bal[k].reserved - Owed(l.resv, k, s) + Owed(m.resv, k, s)
    BY <1>4, <1>8, <1>9, <1>10, <1>11, <1>12, <1>13
  <2>3. QED
    BY <2>1, <2>2, BackingFollows
<1>14. CASE k # sellerKey
  <2>1. /\ Holders(l.resv, k) \ {b} = Holders(m.resv, k) \ {b}
        /\ \A i \in Holders(l.resv, k) \ {b} :
              l.resv[i].units = m.resv[i].units
    BY <1>2, <1>3, <1>9, <1>14 DEF Holders
  <2>2. m.bal[k].reserved
          = l.bal[k].reserved - Owed(l.resv, k, b) + Owed(m.resv, k, b)
    BY <1>8, <1>9, <1>10, <1>11, <1>12, <1>14
  <2>3. QED
    BY <2>1, <2>2, BackingFollows
<1>15. QED
  BY <1>13, <1>14

\* Whatever a live reservation is owed is reserved, and it can be given back.
LEMMA BackingIsReserved ==
    ASSUME NEW l, LedgerFits(l), ReservesBacked(l), NEW id \in DOMAIN l.resv
    PROVE  /\ ReservationKey(l.resv[id]) \in Keys
           /\ l.resv[id].units \in Nat
           /\ l.resv[id].units <= l.bal[ReservationKey(l.resv[id])].reserved
<1>1. /\ l.resv[id] \in Reservation /\ IsFiniteSet(DOMAIN l.resv)
      /\ \A i \in DOMAIN l.resv : l.resv[i] \in Reservation
  BY FinitelyManyReservations DEF LedgerFits
<1>2. ReservationKey(l.resv[id]) \in Keys
  BY <1>1, KeyOfReservation
<1>3. l.resv[id].units <= Obligations(l, ReservationKey(l.resv[id]))
  BY <1>1, ObligationsBoundEach
<1>4. QED
  BY <1>1, <1>2, <1>3 DEF Reservation, ReservesBacked

\* While reservations are backed, a release never fails: what it gives back is in
\* the reserved balance, and the sum of a balance's halves does not change.
LEMMA BackedCanRelease ==
    ASSUME NEW l, LedgerFits(l), ReservesBacked(l), NEW id
    PROVE  CanRelease(l, id)
<1> SUFFICES ASSUME id \in DOMAIN l.resv PROVE BalanceFits(ReleasedBalance(l, id))
  BY DEF CanRelease
<1> DEFINE key == ReservationKey(l.resv[id])
           units == l.resv[id].units
<1>1. /\ l.bal[key] \in Balance /\ BalanceFits(l.bal[key])
      /\ units \in Nat /\ units <= l.bal[key].reserved
  BY BackingIsReserved DEF LedgerFits
<1>2. /\ ReleasedBalance(l, id).available = l.bal[key].available + units
      /\ ReleasedBalance(l, id).reserved = l.bal[key].reserved - units
  BY DEF ReleasedBalance
<1> HIDE DEF key, units
<1>3. QED
  BY <1>1, <1>2, LedgerConfig DEF BalanceFits, Balance

\* reserve and release only move units between available and reserved.
LEMMA ReserveKeepsTotals ==
    ASSUME NEW l, NEW m, LedgerFits(l),
           NEW id, NEW account \in Accounts, NEW symbol, NEW side \in Sides,
           NEW limit \in Int, NEW qty \in Int,
           Reserves(l, m, id, account, symbol, side, limit, qty),
           NEW a \in Accounts, NEW asset \in Assets
    PROVE  Total(m, a, asset) = Total(l, a, asset)
<1> DEFINE key == <<account, AssetFor(symbol, side)>>
           units == ReserveUnits(side, limit, qty)
           moved == [available |-> l.bal[key].available - units,
                     reserved |-> l.bal[key].reserved + units]
<1>1. /\ symbol \in Markets /\ limit \in Nat \ {0} /\ qty \in Nat \ {0}
      /\ m.bal = [l.bal EXCEPT ![key] = moved]
  BY DEF Reserves, CanReserve, AfterReserve, LedgerFits
<1>2. units \in Nat
  BY <1>1, UnitsPositive
<1> HIDE DEF units
<1>3. <<a, asset>> \in Keys /\ l.bal[<<a, asset>>] \in Balance
  BY DEF LedgerFits, Keys
<1>4. QED
  BY <1>1, <1>2, <1>3 DEF LedgerFits, Balance, Total

\* A release moves units between the halves of one balance, so that no total changes.
LEMMA ReleaseKeepsTotals ==
    ASSUME NEW l, NEW m, LedgerFits(l), NEW id, Releases(l, m, id),
           NEW a \in Accounts, NEW asset \in Assets
    PROVE  Total(m, a, asset) = Total(l, a, asset)
<1> DEFINE key == ReservationKey(l.resv[id])
           back == ReleasedBalance(l, id)
<1>1. m.bal = [l.bal EXCEPT ![key] = back]
  BY DEF Releases, AfterRelease, LedgerFits
<1>2. l.resv[id] \in Reservation /\ key \in Keys
  BY KeyOfReservation DEF LedgerFits, Releases
<1>3. <<a, asset>> \in Keys /\ l.bal[<<a, asset>>] \in Balance
  BY DEF LedgerFits, Keys
<1>4. l.bal[key] \in Balance /\ l.resv[id].units \in Nat
  BY <1>2 DEF LedgerFits, Reservation
<1>5. back.available + back.reserved = l.bal[key].available + l.bal[key].reserved
  BY <1>4 DEF ReleasedBalance, Balance
<1> HIDE DEF key, back
<1>6. QED
  BY <1>1, <1>3, <1>5 DEF LedgerFits, Total


-----------------------------------------------------------------------------
(* The ledger beside the matcher.  A ledger is sound when it has its type,  *)
(* every reservation is backed, and nothing is reserved unless it is funded. *)

LedgerSound(l) ==
    /\ LedgerFits(l)
    /\ ReservesBacked(l)
    /\ l.resv = [id \in DOMAIN l.resv |-> l.resv[id]]
    /\ ~IsFunded => DOMAIN l.resv = {}

\* The terms of a reservation are the row its order has in the index.
TermsOf(r) == [account |-> r.account, symbol |-> r.symbol, side |-> r.side,
               price |-> r.limit, qty |-> r.remaining]

\* The reservations are the rows, with the same ids and the same terms.
Mirrors(l, rw) ==
    /\ DOMAIN l.resv = DOMAIN rw
    /\ \A id \in DOMAIN rw : TermsOf(l.resv[id]) = rw[id]

\* Nothing was paid.
SameTotals(m, l) ==
    \A a \in Accounts, asset \in Assets : Total(m, a, asset) = Total(l, a, asset)

\* What a reservation adds to the ledger.
Reserved(l, m, id, row) ==
    /\ LedgerSound(m) /\ SameTotals(m, l) /\ m.last = l.last
    /\ DOMAIN m.resv = DOMAIN l.resv \cup {id}
    /\ TermsOf(m.resv[id]) = row
    /\ \A i \in DOMAIN l.resv \ {id} : m.resv[i] = l.resv[i]

\* reserve
LEMMA ReserveIsSound ==
    ASSUME NEW l, LedgerSound(l), IsFunded, NEW id, NEW account \in Accounts,
           NEW symbol \in Symbols, NEW side \in Sides, NEW limit \in Int, NEW qty \in Int,
           CanReserve(l, id, account, symbol, side, limit, qty),
           NEW m, m = AfterReserve(l, id, account, symbol, side, limit, qty)
    PROVE  Reserved(l, m, id, [account |-> account, symbol |-> symbol, side |-> side,
                               price |-> limit, qty |-> qty])
<1>1. Reserves(l, m, id, account, symbol, side, limit, qty) /\ LedgerFits(l) /\ ReservesBacked(l)
  BY DEF Reserves, LedgerSound
<1>2. LedgerFits(m) /\ ReservesBacked(m)
  <2>1. LedgerFits(m)
    BY <1>1, ReserveFits
  <2>2. QED
    BY <1>1, <2>1, ReserveKeepsBacking
<1>3. SameTotals(m, l)
  BY <1>1, ReserveKeepsTotals DEF SameTotals
<1> DEFINE r == [account |-> account, symbol |-> symbol, side |-> side, limit |-> limit,
                 remaining |-> qty, units |-> ReserveUnits(side, limit, qty)]
<1>4. m.resv = Put(l.resv, id, r) /\ m.last = l.last
  BY <1>1 DEF AfterReserve, LedgerFits
<1> HIDE DEF r
<1>5. /\ DOMAIN m.resv = DOMAIN l.resv \cup {id} /\ m.resv[id] = r
      /\ \A i \in DOMAIN l.resv \ {id} : m.resv[i] = l.resv[i]
      /\ m.resv = [i \in DOMAIN m.resv |-> m.resv[i]]
  BY <1>4 DEF Put
<1>6. TermsOf(r) = [account |-> account, symbol |-> symbol, side |-> side,
                    price |-> limit, qty |-> qty]
  BY DEF TermsOf, r
<1>7. LedgerSound(m)
  BY <1>2, <1>5 DEF LedgerSound
<1>8. QED
  BY <1>3, <1>4, <1>5, <1>6, <1>7 DEF Reserved

\* What giving a reservation back, if there is one, leaves of the ledger.
Released(l, m, id) ==
    /\ LedgerSound(m) /\ SameTotals(m, l) /\ m.last = l.last
    /\ DOMAIN m.resv = DOMAIN l.resv \ {id}
    /\ \A i \in DOMAIN l.resv \ {id} : m.resv[i] = l.resv[i]

\* release cannot fail on a sound ledger.
LEMMA ReleaseIsSound ==
    ASSUME NEW l, LedgerSound(l), NEW id, NEW m, m = AfterRelease(l, id)
    PROVE  CanRelease(l, id) /\ Released(l, m, id)
<1>1. LedgerFits(l) /\ ReservesBacked(l) /\ l.resv = [i \in DOMAIN l.resv |-> l.resv[i]]
  BY DEF LedgerSound
<1>2. CanRelease(l, id)
  BY <1>1, BackedCanRelease
<1>3. CASE id \notin DOMAIN l.resv
  <2>1. m = l /\ DOMAIN l.resv = DOMAIN l.resv \ {id}
    BY <1>3 DEF AfterRelease
  <2>2. QED
    BY <1>2, <2>1 DEF Released, SameTotals
<1>4. CASE id \in DOMAIN l.resv
  <2>1. Releases(l, m, id)
    BY <1>2, <1>4 DEF Releases
  <2>2. LedgerFits(m) /\ ReservesBacked(m)
    <3>1. LedgerFits(m)
      BY <1>1, <2>1, ReleaseFits
    <3>2. QED
      BY <1>1, <1>4, <2>1, <3>1, ReleaseKeepsBacking
  <2>3. SameTotals(m, l)
    BY <1>1, <2>1, ReleaseKeepsTotals DEF SameTotals
  <2>4. m.resv = Without(l.resv, {id}) /\ m.last = l.last
    BY <1>1, <1>4 DEF AfterRelease, LedgerFits
  <2>5. /\ DOMAIN m.resv = DOMAIN l.resv \ {id}
        /\ \A i \in DOMAIN l.resv \ {id} : m.resv[i] = l.resv[i]
        /\ m.resv = [i \in DOMAIN m.resv |-> m.resv[i]]
    BY <2>4 DEF Without, Restrict
  <2>6. LedgerSound(m)
    BY <2>2, <2>5 DEF LedgerSound
  <2>7. QED
    BY <1>2, <2>3, <2>4, <2>5, <2>6 DEF Released
<1>5. QED
  BY <1>3, <1>4

\* What a fill leaves of the reservations and of the totals.
SettledTerms(l, m, maker, taker, qty) ==
    /\ LedgerSound(m) /\ m.last = l.last
    /\ DOMAIN m.resv \subseteq DOMAIN l.resv
    /\ \A i \in DOMAIN l.resv \ {maker, taker} : i \in DOMAIN m.resv /\ m.resv[i] = l.resv[i]
    /\ \A i \in {maker, taker} :
          LET was == TermsOf(l.resv[i])
          IN  /\ i \in DOMAIN m.resv <=> was.qty # qty
              /\ i \in DOMAIN m.resv => TermsOf(m.resv[i]) = [was EXCEPT !.qty = was.qty - qty]

\* settle_fill: both reservations shrink by the fill, or go with it.
LEMMA SettleIsSound ==
    ASSUME NEW l, LedgerSound(l), IsFunded,
           NEW maker, NEW taker, NEW price \in Int, NEW qty \in Int,
           CanSettle(l, maker, taker, price, qty),
           NEW m, m = AfterSettle(l, maker, taker, price, qty)
    PROVE  SettledTerms(l, m, maker, taker, qty)
<1>1. /\ Settles(l, m, maker, taker, price, qty) /\ LedgerFits(l) /\ ReservesBacked(l)
      /\ maker \in DOMAIN l.resv /\ taker \in DOMAIN l.resv
      /\ qty \in Nat \ {0} /\ qty <= l.resv[maker].remaining /\ qty <= l.resv[taker].remaining
  BY DEF Settles, LedgerSound, CanSettle, FillTermsAgree
<1>2. LedgerFits(m) /\ ReservesBacked(m)
  <2>1. LedgerFits(m)
    BY <1>1, SettleFits
  <2>2. QED
    BY <1>1, <2>1, SettleKeepsBacking
<1> DEFINE next(id) == ReduceReservation(l.resv[id], qty)
           done == {id \in {maker, taker} : next(id).remaining = 0}
<1>3. m.resv = [id \in DOMAIN l.resv \ done |->
                   IF id \in {maker, taker} THEN next(id) ELSE l.resv[id]]
      /\ m.last = l.last
  BY <1>1 DEF AfterSettle, LedgerFits
<1>4. LedgerSound(m)
  BY <1>2, <1>3 DEF LedgerSound
<1>5. ASSUME NEW i \in {maker, taker}
      PROVE  /\ i \in DOMAIN m.resv <=> TermsOf(l.resv[i]).qty # qty
             /\ i \in DOMAIN m.resv => TermsOf(m.resv[i])
                   = [TermsOf(l.resv[i]) EXCEPT !.qty = TermsOf(l.resv[i]).qty - qty]
  <2> DEFINE r == l.resv[i]
  <2>1. i \in DOMAIN l.resv /\ r \in Reservation
    BY <1>1 DEF LedgerFits
  <2>2. TermsOf(r).qty = r.remaining /\ r.remaining \in Nat
    BY <2>1 DEF TermsOf, Reservation
  <2>3. next(i).remaining = r.remaining - qty
    BY <1>1, <2>1, RemainingAfterFill
  <2>4. i \in DOMAIN m.resv <=> next(i).remaining # 0
    BY <1>3, <2>1
  <2>5. i \in DOMAIN m.resv => m.resv[i] = next(i)
    BY <1>3
  <2>6. TermsOf(next(i)) = [TermsOf(r) EXCEPT !.qty = TermsOf(r).qty - qty]
    <3>1. /\ next(i).account = r.account /\ next(i).symbol = r.symbol /\ next(i).side = r.side
          /\ next(i).limit = r.limit
      BY <2>1 DEF ReduceReservation, Reservation
    <3> HIDE DEF next, r
    <3>2. QED
      BY <2>2, <2>3, <3>1 DEF TermsOf
  <2> HIDE DEF next, r
  <2>7. next(i).remaining # 0 <=> r.remaining # qty
    BY <1>1, <2>2, <2>3
  <2>8. QED
    BY <2>2, <2>4, <2>5, <2>6, <2>7 DEF r
<1>6. /\ DOMAIN m.resv \subseteq DOMAIN l.resv
      /\ \A i \in DOMAIN l.resv \ {maker, taker} : i \in DOMAIN m.resv /\ m.resv[i] = l.resv[i]
  BY <1>3
<1>7. QED
  BY <1>3, <1>4, <1>5, <1>6 DEF SettledTerms

-----------------------------------------------------------------------------
(* What one fill does to a position, for every integer: it keeps the books  *)
(* of that position straight, and its two legs cancel out.                  *)

\* The part of a cost that is allocated to a close is no more than the cost.
LEMMA AllocationBounded ==
    ASSUME NEW b \in Nat, NEW c \in Nat, NEW n \in Nat \ {0}, c <= n
    PROVE  /\ (b * c) \div n \in Int
           /\ 0 <= (b * c) \div n
           /\ (b * c) \div n <= b
  <1> DEFINE q == (b * c) \div n
  <1>1. b * c \in Int /\ 0 <= b * c /\ b * c <= b * n
    OBVIOUS
  <1>2. q \in Int /\ n * q <= b * c /\ b * c < n * (q + 1)
    BY <1>1
  <1> HIDE DEF q
  <1>3. q <= b
    <2> SUFFICES ASSUME q >= b + 1 PROVE FALSE
      BY <1>2
    <2>1. n * q >= n * (b + 1)
      BY <1>2
    <2>2. n * (b + 1) = b * n + n
      OBVIOUS
    <2> QED
      BY <2>1, <2>2, <1>1, <1>2
  <1>4. 0 <= q
    <2> SUFFICES ASSUME q + 1 <= 0 PROVE FALSE
      BY <1>2
    <2>1. n * (q + 1) <= 0
      BY <1>2
    <2> QED
      BY <2>1, <1>1, <1>2
  <1> QED
    BY <1>2, <1>3, <1>4 DEF q

\* Closing everything takes the whole cost: no remainder is left behind.
LEMMA WholeCloseTakesAll ==
    ASSUME NEW b \in Nat, NEW n \in Nat \ {0}
    PROVE  (b * n) \div n = b
  OBVIOUS

-----------------------------------------------------------------------------
(* The three shapes of a fill, as after_fill distinguishes them.            *)

\* A fill that opens, adds to, or (on the other side) closes a position, by
\* its sign: the value of the quantity is booked with it.
LEMMA SignedValue ==
    ASSUME NEW qty \in Nat \ {0}, NEW price \in Nat \ {0}, NEW side \in {"buy", "sell"}
    PROVE  /\ qty * price \in Nat
           /\ side = "buy" => /\ SignedQuantity(side, qty) = qty
                              /\ SignedQuantity(side, qty) * price = qty * price
           /\ side = "sell" => /\ SignedQuantity(side, qty) = -qty
                               /\ SignedQuantity(side, qty) * price = -(qty * price)
  BY DEF SignedQuantity

\* A fill on a flat position or on its own side adds its value to the cost.
LEMMA AddingKeepsAccount ==
    ASSUME NEW p \in PositionType, Accounted(p), NEW side \in {"buy", "sell"},
           NEW qty \in Nat \ {0}, NEW price \in Nat \ {0}, OpensOrAdds(p, side)
    PROVE  /\ AfterFill(p, side, qty, price) \in PositionType
           /\ Accounted(AfterFill(p, side, qty, price))
  <1> DEFINE signed == SignedQuantity(side, qty)
             value  == qty * price
             next   == AfterFill(p, side, qty, price)
  <1>1. /\ value \in Nat
        /\ side = "buy" => signed = qty /\ signed * price = value
        /\ side = "sell" => signed = -qty /\ signed * price = -value
    BY SignedValue
  <1>2. next = [net |-> p.net + signed, cash |-> p.cash - signed * price,
                basis |-> IF p.net + signed = 0 THEN 0 ELSE p.basis + value,
                realized |-> p.realized]
    BY DEF AfterFill
  <1>3. /\ p.net \in Int /\ p.cash \in Int /\ p.basis \in Int /\ p.realized \in Int
        /\ p.cash = p.realized - (IF p.net > 0 THEN p.basis ELSE -p.basis)
        /\ p.basis >= 0
        /\ p.net = 0 => p.basis = 0
        /\ p.net = 0 \/ (p.net > 0) = (side = "buy")
    BY DEF PositionType, Accounted, ProfitAddsUp, OpensOrAdds
  <1> HIDE DEF signed, value, next
  <1>4. CASE side = "buy"
    <2>1. /\ next = [net |-> p.net + qty, cash |-> p.cash - value,
                     basis |-> p.basis + value, realized |-> p.realized]
          /\ p.net >= 0
          /\ p.cash = p.realized - p.basis
      BY <1>1, <1>2, <1>3, <1>4
    <2> QED
      BY <2>1, <1>1, <1>3 DEF PositionType, Accounted, ProfitAddsUp, next
  <1>5. CASE side = "sell"
    <2>1. /\ next = [net |-> p.net - qty, cash |-> p.cash + value,
                     basis |-> p.basis + value, realized |-> p.realized]
          /\ p.net <= 0
          /\ p.cash = p.realized + p.basis
      BY <1>1, <1>2, <1>3, <1>5
    <2> QED
      BY <2>1, <1>1, <1>3 DEF PositionType, Accounted, ProfitAddsUp, next
  <1> QED
    BY <1>4, <1>5

\* What a fill against the position's side closes, and what it allocates.
LEMMA ClosingTerms ==
    ASSUME NEW p \in PositionType, Accounted(p), NEW side \in {"buy", "sell"},
           NEW qty \in Nat \ {0}, ~OpensOrAdds(p, side)
    PROVE  /\ AbsoluteOf(p.net) \in Nat \ {0}
           /\ p.net = (IF side = "sell" THEN AbsoluteOf(p.net) ELSE -AbsoluteOf(p.net))
           /\ p.basis \in Nat
           /\ Closed(p, qty) = (IF qty <= AbsoluteOf(p.net) THEN qty ELSE AbsoluteOf(p.net))
           /\ ClosedBasis(p, qty) \in 0..p.basis
           /\ qty >= AbsoluteOf(p.net) => ClosedBasis(p, qty) = p.basis
  <1>1. p.net \in Int /\ p.basis \in Nat /\ p.net # 0 /\ (p.net > 0) # (side = "buy")
    BY DEF PositionType, Accounted, OpensOrAdds
  <1>2. /\ AbsoluteOf(p.net) \in Nat \ {0}
        /\ p.net = (IF side = "sell" THEN AbsoluteOf(p.net) ELSE -AbsoluteOf(p.net))
    BY <1>1 DEF AbsoluteOf
  <1>3. Closed(p, qty) = (IF qty <= AbsoluteOf(p.net) THEN qty ELSE AbsoluteOf(p.net))
    BY DEF Closed, Lesser
  <1>4. Closed(p, qty) \in Nat /\ Closed(p, qty) <= AbsoluteOf(p.net)
    BY <1>2, <1>3
  <1>5. ClosedBasis(p, qty) \in 0..p.basis
    BY <1>1, <1>2, <1>4, AllocationBounded DEF ClosedBasis
  <1>6. ASSUME qty >= AbsoluteOf(p.net) PROVE ClosedBasis(p, qty) = p.basis
    <2>1. Closed(p, qty) = AbsoluteOf(p.net)
      BY <1>2, <1>3, <1>6
    <2> QED
      BY <2>1, <1>1, <1>2, WholeCloseTakesAll DEF ClosedBasis
  <1> QED
    BY <1>1, <1>2, <1>3, <1>5, <1>6

\* A fill against the position's side, up to the whole of it, moves the
\* allocated cost from the open cost into the profit.
LEMMA ClosingKeepsAccount ==
    ASSUME NEW p \in PositionType, Accounted(p), NEW side \in {"buy", "sell"},
           NEW qty \in Nat \ {0}, NEW price \in Nat \ {0},
           ~OpensOrAdds(p, side), qty <= AbsoluteOf(p.net)
    PROVE  /\ AfterFill(p, side, qty, price) \in PositionType
           /\ Accounted(AfterFill(p, side, qty, price))
  <1> DEFINE signed == SignedQuantity(side, qty)
             value  == qty * price
             cost   == ClosedBasis(p, qty)
             open   == AbsoluteOf(p.net)
             gain   == RealizedBy(p, qty, price)
             next   == AfterFill(p, side, qty, price)
  <1>1. /\ value \in Nat
        /\ side = "buy" => signed = qty /\ signed * price = value
        /\ side = "sell" => signed = -qty /\ signed * price = -value
    BY SignedValue
  <1>2. /\ open \in Nat \ {0}
        /\ p.net = (IF side = "sell" THEN open ELSE -open)
        /\ p.basis \in Nat
        /\ cost \in 0..p.basis
        /\ qty = open => cost = p.basis
        /\ Closed(p, qty) = qty
    BY ClosingTerms
  <1>3. /\ p.cash \in Int /\ p.realized \in Int
        /\ p.cash = p.realized - (IF p.net > 0 THEN p.basis ELSE -p.basis)
    BY DEF PositionType, Accounted, ProfitAddsUp
  <1>4. gain = IF p.net > 0 THEN value - cost ELSE cost - value
    BY <1>2 DEF RealizedBy
  <1>5. next = [net |-> p.net + signed, cash |-> p.cash - signed * price,
                basis |-> IF p.net + signed = 0 THEN 0 ELSE p.basis - cost,
                realized |-> p.realized + gain]
    <2>1. ~(qty - Closed(p, qty) > 0)
      BY <1>2
    <2> QED
      BY <2>1 DEF AfterFill
  <1> HIDE DEF signed, value, cost, open, gain, next
  <1>6. CASE side = "sell"
    <2>1. /\ next = [net |-> open - qty, cash |-> p.cash + value,
                     basis |-> IF open - qty = 0 THEN 0 ELSE p.basis - cost,
                     realized |-> p.realized + (value - cost)]
          /\ p.cash = p.realized - p.basis
          /\ open - qty >= 0
      BY <1>1, <1>2, <1>3, <1>4, <1>5, <1>6 DEF open
    <2>2. CASE qty = open
      <3>1. /\ next = [net |-> 0, cash |-> p.cash + value, basis |-> 0,
                       realized |-> p.realized + (value - cost)]
            /\ cost = p.basis
        BY <2>1, <2>2, <1>2
      <3> QED
        BY <2>1, <3>1, <1>1, <1>2, <1>3 DEF PositionType, Accounted, ProfitAddsUp, next
    <2>3. CASE qty # open
      <3>1. /\ next = [net |-> open - qty, cash |-> p.cash + value,
                       basis |-> p.basis - cost, realized |-> p.realized + (value - cost)]
            /\ open - qty > 0
        BY <2>1, <2>3, <1>2
      <3> QED
        BY <2>1, <3>1, <1>1, <1>2, <1>3 DEF PositionType, Accounted, ProfitAddsUp, next
    <2> QED
      BY <2>2, <2>3
  <1>7. CASE side = "buy"
    <2>1. /\ next = [net |-> qty - open, cash |-> p.cash - value,
                     basis |-> IF qty - open = 0 THEN 0 ELSE p.basis - cost,
                     realized |-> p.realized + (cost - value)]
          /\ p.cash = p.realized + p.basis
          /\ qty - open <= 0
      BY <1>1, <1>2, <1>3, <1>4, <1>5, <1>7 DEF open
    <2>2. CASE qty = open
      <3>1. /\ next = [net |-> 0, cash |-> p.cash - value, basis |-> 0,
                       realized |-> p.realized + (cost - value)]
            /\ cost = p.basis
        BY <2>1, <2>2, <1>2
      <3> QED
        BY <2>1, <3>1, <1>1, <1>2, <1>3 DEF PositionType, Accounted, ProfitAddsUp, next
    <2>3. CASE qty # open
      <3>1. /\ next = [net |-> qty - open, cash |-> p.cash - value,
                       basis |-> p.basis - cost, realized |-> p.realized + (cost - value)]
            /\ qty - open < 0
        BY <2>1, <2>3, <1>2
      <3> QED
        BY <2>1, <3>1, <1>1, <1>2, <1>3 DEF PositionType, Accounted, ProfitAddsUp, next
    <2> QED
      BY <2>2, <2>3
  <1> QED
    BY <1>6, <1>7

\* A fill through zero closes the whole position and opens the other side at
\* the fill's price.
LEMMA TurningKeepsAccount ==
    ASSUME NEW p \in PositionType, Accounted(p), NEW side \in {"buy", "sell"},
           NEW qty \in Nat \ {0}, NEW price \in Nat \ {0},
           ~OpensOrAdds(p, side), qty > AbsoluteOf(p.net)
    PROVE  /\ AfterFill(p, side, qty, price) \in PositionType
           /\ Accounted(AfterFill(p, side, qty, price))
  <1> DEFINE signed == SignedQuantity(side, qty)
             value  == qty * price
             open   == AbsoluteOf(p.net)
             closed == open * price
             opened == (qty - open) * price
             gain   == RealizedBy(p, qty, price)
             next   == AfterFill(p, side, qty, price)
  <1>1. /\ value \in Nat
        /\ side = "buy" => signed = qty /\ signed * price = value
        /\ side = "sell" => signed = -qty /\ signed * price = -value
    BY SignedValue
  <1>2. /\ open \in Nat \ {0}
        /\ p.net = (IF side = "sell" THEN open ELSE -open)
        /\ ClosedBasis(p, qty) = p.basis
        /\ Closed(p, qty) = open
        /\ p.basis \in Nat
    BY ClosingTerms
  <1>3. /\ p.cash \in Int /\ p.realized \in Int
        /\ p.cash = p.realized - (IF p.net > 0 THEN p.basis ELSE -p.basis)
    BY DEF PositionType, Accounted, ProfitAddsUp
  <1>4. closed \in Nat /\ opened \in Nat /\ value = closed + opened
    BY <1>2
  <1>5. gain = IF p.net > 0 THEN closed - p.basis ELSE p.basis - closed
    BY <1>2 DEF RealizedBy
  <1>6. next = [net |-> p.net + signed, cash |-> p.cash - signed * price,
                basis |-> IF p.net + signed = 0 THEN 0 ELSE opened,
                realized |-> p.realized + gain]
    <2>1. qty - Closed(p, qty) > 0 /\ qty - Closed(p, qty) = qty - open
      BY <1>2
    <2> QED
      BY <2>1 DEF AfterFill
  <1> HIDE DEF signed, value, open, closed, opened, gain, next
  <1>7. CASE side = "sell"
    <2>1. /\ next = [net |-> open - qty, cash |-> p.cash + value, basis |-> opened,
                     realized |-> p.realized + (closed - p.basis)]
          /\ p.cash = p.realized - p.basis
          /\ open - qty < 0
      BY <1>1, <1>2, <1>3, <1>5, <1>6, <1>7 DEF open
    <2> QED
      BY <2>1, <1>1, <1>2, <1>3, <1>4 DEF PositionType, Accounted, ProfitAddsUp, next
  <1>8. CASE side = "buy"
    <2>1. /\ next = [net |-> qty - open, cash |-> p.cash - value, basis |-> opened,
                     realized |-> p.realized + (p.basis - closed)]
          /\ p.cash = p.realized + p.basis
          /\ qty - open > 0
      BY <1>1, <1>2, <1>3, <1>5, <1>6, <1>8 DEF open
    <2> QED
      BY <2>1, <1>1, <1>2, <1>3, <1>4 DEF PositionType, Accounted, ProfitAddsUp, next
  <1> QED
    BY <1>7, <1>8

-----------------------------------------------------------------------------
\* Whatever sequence of fills a position goes through, it accounts for every
\* unit of cash, keeps a nonnegative open cost, and none once it is flat: one
\* fill of Position::after_fill preserves all three, and a new position has them.
THEOREM FillKeepsAccount ==
    /\ Flat \in PositionType /\ Accounted(Flat)
    /\ \A p \in PositionType, side \in {"buy", "sell"},
          qty \in Nat \ {0}, price \in Nat \ {0} :
          Accounted(p) => /\ AfterFill(p, side, qty, price) \in PositionType
                          /\ Accounted(AfterFill(p, side, qty, price))
  <1>1. Flat \in PositionType /\ Accounted(Flat)
    BY DEF Flat, PositionType, Accounted, ProfitAddsUp
  <1>2. ASSUME NEW p \in PositionType, Accounted(p), NEW side \in {"buy", "sell"},
               NEW qty \in Nat \ {0}, NEW price \in Nat \ {0}
        PROVE  /\ AfterFill(p, side, qty, price) \in PositionType
               /\ Accounted(AfterFill(p, side, qty, price))
    <2>1. CASE OpensOrAdds(p, side)
      BY <1>2, <2>1, AddingKeepsAccount
    <2>2. CASE ~OpensOrAdds(p, side) /\ qty <= AbsoluteOf(p.net)
      BY <1>2, <2>2, ClosingKeepsAccount
    <2>3. CASE ~OpensOrAdds(p, side) /\ qty > AbsoluteOf(p.net)
      BY <1>2, <2>3, TurningKeepsAccount
    <2>4. qty <= AbsoluteOf(p.net) \/ qty > AbsoluteOf(p.net)
      BY <1>2 DEF AbsoluteOf, PositionType
    <2> QED
      BY <2>1, <2>2, <2>3, <2>4
  <1> QED
    BY <1>1, <1>2

-----------------------------------------------------------------------------
(* Queues.  What a level holds is proper when its entries are, and stand in *)
(* the order of their ids.                                                  *)

Cents == Nat \ {0}
Tenths == Nat \ {0}
Entry == [id : Nat, account : Accounts, qty : Tenths]

QueueFits(q) ==
    /\ q \in Seq(Entry)
    /\ \A i, j \in 1..Len(q) : i < j => q[i].id < q[j].id

Others(q, id) == {r \in ToSet(q) : r.id # id}

LEMMA EntriesOfQueue ==
    ASSUME NEW q, QueueFits(q)
    PROVE  /\ ToSet(q) \subseteq Entry
           /\ \A r \in ToSet(q) : \E i \in 1..Len(q) : r = q[i]
           /\ \A i \in 1..Len(q) : q[i] \in ToSet(q) /\ q[i] \in Entry
           /\ Len(q) \in Nat
           /\ \A i, j \in 1..Len(q) : i < j => q[i].id < q[j].id
           /\ \A i, j \in 1..Len(q) : q[i].id = q[j].id => i = j
<1>1. q \in Seq(Entry) /\ Len(q) \in Nat /\ DOMAIN q = 1..Len(q)
  BY DEF QueueFits
<1>2. ToSet(q) = {q[i] : i \in 1..Len(q)}
  BY <1>1 DEF ToSet
<1>3. \A i \in 1..Len(q) : q[i] \in Entry
  BY <1>1
<1>4. \A i, j \in 1..Len(q) : i < j => q[i].id < q[j].id
  BY DEF QueueFits
<1>5. ASSUME NEW i \in 1..Len(q), NEW j \in 1..Len(q), q[i].id = q[j].id PROVE i = j
  <2>1. q[i].id \in Nat /\ q[j].id \in Nat
    BY <1>3 DEF Entry
  <2>2. ~(i < j) /\ ~(j < i)
    BY <1>4, <1>5, <2>1
  <2>3. QED
    BY <1>1, <2>2
<1>6. QED
  BY <1>1, <1>2, <1>3, <1>4, <1>5

\* A filled maker leaves the front of its queue.
LEMMA TailFits ==
    ASSUME NEW q, QueueFits(q), q # <<>>
    PROVE  /\ Head(q) = q[1] /\ 1 \in 1..Len(q)
           /\ QueueFits(Tail(q))
           /\ ToSet(Tail(q)) = Others(q, Head(q).id)
<1> DEFINE t == Tail(q)
<1>1. q \in Seq(Entry) /\ Len(q) \in Nat /\ Len(q) # 0 /\ Head(q) = q[1] /\ 1 \in 1..Len(q)
  BY EmptySeq DEF QueueFits
<1>2. /\ t \in Seq(Entry) /\ Len(t) = Len(q) - 1
      /\ \A i \in 1..Len(t) : t[i] = q[i + 1] /\ i + 1 \in 1..Len(q)
  BY <1>1, HeadTailProperties
<1> HIDE DEF t
<1>3. QueueFits(t)
  <2>1. ASSUME NEW i \in 1..Len(t), NEW j \in 1..Len(t), i < j PROVE t[i].id < t[j].id
    <3>1. i + 1 \in 1..Len(q) /\ j + 1 \in 1..Len(q) /\ i + 1 < j + 1
      BY <1>2, <2>1
    <3>2. q[i + 1].id < q[j + 1].id
      BY <3>1, EntriesOfQueue
    <3>3. QED
      BY <1>2, <3>2
  <2>2. QED
    BY <1>2, <2>1 DEF QueueFits
<1>4. ASSUME NEW r \in ToSet(t) PROVE r \in Others(q, q[1].id)
  <2>1. PICK i \in 1..Len(t) : r = t[i]
    BY <1>3, EntriesOfQueue
  <2>2. r = q[i + 1] /\ i + 1 \in 1..Len(q) /\ i + 1 # 1
    BY <1>2, <2>1
  <2>3. QED
    BY <1>1, <2>2, EntriesOfQueue DEF Others
<1>5. ASSUME NEW r \in Others(q, q[1].id) PROVE r \in ToSet(t)
  <2>1. PICK i \in 1..Len(q) : r = q[i]
    BY <1>5, EntriesOfQueue DEF Others
  <2>2. i # 1
    BY <1>5, <2>1 DEF Others
  <2>3. i - 1 \in 1..Len(t) /\ (i - 1) + 1 = i
    BY <1>1, <1>2, <2>2
  <2>4. t[i - 1] = r
    BY <1>2, <2>1, <2>3
  <2>5. QED
    BY <1>3, <2>3, <2>4, EntriesOfQueue
<1>6. QED
  BY <1>1, <1>3, <1>4, <1>5 DEF t

\* A maker filled in part keeps its place.
LEMMA FrontShrinks ==
    ASSUME NEW q, QueueFits(q), q # <<>>, NEW left \in Tenths
    PROVE  LET h == [Head(q) EXCEPT !.qty = left]
           IN  /\ h = [id |-> q[1].id, account |-> q[1].account, qty |-> left]
               /\ QueueFits(<<h>> \o Tail(q))
               /\ ToSet(<<h>> \o Tail(q)) = {h} \cup Others(q, Head(q).id)
               /\ <<h>> \o Tail(q) # <<>>
<1> DEFINE h == [Head(q) EXCEPT !.qty = left]
           t == Tail(q)
           s == <<h>> \o t
<1>1. /\ Head(q) = q[1] /\ 1 \in 1..Len(q) /\ q[1] \in Entry
      /\ QueueFits(t) /\ ToSet(t) = Others(q, q[1].id)
  BY TailFits, EntriesOfQueue
<1>2. PICK n \in Nat, a \in Accounts, k \in Tenths : q[1] = [id |-> n, account |-> a, qty |-> k]
  BY <1>1 DEF Entry
<1>3. h = [id |-> n, account |-> a, qty |-> left] /\ h \in Entry
  BY <1>1, <1>2 DEF Entry
<1>3a. h.id = n /\ q[1].id = n /\ q[1].account = a
  BY <1>2, <1>3
<1>4. t \in Seq(Entry) /\ Len(t) \in Nat
  BY <1>1, EntriesOfQueue DEF QueueFits
<1> HIDE DEF t, h
<1>5. /\ s \in Seq(Entry) /\ Len(s) = Len(t) + 1 /\ s[1] = h
      /\ \A i \in 2..Len(s) : s[i] = t[i - 1] /\ i - 1 \in 1..Len(t)
  <2>1. <<h>> \in Seq(Entry) /\ Len(<<h>>) = 1 /\ <<h>>[1] = h
    BY <1>3
  <2> DEFINE one == <<h>>
  <2> HIDE DEF one
  <2>2. /\ one \o t \in Seq(Entry) /\ Len(one \o t) = Len(t) + 1 /\ (one \o t)[1] = h
        /\ \A i \in 2..Len(one \o t) : (one \o t)[i] = t[i - 1] /\ i - 1 \in 1..Len(t)
    BY <1>4, <2>1, ConcatProperties DEF one
  <2>3. QED
    BY <2>2 DEF one
<1> HIDE DEF s
<1>6. \A r \in ToSet(t) : r \in Entry /\ n < r.id
  <2>1. ASSUME NEW r \in ToSet(t) PROVE r \in Entry /\ n < r.id
    <3>1. PICK i \in 1..Len(q) : r = q[i]
      BY <1>1, EntriesOfQueue DEF Others
    <3>2. i # 1
      BY <1>1, <3>1 DEF Others
    <3>3. 1 < i
      BY <3>2, EntriesOfQueue
    <3>4. QED
      BY <1>1, <1>3a, <3>1, <3>3, EntriesOfQueue
  <2>2. QED
    BY <2>1
<1>7. QueueFits(s)
  <2>1. ASSUME NEW i \in 1..Len(s), NEW j \in 1..Len(s), i < j PROVE s[i].id < s[j].id
    <3>1. j \in 2..Len(s)
      BY <1>4, <1>5, <2>1
    <3>2. s[j] = t[j - 1] /\ j - 1 \in 1..Len(t) /\ s[j] \in ToSet(t)
      BY <1>1, <1>5, <3>1, EntriesOfQueue
    <3>3. CASE i = 1
      BY <1>3a, <1>5, <1>6, <3>2, <3>3
    <3>4. CASE i # 1
      <4>1. i \in 2..Len(s)
        BY <1>4, <1>5, <3>4
      <4>2. s[i] = t[i - 1] /\ i - 1 \in 1..Len(t) /\ i - 1 < j - 1
        BY <1>4, <1>5, <2>1, <4>1
      <4>3. t[i - 1].id < t[j - 1].id
        BY <1>1, <3>2, <4>2, EntriesOfQueue
      <4>4. QED
        BY <3>2, <4>2, <4>3
    <3>5. QED
      BY <3>3, <3>4
  <2>2. QED
    BY <1>5, <2>1 DEF QueueFits
<1>8. ToSet(s) = {h} \cup ToSet(t)
  <2>1. ASSUME NEW r \in ToSet(s) PROVE r \in {h} \cup ToSet(t)
    <3>1. PICK i \in 1..Len(s) : r = s[i]
      BY <1>7, EntriesOfQueue
    <3>2. CASE i = 1
      BY <1>5, <3>1, <3>2
    <3>3. CASE i # 1
      <4>1. i \in 2..Len(s)
        BY <1>4, <1>5, <3>3
      <4>2. QED
        BY <1>1, <1>5, <3>1, <4>1, EntriesOfQueue
    <3>4. QED
      BY <3>2, <3>3
  <2>2. 1 \in 1..Len(s)
    BY <1>4, <1>5
  <2>3. h \in ToSet(s)
    BY <1>5, <1>7, <2>2, EntriesOfQueue
  <2>4. ASSUME NEW r \in ToSet(t) PROVE r \in ToSet(s)
    <3>1. PICK i \in 1..Len(t) : r = t[i]
      BY <1>1, EntriesOfQueue
    <3>2. i + 1 \in 2..Len(s) /\ (i + 1) - 1 = i /\ i + 1 \in 1..Len(s)
      BY <1>4, <1>5
    <3>3. s[i + 1] = r
      BY <1>5, <3>1, <3>2
    <3>4. QED
      BY <1>7, <3>2, <3>3, EntriesOfQueue
  <2>5. QED
    BY <2>1, <2>3, <2>4
<1>9. s # <<>>
  <2>1. Len(s) # 0
    BY <1>4, <1>5
  <2>2. QED
    BY <2>1, EmptySeq
<1>10. QED
  BY <1>1, <1>3, <1>3a, <1>7, <1>8, <1>9 DEF h, s, t

\* A newer order goes to the back of its level.
LEMMA AppendFits ==
    ASSUME NEW q, QueueFits(q), NEW e \in Entry, \A r \in ToSet(q) : r.id < e.id
    PROVE  /\ QueueFits(Append(q, e))
           /\ ToSet(Append(q, e)) = ToSet(q) \cup {e}
           /\ Append(q, e) # <<>>
<1> DEFINE s == Append(q, e)
<1>1. q \in Seq(Entry) /\ Len(q) \in Nat
  BY DEF QueueFits
<1>2. /\ s \in Seq(Entry) /\ Len(s) = Len(q) + 1 /\ s[Len(q) + 1] = e
      /\ \A i \in 1..Len(q) : s[i] = q[i]
  BY <1>1
<1> HIDE DEF s
<1>3. \A i \in 1..Len(s) : i \in 1..Len(q) \/ i = Len(q) + 1
  BY <1>1, <1>2
<1>4. QueueFits(s)
  <2>1. ASSUME NEW i \in 1..Len(s), NEW j \in 1..Len(s), i < j PROVE s[i].id < s[j].id
    <3>1. i \in 1..Len(q)
      BY <1>1, <1>2, <2>1
    <3>2. CASE j \in 1..Len(q)
      BY <1>2, <2>1, <3>1, <3>2, EntriesOfQueue
    <3>3. CASE j = Len(q) + 1
      BY <1>2, <3>1, <3>3, EntriesOfQueue
    <3>4. QED
      BY <1>3, <3>2, <3>3
  <2>2. QED
    BY <1>2, <2>1 DEF QueueFits
<1>5. ASSUME NEW r \in ToSet(s) PROVE r \in ToSet(q) \cup {e}
  <2>1. PICK i \in 1..Len(s) : r = s[i]
    BY <1>4, EntriesOfQueue
  <2>2. QED
    BY <1>2, <1>3, <2>1, EntriesOfQueue
<1>6. ASSUME NEW r \in ToSet(q) PROVE r \in ToSet(s)
  <2>1. PICK i \in 1..Len(q) : r = q[i]
    BY EntriesOfQueue
  <2>2. i \in 1..Len(s) /\ s[i] = r
    BY <1>1, <1>2, <2>1
  <2>3. QED
    BY <1>4, <2>2, EntriesOfQueue
<1>7. e \in ToSet(s)
  <2>1. Len(q) + 1 \in 1..Len(s)
    BY <1>1, <1>2
  <2>2. QED
    BY <1>2, <1>4, <2>1, EntriesOfQueue
<1>8. s # <<>>
  <2>1. Len(s) # 0
    BY <1>1, <1>2
  <2>2. QED
    BY <2>1, EmptySeq
<1>9. QED
  BY <1>4, <1>5, <1>6, <1>7, <1>8 DEF s

-----------------------------------------------------------------------------
(* Books.  A side maps finitely many prices to queues nobody is missing     *)
(* from, and a book has two of them.                                        *)

SideFits(side) ==
    /\ side = [p \in DOMAIN side |-> side[p]]
    /\ DOMAIN side \subseteq Cents
    /\ IsFiniteSet(DOMAIN side)
    /\ \A p \in DOMAIN side : QueueFits(side[p]) /\ side[p] # <<>>

BookFits(book) ==
    /\ book = [buy |-> book.buy, sell |-> book.sell]
    /\ SideFits(book.buy)
    /\ SideFits(book.sell)

Uncrossed(book) == \A bid \in DOMAIN book.buy, ask \in DOMAIN book.sell : bid < ask

LEMMA SidesOfBook ==
    ASSUME NEW book, BookFits(book), NEW side \in Sides
    PROVE  /\ SideFits(book[side])
           /\ Facing(side) \in Sides /\ Facing(side) # side
           /\ SideFits(book[Facing(side)])
           /\ \A p : QueueFits(Level(book, side, p))
           /\ \A p : p \in DOMAIN book[side] <=> Level(book, side, p) # <<>>
           /\ \A p \in DOMAIN book[side] : p \in Cents /\ book[side][p] = Level(book, side, p)
<1>1. side = "buy" \/ side = "sell"
  BY DEF Sides
<1>2. SideFits(book[side]) /\ SideFits(book[Facing(side)])
  BY <1>1 DEF BookFits, Facing
<1>3. Facing(side) \in Sides /\ Facing(side) # side
  BY <1>1 DEF Facing, Sides
<1>4. QueueFits(<<>>)
  BY DEF QueueFits
<1>5. QED
  BY <1>2, <1>3, <1>4 DEF SideFits, Level

LEMMA EmptyBookFits ==
    /\ BookFits(EmptyBook)
    /\ Uncrossed(EmptyBook)
    /\ IsEmptyBook(EmptyBook)
    /\ \A side \in Sides : \A p : Level(EmptyBook, side, p) = <<>>
    /\ \A book : BookFits(book) /\ IsEmptyBook(book) => book = EmptyBook
<1>1. DOMAIN EmptySide = {} /\ SideFits(EmptySide)
  BY FS_EmptySet DEF EmptySide, SideFits
<1>2. EmptyBook.buy = EmptySide /\ EmptyBook.sell = EmptySide
  BY DEF EmptyBook
<1>3. BookFits(EmptyBook)
  BY <1>1, <1>2 DEF BookFits, EmptyBook
<1>4. \A side \in Sides : EmptyBook[side] = EmptySide
  BY <1>2 DEF Sides
<1>5. ASSUME NEW book, BookFits(book), IsEmptyBook(book) PROVE book = EmptyBook
  <2>1. \A side : SideFits(side) /\ DOMAIN side = {} => side = EmptySide
    BY DEF SideFits, EmptySide
  <2>2. book.buy = EmptySide /\ book.sell = EmptySide
    BY <1>5, <2>1 DEF BookFits, IsEmptyBook
  <2>3. book = [buy |-> book.buy, sell |-> book.sell]
    BY <1>5 DEF BookFits
  <2>4. QED
    BY <2>2, <2>3 DEF EmptyBook
<1>6. QED
  BY <1>1, <1>2, <1>3, <1>4, <1>5 DEF Uncrossed, IsEmptyBook, Level

\* Another queue at one price: the book stays proper, and shows that queue there
\* and what it showed everywhere else.
Replaced(new, book, side, price, queue) ==
    /\ BookFits(new)
    /\ DOMAIN new[side] = IF queue = <<>> THEN DOMAIN book[side] \ {price}
                          ELSE DOMAIN book[side] \cup {price}
    /\ new[Facing(side)] = book[Facing(side)]
    /\ \A s \in Sides : \A p : Level(new, s, p) =
          IF s = side /\ p = price THEN queue ELSE Level(book, s, p)

LEMMA WithLevelFits ==
    ASSUME NEW book, BookFits(book), NEW side \in Sides, NEW price \in Cents,
           NEW queue, QueueFits(queue)
    PROVE  Replaced(WithLevel(book, side, price, queue), book, side, price, queue)
<1> DEFINE old == book[side]
           put == IF queue = <<>> THEN Restrict(old, DOMAIN old \ {price})
                  ELSE [p \in DOMAIN old \cup {price} |-> IF p = price THEN queue ELSE old[p]]
           new == WithLevel(book, side, price, queue)
<1>1. SideFits(old) /\ side \in {"buy", "sell"} /\ book = [buy |-> book.buy, sell |-> book.sell]
  BY SidesOfBook DEF BookFits, Sides
<1>2. new = [buy |-> IF side = "buy" THEN put ELSE book.buy,
             sell |-> IF side = "sell" THEN put ELSE book.sell]
  <2>1. new = [book EXCEPT ![side] = put]
    BY DEF WithLevel
  <2> HIDE DEF put, new
  <2>2. CASE side = "buy"
    BY <1>1, <2>1, <2>2
  <2>3. CASE side = "sell"
    BY <1>1, <2>1, <2>3
  <2>4. QED
    BY <1>1, <2>2, <2>3
<1>3. /\ DOMAIN put = IF queue = <<>> THEN DOMAIN old \ {price} ELSE DOMAIN old \cup {price}
      /\ put = [p \in DOMAIN put |-> put[p]]
      /\ \A p \in DOMAIN put : put[p] = IF p = price THEN queue ELSE old[p]
  <2>1. CASE queue = <<>>
    BY <1>1, <2>1 DEF Restrict, SideFits
  <2>2. CASE queue # <<>>
    BY <1>1, <2>2 DEF SideFits
  <2>3. QED
    BY <2>1, <2>2
<1> HIDE DEF put
<1>4. IsFiniteSet(DOMAIN put)
  <2>1. IsFiniteSet(DOMAIN old)
    BY <1>1 DEF SideFits
  <2>2. IsFiniteSet(DOMAIN old \cup {price}) /\ IsFiniteSet(DOMAIN old \ {price})
    BY <2>1, FS_AddElement, FS_RemoveElement
  <2>3. QED
    BY <1>3, <2>2
<1>5. DOMAIN put \subseteq Cents
  BY <1>1, <1>3 DEF SideFits
<1>6. \A p \in DOMAIN put : QueueFits(put[p]) /\ put[p] # <<>>
  BY <1>1, <1>3 DEF SideFits
<1>7. SideFits(put)
  BY <1>3, <1>4, <1>5, <1>6 DEF SideFits
<1>8. new[side] = put /\ new[Facing(side)] = book[Facing(side)]
  BY <1>1, <1>2 DEF Facing
<1>9. BookFits(new)
  BY <1>1, <1>2, <1>7 DEF BookFits
<1> HIDE DEF new
<1>10. ASSUME NEW s \in Sides, NEW p
       PROVE  Level(new, s, p) = IF s = side /\ p = price THEN queue ELSE Level(book, s, p)
  <2>1. CASE s # side
    <3>1. s = Facing(side)
      BY <1>1, <2>1 DEF Facing, Sides
    <3>2. QED
      BY <1>8, <2>1, <3>1 DEF Level
  <2>2. CASE s = side /\ p = price
    BY <1>3, <1>8, <2>2 DEF Level
  <2>3. CASE s = side /\ p # price
    BY <1>3, <1>8, <2>3 DEF Level
  <2>4. QED
    BY <2>1, <2>2, <2>3
<1>11. QED
  BY <1>3, <1>8, <1>9, <1>10 DEF new, Replaced

-----------------------------------------------------------------------------
(* The best price. *)

\* A finite nonempty set of prices has one that is better than the others.
LEMMA BestPrice ==
    ASSUME NEW book, BookFits(book), NEW o, o.side \in Sides,
           DOMAIN book[Facing(o.side)] # {}
    PROVE  LET b == BestFacing(book, o)
           IN  /\ b \in DOMAIN book[Facing(o.side)]
               /\ b \in Cents
               /\ \A q \in DOMAIN book[Facing(o.side)] : b = q \/ Better(o.side, b, q)
<1> DEFINE S == DOMAIN book[Facing(o.side)]
<1>1. IsFiniteSet(S) /\ S \subseteq Cents
  BY SidesOfBook DEF SideFits
<1>2. \E b \in S : \A q \in S : b = q \/ Better(o.side, b, q)
  <2>1. CASE o.side = "buy"
    <3>1. PICK b \in S : \A q \in S : b <= q
      BY <1>1, LeastNatural DEF Cents
    <3>2. \A q \in S : b = q \/ b < q
      BY <1>1, <3>1 DEF Cents
    <3>3. QED
      BY <2>1, <3>2 DEF Better
  <2>2. CASE o.side = "sell"
    <3>1. S \subseteq Int
      BY <1>1 DEF Cents
    <3>2. Max(S) \in S /\ \A q \in S : Max(S) >= q
      BY <1>1, <3>1, MaxOfFinite
    <3>3. \A q \in S : Max(S) = q \/ Max(S) > q
      BY <3>1, <3>2
    <3>4. QED
      BY <2>2, <3>2, <3>3 DEF Better
  <2>3. QED
    BY <2>1, <2>2 DEF Sides
<1> DEFINE b == BestFacing(book, o)
<1>3. b \in S /\ \A q \in S : b = q \/ Better(o.side, b, q)
  BY <1>2 DEF BestFacing
<1>4. QED
  BY <1>1, <1>3

\* When the best facing price does not cross, none does, and an order may rest
\* at its limit without crossing the book.
LEMMA NothingCrosses ==
    ASSUME NEW book, BookFits(book), Uncrossed(book), NEW o, o.side \in Sides,
           o.limit \in Cents, ~HasNextFill(book, o),
           NEW queue, QueueFits(queue), queue # <<>>
    PROVE  Uncrossed(WithLevel(book, o.side, o.limit, queue))
<1> DEFINE S == DOMAIN book[Facing(o.side)]
           new == WithLevel(book, o.side, o.limit, queue)
<1>1. S \subseteq Cents
  BY SidesOfBook DEF SideFits
<1>2. \A q \in S : ~Crosses(o.side, q, o.limit)
  <2>1. CASE S = {}
    BY <2>1
  <2>2. CASE S # {}
    <3> DEFINE b == BestFacing(book, o)
    <3>1. b \in Cents /\ \A q \in S : b = q \/ Better(o.side, b, q)
      BY <2>2, BestPrice
    <3>2. ~Crosses(o.side, b, o.limit)
      BY <2>2 DEF HasNextFill
    <3> HIDE DEF b, S
    <3>3. QED
      BY <1>1, <3>1, <3>2 DEF Crosses, Better, Cents, Sides
  <2>3. QED
    BY <2>1, <2>2
<1>3. DOMAIN new[o.side] = DOMAIN book[o.side] \cup {o.limit} /\ DOMAIN new[Facing(o.side)] = S
  <2>1. Replaced(new, book, o.side, o.limit, queue)
    BY WithLevelFits
  <2> HIDE DEF new
  <2>2. QED
    BY <2>1 DEF Replaced
<1> HIDE DEF new
<1>4. CASE o.side = "buy"
  <2>1. \A ask \in DOMAIN book.sell : o.limit < ask
    BY <1>1, <1>2, <1>4 DEF Crosses, Facing, Cents
  <2>2. DOMAIN new.buy = DOMAIN book.buy \cup {o.limit} /\ DOMAIN new.sell = DOMAIN book.sell
    BY <1>3, <1>4 DEF Facing
  <2>3. QED
    BY <2>1, <2>2 DEF Uncrossed, new
<1>5. CASE o.side = "sell"
  <2>1. \A bid \in DOMAIN book.buy : bid < o.limit
    BY <1>1, <1>2, <1>5 DEF Crosses, Facing, Cents
  <2>2. DOMAIN new.sell = DOMAIN book.sell \cup {o.limit} /\ DOMAIN new.buy = DOMAIN book.buy
    BY <1>3, <1>5 DEF Facing
  <2>3. QED
    BY <2>1, <2>2 DEF Uncrossed, new
<1>6. QED
  BY <1>4, <1>5 DEF Sides

\* A book stays uncrossed when a level it has gets another queue.
LEMMA StaysUncrossed ==
    ASSUME NEW book, BookFits(book), Uncrossed(book), NEW side \in Sides,
           NEW price \in DOMAIN book[side], NEW queue, QueueFits(queue)
    PROVE  Uncrossed(WithLevel(book, side, price, queue))
<1> DEFINE new == WithLevel(book, side, price, queue)
<1>0. price \in DOMAIN book[side]
  OBVIOUS
<1>1. price \in Cents
  BY SidesOfBook
<1>2. DOMAIN new[side] \subseteq DOMAIN book[side] /\ DOMAIN new[Facing(side)] = DOMAIN book[Facing(side)]
  <2>1. Replaced(new, book, side, price, queue)
    BY <1>1, WithLevelFits
  <2> HIDE DEF new
  <2>2. QED
    BY <1>0, <2>1 DEF Replaced
<1> HIDE DEF new
<1>3. DOMAIN new.buy \subseteq DOMAIN book.buy /\ DOMAIN new.sell \subseteq DOMAIN book.sell
  BY <1>2 DEF Sides, Facing
<1>4. QED
  BY <1>3 DEF Uncrossed, new
=============================================================================
