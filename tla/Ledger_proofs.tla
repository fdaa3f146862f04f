---------------------------- MODULE Ledger_proofs ----------------------------
(***************************************************************************)
(* Theorems about Ledger, for every set of accounts, assets and markets,   *)
(* every funding and every machine integer size.                           *)
(***************************************************************************)
EXTENDS Ledger, MarketTheorems, TLAPS

-----------------------------------------------------------------------------
(* Type correctness *)

\* The type invariant is that of the value.
LEMMA FitsIsType == LedgerTypeOK <=> LedgerFits(ledger)
BY DEF LedgerTypeOK, LedgerFits

\* Nonnegative balances, well formed reservations and exact units hold in
\* every state of every instance.
THEOREM TypeCorrect == Spec => []LedgerTypeOK
<1>1. Init => LedgerTypeOK
  <2> SUFFICES ASSUME Init PROVE LedgerTypeOK
    OBVIOUS
  <2>1. \A k \in Keys : ledger.bal[k] \in Balance /\ BalanceFits(ledger.bal[k])
    BY LedgerConfig DEF Init, FundedLedger, Balance, BalanceFits
  <2>2. ledger.bal \in [Keys -> Balance]
    BY <2>1 DEF Init, FundedLedger
  <2>3. QED
    BY <2>1, <2>2 DEF Init, FundedLedger, LedgerTypeOK, EmptyReservations, UnitsExact
<1>2. LedgerTypeOK /\ [Next]_ledger => LedgerTypeOK'
  <2> SUFFICES ASSUME LedgerTypeOK, [Next]_ledger PROVE LedgerTypeOK'
    OBVIOUS
  <2>0. LedgerFits(ledger)
    BY FitsIsType
  <2> SUFFICES LedgerFits(ledger')
    BY DEF LedgerTypeOK, LedgerFits
  <2>1. ASSUME NEW id \in 1..MaxSequence, NEW account \in Accounts,
               NEW symbol \in Symbols, NEW side \in Sides,
               NEW limit \in Limits, NEW qty \in Quantities,
               Reserve(id, account, symbol, side, limit, qty)
        PROVE  LedgerFits(ledger')
    <3>1. Reserves(ledger, ledger', id, account, symbol, side, limit, qty)
      BY <2>1 DEF Reserve, Reserves
    <3>2. QED
      BY <2>0, <3>1, LedgerInputs, ReserveFits
  <2>2. ASSUME NEW maker \in DOMAIN ledger.resv, NEW taker \in DOMAIN ledger.resv,
               NEW price \in Limits, NEW qty \in Quantities,
               SettleFill(maker, taker, price, qty)
        PROVE  LedgerFits(ledger')
    <3>1. Settles(ledger, ledger', maker, taker, price, qty)
      BY <2>2 DEF SettleFill, Settles
    <3>2. QED
      BY <2>0, <3>1, LedgerInputs, SettleFits
  <2>3. ASSUME NEW id \in DOMAIN ledger.resv, Release(id) PROVE LedgerFits(ledger')
    <3>1. Releases(ledger, ledger', id)
      BY <2>3 DEF Release, Releases
    <3>2. QED
      BY <2>0, <3>1, ReleaseFits
  <2>4. ASSUME NEW sequence \in 1..MaxSequence, FinishSequence(sequence)
        PROVE  LedgerFits(ledger')
    BY <2>0, <2>4, FinishFits DEF FinishSequence, CanFinish
  <2>5. CASE UNCHANGED ledger
    BY <2>0, <2>5
  <2>6. QED
    BY <2>1, <2>2, <2>3, <2>4, <2>5 DEF Next
<1>3. QED
  BY <1>1, <1>2, PTL DEF Spec

-----------------------------------------------------------------------------
(* Value only moves *)

\* What every operation does to the totals: settle_fill moves value between the
\* buyer and the seller, reserve and release only move units between available
\* and reserved.
LEMMA StepMovesValue == ASSUME LedgerTypeOK, Next PROVE MovesBetweenTwo
<1> USE DEF MovesBetweenTwo
<1>0. LedgerFits(ledger)
  BY FitsIsType
<1>1. ASSUME NEW id \in 1..MaxSequence, NEW account \in Accounts,
             NEW symbol \in Symbols, NEW side \in Sides,
             NEW limit \in Limits, NEW qty \in Quantities,
             Reserve(id, account, symbol, side, limit, qty)
      PROVE  MovesBetweenTwo
  <2>1. Reserves(ledger, ledger', id, account, symbol, side, limit, qty)
    BY <1>1 DEF Reserve, Reserves
  <2>2. \A a \in Accounts, asset \in Assets : Total(ledger', a, asset) = Total(ledger, a, asset)
    BY <1>0, <2>1, LedgerInputs, ReserveKeepsTotals
  <2>3. QED
    BY <2>2
<1>2. ASSUME NEW maker \in DOMAIN ledger.resv, NEW taker \in DOMAIN ledger.resv,
             NEW price \in Limits, NEW qty \in Quantities,
             SettleFill(maker, taker, price, qty)
      PROVE  MovesBetweenTwo
  <2> DEFINE buyer == Buyer(ledger, maker, taker)
             seller == Seller(ledger, maker, taker)
             cash == price * qty
             goods == qty * UnitsPerTenth
             quote == QuoteAsset[buyer.symbol]
             base == BaseAsset[buyer.symbol]
  <2>1. buyer \in Reservation /\ seller \in Reservation
    BY DEF LedgerTypeOK, Buyer, Seller
  <2>2. cash \in Int /\ goods \in Int
    BY LedgerInputs, LedgerConfig
  <2>3. IsFunded /\ ledger' = AfterSettle(ledger, maker, taker, price, qty)
    BY <1>2 DEF SettleFill
  <2>4. \A a \in Accounts, asset \in Assets :
          /\ Total(ledger, a, asset) \in Int
          /\ Total(ledger', a, asset) = Total(ledger, a, asset)
               - At(<<a, asset>>, <<buyer.account, quote>>, cash)
               + At(<<a, asset>>, <<seller.account, quote>>, cash)
               + At(<<a, asset>>, <<buyer.account, base>>, goods)
               - At(<<a, asset>>, <<seller.account, base>>, goods)
    <3> SUFFICES ASSUME NEW a \in Accounts, NEW asset \in Assets
                 PROVE  /\ Total(ledger, a, asset) \in Int
                        /\ Total(ledger', a, asset) = Total(ledger, a, asset)
                             - At(<<a, asset>>, <<buyer.account, quote>>, cash)
                             + At(<<a, asset>>, <<seller.account, quote>>, cash)
                             + At(<<a, asset>>, <<buyer.account, base>>, goods)
                             - At(<<a, asset>>, <<seller.account, base>>, goods)
      OBVIOUS
    <3>1. ledger.bal[<<a, asset>>] \in Balance
      BY DEF LedgerTypeOK, Keys
    <3>2. price \in Int /\ qty \in Int
      BY LedgerInputs
    <3>3. LedgerFits(ledger)
      BY FitsIsType
    <3>4. QED
      BY <2>3, <3>1, <3>2, <3>3, TotalAfterFill DEF Total, Balance
  <2> HIDE DEF buyer, seller, cash, goods, quote, base
  <2>5. CASE buyer.account = seller.account
    BY <2>2, <2>4, <2>5 DEF At
  <2>6. CASE buyer.account # seller.account
    <3>1. \A asset \in Assets :
            /\ \A c \in Accounts \ {buyer.account, seller.account} :
                  Total(ledger', c, asset) = Total(ledger, c, asset)
            /\ Total(ledger', buyer.account, asset) + Total(ledger', seller.account, asset)
                 = Total(ledger, buyer.account, asset) + Total(ledger, seller.account, asset)
      BY <2>1, <2>2, <2>4, <2>6 DEF At, Reservation
    <3>2. QED
      BY <2>1, <2>6, <3>1 DEF Reservation
  <2>7. QED
    BY <2>5, <2>6
<1>3. ASSUME NEW id \in DOMAIN ledger.resv, Release(id) PROVE MovesBetweenTwo
  <2>1. Releases(ledger, ledger', id)
    BY <1>3 DEF Release, Releases
  <2>2. \A a \in Accounts, asset \in Assets : Total(ledger', a, asset) = Total(ledger, a, asset)
    BY <1>0, <2>1, ReleaseKeepsTotals
  <2>3. QED
    BY <2>2
<1>4. ASSUME NEW sequence \in 1..MaxSequence, FinishSequence(sequence)
      PROVE  MovesBetweenTwo
  BY <1>4 DEF FinishSequence, AfterFinish, Total, LedgerTypeOK
<1>5. QED
  BY <1>1, <1>2, <1>3, <1>4 DEF Next

\* Every step of every instance either leaves all totals alone or moves value
\* between exactly two accounts (ledger.rs settle_fill; reserve and release only
\* move units between available and reserved).
THEOREM NoValueCreated == Spec => ValueOnlyMoves
<1>1. LedgerTypeOK /\ [Next]_ledger => [MovesBetweenTwo]_ledger
  BY StepMovesValue
<1>2. QED
  BY <1>1, TypeCorrect, PTL DEF Spec, ValueOnlyMoves

-----------------------------------------------------------------------------
(* Obligations *)

\* In every step of every instance an obligation keeps its owner and terms and
\* only shrinks, and a finished sequence number never gains one (settle_fill,
\* release and the sequence check of reserve).
THEOREM ObligationsShrinkOnly == Spec => ObligationsOnlyShrink
<1>1. LedgerTypeOK /\ [Next]_ledger => [ObligationsShrink]_ledger
  <2> SUFFICES ASSUME LedgerTypeOK, Next PROVE ObligationsShrink
    OBVIOUS
  <2> DEFINE Shrunk(old, new) ==
               /\ new.remaining <= old.remaining
               /\ new.units <= old.units
               /\ \A field \in {"account", "symbol", "side", "limit"} : new[field] = old[field]
  <2>0. ASSUME NEW r \in Reservation PROVE Shrunk(r, r)
    BY DEF Reservation
  <2>1. ASSUME NEW seq \in 1..MaxSequence, NEW account \in Accounts,
               NEW symbol \in Symbols, NEW side \in Sides,
               NEW limit \in Limits, NEW qty \in Quantities,
               Reserve(seq, account, symbol, side, limit, qty)
        PROVE  ObligationsShrink
    <3>1. seq = ledger.last + 1 /\ seq \notin DOMAIN ledger.resv
      BY <2>1 DEF Reserve, CanReserve
    <3>2. /\ DOMAIN ledger'.resv = DOMAIN ledger.resv \cup {seq}
          /\ \A id \in DOMAIN ledger.resv : ledger'.resv[id] = ledger.resv[id]
      BY <2>1, <3>1 DEF Reserve, AfterReserve, Put, LedgerTypeOK
    <3>3. \A id \in DOMAIN ledger.resv : Shrunk(ledger.resv[id], ledger'.resv[id])
      BY <2>0, <3>2 DEF LedgerTypeOK
    <3>4. QED
      BY <3>1, <3>2, <3>3 DEF ObligationsShrink, LedgerTypeOK
  <2>2. ASSUME NEW maker \in DOMAIN ledger.resv, NEW taker \in DOMAIN ledger.resv,
               NEW price \in Limits, NEW qty \in Quantities,
               SettleFill(maker, taker, price, qty)
        PROVE  ObligationsShrink
    <3> DEFINE next(id) == ReduceReservation(ledger.resv[id], qty)
               done == {id \in {maker, taker} : next(id).remaining = 0}
    <3>1. /\ qty \in Nat \ {0}
          /\ qty <= ledger.resv[maker].remaining
          /\ qty <= ledger.resv[taker].remaining
      BY <2>2, LedgerInputs DEF SettleFill, CanSettle, FillTermsAgree
    <3>2. ledger'.resv = [id \in DOMAIN ledger.resv \ done |->
                             IF id \in {maker, taker} THEN next(id) ELSE ledger.resv[id]]
      BY <2>2 DEF SettleFill, AfterSettle, LedgerTypeOK
    <3>3. ASSUME NEW id \in DOMAIN ledger'.resv
          PROVE  id \in DOMAIN ledger.resv /\ Shrunk(ledger.resv[id], ledger'.resv[id])
      <4>1. id \in DOMAIN ledger.resv /\ ledger.resv[id] \in Reservation
        BY <3>2 DEF LedgerTypeOK
      <4>2. CASE id \notin {maker, taker}
        BY <2>0, <3>2, <4>1, <4>2
      <4>3. CASE id \in {maker, taker}
        <5> DEFINE r == ledger.resv[id]
        <5>1. ledger'.resv[id] = ReduceReservation(r, qty)
          BY <3>2, <4>3
        <5>2. r.remaining - qty # 0
          BY <3>2, <4>1, <4>3, RemainingAfterFill, <3>1
        <5>3. qty < r.remaining
          BY <3>1, <4>1, <4>3, <5>2 DEF Reservation
        <5>4. ReserveUnits(r.side, r.limit, r.remaining - qty)
                 <= ReserveUnits(r.side, r.limit, r.remaining)
          BY <3>1, <4>1, <5>3, UnitsMonotone DEF Reservation
        <5>5. r.units = ReserveUnits(r.side, r.limit, r.remaining)
          BY <4>1 DEF LedgerTypeOK, UnitsExact
        <5> HIDE DEF r
        <5>6. r \in Reservation
          BY <4>1 DEF r
        <5>7. Shrunk(r, ReduceReservation(r, qty))
          BY <3>1, <5>3, <5>4, <5>5, <5>6, ReducedReservation DEF Reservation
        <5>8. QED
          BY <4>1, <5>1, <5>7 DEF r
      <4>4. QED
        BY <4>2, <4>3
    <3>4. QED
      BY <3>3 DEF ObligationsShrink
  <2>3. ASSUME NEW id \in DOMAIN ledger.resv, Release(id) PROVE ObligationsShrink
    <3>1. ledger'.resv = Without(ledger.resv, {id})
      BY <2>3 DEF Release, AfterRelease, LedgerTypeOK
    <3>2. /\ DOMAIN ledger'.resv \subseteq DOMAIN ledger.resv
          /\ \A i \in DOMAIN ledger'.resv : ledger'.resv[i] = ledger.resv[i]
      BY <3>1 DEF Without, Restrict
    <3>3. \A i \in DOMAIN ledger'.resv : Shrunk(ledger.resv[i], ledger'.resv[i])
      BY <2>0, <3>2 DEF LedgerTypeOK
    <3>4. QED
      BY <3>2, <3>3 DEF ObligationsShrink
  <2>4. ASSUME NEW sequence \in 1..MaxSequence, FinishSequence(sequence)
        PROVE  ObligationsShrink
    <3>1. ledger'.resv = ledger.resv
      BY <2>4 DEF FinishSequence, AfterFinish, LedgerTypeOK
    <3>2. \A i \in DOMAIN ledger'.resv : Shrunk(ledger.resv[i], ledger'.resv[i])
      BY <2>0, <3>1 DEF LedgerTypeOK
    <3>3. QED
      BY <3>1, <3>2 DEF ObligationsShrink
  <2>5. QED
    BY <2>1, <2>2, <2>3, <2>4 DEF Next
<1>2. QED
  BY <1>1, TypeCorrect, PTL DEF Spec, ObligationsOnlyShrink

-----------------------------------------------------------------------------
(* The books balance *)

\* Between any two calls the funding is conserved and every reserved unit is
\* owed to a live reservation.  ledger.rs checks this of a stored ledger only
\* (validate, called by from_snapshot); it is what makes the checks of the other
\* operations enough, and with the type invariant it is inductive.
BooksBalance ==
    /\ IsFunded => Conserved(ledger)
    /\ ReservesBacked(ledger)

LedgerInv == LedgerTypeOK /\ BooksBalance

\* The totals of an asset, and the fact that they are integers.
Totals(l, asset) == [a \in Accounts |-> Total(l, a, asset)]

\* Value that only moves is conserved: taking the two accounts that trade out of
\* both sums leaves the same rest.
LEMMA MovingConserves ==
    ASSUME LedgerTypeOK, LedgerTypeOK', MovesBetweenTwo, Conserved(ledger)
    PROVE  Conserved(ledger')
<1>1. \A a \in Accounts, asset \in Assets :
        Total(ledger, a, asset) \in Int /\ Total(ledger', a, asset) \in Int
  BY DEF LedgerTypeOK, Total, Keys, Balance
<1>2. IsFiniteSet(Accounts)
  BY LedgerConfig
<1> SUFFICES ASSUME NEW asset \in Assets
             PROVE  SumFunction(Totals(ledger', asset)) = SumFunction(Totals(ledger, asset))
  BY DEF Conserved, Totals
<1> DEFINE before == Totals(ledger, asset)
           after == Totals(ledger', asset)
           Sum(f, S) == SumFunctionOnSet(f, S)
<1>3. SumFunction(before) = Sum(before, Accounts) /\ SumFunction(after) = Sum(after, Accounts)
  BY SumFunctionIsSum DEF Totals
<1>4. \A a \in Accounts : /\ before[a] = Total(ledger, a, asset) /\ before[a] \in Int
                          /\ after[a] = Total(ledger', a, asset) /\ after[a] \in Int
  BY <1>1 DEF Totals
<1> HIDE DEF before, after
<1>5. CASE \A a \in Accounts : after[a] = before[a]
  <2>1. Sum(after, Accounts) = Sum(before, Accounts)
    BY <1>2, <1>5, SumOfSame
  <2>2. QED
    BY <1>3, <2>1 DEF before, after
<1>6. ASSUME NEW a \in Accounts, NEW b \in Accounts, a # b,
             \A c \in Accounts \ {a, b} : after[c] = before[c],
             after[a] + after[b] = before[a] + before[b]
      PROVE  Sum(after, Accounts) = Sum(before, Accounts)
  <2> DEFINE most == Accounts \ {a}
             rest == most \ {b}
  <2>1. IsFiniteSet(most) /\ IsFiniteSet(rest)
    BY <1>2, FS_RemoveElement
  <2>2. b \in most /\ most \subseteq Accounts /\ rest \subseteq Accounts
    BY <1>6
  <2>3. \A c \in rest : after[c] = before[c]
    BY <1>6
  <2>4. /\ Sum(before, Accounts) = before[a] + Sum(before, most)
        /\ Sum(after, Accounts) = after[a] + Sum(after, most)
    BY <1>2, <1>4, SumTakesAny
  <2> HIDE DEF most
  <2>5. /\ Sum(before, most) = before[b] + Sum(before, rest)
        /\ Sum(after, most) = after[b] + Sum(after, rest)
    BY <1>4, <2>1, <2>2, SumTakesAny
  <2> HIDE DEF rest
  <2>6. Sum(after, rest) = Sum(before, rest)
    BY <2>1, <2>3, SumOfSame
  <2>7. Sum(before, rest) \in Int
    BY <1>4, <2>1, <2>2, SumIsInteger
  <2> HIDE DEF Sum
  <2>8. QED
    BY <1>4, <1>6, <2>4, <2>5, <2>6, <2>7
<1>7. CASE ~(\A a \in Accounts : after[a] = before[a])
  <2>1. ~(\A a \in Accounts, x \in Assets : Total(ledger', a, x) = Total(ledger, a, x))
    BY <1>4, <1>7
  <2>2. PICK a \in Accounts, b \in Accounts :
          a # b /\ \A x \in Assets :
            /\ \A c \in Accounts \ {a, b} : Total(ledger', c, x) = Total(ledger, c, x)
            /\ Total(ledger', a, x) + Total(ledger', b, x)
                 = Total(ledger, a, x) + Total(ledger, b, x)
    BY <2>1 DEF MovesBetweenTwo
  <2>3. /\ a # b
        /\ \A c \in Accounts \ {a, b} : after[c] = before[c]
        /\ after[a] + after[b] = before[a] + before[b]
    BY <1>4, <2>2
  <2>4. Sum(after, Accounts) = Sum(before, Accounts)
    BY <1>6, <2>3
  <2>5. QED
    BY <1>3, <2>4 DEF before, after
<1>8. QED
  BY <1>5, <1>7

-----------------------------------------------------------------------------
(* The inductive invariant and what follows from it *)

LEMMA InitBooks == Init => BooksBalance
<1> SUFFICES ASSUME Init PROVE BooksBalance
  OBVIOUS
<1>1. /\ ledger.resv = EmptyReservations
      /\ \A k \in Keys : /\ ledger.bal[k].reserved = 0
                         /\ IsFunded => ledger.bal[k].available = Funding[k]
  BY DEF Init, FundedLedger
<1>2. ASSUME NEW k \in Keys PROVE Obligations(ledger, k) = 0
  <2>1. Holders(ledger.resv, k) = {}
    BY <1>1 DEF Holders, EmptyReservations
  <2>2. QED
    BY <2>1, ObligationsAsSum, SumOfNothing
<1>3. ASSUME IsFunded PROVE Conserved(ledger)
  <2>1. \A a \in Accounts, asset \in Assets : Total(ledger, a, asset) = Funding[<<a, asset>>]
    BY <1>1, <1>3, LedgerConfig DEF Total, Keys
  <2>2. ASSUME NEW asset \in Assets
        PROVE  [a \in Accounts |-> Total(ledger, a, asset)]
                 = [a \in Accounts |-> Funding[<<a, asset>>]]
    BY <2>1
  <2>3. QED
    BY <2>2, Zenon DEF Conserved
<1>4. QED
  BY <1>1, <1>2, <1>3 DEF BooksBalance, ReservesBacked

LEMMA NextBooks == ASSUME LedgerInv, LedgerTypeOK', [Next]_ledger PROVE BooksBalance'
<1>1. LedgerTypeOK /\ ReservesBacked(ledger) /\ (IsFunded => Conserved(ledger))
  BY DEF LedgerInv, BooksBalance
<1>2. CASE UNCHANGED ledger
  BY <1>1, <1>2, Zenon DEF BooksBalance
<1>3. ASSUME Next, IsFunded PROVE Conserved(ledger')
  BY <1>1, <1>3, StepMovesValue, MovingConserves
<1>4. ASSUME Next PROVE ReservesBacked(ledger')
  <2>0. LedgerFits(ledger) /\ LedgerFits(ledger')
    BY <1>1 DEF LedgerTypeOK, LedgerFits
  <2>1. ASSUME NEW id \in 1..MaxSequence, NEW account \in Accounts,
               NEW symbol \in Symbols, NEW side \in Sides,
               NEW limit \in Limits, NEW qty \in Quantities,
               Reserve(id, account, symbol, side, limit, qty)
        PROVE  ReservesBacked(ledger')
    <3>1. Reserves(ledger, ledger', id, account, symbol, side, limit, qty)
      BY <2>1 DEF Reserve, Reserves
    <3>2. QED
      BY <1>1, <2>0, <3>1, LedgerInputs, ReserveKeepsBacking
  <2>2. ASSUME NEW maker \in DOMAIN ledger.resv, NEW taker \in DOMAIN ledger.resv,
               NEW price \in Limits, NEW qty \in Quantities,
               SettleFill(maker, taker, price, qty)
        PROVE  ReservesBacked(ledger')
    <3>1. Settles(ledger, ledger', maker, taker, price, qty)
      BY <2>2 DEF SettleFill, Settles
    <3>2. IsFunded /\ price \in Int /\ qty \in Int
      BY <2>2, LedgerInputs DEF SettleFill
    <3>3. QED
      BY <1>1, <2>0, <3>1, <3>2, SettleKeepsBacking
  <2>3. ASSUME NEW id \in DOMAIN ledger.resv, Release(id) PROVE ReservesBacked(ledger')
    <3>1. Releases(ledger, ledger', id)
      BY <2>3 DEF Release, Releases
    <3>2. QED
      BY <1>1, <2>0, <3>1, ReleaseKeepsBacking
  <2>4. ASSUME NEW sequence \in 1..MaxSequence, FinishSequence(sequence)
        PROVE  ReservesBacked(ledger')
    <3>1. ledger'.bal = ledger.bal /\ ledger'.resv = ledger.resv
      BY <1>1, <2>4 DEF FinishSequence, AfterFinish, LedgerTypeOK
    <3>2. \A k \in Keys : Obligations(ledger', k) = Obligations(ledger, k)
      BY <3>1, ObligationsAsSum
    <3>3. QED
      BY <1>1, <3>1, <3>2 DEF ReservesBacked
  <2>5. QED
    BY <1>4, <2>1, <2>2, <2>3, <2>4 DEF Next
<1>5. QED
  BY <1>2, <1>3, <1>4 DEF BooksBalance

\* The books balance in every state of every instance.
THEOREM BooksAlwaysBalance == Spec => []LedgerInv
<1>1. Init => BooksBalance
  BY InitBooks
<1>2. LedgerInv /\ LedgerTypeOK' /\ [Next]_ledger => LedgerInv'
  BY NextBooks DEF LedgerInv
<1>3. Init /\ LedgerTypeOK => LedgerInv
  BY <1>1 DEF LedgerInv
<1>4. QED
  BY <1>2, <1>3, TypeCorrect, PTL DEF Spec

\* Between two messages a stored ledger is always one from_snapshot accepts, for
\* every instance (ledger.rs from_snapshot and its validate): no restart refuses
\* a ledger the operations themselves produced.
THEOREM SnapshotAccepts == Spec => []SnapshotAlwaysAccepted
<1>1. LedgerInv => SnapshotAlwaysAccepted
  <2> SUFFICES ASSUME LedgerInv, ledger.last + 1 \notin DOMAIN ledger.resv
               PROVE  SnapshotAccepted(ledger)
    BY DEF SnapshotAlwaysAccepted
  <2>1. DOMAIN ledger.resv \subseteq 1..ledger.last
    BY DEF LedgerInv, LedgerTypeOK
  <2>2. QED
    BY <2>1 DEF LedgerInv, LedgerTypeOK, BooksBalance, SnapshotAccepted, Validate
<1>2. QED
  BY <1>1, BooksAlwaysBalance, PTL

\* Whatever a live reservation is owed is there: release, which its callers
\* unwrap with expect, cannot fail, and the legs of a fill whose terms agree find
\* their units at every price inside both limits (ledger.rs release, settle_fill
\* and check_balance).
THEOREM BackingAlwaysThere == Spec => []BackingIsThere
<1>1. LedgerInv => BackingIsThere
  <2> SUFFICES ASSUME LedgerInv PROVE ReleaseNeverFails /\ FillsFailOnlyOnOverflow
    BY DEF BackingIsThere
  <2>1. /\ \A k \in Keys : /\ ledger.bal[k] \in Balance /\ BalanceFits(ledger.bal[k])
                           /\ ledger.bal[k].reserved = Obligations(ledger, k)
        /\ \A id \in DOMAIN ledger.resv :
              /\ ledger.resv[id] \in Reservation
              /\ ledger.resv[id].units = ReserveUnits(ledger.resv[id].side,
                     ledger.resv[id].limit, ledger.resv[id].remaining)
    BY DEF LedgerInv, LedgerTypeOK, BooksBalance, ReservesBacked, UnitsExact
  <2>2. LedgerFits(ledger) /\ ReservesBacked(ledger)
    BY FitsIsType DEF LedgerInv, BooksBalance
  <2>3. \A id \in DOMAIN ledger.resv :
           /\ ReservationKey(ledger.resv[id]) \in Keys
           /\ ledger.resv[id].units \in Nat
           /\ ledger.resv[id].units <= ledger.bal[ReservationKey(ledger.resv[id])].reserved
    BY <2>2, BackingIsReserved
  <2>4. ReleaseNeverFails
    BY <2>2, BackedCanRelease DEF ReleaseNeverFails
  <2>5. FillsFailOnlyOnOverflow
    <3> SUFFICES ASSUME NEW maker \in DOMAIN ledger.resv, NEW taker \in DOMAIN ledger.resv,
                        NEW price \in Limits, NEW qty \in Quantities,
                        FillTermsAgree(ledger, maker, taker, price, qty),
                        NEW k \in FillKeys(ledger, maker, taker)
                 PROVE  LET b == BalanceAfterFill(ledger, maker, taker, price, qty, k)
                        IN  b.available >= 0 /\ b.reserved >= 0
      BY DEF FillsFailOnlyOnOverflow
    <3> DEFINE buyer == Buyer(ledger, maker, taker)
               seller == Seller(ledger, maker, taker)
               cash == price * qty
               backed == buyer.limit * qty
               goods == qty * UnitsPerTenth
               buyerKey == <<buyer.account, QuoteAsset[buyer.symbol]>>
               sellerKey == <<seller.account, BaseAsset[buyer.symbol]>>
               after == BalanceAfterFill(ledger, maker, taker, price, qty, k)
    <3>1. /\ buyer \in Reservation /\ seller \in Reservation
          /\ buyer.side = "buy" /\ seller.side = "sell" /\ seller.symbol = buyer.symbol
          /\ qty \in Nat \ {0} /\ price \in Nat \ {0} /\ price <= buyer.limit
          /\ qty <= buyer.remaining /\ qty <= seller.remaining
          /\ buyer.units = ReserveUnits(buyer.side, buyer.limit, buyer.remaining)
          /\ seller.units = ReserveUnits(seller.side, seller.limit, seller.remaining)
      BY <2>1, LedgerInputs DEF FillTermsAgree, Buyer, Seller, Reservation, Sides
    <3>2. ReservationKey(buyer) = buyerKey /\ ReservationKey(seller) = sellerKey
      BY <3>1 DEF ReservationKey, AssetFor
    <3>3. buyerKey # sellerKey
      BY <3>1, LedgerConfig DEF Reservation, Markets
    <3>4. /\ buyer.units <= ledger.bal[buyerKey].reserved /\ buyerKey \in Keys
          /\ seller.units <= ledger.bal[sellerKey].reserved /\ sellerKey \in Keys
      <4>1. \E id \in DOMAIN ledger.resv : buyer = ledger.resv[id]
        BY DEF Buyer
      <4>2. \E id \in DOMAIN ledger.resv : seller = ledger.resv[id]
        BY DEF Seller
      <4> HIDE DEF buyer, seller
      <4>3. QED
        BY <2>3, <3>2, <4>1, <4>2
    <3>5. backed \in Nat /\ backed <= buyer.units
      <4>1. ReserveUnits(buyer.side, buyer.limit, qty)
              <= ReserveUnits(buyer.side, buyer.limit, buyer.remaining)
        BY <3>1, UnitsMonotone DEF Reservation, Sides
      <4>2. ReserveUnits(buyer.side, buyer.limit, qty) = backed
        BY <3>1 DEF ReserveUnits
      <4>3. ReserveUnits(buyer.side, buyer.limit, qty) \in Nat
        BY <3>1, UnitsPositive DEF Reservation
      <4> HIDE DEF buyer, backed
      <4>4. QED
        BY <3>1, <4>1, <4>2, <4>3
    <3>6. goods \in Nat /\ goods <= seller.units
      <4>1. ReserveUnits(seller.side, seller.limit, qty)
              <= ReserveUnits(seller.side, seller.limit, seller.remaining)
        BY <3>1, UnitsMonotone DEF Reservation, Sides
      <4>2. ReserveUnits(seller.side, seller.limit, qty) = goods
        BY <3>1 DEF ReserveUnits
      <4>3. ReserveUnits(seller.side, seller.limit, qty) \in Nat
        BY <3>1, UnitsPositive DEF Reservation
      <4> HIDE DEF seller, goods
      <4>4. QED
        BY <3>1, <4>1, <4>2, <4>3
    <3>7. cash \in Nat /\ cash <= backed
      <4> DEFINE more == buyer.limit - price
      <4>1. more \in Nat /\ buyer.limit = price + more /\ price \in Nat /\ qty \in Nat
        BY <3>1 DEF Reservation
      <4> HIDE DEF more
      <4>2. backed = price * qty + more * qty
        BY <4>1
      <4>3. price * qty \in Nat /\ more * qty \in Nat
        BY <4>1
      <4> HIDE DEF backed
      <4>4. QED
        BY <4>2, <4>3
    <3>8. k \in Keys
      BY <3>1, LedgerConfig DEF FillKeys, Reservation, Keys, Markets
    <3>9. /\ after.available = ledger.bal[k].available + At(k, buyerKey, backed - cash)
               + At(k, <<seller.account, QuoteAsset[buyer.symbol]>>, cash)
               + At(k, <<buyer.account, BaseAsset[buyer.symbol]>>, goods)
          /\ after.reserved = ledger.bal[k].reserved - At(k, buyerKey, backed)
               - At(k, sellerKey, goods)
      BY DEF BalanceAfterFill
    <3> HIDE DEF buyer, seller, cash, backed, goods, buyerKey, sellerKey, after
    <3>10. ledger.bal[k].available \in Nat /\ ledger.bal[k].reserved \in Nat
      BY <2>1, <3>8 DEF Balance
    <3>11. after.available >= 0
      BY <3>5, <3>6, <3>7, <3>9, <3>10 DEF At
    <3>12. after.reserved >= 0
      <4>1. buyer.units \in Nat /\ seller.units \in Nat
        BY <3>1 DEF Reservation
      <4>2. /\ k = buyerKey => backed <= ledger.bal[k].reserved
            /\ k = sellerKey => goods <= ledger.bal[k].reserved
        BY <2>1, <3>4, <3>5, <3>6, <4>1 DEF Balance
      <4>3. QED
        BY <3>3, <3>5, <3>6, <3>9, <3>10, <4>2 DEF At
    <3>13. QED
      BY <3>11, <3>12 DEF after
  <2>6. QED
    BY <2>4, <2>5
<1>2. QED
  BY <1>1, BooksAlwaysBalance, PTL

================================================================================
