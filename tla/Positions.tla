----------------------------- MODULE Positions -----------------------------
(***************************************************************************)
(* Position accounting of src/services/src/matcher.rs: what one fill does  *)
(* to an account's position in a symbol.  Locked-in profit uses the        *)
(* average cost of the open quantity, allocated in whole mills with the    *)
(* remainder left in the open basis; a fill through zero opens the other   *)
(* side at the fill price.  MaxInt stands for i64::MAX, and a fill any     *)
(* total of which would leave the range is refused whole.                  *)
(***************************************************************************)
EXTENDS Integers

CONSTANT MaxInt

ASSUME PositionWidth == MaxInt \in Nat \ {0}

Flat == [net |-> 0, cash |-> 0, basis |-> 0, realized |-> 0]

Fits(n) == -MaxInt - 1 <= n /\ n <= MaxInt
AbsoluteOf(n) == IF n < 0 THEN -n ELSE n
Lesser(m, n) == IF m <= n THEN m ELSE n

SignedQuantity(side, qty) == IF side = "buy" THEN qty ELSE -qty

\* A fill on a flat position, or on the side the position is already on.
OpensOrAdds(p, side) == p.net = 0 \/ (p.net > 0) = (side = "buy")

\* The part of the fill that closes open quantity, and the basis it takes.
Closed(p, qty) == Lesser(qty, AbsoluteOf(p.net))
ClosedBasis(p, qty) == (p.basis * Closed(p, qty)) \div AbsoluteOf(p.net)

RealizedBy(p, qty, price) ==
    LET proceeds == Closed(p, qty) * price
    IN  IF p.net > 0 THEN proceeds - ClosedBasis(p, qty)
                     ELSE ClosedBasis(p, qty) - proceeds

\* A slip the runs must notice: a fill through zero opens the other side at
\* the whole quantity's cost.
AfterFillWholeBasis(p, side, qty, price) ==
    LET net     == p.net + SignedQuantity(side, qty)
        flipped == qty - Closed(p, qty)
        basis   == IF OpensOrAdds(p, side) THEN p.basis + qty * price
                   ELSE IF flipped > 0 THEN qty * price
                   ELSE p.basis - ClosedBasis(p, qty)
    IN  [net      |-> net,
         cash     |-> p.cash - SignedQuantity(side, qty) * price,
         basis    |-> IF net = 0 THEN 0 ELSE basis,
         realized |-> IF OpensOrAdds(p, side) THEN p.realized
                      ELSE p.realized + RealizedBy(p, qty, price)]

\* Position::after_fill, without its range checks (see CanFill).
AfterFill(p, side, qty, price) ==
    LET net     == p.net + SignedQuantity(side, qty)
        flipped == qty - Closed(p, qty)
        basis   == IF OpensOrAdds(p, side) THEN p.basis + qty * price
                   ELSE IF flipped > 0 THEN flipped * price
                   ELSE p.basis - ClosedBasis(p, qty)
    IN  [net      |-> net,
         cash     |-> p.cash - SignedQuantity(side, qty) * price,
         basis    |-> IF net = 0 THEN 0 ELSE basis,
         realized |-> IF OpensOrAdds(p, side) THEN p.realized
                      ELSE p.realized + RealizedBy(p, qty, price)]

\* The range checks of after_fill: it answers None when one of them fails.
CanFill(p, side, qty, price) ==
    LET next == AfterFill(p, side, qty, price)
    IN  /\ Fits(qty * price)
        /\ \A total \in DOMAIN Flat : Fits(next[total])
        /\ ~OpensOrAdds(p, side) => Fits(RealizedBy(p, qty, price))

-----------------------------------------------------------------------------
(* One fill books the maker first and then the taker; in a self-match the  *)
(* taker's leg reads what the maker's leg left.                            *)

TakerBefore(maker, taker, sameAccount, side, qty, price) ==
    IF sameAccount THEN AfterFill(maker, side, qty, price) ELSE taker

-----------------------------------------------------------------------------
(* What the accounting promises of every position.                         *)

PositionType == [net : Int, cash : Int, basis : Int, realized : Int]

\* Locked-in profit and open cost account for every unit of cash: rounding the
\* cost of a partial close moves nothing out of the position (after_fill).
ProfitAddsUp(p) ==
    p.cash = p.realized - (IF p.net > 0 THEN p.basis ELSE -p.basis)

\* ... and open cost is never negative, and zero once nothing is open.
Accounted(p) ==
    /\ ProfitAddsUp(p)
    /\ p.basis >= 0
    /\ p.net = 0 => p.basis = 0
=============================================================================
