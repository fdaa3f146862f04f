------------------------------- MODULE Ledger -------------------------------
(***************************************************************************)
(* The ledger of src/services/src/ledger.rs as a state machine: one action *)
(* per public operation, called in any order by a caller that may be       *)
(* wrong.  An operation the code answers with an Err leaves the ledger as  *)
(* it was, so only the successful calls are steps.                         *)
(***************************************************************************)
EXTENDS SpotLedger

CONSTANTS
    Limits,        \* the prices, in cents, an order may name
    Quantities,    \* the quantities, in tenths, an order may name
    MaxSequence    \* bound: the last sequence number a behaviour reaches

ASSUME LedgerInputs ==
    /\ Limits \subseteq Int
    /\ Quantities \subseteq Int
    /\ MaxSequence \in Nat

VARIABLE ledger

Init == ledger = FundedLedger

\* Ledger::reserve.
Reserve(id, account, symbol, side, limit, qty) ==
    /\ IsFunded
    /\ CanReserve(ledger, id, account, symbol, side, limit, qty)
    /\ ledger' = AfterReserve(ledger, id, account, symbol, side, limit, qty)

\* Ledger::settle_fill.
SettleFill(maker, taker, price, qty) ==
    /\ IsFunded
    /\ CanSettle(ledger, maker, taker, price, qty)
    /\ ledger' = AfterSettle(ledger, maker, taker, price, qty)

\* Ledger::release.
Release(id) ==
    /\ id \in DOMAIN ledger.resv
    /\ CanRelease(ledger, id)
    /\ ledger' = AfterRelease(ledger, id)

\* Ledger::finish_sequence.
FinishSequence(sequence) ==
    /\ sequence <= MaxSequence
    /\ CanFinish(ledger, sequence)
    /\ ledger' = AfterFinish(ledger, sequence)

Next ==
    \/ \E id \in 1..MaxSequence, account \in Accounts, symbol \in Symbols,
          side \in Sides, limit \in Limits, qty \in Quantities :
            Reserve(id, account, symbol, side, limit, qty)
    \/ \E maker, taker \in DOMAIN ledger.resv, price \in Limits, qty \in Quantities :
            SettleFill(maker, taker, price, qty)
    \/ \E id \in DOMAIN ledger.resv : Release(id)
    \/ \E sequence \in 1..MaxSequence : FinishSequence(sequence)

Spec == Init /\ [][Next]_ledger

-----------------------------------------------------------------------------
(* Properties *)

\* The ledger holds nonnegative balances that fit a machine integer and
\* reservations, for consumed sequence numbers or the one being applied, whose
\* units follow from their terms (ledger.rs check_balance and reserve_units).
LedgerTypeOK ==
    /\ DOMAIN ledger = {"last", "bal", "resv"}
    /\ ledger.last \in Nat
    /\ ledger.bal \in [Keys -> Balance]
    /\ \A k \in Keys : BalanceFits(ledger.bal[k])
    /\ DOMAIN ledger.resv \subseteq 1..(ledger.last + 1)
    /\ \A id \in DOMAIN ledger.resv : ledger.resv[id] \in Reservation
    /\ UnitsExact(ledger)

\* Between two messages a stored ledger is always one from_snapshot accepts:
\* assets add up to their funding and every reserved unit is owed to a live
\* order.  A sequence is open while its own order holds a reservation that
\* finish_sequence has not yet covered.
SnapshotAlwaysAccepted ==
    ledger.last + 1 \notin DOMAIN ledger.resv => SnapshotAccepted(ledger)

\* release, which every caller unwraps with expect, never meets a balance
\* that is too small or too large to give the units back.
ReleaseNeverFails == \A id \in DOMAIN ledger.resv : CanRelease(ledger, id)

\* A fill whose terms agree with both reservations never lacks the reserved
\* units, at whatever price inside both limits: the only thing that can refuse
\* it is a credit past the machine integer.
FillsFailOnlyOnOverflow ==
    \A maker, taker \in DOMAIN ledger.resv, price \in Limits, qty \in Quantities :
        FillTermsAgree(ledger, maker, taker, price, qty) =>
            \A k \in FillKeys(ledger, maker, taker) :
                LET b == BalanceAfterFill(ledger, maker, taker, price, qty, k)
                IN  b.available >= 0 /\ b.reserved >= 0

\* What only a broken bookkeeping would refuse is never refused: a release
\* always finds its units, a fill whose terms agree never lacks reserved ones.
BackingIsThere == ReleaseNeverFails /\ FillsFailOnlyOnOverflow

\* A step creates no value: either every total stands, or exactly two accounts
\* trade with each other and in every asset the two keep their sum.
MovesBetweenTwo ==
    \/ \A a \in Accounts, asset \in Assets : Total(ledger', a, asset) = Total(ledger, a, asset)
    \/ \E a, b \in Accounts : a # b /\ \A asset \in Assets :
          /\ \A c \in Accounts \ {a, b} : Total(ledger', c, asset) = Total(ledger, c, asset)
          /\ Total(ledger', a, asset) + Total(ledger', b, asset)
                = Total(ledger, a, asset) + Total(ledger, b, asset)
ValueOnlyMoves == [][MovesBetweenTwo]_ledger

\* An obligation never grows, never changes hands or terms, and never comes
\* back: once a sequence number is finished without a reservation it never
\* holds one again, whatever calls follow.
ObligationsShrink ==
    /\ \A id \in DOMAIN ledger.resv \cap DOMAIN ledger'.resv :
          /\ ledger'.resv[id].remaining <= ledger.resv[id].remaining
          /\ ledger'.resv[id].units <= ledger.resv[id].units
          /\ \A field \in {"account", "symbol", "side", "limit"} :
                ledger'.resv[id][field] = ledger.resv[id][field]
    /\ \A id \in DOMAIN ledger'.resv : id <= ledger.last => id \in DOMAIN ledger.resv
ObligationsOnlyShrink == [][ObligationsShrink]_ledger
=============================================================================
