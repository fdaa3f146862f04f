--------------------------- MODULE ReferencePrices ---------------------------
(***************************************************************************)
(* The engine's window and the checker's history, told the same mids of    *)
(* one symbol in the same order.                                           *)
(***************************************************************************)
EXTENDS MidWindow, MidHistory

VARIABLE held   \* what the checker's history holds: <<[when, mid], ...>>

bothVars == <<vars, held>>

InitBoth == Init /\ held = <<>>

Shows(at, mid) == held' = Showed(held, WindowMs, at, mid)

NextBoth ==
    \/ \E at \in Times, mid \in Mids \cup {None} :
          \/ Replace(at, mid) /\ Shows(at, mid)
          \/ Repeat(at, mid) /\ Shows(at, mid)
          \/ Push(at, mid) /\ Shows(at, mid)
    \/ Restart /\ UNCHANGED held

SpecBoth == InitBoth /\ [][NextBoth]_bothVars

\* The engine and the checker bound a market order by one price: for the time
\* of a message that advances, the running sums over the samples the engine
\* did not leave out and the checker's walk over every sample answer the same.
BothReadTheSamePrice ==
    ~woundBack =>
        \A at \in latest..MaxTime :
            ReferenceCents(at) = CheckersCents(held, WindowMs, at, None)

\* "the timestamp of the message that just arrived, which is never behind the
\* newest sample"
AlwaysTheSamePrice ==
    \A at \in latest..MaxTime : ReferenceCents(at) = CheckersCents(held, WindowMs, at, None)
=============================================================================
