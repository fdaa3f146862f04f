------------------------------ MODULE MidHistory ------------------------------
(***************************************************************************)
(* The checker's reading of the reference price: every mid a replayed book *)
(* showed, one entry a millisecond, walked on every question.  It shares   *)
(* no definition with MidWindow, as the two share no code.                 *)
(***************************************************************************)
EXTENDS Integers, Sequences, FiniteSetsExt, Functions

Entry(when, mid) == [when |-> when, mid |-> mid]

\* A slip the runs must notice: the entry that reaches into the window goes too.
WithoutExpiredEntries(held, opened) ==
    LET expired == {i \in 1..(Len(held) - 1) : held[i].when <= opened}
    IN  SubSeq(held, Cardinality(expired) + 1, Len(held))

\* The loop drops an entry while the one after it already covers the opening.
WithoutExpired(held, opened) ==
    LET expired == {i \in 1..(Len(held) - 1) : held[i + 1].when <= opened}
    IN  SubSeq(held, Cardinality(expired) + 1, Len(held))

\* MidHistory::showed
Showed(held, reach, atMs, mid) ==
    LET at    == IF held = <<>> THEN atMs ELSE Max({atMs, held[Len(held)].when})
        taken == IF held # <<>> /\ held[Len(held)].when = at
                 THEN [held EXCEPT ![Len(held)].mid = mid]
                 ELSE Append(held, Entry(at, mid))
    IN  WithoutExpired(taken, Max({at - reach, 0}))

\* MidHistory::reference_cents
CheckersCents(held, reach, atMs, none) ==
    LET opened  == Max({atMs - reach, 0})
        ends(i) == IF i < Len(held) THEN held[i + 1].when ELSE atMs
        ms(i)   == Min({ends(i), atMs}) - Max({held[i].when, opened})
        counted == {i \in DOMAIN held : held[i].mid # none /\ ms(i) > 0}
        total   == SumFunction([i \in counted |-> held[i].mid * ms(i)])
    IN  IF counted = {} THEN none ELSE total \div SumFunction([i \in counted |-> ms(i)])
=============================================================================
