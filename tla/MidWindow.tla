------------------------------ MODULE MidWindow ------------------------------
(***************************************************************************)
(* The window of mid prices one symbol's reference price is averaged over. *)
(* A sample is a time and the mid that held from then on, or None while a  *)
(* side of the book was empty.  The part of every sample but the newest is *)
(* kept in two running sums, so that a question need not walk the samples. *)
(*                                                                         *)
(* timeline, latest and woundBack are history: the mid by the rule of the  *)
(* engine's specification of every millisecond a later message can reach,  *)
(* the largest timestamp seen, and whether one behind it was read as it is. *)
(***************************************************************************)
EXTENDS Integers, Sequences, FiniteSetsExt, Functions

CONSTANTS
    WindowMs,   \* how far back the average reaches
    MaxTime,    \* bound: timestamps are 0..MaxTime
    Mids,       \* the mids a book may have
    None        \* no mid: one side of the book is empty

ASSUME WindowMsAssumption == WindowMs \in Nat \ {0}
ASSUME MaxTimeAssumption == MaxTime \in Nat
ASSUME MidsAssumption == Mids \subseteq Nat \ {0} /\ None \notin Mids

VARIABLES
    samples,    \* <<[at, mid], ...>>, oldest first
    kept,       \* [weighted, weight]: the sums over every sample but the newest, from clip on
    clip,       \* the opening of the last observation, where the sums start counting
    timeline,   \* history: the mid of each millisecond still in reach, by the rule
    latest,     \* history: the largest timestamp observed
    woundBack   \* history: a retreating timestamp was taken as it stood

window == <<samples, kept, clip>>
vars == <<window, timeline, latest, woundBack>>

Times == 0..MaxTime
Opening(at) == Max({at - WindowMs, 0})
Length(from, to) == Max({to - from, 0})     \* saturating_sub

NoSums == [weighted |-> 0, weight |-> 0]
Plus(a, b) == [weighted |-> a.weighted + b.weighted, weight |-> a.weight + b.weight]
Minus(a, b) == [weighted |-> a.weighted - b.weighted, weight |-> a.weight - b.weight]

\* What the samples of s named in held contribute, when sample i held for held[i].
Sums(s, held) ==
    LET priced == {i \in DOMAIN held : s[i].mid # None}
    IN [weighted |-> SumFunction([i \in priced |-> s[i].mid * held[i]]),
        weight   |-> SumFunctionOnSet(held, priced)]

Newest(s) == s[Len(s)]
Closed(s) == 1..(Len(s) - 1)

\* The newest sample holds until at.
NewestSums(s, from, at) ==
    Sums(s, [i \in {Len(s)} \ {0} |-> Length(Max({s[i].at, from}), at)])

\* What the sums of s lose when their start moves forward from from to opens.
LossTo(s, from, opens) ==
    Sums(s, [i \in {j \in Closed(s) : s[j].at < opens} |->
                Length(Max({s[i].at, from}), Min({s[i + 1].at, opens}))])

\* A slip the runs must notice: a start that moves back gains nothing.
GainNothing(s, from, opens) == NoSums

\* What they gain when it moves back: only the oldest sample reaches there.
GainTo(s, from, opens) ==
    Sums(s, [i \in {1} \cap Closed(s) |->
                Max({Min({s[i + 1].at, from}), s[i].at})
                    - Max({Min({s[i + 1].at, opens}), s[i].at})])

\* A slip the runs must notice: the sample that still holds goes too.
NotOlder(s, opens) == SelectSeq(s, LAMBDA sample : sample.at >= opens)

\* The samples that can still be read in a window that opens at opens.
Reachable(s, opens) ==
    LET gone == Cardinality({i \in Closed(s) : s[i + 1].at <= opens})
    IN SubSeq(s, gone + 1, Len(s))

ClipTo(s, sums, opens) ==
    /\ kept' = IF opens >= clip THEN Minus(sums, LossTo(s, clip, opens))
                                ELSE Plus(sums, GainTo(s, clip, opens))
    /\ samples' = Reachable(s, opens)
    /\ clip' = opens

(***************************************************************************)
(* Questions: the sums the reference price divides, for a window that      *)
(* opens at opens and closes at at.                                        *)
(***************************************************************************)

Walked(at, opens) ==
    LET until(i) == IF i < Len(samples) THEN Min({samples[i + 1].at, at}) ELSE at
    IN Sums(samples, [i \in DOMAIN samples |-> Length(Max({samples[i].at, opens}), until(i))])

Behind(at, opens) == at < Newest(samples).at \/ opens < clip

\* A slip the runs must notice: the window moved since the sums were kept.
SumsAtLastOpening(at, opens) ==
    IF samples = <<>> THEN NoSums
    ELSE IF Behind(at, opens) THEN Walked(at, opens)
    ELSE Plus(kept, NewestSums(samples, opens, at))

SumsAt(at, opens) ==
    IF samples = <<>> THEN NoSums
    ELSE IF Behind(at, opens) THEN Walked(at, opens)
    ELSE Plus(Minus(kept, LossTo(samples, clip, opens)), NewestSums(samples, opens, at))

Quotient(sums) == IF sums.weight > 0 THEN sums.weighted \div sums.weight ELSE None

ReferenceCents(at) == Quotient(SumsAt(at, Opening(at)))

(***************************************************************************)
(* Observations.                                                           *)
(***************************************************************************)

Init ==
    /\ samples = <<>> /\ kept = NoSums /\ clip = 0
    /\ timeline = [t \in Times |-> None] /\ latest = 0 /\ woundBack = FALSE

\* The rule reads a timestamp that does not advance as the last one that did.
Record(at, read, mid) ==
    /\ latest' = Max({latest, at})
    /\ timeline' = [t \in Times |-> IF t >= latest' THEN mid
                                    ELSE IF t >= Opening(latest') THEN timeline[t] ELSE None]
    /\ woundBack' = (woundBack \/ read < latest)

\* A second sample in one millisecond replaces the first.
Replace(at, mid) ==
    /\ samples # <<>> /\ at <= Newest(samples).at
    /\ LET last == Newest(samples).at
       IN /\ ClipTo([samples EXCEPT ![Len(samples)].mid = mid], kept, Opening(last))
          /\ Record(at, last, mid)

\* A sample that repeats the newest mid is not kept.
Repeat(at, mid) ==
    /\ samples # <<>> /\ at > Newest(samples).at /\ mid = Newest(samples).mid
    /\ ClipTo(samples, kept, Opening(at))
    /\ Record(at, at, mid)

\* The newest hold ends: it joins the kept sums.
Push(at, mid) ==
    /\ samples # <<>> => at > Newest(samples).at /\ mid # Newest(samples).mid
    /\ ClipTo(Append(samples, [at |-> at, mid |-> mid]),
              Plus(kept, NewestSums(samples, clip, at)), Opening(at))
    /\ Record(at, at, mid)

Observe(at, mid) == Replace(at, mid) \/ Repeat(at, mid) \/ Push(at, mid)

(***************************************************************************)
(* A restart: the snapshot holds the samples and clip, never the sums.     *)
(***************************************************************************)

Restorable(s) ==
    /\ s # <<>> /\ Len(s) <= WindowMs + 1
    /\ \A i \in Closed(s) : s[i].at < s[i + 1].at
    /\ \A i \in DOMAIN s : s[i].mid # None => s[i].mid > 0

RestoredSums(s, from) ==
    Sums(s, [i \in Closed(s) |-> Length(Max({s[i].at, from}), s[i + 1].at)])

Restart ==
    /\ Restorable(samples)
    /\ kept' = RestoredSums(samples, clip)
    /\ UNCHANGED <<samples, clip, timeline, latest, woundBack>>

Next == (\E at \in Times, mid \in Mids \cup {None} : Observe(at, mid)) \/ Restart

Spec == Init /\ [][Next]_vars

(***************************************************************************)
(* Properties.                                                             *)
(***************************************************************************)

\* The sums kept across observations, drops, replacements, retreats and
\* restarts are the ones a walk over the samples finds, for every question
\* that SymbolWindow::sums_at answers from them.
KeptSumsAreTheWalk ==
    samples # <<>> =>
        \A at \in Times : SumsAt(at, Opening(at)) = Walked(at, Opening(at))

\* The reference price is the average over the last WindowMs milliseconds,
\* each counted at the mid that held during it: what observe leaves out or
\* drops changes no answer for the time of a message that advances.
ReferenceIsTheAverage ==
    ~woundBack =>
        \A at \in latest..MaxTime :
            LET ms == {t \in Opening(at)..(at - 1) : timeline[t] # None}
            IN ReferenceCents(at) = IF ms = {} THEN None
                 ELSE SumFunctionOnSet(timeline, ms) \div Cardinality(ms)

\* A window that was observed can always be restored, and the weight its sums
\* hold stays within the window, as the assertion of clip_to has it.
WindowRestores ==
    /\ samples # <<>> => Restorable(samples)
    /\ kept.weight \in 0..WindowMs
    /\ kept = RestoredSums(samples, clip)

\* Whatever way a price is asked for, by the kept sums or by a walk, at any time
\* that may be asked about, it is the window's average; and a restart, which
\* builds the sums again from the samples, answers the same.
WindowAnswersExactly == KeptSumsAreTheWalk /\ ReferenceIsTheAverage /\ WindowRestores
=============================================================================
