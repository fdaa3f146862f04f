---------------------------- MODULE Window_proofs ----------------------------
(***************************************************************************)
(* The two windows of mid prices, for every width, every set of mids and   *)
(* every stream of observations.                                           *)
(*                                                                         *)
(* A window's sums are sums over its samples of what a sample is worth     *)
(* times how long it held.  Each step of the engine changes how long       *)
(* samples held, so the sums kept stay those of a walk; and a walk adds    *)
(* up, millisecond by millisecond, what held during it, so that both       *)
(* windows answer with the average over the same history.                  *)
(***************************************************************************)
EXTENDS ReferencePrices, DataTheorems, TLAPS

-----------------------------------------------------------------------------
(* Holds. *)

Later(a, b) == IF a >= b THEN a ELSE b
Sooner(a, b) == IF a <= b THEN a ELSE b
Span(a, b) == IF a <= b THEN b - a ELSE 0

LEMMA MaxIsLater ==
    ASSUME NEW a \in Int, NEW b \in Int
    PROVE  Max({a, b}) = Later(a, b)
<1> DEFINE m == Max({a, b})
<1>1. m \in {a, b} /\ m >= a /\ m >= b
  BY MaxOfTwo
<1> HIDE DEF m
<1>2. m = Later(a, b)
  BY <1>1 DEF Later
<1>3. QED
  BY <1>2 DEF m

LEMMA MinIsSooner ==
    ASSUME NEW a \in Int, NEW b \in Int
    PROVE  Min({a, b}) = Sooner(a, b)
<1> DEFINE m == Min({a, b})
<1>1. m \in {a, b} /\ m <= a /\ m <= b
  BY MinOfTwo
<1> HIDE DEF m
<1>2. m = Sooner(a, b)
  BY <1>1 DEF Sooner
<1>3. QED
  BY <1>2 DEF m

\* saturating_sub
LEMMA LengthIsSpan ==
    ASSUME NEW a \in Int, NEW b \in Int
    PROVE  Length(a, b) = Span(a, b)
<1>1. Length(a, b) = Later(b - a, 0)
  BY MaxIsLater DEF Length
<1>2. QED
  BY <1>1 DEF Later, Span

\* How long a sample holds, from a later moment on and until an earlier one.
LEMMA HoldIsSpan ==
    ASSUME NEW a \in Int, NEW from \in Int, NEW b \in Int
    PROVE  Length(Max({a, from}), b) = Span(Later(a, from), b)
<1>1. Max({a, from}) = Later(a, from) /\ Later(a, from) \in Int
  BY MaxIsLater DEF Later
<1>2. QED
  BY <1>1, LengthIsSpan

LEMMA HoldUntilIsSpan ==
    ASSUME NEW a \in Int, NEW from \in Int, NEW b \in Int, NEW until \in Int
    PROVE  Length(Max({a, from}), Min({b, until})) = Span(Later(a, from), Sooner(b, until))
<1>1. Min({b, until}) = Sooner(b, until) /\ Sooner(b, until) \in Int
  BY MinIsSooner DEF Sooner
<1>2. QED
  BY <1>1, HoldIsSpan

LEMMA OpeningIs ==
    ASSUME NEW at \in Nat
    PROVE  Opening(at) = Later(at - WindowMs, 0) /\ Opening(at) \in Nat
                         /\ Opening(at) <= at /\ at - Opening(at) <= WindowMs
<1>1. WindowMs \in Nat \ {0} /\ at - WindowMs \in Int
  BY WindowMsAssumption
<1>2. Opening(at) = Later(at - WindowMs, 0)
  BY <1>1, MaxIsLater DEF Opening
<1>3. QED
  BY <1>1, <1>2 DEF Later

LEMMA OpeningGrows ==
    ASSUME NEW a \in Nat, NEW b \in Nat, a <= b
    PROVE  Opening(a) <= Opening(b)
<1>1. WindowMs \in Nat
  BY WindowMsAssumption
<1>2. Opening(a) = Later(a - WindowMs, 0) /\ Opening(b) = Later(b - WindowMs, 0)
  BY OpeningIs
<1>3. QED
  BY <1>1, <1>2 DEF Later

-----------------------------------------------------------------------------
(* Samples, and sums over them. *)

Sample == [at : Nat, mid : Mids \cup {None}]

SamplesFit(s) ==
    /\ s \in Seq(Sample)
    /\ \A i \in Closed(s) : s[i].at < s[i + 1].at

\* What a sample is worth in either sum: its mid in cents, or one for each of its
\* milliseconds; and nothing when it has no mid.
Worth(s, kind) ==
    [i \in 1..Len(s) |-> IF s[i].mid = None THEN 0 ELSE IF kind = "cents" THEN s[i].mid ELSE 1]

\* A sum over the samples named in h.
Total(w, h) == SumFunctionOnSet([i \in DOMAIN h |-> w[i] * h[i]], DOMAIN h)

\* Samples of s named in h, each held for a number of milliseconds.
HoldsOf(s, h) ==
    /\ h = [i \in DOMAIN h |-> h[i]]
    /\ DOMAIN h \subseteq 1..Len(s)
    /\ \A i \in DOMAIN h : h[i] \in Int

\* How long each of them held, in a list that need not name them all.
HeldIn(h, i) == IF i \in DOMAIN h THEN h[i] ELSE 0

\* The holds of c are those of a and of b together.
HoldsAdd(I, a, b, c) == \A i \in I : HeldIn(c, i) = HeldIn(a, i) + HeldIn(b, i)

LEMMA SamplesTyped ==
    ASSUME NEW s, SamplesFit(s)
    PROVE  /\ Len(s) \in Nat /\ DOMAIN s = 1..Len(s)
           /\ \A i \in 1..Len(s) : /\ s[i] \in Sample /\ s[i].at \in Nat
                                   /\ s[i].mid \in Mids \cup {None}
                                   /\ s[i].mid # None => s[i].mid \in Nat \ {0}
           /\ Closed(s) \subseteq 1..Len(s) /\ IsFiniteSet(Closed(s)) /\ IsFiniteSet(1..Len(s))
           /\ \A i \in Closed(s) : /\ i \in Nat /\ i + 1 \in 1..Len(s) /\ i < Len(s)
                                   /\ s[i].at < s[i + 1].at
           /\ \A i \in 1..Len(s) : i = Len(s) \/ i \in Closed(s)
<1>1. s \in Seq(Sample) /\ Len(s) \in Nat /\ DOMAIN s = 1..Len(s)
  BY DEF SamplesFit
<1>2. \A i \in 1..Len(s) : s[i] \in Sample
  BY <1>1
<1>3. ASSUME NEW i \in 1..Len(s)
      PROVE  /\ s[i].at \in Nat /\ s[i].mid \in Mids \cup {None}
             /\ s[i].mid # None => s[i].mid \in Nat \ {0}
  <2>1. s[i].at \in Nat /\ s[i].mid \in Mids \cup {None}
    BY <1>2 DEF Sample
  <2>2. QED
    BY <2>1, MidsAssumption
<1>4. IsFiniteSet(Closed(s)) /\ IsFiniteSet(1..Len(s))
  BY <1>1, FS_Interval DEF Closed
<1>5. /\ Closed(s) \subseteq 1..Len(s)
      /\ \A i \in Closed(s) : i \in Nat /\ i + 1 \in 1..Len(s) /\ i < Len(s)
      /\ \A i \in 1..Len(s) : i = Len(s) \/ i \in Closed(s)
  <2>1. \A n \in Nat : /\ 1..(n - 1) \subseteq 1..n
                       /\ \A i \in 1..(n - 1) : i \in Nat /\ i + 1 \in 1..n /\ i < n
                       /\ \A i \in 1..n : i = n \/ i \in 1..(n - 1)
    OBVIOUS
  <2>2. Len(s) \in Nat /\ Closed(s) = 1..(Len(s) - 1)
    BY <1>1 DEF Closed
  <2>3. QED
    BY <2>1, <2>2
<1>6. \A i \in Closed(s) : s[i].at < s[i + 1].at
  BY DEF SamplesFit
<1>7. QED
  BY <1>1, <1>2, <1>3, <1>4, <1>5, <1>6

\* Samples are in order of their time.
LEMMA LaterSample ==
    ASSUME NEW s, SamplesFit(s), NEW i \in 1..Len(s), NEW j \in 1..Len(s), i <= j
    PROVE  s[j].at >= s[i].at + (j - i)
<1> DEFINE Good == {d \in Nat : i + d \in 1..Len(s) => s[i + d].at >= s[i].at + d}
<1>1. 0 \in Good
  <2>1. s[i].at \in Int /\ i + 0 = i
    BY SamplesTyped
  <2>2. QED
    BY <2>1
<1>2. ASSUME NEW d \in Nat, d \in Good PROVE d + 1 \in Good
  <2>1. SUFFICES ASSUME i + (d + 1) \in 1..Len(s)
                 PROVE  s[i + (d + 1)].at >= s[i].at + (d + 1)
    OBVIOUS
  <2>2. Len(s) \in Nat /\ i + (d + 1) = (i + d) + 1
    BY SamplesTyped
  <2>3. i + d \in Closed(s) /\ i + d \in 1..Len(s)
    BY <2>1, <2>2 DEF Closed
  <2>4. s[i + d].at >= s[i].at + d
    BY <1>2, <2>3
  <2>5. s[i + d].at < s[(i + d) + 1].at /\ s[i].at \in Int /\ s[i + d].at \in Int /\ s[(i + d) + 1].at \in Int
    BY <2>3, SamplesTyped
  <2>6. QED
    BY <2>2, <2>4, <2>5
<1>3. \A d \in Nat : d \in Good
  <2> HIDE DEF Good
  <2>1. QED
    BY <1>1, <1>2, EveryNatural
<1>4. j - i \in Nat /\ i + (j - i) = j
  OBVIOUS
<1>5. QED
  BY <1>3, <1>4

LEMMA WorthFits ==
    ASSUME NEW s, SamplesFit(s), NEW kind
    PROVE  \A i \in 1..Len(s) : Worth(s, kind)[i] \in Nat
BY SamplesTyped DEF Worth

LEMMA TotalFits ==
    ASSUME NEW h, IsFiniteSet(DOMAIN h), NEW w,
           \A i \in DOMAIN h : w[i] \in Int /\ h[i] \in Int
    PROVE  Total(w, h) \in Int
<1> DEFINE fun == [i \in DOMAIN h |-> w[i] * h[i]]
<1>1. \A i \in DOMAIN h : fun[i] \in Int
  OBVIOUS
<1> HIDE DEF fun
<1>2. SumFunctionOnSet(fun, DOMAIN h) \in Int
  BY <1>1, SumIsInteger
<1>3. QED
  BY <1>2 DEF Total, fun

\* The sums of the model, in this form.
LEMMA SumsAreTotals ==
    ASSUME NEW s, SamplesFit(s), NEW h, HoldsOf(s, h)
    PROVE  Sums(s, h) = [weighted |-> Total(Worth(s, "cents"), h),
                         weight   |-> Total(Worth(s, "ms"), h)]
<1> DEFINE I == DOMAIN h
           priced == {i \in I : s[i].mid # None}
           cents == [i \in priced |-> s[i].mid * h[i]]
           fun(c) == [i \in I |-> Worth(s, c)[i] * h[i]]
<1>1. /\ IsFiniteSet(I) /\ I \subseteq 1..Len(s) /\ priced \in SUBSET I /\ IsFiniteSet(priced)
      /\ \A i \in I : h[i] \in Int
  BY SamplesTyped, FS_Subset DEF HoldsOf
<1>2. \A c : \A i \in I : Worth(s, c)[i] \in Int
  BY <1>1, WorthFits
<1>3. ASSUME NEW c \in {"cents", "ms"}
      PROVE  /\ \A i \in I : fun(c)[i] \in Int
             /\ SumFunctionOnSet(fun(c), priced) = SumFunctionOnSet(fun(c), I)
  <2>1. \A i \in I : fun(c)[i] \in Int
    BY <1>1, <1>2
  <2>2. \A i \in I \ priced : fun(c)[i] = 0
    BY <1>1 DEF Worth
  <2> HIDE DEF fun
  <2>3. QED
    BY <1>1, <2>1, <2>2, SumDropsNothing
<1>4. SumFunction(cents) = SumFunctionOnSet(fun("cents"), priced)
  <2>1. \A i \in priced : cents[i] = fun("cents")[i]
    BY <1>1 DEF Worth
  <2>2. DOMAIN cents = priced
    OBVIOUS
  <2> HIDE DEF cents, fun, priced
  <2>3. SumFunction(cents) = SumFunctionOnSet(cents, priced)
    BY <2>2, SumFunctionIsSum
  <2>4. QED
    BY <1>1, <2>1, <2>3, SumOfSame
<1>5. SumFunctionOnSet(h, priced) = SumFunctionOnSet(fun("ms"), priced)
  <2>1. \A i \in priced : h[i] = fun("ms")[i]
    BY <1>1 DEF Worth
  <2> HIDE DEF fun, priced
  <2>2. QED
    BY <1>1, <2>1, SumOfSame
<1>6. Sums(s, h) = [weighted |-> SumFunction(cents), weight |-> SumFunctionOnSet(h, priced)]
  BY DEF Sums
<1>7. Total(Worth(s, "cents"), h) = SumFunctionOnSet(fun("cents"), I)
      /\ Total(Worth(s, "ms"), h) = SumFunctionOnSet(fun("ms"), I)
  BY DEF Total
<1> HIDE DEF cents, fun, priced, I
<1>8. QED
  BY <1>3, <1>4, <1>5, <1>6, <1>7

-----------------------------------------------------------------------------
(* Sums of holds: what holds longer counts for more, and nothing else.      *)

\* Holds that add up, sample by sample, where a sample that is not named held
\* for nothing.
LEMMA TotalsAdd ==
    ASSUME NEW I, IsFiniteSet(I), NEW w, \A i \in I : w[i] \in Int,
           NEW a, NEW b, NEW c,
           DOMAIN a \subseteq I, DOMAIN b \subseteq I, DOMAIN c \subseteq I,
           \A i \in DOMAIN a : a[i] \in Int, \A i \in DOMAIN b : b[i] \in Int,
           \A i \in DOMAIN c : c[i] \in Int,
           HoldsAdd(I, a, b, c)
    PROVE  Total(w, c) = Total(w, a) + Total(w, b)
<1> DEFINE fun(h) == [i \in I |-> w[i] * HeldIn(h, i)]
<1>1. ASSUME NEW h, DOMAIN h \subseteq I, \A i \in DOMAIN h : h[i] \in Int
      PROVE  Total(w, h) = SumFunctionOnSet(fun(h), I) /\ \A i \in I : fun(h)[i] \in Int
  <2> DEFINE gun == [i \in DOMAIN h |-> w[i] * h[i]]
             f == fun(h)
  <2>1. \A i \in I : f[i] \in Int
    <3>1. \A i \in I : w[i] \in Int /\ HeldIn(h, i) \in Int
      BY <1>1 DEF HeldIn
    <3>2. QED
      BY <3>1
  <2>2. \A i \in I \ DOMAIN h : f[i] = 0
    BY DEF HeldIn
  <2>3. \A i \in DOMAIN h : f[i] = gun[i]
    BY <1>1 DEF HeldIn
  <2>4. IsFiniteSet(DOMAIN h) /\ DOMAIN h \in SUBSET I
    BY <1>1, FS_Subset
  <2>5. Total(w, h) = SumFunctionOnSet(gun, DOMAIN h)
    BY DEF Total
  <2> HIDE DEF f, gun
  <2>6. SumFunctionOnSet(f, DOMAIN h) = SumFunctionOnSet(f, I)
    BY <2>1, <2>2, <2>4, SumDropsNothing
  <2>7. SumFunctionOnSet(f, DOMAIN h) = SumFunctionOnSet(gun, DOMAIN h)
    BY <2>3, <2>4, SumOfSame
  <2>8. QED
    BY <2>1, <2>5, <2>6, <2>7 DEF f
<1>2. ASSUME NEW i \in I PROVE fun(c)[i] = fun(a)[i] + fun(b)[i]
  <2> DEFINE x == HeldIn(a, i)
             y == HeldIn(b, i)
  <2>1. HeldIn(c, i) = x + y /\ x \in Int /\ y \in Int /\ w[i] \in Int
    <3>1. x \in Int /\ y \in Int
      BY DEF HeldIn
    <3>2. QED
      BY <3>1 DEF HoldsAdd
  <2>2. fun(c)[i] = w[i] * HeldIn(c, i) /\ fun(a)[i] = w[i] * x /\ fun(b)[i] = w[i] * y
    OBVIOUS
  <2> HIDE DEF x, y, fun
  <2>3. \A u \in Int : u * (x + y) = u * x + u * y
    BY <2>1
  <2>4. QED
    BY <2>1, <2>2, <2>3
<1>3. SumFunctionOnSet(fun(c), I) = SumFunctionOnSet(fun(a), I) + SumFunctionOnSet(fun(b), I)
  <2>1. \A i \in I : fun(a)[i] \in Int /\ fun(b)[i] \in Int
    BY <1>1
  <2> HIDE DEF fun
  <2>2. QED
    BY <1>2, <2>1, SumAdds
<1> HIDE DEF fun
<1>4. QED
  BY <1>1, <1>3

\* Only the worth of the samples named matters.
LEMMA TotalSame ==
    ASSUME NEW w, NEW v, NEW a, NEW b, IsFiniteSet(DOMAIN a), DOMAIN b = DOMAIN a,
           \A i \in DOMAIN a : w[i] * a[i] = v[i] * b[i]
    PROVE  Total(w, a) = Total(v, b)
<1> DEFINE f == [i \in DOMAIN a |-> w[i] * a[i]]
           g == [i \in DOMAIN a |-> v[i] * b[i]]
<1>1. f = g
  OBVIOUS
<1>2. QED
  BY <1>1 DEF Total

\* Two sums are the sum of two: one proof for cents and milliseconds.
LEMMA SumsAdd ==
    ASSUME NEW s, SamplesFit(s), NEW a, HoldsOf(s, a), NEW b, HoldsOf(s, b), NEW c, HoldsOf(s, c),
           HoldsAdd(1..Len(s), a, b, c)
    PROVE  Sums(s, c) = Plus(Sums(s, a), Sums(s, b)) /\ Sums(s, a) = Minus(Sums(s, c), Sums(s, b))
<1> DEFINE T(h, kind) == Total(Worth(s, kind), h)
<1>1. ASSUME NEW kind \in {"cents", "ms"}
      PROVE  T(c, kind) = T(a, kind) + T(b, kind) /\ T(a, kind) \in Int /\ T(b, kind) \in Int
  <2> DEFINE w == Worth(s, kind)
             I == 1..Len(s)
  <2>1. IsFiniteSet(I) /\ \A i \in I : w[i] \in Int
    BY SamplesTyped, WorthFits
  <2>2. /\ DOMAIN a \subseteq I /\ DOMAIN b \subseteq I /\ DOMAIN c \subseteq I
        /\ \A i \in DOMAIN a : a[i] \in Int
        /\ \A i \in DOMAIN b : b[i] \in Int
        /\ \A i \in DOMAIN c : c[i] \in Int
    BY DEF HoldsOf
  <2>3. HoldsAdd(I, a, b, c)
    OBVIOUS
  <2>4. IsFiniteSet(DOMAIN a) /\ IsFiniteSet(DOMAIN b)
    BY <2>1, <2>2, FS_Subset
  <2> HIDE DEF w, I
  <2>5. Total(w, c) = Total(w, a) + Total(w, b)
    BY <2>1, <2>2, <2>3, TotalsAdd
  <2>6. Total(w, a) \in Int /\ Total(w, b) \in Int
    BY <2>1, <2>2, <2>4, TotalFits
  <2>7. QED
    BY <2>5, <2>6 DEF w
<1>2. \A h : HoldsOf(s, h) => Sums(s, h) = [weighted |-> T(h, "cents"), weight |-> T(h, "ms")]
  BY SumsAreTotals
<1> HIDE DEF T
<1>3. /\ T(c, "cents") = T(a, "cents") + T(b, "cents") /\ T(c, "ms") = T(a, "ms") + T(b, "ms")
      /\ T(a, "cents") = T(c, "cents") - T(b, "cents") /\ T(a, "ms") = T(c, "ms") - T(b, "ms")
  <2>1. \A x, y \in Int : (x + y) - y = x
    OBVIOUS
  <2>2. QED
    BY <1>1, <2>1
<1>4. QED
  BY <1>2, <1>3 DEF Plus, Minus

-----------------------------------------------------------------------------
(* How long samples hold, in each of the sums of the model. *)

ClosedHolds(s, from) ==
    [i \in Closed(s) |-> Length(Max({s[i].at, from}), s[i + 1].at)]

LossHolds(s, from, opens) ==
    [i \in {j \in Closed(s) : s[j].at < opens} |->
        Length(Max({s[i].at, from}), Min({s[i + 1].at, opens}))]

GainHolds(s, from, opens) ==
    [i \in {1} \cap Closed(s) |->
        Max({Min({s[i + 1].at, from}), s[i].at}) - Max({Min({s[i + 1].at, opens}), s[i].at})]

NewestHolds(s, from, at) ==
    [i \in {Len(s)} \ {0} |-> Length(Max({s[i].at, from}), at)]

WalkHolds(s, at, opens) ==
    [i \in 1..Len(s) |-> Length(Max({s[i].at, opens}),
                                IF i < Len(s) THEN Min({s[i + 1].at, at}) ELSE at)]

LEMMA ClosedHoldsFit ==
    ASSUME NEW s, SamplesFit(s), NEW from \in Int
    PROVE  /\ HoldsOf(s, ClosedHolds(s, from)) /\ DOMAIN ClosedHolds(s, from) = Closed(s)
           /\ \A i \in Closed(s) :
                 ClosedHolds(s, from)[i] = Span(Later(s[i].at, from), s[i + 1].at)
<1>1. ASSUME NEW i \in Closed(s)
      PROVE  /\ ClosedHolds(s, from)[i] = Span(Later(s[i].at, from), s[i + 1].at)
             /\ Span(Later(s[i].at, from), s[i + 1].at) \in Int
  <2>1. s[i].at \in Int /\ s[i + 1].at \in Int
    BY SamplesTyped
  <2>2. Length(Max({s[i].at, from}), s[i + 1].at) = Span(Later(s[i].at, from), s[i + 1].at)
    BY <2>1, HoldIsSpan
  <2>3. Span(Later(s[i].at, from), s[i + 1].at) \in Int
    BY <2>1 DEF Span, Later
  <2>4. QED
    BY <2>2, <2>3 DEF ClosedHolds
<1>2. DOMAIN ClosedHolds(s, from) = Closed(s)
      /\ ClosedHolds(s, from) = [i \in DOMAIN ClosedHolds(s, from) |-> ClosedHolds(s, from)[i]]
  BY DEF ClosedHolds
<1>3. QED
  BY <1>1, <1>2, SamplesTyped DEF HoldsOf

LEMMA LossHoldsFit ==
    ASSUME NEW s, SamplesFit(s), NEW from \in Int, NEW opens \in Int
    PROVE  /\ HoldsOf(s, LossHolds(s, from, opens))
           /\ \A i : i \in DOMAIN LossHolds(s, from, opens) <=> i \in Closed(s) /\ s[i].at < opens
           /\ \A i \in DOMAIN LossHolds(s, from, opens) :
                 LossHolds(s, from, opens)[i]
                    = Span(Later(s[i].at, from), Sooner(s[i + 1].at, opens))
<1> DEFINE I == {i \in Closed(s) : s[i].at < opens}
           h == LossHolds(s, from, opens)
<1>1. DOMAIN h = I /\ h = [i \in DOMAIN h |-> h[i]]
  BY DEF LossHolds
<1>2. ASSUME NEW i \in I
      PROVE  /\ h[i] = Span(Later(s[i].at, from), Sooner(s[i + 1].at, opens))
             /\ Span(Later(s[i].at, from), Sooner(s[i + 1].at, opens)) \in Int
  <2>1. s[i].at \in Int /\ s[i + 1].at \in Int
    BY SamplesTyped
  <2>2. Length(Max({s[i].at, from}), Min({s[i + 1].at, opens}))
          = Span(Later(s[i].at, from), Sooner(s[i + 1].at, opens))
    BY <2>1, HoldUntilIsSpan
  <2>3. Span(Later(s[i].at, from), Sooner(s[i + 1].at, opens)) \in Int
    BY <2>1 DEF Span, Later, Sooner
  <2>4. QED
    BY <2>2, <2>3 DEF LossHolds
<1> HIDE DEF h
<1>3. I \subseteq 1..Len(s)
  BY SamplesTyped
<1> HIDE DEF I
<1>4. HoldsOf(s, h)
  BY <1>1, <1>2, <1>3 DEF HoldsOf
<1>5. \A i : i \in I <=> i \in Closed(s) /\ s[i].at < opens
  BY DEF I
<1>6. QED
  BY <1>1, <1>2, <1>4, <1>5 DEF h

LEMMA GainHoldsFit ==
    ASSUME NEW s, SamplesFit(s), NEW from \in Int, NEW opens \in Int
    PROVE  /\ HoldsOf(s, GainHolds(s, from, opens))
           /\ DOMAIN GainHolds(s, from, opens) = {1} \cap Closed(s)
           /\ \A i \in DOMAIN GainHolds(s, from, opens) :
                 GainHolds(s, from, opens)[i]
                    = Later(Sooner(s[i + 1].at, from), s[i].at)
                        - Later(Sooner(s[i + 1].at, opens), s[i].at)
<1> DEFINE h == GainHolds(s, from, opens)
           I == {1} \cap Closed(s)
           gain(i) == Later(Sooner(s[i + 1].at, from), s[i].at)
                        - Later(Sooner(s[i + 1].at, opens), s[i].at)
<1>1. DOMAIN h = I /\ h = [i \in DOMAIN h |-> h[i]]
  BY DEF GainHolds
<1>2. ASSUME NEW i \in I PROVE h[i] = gain(i) /\ gain(i) \in Int
  <2>1. s[i].at \in Int /\ s[i + 1].at \in Int
    BY SamplesTyped
  <2>2. /\ Min({s[i + 1].at, from}) = Sooner(s[i + 1].at, from)
        /\ Min({s[i + 1].at, opens}) = Sooner(s[i + 1].at, opens)
        /\ Sooner(s[i + 1].at, from) \in Int /\ Sooner(s[i + 1].at, opens) \in Int
    BY <2>1, MinIsSooner DEF Sooner
  <2>3. /\ Max({Sooner(s[i + 1].at, from), s[i].at}) = Later(Sooner(s[i + 1].at, from), s[i].at)
        /\ Max({Sooner(s[i + 1].at, opens), s[i].at}) = Later(Sooner(s[i + 1].at, opens), s[i].at)
    BY <2>1, <2>2, MaxIsLater
  <2>4. gain(i) \in Int
    BY <2>1, <2>2 DEF Later
  <2>5. QED
    BY <2>2, <2>3, <2>4 DEF GainHolds
<1> HIDE DEF h, gain
<1>3. I \subseteq 1..Len(s)
  BY SamplesTyped
<1> HIDE DEF I
<1>4. HoldsOf(s, h)
  BY <1>1, <1>2, <1>3 DEF HoldsOf
<1>5. QED
  BY <1>1, <1>2, <1>4 DEF h, I, gain

LEMMA NewestHoldsFit ==
    ASSUME NEW s, SamplesFit(s), s # <<>>, NEW from \in Int, NEW at \in Int
    PROVE  /\ HoldsOf(s, NewestHolds(s, from, at)) /\ DOMAIN NewestHolds(s, from, at) = {Len(s)}
           /\ Len(s) \in 1..Len(s)
           /\ NewestHolds(s, from, at)[Len(s)] = Span(Later(Newest(s).at, from), at)
<1> DEFINE n == Len(s)
           h == NewestHolds(s, from, at)
<1>1. n \in 1..n /\ n # 0 /\ Newest(s) = s[n] /\ s[n].at \in Int
  BY SamplesTyped, EmptySeq DEF Newest, SamplesFit
<1>2. DOMAIN h = {n} /\ h = [i \in DOMAIN h |-> h[i]] /\ h[n] = Length(Max({s[n].at, from}), at)
  BY <1>1 DEF NewestHolds
<1>3. h[n] = Span(Later(s[n].at, from), at) /\ Span(Later(s[n].at, from), at) \in Int
  <2>1. Length(Max({s[n].at, from}), at) = Span(Later(s[n].at, from), at)
    BY <1>1, HoldIsSpan
  <2>2. Span(Later(s[n].at, from), at) \in Int
    BY <1>1 DEF Span, Later
  <2>3. QED
    BY <1>2, <2>1, <2>2
<1> HIDE DEF n, h
<1>4. HoldsOf(s, h)
  BY <1>1, <1>2, <1>3 DEF HoldsOf, n
<1>5. QED
  BY <1>1, <1>2, <1>3, <1>4 DEF n, h

\* A sample of the walk holds until the next one, or the question.
WalkUntil(s, at, i) == IF i < Len(s) THEN Sooner(s[i + 1].at, at) ELSE at

LEMMA WalkHoldsFit ==
    ASSUME NEW s, SamplesFit(s), NEW at \in Int, NEW opens \in Int
    PROVE  /\ HoldsOf(s, WalkHolds(s, at, opens)) /\ DOMAIN WalkHolds(s, at, opens) = 1..Len(s)
           /\ \A i \in 1..Len(s) : /\ WalkUntil(s, at, i) \in Int
                                   /\ WalkHolds(s, at, opens)[i]
                                        = Span(Later(s[i].at, opens), WalkUntil(s, at, i))
<1> DEFINE h == WalkHolds(s, at, opens)
<1>1. DOMAIN h = 1..Len(s) /\ h = [i \in DOMAIN h |-> h[i]]
  BY DEF WalkHolds
<1>2. ASSUME NEW i \in 1..Len(s)
      PROVE  /\ h[i] = Span(Later(s[i].at, opens), WalkUntil(s, at, i))
             /\ WalkUntil(s, at, i) \in Int
             /\ Span(Later(s[i].at, opens), WalkUntil(s, at, i)) \in Int
  <2>1. s[i].at \in Int
    BY SamplesTyped
  <2>2. /\ (IF i < Len(s) THEN Min({s[i + 1].at, at}) ELSE at) = WalkUntil(s, at, i)
        /\ WalkUntil(s, at, i) \in Int
    <3>1. CASE i < Len(s)
      <4>1. s[i + 1].at \in Int
        BY <3>1, SamplesTyped
      <4>2. QED
        BY <3>1, <4>1, MinIsSooner DEF WalkUntil, Sooner
    <3>2. CASE ~(i < Len(s))
      BY <3>2 DEF WalkUntil
    <3>3. QED
      BY <3>1, <3>2
  <2>3. h[i] = Length(Max({s[i].at, opens}), WalkUntil(s, at, i))
    BY <2>2 DEF WalkHolds
  <2>4. Length(Max({s[i].at, opens}), WalkUntil(s, at, i)) = Span(Later(s[i].at, opens), WalkUntil(s, at, i))
    BY <2>1, <2>2, HoldIsSpan
  <2>5. Span(Later(s[i].at, opens), WalkUntil(s, at, i)) \in Int
    BY <2>1, <2>2 DEF Span, Later
  <2>6. QED
    BY <2>2, <2>3, <2>4, <2>5
<1> HIDE DEF h
<1>3. HoldsOf(s, h)
  BY <1>1, <1>2 DEF HoldsOf
<1>4. QED
  BY <1>1, <1>2, <1>3 DEF h

-----------------------------------------------------------------------------
(* The steps of the engine on its sums. *)

\* The start moves forward: what is lost is what the sums had before it.
LEMMA ForwardSums ==
    ASSUME NEW s, SamplesFit(s), NEW from \in Int, NEW opens \in Int, from <= opens
    PROVE  Minus(RestoredSums(s, from), LossTo(s, from, opens)) = RestoredSums(s, opens)
<1> DEFINE c == ClosedHolds(s, from)
           a == ClosedHolds(s, opens)
           b == LossHolds(s, from, opens)
<1>1. HoldsOf(s, a) /\ HoldsOf(s, b) /\ HoldsOf(s, c)
  BY ClosedHoldsFit, LossHoldsFit
<1>0. /\ DOMAIN a = Closed(s) /\ DOMAIN c = Closed(s)
      /\ \A i \in Closed(s) : /\ c[i] = Span(Later(s[i].at, from), s[i + 1].at)
                              /\ a[i] = Span(Later(s[i].at, opens), s[i + 1].at)
  BY ClosedHoldsFit
<1>01. /\ \A i : i \in DOMAIN b <=> i \in Closed(s) /\ s[i].at < opens
       /\ \A i \in DOMAIN b : b[i] = Span(Later(s[i].at, from), Sooner(s[i + 1].at, opens))
  BY LossHoldsFit
<1>3. /\ RestoredSums(s, from) = Sums(s, c) /\ RestoredSums(s, opens) = Sums(s, a)
      /\ LossTo(s, from, opens) = Sums(s, b)
  BY DEF RestoredSums, LossTo, ClosedHolds, LossHolds
<1> HIDE DEF a, b, c
<1>2. ASSUME NEW i \in 1..Len(s)
      PROVE  HeldIn(c, i) = HeldIn(a, i) + HeldIn(b, i)
  <2>1. CASE i \notin Closed(s)
    BY <1>0, <1>01, <2>1 DEF HeldIn
  <2>2. CASE i \in Closed(s)
    <3>1. /\ c[i] = Span(Later(s[i].at, from), s[i + 1].at)
          /\ a[i] = Span(Later(s[i].at, opens), s[i + 1].at)
          /\ i \in DOMAIN b <=> s[i].at < opens
          /\ i \in DOMAIN b => b[i] = Span(Later(s[i].at, from), Sooner(s[i + 1].at, opens))
          /\ DOMAIN c = Closed(s) /\ DOMAIN a = Closed(s)
      BY <1>0, <1>01, <2>2
    <3>2. s[i].at \in Int /\ s[i + 1].at \in Int /\ s[i].at < s[i + 1].at
      BY <2>2, SamplesTyped
    <3>3. CASE s[i].at < opens
      BY <2>2, <3>1, <3>2, <3>3 DEF Span, Later, Sooner, HeldIn
    <3>4. CASE ~(s[i].at < opens)
      BY <2>2, <3>1, <3>2, <3>4 DEF Span, Later, Sooner, HeldIn
    <3>5. QED
      BY <3>3, <3>4
  <2>3. QED
    BY <2>1, <2>2
<1>4. HoldsAdd(1..Len(s), a, b, c)
  BY <1>2 DEF HoldsAdd
<1>5. QED
  BY <1>1, <1>3, <1>4, SumsAdd

\* It moves back: only the oldest sample began before the old start.
LEMMA BackSums ==
    ASSUME NEW s, SamplesFit(s), NEW from \in Int, NEW opens \in Int, opens < from,
           \A i \in Closed(s) : i # 1 => from <= s[i].at
    PROVE  Plus(RestoredSums(s, from), GainTo(s, from, opens)) = RestoredSums(s, opens)
<1> DEFINE a == ClosedHolds(s, from)
           c == ClosedHolds(s, opens)
           b == GainHolds(s, from, opens)
<1>1. HoldsOf(s, a) /\ HoldsOf(s, b) /\ HoldsOf(s, c)
  BY ClosedHoldsFit, GainHoldsFit
<1>0. /\ DOMAIN a = Closed(s) /\ DOMAIN c = Closed(s)
      /\ \A i \in Closed(s) : /\ a[i] = Span(Later(s[i].at, from), s[i + 1].at)
                              /\ c[i] = Span(Later(s[i].at, opens), s[i + 1].at)
  BY ClosedHoldsFit
<1>01. /\ DOMAIN b = {1} \cap Closed(s)
       /\ \A i \in DOMAIN b : b[i] = Later(Sooner(s[i + 1].at, from), s[i].at)
                                        - Later(Sooner(s[i + 1].at, opens), s[i].at)
  BY GainHoldsFit
<1>3. /\ RestoredSums(s, from) = Sums(s, a) /\ RestoredSums(s, opens) = Sums(s, c)
      /\ GainTo(s, from, opens) = Sums(s, b)
  BY DEF RestoredSums, GainTo, ClosedHolds, GainHolds
<1> HIDE DEF a, b, c
<1>2. ASSUME NEW i \in 1..Len(s)
      PROVE  HeldIn(c, i) = HeldIn(a, i) + HeldIn(b, i)
  <2>1. CASE i \notin Closed(s)
    BY <1>0, <1>01, <2>1 DEF HeldIn
  <2>2. CASE i \in Closed(s)
    <3>1. /\ a[i] = Span(Later(s[i].at, from), s[i + 1].at)
          /\ c[i] = Span(Later(s[i].at, opens), s[i + 1].at)
          /\ i \in DOMAIN b <=> i = 1
          /\ i \in DOMAIN b => b[i] = Later(Sooner(s[i + 1].at, from), s[i].at)
                                        - Later(Sooner(s[i + 1].at, opens), s[i].at)
          /\ DOMAIN c = Closed(s) /\ DOMAIN a = Closed(s)
      BY <1>0, <1>01, <2>2
    <3>2. s[i].at \in Int /\ s[i + 1].at \in Int /\ s[i].at < s[i + 1].at
      BY <2>2, SamplesTyped
    <3>0. i # 1 => from <= s[i].at
      BY <2>2
    <3>3. CASE i = 1
      BY <2>2, <3>1, <3>2, <3>3 DEF Span, Later, Sooner, HeldIn
    <3>4. CASE i # 1
      BY <2>2, <3>0, <3>1, <3>2, <3>4 DEF Span, Later, Sooner, HeldIn
    <3>5. QED
      BY <3>3, <3>4
  <2>3. QED
    BY <2>1, <2>2
<1>4. HoldsAdd(1..Len(s), a, b, c)
  BY <1>2 DEF HoldsAdd
<1>5. QED
  BY <1>1, <1>3, <1>4, SumsAdd

\* A walk past the newest sample is the closed holds and the newest one.
LEMMA WalkIsClosed ==
    ASSUME NEW s, SamplesFit(s), s # <<>>, NEW at \in Int, NEW opens \in Int, Newest(s).at <= at
    PROVE  Sums(s, WalkHolds(s, at, opens)) = Plus(RestoredSums(s, opens), NewestSums(s, opens, at))
<1> DEFINE a == ClosedHolds(s, opens)
           b == NewestHolds(s, opens, at)
           c == WalkHolds(s, at, opens)
<1>1. HoldsOf(s, a) /\ HoldsOf(s, b) /\ HoldsOf(s, c)
  BY ClosedHoldsFit, NewestHoldsFit, WalkHoldsFit
<1>0. /\ DOMAIN a = Closed(s)
      /\ \A i \in Closed(s) : a[i] = Span(Later(s[i].at, opens), s[i + 1].at)
  BY ClosedHoldsFit
<1>01. /\ DOMAIN b = {Len(s)} /\ Len(s) \in 1..Len(s)
       /\ b[Len(s)] = Span(Later(Newest(s).at, opens), at)
  BY NewestHoldsFit
<1>02. /\ DOMAIN c = 1..Len(s)
       /\ \A i \in 1..Len(s) : /\ WalkUntil(s, at, i) \in Int
                                /\ c[i] = Span(Later(s[i].at, opens), WalkUntil(s, at, i))
  BY WalkHoldsFit
<1>3. /\ RestoredSums(s, opens) = Sums(s, a) /\ NewestSums(s, opens, at) = Sums(s, b)
  BY DEF RestoredSums, NewestSums, ClosedHolds, NewestHolds
<1> HIDE DEF a, b, c
<1>2. ASSUME NEW i \in 1..Len(s)
      PROVE  HeldIn(c, i) = HeldIn(a, i) + HeldIn(b, i)
  <2>0. /\ i \in DOMAIN c /\ c[i] = Span(Later(s[i].at, opens), WalkUntil(s, at, i))
        /\ DOMAIN a = Closed(s) /\ DOMAIN b = {Len(s)} /\ WalkUntil(s, at, i) \in Int
        /\ s[i].at \in Int
    BY <1>0, <1>01, <1>02, SamplesTyped
  <2>1. CASE i = Len(s)
    <3>1. i \notin Closed(s) /\ WalkUntil(s, at, i) = at /\ Newest(s) = s[i]
      BY <2>1, SamplesTyped DEF WalkUntil, Newest
    <3>2. b[i] = Span(Later(s[i].at, opens), at)
      BY <1>01, <2>1, <3>1
    <3>3. Span(Later(s[i].at, opens), at) \in Int
      BY <2>0 DEF Span, Later
    <3>4. QED
      BY <2>0, <2>1, <3>1, <3>2, <3>3 DEF HeldIn
  <2>2. CASE i # Len(s)
    <3>1. i \in Closed(s) /\ i < Len(s) /\ i + 1 \in 1..Len(s) /\ s[i + 1].at \in Int
      BY <2>2, SamplesTyped
    <3>2. s[i + 1].at <= at
      <4>1. Len(s) \in 1..Len(s) /\ i + 1 <= Len(s) /\ Len(s) \in Nat /\ i \in Nat
            /\ s[Len(s)].at \in Nat
        BY <1>01, <3>1, SamplesTyped
      <4>2. s[Len(s)].at >= s[i + 1].at + (Len(s) - (i + 1))
        BY <3>1, <4>1, LaterSample
      <4>3. s[Len(s)].at <= at
        BY DEF Newest
      <4>4. QED
        BY <3>1, <4>1, <4>2, <4>3
    <3>3. WalkUntil(s, at, i) = s[i + 1].at
      BY <3>1, <3>2 DEF WalkUntil, Sooner
    <3>4. a[i] = Span(Later(s[i].at, opens), s[i + 1].at)
      BY <1>0, <3>1
    <3>5. a[i] \in Int
      BY <2>0, <3>1, <3>4 DEF Span, Later
    <3>6. QED
      BY <2>0, <2>2, <3>1, <3>3, <3>4, <3>5 DEF HeldIn
  <2>3. QED
    BY <2>1, <2>2
<1>4. HoldsAdd(1..Len(s), a, b, c)
  BY <1>2 DEF HoldsAdd
<1>5. Sums(s, c) = Plus(RestoredSums(s, opens), NewestSums(s, opens, at))
  BY <1>1, <1>3, <1>4, SumsAdd
<1>6. QED
  BY <1>5 DEF c

-----------------------------------------------------------------------------
(* What a step makes of the samples, and of the sums over them. *)

\* Sums look at the mids of the samples that are named, and at nothing else.
SameMids(s, t, h) == \A i \in DOMAIN h : t[i].mid = s[i].mid

LEMMA SumsSame ==
    ASSUME NEW s, NEW t, NEW h, SameMids(s, t, h)
    PROVE  Sums(t, h) = Sums(s, h)
<1> DEFINE P(u) == {i \in DOMAIN h : u[i].mid # None}
<1>1. P(t) = P(s)
  BY DEF SameMids
<1>2. [i \in P(t) |-> t[i].mid * h[i]] = [i \in P(s) |-> s[i].mid * h[i]]
  BY <1>1 DEF SameMids
<1>3. \A u : Sums(u, h) = [weighted |-> SumFunction([i \in P(u) |-> u[i].mid * h[i]]),
                           weight   |-> SumFunctionOnSet(h, P(u))]
  BY DEF Sums
<1> HIDE DEF P
<1>4. QED
  BY <1>1, <1>2, <1>3

LEMMA SumsOfNothing ==
    ASSUME NEW s, NEW h, DOMAIN h = {}
    PROVE  Sums(s, h) = NoSums
<1> DEFINE P == {i \in DOMAIN h : s[i].mid # None}
           f == [i \in P |-> s[i].mid * h[i]]
<1>1. P = {} /\ DOMAIN f = {}
  OBVIOUS
<1>2. Sums(s, h) = [weighted |-> SumFunction(f), weight |-> SumFunctionOnSet(h, P)]
  BY DEF Sums
<1> HIDE DEF P, f
<1>3. SumFunction(f) = 0 /\ SumFunctionOnSet(h, P) = 0
  BY <1>1, SumOfNothing, SumFunctionIsSum
<1>4. QED
  BY <1>2, <1>3 DEF NoSums

\* A sample after the newest.
Grown(s, x, t) ==
    /\ SamplesFit(t) /\ Len(t) = Len(s) + 1 /\ t # <<>> /\ Newest(t) = x
    /\ \A i \in 1..Len(s) : t[i] = s[i]
    /\ t[Len(s) + 1] = x /\ Closed(t) = 1..Len(s)

LEMMA AppendFits ==
    ASSUME NEW s, SamplesFit(s), NEW x \in Sample, s # <<>> => Newest(s).at < x.at
    PROVE  Grown(s, x, Append(s, x))
<1> DEFINE t == Append(s, x)
<1>1. s \in Seq(Sample) /\ Len(s) \in Nat
  BY SamplesTyped DEF SamplesFit
<1>2. /\ t \in Seq(Sample) /\ Len(t) = Len(s) + 1 /\ t[Len(s) + 1] = x
      /\ \A i \in 1..Len(s) : t[i] = s[i]
  BY <1>1
<1>3. t # <<>>
  BY <1>1, <1>2
<1>4. Closed(t) = 1..Len(s) /\ Newest(t) = x
  BY <1>1, <1>2 DEF Closed, Newest
<1>5. ASSUME NEW i \in Closed(t) PROVE t[i].at < t[i + 1].at
  <2>1. i \in 1..Len(s) /\ t[i] = s[i]
    BY <1>2, <1>4
  <2>2. CASE i = Len(s)
    <3>1. s # <<>>
      BY <1>1, <2>1
    <3>2. QED
      BY <1>2, <2>1, <2>2, <3>1 DEF Newest
  <2>3. CASE i # Len(s)
    <3>1. i \in Closed(s) /\ i + 1 \in 1..Len(s)
      BY <1>1, <2>1, <2>3 DEF Closed
    <3>2. QED
      BY <1>2, <2>1, <3>1 DEF SamplesFit
  <2>4. QED
    BY <2>2, <2>3
<1>6. QED
  BY <1>2, <1>3, <1>4, <1>5 DEF SamplesFit, Grown

\* The newest hold joins the sums.
LEMMA PushSums ==
    ASSUME NEW s, SamplesFit(s), NEW x \in Sample, s # <<>> => Newest(s).at < x.at,
           NEW from \in Int
    PROVE  RestoredSums(Append(s, x), from) = Plus(RestoredSums(s, from), NewestSums(s, from, x.at))
<1> DEFINE t == Append(s, x)
           a == ClosedHolds(s, from)
           b == NewestHolds(s, from, x.at)
           c == ClosedHolds(t, from)
<1>1. /\ SamplesFit(t) /\ Len(t) = Len(s) + 1 /\ t[Len(s) + 1] = x
      /\ \A i \in 1..Len(s) : t[i] = s[i]
      /\ Closed(t) = 1..Len(s)
  BY AppendFits DEF Grown
<1>2. x.at \in Int /\ Len(s) \in Nat
  BY SamplesTyped DEF Sample
<1> HIDE DEF t
<1>3. /\ RestoredSums(s, from) = Sums(s, a) /\ NewestSums(s, from, x.at) = Sums(s, b)
      /\ RestoredSums(t, from) = Sums(t, c)
  BY DEF RestoredSums, NewestSums, ClosedHolds, NewestHolds
<1>4. /\ HoldsOf(s, a) /\ DOMAIN a = Closed(s)
      /\ \A i \in Closed(s) : a[i] = Span(Later(s[i].at, from), s[i + 1].at)
  BY ClosedHoldsFit
<1>5. /\ HoldsOf(t, c) /\ DOMAIN c = Closed(t)
      /\ \A i \in Closed(t) : c[i] = Span(Later(t[i].at, from), t[i + 1].at)
  BY <1>1, ClosedHoldsFit
<1>6. CASE s = <<>>
  <2>1. Closed(s) = {} /\ Closed(t) = {} /\ Len(s) = 0
    BY <1>1, <1>6 DEF Closed
  <2>2. DOMAIN b = {}
    BY <2>1 DEF NewestHolds
  <2> HIDE DEF a, b, c
  <2>3. Sums(s, a) = NoSums /\ Sums(s, b) = NoSums /\ Sums(t, c) = NoSums
    BY <1>4, <1>5, <2>1, <2>2, SumsOfNothing
  <2>4. QED
    BY <1>3, <2>3 DEF NoSums, Plus, t
<1>7. CASE s # <<>>
  <2>1. /\ HoldsOf(s, b) /\ DOMAIN b = {Len(s)} /\ Len(s) \in 1..Len(s)
        /\ b[Len(s)] = Span(Later(Newest(s).at, from), x.at)
    BY <1>2, <1>7, NewestHoldsFit
  <2> HIDE DEF a, b, c
  <2>2. HoldsOf(t, a) /\ HoldsOf(t, b)
    <3>1. 1..Len(s) \subseteq 1..Len(t)
      BY <1>1, <1>2
    <3>2. QED
      BY <1>4, <2>1, <3>1 DEF HoldsOf
  <2>3. ASSUME NEW i \in 1..Len(t) PROVE HeldIn(c, i) = HeldIn(a, i) + HeldIn(b, i)
    <3>1. CASE i = Len(t)
      <4>1. i \notin DOMAIN a /\ i \notin DOMAIN b /\ i \notin DOMAIN c
        BY <1>1, <1>2, <1>4, <1>5, <2>1, <3>1 DEF Closed
      <4>2. QED
        BY <4>1 DEF HeldIn
    <3>2. CASE i = Len(s)
      <4>1. /\ i \in Closed(t) /\ i \notin DOMAIN a /\ i \in DOMAIN b /\ i \in DOMAIN c
            /\ t[i] = s[i] /\ t[i + 1] = x /\ Newest(s) = s[i]
        BY <1>1, <1>2, <1>4, <1>5, <2>1, <3>2 DEF Closed, Newest
      <4>2. c[i] = Span(Later(s[i].at, from), x.at) /\ b[i] = Span(Later(s[i].at, from), x.at)
        BY <1>5, <2>1, <3>2, <4>1
      <4>3. b[i] \in Int
        BY <2>1, <3>2 DEF HoldsOf
      <4>4. QED
        BY <4>1, <4>2, <4>3 DEF HeldIn
    <3>3. CASE i # Len(t) /\ i # Len(s)
      <4>1. i \in Closed(s) /\ i \in 1..Len(s) /\ i + 1 \in 1..Len(s)
        BY <1>1, <1>2, <3>3 DEF Closed
      <4>2. /\ i \in DOMAIN a /\ i \in DOMAIN c /\ i \in Closed(t) /\ i \notin DOMAIN b
            /\ t[i] = s[i] /\ t[i + 1] = s[i + 1]
        BY <1>1, <1>4, <1>5, <2>1, <3>3, <4>1
      <4>3. c[i] = a[i] /\ a[i] \in Int
        BY <1>4, <1>5, <4>1, <4>2 DEF HoldsOf
      <4>4. QED
        BY <4>2, <4>3 DEF HeldIn
    <3>4. QED
      BY <3>1, <3>2, <3>3
  <2>4. HoldsAdd(1..Len(t), a, b, c)
    BY <2>3 DEF HoldsAdd
  <2>5. Sums(t, c) = Plus(Sums(t, a), Sums(t, b))
    BY <1>1, <1>5, <2>2, <2>4, SumsAdd
  <2>6. Sums(t, a) = Sums(s, a) /\ Sums(t, b) = Sums(s, b)
    <3>1. DOMAIN a \subseteq 1..Len(s) /\ DOMAIN b \subseteq 1..Len(s)
      BY <1>4, <2>1 DEF HoldsOf
    <3>2. SameMids(s, t, a) /\ SameMids(s, t, b)
      BY <1>1, <3>1 DEF SameMids
    <3>3. QED
      BY <3>2, SumsSame
  <2>7. QED
    BY <1>3, <2>5, <2>6 DEF t
<1>8. QED
  BY <1>6, <1>7

\* Another mid for the newest sample, which is in no sum yet.
Corrected(s, mid, t) ==
    /\ SamplesFit(t) /\ Len(t) = Len(s) /\ t # <<>> /\ Closed(t) = Closed(s)
    /\ \A i \in Closed(s) : t[i] = s[i]
    /\ \A i \in 1..Len(s) : t[i].at = s[i].at
    /\ Newest(t) = [at |-> Newest(s).at, mid |-> mid]
    /\ \A from \in Int : RestoredSums(t, from) = RestoredSums(s, from)

LEMMA ReplaceSums ==
    ASSUME NEW s, SamplesFit(s), s # <<>>, NEW mid \in Mids \cup {None}
    PROVE  Corrected(s, mid, [s EXCEPT ![Len(s)].mid = mid])
<1> DEFINE n == Len(s)
           t == [s EXCEPT ![Len(s)].mid = mid]
<1>1. /\ s \in Seq(Sample) /\ n \in Nat /\ n \in 1..n /\ s[n] \in Sample
      /\ \A i \in Closed(s) : i # n /\ i \in 1..n
  <2>1. s \in Seq(Sample)
    BY DEF SamplesFit
  <2>2. n \in 1..n
    BY <2>1
  <2>3. QED
    BY <2>1, <2>2, SamplesTyped
<1>2. s[n] = [at |-> s[n].at, mid |-> s[n].mid] /\ s[n].at \in Nat
  BY <1>1 DEF Sample
<1>3. [s[n] EXCEPT !.mid = mid] = [at |-> s[n].at, mid |-> mid]
  BY <1>2
<1>4. [at |-> s[n].at, mid |-> mid] \in Sample
  BY <1>2 DEF Sample
<1>5. t = [s EXCEPT ![n] = [s[n] EXCEPT !.mid = mid]]
  OBVIOUS
<1>6. t = [s EXCEPT ![n] = [at |-> s[n].at, mid |-> mid]]
  BY <1>3, <1>5
<1> HIDE DEF n, t
<1>7. /\ t \in Seq(Sample) /\ Len(t) = n
      /\ t[n] = [at |-> s[n].at, mid |-> mid]
      /\ \A i \in 1..n : i # n => t[i] = s[i]
  BY <1>1, <1>4, <1>6 DEF n
<1>8. t # <<>> /\ Closed(t) = Closed(s) /\ Newest(t) = [at |-> Newest(s).at, mid |-> mid]
  BY <1>1, <1>7 DEF Closed, Newest, n
<1>9. /\ \A i \in Closed(s) : t[i] = s[i]
      /\ \A i \in 1..n : t[i].at = s[i].at
  BY <1>1, <1>7
<1>10. \A i \in Closed(s) : i + 1 \in 1..n
  BY SamplesTyped DEF n
<1>11. SamplesFit(t)
  BY <1>1, <1>7, <1>8, <1>9, <1>10 DEF SamplesFit
<1>12. ASSUME NEW from \in Int
       PROVE  RestoredSums(t, from) = RestoredSums(s, from)
  <2> DEFINE hold(u, i) == Length(Max({u[i].at, from}), u[i + 1].at)
             h == ClosedHolds(s, from)
  <2>1. ASSUME NEW i \in Closed(s) PROVE hold(t, i) = hold(s, i)
    <3>1. t[i].at = s[i].at /\ t[i + 1].at = s[i + 1].at
      BY <1>1, <1>9, <1>10
    <3>2. QED
      BY <3>1
  <2>2. \A u : ClosedHolds(u, from) = [i \in Closed(u) |-> hold(u, i)]
    BY DEF ClosedHolds
  <2>3. \A u : RestoredSums(u, from) = Sums(u, ClosedHolds(u, from))
    BY DEF RestoredSums, ClosedHolds
  <2>4. DOMAIN h = Closed(s)
    BY DEF ClosedHolds
  <2> HIDE DEF hold
  <2>5. ClosedHolds(t, from) = h
    BY <1>8, <2>1, <2>2
  <2> HIDE DEF h
  <2>6. SameMids(s, t, h)
    BY <1>9, <2>4 DEF SameMids
  <2>7. Sums(t, h) = Sums(s, h)
    BY <2>6, SumsSame
  <2>8. QED
    BY <2>3, <2>5, <2>7 DEF h
<1>13. Corrected(s, mid, t)
  BY <1>7, <1>8, <1>9, <1>11, <1>12 DEF n, Corrected
<1>14. QED
  BY <1>13 DEF t

\* What dropping the samples out of reach leaves: all but the first gone, which
\* had ended when the window opens, and the next one has not.
Drops(s, r, opens, gone) ==
    /\ r \in Seq(Sample)
    /\ gone \in Nat /\ gone <= Len(s) /\ (s # <<>> => gone < Len(s))
    /\ Len(r) = Len(s) - gone
    /\ \A j \in 1..Len(r) : r[j] = s[j + gone]
    /\ \A i \in 1..gone : s[i + 1].at <= opens
    /\ gone + 1 < Len(s) => opens < s[gone + 2].at

LEMMA ReachableDrops ==
    ASSUME NEW s, SamplesFit(s), NEW opens \in Int
    PROVE  \E gone : Drops(s, Reachable(s, opens), opens, gone)
<1> DEFINE n == Len(s)
           S == {i \in Closed(s) : s[i + 1].at <= opens}
<1>1. n \in Nat /\ s \in Seq(Sample)
  BY SamplesTyped DEF SamplesFit
<1>2. \E g \in 0..n : S = 1..g /\ (s # <<>> => g < n) /\ (g + 1 < n => opens < s[g + 2].at)
  <2>1. CASE s = <<>>
    <3>1. S = {} /\ n = 0 /\ 1..0 = {}
      BY <2>1 DEF Closed
    <3> HIDE DEF S
    <3>2. QED
      BY <2>1, <3>1
  <2>2. CASE s # <<>>
    <3>0. n # 0
      BY <1>1, <2>2
    <3> DEFINE T == {k \in Nat : k < n /\ (k + 1 < n => opens < s[k + 2].at)}
    <3>1. n - 1 \in T
      BY <1>1, <3>0
    <3>2. PICK g \in T : \A k \in T : g <= k
      BY <3>1, LeastNatural
    <3>3. g \in Nat /\ g < n /\ (g + 1 < n => opens < s[g + 2].at)
      BY <3>2
    <3>4. ASSUME NEW i \in 1..g PROVE i \in S
      <4>1. i - 1 \in Nat /\ i - 1 < g /\ i - 1 < n /\ (i - 1) + 1 = i /\ (i - 1) + 2 = i + 1
        BY <3>3
      <4>2. i - 1 \notin T
        BY <3>2, <3>3, <4>1
      <4>3. i < n /\ ~(opens < s[i + 1].at)
        BY <4>1, <4>2
      <4>4. i \in Closed(s)
        BY <1>1, <4>1, <4>3 DEF Closed
      <4>5. s[i + 1].at \in Int
        BY <4>4, SamplesTyped
      <4>6. QED
        BY <4>3, <4>4, <4>5
    <3>5. ASSUME NEW i \in S PROVE i \in 1..g
      <4>1. i \in Closed(s) /\ s[i + 1].at <= opens
        OBVIOUS
      <4>2. i \in Nat /\ i >= 1 /\ i + 1 \in 1..n /\ i < n
        BY <1>1, <4>1 DEF Closed
      <4>3. ASSUME g < i PROVE FALSE
        <5>1. g + 2 \in 1..n /\ g + 2 <= i + 1 /\ g + 1 < n
          BY <1>1, <3>3, <4>2, <4>3
        <5>2. s[i + 1].at >= s[g + 2].at + ((i + 1) - (g + 2))
          BY <4>2, <5>1, LaterSample
        <5>3. s[i + 1].at \in Int /\ s[g + 2].at \in Int
          BY <4>2, <5>1, SamplesTyped
        <5>4. QED
          BY <3>3, <4>1, <4>2, <5>1, <5>2, <5>3
      <4>4. QED
        BY <3>3, <4>2, <4>3
    <3>6. S = 1..g
      BY <3>4, <3>5
    <3>7. g \in 0..n
      BY <1>1, <3>3
    <3> HIDE DEF S, T
    <3>8. QED
      BY <3>3, <3>6, <3>7
  <2>3. QED
    BY <2>1, <2>2
<1>3. PICK g \in 0..n : S = 1..g /\ (s # <<>> => g < n) /\ (g + 1 < n => opens < s[g + 2].at)
  BY <1>2
<1>4. Cardinality(S) = g
  <2>1. Cardinality(1..g) = (IF 1 > g THEN 0 ELSE g - 1 + 1)
    BY FS_Interval
  <2>2. Cardinality(1..g) = g
    BY <2>1
  <2> HIDE DEF S
  <2>3. QED
    BY <1>3, <2>2
<1>5. Reachable(s, opens) = SubSeq(s, g + 1, n)
  BY <1>4 DEF Reachable
<1>6. /\ SubSeq(s, g + 1, n) \in Seq(Sample) /\ Len(SubSeq(s, g + 1, n)) = n - g
      /\ \A j \in 1..(n - g) : SubSeq(s, g + 1, n)[j] = s[j + g]
  BY <1>1, <1>3
<1>7. \A i \in 1..g : s[i + 1].at <= opens
  BY <1>3
<1> HIDE DEF S
<1>8. Drops(s, Reachable(s, opens), opens, g)
  BY <1>1, <1>3, <1>5, <1>6, <1>7 DEF Drops
<1>9. QED
  BY <1>8

LEMMA DropsFit ==
    ASSUME NEW s, SamplesFit(s), NEW opens \in Int, NEW r, NEW gone, Drops(s, r, opens, gone)
    PROVE  /\ SamplesFit(r)
           /\ s # <<>> => r # <<>> /\ Newest(r) = Newest(s)
           /\ \A i \in 2..Len(r) : opens < r[i].at
<1>1. /\ r \in Seq(Sample) /\ gone \in Nat /\ gone <= Len(s) /\ Len(r) = Len(s) - gone
      /\ \A j \in 1..Len(r) : r[j] = s[j + gone]
      /\ s # <<>> => gone < Len(s)
      /\ gone + 1 < Len(s) => opens < s[gone + 2].at
  BY DEF Drops
<1>2. Len(s) \in Nat /\ Len(r) \in Nat
  BY <1>1, SamplesTyped
<1>3. ASSUME NEW i \in Closed(r) PROVE r[i].at < r[i + 1].at
  <2>1. i \in 1..Len(r) /\ i + 1 \in 1..Len(r) /\ i + gone \in Closed(s)
        /\ (i + 1) + gone = (i + gone) + 1
    BY <1>1, <1>2 DEF Closed
  <2>2. r[i] = s[i + gone] /\ r[i + 1] = s[(i + 1) + gone]
    BY <1>1, <2>1
  <2>4. r[i + 1] = s[(i + gone) + 1]
    BY <2>1, <2>2
  <2>3. QED
    BY <2>1, <2>2, <2>4 DEF SamplesFit
<1>4. ASSUME s # <<>> PROVE r # <<>> /\ Newest(r) = Newest(s)
  <2>1. Len(r) \in 1..Len(r) /\ Len(r) + gone = Len(s)
    BY <1>1, <1>2, <1>4
  <2>2. r[Len(r)] = s[Len(s)]
    BY <1>1, <2>1
  <2>3. QED
    BY <1>1, <2>1, <2>2 DEF Newest
<1>5. ASSUME NEW i \in 2..Len(r) PROVE opens < r[i].at
  <2>1. /\ i \in 1..Len(r) /\ i + gone \in 1..Len(s) /\ gone + 2 \in 1..Len(s)
        /\ gone + 2 <= i + gone /\ gone + 1 < Len(s)
    BY <1>1, <1>2
  <2>2. s[i + gone].at >= s[gone + 2].at + ((i + gone) - (gone + 2))
    BY <2>1, LaterSample
  <2>3. s[i + gone].at \in Int /\ s[gone + 2].at \in Int
    BY <2>1, SamplesTyped
  <2>4. s[gone + 2].at <= s[i + gone].at
    <3>1. (i + gone) - (gone + 2) >= 0 /\ (i + gone) - (gone + 2) \in Int
      BY <1>1
    <3> DEFINE d == (i + gone) - (gone + 2)
    <3> HIDE DEF d
    <3>2. s[i + gone].at >= s[gone + 2].at + d /\ d >= 0 /\ d \in Int
      BY <2>2, <3>1 DEF d
    <3>3. QED
      BY <2>3, <3>2
  <2>5. r[i] = s[i + gone] /\ opens < s[gone + 2].at
    BY <1>1, <2>1
  <2>6. QED
    BY <2>3, <2>4, <2>5
<1>6. QED
  BY <1>1, <1>3, <1>4, <1>5 DEF SamplesFit

LEMMA DropsTotal ==
    ASSUME NEW s, SamplesFit(s), NEW opens \in Int, NEW r, NEW gone, Drops(s, r, opens, gone),
           NEW kind
    PROVE  Total(Worth(r, kind), ClosedHolds(r, opens)) = Total(Worth(s, kind), ClosedHolds(s, opens))
<1> DEFINE S == Closed(r)
           f == [j \in S |-> j + gone]
           hr == ClosedHolds(r, opens)
           hs == ClosedHolds(s, opens)
           fun == [j \in S |-> Worth(r, kind)[j] * hr[j]]
           gun == [i \in Closed(s) |-> Worth(s, kind)[i] * hs[i]]
           T == {f[x] : x \in S}
<1>1. /\ gone \in Nat /\ gone <= Len(s) /\ Len(r) = Len(s) - gone
      /\ \A j \in 1..Len(r) : r[j] = s[j + gone]
      /\ \A i \in 1..gone : s[i + 1].at <= opens
  BY DEF Drops
<1>2. SamplesFit(r) /\ Len(s) \in Nat /\ Len(r) \in Nat /\ IsFiniteSet(S) /\ IsFiniteSet(Closed(s))
      /\ S \subseteq Int
  <2>1. SamplesFit(r)
    BY DropsFit
  <2>2. QED
    BY <2>1, SamplesTyped
<1>3. /\ DOMAIN hr = S /\ HoldsOf(r, hr)
      /\ \A i \in S : hr[i] = Span(Later(r[i].at, opens), r[i + 1].at)
  BY <1>2, ClosedHoldsFit
<1>4. /\ DOMAIN hs = Closed(s) /\ HoldsOf(s, hs)
      /\ \A i \in Closed(s) : hs[i] = Span(Later(s[i].at, opens), s[i + 1].at)
  BY ClosedHoldsFit
<1>5. \A j : j \in S <=> j \in Int /\ j >= 1 /\ j + gone < Len(s)
  BY <1>1, <1>2 DEF Closed
<1>6. \A i : i \in Closed(s) <=> i \in Int /\ i >= 1 /\ i < Len(s)
  BY <1>2 DEF Closed
<1>7. ASSUME NEW j \in S
      PROVE  j + gone \in Closed(s) /\ gun[j + gone] = fun[j] /\ fun[j] \in Int
  <2>1. j + gone \in Closed(s) /\ j \in 1..Len(r) /\ j + 1 \in 1..Len(r) /\ (j + 1) + gone = (j + gone) + 1
    BY <1>1, <1>2, <1>5, <1>6
  <2>2. r[j] = s[j + gone] /\ r[j + 1] = s[(j + gone) + 1]
    BY <1>1, <2>1
  <2>3. hr[j] = hs[j + gone]
    BY <1>3, <1>4, <2>1, <2>2
  <2>4. Worth(r, kind)[j] = Worth(s, kind)[j + gone]
    <3>1. j + gone \in 1..Len(s)
      BY <2>1, SamplesTyped
    <3>2. QED
      BY <2>1, <2>2, <3>1 DEF Worth
  <2>5. Worth(r, kind)[j] \in Int /\ hr[j] \in Int
    BY <1>2, <1>3, <2>1, WorthFits DEF HoldsOf
  <2>6. fun[j] = Worth(r, kind)[j] * hr[j] /\ gun[j + gone] = Worth(s, kind)[j + gone] * hs[j + gone]
    BY <2>1
  <2> HIDE DEF fun, gun, hr, hs
  <2>7. QED
    BY <2>1, <2>3, <2>4, <2>5, <2>6
<1>8. ASSUME NEW i \in Closed(s) PROVE gun[i] \in Int
  <2>1. Worth(s, kind)[i] \in Int /\ hs[i] \in Int
    BY <1>4, SamplesTyped, WorthFits DEF HoldsOf
  <2>2. gun[i] = Worth(s, kind)[i] * hs[i]
    OBVIOUS
  <2> HIDE DEF gun, hs
  <2>3. QED
    BY <2>1, <2>2
<1>9. /\ \A x \in S : f[x] = x + gone
      /\ \A x, y \in S : f[x] = f[y] => x = y
  BY <1>1, <1>2
<1>10. /\ Total(Worth(r, kind), hr) = SumFunctionOnSet(fun, S)
       /\ Total(Worth(s, kind), hs) = SumFunctionOnSet(gun, Closed(s))
  BY <1>3, <1>4 DEF Total
<1>11. T \in SUBSET Closed(s)
  BY <1>7, <1>9
<1>12. ASSUME NEW i \in Closed(s) \ T PROVE gun[i] = 0
  <2>1. i \in Int /\ i >= 1 /\ i < Len(s)
    BY <1>6
  <2>2. i <= gone
    <3>1. SUFFICES ASSUME i > gone PROVE FALSE
      BY <1>1, <2>1
    <3>2. i - gone \in S /\ (i - gone) + gone = i
      BY <1>1, <1>2, <1>5, <2>1, <3>1
    <3>3. f[i - gone] = i
      BY <1>9, <3>2
    <3>4. QED
      BY <3>2, <3>3
  <2>3. s[i + 1].at <= opens
    BY <1>1, <2>1, <2>2
  <2>4. s[i].at \in Int /\ s[i + 1].at \in Int
    BY SamplesTyped
  <2>5. hs[i] = 0
    <3>1. hs[i] = Span(Later(s[i].at, opens), s[i + 1].at)
      BY <1>4
    <3> HIDE DEF hs
    <3>2. QED
      BY <2>3, <2>4, <3>1 DEF Span, Later
  <2>6. Worth(s, kind)[i] \in Int
    BY SamplesTyped, WorthFits
  <2>7. gun[i] = Worth(s, kind)[i] * hs[i]
    OBVIOUS
  <2> HIDE DEF gun, hs
  <2>8. QED
    BY <2>5, <2>6, <2>7
<1> HIDE DEF fun, gun, hr, hs, f, S
<1>13. SumFunctionOnSet(gun, T) = SumFunctionOnSet(fun, S)
  <2>1. \A x \in S : fun[x] \in Int /\ gun[f[x]] = fun[x]
    BY <1>7, <1>9
  <2>2. IsFiniteSet(S) /\ \A x, y \in S : f[x] = f[y] => x = y
    BY <1>2, <1>9
  <2> HIDE DEF T
  <2>3. SumFunctionOnSet(gun, {f[x] : x \in S}) = SumFunctionOnSet(fun, S)
    BY <2>1, <2>2, SumOverImage
  <2>4. QED
    BY <2>3 DEF T
<1> HIDE DEF T
<1>14. SumFunctionOnSet(gun, T) = SumFunctionOnSet(gun, Closed(s))
  BY <1>2, <1>8, <1>11, <1>12, SumDropsNothing
<1>15. QED
  BY <1>10, <1>13, <1>14 DEF hr, hs

\* Dropping what the window no longer reaches changes no sum.
LEMMA ReachableSums ==
    ASSUME NEW s, SamplesFit(s), NEW opens \in Int
    PROVE  RestoredSums(Reachable(s, opens), opens) = RestoredSums(s, opens)
<1> DEFINE r == Reachable(s, opens)
<1>1. PICK gone : Drops(s, r, opens, gone)
  BY ReachableDrops
<1> HIDE DEF r
<1>2. SamplesFit(r)
  BY <1>1, DropsFit
<1>3. ASSUME NEW u, SamplesFit(u)
      PROVE  RestoredSums(u, opens)
                = [weighted |-> Total(Worth(u, "cents"), ClosedHolds(u, opens)),
                   weight   |-> Total(Worth(u, "ms"), ClosedHolds(u, opens))]
  <2>1. HoldsOf(u, ClosedHolds(u, opens))
    BY <1>3, ClosedHoldsFit
  <2>2. RestoredSums(u, opens) = Sums(u, ClosedHolds(u, opens))
    BY DEF RestoredSums, ClosedHolds
  <2>3. QED
    BY <1>3, <2>1, <2>2, SumsAreTotals
<1>4. \A kind : Total(Worth(r, kind), ClosedHolds(r, opens)) = Total(Worth(s, kind), ClosedHolds(s, opens))
  BY <1>1, DropsTotal
<1>5. RestoredSums(r, opens) = RestoredSums(s, opens)
  BY <1>2, <1>3, <1>4
<1>6. QED
  BY <1>5 DEF r

\* The samples that are left.
LEMMA ReachableFits ==
    ASSUME NEW s, SamplesFit(s), NEW opens \in Int, NEW r, r = Reachable(s, opens)
    PROVE  /\ SamplesFit(r)
           /\ s # <<>> => r # <<>> /\ Newest(r) = Newest(s)
           /\ \A i \in 2..Len(r) : opens < r[i].at
<1>1. PICK gone : Drops(s, r, opens, gone)
  BY ReachableDrops
<1>2. QED
  BY <1>1, DropsFit

\* clip_to: the sums follow the start, either way.
LEMMA ClipSums ==
    ASSUME NEW s, SamplesFit(s), NEW from \in Int, NEW opens \in Int,
           opens < from => \A i \in Closed(s) : i # 1 => from <= s[i].at
    PROVE  (IF opens >= from THEN Minus(RestoredSums(s, from), LossTo(s, from, opens))
                             ELSE Plus(RestoredSums(s, from), GainTo(s, from, opens)))
             = RestoredSums(Reachable(s, opens), opens)
<1>1. RestoredSums(Reachable(s, opens), opens) = RestoredSums(s, opens)
  BY ReachableSums
<1>2. CASE opens >= from
  BY <1>1, <1>2, ForwardSums
<1>3. CASE opens < from
  BY <1>1, <1>3, BackSums
<1>4. QED
  BY <1>2, <1>3

-----------------------------------------------------------------------------
(* What samples tell of each millisecond. *)

\* Sample i of s is the one that holds during millisecond t.
Covers(s, i, t) == s[i].at <= t /\ (i < Len(s) => t < s[i + 1].at)

\* From opens on, the samples of s tell what the timeline told holds.
Tells(s, told, opens) ==
    \A t \in Times : t >= opens =>
        /\ \A i \in 1..Len(s) : Covers(s, i, t) => told[t] = s[i].mid
        /\ (s = <<>> \/ t < s[1].at) => told[t] = None

\* The mid from the moment l on is new, and what came before opens is forgotten.
Retold(told, next, opens, l, mid) ==
    \A t \in Times : next[t] = IF t >= l THEN mid ELSE IF t >= opens THEN told[t] ELSE None

\* Before the moment l, the samples of u tell what those of s did.
TellsSame(s, u, l) ==
    \A t \in Times : t < l =>
        /\ \A i \in 1..Len(u) : Covers(u, i, t) =>
              \E j \in 1..Len(s) : Covers(s, j, t) /\ s[j].mid = u[i].mid
        /\ t < u[1].at => s = <<>> \/ t < s[1].at

\* Samples never end before they start.
LEMMA NewestIsLast ==
    ASSUME NEW s, SamplesFit(s), NEW i \in 1..Len(s)
    PROVE  s # <<>> /\ s[i].at <= Newest(s).at /\ Newest(s).at \in Nat /\ s[i].at \in Nat
<1>1. Len(s) \in Nat /\ Len(s) \in 1..Len(s) /\ i <= Len(s) /\ s # <<>> /\ i \in Int
  BY SamplesTyped
<1>2. s[Len(s)].at >= s[i].at + (Len(s) - i)
  BY <1>1, LaterSample
<1>3. s[Len(s)].at \in Nat /\ s[i].at \in Nat
  BY <1>1, SamplesTyped
<1>4. QED
  BY <1>1, <1>2, <1>3 DEF Newest

LEMMA TellsNext ==
    ASSUME NEW s, NEW told, NEW opens \in Int, Tells(s, told, opens),
           NEW u, SamplesFit(u), u # <<>>, NEW l \in Int, Newest(u).at <= l, TellsSame(s, u, l),
           NEW next, NEW later \in Int, opens <= later, Retold(told, next, later, l, Newest(u).mid)
    PROVE  Tells(u, next, later)
<1> SUFFICES ASSUME NEW t \in Times, t >= later
             PROVE  /\ \A i \in 1..Len(u) : Covers(u, i, t) => next[t] = u[i].mid
                    /\ (u = <<>> \/ t < u[1].at) => next[t] = None
  BY DEF Tells
<1>1. t \in Int /\ Len(u) \in Nat /\ 1 \in 1..Len(u) /\ Len(u) \in 1..Len(u)
  <2>1. Len(u) \in Nat /\ Len(u) # 0
    BY EmptySeq, SamplesTyped DEF SamplesFit
  <2>2. QED
    BY <2>1, MaxTimeAssumption DEF Times
<1>2. next[t] = IF t >= l THEN Newest(u).mid ELSE told[t]
  BY DEF Retold
<1>3. CASE t >= l
  <2>1. ASSUME NEW i \in 1..Len(u), Covers(u, i, t) PROVE next[t] = u[i].mid
    <3>1. i = Len(u)
      <4>1. SUFFICES ASSUME i # Len(u) PROVE FALSE
        OBVIOUS
      <4>2. i < Len(u) /\ i + 1 \in 1..Len(u)
        BY <1>1, <4>1
      <4>3. t < u[i + 1].at
        BY <2>1, <4>2 DEF Covers
      <4>4. u[i + 1].at <= Newest(u).at /\ u[i + 1].at \in Int /\ Newest(u).at \in Int
        BY <4>2, NewestIsLast
      <4>5. QED
        BY <1>1, <1>3, <4>3, <4>4
    <3>2. QED
      BY <1>2, <1>3, <3>1 DEF Newest
  <2>2. ~(t < u[1].at)
    <3>1. u[1].at <= Newest(u).at /\ u[1].at \in Int /\ Newest(u).at \in Int
      BY <1>1, NewestIsLast
    <3>2. QED
      BY <1>1, <1>3, <3>1
  <2>3. QED
    BY <2>1, <2>2
<1>4. CASE ~(t >= l)
  <2>0. t < l /\ t >= opens /\ next[t] = told[t]
    BY <1>1, <1>2, <1>4
  <2>1. ASSUME NEW i \in 1..Len(u), Covers(u, i, t) PROVE next[t] = u[i].mid
    <3>1. PICK j \in 1..Len(s) : Covers(s, j, t) /\ s[j].mid = u[i].mid
      BY <2>0, <2>1 DEF TellsSame
    <3>2. QED
      BY <2>0, <3>1 DEF Tells
  <2>2. ASSUME t < u[1].at PROVE next[t] = None
    <3>1. s = <<>> \/ t < s[1].at
      BY <2>0, <2>2 DEF TellsSame
    <3>2. QED
      BY <2>0, <3>1 DEF Tells
  <2>3. QED
    BY <2>1, <2>2
<1>5. QED
  BY <1>3, <1>4

\* Another mid for the newest sample.
LEMMA ReplaceTells ==
    ASSUME NEW s, SamplesFit(s), s # <<>>, NEW mid \in Mids \cup {None},
           NEW u, Corrected(s, mid, u)
    PROVE  TellsSame(s, u, Newest(s).at)
<1>1. /\ SamplesFit(u) /\ Len(u) = Len(s) /\ Closed(u) = Closed(s)
      /\ \A i \in Closed(s) : u[i] = s[i]
      /\ \A i \in 1..Len(s) : u[i].at = s[i].at
  BY DEF Corrected
<1>2. Len(s) \in Nat /\ 1 \in 1..Len(s)
  <2>1. Len(s) \in Nat /\ Len(s) # 0
    BY EmptySeq, SamplesTyped DEF SamplesFit
  <2>2. QED
    BY <2>1
<1>3. SUFFICES ASSUME NEW t \in Times, t < Newest(s).at
               PROVE  /\ \A i \in 1..Len(u) : Covers(u, i, t) =>
                            \E j \in 1..Len(s) : Covers(s, j, t) /\ s[j].mid = u[i].mid
                      /\ t < u[1].at => s = <<>> \/ t < s[1].at
  BY DEF TellsSame
<1>4. ASSUME NEW i \in 1..Len(u), Covers(u, i, t)
      PROVE  \E j \in 1..Len(s) : Covers(s, j, t) /\ s[j].mid = u[i].mid
  <2>1. i # Len(s)
    <3>1. s[i].at <= t /\ s[i].at \in Int /\ t \in Int
      BY <1>1, <1>4, SamplesTyped, MaxTimeAssumption DEF Covers, Times
    <3>2. QED
      BY <1>3, <3>1 DEF Newest
  <2>2. i \in Closed(s) /\ i + 1 \in 1..Len(s)
    BY <1>1, <2>1, SamplesTyped
  <2>3. u[i] = s[i] /\ u[i + 1].at = s[i + 1].at
    BY <1>1, <2>2
  <2>4. Covers(s, i, t)
    BY <1>1, <1>4, <2>3 DEF Covers
  <2>5. QED
    BY <1>1, <2>3, <2>4
<1>5. t < u[1].at => t < s[1].at
  BY <1>1, <1>2
<1>6. QED
  BY <1>4, <1>5

\* A sample after the newest.
LEMMA PushTells ==
    ASSUME NEW s, SamplesFit(s), NEW x \in Sample, s # <<>> => Newest(s).at < x.at
    PROVE  TellsSame(s, Append(s, x), x.at)
<1> DEFINE u == Append(s, x)
<1>1. Grown(s, x, u)
  BY AppendFits
<1>2. Len(s) \in Nat /\ x.at \in Int
  BY SamplesTyped DEF Sample
<1> HIDE DEF u
<1>3. /\ SamplesFit(u) /\ Len(u) = Len(s) + 1
      /\ \A i \in 1..Len(s) : u[i] = s[i]
      /\ u[Len(s) + 1] = x
  BY <1>1 DEF Grown
<1>4. ASSUME NEW t \in Times, t < x.at
      PROVE  /\ \A i \in 1..Len(u) : Covers(u, i, t) =>
                   \E j \in 1..Len(s) : Covers(s, j, t) /\ s[j].mid = u[i].mid
             /\ t < u[1].at => s = <<>> \/ t < s[1].at
  <2>1. ASSUME NEW i \in 1..Len(u), Covers(u, i, t)
        PROVE  \E j \in 1..Len(s) : Covers(s, j, t) /\ s[j].mid = u[i].mid
    <3>1. i # Len(s) + 1
      <4>1. u[i].at <= t /\ t \in Int
        BY <2>1, MaxTimeAssumption DEF Covers, Times
      <4>2. QED
        BY <1>2, <1>3, <1>4, <4>1
    <3>2. i \in 1..Len(s) /\ u[i] = s[i]
      BY <1>2, <1>3, <3>1
    <3>3. Covers(s, i, t)
      <4>1. CASE i < Len(s)
        <5>1. i + 1 \in 1..Len(s) /\ i < Len(u)
          BY <1>2, <1>3, <3>2, <4>1
        <5>2. u[i + 1] = s[i + 1]
          BY <1>3, <5>1
        <5>3. QED
          BY <2>1, <3>2, <5>1, <5>2 DEF Covers
      <4>2. CASE ~(i < Len(s))
        BY <2>1, <3>2, <4>2 DEF Covers
      <4>3. QED
        BY <4>1, <4>2
    <3>4. QED
      BY <3>2, <3>3
  <2>2. ASSUME t < u[1].at, s # <<>> PROVE t < s[1].at
    <3>1. Len(s) # 0 /\ 1 \in 1..Len(s)
      BY <1>2, <2>2, EmptySeq DEF SamplesFit
    <3>2. QED
      BY <1>3, <2>2, <3>1
  <2>3. QED
    BY <2>1, <2>2
<1>5. TellsSame(s, u, x.at)
  BY <1>4 DEF TellsSame
<1>6. QED
  BY <1>5 DEF u

\* Nothing new: the newest sample still tells.
LEMMA RepeatTells ==
    ASSUME NEW s, NEW l
    PROVE  TellsSame(s, s, l)
BY DEF TellsSame

\* What is dropped told of nothing after the window opens.
LEMMA ReachableTells ==
    ASSUME NEW s, SamplesFit(s), NEW opens \in Int, NEW told, Tells(s, told, opens)
    PROVE  Tells(Reachable(s, opens), told, opens)
<1> DEFINE r == Reachable(s, opens)
<1>1. PICK gone : Drops(s, r, opens, gone)
  BY ReachableDrops
<1> HIDE DEF r
<1>2. /\ gone \in Nat /\ gone <= Len(s) /\ Len(r) = Len(s) - gone
      /\ \A j \in 1..Len(r) : r[j] = s[j + gone]
      /\ s # <<>> => gone < Len(s)
      /\ \A i \in 1..gone : s[i + 1].at <= opens
      /\ r \in Seq(Sample)
  BY <1>1 DEF Drops
<1>3. Len(s) \in Nat /\ Len(r) \in Nat
  BY <1>2, SamplesTyped
<1>4. ASSUME NEW t \in Times, t >= opens
      PROVE  /\ \A i \in 1..Len(r) : Covers(r, i, t) => told[t] = r[i].mid
             /\ (r = <<>> \/ t < r[1].at) => told[t] = None
  <2>0. t \in Int
    BY MaxTimeAssumption DEF Times
  <2>1. ASSUME NEW i \in 1..Len(r), Covers(r, i, t) PROVE told[t] = r[i].mid
    <3>1. i + gone \in 1..Len(s) /\ r[i] = s[i + gone]
      BY <1>2, <1>3
    <3>2. Covers(s, i + gone, t)
      <4>1. CASE i + gone < Len(s)
        <5>1. i + 1 \in 1..Len(r) /\ i < Len(r) /\ (i + 1) + gone = (i + gone) + 1
          BY <1>2, <1>3, <4>1
        <5>2. r[i + 1] = s[(i + 1) + gone]
          BY <1>2, <5>1
        <5>3. r[i + 1] = s[(i + gone) + 1]
          BY <5>1, <5>2
        <5>4. QED
          BY <2>1, <3>1, <5>1, <5>3 DEF Covers
      <4>2. CASE ~(i + gone < Len(s))
        BY <2>1, <3>1, <4>2 DEF Covers
      <4>3. QED
        BY <4>1, <4>2
    <3>3. QED
      BY <1>4, <3>1, <3>2 DEF Tells
  <2>2. ASSUME r = <<>> \/ t < r[1].at PROVE told[t] = None
    <3>1. CASE s = <<>>
      BY <1>4, <3>1 DEF Tells
    <3>2. CASE s # <<>>
      <4>1. 1 \in 1..Len(r) /\ r # <<>>
        BY <1>2, <1>3, <3>2
      <4>2. r[1] = s[1 + gone] /\ t < r[1].at
        BY <1>2, <2>2, <4>1
      <4>3. gone = 0
        <5>1. SUFFICES ASSUME gone # 0 PROVE FALSE
          OBVIOUS
        <5>2. gone \in 1..gone /\ gone + 1 = 1 + gone /\ 1 + gone \in 1..Len(s)
          BY <1>2, <1>3, <3>2, <5>1
        <5>3. s[1 + gone].at <= opens /\ s[1 + gone].at \in Int
          BY <1>2, <5>2, SamplesTyped
        <5>4. QED
          BY <1>4, <2>0, <4>2, <5>3
      <4>4. r[1] = s[1]
        BY <4>2, <4>3
      <4>5. QED
        BY <1>4, <4>2, <4>4 DEF Tells
    <3>3. QED
      BY <3>1, <3>2
  <2>3. QED
    BY <2>1, <2>2
<1>5. Tells(r, told, opens)
  BY <1>4 DEF Tells
<1>6. QED
  BY <1>5 DEF r

-----------------------------------------------------------------------------
(* A walk adds up what held, millisecond by millisecond. *)

\* What a millisecond of the timeline adds to either sum.
Price(told, kind) ==
    [t \in Times |-> IF told[t] = None THEN 0 ELSE IF kind = "cents" THEN told[t] ELSE 1]

LEMMA PriceFits ==
    ASSUME NEW told, \A t \in Times : told[t] \in Mids \cup {None}, NEW kind, NEW t \in Times
    PROVE  Price(told, kind)[t] \in Int
<1>1. told[t] = None \/ told[t] \in Nat
  BY MidsAssumption
<1>2. Price(told, kind)[t] = IF told[t] = None THEN 0 ELSE IF kind = "cents" THEN told[t] ELSE 1
  BY DEF Price
<1>3. QED
  BY <1>1, <1>2

LEMMA SomeSampleCovers ==
    ASSUME NEW s, SamplesFit(s), s # <<>>, NEW t \in Int, s[1].at <= t
    PROVE  \E i \in 1..Len(s) : Covers(s, i, t)
<1> DEFINE n == Len(s)
           T == {k \in Nat : k < n /\ s[n - k].at <= t}
<1>1. n \in Nat /\ n # 0
  BY EmptySeq, SamplesTyped DEF SamplesFit
<1>2. n - 1 \in T
  <2>1. n - (n - 1) = 1 /\ n - 1 \in Nat
    BY <1>1
  <2>2. QED
    BY <1>1, <2>1
<1>3. PICK g \in T : \A k \in T : g <= k
  BY <1>2, LeastNatural
<1>4. g \in Nat /\ g < n /\ s[n - g].at <= t /\ n - g \in 1..n
  BY <1>1, <1>3
<1>5. ASSUME n - g < n PROVE t < s[(n - g) + 1].at
  <2>1. g - 1 \in Nat /\ g - 1 < n /\ n - (g - 1) = (n - g) + 1 /\ (n - g) + 1 \in 1..n
    BY <1>1, <1>4, <1>5
  <2>2. g - 1 \notin T
    BY <1>3, <1>4, <2>1
  <2>3. ~(s[(n - g) + 1].at <= t)
    BY <2>1, <2>2
  <2>4. s[(n - g) + 1].at \in Int
    BY <2>1, SamplesTyped
  <2>5. QED
    BY <2>3, <2>4
<1>6. Covers(s, n - g, t)
  BY <1>4, <1>5 DEF Covers
<1>7. QED
  BY <1>4, <1>6

LEMMA OneSampleCovers ==
    ASSUME NEW s, SamplesFit(s), NEW t \in Int,
           NEW i \in 1..Len(s), Covers(s, i, t), NEW j \in 1..Len(s), Covers(s, j, t)
    PROVE  i = j
<1>1. \A a, b \in 1..Len(s) : Covers(s, a, t) /\ Covers(s, b, t) => ~(a < b)
  <2>1. SUFFICES ASSUME NEW a \in 1..Len(s), NEW b \in 1..Len(s),
                        Covers(s, a, t), Covers(s, b, t), a < b
                 PROVE  FALSE
    OBVIOUS
  <2>2. Len(s) \in Nat /\ a + 1 \in 1..Len(s) /\ a < Len(s) /\ a + 1 <= b
    BY <2>1, SamplesTyped
  <2>3. t < s[a + 1].at /\ s[b].at <= t
    BY <2>1, <2>2 DEF Covers
  <2>4. s[b].at >= s[a + 1].at + (b - (a + 1))
    BY <2>2, LaterSample
  <2>5. s[b].at \in Int /\ s[a + 1].at \in Int
    BY <2>2, SamplesTyped
  <2>6. QED
    BY <2>2, <2>3, <2>4, <2>5
<1>2. QED
  BY <1>1

\* One millisecond more.
LEMMA WalkStep ==
    ASSUME NEW s, SamplesFit(s), NEW opens \in Int, NEW at \in Times, opens <= at,
           NEW told, Tells(s, told, opens), NEW kind
    PROVE  Total(Worth(s, kind), WalkHolds(s, at + 1, opens))
              = Total(Worth(s, kind), WalkHolds(s, at, opens)) + Price(told, kind)[at]
<1> DEFINE I == 1..Len(s)
           w == Worth(s, kind)
           a == WalkHolds(s, at, opens)
           c == WalkHolds(s, at + 1, opens)
           J == {i \in I : Covers(s, i, at)}
           b == [i \in J |-> 1]
<1>0. at \in Int /\ at + 1 \in Int
  BY MaxTimeAssumption DEF Times
<1>1. IsFiniteSet(I) /\ \A i \in I : w[i] \in Int /\ s[i].at \in Int
  BY SamplesTyped, WorthFits
<1>2. /\ HoldsOf(s, a) /\ DOMAIN a = I
      /\ \A i \in I : /\ WalkUntil(s, at, i) \in Int
                      /\ a[i] = Span(Later(s[i].at, opens), WalkUntil(s, at, i))
  BY <1>0, WalkHoldsFit
<1>3. /\ HoldsOf(s, c) /\ DOMAIN c = I
      /\ \A i \in I : /\ WalkUntil(s, at + 1, i) \in Int
                      /\ c[i] = Span(Later(s[i].at, opens), WalkUntil(s, at + 1, i))
  BY <1>0, WalkHoldsFit
<1>4. J \subseteq I /\ IsFiniteSet(J) /\ \A i : i \in J <=> i \in I /\ Covers(s, i, at)
  BY <1>1, FS_Subset
<1>5. DOMAIN b = J /\ \A i \in J : b[i] = 1
  OBVIOUS
<1> HIDE DEF a, b, c, J, w
<1>6. ASSUME NEW i \in I PROVE HeldIn(c, i) = HeldIn(a, i) + HeldIn(b, i)
  <2>1. /\ HeldIn(c, i) = Span(Later(s[i].at, opens), WalkUntil(s, at + 1, i))
        /\ HeldIn(a, i) = Span(Later(s[i].at, opens), WalkUntil(s, at, i))
        /\ s[i].at \in Int
    BY <1>1, <1>2, <1>3 DEF HeldIn
  <2>2. HeldIn(b, i) = IF Covers(s, i, at) THEN 1 ELSE 0
    BY <1>4, <1>5 DEF HeldIn
  <2>3. CASE i < Len(s)
    <3>1. s[i + 1].at \in Int /\ s[i].at < s[i + 1].at
      <4>1. i \in Closed(s)
        BY <2>3, SamplesTyped
      <4>2. QED
        BY <4>1, SamplesTyped
    <3>2. /\ WalkUntil(s, at, i) = Sooner(s[i + 1].at, at)
          /\ WalkUntil(s, at + 1, i) = Sooner(s[i + 1].at, at + 1)
          /\ Covers(s, i, at) <=> s[i].at <= at /\ at < s[i + 1].at
      BY <2>3 DEF WalkUntil, Covers
    <3> DEFINE x == s[i].at
               y == s[i + 1].at
    <3>3. x \in Int /\ y \in Int /\ x < y
      BY <2>1, <3>1
    <3>4. /\ HeldIn(c, i) = Span(Later(x, opens), Sooner(y, at + 1))
          /\ HeldIn(a, i) = Span(Later(x, opens), Sooner(y, at))
          /\ HeldIn(b, i) = IF x <= at /\ at < y THEN 1 ELSE 0
      BY <2>1, <2>2, <3>2
    <3> HIDE DEF x, y
    <3>5. QED
      BY <1>0, <3>3, <3>4 DEF Span, Later, Sooner
  <2>4. CASE ~(i < Len(s))
    <3>1. /\ WalkUntil(s, at, i) = at /\ WalkUntil(s, at + 1, i) = at + 1
          /\ Covers(s, i, at) <=> s[i].at <= at
      BY <2>4 DEF WalkUntil, Covers
    <3> DEFINE x == s[i].at
    <3>2. /\ HeldIn(c, i) = Span(Later(x, opens), at + 1)
          /\ HeldIn(a, i) = Span(Later(x, opens), at)
          /\ HeldIn(b, i) = IF x <= at THEN 1 ELSE 0
          /\ x \in Int
      BY <2>1, <2>2, <3>1
    <3> HIDE DEF x
    <3>3. QED
      BY <1>0, <3>2 DEF Span, Later
  <2>5. QED
    BY <2>3, <2>4
<1>7. Total(w, c) = Total(w, a) + Total(w, b)
  <2>1. HoldsAdd(I, a, b, c)
    BY <1>6 DEF HoldsAdd
  <2>2. /\ DOMAIN a \subseteq I /\ DOMAIN b \subseteq I /\ DOMAIN c \subseteq I
        /\ \A i \in DOMAIN a : a[i] \in Int
        /\ \A i \in DOMAIN b : b[i] \in Int
        /\ \A i \in DOMAIN c : c[i] \in Int
    BY <1>2, <1>3, <1>4, <1>5 DEF HoldsOf
  <2> HIDE DEF I
  <2>3. QED
    BY <1>1, <2>1, <2>2, TotalsAdd
<1>8. Total(w, b) = Price(told, kind)[at]
  <2> DEFINE f == [i \in J |-> w[i] * b[i]]
  <2>1. Total(w, b) = SumFunctionOnSet(f, J)
    BY <1>5 DEF Total
  <2>2. \A i \in J : f[i] = w[i] /\ f[i] \in Int
    BY <1>1, <1>4, <1>5
  <2> HIDE DEF f
  <2>3. CASE J = {}
    <3>1. s = <<>> \/ at < s[1].at
      <4>1. SUFFICES ASSUME s # <<>>, ~(at < s[1].at) PROVE FALSE
        OBVIOUS
      <4>2. Len(s) \in Nat /\ Len(s) # 0
        BY <4>1, EmptySeq, SamplesTyped DEF SamplesFit
      <4>3. 1 \in I
        BY <4>2
      <4>4. s[1].at <= at
        BY <1>0, <1>1, <4>1, <4>3
      <4>5. QED
        BY <1>0, <1>4, <2>3, <4>1, <4>4, SomeSampleCovers
    <3>2. told[at] = None
      BY <1>0, <3>1 DEF Tells
    <3>3. Price(told, kind)[at] = 0
      BY <3>2 DEF Price
    <3>4. QED
      BY <2>1, <2>3, <3>3, SumOfNothing
  <2>4. CASE J # {}
    <3>1. PICK i \in J : TRUE
      BY <2>4
    <3>2. i \in I /\ Covers(s, i, at)
      BY <1>4
    <3>3. told[at] = s[i].mid
      BY <1>0, <3>2 DEF Tells
    <3>4. w[i] = Price(told, kind)[at]
      BY <3>2, <3>3 DEF w, Worth, Price
    <3>5. J \ {i} = {}
      BY <1>0, <1>4, <3>2, OneSampleCovers
    <3>6. SumFunctionOnSet(f, J) = f[i] + SumFunctionOnSet(f, J \ {i})
      BY <1>4, <2>2, SumTakesAny
    <3>7. SumFunctionOnSet(f, J \ {i}) = 0
      BY <3>5, SumOfNothing
    <3>8. QED
      BY <1>1, <2>1, <2>2, <3>2, <3>4, <3>6, <3>7
  <2>5. QED
    BY <2>3, <2>4
<1>9. QED
  BY <1>7, <1>8 DEF a, c, w

LEMMA WalkTells ==
    ASSUME NEW s, SamplesFit(s), NEW opens \in Nat,
           NEW told, Tells(s, told, opens), \A t \in Times : told[t] \in Mids \cup {None},
           NEW kind, NEW at \in Nat, opens <= at, at <= MaxTime + 1
    PROVE  Total(Worth(s, kind), WalkHolds(s, at, opens))
              = SumFunctionOnSet(Price(told, kind), opens..(at - 1))
<1> DEFINE walk(d) == Total(Worth(s, kind), WalkHolds(s, opens + d, opens))
           sum(d) == SumFunctionOnSet(Price(told, kind), opens..((opens + d) - 1))
           Good == {d \in Nat : opens + d <= MaxTime + 1 => walk(d) = sum(d)}
<1>1. \A t \in Times : Price(told, kind)[t] \in Int
  BY PriceFits
<1>2. 0 \in Good
  <2>1. opens + 0 = opens /\ opens..((opens + 0) - 1) = {}
    OBVIOUS
  <2>2. sum(0) = 0
    BY <2>1, SumOfNothing
  <2>3. walk(0) = 0
    <3> DEFINE h == WalkHolds(s, opens, opens)
               w == Worth(s, kind)
               f == [i \in 1..Len(s) |-> w[i] * h[i]]
    <3>1. /\ DOMAIN h = 1..Len(s)
          /\ \A i \in 1..Len(s) : /\ WalkUntil(s, opens, i) \in Int
                                  /\ h[i] = Span(Later(s[i].at, opens), WalkUntil(s, opens, i))
      BY WalkHoldsFit
    <3>2. ASSUME NEW i \in 1..Len(s) PROVE f[i] = 0
      <4>1. s[i].at \in Int /\ w[i] \in Int
        BY SamplesTyped, WorthFits
      <4>2. WalkUntil(s, opens, i) <= opens /\ WalkUntil(s, opens, i) \in Int
        <5>1. i < Len(s) => s[i + 1].at \in Int
          BY SamplesTyped
        <5>2. QED
          BY <5>1 DEF WalkUntil, Sooner
      <4> DEFINE u == WalkUntil(s, opens, i)
      <4>3. h[i] = Span(Later(s[i].at, opens), u) /\ u <= opens /\ u \in Int
        BY <3>1, <4>2
      <4>4. f[i] = w[i] * h[i]
        OBVIOUS
      <4> HIDE DEF h, w, f, u
      <4>5. h[i] = 0
        BY <4>1, <4>3 DEF Span, Later
      <4>6. QED
        BY <4>1, <4>4, <4>5
    <3>3. Total(w, h) = SumFunctionOnSet(f, 1..Len(s))
      BY <3>1 DEF Total
    <3>4. IsFiniteSet(1..Len(s))
      BY SamplesTyped
    <3> HIDE DEF f
    <3>5. SumFunctionOnSet(f, {}) = SumFunctionOnSet(f, 1..Len(s))
      BY <3>2, <3>4, SumDropsNothing
    <3>6. Total(w, h) = 0
      BY <3>3, <3>5, SumOfNothing
    <3>7. QED
      BY <2>1, <3>6
  <2> HIDE DEF walk, sum
  <2>4. QED
    BY <2>2, <2>3
<1>3. ASSUME NEW d \in Nat, d \in Good PROVE d + 1 \in Good
  <2>1. SUFFICES ASSUME opens + (d + 1) <= MaxTime + 1 PROVE walk(d + 1) = sum(d + 1)
    OBVIOUS
  <2> DEFINE t == opens + d
  <2>2. /\ t \in Times /\ t \in Int /\ opens <= t /\ opens + d <= MaxTime + 1
        /\ opens + (d + 1) = t + 1 /\ (t + 1) - 1 = t
    BY <2>1, MaxTimeAssumption DEF Times
  <2>3. walk(d) = sum(d)
    BY <1>3, <2>2
  <2>4. walk(d + 1) = walk(d) + Price(told, kind)[t]
    <3>1. Total(Worth(s, kind), WalkHolds(s, t + 1, opens))
             = Total(Worth(s, kind), WalkHolds(s, t, opens)) + Price(told, kind)[t]
      <4> HIDE DEF t
      <4>1. QED
        BY <2>2, WalkStep
    <3>2. QED
      BY <2>2, <3>1
  <2>5. sum(d + 1) = Price(told, kind)[t] + sum(d)
    <3> DEFINE A == opens..t
    <3>1. IsFiniteSet(A) /\ t \in A /\ A \ {t} = opens..(t - 1)
      <4> HIDE DEF t
      <4>1. IsFiniteSet(A) /\ t \in A
        BY <2>2, FS_Interval
      <4>2. A \ {t} = opens..(t - 1)
        BY <2>2
      <4>3. QED
        BY <4>1, <4>2
    <3>2. \A x \in A : Price(told, kind)[x] \in Int
      <4>1. \A x \in A : x \in Times
        BY <2>2, MaxTimeAssumption DEF Times
      <4>2. QED
        BY <1>1, <4>1
    <3> HIDE DEF A, t
    <3>3. SumFunctionOnSet(Price(told, kind), A)
            = Price(told, kind)[t] + SumFunctionOnSet(Price(told, kind), A \ {t})
      BY <3>1, <3>2, SumTakesAny
    <3>4. sum(d + 1) = SumFunctionOnSet(Price(told, kind), A)
      BY <2>2 DEF A
    <3>5. sum(d) = SumFunctionOnSet(Price(told, kind), A \ {t})
      BY <3>1 DEF t
    <3>6. QED
      BY <3>3, <3>4, <3>5
  <2>6. walk(d) \in Int
    <3>1. HoldsOf(s, WalkHolds(s, t, opens)) /\ DOMAIN WalkHolds(s, t, opens) = 1..Len(s)
      BY <2>2, WalkHoldsFit
    <3>2. IsFiniteSet(1..Len(s)) /\ \A i \in 1..Len(s) : Worth(s, kind)[i] \in Int
      BY SamplesTyped, WorthFits
    <3> DEFINE h == WalkHolds(s, t, opens)
    <3>3. DOMAIN h = 1..Len(s) /\ \A i \in DOMAIN h : h[i] \in Int
      BY <3>1 DEF HoldsOf
    <3> HIDE DEF h
    <3>4. Total(Worth(s, kind), h) \in Int
      BY <3>2, <3>3, TotalFits
    <3>5. QED
      BY <3>4 DEF h
  <2>7. Price(told, kind)[t] \in Int
    BY <1>1, <2>2
  <2> HIDE DEF walk, sum
  <2>8. QED
    BY <2>3, <2>4, <2>5, <2>6, <2>7
<1>4. \A d \in Nat : d \in Good
  <2> HIDE DEF Good
  <2>1. QED
    BY <1>2, <1>3, EveryNatural
<1>5. at - opens \in Nat /\ opens + (at - opens) = at
  OBVIOUS
<1>6. QED
  BY <1>4, <1>5

\* The average of the timeline over the milliseconds of a window that have a mid.
Priced(told, opens, at) == {t \in opens..(at - 1) : told[t] # None}

Average(told, opens, at) ==
    IF Priced(told, opens, at) = {} THEN None
    ELSE SumFunctionOnSet(told, Priced(told, opens, at)) \div Cardinality(Priced(told, opens, at))

LEMMA WalkIsAverage ==
    ASSUME NEW s, SamplesFit(s), NEW opens \in Nat,
           NEW told, Tells(s, told, opens), \A t \in Times : told[t] \in Mids \cup {None},
           NEW at \in Nat, opens <= at, at <= MaxTime + 1
    PROVE  /\ Sums(s, WalkHolds(s, at, opens))
                = [weighted |-> SumFunctionOnSet(told, Priced(told, opens, at)),
                   weight   |-> Cardinality(Priced(told, opens, at))]
           /\ Quotient(Sums(s, WalkHolds(s, at, opens))) = Average(told, opens, at)
<1> DEFINE A == opens..(at - 1)
           P == Priced(told, opens, at)
           cents == Price(told, "cents")
           ms == Price(told, "ms")
<1>1. IsFiniteSet(A) /\ A \subseteq Times
  BY FS_Interval, MaxTimeAssumption DEF Times
<1>2. P \in SUBSET A /\ IsFiniteSet(P) /\ \A t : t \in P <=> t \in A /\ told[t] # None
  BY <1>1, FS_Subset DEF Priced
<1> HIDE DEF P
<1>3. \A t \in A : cents[t] \in Int /\ ms[t] \in Int
  BY <1>1, PriceFits
<1>4. /\ \A t \in P : cents[t] = told[t] /\ ms[t] = 1
      /\ \A t \in A \ P : cents[t] = 0 /\ ms[t] = 0
  BY <1>1, <1>2 DEF Price
<1>5. /\ SumFunctionOnSet(cents, A) = Total(Worth(s, "cents"), WalkHolds(s, at, opens))
      /\ SumFunctionOnSet(ms, A) = Total(Worth(s, "ms"), WalkHolds(s, at, opens))
  BY WalkTells
<1> HIDE DEF A, cents, ms
<1>6. SumFunctionOnSet(cents, P) = SumFunctionOnSet(cents, A)
      /\ SumFunctionOnSet(ms, P) = SumFunctionOnSet(ms, A)
  BY <1>1, <1>2, <1>3, <1>4, SumDropsNothing
<1>7. SumFunctionOnSet(cents, P) = SumFunctionOnSet(told, P)
  BY <1>2, <1>4, SumOfSame
<1>8. SumFunctionOnSet(ms, P) = Cardinality(P)
  BY <1>2, <1>4, SumOfOnes
<1>9. HoldsOf(s, WalkHolds(s, at, opens))
  BY WalkHoldsFit
<1>10. Sums(s, WalkHolds(s, at, opens))
          = [weighted |-> SumFunctionOnSet(told, P), weight |-> Cardinality(P)]
  BY <1>5, <1>6, <1>7, <1>8, <1>9, SumsAreTotals
<1>11. Cardinality(P) \in Nat /\ (Cardinality(P) > 0 <=> P # {})
  BY <1>2, FS_CardinalityType, FS_EmptySet
<1>12. Quotient(Sums(s, WalkHolds(s, at, opens)))
          = IF P = {} THEN None ELSE SumFunctionOnSet(told, P) \div Cardinality(P)
  BY <1>10, <1>11 DEF Quotient
<1>13. QED
  BY <1>10, <1>12 DEF P, Average

-----------------------------------------------------------------------------
(* The engine's window: what every observation and restart keeps. *)

WindowSound ==
    /\ SamplesFit(samples)
    /\ clip \in Times /\ latest \in Times
    /\ kept = RestoredSums(samples, clip)
    /\ \A i \in 2..Len(samples) : clip < samples[i].at
    /\ samples # <<>> => Opening(Newest(samples).at) <= clip /\ Newest(samples).at <= latest
    /\ \A t \in Times : timeline[t] \in Mids \cup {None}
    /\ ~woundBack => clip = Opening(latest) /\ Tells(samples, timeline, clip)

LEMMA TimesAre == Times \subseteq Nat /\ \A t \in Times : Opening(t) \in Times /\ t <= MaxTime
<1>1. Times \subseteq Nat /\ \A t \in Times : t <= MaxTime
  BY MaxTimeAssumption DEF Times
<1>2. ASSUME NEW t \in Times PROVE Opening(t) \in Times
  <2>1. t \in Nat /\ t <= MaxTime
    BY <1>1
  <2>2. Opening(t) \in Nat /\ Opening(t) <= t
    BY <2>1, OpeningIs
  <2>3. QED
    BY <2>1, <2>2, MaxTimeAssumption DEF Times
<1>3. QED
  BY <1>1, <1>2

LEMMA WindowStarts == Init => WindowSound
<1> SUFFICES ASSUME Init PROVE WindowSound
  OBVIOUS
<1>1. /\ samples = <<>> /\ kept = NoSums /\ clip = 0
      /\ timeline = [t \in Times |-> None] /\ latest = 0
  BY DEF Init
<1>2. 0 \in Times /\ Opening(0) = 0
  <2>1. Opening(0) \in Nat /\ Opening(0) <= 0
    BY OpeningIs
  <2>2. QED
    BY <2>1, MaxTimeAssumption DEF Times
<1>3. SamplesFit(samples) /\ Closed(samples) = {} /\ Len(samples) = 0
  BY <1>1 DEF SamplesFit, Closed
<1>4. kept = RestoredSums(samples, clip)
  <2>1. DOMAIN ClosedHolds(samples, clip) = {}
    BY <1>3 DEF ClosedHolds
  <2>2. Sums(samples, ClosedHolds(samples, clip)) = NoSums
    BY <2>1, SumsOfNothing
  <2>3. QED
    BY <1>1, <2>2 DEF RestoredSums, ClosedHolds
<1>5. Tells(samples, timeline, clip)
  BY <1>1, <1>3 DEF Tells
<1>6. \A i \in 2..Len(samples) : clip < samples[i].at
  BY <1>3
<1>7. QED
  BY <1>1, <1>2, <1>3, <1>4, <1>5, <1>6 DEF WindowSound

\* clip_to, after a change of the samples the sums are kept over.
LEMMA ClipSound ==
    ASSUME clip \in Times, NEW u, SamplesFit(u), u # <<>>, NEW sums, sums = RestoredSums(u, clip),
           NEW opens \in Times, ClipTo(u, sums, opens),
           \A i \in Closed(u) : i # 1 => clip < u[i].at
    PROVE  /\ SamplesFit(samples') /\ samples' = Reachable(u, opens)
           /\ clip' = opens /\ kept' = RestoredSums(samples', opens)
           /\ samples' # <<>> /\ Newest(samples') = Newest(u)
           /\ \A i \in 2..Len(samples') : opens < samples'[i].at
<1>1. opens \in Int /\ clip \in Int
  BY TimesAre
<1>2. samples' = Reachable(u, opens) /\ clip' = opens
      /\ kept' = IF opens >= clip THEN Minus(sums, LossTo(u, clip, opens))
                                  ELSE Plus(sums, GainTo(u, clip, opens))
  BY DEF ClipTo
<1>3. /\ SamplesFit(samples') /\ samples' # <<>> /\ Newest(samples') = Newest(u)
      /\ \A i \in 2..Len(samples') : opens < samples'[i].at
  BY <1>1, <1>2, ReachableFits
<1>4. \A i \in Closed(u) : i # 1 => clip <= u[i].at
  BY <1>1, SamplesTyped
<1>5. kept' = RestoredSums(samples', opens)
  BY <1>1, <1>2, <1>4, ClipSums
<1>6. QED
  BY <1>2, <1>3, <1>5

LEMMA RecordTells ==
    ASSUME latest \in Times, \A t \in Times : timeline[t] \in Mids \cup {None},
           NEW at \in Times, NEW read \in Nat, NEW mid \in Mids \cup {None}, Record(at, read, mid)
    PROVE  /\ latest' = Later(latest, at) /\ latest' \in Times
           /\ Retold(timeline, timeline', Opening(latest'), latest', mid)
           /\ \A t \in Times : timeline'[t] \in Mids \cup {None}
           /\ ~woundBack' => ~woundBack /\ latest <= read
<1>1. latest \in Int /\ at \in Int
  BY TimesAre
<1>2. latest' = Max({latest, at})
      /\ timeline' = [t \in Times |-> IF t >= latest' THEN mid
                                      ELSE IF t >= Opening(latest') THEN timeline[t] ELSE None]
      /\ woundBack' = (woundBack \/ read < latest)
  BY DEF Record
<1>3. latest' = Later(latest, at) /\ latest' \in Times
  BY <1>1, <1>2, MaxIsLater DEF Later
<1>4. \A t \in Times : timeline'[t] = IF t >= latest' THEN mid
                                      ELSE IF t >= Opening(latest') THEN timeline[t] ELSE None
  BY <1>2
<1>5. ~woundBack' => ~woundBack /\ latest <= read
  <2>1. woundBack' = (woundBack \/ read < latest)
    BY <1>2
  <2>2. ~woundBack' => ~woundBack /\ ~(read < latest)
    BY <2>1, Zenon
  <2>3. ~(read < latest) => latest <= read
    BY <1>1
  <2>4. QED
    BY <2>2, <2>3, Zenon
<1>6. QED
  BY <1>3, <1>4, <1>5 DEF Retold

\* Every observation: samples u with the new mid, sums over them, a start that moves.
LEMMA ObservedSound ==
    ASSUME WindowSound, NEW at \in Times, NEW read \in Times, NEW mid \in Mids \cup {None},
           Record(at, read, mid), at <= read, read <= Later(latest, at),
           NEW u, SamplesFit(u), u # <<>>, Newest(u).mid = mid, Newest(u).at <= read,
           TellsSame(samples, u, read),
           NEW sums, sums = RestoredSums(u, clip), ClipTo(u, sums, Opening(read)),
           \A i \in Closed(u) : i # 1 => clip < u[i].at
    PROVE  WindowSound'
<1> DEFINE opens == Opening(read)
<1>1. /\ clip \in Times /\ latest \in Times
      /\ \A t \in Times : timeline[t] \in Mids \cup {None}
      /\ ~woundBack => clip = Opening(latest) /\ Tells(samples, timeline, clip)
  BY DEF WindowSound
<1>2. read \in Nat /\ at \in Nat /\ latest \in Nat /\ clip \in Nat
      /\ opens \in Times /\ opens \in Nat
  BY <1>1, TimesAre
<1>3. /\ SamplesFit(samples') /\ samples' = Reachable(u, opens)
      /\ clip' = opens /\ kept' = RestoredSums(samples', opens)
      /\ samples' # <<>> /\ Newest(samples') = Newest(u)
      /\ \A i \in 2..Len(samples') : opens < samples'[i].at
  BY <1>1, <1>2, ClipSound
<1>4. /\ latest' = Later(latest, at) /\ latest' \in Times
      /\ Retold(timeline, timeline', Opening(latest'), latest', mid)
      /\ \A t \in Times : timeline'[t] \in Mids \cup {None}
      /\ ~woundBack' => ~woundBack /\ latest <= read
  BY <1>1, <1>2, RecordTells
<1>5. Newest(u).at \in Nat
  <2>1. Len(u) \in 1..Len(u)
    <3>1. Len(u) \in Nat /\ Len(u) # 0
      BY EmptySeq, SamplesTyped DEF SamplesFit
    <3>2. QED
      BY <3>1
  <2>2. QED
    BY <2>1, NewestIsLast
<1>6. Opening(Newest(u).at) <= opens
  BY <1>2, <1>5, OpeningGrows
<1>7. Newest(u).at <= latest'
  BY <1>2, <1>4, <1>5 DEF Later
<1>8. ASSUME ~woundBack' PROVE opens = Opening(latest') /\ Tells(samples', timeline', opens)
  <2>1. ~woundBack /\ latest <= read /\ read = latest'
    BY <1>2, <1>4, <1>8 DEF Later
  <2>2. Tells(samples, timeline, clip) /\ clip <= opens
    BY <1>1, <1>2, <2>1, OpeningGrows
  <2>3. Retold(timeline, timeline', opens, read, Newest(u).mid)
    BY <1>4, <2>1
  <2> HIDE DEF opens
  <2>4. Tells(u, timeline', opens)
    BY <1>2, <2>2, <2>3, TellsNext
  <2>5. Tells(samples', timeline', opens)
    BY <1>2, <1>3, <2>4, ReachableTells
  <2>6. QED
    BY <2>1, <2>5 DEF opens
<1> HIDE DEF opens
<1>9. clip' \in Times /\ kept' = RestoredSums(samples', clip')
      /\ \A i \in 2..Len(samples') : clip' < samples'[i].at
  BY <1>2, <1>3
<1>10. Opening(Newest(samples').at) <= clip' /\ Newest(samples').at <= latest'
  BY <1>3, <1>6, <1>7
<1>11. ~woundBack' => clip' = Opening(latest') /\ Tells(samples', timeline', clip')
  BY <1>3, <1>8
<1>12. QED
  BY <1>3, <1>4, <1>9, <1>10, <1>11 DEF WindowSound

LEMMA ReplaceSound ==
    ASSUME WindowSound, NEW at \in Times, NEW mid \in Mids \cup {None}, Replace(at, mid)
    PROVE  WindowSound'
<1> DEFINE last == Newest(samples).at
           u == [samples EXCEPT ![Len(samples)].mid = mid]
<1>1. /\ samples # <<>> /\ at <= last
      /\ ClipTo(u, kept, Opening(last)) /\ Record(at, last, mid)
  BY DEF Replace
<1>2. /\ SamplesFit(samples) /\ clip \in Times /\ latest \in Times
      /\ kept = RestoredSums(samples, clip)
      /\ \A i \in 2..Len(samples) : clip < samples[i].at
      /\ last <= latest
  BY <1>1 DEF WindowSound
<1>3. Corrected(samples, mid, u)
  BY <1>1, <1>2, ReplaceSums
<1> HIDE DEF u
<1>4. /\ SamplesFit(u) /\ Len(u) = Len(samples) /\ u # <<>> /\ Closed(u) = Closed(samples)
      /\ \A i \in 1..Len(samples) : u[i].at = samples[i].at
      /\ Newest(u) = [at |-> last, mid |-> mid]
      /\ \A from \in Int : RestoredSums(u, from) = RestoredSums(samples, from)
  BY <1>3 DEF Corrected
<1>5. last \in Times /\ last <= Later(latest, at) /\ clip \in Int
  <2>1. Len(samples) \in 1..Len(samples)
    <3>1. Len(samples) \in Nat /\ Len(samples) # 0
      BY <1>1, <1>2, EmptySeq, SamplesTyped DEF SamplesFit
    <3>2. QED
      BY <3>1
  <2>2. last \in Nat
    BY <1>2, <2>1, NewestIsLast
  <2>3. latest \in Nat /\ at \in Nat /\ latest <= MaxTime /\ MaxTime \in Nat /\ clip \in Int
    BY <1>2, TimesAre, MaxTimeAssumption
  <2> HIDE DEF last
  <2>4. QED
    BY <1>2, <2>2, <2>3 DEF Times, Later
<1>6. kept = RestoredSums(u, clip)
  BY <1>2, <1>4, <1>5
<1>7. ASSUME NEW i \in Closed(u), i # 1 PROVE clip < u[i].at
  <2>1. i \in 1..Len(samples) /\ i \in 2..Len(samples)
    BY <1>2, <1>4, <1>7, SamplesTyped
  <2>2. QED
    BY <1>2, <1>4, <2>1
<1>8. TellsSame(samples, u, last)
  BY <1>1, <1>2, <1>3, ReplaceTells
<1>9. Newest(u).mid = mid /\ Newest(u).at <= last
  BY <1>4, <1>5, TimesAre
<1> HIDE DEF last
<1>10. QED
  BY <1>1, <1>4, <1>5, <1>6, <1>7, <1>8, <1>9, ObservedSound

LEMMA RepeatSound ==
    ASSUME WindowSound, NEW at \in Times, NEW mid \in Mids \cup {None}, Repeat(at, mid)
    PROVE  WindowSound'
<1>1. /\ samples # <<>> /\ at > Newest(samples).at /\ mid = Newest(samples).mid
      /\ ClipTo(samples, kept, Opening(at)) /\ Record(at, at, mid)
  BY DEF Repeat
<1>2. /\ SamplesFit(samples) /\ clip \in Times /\ latest \in Times
      /\ kept = RestoredSums(samples, clip)
      /\ \A i \in 2..Len(samples) : clip < samples[i].at
  BY DEF WindowSound
<1>3. at \in Nat /\ latest \in Nat
  BY <1>2, TimesAre
<1>4. at <= at /\ at <= Later(latest, at)
  BY <1>3 DEF Later
<1>5. Newest(samples).at <= at
  <2>1. Len(samples) \in 1..Len(samples)
    <3>1. Len(samples) \in Nat /\ Len(samples) # 0
      BY <1>1, <1>2, EmptySeq, SamplesTyped DEF SamplesFit
    <3>2. QED
      BY <3>1
  <2>2. Newest(samples).at \in Nat
    BY <1>2, <2>1, NewestIsLast
  <2>3. QED
    BY <1>1, <1>3, <2>2
<1>6. TellsSame(samples, samples, at)
  BY RepeatTells
<1>7. \A i \in Closed(samples) : i # 1 => clip < samples[i].at
  <2>1. \A i \in Closed(samples) : i \in 1..Len(samples)
    BY <1>2, SamplesTyped
  <2>2. \A i \in Closed(samples) : i # 1 => i \in 2..Len(samples)
    BY <2>1
  <2>3. QED
    BY <1>2, <2>2
<1>8. QED
  BY <1>1, <1>2, <1>4, <1>5, <1>6, <1>7, ObservedSound

LEMMA PushSound ==
    ASSUME WindowSound, NEW at \in Times, NEW mid \in Mids \cup {None}, Push(at, mid)
    PROVE  WindowSound'
<1> DEFINE x == [at |-> at, mid |-> mid]
           u == Append(samples, x)
           sums == Plus(kept, NewestSums(samples, clip, at))
<1>1. /\ samples # <<>> => at > Newest(samples).at
      /\ ClipTo(u, sums, Opening(at)) /\ Record(at, at, mid)
  BY DEF Push
<1>2. /\ SamplesFit(samples) /\ clip \in Times /\ latest \in Times
      /\ kept = RestoredSums(samples, clip)
      /\ \A i \in 2..Len(samples) : clip < samples[i].at
  BY DEF WindowSound
<1>3. at \in Nat /\ latest \in Nat /\ clip \in Int
  BY <1>2, TimesAre
<1>4. at <= at /\ at <= Later(latest, at)
  BY <1>3 DEF Later
<1>5. x \in Sample /\ x.at = at /\ x.mid = mid
  BY <1>3 DEF Sample
<1>6. samples # <<>> => Newest(samples).at < x.at
  <2>1. SUFFICES ASSUME samples # <<>> PROVE Newest(samples).at < at
    BY <1>5
  <2>2. Len(samples) \in 1..Len(samples)
    <3>1. Len(samples) \in Nat /\ Len(samples) # 0
      BY <1>2, <2>1, EmptySeq, SamplesTyped DEF SamplesFit
    <3>2. QED
      BY <3>1
  <2>3. Newest(samples).at \in Nat
    BY <1>2, <2>2, NewestIsLast
  <2>4. QED
    BY <1>1, <1>3, <2>1, <2>3
<1> HIDE DEF x
<1>7. Grown(samples, x, u) /\ TellsSame(samples, u, x.at)
  BY <1>2, <1>5, <1>6, AppendFits, PushTells
<1>8. sums = RestoredSums(u, clip)
  BY <1>2, <1>3, <1>5, <1>6, PushSums
<1> HIDE DEF u, sums
<1>9. /\ SamplesFit(u) /\ u # <<>> /\ Newest(u) = x
      /\ Len(samples) \in Nat
      /\ \A i \in 1..Len(samples) : u[i] = samples[i]
      /\ Closed(u) = 1..Len(samples)
  BY <1>2, <1>7, SamplesTyped DEF Grown
<1>10. \A i \in Closed(u) : i # 1 => clip < u[i].at
  BY <1>2, <1>9
<1>11. Newest(u).mid = mid /\ Newest(u).at <= at /\ TellsSame(samples, u, at)
  BY <1>3, <1>5, <1>7, <1>9
<1>12. QED
  BY <1>1, <1>4, <1>8, <1>9, <1>10, <1>11, ObservedSound

LEMMA RestartSound ==
    ASSUME WindowSound, Restart
    PROVE  WindowSound'
BY DEF WindowSound, Restart, Newest, Tells, Covers

LEMMA WindowStays ==
    ASSUME WindowSound, [Next]_vars
    PROVE  WindowSound'
<1>1. CASE UNCHANGED vars
  BY <1>1 DEF vars, window, WindowSound, Newest, Tells, Covers
<1>2. CASE Restart
  BY <1>2, RestartSound
<1>3. ASSUME NEW at \in Times, NEW mid \in Mids \cup {None}, Observe(at, mid)
      PROVE  WindowSound'
  BY <1>3, ReplaceSound, RepeatSound, PushSound DEF Observe
<1>4. QED
  BY <1>1, <1>2, <1>3 DEF Next

-----------------------------------------------------------------------------
(* What the sound window answers. *)

LEMMA LaterOpening ==
    ASSUME NEW s, NEW told, NEW opens \in Int, NEW later \in Int, opens <= later,
           Tells(s, told, opens)
    PROVE  Tells(s, told, later)
<1>1. ASSUME NEW t \in Times, t >= later PROVE t >= opens
  <2>1. t \in Int
    BY TimesAre
  <2>2. QED
    BY <1>1, <2>1
<1>2. QED
  BY <1>1 DEF Tells

\* Whatever the samples, there is a timeline they tell.
LEMMA SomeTimeline ==
    ASSUME NEW s, SamplesFit(s)
    PROVE  \E told : /\ Tells(s, told, 0)
                     /\ \A t \in Times : told[t] \in Mids \cup {None}
<1> DEFINE covering(t) == CHOOSE i \in 1..Len(s) : Covers(s, i, t)
           told == [t \in Times |-> IF \E i \in 1..Len(s) : Covers(s, i, t)
                                    THEN s[covering(t)].mid ELSE None]
<1>1. ASSUME NEW t \in Times, NEW i \in 1..Len(s), Covers(s, i, t)
      PROVE  told[t] = s[i].mid /\ told[t] \in Mids \cup {None}
  <2>1. covering(t) \in 1..Len(s) /\ Covers(s, covering(t), t)
    BY <1>1
  <2>2. t \in Int
    BY TimesAre
  <2> HIDE DEF covering
  <2>3. covering(t) = i
    BY <1>1, <2>1, <2>2, OneSampleCovers
  <2>4. told[t] = s[i].mid
    BY <1>1, <2>3
  <2>5. QED
    BY <2>4, SamplesTyped
<1>2. ASSUME NEW t \in Times, ~\E i \in 1..Len(s) : Covers(s, i, t)
      PROVE  told[t] = None
  BY <1>2
<1>3. ASSUME NEW t \in Times, s = <<>> \/ t < s[1].at PROVE told[t] = None
  <2>1. ASSUME NEW i \in 1..Len(s), Covers(s, i, t) PROVE FALSE
    <3>1. /\ i \in Int /\ Len(s) \in Nat /\ 1 \in 1..Len(s) /\ 1 <= i /\ s # <<>>
      BY SamplesTyped
    <3>2. s[i].at >= s[1].at + (i - 1)
      BY <3>1, LaterSample
    <3>3. s[i].at \in Int /\ s[1].at \in Int /\ t \in Int
      BY <3>1, SamplesTyped, TimesAre
    <3>4. s[i].at <= t
      BY <2>1 DEF Covers
    <3>5. QED
      BY <1>3, <3>1, <3>2, <3>3, <3>4
  <2>2. QED
    BY <1>2, <2>1
<1> HIDE DEF told
<1>4. Tells(s, told, 0)
  BY <1>1, <1>3 DEF Tells
<1>5. \A t \in Times : told[t] \in Mids \cup {None}
  BY <1>1, <1>2
<1>6. QED
  BY <1>4, <1>5

\* The weights of holds that are not negative.
LEMMA WeightIsNat ==
    ASSUME NEW s, SamplesFit(s), NEW h, HoldsOf(s, h), \A i \in DOMAIN h : h[i] >= 0
    PROVE  Sums(s, h).weight \in Nat
<1> DEFINE w == Worth(s, "ms")
           f == [i \in DOMAIN h |-> w[i] * h[i]]
<1>1. DOMAIN h \subseteq 1..Len(s) /\ IsFiniteSet(DOMAIN h) /\ \A i \in DOMAIN h : h[i] \in Nat
  BY SamplesTyped, FS_Subset DEF HoldsOf
<1>2. ASSUME NEW i \in DOMAIN h PROVE f[i] \in Nat
  <2>1. w[i] = 0 \/ w[i] = 1
    BY <1>1 DEF Worth
  <2>2. f[i] = w[i] * h[i] /\ h[i] \in Nat
    BY <1>1
  <2> HIDE DEF w, f
  <2>3. QED
    BY <2>1, <2>2
<1> HIDE DEF f
<1>3. SumFunctionOnSet(f, DOMAIN h) \in Nat
  BY <1>1, <1>2, SumBoundsEach
<1>4. Total(w, h) \in Nat
  BY <1>3 DEF Total, f
<1>5. QED
  BY <1>4, SumsAreTotals

LEMMA ClosedWeightFits ==
    ASSUME NEW s, SamplesFit(s), s # <<>>, NEW from \in Times, Newest(s).at \in Times,
           Opening(Newest(s).at) <= from
    PROVE  RestoredSums(s, from).weight \in 0..WindowMs
<1> DEFINE at == Later(Newest(s).at, from)
           a == ClosedHolds(s, from)
           b == NewestHolds(s, from, at)
           c == WalkHolds(s, at, from)
<1>1. /\ Newest(s).at \in Nat /\ from \in Nat /\ at \in Times /\ at \in Nat
      /\ from <= at /\ at <= MaxTime + 1 /\ Newest(s).at <= at
  <2>1. Newest(s).at \in Nat /\ from \in Nat /\ Newest(s).at <= MaxTime /\ from <= MaxTime
    BY TimesAre
  <2>2. QED
    BY <2>1, MaxTimeAssumption DEF Later
<1>2. at - from <= WindowMs
  <2>1. Newest(s).at - Opening(Newest(s).at) <= WindowMs /\ Opening(Newest(s).at) \in Nat
        /\ WindowMs \in Nat
    BY <1>1, OpeningIs, WindowMsAssumption
  <2>2. QED
    BY <1>1, <2>1 DEF Later
<1> HIDE DEF at
<1>3. PICK told : Tells(s, told, 0) /\ \A t \in Times : told[t] \in Mids \cup {None}
  BY SomeTimeline
<1>4. Tells(s, told, from)
  BY <1>1, <1>3, LaterOpening
<1>5. Sums(s, c).weight = Cardinality(Priced(told, from, at))
  BY <1>1, <1>3, <1>4, WalkIsAverage
<1>6. Cardinality(Priced(told, from, at)) \in Nat /\ Cardinality(Priced(told, from, at)) <= WindowMs
  <2> DEFINE last == at - 1
  <2>0. last \in Int /\ from \in Int /\ last - from + 1 <= WindowMs
    BY <1>1, <1>2, WindowMsAssumption
  <2> HIDE DEF last
  <2>1. IsFiniteSet(from..last)
        /\ Cardinality(from..last) = IF from > last THEN 0 ELSE last - from + 1
    BY <2>0, FS_Interval
  <2>2. Priced(told, from, at) \subseteq from..last
    BY DEF Priced, last
  <2>3. Cardinality(Priced(told, from, at)) <= Cardinality(from..last)
        /\ Cardinality(Priced(told, from, at)) \in Nat
    BY <2>1, <2>2, FS_Subset, FS_CardinalityType
  <2>4. Cardinality(from..last) <= WindowMs /\ Cardinality(from..last) \in Int /\ WindowMs \in Int
    <3> DEFINE count == Cardinality(from..last)
    <3>1. count = IF from > last THEN 0 ELSE last - from + 1
      BY <2>1
    <3> HIDE DEF count
    <3>2. count <= WindowMs /\ count \in Int /\ WindowMs \in Int
      BY <2>0, <3>1, WindowMsAssumption
    <3>3. QED
      BY <3>2 DEF count
  <2>5. QED
    BY <2>3, <2>4
<1>7. Sums(s, c) = Plus(RestoredSums(s, from), NewestSums(s, from, at))
  BY <1>1, WalkIsClosed
<1>8. RestoredSums(s, from) = Sums(s, a) /\ NewestSums(s, from, at) = Sums(s, b)
  BY DEF RestoredSums, NewestSums, ClosedHolds, NewestHolds
<1>9. Sums(s, a).weight \in Nat
  <2>1. HoldsOf(s, a) /\ DOMAIN a = Closed(s)
        /\ \A i \in Closed(s) : a[i] = Span(Later(s[i].at, from), s[i + 1].at)
    BY <1>1, ClosedHoldsFit
  <2> HIDE DEF a
  <2>2. ASSUME NEW i \in DOMAIN a PROVE a[i] >= 0
    <3>1. s[i].at \in Int /\ s[i + 1].at \in Int
      BY <2>1, SamplesTyped
    <3>2. QED
      BY <1>1, <2>1, <3>1 DEF Span, Later
  <2>3. QED
    BY <2>1, <2>2, WeightIsNat
<1>10. Sums(s, b).weight \in Nat
  <2>0. from \in Int /\ at \in Int
    BY <1>1
  <2>1. HoldsOf(s, b) /\ DOMAIN b = {Len(s)} /\ b[Len(s)] = Span(Later(Newest(s).at, from), at)
    BY <2>0, NewestHoldsFit
  <2> HIDE DEF b
  <2>2. b[Len(s)] >= 0
    BY <1>1, <2>1 DEF Span, Later
  <2>3. QED
    BY <2>1, <2>2, WeightIsNat
<1> HIDE DEF a, b, c
<1>11. Sums(s, c).weight = Sums(s, a).weight + Sums(s, b).weight
  BY <1>7, <1>8 DEF Plus
<1>12. QED
  BY <1>5, <1>6, <1>8, <1>9, <1>10, <1>11, WindowMsAssumption

LEMMA SoundRestores == WindowSound => WindowRestores
<1> SUFFICES ASSUME WindowSound PROVE WindowRestores
  OBVIOUS
<1>1. /\ SamplesFit(samples)
      /\ clip \in Times /\ latest \in Times
      /\ kept = RestoredSums(samples, clip)
      /\ \A i \in 2..Len(samples) : clip < samples[i].at
      /\ samples # <<>> => Opening(Newest(samples).at) <= clip /\ Newest(samples).at <= latest
  BY DEF WindowSound
<1>2. CASE samples = <<>>
  <2>1. Closed(samples) = {}
    BY <1>2 DEF Closed
  <2>2. DOMAIN ClosedHolds(samples, clip) = {}
    BY <2>1 DEF ClosedHolds
  <2>3. Sums(samples, ClosedHolds(samples, clip)) = NoSums
    BY <2>2, SumsOfNothing
  <2>4. RestoredSums(samples, clip) = NoSums
    BY <2>3 DEF RestoredSums, ClosedHolds
  <2>5. kept.weight \in 0..WindowMs
    BY <1>1, <2>4, WindowMsAssumption DEF NoSums
  <2>6. QED
    BY <1>1, <1>2, <2>5 DEF WindowRestores
<1>3. CASE samples # <<>>
  <2>1. Len(samples) \in Nat /\ Len(samples) # 0 /\ Len(samples) \in 1..Len(samples)
    <3>1. Len(samples) \in Nat /\ Len(samples) # 0
      BY <1>1, <1>3, EmptySeq, SamplesTyped DEF SamplesFit
    <3>2. QED
      BY <3>1
  <2>2. Newest(samples).at \in Times /\ clip \in Nat /\ Newest(samples).at \in Nat
    <3>1. Newest(samples).at \in Nat
      BY <1>1, <2>1, NewestIsLast
    <3>2. latest \in Nat /\ latest <= MaxTime /\ clip \in Nat
      BY <1>1, TimesAre
    <3>3. QED
      BY <1>1, <1>3, <3>1, <3>2, MaxTimeAssumption DEF Times
  <2>3. kept.weight \in 0..WindowMs
    BY <1>1, <1>3, <2>2, ClosedWeightFits
  <2>4. Len(samples) <= WindowMs + 1
    <3>1. CASE Len(samples) = 1
      BY <3>1, WindowMsAssumption
    <3>2. CASE Len(samples) # 1
      <4>1. 2 \in 1..Len(samples) /\ 2 \in 2..Len(samples) /\ 2 <= Len(samples)
        <5>1. \A n \in Nat : n # 0 /\ n # 1 => 2 \in 1..n /\ 2 \in 2..n /\ 2 <= n
          OBVIOUS
        <5>2. QED
          BY <2>1, <3>2, <5>1
      <4>2. samples[Len(samples)].at >= samples[2].at + (Len(samples) - 2)
        BY <1>1, <2>1, <4>1, LaterSample
      <4>3. clip < samples[2].at /\ samples[2].at \in Nat
        BY <1>1, <4>1, SamplesTyped
      <4>4. /\ Newest(samples).at - Opening(Newest(samples).at) <= WindowMs
            /\ Opening(Newest(samples).at) \in Nat /\ Opening(Newest(samples).at) <= clip
        BY <1>1, <1>3, <2>2, OpeningIs
      <4>5. Newest(samples).at >= samples[2].at + (Len(samples) - 2)
        BY <4>2 DEF Newest
      <4>6. QED
        BY <2>1, <2>2, <4>3, <4>4, <4>5, WindowMsAssumption
    <3>3. QED
      BY <3>1, <3>2
  <2>5. Restorable(samples)
    <3>1. \A i \in Closed(samples) : samples[i].at < samples[i + 1].at
      BY <1>1 DEF SamplesFit
    <3>2. \A i \in 1..Len(samples) : samples[i].mid # None => samples[i].mid > 0
      BY <1>1, SamplesTyped
    <3>3. DOMAIN samples = 1..Len(samples)
      BY <1>1, SamplesTyped
    <3>4. QED
      BY <1>3, <2>4, <3>1, <3>2, <3>3 DEF Restorable
  <2>6. QED
    BY <1>1, <2>3, <2>5 DEF WindowRestores
<1>4. QED
  BY <1>2, <1>3

\* A question ahead of the newest sample and the start is answered from the sums;
\* any other one by the walk itself.
LEMMA SumsAtIsWalk ==
    ASSUME WindowSound, samples # <<>>, NEW at \in Times
    PROVE  /\ SumsAt(at, Opening(at)) = Walked(at, Opening(at))
           /\ Walked(at, Opening(at)) = Sums(samples, WalkHolds(samples, at, Opening(at)))
<1> DEFINE opens == Opening(at)
<1>1. /\ SamplesFit(samples) /\ clip \in Int /\ kept = RestoredSums(samples, clip)
      /\ at \in Int /\ opens \in Int /\ opens \in Nat
  <2>1. SamplesFit(samples) /\ clip \in Times /\ kept = RestoredSums(samples, clip)
    BY DEF WindowSound
  <2>2. opens \in Times
    BY TimesAre
  <2> HIDE DEF opens
  <2>3. clip \in Int /\ at \in Int /\ opens \in Nat /\ opens \in Int
    BY <2>1, <2>2, TimesAre
  <2>4. QED
    BY <2>1, <2>3
<1> HIDE DEF opens
<1>2. Walked(at, opens) = Sums(samples, WalkHolds(samples, at, opens))
  <2>1. DOMAIN samples = 1..Len(samples)
    BY <1>1, SamplesTyped
  <2>2. QED
    BY <2>1 DEF Walked, WalkHolds
<1>3. SumsAt(at, opens) = Walked(at, opens)
  <2>1. CASE Behind(at, opens)
    BY <2>1 DEF SumsAt
  <2>2. CASE ~Behind(at, opens)
    <3>1. Newest(samples).at <= at /\ clip <= opens
      <4>1. Len(samples) \in 1..Len(samples)
        <5>1. Len(samples) \in Nat /\ Len(samples) # 0
          BY <1>1, EmptySeq, SamplesTyped DEF SamplesFit
        <5>2. QED
          BY <5>1
      <4>2. Newest(samples).at \in Nat
        BY <1>1, <4>1, NewestIsLast
      <4>3. QED
        BY <1>1, <2>2, <4>2 DEF Behind
    <3>2. Minus(kept, LossTo(samples, clip, opens)) = RestoredSums(samples, opens)
      BY <1>1, <3>1, ForwardSums
    <3>3. SumsAt(at, opens) = Plus(RestoredSums(samples, opens), NewestSums(samples, opens, at))
      BY <2>2, <3>2 DEF SumsAt
    <3>4. Sums(samples, WalkHolds(samples, at, opens))
             = Plus(RestoredSums(samples, opens), NewestSums(samples, opens, at))
      BY <1>1, <3>1, WalkIsClosed
    <3>5. QED
      BY <1>2, <3>3, <3>4
  <2>3. QED
    BY <2>1, <2>2
<1>4. QED
  BY <1>2, <1>3 DEF opens

LEMMA SoundAnswers == WindowSound => KeptSumsAreTheWalk
BY SumsAtIsWalk DEF KeptSumsAreTheWalk

LEMMA SoundAverages ==
    ASSUME WindowSound, ~woundBack, NEW at \in latest..MaxTime
    PROVE  ReferenceCents(at) = Average(timeline, Opening(at), at)
<1> DEFINE opens == Opening(at)
<1>1. /\ SamplesFit(samples) /\ latest \in Times /\ clip \in Times
      /\ clip = Opening(latest) /\ Tells(samples, timeline, clip)
      /\ \A t \in Times : timeline[t] \in Mids \cup {None}
  BY DEF WindowSound
<1>2. /\ at \in Times /\ at \in Nat /\ at <= MaxTime + 1 /\ latest \in Nat /\ latest <= at
      /\ clip \in Int
  <2>1. latest \in Nat /\ clip \in Int
    BY <1>1, TimesAre
  <2>2. QED
    BY <2>1, MaxTimeAssumption DEF Times
<1>3. opens \in Nat /\ opens \in Int /\ opens <= at /\ clip <= opens
  BY <1>1, <1>2, OpeningIs, OpeningGrows
<1> HIDE DEF opens
<1>4. Tells(samples, timeline, opens)
  BY <1>1, <1>2, <1>3, LaterOpening
<1>5. ReferenceCents(at) = Quotient(SumsAt(at, opens))
  BY DEF ReferenceCents, opens
<1>6. CASE samples = <<>>
  <2>1. SumsAt(at, opens) = NoSums
    BY <1>6 DEF SumsAt
  <2>2. Quotient(NoSums) = None
    BY DEF Quotient, NoSums
  <2>3. Priced(timeline, opens, at) = {}
    <3>1. ASSUME NEW t \in Priced(timeline, opens, at) PROVE FALSE
      <4>1. t \in opens..(at - 1) /\ timeline[t] # None
        BY DEF Priced
      <4>2. t \in Times /\ t >= opens
        BY <1>2, <1>3, <4>1, MaxTimeAssumption DEF Times
      <4>3. QED
        BY <1>4, <1>6, <4>1, <4>2 DEF Tells
    <3>2. QED
      BY <3>1
  <2>4. QED
    BY <1>5, <2>1, <2>2, <2>3 DEF Average, opens
<1>7. CASE samples # <<>>
  <2>1. SumsAt(at, opens) = Sums(samples, WalkHolds(samples, at, opens))
    BY <1>2, <1>7, SumsAtIsWalk DEF opens
  <2>2. Quotient(Sums(samples, WalkHolds(samples, at, opens))) = Average(timeline, opens, at)
    BY <1>1, <1>2, <1>3, <1>4, WalkIsAverage
  <2>3. QED
    BY <1>5, <2>1, <2>2 DEF opens
<1>8. QED
  BY <1>6, <1>7

LEMMA SoundIsExact == WindowSound => WindowAnswersExactly
<1> SUFFICES ASSUME WindowSound PROVE WindowAnswersExactly
  OBVIOUS
<1>1. KeptSumsAreTheWalk /\ WindowRestores
  BY SoundAnswers, SoundRestores
<1>2. ReferenceIsTheAverage
  BY SoundAverages DEF ReferenceIsTheAverage, Average, Priced
<1>3. QED
  BY <1>1, <1>2 DEF WindowAnswersExactly

\* The sums kept over samples dropped, replaced, repeated and read back are those
\* of a walk over them, that walk is the average of what held in the window, and
\* what is left can always be restored.
THEOREM WindowIsExact == Spec => []WindowAnswersExactly
<1>1. Init => WindowSound
  BY WindowStarts
<1>2. WindowSound /\ [Next]_vars => WindowSound'
  BY WindowStays
<1>3. WindowSound => WindowAnswersExactly
  BY SoundIsExact
<1>4. QED
  BY <1>1, <1>2, <1>3, PTL DEF Spec

-----------------------------------------------------------------------------
(* The checker's history: the same samples under other names. *)

AsSamples(h) == [i \in 1..Len(h) |-> [at |-> h[i].when, mid |-> h[i].mid]]

Shown == [when : Nat, mid : Mids \cup {None}]

HistorySound ==
    /\ held \in Seq(Shown) /\ SamplesFit(AsSamples(held))
    /\ held # <<>> => held[Len(held)].when = latest
    /\ held = <<>> => latest = 0
    /\ Tells(AsSamples(held), timeline, Opening(latest))

BothSound == WindowSound /\ HistorySound

LEMMA AsSamplesAre ==
    ASSUME NEW h \in Seq(Shown)
    PROVE  /\ Len(h) \in Nat /\ AsSamples(h) \in Seq(Sample) /\ Len(AsSamples(h)) = Len(h)
           /\ \A i \in 1..Len(h) : /\ h[i] \in Shown /\ h[i].when \in Nat
                                   /\ h[i] = [when |-> h[i].when, mid |-> h[i].mid]
                                   /\ AsSamples(h)[i] = [at |-> h[i].when, mid |-> h[i].mid]
           /\ AsSamples(h) = <<>> <=> h = <<>>
<1>1. Len(h) \in Nat /\ \A i \in 1..Len(h) : h[i] \in Shown
  OBVIOUS
<1>2. \A i \in 1..Len(h) : /\ h[i].when \in Nat
                           /\ h[i] = [when |-> h[i].when, mid |-> h[i].mid]
                           /\ [at |-> h[i].when, mid |-> h[i].mid] \in Sample
  BY <1>1 DEF Shown, Sample
<1>3. AsSamples(h) \in Seq(Sample) /\ Len(AsSamples(h)) = Len(h)
      /\ \A i \in 1..Len(h) : AsSamples(h)[i] = [at |-> h[i].when, mid |-> h[i].mid]
  <2> DEFINE x(i) == [at |-> h[i].when, mid |-> h[i].mid]
             n == Len(h)
             s == AsSamples(h)
  <2>1. s = [i \in 1..n |-> x(i)] /\ n \in Nat /\ \A i \in 1..n : x(i) \in Sample
    BY <1>1, <1>2 DEF AsSamples
  <2> HIDE DEF s, n, x
  <2>2. s \in [1..n -> Sample] /\ DOMAIN s = 1..n /\ \A i \in 1..n : s[i] = x(i)
    BY <2>1
  <2>3. s \in Seq(Sample)
    BY <2>1, <2>2, SeqDef
  <2>4. Len(s) = n
    BY <2>1, <2>2, <2>3
  <2>5. QED
    BY <2>2, <2>3, <2>4 DEF s, n, x
<1>4. AsSamples(h) = <<>> <=> h = <<>>
  BY <1>3
<1>5. QED
  BY <1>1, <1>2, <1>3, <1>4

LEMMA SampleOfEntry ==
    ASSUME NEW h \in Seq(Shown), NEW i \in 1..Len(h)
    PROVE  AsSamples(h)[i].at = h[i].when /\ AsSamples(h)[i].mid = h[i].mid
<1>1. AsSamples(h)[i] = [at |-> h[i].when, mid |-> h[i].mid]
  BY AsSamplesAre
<1>2. QED
  BY <1>1

\* Sequences of samples are equal when their samples are.
LEMMA SameSamples ==
    ASSUME NEW s \in Seq(Sample), NEW u \in Seq(Sample), Len(s) = Len(u),
           \A i \in 1..Len(s) : s[i] = u[i]
    PROVE  s = u
BY DEF Sample

LEMMA AppendAsSamples ==
    ASSUME NEW h \in Seq(Shown), NEW l \in Nat, NEW mid \in Mids \cup {None}
    PROVE  /\ Append(h, Entry(l, mid)) \in Seq(Shown)
           /\ AsSamples(Append(h, Entry(l, mid))) = Append(AsSamples(h), [at |-> l, mid |-> mid])
<1> DEFINE e == [when |-> l, mid |-> mid]
           x == [at |-> l, mid |-> mid]
           g == Append(h, e)
           s == AsSamples(h)
<1>1. e \in Shown /\ x \in Sample /\ Entry(l, mid) = e /\ x = [at |-> e.when, mid |-> e.mid]
  BY DEF Shown, Sample, Entry
<1> HIDE DEF e, x
<1>2. g \in Seq(Shown) /\ Len(g) = Len(h) + 1 /\ g[Len(h) + 1] = e
      /\ \A i \in 1..Len(h) : g[i] = h[i]
  BY <1>1
<1>3. /\ s \in Seq(Sample) /\ Len(s) = Len(h) /\ Len(h) \in Nat
      /\ \A i \in 1..Len(h) : s[i] = [at |-> h[i].when, mid |-> h[i].mid]
  BY AsSamplesAre
<1> HIDE DEF g
<1>4. /\ AsSamples(g) \in Seq(Sample) /\ Len(AsSamples(g)) = Len(h) + 1
      /\ \A i \in 1..(Len(h) + 1) : AsSamples(g)[i] = [at |-> g[i].when, mid |-> g[i].mid]
  BY <1>2, AsSamplesAre
<1> HIDE DEF s
<1>5. /\ Append(s, x) \in Seq(Sample) /\ Len(Append(s, x)) = Len(h) + 1
      /\ Append(s, x)[Len(h) + 1] = x
      /\ \A i \in 1..Len(h) : Append(s, x)[i] = s[i]
  BY <1>1, <1>3
<1>6. ASSUME NEW i \in 1..(Len(h) + 1) PROVE AsSamples(g)[i] = Append(s, x)[i]
  <2>1. CASE i = Len(h) + 1
    BY <1>1, <1>2, <1>4, <1>5, <2>1
  <2>2. CASE i # Len(h) + 1
    <3>1. i \in 1..Len(h)
      BY <1>3, <2>2
    <3>2. QED
      BY <1>2, <1>3, <1>4, <1>5, <3>1
  <2>3. QED
    BY <2>1, <2>2
<1>7. AsSamples(g) = Append(s, x)
  BY <1>4, <1>5, <1>6, SameSamples
<1>8. QED
  BY <1>1, <1>2, <1>7 DEF g, s, x

LEMMA ReplaceAsSamples ==
    ASSUME NEW h \in Seq(Shown), h # <<>>, NEW mid \in Mids \cup {None}
    PROVE  /\ [h EXCEPT ![Len(h)].mid = mid] \in Seq(Shown)
           /\ AsSamples([h EXCEPT ![Len(h)].mid = mid])
                = [AsSamples(h) EXCEPT ![Len(AsSamples(h))].mid = mid]
<1> DEFINE n == Len(h)
           s == AsSamples(h)
           g == [h EXCEPT ![n].mid = mid]
           u == [s EXCEPT ![n].mid = mid]
           e == [when |-> h[n].when, mid |-> mid]
           x == [at |-> s[n].at, mid |-> mid]
<1>1. /\ s \in Seq(Sample) /\ Len(s) = n /\ n \in Nat /\ n \in 1..n
      /\ \A i \in 1..n : /\ s[i] = [at |-> h[i].when, mid |-> h[i].mid] /\ h[i] \in Shown
                         /\ h[i] = [when |-> h[i].when, mid |-> h[i].mid] /\ h[i].when \in Nat
  <2>1. n \in 1..n
    OBVIOUS
  <2>2. QED
    BY <2>1, AsSamplesAre
<1>2. [h[n] EXCEPT !.mid = mid] = e /\ [s[n] EXCEPT !.mid = mid] = x /\ s[n].at = h[n].when
  <2>1. h[n] = [when |-> h[n].when, mid |-> h[n].mid] /\ s[n] = [at |-> h[n].when, mid |-> h[n].mid]
    BY <1>1
  <2> HIDE DEF s, n
  <2>2. QED
    BY <2>1
<1>3. g = [h EXCEPT ![n] = [h[n] EXCEPT !.mid = mid]] /\ u = [s EXCEPT ![n] = [s[n] EXCEPT !.mid = mid]]
  OBVIOUS
<1>4. g = [h EXCEPT ![n] = e] /\ u = [s EXCEPT ![n] = x]
  BY <1>2, <1>3
<1>5. e \in Shown /\ x \in Sample /\ x = [at |-> e.when, mid |-> e.mid]
  <2>1. h[n].when \in Nat /\ s[n].at = h[n].when
    BY <1>1, <1>2
  <2> HIDE DEF s, n
  <2>2. QED
    BY <2>1 DEF Shown, Sample
<1> HIDE DEF n, s, g, u, e, x
<1>6. /\ g \in Seq(Shown) /\ Len(g) = n /\ g[n] = e /\ \A i \in 1..n : i # n => g[i] = h[i]
      /\ u \in Seq(Sample) /\ Len(u) = n /\ u[n] = x /\ \A i \in 1..n : i # n => u[i] = s[i]
  <2>1. Len(h) = n
    BY DEF n
  <2>2. QED
    BY <1>1, <1>4, <1>5, <2>1
<1>7. /\ AsSamples(g) \in Seq(Sample) /\ Len(AsSamples(g)) = n
      /\ \A i \in 1..n : AsSamples(g)[i] = [at |-> g[i].when, mid |-> g[i].mid]
  BY <1>6, AsSamplesAre
<1>8. ASSUME NEW i \in 1..n PROVE AsSamples(g)[i] = u[i]
  <2>1. CASE i = n
    BY <1>5, <1>6, <1>7, <2>1
  <2>2. CASE i # n
    BY <1>1, <1>6, <1>7, <2>2
  <2>3. QED
    BY <2>1, <2>2
<1>9. AsSamples(g) = u
  BY <1>6, <1>7, <1>8, SameSamples
<1>10. g = [h EXCEPT ![Len(h)].mid = mid] /\ u = [AsSamples(h) EXCEPT ![Len(AsSamples(h))].mid = mid]
  <2>1. Len(s) = n
    BY <1>1
  <2>2. QED
    BY <2>1 DEF g, u, s, n
<1>11. QED
  BY <1>6, <1>9, <1>10

LEMMA WithoutAsSamples ==
    ASSUME NEW h \in Seq(Shown), NEW opens \in Int
    PROVE  /\ WithoutExpired(h, opens) \in Seq(Shown)
           /\ AsSamples(WithoutExpired(h, opens)) = Reachable(AsSamples(h), opens)
<1> DEFINE n == Len(h)
           s == AsSamples(h)
           S == {i \in 1..(n - 1) : h[i + 1].when <= opens}
           T == {i \in Closed(s) : s[i + 1].at <= opens}
           g == Cardinality(S)
<1>1. /\ s \in Seq(Sample) /\ Len(s) = n /\ n \in Nat
      /\ \A i \in 1..n : s[i] = [at |-> h[i].when, mid |-> h[i].mid] /\ s[i].at = h[i].when
  BY AsSamplesAre, SampleOfEntry
<1>2. S = T
  <2>1. Closed(s) = 1..(n - 1)
    BY <1>1 DEF Closed
  <2>2. \A i \in 1..(n - 1) : i + 1 \in 1..n
    BY <1>1
  <2>3. \A i \in 1..(n - 1) : s[i + 1].at = h[i + 1].when
    BY <1>1, <2>2
  <2> HIDE DEF s, n
  <2>4. QED
    BY <2>1, <2>3
<1>3. g \in Nat
  <2>1. IsFiniteSet(1..(n - 1))
    BY <1>1, FS_Interval
  <2>2. QED
    BY <2>1, FS_Subset, FS_CardinalityType
<1>4. WithoutExpired(h, opens) = SubSeq(h, g + 1, n)
  BY DEF WithoutExpired
<1>5. Reachable(s, opens) = SubSeq(s, g + 1, n)
  BY <1>1, <1>2 DEF Reachable
<1> DEFINE a == SubSeq(h, g + 1, n)
           b == SubSeq(s, g + 1, n)
           m == IF g < n THEN n - g ELSE 0
<1> HIDE DEF g, s
<1>6. /\ a \in Seq(Shown) /\ Len(a) = m /\ \A i \in 1..m : a[i] = h[i + g]
  BY <1>1, <1>3
<1>7. /\ b \in Seq(Sample) /\ Len(b) = m /\ \A i \in 1..m : b[i] = s[i + g]
  BY <1>1, <1>3
<1>8. \A i \in 1..m : i + g \in 1..n
  BY <1>1, <1>3
<1> HIDE DEF a, b, m, n
<1>9. /\ AsSamples(a) \in Seq(Sample) /\ Len(AsSamples(a)) = m
      /\ \A i \in 1..m : AsSamples(a)[i] = [at |-> a[i].when, mid |-> a[i].mid]
  BY <1>6, AsSamplesAre
<1>10. \A i \in 1..m : AsSamples(a)[i] = b[i]
  BY <1>1, <1>6, <1>7, <1>8, <1>9
<1>11. AsSamples(a) = b
  BY <1>7, <1>9, <1>10, SameSamples
<1>12. QED
  BY <1>4, <1>5, <1>6, <1>11 DEF a, b, s

\* The mid the history took, before it drops what has expired.
TakesAs(h, u, l, mid) ==
    /\ u \in Seq(Shown) /\ SamplesFit(AsSamples(u)) /\ AsSamples(u) # <<>>
    /\ Newest(AsSamples(u)) = [at |-> l, mid |-> mid]
    /\ TellsSame(AsSamples(h), AsSamples(u), l)

LEMMA TakenAsSamples ==
    ASSUME NEW h \in Seq(Shown), SamplesFit(AsSamples(h)), NEW l \in Nat, NEW mid \in Mids \cup {None},
           h # <<>> => h[Len(h)].when <= l
    PROVE  TakesAs(h, IF h # <<>> /\ h[Len(h)].when = l THEN [h EXCEPT ![Len(h)].mid = mid]
                      ELSE Append(h, Entry(l, mid)), l, mid)
<1> DEFINE s == AsSamples(h)
           x == [at |-> l, mid |-> mid]
<1>1. h # <<>> => s # <<>> /\ Newest(s).at = h[Len(h)].when /\ h[Len(h)].when \in Nat
  <2>1. SUFFICES ASSUME h # <<>> PROVE s # <<>> /\ Newest(s).at = h[Len(h)].when /\ h[Len(h)].when \in Nat
    OBVIOUS
  <2>2. Len(h) \in 1..Len(h) /\ Len(s) = Len(h) /\ s # <<>>
    <3>1. Len(s) = Len(h) /\ s # <<>>
      BY <2>1, AsSamplesAre
    <3>2. Len(h) \in 1..Len(h)
      BY <2>1
    <3>3. QED
      BY <3>1, <3>2
  <2>3. s[Len(h)].at = h[Len(h)].when /\ h[Len(h)].when \in Nat
    BY <2>2, SampleOfEntry, AsSamplesAre
  <2>4. QED
    BY <2>2, <2>3 DEF Newest
<1>2. h = <<>> => s = <<>>
  BY AsSamplesAre
<1> HIDE DEF s
<1>3. CASE h # <<>> /\ h[Len(h)].when = l
  <2> DEFINE g == [h EXCEPT ![Len(h)].mid = mid]
             u == [s EXCEPT ![Len(s)].mid = mid]
  <2>1. g \in Seq(Shown) /\ AsSamples(g) = u
    BY <1>3, ReplaceAsSamples DEF s
  <2>2. Corrected(s, mid, u)
    BY <1>1, <1>3, ReplaceSums DEF s
  <2>3. TellsSame(s, u, Newest(s).at)
    <3> HIDE DEF u
    <3>1. QED
      BY <1>1, <1>3, <2>2, ReplaceTells DEF s
  <2> HIDE DEF g, u
  <2>4. SamplesFit(u) /\ u # <<>> /\ Newest(u) = [at |-> l, mid |-> mid]
    BY <1>1, <1>3, <2>2 DEF Corrected
  <2>5. TakesAs(h, g, l, mid)
    BY <1>1, <1>3, <2>1, <2>3, <2>4 DEF TakesAs, s
  <2>6. QED
    BY <1>3, <2>5 DEF g
<1>4. CASE ~(h # <<>> /\ h[Len(h)].when = l)
  <2> DEFINE g == Append(h, Entry(l, mid))
             u == Append(s, x)
  <2>1. g \in Seq(Shown) /\ AsSamples(g) = u
    BY AppendAsSamples DEF s
  <2>2. x \in Sample /\ x.at = l
    BY DEF Sample
  <2>3. s # <<>> => Newest(s).at < l
    BY <1>1, <1>2, <1>4
  <2> HIDE DEF x
  <2>4. SamplesFit(s) /\ (s # <<>> => Newest(s).at < x.at)
    BY <2>2, <2>3 DEF s
  <2>5. Grown(s, x, u) /\ TellsSame(s, u, x.at)
    BY <2>2, <2>4, AppendFits, PushTells
  <2> HIDE DEF g, u
  <2>6. SamplesFit(u) /\ u # <<>> /\ Newest(u) = x
    BY <2>5 DEF Grown
  <2>7. TakesAs(h, g, l, mid)
    BY <2>1, <2>2, <2>5, <2>6 DEF TakesAs, s, x
  <2>8. QED
    BY <1>4, <2>7 DEF g
<1>5. QED
  BY <1>3, <1>4

LEMMA HistoryStays ==
    ASSUME BothSound, NEW at \in Times, NEW read \in Nat, NEW mid \in Mids \cup {None},
           Record(at, read, mid), Shows(at, mid)
    PROVE  HistorySound'
<1>1. /\ latest \in Times /\ \A t \in Times : timeline[t] \in Mids \cup {None}
      /\ held \in Seq(Shown) /\ SamplesFit(AsSamples(held))
      /\ held # <<>> => held[Len(held)].when = latest
      /\ held = <<>> => latest = 0
      /\ Tells(AsSamples(held), timeline, Opening(latest))
  BY DEF BothSound, WindowSound, HistorySound
<1>2. latest \in Nat /\ at \in Nat
  BY <1>1, TimesAre
<1>3. /\ latest' = Later(latest, at) /\ latest' \in Times
      /\ Retold(timeline, timeline', Opening(latest'), latest', mid)
  BY <1>1, RecordTells
<1> DEFINE l == latest'
           opens == Opening(l)
           u == IF held # <<>> /\ held[Len(held)].when = l THEN [held EXCEPT ![Len(held)].mid = mid]
                ELSE Append(held, Entry(l, mid))
<1>4. l \in Nat /\ latest <= l /\ opens \in Nat /\ Opening(latest) \in Nat /\ Opening(latest) <= opens
  <2>1. l \in Nat /\ latest <= l
    BY <1>2, <1>3 DEF Later
  <2> HIDE DEF l
  <2>2. QED
    BY <1>2, <2>1, OpeningIs, OpeningGrows
<1>5. (IF held = <<>> THEN at ELSE Max({at, held[Len(held)].when})) = l
  <2>1. CASE held = <<>>
    BY <1>1, <1>2, <1>3, <2>1 DEF Later
  <2>2. CASE held # <<>>
    <3>1. held[Len(held)].when = latest
      BY <1>1, <2>2
    <3>2. Max({at, latest}) = Later(at, latest)
      BY <1>2, MaxIsLater
    <3>3. Later(at, latest) = Later(latest, at)
      BY <1>2 DEF Later
    <3>4. QED
      BY <1>3, <2>2, <3>1, <3>2, <3>3
  <2>3. QED
    BY <2>1, <2>2
<1>6. held' = WithoutExpired(u, opens)
  <2>1. held' = Showed(held, WindowMs, at, mid)
    BY DEF Shows
  <2>2. opens = Max({l - WindowMs, 0})
    BY DEF Opening
  <2>3. QED
    BY <1>5, <2>1, <2>2 DEF Showed
<1>7. TakesAs(held, u, l, mid)
  <2>1. held # <<>> => held[Len(held)].when <= l
    BY <1>1, <1>4
  <2> HIDE DEF l
  <2>2. QED
    BY <1>1, <1>4, <2>1, TakenAsSamples
<1> DEFINE s == AsSamples(u)
<1> HIDE DEF u, opens
<1>8. /\ u \in Seq(Shown) /\ SamplesFit(s) /\ s # <<>>
      /\ Newest(s) = [at |-> l, mid |-> mid]
      /\ TellsSame(AsSamples(held), s, l)
  BY <1>7 DEF TakesAs
<1>9. held' \in Seq(Shown) /\ AsSamples(held') = Reachable(s, opens)
  BY <1>4, <1>6, <1>8, WithoutAsSamples
<1> HIDE DEF s, l
<1>10. Tells(s, timeline', opens)
  <2>1. Newest(s).at <= l /\ Newest(s).mid = mid
    BY <1>4, <1>8
  <2>2. Retold(timeline, timeline', opens, l, Newest(s).mid)
    BY <1>3, <2>1 DEF opens, l
  <2>3. opens \in Int /\ Opening(latest) \in Int /\ l \in Int
    BY <1>4
  <2>4. QED
    BY <1>1, <1>4, <1>8, <2>1, <2>2, <2>3, TellsNext
<1>11. Tells(AsSamples(held'), timeline', opens)
  BY <1>4, <1>8, <1>9, <1>10, ReachableTells
<1>12. SamplesFit(AsSamples(held')) /\ AsSamples(held') # <<>> /\ Newest(AsSamples(held')) = Newest(s)
  BY <1>4, <1>8, <1>9, ReachableFits
<1>13. held' # <<>> /\ held'[Len(held')].when = l
  <2> DEFINE h == held'
  <2> HIDE DEF h
  <2>0. h \in Seq(Shown) /\ AsSamples(h) # <<>> /\ Newest(AsSamples(h)).at = l
    BY <1>8, <1>9, <1>12 DEF h
  <2>1. h # <<>> /\ Len(AsSamples(h)) = Len(h)
    BY <2>0, AsSamplesAre
  <2>2. Len(h) \in 1..Len(h)
    BY <2>0, <2>1
  <2>3. AsSamples(h)[Len(h)].at = h[Len(h)].when
    BY <2>0, <2>2, SampleOfEntry
  <2>4. h # <<>> /\ h[Len(h)].when = l
    BY <2>0, <2>1, <2>3 DEF Newest
  <2>5. QED
    BY <2>4 DEF h
<1>14. QED
  BY <1>9, <1>11, <1>12, <1>13 DEF HistorySound, l, opens

LEMMA HistoryStarts == InitBoth => BothSound
<1> SUFFICES ASSUME InitBoth PROVE BothSound
  OBVIOUS
<1>1. WindowSound
  BY WindowStarts DEF InitBoth
<1>2. held = <<>> /\ latest = 0 /\ timeline = [t \in Times |-> None]
  BY DEF InitBoth, Init
<1>3. held \in Seq(Shown) /\ AsSamples(held) = <<>>
  <2>1. held \in Seq(Shown)
    BY <1>2
  <2>2. QED
    BY <1>2, <2>1, AsSamplesAre
<1>4. SamplesFit(AsSamples(held))
  BY <1>3 DEF SamplesFit, Closed
<1>5. Tells(AsSamples(held), timeline, Opening(latest))
  BY <1>2, <1>3 DEF Tells
<1>6. QED
  BY <1>1, <1>2, <1>3, <1>4, <1>5 DEF BothSound, HistorySound

\* Each step of both is one of the engine's, and the history follows it.
LEMMA EachStepIsTheEngines ==
    ASSUME [NextBoth]_bothVars
    PROVE  [Next]_vars
BY DEF NextBoth, bothVars, Next, Observe

LEMMA BothStay ==
    ASSUME BothSound, [NextBoth]_bothVars
    PROVE  BothSound'
<1>1. WindowSound'
  BY EachStepIsTheEngines, WindowStays DEF BothSound
<1>2. HistorySound'
  <2>1. CASE UNCHANGED <<held, timeline, latest>>
    BY <2>1 DEF BothSound, HistorySound, Tells, Covers
  <2>2. CASE UNCHANGED bothVars
    BY <2>1, <2>2 DEF bothVars, vars
  <2>3. CASE Restart /\ UNCHANGED held
    BY <2>1, <2>3 DEF Restart
  <2>4. ASSUME NEW at \in Times, NEW mid \in Mids \cup {None}, Shows(at, mid),
               Replace(at, mid) \/ Repeat(at, mid) \/ Push(at, mid)
        PROVE  HistorySound'
    <3>1. CASE Replace(at, mid)
      <4>1. samples # <<>> /\ Record(at, Newest(samples).at, mid)
        BY <3>1 DEF Replace
      <4>2. SamplesFit(samples)
        BY DEF BothSound, WindowSound
      <4>3. Len(samples) \in 1..Len(samples)
        <5>1. Len(samples) \in Nat /\ Len(samples) # 0
          BY <4>1, <4>2, EmptySeq, SamplesTyped DEF SamplesFit
        <5>2. QED
          BY <5>1
      <4>4. Newest(samples).at \in Nat
        BY <4>2, <4>3, NewestIsLast
      <4>5. QED
        BY <2>4, <4>1, <4>4, HistoryStays
    <3>2. CASE Repeat(at, mid) \/ Push(at, mid)
      <4>1. Record(at, at, mid) /\ at \in Nat
        BY <3>2, TimesAre DEF Repeat, Push
      <4>2. QED
        BY <2>4, <4>1, HistoryStays
    <3>3. QED
      BY <2>4, <3>1, <3>2
  <2>5. QED
    BY <2>2, <2>3, <2>4 DEF NextBoth
<1>3. QED
  BY <1>1, <1>2 DEF BothSound

\* How long the checker counts entry i for, which may be less than nothing.
Counts(h, opens, at, i) ==
    Min({IF i < Len(h) THEN h[i + 1].when ELSE at, at}) - Max({h[i].when, opens})

Counted(h, opens, at) == {i \in DOMAIN h : h[i].mid # None /\ Counts(h, opens, at, i) > 0}

LEMMA CountsAreHolds ==
    ASSUME NEW h \in Seq(Shown), SamplesFit(AsSamples(h)), NEW at \in Nat, NEW opens \in Nat,
           NEW i \in 1..Len(h)
    PROVE  /\ Counts(h, opens, at, i) \in Int
           /\ WalkHolds(AsSamples(h), at, opens)[i]
                = IF Counts(h, opens, at, i) > 0 THEN Counts(h, opens, at, i) ELSE 0
<1> DEFINE s == AsSamples(h)
           a == s[i].at
           b == WalkUntil(s, at, i)
<1>1. Len(s) = Len(h) /\ Len(h) \in Nat /\ i \in 1..Len(s) /\ s[i].at = h[i].when
  BY AsSamplesAre, SampleOfEntry
<1>2. a \in Int /\ b \in Int /\ WalkHolds(s, at, opens)[i] = Span(Later(a, opens), b)
  BY <1>1, SamplesTyped, WalkHoldsFit
<1>3. Min({IF i < Len(h) THEN h[i + 1].when ELSE at, at}) = b
  <2>1. CASE i < Len(h)
    <3>1. i + 1 \in 1..Len(h)
      BY <1>1, <2>1
    <3>2. s[i + 1].at = h[i + 1].when /\ h[i + 1].when \in Int
      <4>1. s[i + 1].at = h[i + 1].when
        BY <3>1, SampleOfEntry
      <4>2. h[i + 1].when \in Nat
        BY <3>1, AsSamplesAre
      <4>3. QED
        BY <4>1, <4>2
    <3>3. Min({h[i + 1].when, at}) = Sooner(h[i + 1].when, at)
      BY <3>2, MinIsSooner
    <3>4. QED
      BY <1>1, <2>1, <3>2, <3>3 DEF WalkUntil
  <2>2. CASE ~(i < Len(h))
    <3>1. Min({at, at}) = at
      <4>1. Min({at, at}) = Sooner(at, at)
        BY MinIsSooner
      <4>2. QED
        BY <4>1 DEF Sooner
    <3>2. QED
      BY <1>1, <2>2, <3>1 DEF WalkUntil
  <2>3. QED
    BY <2>1, <2>2
<1>4. Max({h[i].when, opens}) = Later(a, opens)
  BY <1>1, <1>2, MaxIsLater
<1> HIDE DEF a, b
<1>5. Counts(h, opens, at, i) = b - Later(a, opens) /\ Later(a, opens) \in Int
  BY <1>2, <1>3, <1>4 DEF Counts, Later
<1>6. QED
  BY <1>2, <1>5 DEF Span, s

LEMMA CheckersPriceIs ==
    ASSUME NEW h \in Seq(Shown), SamplesFit(AsSamples(h)), NEW at \in Nat
    PROVE  CheckersCents(h, WindowMs, at, None)
              = Quotient(Sums(AsSamples(h), WalkHolds(AsSamples(h), at, Opening(at))))
<1> DEFINE opens == Opening(at)
           s == AsSamples(h)
           I == 1..Len(h)
           C == Counted(h, opens, at)
           ms(i) == Counts(h, opens, at, i)
           cents == [i \in C |-> h[i].mid * ms(i)]
           times == [i \in C |-> ms(i)]
           walk == WalkHolds(s, at, opens)
           fun(kind) == [i \in I |-> Worth(s, kind)[i] * walk[i]]
<1>1. opens \in Nat
  BY OpeningIs
<1>2. CheckersCents(h, WindowMs, at, None)
        = IF C = {} THEN None ELSE SumFunction(cents) \div SumFunction(times)
  BY DEF CheckersCents, Counted, Counts, Opening
<1>3. DOMAIN h = I /\ IsFiniteSet(I) /\ Len(s) = Len(h)
      /\ \A i \in I : h[i].mid = s[i].mid /\ h[i].mid \in Mids \cup {None}
  <2>1. \A i \in I : h[i].mid = s[i].mid /\ h[i] \in Shown
    BY AsSamplesAre, SampleOfEntry
  <2>2. Len(s) = Len(h) /\ Len(h) \in Nat
    BY AsSamplesAre
  <2>3. \A i \in I : h[i].mid \in Mids \cup {None}
    BY <2>1 DEF Shown
  <2>4. QED
    BY <2>1, <2>2, <2>3, FS_Interval
<1> HIDE DEF opens
<1>4. C \in SUBSET I /\ IsFiniteSet(C) /\ \A i : i \in C <=> i \in I /\ h[i].mid # None /\ ms(i) > 0
  <2>1. \A i : i \in C <=> i \in I /\ h[i].mid # None /\ ms(i) > 0
    BY <1>3 DEF Counted
  <2> HIDE DEF C, I
  <2>2. C \in SUBSET I
    BY <2>1
  <2>3. QED
    BY <1>3, <2>1, <2>2, FS_Subset
<1>5. \A i \in I : ms(i) \in Int /\ walk[i] = IF ms(i) > 0 THEN ms(i) ELSE 0
  BY <1>1, CountsAreHolds
<1>6. DOMAIN walk = I /\ HoldsOf(s, walk)
  BY <1>1, <1>3, WalkHoldsFit
<1> HIDE DEF walk, C, ms
<1>7. \A kind : \A i \in I : Worth(s, kind)[i] \in Int /\ walk[i] \in Int
  BY <1>3, <1>5, WorthFits
<1>8. ASSUME NEW i \in C
      PROVE  /\ cents[i] = fun("cents")[i] /\ times[i] = fun("ms")[i]
             /\ times[i] \in Nat \ {0}
  <2>1. i \in I /\ h[i].mid # None /\ ms(i) > 0 /\ s[i].mid = h[i].mid /\ ms(i) \in Int
        /\ walk[i] = ms(i)
    BY <1>3, <1>4, <1>5
  <2>2. Worth(s, "cents")[i] = h[i].mid /\ Worth(s, "ms")[i] = 1
    BY <1>3, <2>1 DEF Worth
  <2>3. QED
    BY <2>1, <2>2
<1>9. ASSUME NEW kind, NEW i \in I \ C PROVE fun(kind)[i] = 0
  <2>1. h[i].mid = None \/ ~(ms(i) > 0)
    BY <1>4
  <2>2. CASE h[i].mid = None
    <3>1. Worth(s, kind)[i] = 0
      BY <1>3, <2>2 DEF Worth
    <3>2. QED
      BY <1>7, <3>1
  <2>3. CASE ~(ms(i) > 0)
    <3>1. walk[i] = 0
      BY <1>5, <2>3
    <3>2. QED
      BY <1>7, <3>1
  <2>4. QED
    BY <2>1, <2>2, <2>3
<1>10. ASSUME NEW kind, NEW i \in I PROVE fun(kind)[i] \in Int
  <2>1. Worth(s, kind)[i] \in Int /\ walk[i] \in Int
    BY <1>7
  <2>2. QED
    BY <2>1
<1>11. ASSUME NEW kind
       PROVE  SumFunctionOnSet(fun(kind), C) = Total(Worth(s, kind), walk)
  <2>1. Total(Worth(s, kind), walk) = SumFunctionOnSet(fun(kind), I)
    BY <1>6 DEF Total
  <2> HIDE DEF fun, I
  <2>2. SumFunctionOnSet(fun(kind), C) = SumFunctionOnSet(fun(kind), I)
    BY <1>3, <1>4, <1>9, <1>10, SumDropsNothing
  <2>3. QED
    BY <2>1, <2>2
<1>12. SumFunction(cents) = SumFunctionOnSet(cents, C) /\ SumFunction(times) = SumFunctionOnSet(times, C)
  <2>1. DOMAIN cents = C /\ DOMAIN times = C
    OBVIOUS
  <2> HIDE DEF cents, times
  <2>2. QED
    BY <2>1, SumFunctionIsSum
<1> HIDE DEF cents, times, fun, I
<1>13. /\ SumFunctionOnSet(cents, C) = SumFunctionOnSet(fun("cents"), C)
       /\ SumFunctionOnSet(times, C) = SumFunctionOnSet(fun("ms"), C)
  BY <1>4, <1>8, SumOfSame
<1>14. SumFunctionOnSet(times, C) \in Nat /\ \A i \in C : times[i] <= SumFunctionOnSet(times, C)
  <2>1. \A i \in C : times[i] \in Nat
    BY <1>8
  <2>2. QED
    BY <1>4, <2>1, SumBoundsEach
<1>15. Sums(s, walk) = [weighted |-> SumFunction(cents), weight |-> SumFunction(times)]
  <2>1. SamplesFit(s)
    OBVIOUS
  <2> HIDE DEF s
  <2>2. Sums(s, walk) = [weighted |-> Total(Worth(s, "cents"), walk),
                         weight |-> Total(Worth(s, "ms"), walk)]
    BY <1>6, <2>1, SumsAreTotals
  <2>3. QED
    BY <1>11, <1>12, <1>13, <2>2
<1>16. CASE C = {}
  <2>1. SumFunction(times) = 0
    BY <1>12, <1>16, SumOfNothing
  <2>2. Quotient(Sums(s, walk)) = None
    BY <1>15, <2>1 DEF Quotient
  <2>3. QED
    BY <1>2, <1>16, <2>2 DEF walk, opens
<1>17. CASE C # {}
  <2>1. PICK i \in C : TRUE
    BY <1>17
  <2>2. SumFunction(times) > 0
    BY <1>8, <1>12, <1>14, <2>1
  <2>3. Quotient(Sums(s, walk)) = SumFunction(cents) \div SumFunction(times)
    BY <1>15, <2>2 DEF Quotient
  <2>4. QED
    BY <1>2, <1>17, <2>3 DEF walk, opens
<1>18. QED
  BY <1>16, <1>17

LEMMA SoundReadsTheSame == BothSound => BothReadTheSamePrice
<1> SUFFICES ASSUME BothSound, ~woundBack, NEW at \in latest..MaxTime
             PROVE  ReferenceCents(at) = CheckersCents(held, WindowMs, at, None)
  BY DEF BothReadTheSamePrice
<1> DEFINE opens == Opening(at)
           s == AsSamples(held)
<1>1. /\ WindowSound /\ latest \in Times
      /\ held \in Seq(Shown) /\ SamplesFit(s) /\ Tells(s, timeline, Opening(latest))
      /\ \A t \in Times : timeline[t] \in Mids \cup {None}
  BY DEF BothSound, WindowSound, HistorySound
<1>2. at \in Nat /\ at <= MaxTime + 1 /\ latest \in Nat /\ latest <= at
  <2>1. latest \in Nat
    BY <1>1, TimesAre
  <2>2. QED
    BY <2>1, MaxTimeAssumption
<1>3. opens \in Nat /\ opens \in Int /\ opens <= at /\ Opening(latest) \in Int /\ Opening(latest) <= opens
  BY <1>2, OpeningIs, OpeningGrows
<1>4. ReferenceCents(at) = Average(timeline, opens, at)
  BY <1>1, SoundAverages
<1> HIDE DEF opens
<1>5. Tells(s, timeline, opens)
  BY <1>1, <1>3, LaterOpening
<1>6. Quotient(Sums(s, WalkHolds(s, at, opens))) = Average(timeline, opens, at)
  BY <1>1, <1>2, <1>3, <1>5, WalkIsAverage
<1>7. CheckersCents(held, WindowMs, at, None) = Quotient(Sums(s, WalkHolds(s, at, opens)))
  BY <1>1, <1>2, CheckersPriceIs DEF opens
<1>8. QED
  BY <1>4, <1>6, <1>7

LEMMA BothAreSound == SpecBoth => []BothSound
<1>1. InitBoth => BothSound
  BY HistoryStarts
<1>2. BothSound /\ [NextBoth]_bothVars => BothSound'
  BY BothStay
<1>3. QED
  BY <1>1, <1>2, PTL DEF SpecBoth

\* Whatever the checker hears of the same mids, what the engine answers stays exact.
THEOREM WindowIsExactBeside == SpecBoth => []WindowAnswersExactly
<1>1. BothSound => WindowAnswersExactly
  BY SoundIsExact DEF BothSound
<1>2. QED
  BY <1>1, BothAreSound, PTL

\* For the time of a message that advances, the engine's running sums and the
\* checker's walk over all it saw bound a market order by one price.
THEOREM SamePrice == SpecBoth => []BothReadTheSamePrice
<1>1. BothSound => BothReadTheSamePrice
  BY SoundReadsTheSame
<1>2. QED
  BY <1>1, BothAreSound, PTL
=============================================================================
