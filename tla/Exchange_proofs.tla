---------------------------- MODULE Exchange_proofs ----------------------------
(***************************************************************************)
(* What the exchange keeps, for any accounts, symbols, order forms and     *)
(* limits, however long the log: books, rows and trades, accounts and      *)
(* restarts, and the funds of its orders.                                  *)
(***************************************************************************)
EXTENDS ExchangeProperties, MarketTheorems, TLAPS

-----------------------------------------------------------------------------
(* Folds.  The folds of the community modules take their operator as a     *)
(* parameter; one operator with a name for each of the exchange's folds    *)
(* lets a lemma speak of all of them.                                      *)

\* One step of each fold the exchange makes.
Turn(kind, o, e, x) ==
    CASE kind = "execute" -> ExecuteNext(o, e)
      [] kind = "fok"     -> ExecutePlanned(o, e, x)
      [] kind = "stage"   -> StageFill(o, e, x)
      [] kind = "retain"  -> IF x.id = o THEN e ELSE Append(e, x)
      [] kind = "release" -> AfterRelease(e, x)
      [] kind = "replay"  -> Replay(e, x)
      [] kind = "sum"     -> e + x.qty

\* The index a fold takes off: the last one of a sequence, any one of a set.
Pick(kind, s) == IF kind = "release" THEN CHOOSE x \in s : TRUE ELSE Max(s)

TurnStep(g, kind, o, base, seq, s) ==
    IF s = {} THEN base ELSE Turn(kind, o, g[s \ {Pick(kind, s)}], seq[Pick(kind, s)])

Turned(g, kind, o, base, seq) ==
    g = [s \in SUBSET DOMAIN seq |-> TurnStep(g, kind, o, base, seq, s)]

\* The index picked is one of the set.
LEMMA PickIsOne ==
    ASSUME NEW S, IsFiniteSet(S), NEW kind, kind # "release" => S \subseteq Int,
           NEW s \in SUBSET S, s # {}
    PROVE  Pick(kind, s) \in s
<1>1. IsFiniteSet(s)
  BY FS_Subset
<1>2. CASE kind = "release"
  BY <1>2 DEF Pick
<1>3. CASE kind # "release"
  <2>1. s \subseteq Int
    BY <1>3
  <2>2. Max(s) \in s
    BY <1>1, <2>1, MaxOfFinite
  <2>3. QED
    BY <1>3, <2>2 DEF Pick
<1>4. QED
  BY <1>2, <1>3

\* The function a fold is defined by exists: one that satisfies its equation on
\* the sets of at most n indices is extended to those of n + 1.
LEMMA TurnsExist ==
    ASSUME NEW kind, NEW o, NEW base, NEW seq, IsFiniteSet(DOMAIN seq),
           kind # "release" => DOMAIN seq \subseteq Int
    PROVE  \E g : Turned(g, kind, o, base, seq)
<1> DEFINE S == DOMAIN seq
           Step(g, s) == TurnStep(g, kind, o, base, seq, s)
           Upto(m) == \E g : \A s \in SUBSET S : Cardinality(s) <= m => g[s] = Step(g, s)
           holding == {m \in Nat : Upto(m)}
<1>1. \A s \in SUBSET S : IsFiniteSet(s) /\ Cardinality(s) \in Nat
                          /\ Cardinality(s) <= Cardinality(S)
  BY FS_Subset, FS_CardinalityType
<1>2. \A s \in SUBSET S : s # {} =>
        LET x == Pick(kind, s)
        IN  x \in s /\ s \ {x} \in SUBSET S /\ Cardinality(s \ {x}) = Cardinality(s) - 1
  <2>1. \A s \in SUBSET S : s # {} => Pick(kind, s) \in s
    BY PickIsOne
  <2>2. QED
    BY <1>1, <2>1, FS_RemoveElement
<1>3. \A g, h : \A s \in SUBSET S :
        (s # {} => g[s \ {Pick(kind, s)}] = h[s \ {Pick(kind, s)}]) => Step(g, s) = Step(h, s)
  BY DEF TurnStep
<1> HIDE DEF Step
<1>4. Upto(0)
  <2> DEFINE g == [s \in SUBSET S |-> Step(<<>>, {})]
  <2>1. ASSUME NEW s \in SUBSET S, Cardinality(s) <= 0 PROVE g[s] = Step(g, s)
    <3>1. s = {}
      BY <1>1, <2>1, FS_EmptySet
    <3>2. Step(<<>>, {}) = Step(g, {})
      BY <1>3
    <3>3. QED
      BY <3>1, <3>2
  <2>2. QED
    BY <2>1
<1>5. ASSUME NEW m \in Nat, Upto(m) PROVE Upto(m + 1)
  <2>1. PICK g : \A s \in SUBSET S : Cardinality(s) <= m => g[s] = Step(g, s)
    BY <1>5
  <2> DEFINE h == [s \in SUBSET S |-> Step(g, s)]
  <2>2. ASSUME NEW s \in SUBSET S, Cardinality(s) <= m + 1 PROVE h[s] = Step(h, s)
    <3>1. ASSUME s # {} PROVE g[s \ {Pick(kind, s)}] = h[s \ {Pick(kind, s)}]
      <4> DEFINE t == s \ {Pick(kind, s)}
      <4>1. t \in SUBSET S /\ Cardinality(t) = Cardinality(s) - 1
        BY <1>2, <3>1
      <4>2. Cardinality(t) <= m
        BY <1>1, <2>2, <4>1
      <4> HIDE DEF t
      <4>3. h[t] = g[t]
        BY <2>1, <4>1, <4>2
      <4>4. QED
        BY <4>3 DEF t
    <3>2. h[s] = Step(g, s)
      OBVIOUS
    <3> HIDE DEF h
    <3>3. QED
      BY <1>3, <3>1, <3>2
  <2>3. QED
    BY <2>2
<1>6. \A m \in Nat : m \in holding
  <2> HIDE DEF Upto
  <2>1. 0 \in holding
    BY <1>4
  <2>2. \A m \in Nat : m \in holding => m + 1 \in holding
    BY <1>5
  <2>3. QED
    BY <2>1, <2>2, EveryNatural
<1>7. PICK g : \A s \in SUBSET S : Cardinality(s) <= Cardinality(S) => g[s] = Step(g, s)
  BY <1>6, FS_CardinalityType
<1>8. \A s \in SUBSET S : g[s] = Step(g, s)
  BY <1>1, <1>7
<1> DEFINE k == [s \in SUBSET S |-> g[s]]
<1>9. ASSUME NEW s \in SUBSET S PROVE k[s] = Step(k, s)
  <2>1. s # {} => g[s \ {Pick(kind, s)}] = k[s \ {Pick(kind, s)}]
    BY <1>2
  <2>2. k[s] = Step(g, s)
    BY <1>8
  <2> HIDE DEF k
  <2>3. QED
    BY <1>3, <2>1, <2>2
<1>10. k = [s \in SUBSET S |-> Step(k, s)]
  BY <1>9
<1>11. QED
  BY <1>10 DEF Turned, Step

\* The function's values on the prefixes 1..k of a sequence.
InOrder(g, kind, o, base, seq, n) ==
    /\ g[1..0] = base
    /\ \A k \in 1..n : g[1..k] = Turn(kind, o, g[1..(k - 1)], seq[k])

\* A fold over a sequence, turn by turn.
LEMMA TurnsInOrder ==
    ASSUME NEW kind, kind # "release", NEW o, NEW base, NEW seq, NEW n \in Nat,
           DOMAIN seq = 1..n, NEW g, Turned(g, kind, o, base, seq)
    PROVE  InOrder(g, kind, o, base, seq, n)
<1>1. 1..0 = {} /\ {} \in SUBSET DOMAIN seq
  OBVIOUS
<1>2. \A s \in SUBSET DOMAIN seq : g[s] = TurnStep(g, kind, o, base, seq, s)
  BY DEF Turned
<1>3. g[1..0] = base
  BY <1>1, <1>2 DEF TurnStep
<1>4. ASSUME NEW k \in 1..n PROVE g[1..k] = Turn(kind, o, g[1..(k - 1)], seq[k])
  <2> DEFINE s == 1..k
  <2>1. s # {} /\ k \in s /\ k \in Nat /\ s \subseteq Int
    OBVIOUS
  <2>0. s \subseteq 1..n
    OBVIOUS
  <2>2. Pick(kind, s) = k
    <3>1. 1 \in Int /\ k \in Int /\ IsFiniteSet(s)
      BY FS_Interval
    <3> HIDE DEF s
    <3>2. Max(s) \in s /\ \A y \in s : Max(s) >= y
      BY <2>1, <3>1, MaxOfFinite
    <3>3. Max(s) = k
      BY <2>1, <3>2 DEF s
    <3>4. QED
      BY <3>3 DEF Pick
  <2>3. s \ {k} = 1..(k - 1)
    OBVIOUS
  <2> HIDE DEF s
  <2>4. g[s] = Turn(kind, o, g[s \ {Pick(kind, s)}], seq[Pick(kind, s)])
    BY <1>2, <2>0, <2>1 DEF TurnStep
  <2>5. QED
    BY <2>2, <2>3, <2>4 DEF s
<1>5. QED
  BY <1>3, <1>4 DEF InOrder

\* The two together: the turns of a sequence of n.
LEMMA TurnsOfSequence ==
    ASSUME NEW kind, kind # "release", NEW o, NEW base, NEW seq, NEW n \in Nat,
           DOMAIN seq = 1..n
    PROVE  /\ \E g : Turned(g, kind, o, base, seq)
           /\ \A g : Turned(g, kind, o, base, seq) => InOrder(g, kind, o, base, seq, n)
<1>1. 1 \in Int /\ n \in Int /\ IsFiniteSet(1..n) /\ 1..n \subseteq Int
  BY FS_Interval
<1>2. IsFiniteSet(DOMAIN seq) /\ DOMAIN seq \subseteq Int
  BY <1>1
<1>3. \E g : Turned(g, kind, o, base, seq)
  BY <1>2, TurnsExist
<1>4. QED
  BY <1>3, TurnsInOrder

\* execute: the turns of an order, one after the other.
LEMMA TurnsOfExecute ==
    ASSUME NEW o, NEW base, NEW n \in Nat
    PROVE  \E g : /\ g[1..0] = base
                  /\ \A k \in 1..n : g[1..k] = ExecuteNext(o, g[1..(k - 1)])
                  /\ ExecuteTurns(o, base, n) = g[1..n]
<1> DEFINE seq == [turn \in 1..n |-> turn]
           Solves(g) == g = [s \in SUBSET DOMAIN seq |->
                               IF s = {} THEN base
                               ELSE ExecuteNext(o, g[s \ {Max(s)}])]
           iter == CHOOSE g : Solves(g)
<1>0. PICK kind : kind = "execute" /\ kind # "release"
  OBVIOUS
<1>1. \A g : Solves(g) <=> Turned(g, kind, o, base, seq)
  <2>1. \A g, s : TurnStep(g, kind, o, base, seq, s) =
                    IF s = {} THEN base
                    ELSE ExecuteNext(o, g[s \ {Max(s)}])
    BY <1>0 DEF TurnStep, Turn, Pick
  <2>2. QED
    BY <2>1 DEF Turned
<1>2. DOMAIN seq = 1..n
  OBVIOUS
<1>3. ExecuteTurns(o, base, n) = iter[1..n]
  BY <1>2 DEF ExecuteTurns, FoldLeft, MapThenFoldSet
<1> HIDE DEF seq
<1>4. Turned(iter, kind, o, base, seq)
  <2> HIDE DEF Solves
  <2>1. QED
    BY <1>0, <1>1, <1>2, TurnsOfSequence
<1>5. PICK h : h = iter /\ Turned(h, kind, o, base, seq)
  BY <1>4
<1> HIDE DEF iter
<1>6. InOrder(h, kind, o, base, seq, n)
  BY <1>0, <1>2, <1>5, TurnsInOrder
<1>7. \A k \in 1..n : h[1..k] = ExecuteNext(o, h[1..(k - 1)])
  BY <1>0, <1>6 DEF Turn, InOrder
<1>8. QED
  BY <1>3, <1>5, <1>6, <1>7 DEF InOrder

PlanTurns(g, o, base, seq, n) ==
    /\ g[1..0] = base
    /\ \A k \in 1..n : g[1..k] = ExecutePlanned(o, g[1..(k - 1)], seq[k])
    /\ ExecutePlan(o, base, seq) = g[1..n]

\* execute_fok: the planned fills, one after the other.
LEMMA TurnsOfPlan ==
    ASSUME NEW o, NEW base, NEW seq, NEW n \in Nat, DOMAIN seq = 1..n
    PROVE  \E g : PlanTurns(g, o, base, seq, n)
<1> DEFINE Solves(g) == g = [s \in SUBSET DOMAIN seq |->
                               IF s = {} THEN base
                               ELSE ExecutePlanned(o, g[s \ {Max(s)}], seq[Max(s)])]
           iter == CHOOSE g : Solves(g)
<1>0. PICK kind : kind = "fok" /\ kind # "release"
  OBVIOUS
<1>1. \A g : Solves(g) <=> Turned(g, kind, o, base, seq)
  <2>1. \A g, s : TurnStep(g, kind, o, base, seq, s) =
                    IF s = {} THEN base
                    ELSE ExecutePlanned(o, g[s \ {Max(s)}], seq[Max(s)])
    BY <1>0 DEF TurnStep, Turn, Pick
  <2>2. QED
    BY <2>1 DEF Turned
<1>2. DOMAIN seq = 1..n
  OBVIOUS
<1>3. ExecutePlan(o, base, seq) = iter[1..n]
  BY <1>2 DEF ExecutePlan, FoldLeft, MapThenFoldSet
<1>4. Turned(iter, kind, o, base, seq)
  <2> HIDE DEF Solves
  <2>1. QED
    BY <1>0, <1>1, <1>2, TurnsOfSequence
<1>5. PICK h : h = iter /\ Turned(h, kind, o, base, seq)
  BY <1>4
<1> HIDE DEF iter
<1>6. InOrder(h, kind, o, base, seq, n)
  BY <1>0, <1>2, <1>5, TurnsInOrder
<1>7. \A k \in 1..n : h[1..k] = ExecutePlanned(o, h[1..(k - 1)], seq[k])
  BY <1>0, <1>6 DEF Turn, InOrder
<1>8. QED
  BY <1>3, <1>5, <1>6, <1>7 DEF InOrder, PlanTurns

StageTurns(g, o, base, seq, n) ==
    /\ g[1..0] = base
    /\ \A k \in 1..n : g[1..k] = StageFill(o, g[1..(k - 1)], seq[k])
    /\ StagePlan(o, base, seq) = g[1..n]

\* stage_fok: the planned fills on the private copies.
LEMMA TurnsOfStage ==
    ASSUME NEW o, NEW base, NEW seq, NEW n \in Nat, DOMAIN seq = 1..n
    PROVE  \E g : StageTurns(g, o, base, seq, n)
<1> DEFINE Solves(g) == g = [s \in SUBSET DOMAIN seq |->
                               IF s = {} THEN base
                               ELSE StageFill(o, g[s \ {Max(s)}], seq[Max(s)])]
           iter == CHOOSE g : Solves(g)
<1>0. PICK kind : kind = "stage" /\ kind # "release"
  OBVIOUS
<1>1. \A g : Solves(g) <=> Turned(g, kind, o, base, seq)
  <2>1. \A g, s : TurnStep(g, kind, o, base, seq, s) =
                    IF s = {} THEN base
                    ELSE StageFill(o, g[s \ {Max(s)}], seq[Max(s)])
    BY <1>0 DEF TurnStep, Turn, Pick
  <2>2. QED
    BY <2>1 DEF Turned
<1>2. DOMAIN seq = 1..n
  OBVIOUS
<1>3. StagePlan(o, base, seq) = iter[1..n]
  BY <1>2 DEF StagePlan, FoldLeft, MapThenFoldSet
<1>4. Turned(iter, kind, o, base, seq)
  <2> HIDE DEF Solves
  <2>1. QED
    BY <1>0, <1>1, <1>2, TurnsOfSequence
<1>5. PICK h : h = iter /\ Turned(h, kind, o, base, seq)
  BY <1>4
<1> HIDE DEF iter
<1>6. InOrder(h, kind, o, base, seq, n)
  BY <1>0, <1>2, <1>5, TurnsInOrder
<1>7. \A k \in 1..n : h[1..k] = StageFill(o, h[1..(k - 1)], seq[k])
  BY <1>0, <1>6 DEF Turn, InOrder
<1>8. QED
  BY <1>3, <1>5, <1>6, <1>7 DEF InOrder, StageTurns

\* retain: the entries of a queue, oldest first.
LEMMA TurnsOfRetain ==
    ASSUME NEW id, NEW seq, NEW n \in Nat, DOMAIN seq = 1..n
    PROVE  \E g : /\ g[1..0] = <<>>
                  /\ \A k \in 1..n : g[1..k] = IF seq[k].id = id THEN g[1..(k - 1)] ELSE Append(g[1..(k - 1)], seq[k])
                  /\ Retained(seq, id) = g[1..n]
<1> DEFINE Solves(g) == g = [s \in SUBSET DOMAIN seq |->
                               IF s = {} THEN <<>>
                               ELSE IF seq[Max(s)].id = id THEN g[s \ {Max(s)}] ELSE Append(g[s \ {Max(s)}], seq[Max(s)])]
           iter == CHOOSE g : Solves(g)
<1>0. PICK kind : kind = "retain" /\ kind # "release"
  OBVIOUS
<1>1. \A g : Solves(g) <=> Turned(g, kind, id, <<>>, seq)
  <2>1. \A g, s : TurnStep(g, kind, id, <<>>, seq, s) =
                    IF s = {} THEN <<>>
                    ELSE IF seq[Max(s)].id = id THEN g[s \ {Max(s)}] ELSE Append(g[s \ {Max(s)}], seq[Max(s)])
    BY <1>0 DEF TurnStep, Turn, Pick
  <2>2. QED
    BY <2>1 DEF Turned
<1>2. DOMAIN seq = 1..n
  OBVIOUS
<1>3. Retained(seq, id) = iter[1..n]
  BY <1>2 DEF Retained, FoldLeft, MapThenFoldSet
<1>4. Turned(iter, kind, id, <<>>, seq)
  <2> HIDE DEF Solves
  <2>1. QED
    BY <1>0, <1>1, <1>2, TurnsOfSequence
<1>5. PICK h : h = iter /\ Turned(h, kind, id, <<>>, seq)
  BY <1>4
<1> HIDE DEF iter
<1>6. InOrder(h, kind, id, <<>>, seq, n)
  BY <1>0, <1>2, <1>5, TurnsInOrder
<1>7. \A k \in 1..n : h[1..k] = IF seq[k].id = id THEN h[1..(k - 1)] ELSE Append(h[1..(k - 1)], seq[k])
  BY <1>0, <1>6 DEF Turn, InOrder
<1>8. QED
  BY <1>3, <1>5, <1>6, <1>7 DEF InOrder

ReplayTurns(g, seq, n) ==
    /\ g[1..0] = EmptyMap
    /\ \A k \in 1..n : g[1..k] = Replay(g[1..(k - 1)], seq[k])
    /\ Replayed(seq) = g[1..n]

\* open_state: the stored trades, oldest first.
LEMMA TurnsOfReplay ==
    ASSUME NEW seq, NEW n \in Nat, DOMAIN seq = 1..n
    PROVE  \E g : ReplayTurns(g, seq, n)
<1> DEFINE Solves(g) == g = [s \in SUBSET DOMAIN seq |->
                               IF s = {} THEN EmptyMap
                               ELSE Replay(g[s \ {Max(s)}], seq[Max(s)])]
           iter == CHOOSE g : Solves(g)
<1>0. PICK kind : kind = "replay" /\ kind # "release"
  OBVIOUS
<1>1. \A g : Solves(g) <=> Turned(g, kind, EmptyMap, EmptyMap, seq)
  <2>1. \A g, s : TurnStep(g, kind, EmptyMap, EmptyMap, seq, s) =
                    IF s = {} THEN EmptyMap
                    ELSE Replay(g[s \ {Max(s)}], seq[Max(s)])
    BY <1>0 DEF TurnStep, Turn, Pick
  <2>2. QED
    BY <2>1 DEF Turned
<1>2. DOMAIN seq = 1..n
  OBVIOUS
<1>3. Replayed(seq) = iter[1..n]
  BY <1>2 DEF Replayed, FoldLeft, MapThenFoldSet
<1>4. Turned(iter, kind, EmptyMap, EmptyMap, seq)
  <2> HIDE DEF Solves
  <2>1. QED
    BY <1>0, <1>1, <1>2, TurnsOfSequence
<1>5. PICK h : h = iter /\ Turned(h, kind, EmptyMap, EmptyMap, seq)
  BY <1>4
<1> HIDE DEF iter
<1>6. InOrder(h, kind, EmptyMap, EmptyMap, seq, n)
  BY <1>0, <1>2, <1>5, TurnsInOrder
<1>7. \A k \in 1..n : h[1..k] = Replay(h[1..(k - 1)], seq[k])
  BY <1>0, <1>6 DEF Turn, InOrder
<1>8. QED
  BY <1>3, <1>5, <1>6, <1>7 DEF InOrder, ReplayTurns

SumTurns(g, seq, n) ==
    /\ g[1..0] = 0
    /\ \A k \in 1..n : g[1..k] = g[1..(k - 1)] + seq[k].qty
    /\ SumOf(seq) = g[1..n]

\* The quantities of a queue or a plan, added up from its front.
LEMMA TurnsOfSum ==
    ASSUME NEW seq, NEW n \in Nat, DOMAIN seq = 1..n
    PROVE  \E g : SumTurns(g, seq, n)
<1> DEFINE Solves(g) == g = [s \in SUBSET DOMAIN seq |->
                               IF s = {} THEN 0
                               ELSE g[s \ {Max(s)}] + seq[Max(s)].qty]
           iter == CHOOSE g : Solves(g)
<1>0. PICK kind, o : kind = "sum" /\ kind # "release" /\ o = 0
  OBVIOUS
<1>1. \A g : Solves(g) <=> Turned(g, kind, o, 0, seq)
  <2>1. \A g, s : TurnStep(g, kind, o, 0, seq, s) =
                    IF s = {} THEN 0
                    ELSE g[s \ {Max(s)}] + seq[Max(s)].qty
    BY <1>0 DEF TurnStep, Turn, Pick
  <2>2. QED
    BY <2>1 DEF Turned
<1>2. DOMAIN seq = 1..n
  OBVIOUS
<1>3. SumOf(seq) = iter[1..n]
  BY <1>2 DEF SumOf, FoldLeft, MapThenFoldSet
<1>4. Turned(iter, kind, o, 0, seq)
  <2> HIDE DEF Solves
  <2>1. QED
    BY <1>0, <1>1, <1>2, TurnsOfSequence
<1>5. PICK h : h = iter /\ Turned(h, kind, o, 0, seq)
  BY <1>4
<1> HIDE DEF iter
<1>6. InOrder(h, kind, o, 0, seq, n)
  BY <1>0, <1>2, <1>5, TurnsInOrder
<1>7. \A k \in 1..n : h[1..k] = h[1..(k - 1)] + seq[k].qty
  BY <1>0, <1>6 DEF Turn, InOrder
<1>8. QED
  BY <1>3, <1>5, <1>6, <1>7 DEF InOrder, SumTurns

-----------------------------------------------------------------------------
(* A queue without one of its entries. *)

\* A cancel leaves the others of the level, in their order.
LEMMA RetainedFits ==
    ASSUME NEW q, QueueFits(q), NEW id
    PROVE  QueueFits(Retained(q, id)) /\ ToSet(Retained(q, id)) = Others(q, id)
<1>1. q \in Seq(Entry) /\ Len(q) \in Nat /\ DOMAIN q = 1..Len(q)
  BY DEF QueueFits
<1> DEFINE n == Len(q)
           Upto(k) == {r \in {q[j] : j \in 1..k} : r.id # id}
<1>2. PICK g : /\ g[1..0] = <<>>
               /\ \A k \in 1..n : g[1..k] = IF q[k].id = id THEN g[1..(k - 1)]
                                            ELSE Append(g[1..(k - 1)], q[k])
               /\ Retained(q, id) = g[1..n]
  BY <1>1, TurnsOfRetain
<1> HIDE DEF n
<1> DEFINE Kept(k) == QueueFits(g[1..k]) /\ ToSet(g[1..k]) = Upto(k)
           good == {k \in Nat : k <= n => Kept(k)}
<1>3. 0 \in good
  <2>1. QueueFits(<<>>) /\ ToSet(<<>>) = {}
    BY DEF QueueFits, ToSet
  <2>2. Upto(0) = {}
    OBVIOUS
  <2>3. QED
    BY <1>2, <2>1, <2>2
<1>4. ASSUME NEW k \in Nat, k \in good, k + 1 <= n PROVE Kept(k + 1)
  <2>1. /\ QueueFits(g[1..k]) /\ ToSet(g[1..k]) = Upto(k)
        /\ k + 1 \in 1..n /\ (k + 1) - 1 = k
    BY <1>1, <1>4 DEF n
  <2>2. g[1..(k + 1)] = IF q[k + 1].id = id THEN g[1..k] ELSE Append(g[1..k], q[k + 1])
    BY <1>2, <2>1
  <2>3. Upto(k + 1) = Upto(k) \cup (IF q[k + 1].id = id THEN {} ELSE {q[k + 1]})
    <3>1. 1..(k + 1) = (1..k) \cup {k + 1}
      OBVIOUS
    <3>2. {q[j] : j \in 1..(k + 1)} = {q[j] : j \in 1..k} \cup {q[k + 1]}
      BY <3>1
    <3>3. QED
      BY <3>2
  <2>4. q[k + 1] \in Entry
    BY <1>1, <2>1 DEF n
  <2>5. \A r \in Upto(k) : r.id < q[k + 1].id
    <3>1. ASSUME NEW j \in 1..k PROVE q[j].id < q[k + 1].id
      <4>1. j \in 1..Len(q) /\ k + 1 \in 1..Len(q) /\ j < k + 1
        BY <1>1, <2>1 DEF n
      <4>2. QED
        BY <4>1, EntriesOfQueue
    <3>2. QED
      BY <3>1
  <2> HIDE DEF Upto
  <2>6. CASE q[k + 1].id = id
    BY <2>1, <2>2, <2>3, <2>6
  <2>7. CASE q[k + 1].id # id
    <3>1. g[1..(k + 1)] = Append(g[1..k], q[k + 1]) /\ Upto(k + 1) = Upto(k) \cup {q[k + 1]}
      BY <2>2, <2>3, <2>7
    <3>2. /\ QueueFits(Append(g[1..k], q[k + 1]))
          /\ ToSet(Append(g[1..k], q[k + 1])) = ToSet(g[1..k]) \cup {q[k + 1]}
      BY <2>1, <2>4, <2>5, AppendFits
    <3>3. QED
      BY <2>1, <3>1, <3>2
  <2>8. QED
    BY <2>6, <2>7
<1>5. n \in Nat /\ n \in good
  <2> HIDE DEF Kept
  <2>1. \A k \in Nat : k \in good => k + 1 \in good
    BY <1>1, <1>4 DEF n
  <2>2. n \in Nat
    BY <1>1 DEF n
  <2> HIDE DEF good
  <2>3. QED
    BY <1>3, <2>1, <2>2, EveryNatural
<1>6. Kept(n)
  BY <1>5
<1>7. ToSet(q) = {q[j] : j \in 1..n}
  BY <1>1 DEF ToSet, n
<1>8. QED
  BY <1>2, <1>6, <1>7 DEF Others

-----------------------------------------------------------------------------
(* Rows.  The rows recorded for a symbol are what its book shows: the queue *)
(* of a level holds exactly the entries of the rows with its terms.         *)

Row == [account : Accounts, symbol : Symbols, side : Sides, price : Cents, qty : Tenths]

RowsFit(rw) ==
    /\ rw = [id \in DOMAIN rw |-> rw[id]]
    /\ DOMAIN rw \subseteq Nat
    /\ IsFiniteSet(DOMAIN rw)
    /\ \A id \in DOMAIN rw : rw[id] \in Row

IdsAt(rw, s, side, p) ==
    {id \in DOMAIN rw : rw[id].symbol = s /\ rw[id].side = side /\ rw[id].price = p}

EntryOf(id, row) == [id |-> id, account |-> row.account, qty |-> row.qty]
EntriesAt(rw, s, side, p) == {EntryOf(id, rw[id]) : id \in IdsAt(rw, s, side, p)}

OthersOf(S, id) == {r \in S : r.id # id}

Shows(book, s, rw) ==
    \A side \in Sides, p \in Cents : ToSet(Level(book, side, p)) = EntriesAt(rw, s, side, p)

\* Two maps of rows that tell the same of every symbol but one.
AlikeBut(rx, rw, s) ==
    \A t \in Symbols \ {s}, side \in Sides, p \in Cents :
        EntriesAt(rx, t, side, p) = EntriesAt(rw, t, side, p)

LEMMA EntriesByRow ==
    ASSUME NEW rw, RowsFit(rw), NEW s, NEW side, NEW p
    PROVE  /\ \A r \in EntriesAt(rw, s, side, p) :
                 /\ r.id \in DOMAIN rw /\ r = EntryOf(r.id, rw[r.id]) /\ r \in Entry
                 /\ rw[r.id].symbol = s /\ rw[r.id].side = side /\ rw[r.id].price = p
                 /\ r.account = rw[r.id].account /\ r.qty = rw[r.id].qty
           /\ \A id \in DOMAIN rw :
                 rw[id].symbol = s /\ rw[id].side = side /\ rw[id].price = p =>
                    EntryOf(id, rw[id]) \in EntriesAt(rw, s, side, p)
<1>1. ASSUME NEW r \in EntriesAt(rw, s, side, p)
      PROVE  /\ r.id \in DOMAIN rw /\ r = EntryOf(r.id, rw[r.id]) /\ r \in Entry
             /\ rw[r.id].symbol = s /\ rw[r.id].side = side /\ rw[r.id].price = p
             /\ r.account = rw[r.id].account /\ r.qty = rw[r.id].qty
  <2>1. PICK id \in DOMAIN rw : /\ r = EntryOf(id, rw[id])
                                /\ rw[id].symbol = s /\ rw[id].side = side /\ rw[id].price = p
    BY DEF EntriesAt, IdsAt
  <2>2. r.id = id /\ r.account = rw[id].account /\ r.qty = rw[id].qty
    BY <2>1 DEF EntryOf
  <2>3. rw[id] \in Row /\ id \in Nat
    BY DEF RowsFit
  <2>4. rw[id].account \in Accounts /\ rw[id].qty \in Tenths
    BY <2>3 DEF Row
  <2>5. r \in Entry
    BY <2>1, <2>3, <2>4 DEF Entry, EntryOf
  <2>6. QED
    BY <2>1, <2>2, <2>5
<1>2. ASSUME NEW id \in DOMAIN rw, rw[id].symbol = s, rw[id].side = side, rw[id].price = p
      PROVE  EntryOf(id, rw[id]) \in EntriesAt(rw, s, side, p)
  BY <1>2 DEF EntriesAt, IdsAt
<1>3. QED
  BY <1>1, <1>2

\* A row goes.
LosesRow(rx, rw, id) ==
    /\ RowsFit(rx)
    /\ DOMAIN rx = DOMAIN rw \ {id}
    /\ \A x \in DOMAIN rw \ {id} : rx[x] = rw[x]
    /\ \A s, side, p : EntriesAt(rx, s, side, p) = OthersOf(EntriesAt(rw, s, side, p), id)

LEMMA RowGone ==
    ASSUME NEW rw, RowsFit(rw), NEW id
    PROVE  LosesRow(Without(rw, {id}), rw, id)
<1> DEFINE rx == Without(rw, {id})
<1>1. /\ DOMAIN rx = DOMAIN rw \ {id}
      /\ \A x \in DOMAIN rw \ {id} : rx[x] = rw[x]
      /\ rx = [x \in DOMAIN rx |-> rx[x]]
  BY DEF Without, Restrict
<1> HIDE DEF rx
<1>2. RowsFit(rx)
  <2>1. IsFiniteSet(DOMAIN rx)
    BY <1>1, FS_RemoveElement DEF RowsFit
  <2>2. QED
    BY <1>1, <2>1 DEF RowsFit
<1>3. ASSUME NEW s, NEW side, NEW p
      PROVE  EntriesAt(rx, s, side, p) = OthersOf(EntriesAt(rw, s, side, p), id)
  <2>1. IdsAt(rx, s, side, p) = IdsAt(rw, s, side, p) \ {id}
    BY <1>1 DEF IdsAt
  <2>2. \A x \in IdsAt(rx, s, side, p) : EntryOf(x, rx[x]) = EntryOf(x, rw[x])
    BY <1>1 DEF IdsAt
  <2>3. \A x, row : EntryOf(x, row).id = x
    BY DEF EntryOf
  <2>4. QED
    BY <2>1, <2>2, <2>3 DEF EntriesAt, OthersOf
<1>4. QED
  BY <1>1, <1>2, <1>3 DEF rx, LosesRow

\* A row comes, or changes.
TakesRow(rx, rw, id, row) ==
    /\ RowsFit(rx)
    /\ DOMAIN rx = DOMAIN rw \cup {id}
    /\ rx[id] = row
    /\ \A x \in DOMAIN rw \ {id} : rx[x] = rw[x]
    /\ EntriesAt(rx, row.symbol, row.side, row.price)
          = OthersOf(EntriesAt(rw, row.symbol, row.side, row.price), id) \cup {EntryOf(id, row)}
    /\ \A s, side, p : ~(row.symbol = s /\ row.side = side /\ row.price = p) =>
          EntriesAt(rx, s, side, p) = OthersOf(EntriesAt(rw, s, side, p), id)

LEMMA RowPut ==
    ASSUME NEW rw, RowsFit(rw), NEW id \in Nat, NEW row \in Row
    PROVE  TakesRow(Put(rw, id, row), rw, id, row)
<1> DEFINE rx == Put(rw, id, row)
<1>1. /\ DOMAIN rx = DOMAIN rw \cup {id}
      /\ \A x \in DOMAIN rw \ {id} : rx[x] = rw[x]
      /\ rx[id] = row
      /\ rx = [x \in DOMAIN rx |-> rx[x]]
  BY DEF Put
<1> HIDE DEF rx
<1>2. RowsFit(rx)
  <2>1. IsFiniteSet(DOMAIN rx)
    BY <1>1, FS_AddElement DEF RowsFit
  <2>2. DOMAIN rx \subseteq Nat
    BY <1>1 DEF RowsFit
  <2>3. \A x \in DOMAIN rx : rx[x] \in Row
    BY <1>1 DEF RowsFit
  <2>4. QED
    BY <1>1, <2>1, <2>2, <2>3 DEF RowsFit
<1>3. ASSUME NEW s, NEW side, NEW p
      PROVE  EntriesAt(rx, s, side, p)
                = OthersOf(EntriesAt(rw, s, side, p), id)
                     \cup IF row.symbol = s /\ row.side = side /\ row.price = p
                          THEN {EntryOf(id, row)} ELSE {}
  <2> DEFINE here == row.symbol = s /\ row.side = side /\ row.price = p
  <2>1. IdsAt(rx, s, side, p) = (IdsAt(rw, s, side, p) \ {id}) \cup IF here THEN {id} ELSE {}
    BY <1>1 DEF IdsAt
  <2>2. \A x \in IdsAt(rw, s, side, p) \ {id} : EntryOf(x, rx[x]) = EntryOf(x, rw[x])
    BY <1>1 DEF IdsAt
  <2>3. \A x, any : EntryOf(x, any).id = x
    BY DEF EntryOf
  <2>4. EntryOf(id, rx[id]) = EntryOf(id, row)
    BY <1>1
  <2> HIDE DEF here
  <2>5. QED
    BY <2>1, <2>2, <2>3, <2>4 DEF EntriesAt, OthersOf, here
<1>4. EntriesAt(rx, row.symbol, row.side, row.price)
         = OthersOf(EntriesAt(rw, row.symbol, row.side, row.price), id) \cup {EntryOf(id, row)}
  BY <1>3
<1>5. ASSUME NEW s, NEW side, NEW p, ~(row.symbol = s /\ row.side = side /\ row.price = p)
      PROVE  EntriesAt(rx, s, side, p) = OthersOf(EntriesAt(rw, s, side, p), id)
  BY <1>3, <1>5
<1>6. QED
  BY <1>1, <1>2, <1>4, <1>5 DEF rx, TakesRow

\* An id that is not at a level is not in its entries.
LEMMA NotAmongOthers ==
    ASSUME NEW rw, RowsFit(rw), NEW id, NEW s, NEW side, NEW p,
           id \in DOMAIN rw => ~(rw[id].symbol = s /\ rw[id].side = side /\ rw[id].price = p)
    PROVE  OthersOf(EntriesAt(rw, s, side, p), id) = EntriesAt(rw, s, side, p)
BY EntriesByRow DEF OthersOf

\* The book and its rows lose an order together.
LEMMA ShowsWithout ==
    ASSUME NEW book, BookFits(book), NEW rw, RowsFit(rw), NEW s, Shows(book, s, rw),
           NEW id \in DOMAIN rw, rw[id].symbol = s, NEW side, side = rw[id].side,
           NEW price, price = rw[id].price, NEW queue, QueueFits(queue),
           ToSet(queue) = Others(Level(book, side, price), id)
    PROVE  /\ Shows(WithLevel(book, side, price, queue), s, Without(rw, {id}))
           /\ AlikeBut(Without(rw, {id}), rw, s)
<1> DEFINE new == WithLevel(book, side, price, queue)
           rx == Without(rw, {id})
<1>1. side \in Sides /\ price \in Cents
  BY DEF RowsFit, Row
<1>2. Replaced(new, book, side, price, queue)
  BY <1>1, WithLevelFits
<1>3. \A t, sd, p : EntriesAt(rx, t, sd, p) = OthersOf(EntriesAt(rw, t, sd, p), id)
  <2>1. LosesRow(rx, rw, id)
    BY RowGone
  <2> HIDE DEF rx
  <2>2. QED
    BY <2>1 DEF LosesRow
<1>4. \A t, sd, p : ~(t = s /\ sd = side /\ p = price) =>
                      EntriesAt(rx, t, sd, p) = EntriesAt(rw, t, sd, p)
  BY <1>3, NotAmongOthers
<1> HIDE DEF new, rx
<1>5. ASSUME NEW sd \in Sides, NEW p \in Cents
      PROVE  ToSet(Level(new, sd, p)) = EntriesAt(rx, s, sd, p)
  <2>1. ToSet(Level(book, sd, p)) = EntriesAt(rw, s, sd, p)
    BY DEF Shows
  <2>2. Level(new, sd, p) = IF sd = side /\ p = price THEN queue ELSE Level(book, sd, p)
    BY <1>2 DEF Replaced
  <2>3. CASE sd = side /\ p = price
    BY <1>3, <2>1, <2>2, <2>3 DEF Others, OthersOf
  <2>4. CASE ~(sd = side /\ p = price)
    BY <1>4, <2>1, <2>2, <2>4
  <2>5. QED
    BY <2>3, <2>4
<1>6. AlikeBut(rx, rw, s)
  BY <1>4 DEF AlikeBut
<1>7. QED
  BY <1>5, <1>6 DEF Shows, new, rx

\* The book and its rows gain an order, or change its quantity, together.
LEMMA ShowsPut ==
    ASSUME NEW book, BookFits(book), NEW rw, RowsFit(rw), NEW s, Shows(book, s, rw),
           NEW id \in Nat, NEW row \in Row, row.symbol = s,
           id \in DOMAIN rw => /\ rw[id].symbol = s
                               /\ rw[id].side = row.side
                               /\ rw[id].price = row.price,
           NEW side, side = row.side, NEW price, price = row.price,
           NEW queue, QueueFits(queue),
           ToSet(queue) = Others(Level(book, side, price), id) \cup {EntryOf(id, row)}
    PROVE  /\ Shows(WithLevel(book, side, price, queue), s, Put(rw, id, row))
           /\ AlikeBut(Put(rw, id, row), rw, s)
<1> DEFINE new == WithLevel(book, side, price, queue)
           rx == Put(rw, id, row)
<1>1. side \in Sides /\ price \in Cents
  BY DEF Row
<1>2. Replaced(new, book, side, price, queue)
  BY <1>1, WithLevelFits
<1>3. /\ EntriesAt(rx, s, side, price)
            = OthersOf(EntriesAt(rw, s, side, price), id) \cup {EntryOf(id, row)}
      /\ \A t, sd, p : ~(t = s /\ sd = side /\ p = price) =>
                         EntriesAt(rx, t, sd, p) = OthersOf(EntriesAt(rw, t, sd, p), id)
  <2>1. TakesRow(rx, rw, id, row)
    BY RowPut
  <2> HIDE DEF rx
  <2>2. QED
    BY <2>1 DEF TakesRow
<1>4. \A t, sd, p : ~(t = s /\ sd = side /\ p = price) =>
                      EntriesAt(rx, t, sd, p) = EntriesAt(rw, t, sd, p)
  <2>1. \A t, sd, p : ~(t = s /\ sd = side /\ p = price) =>
                        OthersOf(EntriesAt(rw, t, sd, p), id) = EntriesAt(rw, t, sd, p)
    BY NotAmongOthers
  <2> HIDE DEF rx
  <2>2. QED
    BY <1>3, <2>1
<1> HIDE DEF new, rx
<1>5. ASSUME NEW sd \in Sides, NEW p \in Cents
      PROVE  ToSet(Level(new, sd, p)) = EntriesAt(rx, s, sd, p)
  <2>1. ToSet(Level(book, sd, p)) = EntriesAt(rw, s, sd, p)
    BY DEF Shows
  <2>2. Level(new, sd, p) = IF sd = side /\ p = price THEN queue ELSE Level(book, sd, p)
    BY <1>2 DEF Replaced
  <2>3. CASE sd = side /\ p = price
    <3>1. EntriesAt(rx, s, sd, p) = OthersOf(EntriesAt(rw, s, sd, p), id) \cup {EntryOf(id, row)}
      BY <1>3, <2>3
    <3>2. QED
      BY <2>1, <2>2, <2>3, <3>1 DEF Others, OthersOf
  <2>4. CASE ~(sd = side /\ p = price)
    BY <1>4, <2>1, <2>2, <2>4
  <2>5. QED
    BY <2>3, <2>4
<1>6. AlikeBut(rx, rw, s)
  BY <1>4 DEF AlikeBut
<1>7. QED
  BY <1>5, <1>6 DEF Shows, new, rx

-----------------------------------------------------------------------------
(* Execution.  What holds of the record the fills of one order are          *)
(* committed on, in terms of the rows there were when the order came.       *)

OrderFits(o) ==
    /\ o.id \in Nat
    /\ o.account \in Accounts
    /\ o.symbol \in Symbols
    /\ o.side \in Sides
    /\ o.limit \in Cents
    /\ o.qty \in Tenths

IsExec(e) ==
    e = [book |-> e.book, ledger |-> e.ledger, positions |-> e.positions,
         openOrders |-> e.openOrders, rows |-> e.rows, trades |-> e.trades,
         left |-> e.left, stop |-> e.stop]

IndexOf(rw) ==
    [id \in DOMAIN rw |-> [symbol |-> rw[id].symbol, side |-> rw[id].side, price |-> rw[id].price]]

Stops == {"no", "overflow", "panic"}

BookSound(o, rw, e) ==
    /\ IsExec(e)
    /\ BookFits(e.book)
    /\ Uncrossed(e.book)
    /\ RowsFit(e.rows)
    /\ Shows(e.book, o.symbol, e.rows)
    /\ AlikeBut(e.rows, rw, o.symbol)
    /\ DOMAIN e.rows \subseteq DOMAIN rw
    /\ e.openOrders = IndexOf(e.rows)
    /\ e.left \in Int
    /\ e.stop \in Stops

MakerFor(book, o, f) == Head(book[Facing(o.side)][f.price])

\* A fill of the front of a level, by what it has at most.
TakesFront(book, o, f) ==
    /\ f.price \in DOMAIN book[Facing(o.side)]
    /\ f.price \in Cents
    /\ f.maker = MakerFor(book, o, f).id
    /\ f.account = MakerFor(book, o, f).account
    /\ MakerFor(book, o, f) \in Entry
    /\ f.qty \in Tenths
    /\ f.qty <= MakerFor(book, o, f).qty

LEMMA NextFillTakesFront ==
    ASSUME NEW book, BookFits(book), NEW o, OrderFits(o), HasNextFill(book, o),
           NEW want \in Tenths
    PROVE  /\ TakesFront(book, o, NextFill(book, o, want))
           /\ NextFill(book, o, want).qty <= want
           /\ NextFill(book, o, want).price = BestFacing(book, o)
           /\ NextFill(book, o, want).qty
                 = IF want <= MakerFor(book, o, NextFill(book, o, want)).qty THEN want
                   ELSE MakerFor(book, o, NextFill(book, o, want)).qty
<1> DEFINE b == BestFacing(book, o)
           q == book[Facing(o.side)][b]
           h == Head(q)
           f == NextFill(book, o, want)
<1>1. o.side \in Sides /\ DOMAIN book[Facing(o.side)] # {}
  BY DEF OrderFits, HasNextFill
<1>2. b \in DOMAIN book[Facing(o.side)] /\ b \in Cents
  BY <1>1, BestPrice
<1>3. QueueFits(q) /\ q # <<>>
  <2>1. SideFits(book[Facing(o.side)])
    BY <1>1, SidesOfBook
  <2> HIDE DEF b
  <2>2. QED
    BY <1>2, <2>1 DEF SideFits
<1> HIDE DEF q
<1>4. h \in Entry
  BY <1>3, TailFits, EntriesOfQueue
<1>5. f = [maker |-> h.id, account |-> h.account, price |-> b,
           qty |-> IF want <= h.qty THEN want ELSE h.qty]
  BY DEF NextFill, q
<1>6. MakerFor(book, o, f) = h
  BY <1>5 DEF MakerFor, q
<1> HIDE DEF f, h, b
<1>7. h.qty \in Tenths
  BY <1>4 DEF Entry
<1>8. f.qty \in Tenths /\ f.qty <= h.qty /\ f.qty <= want
  BY <1>5, <1>7 DEF Tenths
<1>9. f.maker = h.id /\ f.account = h.account /\ f.price = b
      /\ f.qty = IF want <= h.qty THEN want ELSE h.qty
  BY <1>5
<1>10. QED
  BY <1>2, <1>4, <1>6, <1>8, <1>9 DEF TakesFront, f, b

LeftOf(o, e, f) == MakerFor(e.book, o, f).qty - f.qty

CommitRecord(o, e, f) ==
    [book |-> AfterTaking(e.book, o, f), ledger |-> e.ledger,
     positions |-> BookLegs(o, e.positions, f),
     openOrders |-> IF LeftOf(o, e, f) = 0 THEN Without(e.openOrders, {f.maker})
                    ELSE e.openOrders,
     rows |-> IF LeftOf(o, e, f) = 0 THEN Without(e.rows, {f.maker})
              ELSE [e.rows EXCEPT ![f.maker].qty = LeftOf(o, e, f)],
     trades |-> Append(e.trades, TradeOf(o, f)),
     left |-> e.left - f.qty, stop |-> e.stop]

LEMMA CommitFields ==
    ASSUME NEW o, NEW e, IsExec(e), NEW f
    PROVE  CommitFill(o, e, f) = CommitRecord(o, e, f)
<1> DEFINE left == MakerFor(e.book, o, f).qty - f.qty
           b == AfterTaking(e.book, o, f)
           i == IF left = 0 THEN Without(e.openOrders, {f.maker}) ELSE e.openOrders
           r == IF left = 0 THEN Without(e.rows, {f.maker})
                ELSE [e.rows EXCEPT ![f.maker].qty = left]
           p == BookLegs(o, e.positions, f)
           t == Append(e.trades, TradeOf(o, f))
           n == e.left - f.qty
<1>1. CommitFill(o, e, f) = [e EXCEPT !.book = b, !.openOrders = i, !.rows = r,
                                      !.positions = p, !.trades = t, !.left = n]
  BY DEF CommitFill, MakerFor
<1> HIDE DEF b, i, r, p, t, n
<1>2. CommitFill(o, e, f) = [book |-> b, ledger |-> e.ledger, positions |-> p,
                             openOrders |-> i, rows |-> r, trades |-> t,
                             left |-> n, stop |-> e.stop]
  BY <1>1 DEF IsExec
<1>3. QED
  BY <1>2 DEF b, i, r, p, t, n, CommitRecord, LeftOf

\* The maker's row says what its entry says.
MakersRow(o, book, rw, f) ==
    /\ f.maker \in DOMAIN rw
    /\ rw[f.maker] = [account |-> MakerFor(book, o, f).account, symbol |-> o.symbol,
                      side |-> Facing(o.side), price |-> f.price,
                      qty |-> MakerFor(book, o, f).qty]

LEMMA RowOfMaker ==
    ASSUME NEW o, OrderFits(o), NEW book, BookFits(book), NEW rw, RowsFit(rw),
           Shows(book, o.symbol, rw), NEW f, TakesFront(book, o, f)
    PROVE  MakersRow(o, book, rw, f)
<1> DEFINE h == MakerFor(book, o, f)
           side == Facing(o.side)
<1>1. side \in Sides /\ SideFits(book[side]) /\ f.price \in DOMAIN book[side]
      /\ f.price \in Cents /\ f.maker = h.id
  BY SidesOfBook DEF OrderFits, TakesFront
<1>2. h \in ToSet(Level(book, side, f.price))
  <2> DEFINE q == book[side][f.price]
  <2>1. QueueFits(q) /\ q # <<>> /\ q = Level(book, side, f.price)
    BY <1>1 DEF SideFits, Level
  <2>2. h = Head(q)
    BY DEF MakerFor
  <2> HIDE DEF q, h
  <2>3. QED
    BY <2>1, <2>2, TailFits, EntriesOfQueue
<1>3. h \in EntriesAt(rw, o.symbol, side, f.price)
  BY <1>1, <1>2 DEF Shows
<1> HIDE DEF h, side
<1>4. /\ h.id \in DOMAIN rw /\ rw[h.id].symbol = o.symbol /\ rw[h.id].side = side
      /\ rw[h.id].price = f.price /\ h.account = rw[h.id].account /\ h.qty = rw[h.id].qty
  BY <1>3, EntriesByRow
<1>5. rw[h.id] \in Row
  BY <1>4 DEF RowsFit
<1>6. rw[h.id] = [account |-> h.account, symbol |-> o.symbol, side |-> side,
                  price |-> f.price, qty |-> h.qty]
  BY <1>4, <1>5 DEF Row
<1>7. QED
  BY <1>1, <1>4, <1>6 DEF h, side, MakersRow

\* What a fill leaves of the book, the rows and the index.
QueueOf(o, e, f) == e.book[Facing(o.side)][f.price]

RowLeft(o, e, f) ==
    [account |-> MakerFor(e.book, o, f).account, symbol |-> o.symbol, side |-> Facing(o.side),
     price |-> f.price, qty |-> LeftOf(o, e, f)]

MakerDone(c, o, e, f) ==
    /\ LeftOf(o, e, f) = 0
    /\ c.book = WithLevel(e.book, Facing(o.side), f.price, Tail(QueueOf(o, e, f)))
    /\ c.rows = Without(e.rows, {f.maker})
    /\ c.openOrders = Without(e.openOrders, {f.maker})

MakerStays(c, o, e, f) ==
    /\ LeftOf(o, e, f) \in Tenths
    /\ c.book = WithLevel(e.book, Facing(o.side), f.price,
                          <<[Head(QueueOf(o, e, f)) EXCEPT !.qty = LeftOf(o, e, f)]>>
                             \o Tail(QueueOf(o, e, f)))
    /\ RowLeft(o, e, f) \in Row
    /\ c.rows = Put(e.rows, f.maker, RowLeft(o, e, f))
    /\ c.openOrders = e.openOrders

LEMMA CommitParts ==
    ASSUME NEW o, OrderFits(o), NEW rw, NEW e, BookSound(o, rw, e), NEW f, TakesFront(e.book, o, f)
    PROVE  \/ MakerDone(CommitFill(o, e, f), o, e, f)
           \/ MakerStays(CommitFill(o, e, f), o, e, f)
<1> DEFINE c    == CommitFill(o, e, f)
           h    == MakerFor(e.book, o, f)
           q    == e.book[Facing(o.side)][f.price]
           left == h.qty - f.qty
           row  == [account |-> h.account, symbol |-> o.symbol, side |-> Facing(o.side),
                    price |-> f.price, qty |-> left]
<1>0. IsExec(e) /\ BookFits(e.book) /\ RowsFit(e.rows) /\ Shows(e.book, o.symbol, e.rows)
  BY DEF BookSound
<1>1. left \in Nat /\ h \in Entry /\ f.price \in Cents
  <2>1. h.qty \in Nat /\ f.qty \in Nat /\ f.qty <= h.qty /\ h \in Entry /\ f.price \in Cents
    BY DEF TakesFront, Entry, Tenths
  <2> HIDE DEF h
  <2>2. QED
    BY <2>1
<1>2. /\ c.book = AfterTaking(e.book, o, f)
      /\ c.rows = IF left = 0 THEN Without(e.rows, {f.maker})
                  ELSE [e.rows EXCEPT ![f.maker].qty = left]
      /\ c.openOrders = IF left = 0 THEN Without(e.openOrders, {f.maker}) ELSE e.openOrders
  <2>1. c = CommitRecord(o, e, f) /\ left = LeftOf(o, e, f)
    BY <1>0, CommitFields DEF LeftOf
  <2> HIDE DEF c, left
  <2>2. QED
    BY <2>1 DEF CommitRecord
<1>3. AfterTaking(e.book, o, f) =
         WithLevel(e.book, Facing(o.side), f.price,
                   IF left = 0 THEN Tail(q) ELSE <<[Head(q) EXCEPT !.qty = left]>> \o Tail(q))
  BY DEF AfterTaking, MakerFor
<1>4. /\ f.maker \in DOMAIN e.rows
      /\ e.rows[f.maker] = [account |-> h.account, symbol |-> o.symbol,
                            side |-> Facing(o.side), price |-> f.price, qty |-> h.qty]
  <2>1. MakersRow(o, e.book, e.rows, f)
    BY <1>0, RowOfMaker
  <2>2. QED
    BY <2>1 DEF MakersRow
<1> HIDE DEF c, h, q
<1>5. ASSUME left # 0 PROVE row \in Row
  <2>1. h.account \in Accounts /\ o.symbol \in Symbols /\ Facing(o.side) \in Sides
    BY <1>1 DEF Entry, OrderFits, Facing, Sides
  <2>2. left \in Tenths
    BY <1>1, <1>5 DEF Tenths
  <2> HIDE DEF left
  <2>3. QED
    BY <1>1, <2>1, <2>2 DEF Row
<1> HIDE DEF left
<1>6. [e.rows EXCEPT ![f.maker].qty = left] = Put(e.rows, f.maker, row)
  <2>1. [e.rows[f.maker] EXCEPT !.qty = left] = row
    BY <1>4
  <2>2. e.rows = [id \in DOMAIN e.rows |-> e.rows[id]]
    BY <1>0 DEF RowsFit
  <2> HIDE DEF row
  <2>3. [e.rows EXCEPT ![f.maker].qty = left]
           = [id \in DOMAIN e.rows |-> IF id = f.maker THEN row ELSE e.rows[id]]
    BY <2>1, <2>2
  <2>4. DOMAIN e.rows \cup {f.maker} = DOMAIN e.rows
    BY <1>4
  <2>5. QED
    BY <2>3, <2>4 DEF Put
<1> HIDE DEF row
<1>7. left = LeftOf(o, e, f) /\ q = QueueOf(o, e, f) /\ row = RowLeft(o, e, f)
      /\ c = CommitFill(o, e, f)
  BY DEF left, q, row, h, c, LeftOf, QueueOf, RowLeft
<1>8. CASE left = 0
  <2>1. MakerDone(c, o, e, f)
    BY <1>2, <1>3, <1>7, <1>8 DEF MakerDone
  <2>2. QED
    BY <1>7, <2>1
<1>9. CASE left # 0
  <2>1. left \in Tenths /\ row \in Row
    BY <1>1, <1>5, <1>9 DEF Tenths
  <2>2. MakerStays(c, o, e, f)
    BY <1>2, <1>3, <1>6, <1>7, <1>9, <2>1 DEF MakerStays
  <2>3. QED
    BY <1>7, <2>2
<1>10. QED
  BY <1>8, <1>9

\* The index follows the rows.
LEMMA IndexLoses ==
    ASSUME NEW rw, NEW id
    PROVE  IndexOf(Without(rw, {id})) = Without(IndexOf(rw), {id})
BY DEF IndexOf, Without, Restrict

LEMMA IndexTakes ==
    ASSUME NEW rw, NEW id, NEW row
    PROVE  IndexOf(Put(rw, id, row)) =
              Put(IndexOf(rw), id, [symbol |-> row.symbol, side |-> row.side,
                                    price |-> row.price])
BY DEF IndexOf, Put

LEMMA IndexStays ==
    ASSUME NEW rw, NEW id \in DOMAIN rw, NEW row,
           rw[id].symbol = row.symbol, rw[id].side = row.side, rw[id].price = row.price
    PROVE  IndexOf(Put(rw, id, row)) = IndexOf(rw)
<1>1. DOMAIN Put(rw, id, row) = DOMAIN rw
  BY DEF Put
<1>2. \A x \in DOMAIN rw : /\ Put(rw, id, row)[x].symbol = rw[x].symbol
                           /\ Put(rw, id, row)[x].side = rw[x].side
                           /\ Put(rw, id, row)[x].price = rw[x].price
  BY DEF Put
<1>3. QED
  BY <1>1, <1>2 DEF IndexOf

\* Alike to alike.
LEMMA AlikeOnward ==
    ASSUME NEW rx, NEW ry, NEW rw, NEW s, AlikeBut(rx, ry, s), AlikeBut(ry, rw, s)
    PROVE  AlikeBut(rx, rw, s)
BY DEF AlikeBut

LEMMA CommitKeepsBook ==
    ASSUME NEW o, OrderFits(o), NEW rw, NEW e, BookSound(o, rw, e), NEW f, TakesFront(e.book, o, f)
    PROVE  BookSound(o, rw, CommitFill(o, e, f))
<1> DEFINE c    == CommitFill(o, e, f)
           h    == MakerFor(e.book, o, f)
           side == Facing(o.side)
           q    == e.book[side][f.price]
           left == h.qty - f.qty
           row  == [account |-> h.account, symbol |-> o.symbol, side |-> side,
                    price |-> f.price, qty |-> left]
           Done ==
               /\ BookFits(c.book) /\ Uncrossed(c.book) /\ RowsFit(c.rows)
               /\ Shows(c.book, o.symbol, c.rows)
               /\ AlikeBut(c.rows, e.rows, o.symbol)
               /\ DOMAIN c.rows \subseteq DOMAIN e.rows
               /\ c.openOrders = IndexOf(c.rows)
<1>0. /\ IsExec(e) /\ BookFits(e.book) /\ Uncrossed(e.book) /\ RowsFit(e.rows)
      /\ Shows(e.book, o.symbol, e.rows) /\ AlikeBut(e.rows, rw, o.symbol)
      /\ DOMAIN e.rows \subseteq DOMAIN rw /\ e.openOrders = IndexOf(e.rows)
      /\ e.left \in Int /\ e.stop \in Stops
  BY DEF BookSound
<1>1. /\ IsExec(c) /\ c.left = e.left - f.qty /\ c.stop = e.stop
  <2>1. c = CommitRecord(o, e, f)
    BY <1>0, CommitFields
  <2> HIDE DEF c
  <2>2. QED
    BY <2>1 DEF CommitRecord, IsExec
<1>2. MakerDone(c, o, e, f) \/ MakerStays(c, o, e, f)
  BY CommitParts
<1>2a. q = QueueOf(o, e, f) /\ left = LeftOf(o, e, f) /\ row = RowLeft(o, e, f)
  BY DEF QueueOf, LeftOf, RowLeft
<1>3. /\ side \in Sides /\ f.price \in DOMAIN e.book[side] /\ f.price \in Cents
      /\ QueueFits(q) /\ q # <<>> /\ h = Head(q) /\ q = Level(e.book, side, f.price)
      /\ f.maker = h.id /\ h \in Entry /\ f.qty \in Int /\ f.maker \in Nat
  <2>1. side \in Sides /\ SideFits(e.book[side])
    BY <1>0, SidesOfBook DEF OrderFits
  <2>2. f.price \in DOMAIN e.book[side] /\ f.price \in Cents /\ f.maker = h.id /\ h \in Entry
        /\ f.qty \in Int /\ h = Head(q)
    BY DEF TakesFront, MakerFor, Tenths
  <2>3. QueueFits(q) /\ q # <<>> /\ q = Level(e.book, side, f.price)
    BY <2>1, <2>2 DEF SideFits, Level
  <2>4. f.maker \in Nat
    BY <2>2 DEF Entry
  <2>5. QED
    BY <2>1, <2>2, <2>3, <2>4
<1>4. f.maker \in DOMAIN e.rows /\ e.rows[f.maker].symbol = o.symbol
      /\ e.rows[f.maker].side = side /\ e.rows[f.maker].price = f.price
  <2>1. MakersRow(o, e.book, e.rows, f)
    BY <1>0, RowOfMaker
  <2>2. QED
    BY <2>1 DEF MakersRow
<1> HIDE DEF c, h, q, left, row
<1>5. ASSUME MakerDone(c, o, e, f) PROVE Done
  <2> DEFINE t == Tail(q)
  <2>1. QueueFits(t) /\ ToSet(t) = Others(Level(e.book, side, f.price), f.maker)
    BY <1>3, TailFits
  <2> HIDE DEF t
  <2>2. Replaced(WithLevel(e.book, side, f.price, t), e.book, side, f.price, t)
    BY <1>0, <1>3, <2>1, WithLevelFits
  <2>3. Uncrossed(WithLevel(e.book, side, f.price, t))
    BY <1>0, <1>3, <2>1, StaysUncrossed
  <2>4. LosesRow(Without(e.rows, {f.maker}), e.rows, f.maker)
    BY <1>0, RowGone
  <2>5. /\ Shows(WithLevel(e.book, side, f.price, t), o.symbol, Without(e.rows, {f.maker}))
        /\ AlikeBut(Without(e.rows, {f.maker}), e.rows, o.symbol)
    BY <1>0, <1>3, <1>4, <2>1, ShowsWithout
  <2>6. c.book = WithLevel(e.book, side, f.price, t) /\ c.rows = Without(e.rows, {f.maker})
        /\ c.openOrders = Without(e.openOrders, {f.maker})
    BY <1>2a, <1>5 DEF t, MakerDone
  <2>7. c.openOrders = IndexOf(c.rows)
    BY <1>0, <2>6, IndexLoses, ZenonT(40)
  <2>8. QED
    BY <2>2, <2>3, <2>4, <2>5, <2>6, <2>7 DEF Replaced, LosesRow
<1>6. ASSUME MakerStays(c, o, e, f) PROVE Done
  <2> DEFINE g == [Head(q) EXCEPT !.qty = left]
             t == <<g>> \o Tail(q)
  <2>1. left \in Tenths
    BY <1>2a, <1>6 DEF MakerStays
  <2>2. /\ g = [id |-> q[1].id, account |-> q[1].account, qty |-> left]
        /\ QueueFits(t) /\ t # <<>>
        /\ ToSet(t) = {g} \cup Others(q, Head(q).id)
    BY <1>3, <2>1, FrontShrinks
  <2>3. Head(q) = q[1]
    BY <1>3, TailFits
  <2>4. g = EntryOf(f.maker, row)
    BY <1>3, <2>2, <2>3 DEF EntryOf, row
  <2> HIDE DEF t, g
  <2>5. ToSet(t) = Others(Level(e.book, side, f.price), f.maker) \cup {EntryOf(f.maker, row)}
    BY <1>3, <2>2, <2>4
  <2>6. row \in Row /\ row.symbol = o.symbol /\ row.side = side /\ row.price = f.price
    BY <1>2a, <1>6 DEF MakerStays, row
  <2>7. Replaced(WithLevel(e.book, side, f.price, t), e.book, side, f.price, t)
    BY <1>0, <1>3, <2>2, WithLevelFits
  <2>8. Uncrossed(WithLevel(e.book, side, f.price, t))
    BY <1>0, <1>3, <2>2, StaysUncrossed
  <2>9. TakesRow(Put(e.rows, f.maker, row), e.rows, f.maker, row)
    BY <1>0, <1>3, <2>6, RowPut
  <2>10. /\ Shows(WithLevel(e.book, side, f.price, t), o.symbol, Put(e.rows, f.maker, row))
         /\ AlikeBut(Put(e.rows, f.maker, row), e.rows, o.symbol)
    BY <1>0, <1>3, <1>4, <2>2, <2>5, <2>6, ShowsPut, ZenonT(40)
  <2>11. c.book = WithLevel(e.book, side, f.price, t) /\ c.rows = Put(e.rows, f.maker, row)
         /\ c.openOrders = e.openOrders
    BY <1>2a, <1>6 DEF t, g, MakerStays
  <2>12. c.openOrders = IndexOf(c.rows)
    BY <1>0, <1>4, <2>6, <2>11, IndexStays
  <2>13. DOMAIN c.rows \subseteq DOMAIN e.rows
    BY <1>4, <2>9, <2>11 DEF TakesRow
  <2>14. QED
    BY <2>7, <2>8, <2>9, <2>10, <2>11, <2>12, <2>13 DEF Replaced, TakesRow
<1>7. /\ BookFits(c.book) /\ Uncrossed(c.book) /\ RowsFit(c.rows)
      /\ Shows(c.book, o.symbol, c.rows)
      /\ AlikeBut(c.rows, e.rows, o.symbol)
      /\ DOMAIN c.rows \subseteq DOMAIN e.rows
      /\ c.openOrders = IndexOf(c.rows)
  BY <1>2, <1>5, <1>6
<1>8. AlikeBut(c.rows, rw, o.symbol)
  BY <1>0, <1>7, AlikeOnward
<1>9. c.left \in Int /\ c.stop \in Stops
  BY <1>0, <1>1, <1>3
<1>10. BookSound(o, rw, c)
  BY <1>0, <1>1, <1>7, <1>8, <1>9 DEF BookSound
<1>11. QED
  BY <1>10 DEF c

-----------------------------------------------------------------------------
(* The turns of an execution: nothing happens, the order is stopped, or one *)
(* fill of the front of the best level is committed.                        *)

Stopped(e, x) == x = [e EXCEPT !.stop = "overflow"] \/ x = [e EXCEPT !.stop = "panic"]

Settled(e, l) == [e EXCEPT !.ledger = l]

LEMMA StoppedFields ==
    ASSUME NEW e, IsExec(e), NEW x, Stopped(e, x)
    PROVE  /\ x = [book |-> e.book, ledger |-> e.ledger, positions |-> e.positions,
                   openOrders |-> e.openOrders, rows |-> e.rows, trades |-> e.trades,
                   left |-> e.left, stop |-> x.stop]
           /\ x.stop \in {"overflow", "panic"}
BY DEF IsExec, Stopped

LEMMA SettledFields ==
    ASSUME NEW e, IsExec(e), NEW l
    PROVE  Settled(e, l) = [book |-> e.book, ledger |-> l, positions |-> e.positions,
                            openOrders |-> e.openOrders, rows |-> e.rows, trades |-> e.trades,
                            left |-> e.left, stop |-> e.stop]
BY DEF IsExec, Settled

LEMMA StoppedKeepsBook ==
    ASSUME NEW o, NEW rw, NEW e, BookSound(o, rw, e), NEW x, Stopped(e, x)
    PROVE  BookSound(o, rw, x) /\ x.left = e.left /\ x.stop # "no" /\ x.book = e.book
<1>1. IsExec(e)
  BY DEF BookSound
<1>2. /\ x = [book |-> e.book, ledger |-> e.ledger, positions |-> e.positions,
              openOrders |-> e.openOrders, rows |-> e.rows, trades |-> e.trades,
              left |-> e.left, stop |-> x.stop]
      /\ x.stop \in {"overflow", "panic"}
  BY <1>1, StoppedFields
<1>3. /\ x.book = e.book /\ x.rows = e.rows /\ x.openOrders = e.openOrders /\ x.left = e.left
      /\ IsExec(x)
  BY <1>2 DEF IsExec
<1>4. QED
  BY <1>2, <1>3 DEF BookSound, Stops

LEMMA SettledKeepsBook ==
    ASSUME NEW o, NEW rw, NEW e, BookSound(o, rw, e), NEW l
    PROVE  /\ BookSound(o, rw, Settled(e, l))
           /\ Settled(e, l).book = e.book /\ Settled(e, l).ledger = l
           /\ Settled(e, l).left = e.left /\ Settled(e, l).stop = e.stop
           /\ Settled(e, l).positions = e.positions /\ Settled(e, l).trades = e.trades
           /\ Settled(e, l).rows = e.rows /\ Settled(e, l).openOrders = e.openOrders
<1> DEFINE x == Settled(e, l)
<1>1. IsExec(e)
  BY DEF BookSound
<1>2. x = [book |-> e.book, ledger |-> l, positions |-> e.positions,
           openOrders |-> e.openOrders, rows |-> e.rows, trades |-> e.trades,
           left |-> e.left, stop |-> e.stop]
  BY <1>1, SettledFields
<1> HIDE DEF x
<1>3. /\ x.book = e.book /\ x.rows = e.rows /\ x.openOrders = e.openOrders /\ x.left = e.left
      /\ x.ledger = l /\ x.stop = e.stop /\ x.positions = e.positions /\ x.trades = e.trades
      /\ IsExec(x)
  BY <1>2 DEF IsExec
<1>4. BookSound(o, rw, x)
  BY <1>3 DEF BookSound
<1>5. QED
  BY <1>3, <1>4 DEF x

\* An order is done when it is filled, stopped, or finds no maker.
OrderDone(o, e) == e.stop # "no" \/ e.left = 0 \/ ~HasNextFill(e.book, o)

\* One turn of execute.
FillNow(o, e) == NextFill(e.book, o, e.left)

TakesFill(o, e, x) ==
    /\ HasNextFill(e.book, o)
    /\ TakesFront(e.book, o, FillNow(o, e))
    /\ FillNow(o, e).qty <= e.left
    /\ FillNow(o, e).price = BestFacing(e.book, o)
    /\ FillFits(o, e.positions, FillNow(o, e))
    /\ CanSettle(e.ledger, FillNow(o, e).maker, o.id, FillNow(o, e).price, FillNow(o, e).qty)
    /\ x = CommitFill(o, Settled(e, AfterSettle(e.ledger, FillNow(o, e).maker, o.id,
                                                FillNow(o, e).price, FillNow(o, e).qty)),
                      FillNow(o, e))

LEMMA TurnOfExecute ==
    ASSUME NEW o, OrderFits(o), NEW rw, NEW e, BookSound(o, rw, e), e.left \in Nat,
           NEW x, x = ExecuteNext(o, e)
    PROVE  \/ x = e /\ OrderDone(o, e)
           \/ ~OrderDone(o, e) /\ Stopped(e, x)
           \/ ~OrderDone(o, e) /\ TakesFill(o, e, x)
<1> DEFINE f == FillNow(o, e)
<1>1. CASE OrderDone(o, e)
  BY <1>1 DEF ExecuteNext, OrderDone
<1>2. CASE ~OrderDone(o, e)
  <2>1. x = ExecuteFill(o, e, f)
    BY <1>2 DEF ExecuteNext, FillNow, OrderDone
  <2>2. e.left \in Tenths /\ BookFits(e.book) /\ HasNextFill(e.book, o)
    BY <1>2 DEF Tenths, BookSound, OrderDone
  <2>3. TakesFront(e.book, o, f) /\ f.qty <= e.left /\ f.price = BestFacing(e.book, o)
    BY <2>2, NextFillTakesFront DEF FillNow
  <2> HIDE DEF f
  <2>4. CASE ~FillFits(o, e.positions, f)
    BY <1>2, <2>1, <2>4 DEF ExecuteFill, Stopped
  <2>5. CASE FillFits(o, e.positions, f) /\ ~CanSettle(e.ledger, f.maker, o.id, f.price, f.qty)
    BY <1>2, <2>1, <2>5 DEF ExecuteFill, Stopped
  <2>6. CASE FillFits(o, e.positions, f) /\ CanSettle(e.ledger, f.maker, o.id, f.price, f.qty)
    <3>1. x = CommitFill(o, Settled(e, AfterSettle(e.ledger, f.maker, o.id, f.price, f.qty)), f)
      BY <2>1, <2>6 DEF ExecuteFill, Settled
    <3>2. TakesFill(o, e, x)
      BY <2>2, <2>3, <2>6, <3>1 DEF TakesFill, f
    <3>3. QED
      BY <1>2, <3>2
  <2>7. QED
    BY <2>4, <2>5, <2>6
<1>3. QED
  BY <1>1, <1>2

LEMMA TakesFillKeepsBook ==
    ASSUME NEW o, OrderFits(o), NEW rw, NEW e, BookSound(o, rw, e), e.left \in Nat,
           NEW x, TakesFill(o, e, x)
    PROVE  /\ BookSound(o, rw, x)
           /\ x.left \in Nat /\ x.left < e.left /\ x.left = e.left - FillNow(o, e).qty
<1> DEFINE f == FillNow(o, e)
           l == AfterSettle(e.ledger, f.maker, o.id, f.price, f.qty)
           s == Settled(e, l)
<1>1. /\ BookSound(o, rw, s) /\ s.book = e.book /\ s.left = e.left
  BY SettledKeepsBook
<1>2. TakesFront(s.book, o, f) /\ f.qty <= e.left /\ x = CommitFill(o, s, f)
  BY <1>1 DEF TakesFill
<1> HIDE DEF s, f
<1>3. BookSound(o, rw, x)
  BY <1>1, <1>2, CommitKeepsBook
<1>4. x.left = e.left - f.qty
  <2>1. IsExec(s)
    BY <1>1 DEF BookSound
  <2>2. CommitFill(o, s, f).left = s.left - f.qty
    <3>1. CommitFill(o, s, f) = CommitRecord(o, s, f)
      BY <2>1, CommitFields
    <3>2. CommitRecord(o, s, f).left = s.left - f.qty
      BY DEF CommitRecord
    <3>3. QED
      BY <3>1, <3>2
  <2>3. QED
    BY <1>1, <1>2, <2>2
<1>5. f.qty \in Tenths
  BY <1>2 DEF TakesFront
<1>6. x.left \in Nat /\ x.left < e.left
  BY <1>2, <1>4, <1>5 DEF Tenths
<1>7. QED
  BY <1>3, <1>4, <1>6 DEF f

\* The turns of an order, and what holds before and after each of them.
FillStep(o, e, x) == x = e \/ Stopped(e, x) \/ TakesFill(o, e, x)

FillChain(g, o, rw, e, n) ==
    /\ n \in Nat
    /\ g[1..0] = e
    /\ \A k \in 0..n : BookSound(o, rw, g[1..k]) /\ g[1..k].left \in Nat
    /\ \A k \in 1..n : FillStep(o, g[1..(k - 1)], g[1..k])
    /\ ExecuteTurns(o, e, n) = g[1..n]
    /\ OrderDone(o, g[1..n])

\* After as many turns as the order has tenths, it is filled, stopped, or finds
\* no maker any more.
LEMMA ExecuteRuns ==
    ASSUME NEW o, OrderFits(o), NEW rw, NEW e, BookSound(o, rw, e), e.left = o.qty
    PROVE  \E g : FillChain(g, o, rw, e, o.qty)
<1> DEFINE n == o.qty
           Kept(x, k) == /\ BookSound(o, rw, x) /\ x.left \in Nat
                         /\ OrderDone(o, x) \/ x.left <= n - k
<1>1. n \in Nat
  BY DEF OrderFits, Tenths
<1>2. PICK g : /\ g[1..0] = e
               /\ \A k \in 1..n : g[1..k] = ExecuteNext(o, g[1..(k - 1)])
               /\ ExecuteTurns(o, e, n) = g[1..n]
  BY <1>1, TurnsOfExecute
<1> HIDE DEF n
<1> DEFINE good == {k \in Nat : k <= n => Kept(g[1..k], k)}
<1>3. 0 \in good
  BY <1>1, <1>2 DEF n
<1>4. ASSUME NEW k \in Nat, k + 1 <= n, Kept(g[1..k], k) PROVE Kept(g[1..(k + 1)], k + 1)
  <2> DEFINE y == g[1..k]
             x == g[1..(k + 1)]
  <2>1. x = ExecuteNext(o, y)
    <3>1. k + 1 \in 1..n /\ (k + 1) - 1 = k
      BY <1>1, <1>4
    <3>2. QED
      BY <1>2, <3>1
  <2>2. BookSound(o, rw, y) /\ y.left \in Nat /\ (OrderDone(o, y) \/ y.left <= n - k)
    BY <1>4
  <2> SUFFICES Kept(x, k + 1)
    OBVIOUS
  <2> HIDE DEF x, y
  <2>3. \/ x = y /\ OrderDone(o, y)
        \/ ~OrderDone(o, y) /\ Stopped(y, x)
        \/ ~OrderDone(o, y) /\ TakesFill(o, y, x)
    BY <2>1, <2>2, TurnOfExecute
  <2>4. CASE x = y /\ OrderDone(o, y)
    BY <2>2, <2>4
  <2>5. CASE Stopped(y, x)
    BY <2>2, <2>5, StoppedKeepsBook DEF OrderDone
  <2>6. CASE ~OrderDone(o, y) /\ TakesFill(o, y, x)
    <3>1. BookSound(o, rw, x) /\ x.left \in Nat /\ x.left < y.left
      BY <2>2, <2>6, TakesFillKeepsBook
    <3>2. y.left <= n - k
      BY <2>2, <2>6
    <3>3. x.left <= n - (k + 1)
      BY <1>1, <2>2, <3>1, <3>2
    <3>4. QED
      BY <3>1, <3>3
  <2>7. QED
    BY <2>3, <2>4, <2>5, <2>6
<1>5. \A k \in Nat : k \in good
  <2>1. \A k \in Nat : k \in good => k + 1 \in good
    <3>1. ASSUME NEW k \in Nat, k \in good, k + 1 <= n PROVE Kept(g[1..(k + 1)], k + 1)
      <4>1. k <= n
        BY <1>1, <3>1
      <4>2. Kept(g[1..k], k)
        BY <3>1, <4>1
      <4> HIDE DEF Kept
      <4>3. QED
        BY <1>4, <3>1, <4>2
    <3> HIDE DEF Kept
    <3>2. QED
      BY <3>1
  <2> HIDE DEF good
  <2>2. QED
    BY <1>3, <2>1, EveryNatural
<1>6. \A k \in 0..n : Kept(g[1..k], k)
  <2> HIDE DEF Kept
  <2>1. QED
    BY <1>1, <1>5
<1> DEFINE z == g[1..n]
<1>7. OrderDone(o, z) \/ z.left = 0
  <2>1. z.left \in Nat /\ (OrderDone(o, z) \/ z.left <= n - n)
    BY <1>1, <1>6
  <2> HIDE DEF z
  <2>2. QED
    BY <1>1, <2>1
<1>8. OrderDone(o, z)
  BY <1>7 DEF OrderDone
<1>9. ASSUME NEW k \in 1..n PROVE FillStep(o, g[1..(k - 1)], g[1..k])
  <2>1. k - 1 \in 0..n
    BY <1>1
  <2>2. PICK y, x : y = g[1..(k - 1)] /\ x = g[1..k]
    OBVIOUS
  <2>3. BookSound(o, rw, y) /\ y.left \in Nat /\ x = ExecuteNext(o, y)
    BY <1>2, <1>6, <2>1, <2>2
  <2>4. FillStep(o, y, x)
    BY <2>3, TurnOfExecute DEF FillStep
  <2>5. QED
    BY <2>2, <2>4
<1>10. \A k \in 0..n : BookSound(o, rw, g[1..k]) /\ g[1..k].left \in Nat
  BY <1>6
<1>11. FillChain(g, o, rw, e, n)
  BY <1>1, <1>2, <1>8, <1>9, <1>10 DEF FillChain
<1>12. QED
  BY <1>11 DEF n

LEMMA ExecuteKeepsBook ==
    ASSUME NEW o, OrderFits(o), NEW rw, NEW e, BookSound(o, rw, e), e.left = o.qty
    PROVE  /\ BookSound(o, rw, ExecuteTurns(o, e, o.qty))
           /\ OrderDone(o, ExecuteTurns(o, e, o.qty))
           /\ ExecuteTurns(o, e, o.qty).left \in Nat
<1>1. PICK g : FillChain(g, o, rw, e, o.qty)
  BY ExecuteRuns
<1>2. o.qty \in 0..o.qty
  BY <1>1 DEF FillChain
<1>3. QED
  BY <1>1, <1>2 DEF FillChain

-----------------------------------------------------------------------------
(* The plan of a fill-or-kill order: the makers it reaches, in the order of *)
(* their rank, each by a positive quantity.                                 *)

QtyAt(book, o) == [x \in Spots(book, o) |-> WaitingAt(book, o, x).qty]

LEMMA SpotsFit ==
    ASSUME NEW book, BookFits(book), NEW o, OrderFits(o)
    PROVE  /\ IsFiniteSet(Spots(book, o))
           /\ \A x \in Spots(book, o) :
                 /\ x = <<x[1], x[2]>> /\ x[1] \in Cents /\ x[2] \in Nat
                 /\ WaitingAt(book, o, x) \in Entry
           /\ \A x \in Spots(book, o) : QtyAt(book, o)[x] \in Nat
<1> DEFINE side == book[Facing(o.side)]
           S == CrossingPrices(book, o, o.limit)
           F == [p \in S |-> {p} \X DOMAIN side[p]]
<1>1. SideFits(side)
  BY SidesOfBook DEF OrderFits
<1>2. IsFiniteSet(S) /\ S \subseteq DOMAIN side
  <2>1. S \subseteq DOMAIN side
    BY DEF CrossingPrices
  <2>2. QED
    BY <1>1, <2>1, FS_Subset DEF SideFits
<1>3. \A p \in S : p \in Cents /\ QueueFits(side[p])
  BY <1>1, <1>2 DEF SideFits
<1> HIDE DEF side, S
<1>4. \A p \in S : IsFiniteSet(F[p])
  <2>1. ASSUME NEW p \in S PROVE IsFiniteSet({p} \X DOMAIN side[p])
    <3>1. DOMAIN side[p] = 1..Len(side[p]) /\ Len(side[p]) \in Int /\ 1 \in Int
      BY <1>3 DEF QueueFits
    <3>2. IsFiniteSet(DOMAIN side[p])
      BY <3>1, FS_Interval
    <3>3. IsFiniteSet({p})
      BY FS_Singleton
    <3>4. QED
      BY <3>2, <3>3, FS_Product
  <2>2. QED
    BY <2>1
<1>5. Spots(book, o) = UNION Range(F)
  BY DEF Spots, side, S, Range
<1>6. IsFiniteSet(Range(F)) /\ \A T \in Range(F) : IsFiniteSet(T)
  BY <1>2, <1>4, RangeIsFinite, ZenonT(40) DEF Range
<1>7. IsFiniteSet(Spots(book, o))
  BY <1>5, <1>6, FS_UNION
<1>8. ASSUME NEW x \in Spots(book, o)
      PROVE  /\ x = <<x[1], x[2]>> /\ x[1] \in Cents /\ x[2] \in Nat
             /\ WaitingAt(book, o, x) \in Entry
  <2>1. PICK p \in S : x \in {p} \X DOMAIN side[p]
    BY <1>5 DEF Range
  <2>2. x = <<x[1], x[2]>> /\ x[1] = p /\ x[2] \in DOMAIN side[p]
    BY <2>1
  <2>3. p \in Cents /\ QueueFits(side[p])
    BY <1>3
  <2>4. x[2] \in 1..Len(side[p]) /\ x[2] \in Nat
    BY <2>2, <2>3 DEF QueueFits
  <2>5. side[p][x[2]] \in Entry
    BY <2>3, <2>4, EntriesOfQueue
  <2>6. WaitingAt(book, o, x) = side[p][x[2]]
    BY <2>2 DEF WaitingAt, side
  <2>7. QED
    BY <2>2, <2>3, <2>4, <2>5, <2>6
<1>9. \A x \in Spots(book, o) : QtyAt(book, o)[x] \in Nat
  BY <1>8 DEF QtyAt, Entry, Tenths
<1>10. QED
  BY <1>7, <1>8, <1>9

\* Spots in their order.
SoonerThan(book, o) ==
    {xy \in Spots(book, o) \X Spots(book, o) : Sooner(o, xy[1], xy[2])}

LEMMA SpotsInOrder ==
    ASSUME NEW book, BookFits(book), NEW o, OrderFits(o)
    PROVE  /\ StrictOrder(SoonerThan(book, o), Spots(book, o))
           /\ \A x, y \in Spots(book, o) : <<x, y>> \in SoonerThan(book, o) <=> Sooner(o, x, y)
<1> DEFINE T == Spots(book, o)
           R == SoonerThan(book, o)
<1>1. \A x \in T : x = <<x[1], x[2]>> /\ x[1] \in Int /\ x[2] \in Int
  BY SpotsFit DEF Cents
<1>2. \A x, y \in T : <<x, y>> \in R <=> Sooner(o, x, y)
  BY DEF SoonerThan
<1>3. o.side = "buy" \/ o.side = "sell"
  BY DEF OrderFits, Sides
<1> HIDE DEF T, R
<1>4. \A x \in T : ~Sooner(o, x, x)
  <2>1. ASSUME NEW x \in T PROVE ~Sooner(o, x, x)
    <3>1. x[1] \in Int /\ x[2] \in Int
      BY <1>1
    <3>2. QED
      BY <3>1 DEF Sooner, Better
  <2>2. QED
    BY <2>1
<1>5. ASSUME NEW x \in T, NEW y \in T, NEW z \in T, Sooner(o, x, y), Sooner(o, y, z)
      PROVE  Sooner(o, x, z)
  <2>1. /\ x[1] \in Int /\ x[2] \in Int /\ y[1] \in Int /\ y[2] \in Int
        /\ z[1] \in Int /\ z[2] \in Int
    BY <1>1
  <2>2. CASE o.side = "buy"
    BY <1>5, <2>1, <2>2 DEF Sooner, Better
  <2>3. CASE o.side = "sell"
    BY <1>5, <2>1, <2>3 DEF Sooner, Better
  <2>4. QED
    BY <1>3, <2>2, <2>3
<1>6. ASSUME NEW x \in T, NEW y \in T PROVE x = y \/ Sooner(o, x, y) \/ Sooner(o, y, x)
  <2>1. /\ x[1] \in Int /\ x[2] \in Int /\ y[1] \in Int /\ y[2] \in Int
        /\ x = <<x[1], x[2]>> /\ y = <<y[1], y[2]>>
    BY <1>1
  <2>2. (x[1] = y[1] /\ x[2] = y[2]) => x = y
    BY <2>1
  <2>3. CASE o.side = "buy"
    BY <2>1, <2>2, <2>3 DEF Sooner, Better
  <2>4. CASE o.side = "sell"
    BY <2>1, <2>2, <2>4 DEF Sooner, Better
  <2>5. QED
    BY <1>3, <2>3, <2>4
<1>7. StrictOrder(R, T)
  BY <1>2, <1>4, <1>5, <1>6 DEF StrictOrder
<1>8. QED
  BY <1>2, <1>7 DEF T, R

\* What waits ahead of a spot, as a sum over the spots.
LEMMA QuantityAheadGrows ==
    ASSUME NEW book, BookFits(book), NEW o, OrderFits(o)
    PROVE  /\ \A x : QuantityAhead(book, o, x) \in Nat
           /\ \A x, y \in Spots(book, o) :
                 Sooner(o, y, x) => QuantityAhead(book, o, y) <= QuantityAhead(book, o, x)
<1> DEFINE T == Spots(book, o)
           fun == QtyAt(book, o)
           A(x) == Ahead(book, o, x)
<1>1. IsFiniteSet(T) /\ \A x \in T : fun[x] \in Nat
  BY SpotsFit
<1>2. ASSUME NEW x PROVE QuantityAhead(book, o, x) = SumFunctionOnSet(fun, A(x)) /\ A(x) \subseteq T
  <2> DEFINE gun == [y \in A(x) |-> WaitingAt(book, o, y).qty]
  <2>1. A(x) \subseteq T /\ IsFiniteSet(A(x))
    BY <1>1, FS_Subset DEF Ahead
  <2>2. \A y \in A(x) : gun[y] = fun[y]
    BY <2>1 DEF QtyAt
  <2>3. QuantityAhead(book, o, x) = SumFunctionOnSet(gun, A(x))
    BY SumFunctionIsSum DEF QuantityAhead
  <2> HIDE DEF gun, A, fun
  <2>4. QED
    BY <2>1, <2>2, <2>3, SumOfSame
<1>3. ASSUME NEW x PROVE QuantityAhead(book, o, x) \in Nat
  <2>1. IsFiniteSet(A(x)) /\ \A y \in A(x) : fun[y] \in Nat
    BY <1>1, <1>2, FS_Subset
  <2> HIDE DEF A, fun
  <2>2. QED
    BY <1>2, <2>1, SumBoundsEach
<1>4. ASSUME NEW x \in T, NEW y \in T, Sooner(o, y, x)
      PROVE  QuantityAhead(book, o, y) <= QuantityAhead(book, o, x)
  <2>1. A(y) \subseteq A(x)
    <3>1. ASSUME NEW z \in A(y) PROVE z \in A(x)
      <4>1. z \in T /\ Sooner(o, z, y)
        BY DEF Ahead
      <4>2. Sooner(o, z, x)
        <5>1. StrictOrder(SoonerThan(book, o), T)
              /\ \A v, w \in T : <<v, w>> \in SoonerThan(book, o) <=> Sooner(o, v, w)
          BY SpotsInOrder
        <5> HIDE DEF T
        <5>2. QED
          BY <1>4, <4>1, <5>1 DEF StrictOrder
      <4>3. QED
        BY <4>1, <4>2 DEF Ahead
    <3>2. QED
      BY <3>1
  <2>2. IsFiniteSet(A(x)) /\ \A z \in A(x) : fun[z] \in Nat
    BY <1>1, <1>2, FS_Subset
  <2> HIDE DEF A, fun
  <2>3. QED
    BY <1>2, <2>1, <2>2, SumOfPart
<1>5. QED
  BY <1>3, <1>4

\* The spots the order reaches, and the one of a rank.
Touched(book, o) == {x \in Spots(book, o) : QuantityAhead(book, o, x) < o.qty}
SpotOf(book, o, i) == CHOOSE x \in Touched(book, o) : Cardinality(Ahead(book, o, x)) = i - 1
Planned(book, o, x) ==
    LET waiting == WaitingAt(book, o, x).qty
        wanted  == o.qty - QuantityAhead(book, o, x)
    IN  [maker |-> WaitingAt(book, o, x).id, account |-> WaitingAt(book, o, x).account,
         price |-> x[1], qty |-> IF waiting <= wanted THEN waiting ELSE wanted]

PlanByRank(book, o, n) ==
    /\ n \in Nat
    /\ n = Cardinality(Touched(book, o))
    /\ IsFiniteSet(Touched(book, o))
    /\ PlanFills(book, o) = [i \in 1..n |-> Planned(book, o, SpotOf(book, o, i))]
    /\ \A i \in 1..n : /\ SpotOf(book, o, i) \in Touched(book, o)
                       /\ Cardinality(Ahead(book, o, SpotOf(book, o, i))) = i - 1

LEMMA PlanRanks ==
    ASSUME NEW book, BookFits(book), NEW o, OrderFits(o)
    PROVE  \E n : PlanByRank(book, o, n)
<1> DEFINE T == Touched(book, o)
           R == SoonerThan(book, o)
           n == Cardinality(T)
<1>1. T \subseteq Spots(book, o)
  BY DEF Touched
<1>2. IsFiniteSet(T) /\ n \in Nat
  BY <1>1, SpotsFit, FS_Subset, FS_CardinalityType
<1>3. StrictOrder(R, T)
  BY <1>1, SpotsInOrder, OrderOfPart
<1>4. ASSUME NEW x \in T PROVE Before(R, T, x) = Ahead(book, o, x)
  <2>1. ASSUME NEW y \in Spots(book, o), Sooner(o, y, x) PROVE y \in T
    <3>1. QuantityAhead(book, o, y) <= QuantityAhead(book, o, x)
      BY <1>1, <2>1, QuantityAheadGrows
    <3>2. QuantityAhead(book, o, y) \in Nat /\ QuantityAhead(book, o, x) \in Nat
      BY QuantityAheadGrows
    <3>3. QuantityAhead(book, o, x) < o.qty /\ o.qty \in Nat
      BY DEF Touched, OrderFits, Tenths
    <3>4. QuantityAhead(book, o, y) < o.qty
      BY <3>1, <3>2, <3>3
    <3>5. QED
      BY <3>4 DEF Touched
  <2>2. \A y \in T : <<y, x>> \in R <=> Sooner(o, y, x)
    BY <1>1, SpotsInOrder
  <2> HIDE DEF T
  <2>3. QED
    BY <1>1, <2>1, <2>2 DEF Before, Ahead
<1>5. ASSUME NEW i \in 1..n PROVE /\ SpotOf(book, o, i) \in T
                                  /\ Cardinality(Ahead(book, o, SpotOf(book, o, i))) = i - 1
  <2>1. PICK x \in T : Cardinality(Before(R, T, x)) = i - 1
    BY <1>2, <1>3, EveryRankTaken
  <2>2. Cardinality(Ahead(book, o, x)) = i - 1
    BY <1>4, <2>1
  <2>3. QED
    BY <2>2 DEF SpotOf
<1>6. PlanFills(book, o) = [i \in 1..n |-> Planned(book, o, SpotOf(book, o, i))]
  BY DEF PlanFills, Planned, SpotOf, Touched
<1>7. PlanByRank(book, o, n)
  BY <1>2, <1>5, <1>6 DEF PlanByRank
<1>8. QED
  BY <1>7

\* What every fill of a plan is, however the book it was made for changes.
PlanFits(plan, n) ==
    /\ n \in Nat
    /\ plan = [i \in 1..n |-> plan[i]]
    /\ \A i \in 1..n : /\ plan[i].qty \in Tenths
                       /\ plan[i].account \in Accounts
                       /\ plan[i].price \in Cents

LEMMA PlanIsTyped ==
    ASSUME NEW book, BookFits(book), NEW o, OrderFits(o)
    PROVE  \E n : PlanFits(PlanFills(book, o), n)
<1>1. PICK n : PlanByRank(book, o, n)
  BY PlanRanks
<1> DEFINE plan == PlanFills(book, o)
<1>2. n \in Nat /\ plan = [i \in 1..n |-> Planned(book, o, SpotOf(book, o, i))]
  BY <1>1 DEF PlanByRank
<1>3. ASSUME NEW x \in Touched(book, o)
      PROVE  /\ Planned(book, o, x).qty \in Tenths
             /\ Planned(book, o, x).account \in Accounts
             /\ Planned(book, o, x).price \in Cents
  <2>1. x \in Spots(book, o) /\ QuantityAhead(book, o, x) < o.qty
    BY DEF Touched
  <2>2. WaitingAt(book, o, x) \in Entry /\ x[1] \in Cents
    BY <2>1, SpotsFit
  <2>3. WaitingAt(book, o, x).qty \in Tenths /\ WaitingAt(book, o, x).account \in Accounts
    BY <2>2 DEF Entry
  <2>4. o.qty \in Nat /\ QuantityAhead(book, o, x) \in Nat
    BY QuantityAheadGrows DEF OrderFits, Tenths
  <2> DEFINE waiting == WaitingAt(book, o, x).qty
             ahead   == QuantityAhead(book, o, x)
  <2>5. o.qty - ahead \in Tenths
    <3> HIDE DEF ahead
    <3>1. QED
      BY <2>1, <2>4 DEF Tenths, ahead
  <2>6. Planned(book, o, x).qty = IF waiting <= o.qty - ahead THEN waiting ELSE o.qty - ahead
    BY DEF Planned
  <2>7. Planned(book, o, x).account = WaitingAt(book, o, x).account
        /\ Planned(book, o, x).price = x[1]
    BY DEF Planned
  <2>8. QED
    BY <2>2, <2>3, <2>5, <2>6, <2>7
<1>4. \A i \in 1..n : SpotOf(book, o, i) \in Touched(book, o)
  BY <1>1 DEF PlanByRank
<1>5. \A i \in 1..n : plan[i] = Planned(book, o, SpotOf(book, o, i))
  BY <1>2
<1> HIDE DEF plan
<1>6. plan = [i \in 1..n |-> plan[i]]
  BY <1>2, <1>5
<1>7. PlanFits(plan, n)
  BY <1>2, <1>3, <1>4, <1>5, <1>6 DEF PlanFits
<1>8. QED
  BY <1>7 DEF plan

\* One turn of execute_fok.
TakesPlanned(o, e, f, x) ==
    /\ HasNextFill(e.book, o)
    /\ TakesFront(e.book, o, f)
    /\ f.price = BestFacing(e.book, o)
    /\ x = CommitFill(o, e, f)

LEMMA TurnOfPlan ==
    ASSUME NEW o, OrderFits(o), NEW rw, NEW e, BookSound(o, rw, e), NEW f, f.qty \in Tenths,
           NEW x, x = ExecutePlanned(o, e, f)
    PROVE  \/ x = e /\ e.stop # "no"
           \/ e.stop = "no" /\ x = [e EXCEPT !.stop = "panic"]
           \/ e.stop = "no" /\ TakesPlanned(o, e, f, x)
<1>1. CASE e.stop # "no"
  BY <1>1 DEF ExecutePlanned
<1>2. CASE e.stop = "no" /\ (~HasNextFill(e.book, o) \/ NextFill(e.book, o, f.qty) # f)
  BY <1>2 DEF ExecutePlanned
<1>3. CASE e.stop = "no" /\ HasNextFill(e.book, o) /\ NextFill(e.book, o, f.qty) = f
  <2>1. x = CommitFill(o, e, f)
    BY <1>3 DEF ExecutePlanned
  <2>2. BookFits(e.book)
    BY DEF BookSound
  <2>3. /\ TakesFront(e.book, o, NextFill(e.book, o, f.qty))
        /\ NextFill(e.book, o, f.qty).price = BestFacing(e.book, o)
    BY <1>3, <2>2, NextFillTakesFront
  <2>4. TakesFront(e.book, o, f) /\ f.price = BestFacing(e.book, o)
    BY <1>3, <2>3
  <2>5. QED
    BY <1>3, <2>1, <2>4 DEF TakesPlanned
<1>4. QED
  BY <1>1, <1>2, <1>3

PlanChain(g, o, rw, e, plan, n) ==
    /\ n \in Nat
    /\ PlanTurns(g, o, e, plan, n)
    /\ \A k \in 0..n : BookSound(o, rw, g[1..k])

LEMMA PlanRuns ==
    ASSUME NEW o, OrderFits(o), NEW rw, NEW e, BookSound(o, rw, e), NEW plan, NEW n,
           PlanFits(plan, n)
    PROVE  \E g : PlanChain(g, o, rw, e, plan, n)
<1>0. n \in Nat /\ DOMAIN plan = 1..n
  BY DEF PlanFits
<1>1. n \in Nat /\ \A i \in 1..n : plan[i].qty \in Tenths
  BY DEF PlanFits
<1>1a. PICK g : PlanTurns(g, o, e, plan, n)
  BY <1>0, TurnsOfPlan
<1>2. /\ g[1..0] = e
      /\ \A k \in 1..n : g[1..k] = ExecutePlanned(o, g[1..(k - 1)], plan[k])
      /\ ExecutePlan(o, e, plan) = g[1..n]
  BY <1>1a DEF PlanTurns
<1> DEFINE good == {k \in Nat : k <= n => BookSound(o, rw, g[1..k])}
<1>3. 0 \in good
  BY <1>1, <1>2
<1>4. ASSUME NEW k \in Nat, k \in good PROVE k + 1 \in good
  <2> SUFFICES ASSUME k + 1 <= n PROVE BookSound(o, rw, g[1..(k + 1)])
    OBVIOUS
  <2>1. k + 1 \in 1..n /\ (k + 1) - 1 = k /\ k <= n
    BY <1>1
  <2>2. BookSound(o, rw, g[1..k]) /\ g[1..(k + 1)] = ExecutePlanned(o, g[1..k], plan[k + 1])
    BY <1>2, <1>4, <2>1
  <2>3. PICK y, x, f : y = g[1..k] /\ x = g[1..(k + 1)] /\ f = plan[k + 1]
    OBVIOUS
  <2>4. BookSound(o, rw, y) /\ x = ExecutePlanned(o, y, f) /\ f.qty \in Tenths
    BY <1>1, <2>1, <2>2, <2>3
  <2>5. \/ x = y /\ y.stop # "no"
        \/ y.stop = "no" /\ x = [y EXCEPT !.stop = "panic"]
        \/ y.stop = "no" /\ TakesPlanned(o, y, f, x)
    BY <2>4, TurnOfPlan
  <2>6. BookSound(o, rw, x)
    <3>1. CASE x = y
      BY <2>4, <3>1
    <3>2. CASE x = [y EXCEPT !.stop = "panic"]
      BY <2>4, <3>2, StoppedKeepsBook DEF Stopped
    <3>3. CASE TakesPlanned(o, y, f, x)
      BY <2>4, <3>3, CommitKeepsBook DEF TakesPlanned
    <3>4. QED
      BY <2>5, <3>1, <3>2, <3>3
  <2>7. QED
    BY <2>3, <2>6
<1>5. \A k \in Nat : k \in good
  <2> HIDE DEF good
  <2>1. QED
    BY <1>3, <1>4, EveryNatural
<1>6. \A k \in 0..n : BookSound(o, rw, g[1..k])
  BY <1>1, <1>5
<1>7. PlanChain(g, o, rw, e, plan, n)
  BY <1>1, <1>1a, <1>6 DEF PlanChain
<1>8. QED
  BY <1>7

LEMMA PlanKeepsBook ==
    ASSUME NEW o, OrderFits(o), NEW rw, NEW e, BookSound(o, rw, e), NEW plan, NEW n,
           PlanFits(plan, n)
    PROVE  BookSound(o, rw, ExecutePlan(o, e, plan))
<1>1. PICK g : PlanChain(g, o, rw, e, plan, n)
  BY PlanRuns
<1>2. n \in 0..n
  BY <1>1 DEF PlanChain
<1>3. QED
  BY <1>1, <1>2 DEF PlanChain, PlanTurns

-----------------------------------------------------------------------------
(* The remainder. *)

\* As BookSound, where the order's own row may be there as well.
BookLeft(o, rw, e) ==
    /\ IsExec(e)
    /\ BookFits(e.book)
    /\ Uncrossed(e.book)
    /\ RowsFit(e.rows)
    /\ Shows(e.book, o.symbol, e.rows)
    /\ AlikeBut(e.rows, rw, o.symbol)
    /\ DOMAIN e.rows \subseteq DOMAIN rw \cup {o.id}
    /\ e.openOrders = IndexOf(e.rows)

OwnRow(o, left) ==
    [account |-> o.account, symbol |-> o.symbol, side |-> o.side, price |-> o.limit, qty |-> left]

RestRecord(o, e) ==
    [book |-> AfterResting(e.book, o, e.left), ledger |-> e.ledger, positions |-> e.positions,
     openOrders |-> Put(e.openOrders, o.id, [symbol |-> o.symbol, side |-> o.side,
                                             price |-> o.limit]),
     rows |-> Put(e.rows, o.id, OwnRow(o, e.left)), trades |-> e.trades,
     left |-> e.left, stop |-> e.stop]

LEMMA RestFields ==
    ASSUME NEW o, NEW e, IsExec(e)
    PROVE  RestingRemainder(o, e) = RestRecord(o, e)
<1> DEFINE b == AfterResting(e.book, o, e.left)
           i == Put(e.openOrders, o.id, [symbol |-> o.symbol, side |-> o.side,
                                         price |-> o.limit])
           r == Put(e.rows, o.id, OwnRow(o, e.left))
<1>1. RestingRemainder(o, e) = [e EXCEPT !.book = b, !.openOrders = i, !.rows = r]
  BY DEF RestingRemainder, OwnRow
<1> HIDE DEF b, i, r
<1>2. RestingRemainder(o, e) = [book |-> b, ledger |-> e.ledger, positions |-> e.positions,
                                openOrders |-> i, rows |-> r, trades |-> e.trades,
                                left |-> e.left, stop |-> e.stop]
  BY <1>1 DEF IsExec
<1>3. QED
  BY <1>2 DEF b, i, r, RestRecord

\* What is left of an order that meets nobody goes to the back of its level.
LEMMA RestKeepsBook ==
    ASSUME NEW o, OrderFits(o), NEW rw, NEW e, BookSound(o, rw, e), e.left \in Tenths,
           ~HasNextFill(e.book, o), \A id \in DOMAIN rw : id < o.id
    PROVE  BookLeft(o, rw, RestingRemainder(o, e))
<1> DEFINE q == Level(e.book, o.side, o.limit)
           w == WaitingEntry(o, e.left)
           t == Append(q, w)
           row == OwnRow(o, e.left)
           new == WithLevel(e.book, o.side, o.limit, t)
           c == RestingRemainder(o, e)
<1>0. /\ IsExec(e) /\ BookFits(e.book) /\ Uncrossed(e.book) /\ RowsFit(e.rows)
      /\ Shows(e.book, o.symbol, e.rows) /\ AlikeBut(e.rows, rw, o.symbol)
      /\ DOMAIN e.rows \subseteq DOMAIN rw /\ e.openOrders = IndexOf(e.rows)
  BY DEF BookSound
<1>1. /\ o.id \in Nat /\ o.account \in Accounts /\ o.symbol \in Symbols
      /\ o.side \in Sides /\ o.limit \in Cents
  BY DEF OrderFits
<1>2. w \in Entry /\ row \in Row /\ w = EntryOf(o.id, row) /\ w.id = o.id
      /\ row.symbol = o.symbol /\ row.side = o.side /\ row.price = o.limit
  BY <1>1 DEF WaitingEntry, Entry, OwnRow, Row, EntryOf
<1>3. QueueFits(q) /\ ToSet(q) = EntriesAt(e.rows, o.symbol, o.side, o.limit)
  BY <1>0, <1>1, SidesOfBook DEF Shows
<1> HIDE DEF w, q, row
<1>4. \A r \in ToSet(q) : r.id < w.id /\ r.id # o.id
  <2>1. ASSUME NEW r \in ToSet(q) PROVE r.id < w.id /\ r.id # o.id
    <3>1. r.id \in DOMAIN e.rows
      BY <1>0, <1>3, EntriesByRow
    <3>2. r.id \in Nat /\ r.id < o.id
      BY <1>0, <3>1 DEF RowsFit
    <3>3. QED
      BY <1>1, <1>2, <3>2
  <2>2. QED
    BY <2>1
<1>5. QueueFits(t) /\ ToSet(t) = ToSet(q) \cup {w} /\ t # <<>>
  BY <1>2, <1>3, <1>4, AppendFits
<1>6. ToSet(t) = Others(q, o.id) \cup {EntryOf(o.id, row)}
  BY <1>2, <1>4, <1>5 DEF Others
<1>7. o.id \notin DOMAIN e.rows
  BY <1>0, <1>1
<1> HIDE DEF t
<1>8. Replaced(new, e.book, o.side, o.limit, t)
  BY <1>0, <1>1, <1>5, WithLevelFits
<1>9. Uncrossed(new)
  BY <1>0, <1>1, <1>5, NothingCrosses
<1>10. TakesRow(Put(e.rows, o.id, row), e.rows, o.id, row)
  BY <1>0, <1>1, <1>2, RowPut
<1>11. /\ Shows(new, o.symbol, Put(e.rows, o.id, row))
       /\ AlikeBut(Put(e.rows, o.id, row), e.rows, o.symbol)
  BY <1>0, <1>1, <1>2, <1>5, <1>6, <1>7, ShowsPut DEF q
<1>12. /\ c.book = new /\ c.rows = Put(e.rows, o.id, row)
       /\ c.openOrders = Put(e.openOrders, o.id, [symbol |-> row.symbol, side |-> row.side,
                                                  price |-> row.price])
       /\ IsExec(c)
  <2>1. c = RestRecord(o, e)
    BY <1>0, RestFields
  <2>2. AfterResting(e.book, o, e.left) = new
    BY DEF AfterResting, t, w, q
  <2> HIDE DEF c, new
  <2>3. QED
    BY <1>2, <2>1, <2>2 DEF RestRecord, IsExec, row
<1> HIDE DEF c, new
<1>13. c.openOrders = IndexOf(c.rows)
  BY <1>0, <1>12, IndexTakes
<1>14. AlikeBut(c.rows, rw, o.symbol)
  BY <1>0, <1>11, <1>12, AlikeOnward
<1>15. RowsFit(c.rows) /\ DOMAIN c.rows = DOMAIN e.rows \cup {o.id}
  BY <1>10, <1>12 DEF TakesRow
<1>16. BookFits(c.book)
  BY <1>8, <1>12 DEF Replaced
<1>17. BookLeft(o, rw, c)
  BY <1>0, <1>9, <1>11, <1>12, <1>13, <1>14, <1>15, <1>16 DEF BookLeft
<1>18. QED
  BY <1>17 DEF c

LEMMA RemainderKeepsBook ==
    ASSUME NEW o, OrderFits(o), NEW rw, NEW e, BookSound(o, rw, e),
           o.tif = "GTC" => OrderDone(o, e) /\ e.left \in Nat,
           \A id \in DOMAIN rw : id < o.id
    PROVE  BookLeft(o, rw, AfterRemainder(o, e))
<1> DEFINE x == AfterRemainder(o, e)
<1>0. \A y : BookSound(o, rw, y) => BookLeft(o, rw, y)
  BY DEF BookSound, BookLeft
<1>1. CASE e.stop = "no" /\ Rests(o, e.left)
  <2>1. o.tif = "GTC" /\ e.left > 0
    BY <1>1 DEF Rests
  <2>2. e.left \in Tenths /\ ~HasNextFill(e.book, o)
    BY <1>1, <2>1 DEF OrderDone, Tenths
  <2>3. x = RestingRemainder(o, e)
    BY <1>1 DEF AfterRemainder
  <2> HIDE DEF x
  <2>4. QED
    BY <2>2, <2>3, RestKeepsBook DEF x
<1>2. CASE ~(e.stop = "no" /\ Rests(o, e.left))
  <2>1. \/ x = e
        \/ x = [e EXCEPT !.stop = "panic"]
        \/ x = Settled(e, AfterRelease(e.ledger, o.id))
    BY <1>2 DEF AfterRemainder, Settled
  <2> HIDE DEF x
  <2>2. CASE x = e
    BY <1>0, <2>2 DEF x
  <2>3. CASE x = [e EXCEPT !.stop = "panic"]
    <3>1. BookSound(o, rw, x)
      BY <2>3, StoppedKeepsBook DEF Stopped
    <3>2. QED
      BY <1>0, <3>1 DEF x
  <2>4. CASE x = Settled(e, AfterRelease(e.ledger, o.id))
    <3>1. BookSound(o, rw, x)
      BY <2>4, SettledKeepsBook
    <3>2. QED
      BY <1>0, <3>1 DEF x
  <2>5. QED
    BY <2>1, <2>2, <2>3, <2>4
<1>3. QED
  BY <1>1, <1>2

-----------------------------------------------------------------------------
(* The exchange's books, rows and index together. *)

BookAt(map, s) == IF s \in DOMAIN map THEN map[s] ELSE EmptyBook

MapFits(map) ==
    /\ map = [s \in DOMAIN map |-> map[s]]
    /\ DOMAIN map \subseteq Symbols
    /\ \A s \in DOMAIN map : BookFits(map[s]) /\ Uncrossed(map[s]) /\ ~IsEmptyBook(map[s])

Sound(map, rw, index) ==
    /\ MapFits(map)
    /\ RowsFit(rw)
    /\ \A s \in Symbols : Shows(BookAt(map, s), s, rw)
    /\ index = IndexOf(rw)

LEMMA BookAtFits ==
    ASSUME NEW map, MapFits(map), NEW s
    PROVE  BookFits(BookAt(map, s)) /\ Uncrossed(BookAt(map, s))
BY EmptyBookFits DEF MapFits, BookAt

\* One book takes another's place, and an empty one leaves.
MapTakes(new, map, s, book) ==
    /\ MapFits(new)
    /\ BookAt(new, s) = book
    /\ \A t \in Symbols \ {s} : BookAt(new, t) = BookAt(map, t)

LEMMA BookTaken ==
    ASSUME NEW map, MapFits(map), NEW s \in Symbols, NEW book, BookFits(book), Uncrossed(book)
    PROVE  MapTakes(PruneBook(Put(map, s, book), s), map, s, book)
<1> DEFINE put == Put(map, s, book)
           new == PruneBook(put, s)
<1>1. /\ DOMAIN put = DOMAIN map \cup {s} /\ put[s] = book
      /\ \A t \in DOMAIN map \ {s} : put[t] = map[t]
      /\ put = [t \in DOMAIN put |-> put[t]]
  BY DEF Put
<1>2. DOMAIN map \subseteq Symbols
      /\ \A t \in DOMAIN map : BookFits(map[t]) /\ Uncrossed(map[t]) /\ ~IsEmptyBook(map[t])
  BY DEF MapFits
<1> HIDE DEF put
<1>3. CASE IsEmptyBook(book)
  <2>1. new = Without(put, {s})
    BY <1>1, <1>3 DEF PruneBook
  <2>2. /\ DOMAIN new = DOMAIN map \ {s}
        /\ \A t \in DOMAIN map \ {s} : new[t] = map[t]
        /\ new = [t \in DOMAIN new |-> new[t]]
    BY <1>1, <2>1 DEF Without, Restrict
  <2> HIDE DEF new
  <2>3. MapFits(new)
    BY <1>2, <2>2 DEF MapFits
  <2>4. BookAt(new, s) = book
    BY <1>3, <2>2, EmptyBookFits DEF BookAt
  <2>5. \A t \in Symbols \ {s} : BookAt(new, t) = BookAt(map, t)
    BY <2>2 DEF BookAt
  <2>6. MapTakes(new, map, s, book)
    BY <2>3, <2>4, <2>5 DEF MapTakes
  <2>7. QED
    BY <2>6 DEF new, put
<1>4. CASE ~IsEmptyBook(book)
  <2>1. new = put
    BY <1>1, <1>4 DEF PruneBook
  <2> HIDE DEF new
  <2>2. MapFits(new)
    BY <1>1, <1>2, <1>4, <2>1 DEF MapFits
  <2>3. BookAt(new, s) = book
    BY <1>1, <2>1 DEF BookAt
  <2>4. \A t \in Symbols \ {s} : BookAt(new, t) = BookAt(map, t)
    BY <1>1, <2>1 DEF BookAt
  <2>5. MapTakes(new, map, s, book)
    BY <2>2, <2>3, <2>4 DEF MapTakes
  <2>6. QED
    BY <2>5 DEF new, put
<1>5. QED
  BY <1>3, <1>4

\* What a message changes is one symbol's: the book, the rows and the index
\* after it are sound when that symbol's are.
LEMMA SoundAfter ==
    ASSUME NEW map, NEW rw, NEW index, Sound(map, rw, index), NEW s \in Symbols,
           NEW new, NEW book, MapTakes(new, map, s, book),
           NEW rx, RowsFit(rx), Shows(book, s, rx), AlikeBut(rx, rw, s),
           NEW ix, ix = IndexOf(rx)
    PROVE  Sound(new, rx, ix)
<1>1. MapFits(new) /\ BookAt(new, s) = book
  BY DEF MapTakes
<1>2. ASSUME NEW t \in Symbols PROVE Shows(BookAt(new, t), t, rx)
  <2>1. CASE t = s
    BY <1>1, <2>1
  <2>2. CASE t # s
    <3>1. BookAt(new, t) = BookAt(map, t)
      BY <2>2 DEF MapTakes
    <3>2. Shows(BookAt(map, t), t, rw)
      BY DEF Sound
    <3>3. \A side \in Sides, p \in Cents : EntriesAt(rx, t, side, p) = EntriesAt(rw, t, side, p)
      BY <2>2 DEF AlikeBut
    <3>4. QED
      BY <3>1, <3>2, <3>3 DEF Shows
  <2>3. QED
    BY <2>1, <2>2
<1>3. QED
  BY <1>1, <1>2 DEF Sound

\* The books, rows and index as an order finds and leaves them.
LEMMA StartingIsSound ==
    ASSUME Sound(books, rows, openOrders), NEW o, OrderFits(o), NEW l
    PROVE  /\ BookSound(o, rows, Starting(o, l))
           /\ Starting(o, l).left = o.qty
           /\ BookFits(BookOf(o.symbol))
<1> DEFINE e == Starting(o, l)
<1>1. e = [book |-> BookOf(o.symbol), ledger |-> l, positions |-> positions,
           openOrders |-> openOrders, rows |-> rows, trades |-> trades,
           left |-> o.qty, stop |-> "no"]
  BY DEF Starting
<1>2. BookOf(o.symbol) = BookAt(books, o.symbol)
  BY DEF BookOf, BookAt
<1>3. BookFits(BookOf(o.symbol)) /\ Uncrossed(BookOf(o.symbol))
  BY <1>2, BookAtFits DEF Sound
<1>4. Shows(BookOf(o.symbol), o.symbol, rows) /\ RowsFit(rows) /\ openOrders = IndexOf(rows)
  BY <1>2 DEF Sound, OrderFits
<1>5. o.qty \in Int
  BY DEF OrderFits, Tenths
<1> HIDE DEF e
<1>6. /\ e.book = BookOf(o.symbol) /\ e.rows = rows /\ e.openOrders = openOrders
      /\ e.left = o.qty /\ e.stop = "no" /\ IsExec(e)
  BY <1>1 DEF IsExec
<1>7. AlikeBut(rows, rows, o.symbol)
  BY DEF AlikeBut
<1>8. BookSound(o, rows, e)
  BY <1>3, <1>4, <1>5, <1>6, <1>7 DEF BookSound, Stops
<1>9. QED
  BY <1>3, <1>6, <1>8 DEF e

LEMMA ExecutionKeepsBook ==
    ASSUME Sound(books, rows, openOrders), NEW o, OrderFits(o)
    PROVE  /\ BookSound(o, rows, Execution(o))
           /\ ~IsStaged(o) => OrderDone(o, Execution(o)) /\ Execution(o).left \in Nat
<1>1. CASE IsStaged(o)
  <2> DEFINE e == Starting(o, Staged(o).ledger)
             plan == PlanFills(BookOf(o.symbol), o)
  <2>1. BookSound(o, rows, e) /\ BookFits(BookOf(o.symbol))
    BY StartingIsSound
  <2>2. PICK n : PlanFits(plan, n)
    BY <2>1, PlanIsTyped
  <2>3. Execution(o) = ExecutePlan(o, e, plan)
    BY <1>1 DEF Execution
  <2> HIDE DEF e, plan
  <2>4. QED
    BY <1>1, <2>1, <2>2, <2>3, PlanKeepsBook
<1>2. CASE ~IsStaged(o)
  <2> DEFINE e == Starting(o, ReservedFor(o))
  <2>1. BookSound(o, rows, e) /\ e.left = o.qty
    BY StartingIsSound
  <2>2. Execution(o) = ExecuteTurns(o, e, o.qty)
    BY <1>2 DEF Execution
  <2> HIDE DEF e
  <2>3. QED
    BY <2>1, <2>2, ExecuteKeepsBook
<1>3. QED
  BY <1>1, <1>2

LEMMA OrderKeepsBook ==
    ASSUME Sound(books, rows, openOrders), NEW o, OrderFits(o), o.tif \in {"GTC", "IOC", "FOK"},
           \A id \in DOMAIN rows : id < o.id,
           NEW e, e = AfterRemainder(o, Execution(o))
    PROVE  /\ Sound(PruneBook(Put(books, o.symbol, e.book), o.symbol), e.rows, e.openOrders)
           /\ DOMAIN e.rows \subseteq DOMAIN rows \cup {o.id}
<1> DEFINE x == Execution(o)
<1>1. /\ BookSound(o, rows, x)
      /\ ~IsStaged(o) => OrderDone(o, x) /\ x.left \in Nat
  BY ExecutionKeepsBook
<1>2. o.tif = "GTC" => ~IsStaged(o)
  BY DEF IsStaged
<1> HIDE DEF x
<1>3. BookLeft(o, rows, AfterRemainder(o, x))
  BY <1>1, <1>2, RemainderKeepsBook
<1>4. BookLeft(o, rows, e)
  BY <1>3 DEF x
<1>5. /\ BookFits(e.book) /\ Uncrossed(e.book) /\ RowsFit(e.rows)
      /\ Shows(e.book, o.symbol, e.rows) /\ AlikeBut(e.rows, rows, o.symbol)
      /\ DOMAIN e.rows \subseteq DOMAIN rows \cup {o.id} /\ e.openOrders = IndexOf(e.rows)
  BY <1>4 DEF BookLeft
<1>6. MapTakes(PruneBook(Put(books, o.symbol, e.book), o.symbol), books, o.symbol, e.book)
  BY <1>5, BookTaken DEF Sound, OrderFits
<1>7. o.symbol \in Symbols
  BY DEF OrderFits
<1>8. QED
  BY <1>5, <1>6, <1>7, SoundAfter

-----------------------------------------------------------------------------
(* The messages. *)

BooksInv ==
    /\ Sound(books, rows, openOrders)
    /\ lastSeen \in Nat
    /\ ~panicked => \A id \in DOMAIN rows : id <= lastSeen

\* The order an admitted message is executed as.
LEMMA BoundedFits ==
    ASSUME lastSeen \in Nat, NEW account \in Accounts, NEW symbol \in Symbols, NEW form \in Forms,
           NEW reference \in ReferencesFor(form),
           NEW arrived, arrived = Arrived(account, symbol, form), PriceBounded(arrived, reference),
           NEW o, o = Bounded(arrived, reference)
    PROVE  /\ OrderFits(o) /\ o.tif \in {"GTC", "IOC", "FOK"}
           /\ o.id = NextId /\ o.symbol = symbol /\ o.account = account /\ o.qty = form.qty
           /\ o.side = form.side /\ o.tif = form.tif
<1>1. /\ form.side \in Sides /\ form.limit \in Nat \ {0} /\ form.qty \in Nat \ {0}
      /\ form.tif \in {"GTC", "IOC", "FOK"}
  BY ExchangeInputs
<1>2. /\ arrived.id = NextId /\ arrived.account = account /\ arrived.symbol = symbol
      /\ arrived.side = form.side /\ arrived.limit = form.limit /\ arrived.qty = form.qty
      /\ arrived.market = form.market /\ arrived.tif = form.tif
      /\ arrived = [id |-> arrived.id, account |-> arrived.account, symbol |-> arrived.symbol,
                    side |-> arrived.side, limit |-> arrived.limit, qty |-> arrived.qty,
                    market |-> arrived.market, tif |-> arrived.tif,
                    postOnly |-> arrived.postOnly]
  BY DEF Arrived
<1> DEFINE limit == BoundedLimit(arrived, reference)
<1>3. limit \in Cents
  <2>1. CASE ~arrived.market
    BY <1>1, <1>2, <2>1 DEF BoundedLimit, Cents
  <2>2. CASE arrived.market
    <3>1. reference \in Nat /\ reference # 0
      BY <1>2, <2>2, ExchangeInputs DEF ReferencesFor, PriceBounded, NoReference
    <3>2. limit = Collared(arrived.side, arrived.limit, reference)
      BY <2>2 DEF BoundedLimit
    <3>3. (reference * 200) \div 10000 \in Nat
      BY <3>1
    <3> DEFINE share == (reference * 200) \div 10000
               band == IF share >= 1 THEN share ELSE 1
    <3>4. band \in Nat \ {0}
      <4> HIDE DEF share
      <4>1. QED
        BY <3>3 DEF share
    <3>5. Collared(arrived.side, arrived.limit, reference)
             = IF arrived.side = "buy"
               THEN IF arrived.limit <= reference + band THEN arrived.limit ELSE reference + band
               ELSE IF arrived.limit >= (IF reference - band >= 1 THEN reference - band ELSE 1)
                    THEN arrived.limit
                    ELSE IF reference - band >= 1 THEN reference - band ELSE 1
      BY DEF Collared, CollarBasisPoints
    <3> HIDE DEF band
    <3>6. arrived.limit \in Nat \ {0}
      BY <1>1, <1>2
    <3>7. reference + band \in Nat \ {0}
      BY <3>1, <3>4
    <3>8. (IF reference - band >= 1 THEN reference - band ELSE 1) \in Nat \ {0}
      BY <3>1, <3>4
    <3>9. QED
      BY <3>2, <3>5, <3>6, <3>7, <3>8 DEF Cents
  <2>3. QED
    BY <2>1, <2>2
<1>4. o = [arrived EXCEPT !.limit = limit]
  BY DEF Bounded
<1> HIDE DEF limit
<1>5. /\ o.id = NextId /\ o.account = account /\ o.symbol = symbol /\ o.side = form.side
      /\ o.limit = limit /\ o.qty = form.qty /\ o.tif = form.tif
  BY <1>2, <1>4
<1>6. NextId \in Nat
  BY DEF NextId
<1>7. QED
  BY <1>1, <1>3, <1>5, <1>6 DEF OrderFits, Tenths

\* A message counts, or the process is gone.
LEMMA ConsumedCounts ==
    ASSUME BooksInv, ~panicked, NEW l, Consumed(l)
    PROVE  /\ lastSeen' \in Nat
           /\ lastSeen' = lastSeen \/ lastSeen' = NextId
           /\ ~panicked' => lastSeen' = NextId /\ lastSeen < NextId /\ NextId = lastSeen + 1
BY DEF BooksInv, Consumed, NextId

LEMMA SoundStays ==
    ASSUME BooksInv, UNCHANGED <<books, rows, openOrders>>,
           lastSeen' \in Nat, lastSeen' >= lastSeen, ~panicked' => ~panicked
    PROVE  BooksInv'
<1>1. Sound(books, rows, openOrders)'
  BY DEF BooksInv, Sound
<1>2. lastSeen \in Nat /\ RowsFit(rows)
  BY DEF BooksInv, Sound
<1>3. ASSUME ~panicked', NEW id \in DOMAIN rows' PROVE id <= lastSeen'
  <2>1. id <= lastSeen /\ id \in Nat
    BY <1>2, <1>3 DEF BooksInv, RowsFit
  <2>2. QED
    BY <1>2, <2>1
<1>4. QED
  BY <1>1, <1>3 DEF BooksInv

LEMMA NewKeepsBooks ==
    ASSUME BooksInv, NEW account \in Accounts, NEW symbol \in Symbols, NEW form \in Forms,
           NEW reference \in ReferencesFor(form),
           New(Arrived(account, symbol, form), reference)
    PROVE  BooksInv'
<1> DEFINE arrived == Arrived(account, symbol, form)
           o == Bounded(arrived, reference)
<1>0. /\ Sound(books, rows, openOrders) /\ lastSeen \in Nat
      /\ RowsFit(rows) /\ MapFits(books)
  BY DEF BooksInv, Sound
<1>1. arrived.symbol = symbol
  BY DEF Arrived
<1>2. CASE RefuseEarly(arrived)
  <2>1. ~panicked /\ Consumed(ledger) /\ UNCHANGED <<books, rows, openOrders>>
    BY <1>2 DEF RefuseEarly, Running, market
  <2>2. lastSeen' \in Nat /\ lastSeen' >= lastSeen
    BY <2>1, ConsumedCounts, <1>0 DEF NextId
  <2>3. QED
    BY <2>1, <2>2, SoundStays
<1>3. CASE RefuseLate(arrived, reference)
  <2> DEFINE new == PruneBook(Put(books, symbol, BookOf(symbol)), symbol)
  <2>1. ~panicked /\ Consumed(ledger) /\ UNCHANGED <<rows, openOrders>> /\ books' = new
    BY <1>1, <1>3 DEF RefuseLate, Running
  <2>2. BookOf(symbol) = BookAt(books, symbol)
    BY DEF BookOf, BookAt
  <2>3. MapTakes(new, books, symbol, BookOf(symbol))
    BY <1>0, <2>2, BookAtFits, BookTaken
  <2> HIDE DEF new
  <2>4. Sound(new, rows, openOrders)
    <3>1. Shows(BookOf(symbol), symbol, rows) /\ openOrders = IndexOf(rows)
      BY <1>0, <2>2 DEF Sound
    <3>2. AlikeBut(rows, rows, symbol)
      BY DEF AlikeBut
    <3>3. QED
      BY <1>0, <2>3, <3>1, <3>2, SoundAfter
  <2>5. lastSeen' \in Nat /\ lastSeen' >= lastSeen
    BY <1>0, <2>1, ConsumedCounts DEF NextId
  <2>6. \A id \in DOMAIN rows : id <= lastSeen'
    <3>1. ASSUME NEW id \in DOMAIN rows PROVE id <= lastSeen'
      <4>1. id <= lastSeen /\ id \in Nat
        BY <1>0, <2>1 DEF BooksInv, RowsFit
      <4>2. QED
        BY <1>0, <2>5, <4>1
    <3>2. QED
      BY <3>1
  <2>7. QED
    BY <2>1, <2>4, <2>5, <2>6 DEF BooksInv
<1>4. CASE ApplyNew(arrived, reference)
  <2> DEFINE e == AfterRemainder(o, Execution(o))
  <2>1. ~panicked /\ AdmittedLate(o, arrived, reference)
    BY <1>4 DEF ApplyNew, Running
  <2>2. \/ Panic
        \/ /\ books' = PruneBook(Put(books, o.symbol, e.book), o.symbol)
           /\ openOrders' = e.openOrders /\ rows' = e.rows /\ Consumed(e.ledger)
    BY <1>4 DEF ApplyNew
  <2>3. OrderFits(o) /\ o.tif \in {"GTC", "IOC", "FOK"} /\ o.id = NextId
    <3>1. PriceBounded(arrived, reference)
      BY <2>1 DEF AdmittedLate
    <3>2. QED
      BY <1>0, <3>1, BoundedFits
  <2>4. \A id \in DOMAIN rows : id < o.id /\ id <= lastSeen
    <3>1. ASSUME NEW id \in DOMAIN rows PROVE id < o.id /\ id <= lastSeen
      <4>1. id <= lastSeen /\ id \in Nat
        BY <1>0, <2>1 DEF BooksInv, RowsFit
      <4>2. QED
        BY <1>0, <2>3, <4>1 DEF NextId
    <3>2. QED
      BY <3>1
  <2>5. CASE Panic
    <3>1. UNCHANGED <<books, rows, openOrders>> /\ lastSeen' = lastSeen /\ panicked'
      BY <2>5 DEF Panic, market
    <3>2. QED
      BY <1>0, <3>1, SoundStays
  <2>6. CASE /\ books' = PruneBook(Put(books, o.symbol, e.book), o.symbol)
             /\ openOrders' = e.openOrders /\ rows' = e.rows /\ Consumed(e.ledger)
    <3> HIDE DEF o, arrived
    <3>1. /\ Sound(PruneBook(Put(books, o.symbol, e.book), o.symbol), e.rows, e.openOrders)
          /\ DOMAIN e.rows \subseteq DOMAIN rows \cup {o.id}
      BY <1>0, <2>3, <2>4, OrderKeepsBook
    <3> HIDE DEF e
    <3>2. Sound(books', rows', openOrders')
      BY <2>6, <3>1
    <3>3. /\ lastSeen' \in Nat
          /\ ~panicked' => lastSeen' = NextId /\ NextId = lastSeen + 1
      BY <2>1, <2>6, ConsumedCounts
    <3>4. ASSUME ~panicked', NEW id \in DOMAIN rows' PROVE id <= lastSeen'
      <4>1. id \in DOMAIN rows \/ id = o.id
        BY <2>6, <3>1
      <4>2. id \in Nat
        BY <3>2 DEF Sound, RowsFit
      <4>3. lastSeen' = NextId /\ NextId = lastSeen + 1
        BY <3>3, <3>4
      <4>4. QED
        BY <1>0, <2>3, <2>4, <4>1, <4>2, <4>3
    <3>5. QED
      BY <3>2, <3>3, <3>4 DEF BooksInv
  <2>7. QED
    BY <2>2, <2>5, <2>6
<1>5. QED
  BY <1>2, <1>3, <1>4 DEF New

\* What the index knows, the book shows.
InTheBook(target) ==
    /\ FoundInBook(target)
    /\ openOrders[target].symbol \in DOMAIN books
    /\ openOrders[target].symbol = rows[target].symbol
    /\ openOrders[target].side = rows[target].side
    /\ openOrders[target].price = rows[target].price
    /\ rows[target] \in Row
    /\ openOrders[target].price
          \in DOMAIN books[openOrders[target].symbol][openOrders[target].side]

LEMMA IndexIsInBook ==
    ASSUME Sound(books, rows, openOrders), NEW target \in DOMAIN openOrders
    PROVE  target \in DOMAIN rows /\ InTheBook(target)
<1> DEFINE ref == openOrders[target]
           row == rows[target]
           entry == EntryOf(target, row)
<1>1. target \in DOMAIN rows
  BY DEF Sound, IndexOf
<1>2. ref = [symbol |-> row.symbol, side |-> row.side, price |-> row.price]
  BY <1>1 DEF Sound, IndexOf
<1>3. row \in Row /\ RowsFit(rows)
  BY <1>1 DEF Sound, RowsFit
<1>4. row.symbol \in Symbols /\ row.side \in Sides /\ row.price \in Cents
  BY <1>3 DEF Row
<1> DEFINE book == BookAt(books, row.symbol)
<1>5. entry \in EntriesAt(rows, row.symbol, row.side, row.price)
  BY <1>1, <1>3, EntriesByRow
<1> HIDE DEF ref, row
<1>6. entry \in ToSet(Level(book, row.side, row.price)) /\ entry.id = target
  <2>1. Shows(book, row.symbol, rows)
    BY <1>4 DEF Sound
  <2>2. entry.id = target
    BY DEF EntryOf
  <2> HIDE DEF book, entry
  <2>3. QED
    BY <1>4, <1>5, <2>1, <2>2 DEF Shows
<1> HIDE DEF entry
<1>7. BookFits(book)
  BY BookAtFits DEF Sound
<1>8. row.price \in DOMAIN book[row.side] /\ book[row.side][row.price] = Level(book, row.side, row.price)
  <2>1. Level(book, row.side, row.price) # <<>>
    BY <1>6 DEF ToSet
  <2> HIDE DEF book
  <2>2. QED
    BY <1>4, <1>7, <2>1, SidesOfBook
<1>9. row.symbol \in DOMAIN books
  <2>1. CASE row.symbol \notin DOMAIN books
    <3>1. book = EmptyBook
      BY <2>1 DEF BookAt
    <3>2. Level(book, row.side, row.price) = <<>>
      BY <1>4, <3>1, EmptyBookFits
    <3>3. QED
      BY <1>6, <3>2 DEF ToSet
  <2>2. QED
    BY <2>1
<1>10. book = books[row.symbol]
  BY <1>9 DEF BookAt
<1>11. ref.symbol = row.symbol /\ ref.side = row.side /\ ref.price = row.price
  BY <1>2
<1> HIDE DEF book
<1>12. \E r \in ToSet(books[ref.symbol][ref.side][ref.price]) : r.id = target
  BY <1>6, <1>8, <1>10, <1>11
<1>13. FoundInBook(target)
  BY <1>8, <1>9, <1>10, <1>11, <1>12 DEF FoundInBook, ref
<1>14. QED
  BY <1>1, <1>3, <1>8, <1>9, <1>10, <1>11, <1>13 DEF InTheBook, ref, row

LEMMA CancelKeepsBooks ==
    ASSUME BooksInv, NEW account, NEW target,
           \/ IgnoreCancel(account, target)
           \/ RefuseCancel(account, target)
           \/ ApplyCancel(account, target)
    PROVE  BooksInv'
<1>0. /\ Sound(books, rows, openOrders) /\ lastSeen \in Nat
      /\ RowsFit(rows) /\ MapFits(books) /\ openOrders = IndexOf(rows)
  BY DEF BooksInv, Sound
<1>1. CASE IgnoreCancel(account, target)
  <2>1. /\ ~panicked /\ Consumed(ledger) /\ ~FoundInBook(target)
        /\ openOrders' = Without(openOrders, {target}) /\ UNCHANGED <<books, rows>>
    BY <1>1 DEF IgnoreCancel, Running
  <2>2. target \notin DOMAIN openOrders
    BY <1>0, <2>1, IndexIsInBook DEF InTheBook
  <2>3. openOrders' = openOrders
    BY <1>0, <2>1, <2>2 DEF Without, Restrict, IndexOf
  <2>4. lastSeen' \in Nat /\ lastSeen' >= lastSeen
    BY <1>0, <2>1, ConsumedCounts DEF NextId
  <2>5. QED
    BY <2>1, <2>3, <2>4, SoundStays
<1>2. CASE RefuseCancel(account, target)
  <2>1. ~panicked /\ Consumed(ledger) /\ UNCHANGED <<books, rows, openOrders>>
    BY <1>2 DEF RefuseCancel, Running, market
  <2>2. lastSeen' \in Nat /\ lastSeen' >= lastSeen
    BY <1>0, <2>1, ConsumedCounts DEF NextId
  <2>3. QED
    BY <2>1, <2>2, SoundStays
<1>3. CASE ApplyCancel(account, target)
  <2> DEFINE ref == openOrders[target]
             book == books[ref.symbol]
             queue == Retained(book[ref.side][ref.price], target)
             after == WithLevel(book, ref.side, ref.price, queue)
             rx == Without(rows, {target})
             ix == Without(openOrders, {target})
  <2>1. /\ ~panicked /\ FoundInBook(target)
        /\ \/ Panic
           \/ /\ openOrders' = ix /\ rows' = rx
              /\ books' = PruneBook([books EXCEPT ![ref.symbol] = AfterRemoving(@, ref, target)],
                                    ref.symbol)
              /\ Consumed(AfterRelease(ledger, target))
    BY <1>3 DEF ApplyCancel, Running
  <2>2. CASE Panic
    <3>1. UNCHANGED <<books, rows, openOrders>> /\ lastSeen' = lastSeen /\ panicked'
      BY <2>2 DEF Panic, market
    <3>2. QED
      BY <1>0, <3>1, SoundStays
  <2>3. CASE /\ openOrders' = ix /\ rows' = rx
             /\ books' = PruneBook([books EXCEPT ![ref.symbol] = AfterRemoving(@, ref, target)],
                                   ref.symbol)
             /\ Consumed(AfterRelease(ledger, target))
    <3>1. target \in DOMAIN openOrders
      BY <2>1 DEF FoundInBook
    <3>2. target \in DOMAIN rows /\ InTheBook(target)
      BY <1>0, <3>1, IndexIsInBook
    <3>3. /\ ref.symbol \in DOMAIN books /\ ref.symbol = rows[target].symbol
          /\ ref.side = rows[target].side /\ ref.price = rows[target].price
          /\ rows[target] \in Row /\ ref.price \in DOMAIN book[ref.side]
      BY <3>2 DEF InTheBook
    <3>4. ref.symbol \in Symbols /\ ref.side \in Sides /\ ref.price \in Cents
      BY <3>3 DEF Row
    <3>5. books' = PruneBook(Put(books, ref.symbol, after), ref.symbol)
      <4>1. AfterRemoving(book, ref, target) = after
        BY DEF AfterRemoving
      <4>2. [books EXCEPT ![ref.symbol] = AfterRemoving(@, ref, target)]
               = [books EXCEPT ![ref.symbol] = after]
        BY <4>1
      <4> HIDE DEF after, ref
      <4>3. books = [s \in DOMAIN books |-> books[s]] /\ DOMAIN books \cup {ref.symbol} = DOMAIN books
        BY <1>0, <3>3 DEF MapFits
      <4>4. [books EXCEPT ![ref.symbol] = after] = Put(books, ref.symbol, after)
        BY <4>3 DEF Put
      <4>5. QED
        BY <2>3, <4>2, <4>4
    <3>6. book = BookAt(books, ref.symbol)
      BY <3>3 DEF BookAt
    <3>7. BookFits(book) /\ Uncrossed(book) /\ Shows(book, ref.symbol, rows)
      BY <1>0, <3>4, <3>6, BookAtFits DEF Sound
    <3> HIDE DEF book, ref
    <3>8. QueueFits(queue) /\ ToSet(queue) = Others(Level(book, ref.side, ref.price), target)
      <4>1. /\ QueueFits(book[ref.side][ref.price])
            /\ book[ref.side][ref.price] = Level(book, ref.side, ref.price)
        BY <3>3, <3>4, <3>7, SidesOfBook
      <4>2. QED
        BY <4>1, RetainedFits
    <3> HIDE DEF queue
    <3>9. BookFits(after)
      <4>1. Replaced(after, book, ref.side, ref.price, queue)
        BY <3>4, <3>7, <3>8, WithLevelFits
      <4>2. QED
        BY <4>1 DEF Replaced
    <3>10. Uncrossed(after)
      BY <3>3, <3>4, <3>7, <3>8, StaysUncrossed
    <3>11. Shows(after, ref.symbol, rx) /\ AlikeBut(rx, rows, ref.symbol)
      BY <1>0, <3>2, <3>3, <3>7, <3>8, ShowsWithout
    <3>12. RowsFit(rx) /\ DOMAIN rx \subseteq DOMAIN rows
      <4>1. LosesRow(rx, rows, target)
        BY <1>0, RowGone
      <4>2. QED
        BY <4>1 DEF LosesRow
    <3>13. ix = IndexOf(rx)
      BY <1>0, IndexLoses
    <3> HIDE DEF after, rx, ix
    <3>14. MapTakes(books', books, ref.symbol, after)
      BY <1>0, <3>4, <3>5, <3>9, <3>10, BookTaken
    <3>15. Sound(books', rx, ix)
      BY <1>0, <3>4, <3>11, <3>12, <3>13, <3>14, SoundAfter
    <3>16. Sound(books', rows', openOrders')
      BY <2>3, <3>15
    <3>17. lastSeen' \in Nat /\ lastSeen' >= lastSeen
      BY <1>0, <2>1, <2>3, ConsumedCounts DEF NextId
    <3>18. ASSUME NEW id \in DOMAIN rows' PROVE id <= lastSeen'
      <4>1. id \in DOMAIN rows
        BY <2>3, <3>12
      <4>2. id <= lastSeen /\ id \in Nat
        BY <1>0, <2>1, <4>1 DEF BooksInv, RowsFit
      <4>3. QED
        BY <1>0, <3>17, <4>2
    <3>19. QED
      BY <3>16, <3>17, <3>18 DEF BooksInv
  <2>4. QED
    BY <2>1, <2>2, <2>3
<1>4. QED
  BY <1>1, <1>2, <1>3

\* The orders a symbol's book shows are the rows of the symbol.
LEMMA OrdersByRow ==
    ASSUME NEW rw, RowsFit(rw), NEW s, NEW book, BookFits(book), Shows(book, s, rw)
    PROVE  /\ \A r \in OrdersIn(book) :
                 /\ r.id \in DOMAIN rw /\ rw[r.id].symbol = s /\ rw[r.id].side = r.side
                 /\ rw[r.id].price = r.price /\ rw[r.id].account = r.account
                 /\ rw[r.id].qty = r.qty
                 /\ r = [id |-> r.id, account |-> r.account, side |-> r.side,
                         price |-> r.price, qty |-> r.qty]
           /\ \A id \in DOMAIN rw : rw[id].symbol = s =>
                 [id |-> id, account |-> rw[id].account, side |-> rw[id].side,
                  price |-> rw[id].price, qty |-> rw[id].qty] \in OrdersIn(book)
<1>1. ASSUME NEW r \in OrdersIn(book)
      PROVE  /\ r.id \in DOMAIN rw /\ rw[r.id].symbol = s /\ rw[r.id].side = r.side
             /\ rw[r.id].price = r.price /\ rw[r.id].account = r.account
             /\ rw[r.id].qty = r.qty
             /\ r = [id |-> r.id, account |-> r.account, side |-> r.side,
                     price |-> r.price, qty |-> r.qty]
  <2>1. PICK side \in Sides : r \in OrdersOn(book, side)
    BY DEF OrdersIn, Sides
  <2>1a. PICK p \in DOMAIN book[side] : \E w \in ToSet(book[side][p]) :
           r = [id |-> w.id, account |-> w.account, side |-> side, price |-> p, qty |-> w.qty]
    BY <2>1 DEF OrdersOn
  <2>2. PICK w \in ToSet(book[side][p]) :
           r = [id |-> w.id, account |-> w.account, side |-> side, price |-> p, qty |-> w.qty]
    BY <2>1a
  <2>3. p \in Cents /\ book[side][p] = Level(book, side, p)
    BY SidesOfBook
  <2>4. w \in EntriesAt(rw, s, side, p)
    BY <2>3 DEF Shows
  <2>5. /\ w.id \in DOMAIN rw /\ rw[w.id].symbol = s /\ rw[w.id].side = side
        /\ rw[w.id].price = p /\ w.account = rw[w.id].account /\ w.qty = rw[w.id].qty
    BY <2>4, EntriesByRow
  <2>6. /\ r.id = w.id /\ r.account = w.account /\ r.side = side /\ r.price = p /\ r.qty = w.qty
    BY <2>2
  <2>7. QED
    BY <2>2, <2>5, <2>6
<1>2. ASSUME NEW id \in DOMAIN rw, rw[id].symbol = s
      PROVE  [id |-> id, account |-> rw[id].account, side |-> rw[id].side,
              price |-> rw[id].price, qty |-> rw[id].qty] \in OrdersIn(book)
  <2> DEFINE side == rw[id].side
             p == rw[id].price
             w == EntryOf(id, rw[id])
  <2>1. side \in Sides /\ p \in Cents
    BY DEF RowsFit, Row
  <2>2. w \in EntriesAt(rw, s, side, p)
    BY <1>2, EntriesByRow
  <2>2a. w.id = id /\ w.account = rw[id].account /\ w.qty = rw[id].qty
    BY DEF EntryOf
  <2> HIDE DEF side, p, w
  <2>3. w \in ToSet(Level(book, side, p))
    BY <2>1, <2>2 DEF Shows
  <2>4. p \in DOMAIN book[side] /\ book[side][p] = Level(book, side, p)
    <3>1. Level(book, side, p) # <<>>
      BY <2>3 DEF ToSet
    <3>2. QED
      BY <2>1, <3>1, SidesOfBook
  <2>5. [id |-> w.id, account |-> w.account, side |-> side, price |-> p, qty |-> w.qty]
           \in OrdersOn(book, side)
    BY <2>3, <2>4 DEF OrdersOn
  <2>6. OrdersOn(book, side) \subseteq OrdersIn(book)
    BY <2>1 DEF OrdersIn, Sides
  <2>7. QED
    BY <2>2a, <2>5, <2>6 DEF side, p
<1>3. QED
  BY <1>1, <1>2

\* A symbol's rows go, all of them.
RowsOf(rw, s) == {id \in DOMAIN rw : rw[id].symbol = s}

LosesRows(rx, rw, s) ==
    /\ RowsFit(rx)
    /\ DOMAIN rx \subseteq DOMAIN rw
    /\ Shows(EmptyBook, s, rx)
    /\ AlikeBut(rx, rw, s)
    /\ IndexOf(rx) = Without(IndexOf(rw), RowsOf(rw, s))

LEMMA RowsGone ==
    ASSUME NEW rw, RowsFit(rw), NEW s
    PROVE  LosesRows(Without(rw, RowsOf(rw, s)), rw, s)
<1> DEFINE S == RowsOf(rw, s)
           rx == Without(rw, S)
<1>1. /\ DOMAIN rx = DOMAIN rw \ S
      /\ \A x \in DOMAIN rx : rx[x] = rw[x] /\ rw[x].symbol # s
      /\ rx = [x \in DOMAIN rx |-> rx[x]]
  BY DEF Without, Restrict, RowsOf
<1> HIDE DEF rx
<1>2. RowsFit(rx)
  <2>1. IsFiniteSet(DOMAIN rx)
    BY <1>1, FS_Subset DEF RowsFit
  <2>2. QED
    BY <1>1, <2>1 DEF RowsFit
<1>3. Shows(EmptyBook, s, rx)
  <2>1. ASSUME NEW side \in Sides, NEW p \in Cents
        PROVE  ToSet(Level(EmptyBook, side, p)) = EntriesAt(rx, s, side, p)
    <3>1. IdsAt(rx, s, side, p) = {}
      BY <1>1 DEF IdsAt
    <3>2. Level(EmptyBook, side, p) = <<>>
      BY EmptyBookFits
    <3>3. QED
      BY <3>1, <3>2 DEF EntriesAt, ToSet
  <2>2. QED
    BY <2>1 DEF Shows
<1>4. ASSUME NEW t \in Symbols \ {s}, NEW side, NEW p
      PROVE  EntriesAt(rx, t, side, p) = EntriesAt(rw, t, side, p)
  <2>1. IdsAt(rx, t, side, p) = IdsAt(rw, t, side, p)
    BY <1>1 DEF IdsAt, RowsOf
  <2>2. \A x \in IdsAt(rx, t, side, p) : rx[x] = rw[x]
    BY <1>1 DEF IdsAt
  <2>3. QED
    BY <2>1, <2>2 DEF EntriesAt
<1>5. IndexOf(rx) = Without(IndexOf(rw), S)
  BY <1>1 DEF IndexOf, Without, Restrict
<1>6. AlikeBut(rx, rw, s)
  BY <1>4 DEF AlikeBut
<1>7. LosesRows(rx, rw, s)
  BY <1>1, <1>2, <1>3, <1>5, <1>6 DEF LosesRows
<1>8. QED
  BY <1>7 DEF rx

\* The orders a closed symbol loses are its rows.
LEMMA ClosedAreRows ==
    ASSUME Sound(books, rows, openOrders), NEW symbol \in Symbols
    PROVE  {r.id : r \in OrdersIn(BookOf(symbol))} = RowsOf(rows, symbol)
<1> DEFINE book == BookOf(symbol)
           order(id) == [id |-> id, account |-> rows[id].account, side |-> rows[id].side,
                         price |-> rows[id].price, qty |-> rows[id].qty]
<1>0. RowsFit(rows) /\ MapFits(books)
  BY DEF Sound
<1>1. book = BookAt(books, symbol)
  BY DEF BookOf, BookAt
<1>2. BookFits(book) /\ Shows(book, symbol, rows)
  BY <1>0, <1>1, BookAtFits DEF Sound
<1> HIDE DEF book
<1>3. \A r \in OrdersIn(book) : r.id \in DOMAIN rows /\ rows[r.id].symbol = symbol
  BY <1>0, <1>2, OrdersByRow
<1>4. \A id \in DOMAIN rows : rows[id].symbol = symbol => order(id) \in OrdersIn(book)
  BY <1>0, <1>2, OrdersByRow
<1>5. \A id : order(id).id = id
  OBVIOUS
<1> HIDE DEF order
<1>6. {r.id : r \in OrdersIn(book)} = RowsOf(rows, symbol)
  BY <1>3, <1>4, <1>5 DEF RowsOf
<1>7. QED
  BY <1>6 DEF book

LEMMA DelistKeepsBooks ==
    ASSUME BooksInv, NEW signer, NEW symbol \in Symbols, ApplyDelistSymbol(signer, symbol)
    PROVE  BooksInv'
<1> DEFINE closed == {r.id : r \in OrdersIn(BookOf(symbol))}
           gone == RowsOf(rows, symbol)
           rx == Without(rows, gone)
           new == Without(books, {symbol})
<1>0. /\ Sound(books, rows, openOrders) /\ lastSeen \in Nat
      /\ RowsFit(rows) /\ MapFits(books) /\ openOrders = IndexOf(rows)
  BY DEF BooksInv, Sound
<1>1. /\ ~panicked /\ books' = new
      /\ openOrders' = Without(openOrders, closed) /\ rows' = Without(rows, closed)
      /\ \/ Consumed(ReleaseAll(ledger, closed))
         \/ panicked' = TRUE /\ UNCHANGED <<lastSeen, ledger>>
  BY DEF ApplyDelistSymbol, Running
<1>2. closed = gone
  BY <1>0, ClosedAreRows
<1>2a. LosesRows(rx, rows, symbol)
  BY <1>0, RowsGone
<1> HIDE DEF closed, gone, rx
<1>3. /\ RowsFit(rx) /\ DOMAIN rx \subseteq DOMAIN rows /\ Shows(EmptyBook, symbol, rx)
      /\ AlikeBut(rx, rows, symbol) /\ IndexOf(rx) = Without(openOrders, gone)
  BY <1>0, <1>2a DEF LosesRows, gone
<1>4. MapTakes(new, books, symbol, EmptyBook)
  <2>1. /\ DOMAIN new = DOMAIN books \ {symbol}
        /\ \A t \in DOMAIN new : new[t] = books[t]
        /\ new = [t \in DOMAIN new |-> new[t]]
    BY DEF Without, Restrict
  <2> HIDE DEF new
  <2>2. MapFits(new)
    BY <1>0, <2>1 DEF MapFits
  <2>3. BookAt(new, symbol) = EmptyBook /\ \A t \in Symbols \ {symbol} : BookAt(new, t) = BookAt(books, t)
    BY <2>1 DEF BookAt
  <2>4. QED
    BY <2>2, <2>3 DEF MapTakes
<1> HIDE DEF new
<1>5. Sound(new, rx, Without(openOrders, gone))
  BY <1>0, <1>3, <1>4, SoundAfter
<1>6. Sound(books', rows', openOrders')
  BY <1>1, <1>2, <1>5 DEF rx
<1>7. lastSeen' \in Nat /\ lastSeen' >= lastSeen
  BY <1>0, <1>1, ConsumedCounts DEF NextId
<1>8. ASSUME NEW id \in DOMAIN rows' PROVE id <= lastSeen'
  <2>1. id \in DOMAIN rows
    BY <1>1, <1>2, <1>3 DEF rx
  <2>2. id <= lastSeen /\ id \in Nat
    BY <1>0, <1>1, <2>1 DEF BooksInv, RowsFit
  <2>3. QED
    BY <1>0, <1>7, <2>2
<1>9. QED
  BY <1>6, <1>7, <1>8 DEF BooksInv

LEMMA OperatorKeepsBooks ==
    ASSUME BooksInv, NEW signer,
           \/ IgnoreOperator(signer)
           \/ \E symbol \in Symbols, step \in Steps : ApplyListSymbol(signer, symbol, step)
           \/ \E symbol \in Symbols :
                 \/ ApplyDelistSymbol(signer, symbol)
                 \/ RefuseDelistSymbol(signer, symbol)
           \/ \E version \in Versions : ApplyEngineRule(signer, version)
    PROVE  BooksInv'
<1>1. CASE \E symbol \in Symbols : ApplyDelistSymbol(signer, symbol)
  BY <1>1, DelistKeepsBooks
<1>2. CASE ~\E symbol \in Symbols : ApplyDelistSymbol(signer, symbol)
  <2>1. ~panicked /\ Consumed(ledger) /\ UNCHANGED <<books, rows, openOrders>>
    BY <1>2 DEF IgnoreOperator, ApplyListSymbol, RefuseDelistSymbol, ApplyEngineRule, Running, market
  <2>2. lastSeen \in Nat
    BY DEF BooksInv
  <2>3. lastSeen' \in Nat /\ lastSeen' >= lastSeen
    BY <2>1, <2>2, ConsumedCounts DEF NextId
  <2>4. QED
    BY <2>1, <2>3, SoundStays
<1>3. QED
  BY <1>1, <1>2

LEMMA InitIsSound == Init => BooksInv
<1> SUFFICES ASSUME Init PROVE BooksInv
  OBVIOUS
<1>1. books = EmptyMap /\ rows = EmptyMap /\ openOrders = EmptyMap /\ lastSeen = 0
  BY DEF Init
<1>2. DOMAIN EmptyMap = {} /\ EmptyMap = [x \in DOMAIN EmptyMap |-> EmptyMap[x]]
  BY DEF EmptyMap
<1>3. MapFits(books)
  BY <1>1, <1>2 DEF MapFits
<1>4. RowsFit(rows)
  BY <1>1, <1>2, FS_EmptySet DEF RowsFit
<1>5. openOrders = IndexOf(rows)
  BY <1>1, <1>2 DEF IndexOf, EmptyMap
<1>6. ASSUME NEW s \in Symbols, NEW side \in Sides, NEW p \in Cents
      PROVE  ToSet(Level(BookAt(books, s), side, p)) = EntriesAt(rows, s, side, p)
  <2>1. BookAt(books, s) = EmptyBook
    BY <1>1, <1>2 DEF BookAt
  <2>2. Level(BookAt(books, s), side, p) = <<>>
    BY <2>1, EmptyBookFits
  <2>3. IdsAt(rows, s, side, p) = {}
    BY <1>1, <1>2 DEF IdsAt
  <2>4. QED
    BY <2>2, <2>3 DEF EntriesAt, ToSet
<1>7. \A s \in Symbols : Shows(BookAt(books, s), s, rows)
  BY <1>6 DEF Shows
<1>8. Sound(books, rows, openOrders)
  BY <1>3, <1>4, <1>5, <1>7 DEF Sound
<1>9. \A id \in DOMAIN rows : id <= lastSeen
  BY <1>1, <1>2
<1>10. QED
  BY <1>1, <1>8, <1>9 DEF BooksInv

LEMMA StepKeepsBooks == BooksInv /\ [Next]_vars => BooksInv'
<1> SUFFICES ASSUME BooksInv, [Next]_vars PROVE BooksInv'
  OBVIOUS
<1>1. CASE UNCHANGED vars
  <2>1. UNCHANGED <<books, rows, openOrders, lastSeen, panicked>>
    BY <1>1 DEF vars, market
  <2>2. lastSeen' \in Nat /\ lastSeen' >= lastSeen
    BY <2>1 DEF BooksInv
  <2>3. QED
    BY <2>1, <2>2, SoundStays
<1>2. ASSUME NEW account \in Accounts, NEW symbol \in Symbols, NEW form \in Forms,
             NEW reference \in ReferencesFor(form),
             New(Arrived(account, symbol, form), reference)
      PROVE  BooksInv'
  BY <1>2, NewKeepsBooks
<1>3. ASSUME NEW account \in Accounts, NEW target \in 1..lastSeen,
             \/ IgnoreCancel(account, target)
             \/ RefuseCancel(account, target)
             \/ ApplyCancel(account, target)
      PROVE  BooksInv'
  BY <1>3, CancelKeepsBooks
<1>4. ASSUME NEW signer \in Signers,
             \/ IgnoreOperator(signer)
             \/ \E symbol \in Symbols, step \in Steps : ApplyListSymbol(signer, symbol, step)
             \/ \E symbol \in Symbols :
                   \/ ApplyDelistSymbol(signer, symbol)
                   \/ RefuseDelistSymbol(signer, symbol)
             \/ \E version \in Versions : ApplyEngineRule(signer, version)
      PROVE  BooksInv'
  BY <1>4, OperatorKeepsBooks
<1>5. QED
  BY <1>1, <1>2, <1>3, <1>4 DEF Next

\* No book is crossed once a message has been handled, whatever mixture of
\* refused, market, immediate, stopped and fill-or-kill orders came before.
THEOREM BooksNeverCross == Spec => []NeverCrossed
<1>1. BooksInv => NeverCrossed
  BY DEF BooksInv, Sound, MapFits, Uncrossed, NeverCrossed
<1>2. QED
  BY <1>1, InitIsSound, StepKeepsBooks, PTL DEF Spec

-----------------------------------------------------------------------------
(* Positions.  Every leg of a fill moves two totals of the symbol, net and  *)
(* cash, and the two legs move them against each other.                     *)

Totals == {"net", "cash"}

Held(p) == /\ p \in PositionType
           /\ Accounted(p)
           /\ \A field \in DOMAIN p : Fits(p[field])

PositionsFit(held) ==
    /\ held = [k \in DOMAIN held |-> held[k]]
    /\ DOMAIN held \subseteq Accounts \X Symbols
    /\ IsFiniteSet(DOMAIN held)
    /\ \A k \in DOMAIN held : Held(held[k])

KeysOf(held, s) == {k \in DOMAIN held : k[2] = s}
FieldOf(held, field) == [k \in DOMAIN held |-> held[k][field]]
TotalOf(held, s, field) == SumFunctionOnSet(FieldOf(held, field), KeysOf(held, s))

Balanced(held) == \A s \in Symbols, field \in Totals : TotalOf(held, s, field) = 0

\* One position more, or another one.
TotalMoves(new, held, k, p) ==
    \A s \in Symbols, field \in Totals :
        TotalOf(new, s, field) = TotalOf(held, s, field)
            + (IF k[2] = s THEN p[field] - PositionIn(held, k)[field] ELSE 0)

LEMMA FlatIsHeld == Held(Flat) /\ \A field \in Totals : Flat[field] = 0
<1>1. MaxInt \in Nat \ {0}
  BY PositionWidth
<1>2. \A field \in DOMAIN Flat : Fits(Flat[field])
  <2>1. DOMAIN Flat = {"net", "cash", "basis", "realized"}
        /\ Flat.net = 0 /\ Flat.cash = 0 /\ Flat.basis = 0 /\ Flat.realized = 0
    BY DEF Flat
  <2>2. Fits(0)
    BY <1>1 DEF Fits
  <2>3. QED
    BY <2>1, <2>2
<1>3. QED
  BY <1>2, FillKeepsAccount DEF Held, Flat, Totals

LEMMA PositionInIsHeld ==
    ASSUME NEW held, PositionsFit(held), NEW k
    PROVE  Held(PositionIn(held, k))
BY FlatIsHeld DEF PositionsFit, PositionIn

LEMMA FieldsOfPosition ==
    ASSUME NEW p \in PositionType
    PROVE  p.net \in Int /\ p.cash \in Int /\ \A field \in Totals : p[field] \in Int
BY DEF PositionType, Totals

\* The sum of one total over the positions of some keys.
SumIn(held, Z, field) == SumFunctionOnSet(FieldOf(held, field), DOMAIN held \cap Z)

\* What putting a position changes of such a sum.
LEMMA SumMoves ==
    ASSUME NEW held, PositionsFit(held), NEW k \in Accounts \X Symbols, NEW p, Held(p),
           NEW new, new = Put(held, k, p), PositionsFit(new),
           NEW Z, NEW field \in Totals
    PROVE  SumIn(new, Z, field) = SumIn(held, Z, field)
              + (IF k \in Z THEN p[field] - PositionIn(held, k)[field] ELSE 0)
<1>0. /\ DOMAIN new = DOMAIN held \cup {k} /\ new[k] = p
      /\ \A j \in DOMAIN held \ {k} : new[j] = held[j]
  BY DEF Put
<1> DEFINE fun == FieldOf(held, field)
           gun == FieldOf(new, field)
           S == DOMAIN held \cap Z
           T == DOMAIN new \cap Z
           R == S \ {k}
<1>1. /\ \A j \in S : fun[j] = held[j][field] /\ fun[j] \in Int
      /\ \A j \in T : gun[j] = new[j][field] /\ gun[j] \in Int
  <2>1. \A h : PositionsFit(h) => \A j \in DOMAIN h :
           FieldOf(h, field)[j] = h[j][field] /\ FieldOf(h, field)[j] \in Int
    BY FieldsOfPosition DEF PositionsFit, Held, FieldOf
  <2>2. QED
    BY <2>1
<1>2. IsFiniteSet(S) /\ IsFiniteSet(T) /\ IsFiniteSet(R)
  BY FS_Subset DEF PositionsFit
<1>3. \A j \in R : fun[j] = gun[j]
  BY <1>0, <1>1
<1>4. T \ {k} = R
  BY <1>0
<1>5. p[field] \in Int /\ PositionIn(held, k)[field] \in Int
  <2>1. Held(PositionIn(held, k))
    BY PositionInIsHeld
  <2>2. QED
    BY <2>1, FieldsOfPosition DEF Held
<1>6. PositionIn(held, k)[field] = IF k \in DOMAIN held THEN held[k][field] ELSE 0
  BY FlatIsHeld DEF PositionIn
<1>7. k \in T <=> k \in Z
  BY <1>0
<1>8. k \in S <=> k \in Z /\ k \in DOMAIN held
  OBVIOUS
<1>9. k \in T => gun[k] = p[field]
  BY <1>0, <1>1
<1>10. k \in S => fun[k] = held[k][field]
  BY <1>1
<1> HIDE DEF fun, gun, S, T, R
<1>11. SumFunctionOnSet(fun, R) = SumFunctionOnSet(gun, R) /\ SumFunctionOnSet(fun, R) \in Int
  <2>1. \A j \in R : fun[j] \in Int
    BY <1>1 DEF R
  <2>2. QED
    BY <1>2, <1>3, <2>1, SumOfSame, SumIsInteger
<1>12. SumFunctionOnSet(fun, S) = SumFunctionOnSet(fun, R) + (IF k \in S THEN fun[k] ELSE 0)
  <2>1. CASE k \in S
    <3>1. SumFunctionOnSet(fun, S) = fun[k] + SumFunctionOnSet(fun, S \ {k})
      BY <1>1, <1>2, <2>1, SumTakesAny
    <3>2. QED
      BY <1>1, <1>11, <2>1, <3>1 DEF R
  <2>2. CASE k \notin S
    <3>1. S = R
      BY <2>2 DEF R
    <3>2. QED
      BY <1>11, <2>2, <3>1
  <2>3. QED
    BY <2>1, <2>2
<1>13. SumFunctionOnSet(gun, T) = SumFunctionOnSet(gun, R) + (IF k \in T THEN gun[k] ELSE 0)
  <2>1. CASE k \in T
    <3>1. SumFunctionOnSet(gun, T) = gun[k] + SumFunctionOnSet(gun, T \ {k})
      BY <1>1, <1>2, <2>1, SumTakesAny
    <3>2. SumFunctionOnSet(gun, T) = gun[k] + SumFunctionOnSet(gun, R)
      BY <1>4, <3>1
    <3>3. SumFunctionOnSet(gun, R) \in Int /\ gun[k] \in Int
      BY <1>1, <1>11, <2>1
    <3>4. QED
      BY <2>1, <3>2, <3>3
  <2>2. CASE k \notin T
    <3>1. T = R
      BY <1>4, <2>2
    <3>2. QED
      BY <1>11, <2>2, <3>1
  <2>3. QED
    BY <2>1, <2>2
<1> DEFINE a == SumFunctionOnSet(fun, S)
           b == SumFunctionOnSet(gun, T)
           r == SumFunctionOnSet(fun, R)
           was == PositionIn(held, k)[field]
           is == p[field]
<1>14. /\ r \in Int /\ was \in Int /\ is \in Int
       /\ a = r + (IF k \in Z THEN was ELSE 0)
       /\ b = r + (IF k \in Z THEN is ELSE 0)
  <2>1. a = r + (IF k \in Z THEN was ELSE 0)
    BY <1>6, <1>8, <1>10, <1>12
  <2>2. b = r + (IF k \in Z THEN is ELSE 0)
    BY <1>7, <1>9, <1>11, <1>13
  <2>3. QED
    BY <1>5, <1>11, <2>1, <2>2
<1>15. SumIn(held, Z, field) = a /\ SumIn(new, Z, field) = b
  BY DEF SumIn, fun, gun, S, T
<1> HIDE DEF a, b, r, was, is
<1>16. b = a + (IF k \in Z THEN is - was ELSE 0)
  BY <1>14
<1>17. QED
  BY <1>15, <1>16 DEF was, is

LEMMA PositionPut ==
    ASSUME NEW held, PositionsFit(held), NEW k \in Accounts \X Symbols, NEW p, Held(p),
           NEW new, new = Put(held, k, p)
    PROVE  PositionsFit(new) /\ TotalMoves(new, held, k, p)
<1>1. /\ DOMAIN new = DOMAIN held \cup {k} /\ new[k] = p
      /\ \A j \in DOMAIN held \ {k} : new[j] = held[j]
      /\ new = [j \in DOMAIN new |-> new[j]]
  BY DEF Put
<1>2. IsFiniteSet(DOMAIN held)
  BY DEF PositionsFit
<1>3. PositionsFit(new)
  <2>1. IsFiniteSet(DOMAIN new)
    BY <1>1, <1>2, FS_AddElement
  <2>2. \A j \in DOMAIN new : Held(new[j]) /\ j \in Accounts \X Symbols
    BY <1>1 DEF PositionsFit
  <2>3. QED
    BY <1>1, <2>1, <2>2 DEF PositionsFit
<1>4. ASSUME NEW s \in Symbols, NEW field \in Totals
      PROVE  TotalOf(new, s, field) = TotalOf(held, s, field)
                + (IF k[2] = s THEN p[field] - PositionIn(held, k)[field] ELSE 0)
  <2> DEFINE Z == {j \in DOMAIN new : j[2] = s}
  <2>1. /\ KeysOf(held, s) = DOMAIN held \cap Z /\ KeysOf(new, s) = DOMAIN new \cap Z
        /\ k \in Z <=> k[2] = s
    BY <1>1 DEF KeysOf
  <2>2. TotalOf(held, s, field) = SumIn(held, Z, field) /\ TotalOf(new, s, field) = SumIn(new, Z, field)
    BY <2>1 DEF TotalOf, SumIn
  <2> HIDE DEF Z
  <2>3. SumIn(new, Z, field) = SumIn(held, Z, field)
            + (IF k \in Z THEN p[field] - PositionIn(held, k)[field] ELSE 0)
    BY <1>3, SumMoves
  <2>4. QED
    BY <2>1, <2>2, <2>3
<1>5. QED
  BY <1>3, <1>4 DEF TotalMoves

\* One leg of a fill.
LegOf(next, p, side, qty, price) ==
    /\ next \in PositionType
    /\ next.net = p.net + SignedQuantity(side, qty)
    /\ next.cash = p.cash - SignedQuantity(side, qty) * price

LEMMA LegMoves ==
    ASSUME NEW p, Held(p), NEW side \in Sides, NEW qty \in Tenths, NEW price \in Cents
    PROVE  /\ LegOf(AfterFill(p, side, qty, price), p, side, qty, price)
           /\ CanFill(p, side, qty, price) => Held(AfterFill(p, side, qty, price))
<1> DEFINE next == AfterFill(p, side, qty, price)
<1>1. next \in PositionType /\ Accounted(next)
  BY FillKeepsAccount DEF Held, Sides, Tenths, Cents
<1>2. /\ next.net = p.net + SignedQuantity(side, qty)
      /\ next.cash = p.cash - SignedQuantity(side, qty) * price
      /\ DOMAIN next = DOMAIN Flat
  BY DEF AfterFill, Flat
<1>3. CanFill(p, side, qty, price) => \A field \in DOMAIN Flat : Fits(next[field])
  BY DEF CanFill
<1> HIDE DEF next
<1>4. LegOf(next, p, side, qty, price)
  BY <1>1, <1>2 DEF LegOf
<1>5. CanFill(p, side, qty, price) => Held(next)
  BY <1>1, <1>2, <1>3 DEF Held
<1>6. QED
  BY <1>4, <1>5 DEF next

FillTyped(f) == f.qty \in Tenths /\ f.price \in Cents /\ f.account \in Accounts

AccountsAgree(held) == PositionsFit(held) /\ Balanced(held)

\* The two positions a fill leaves, the maker's first.
LegsTaken(held, mid, new, o, f, mnext, tnext) ==
    /\ PositionsFit(mid) /\ PositionsFit(new)
    /\ Held(mnext) /\ mid = Put(held, <<f.account, o.symbol>>, mnext)
    /\ LegOf(mnext, PositionIn(held, <<f.account, o.symbol>>), Facing(o.side), f.qty, f.price)
    /\ Held(tnext) /\ new = Put(mid, <<o.account, o.symbol>>, tnext)
    /\ LegOf(tnext, PositionIn(mid, <<o.account, o.symbol>>), o.side, f.qty, f.price)

LEMMA LegsOfFill ==
    ASSUME NEW held, PositionsFit(held), NEW o, OrderFits(o), NEW f, FillTyped(f),
           FillFits(o, held, f)
    PROVE  \E mid, mnext, tnext : LegsTaken(held, mid, BookLegs(o, held, f), o, f, mnext, tnext)
<1> DEFINE mk == <<f.account, o.symbol>>
           tk == <<o.account, o.symbol>>
           mside == Facing(o.side)
           m == PositionIn(held, mk)
           mnext == AfterFill(m, mside, f.qty, f.price)
           mid == Put(held, mk, mnext)
           t == TakerAtFill(o, held, f)
           tnext == AfterFill(t, o.side, f.qty, f.price)
           new == Put(mid, tk, tnext)
<1>0. /\ f.qty \in Tenths /\ f.price \in Cents /\ f.account \in Accounts
      /\ o.account \in Accounts /\ o.symbol \in Symbols /\ o.side \in Sides
      /\ mside \in Sides /\ mk \in Accounts \X Symbols /\ tk \in Accounts \X Symbols
      /\ mk[2] = o.symbol /\ tk[2] = o.symbol
  BY DEF FillTyped, OrderFits, Facing, Sides
<1>1. PositionsFit(held)
  OBVIOUS
<1>2. CanFill(m, mside, f.qty, f.price) /\ CanFill(t, o.side, f.qty, f.price)
  BY DEF FillFits
<1>3. Held(m)
  BY <1>1, PositionInIsHeld
<1>4. new = BookLegs(o, held, f)
  BY DEF BookLegs
<1> HIDE DEF m, t
<1>5. LegOf(mnext, m, mside, f.qty, f.price) /\ Held(mnext)
  BY <1>0, <1>2, <1>3, LegMoves
<1>6. PositionsFit(mid) /\ mid = Put(held, mk, mnext)
  <2> HIDE DEF mnext, mk
  <2>1. QED
    BY <1>0, <1>1, <1>5, PositionPut
<1>7. PositionIn(mid, tk) = t
  <2>1. CASE f.account = o.account
    <3>1. mk = tk /\ t = mnext
      BY <2>1 DEF TakerAtFill, TakerBefore, t, m
    <3>2. PositionIn(mid, mk) = mnext
      BY DEF PositionIn, Put
    <3>3. QED
      BY <3>1, <3>2
  <2>2. CASE f.account # o.account
    <3>1. tk # mk
      BY <2>2
    <3>2. t = PositionIn(held, tk)
      BY <2>2 DEF TakerAtFill, TakerBefore, t
    <3> HIDE DEF mk, tk, mnext
    <3>3. PositionIn(mid, tk) = PositionIn(held, tk)
      BY <3>1 DEF PositionIn, Put
    <3>4. QED
      BY <3>2, <3>3
  <2>3. QED
    BY <2>1, <2>2
<1> HIDE DEF mnext, mid
<1>8. Held(t)
  BY <1>6, <1>7, PositionInIsHeld
<1>9. LegOf(tnext, t, o.side, f.qty, f.price) /\ Held(tnext)
  BY <1>0, <1>2, <1>8, LegMoves
<1>10. PositionsFit(new) /\ new = Put(mid, tk, tnext)
  <2> HIDE DEF tnext, tk
  <2>1. QED
    BY <1>0, <1>6, <1>9, PositionPut
<1> HIDE DEF tnext, new
<1>11. LegsTaken(held, mid, new, o, f, mnext, tnext)
  BY <1>5, <1>6, <1>7, <1>9, <1>10 DEF LegsTaken, m
<1>12. QED
  BY <1>4, <1>11

\* Both legs of a fill that fits.
LEMMA LegsBalance ==
    ASSUME NEW held, AccountsAgree(held), NEW o, OrderFits(o), NEW f, FillTyped(f),
           FillFits(o, held, f)
    PROVE  AccountsAgree(BookLegs(o, held, f))
<1> DEFINE mk == <<f.account, o.symbol>>
           tk == <<o.account, o.symbol>>
           mside == Facing(o.side)
           new == BookLegs(o, held, f)
<1>0. /\ f.qty \in Tenths /\ f.price \in Cents /\ f.account \in Accounts
      /\ o.account \in Accounts /\ o.symbol \in Symbols /\ o.side \in Sides
      /\ mside \in Sides /\ mk \in Accounts \X Symbols /\ tk \in Accounts \X Symbols
      /\ mk[2] = o.symbol /\ tk[2] = o.symbol
  BY DEF FillTyped, OrderFits, Facing, Sides
<1>1. PositionsFit(held) /\ Balanced(held)
  BY DEF AccountsAgree
<1>2. PICK mid, mnext, tnext : LegsTaken(held, mid, new, o, f, mnext, tnext)
  BY <1>1, LegsOfFill
<1> DEFINE m == PositionIn(held, mk)
           t == PositionIn(mid, tk)
<1>3. Held(m)
  BY <1>1, PositionInIsHeld
<1>5. LegOf(mnext, m, mside, f.qty, f.price) /\ Held(mnext)
  BY <1>2 DEF LegsTaken
<1>6. PositionsFit(mid) /\ TotalMoves(mid, held, mk, mnext)
  <2>1. mid = Put(held, mk, mnext)
    BY <1>2 DEF LegsTaken
  <2> HIDE DEF mk
  <2>2. QED
    BY <1>0, <1>1, <1>5, <2>1, PositionPut
<1>8. Held(t)
  BY <1>6, PositionInIsHeld
<1>9. LegOf(tnext, t, o.side, f.qty, f.price) /\ Held(tnext)
  BY <1>2 DEF LegsTaken
<1>10. PositionsFit(new) /\ TotalMoves(new, mid, tk, tnext)
  <2>1. new = Put(mid, tk, tnext)
    BY <1>2 DEF LegsTaken
  <2> HIDE DEF tk, new
  <2>2. QED
    BY <1>0, <1>6, <1>9, <2>1, PositionPut
<1> HIDE DEF mk, tk, new, m, t
<1>11. ASSUME NEW field \in Totals
       PROVE  (mnext[field] - m[field]) + (tnext[field] - t[field]) = 0
  <2> DEFINE sm == SignedQuantity(mside, f.qty)
             st == SignedQuantity(o.side, f.qty)
  <2>1. sm \in Int /\ st \in Int /\ sm = -st
    BY <1>0 DEF SignedQuantity, Facing, Sides, Tenths
  <2>2. sm * f.price \in Int /\ st * f.price \in Int /\ sm * f.price = -(st * f.price)
    <3>1. f.price \in Int
      BY <1>0 DEF Cents
    <3> HIDE DEF sm, st
    <3>2. QED
      BY <2>1, <3>1
  <2>3. /\ mnext.net = m.net + sm /\ mnext.cash = m.cash - sm * f.price
        /\ tnext.net = t.net + st /\ tnext.cash = t.cash - st * f.price
    BY <1>5, <1>9 DEF LegOf
  <2>4. m.net \in Int /\ m.cash \in Int /\ t.net \in Int /\ t.cash \in Int
    BY <1>3, <1>8, FieldsOfPosition DEF Held
  <2> HIDE DEF sm, st
  <2>5. CASE field = "net"
    <3>1. (mnext.net - m.net) + (tnext.net - t.net) = 0
      BY <2>1, <2>3, <2>4
    <3>2. QED
      BY <2>5, <3>1
  <2>6. CASE field = "cash"
    <3> DEFINE cm == sm * f.price
               ct == st * f.price
    <3>0. cm \in Int /\ ct \in Int /\ cm = -ct /\ mnext.cash = m.cash - cm /\ tnext.cash = t.cash - ct
      BY <2>2, <2>3
    <3> HIDE DEF cm, ct
    <3>1. (mnext.cash - m.cash) + (tnext.cash - t.cash) = 0
      BY <2>4, <3>0
    <3>2. QED
      BY <2>6, <3>1
  <2>7. QED
    BY <2>5, <2>6 DEF Totals
<1>12. ASSUME NEW s \in Symbols, NEW field \in Totals PROVE TotalOf(new, s, field) = 0
  <2> DEFINE a == TotalOf(mid, s, field)
             x == mnext[field] - m[field]
             y == tnext[field] - t[field]
  <2>1. TotalOf(held, s, field) = 0
    BY <1>1 DEF Balanced
  <2>2. /\ a = TotalOf(held, s, field)
                  + (IF mk[2] = s THEN mnext[field] - PositionIn(held, mk)[field] ELSE 0)
        /\ TotalOf(new, s, field) = a
                  + (IF tk[2] = s THEN tnext[field] - PositionIn(mid, tk)[field] ELSE 0)
    BY <1>6, <1>10 DEF TotalMoves
  <2>3. /\ a = 0 + (IF o.symbol = s THEN x ELSE 0)
        /\ TotalOf(new, s, field) = a + (IF o.symbol = s THEN y ELSE 0)
    BY <1>0, <2>1, <2>2 DEF m, t
  <2>4. x \in Int /\ y \in Int /\ x + y = 0
    <3>1. /\ mnext[field] \in Int /\ m[field] \in Int /\ tnext[field] \in Int /\ t[field] \in Int
      BY <1>3, <1>5, <1>8, <1>9, FieldsOfPosition DEF Held
    <3>2. QED
      BY <1>11, <3>1
  <2> HIDE DEF a, x, y
  <2>5. CASE o.symbol = s
    <3>1. a = 0 + x /\ TotalOf(new, s, field) = a + y
      BY <2>3, <2>5
    <3>2. QED
      BY <2>4, <3>1
  <2>6. CASE o.symbol # s
    <3>1. a = 0 + 0 /\ TotalOf(new, s, field) = a + 0
      BY <2>3, <2>6
    <3>2. QED
      BY <3>1
  <2>7. QED
    BY <2>5, <2>6
<1>13. AccountsAgree(new)
  BY <1>10, <1>12 DEF AccountsAgree, Balanced
<1>14. QED
  BY <1>13 DEF new

-----------------------------------------------------------------------------
(* Trades and positions.  The positions are what the trades, replayed one   *)
(* after the other, make of nothing.                                        *)

Trade == [symbol : Symbols, price : Cents, qty : Tenths,
          maker : Nat, makerAccount : Accounts,
          taker : Nat, takerAccount : Accounts, side : Sides]

MoneySound(held, stored) ==
    /\ AccountsAgree(held)
    /\ stored \in Seq(Trade)
    /\ held = Replayed(stored)

LEMMA ReplayedNothing == Replayed(<<>>) = EmptyMap
<1>1. DOMAIN <<>> = 1..0 /\ 0 \in Nat
  OBVIOUS
<1>2. PICK g : ReplayTurns(g, <<>>, 0)
  BY <1>1, TurnsOfReplay
<1>3. QED
  BY <1>2 DEF ReplayTurns

LEMMA ReplayedAppend ==
    ASSUME NEW S, NEW s \in Seq(S), NEW t \in S
    PROVE  Replayed(Append(s, t)) = Replay(Replayed(s), t)
<1> DEFINE n == Len(s)
           u == Append(s, t)
<1>1. /\ n \in Nat /\ DOMAIN s = 1..n /\ DOMAIN u = 1..(n + 1) /\ u[n + 1] = t
      /\ \A k \in 1..n : u[k] = s[k]
  OBVIOUS
<1> HIDE DEF n, u
<1>2. PICK g : ReplayTurns(g, s, n)
  BY <1>1, TurnsOfReplay
<1>3. n + 1 \in Nat
  BY <1>1
<1>4. PICK h : ReplayTurns(h, u, n + 1)
  BY <1>1, <1>3, TurnsOfReplay
<1> DEFINE good == {k \in Nat : k <= n => g[1..k] = h[1..k]}
<1>5. 0 \in good
  BY <1>2, <1>4 DEF ReplayTurns
<1>6. ASSUME NEW k \in Nat, k \in good PROVE k + 1 \in good
  <2> SUFFICES ASSUME k + 1 <= n PROVE g[1..(k + 1)] = h[1..(k + 1)]
    OBVIOUS
  <2>1. k + 1 \in 1..n /\ k + 1 \in 1..(n + 1) /\ (k + 1) - 1 = k /\ k <= n
    BY <1>1
  <2>2. g[1..k] = h[1..k]
    BY <1>6, <2>1
  <2>3. g[1..(k + 1)] = Replay(g[1..k], s[k + 1])
    BY <1>2, <2>1 DEF ReplayTurns
  <2>4. h[1..(k + 1)] = Replay(h[1..k], u[k + 1])
    BY <1>4, <2>1 DEF ReplayTurns
  <2>5. QED
    BY <1>1, <2>1, <2>2, <2>3, <2>4
<1>7. n \in good
  <2> HIDE DEF good
  <2>1. QED
    BY <1>1, <1>5, <1>6, EveryNatural
<1>8. g[1..n] = h[1..n]
  BY <1>1, <1>7
<1>9. h[1..(n + 1)] = Replay(h[1..n], t)
  <2>1. n + 1 \in 1..(n + 1) /\ (n + 1) - 1 = n
    BY <1>1
  <2>2. QED
    BY <1>1, <1>4, <2>1 DEF ReplayTurns
<1>10. QED
  BY <1>2, <1>4, <1>8, <1>9 DEF ReplayTurns, u

LEMMA ReplayIsFill ==
    ASSUME NEW held, NEW o, NEW f
    PROVE  Replay(held, TradeOf(o, f)) = BookLegs(o, held, f)
BY DEF Replay, TradeOf, BookLegs, TakerAtFill

LEMMA FillKeepsMoney ==
    ASSUME NEW held, NEW stored, MoneySound(held, stored), NEW o, OrderFits(o), NEW f,
           FillTyped(f), f.maker \in Nat, FillFits(o, held, f)
    PROVE  MoneySound(BookLegs(o, held, f), Append(stored, TradeOf(o, f)))
<1>1. AccountsAgree(BookLegs(o, held, f))
  BY LegsBalance DEF MoneySound
<1>2. TradeOf(o, f) \in Trade
  BY DEF TradeOf, Trade, FillTyped, OrderFits
<1>3. Replayed(Append(stored, TradeOf(o, f))) = Replay(Replayed(stored), TradeOf(o, f))
  BY <1>2, ReplayedAppend DEF MoneySound
<1>4. Replayed(stored) = held
  BY DEF MoneySound
<1>5. QED
  BY <1>1, <1>2, <1>3, <1>4, ReplayIsFill DEF MoneySound

\* A committed fill, and what it leaves of positions and trades.
LEMMA CommitKeepsMoney ==
    ASSUME NEW o, OrderFits(o), NEW e, IsExec(e), MoneySound(e.positions, e.trades),
           NEW f, TakesFront(e.book, o, f), FillFits(o, e.positions, f)
    PROVE  /\ MoneySound(CommitFill(o, e, f).positions, CommitFill(o, e, f).trades)
           /\ CommitFill(o, e, f).positions = BookLegs(o, e.positions, f)
           /\ CommitFill(o, e, f).ledger = e.ledger
           /\ CommitFill(o, e, f).stop = e.stop
           /\ CommitFill(o, e, f).left = e.left - f.qty
<1>1. FillTyped(f) /\ f.maker \in Nat
  BY DEF TakesFront, FillTyped, Entry
<1>2. MoneySound(BookLegs(o, e.positions, f), Append(e.trades, TradeOf(o, f)))
  BY <1>1, FillKeepsMoney
<1>3. CommitFill(o, e, f) = CommitRecord(o, e, f)
  BY CommitFields
<1>4. /\ CommitRecord(o, e, f).positions = BookLegs(o, e.positions, f)
      /\ CommitRecord(o, e, f).trades = Append(e.trades, TradeOf(o, f))
      /\ CommitRecord(o, e, f).ledger = e.ledger
      /\ CommitRecord(o, e, f).stop = e.stop
      /\ CommitRecord(o, e, f).left = e.left - f.qty
  BY DEF CommitRecord
<1>5. QED
  BY <1>2, <1>3, <1>4

LEMMA ExecuteKeepsMoney ==
    ASSUME NEW o, OrderFits(o), NEW rw, NEW e, BookSound(o, rw, e), e.left = o.qty,
           MoneySound(e.positions, e.trades),
           NEW x, x = ExecuteTurns(o, e, o.qty)
    PROVE  MoneySound(x.positions, x.trades)
<1>1. PICK g : FillChain(g, o, rw, e, o.qty)
  BY ExecuteRuns
<1> DEFINE n == o.qty
           Money(y) == MoneySound(y.positions, y.trades)
           good == {k \in Nat : k <= n => Money(g[1..k])}
<1>2. n \in Nat
  BY <1>1 DEF FillChain
<1>3. 0 \in good
  BY <1>1 DEF FillChain
<1>4. ASSUME NEW k \in Nat, k \in good PROVE k + 1 \in good
  <2> SUFFICES ASSUME k + 1 <= n PROVE Money(g[1..(k + 1)])
    OBVIOUS
  <2>1. k + 1 \in 1..n /\ k \in 0..n /\ (k + 1) - 1 = k
    BY <1>2
  <2>2. PICK y, z : y = g[1..k] /\ z = g[1..(k + 1)]
    OBVIOUS
  <2>3. FillStep(o, y, z) /\ BookSound(o, rw, y) /\ Money(y)
    BY <1>1, <1>4, <2>1, <2>2 DEF FillChain
  <2>4. IsExec(y)
    BY <2>3 DEF BookSound
  <2>5. CASE z = y
    BY <2>2, <2>3, <2>5
  <2>6. CASE Stopped(y, z)
    <3>1. z = [book |-> y.book, ledger |-> y.ledger, positions |-> y.positions,
               openOrders |-> y.openOrders, rows |-> y.rows, trades |-> y.trades,
               left |-> y.left, stop |-> z.stop]
      BY <2>4, <2>6, StoppedFields
    <3>2. z.positions = y.positions /\ z.trades = y.trades
      BY <3>1
    <3>3. QED
      BY <2>2, <2>3, <3>2
  <2>7. CASE TakesFill(o, y, z)
    <3> DEFINE f == FillNow(o, y)
               l == AfterSettle(y.ledger, f.maker, o.id, f.price, f.qty)
               w == Settled(y, l)
    <3>1. TakesFront(y.book, o, f) /\ FillFits(o, y.positions, f) /\ z = CommitFill(o, w, f)
      BY <2>7 DEF TakesFill
    <3>2. /\ BookSound(o, rw, w) /\ w.book = y.book
          /\ w.positions = y.positions /\ w.trades = y.trades
      BY <2>3, SettledKeepsBook
    <3> HIDE DEF w, f
    <3>3. IsExec(w)
      BY <3>2 DEF BookSound
    <3>4. Money(CommitFill(o, w, f))
      BY <2>3, <3>1, <3>2, <3>3, CommitKeepsMoney
    <3>5. QED
      BY <2>2, <3>1, <3>4
  <2>8. QED
    BY <2>3, <2>5, <2>6, <2>7 DEF FillStep
<1>5. n \in good
  <2> HIDE DEF good
  <2>1. QED
    BY <1>2, <1>3, <1>4, EveryNatural
<1>6. Money(g[1..n])
  BY <1>2, <1>5
<1>7. x = g[1..n]
  BY <1>1 DEF FillChain
<1>8. QED
  BY <1>6, <1>7

-----------------------------------------------------------------------------
(* The staged plan.  What the private copies go through, when every fill of *)
(* the plan fits them.                                                      *)

IsStage(s) == s = [positions |-> s.positions, ledger |-> s.ledger, fits |-> s.fits]

StageStep(o, s, f, z) ==
    /\ FillFits(o, s.positions, f)
    /\ CanSettle(s.ledger, f.maker, o.id, f.price, f.qty)
    /\ z = [positions |-> BookLegs(o, s.positions, f),
            ledger    |-> AfterSettle(s.ledger, f.maker, o.id, f.price, f.qty),
            fits      |-> TRUE]

LEMMA StageStepsOrStops ==
    ASSUME NEW o, NEW s, IsStage(s), NEW f, NEW z, z = StageFill(o, s, f)
    PROVE  /\ IsStage(z)
           /\ z.fits = TRUE /\ s.fits \in BOOLEAN => s.fits = TRUE /\ StageStep(o, s, f, z)
           /\ s.fits \in BOOLEAN => z.fits \in BOOLEAN
<1> DEFINE p == BookLegs(o, s.positions, f)
           l == AfterSettle(s.ledger, f.maker, o.id, f.price, f.qty)
           ok == FillFits(o, s.positions, f) /\ CanSettle(s.ledger, f.maker, o.id, f.price, f.qty)
<1>1. CASE s.fits /\ ok
  <2>1. z = [s EXCEPT !.positions = p, !.ledger = l]
    BY <1>1 DEF StageFill
  <2> HIDE DEF p, l
  <2>2. z = [positions |-> p, ledger |-> l, fits |-> s.fits]
    BY <2>1 DEF IsStage
  <2>3. s.fits \in BOOLEAN => s.fits = TRUE
    BY <1>1
  <2>4. IsStage(z) /\ z.fits = s.fits
    BY <2>2 DEF IsStage
  <2>5. s.fits = TRUE => StageStep(o, s, f, z)
    BY <1>1, <2>2 DEF StageStep, p, l
  <2>6. QED
    BY <2>3, <2>4, <2>5
<1>2. CASE ~(s.fits /\ ok)
  <2>1. z = [s EXCEPT !.fits = FALSE]
    BY <1>2 DEF StageFill
  <2>2. z = [positions |-> s.positions, ledger |-> s.ledger, fits |-> FALSE]
    BY <2>1 DEF IsStage
  <2>3. IsStage(z) /\ z.fits = FALSE
    BY <2>2 DEF IsStage
  <2>4. QED
    BY <2>3
<1>3. QED
  BY <1>1, <1>2

\* The copies, one fill after the other.
StageChain(g, o, base, plan, n) ==
    /\ n \in Nat
    /\ g[1..0] = base
    /\ \A k \in 1..n : StageStep(o, g[1..(k - 1)], plan[k], g[1..k])
    /\ StagePlan(o, base, plan) = g[1..n]

LEMMA StageRuns ==
    ASSUME NEW o, NEW base, IsStage(base), base.fits = TRUE, NEW plan, NEW n, PlanFits(plan, n),
           StagePlan(o, base, plan).fits
    PROVE  \E g : StageChain(g, o, base, plan, n)
<1>1. n \in Nat /\ DOMAIN plan = 1..n
  BY DEF PlanFits
<1>2. PICK g : StageTurns(g, o, base, plan, n)
  BY <1>1, TurnsOfStage
<1>2a. /\ g[1..0] = base
       /\ \A k \in 1..n : g[1..k] = StageFill(o, g[1..(k - 1)], plan[k])
       /\ StagePlan(o, base, plan) = g[1..n]
  BY <1>2 DEF StageTurns
<1> DEFINE Copy(s) == IsStage(s) /\ s.fits \in BOOLEAN
           forth == {k \in Nat : k <= n => Copy(g[1..k])}
           back  == {k \in Nat : k <= n => g[1..(n - k)].fits = TRUE}
<1>3. \A k \in Nat : k \in forth
  <2>1. 0 \in forth
    BY <1>2a
  <2>2. ASSUME NEW k \in Nat, k \in forth PROVE k + 1 \in forth
    <3> SUFFICES ASSUME k + 1 <= n PROVE Copy(g[1..(k + 1)])
      OBVIOUS
    <3>1. k + 1 \in 1..n /\ (k + 1) - 1 = k /\ k <= n
      BY <1>1
    <3>2. Copy(g[1..k]) /\ g[1..(k + 1)] = StageFill(o, g[1..k], plan[k + 1])
      BY <1>2a, <2>2, <3>1
    <3>3. PICK s, z, f : s = g[1..k] /\ z = g[1..(k + 1)] /\ f = plan[k + 1]
      OBVIOUS
    <3>4. IsStage(s) /\ s.fits \in BOOLEAN /\ z = StageFill(o, s, f)
      BY <3>2, <3>3
    <3>5. IsStage(z) /\ z.fits \in BOOLEAN
      BY <3>4, StageStepsOrStops
    <3>6. QED
      BY <3>3, <3>5
  <2> HIDE DEF forth
  <2>3. QED
    BY <2>1, <2>2, EveryNatural
<1>4. \A k \in 0..n : Copy(g[1..k])
  BY <1>1, <1>3
<1> HIDE DEF Copy
<1>5. ASSUME NEW k \in 1..n, g[1..k].fits = TRUE
      PROVE  g[1..(k - 1)].fits = TRUE /\ StageStep(o, g[1..(k - 1)], plan[k], g[1..k])
  <2>1. k - 1 \in 0..n
    BY <1>1
  <2>2. Copy(g[1..(k - 1)]) /\ g[1..k] = StageFill(o, g[1..(k - 1)], plan[k])
    BY <1>2a, <1>4, <2>1
  <2>3. PICK s, z, f : s = g[1..(k - 1)] /\ z = g[1..k] /\ f = plan[k]
    OBVIOUS
  <2>4. /\ IsStage(s) /\ s.fits \in BOOLEAN /\ z = StageFill(o, s, f) /\ z.fits = TRUE
    BY <1>5, <2>2, <2>3 DEF Copy
  <2>5. s.fits = TRUE /\ StageStep(o, s, f, z)
    BY <2>4, StageStepsOrStops
  <2>6. QED
    BY <2>3, <2>5
<1>6. \A k \in Nat : k \in back
  <2>1. 0 \in back
    <3>1. n \in 0..n /\ n - 0 = n
      BY <1>1
    <3>2. g[1..n].fits = TRUE
      BY <1>2a, <1>4, <3>1 DEF Copy
    <3>3. QED
      BY <3>1, <3>2
  <2>2. ASSUME NEW k \in Nat, k \in back PROVE k + 1 \in back
    <3>1. ASSUME k + 1 <= n PROVE g[1..(n - (k + 1))].fits = TRUE
      <4>1. n - k \in 1..n /\ (n - k) - 1 = n - (k + 1) /\ k <= n
        BY <1>1, <3>1
      <4>2. g[1..(n - k)].fits = TRUE
        BY <2>2, <4>1
      <4>3. g[1..((n - k) - 1)].fits = TRUE
        BY <1>5, <4>1, <4>2
      <4>4. QED
        BY <4>1, <4>3
    <3>2. k + 1 \in Nat
      OBVIOUS
    <3>3. QED
      BY <3>1, <3>2
  <2> HIDE DEF back
  <2>3. QED
    BY <2>1, <2>2, EveryNatural
<1>7. ASSUME NEW k \in 1..n PROVE StageStep(o, g[1..(k - 1)], plan[k], g[1..k])
  <2>1. n - k \in Nat /\ n - k <= n /\ n - (n - k) = k
    BY <1>1
  <2>2. g[1..(n - (n - k))].fits = TRUE
    BY <1>6, <2>1
  <2>3. QED
    BY <1>5, <2>1, <2>2
<1>8. StageChain(g, o, base, plan, n)
  BY <1>1, <1>2a, <1>7 DEF StageChain
<1>9. QED
  BY <1>8

\* The planned fills do to the positions what they did to the copy.
LEMMA PlanKeepsMoney ==
    ASSUME NEW o, OrderFits(o), NEW rw, NEW e, BookSound(o, rw, e),
           MoneySound(e.positions, e.trades), NEW plan, NEW n, PlanFits(plan, n),
           NEW base, IsStage(base), base.fits = TRUE, base.positions = e.positions,
           StagePlan(o, base, plan).fits,
           NEW x, x = ExecutePlan(o, e, plan)
    PROVE  MoneySound(x.positions, x.trades)
<1>1. PICK g : PlanChain(g, o, rw, e, plan, n)
  BY PlanRuns
<1>2. PICK h : StageChain(h, o, base, plan, n)
  BY StageRuns
<1>2a. /\ n \in Nat /\ g[1..0] = e /\ h[1..0] = base
       /\ \A k \in 1..n : g[1..k] = ExecutePlanned(o, g[1..(k - 1)], plan[k])
       /\ \A k \in 0..n : BookSound(o, rw, g[1..k])
       /\ \A k \in 1..n : StageStep(o, h[1..(k - 1)], plan[k], h[1..k])
       /\ x = g[1..n]
  BY <1>1, <1>2 DEF PlanChain, PlanTurns, StageChain
<1> DEFINE Money(y) == MoneySound(y.positions, y.trades)
           Follows(y, s) == Money(y) /\ (y.stop = "no" => y.positions = s.positions)
           good == {k \in Nat : k <= n => Follows(g[1..k], h[1..k])}
<1>3. 0 \in good
  BY <1>2a
<1>4. ASSUME NEW k \in Nat, k \in good PROVE k + 1 \in good
  <2> SUFFICES ASSUME k + 1 <= n PROVE Follows(g[1..(k + 1)], h[1..(k + 1)])
    OBVIOUS
  <2>1. k + 1 \in 1..n /\ k \in 0..n /\ (k + 1) - 1 = k
    BY <1>2a
  <2>2. PICK y, z, s, t, f : y = g[1..k] /\ z = g[1..(k + 1)] /\ s = h[1..k]
                             /\ t = h[1..(k + 1)] /\ f = plan[k + 1]
    OBVIOUS
  <2>3. /\ z = ExecutePlanned(o, y, f) /\ BookSound(o, rw, y) /\ Follows(y, s)
        /\ StageStep(o, s, f, t)
    BY <1>2a, <1>4, <2>1, <2>2
  <2>4. f.qty \in Tenths
    BY <2>1, <2>2 DEF PlanFits
  <2>5. IsExec(y)
    BY <2>3 DEF BookSound
  <2> HIDE DEF good
  <2>6. CASE z = y /\ y.stop # "no"
    BY <2>2, <2>3, <2>6
  <2>7. CASE z = [y EXCEPT !.stop = "panic"]
    <3>0. Stopped(y, z)
      BY <2>7 DEF Stopped
    <3>1. /\ z = [book |-> y.book, ledger |-> y.ledger, positions |-> y.positions,
                  openOrders |-> y.openOrders, rows |-> y.rows, trades |-> y.trades,
                  left |-> y.left, stop |-> z.stop]
          /\ z.stop \in {"overflow", "panic"}
      BY <2>5, <3>0, StoppedFields
    <3>2. z.positions = y.positions /\ z.trades = y.trades /\ z.stop # "no"
      BY <3>1
    <3>3. QED
      BY <2>2, <2>3, <3>2
  <2>8. CASE y.stop = "no" /\ TakesPlanned(o, y, f, z)
    <3>1. TakesFront(y.book, o, f) /\ z = CommitFill(o, y, f) /\ y.positions = s.positions
      BY <2>3, <2>8 DEF TakesPlanned
    <3>2. FillFits(o, y.positions, f) /\ t.positions = BookLegs(o, y.positions, f)
      BY <2>3, <3>1 DEF StageStep
    <3>3. Money(z) /\ z.positions = BookLegs(o, y.positions, f)
      BY <2>3, <2>5, <3>1, <3>2, CommitKeepsMoney
    <3>4. QED
      BY <2>2, <3>2, <3>3
  <2>9. QED
    BY <2>3, <2>4, <2>6, <2>7, <2>8, TurnOfPlan
<1>5. n \in good
  <2> HIDE DEF good
  <2>1. QED
    BY <1>2a, <1>3, <1>4, EveryNatural
<1>6. QED
  BY <1>2a, <1>5

LEMMA OrderKeepsMoney ==
    ASSUME Sound(books, rows, openOrders), MoneySound(positions, trades),
           NEW o, OrderFits(o), FundsAndPlanFit(o),
           NEW e, e = AfterRemainder(o, Execution(o))
    PROVE  MoneySound(e.positions, e.trades)
<1> DEFINE x == Execution(o)
           Money(y) == MoneySound(y.positions, y.trades)
<1>1. BookSound(o, rows, x)
  BY ExecutionKeepsBook
<1>2. Money(x)
  <2>1. CASE IsStaged(o)
    <3> DEFINE start == Starting(o, Staged(o).ledger)
               plan == PlanFills(BookOf(o.symbol), o)
               base == [positions |-> positions, ledger |-> ReservedFor(o), fits |-> TRUE]
    <3>1. BookSound(o, rows, start) /\ BookFits(BookOf(o.symbol))
      BY StartingIsSound
    <3>2. PICK n : PlanFits(plan, n)
      BY <3>1, PlanIsTyped
    <3>3. x = ExecutePlan(o, start, plan)
      BY <2>1 DEF Execution
    <3>4. Staged(o).fits /\ Staged(o) = StagePlan(o, base, plan)
      BY <2>1 DEF FundsAndPlanFit, Staged
    <3>5. start.positions = positions /\ start.trades = trades
      BY DEF Starting
    <3>6. IsStage(base) /\ base.fits = TRUE /\ base.positions = positions
      BY DEF IsStage
    <3>7. StagePlan(o, base, plan).fits
      BY <3>4
    <3> HIDE DEF start, plan, base, x
    <3>8. QED
      BY <3>1, <3>2, <3>3, <3>5, <3>6, <3>7, PlanKeepsMoney
  <2>2. CASE ~IsStaged(o)
    <3> DEFINE start == Starting(o, ReservedFor(o))
    <3>1. BookSound(o, rows, start) /\ start.left = o.qty
      BY StartingIsSound
    <3>2. x = ExecuteTurns(o, start, o.qty)
      BY <2>2 DEF Execution
    <3>3. start.positions = positions /\ start.trades = trades
      BY DEF Starting
    <3> HIDE DEF start, x
    <3>4. QED
      BY <3>1, <3>2, <3>3, ExecuteKeepsMoney
  <2>3. QED
    BY <2>1, <2>2
<1>3. IsExec(x)
  BY <1>1 DEF BookSound
<1>4. \/ e = RestingRemainder(o, x)
      \/ e = x
      \/ e = [x EXCEPT !.stop = "panic"]
      \/ e = Settled(x, AfterRelease(x.ledger, o.id))
  BY DEF AfterRemainder, Settled
<1> HIDE DEF x
<1>5. e.positions = x.positions /\ e.trades = x.trades
  <2>1. CASE e = RestingRemainder(o, x)
    <3>1. e = RestRecord(o, x)
      BY <1>3, <2>1, RestFields
    <3>2. RestRecord(o, x).positions = x.positions /\ RestRecord(o, x).trades = x.trades
      BY DEF RestRecord
    <3>3. QED
      BY <3>1, <3>2
  <2>2. CASE e = x
    BY <2>2
  <2>3. CASE e = [x EXCEPT !.stop = "panic"]
    BY <2>3, <1>3 DEF IsExec
  <2>4. CASE e = Settled(x, AfterRelease(x.ledger, o.id))
    BY <1>1, <2>4, SettledKeepsBook
  <2>5. QED
    BY <1>4, <2>1, <2>2, <2>3, <2>4
<1>6. QED
  BY <1>2, <1>5

-----------------------------------------------------------------------------
(* The messages, once more: what they do to the accounts.                   *)

LEMMA NewKeepsMoney ==
    ASSUME BooksInv, MoneySound(positions, trades),
           NEW account \in Accounts, NEW symbol \in Symbols, NEW form \in Forms,
           NEW reference \in ReferencesFor(form),
           New(Arrived(account, symbol, form), reference)
    PROVE  MoneySound(positions', trades')
<1> DEFINE arrived == Arrived(account, symbol, form)
           o == Bounded(arrived, reference)
<1>1. CASE RefuseEarly(arrived) \/ RefuseLate(arrived, reference)
  BY <1>1 DEF RefuseEarly, RefuseLate, market
<1>2. CASE ApplyNew(arrived, reference)
  <2> DEFINE e == AfterRemainder(o, Execution(o))
  <2>1. AdmittedLate(o, arrived, reference)
    BY <1>2 DEF ApplyNew
  <2>2. Panic \/ (positions' = e.positions /\ trades' = e.trades)
    BY <1>2 DEF ApplyNew
  <2>3. OrderFits(o) /\ FundsAndPlanFit(o)
    <3>1. PriceBounded(arrived, reference)
      BY <2>1 DEF AdmittedLate
    <3>2. OrderFits(o)
      BY <3>1, BoundedFits DEF BooksInv
    <3>3. QED
      BY <2>1, <3>2 DEF AdmittedLate
  <2>4. Sound(books, rows, openOrders)
    BY DEF BooksInv
  <2> HIDE DEF o, arrived
  <2>5. MoneySound(e.positions, e.trades)
    BY <2>3, <2>4, OrderKeepsMoney
  <2> HIDE DEF e
  <2>6. QED
    BY <2>2, <2>5 DEF Panic, market
<1>3. QED
  BY <1>1, <1>2 DEF New

LEMMA StepKeepsMoney ==
    ASSUME BooksInv, MoneySound(positions, trades), [Next]_vars
    PROVE  MoneySound(positions', trades')
<1>1. CASE UNCHANGED vars
  BY <1>1 DEF vars, market
<1>2. ASSUME NEW account \in Accounts, NEW symbol \in Symbols, NEW form \in Forms,
             NEW reference \in ReferencesFor(form),
             New(Arrived(account, symbol, form), reference)
      PROVE  MoneySound(positions', trades')
  BY <1>2, NewKeepsMoney
<1>3. ASSUME NEW account \in Accounts, NEW target \in 1..lastSeen,
             \/ IgnoreCancel(account, target)
             \/ RefuseCancel(account, target)
             \/ ApplyCancel(account, target)
      PROVE  MoneySound(positions', trades')
  BY <1>3 DEF IgnoreCancel, RefuseCancel, ApplyCancel, Panic, market
<1>4. ASSUME NEW signer \in Signers,
             \/ IgnoreOperator(signer)
             \/ \E symbol \in Symbols, step \in Steps : ApplyListSymbol(signer, symbol, step)
             \/ \E symbol \in Symbols :
                   \/ ApplyDelistSymbol(signer, symbol)
                   \/ RefuseDelistSymbol(signer, symbol)
             \/ \E version \in Versions : ApplyEngineRule(signer, version)
      PROVE  MoneySound(positions', trades')
  BY <1>4 DEF IgnoreOperator, ApplyListSymbol, ApplyDelistSymbol, RefuseDelistSymbol,
              ApplyEngineRule, market
<1>5. QED
  BY <1>1, <1>2, <1>3, <1>4 DEF Next

LEMMA InitIsFlat == Init => MoneySound(positions, trades)
<1> SUFFICES ASSUME Init PROVE MoneySound(positions, trades)
  OBVIOUS
<1>1. positions = EmptyMap /\ trades = <<>>
  BY DEF Init
<1>2. DOMAIN EmptyMap = {} /\ EmptyMap = [x \in DOMAIN EmptyMap |-> EmptyMap[x]]
  BY DEF EmptyMap
<1>3. PositionsFit(positions)
  BY <1>1, <1>2, FS_EmptySet DEF PositionsFit
<1>4. ASSUME NEW s \in Symbols, NEW field \in Totals PROVE TotalOf(positions, s, field) = 0
  <2>1. KeysOf(positions, s) = {}
    BY <1>1, <1>2 DEF KeysOf
  <2>2. QED
    BY <2>1, SumOfNothing DEF TotalOf
<1>5. QED
  BY <1>1, <1>3, <1>4, ReplayedNothing DEF MoneySound, AccountsAgree, Balanced

-----------------------------------------------------------------------------
(* Listings, rules and the count of messages.                               *)

Listing == [price : Nat \ {0}, qty : Nat \ {0}, listed : BOOLEAN, listedBy : Nat]

GovernanceFits ==
    /\ lastSeen \in 0..MaxMessages
    /\ listings \in [DOMAIN listings -> Listing]
    /\ DOMAIN listings \subseteq Symbols
    /\ rules \in KnownVersions
    /\ operatorKey \in Signers \cup {NoKey}
    /\ panicked \in BOOLEAN

LEMMA RunningCounts ==
    ASSUME lastSeen \in 0..MaxMessages, Running, NEW l, Consumed(l)
    PROVE  lastSeen' \in 0..MaxMessages /\ panicked' \in BOOLEAN
<1>1. MaxMessages \in Nat /\ lastSeen \in Nat /\ lastSeen < MaxMessages
  BY ExchangeInputs DEF Running
<1>2. NextId \in 0..MaxMessages
  BY <1>1 DEF NextId
<1>3. \/ lastSeen' = NextId /\ panicked' = FALSE
      \/ lastSeen' = lastSeen /\ panicked' = TRUE
  BY DEF Consumed
<1>4. QED
  BY <1>2, <1>3

LEMMA GovernanceStays ==
    ASSUME GovernanceFits, UNCHANGED governance,
           lastSeen' \in 0..MaxMessages, panicked' \in BOOLEAN
    PROVE  GovernanceFits'
BY DEF GovernanceFits, governance

LEMMA ListingKeepsGovernance ==
    ASSUME GovernanceFits, NEW signer \in Signers, NEW symbol \in Symbols, NEW step \in Steps,
           ApplyListSymbol(signer, symbol, step)
    PROVE  GovernanceFits'
<1> DEFINE new == Put(listings, symbol, [price |-> step.price, qty |-> step.qty,
                                         listed |-> TRUE, listedBy |-> NextId])
<1>1. lastSeen' \in 0..MaxMessages /\ panicked' \in BOOLEAN
  BY RunningCounts DEF ApplyListSymbol, GovernanceFits
<1>2. operatorKey' \in Signers \cup {NoKey} /\ rules' \in KnownVersions
  BY DEF ApplyListSymbol, KeyAfter, GovernanceFits
<1>3. listings' \in [DOMAIN listings' -> Listing] /\ DOMAIN listings' \subseteq Symbols
  <2>1. listings' = IF ListingServed(symbol, step) THEN new ELSE listings
    BY DEF ApplyListSymbol
  <2>2. CASE ListingServed(symbol, step)
    <3>1. step.price \in Nat \ {0} /\ step.qty \in Nat \ {0} /\ NextId \in Nat
      BY <2>2, ExchangeInputs DEF ListingServed, NextId, GovernanceFits
    <3> DEFINE r == [price |-> step.price, qty |-> step.qty, listed |-> TRUE, listedBy |-> NextId]
    <3>2. r \in Listing
      BY <3>1 DEF Listing
    <3> HIDE DEF r
    <3>3. listings' = Put(listings, symbol, r)
      BY <2>1, <2>2 DEF r
    <3>4. QED
      BY <3>2, <3>3 DEF Put, GovernanceFits
  <2>3. CASE ~ListingServed(symbol, step)
    BY <2>1, <2>3 DEF GovernanceFits
  <2>4. QED
    BY <2>2, <2>3
<1>4. QED
  BY <1>1, <1>2, <1>3 DEF GovernanceFits

LEMMA StepKeepsGovernance == GovernanceFits /\ [Next]_vars => GovernanceFits'
<1> SUFFICES ASSUME GovernanceFits, [Next]_vars PROVE GovernanceFits'
  OBVIOUS
<1>0. lastSeen \in 0..MaxMessages /\ panicked \in BOOLEAN
  BY DEF GovernanceFits
<1>1. CASE UNCHANGED vars
  BY <1>0, <1>1, GovernanceStays DEF vars
<1>2. ASSUME NEW account \in Accounts, NEW symbol \in Symbols, NEW form \in Forms,
             NEW reference \in ReferencesFor(form),
             New(Arrived(account, symbol, form), reference)
      PROVE  GovernanceFits'
  <2>1. /\ UNCHANGED governance
        /\ Panic \/ (Running /\ \E l : Consumed(l))
    BY <1>2 DEF New, RefuseEarly, RefuseLate, ApplyNew, Panic
  <2>2. lastSeen' \in 0..MaxMessages /\ panicked' \in BOOLEAN
    BY <1>0, <2>1, RunningCounts DEF Panic
  <2>3. QED
    BY <2>1, <2>2, GovernanceStays
<1>3. ASSUME NEW account \in Accounts, NEW target \in 1..lastSeen,
             \/ IgnoreCancel(account, target)
             \/ RefuseCancel(account, target)
             \/ ApplyCancel(account, target)
      PROVE  GovernanceFits'
  <2>1. /\ UNCHANGED governance
        /\ Panic \/ (Running /\ \E l : Consumed(l))
    BY <1>3 DEF IgnoreCancel, RefuseCancel, ApplyCancel, Panic
  <2>2. lastSeen' \in 0..MaxMessages /\ panicked' \in BOOLEAN
    BY <1>0, <2>1, RunningCounts DEF Panic
  <2>3. QED
    BY <2>1, <2>2, GovernanceStays
<1>4. ASSUME NEW signer \in Signers, IgnoreOperator(signer) PROVE GovernanceFits'
  BY <1>0, <1>4, RunningCounts, GovernanceStays DEF IgnoreOperator
<1>5. ASSUME NEW signer \in Signers, NEW symbol \in Symbols, ApplyDelistSymbol(signer, symbol)
      PROVE  GovernanceFits'
  <2>1. lastSeen' \in 0..MaxMessages /\ panicked' \in BOOLEAN
    BY <1>0, <1>5, RunningCounts DEF ApplyDelistSymbol
  <2>2. listings' = [listings EXCEPT ![symbol].listed = FALSE] /\ symbol \in DOMAIN listings
    BY <1>5 DEF ApplyDelistSymbol, Listed
  <2>3. operatorKey' \in Signers \cup {NoKey} /\ rules' \in KnownVersions
    BY <1>5 DEF ApplyDelistSymbol, KeyAfter, GovernanceFits
  <2>4. listings' \in [DOMAIN listings' -> Listing] /\ DOMAIN listings' \subseteq Symbols
    BY <2>2 DEF GovernanceFits, Listing
  <2>5. QED
    BY <2>1, <2>3, <2>4 DEF GovernanceFits
<1>6. ASSUME NEW signer \in Signers, NEW symbol \in Symbols, RefuseDelistSymbol(signer, symbol)
      PROVE  GovernanceFits'
  <2>1. lastSeen' \in 0..MaxMessages /\ panicked' \in BOOLEAN
    BY <1>0, <1>6, RunningCounts DEF RefuseDelistSymbol
  <2>2. QED
    BY <1>6, <2>1 DEF RefuseDelistSymbol, KeyAfter, GovernanceFits
<1>7. ASSUME NEW signer \in Signers, NEW version \in Versions, ApplyEngineRule(signer, version)
      PROVE  GovernanceFits'
  <2>1. lastSeen' \in 0..MaxMessages /\ panicked' \in BOOLEAN
    BY <1>0, <1>7, RunningCounts DEF ApplyEngineRule
  <2>2. QED
    BY <1>7, <2>1 DEF ApplyEngineRule, KeyAfter, GovernanceFits
<1>8. QED
  BY <1>1, <1>2, <1>3, <1>4, <1>5, <1>6, <1>7, ListingKeepsGovernance DEF Next

LEMMA InitIsGoverned == Init => GovernanceFits
<1> SUFFICES ASSUME Init PROVE GovernanceFits
  OBVIOUS
<1>1. /\ lastSeen = 0 /\ listings = EmptyMap /\ rules = 1 /\ operatorKey = NoKey
      /\ panicked = FALSE
  BY DEF Init
<1>2. 0 \in 0..MaxMessages
  BY ExchangeInputs
<1>3. EmptyMap \in [DOMAIN EmptyMap -> Listing] /\ DOMAIN EmptyMap = {}
  BY DEF EmptyMap
<1>4. QED
  BY <1>1, <1>2, <1>3 DEF GovernanceFits, KnownVersions

-----------------------------------------------------------------------------
(* Steps of the listings.  What rests is a whole number of steps of its     *)
(* symbol's listing, and so is what every fill leaves of it.                *)

OnStep(s, p, q) == Listed(s) /\ OnSteps(s, p, q)

RowsOnStep(rw) == \A id \in DOMAIN rw : OnStep(rw[id].symbol, rw[id].price, rw[id].qty)

QtyStep(o) == listings[o.symbol].qty

LEMMA CommitKeepsSteps ==
    ASSUME GovernanceFits, NEW o, OrderFits(o), NEW rw, NEW e, BookSound(o, rw, e),
           RowsOnStep(e.rows), NEW f, TakesFront(e.book, o, f), f.qty % QtyStep(o) = 0
    PROVE  RowsOnStep(CommitFill(o, e, f).rows)
<1> DEFINE rx == CommitFill(o, e, f).rows
<1>1. MakersRow(o, e.book, e.rows, f)
  BY RowOfMaker DEF BookSound
<1>2. CASE MakerDone(CommitFill(o, e, f), o, e, f)
  <2>1. rx = Without(e.rows, {f.maker})
    BY <1>2 DEF MakerDone
  <2>2. \A id \in DOMAIN rx : id \in DOMAIN e.rows /\ rx[id] = e.rows[id]
    BY <2>1 DEF Without, Restrict
  <2>3. QED
    BY <2>2 DEF RowsOnStep
<1>3. CASE MakerStays(CommitFill(o, e, f), o, e, f)
  <2> DEFINE row == RowLeft(o, e, f)
             had == MakerFor(e.book, o, f).qty
  <2>1. rx = Put(e.rows, f.maker, row)
    BY <1>3 DEF MakerStays
  <2>2. row.symbol = o.symbol /\ row.price = f.price /\ row.qty = had - f.qty
    BY DEF RowLeft, LeftOf
  <2>3. /\ f.maker \in DOMAIN e.rows /\ e.rows[f.maker].symbol = o.symbol
        /\ e.rows[f.maker].price = f.price /\ e.rows[f.maker].qty = had
    BY <1>1 DEF MakersRow
  <2>4. OnStep(o.symbol, f.price, had)
    BY <2>3 DEF RowsOnStep
  <2>5. had \in Int /\ f.qty \in Int
    BY DEF TakesFront, Entry, Tenths
  <2>6. QtyStep(o) \in Nat \ {0} /\ had % QtyStep(o) = 0
    BY <2>4 DEF GovernanceFits, Listing, OnStep, OnSteps, Listed, QtyStep
  <2> HIDE DEF had, row
  <2>7. (had - f.qty) % QtyStep(o) = 0
    BY <2>5, <2>6, MultiplesAdd
  <2>8. OnStep(row.symbol, row.price, row.qty)
    BY <2>2, <2>4, <2>7 DEF OnStep, OnSteps, QtyStep
  <2>9. DOMAIN rx = DOMAIN e.rows \cup {f.maker} /\ rx[f.maker] = row
        /\ \A id \in DOMAIN e.rows \ {f.maker} : rx[id] = e.rows[id]
    BY <2>1 DEF Put
  <2> HIDE DEF rx
  <2>10. RowsOnStep(rx)
    BY <2>8, <2>9 DEF RowsOnStep
  <2>11. QED
    BY <2>10 DEF rx
<1>4. QED
  BY <1>2, <1>3, CommitParts

\* An order that is not planned: what is left of it stays on step as well.
LEMMA ExecuteKeepsSteps ==
    ASSUME GovernanceFits, NEW o, OrderFits(o), NEW rw, NEW e, BookSound(o, rw, e),
           e.left = o.qty, RowsOnStep(e.rows), Listed(o.symbol), o.qty % QtyStep(o) = 0,
           NEW x, x = ExecuteTurns(o, e, o.qty)
    PROVE  RowsOnStep(x.rows) /\ x.left % QtyStep(o) = 0
<1>1. PICK g : FillChain(g, o, rw, e, o.qty)
  BY ExecuteRuns
<1> DEFINE n == o.qty
           d == QtyStep(o)
           Fine(y) == RowsOnStep(y.rows) /\ y.left % d = 0
           good == {k \in Nat : k <= n => Fine(g[1..k])}
<1>2. n \in Nat /\ d \in Nat \ {0}
  BY <1>1 DEF FillChain, GovernanceFits, Listing, Listed, QtyStep
<1>3. 0 \in good
  BY <1>1 DEF FillChain
<1>4. ASSUME NEW k \in Nat, k \in good PROVE k + 1 \in good
  <2> SUFFICES ASSUME k + 1 <= n PROVE Fine(g[1..(k + 1)])
    OBVIOUS
  <2>1. k + 1 \in 1..n /\ k \in 0..n /\ (k + 1) - 1 = k
    BY <1>2
  <2>2. PICK y, z : y = g[1..k] /\ z = g[1..(k + 1)]
    OBVIOUS
  <2>3. FillStep(o, y, z) /\ BookSound(o, rw, y) /\ Fine(y) /\ y.left \in Nat
    BY <1>1, <1>4, <2>1, <2>2 DEF FillChain
  <2>4. IsExec(y)
    BY <2>3 DEF BookSound
  <2>5. CASE z = y
    BY <2>2, <2>3, <2>5
  <2>6. CASE Stopped(y, z)
    <3>1. z = [book |-> y.book, ledger |-> y.ledger, positions |-> y.positions,
               openOrders |-> y.openOrders, rows |-> y.rows, trades |-> y.trades,
               left |-> y.left, stop |-> z.stop]
      BY <2>4, <2>6, StoppedFields
    <3>2. z.rows = y.rows /\ z.left = y.left
      BY <3>1
    <3>3. QED
      BY <2>2, <2>3, <3>2
  <2>7. CASE TakesFill(o, y, z)
    <3> DEFINE f == FillNow(o, y)
               l == AfterSettle(y.ledger, f.maker, o.id, f.price, f.qty)
               w == Settled(y, l)
    <3>1. TakesFront(y.book, o, f) /\ z = CommitFill(o, w, f)
      BY <2>7 DEF TakesFill
    <3>2. /\ BookSound(o, rw, w) /\ w.book = y.book /\ w.rows = y.rows
      BY <2>3, SettledKeepsBook
    <3>3. z.left = y.left - f.qty
      BY <2>3, <2>7, TakesFillKeepsBook
    <3>4. f.qty % d = 0
      <4> DEFINE h == MakerFor(y.book, o, f)
      <4>1. f.qty = y.left \/ f.qty = h.qty
        BY DEF FillNow, NextFill, MakerFor
      <4>2. MakersRow(o, y.book, y.rows, f)
        BY <2>3, <3>1, RowOfMaker DEF BookSound
      <4>3. /\ f.maker \in DOMAIN y.rows /\ y.rows[f.maker].symbol = o.symbol
            /\ y.rows[f.maker].qty = h.qty
        BY <4>2 DEF MakersRow
      <4>4. h.qty % d = 0
        BY <2>3, <4>3 DEF RowsOnStep, OnStep, OnSteps, QtyStep
      <4>5. QED
        BY <2>3, <4>1, <4>4
    <3>5. f.qty \in Int
      BY <3>1 DEF TakesFront, Tenths
    <3> HIDE DEF w, f, d
    <3>6. RowsOnStep(z.rows)
      BY <2>3, <3>1, <3>2, <3>4, CommitKeepsSteps DEF d
    <3>7. z.left % d = 0
      BY <1>2, <2>3, <3>3, <3>4, <3>5, MultiplesAdd
    <3>8. QED
      BY <2>2, <3>6, <3>7
  <2>8. QED
    BY <2>3, <2>5, <2>6, <2>7 DEF FillStep
<1>5. n \in good
  <2> HIDE DEF good
  <2>1. QED
    BY <1>2, <1>3, <1>4, EveryNatural
<1>6. QED
  BY <1>1, <1>2, <1>5 DEF FillChain

\* A plan is on step when the makers' quantities and the order's are.
PlanOnStep(plan, n, d) == \A i \in 1..n : plan[i].qty % d = 0

LEMMA PlanKeepsSteps ==
    ASSUME NEW book, BookFits(book), NEW o, OrderFits(o), NEW d \in Nat \ {0},
           o.qty % d = 0, \A x \in Spots(book, o) : WaitingAt(book, o, x).qty % d = 0,
           NEW n, PlanFits(PlanFills(book, o), n)
    PROVE  PlanOnStep(PlanFills(book, o), n, d)
<1> DEFINE plan == PlanFills(book, o)
<1>1. PICK m : PlanByRank(book, o, m)
  BY PlanRanks
<1>2. /\ m \in Nat /\ plan = [i \in 1..m |-> Planned(book, o, SpotOf(book, o, i))]
      /\ \A i \in 1..m : SpotOf(book, o, i) \in Touched(book, o)
  BY <1>1 DEF PlanByRank
<1>3. DOMAIN plan = 1..n /\ DOMAIN plan = 1..m
  <2>1. DOMAIN plan = 1..m
    BY <1>2
  <2> HIDE DEF plan
  <2>2. DOMAIN plan = 1..n
    BY DEF PlanFits, plan
  <2>3. QED
    BY <2>1, <2>2
<1>4. ASSUME NEW x \in Touched(book, o) PROVE Planned(book, o, x).qty % d = 0
  <2> DEFINE A == Ahead(book, o, x)
             fun == [y \in A |-> WaitingAt(book, o, y).qty]
             waiting == WaitingAt(book, o, x).qty
  <2>1. x \in Spots(book, o) /\ A \subseteq Spots(book, o)
    BY DEF Touched, Ahead
  <2>2. IsFiniteSet(A) /\ \A y \in A : fun[y] \in Int /\ fun[y] % d = 0
    <3>1. \A y \in Spots(book, o) : WaitingAt(book, o, y) \in Entry
      BY SpotsFit
    <3>2. \A y \in Spots(book, o) : WaitingAt(book, o, y).qty \in Int
      BY <3>1 DEF Entry, Tenths
    <3>3. QED
      BY <2>1, <3>2, SpotsFit, FS_Subset
  <2>3. QuantityAhead(book, o, x) = SumFunctionOnSet(fun, A)
    BY SumFunctionIsSum DEF QuantityAhead
  <2>4. QuantityAhead(book, o, x) % d = 0 /\ QuantityAhead(book, o, x) \in Int
    <3> HIDE DEF fun, A
    <3>1. QED
      BY <2>2, <2>3, SumOfMultiples, SumIsInteger
  <2>5. o.qty \in Int /\ waiting % d = 0
    BY <2>1 DEF OrderFits, Tenths
  <2>6. (o.qty - QuantityAhead(book, o, x)) % d = 0
    BY <2>4, <2>5, MultiplesAdd
  <2>7. \/ Planned(book, o, x).qty = waiting
        \/ Planned(book, o, x).qty = o.qty - QuantityAhead(book, o, x)
    BY DEF Planned
  <2>8. QED
    BY <2>5, <2>6, <2>7
<1>5. ASSUME NEW i \in 1..n PROVE plan[i].qty % d = 0
  <2>1. i \in 1..m
    BY <1>3
  <2>2. SpotOf(book, o, i) \in Touched(book, o) /\ plan[i] = Planned(book, o, SpotOf(book, o, i))
    BY <1>2, <2>1
  <2>3. QED
    BY <1>4, <2>2
<1>6. QED
  BY <1>5 DEF PlanOnStep

LEMMA StagedKeepsSteps ==
    ASSUME GovernanceFits, NEW o, OrderFits(o), NEW rw, NEW e, BookSound(o, rw, e),
           RowsOnStep(e.rows), NEW plan, NEW n, PlanFits(plan, n), PlanOnStep(plan, n, QtyStep(o)),
           NEW x, x = ExecutePlan(o, e, plan)
    PROVE  RowsOnStep(x.rows)
<1>1. PICK g : PlanChain(g, o, rw, e, plan, n)
  BY PlanRuns
<1>2. /\ n \in Nat /\ g[1..0] = e
      /\ \A k \in 1..n : g[1..k] = ExecutePlanned(o, g[1..(k - 1)], plan[k])
      /\ \A k \in 0..n : BookSound(o, rw, g[1..k])
      /\ x = g[1..n]
  BY <1>1 DEF PlanChain, PlanTurns
<1> DEFINE good == {k \in Nat : k <= n => RowsOnStep(g[1..k].rows)}
<1>3. 0 \in good
  BY <1>2
<1>4. ASSUME NEW k \in Nat, k \in good PROVE k + 1 \in good
  <2> SUFFICES ASSUME k + 1 <= n PROVE RowsOnStep(g[1..(k + 1)].rows)
    OBVIOUS
  <2>1. k + 1 \in 1..n /\ k \in 0..n /\ (k + 1) - 1 = k
    BY <1>2
  <2>2. PICK y, z, f : y = g[1..k] /\ z = g[1..(k + 1)] /\ f = plan[k + 1]
    OBVIOUS
  <2>3. z = ExecutePlanned(o, y, f) /\ BookSound(o, rw, y) /\ RowsOnStep(y.rows)
    BY <1>2, <1>4, <2>1, <2>2
  <2>4. f.qty \in Tenths /\ f.qty % QtyStep(o) = 0
    BY <2>1, <2>2 DEF PlanFits, PlanOnStep
  <2>5. IsExec(y)
    BY <2>3 DEF BookSound
  <2>6. CASE z = y
    BY <2>2, <2>3, <2>6
  <2>7. CASE z = [y EXCEPT !.stop = "panic"]
    <3>1. z.rows = y.rows
      BY <2>5, <2>7 DEF IsExec
    <3>2. QED
      BY <2>2, <2>3, <3>1
  <2>8. CASE TakesPlanned(o, y, f, z)
    <3>1. TakesFront(y.book, o, f) /\ z = CommitFill(o, y, f)
      BY <2>8 DEF TakesPlanned
    <3>2. QED
      BY <2>2, <2>3, <2>4, <3>1, CommitKeepsSteps
  <2>9. QED
    BY <2>3, <2>4, <2>6, <2>7, <2>8, TurnOfPlan
<1>5. n \in good
  <2> HIDE DEF good
  <2>1. QED
    BY <1>2, <1>3, <1>4, EveryNatural
<1>6. QED
  BY <1>2, <1>5

LEMMA SpotsOnStep ==
    ASSUME NEW s \in Symbols, NEW book, BookFits(book), RowsFit(rows), Shows(book, s, rows),
           RowsOnStep(rows), NEW o, OrderFits(o), o.symbol = s, NEW x \in Spots(book, o)
    PROVE  WaitingAt(book, o, x).qty % QtyStep(o) = 0
<1> DEFINE side == Facing(o.side)
           w == WaitingAt(book, o, x)
<1>1. PICK p \in CrossingPrices(book, o, o.limit) : x \in {p} \X DOMAIN book[side][p]
  BY DEF Spots
<1>2. x[1] = p /\ x[2] \in DOMAIN book[side][p] /\ p \in DOMAIN book[side]
  BY <1>1 DEF CrossingPrices
<1>3. /\ side \in Sides /\ p \in Cents /\ book[side][p] = Level(book, side, p)
  BY <1>2, SidesOfBook DEF OrderFits
<1>4. w = book[side][p][x[2]]
  BY <1>2 DEF WaitingAt
<1> HIDE DEF side, w
<1>5. w \in ToSet(Level(book, side, p))
  BY <1>2, <1>3, <1>4 DEF ToSet
<1>6. w \in EntriesAt(rows, s, side, p)
  BY <1>3, <1>5 DEF Shows
<1>7. w.id \in DOMAIN rows /\ rows[w.id].symbol = s /\ w.qty = rows[w.id].qty
  BY <1>6, EntriesByRow
<1>8. QED
  BY <1>7 DEF w, RowsOnStep, OnStep, OnSteps, QtyStep

LEMMA OrderKeepsSteps ==
    ASSUME GovernanceFits, Sound(books, rows, openOrders), RowsOnStep(rows),
           NEW o, OrderFits(o), Listed(o.symbol), o.qty % QtyStep(o) = 0,
           Rests(o, 1) => o.limit % listings[o.symbol].price = 0,
           \A id \in DOMAIN rows : id < o.id,
           NEW e, e = AfterRemainder(o, Execution(o))
    PROVE  RowsOnStep(e.rows)
<1> DEFINE x == Execution(o)
<1>0. QtyStep(o) \in Nat \ {0}
  BY DEF GovernanceFits, Listing, Listed, QtyStep
<1>1. BookSound(o, rows, x)
  BY ExecutionKeepsBook
<1>2. RowsOnStep(x.rows) /\ (~IsStaged(o) => x.left % QtyStep(o) = 0)
  <2>1. CASE IsStaged(o)
    <3> DEFINE start == Starting(o, Staged(o).ledger)
               book == BookOf(o.symbol)
               plan == PlanFills(book, o)
    <3>1. BookSound(o, rows, start) /\ BookFits(book)
      BY StartingIsSound
    <3>2. PICK n : PlanFits(plan, n)
      BY <3>1, PlanIsTyped
    <3>3. x = ExecutePlan(o, start, plan) /\ start.rows = rows /\ start.book = book
      BY <2>1 DEF Execution, Starting
    <3>4. Shows(book, o.symbol, rows) /\ RowsFit(rows) /\ o.symbol \in Symbols
      BY <3>1, <3>3 DEF BookSound, Sound, OrderFits
    <3> HIDE DEF start, plan, book, x
    <3>5. \A y \in Spots(book, o) : WaitingAt(book, o, y).qty % QtyStep(o) = 0
      BY <3>1, <3>4, SpotsOnStep
    <3>6. PlanOnStep(plan, n, QtyStep(o))
      BY <1>0, <3>1, <3>2, <3>5, PlanKeepsSteps DEF plan
    <3>7. QED
      BY <2>1, <3>1, <3>2, <3>3, <3>6, StagedKeepsSteps
  <2>2. CASE ~IsStaged(o)
    <3> DEFINE start == Starting(o, ReservedFor(o))
    <3>1. BookSound(o, rows, start) /\ start.left = o.qty
      BY StartingIsSound
    <3>2. x = ExecuteTurns(o, start, o.qty) /\ start.rows = rows
      BY <2>2 DEF Execution, Starting
    <3> HIDE DEF start, x
    <3>3. QED
      BY <3>1, <3>2, ExecuteKeepsSteps
  <2>3. QED
    BY <2>1, <2>2
<1>3. IsExec(x)
  BY <1>1 DEF BookSound
<1>4. \/ e = RestingRemainder(o, x) /\ Rests(o, x.left)
      \/ e = x
      \/ e = [x EXCEPT !.stop = "panic"]
      \/ e = Settled(x, AfterRelease(x.ledger, o.id))
  BY DEF AfterRemainder, Settled
<1> HIDE DEF x
<1>5. CASE e = RestingRemainder(o, x) /\ Rests(o, x.left)
  <2> DEFINE row == OwnRow(o, x.left)
  <2>1. e = RestRecord(o, x)
    BY <1>3, <1>5, RestFields
  <2>2. RestRecord(o, x).rows = Put(x.rows, o.id, row)
    BY DEF RestRecord
  <2>3. /\ ~IsStaged(o) /\ Rests(o, 1)
    BY <1>5 DEF IsStaged, Rests
  <2>4. row.symbol = o.symbol /\ row.price = o.limit /\ row.qty = x.left
    BY DEF OwnRow
  <2>5. OnStep(row.symbol, row.price, row.qty)
    BY <1>2, <2>3, <2>4 DEF OnStep, OnSteps, QtyStep
  <2> HIDE DEF row
  <2>6. \A id \in DOMAIN Put(x.rows, o.id, row) :
           \/ id \in DOMAIN x.rows /\ Put(x.rows, o.id, row)[id] = x.rows[id]
           \/ Put(x.rows, o.id, row)[id] = row
    BY DEF Put
  <2>7. RowsOnStep(Put(x.rows, o.id, row))
    BY <1>2, <2>5, <2>6 DEF RowsOnStep
  <2>8. QED
    BY <2>1, <2>2, <2>7
<1>6. CASE e = x
  BY <1>2, <1>6
<1>7. CASE e = [x EXCEPT !.stop = "panic"]
  <2>1. e.rows = x.rows
    BY <1>3, <1>7 DEF IsExec
  <2>2. QED
    BY <1>2, <2>1
<1>8. CASE e = Settled(x, AfterRelease(x.ledger, o.id))
  <2>1. e.rows = x.rows
    BY <1>1, <1>8, SettledKeepsBook
  <2>2. QED
    BY <1>2, <2>1
<1>9. QED
  BY <1>4, <1>5, <1>6, <1>7, <1>8

-----------------------------------------------------------------------------
(* The messages: the rows stay on the steps of the listings in force.       *)

LEMMA StepsStay ==
    ASSUME RowsOnStep(rows), UNCHANGED listings,
           \A id \in DOMAIN rows' : id \in DOMAIN rows /\ rows'[id] = rows[id]
    PROVE  RowsOnStep(rows)'
BY DEF RowsOnStep, OnStep, Listed, OnSteps

LEMMA NewKeepsSteps ==
    ASSUME BooksInv, GovernanceFits, RowsOnStep(rows),
           NEW account \in Accounts, NEW symbol \in Symbols, NEW form \in Forms,
           NEW reference \in ReferencesFor(form),
           New(Arrived(account, symbol, form), reference)
    PROVE  RowsOnStep(rows)'
<1> DEFINE arrived == Arrived(account, symbol, form)
           o == Bounded(arrived, reference)
<1>1. CASE RefuseEarly(arrived) \/ RefuseLate(arrived, reference)
  <2>1. UNCHANGED <<rows, listings>>
    BY <1>1 DEF RefuseEarly, RefuseLate, market, governance
  <2>2. QED
    BY <2>1, StepsStay
<1>2. CASE ApplyNew(arrived, reference)
  <2> DEFINE e == AfterRemainder(o, Execution(o))
  <2>1. /\ AdmittedLate(o, arrived, reference) /\ AdmittedEarly(arrived) /\ ~panicked
    BY <1>2 DEF ApplyNew, Running
  <2>2. UNCHANGED listings /\ (UNCHANGED rows \/ rows' = e.rows)
    BY <1>2 DEF ApplyNew, Panic, market, governance
  <2>3. /\ OrderFits(o) /\ o.id = NextId /\ o.symbol = symbol /\ o.qty = form.qty
        /\ Sound(books, rows, openOrders) /\ lastSeen \in Nat
    <3>1. PriceBounded(arrived, reference)
      BY <2>1 DEF AdmittedLate
    <3>2. lastSeen \in Nat /\ Sound(books, rows, openOrders)
      BY DEF BooksInv
    <3>3. QED
      BY <3>1, <3>2, BoundedFits
  <2>4. Listed(o.symbol) /\ o.qty % QtyStep(o) = 0
    <3>1. arrived.symbol = symbol /\ arrived.qty = form.qty
      BY DEF Arrived
    <3>2. QED
      BY <2>1, <2>3, <3>1 DEF AdmittedEarly, OnSteps, QtyStep
  <2>5. Rests(o, 1) => o.limit % listings[o.symbol].price = 0
    <3>1. arrived.symbol = symbol
      BY DEF Arrived
    <3>2. o.market = arrived.market /\ (~arrived.market => o.limit = arrived.limit)
      BY DEF Bounded, BoundedLimit, Arrived
    <3>3. arrived.limit % listings[symbol].price = 0
      BY <2>1, <3>1 DEF AdmittedEarly, OnSteps
    <3>4. QED
      BY <2>3, <3>2, <3>3 DEF Rests
  <2>6. \A id \in DOMAIN rows : id < o.id
    <3>1. ASSUME NEW id \in DOMAIN rows PROVE id < o.id
      <4>1. id <= lastSeen /\ id \in Nat
        BY <2>1, <2>3 DEF BooksInv, RowsFit, Sound
      <4>2. QED
        BY <2>3, <4>1 DEF NextId
    <3>2. QED
      BY <3>1
  <2> HIDE DEF o, arrived
  <2>7. RowsOnStep(e.rows)
    BY <2>3, <2>4, <2>5, <2>6, OrderKeepsSteps
  <2> HIDE DEF e
  <2>8. CASE rows' = e.rows
    BY <2>2, <2>7, <2>8 DEF RowsOnStep, OnStep, Listed, OnSteps
  <2>9. CASE UNCHANGED rows
    BY <2>2, <2>9, StepsStay
  <2>10. QED
    BY <2>2, <2>8, <2>9
<1>3. QED
  BY <1>1, <1>2 DEF New

LEMMA ListingKeepsSteps ==
    ASSUME RowsOnStep(rows), NEW signer, NEW symbol, NEW step, ApplyListSymbol(signer, symbol, step)
    PROVE  RowsOnStep(rows)'
<1>1. UNCHANGED rows
  BY DEF ApplyListSymbol, market
<1>2. CASE ~ListingServed(symbol, step)
  <2>1. UNCHANGED listings
    BY <1>2 DEF ApplyListSymbol
  <2>2. QED
    BY <1>1, <2>1, StepsStay
<1>3. CASE ListingServed(symbol, step)
  <2>1. /\ ~Listed(symbol)
        /\ \A s : s # symbol => (s \in DOMAIN listings <=> s \in DOMAIN listings')
        /\ \A s \in DOMAIN listings \ {symbol} : listings'[s] = listings[s]
    BY <1>3 DEF ApplyListSymbol, ListingServed, Put
  <2>2. ASSUME NEW id \in DOMAIN rows
        PROVE  OnStep(rows[id].symbol, rows[id].price, rows[id].qty)'
    <3>1. OnStep(rows[id].symbol, rows[id].price, rows[id].qty)
      BY DEF RowsOnStep
    <3>2. rows[id].symbol # symbol /\ rows[id].symbol \in DOMAIN listings
      BY <2>1, <3>1 DEF OnStep, Listed
    <3>3. rows[id].symbol \in DOMAIN listings' /\ listings'[rows[id].symbol] = listings[rows[id].symbol]
      BY <2>1, <3>2
    <3>4. QED
      BY <1>1, <3>1, <3>3 DEF OnStep, Listed, OnSteps
  <2>3. QED
    BY <1>1, <2>2 DEF RowsOnStep
<1>4. QED
  BY <1>2, <1>3

LEMMA DelistKeepsSteps ==
    ASSUME BooksInv, RowsOnStep(rows), NEW signer, NEW symbol \in Symbols,
           ApplyDelistSymbol(signer, symbol)
    PROVE  RowsOnStep(rows)'
<1> DEFINE closed == {r.id : r \in OrdersIn(BookOf(symbol))}
<1>1. /\ rows' = Without(rows, closed)
      /\ listings' = [listings EXCEPT ![symbol].listed = FALSE]
  BY DEF ApplyDelistSymbol
<1>2. closed = RowsOf(rows, symbol)
  BY ClosedAreRows DEF BooksInv
<1> HIDE DEF closed
<1>3. \A id \in DOMAIN rows' : id \in DOMAIN rows /\ rows'[id] = rows[id] /\ rows[id].symbol # symbol
  BY <1>1, <1>2 DEF Without, Restrict, RowsOf
<1>4. DOMAIN listings' = DOMAIN listings
      /\ \A s \in DOMAIN listings \ {symbol} : listings'[s] = listings[s]
  BY <1>1
<1>5. ASSUME NEW id \in DOMAIN rows'
      PROVE  OnStep(rows[id].symbol, rows[id].price, rows[id].qty)'
  <2>1. id \in DOMAIN rows /\ rows'[id] = rows[id] /\ rows[id].symbol # symbol
    BY <1>3
  <2>2. OnStep(rows[id].symbol, rows[id].price, rows[id].qty)
    BY <2>1 DEF RowsOnStep
  <2>3. rows[id].symbol \in DOMAIN listings' /\ listings'[rows[id].symbol] = listings[rows[id].symbol]
    BY <1>4, <2>1, <2>2 DEF OnStep, Listed
  <2>4. QED
    BY <2>1, <2>2, <2>3 DEF OnStep, Listed, OnSteps
<1>6. QED
  BY <1>5 DEF RowsOnStep

LEMMA StepKeepsSteps ==
    ASSUME BooksInv, GovernanceFits, RowsOnStep(rows), [Next]_vars
    PROVE  RowsOnStep(rows)'
<1>1. CASE UNCHANGED vars
  BY <1>1, StepsStay DEF vars, market, governance
<1>2. ASSUME NEW account \in Accounts, NEW symbol \in Symbols, NEW form \in Forms,
             NEW reference \in ReferencesFor(form),
             New(Arrived(account, symbol, form), reference)
      PROVE  RowsOnStep(rows)'
  BY <1>2, NewKeepsSteps
<1>3. ASSUME NEW account \in Accounts, NEW target \in 1..lastSeen,
             \/ IgnoreCancel(account, target)
             \/ RefuseCancel(account, target)
             \/ ApplyCancel(account, target)
      PROVE  RowsOnStep(rows)'
  <2>1. UNCHANGED listings /\ (UNCHANGED rows \/ rows' = Without(rows, {target}))
    BY <1>3 DEF IgnoreCancel, RefuseCancel, ApplyCancel, Panic, market, governance
  <2>2. \A id \in DOMAIN rows' : id \in DOMAIN rows /\ rows'[id] = rows[id]
    BY <2>1 DEF Without, Restrict
  <2>3. QED
    BY <2>1, <2>2, StepsStay
<1>4. ASSUME NEW signer \in Signers,
             \/ IgnoreOperator(signer)
             \/ \E symbol \in Symbols : RefuseDelistSymbol(signer, symbol)
             \/ \E version \in Versions : ApplyEngineRule(signer, version)
      PROVE  RowsOnStep(rows)'
  <2>1. UNCHANGED <<rows, listings>>
    BY <1>4 DEF IgnoreOperator, RefuseDelistSymbol, ApplyEngineRule, market, governance
  <2>2. QED
    BY <2>1, StepsStay
<1>5. QED
  BY <1>1, <1>2, <1>3, <1>4, ListingKeepsSteps, DelistKeepsSteps DEF Next

-----------------------------------------------------------------------------
(* The exchange's inductive invariant: the books, rows and index are one    *)
(* set of orders on the steps of the listings, and the accounts are what    *)
(* the trades made of them.                                                 *)

ExchangeInv ==
    /\ BooksInv
    /\ MoneySound(positions, trades)
    /\ GovernanceFits
    /\ RowsOnStep(rows)

LEMMA ExchangeInvHolds == Spec => []ExchangeInv
<1>1. Init => ExchangeInv
  <2>1. Init => RowsOnStep(rows)
    BY DEF Init, EmptyMap, RowsOnStep
  <2>2. QED
    BY <2>1, InitIsSound, InitIsFlat, InitIsGoverned DEF ExchangeInv
<1>2. ExchangeInv /\ [Next]_vars => ExchangeInv'
  BY StepKeepsBooks, StepKeepsMoney, StepKeepsGovernance, StepKeepsSteps DEF ExchangeInv
<1>3. QED
  BY <1>1, <1>2, PTL DEF Spec

\* What the invariant says of the state's types.
LEMMA ExchangeIsTyped == ExchangeInv => ExchangeTypeOK
<1> SUFFICES ASSUME ExchangeInv PROVE ExchangeTypeOK
  OBVIOUS
<1>1. /\ MapFits(books) /\ RowsFit(rows) /\ openOrders = IndexOf(rows)
      /\ PositionsFit(positions) /\ trades \in Seq(Trade) /\ GovernanceFits
  BY DEF ExchangeInv, BooksInv, Sound, MoneySound, AccountsAgree
<1>2. ASSUME NEW s \in DOMAIN books, NEW side \in Sides, NEW p \in DOMAIN books[s][side]
      PROVE  books[s][side][p] \in Seq(QueueEntry)
  <2>1. QueueFits(books[s][side][p])
    BY <1>1, SidesOfBook DEF MapFits
  <2>2. QED
    <3>1. books[s][side][p] \in Seq(Entry)
      BY <2>1 DEF QueueFits
    <3>2. \A r \in Entry : r \in QueueEntry
      BY DEF Entry, QueueEntry, Tenths
    <3>3. QED
      BY <3>1, <3>2, EntriesOfQueue
<1>3. /\ DOMAIN openOrders = DOMAIN rows
      /\ \A id \in DOMAIN rows :
            id \in Nat /\ openOrders[id] \in [symbol : Symbols, side : Sides, price : Nat]
  BY <1>1 DEF IndexOf, RowsFit, Row, Cents
<1>4. \A k \in DOMAIN positions :
         /\ positions[k] \in PositionType
         /\ \A field \in DOMAIN positions[k] : Fits(positions[k][field])
  BY <1>1 DEF PositionsFit, Held
<1>5. \A i \in DOMAIN trades : trades[i].maker \in Nat /\ trades[i].taker \in Nat
  <2>1. \A i \in DOMAIN trades : trades[i] \in Trade
    BY <1>1
  <2>2. \A t \in Trade : t.maker \in Nat /\ t.taker \in Nat
    BY DEF Trade
  <2>3. QED
    BY <2>1, <2>2
<1>6. DOMAIN positions \subseteq Accounts \X Symbols /\ DOMAIN books \subseteq Symbols
  BY <1>1 DEF PositionsFit, MapFits
<1>7. QED
  BY <1>1, <1>2, <1>3, <1>4, <1>5, <1>6 DEF ExchangeTypeOK, GovernanceFits, Traded

LEMMA AccountsBalance == ExchangeInv => PositionsBalance
<1> SUFFICES ASSUME ExchangeInv, NEW s \in Symbols
             PROVE  LET held == {k \in DOMAIN positions : k[2] = s}
                    IN  /\ SumOver(held, LAMBDA k : positions[k].net) = 0
                        /\ SumOver(held, LAMBDA k : positions[k].cash) = 0
  BY DEF PositionsBalance
<1> DEFINE held == {k \in DOMAIN positions : k[2] = s}
<1>1. PositionsFit(positions) /\ Balanced(positions)
  BY DEF ExchangeInv, MoneySound, AccountsAgree
<1>2. held = KeysOf(positions, s) /\ IsFiniteSet(held)
  BY <1>1, FS_Subset DEF KeysOf, PositionsFit
<1>3. ASSUME NEW field \in Totals
      PROVE  SumFunction([k \in held |-> positions[k][field]]) = 0
  <2> DEFINE f == [k \in held |-> positions[k][field]]
             g == FieldOf(positions, field)
  <2>1. DOMAIN f = held /\ \A k \in held : f[k] = g[k] /\ f[k] \in Int
    BY <1>1, FieldsOfPosition DEF PositionsFit, Held, FieldOf
  <2>2. SumFunctionOnSet(g, held) = 0
    BY <1>1, <1>2 DEF Balanced, TotalOf
  <2> HIDE DEF f, g, held
  <2>3. SumFunction(f) = SumFunctionOnSet(f, held)
    BY <2>1, SumFunctionIsSum
  <2>4. SumFunctionOnSet(f, held) = SumFunctionOnSet(g, held)
    BY <1>2, <2>1, SumOfSame
  <2>5. QED
    BY <2>2, <2>3, <2>4 DEF f
<1>4. SumFunction([k \in held |-> positions[k]["net"]]) = 0
  BY <1>3 DEF Totals
<1>5. SumFunction([k \in held |-> positions[k]["cash"]]) = 0
  BY <1>3 DEF Totals
<1>6. QED
  BY <1>4, <1>5 DEF SumOver

\* Over all accounts the quantities and the cash of a symbol cancel out, every
\* position accounts for every unit of cash, and the state has its type, also
\* when a fill that does not fit stops an order half way.
THEOREM AccountsAddUp == Spec => []PositionsAddUp
<1>1. ExchangeInv => ProfitIsAccounted
  BY DEF ExchangeInv, MoneySound, AccountsAgree, PositionsFit, Held, ProfitIsAccounted
<1>2. ExchangeInv => PositionsAddUp
  BY <1>1, ExchangeIsTyped, AccountsBalance DEF PositionsAddUp
<1>3. QED
  BY <1>2, ExchangeInvHolds, PTL

-----------------------------------------------------------------------------
(* A restart.  The rows of a level, in order of their ids, are its queue:   *)
(* as many entries before each as there are smaller ids.                    *)

LEMMA CountedOnce ==
    ASSUME NEW n \in Nat, NEW f, DOMAIN f = 1..n, \A i, j \in 1..n : f[i] = f[j] => i = j,
           NEW S, \A x \in S : \E i \in 1..n : x = f[i], \A i \in 1..n : f[i] \in S
    PROVE  IsFiniteSet(S) /\ Cardinality(S) = n
<1> DEFINE g == [i \in 1..n |-> f[i]]
<1>1. g \in Bijection(1..n, S)
  BY DEF Bijection, Injection, Surjection, IsInjective
<1>2. ExistsBijection(1..n, S)
  BY <1>1 DEF ExistsBijection
<1>3. QED
  BY <1>2, FS_CountingElements, FS_NatBijection

Smallest(S, x) == {y \in S : y < x}
NthOf(S, i) == CHOOSE x \in S : Cardinality(Smallest(S, x)) = i - 1

LEMMA NthOfQueue ==
    ASSUME NEW q, QueueFits(q), NEW S, \A x \in S : \E i \in 1..Len(q) : x = q[i].id,
           \A i \in 1..Len(q) : q[i].id \in S
    PROVE  /\ Cardinality(S) = Len(q)
           /\ \A i \in 1..Len(q) : NthOf(S, i) = q[i].id
<1> DEFINE n == Len(q)
           f == [i \in 1..n |-> q[i].id]
<1>1. /\ n \in Nat
      /\ \A i, j \in 1..n : q[i].id = q[j].id => i = j
      /\ \A i, j \in 1..n : i < j => q[i].id < q[j].id
      /\ \A i \in 1..n : q[i].id \in Nat
  <2>1. \A i \in 1..Len(q) : q[i].id \in Nat
    BY EntriesOfQueue DEF Entry
  <2>2. QED
    BY <2>1, EntriesOfQueue
<1> HIDE DEF n
<1>2. DOMAIN f = 1..n /\ \A i \in 1..n : f[i] = q[i].id
  OBVIOUS
<1>2a. /\ \A x \in S : \E i \in 1..n : x = f[i]
       /\ \A i \in 1..n : f[i] \in S
  BY DEF n
<1> HIDE DEF f
<1>3. Cardinality(S) = n
  <2>1. \A i, j \in 1..n : f[i] = f[j] => i = j
    BY <1>1, <1>2
  <2>2. QED
    BY <1>1, <1>2, <1>2a, <2>1, CountedOnce, SMTT(30)
<1>4. ASSUME NEW i \in 1..n PROVE Cardinality(Smallest(S, f[i])) = i - 1
  <2> DEFINE h == [j \in 1..(i - 1) |-> f[j]]
             T == Smallest(S, f[i])
  <2>0. i - 1 \in Nat /\ \A j \in 1..(i - 1) : j \in 1..n /\ j < i
    BY <1>1
  <2>1. DOMAIN h = 1..(i - 1) /\ \A j, k \in 1..(i - 1) : h[j] = h[k] => j = k
    BY <1>1, <1>2, <2>0
  <2>2. \A j \in 1..(i - 1) : h[j] \in T
    <3>1. ASSUME NEW j \in 1..(i - 1) PROVE f[j] \in S /\ f[j] < f[i]
      <4>1. j \in 1..n /\ j < i
        BY <2>0
      <4>2. f[j] \in S /\ f[j] = q[j].id /\ f[i] = q[i].id
        BY <1>2, <1>2a, <4>1
      <4>3. q[j].id < q[i].id
        BY <1>1, <4>1
      <4>4. QED
        BY <4>2, <4>3
    <3>2. QED
      BY <3>1 DEF Smallest
  <2>3. ASSUME NEW x \in T PROVE \E j \in 1..(i - 1) : x = h[j]
    <3>1. x < f[i] /\ x \in S
      BY DEF Smallest
    <3>2. PICK j \in 1..n : x = f[j]
      BY <1>2a, <3>1
    <3>3. f[j] < f[i] /\ f[j] \in Nat /\ f[i] \in Nat
      BY <1>1, <1>2, <3>1, <3>2
    <3>4. ~(i < j) /\ i # j
      BY <1>1, <1>2, <3>3
    <3>5. j \in 1..(i - 1)
      BY <1>1, <3>4
    <3>6. QED
      BY <3>2, <3>5
  <2> HIDE DEF h, T
  <2>4. Cardinality(T) = i - 1
    BY <2>0, <2>1, <2>2, <2>3, CountedOnce
  <2>5. QED
    BY <2>4 DEF T
<1>5. ASSUME NEW i \in 1..n PROVE NthOf(S, i) = q[i].id
  <2>1. f[i] \in S /\ Cardinality(Smallest(S, f[i])) = i - 1
    BY <1>2a, <1>4
  <2>2. ASSUME NEW x \in S, Cardinality(Smallest(S, x)) = i - 1 PROVE x = f[i]
    <3>1. PICK j \in 1..n : x = f[j]
      BY <1>2a
    <3>2. j - 1 = i - 1
      BY <1>4, <2>2, <3>1
    <3>3. j = i
      BY <1>1, <3>2
    <3>4. QED
      BY <3>1, <3>3
  <2>3. NthOf(S, i) = f[i]
    BY <2>1, <2>2 DEF NthOf
  <2>4. QED
    BY <1>2, <2>3
<1>6. QED
  BY <1>3, <1>5 DEF n

\* The queue a restart puts at a price is the live one.
LEMMA QueueIsRestored ==
    ASSUME RowsFit(rows), NEW s, NEW side, NEW p, NEW q, QueueFits(q),
           ToSet(q) = EntriesAt(rows, s, side, p)
    PROVE  RestoredQueue(s, side, p) = q
<1> DEFINE ids == IdsAt(rows, s, side, p)
           n == Len(q)
<1>1. /\ n \in Nat /\ q \in Seq(Entry)
      /\ \A i \in 1..n : q[i] \in ToSet(q)
      /\ \A r \in ToSet(q) : \E i \in 1..n : r = q[i]
  BY EntriesOfQueue DEF QueueFits
<1>2. \A i \in 1..n : q[i].id \in ids /\ q[i] = EntryOf(q[i].id, rows[q[i].id])
  <2>1. ASSUME NEW i \in 1..n PROVE q[i].id \in ids /\ q[i] = EntryOf(q[i].id, rows[q[i].id])
    <3>1. q[i] \in EntriesAt(rows, s, side, p)
      BY <1>1
    <3>2. /\ q[i].id \in DOMAIN rows /\ q[i] = EntryOf(q[i].id, rows[q[i].id])
          /\ rows[q[i].id].symbol = s /\ rows[q[i].id].side = side /\ rows[q[i].id].price = p
      BY <3>1, EntriesByRow
    <3>3. QED
      BY <3>2 DEF IdsAt
  <2>2. QED
    BY <2>1
<1>3. \A x \in ids : \E i \in 1..n : x = q[i].id
  <2>1. ASSUME NEW x \in ids PROVE \E i \in 1..n : x = q[i].id
    <3>1. EntryOf(x, rows[x]) \in EntriesAt(rows, s, side, p)
      BY DEF EntriesAt
    <3>2. PICK i \in 1..n : EntryOf(x, rows[x]) = q[i]
      BY <1>1, <3>1
    <3>3. EntryOf(x, rows[x]).id = x
      BY DEF EntryOf
    <3>4. QED
      BY <3>2, <3>3
  <2>2. QED
    BY <2>1
<1> HIDE DEF ids
<1>4. Cardinality(ids) = n /\ \A i \in 1..n : NthOf(ids, i) = q[i].id
  BY <1>2, <1>3, NthOfQueue
<1>5. RestoredQueue(s, side, p) =
         [i \in 1..Cardinality(ids) |-> EntryOf(NthOf(ids, i), rows[NthOf(ids, i)])]
  BY DEF RestoredQueue, EntryOf, NthOf, Smallest, ids, IdsAt
<1>6. RestoredQueue(s, side, p) = [i \in 1..n |-> q[i]]
  BY <1>2, <1>4, <1>5
<1>7. q = [i \in 1..n |-> q[i]]
  BY <1>1
<1>8. QED
  BY <1>6, <1>7

PricesOf(s, side) ==
    {rows[id].price : id \in {id \in DOMAIN rows : rows[id].symbol = s /\ rows[id].side = side}}

LEMMA SideIsRestored ==
    ASSUME RowsFit(rows), NEW s, NEW book, BookFits(book), Shows(book, s, rows), NEW side \in Sides
    PROVE  RestoredSide(s, side) = book[side]
<1>1. DOMAIN book[side] \subseteq Cents /\ book[side] = [p \in DOMAIN book[side] |-> book[side][p]]
  BY SidesOfBook DEF SideFits
<1>2. ASSUME NEW p \in DOMAIN book[side]
      PROVE  p \in PricesOf(s, side) /\ RestoredQueue(s, side, p) = book[side][p]
  <2> DEFINE q == book[side][p]
  <2>0. SideFits(book[side]) /\ p \in Cents /\ q = Level(book, side, p)
    BY SidesOfBook
  <2>1. QueueFits(q) /\ q # <<>> /\ p \in Cents /\ q = Level(book, side, p)
    BY <2>0 DEF SideFits
  <2>2. ToSet(q) = EntriesAt(rows, s, side, p)
    BY <2>1 DEF Shows
  <2> HIDE DEF q
  <2>3. RestoredQueue(s, side, p) = q
    BY <2>1, <2>2, QueueIsRestored
  <2>4. q[1] \in ToSet(q)
    <3>1. q \in Seq(Entry) /\ \A i \in 1..Len(q) : q[i] \in ToSet(q)
      BY <2>1, EntriesOfQueue DEF QueueFits
    <3>2. QED
      BY <2>1, <3>1
  <2>5. PICK r : r = q[1]
    OBVIOUS
  <2>6. /\ r.id \in DOMAIN rows
        /\ rows[r.id].symbol = s /\ rows[r.id].side = side /\ rows[r.id].price = p
    BY <2>2, <2>4, <2>5, EntriesByRow
  <2>7. QED
    BY <2>3, <2>6 DEF PricesOf, q
<1>3. ASSUME NEW p \in PricesOf(s, side) PROVE p \in DOMAIN book[side]
  <2>1. PICK id \in DOMAIN rows :
           rows[id].symbol = s /\ rows[id].side = side /\ rows[id].price = p
    BY DEF PricesOf
  <2>2. p \in Cents
    BY <2>1 DEF RowsFit, Row
  <2>3. EntryOf(id, rows[id]) \in EntriesAt(rows, s, side, p)
    BY <2>1, EntriesByRow
  <2>4. EntryOf(id, rows[id]) \in ToSet(Level(book, side, p))
    BY <2>2, <2>3 DEF Shows
  <2>5. Level(book, side, p) # <<>>
    BY <2>4 DEF ToSet
  <2>6. QED
    BY <2>5, SidesOfBook
<1>4. RestoredSide(s, side) = [p \in PricesOf(s, side) |-> RestoredQueue(s, side, p)]
  BY DEF RestoredSide, PricesOf
<1>5. PricesOf(s, side) = DOMAIN book[side]
  BY <1>2, <1>3
<1>6. QED
  BY <1>1, <1>2, <1>4, <1>5

LEMMA BooksAreRestored ==
    ASSUME Sound(books, rows, openOrders)
    PROVE  RestoredBooks = books
<1> DEFINE symbols == {rows[id].symbol : id \in DOMAIN rows}
<1>1. /\ MapFits(books) /\ RowsFit(rows)
      /\ \A s \in Symbols : Shows(BookAt(books, s), s, rows)
      /\ DOMAIN books \subseteq Symbols /\ books = [s \in DOMAIN books |-> books[s]]
  BY DEF Sound, MapFits
<1>2. ASSUME NEW s \in DOMAIN books
      PROVE  s \in symbols /\ books[s] = [buy |-> RestoredSide(s, "buy"), sell |-> RestoredSide(s, "sell")]
  <2>1. /\ BookFits(books[s]) /\ ~IsEmptyBook(books[s]) /\ Shows(books[s], s, rows)
        /\ books[s] = [buy |-> books[s].buy, sell |-> books[s].sell]
    BY <1>1 DEF MapFits, BookAt, BookFits
  <2> DEFINE book == books[s]
  <2> HIDE DEF book
  <2>2. \A side \in Sides : RestoredSide(s, side) = book[side]
    BY <1>1, <2>1, SideIsRestored DEF book
  <2>3. "buy" \in Sides /\ "sell" \in Sides
    BY DEF Sides
  <2>4. RestoredSide(s, "buy") = book.buy /\ RestoredSide(s, "sell") = book.sell
    BY <2>2, <2>3
  <2>5. PICK side \in Sides : DOMAIN book[side] # {}
    BY <2>1, <2>3 DEF IsEmptyBook, book
  <2>6. PICK p : p \in PricesOf(s, side)
    <3>1. DOMAIN RestoredSide(s, side) = PricesOf(s, side)
      BY DEF RestoredSide, PricesOf
    <3>2. QED
      BY <2>2, <2>5, <3>1
  <2>7. s \in symbols
    BY <2>6 DEF PricesOf
  <2>8. QED
    BY <2>1, <2>4, <2>7 DEF book
<1>3. ASSUME NEW s \in symbols PROVE s \in DOMAIN books
  <2>1. PICK id \in DOMAIN rows : rows[id].symbol = s
    OBVIOUS
  <2>2. PICK side, p : side = rows[id].side /\ p = rows[id].price
    OBVIOUS
  <2>3. s \in Symbols /\ side \in Sides /\ p \in Cents
    BY <1>1, <2>1, <2>2 DEF RowsFit, Row
  <2>4. EntryOf(id, rows[id]) \in EntriesAt(rows, s, side, p)
    BY <1>1, <2>1, <2>2, EntriesByRow
  <2>5. EntryOf(id, rows[id]) \in ToSet(Level(BookAt(books, s), side, p))
    BY <1>1, <2>3, <2>4 DEF Shows
  <2>6. Level(BookAt(books, s), side, p) # <<>>
    BY <2>5 DEF ToSet
  <2>7. QED
    BY <2>3, <2>6, EmptyBookFits DEF BookAt
<1>4. RestoredBooks = [s \in symbols |-> [buy |-> RestoredSide(s, "buy"), sell |-> RestoredSide(s, "sell")]]
  BY DEF RestoredBooks
<1>5. symbols = DOMAIN books
  BY <1>2, <1>3
<1> HIDE DEF symbols
<1>6. QED
  BY <1>1, <1>2, <1>4, <1>5

\* After any message a restart rebuilds the live books with the order of every
\* queue, the index and the positions: what it needs is recorded.
THEOREM RestartsRebuild == Spec => []RestartRebuildsState
<1>1. ExchangeInv => RestartRebuildsState
  <2> SUFFICES ASSUME ExchangeInv PROVE RestartRebuildsState
    OBVIOUS
  <2>1. Sound(books, rows, openOrders) /\ MoneySound(positions, trades)
    BY DEF ExchangeInv, BooksInv
  <2>2. RestoredBooks = books
    BY <2>1, BooksAreRestored
  <2>3. RestoredIndex = openOrders
    BY <2>1 DEF Sound, RestoredIndex, IndexOf
  <2>4. RestoredPositions = positions
    BY <2>1 DEF MoneySound, RestoredPositions
  <2>5. QED
    BY <2>2, <2>3, <2>4 DEF RestartRebuildsState
<1>2. QED
  BY <1>1, ExchangeInvHolds, PTL

-----------------------------------------------------------------------------
(* Books and index. *)

OrderOf(id) == [id |-> id, account |-> rows[id].account, side |-> rows[id].side,
                price |-> rows[id].price, qty |-> rows[id].qty]

\* The resting orders are the rows, one for one.
LEMMA RestingAreRows ==
    ASSUME Sound(books, rows, openOrders)
    PROVE  /\ \A id \in DOMAIN rows : OrderOf(id) \in RestingIn(rows[id].symbol)
           /\ \A s \in DOMAIN books : \A r \in OrdersIn(books[s]) :
                 r.id \in DOMAIN rows /\ r = OrderOf(r.id) /\ rows[r.id].symbol = s
           /\ Resting = {OrderOf(id) : id \in DOMAIN rows}
<1>1. /\ RowsFit(rows) /\ MapFits(books) /\ DOMAIN books \subseteq Symbols
      /\ \A id \in DOMAIN rows : rows[id].symbol \in Symbols
  BY DEF Sound, MapFits, RowsFit, Row
<1>2. \A s \in Symbols : BookOf(s) = BookAt(books, s) /\ BookFits(BookOf(s)) /\ Shows(BookOf(s), s, rows)
  BY <1>1, BookAtFits DEF BookOf, BookAt, Sound
<1>3. ASSUME NEW id \in DOMAIN rows PROVE OrderOf(id) \in RestingIn(rows[id].symbol)
  <2>1. PICK s : s = rows[id].symbol
    OBVIOUS
  <2>2. RowsFit(rows) /\ BookFits(BookOf(s)) /\ Shows(BookOf(s), s, rows)
    BY <1>1, <1>2, <2>1
  <2>3. [id |-> id, account |-> rows[id].account, side |-> rows[id].side,
         price |-> rows[id].price, qty |-> rows[id].qty] \in OrdersIn(BookOf(s))
    BY <2>1, <2>2, OrdersByRow
  <2>4. QED
    BY <2>1, <2>3 DEF OrderOf, RestingIn
<1>4. ASSUME NEW s \in DOMAIN books, NEW r \in OrdersIn(books[s])
      PROVE  r.id \in DOMAIN rows /\ r = OrderOf(r.id) /\ rows[r.id].symbol = s
  <2>1. BookFits(books[s]) /\ Shows(books[s], s, rows)
    BY <1>1, <1>2 DEF BookOf
  <2>2. /\ r.id \in DOMAIN rows /\ rows[r.id].symbol = s /\ rows[r.id].side = r.side
        /\ rows[r.id].price = r.price /\ rows[r.id].account = r.account
        /\ rows[r.id].qty = r.qty
        /\ r = [id |-> r.id, account |-> r.account, side |-> r.side,
                price |-> r.price, qty |-> r.qty]
    BY <1>1, <2>1, OrdersByRow
  <2>3. QED
    BY <2>2 DEF OrderOf
<1>5. ASSUME NEW id \in DOMAIN rows PROVE OrderOf(id) \in Resting
  <2>1. OrderOf(id) \in OrdersIn(BookOf(rows[id].symbol))
    BY <1>3 DEF RestingIn
  <2>2. rows[id].symbol \in DOMAIN books
    <3>1. CASE rows[id].symbol \notin DOMAIN books
      <4>1. BookOf(rows[id].symbol) = EmptyBook
        BY <3>1 DEF BookOf
      <4>2. OrdersIn(EmptyBook) = {}
        BY DEF OrdersIn, OrdersOn, EmptyBook, EmptySide
      <4>3. QED
        BY <2>1, <4>1, <4>2
    <3>2. QED
      BY <3>1
  <2>3. QED
    BY <2>1, <2>2 DEF BookOf, Resting
<1>6. Resting = {OrderOf(id) : id \in DOMAIN rows}
  <2>1. ASSUME NEW r \in Resting PROVE r \in {OrderOf(id) : id \in DOMAIN rows}
    <3>1. PICK s \in DOMAIN books : r \in OrdersIn(books[s])
      BY DEF Resting
    <3>2. r.id \in DOMAIN rows /\ r = OrderOf(r.id)
      BY <1>4, <3>1
    <3>3. QED
      BY <3>2
  <2>2. QED
    BY <1>5, <2>1
<1>7. QED
  BY <1>3, <1>4, <1>6

LEMMA IndexIsTheBooks ==
    ASSUME Sound(books, rows, openOrders)
    PROVE  BookAndIndexAgree
<1>1. /\ RowsFit(rows) /\ MapFits(books) /\ openOrders = IndexOf(rows)
      /\ DOMAIN openOrders = DOMAIN rows /\ IsFiniteSet(DOMAIN rows)
  BY DEF Sound, RowsFit, IndexOf
<1>2. Resting = {OrderOf(id) : id \in DOMAIN rows}
  BY RestingAreRows
<1>3. \A id \in DOMAIN rows : OrderOf(id).id = id /\ OrderOf(id).side = openOrders[id].side
                              /\ OrderOf(id).price = openOrders[id].price
  BY <1>1 DEF OrderOf, IndexOf
<1>4. {[id |-> r.id, side |-> r.side, price |-> r.price] : r \in Resting}
         = {[id |-> id, side |-> openOrders[id].side, price |-> openOrders[id].price] :
               id \in DOMAIN openOrders}
  <2> DEFINE short(r) == [id |-> r.id, side |-> r.side, price |-> r.price]
             ref(id) == [id |-> id, side |-> openOrders[id].side, price |-> openOrders[id].price]
  <2>1. \A id \in DOMAIN rows : short(OrderOf(id)) = ref(id)
    BY <1>3
  <2> HIDE DEF short, ref
  <2>2. {short(r) : r \in Resting} = {ref(id) : id \in DOMAIN openOrders}
    BY <1>1, <1>2, <2>1
  <2>3. QED
    BY <2>2 DEF short, ref
<1>5. Cardinality(Resting) = Cardinality(DOMAIN openOrders)
  <2> DEFINE f == [id \in DOMAIN rows |-> OrderOf(id)]
  <2>1. \A x, y \in DOMAIN rows : f[x] = f[y] => x = y
    BY <1>3
  <2>2. DOMAIN f = DOMAIN rows /\ \A id \in DOMAIN rows : f[id] = OrderOf(id)
    OBVIOUS
  <2>3. f \in Bijection(DOMAIN rows, Resting)
    BY <1>2, <2>1, <2>2 DEF Bijection, Injection, Surjection, IsInjective
  <2>4. ExistsBijection(DOMAIN rows, Resting)
    BY <2>3 DEF ExistsBijection
  <2>5. QED
    BY <1>1, <2>4, FS_Bijection
<1>6. ASSUME NEW id \in DOMAIN openOrders
      PROVE  \E r \in RestingIn(openOrders[id].symbol) : r.id = id /\ r.qty > 0
  <2>1. openOrders[id].symbol = rows[id].symbol /\ id \in DOMAIN rows
    BY <1>1 DEF IndexOf
  <2>2. OrderOf(id) \in RestingIn(rows[id].symbol)
    BY <2>1, RestingAreRows
  <2>3. OrderOf(id).id = id /\ OrderOf(id).qty = rows[id].qty
    BY DEF OrderOf
  <2>4. rows[id].qty > 0
    BY <1>1, <2>1 DEF RowsFit, Row, Tenths
  <2>5. QED
    BY <2>1, <2>2, <2>3, <2>4
<1>7. ASSUME NEW s \in DOMAIN books
      PROVE  /\ ~IsEmptyBook(books[s])
             /\ \A side \in Sides : \A p \in DOMAIN books[s][side] : books[s][side][p] # <<>>
  <2>1. BookFits(books[s]) /\ ~IsEmptyBook(books[s])
    BY <1>1 DEF MapFits
  <2>2. \A side \in Sides : SideFits(books[s][side])
    BY <2>1, SidesOfBook
  <2>3. QED
    BY <2>1, <2>2 DEF SideFits
<1>8. QED
  BY <1>4, <1>5, <1>6, <1>7 DEF BookAndIndexAgree

\* The books are what the index says, one resting order for one entry, and
\* every resting order is in a listed symbol on the steps of the listing in
\* force, however the symbol was closed and listed again.
THEOREM BooksStaySound == Spec => []BooksAreSound
<1>1. ASSUME ExchangeInv PROVE BooksAreSound
  <2>1. Sound(books, rows, openOrders) /\ RowsOnStep(rows)
    BY <1>1 DEF ExchangeInv, BooksInv
  <2>2. BookAndIndexAgree
    BY <2>1, IndexIsTheBooks
  <2>3. ASSUME NEW s \in DOMAIN books, NEW r \in OrdersIn(books[s])
        PROVE  Listed(s) /\ OnSteps(s, r.price, r.qty)
    <3>1. r.id \in DOMAIN rows /\ r = OrderOf(r.id) /\ rows[r.id].symbol = s
      BY <2>1, RestingAreRows
    <3>2. OrderOf(r.id).price = rows[r.id].price /\ OrderOf(r.id).qty = rows[r.id].qty
      BY DEF OrderOf
    <3>3. QED
      BY <2>1, <3>1, <3>2 DEF RowsOnStep, OnStep
  <2>4. QED
    BY <2>2, <2>3 DEF BooksAreSound, RestingOrdersOnStep
<1>2. QED
  BY <1>1, ExchangeInvHolds, PTL

-----------------------------------------------------------------------------
(* The trades of a message.  Every trade an order makes is with the order   *)
(* that waited first, and what waited before it is gone.                    *)

SameTerms(r, q) ==
    /\ r.account = q.account /\ r.symbol = q.symbol
    /\ r.side = q.side /\ r.price = q.price

RowsStand(rx, rw) == \A id \in DOMAIN rx : id \in DOMAIN rw /\ SameTerms(rx[id], rw[id])

\* A row that would have to trade before the maker of t.
InFront(row, id, t) ==
    /\ row.symbol = t.symbol
    /\ row.side = Facing(t.side)
    /\ Better(t.side, row.price, t.price) \/ (row.price = t.price /\ id < t.maker)

NoneInFront(rx, t) == \A id \in DOMAIN rx : ~InFront(rx[id], id, t)

\* A trade of the order o with one of the orders rw, at that one's terms.
TradeOn(o, rw, t) ==
    /\ t.symbol = o.symbol /\ t.side = o.side /\ t.taker = o.id /\ t.takerAccount = o.account
    /\ t.maker \in DOMAIN rw
    /\ rw[t.maker].account = t.makerAccount /\ rw[t.maker].symbol = o.symbol
    /\ rw[t.maker].side = Facing(o.side) /\ rw[t.maker].price = t.price
    /\ Crosses(o.side, t.price, o.limit)

Grown(stored, now) ==
    /\ now \in Seq(Trade)
    /\ Len(stored) <= Len(now)
    /\ \A i \in 1..Len(stored) : now[i] = stored[i]

TradesRight(o, rw, stored, e) ==
    /\ RowsStand(e.rows, rw)
    /\ Grown(stored, e.trades)
    /\ \A i \in (Len(stored) + 1)..Len(e.trades) :
          TradeOn(o, rw, e.trades[i]) /\ NoneInFront(e.rows, e.trades[i])

LEMMA StandsOnward ==
    ASSUME NEW rx, NEW ry, NEW rw, RowsStand(rx, ry), RowsStand(ry, rw)
    PROVE  RowsStand(rx, rw)
BY DEF RowsStand, SameTerms

LEMMA NoneInFrontOnward ==
    ASSUME NEW rx, NEW ry, RowsStand(rx, ry), NEW t, NoneInFront(ry, t)
    PROVE  NoneInFront(rx, t)
BY DEF RowsStand, SameTerms, NoneInFront, InFront

\* The front of the best level waited before every other order of its side.
LEMMA FrontIsFirst ==
    ASSUME NEW o, OrderFits(o), NEW rw, NEW e, BookSound(o, rw, e), HasNextFill(e.book, o),
           NEW f, TakesFront(e.book, o, f), f.price = BestFacing(e.book, o)
    PROVE  NoneInFront(e.rows, TradeOf(o, f))
<1> DEFINE side == Facing(o.side)
           q    == e.book[side][f.price]
           t    == TradeOf(o, f)
<1>0. /\ BookFits(e.book) /\ RowsFit(e.rows) /\ Shows(e.book, o.symbol, e.rows)
      /\ o.side \in Sides /\ side \in Sides /\ DOMAIN e.book[side] # {}
  BY SidesOfBook DEF BookSound, OrderFits, HasNextFill
<1>1. t.symbol = o.symbol /\ t.side = o.side /\ t.price = f.price /\ t.maker = f.maker
  BY DEF TradeOf
<1>2. /\ f.price \in DOMAIN e.book[side] /\ f.price \in Cents
      /\ QueueFits(q) /\ q # <<>> /\ q = Level(e.book, side, f.price)
      /\ f.maker = Head(q).id
  <2>1. f.price \in DOMAIN e.book[side] /\ f.price \in Cents /\ f.maker = Head(q).id
    BY DEF TakesFront, MakerFor
  <2>2. SideFits(e.book[side])
    BY <1>0, SidesOfBook
  <2>3. q = Level(e.book, side, f.price)
    BY <2>1 DEF Level
  <2>4. QED
    BY <2>1, <2>2, <2>3 DEF SideFits
<1>3. \A p \in DOMAIN e.book[side] : p \in Cents /\ (f.price = p \/ Better(o.side, f.price, p))
  <2>1. PICK b : b = BestFacing(e.book, o)
    OBVIOUS
  <2>2. \A p \in DOMAIN e.book[side] : b = p \/ Better(o.side, b, p)
    BY <1>0, <2>1, BestPrice
  <2>3. SideFits(e.book[side])
    BY <1>0, SidesOfBook
  <2>4. QED
    BY <2>1, <2>2, <2>3 DEF SideFits
<1> HIDE DEF t, q
<1>4. ASSUME NEW id \in DOMAIN e.rows, InFront(e.rows[id], id, t) PROVE FALSE
  <2> DEFINE row == e.rows[id]
             p == row.price
             entry == EntryOf(id, row)
  <2>1. /\ row.symbol = o.symbol /\ row.side = side
        /\ Better(o.side, p, f.price) \/ (p = f.price /\ id < f.maker)
    BY <1>1, <1>4 DEF InFront
  <2>2. p \in Cents /\ id \in Nat
    BY <1>0 DEF RowsFit, Row
  <2>3. entry \in ToSet(Level(e.book, side, p))
    <3>1. entry \in EntriesAt(e.rows, o.symbol, side, p)
      BY <1>0, <2>1, EntriesByRow
    <3>2. QED
      BY <1>0, <2>2, <3>1 DEF Shows
  <2>3a. QueueFits(Level(e.book, side, p))
    BY <1>0, SidesOfBook
  <2>4. PICK i \in 1..Len(Level(e.book, side, p)) : entry = Level(e.book, side, p)[i]
    BY <2>3, <2>3a, EntriesOfQueue
  <2>5. Level(e.book, side, p) # <<>>
    BY <2>4
  <2>6. p \in DOMAIN e.book[side]
    BY <1>0, <2>5, SidesOfBook
  <2>7. f.price = p \/ Better(o.side, f.price, p)
    BY <1>3, <2>6
  <2> HIDE DEF p, entry, row
  <2>8. ~Better(o.side, p, f.price)
    BY <1>2, <2>2, <2>7 DEF Better, Cents
  <2>9. p = f.price /\ id < f.maker
    BY <2>1, <2>8
  <2>10. Head(q) = q[1] /\ 1 \in 1..Len(q) /\ i \in 1..Len(q) /\ entry = q[i]
    BY <1>2, <2>4, <2>9, TailFits
  <2>11. entry.id = id
    BY DEF entry, EntryOf
  <2>12. q[1].id = q[i].id \/ q[1].id < q[i].id
    BY <1>2, <2>10, EntriesOfQueue
  <2>13. f.maker = q[1].id /\ id = q[i].id /\ f.maker \in Nat
    <3>1. q[1] \in Entry
      BY <1>2, <2>10, EntriesOfQueue
    <3>2. QED
      BY <1>2, <2>10, <2>11, <3>1 DEF Entry
  <2>14. QED
    BY <2>2, <2>9, <2>12, <2>13
<1>5. QED
  BY <1>4 DEF NoneInFront, t

LEMMA CommitRowsStand ==
    ASSUME NEW o, OrderFits(o), NEW rw, NEW e, BookSound(o, rw, e), NEW f, TakesFront(e.book, o, f)
    PROVE  RowsStand(CommitFill(o, e, f).rows, e.rows)
<1> DEFINE rx == CommitFill(o, e, f).rows
<1>1. MakersRow(o, e.book, e.rows, f)
  BY RowOfMaker DEF BookSound
<1>2. CASE MakerDone(CommitFill(o, e, f), o, e, f)
  <2>1. rx = Without(e.rows, {f.maker})
    BY <1>2 DEF MakerDone
  <2>2. QED
    BY <2>1 DEF Without, Restrict, RowsStand, SameTerms
<1>3. CASE MakerStays(CommitFill(o, e, f), o, e, f)
  <2> DEFINE row == RowLeft(o, e, f)
             was == e.rows[f.maker]
  <2>1. rx = Put(e.rows, f.maker, row)
    BY <1>3 DEF MakerStays
  <2>2. f.maker \in DOMAIN e.rows /\ SameTerms(row, was)
    BY <1>1 DEF RowLeft, SameTerms, MakersRow
  <2> HIDE DEF row
  <2>3. DOMAIN rx = DOMAIN e.rows \cup {f.maker} /\ rx[f.maker] = row
        /\ \A id \in DOMAIN e.rows \ {f.maker} : rx[id] = e.rows[id]
    BY <2>1 DEF Put
  <2> HIDE DEF rx
  <2>4. RowsStand(rx, e.rows)
    BY <2>2, <2>3 DEF RowsStand, SameTerms
  <2>5. QED
    BY <2>4 DEF rx
<1>4. QED
  BY <1>2, <1>3, CommitParts

\* One more trade.
LEMMA TradeAdds ==
    ASSUME NEW stored, Len(stored) \in Nat, NEW now, Grown(stored, now), NEW t \in Trade
    PROVE  /\ Grown(stored, Append(now, t))
           /\ Len(Append(now, t)) = Len(now) + 1
           /\ \A i \in (Len(stored) + 1)..Len(Append(now, t)) :
                 \/ i \in (Len(stored) + 1)..Len(now) /\ Append(now, t)[i] = now[i]
                 \/ i = Len(now) + 1 /\ Append(now, t)[i] = t
<1> DEFINE u == Append(now, t)
<1>1. now \in Seq(Trade) /\ Len(now) \in Nat /\ Len(stored) <= Len(now)
  BY DEF Grown
<1>2. /\ u \in Seq(Trade) /\ Len(u) = Len(now) + 1 /\ u[Len(now) + 1] = t
      /\ \A i \in 1..Len(now) : u[i] = now[i]
  BY <1>1
<1> HIDE DEF u
<1>3. \A i \in 1..Len(stored) : i \in 1..Len(now) /\ u[i] = stored[i]
  BY <1>1, <1>2 DEF Grown
<1>4. Grown(stored, u)
  BY <1>1, <1>2, <1>3 DEF Grown
<1>5. \A i \in (Len(stored) + 1)..Len(u) :
         \/ i \in (Len(stored) + 1)..Len(now) /\ u[i] = now[i]
         \/ i = Len(now) + 1 /\ u[i] = t
  BY <1>1, <1>2
<1>6. QED
  BY <1>2, <1>4, <1>5 DEF u

LEMMA CommitKeepsTrades ==
    ASSUME NEW o, OrderFits(o), NEW rw, NEW stored, Len(stored) \in Nat,
           NEW e, BookSound(o, rw, e), TradesRight(o, rw, stored, e), HasNextFill(e.book, o),
           NEW f, TakesFront(e.book, o, f), f.price = BestFacing(e.book, o)
    PROVE  /\ TradesRight(o, rw, stored, CommitFill(o, e, f))
           /\ CommitFill(o, e, f).trades = Append(e.trades, TradeOf(o, f))
           /\ TradeOf(o, f) \in Trade
<1> DEFINE c == CommitFill(o, e, f)
           t == TradeOf(o, f)
<1>1. c.trades = Append(e.trades, t)
  <2>1. c = CommitRecord(o, e, f)
    BY CommitFields DEF BookSound
  <2>2. CommitRecord(o, e, f).trades = Append(e.trades, t)
    BY DEF CommitRecord
  <2>3. QED
    BY <2>1, <2>2
<1>2. RowsStand(c.rows, e.rows) /\ RowsStand(e.rows, rw)
  BY CommitRowsStand DEF TradesRight
<1>3. RowsStand(c.rows, rw)
  BY <1>2, StandsOnward
<1>4. t \in Trade
  BY DEF TradeOf, Trade, OrderFits, TakesFront, Entry
<1>5. NoneInFront(c.rows, t)
  BY <1>2, FrontIsFirst, NoneInFrontOnward
<1>6. TradeOn(o, rw, t)
  <2>1. MakersRow(o, e.book, e.rows, f)
    BY RowOfMaker DEF BookSound
  <2>2. /\ f.maker \in DOMAIN e.rows
        /\ e.rows[f.maker].account = MakerFor(e.book, o, f).account
        /\ e.rows[f.maker].symbol = o.symbol /\ e.rows[f.maker].side = Facing(o.side)
        /\ e.rows[f.maker].price = f.price
    BY <2>1 DEF MakersRow
  <2>3. /\ f.maker \in DOMAIN rw /\ rw[f.maker].account = f.account
        /\ rw[f.maker].symbol = o.symbol /\ rw[f.maker].side = Facing(o.side)
        /\ rw[f.maker].price = f.price
    BY <1>2, <2>2 DEF RowsStand, SameTerms, TakesFront
  <2>4. Crosses(o.side, f.price, o.limit)
    BY DEF HasNextFill
  <2>5. /\ t.symbol = o.symbol /\ t.side = o.side /\ t.taker = o.id /\ t.takerAccount = o.account
        /\ t.maker = f.maker /\ t.makerAccount = f.account /\ t.price = f.price
    BY DEF TradeOf
  <2> HIDE DEF t
  <2>6. QED
    BY <2>3, <2>4, <2>5 DEF TradeOn
<1> HIDE DEF c, t
<1>7. Grown(stored, e.trades)
  BY DEF TradesRight
<1>8. ASSUME NEW i \in (Len(stored) + 1)..Len(c.trades)
      PROVE  TradeOn(o, rw, c.trades[i]) /\ NoneInFront(c.rows, c.trades[i])
  <2>1. \/ i \in (Len(stored) + 1)..Len(e.trades) /\ c.trades[i] = e.trades[i]
        \/ i = Len(e.trades) + 1 /\ c.trades[i] = t
    BY <1>1, <1>4, <1>7, TradeAdds
  <2>2. CASE i \in (Len(stored) + 1)..Len(e.trades) /\ c.trades[i] = e.trades[i]
    <3>1. TradeOn(o, rw, e.trades[i]) /\ NoneInFront(e.rows, e.trades[i])
      BY <2>2 DEF TradesRight
    <3>2. QED
      BY <1>2, <2>2, <3>1, NoneInFrontOnward
  <2>3. CASE c.trades[i] = t
    BY <1>5, <1>6, <2>3
  <2>4. QED
    BY <2>1, <2>2, <2>3
<1>9. Grown(stored, c.trades)
  BY <1>1, <1>4, <1>7, TradeAdds
<1>10. QED
  BY <1>1, <1>3, <1>4, <1>8, <1>9 DEF TradesRight, c, t

\* What only moves money or stops an order leaves its trades alone.
LEMMA SameTradesRight ==
    ASSUME NEW o, NEW rw, NEW stored, NEW e, TradesRight(o, rw, stored, e),
           NEW x, x.rows = e.rows, x.trades = e.trades
    PROVE  TradesRight(o, rw, stored, x)
BY DEF TradesRight

LEMMA StoppedKeepsTrades ==
    ASSUME NEW o, NEW rw, NEW stored, NEW e, IsExec(e), TradesRight(o, rw, stored, e),
           NEW x, Stopped(e, x)
    PROVE  TradesRight(o, rw, stored, x) /\ x.trades = e.trades /\ x.rows = e.rows
<1>1. x = [book |-> e.book, ledger |-> e.ledger, positions |-> e.positions,
           openOrders |-> e.openOrders, rows |-> e.rows, trades |-> e.trades,
           left |-> e.left, stop |-> x.stop]
  BY StoppedFields
<1>2. x.rows = e.rows /\ x.trades = e.trades
  BY <1>1
<1>3. QED
  BY <1>2, SameTradesRight

LEMMA FillKeepsTrades ==
    ASSUME NEW o, OrderFits(o), NEW rw, NEW stored, Len(stored) \in Nat,
           NEW e, BookSound(o, rw, e), TradesRight(o, rw, stored, e),
           NEW x, TakesFill(o, e, x)
    PROVE  TradesRight(o, rw, stored, x)
<1> DEFINE f == FillNow(o, e)
           l == AfterSettle(e.ledger, f.maker, o.id, f.price, f.qty)
           s == Settled(e, l)
<1>1. /\ BookSound(o, rw, s) /\ s.book = e.book /\ s.rows = e.rows /\ s.trades = e.trades
  BY SettledKeepsBook
<1>2. /\ HasNextFill(e.book, o) /\ TakesFront(e.book, o, f) /\ f.price = BestFacing(e.book, o)
      /\ x = CommitFill(o, s, f)
  BY DEF TakesFill
<1> HIDE DEF s, f
<1>3. TradesRight(o, rw, stored, s)
  BY <1>1, SameTradesRight
<1>4. /\ HasNextFill(s.book, o) /\ TakesFront(s.book, o, f) /\ f.price = BestFacing(s.book, o)
  BY <1>1, <1>2
<1>5. QED
  BY <1>1, <1>2, <1>3, <1>4, CommitKeepsTrades

LEMMA ExecuteKeepsTrades ==
    ASSUME NEW o, OrderFits(o), NEW rw, NEW stored, Len(stored) \in Nat,
           NEW e, BookSound(o, rw, e), e.left = o.qty, TradesRight(o, rw, stored, e),
           NEW x, x = ExecuteTurns(o, e, o.qty)
    PROVE  TradesRight(o, rw, stored, x)
<1>1. PICK g : FillChain(g, o, rw, e, o.qty)
  BY ExecuteRuns
<1> DEFINE n == o.qty
           Fine(y) == TradesRight(o, rw, stored, y)
           good == {k \in Nat : k <= n => Fine(g[1..k])}
<1>2. n \in Nat
  BY <1>1 DEF FillChain
<1>3. 0 \in good
  BY <1>1 DEF FillChain
<1>4. ASSUME NEW k \in Nat, k \in good PROVE k + 1 \in good
  <2> SUFFICES ASSUME k + 1 <= n PROVE Fine(g[1..(k + 1)])
    OBVIOUS
  <2>1. k + 1 \in 1..n /\ k \in 0..n /\ (k + 1) - 1 = k
    BY <1>2
  <2>2. PICK y, z : y = g[1..k] /\ z = g[1..(k + 1)]
    OBVIOUS
  <2>3. FillStep(o, y, z) /\ BookSound(o, rw, y) /\ Fine(y)
    BY <1>1, <1>4, <2>1, <2>2 DEF FillChain
  <2>4. IsExec(y)
    BY <2>3 DEF BookSound
  <2>5. CASE z = y
    BY <2>2, <2>3, <2>5
  <2>6. CASE Stopped(y, z)
    <3>1. Fine(z)
      BY <2>3, <2>4, <2>6, StoppedKeepsTrades
    <3>2. QED
      BY <2>2, <3>1
  <2>7. CASE TakesFill(o, y, z)
    <3>1. Fine(z)
      BY <2>3, <2>7, FillKeepsTrades
    <3>2. QED
      BY <2>2, <3>1
  <2>8. QED
    BY <2>3, <2>5, <2>6, <2>7 DEF FillStep
<1>5. n \in good
  <2> HIDE DEF good
  <2>1. QED
    BY <1>2, <1>3, <1>4, EveryNatural
<1>6. QED
  BY <1>1, <1>2, <1>5 DEF FillChain

\* The trades that came after the stored ones are the first k fills of a plan.
FillsPlan(stored, now, plan, k) ==
    /\ Len(now) = Len(stored) + k
    /\ \A i \in 1..k : now[Len(stored) + i].qty = plan[i].qty

\* A staged order as far as its k-th fill.
PlanDone(o, rw, stored, plan, k, y) ==
    /\ TradesRight(o, rw, stored, y)
    /\ y.stop \in {"no", "panic"}
    /\ y.stop = "no" => FillsPlan(stored, y.trades, plan, k)

LEMMA PlannedKeepsTrades ==
    ASSUME NEW o, OrderFits(o), NEW rw, NEW stored, Len(stored) \in Nat,
           NEW e, BookSound(o, rw, e), NEW plan, NEW k \in Nat,
           PlanDone(o, rw, stored, plan, k, e), e.stop = "no",
           NEW x, TakesPlanned(o, e, plan[k + 1], x)
    PROVE  PlanDone(o, rw, stored, plan, k + 1, x)
<1>1. PICK f : f = plan[k + 1]
  OBVIOUS
<1>2. /\ HasNextFill(e.book, o) /\ TakesFront(e.book, o, f) /\ f.price = BestFacing(e.book, o)
      /\ x = CommitFill(o, e, f)
  BY <1>1 DEF TakesPlanned
<1>3. PICK t : t = TradeOf(o, f)
  OBVIOUS
<1>4. TradesRight(o, rw, stored, x) /\ x.trades = Append(e.trades, t) /\ t \in Trade
  <2>1. TradesRight(o, rw, stored, e)
    BY DEF PlanDone
  <2>2. /\ TradesRight(o, rw, stored, CommitFill(o, e, f))
        /\ CommitFill(o, e, f).trades = Append(e.trades, TradeOf(o, f))
        /\ TradeOf(o, f) \in Trade
    BY <1>2, <2>1, CommitKeepsTrades
  <2>3. QED
    BY <1>2, <1>3, <2>2
<1>5. x.stop = "no"
  <2>1. x = CommitRecord(o, e, f)
    BY <1>2, CommitFields DEF BookSound
  <2>2. CommitRecord(o, e, f).stop = e.stop
    BY DEF CommitRecord
  <2>3. QED
    BY <2>1, <2>2
<1>6. t.qty = plan[k + 1].qty
  BY <1>1, <1>3 DEF TradeOf
<1>7. /\ e.trades \in Seq(Trade) /\ Len(e.trades) = Len(stored) + k
      /\ \A i \in 1..k : e.trades[Len(stored) + i].qty = plan[i].qty
  BY DEF PlanDone, TradesRight, Grown, FillsPlan
<1>8. PICK old, new : old = e.trades /\ new = x.trades
  OBVIOUS
<1>9. /\ Len(new) = Len(stored) + (k + 1)
      /\ new[Len(stored) + (k + 1)] = t
      /\ \A i \in 1..k : new[Len(stored) + i] = old[Len(stored) + i]
  BY <1>4, <1>7, <1>8
<1>10. ASSUME NEW i \in 1..(k + 1) PROVE new[Len(stored) + i].qty = plan[i].qty
  <2>1. CASE i = k + 1
    BY <1>6, <1>9, <2>1
  <2>2. CASE i \in 1..k
    BY <1>7, <1>8, <1>9, <2>2
  <2>3. QED
    BY <2>1, <2>2
<1>11. FillsPlan(stored, x.trades, plan, k + 1)
  BY <1>8, <1>9, <1>10 DEF FillsPlan
<1>12. QED
  BY <1>4, <1>5, <1>11 DEF PlanDone

LEMMA PlanKeepsTrades ==
    ASSUME NEW o, OrderFits(o), NEW rw, NEW stored, Len(stored) \in Nat,
           NEW e, BookSound(o, rw, e), NEW plan, NEW n, PlanFits(plan, n),
           TradesRight(o, rw, stored, e), e.stop = "no", e.trades = stored,
           NEW x, x = ExecutePlan(o, e, plan)
    PROVE  PlanDone(o, rw, stored, plan, n, x)
<1>1. PICK g : PlanChain(g, o, rw, e, plan, n)
  BY PlanRuns
<1> DEFINE Fine(y, k) == PlanDone(o, rw, stored, plan, k, y)
           good == {k \in Nat : k <= n => Fine(g[1..k], k)}
<1>2. /\ n \in Nat /\ g[1..0] = e /\ x = g[1..n]
      /\ \A k \in 1..n : g[1..k] = ExecutePlanned(o, g[1..(k - 1)], plan[k])
      /\ \A k \in 0..n : BookSound(o, rw, g[1..k])
      /\ \A k \in 1..n : plan[k].qty \in Tenths
  BY <1>1 DEF PlanChain, PlanTurns, PlanFits
<1>3. 0 \in good
  <2>1. Fine(e, 0)
    BY DEF PlanDone, FillsPlan
  <2>2. QED
    BY <1>2, <2>1
<1>4. ASSUME NEW k \in Nat, k \in good PROVE k + 1 \in good
  <2> SUFFICES ASSUME k + 1 <= n PROVE Fine(g[1..(k + 1)], k + 1)
    OBVIOUS
  <2>1. k + 1 \in 1..n /\ k \in 0..n /\ (k + 1) - 1 = k /\ k <= n
    BY <1>2
  <2>2. PICK y, z, f : y = g[1..k] /\ z = g[1..(k + 1)] /\ f = plan[k + 1]
    OBVIOUS
  <2>3. /\ BookSound(o, rw, y) /\ Fine(y, k) /\ z = ExecutePlanned(o, y, f)
        /\ f.qty \in Tenths
    BY <1>2, <1>4, <2>1, <2>2
  <2>4. \/ z = y /\ y.stop # "no"
        \/ y.stop = "no" /\ z = [y EXCEPT !.stop = "panic"]
        \/ y.stop = "no" /\ TakesPlanned(o, y, f, z)
    BY <2>3, TurnOfPlan
  <2>5. CASE z = y /\ y.stop # "no"
    <3>1. Fine(z, k + 1)
      BY <2>3, <2>5 DEF PlanDone
    <3>2. QED
      BY <2>2, <3>1
  <2>6. CASE z = [y EXCEPT !.stop = "panic"]
    <3>1. IsExec(y) /\ TradesRight(o, rw, stored, y)
      BY <2>3 DEF BookSound, PlanDone
    <3>2. TradesRight(o, rw, stored, z)
      BY <2>6, <3>1, StoppedKeepsTrades DEF Stopped
    <3>3. z.stop = "panic"
      BY <2>6, <3>1 DEF IsExec
    <3>4. Fine(z, k + 1)
      BY <3>2, <3>3 DEF PlanDone
    <3>5. QED
      BY <2>2, <3>4
  <2>7. CASE y.stop = "no" /\ TakesPlanned(o, y, f, z)
    <3>1. Fine(z, k + 1)
      BY <2>2, <2>3, <2>7, PlannedKeepsTrades
    <3>2. QED
      BY <2>2, <3>1
  <2>8. QED
    BY <2>4, <2>5, <2>6, <2>7
<1>5. n \in good
  <2> HIDE DEF good
  <2>1. QED
    BY <1>2, <1>3, <1>4, EveryNatural
<1>6. QED
  BY <1>2, <1>5

\* What waited before the maker of t among the rows rw is not among rx.
FrontGone(rw, rx, t) == \A id \in DOMAIN rw : InFront(rw[id], id, t) => id \notin DOMAIN rx

\* The trades an order added to the stored ones, and the rows it left.
TradedBy(o, rw, rx, stored, now) ==
    /\ Grown(stored, now)
    /\ \A i \in (Len(stored) + 1)..Len(now) :
          TradeOn(o, rw, now[i]) /\ FrontGone(rw, rx, now[i])

\* A fill-or-kill order that was not stopped has traded its whole plan.
WholePlan(o, stored, e) ==
    IsStaged(o) => \/ e.stop = "panic"
                   \/ /\ \E n : /\ PlanFits(PlanFills(BookOf(o.symbol), o), n)
                                /\ FillsPlan(stored, e.trades, PlanFills(BookOf(o.symbol), o), n)
                      /\ o.id \notin DOMAIN e.rows

LEMMA RightIsTraded ==
    ASSUME NEW o, NEW rw, NEW stored, NEW x, TradesRight(o, rw, stored, x), o.id \notin DOMAIN rw,
           NEW rx, DOMAIN rx \subseteq DOMAIN x.rows \cup {o.id}
    PROVE  TradedBy(o, rw, rx, stored, x.trades)
<1>1. ASSUME NEW t, NoneInFront(x.rows, t) PROVE FrontGone(rw, rx, t)
  <2>1. ASSUME NEW id \in DOMAIN rw, InFront(rw[id], id, t), id \in DOMAIN rx PROVE FALSE
    <3>1. id \in DOMAIN x.rows
      BY <2>1
    <3>2. SameTerms(x.rows[id], rw[id])
      BY <3>1 DEF TradesRight, RowsStand
    <3>3. InFront(x.rows[id], id, t)
      BY <2>1, <3>2 DEF InFront, SameTerms
    <3>4. QED
      BY <1>1, <3>1, <3>3 DEF NoneInFront
  <2>2. QED
    BY <2>1 DEF FrontGone
<1>2. QED
  BY <1>1 DEF TradesRight, TradedBy

LEMMA StartingTrades ==
    ASSUME Sound(books, rows, openOrders), trades \in Seq(Trade), NEW o, OrderFits(o), NEW l
    PROVE  /\ TradesRight(o, rows, trades, Starting(o, l))
           /\ Starting(o, l).trades = trades /\ Starting(o, l).stop = "no"
           /\ Len(trades) \in Nat
<1> DEFINE e == Starting(o, l)
<1>1. e.rows = rows /\ e.trades = trades /\ e.stop = "no"
  BY DEF Starting
<1>2. Len(trades) \in Nat
  OBVIOUS
<1>3. RowsStand(rows, rows)
  BY DEF RowsStand, SameTerms
<1>4. Grown(trades, trades) /\ (Len(trades) + 1)..Len(trades) = {}
  BY DEF Grown
<1> HIDE DEF e
<1>5. TradesRight(o, rows, trades, e)
  BY <1>1, <1>3, <1>4 DEF TradesRight
<1>6. QED
  BY <1>1, <1>2, <1>5 DEF e

LEMMA ExecutionTrades ==
    ASSUME Sound(books, rows, openOrders), trades \in Seq(Trade), NEW o, OrderFits(o),
           NEW x, x = Execution(o)
    PROVE  /\ TradesRight(o, rows, trades, x)
           /\ IsStaged(o) => \E n : /\ PlanFits(PlanFills(BookOf(o.symbol), o), n)
                                    /\ PlanDone(o, rows, trades, PlanFills(BookOf(o.symbol), o), n, x)
<1>1. CASE IsStaged(o)
  <2> DEFINE e == Starting(o, Staged(o).ledger)
             plan == PlanFills(BookOf(o.symbol), o)
  <2>1. BookSound(o, rows, e) /\ BookFits(BookOf(o.symbol))
    BY StartingIsSound
  <2>2. TradesRight(o, rows, trades, e) /\ e.trades = trades /\ e.stop = "no" /\ Len(trades) \in Nat
    BY StartingTrades
  <2>3. PICK n : PlanFits(plan, n)
    BY <2>1, PlanIsTyped
  <2>4. x = ExecutePlan(o, e, plan)
    BY <1>1 DEF Execution
  <2> HIDE DEF e, plan
  <2>5. PlanDone(o, rows, trades, plan, n, x)
    BY <2>1, <2>2, <2>3, <2>4, PlanKeepsTrades
  <2>6. QED
    BY <2>3, <2>5 DEF PlanDone, plan
<1>2. CASE ~IsStaged(o)
  <2> DEFINE e == Starting(o, ReservedFor(o))
  <2>1. BookSound(o, rows, e) /\ e.left = o.qty
    BY StartingIsSound
  <2>2. TradesRight(o, rows, trades, e) /\ Len(trades) \in Nat
    BY StartingTrades
  <2>3. x = ExecuteTurns(o, e, o.qty)
    BY <1>2 DEF Execution
  <2> HIDE DEF e
  <2>4. QED
    BY <1>2, <2>1, <2>2, <2>3, ExecuteKeepsTrades
<1>3. QED
  BY <1>1, <1>2

\* Step 6 trades nothing, and puts no row in the table but the order's own.
LEMMA RemainderTrades ==
    ASSUME NEW o, NEW rw, NEW x, BookSound(o, rw, x), NEW e, e = AfterRemainder(o, x)
    PROVE  /\ e.trades = x.trades
           /\ DOMAIN e.rows \subseteq DOMAIN x.rows \cup {o.id}
           /\ IsStaged(o) => /\ DOMAIN e.rows = DOMAIN x.rows
                             /\ e.stop = x.stop \/ e.stop = "panic"
<1>1. IsExec(x)
  BY DEF BookSound
<1>2. CASE x.stop = "no" /\ Rests(o, x.left)
  <2>1. e = RestRecord(o, x) /\ ~IsStaged(o)
    BY <1>1, <1>2, RestFields DEF AfterRemainder, Rests, IsStaged
  <2>2. e.trades = x.trades /\ e.rows = Put(x.rows, o.id, OwnRow(o, x.left))
    BY <2>1 DEF RestRecord
  <2>3. DOMAIN e.rows = DOMAIN x.rows \cup {o.id}
    BY <2>2 DEF Put
  <2>4. QED
    BY <2>1, <2>2, <2>3
<1>3. CASE ~(x.stop = "no" /\ Rests(o, x.left))
  <2>1. \/ e = x
        \/ e = [x EXCEPT !.stop = "panic"]
        \/ e = Settled(x, AfterRelease(x.ledger, o.id))
    BY <1>3 DEF AfterRemainder, Settled
  <2>2. e.trades = x.trades /\ e.rows = x.rows /\ (e.stop = x.stop \/ e.stop = "panic")
    <3>1. CASE e = x
      BY <3>1
    <3>2. CASE e = [x EXCEPT !.stop = "panic"]
      BY <1>1, <3>2 DEF IsExec
    <3>3. CASE e = Settled(x, AfterRelease(x.ledger, o.id))
      BY <3>3, SettledKeepsBook
    <3>4. QED
      BY <2>1, <3>1, <3>2, <3>3
  <2>3. QED
    BY <2>2
<1>4. QED
  BY <1>2, <1>3

LEMMA OrderTrades ==
    ASSUME Sound(books, rows, openOrders), trades \in Seq(Trade), NEW o, OrderFits(o),
           o.id \notin DOMAIN rows, NEW e, e = AfterRemainder(o, Execution(o))
    PROVE  TradedBy(o, rows, e.rows, trades, e.trades) /\ WholePlan(o, trades, e)
<1>1. PICK x : x = Execution(o)
  OBVIOUS
<1>2. BookSound(o, rows, x)
  BY <1>1, ExecutionKeepsBook
<1>3. TradesRight(o, rows, trades, x)
  BY <1>1, ExecutionTrades
<1>4. /\ e.trades = x.trades
      /\ DOMAIN e.rows \subseteq DOMAIN x.rows \cup {o.id}
      /\ IsStaged(o) => DOMAIN e.rows = DOMAIN x.rows /\ (e.stop = x.stop \/ e.stop = "panic")
  BY <1>1, <1>2, RemainderTrades
<1>5. TradedBy(o, rows, e.rows, trades, e.trades)
  BY <1>3, <1>4, RightIsTraded
<1>6. ASSUME IsStaged(o), e.stop # "panic"
      PROVE  /\ \E n : /\ PlanFits(PlanFills(BookOf(o.symbol), o), n)
                       /\ FillsPlan(trades, e.trades, PlanFills(BookOf(o.symbol), o), n)
             /\ o.id \notin DOMAIN e.rows
  <2>1. PICK n : /\ PlanFits(PlanFills(BookOf(o.symbol), o), n)
                 /\ PlanDone(o, rows, trades, PlanFills(BookOf(o.symbol), o), n, x)
    BY <1>1, <1>6, ExecutionTrades
  <2>2. x.stop = "no"
    BY <1>4, <1>6, <2>1 DEF PlanDone
  <2>3. FillsPlan(trades, e.trades, PlanFills(BookOf(o.symbol), o), n)
    BY <1>4, <2>1, <2>2 DEF PlanDone
  <2>4. DOMAIN x.rows \subseteq DOMAIN rows
    BY <1>2 DEF BookSound
  <2>5. QED
    BY <1>4, <1>6, <2>1, <2>3, <2>4
<1>7. WholePlan(o, trades, e)
  BY <1>6 DEF WholePlan
<1>8. QED
  BY <1>5, <1>7

-----------------------------------------------------------------------------
(* What a step may trade. *)

TradesOf(now, id) == {i \in DOMAIN now : now[i].taker = id}
QtyOfTrade(now, id) == [i \in TradesOf(now, id) |-> now[i].qty]

\* An order that traded its whole plan, and nothing before it, has traded the
\* plan's quantity.
LEMMA PlanAddsUp ==
    ASSUME NEW o, NEW stored \in Seq(Trade), NEW now, Grown(stored, now),
           NEW plan, NEW n, PlanFits(plan, n), FillsPlan(stored, now, plan, n),
           \A i \in 1..Len(stored) : stored[i].taker # o.id,
           \A i \in (Len(stored) + 1)..Len(now) : now[i].taker = o.id
    PROVE  SumFunction(QtyOfTrade(now, o.id)) = SumOf(plan)
<1> DEFINE S == TradesOf(now, o.id)
           fun == QtyOfTrade(now, o.id)
           Sum(k) == SumFunctionOnSet(fun, (Len(stored) + 1)..(Len(stored) + k))
<1>1. /\ n \in Nat /\ DOMAIN plan = 1..n /\ \A i \in 1..n : plan[i].qty \in Tenths
  BY DEF PlanFits
<1>2. PICK g : SumTurns(g, plan, n)
  BY <1>1, TurnsOfSum
<1>3. PICK l \in Nat : l = Len(stored)
  OBVIOUS
<1>4. /\ Len(now) = l + n /\ DOMAIN now = 1..(l + n)
      /\ \A i \in 1..l : now[i].taker # o.id
      /\ \A i \in (l + 1)..(l + n) : now[i].taker = o.id
      /\ \A i \in 1..n : now[l + i].qty = plan[i].qty
  BY <1>3 DEF FillsPlan, Grown
<1>5. S = (l + 1)..(l + n)
  BY <1>1, <1>4 DEF TradesOf
<1>6. DOMAIN fun = S /\ \A i \in 1..n : fun[l + i] = plan[i].qty
  BY <1>1, <1>4, <1>5 DEF QtyOfTrade
<1> HIDE DEF fun, S
<1>7. \A i \in (l + 1)..(l + n) : fun[i] \in Int
  <2>1. \A i \in (l + 1)..(l + n) : i - l \in 1..n /\ l + (i - l) = i
    BY <1>1
  <2>2. \A i \in 1..n : plan[i].qty \in Int
    BY <1>1 DEF Tenths
  <2>3. QED
    BY <1>6, <2>1, <2>2
<1> DEFINE good == {k \in Nat : k <= n => SumFunctionOnSet(fun, (l + 1)..(l + k)) = g[1..k]}
<1>8. 0 \in good
  <2>1. (l + 1)..(l + 0) = {} /\ g[1..0] = 0
    BY <1>2 DEF SumTurns
  <2>2. QED
    BY <2>1, SumOfNothing
<1>9. ASSUME NEW k \in Nat, k \in good PROVE k + 1 \in good
  <2> SUFFICES ASSUME k + 1 <= n
               PROVE  SumFunctionOnSet(fun, (l + 1)..(l + (k + 1))) = g[1..(k + 1)]
    OBVIOUS
  <2>1. k + 1 \in 1..n /\ (k + 1) - 1 = k
    BY <1>1
  <2>2. g[1..(k + 1)] = g[1..k] + plan[k + 1].qty
    BY <1>2, <2>1 DEF SumTurns
  <2>3. SumFunctionOnSet(fun, (l + 1)..(l + k)) = g[1..k]
    BY <1>1, <1>9
  <2>4. PICK T, U, z : T = (l + 1)..(l + (k + 1)) /\ U = (l + 1)..(l + k) /\ z = l + (k + 1)
    OBVIOUS
  <2>5. z \in T /\ T \ {z} = U /\ IsFiniteSet(T) /\ \A x \in T : fun[x] \in Int
    <3>1. l + 1 \in Int /\ l + (k + 1) \in Int
      OBVIOUS
    <3>2. IsFiniteSet(T)
      BY <2>4, <3>1, FS_Interval
    <3>3. \A x \in T : x \in (l + 1)..(l + n)
      BY <1>1, <2>1, <2>4
    <3>4. z \in T /\ T \ {z} = U
      BY <2>4
    <3>5. QED
      BY <1>7, <3>2, <3>3, <3>4
  <2>5a. IsFiniteSet(U)
    BY <2>5, FS_RemoveElement
  <2>6. SumFunctionOnSet(fun, T) = fun[z] + SumFunctionOnSet(fun, U)
    BY <2>5, SumTakesAny
  <2>7. fun[z] = plan[k + 1].qty /\ fun[z] \in Int
    BY <1>6, <2>1, <2>4, <2>5
  <2>8. SumFunctionOnSet(fun, U) \in Int
    <3>1. \A x \in U : fun[x] \in Int
      BY <2>5
    <3>2. QED
      BY <2>5a, <3>1, SumIsInteger
  <2>9. QED
    BY <2>2, <2>3, <2>4, <2>6, <2>7, <2>8
<1>10. n \in good
  <2> HIDE DEF good
  <2>1. QED
    BY <1>1, <1>8, <1>9, EveryNatural
<1>11. SumFunctionOnSet(fun, S) = g[1..n]
  BY <1>1, <1>5, <1>10
<1>12. SumFunction(fun) = g[1..n]
  BY <1>6, <1>11, SumFunctionIsSum
<1>13. QED
  BY <1>2, <1>12 DEF SumTurns, fun

\* Counting never goes back, and a process that is gone stays gone.
LEMMA StepCounts ==
    ASSUME BooksInv, [Next]_vars
    PROVE  lastSeen' \in Nat /\ lastSeen' >= lastSeen /\ (~panicked' => ~panicked)
<1>0. lastSeen \in Nat
  BY DEF BooksInv
<1>1. CASE UNCHANGED vars
  BY <1>0, <1>1 DEF vars
<1>2. ASSUME NEW l, Consumed(l) PROVE lastSeen' \in Nat /\ lastSeen' >= lastSeen
  BY <1>0, <1>2 DEF Consumed, NextId
<1>3. ASSUME panicked' = TRUE, UNCHANGED lastSeen
      PROVE  lastSeen' \in Nat /\ lastSeen' >= lastSeen
  BY <1>0, <1>3
<1> DEFINE Done == Running /\ ((\E l : Consumed(l)) \/ (panicked' = TRUE /\ UNCHANGED lastSeen))
<1>4. ASSUME NEW account \in Accounts, NEW symbol \in Symbols, NEW form \in Forms,
             NEW reference \in ReferencesFor(form),
             New(Arrived(account, symbol, form), reference)
      PROVE  Done
  <2>1. PICK arrived : New(arrived, reference)
    BY <1>4
  <2>2. CASE RefuseEarly(arrived) \/ RefuseLate(arrived, reference)
    BY <2>2 DEF RefuseEarly, RefuseLate
  <2>3. CASE ApplyNew(arrived, reference)
    <3> DEFINE e == AfterRemainder(Bounded(arrived, reference), Execution(Bounded(arrived, reference)))
    <3>1. Running /\ (Panic \/ Consumed(e.ledger))
      BY <2>3 DEF ApplyNew
    <3> HIDE DEF e
    <3>2. QED
      BY <3>1 DEF Panic
  <2>4. QED
    BY <2>1, <2>2, <2>3 DEF New
<1>5. ASSUME NEW account \in Accounts, NEW target \in 1..lastSeen,
             \/ IgnoreCancel(account, target)
             \/ RefuseCancel(account, target)
             \/ ApplyCancel(account, target)
      PROVE  Done
  <2>1. CASE IgnoreCancel(account, target) \/ RefuseCancel(account, target)
    BY <2>1 DEF IgnoreCancel, RefuseCancel
  <2>2. CASE ApplyCancel(account, target)
    <3>1. Running /\ (Panic \/ Consumed(AfterRelease(ledger, target)))
      BY <2>2 DEF ApplyCancel
    <3>2. QED
      BY <3>1 DEF Panic
  <2>3. QED
    BY <1>5, <2>1, <2>2
<1>6. ASSUME NEW signer \in Signers,
             \/ IgnoreOperator(signer)
             \/ \E symbol \in Symbols, step \in Steps : ApplyListSymbol(signer, symbol, step)
             \/ \E symbol \in Symbols :
                   \/ ApplyDelistSymbol(signer, symbol)
                   \/ RefuseDelistSymbol(signer, symbol)
             \/ \E version \in Versions : ApplyEngineRule(signer, version)
      PROVE  Done
  <2>1. ASSUME NEW symbol \in Symbols, ApplyDelistSymbol(signer, symbol) PROVE Done
    BY <2>1 DEF ApplyDelistSymbol
  <2>2. CASE IgnoreOperator(signer)
    BY <2>2 DEF IgnoreOperator
  <2>3. ASSUME NEW symbol \in Symbols, NEW step \in Steps, ApplyListSymbol(signer, symbol, step)
        PROVE  Done
    BY <2>3 DEF ApplyListSymbol
  <2>4. ASSUME NEW symbol \in Symbols, RefuseDelistSymbol(signer, symbol) PROVE Done
    BY <2>4 DEF RefuseDelistSymbol
  <2>5. ASSUME NEW version \in Versions, ApplyEngineRule(signer, version) PROVE Done
    BY <2>5 DEF ApplyEngineRule
  <2> HIDE DEF Done
  <2>6. QED
    BY <1>6, <2>1, <2>2, <2>3, <2>4, <2>5
<1>7. CASE Next
  <2>1. Done
    <3> HIDE DEF Done
    <3>1. QED
      BY <1>4, <1>5, <1>6, <1>7 DEF Next
  <2>2. QED
    BY <1>2, <1>3, <2>1 DEF Running
<1>8. QED
  BY <1>1, <1>7

\* An order was admitted and executed.
OrderStep(o) ==
    /\ OrderFits(o)
    /\ o.id = NextId
    /\ SelfTradeChecked(o, BookOf(o.symbol), rules)
    /\ TradedBy(o, rows, rows', trades, trades')
    /\ ~panicked' => lastSeen' = o.id
    /\ IsStaged(o) =>
          /\ o.id \notin DOMAIN rows'
          /\ \E n : /\ PlanFits(PlanFills(BookOf(o.symbol), o), n)
                    /\ FillsPlan(trades, trades', PlanFills(BookOf(o.symbol), o), n)
                    /\ SumOf(PlanFills(BookOf(o.symbol), o)) = o.qty

LEMMA NewTradesOnly ==
    ASSUME ExchangeInv, NEW account \in Accounts, NEW symbol \in Symbols, NEW form \in Forms,
           NEW reference \in ReferencesFor(form),
           New(Arrived(account, symbol, form), reference)
    PROVE  \/ UNCHANGED <<trades, openOrders>>
           \/ \E o : OrderStep(o) /\ o.tif = form.tif /\ o.qty = form.qty
<1> DEFINE arrived == Arrived(account, symbol, form)
           o == Bounded(arrived, reference)
<1>1. CASE RefuseEarly(arrived) \/ RefuseLate(arrived, reference)
  BY <1>1 DEF RefuseEarly, RefuseLate, market
<1>2. CASE ApplyNew(arrived, reference)
  <2> DEFINE e == AfterRemainder(o, Execution(o))
  <2>1. AdmittedLate(o, arrived, reference) /\ ~panicked
    BY <1>2 DEF ApplyNew, Running
  <2>2. Panic \/ /\ trades' = e.trades /\ rows' = e.rows /\ openOrders' = e.openOrders
                 /\ Consumed(e.ledger) /\ e.stop # "panic"
    BY <1>2 DEF ApplyNew
  <2>3. /\ BooksInv /\ Sound(books, rows, openOrders) /\ trades \in Seq(Trade)
        /\ lastSeen \in Nat /\ RowsFit(rows)
    BY DEF ExchangeInv, BooksInv, MoneySound, Sound
  <2>4. /\ OrderFits(o) /\ FundsAndPlanFit(o) /\ SelfTradeChecked(o, BookOf(o.symbol), rules)
        /\ o.id = NextId /\ o.tif = form.tif /\ o.qty = form.qty
    <3>1. PriceBounded(arrived, reference)
      BY <2>1 DEF AdmittedLate
    <3>2. OrderFits(o) /\ o.id = NextId /\ o.tif = form.tif /\ o.qty = form.qty
      BY <2>3, <3>1, BoundedFits
    <3>3. QED
      BY <2>1, <3>2 DEF AdmittedLate
  <2>5. o.id \notin DOMAIN rows
    <3>1. \A id \in DOMAIN rows : id \in Nat /\ id <= lastSeen
      BY <2>1, <2>3 DEF BooksInv, RowsFit
    <3>2. QED
      BY <2>3, <2>4, <3>1 DEF NextId
  <2>6. CASE Panic
    BY <2>6 DEF Panic, market
  <2>7. CASE /\ trades' = e.trades /\ rows' = e.rows
             /\ Consumed(e.ledger) /\ e.stop # "panic"
    <3>1. PICK p, x : p = o /\ x = AfterRemainder(p, Execution(p))
      OBVIOUS
    <3>2. TradedBy(p, rows, x.rows, trades, x.trades) /\ WholePlan(p, trades, x)
      BY <2>3, <2>4, <2>5, <3>1, OrderTrades
    <3>3. /\ trades' = x.trades /\ rows' = x.rows /\ x.stop # "panic" /\ Consumed(x.ledger)
      BY <2>7, <3>1
    <3>4. /\ OrderFits(p) /\ FundsAndPlanFit(p) /\ SelfTradeChecked(p, BookOf(p.symbol), rules)
          /\ p.id = NextId /\ p.tif = form.tif /\ p.qty = form.qty
      BY <2>4, <3>1
    <3> HIDE DEF o, e, arrived
    <3>5. ~panicked' => lastSeen' = p.id
      BY <2>1, <2>3, <3>3, <3>4, ConsumedCounts
    <3>6. IsStaged(p) => SumOf(PlanFills(BookOf(p.symbol), p)) = p.qty
      BY <3>4 DEF FundsAndPlanFit
    <3>7. OrderStep(p)
      BY <3>2, <3>3, <3>4, <3>5, <3>6 DEF OrderStep, WholePlan
    <3>8. QED
      BY <3>4, <3>7
  <2>8. QED
    BY <2>2, <2>6, <2>7
<1>3. QED
  BY <1>1, <1>2 DEF New

LEMMA TradesByOrders ==
    ASSUME ExchangeInv, [Next]_vars
    PROVE  trades' = trades \/ \E o : OrderStep(o)
<1>1. CASE UNCHANGED vars
  BY <1>1 DEF vars, market
<1>2. ASSUME NEW account \in Accounts, NEW symbol \in Symbols, NEW form \in Forms,
             NEW reference \in ReferencesFor(form),
             New(Arrived(account, symbol, form), reference)
      PROVE  trades' = trades \/ \E o : OrderStep(o)
  BY <1>2, NewTradesOnly
<1>3. ASSUME NEW account \in Accounts, NEW target \in 1..lastSeen,
             \/ IgnoreCancel(account, target)
             \/ RefuseCancel(account, target)
             \/ ApplyCancel(account, target)
      PROVE  trades' = trades
  BY <1>3 DEF IgnoreCancel, RefuseCancel, ApplyCancel, Panic, market
<1>4. ASSUME NEW signer \in Signers,
             \/ IgnoreOperator(signer)
             \/ \E symbol \in Symbols, step \in Steps : ApplyListSymbol(signer, symbol, step)
             \/ \E symbol \in Symbols :
                   \/ ApplyDelistSymbol(signer, symbol)
                   \/ RefuseDelistSymbol(signer, symbol)
             \/ \E version \in Versions : ApplyEngineRule(signer, version)
      PROVE  trades' = trades
  BY <1>4 DEF IgnoreOperator, ApplyListSymbol, ApplyDelistSymbol, RefuseDelistSymbol,
              ApplyEngineRule, market
<1>5. QED
  BY <1>1, <1>2, <1>3, <1>4 DEF Next

\* A new trade of a step is the trade of the order the step executed.
LEMMA NewTradeIsOn ==
    ASSUME NEW o, TradedBy(o, rows, rows', trades, trades'), trades \in Seq(Trade),
           NEW i \in NewTrades
    PROVE  TradeOn(o, rows, trades'[i]) /\ FrontGone(rows, rows', trades'[i])
<1>1. DOMAIN trades = 1..Len(trades) /\ Len(trades) \in Nat
  OBVIOUS
<1>2. DOMAIN trades' = 1..Len(trades') /\ Len(trades') \in Nat
  BY DEF TradedBy, Grown
<1>3. i \in (Len(trades) + 1)..Len(trades')
  BY <1>1, <1>2 DEF NewTrades
<1>4. QED
  BY <1>3 DEF TradedBy

LEMMA StepKeepsPriority ==
    ASSUME ExchangeInv, ExchangeInv', [Next]_vars
    PROVE  \A i \in NewTrades :
              LET t == trades'[i]
                  earlier(r) == \/ Better(t.side, r.price, t.price)
                                \/ r.price = t.price /\ r.id < t.maker
              IN  \A r \in RestingIn(t.symbol) :
                     r.side # t.side /\ earlier(r) => r.id \notin DOMAIN openOrders'
<1> SUFFICES ASSUME NEW i \in NewTrades, NEW r \in RestingIn(trades'[i].symbol),
                    r.side # trades'[i].side,
                    \/ Better(trades'[i].side, r.price, trades'[i].price)
                    \/ r.price = trades'[i].price /\ r.id < trades'[i].maker
             PROVE  r.id \notin DOMAIN openOrders'
  OBVIOUS
<1>1. PICK t : t = trades'[i]
  OBVIOUS
<1>2. trades \in Seq(Trade) /\ Sound(books, rows, openOrders)
  BY DEF ExchangeInv, MoneySound, BooksInv
<1>3. PICK o : OrderStep(o)
  BY TradesByOrders DEF NewTrades
<1>4. TradeOn(o, rows, t) /\ FrontGone(rows, rows', t)
  BY <1>1, <1>2, <1>3, NewTradeIsOn DEF OrderStep
<1>5. t.symbol = o.symbol /\ t.side = o.side /\ o.side \in Sides /\ o.symbol \in Symbols
  BY <1>3, <1>4 DEF OrderStep, OrderFits, TradeOn
<1>6. /\ r.id \in DOMAIN rows /\ rows[r.id].symbol = o.symbol /\ rows[r.id].side = r.side
      /\ rows[r.id].price = r.price
  <2>1. BookOf(o.symbol) = BookAt(books, o.symbol)
    BY DEF BookOf, BookAt
  <2>2. BookFits(BookOf(o.symbol)) /\ Shows(BookOf(o.symbol), o.symbol, rows) /\ RowsFit(rows)
    BY <1>2, <1>5, <2>1, BookAtFits DEF Sound
  <2>3. r \in OrdersIn(BookOf(o.symbol))
    BY <1>1, <1>5 DEF RestingIn
  <2>4. QED
    BY <2>2, <2>3, OrdersByRow
<1>7. r.side = Facing(t.side)
  <2>1. rows[r.id] \in Row
    BY <1>2, <1>6 DEF Sound, RowsFit
  <2>2. r.side \in Sides /\ r.side # t.side
    BY <1>1, <1>6, <2>1 DEF Row
  <2>3. QED
    BY <1>5, <2>2 DEF Sides, Facing
<1>8. InFront(rows[r.id], r.id, t)
  BY <1>1, <1>5, <1>6, <1>7 DEF InFront
<1>9. r.id \notin DOMAIN rows'
  BY <1>4, <1>6, <1>8 DEF FrontGone
<1>10. DOMAIN openOrders' = DOMAIN rows'
  BY DEF ExchangeInv, BooksInv, Sound, IndexOf
<1>11. QED
  BY <1>9, <1>10

\* Every trade takes the best-priced and then oldest order that waited when its
\* message arrived: what came before the maker is gone when the message is done.
THEOREM TradesInOrder == Spec => PriceTimePriority
<1>1. ExchangeInv /\ [Next]_vars => ExchangeInv'
  BY StepKeepsBooks, StepKeepsMoney, StepKeepsGovernance, StepKeepsSteps DEF ExchangeInv
<1>2. ExchangeInv /\ [Next]_vars =>
        [\A i \in NewTrades :
              LET t == trades'[i]
                  earlier(r) == \/ Better(t.side, r.price, t.price)
                                \/ r.price = t.price /\ r.id < t.maker
              IN  \A r \in RestingIn(t.symbol) :
                     r.side # t.side /\ earlier(r) => r.id \notin DOMAIN openOrders']_vars
  BY <1>1, StepKeepsPriority
<1>3. QED
  BY <1>2, ExchangeInvHolds, PTL DEF PriceTimePriority, Spec

\* Nobody was the taker of a trade before its own message.
TakersSeen == ~panicked => \A i \in Traded : trades[i].taker <= lastSeen

LEMMA StepKeepsTakers ==
    ASSUME ExchangeInv, TakersSeen, [Next]_vars
    PROVE  TakersSeen'
<1>1. lastSeen \in Nat /\ lastSeen' \in Nat /\ lastSeen' >= lastSeen /\ (~panicked' => ~panicked)
  BY StepCounts DEF ExchangeInv, BooksInv
<1>2. trades \in Seq(Trade)
  BY DEF ExchangeInv, MoneySound
<1>3. \A i \in DOMAIN trades : trades[i].taker \in Nat
  <2>1. \A t \in Trade : t.taker \in Nat
    BY DEF Trade
  <2>2. QED
    BY <1>2, <2>1
<1>4. ASSUME ~panicked', NEW i \in DOMAIN trades' PROVE trades'[i].taker <= lastSeen'
  <2>1. \A j \in DOMAIN trades : trades[j].taker <= lastSeen'
    BY <1>1, <1>3, <1>4 DEF TakersSeen, Traded
  <2>2. CASE trades' = trades
    BY <1>4, <2>1, <2>2
  <2>3. CASE \E o : OrderStep(o)
    <3>1. PICK o : OrderStep(o)
      BY <2>3
    <3>2. Grown(trades, trades') /\ lastSeen' = o.id /\ TradedBy(o, rows, rows', trades, trades')
      BY <1>4, <3>1 DEF OrderStep, TradedBy
    <3>3. CASE i \in DOMAIN trades
      <4>1. trades'[i] = trades[i]
        BY <1>2, <3>2, <3>3 DEF Grown
      <4>2. QED
        BY <2>1, <3>3, <4>1
    <3>4. CASE i \notin DOMAIN trades
      <4>1. i \in NewTrades
        BY <1>4, <3>4 DEF NewTrades
      <4>2. trades'[i].taker = o.id
        BY <1>2, <3>2, <4>1, NewTradeIsOn DEF TradeOn
      <4>3. QED
        BY <1>1, <3>2, <4>2
    <3>5. QED
      BY <3>3, <3>4
  <2>4. QED
    BY <2>2, <2>3, TradesByOrders
<1>5. QED
  BY <1>4 DEF TakersSeen, Traded

LEMMA NobodyMeetsOneself ==
    ASSUME ExchangeInv, [Next]_vars
    PROVE  rules >= 2 => \A i \in NewTrades : trades'[i].makerAccount # trades'[i].takerAccount
<1> SUFFICES ASSUME rules >= 2, NEW i \in NewTrades,
                    trades'[i].makerAccount = trades'[i].takerAccount
             PROVE  FALSE
  OBVIOUS
<1>1. PICK t : t = trades'[i]
  OBVIOUS
<1>2. trades \in Seq(Trade) /\ Sound(books, rows, openOrders)
  BY DEF ExchangeInv, MoneySound, BooksInv
<1>3. PICK o : OrderStep(o)
  BY TradesByOrders DEF NewTrades
<1>4. TradeOn(o, rows, t)
  BY <1>1, <1>2, <1>3, NewTradeIsOn DEF OrderStep
<1>5. o.side \in Sides /\ o.symbol \in Symbols /\ ~OwnOrderInTheWay(o, BookOf(o.symbol))
  BY <1>3 DEF OrderStep, OrderFits, SelfTradeChecked, FromRuleSet
<1> DEFINE book == BookOf(o.symbol)
           side == Facing(o.side)
           row == rows[t.maker]
           entry == EntryOf(t.maker, row)
<1>6. /\ t.maker \in DOMAIN rows /\ row.symbol = o.symbol /\ row.side = side
      /\ row.price = t.price /\ row.account = o.account /\ Crosses(o.side, t.price, o.limit)
  BY <1>1, <1>4 DEF TradeOn
<1>7. BookFits(book) /\ Shows(book, o.symbol, rows) /\ RowsFit(rows)
  <2>1. book = BookAt(books, o.symbol)
    BY DEF BookOf, BookAt
  <2>2. QED
    BY <1>2, <1>5, <2>1, BookAtFits DEF Sound
<1>8. side \in Sides /\ t.price \in Cents
  BY <1>5, <1>6, <1>7, SidesOfBook DEF RowsFit, Row
<1>9. entry.account = o.account
  BY <1>6 DEF EntryOf
<1>10. entry \in ToSet(Level(book, side, t.price))
  <2>1. entry \in EntriesAt(rows, o.symbol, side, t.price)
    BY <1>6, <1>7, EntriesByRow
  <2>2. QED
    BY <1>7, <1>8, <2>1 DEF Shows
<1> HIDE DEF book, entry, row
<1>11. QueueFits(Level(book, side, t.price))
  BY <1>7, <1>8, SidesOfBook
<1>12. PICK k \in 1..Len(Level(book, side, t.price)) : entry = Level(book, side, t.price)[k]
  BY <1>10, <1>11, EntriesOfQueue
<1>13. t.price \in DOMAIN book[side] /\ book[side][t.price] = Level(book, side, t.price)
  <2>1. Level(book, side, t.price) # <<>>
    BY <1>12
  <2>2. QED
    BY <1>7, <1>8, <2>1, SidesOfBook
<1>14. t.price \in CrossingPrices(book, o, o.limit)
  BY <1>6, <1>13 DEF CrossingPrices
<1>15. k \in DOMAIN book[side][t.price] /\ book[side][t.price][k].account = o.account
  <2>1. DOMAIN Level(book, side, t.price) = 1..Len(Level(book, side, t.price))
    BY <1>11 DEF QueueFits
  <2>2. QED
    BY <1>9, <1>12, <1>13, <2>1
<1>16. OwnOrderInTheWay(o, book)
  BY <1>14, <1>15 DEF OwnOrderInTheWay
<1>17. QED
  BY <1>5, <1>16 DEF book

LEMMA NothingFilled ==
    ASSUME NEW now, NEW id, \A i \in DOMAIN now : now[i].taker # id
    PROVE  SumFunction(QtyOfTrade(now, id)) = 0
<1>1. DOMAIN QtyOfTrade(now, id) = {}
  BY DEF QtyOfTrade, TradesOf
<1>2. QED
  BY <1>1, SumFunctionIsSum, SumOfNothing

LEMMA FilledByIsSum ==
    ASSUME NEW id PROVE FilledBy(id) = SumFunction(QtyOfTrade(trades', id))
BY DEF FilledBy, SumOver, QtyOfTrade, TradesOf

LEMMA AllOrNothing ==
    ASSUME ExchangeInv, TakersSeen, ExchangeInv', NEW account \in Accounts, NEW symbol \in Symbols,
           NEW form \in Forms, form.tif = "FOK", NEW reference \in ReferencesFor(form),
           New(Arrived(account, symbol, form), reference)
    PROVE  ~FilledInPart(NextId, form.qty)
<1>1. ~panicked
  BY DEF New, RefuseEarly, RefuseLate, ApplyNew, Running
<1>2. /\ trades \in Seq(Trade) /\ lastSeen \in Nat /\ RowsFit(rows)
      /\ DOMAIN openOrders = DOMAIN rows
      /\ \A id \in DOMAIN rows : id \in Nat /\ id <= lastSeen
  BY <1>1 DEF ExchangeInv, MoneySound, BooksInv, Sound, RowsFit, IndexOf
<1>3. \A i \in DOMAIN trades : trades[i].taker # NextId
  <2>1. \A t \in Trade : t.taker \in Nat
    BY DEF Trade
  <2>2. \A i \in DOMAIN trades : trades[i].taker \in Nat /\ trades[i].taker <= lastSeen
    BY <1>1, <1>2, <2>1 DEF TakersSeen, Traded
  <2>3. QED
    BY <1>2, <2>2 DEF NextId
<1>4. form.qty \in Nat
  BY ExchangeInputs
<1>5. CASE UNCHANGED <<trades, openOrders>>
  <2>1. NextId \notin DOMAIN openOrders'
    BY <1>2, <1>5 DEF NextId
  <2>2. FilledBy(NextId) = 0
    <3>1. PICK now, id : now = trades' /\ id = NextId
      OBVIOUS
    <3>2. SumFunction(QtyOfTrade(now, id)) = 0
      BY <1>3, <1>5, <3>1, NothingFilled
    <3>3. QED
      BY <3>1, <3>2, FilledByIsSum
  <2>3. QED
    BY <2>1, <2>2 DEF FilledInPart
<1>6. CASE \E o : OrderStep(o) /\ o.tif = form.tif /\ o.qty = form.qty
  <2>1. PICK o : OrderStep(o) /\ o.tif = "FOK" /\ o.qty = form.qty
    BY <1>6
  <2>2. IsStaged(o) /\ o.id = NextId
    BY <2>1 DEF IsStaged, OrderStep
  <2>3. NextId \notin DOMAIN openOrders'
    <3>1. DOMAIN openOrders' = DOMAIN rows'
      BY DEF ExchangeInv, BooksInv, Sound, IndexOf
    <3>2. QED
      BY <2>1, <2>2, <3>1 DEF OrderStep
  <2>4. PICK plan : plan = PlanFills(BookOf(o.symbol), o)
    OBVIOUS
  <2>5. PICK n : PlanFits(plan, n) /\ FillsPlan(trades, trades', plan, n) /\ SumOf(plan) = o.qty
    BY <2>1, <2>2, <2>4 DEF OrderStep
  <2>6. PICK now : now = trades'
    OBVIOUS
  <2>7. /\ Grown(trades, now) /\ \A i \in 1..Len(trades) : trades[i].taker # o.id
        /\ \A i \in (Len(trades) + 1)..Len(now) : now[i].taker = o.id
    <3>1. TradedBy(o, rows, rows', trades, now)
      BY <2>1, <2>6 DEF OrderStep
    <3>2. \A i \in (Len(trades) + 1)..Len(now) : now[i].taker = o.id
      BY <3>1 DEF TradedBy, TradeOn
    <3>3. \A i \in 1..Len(trades) : trades[i].taker # o.id
      BY <1>2, <1>3, <2>2
    <3>4. QED
      BY <3>1, <3>2, <3>3 DEF TradedBy
  <2>8. SumFunction(QtyOfTrade(now, o.id)) = o.qty
    BY <1>2, <2>5, <2>6, <2>7, PlanAddsUp
  <2>9. FilledBy(NextId) = form.qty
    BY <2>1, <2>2, <2>6, <2>8, FilledByIsSum
  <2>10. QED
    BY <1>4, <2>3, <2>9 DEF FilledInPart
<1>7. QED
  BY <1>5, <1>6, NewTradesOnly

\* A fill-or-kill order trades its whole quantity or nothing, and never rests;
\* and under rule set 2 no account trades with itself, wherever on the crossing
\* levels its own order waits.
THEOREM OrdersTradeAsAsked == Spec => OrdersGetTheirTerms
<1>1. Init => ExchangeInv /\ TakersSeen
  <2>1. Init => RowsOnStep(rows)
    BY DEF Init, EmptyMap, RowsOnStep
  <2>2. Init => TakersSeen
    BY DEF Init, TakersSeen, Traded
  <2>3. QED
    BY <2>1, <2>2, InitIsSound, InitIsFlat, InitIsGoverned DEF ExchangeInv
<1>2. ExchangeInv /\ [Next]_vars => ExchangeInv'
  BY StepKeepsBooks, StepKeepsMoney, StepKeepsGovernance, StepKeepsSteps DEF ExchangeInv
<1>3. ExchangeInv /\ TakersSeen /\ [Next]_vars => TakersSeen'
  BY StepKeepsTakers
<1>4. ExchangeInv /\ TakersSeen /\ [Next]_vars =>
        [\A account \in Accounts, symbol \in Symbols :
          \A form \in {f \in Forms : f.tif = "FOK"} : \A reference \in ReferencesFor(form) :
             FilledInPart(NextId, form.qty) =>
                ~New(Arrived(account, symbol, form), reference)]_vars
  BY <1>2, AllOrNothing
<1>5. ExchangeInv /\ [Next]_vars =>
        [rules >= 2 => \A i \in NewTrades :
            trades'[i].makerAccount # trades'[i].takerAccount]_vars
  BY NobodyMeetsOneself
<1>6. Spec => FillOrKillIsAllOrNothing
  BY <1>1, <1>2, <1>3, <1>4, PTL DEF FillOrKillIsAllOrNothing, Spec
<1>7. Spec => NoSelfTradeUnderRuleTwo
  BY <1>5, ExchangeInvHolds, PTL DEF NoSelfTradeUnderRuleTwo, Spec
<1>8. QED
  BY <1>6, <1>7 DEF OrdersGetTheirTerms

-----------------------------------------------------------------------------
(* A plan, and what is left of it after its first fill. *)

\* The spots of a book, by the queues of the facing side.
LEMMA SpotsByLevel ==
    ASSUME NEW book, BookFits(book), NEW o, OrderFits(o)
    PROVE  /\ \A x \in Spots(book, o) :
                 /\ x = <<x[1], x[2]>> /\ x[1] \in Cents
                 /\ Crosses(o.side, x[1], o.limit)
                 /\ x[2] \in 1..Len(Level(book, Facing(o.side), x[1]))
                 /\ WaitingAt(book, o, x) = Level(book, Facing(o.side), x[1])[x[2]]
           /\ \A p, i : /\ Crosses(o.side, p, o.limit)
                        /\ i \in 1..Len(Level(book, Facing(o.side), p))
                        => <<p, i>> \in Spots(book, o)
<1> DEFINE side == book[Facing(o.side)]
           S == CrossingPrices(book, o, o.limit)
<1>1. /\ \A p : QueueFits(Level(book, Facing(o.side), p))
      /\ \A p : p \in DOMAIN side <=> Level(book, Facing(o.side), p) # <<>>
      /\ \A p \in DOMAIN side : p \in Cents /\ side[p] = Level(book, Facing(o.side), p)
  <2>1. Facing(o.side) \in Sides
    BY SidesOfBook DEF OrderFits
  <2>2. QED
    BY <2>1, SidesOfBook
<1>2. \A p : p \in S <=> p \in DOMAIN side /\ Crosses(o.side, p, o.limit)
  BY DEF CrossingPrices
<1>3. \A p \in DOMAIN side : DOMAIN side[p] = 1..Len(side[p])
  BY <1>1 DEF QueueFits
<1>4. \A x : x \in Spots(book, o) <=> \E p \in S : \E i \in DOMAIN side[p] : x = <<p, i>>
  BY DEF Spots
<1>5. \A x : WaitingAt(book, o, x) = side[x[1]][x[2]]
  BY DEF WaitingAt
<1> HIDE DEF side, S
<1>6. ASSUME NEW x \in Spots(book, o)
      PROVE  /\ x = <<x[1], x[2]>> /\ x[1] \in Cents
             /\ Crosses(o.side, x[1], o.limit)
             /\ x[2] \in 1..Len(Level(book, Facing(o.side), x[1]))
             /\ WaitingAt(book, o, x) = Level(book, Facing(o.side), x[1])[x[2]]
  <2>1. PICK p \in S : \E i \in DOMAIN side[p] : x = <<p, i>>
    BY <1>4
  <2>2. PICK i \in DOMAIN side[p] : x = <<p, i>>
    BY <2>1
  <2>3. x[1] = p /\ x[2] = i /\ x = <<x[1], x[2]>>
    BY <2>2
  <2>4. p \in DOMAIN side /\ Crosses(o.side, p, o.limit)
    BY <1>2
  <2>5. p \in Cents /\ side[p] = Level(book, Facing(o.side), p) /\ i \in 1..Len(side[p])
    BY <1>1, <1>3, <2>2, <2>4
  <2>6. QED
    BY <1>5, <2>3, <2>4, <2>5
<1>7. ASSUME NEW p, NEW i, Crosses(o.side, p, o.limit),
             i \in 1..Len(Level(book, Facing(o.side), p))
      PROVE  <<p, i>> \in Spots(book, o)
  <2>1. Level(book, Facing(o.side), p) # <<>>
    BY <1>7
  <2>2. p \in DOMAIN side /\ side[p] = Level(book, Facing(o.side), p)
    BY <1>1, <2>1
  <2>3. p \in S /\ i \in DOMAIN side[p]
    BY <1>2, <1>3, <1>7, <2>2
  <2>4. QED
    BY <1>4, <2>3
<1>8. QED
  BY <1>6, <1>7

\* What waits ahead of a spot is a sum over the spots ahead of it.
LEMMA QuantityAheadIsSum ==
    ASSUME NEW book, BookFits(book), NEW o, OrderFits(o), NEW x
    PROVE  /\ Ahead(book, o, x) \subseteq Spots(book, o)
           /\ IsFiniteSet(Ahead(book, o, x))
           /\ \A y \in Ahead(book, o, x) :
                 QtyAt(book, o)[y] = WaitingAt(book, o, y).qty /\ QtyAt(book, o)[y] \in Nat
           /\ QuantityAhead(book, o, x) = SumFunctionOnSet(QtyAt(book, o), Ahead(book, o, x))
<1> DEFINE A == Ahead(book, o, x)
           gun == [y \in A |-> WaitingAt(book, o, y).qty]
           fun == QtyAt(book, o)
<1>1. A \subseteq Spots(book, o)
  BY DEF Ahead
<1>2. IsFiniteSet(A)
  BY <1>1, SpotsFit, FS_Subset
<1>3. \A y \in A : fun[y] = WaitingAt(book, o, y).qty /\ fun[y] \in Nat /\ gun[y] = fun[y]
  BY <1>1, SpotsFit DEF QtyAt
<1>4. QuantityAhead(book, o, x) = SumFunctionOnSet(gun, A)
  BY SumFunctionIsSum DEF QuantityAhead
<1> HIDE DEF gun, A, fun
<1>5. SumFunctionOnSet(gun, A) = SumFunctionOnSet(fun, A)
  BY <1>2, <1>3, SumOfSame
<1>6. QED
  BY <1>1, <1>2, <1>3, <1>4, <1>5 DEF A, fun

\* The spot the next fill takes, and that nothing waits ahead of it.
FirstSpot(book, o) == <<BestFacing(book, o), 1>>
FirstIn(book, o) == WaitingAt(book, o, FirstSpot(book, o))

\* The best level of the facing side, its oldest entry: nothing is sooner.
LEMMA FirstSpotLeads ==
    ASSUME NEW book, BookFits(book), NEW o, OrderFits(o), HasNextFill(book, o)
    PROVE  /\ FirstSpot(book, o) \in Spots(book, o)
           /\ Ahead(book, o, FirstSpot(book, o)) = {}
           /\ QuantityAhead(book, o, FirstSpot(book, o)) = 0
           /\ \A x \in Spots(book, o) : x = FirstSpot(book, o) \/ Sooner(o, FirstSpot(book, o), x)
           /\ FirstIn(book, o) \in Entry
           /\ FirstIn(book, o) = Head(book[Facing(o.side)][BestFacing(book, o)])
<1> DEFINE b == BestFacing(book, o)
           q == book[Facing(o.side)][b]
           first == FirstSpot(book, o)
<1>1. o.side \in Sides /\ DOMAIN book[Facing(o.side)] # {} /\ Crosses(o.side, b, o.limit)
  BY DEF OrderFits, HasNextFill
<1>2. /\ b \in DOMAIN book[Facing(o.side)] /\ b \in Cents
      /\ \A p \in DOMAIN book[Facing(o.side)] : b = p \/ Better(o.side, b, p)
  BY <1>1, BestPrice
<1>3. QueueFits(q) /\ q # <<>> /\ q = Level(book, Facing(o.side), b)
  <2>1. SideFits(book[Facing(o.side)])
    BY <1>1, SidesOfBook
  <2>2. q = Level(book, Facing(o.side), b)
    BY <1>2 DEF Level
  <2> HIDE DEF b
  <2>3. QED
    BY <1>2, <2>1, <2>2 DEF SideFits
<1> HIDE DEF q
<1>4. 1 \in 1..Len(q) /\ Head(q) = q[1] /\ q[1] \in Entry
  BY <1>3, TailFits, EntriesOfQueue
<1>5. first = <<b, 1>>
  BY DEF FirstSpot
<1>6. first \in Spots(book, o)
  BY <1>1, <1>3, <1>4, <1>5, SpotsByLevel
<1>7. WaitingAt(book, o, first) = Head(q)
  <2>1. WaitingAt(book, o, first) = Level(book, Facing(o.side), first[1])[first[2]]
    BY <1>6, SpotsByLevel
  <2>2. first[1] = b /\ first[2] = 1
    BY <1>5
  <2>3. QED
    BY <1>3, <1>4, <2>1, <2>2
<1>8. ASSUME NEW x \in Spots(book, o) PROVE x = first \/ Sooner(o, first, x)
  <2>1. /\ x = <<x[1], x[2]>>
        /\ x[2] \in 1..Len(Level(book, Facing(o.side), x[1]))
    BY SpotsByLevel
  <2>2. x[1] \in DOMAIN book[Facing(o.side)]
    <3>1. Level(book, Facing(o.side), x[1]) # <<>>
      BY <2>1
    <3>2. QED
      BY <3>1 DEF Level
  <2>3. b = x[1] \/ Better(o.side, b, x[1])
    BY <1>2, <2>2
  <2>4. first[1] = b /\ first[2] = 1
    BY <1>5
  <2>5. CASE Better(o.side, b, x[1])
    BY <2>4, <2>5 DEF Sooner
  <2>6. CASE b = x[1]
    <3>1. Len(Level(book, Facing(o.side), x[1])) \in Nat
      BY <1>3, <2>6, EntriesOfQueue
    <3>2. x[2] = 1 \/ 1 < x[2]
      BY <2>1, <3>1
    <3>3. x[2] = 1 => x = first
      BY <1>5, <2>1, <2>6
    <3>4. QED
      BY <2>4, <2>6, <3>2, <3>3 DEF Sooner
  <2>7. QED
    BY <2>3, <2>5, <2>6
<1>9. Ahead(book, o, first) = {}
  <2>1. StrictOrder(SoonerThan(book, o), Spots(book, o))
        /\ \A x, y \in Spots(book, o) : <<x, y>> \in SoonerThan(book, o) <=> Sooner(o, x, y)
    BY SpotsInOrder
  <2>2. ASSUME NEW x \in Spots(book, o), Sooner(o, x, first) PROVE FALSE
    <3>1. x = first \/ <<first, x>> \in SoonerThan(book, o)
      BY <1>6, <1>8, <2>1
    <3>2. <<x, first>> \in SoonerThan(book, o)
      BY <1>6, <2>1, <2>2
    <3>3. <<first, first>> \in SoonerThan(book, o)
      BY <1>6, <2>1, <3>1, <3>2 DEF StrictOrder
    <3>4. QED
      BY <1>6, <2>1, <3>3 DEF StrictOrder
  <2> HIDE DEF first
  <2>3. QED
    BY <2>2 DEF Ahead
<1>10. QuantityAhead(book, o, first) = 0
  BY <1>9, QuantityAheadIsSum, SumOfNothing
<1>11. QED
  BY <1>4, <1>6, <1>7, <1>8, <1>9, <1>10 DEF FirstIn, q

\* Nothing crosses: the plan is empty.
LEMMA NothingPlanned ==
    ASSUME NEW book, BookFits(book), NEW o, OrderFits(o), ~HasNextFill(book, o),
           NEW n, PlanByRank(book, o, n)
    PROVE  n = 0
<1>1. ASSUME NEW x \in Spots(book, o) PROVE FALSE
  <2>1. /\ x[1] \in Cents /\ Crosses(o.side, x[1], o.limit)
        /\ x[2] \in 1..Len(Level(book, Facing(o.side), x[1]))
    BY SpotsByLevel
  <2>2. x[1] \in DOMAIN book[Facing(o.side)]
    <3>1. Level(book, Facing(o.side), x[1]) # <<>>
      BY <2>1
    <3>2. QED
      BY <3>1 DEF Level
  <2>3. o.side \in Sides /\ DOMAIN book[Facing(o.side)] # {}
    BY <2>2 DEF OrderFits
  <2> DEFINE b == BestFacing(book, o)
  <2>4. /\ b \in Cents
        /\ b = x[1] \/ Better(o.side, b, x[1])
    BY <2>2, <2>3, BestPrice
  <2>5. Crosses(o.side, b, o.limit)
    <3> HIDE DEF b
    <3>1. x[1] \in Int /\ b \in Int /\ o.limit \in Int
      BY <2>1, <2>4 DEF Cents, OrderFits
    <3>2. CASE o.side = "buy"
      BY <2>1, <2>4, <3>1, <3>2 DEF Crosses, Better
    <3>3. CASE o.side = "sell"
      BY <2>1, <2>4, <3>1, <3>3 DEF Crosses, Better
    <3>4. QED
      BY <2>3, <3>2, <3>3 DEF Sides
  <2>6. QED
    BY <2>3, <2>5 DEF HasNextFill
<1>2. Touched(book, o) = {}
  BY <1>1 DEF Touched
<1>3. QED
  BY <1>2, FS_EmptySet DEF PlanByRank

\* The plan's first fill is the next fill.
LEMMA FirstPlanned ==
    ASSUME NEW book, BookFits(book), NEW o, OrderFits(o), HasNextFill(book, o),
           NEW n, PlanByRank(book, o, n)
    PROVE  /\ FirstSpot(book, o) \in Touched(book, o)
           /\ 1 \in 1..n
           /\ SpotOf(book, o, 1) = FirstSpot(book, o)
           /\ PlanFills(book, o)[1] = NextFill(book, o, o.qty)
<1> DEFINE first == FirstSpot(book, o)
           T == Touched(book, o)
           h == Head(book[Facing(o.side)][BestFacing(book, o)])
           f == NextFill(book, o, o.qty)
<1>1. /\ first \in Spots(book, o) /\ QuantityAhead(book, o, first) = 0
      /\ Ahead(book, o, first) = {} /\ WaitingAt(book, o, first) = h
      /\ \A x \in Spots(book, o) : x = first \/ Sooner(o, first, x)
  BY FirstSpotLeads DEF FirstIn
<1>2. o.qty \in Tenths
  BY DEF OrderFits
<1>3. first \in T
  BY <1>1, <1>2 DEF Touched, Tenths
<1>4. n \in Nat /\ n = Cardinality(T) /\ IsFiniteSet(T)
  BY DEF PlanByRank
<1>5. 1 \in 1..n
  <2>1. n # 0
    BY <1>3, <1>4, FS_EmptySet
  <2>2. QED
    BY <1>4, <2>1
<1>6. SpotOf(book, o, 1) \in T /\ Cardinality(Ahead(book, o, SpotOf(book, o, 1))) = 0
  BY <1>5 DEF PlanByRank
<1>7. SpotOf(book, o, 1) = first
  <2> DEFINE x == SpotOf(book, o, 1)
  <2>1. x \in Spots(book, o)
    BY <1>6 DEF Touched
  <2>2. IsFiniteSet(Ahead(book, o, x))
    BY QuantityAheadIsSum
  <2>3. Ahead(book, o, x) = {}
    BY <1>6, <2>2, FS_EmptySet
  <2> HIDE DEF x, first
  <2>4. ~Sooner(o, first, x)
    BY <1>1, <2>3 DEF Ahead
  <2>5. QED
    BY <1>1, <2>1, <2>4 DEF x
<1>8. PlanFills(book, o)[1] = Planned(book, o, first)
  BY <1>5, <1>7 DEF PlanByRank
<1>9. /\ TakesFront(book, o, f) /\ f.price = BestFacing(book, o)
      /\ f.qty = IF o.qty <= MakerFor(book, o, f).qty THEN o.qty ELSE MakerFor(book, o, f).qty
  BY <1>2, NextFillTakesFront
<1>10. MakerFor(book, o, f) = h
  BY <1>9 DEF MakerFor
<1>11. h.qty \in Tenths
  BY <1>9, <1>10 DEF TakesFront, Entry
<1>12. f = [maker |-> f.maker, account |-> f.account, price |-> f.price, qty |-> f.qty]
  BY DEF NextFill
<1>13. first[1] = BestFacing(book, o)
  BY DEF FirstSpot
<1>14. Planned(book, o, first)
         = [maker |-> h.id, account |-> h.account, price |-> BestFacing(book, o),
            qty |-> IF h.qty <= o.qty - 0 THEN h.qty ELSE o.qty - 0]
  BY <1>1, <1>13 DEF Planned
<1>15. f.maker = h.id /\ f.account = h.account
  BY <1>9, <1>10 DEF TakesFront
<1>16. f.qty = IF h.qty <= o.qty - 0 THEN h.qty ELSE o.qty - 0
  <2> HIDE DEF f, h
  <2>1. f.qty = IF o.qty <= h.qty THEN o.qty ELSE h.qty
    BY <1>9, <1>10
  <2>2. o.qty \in Int /\ h.qty \in Int
    BY <1>2, <1>11 DEF Tenths
  <2>3. QED
    BY <2>1, <2>2
<1>17. Planned(book, o, first) = f
  <2> HIDE DEF f, h, first
  <2>1. QED
    BY <1>9, <1>12, <1>14, <1>15, <1>16
<1>18. QED
  BY <1>3, <1>5, <1>7, <1>8, <1>17

\* The first maker can fill the whole order: there is no other fill.
LEMMA OneFillPlanned ==
    ASSUME NEW book, BookFits(book), NEW o, OrderFits(o), HasNextFill(book, o),
           o.qty <= FirstIn(book, o).qty, NEW n, PlanByRank(book, o, n)
    PROVE  n = 1
<1> DEFINE first == FirstSpot(book, o)
<1>1. /\ first \in Spots(book, o)
      /\ \A x \in Spots(book, o) : x = first \/ Sooner(o, first, x)
      /\ first \in Touched(book, o)
  BY FirstSpotLeads, FirstPlanned
<1>2. ASSUME NEW x \in Touched(book, o), x # first PROVE FALSE
  <2>1. x \in Spots(book, o) /\ QuantityAhead(book, o, x) < o.qty
    BY DEF Touched
  <2>2. first \in Ahead(book, o, x)
    BY <1>1, <1>2, <2>1 DEF Ahead
  <2> DEFINE fun == QtyAt(book, o)
             A == Ahead(book, o, x)
  <2>3. /\ IsFiniteSet(A) /\ \A y \in A : fun[y] = WaitingAt(book, o, y).qty /\ fun[y] \in Nat
        /\ QuantityAhead(book, o, x) = SumFunctionOnSet(fun, A)
    BY QuantityAheadIsSum
  <2> HIDE DEF fun, A
  <2>4. fun[first] <= SumFunctionOnSet(fun, A) /\ SumFunctionOnSet(fun, A) \in Nat
    BY <2>2, <2>3, SumBoundsEach DEF A
  <2>5. fun[first] = FirstIn(book, o).qty /\ fun[first] \in Nat
    BY <2>2, <2>3 DEF FirstIn, A
  <2>6. o.qty \in Int
    BY DEF OrderFits, Tenths
  <2>7. QED
    BY <2>1, <2>3, <2>4, <2>5, <2>6
<1>3. Touched(book, o) = {first}
  BY <1>1, <1>2
<1> HIDE DEF first
<1>4. QED
  BY <1>3, FS_Singleton DEF PlanByRank

\* Once the first maker is gone, its queue moves up by one: where each spot
\* of the new book was before.
Shifted(b, x) == <<x[1], IF x[1] = b THEN x[2] + 1 ELSE x[2]>>

\* The book without the entry the first fill takes.
FirstGone(new, book, o) ==
    \A p : Level(new, Facing(o.side), p)
              = IF p = BestFacing(book, o) THEN Tail(Level(book, Facing(o.side), p))
                ELSE Level(book, Facing(o.side), p)

\* The other spots are those of the new book, in the same order.
SpotsMoveUp(new, m, book, o) ==
    LET b == BestFacing(book, o)
    IN  /\ \A x \in Spots(new, m) : /\ Shifted(b, x) \in Spots(book, o)
                                    /\ Shifted(b, x) # FirstSpot(book, o)
                                    /\ WaitingAt(new, m, x) = WaitingAt(book, o, Shifted(b, x))
        /\ \A x, y \in Spots(new, m) :
              /\ Shifted(b, x) = Shifted(b, y) => x = y
              /\ Sooner(m, x, y) <=> Sooner(o, Shifted(b, x), Shifted(b, y))
        /\ \A z \in Spots(book, o) : z # FirstSpot(book, o) =>
              \E x \in Spots(new, m) : z = Shifted(b, x)

\* Once the first entry is gone, every other spot is one of the new book.
LEMMA SpotsShift ==
    ASSUME NEW book, BookFits(book), NEW o, OrderFits(o), HasNextFill(book, o),
           NEW new, BookFits(new), FirstGone(new, book, o),
           NEW m, OrderFits(m), m.side = o.side, m.limit = o.limit
    PROVE  SpotsMoveUp(new, m, book, o)
<1> DEFINE b == BestFacing(book, o)
           first == FirstSpot(book, o)
           old(p) == Level(book, Facing(o.side), p)
           now(p) == Level(new, Facing(o.side), p)
<1>1. /\ \A x \in Spots(book, o) :
            /\ x = <<x[1], x[2]>> /\ x[1] \in Cents /\ Crosses(o.side, x[1], o.limit)
            /\ x[2] \in 1..Len(old(x[1])) /\ WaitingAt(book, o, x) = old(x[1])[x[2]]
      /\ \A p, i : Crosses(o.side, p, o.limit) /\ i \in 1..Len(old(p))
                   => <<p, i>> \in Spots(book, o)
  BY SpotsByLevel
<1>2. /\ \A x \in Spots(new, m) :
            /\ x = <<x[1], x[2]>> /\ x[1] \in Cents /\ Crosses(o.side, x[1], o.limit)
            /\ x[2] \in 1..Len(now(x[1])) /\ WaitingAt(new, m, x) = now(x[1])[x[2]]
      /\ \A p, i : Crosses(o.side, p, o.limit) /\ i \in 1..Len(now(p))
                   => <<p, i>> \in Spots(new, m)
  BY SpotsByLevel
<1>3. first \in Spots(book, o) /\ first = <<b, 1>>
  BY FirstSpotLeads DEF FirstSpot
<1>4. \A p : QueueFits(old(p)) /\ Len(old(p)) \in Nat
  <2>1. Facing(o.side) \in Sides
    BY SidesOfBook DEF OrderFits
  <2>2. QED
    BY <2>1, SidesOfBook, EntriesOfQueue
<1>5. old(b) # <<>> /\ old(b) \in Seq(Entry)
  <2>1. 1 \in 1..Len(old(b))
    BY <1>1, <1>3
  <2>2. QED
    BY <1>4, <2>1 DEF QueueFits
<1>6. /\ Len(now(b)) = Len(old(b)) - 1
      /\ \A i \in 1..Len(now(b)) : now(b)[i] = old(b)[i + 1]
  <2>1. now(b) = Tail(old(b))
    BY DEF FirstGone
  <2> HIDE DEF now, old, b
  <2>2. QED
    BY <1>5, <2>1
<1>7. \A p : p # b => now(p) = old(p)
  BY DEF FirstGone
<1> HIDE DEF now, old, b, first
<1>8. ASSUME NEW x \in Spots(new, m)
      PROVE  /\ Shifted(b, x) \in Spots(book, o) /\ Shifted(b, x) # first
             /\ WaitingAt(new, m, x) = WaitingAt(book, o, Shifted(b, x))
  <2>1. /\ x = <<x[1], x[2]>> /\ Crosses(o.side, x[1], o.limit) /\ x[2] \in 1..Len(now(x[1]))
        /\ WaitingAt(new, m, x) = now(x[1])[x[2]]
    BY <1>2
  <2>2. CASE x[1] = b
    <3>1. x[2] + 1 \in 1..Len(old(b)) /\ now(b)[x[2]] = old(b)[x[2] + 1] /\ x[2] + 1 # 1
      BY <1>4, <1>6, <2>1, <2>2
    <3>2. Shifted(b, x) = <<b, x[2] + 1>>
      BY <2>2 DEF Shifted
    <3>3. Shifted(b, x) \in Spots(book, o) /\ Shifted(b, x) # first
      BY <1>1, <1>3, <2>1, <2>2, <3>1, <3>2
    <3>4. WaitingAt(book, o, Shifted(b, x)) = old(b)[x[2] + 1]
      BY <1>1, <3>2, <3>3
    <3>5. QED
      BY <2>1, <2>2, <3>1, <3>3, <3>4
  <2>3. CASE x[1] # b
    <3>1. Shifted(b, x) = x /\ now(x[1]) = old(x[1])
      BY <1>7, <2>1, <2>3 DEF Shifted
    <3>2. x \in Spots(book, o) /\ x # first
      BY <1>1, <1>3, <2>1, <2>3, <3>1
    <3>3. QED
      BY <1>1, <2>1, <3>1, <3>2
  <2>4. QED
    BY <2>2, <2>3
<1>9. ASSUME NEW x \in Spots(new, m), NEW y \in Spots(new, m)
      PROVE  /\ Shifted(b, x) = Shifted(b, y) => x = y
             /\ Sooner(m, x, y) <=> Sooner(o, Shifted(b, x), Shifted(b, y))
  <2>1. /\ x = <<x[1], x[2]>> /\ y = <<y[1], y[2]>> /\ x[2] \in Int /\ y[2] \in Int
        /\ x[1] \in Int /\ y[1] \in Int
    BY <1>2, <1>4, <1>6, <1>7 DEF Cents
  <2>2. /\ Shifted(b, x)[1] = x[1] /\ Shifted(b, y)[1] = y[1]
        /\ Shifted(b, x)[2] = IF x[1] = b THEN x[2] + 1 ELSE x[2]
        /\ Shifted(b, y)[2] = IF y[1] = b THEN y[2] + 1 ELSE y[2]
    BY DEF Shifted
  <2>3. ASSUME Shifted(b, x) = Shifted(b, y) PROVE x = y
    <3>1. x[1] = y[1] /\ (IF x[1] = b THEN x[2] + 1 ELSE x[2]) = (IF y[1] = b THEN y[2] + 1 ELSE y[2])
      BY <2>2, <2>3
    <3>2. x[2] = y[2]
      BY <2>1, <3>1
    <3>3. QED
      BY <2>1, <3>1, <3>2
  <2>4. Sooner(m, x, y) <=> Better(o.side, x[1], y[1]) \/ (x[1] = y[1] /\ x[2] < y[2])
    BY DEF Sooner
  <2>5. Sooner(o, Shifted(b, x), Shifted(b, y))
          <=> Better(o.side, x[1], y[1]) \/ (x[1] = y[1] /\ Shifted(b, x)[2] < Shifted(b, y)[2])
    BY <2>2 DEF Sooner
  <2>6. x[1] = y[1] => (x[2] < y[2] <=> Shifted(b, x)[2] < Shifted(b, y)[2])
    BY <2>1, <2>2
  <2>7. QED
    BY <2>3, <2>4, <2>5, <2>6
<1>10. ASSUME NEW z \in Spots(book, o), z # first
       PROVE  \E x \in Spots(new, m) : z = Shifted(b, x)
  <2>1. /\ z = <<z[1], z[2]>> /\ Crosses(o.side, z[1], o.limit) /\ z[2] \in 1..Len(old(z[1]))
    BY <1>1
  <2>2. CASE z[1] = b
    <3> DEFINE x == <<b, z[2] - 1>>
    <3>1. z[2] # 1
      BY <1>3, <1>10, <2>1, <2>2
    <3>2. z[2] - 1 \in 1..Len(now(b)) /\ (z[2] - 1) + 1 = z[2]
      BY <1>4, <1>6, <2>1, <2>2, <3>1
    <3>3. x \in Spots(new, m)
      BY <1>2, <2>1, <2>2, <3>2
    <3>4. Shifted(b, x) = z
      BY <2>1, <2>2, <3>2 DEF Shifted
    <3>5. QED
      BY <3>3, <3>4
  <2>3. CASE z[1] # b
    <3>1. z \in Spots(new, m)
      BY <1>2, <1>7, <2>1, <2>3
    <3>2. Shifted(b, z) = z
      BY <2>1, <2>3 DEF Shifted
    <3>3. QED
      BY <3>1, <3>2
  <2>4. QED
    BY <2>2, <2>3
<1>11. QED
  BY <1>8, <1>9, <1>10 DEF SpotsMoveUp, b, first

\* What waits ahead of a spot, before and after the first maker is gone.
LEMMA AheadShifts ==
    ASSUME NEW book, BookFits(book), NEW o, OrderFits(o), HasNextFill(book, o),
           NEW new, BookFits(new), NEW m, OrderFits(m), SpotsMoveUp(new, m, book, o),
           NEW x \in Spots(new, m), NEW z, z = Shifted(BestFacing(book, o), x)
    PROVE  /\ Cardinality(Ahead(book, o, z)) = Cardinality(Ahead(new, m, x)) + 1
           /\ QuantityAhead(book, o, z) = FirstIn(book, o).qty + QuantityAhead(new, m, x)
<1> DEFINE b == BestFacing(book, o)
           first == FirstSpot(book, o)
           f == [y \in Spots(new, m) |-> Shifted(b, y)]
           A == Ahead(new, m, x)
           B == Ahead(book, o, z)
           fun == QtyAt(new, m)
           gun == QtyAt(book, o)
<1>1. /\ \A y \in Spots(new, m) : /\ f[y] \in Spots(book, o) /\ f[y] # first
                                  /\ WaitingAt(new, m, y) = WaitingAt(book, o, f[y])
      /\ \A y, w \in Spots(new, m) : /\ f[y] = f[w] => y = w
                                     /\ Sooner(m, y, w) <=> Sooner(o, f[y], f[w])
      /\ \A w \in Spots(book, o) : w # first => \E y \in Spots(new, m) : w = f[y]
  BY DEF SpotsMoveUp
<1>2. z = f[x]
  OBVIOUS
<1>3. /\ first \in Spots(book, o) /\ FirstIn(book, o) \in Entry
      /\ \A w \in Spots(book, o) : w = first \/ Sooner(o, first, w)
      /\ FirstIn(book, o) = WaitingAt(book, o, first)
  BY FirstSpotLeads DEF FirstIn
<1>4. /\ A \subseteq Spots(new, m) /\ IsFiniteSet(A)
      /\ \A y \in A : fun[y] = WaitingAt(new, m, y).qty /\ fun[y] \in Nat
      /\ QuantityAhead(new, m, x) = SumFunctionOnSet(fun, A)
  BY QuantityAheadIsSum
<1>5. /\ B \subseteq Spots(book, o) /\ IsFiniteSet(B)
      /\ \A y \in B : gun[y] = WaitingAt(book, o, y).qty /\ gun[y] \in Nat
      /\ QuantityAhead(book, o, z) = SumFunctionOnSet(gun, B)
  BY QuantityAheadIsSum
<1>6. \A y : y \in A <=> y \in Spots(new, m) /\ Sooner(m, y, x)
  BY DEF Ahead
<1>7. \A y : y \in B <=> y \in Spots(book, o) /\ Sooner(o, y, z)
  BY DEF Ahead
<1> HIDE DEF f, A, B, fun, gun, first, b
<1> DEFINE I == {f[y] : y \in A}
<1>8. first \in B
  BY <1>1, <1>2, <1>3, <1>7
<1>9. B \ {first} = I
  <2>1. ASSUME NEW w \in B, w # first PROVE w \in I
    <3>1. PICK y \in Spots(new, m) : w = f[y]
      BY <1>1, <1>5, <2>1
    <3>2. Sooner(o, f[y], f[x])
      BY <1>2, <1>7, <2>1, <3>1
    <3>3. y \in A
      BY <1>1, <1>6, <3>2
    <3>4. QED
      BY <3>1, <3>3
  <2>2. ASSUME NEW y \in A PROVE f[y] \in B /\ f[y] # first
    <3>1. y \in Spots(new, m) /\ Sooner(m, y, x)
      BY <1>6
    <3>2. Sooner(o, f[y], f[x])
      BY <1>1, <3>1
    <3>3. QED
      BY <1>1, <1>2, <1>7, <3>1, <3>2
  <2>3. QED
    BY <2>1, <2>2
<1>10. /\ Cardinality(I) = Cardinality(A)
       /\ SumFunctionOnSet(gun, I) = SumFunctionOnSet(fun, A)
  <2>1. \A y, w \in A : f[y] = f[w] => y = w
    BY <1>1, <1>4
  <2>2. \A y \in A : fun[y] \in Int /\ gun[f[y]] = fun[y]
    <3>1. ASSUME NEW y \in A PROVE fun[y] \in Int /\ gun[f[y]] = fun[y]
      <4>1. f[y] \in B
        BY <1>9
      <4>2. y \in Spots(new, m)
        BY <1>4
      <4>3. WaitingAt(new, m, y) = WaitingAt(book, o, f[y])
        BY <1>1, <4>2
      <4>4. fun[y] = WaitingAt(new, m, y).qty /\ fun[y] \in Nat
        BY <1>4
      <4>5. gun[f[y]] = WaitingAt(book, o, f[y]).qty
        BY <1>5, <4>1
      <4>6. QED
        BY <4>3, <4>4, <4>5
    <3>2. QED
      BY <3>1
  <2>3. QED
    BY <1>4, <2>1, <2>2, SumOverImage
<1>11. Cardinality(B) = Cardinality(A) + 1
  <2>1. Cardinality(B \ {first}) = Cardinality(B) - 1
    BY <1>5, <1>8, FS_RemoveElement
  <2>2. Cardinality(B) \in Nat /\ Cardinality(A) \in Nat
    BY <1>4, <1>5, FS_CardinalityType
  <2> HIDE DEF I
  <2>3. Cardinality(B \ {first}) = Cardinality(A)
    BY <1>9, <1>10, Zenon
  <2>4. QED
    BY <2>1, <2>2, <2>3
<1>12. SumFunctionOnSet(gun, B) = FirstIn(book, o).qty + SumFunctionOnSet(fun, A)
  <2>1. \A y \in B : gun[y] \in Int
    BY <1>5
  <2>2. SumFunctionOnSet(gun, B) = gun[first] + SumFunctionOnSet(gun, B \ {first})
    BY <1>5, <1>8, <2>1, SumTakesAny
  <2>3. gun[first] = FirstIn(book, o).qty
    BY <1>3, <1>5, <1>8
  <2> HIDE DEF I
  <2>4. QED
    BY <1>9, <1>10, <2>2, <2>3
<1>13. QED
  BY <1>4, <1>5, <1>11, <1>12 DEF A, B

\* The rest of the plan is the plan for what the first fill leaves.
PlanGoesOn(new, m, book, o, n) ==
    /\ n >= 1
    /\ PlanByRank(new, m, n - 1)
    /\ \A i \in 1..(n - 1) : PlanFills(new, m)[i] = PlanFills(book, o)[i + 1]

\* The plan of what is left is the plan without its first fill (plan_fills).
LEMMA PlanShifts ==
    ASSUME NEW book, BookFits(book), NEW o, OrderFits(o), HasNextFill(book, o),
           NEW n, PlanByRank(book, o, n),
           NEW new, BookFits(new), FirstGone(new, book, o),
           NEW m, OrderFits(m), m.side = o.side, m.limit = o.limit,
           m.qty = o.qty - FirstIn(book, o).qty
    PROVE  PlanGoesOn(new, m, book, o, n)
<1> DEFINE b == BestFacing(book, o)
           first == FirstSpot(book, o)
           h == FirstIn(book, o).qty
           f == [y \in Spots(new, m) |-> Shifted(b, y)]
           T == Touched(book, o)
           U == Touched(new, m)
<1>1. /\ \A y \in Spots(new, m) : /\ f[y] \in Spots(book, o) /\ f[y] # first
                                  /\ WaitingAt(new, m, y) = WaitingAt(book, o, f[y])
      /\ \A y, w \in Spots(new, m) : f[y] = f[w] => y = w
      /\ \A w \in Spots(book, o) : w # first => \E y \in Spots(new, m) : w = f[y]
  BY SpotsShift DEF SpotsMoveUp
<1>2. \A x \in Spots(new, m) :
         /\ Cardinality(Ahead(book, o, f[x])) = Cardinality(Ahead(new, m, x)) + 1
         /\ QuantityAhead(book, o, f[x]) = h + QuantityAhead(new, m, x)
  <2>1. SpotsMoveUp(new, m, book, o)
    BY SpotsShift
  <2>2. \A x \in Spots(new, m) : f[x] = Shifted(BestFacing(book, o), x)
    OBVIOUS
  <2> HIDE DEF f
  <2>3. QED
    BY <2>1, <2>2, AheadShifts
<1>3. \A x \in Spots(new, m) : f[x][1] = x[1]
  BY DEF Shifted
<1>4. h \in Int /\ o.qty \in Int /\ m.qty \in Int
  BY FirstSpotLeads DEF Entry, Tenths, OrderFits
<1>5. PICK k : PlanByRank(new, m, k)
  BY PlanRanks
<1>6. /\ n \in Nat /\ n = Cardinality(T) /\ IsFiniteSet(T)
      /\ k \in Nat /\ k = Cardinality(U) /\ IsFiniteSet(U)
  BY <1>5 DEF PlanByRank
<1>7. first \in T
  BY FirstPlanned
<1>8. \A x \in Spots(new, m) : x \in U <=> f[x] \in T
  <2>1. ASSUME NEW x \in Spots(new, m) PROVE x \in U <=> f[x] \in T
    <3>1. QuantityAhead(new, m, x) \in Int
      BY QuantityAheadGrows
    <3>2. QuantityAhead(book, o, f[x]) = h + QuantityAhead(new, m, x) /\ f[x] \in Spots(book, o)
      BY <1>1, <1>2
    <3> HIDE DEF f
    <3>3. QuantityAhead(new, m, x) < m.qty <=> QuantityAhead(book, o, f[x]) < o.qty
      BY <1>4, <3>1, <3>2
    <3>4. QED
      BY <3>2, <3>3 DEF Touched
  <2>2. QED
    BY <2>1
<1> HIDE DEF f
<1>9. T \ {first} = {f[x] : x \in U}
  <2>1. U \subseteq Spots(new, m) /\ T \subseteq Spots(book, o)
    BY DEF Touched
  <2> HIDE DEF T, U, first
  <2>2. ASSUME NEW w \in T, w # first PROVE \E x \in U : w = f[x]
    <3>1. PICK x \in Spots(new, m) : w = f[x]
      BY <1>1, <2>1, <2>2
    <3>2. QED
      BY <1>8, <2>2, <3>1
  <2>3. ASSUME NEW x \in U PROVE f[x] \in T /\ f[x] # first
    BY <1>1, <1>8, <2>1
  <2>4. QED
    BY <2>2, <2>3
<1>10. Cardinality(T \ {first}) = Cardinality(U)
  <2> DEFINE g == [x \in U |-> 0]
             j == [x \in T |-> 0]
  <2>1. \A x, y \in U : f[x] = f[y] => x = y
    BY <1>1 DEF Touched
  <2>2. \A x \in U : g[x] \in Int /\ j[f[x]] = g[x]
    BY <1>9
  <2>5. IsFiniteSet(U)
    BY <1>6
  <2> HIDE DEF g, j, U, T
  <2>3. /\ Cardinality({f[x] : x \in U}) = Cardinality(U)
        /\ SumFunctionOnSet(j, {f[x] : x \in U}) = SumFunctionOnSet(g, U)
    BY <2>1, <2>2, <2>5, SumOverImage
  <2>4. QED
    BY <1>9, <2>3
<1>11. k = n - 1 /\ n >= 1
  <2>1. Cardinality(T \ {first}) = Cardinality(T) - 1
    BY <1>6, <1>7, FS_RemoveElement
  <2>2. n # 0
    BY <1>6, <1>7, FS_EmptySet
  <2> HIDE DEF T, U, first
  <2>3. QED
    BY <1>6, <1>10, <2>1, <2>2
<1>12. ASSUME NEW i \in 1..(n - 1) PROVE PlanFills(new, m)[i] = PlanFills(book, o)[i + 1]
  <2> DEFINE x == SpotOf(new, m, i)
             y == SpotOf(book, o, i + 1)
  <2>1. i \in 1..k /\ i + 1 \in 1..n
    BY <1>6, <1>11
  <2>2. /\ x \in U /\ Cardinality(Ahead(new, m, x)) = i - 1
        /\ PlanFills(new, m)[i] = Planned(new, m, x)
    BY <1>5, <2>1 DEF PlanByRank
  <2>3. /\ y \in T /\ Cardinality(Ahead(book, o, y)) = (i + 1) - 1
        /\ PlanFills(book, o)[i + 1] = Planned(book, o, y)
    BY <2>1 DEF PlanByRank
  <2> HIDE DEF x, y
  <2>4. x \in Spots(new, m)
    BY <2>2 DEF Touched
  <2>5. Cardinality(Ahead(book, o, f[x])) = (i + 1) - 1 /\ f[x] \in Spots(book, o)
    BY <1>1, <1>2, <2>2, <2>4
  <2>6. y \in Spots(book, o)
    BY <2>3 DEF Touched
  <2>7. y = f[x]
    <3>1. /\ StrictOrder(SoonerThan(book, o), Spots(book, o)) /\ IsFiniteSet(Spots(book, o))
          /\ \A v, w \in Spots(book, o) : <<v, w>> \in SoonerThan(book, o) <=> Sooner(o, v, w)
      BY SpotsInOrder, SpotsFit
    <3>2. \A v \in Spots(book, o) :
             Before(SoonerThan(book, o), Spots(book, o), v) = Ahead(book, o, v)
      BY <3>1 DEF Before, Ahead
    <3>3. QED
      BY <2>3, <2>5, <2>6, <3>1, <3>2, RankOnce
  <2>8. Planned(book, o, y) = Planned(new, m, x)
    <3>1. /\ WaitingAt(new, m, x) = WaitingAt(book, o, y)
          /\ y[1] = x[1]
          /\ QuantityAhead(book, o, y) = h + QuantityAhead(new, m, x)
      BY <1>1, <1>2, <1>3, <2>4, <2>7
    <3>2. QuantityAhead(new, m, x) \in Int
      BY QuantityAheadGrows
    <3>3. o.qty - QuantityAhead(book, o, y) = m.qty - QuantityAhead(new, m, x)
      BY <1>4, <3>1, <3>2
    <3>4. QED
      BY <3>1, <3>3 DEF Planned
  <2>9. QED
    BY <2>2, <2>3, <2>8
<1>13. QED
  BY <1>5, <1>11, <1>12 DEF PlanGoesOn

-----------------------------------------------------------------------------
(* Execution follows the plan: the fills left to take are its remainder.   *)

\* An order like o that wants what is left of it.
Wants(m, o, left) == OrderFits(m) /\ m.side = o.side /\ m.limit = o.limit /\ m.qty = left

\* Of the n fills of the plan k are taken, and what is left has the others for its plan.
InPlan(o, book, left, plan, n, k) ==
    /\ n \in Nat /\ k \in 0..n
    /\ left \in Nat
    /\ left = 0 => k = n
    /\ left # 0 => \E m : /\ Wants(m, o, left)
                          /\ PlanByRank(book, m, n - k)
                          /\ \A i \in 1..(n - k) : PlanFills(book, m)[i] = plan[k + i]

\* Only side and limit decide where the walk through the book goes next.
LEMMA SameWalk ==
    ASSUME NEW m, NEW o, NEW left, Wants(m, o, left), NEW book, NEW want
    PROVE  /\ HasNextFill(book, m) <=> HasNextFill(book, o)
           /\ BestFacing(book, m) = BestFacing(book, o)
           /\ NextFill(book, m, want) = NextFill(book, o, want)
<1>1. m.side = o.side /\ m.limit = o.limit
  BY DEF Wants
<1>2. BestFacing(book, m) = BestFacing(book, o)
  BY <1>1 DEF BestFacing
<1>3. NextFill(book, m, want) = NextFill(book, o, want)
  BY <1>1, <1>2 DEF NextFill
<1>4. QED
  BY <1>1, <1>2, <1>3 DEF HasNextFill

\* One turn of `execute` takes the fill that is next in the plan.
LEMMA PlanStep ==
    ASSUME NEW o, OrderFits(o), NEW book, BookFits(book), NEW left, left # 0,
           NEW plan, NEW n, NEW k, InPlan(o, book, left, plan, n, k), HasNextFill(book, o),
           NEW f, f = NextFill(book, o, left)
    PROVE  /\ k + 1 \in 1..n
           /\ plan[k + 1] = f
           /\ InPlan(o, AfterTaking(book, o, f), left - f.qty, plan, n, k + 1)
<1> DEFINE new == AfterTaking(book, o, f)
<1>1. n \in Nat /\ k \in 0..n /\ left \in Nat
  BY DEF InPlan
<1>2. PICK m : /\ Wants(m, o, left)
               /\ PlanByRank(book, m, n - k)
               /\ \A i \in 1..(n - k) : PlanFills(book, m)[i] = plan[k + i]
  BY DEF InPlan
<1>3. OrderFits(m) /\ m.side = o.side /\ m.limit = o.limit /\ m.qty = left
  BY <1>2 DEF Wants
<1>4. /\ HasNextFill(book, m) /\ BestFacing(book, m) = BestFacing(book, o)
      /\ NextFill(book, m, left) = f
  BY <1>2, SameWalk
<1>5. 1 \in 1..(n - k) /\ PlanFills(book, m)[1] = f
  BY <1>2, <1>3, <1>4, FirstPlanned
<1>6. k + 1 \in 1..n /\ plan[k + 1] = f
  BY <1>1, <1>2, <1>5
<1> DEFINE b == BestFacing(book, o)
           q == book[Facing(o.side)][b]
           h == FirstIn(book, m)
<1>7. h = Head(q) /\ h \in Entry
  BY <1>3, <1>4, FirstSpotLeads
<1>8. left \in Tenths
  BY <1>1 DEF Tenths
<1>9. /\ TakesFront(book, o, f) /\ f.price = b
      /\ f.qty = IF left <= MakerFor(book, o, f).qty THEN left ELSE MakerFor(book, o, f).qty
  BY <1>8, NextFillTakesFront
<1>10. MakerFor(book, o, f) = h
  BY <1>7, <1>9 DEF MakerFor
<1>11. h.qty \in Nat /\ h.qty # 0
  BY <1>7 DEF Entry, Tenths
<1>12. CASE left <= h.qty
  <2>1. n - k = 1
    BY <1>2, <1>3, <1>4, <1>12, OneFillPlanned
  <2>2. f.qty = left
    BY <1>9, <1>10, <1>12
  <2>3. left - f.qty = 0 /\ k + 1 = n
    <3> HIDE DEF h
    <3>1. QED
      BY <1>1, <2>1, <2>2
  <2>4. InPlan(o, new, left - f.qty, plan, n, k + 1)
    BY <1>1, <1>6, <2>3 DEF InPlan
  <2>5. QED
    BY <1>6, <2>4
<1>13. CASE ~(left <= h.qty)
  <2>1. f.qty = h.qty
    BY <1>9, <1>10, <1>13
  <2> DEFINE m1 == [id |-> m.id, account |-> m.account, symbol |-> m.symbol, side |-> m.side,
                    limit |-> m.limit, qty |-> left - f.qty]
  <2>2. left - f.qty \in Tenths
    <3> HIDE DEF h
    <3>1. QED
      BY <1>1, <1>11, <1>13, <2>1 DEF Tenths
  <2>3. Wants(m1, o, left - f.qty) /\ OrderFits(m1)
    BY <1>3, <2>2 DEF Wants, OrderFits
  <2>4. Facing(o.side) \in Sides /\ QueueFits(q) /\ q # <<>> /\ b \in Cents /\ q = Level(book, Facing(o.side), b)
    <3>1. Facing(o.side) \in Sides /\ SideFits(book[Facing(o.side)])
      BY SidesOfBook DEF OrderFits
    <3>2. b \in DOMAIN book[Facing(o.side)] /\ b \in Cents
      BY <1>9 DEF TakesFront
    <3>3. QED
      BY <3>1, <3>2 DEF SideFits, Level
  <2> HIDE DEF q
  <2>5. QueueFits(Tail(q))
    BY <2>4, TailFits
  <2>6. new = WithLevel(book, Facing(o.side), b, Tail(q))
    <3>1. Head(q).qty - f.qty = 0
      <4> HIDE DEF h
      <4>1. h.qty - f.qty = 0
        BY <1>11, <2>1
      <4>2. QED
        BY <1>7, <4>1
    <3>2. QED
      BY <1>9, <3>1 DEF AfterTaking, q
  <2>7. Replaced(new, book, Facing(o.side), b, Tail(q))
    BY <2>4, <2>5, <2>6, WithLevelFits
  <2>8. BookFits(new) /\ FirstGone(new, book, m)
    <3>1. \A p : Level(new, Facing(o.side), p) = IF p = b THEN Tail(q) ELSE Level(book, Facing(o.side), p)
      BY <2>4, <2>7 DEF Replaced
    <3>2. BookFits(new)
      BY <2>7 DEF Replaced
    <3> HIDE DEF new, b
    <3>3. QED
      BY <1>3, <1>4, <2>4, <3>1, <3>2 DEF FirstGone, b
  <2> HIDE DEF new, m1
  <2>9. m1.side = m.side /\ m1.limit = m.limit /\ m1.qty = m.qty - h.qty
    BY <1>3, <2>1 DEF m1
  <2>10. PlanGoesOn(new, m1, book, m, n - k)
    BY <1>2, <1>3, <1>4, <2>3, <2>8, <2>9, PlanShifts
  <2>11. /\ PlanByRank(new, m1, n - (k + 1))
         /\ \A i \in 1..(n - (k + 1)) : PlanFills(new, m1)[i] = plan[(k + 1) + i]
    <3>1. (n - k) - 1 = n - (k + 1) /\ n - k >= 1
      BY <1>1, <1>6
    <3>2. \A i \in 1..(n - (k + 1)) : i + 1 \in 1..(n - k) /\ k + (i + 1) = (k + 1) + i
      BY <1>1
    <3>3. QED
      BY <1>2, <2>10, <3>1, <3>2 DEF PlanGoesOn
  <2>12. InPlan(o, new, left - f.qty, plan, n, k + 1)
    <3>1. left - f.qty \in Nat /\ left - f.qty # 0 /\ k + 1 \in 0..n
      BY <1>6, <2>2 DEF Tenths
    <3>2. QED
      BY <1>1, <2>3, <2>11, <3>1 DEF InPlan
  <2>13. QED
    BY <1>6, <2>12 DEF new
<1>14. QED
  BY <1>12, <1>13

\* While the plan has fills left the book has one.
LEMMA PlanHasNext ==
    ASSUME NEW o, NEW book, BookFits(book), NEW left,
           NEW plan, NEW n, NEW k, InPlan(o, book, left, plan, n, k), k < n
    PROVE  left # 0 /\ HasNextFill(book, o)
<1>1. n \in Nat /\ k \in 0..n
  BY DEF InPlan
<1>2. left # 0
  BY <1>1 DEF InPlan
<1>3. PICK m : Wants(m, o, left) /\ PlanByRank(book, m, n - k)
  BY <1>2 DEF InPlan
<1>4. n - k # 0 /\ OrderFits(m)
  BY <1>1, <1>3 DEF Wants
<1>5. HasNextFill(book, m)
  BY <1>3, <1>4, NothingPlanned
<1>6. QED
  BY <1>2, <1>3, <1>5, SameWalk

\* An order starts at the beginning of its plan.
LEMMA PlanStarts ==
    ASSUME NEW o, OrderFits(o), NEW book, BookFits(book), NEW n, PlanByRank(book, o, n)
    PROVE  InPlan(o, book, o.qty, PlanFills(book, o), n, 0)
<1>1. o.qty \in Nat /\ o.qty # 0 /\ Wants(o, o, o.qty) /\ n \in Nat
  BY DEF OrderFits, Tenths, Wants, PlanByRank
<1>2. n - 0 = n /\ \A i \in 1..n : 0 + i = i
  BY <1>1
<1>3. QED
  BY <1>1, <1>2 DEF InPlan

-----------------------------------------------------------------------------
(* What the positions say an account is worth, and what the ledger says.    *)

\* The positions that trade an asset, and those it is paid in.
GoodsOf(a, asset) ==
    {k \in Accounts \X Symbols : k[1] = a /\ k[2] \in Markets /\ BaseAsset[k[2]] = asset}
CashOf(a, asset) ==
    {k \in Accounts \X Symbols : k[1] = a /\ k[2] \in Markets /\ QuoteAsset[k[2]] = asset}
AmountOf(held, a, asset) ==
    UnitsPerTenth * SumIn(held, GoodsOf(a, asset), "net") + SumIn(held, CashOf(a, asset), "cash")

\* The change of one position moves the amounts of its account in the two
\* assets of its symbol.
LEMMA AmountMoves ==
    ASSUME NEW held, PositionsFit(held), NEW k \in Accounts \X Symbols, k[2] \in Markets,
           NEW p, Held(p), NEW new, new = Put(held, k, p), PositionsFit(new),
           NEW a \in Accounts, NEW asset \in Assets
    PROVE  /\ AmountOf(held, a, asset) \in Int
           /\ AmountOf(new, a, asset) = AmountOf(held, a, asset)
                 + At(<<a, asset>>, <<k[1], BaseAsset[k[2]]>>,
                      UnitsPerTenth * (p.net - PositionIn(held, k).net))
                 + At(<<a, asset>>, <<k[1], QuoteAsset[k[2]]>>, p.cash - PositionIn(held, k).cash)
<1> DEFINE q == PositionIn(held, k)
           G == GoodsOf(a, asset)
           C == CashOf(a, asset)
<1>1. UnitsPerTenth \in Nat /\ BaseAsset[k[2]] \in Assets /\ QuoteAsset[k[2]] \in Assets
    BY LedgerConfig
<1>2. Held(q)  BY PositionInIsHeld
<1>3. p.net \in Int /\ p.cash \in Int /\ q.net \in Int /\ q.cash \in Int
    BY <1>2, FieldsOfPosition DEF Held
<1>4. \A Z : \A field \in Totals : SumIn(held, Z, field) \in Int
    <2> SUFFICES ASSUME NEW Z, NEW field \in Totals PROVE SumIn(held, Z, field) \in Int  OBVIOUS
    <2>1. IsFiniteSet(DOMAIN held \cap Z)  BY FS_Intersection DEF PositionsFit
    <2>2. \A x \in DOMAIN held \cap Z : FieldOf(held, field)[x] \in Int
        BY FieldsOfPosition DEF PositionsFit, Held, FieldOf
    <2> QED  BY <2>1, <2>2, SumIsInteger DEF SumIn
<1>5. /\ SumIn(new, G, "net") = SumIn(held, G, "net")
            + (IF k \in G THEN p["net"] - q["net"] ELSE 0)
      /\ SumIn(new, C, "cash") = SumIn(held, C, "cash")
            + (IF k \in C THEN p["cash"] - q["cash"] ELSE 0)
    BY SumMoves DEF Totals
<1>6. /\ k \in G <=> <<a, asset>> = <<k[1], BaseAsset[k[2]]>>
      /\ k \in C <=> <<a, asset>> = <<k[1], QuoteAsset[k[2]]>>
    BY DEF GoodsOf, CashOf
<1>17. "net" \in Totals /\ "cash" \in Totals  BY DEF Totals
<1> HIDE DEF q, G, C
<1>7. /\ SumIn(held, G, "net") \in Int /\ SumIn(held, C, "cash") \in Int
    BY <1>4, <1>17
<1>8. PICK g, c, g2, c2 : /\ g = SumIn(held, G, "net") /\ c = SumIn(held, C, "cash")
                          /\ g2 = SumIn(new, G, "net") /\ c2 = SumIn(new, C, "cash")
    OBVIOUS
<1>9. PICK dn, dc : /\ dn = p.net - q.net /\ dc = p.cash - q.cash  OBVIOUS
<1>10. PICK u : u = UnitsPerTenth  OBVIOUS
<1>11. /\ AmountOf(held, a, asset) = u * g + c /\ AmountOf(new, a, asset) = u * g2 + c2
    BY <1>8, <1>10 DEF AmountOf, G, C
<1>12. /\ g2 = g + (IF k \in G THEN dn ELSE 0) /\ c2 = c + (IF k \in C THEN dc ELSE 0)
       /\ g \in Int /\ c \in Int /\ dn \in Int /\ dc \in Int /\ u \in Int
    BY <1>1, <1>3, <1>5, <1>7, <1>8, <1>9, <1>10
<1>13. u * (g + dn) = u * g + u * dn /\ u * g \in Int /\ u * dn \in Int /\ g + 0 = g  BY <1>12
<1>14. u * g2 = u * g + (IF k \in G THEN u * dn ELSE 0)  BY <1>12, <1>13
<1>15. u * g2 + c2 = u * g + c + (IF k \in G THEN u * dn ELSE 0) + (IF k \in C THEN dc ELSE 0)
    BY <1>12, <1>13, <1>14
<1>16. /\ At(<<a, asset>>, <<k[1], BaseAsset[k[2]]>>, u * dn) = IF k \in G THEN u * dn ELSE 0
       /\ At(<<a, asset>>, <<k[1], QuoteAsset[k[2]]>>, dc) = IF k \in C THEN dc ELSE 0
    BY <1>6 DEF At
<1> QED  BY <1>9, <1>10, <1>11, <1>12, <1>13, <1>15, <1>16 DEF q

\* What one leg of a fill adds to what an account is worth in an asset.
LegWorth(a, asset, account, symbol, side, qty, price) ==
    At(<<a, asset>>, <<account, BaseAsset[symbol]>>, UnitsPerTenth * SignedQuantity(side, qty))
        + At(<<a, asset>>, <<account, QuoteAsset[symbol]>>, -(SignedQuantity(side, qty) * price))

\* One leg of a fill moves the worth of its account by what the leg is worth.
LEMMA LegMovesAmount ==
    ASSUME NEW held, PositionsFit(held), NEW account \in Accounts, NEW symbol \in Markets,
           NEW p, Held(p), NEW new, new = Put(held, <<account, symbol>>, p), PositionsFit(new),
           NEW side \in Sides, NEW qty \in Tenths, NEW price \in Cents,
           LegOf(p, PositionIn(held, <<account, symbol>>), side, qty, price),
           NEW a \in Accounts, NEW asset \in Assets
    PROVE  /\ AmountOf(held, a, asset) \in Int
           /\ LegWorth(a, asset, account, symbol, side, qty, price) \in Int
           /\ AmountOf(new, a, asset) = AmountOf(held, a, asset)
                 + LegWorth(a, asset, account, symbol, side, qty, price)
<1> DEFINE k == <<account, symbol>>
           q == PositionIn(held, k)
           s == SignedQuantity(side, qty)
<1>1. k \in Accounts \X Symbols /\ k[1] = account /\ k[2] = symbol /\ k[2] \in Markets
    BY LedgerConfig
<1>2. Held(q)  BY <1>1, PositionInIsHeld
<1>3. q.net \in Int /\ q.cash \in Int  BY <1>2, FieldsOfPosition DEF Held
<1>4. s \in Int /\ qty \in Int /\ price \in Int  BY DEF SignedQuantity, Tenths, Cents
<1>5. PICK paid : paid = s * price  OBVIOUS
<1>6. paid \in Int  BY <1>4, <1>5
<1>7. p.net - q.net = s /\ p.cash - q.cash = -paid
    <2>1. p.net = q.net + s /\ p.cash = q.cash - paid  BY <1>5 DEF LegOf
    <2> QED  BY <2>1, <1>3, <1>4, <1>6
<1> HIDE DEF q, s
<1>8. /\ AmountOf(held, a, asset) \in Int
      /\ AmountOf(new, a, asset) = AmountOf(held, a, asset)
            + At(<<a, asset>>, <<k[1], BaseAsset[k[2]]>>,
                 UnitsPerTenth * (p.net - q.net))
            + At(<<a, asset>>, <<k[1], QuoteAsset[k[2]]>>, p.cash - q.cash)
    <2> HIDE DEF k
    <2> QED  BY <1>1, AmountMoves DEF q, k
<1>9. PICK g : g = UnitsPerTenth * s  OBVIOUS
<1>10. g \in Int  BY <1>4, <1>9, LedgerConfig
<1>11. LegWorth(a, asset, account, symbol, side, qty, price)
          = At(<<a, asset>>, <<account, BaseAsset[symbol]>>, g)
              + At(<<a, asset>>, <<account, QuoteAsset[symbol]>>, -paid)
    BY <1>5, <1>9 DEF LegWorth, s
<1>12. /\ At(<<a, asset>>, <<account, BaseAsset[symbol]>>, g) \in Int
       /\ At(<<a, asset>>, <<account, QuoteAsset[symbol]>>, -paid) \in Int
    BY <1>6, <1>10 DEF At
<1>13. AmountOf(new, a, asset) = AmountOf(held, a, asset)
          + At(<<a, asset>>, <<account, BaseAsset[symbol]>>, g)
          + At(<<a, asset>>, <<account, QuoteAsset[symbol]>>, -paid)
    BY <1>1, <1>7, <1>8, <1>9
<1> QED  BY <1>8, <1>11, <1>12, <1>13

\* Both legs, the maker's first, as commit_fill books them.
LEMMA FillMovesAmount ==
    ASSUME NEW held, PositionsFit(held), NEW o, OrderFits(o), o.symbol \in Markets,
           NEW f, FillTyped(f), FillFits(o, held, f), NEW a \in Accounts, NEW asset \in Assets
    PROVE  /\ PositionsFit(BookLegs(o, held, f))
           /\ AmountOf(held, a, asset) \in Int
           /\ LegWorth(a, asset, f.account, o.symbol, Facing(o.side), f.qty, f.price) \in Int
           /\ LegWorth(a, asset, o.account, o.symbol, o.side, f.qty, f.price) \in Int
           /\ AmountOf(BookLegs(o, held, f), a, asset) = AmountOf(held, a, asset)
                 + LegWorth(a, asset, f.account, o.symbol, Facing(o.side), f.qty, f.price)
                 + LegWorth(a, asset, o.account, o.symbol, o.side, f.qty, f.price)
<1> DEFINE new == BookLegs(o, held, f)
           m == LegWorth(a, asset, f.account, o.symbol, Facing(o.side), f.qty, f.price)
           t == LegWorth(a, asset, o.account, o.symbol, o.side, f.qty, f.price)
<1>1. PICK mid, mnext, tnext : LegsTaken(held, mid, new, o, f, mnext, tnext)  BY LegsOfFill
<1>2. /\ o.account \in Accounts /\ f.account \in Accounts /\ o.side \in Sides
      /\ Facing(o.side) \in Sides /\ f.qty \in Tenths /\ f.price \in Cents
    BY DEF OrderFits, FillTyped, Facing, Sides
<1> HIDE DEF new
<1>3. /\ PositionsFit(mid) /\ PositionsFit(new)
      /\ Held(mnext) /\ mid = Put(held, <<f.account, o.symbol>>, mnext)
      /\ LegOf(mnext, PositionIn(held, <<f.account, o.symbol>>), Facing(o.side), f.qty, f.price)
      /\ Held(tnext) /\ new = Put(mid, <<o.account, o.symbol>>, tnext)
      /\ LegOf(tnext, PositionIn(mid, <<o.account, o.symbol>>), o.side, f.qty, f.price)
    BY <1>1 DEF LegsTaken
<1>4. /\ AmountOf(held, a, asset) \in Int /\ m \in Int
      /\ AmountOf(mid, a, asset) = AmountOf(held, a, asset) + m
    BY <1>2, <1>3, LegMovesAmount
<1>5. /\ AmountOf(mid, a, asset) \in Int /\ t \in Int
      /\ AmountOf(new, a, asset) = AmountOf(mid, a, asset) + t
    BY <1>2, <1>3, LegMovesAmount
<1> HIDE DEF m, t
<1>6. AmountOf(new, a, asset) = AmountOf(held, a, asset) + m + t  BY <1>4, <1>5
<1> QED  BY <1>3, <1>4, <1>5, <1>6 DEF new, m, t

\* Every total stands where the funding and the account's positions put it.
AgreesWith(l, held) ==
    \A a \in Accounts, asset \in Assets :
        Total(l, a, asset) - Funding[<<a, asset>>] = AmountOf(held, a, asset)

\* The two legs of a fill, in the ledger's words: the buyer's and the seller's.
LEMMA LegsWorth ==
    ASSUME NEW a, NEW asset, NEW account, NEW symbol,
           NEW qty \in Tenths, NEW price \in Cents
    PROVE  /\ LegWorth(a, asset, account, symbol, "buy", qty, price)
                 = At(<<a, asset>>, <<account, BaseAsset[symbol]>>, qty * UnitsPerTenth)
                   - At(<<a, asset>>, <<account, QuoteAsset[symbol]>>, price * qty)
           /\ LegWorth(a, asset, account, symbol, "sell", qty, price)
                 = At(<<a, asset>>, <<account, QuoteAsset[symbol]>>, price * qty)
                   - At(<<a, asset>>, <<account, BaseAsset[symbol]>>, qty * UnitsPerTenth)
           /\ price * qty \in Int /\ qty * UnitsPerTenth \in Int
<1>1. qty \in Int /\ price \in Int /\ UnitsPerTenth \in Int
    BY LedgerConfig DEF Tenths, Cents
<1>2. PICK paid, goods : paid = price * qty /\ goods = qty * UnitsPerTenth  OBVIOUS
<1>3. paid \in Int /\ goods \in Int  BY <1>1, <1>2
<1>4. /\ UnitsPerTenth * qty = goods /\ UnitsPerTenth * (-qty) = -goods
      /\ qty * price = paid /\ (-qty) * price = -paid /\ -(-paid) = paid
    BY <1>1, <1>2, <1>3
<1>5. SignedQuantity("buy", qty) = qty /\ SignedQuantity("sell", qty) = -qty
    BY DEF SignedQuantity
<1>6. LegWorth(a, asset, account, symbol, "buy", qty, price)
         = At(<<a, asset>>, <<account, BaseAsset[symbol]>>, goods)
           + At(<<a, asset>>, <<account, QuoteAsset[symbol]>>, -paid)
    BY <1>4, <1>5 DEF LegWorth
<1>7. LegWorth(a, asset, account, symbol, "sell", qty, price)
         = At(<<a, asset>>, <<account, BaseAsset[symbol]>>, -goods)
           + At(<<a, asset>>, <<account, QuoteAsset[symbol]>>, paid)
    BY <1>4, <1>5 DEF LegWorth
<1>8. \A k, key, n : n \in Int => At(k, key, -n) = -At(k, key, n) /\ At(k, key, n) \in Int
    BY DEF At
<1> QED  BY <1>2, <1>3, <1>6, <1>7, <1>8

\* The reservations of a fill are those of its maker and of the order.
FillTerms(l, o, f) ==
    /\ {f.maker, o.id} \subseteq DOMAIN l.resv
    /\ l.resv[f.maker].account = f.account /\ l.resv[o.id].account = o.account
    /\ l.resv[f.maker].symbol = o.symbol /\ l.resv[o.id].symbol = o.symbol
    /\ l.resv[f.maker].side = Facing(o.side) /\ l.resv[o.id].side = o.side

\* settle_fill moves the balances by what commit_fill moves the positions.
LEMMA FillAgrees ==
    ASSUME NEW l, LedgerFits(l), IsFunded, NEW held, PositionsFit(held), AgreesWith(l, held),
           NEW o, OrderFits(o), NEW f, FillTyped(f), FillFits(o, held, f), FillTerms(l, o, f)
    PROVE  /\ PositionsFit(BookLegs(o, held, f))
           /\ AgreesWith(AfterSettle(l, f.maker, o.id, f.price, f.qty), BookLegs(o, held, f))
<1> DEFINE m == AfterSettle(l, f.maker, o.id, f.price, f.qty)
           new == BookLegs(o, held, f)
<1>1. /\ f.maker \in DOMAIN l.resv /\ o.id \in DOMAIN l.resv
      /\ f.price \in Int /\ f.qty \in Int /\ f.qty \in Tenths /\ f.price \in Cents
      /\ f.account \in Accounts /\ o.account \in Accounts /\ o.side \in Sides
    BY DEF FillTerms, FillTyped, Tenths, Cents, OrderFits
<1>2. l.resv[o.id] \in Reservation  BY <1>1 DEF LedgerFits
<1>3. o.symbol \in Markets  BY <1>2 DEF FillTerms, Reservation
<1>4. PositionsFit(new) \/ Accounts = {} \/ Assets = {}  BY <1>3, FillMovesAmount
<1>5. BaseAsset[o.symbol] \in Assets  BY <1>3, LedgerConfig
<1>6. SUFFICES ASSUME NEW a \in Accounts, NEW asset \in Assets
               PROVE  Total(m, a, asset) - Funding[<<a, asset>>] = AmountOf(new, a, asset)
    BY <1>1, <1>4, <1>5 DEF AgreesWith
<1> DEFINE k == <<a, asset>>
           base == BaseAsset[o.symbol]
           quote == QuoteAsset[o.symbol]
           paid == f.price * f.qty
           goods == f.qty * UnitsPerTenth
           mleg == LegWorth(a, asset, f.account, o.symbol, Facing(o.side), f.qty, f.price)
           tleg == LegWorth(a, asset, o.account, o.symbol, o.side, f.qty, f.price)
<1>7. /\ AmountOf(held, a, asset) \in Int /\ mleg \in Int /\ tleg \in Int
      /\ AmountOf(new, a, asset) = AmountOf(held, a, asset) + mleg + tleg
    BY <1>3, FillMovesAmount
<1>8. Total(l, a, asset) - Funding[k] = AmountOf(held, a, asset)  BY DEF AgreesWith
<1>9. Total(l, a, asset) \in Int /\ Funding[k] \in Int
    <2>1. k \in Keys  BY DEF Keys
    <2>2. l.bal[k] \in Balance  BY <2>1 DEF LedgerFits
    <2>3. Funding[k] \in 0..MaxUnits /\ MaxUnits \in Nat  BY <2>1, LedgerConfig
    <2> QED  BY <2>2, <2>3 DEF Total, Balance
<1>10. LET buyer  == Buyer(l, f.maker, o.id)
           seller == Seller(l, f.maker, o.id)
       IN  Total(m, a, asset)
             = Total(l, a, asset)
               - At(k, <<buyer.account, QuoteAsset[buyer.symbol]>>, paid)
               + At(k, <<seller.account, QuoteAsset[buyer.symbol]>>, paid)
               + At(k, <<buyer.account, BaseAsset[buyer.symbol]>>, goods)
               - At(k, <<seller.account, BaseAsset[buyer.symbol]>>, goods)
    BY <1>1, TotalAfterFill
<1> DEFINE BUY(acc) == At(k, <<acc, base>>, goods) - At(k, <<acc, quote>>, paid)
           SELL(acc) == At(k, <<acc, quote>>, paid) - At(k, <<acc, base>>, goods)
<1>11. \A acc : /\ LegWorth(a, asset, acc, o.symbol, "buy", f.qty, f.price) = BUY(acc)
                /\ LegWorth(a, asset, acc, o.symbol, "sell", f.qty, f.price) = SELL(acc)
    <2> SUFFICES ASSUME NEW acc
                 PROVE  /\ LegWorth(a, asset, acc, o.symbol, "buy", f.qty, f.price) = BUY(acc)
                        /\ LegWorth(a, asset, acc, o.symbol, "sell", f.qty, f.price) = SELL(acc)
        OBVIOUS
    <2>1. /\ LegWorth(a, asset, acc, o.symbol, "buy", f.qty, f.price)
                 = At(<<a, asset>>, <<acc, BaseAsset[o.symbol]>>, f.qty * UnitsPerTenth)
                   - At(<<a, asset>>, <<acc, QuoteAsset[o.symbol]>>, f.price * f.qty)
          /\ LegWorth(a, asset, acc, o.symbol, "sell", f.qty, f.price)
                 = At(<<a, asset>>, <<acc, QuoteAsset[o.symbol]>>, f.price * f.qty)
                   - At(<<a, asset>>, <<acc, BaseAsset[o.symbol]>>, f.qty * UnitsPerTenth)
        <3>1. f.qty \in Tenths /\ f.price \in Cents  BY <1>1
        <3> HIDE DEF m, new, k, base, quote, paid, goods, mleg, tleg, BUY, SELL
        <3> QED  BY <3>1, LegsWorth
    <2> QED  BY <2>1
<1>12. \A acc : /\ At(k, <<acc, quote>>, paid) \in Int /\ At(k, <<acc, base>>, goods) \in Int
    <2>1. paid \in Int /\ goods \in Int  BY <1>1, LegsWorth
    <2> QED  BY <2>1 DEF At
<1>13. CASE o.side = "buy"
    <2>1. Facing(o.side) = "sell"  BY <1>13 DEF Facing
    <2>2. Buyer(l, f.maker, o.id) = l.resv[o.id] /\ Seller(l, f.maker, o.id) = l.resv[f.maker]
        BY <2>1 DEF FillTerms, Buyer, Seller
    <2>3. Total(m, a, asset) = Total(l, a, asset)
             - At(k, <<o.account, quote>>, paid) + At(k, <<f.account, quote>>, paid)
             + At(k, <<o.account, base>>, goods) - At(k, <<f.account, base>>, goods)
        <3> HIDE DEF m, paid, goods, k
        <3> QED  BY <1>10, <2>2 DEF FillTerms
    <2>4. mleg = SELL(f.account) /\ tleg = BUY(o.account)  BY <1>11, <1>13, <2>1
    <2> HIDE DEF m, paid, goods, k, base, quote, new, mleg, tleg
    <2> QED  BY <1>7, <1>8, <1>9, <1>12, <2>3, <2>4 DEF k
<1>14. CASE o.side = "sell"
    <2>1. Facing(o.side) = "buy"  BY <1>14 DEF Facing
    <2>2. Buyer(l, f.maker, o.id) = l.resv[f.maker] /\ Seller(l, f.maker, o.id) = l.resv[o.id]
        BY <2>1 DEF FillTerms, Buyer, Seller
    <2>3. Total(m, a, asset) = Total(l, a, asset)
             - At(k, <<f.account, quote>>, paid) + At(k, <<o.account, quote>>, paid)
             + At(k, <<f.account, base>>, goods) - At(k, <<o.account, base>>, goods)
        <3> HIDE DEF m, paid, goods, k
        <3> QED  BY <1>10, <2>2 DEF FillTerms
    <2>4. mleg = BUY(f.account) /\ tleg = SELL(o.account)  BY <1>11, <1>14, <2>1
    <2> HIDE DEF m, paid, goods, k, base, quote, new, mleg, tleg
    <2> QED  BY <1>7, <1>8, <1>9, <1>12, <2>3, <2>4 DEF k
<1> QED  BY <1>1, <1>13, <1>14 DEF Sides

-----------------------------------------------------------------------------
(* A fill keeps the ledger beside the matcher.  While an order executes, the *)
(* rows are those of the book and one more, for what is left of the order.  *)

\* The rows of the book and the one the order would have, were it to rest now.
RowsWith(o, rw, left) == IF left = 0 THEN rw ELSE Put(rw, o.id, OwnRow(o, left))

\* settle_fill leaves the reservations of the rows commit_fill leaves.
LEMMA FillMirrors ==
    ASSUME NEW l, LedgerSound(l), IsFunded, NEW o, OrderFits(o), NEW rw, NEW e,
           BookSound(o, rw, e), o.id \notin DOMAIN rw, e.left \in Tenths,
           Mirrors(l, RowsWith(o, e.rows, e.left)),
           NEW f, TakesFront(e.book, o, f), CanSettle(l, f.maker, o.id, f.price, f.qty),
           NEW c, MakerDone(c, o, e, f) \/ MakerStays(c, o, e, f)
    PROVE  /\ FillTerms(l, o, f)
           /\ LedgerSound(AfterSettle(l, f.maker, o.id, f.price, f.qty))
           /\ AfterSettle(l, f.maker, o.id, f.price, f.qty).last = l.last
           /\ Mirrors(AfterSettle(l, f.maker, o.id, f.price, f.qty),
                      RowsWith(o, c.rows, e.left - f.qty))
<1> DEFINE m == AfterSettle(l, f.maker, o.id, f.price, f.qty)
           Q == RowsWith(o, e.rows, e.left)
           R == RowsWith(o, c.rows, e.left - f.qty)
           mk == MakerFor(e.book, o, f)
<1>1. /\ f.price \in Int /\ f.qty \in Int /\ f.qty # 0 /\ e.left \in Int /\ e.left # 0
      /\ mk.qty \in Int
    BY DEF TakesFront, Tenths, Cents, Entry
<1>2. SettledTerms(l, m, f.maker, o.id, f.qty)  BY <1>1, SettleIsSound
<1>3. MakersRow(o, e.book, e.rows, f)  BY RowOfMaker DEF BookSound
<1>4. o.id \notin DOMAIN e.rows /\ RowsFit(e.rows) /\ f.maker # o.id /\ f.maker \in DOMAIN e.rows
    BY <1>3 DEF BookSound, MakersRow
<1>5. Q = Put(e.rows, o.id, OwnRow(o, e.left))  BY <1>1 DEF RowsWith
<1>6. /\ DOMAIN Q = DOMAIN e.rows \cup {o.id}
      /\ Q[o.id] = OwnRow(o, e.left)
      /\ \A i \in DOMAIN e.rows : Q[i] = e.rows[i]
    BY <1>4, <1>5 DEF Put
<1>7. /\ DOMAIN l.resv = DOMAIN e.rows \cup {o.id}
      /\ TermsOf(l.resv[o.id]) = OwnRow(o, e.left)
      /\ \A i \in DOMAIN e.rows : TermsOf(l.resv[i]) = e.rows[i]
    <2>1. Mirrors(l, Q)  OBVIOUS
    <2> HIDE DEF Q
    <2> QED  BY <2>1, <1>6 DEF Mirrors
<1>8. TermsOf(l.resv[f.maker]) = [account |-> mk.account, symbol |-> o.symbol,
                                  side |-> Facing(o.side), price |-> f.price, qty |-> mk.qty]
    BY <1>3, <1>4, <1>7 DEF MakersRow
<1>9. FillTerms(l, o, f)
    <2>1. /\ l.resv[f.maker].account = mk.account /\ l.resv[f.maker].symbol = o.symbol
          /\ l.resv[f.maker].side = Facing(o.side)
        BY <1>8 DEF TermsOf
    <2>2. /\ l.resv[o.id].account = o.account /\ l.resv[o.id].symbol = o.symbol
          /\ l.resv[o.id].side = o.side
        BY <1>7 DEF TermsOf, OwnRow
    <2>3. f.account = mk.account  BY DEF TakesFront
    <2> QED  BY <2>1, <2>2, <2>3, <1>4, <1>7 DEF FillTerms
<1>10. LedgerSound(m) /\ m.last = l.last  BY <1>2 DEF SettledTerms
<1>11. /\ DOMAIN m.resv \subseteq DOMAIN e.rows \cup {o.id}
       /\ \A i \in DOMAIN e.rows \ {f.maker} : i \in DOMAIN m.resv /\ TermsOf(m.resv[i]) = e.rows[i]
    BY <1>2, <1>4, <1>7 DEF SettledTerms
<1>12. /\ o.id \in DOMAIN m.resv <=> e.left # f.qty
       /\ o.id \in DOMAIN m.resv => TermsOf(m.resv[o.id]) = OwnRow(o, e.left - f.qty)
    <2>1. LET was == TermsOf(l.resv[o.id])
          IN  /\ o.id \in DOMAIN m.resv <=> was.qty # f.qty
              /\ o.id \in DOMAIN m.resv =>
                    TermsOf(m.resv[o.id]) = [was EXCEPT !.qty = was.qty - f.qty]
        BY <1>2 DEF SettledTerms
    <2>2. LET was == OwnRow(o, e.left)
          IN  /\ was.qty = e.left
              /\ [was EXCEPT !.qty = was.qty - f.qty] = OwnRow(o, e.left - f.qty)
        BY DEF OwnRow
    <2> HIDE DEF m
    <2> QED  BY <2>1, <2>2, <1>7
<1>13. /\ f.maker \in DOMAIN m.resv <=> LeftOf(o, e, f) # 0
       /\ f.maker \in DOMAIN m.resv => TermsOf(m.resv[f.maker]) = RowLeft(o, e, f)
    <2> DEFINE was == [account |-> mk.account, symbol |-> o.symbol,
                       side |-> Facing(o.side), price |-> f.price, qty |-> mk.qty]
    <2>1. LET w == TermsOf(l.resv[f.maker])
          IN  /\ f.maker \in DOMAIN m.resv <=> w.qty # f.qty
              /\ f.maker \in DOMAIN m.resv =>
                    TermsOf(m.resv[f.maker]) = [w EXCEPT !.qty = w.qty - f.qty]
        BY <1>2 DEF SettledTerms
    <2>2. was.qty = mk.qty /\ [was EXCEPT !.qty = was.qty - f.qty] = RowLeft(o, e, f)
        BY DEF RowLeft, LeftOf
    <2>3. TermsOf(l.resv[f.maker]) = was  BY <1>8
    <2>4. mk.qty # f.qty <=> LeftOf(o, e, f) # 0  BY <1>1 DEF LeftOf
    <2> HIDE DEF m, was, mk
    <2> QED  BY <2>1, <2>2, <2>3, <2>4
<1> HIDE DEF m, Q, mk
<1>14. /\ LeftOf(o, e, f) = 0 => /\ DOMAIN c.rows = DOMAIN e.rows \ {f.maker}
                                 /\ \A i \in DOMAIN e.rows \ {f.maker} : c.rows[i] = e.rows[i]
       /\ LeftOf(o, e, f) # 0 => /\ DOMAIN c.rows = DOMAIN e.rows
                                 /\ c.rows[f.maker] = RowLeft(o, e, f)
                                 /\ \A i \in DOMAIN e.rows \ {f.maker} : c.rows[i] = e.rows[i]
    <2>1. CASE MakerDone(c, o, e, f)
        <3>1. LosesRow(Without(e.rows, {f.maker}), e.rows, f.maker)  BY <1>4, RowGone
        <3> QED  BY <2>1, <3>1 DEF MakerDone, LosesRow
    <2>2. CASE MakerStays(c, o, e, f)
        <3>1. c.rows = Put(e.rows, f.maker, RowLeft(o, e, f)) /\ LeftOf(o, e, f) # 0
            BY <2>2 DEF MakerStays, Tenths
        <3>2. DOMAIN e.rows \cup {f.maker} = DOMAIN e.rows  BY <1>4
        <3> HIDE DEF MakerStays
        <3> QED  BY <3>1, <3>2, <1>4 DEF Put
    <2> QED  BY <2>1, <2>2
<1>15. c.rows = c.rows /\ o.id \notin DOMAIN c.rows
    BY <1>4, <1>14
<1>16. /\ DOMAIN R = DOMAIN c.rows \cup (IF e.left - f.qty = 0 THEN {} ELSE {o.id})
       /\ \A i \in DOMAIN c.rows : R[i] = c.rows[i]
       /\ e.left - f.qty # 0 => R[o.id] = OwnRow(o, e.left - f.qty)
    BY <1>15 DEF RowsWith, Put
<1>17. e.left - f.qty = 0 <=> e.left = f.qty  BY <1>1
<1>20. \A i \in DOMAIN e.rows \ {f.maker} : i # o.id /\ i \in DOMAIN c.rows /\ c.rows[i] = e.rows[i]
    BY <1>4, <1>14
<1> HIDE DEF R
<1>18. DOMAIN m.resv = DOMAIN R
    BY <1>4, <1>11, <1>12, <1>13, <1>14, <1>16, <1>17
<1>19. \A i \in DOMAIN R : TermsOf(m.resv[i]) = R[i]
    <2> SUFFICES ASSUME NEW i \in DOMAIN R PROVE TermsOf(m.resv[i]) = R[i]  OBVIOUS
    <2>1. CASE i = o.id
        BY <2>1, <1>12, <1>15, <1>16, <1>17, <1>18
    <2>2. CASE i = f.maker
        BY <2>2, <1>4, <1>13, <1>14, <1>16, <1>18
    <2>3. CASE i # o.id /\ i # f.maker
        <3>1. i \in DOMAIN e.rows  BY <2>3, <1>11, <1>18
        <3> QED  BY <2>3, <3>1, <1>11, <1>16, <1>20
    <2> QED  BY <2>1, <2>2, <2>3
<1>21. Mirrors(m, R)  BY <1>18, <1>19 DEF Mirrors
<1> QED  BY <1>9, <1>10, <1>21 DEF m, R

\* The ledger, the positions and the rows of one moment.
FundsAt(l, last, held, rw) ==
    /\ LedgerSound(l)
    /\ l.last = last
    /\ PositionsFit(held)
    /\ IsFunded => Mirrors(l, rw) /\ AgreesWith(l, held)

\* A fill, on ledger, positions and rows at once.
LEMMA FillKeepsFunds ==
    ASSUME NEW o, OrderFits(o), NEW rw, NEW e, BookSound(o, rw, e), o.id \notin DOMAIN rw,
           e.left \in Tenths, NEW l, NEW last, NEW held,
           FundsAt(l, last, held, RowsWith(o, e.rows, e.left)),
           NEW f, TakesFront(e.book, o, f), FillFits(o, held, f),
           CanSettle(l, f.maker, o.id, f.price, f.qty),
           NEW c, MakerDone(c, o, e, f) \/ MakerStays(c, o, e, f)
    PROVE  FundsAt(AfterSettle(l, f.maker, o.id, f.price, f.qty), last, BookLegs(o, held, f),
                   RowsWith(o, c.rows, e.left - f.qty))
<1> DEFINE m == AfterSettle(l, f.maker, o.id, f.price, f.qty)
           new == BookLegs(o, held, f)
           Q == RowsWith(o, e.rows, e.left)
           R == RowsWith(o, c.rows, e.left - f.qty)
<1>1. /\ LedgerSound(l) /\ LedgerFits(l) /\ l.last = last /\ PositionsFit(held)
      /\ IsFunded => Mirrors(l, Q) /\ AgreesWith(l, held)
    BY DEF FundsAt, LedgerSound
<1>2. FillTyped(f)  BY DEF FillTyped, TakesFront, Entry
<1>3. CASE ~IsFunded
    <2>1. m = l  BY <1>3 DEF AfterSettle
    <2>2. PositionsFit(new)
        <3>1. PICK mid, mnext, tnext : LegsTaken(held, mid, new, o, f, mnext, tnext)
            BY <1>1, <1>2, LegsOfFill
        <3> QED  BY <3>1 DEF LegsTaken
    <2> QED  BY <1>1, <1>3, <2>1, <2>2 DEF FundsAt
<1>4. CASE IsFunded
    <2>1. Mirrors(l, Q) /\ AgreesWith(l, held)  BY <1>1, <1>4
    <2>2. /\ FillTerms(l, o, f) /\ LedgerSound(m) /\ m.last = l.last
          /\ Mirrors(m, R)
        BY <1>1, <1>4, <2>1, FillMirrors
    <2>3. PositionsFit(new) /\ AgreesWith(m, new)  BY <1>1, <1>2, <1>4, <2>1, <2>2, FillAgrees
    <2> HIDE DEF m, new, R
    <2>4. FundsAt(m, last, new, R)  BY <1>1, <2>2, <2>3 DEF FundsAt
    <2> QED  BY <2>4 DEF m, new, R
<1> QED  BY <1>3, <1>4

\* The ledger an execution carries changes nothing of its book.
LEMMA SettledParts ==
    ASSUME NEW o, OrderFits(o), NEW rw, NEW e, BookSound(o, rw, e), NEW l,
           NEW f, TakesFront(e.book, o, f), NEW c, c = CommitFill(o, Settled(e, l), f)
    PROVE  /\ MakerDone(c, o, e, f) \/ MakerStays(c, o, e, f)
           /\ BookSound(o, rw, c)
           /\ c.book = AfterTaking(e.book, o, f)
           /\ c.left = e.left - f.qty /\ c.stop = e.stop /\ c.ledger = l
           /\ c.positions = BookLegs(o, e.positions, f)
           /\ c.trades = Append(e.trades, TradeOf(o, f))
<1> DEFINE s == Settled(e, l)
<1>1. /\ BookSound(o, rw, s) /\ s.book = e.book /\ s.ledger = l /\ s.left = e.left
      /\ s.stop = e.stop /\ s.positions = e.positions /\ s.trades = e.trades
      /\ s.rows = e.rows /\ s.openOrders = e.openOrders
    BY SettledKeepsBook
<1> HIDE DEF s
<1>2. IsExec(s)  BY <1>1 DEF BookSound
<1>3. TakesFront(s.book, o, f)  BY <1>1
<1>4. MakerDone(CommitFill(o, s, f), o, s, f) \/ MakerStays(CommitFill(o, s, f), o, s, f)
    BY <1>1, <1>3, CommitParts
<1>5. LeftOf(o, s, f) = LeftOf(o, e, f) /\ QueueOf(o, s, f) = QueueOf(o, e, f)
      /\ RowLeft(o, s, f) = RowLeft(o, e, f)
    BY <1>1 DEF LeftOf, QueueOf, RowLeft
<1>6. c = CommitFill(o, s, f)  BY DEF s
<1>7. MakerDone(c, o, e, f) \/ MakerStays(c, o, e, f)
    BY <1>1, <1>4, <1>5, <1>6 DEF MakerDone, MakerStays
<1>8. BookSound(o, rw, c)  BY <1>1, <1>3, <1>6, CommitKeepsBook
<1>9. c = CommitRecord(o, s, f)  BY <1>2, <1>6, CommitFields
<1> QED  BY <1>1, <1>7, <1>8, <1>9 DEF CommitRecord

-----------------------------------------------------------------------------
(* An execution follows its plan, with the funds for every fill of it.      *)

\* The plan of the arriving order, on the book it finds.
PlanOf(o) == PlanFills(BookOf(o.symbol), o)

\* The rows of positions the plan touches (check_positions).
TouchedRows(o) ==
    UNION {{<<o.account, o.symbol>>, <<PlanOf(o)[i].account, o.symbol>>} : i \in DOMAIN PlanOf(o)}

\* What an execution has left of everything it started from, if it made no trade.
NothingDone(o, e, l) ==
    /\ e.book = BookOf(o.symbol) /\ e.rows = rows /\ e.openOrders = openOrders
    /\ e.positions = positions /\ e.left = o.qty /\ e.trades = trades
    /\ l = ReservedFor(o)

\* What every turn of an execution leaves sound.
Accountable(o, e, l) ==
    /\ BookSound(o, rows, e)
    /\ e.left \in Nat
    /\ MoneySound(e.positions, e.trades)
    /\ FundsAt(l, lastSeen, e.positions, RowsWith(o, e.rows, e.left))
    /\ DOMAIN e.positions \subseteq DOMAIN positions \cup TouchedRows(o)
    /\ Len(trades) < Len(e.trades) \/ NothingDone(o, e, l)

\* A turn that has taken the first k fills of the plan.
Follows(o, n, k, e, l) ==
    /\ Accountable(o, e, l)
    /\ InPlan(o, e.book, e.left, PlanOf(o), n, k)

\* A fill taken from the book is the next of the plan, and its funds are there.
LEMMA FollowStep ==
    ASSUME trades \in Seq(Trade), NEW o, OrderFits(o), o.id \notin DOMAIN rows,
           NEW n, PlanFits(PlanOf(o), n), NEW k, NEW e, NEW l, Follows(o, n, k, e, l),
           e.left # 0, HasNextFill(e.book, o), NEW f, f = NextFill(e.book, o, e.left),
           FillFits(o, e.positions, f), CanSettle(l, f.maker, o.id, f.price, f.qty),
           NEW lc, NEW c, c = CommitFill(o, Settled(e, lc), f)
    PROVE  /\ Follows(o, n, k + 1, c, AfterSettle(l, f.maker, o.id, f.price, f.qty))
           /\ c.stop = e.stop /\ c.ledger = lc
           /\ c.positions = BookLegs(o, e.positions, f)
<1> DEFINE m == AfterSettle(l, f.maker, o.id, f.price, f.qty)
           s == Settled(e, lc)
<1>1. /\ BookSound(o, rows, e) /\ e.left \in Nat /\ e.left \in Tenths
      /\ MoneySound(e.positions, e.trades)
      /\ FundsAt(l, lastSeen, e.positions, RowsWith(o, e.rows, e.left))
      /\ DOMAIN e.positions \subseteq DOMAIN positions \cup TouchedRows(o)
      /\ InPlan(o, e.book, e.left, PlanOf(o), n, k)
      /\ BookFits(e.book)
    BY DEF Follows, Accountable, BookSound, Tenths
<1>2. TakesFront(e.book, o, f) /\ f.qty <= e.left /\ f.qty \in Tenths
    BY <1>1, NextFillTakesFront DEF TakesFront
<1>3. /\ MakerDone(c, o, e, f) \/ MakerStays(c, o, e, f)
      /\ BookSound(o, rows, c)
      /\ c.book = AfterTaking(e.book, o, f)
      /\ c.left = e.left - f.qty /\ c.stop = e.stop /\ c.ledger = lc
      /\ c.positions = BookLegs(o, e.positions, f)
      /\ c.trades = Append(e.trades, TradeOf(o, f))
    BY <1>1, <1>2, SettledParts
<1>4. c.left \in Nat  BY <1>1, <1>2, <1>3 DEF Tenths
<1>5. MoneySound(c.positions, c.trades)
    <2>1. /\ IsExec(s) /\ s.positions = e.positions /\ s.trades = e.trades /\ s.book = e.book
        BY <1>1, SettledKeepsBook DEF BookSound
    <2> HIDE DEF s
    <2>2. MoneySound(CommitFill(o, s, f).positions, CommitFill(o, s, f).trades)
        BY <1>1, <1>2, <2>1, CommitKeepsMoney
    <2> QED  BY <2>2 DEF s
<1>6. FundsAt(m, lastSeen, c.positions, RowsWith(o, c.rows, c.left))
    <2>1. FundsAt(m, lastSeen, BookLegs(o, e.positions, f), RowsWith(o, c.rows, e.left - f.qty))
        BY <1>1, <1>2, <1>3, FillKeepsFunds
    <2> QED  BY <2>1, <1>3
<1>7. /\ k + 1 \in 1..n
      /\ PlanOf(o)[k + 1] = f
      /\ InPlan(o, AfterTaking(e.book, o, f), e.left - f.qty, PlanOf(o), n, k + 1)
    BY <1>1, PlanStep
<1>8. DOMAIN c.positions \subseteq DOMAIN positions \cup TouchedRows(o)
    <2>1. DOMAIN BookLegs(o, e.positions, f)
             = DOMAIN e.positions \cup {<<f.account, o.symbol>>, <<o.account, o.symbol>>}
        BY DEF BookLegs, Put
    <2>2. DOMAIN PlanOf(o) = 1..n  BY DEF PlanFits
    <2>3. {<<f.account, o.symbol>>, <<o.account, o.symbol>>} \subseteq TouchedRows(o)
        <3> HIDE DEF PlanOf
        <3>1. k + 1 \in DOMAIN PlanOf(o) /\ PlanOf(o)[k + 1].account = f.account
            BY <1>7, <2>2
        <3> QED  BY <3>1 DEF TouchedRows
    <2> QED  BY <1>1, <1>3, <2>1, <2>3
<1>9. Len(trades) < Len(c.trades)
    <2>1. e.trades \in Seq(Trade)  BY <1>1 DEF MoneySound
    <2>2. Len(trades) <= Len(e.trades)
        <3>1. Len(trades) \in Nat /\ Len(e.trades) \in Nat  BY <2>1, LenProperties
        <3> QED  BY <3>1 DEF Follows, Accountable, NothingDone
    <2>3. c.trades = Append(e.trades, TradeOf(o, f)) /\ Len(c.trades) = Len(e.trades) + 1
        BY <1>3, <2>1
    <2>4. Len(trades) \in Nat /\ Len(e.trades) \in Nat  BY <2>1, LenProperties
    <2> QED  BY <2>2, <2>3, <2>4
<1> HIDE DEF m
<1>10. Accountable(o, c, m)
    BY <1>3, <1>4, <1>5, <1>6, <1>8, <1>9 DEF Accountable
<1>11. InPlan(o, c.book, c.left, PlanOf(o), n, k + 1)  BY <1>3, <1>7
<1> QED  BY <1>3, <1>10, <1>11 DEF Follows, m

\* What staging starts from.
StageBase(o) == [positions |-> positions, ledger |-> ReservedFor(o), fits |-> TRUE]

\* The funded preflight, and the staged plan: every fill of the plan fits.
PlanPaid(o, n, S) == StageChain(S, o, StageBase(o), PlanOf(o), n)

\* A turn of `execute`: with the plan paid for, no turn stops.
Turning(o, n, S, k, e) ==
    /\ Follows(o, n, k, e, e.ledger)
    /\ e.stop \in {"no", "overflow"}
    /\ IsFunded => /\ e.stop = "no"
                   /\ e.positions = S[1..k].positions
                   /\ e.ledger = S[1..k].ledger

\* One turn of `execute`: a fill of the plan, or the overflow that stops it.
LEMMA TurnFollows ==
    ASSUME trades \in Seq(Trade), NEW o, OrderFits(o), o.id \notin DOMAIN rows,
           NEW n, PlanFits(PlanOf(o), n), NEW S, IsFunded => PlanPaid(o, n, S),
           NEW k, NEW e, Turning(o, n, S, k, e), NEW x, x = ExecuteNext(o, e)
    PROVE  Turning(o, n, S, k, x) \/ Turning(o, n, S, k + 1, x)
<1>1. CASE OrderDone(o, e)
    BY <1>1 DEF ExecuteNext, OrderDone
<1>2. CASE ~OrderDone(o, e)
    <2> DEFINE f == NextFill(e.book, o, e.left)
               m == AfterSettle(e.ledger, f.maker, o.id, f.price, f.qty)
    <2>1. /\ e.stop = "no" /\ e.left # 0 /\ HasNextFill(e.book, o)
          /\ x = ExecuteFill(o, e, f)
        BY <1>2 DEF OrderDone, ExecuteNext
    <2>2. /\ Follows(o, n, k, e, e.ledger) /\ Accountable(o, e, e.ledger)
          /\ BookSound(o, rows, e) /\ BookFits(e.book)
          /\ InPlan(o, e.book, e.left, PlanOf(o), n, k)
        BY DEF Turning, Follows, Accountable, BookSound
    <2>3. k + 1 \in 1..n /\ PlanOf(o)[k + 1] = f /\ k \in Nat
        <3>1. k + 1 \in 1..n /\ PlanOf(o)[k + 1] = f  BY <2>1, <2>2, PlanStep
        <3> QED  BY <3>1, <2>2 DEF InPlan
    <2>4. IsFunded => StageStep(o, S[1..k], f, S[1..(k + 1)])
        <3>1. IsFunded => \A i \in 1..n : StageStep(o, S[1..(i - 1)], PlanOf(o)[i], S[1..i])
            BY DEF PlanPaid, StageChain
        <3>2. k + 1 - 1 = k  BY <2>3
        <3> HIDE DEF f
        <3> QED  BY <3>1, <3>2, <2>3
    <2> HIDE DEF f
    <2>5. /\ IsFunded => FillFits(o, e.positions, f)
          /\ CanSettle(e.ledger, f.maker, o.id, f.price, f.qty)
        <3>1. CASE IsFunded  BY <2>4, <3>1 DEF StageStep, Turning
        <3>2. CASE ~IsFunded  BY <3>2 DEF CanSettle
        <3> QED  BY <3>1, <3>2
    <2>6. CASE ~FillFits(o, e.positions, f)
        <3>1. x = [e EXCEPT !.stop = "overflow"]  BY <2>1, <2>6 DEF ExecuteFill
        <3>2. Stopped(e, x) /\ IsExec(e)  BY <3>1, <2>2 DEF Stopped, BookSound
        <3>3. /\ x = [book |-> e.book, ledger |-> e.ledger, positions |-> e.positions,
                      openOrders |-> e.openOrders, rows |-> e.rows, trades |-> e.trades,
                      left |-> e.left, stop |-> x.stop]
            BY <3>2, StoppedFields
        <3>4. x.stop = "overflow"  BY <3>1, <3>2 DEF IsExec
        <3>5. BookSound(o, rows, x)  BY <3>2, <2>2, StoppedKeepsBook
        <3>6. /\ x.book = e.book /\ x.ledger = e.ledger /\ x.positions = e.positions
              /\ x.openOrders = e.openOrders /\ x.rows = e.rows /\ x.trades = e.trades
              /\ x.left = e.left
            BY <3>3
        <3>7. Accountable(o, x, x.ledger)
            BY <2>2, <3>5, <3>6 DEF Accountable, NothingDone
        <3>8. Follows(o, n, k, x, x.ledger)  BY <2>2, <3>6, <3>7 DEF Follows
        <3> QED  BY <2>5, <2>6, <3>4, <3>8 DEF Turning
    <2>7. CASE FillFits(o, e.positions, f)
        <3>1. x = CommitFill(o, Settled(e, m), f)
            BY <2>1, <2>5, <2>7 DEF ExecuteFill, Settled
        <3>2. /\ Follows(o, n, k + 1, x, m)
              /\ x.stop = e.stop /\ x.ledger = m
              /\ x.positions = BookLegs(o, e.positions, f)
            BY <2>1, <2>2, <2>5, <2>7, <3>1, FollowStep DEF f
        <3>3. IsFunded => /\ S[1..(k + 1)].positions = BookLegs(o, e.positions, f)
                          /\ S[1..(k + 1)].ledger = m
            BY <2>4 DEF StageStep, Turning
        <3> HIDE DEF m
        <3> QED  BY <2>1, <3>2, <3>3 DEF Turning
    <2> QED  BY <2>6, <2>7
<1> QED  BY <1>1, <1>2

\* A turn of `execute_fok`, on the ledger the staged plan left.
PlannedTurning(o, n, S, k, e) ==
    /\ Follows(o, n, k, e, S[1..k].ledger)
    /\ e.stop = "no"
    /\ e.positions = S[1..k].positions
    /\ e.ledger = S[1..n].ledger

\* One turn of `execute_fok`: the book still shows the maker the plan names.
LEMMA PlannedFollows ==
    ASSUME trades \in Seq(Trade), NEW o, OrderFits(o), o.id \notin DOMAIN rows,
           NEW n, PlanFits(PlanOf(o), n), NEW S, PlanPaid(o, n, S),
           NEW k \in Nat, k < n, NEW e, PlannedTurning(o, n, S, k, e),
           NEW x, x = ExecutePlanned(o, e, PlanOf(o)[k + 1])
    PROVE  PlannedTurning(o, n, S, k + 1, x)
<1> DEFINE f == NextFill(e.book, o, e.left)
           l == S[1..k].ledger
           m == AfterSettle(l, f.maker, o.id, f.price, f.qty)
<1>1. /\ Follows(o, n, k, e, l)
      /\ BookSound(o, rows, e) /\ BookFits(e.book) /\ IsExec(e) /\ e.left \in Nat
      /\ InPlan(o, e.book, e.left, PlanOf(o), n, k)
      /\ e.stop = "no"
    BY DEF PlannedTurning, Follows, Accountable, BookSound
<1>2. e.left # 0 /\ HasNextFill(e.book, o)  BY <1>1, PlanHasNext
<1>3. k + 1 \in 1..n /\ PlanOf(o)[k + 1] = f  BY <1>1, <1>2, PlanStep
<1>4. StageStep(o, S[1..k], f, S[1..(k + 1)])
    <2>1. \A i \in 1..n : StageStep(o, S[1..(i - 1)], PlanOf(o)[i], S[1..i])
        BY DEF PlanPaid, StageChain
    <2>2. k + 1 - 1 = k  OBVIOUS
    <2> HIDE DEF f
    <2> QED  BY <2>1, <2>2, <1>3
<1>5. NextFill(e.book, o, f.qty) = f
    <2>1. e.left \in Tenths  BY <1>1, <1>2 DEF Tenths
    <2>2. /\ TakesFront(e.book, o, f) /\ f.qty <= e.left /\ f.qty \in Tenths
        BY <1>1, <1>2, <2>1, NextFillTakesFront DEF TakesFront
    <2> DEFINE w == Head(e.book[Facing(o.side)][BestFacing(e.book, o)])
    <2>3. f.price = BestFacing(e.book, o)  BY DEF NextFill
    <2>4. w = MakerFor(e.book, o, f)  BY <2>3 DEF MakerFor
    <2>5. f.qty <= w.qty  BY <2>2, <2>4 DEF TakesFront
    <2>6. \A want : NextFill(e.book, o, want) =
             [maker |-> w.id, account |-> w.account, price |-> BestFacing(e.book, o),
              qty |-> IF want <= w.qty THEN want ELSE w.qty]
        BY DEF NextFill
    <2>7. f = [maker |-> w.id, account |-> w.account, price |-> BestFacing(e.book, o),
               qty |-> IF e.left <= w.qty THEN e.left ELSE w.qty]
        BY <2>6
    <2> HIDE DEF w, f
    <2>8. f = [maker |-> w.id, account |-> w.account,
               price |-> BestFacing(e.book, o), qty |-> f.qty]
        BY <2>7
    <2>9. NextFill(e.book, o, f.qty)
             = [maker |-> w.id, account |-> w.account, price |-> BestFacing(e.book, o),
                qty |-> IF f.qty <= w.qty THEN f.qty ELSE w.qty]
        BY <2>6
    <2> QED  BY <2>5, <2>8, <2>9
<1> HIDE DEF f
<1>6. x = CommitFill(o, e, f)  BY <1>1, <1>2, <1>3, <1>5 DEF ExecutePlanned
<1>7. e = Settled(e, e.ledger)
    <2>1. Settled(e, e.ledger) = [book |-> e.book, ledger |-> e.ledger, positions |-> e.positions,
              openOrders |-> e.openOrders, rows |-> e.rows, trades |-> e.trades,
              left |-> e.left, stop |-> e.stop]
        BY <1>1, SettledFields
    <2> QED  BY <2>1, <1>1 DEF IsExec
<1>8. FillFits(o, e.positions, f) /\ CanSettle(l, f.maker, o.id, f.price, f.qty)
    BY <1>4 DEF StageStep, PlannedTurning
<1>9. x = CommitFill(o, Settled(e, e.ledger), f)  BY <1>6, <1>7
<1>10. /\ Follows(o, n, k + 1, x, m)
       /\ x.stop = e.stop /\ x.ledger = e.ledger
       /\ x.positions = BookLegs(o, e.positions, f)
    BY <1>1, <1>2, <1>8, <1>9, FollowStep DEF f
<1>11. S[1..(k + 1)].positions = BookLegs(o, e.positions, f) /\ S[1..(k + 1)].ledger = m
    BY <1>4 DEF StageStep, PlannedTurning
<1> HIDE DEF m, l
<1> QED  BY <1>1, <1>10, <1>11 DEF PlannedTurning

\* The reservation of an admitted order.
LEMMA ReservationIsSound ==
    ASSUME RowsFit(rows), FundsAt(ledger, lastSeen, positions, rows),
           NEW o, OrderFits(o), o.id \notin DOMAIN rows, FundsAndPlanFit(o)
    PROVE  FundsAt(ReservedFor(o), lastSeen, positions, RowsWith(o, rows, o.qty))
<1> DEFINE m == ReservedFor(o)
           R == RowsWith(o, rows, o.qty)
<1>1. /\ o.account \in Accounts /\ o.symbol \in Symbols /\ o.side \in Sides
      /\ o.limit \in Int /\ o.qty \in Int /\ o.qty # 0
    BY DEF OrderFits, Cents, Tenths
<1>2. LedgerSound(ledger) /\ ledger.last = lastSeen /\ PositionsFit(positions)
    BY DEF FundsAt
<1>3. CASE ~IsFunded
    <2>1. m = ledger  BY <1>3 DEF ReservedFor, AfterReserve
    <2> QED  BY <1>2, <1>3, <2>1 DEF FundsAt
<1>4. CASE IsFunded
    <2>1. CanReserve(ledger, o.id, o.account, o.symbol, o.side, o.limit, o.qty)
        BY <1>4 DEF FundsAndPlanFit
    <2>2. m = AfterReserve(ledger, o.id, o.account, o.symbol, o.side, o.limit, o.qty)
        BY DEF ReservedFor
    <2> HIDE DEF m
    <2>3. Reserved(ledger, m, o.id, [account |-> o.account, symbol |-> o.symbol, side |-> o.side,
                                     price |-> o.limit, qty |-> o.qty])
        BY <1>1, <1>2, <1>4, <2>1, <2>2, ReserveIsSound
    <2>4. /\ LedgerSound(m) /\ SameTotals(m, ledger) /\ m.last = lastSeen
          /\ DOMAIN m.resv = DOMAIN ledger.resv \cup {o.id}
          /\ TermsOf(m.resv[o.id]) = OwnRow(o, o.qty)
          /\ \A i \in DOMAIN ledger.resv \ {o.id} : m.resv[i] = ledger.resv[i]
        BY <1>2, <2>3 DEF Reserved, OwnRow
    <2>5. Mirrors(ledger, rows) /\ AgreesWith(ledger, positions)  BY <1>4 DEF FundsAt
    <2>6. /\ DOMAIN R = DOMAIN rows \cup {o.id}
          /\ R[o.id] = OwnRow(o, o.qty)
          /\ \A i \in DOMAIN rows : R[i] = rows[i]
        BY <1>1 DEF RowsWith, Put
    <2> HIDE DEF R
    <2>7. Mirrors(m, R)
        <3>1. DOMAIN m.resv = DOMAIN R  BY <2>4, <2>5, <2>6 DEF Mirrors
        <3>2. \A i \in DOMAIN rows : TermsOf(m.resv[i]) = R[i]
            BY <2>4, <2>5, <2>6 DEF Mirrors
        <3> QED  BY <2>4, <2>6, <3>1, <3>2 DEF Mirrors
    <2>8. AgreesWith(m, positions)
        <3>1. \A a \in Accounts, asset \in Assets : Total(m, a, asset) = Total(ledger, a, asset)
            BY <2>4 DEF SameTotals
        <3> QED  BY <2>5, <3>1 DEF AgreesWith
    <2>9. FundsAt(m, lastSeen, positions, R)  BY <1>2, <2>4, <2>7, <2>8 DEF FundsAt
    <2> QED  BY <2>9 DEF m, R
<1> QED  BY <1>3, <1>4

\* One number of fills, however the plan is looked at.
LEMMA OnePlanLength ==
    ASSUME Sound(books, rows, openOrders), NEW o, OrderFits(o)
    PROVE  \E n : PlanFits(PlanOf(o), n) /\ PlanByRank(BookOf(o.symbol), o, n)
<1>1. BookFits(BookOf(o.symbol))  BY StartingIsSound
<1>2. PICK n : PlanFits(PlanOf(o), n)  BY <1>1, PlanIsTyped DEF PlanOf
<1>3. PICK j : PlanByRank(BookOf(o.symbol), o, j)  BY <1>1, PlanRanks
<1>4. DOMAIN PlanOf(o) = 1..n /\ n \in Nat  BY <1>2 DEF PlanFits
<1>5. DOMAIN PlanOf(o) = 1..j /\ j \in Nat  BY <1>3 DEF PlanByRank, PlanOf
<1>6. n = j  BY <1>4, <1>5
<1> QED  BY <1>2, <1>3, <1>6

\* The order as admission leaves it: nothing of the plan is taken yet.
LEMMA StartFollows ==
    ASSUME Sound(books, rows, openOrders), MoneySound(positions, trades),
           FundsAt(ledger, lastSeen, positions, rows), NEW o, OrderFits(o), o.id \notin DOMAIN rows,
           FundsAndPlanFit(o), NEW n, PlanByRank(BookOf(o.symbol), o, n), NEW l
    PROVE  Follows(o, n, 0, Starting(o, l), ReservedFor(o))
<1> DEFINE e == Starting(o, l)
<1>1. BookSound(o, rows, e) /\ BookFits(BookOf(o.symbol))  BY StartingIsSound
<1>2. /\ e.book = BookOf(o.symbol) /\ e.rows = rows /\ e.openOrders = openOrders
      /\ e.positions = positions /\ e.left = o.qty /\ e.trades = trades
    BY DEF Starting
<1>3. o.qty \in Nat  BY DEF OrderFits, Tenths
<1>4. FundsAt(ReservedFor(o), lastSeen, positions, RowsWith(o, rows, o.qty))
    BY ReservationIsSound DEF Sound
<1>5. InPlan(o, BookOf(o.symbol), o.qty, PlanOf(o), n, 0)  BY <1>1, PlanStarts DEF PlanOf
<1> HIDE DEF e
<1>6. Accountable(o, e, ReservedFor(o))
    BY <1>1, <1>2, <1>3, <1>4 DEF Accountable, NothingDone
<1> QED  BY <1>2, <1>5, <1>6 DEF Follows, e

\* What admission staged are the ledgers and positions of every prefix of the plan.
LEMMA PlanIsPaid ==
    ASSUME NEW o, FundsAndPlanFit(o), IsStaged(o) \/ IsFunded, NEW n, PlanFits(PlanOf(o), n)
    PROVE  \E S : PlanPaid(o, n, S)
<1>1. Staged(o).fits  BY DEF FundsAndPlanFit
<1>2. Staged(o) = StagePlan(o, StageBase(o), PlanOf(o))  BY DEF Staged, StageBase, PlanOf
<1>3. IsStage(StageBase(o)) /\ StageBase(o).fits = TRUE  BY DEF IsStage, StageBase
<1>4. StagePlan(o, StageBase(o), PlanOf(o)).fits  BY <1>1, <1>2
<1> QED  BY <1>3, <1>4, StageRuns DEF PlanPaid

\* execute, to its end
LEMMA TurnsFollow ==
    ASSUME Sound(books, rows, openOrders), MoneySound(positions, trades),
           FundsAt(ledger, lastSeen, positions, rows), NEW o, OrderFits(o), o.id \notin DOMAIN rows,
           FundsAndPlanFit(o), NEW x, x = ExecuteTurns(o, Starting(o, ReservedFor(o)), o.qty)
    PROVE  Accountable(o, x, x.ledger) /\ x.stop \in {"no", "overflow"}
<1> DEFINE e == Starting(o, ReservedFor(o))
<1>1. PICK n : PlanFits(PlanOf(o), n) /\ PlanByRank(BookOf(o.symbol), o, n)  BY OnePlanLength
<1>2. \E S : IsFunded => PlanPaid(o, n, S)  BY <1>1, PlanIsPaid
<1>3. PICK S : IsFunded => PlanPaid(o, n, S)  BY <1>2
<1>4. o.qty \in Nat /\ trades \in Seq(Trade)  BY DEF OrderFits, Tenths, MoneySound
<1>5. PICK g : /\ g[1..0] = e
               /\ \A k \in 1..o.qty : g[1..k] = ExecuteNext(o, g[1..(k - 1)])
               /\ ExecuteTurns(o, e, o.qty) = g[1..o.qty]
    BY <1>4, TurnsOfExecute
<1>6. Turning(o, n, S, 0, e)
    <2>1. Follows(o, n, 0, e, ReservedFor(o))  BY <1>1, StartFollows
    <2>2. e.ledger = ReservedFor(o) /\ e.stop = "no" /\ e.positions = positions  BY DEF Starting
    <2>3. IsFunded => S[1..0] = StageBase(o)  BY <1>3 DEF PlanPaid, StageChain
    <2>4. StageBase(o).positions = positions /\ StageBase(o).ledger = ReservedFor(o)
        BY DEF StageBase
    <2> HIDE DEF e
    <2> QED  BY <2>1, <2>2, <2>3, <2>4 DEF Turning
<1> HIDE DEF e
<1> DEFINE Good == {j \in Nat : j <= o.qty => \E k : Turning(o, n, S, k, g[1..j])}
<1>7. 0 \in Good
    <2>1. Turning(o, n, S, 0, g[1..0])  BY <1>5, <1>6
    <2> QED  BY <2>1
<1>8. \A j \in Nat : j \in Good => j + 1 \in Good
    <2> SUFFICES ASSUME NEW j \in Nat, j \in Good, j + 1 <= o.qty
                 PROVE  \E k : Turning(o, n, S, k, g[1..(j + 1)])
        OBVIOUS
    <2>1. j <= o.qty /\ j + 1 \in 1..o.qty /\ j + 1 - 1 = j  BY <1>4
    <2>2. PICK k : Turning(o, n, S, k, g[1..j])  BY <2>1
    <2>3. g[1..(j + 1)] = ExecuteNext(o, g[1..j])  BY <1>5, <2>1
    <2>4. Turning(o, n, S, k, g[1..(j + 1)]) \/ Turning(o, n, S, k + 1, g[1..(j + 1)])
        BY <1>1, <1>3, <1>4, <2>2, <2>3, TurnFollows
    <2> QED  BY <2>4
<1>9. o.qty \in Good
    <2> HIDE DEF Good
    <2> QED  BY <1>4, <1>7, <1>8, EveryNatural
<1>10. PICK k : Turning(o, n, S, k, g[1..o.qty])  BY <1>4, <1>9
<1>11. x = g[1..o.qty]  BY <1>5 DEF e
<1> QED  BY <1>10, <1>11 DEF Turning, Follows

\* execute_fok, to its end
LEMMA PlannedTurnsFollow ==
    ASSUME Sound(books, rows, openOrders), MoneySound(positions, trades),
           FundsAt(ledger, lastSeen, positions, rows), NEW o, OrderFits(o), o.id \notin DOMAIN rows,
           FundsAndPlanFit(o), IsStaged(o),
           NEW x, x = ExecutePlan(o, Starting(o, Staged(o).ledger), PlanOf(o))
    PROVE  Accountable(o, x, x.ledger) /\ x.stop \in {"no", "overflow"}
<1> DEFINE e == Starting(o, Staged(o).ledger)
<1>1. PICK n : PlanFits(PlanOf(o), n) /\ PlanByRank(BookOf(o.symbol), o, n)  BY OnePlanLength
<1>2. PICK S : PlanPaid(o, n, S)  BY <1>1, PlanIsPaid
<1>3. n \in Nat /\ DOMAIN PlanOf(o) = 1..n /\ trades \in Seq(Trade)
    BY <1>1 DEF PlanFits, MoneySound
<1>4. \E g : PlanTurns(g, o, e, PlanOf(o), n)
    <2> HIDE DEF e, PlanOf
    <2> QED  BY <1>3, TurnsOfPlan
<1>5. PICK g : PlanTurns(g, o, e, PlanOf(o), n)  BY <1>4
<1>6. PlannedTurning(o, n, S, 0, e)
    <2>1. Follows(o, n, 0, e, ReservedFor(o))  BY <1>1, StartFollows
    <2>2. e.ledger = Staged(o).ledger /\ e.stop = "no" /\ e.positions = positions  BY DEF Starting
    <2>3. S[1..0] = StageBase(o) /\ StagePlan(o, StageBase(o), PlanOf(o)) = S[1..n]
        BY <1>2 DEF PlanPaid, StageChain
    <2>4. StageBase(o).positions = positions /\ StageBase(o).ledger = ReservedFor(o)
        BY DEF StageBase
    <2>5. Staged(o) = S[1..n]  BY <2>3 DEF Staged, StageBase, PlanOf
    <2> HIDE DEF e
    <2> QED  BY <2>1, <2>2, <2>3, <2>4, <2>5 DEF PlannedTurning
<1> HIDE DEF e
<1>7. /\ g[1..0] = e /\ ExecutePlan(o, e, PlanOf(o)) = g[1..n]
      /\ \A k \in 1..n : g[1..k] = ExecutePlanned(o, g[1..(k - 1)], PlanOf(o)[k])
    BY <1>5 DEF PlanTurns
<1> DEFINE Good == {j \in Nat : j <= n => PlannedTurning(o, n, S, j, g[1..j])}
<1>8. 0 \in Good  BY <1>6, <1>7
<1>9. \A j \in Nat : j \in Good => j + 1 \in Good
    <2> SUFFICES ASSUME NEW j \in Nat, j \in Good, j + 1 <= n
                 PROVE  PlannedTurning(o, n, S, j + 1, g[1..(j + 1)])
        OBVIOUS
    <2>1. j <= n /\ j < n /\ j + 1 \in 1..n /\ j + 1 - 1 = j  BY <1>3
    <2>2. PlannedTurning(o, n, S, j, g[1..j])  BY <2>1
    <2>3. g[1..(j + 1)] = ExecutePlanned(o, g[1..j], PlanOf(o)[j + 1])  BY <1>7, <2>1
    <2> QED  BY <1>1, <1>2, <1>3, <2>1, <2>2, <2>3, PlannedFollows
<1>10. n \in Good
    <2> HIDE DEF Good
    <2> QED  BY <1>3, <1>8, <1>9, EveryNatural
<1>11. PlannedTurning(o, n, S, n, g[1..n])  BY <1>3, <1>10
<1>12. x = g[1..n]  BY <1>7 DEF e
<1> QED  BY <1>11, <1>12 DEF PlannedTurning, Follows

\* Whatever is admitted, executing it never panics, and its ledger, positions
\* and rows stay together.
LEMMA ExecutionFollows ==
    ASSUME Sound(books, rows, openOrders), MoneySound(positions, trades),
           FundsAt(ledger, lastSeen, positions, rows), NEW o, OrderFits(o), o.id \notin DOMAIN rows,
           FundsAndPlanFit(o), NEW x, x = Execution(o)
    PROVE  Accountable(o, x, x.ledger) /\ x.stop \in {"no", "overflow"}
<1>1. CASE IsStaged(o)  BY <1>1, PlannedTurnsFollow DEF Execution, PlanOf
<1>2. CASE ~IsStaged(o)  BY <1>2, TurnsFollow DEF Execution
<1> QED  BY <1>1, <1>2

-----------------------------------------------------------------------------
(* What is left of the order rests or gives its reservation back, and the    *)
(* message counts as consumed.                                              *)

\* What does not rest gives back what it still holds.
LEMMA RemainderReleased ==
    ASSUME NEW o, NEW x, Accountable(o, x, x.ledger), x.left # 0, o.id \notin DOMAIN rows
    PROVE  /\ CanRelease(x.ledger, o.id)
           /\ FundsAt(AfterRelease(x.ledger, o.id), lastSeen, x.positions, x.rows)
<1> DEFINE l == x.ledger
           m == AfterRelease(l, o.id)
<1>1. /\ FundsAt(l, lastSeen, x.positions, RowsWith(o, x.rows, x.left))
      /\ BookSound(o, rows, x)
    BY DEF Accountable
<1>2. LedgerSound(l) /\ l.last = lastSeen /\ PositionsFit(x.positions)  BY <1>1 DEF FundsAt
<1>3. CanRelease(l, o.id) /\ Released(l, m, o.id)  BY <1>2, ReleaseIsSound
<1> HIDE DEF m, l
<1>4. /\ LedgerSound(m) /\ SameTotals(m, l) /\ m.last = lastSeen
      /\ DOMAIN m.resv = DOMAIN l.resv \ {o.id}
      /\ \A i \in DOMAIN l.resv \ {o.id} : m.resv[i] = l.resv[i]
    BY <1>2, <1>3 DEF Released
<1>5. CASE ~IsFunded  BY <1>2, <1>3, <1>4, <1>5 DEF FundsAt, m, l
<1>6. CASE IsFunded
    <2> DEFINE R == RowsWith(o, x.rows, x.left)
    <2>1. Mirrors(l, R) /\ AgreesWith(l, x.positions)  BY <1>1, <1>6 DEF FundsAt
    <2>2. o.id \notin DOMAIN x.rows  BY <1>1 DEF BookSound
    <2>3. DOMAIN R = DOMAIN x.rows \cup {o.id} /\ \A i \in DOMAIN x.rows : R[i] = x.rows[i]
        BY <2>2 DEF RowsWith, Put
    <2> HIDE DEF R
    <2>4. DOMAIN m.resv = DOMAIN x.rows  BY <1>4, <2>1, <2>2, <2>3 DEF Mirrors
    <2>5. \A i \in DOMAIN x.rows : TermsOf(m.resv[i]) = x.rows[i]
        BY <1>4, <2>1, <2>2, <2>3 DEF Mirrors
    <2>6. Mirrors(m, x.rows)  BY <2>4, <2>5 DEF Mirrors
    <2>7. AgreesWith(m, x.positions)
        <3>1. \A a \in Accounts, asset \in Assets : Total(m, a, asset) = Total(l, a, asset)
            BY <1>4 DEF SameTotals
        <3> QED  BY <2>1, <3>1 DEF AgreesWith
    <2> QED  BY <1>2, <1>3, <1>4, <2>6, <2>7 DEF FundsAt, m, l
<1> QED  BY <1>5, <1>6

\* The step of a finished order: nothing panics, the ledger follows, and an
\* order that neither trades nor rests has changed nothing.
OrderSettled(o, e) ==
    /\ e.stop # "panic"
    /\ FundsAt(e.ledger, lastSeen, e.positions, e.rows)
    /\ DOMAIN e.positions \subseteq DOMAIN positions \cup TouchedRows(o)
    /\ \/ Len(trades) < Len(e.trades)
       \/ o.id \in DOMAIN e.openOrders
       \/ /\ e.book = BookOf(o.symbol) /\ e.rows = rows /\ e.openOrders = openOrders
          /\ e.positions = positions /\ e.trades = trades
          /\ e.ledger = AfterRelease(ReservedFor(o), o.id)

\* Step 6 never panics.
LEMMA RemainderFollows ==
    ASSUME NEW o, OrderFits(o), o.id \notin DOMAIN rows, NEW x, Accountable(o, x, x.ledger),
           x.stop \in {"no", "overflow"}, NEW e, e = AfterRemainder(o, x)
    PROVE  OrderSettled(o, e)
<1>1. /\ BookSound(o, rows, x) /\ IsExec(x) /\ x.left \in Nat
      /\ FundsAt(x.ledger, lastSeen, x.positions, RowsWith(o, x.rows, x.left))
      /\ DOMAIN x.positions \subseteq DOMAIN positions \cup TouchedRows(o)
      /\ Len(trades) < Len(x.trades) \/ NothingDone(o, x, x.ledger)
    BY DEF Accountable, BookSound
<1>2. CASE x.stop = "no" /\ Rests(o, x.left)
    <2>1. e = RestRecord(o, x)  BY <1>1, <1>2, RestFields DEF AfterRemainder
    <2>2. x.left # 0  BY <1>1, <1>2 DEF Rests
    <2>3. /\ e.stop = "no" /\ e.ledger = x.ledger /\ e.positions = x.positions
          /\ e.rows = Put(x.rows, o.id, OwnRow(o, x.left))
          /\ e.openOrders = Put(x.openOrders, o.id, [symbol |-> o.symbol, side |-> o.side,
                                                     price |-> o.limit])
        BY <1>2, <2>1 DEF RestRecord
    <2>4. e.rows = RowsWith(o, x.rows, x.left)  BY <2>2, <2>3 DEF RowsWith
    <2>5. o.id \in DOMAIN e.openOrders
        <3> DEFINE entry == [symbol |-> o.symbol, side |-> o.side, price |-> o.limit]
        <3> HIDE DEF entry
        <3> QED  BY <2>3 DEF Put, entry
    <2> QED  BY <1>1, <2>3, <2>4, <2>5 DEF OrderSettled
<1>3. CASE ~(x.stop = "no" /\ Rests(o, x.left)) /\ x.left = 0
    <2>1. e = x  BY <1>3 DEF AfterRemainder
    <2>2. RowsWith(o, x.rows, x.left) = x.rows  BY <1>3 DEF RowsWith
    <2>3. ~NothingDone(o, x, x.ledger)  BY <1>3 DEF NothingDone, OrderFits, Tenths
    <2> QED  BY <1>1, <2>1, <2>2, <2>3 DEF OrderSettled
<1>4. CASE ~(x.stop = "no" /\ Rests(o, x.left)) /\ x.left # 0
    <2>1. /\ CanRelease(x.ledger, o.id)
          /\ FundsAt(AfterRelease(x.ledger, o.id), lastSeen, x.positions, x.rows)
        BY <1>4, RemainderReleased
    <2>2. e = Settled(x, AfterRelease(x.ledger, o.id))
        BY <1>4, <2>1 DEF AfterRemainder, Settled
    <2>3. /\ e.book = x.book /\ e.ledger = AfterRelease(x.ledger, o.id)
          /\ e.left = x.left /\ e.stop = x.stop
          /\ e.positions = x.positions /\ e.trades = x.trades
          /\ e.rows = x.rows /\ e.openOrders = x.openOrders
        BY <1>1, <2>2, SettledKeepsBook
    <2> QED  BY <1>1, <2>1, <2>3 DEF OrderSettled, NothingDone
<1> QED  BY <1>2, <1>3, <1>4

\* finish_sequence: the ledger has counted the messages the matcher has.
LEMMA ConsumedKeepsFunds ==
    ASSUME lastSeen \in Nat, NEW l, NEW held, NEW rw, FundsAt(l, lastSeen, held, rw), Consumed(l)
    PROVE  /\ ~panicked' /\ lastSeen' = NextId
           /\ FundsAt(ledger', lastSeen', held, rw)
           /\ ledger'.bal = l.bal /\ ledger'.resv = l.resv
<1>1. LedgerSound(l) /\ LedgerFits(l) /\ l.last = lastSeen /\ PositionsFit(held)
    BY DEF FundsAt, LedgerSound
<1>2. CanFinish(l, NextId)  BY <1>1 DEF CanFinish, NextId
<1>3. ledger' = AfterFinish(l, NextId) /\ lastSeen' = NextId /\ ~panicked'
    BY <1>2 DEF Consumed
<1>4. NextId = l.last + 1  BY <1>1 DEF NextId
<1> DEFINE m == AfterFinish(l, NextId)
<1>5. LedgerFits(m)  BY <1>1, <1>4, FinishFits
<1>6. m.bal = l.bal /\ m.resv = l.resv /\ m.last = NextId
    BY <1>1 DEF AfterFinish, LedgerFits
<1> HIDE DEF m
<1>7. LedgerSound(m)
    <2>1. \A key : Obligations(m, key) = Obligations(l, key)  BY <1>6 DEF Obligations
    <2>2. ReservesBacked(m)  BY <1>1, <1>6, <2>1 DEF ReservesBacked, LedgerSound
    <2> QED  BY <1>1, <1>5, <1>6, <2>2 DEF LedgerSound
<1>8. IsFunded => Mirrors(m, rw) /\ AgreesWith(m, held)
    <2> SUFFICES ASSUME IsFunded PROVE Mirrors(m, rw) /\ AgreesWith(m, held)  OBVIOUS
    <2>1. Mirrors(l, rw) /\ AgreesWith(l, held)  BY DEF FundsAt
    <2>2. Mirrors(m, rw)  BY <1>6, <2>1 DEF Mirrors
    <2>3. \A a, asset : Total(m, a, asset) = Total(l, a, asset)  BY <1>6 DEF Total
    <2>4. AgreesWith(m, held)  BY <2>1, <2>3 DEF AgreesWith
    <2> QED  BY <2>2, <2>4
<1>9. FundsAt(m, NextId, held, rw)  BY <1>1, <1>6, <1>7, <1>8 DEF FundsAt
<1> QED  BY <1>3, <1>6, <1>9 DEF m

-----------------------------------------------------------------------------
(* Releases: one on a cancel, any number of them when a symbol is delisted.  *)

\* One release, and one row less.
LEMMA ReleaseFollows ==
    ASSUME NEW l, NEW last, NEW held, NEW rw, RowsFit(rw), FundsAt(l, last, held, rw), NEW id
    PROVE  /\ CanRelease(l, id)
           /\ FundsAt(AfterRelease(l, id), last, held, Without(rw, {id}))
<1> DEFINE m == AfterRelease(l, id)
           rx == Without(rw, {id})
<1>1. LedgerSound(l) /\ l.last = last /\ PositionsFit(held)  BY DEF FundsAt
<1>2. CanRelease(l, id) /\ Released(l, m, id)  BY <1>1, ReleaseIsSound
<1>3. /\ DOMAIN rx = DOMAIN rw \ {id} /\ \A i \in DOMAIN rw \ {id} : rx[i] = rw[i]
    <2>1. LosesRow(rx, rw, id)  BY RowGone
    <2> QED  BY <2>1 DEF LosesRow
<1> HIDE DEF m, rx
<1>4. /\ LedgerSound(m) /\ SameTotals(m, l) /\ m.last = last
      /\ DOMAIN m.resv = DOMAIN l.resv \ {id}
      /\ \A i \in DOMAIN l.resv \ {id} : m.resv[i] = l.resv[i]
    BY <1>1, <1>2 DEF Released
<1>5. IsFunded => Mirrors(m, rx) /\ AgreesWith(m, held)
    <2> SUFFICES ASSUME IsFunded PROVE Mirrors(m, rx) /\ AgreesWith(m, held)  OBVIOUS
    <2>1. Mirrors(l, rw) /\ AgreesWith(l, held)  BY DEF FundsAt
    <2>2. Mirrors(m, rx)  BY <1>3, <1>4, <2>1 DEF Mirrors
    <2>3. \A a \in Accounts, asset \in Assets : Total(m, a, asset) = Total(l, a, asset)
        BY <1>4 DEF SameTotals
    <2> QED  BY <2>1, <2>2, <2>3 DEF AgreesWith
<1>6. FundsAt(m, last, held, rx)  BY <1>1, <1>4, <1>5 DEF FundsAt
<1> QED  BY <1>2, <1>6 DEF m, rx

\* The ledgers a delisting passes through, by the set of orders already closed.
Releasing(g, l, S) ==
    /\ g[{}] = l
    /\ \A s \in SUBSET S : s # {} =>
          \E id \in s : g[s] = AfterRelease(g[s \ {id}], id)
    /\ ReleaseAll(l, S) = g[S]

\* Releasing a set is releasing its members in some order.
LEMMA ReleasesExist ==
    ASSUME NEW l, NEW S, IsFiniteSet(S)
    PROVE  \E g : Releasing(g, l, S)
<1> DEFINE pick(s) == CHOOSE x \in s : TRUE
           Solves(g) == g = [s \in SUBSET S |->
                               IF s = {} THEN l ELSE AfterRelease(g[s \ {pick(s)}], pick(s))]
           iter == CHOOSE g : Solves(g)
           seq == [id \in S |-> id]
<1>1. PICK kind : kind = "release"  OBVIOUS
<1>2. \A g : Solves(g) <=> Turned(g, kind, l, l, seq)
    <2>1. DOMAIN seq = S /\ \A s \in SUBSET S : s # {} => pick(s) \in S /\ seq[pick(s)] = pick(s)
        OBVIOUS
    <2>2. \A g : \A s \in SUBSET S : TurnStep(g, kind, l, l, seq, s) =
              IF s = {} THEN l ELSE AfterRelease(g[s \ {pick(s)}], pick(s))
        BY <1>1, <2>1 DEF TurnStep, Turn, Pick
    <2> HIDE DEF pick, seq
    <2> QED  BY <2>1, <2>2 DEF Turned
<1>3. \E g : Turned(g, kind, l, l, seq)
    <2>1. IsFiniteSet(DOMAIN seq)  OBVIOUS
    <2> HIDE DEF seq
    <2> QED  BY <1>1, <2>1, TurnsExist
<1>4. ReleaseAll(l, S) = iter[S]
    BY DEF ReleaseAll, FoldSet, MapThenFoldSet
<1>5. Solves(iter)  BY <1>2, <1>3
<1>6. PICK h : h = iter /\ Solves(h)  BY <1>5
<1> HIDE DEF iter
<1>7. h[{}] = l  BY <1>6
<1>8. \A s \in SUBSET S : s # {} => \E id \in s : h[s] = AfterRelease(h[s \ {id}], id)
    <2> SUFFICES ASSUME NEW s \in SUBSET S, s # {}
                 PROVE  \E id \in s : h[s] = AfterRelease(h[s \ {id}], id)
        OBVIOUS
    <2>1. h[s] = AfterRelease(h[s \ {pick(s)}], pick(s))  BY <1>6
    <2>2. pick(s) \in s  OBVIOUS
    <2> HIDE DEF pick
    <2> QED  BY <2>1, <2>2
<1> QED  BY <1>4, <1>6, <1>7, <1>8 DEF Releasing

\* Any number of releases.
LEMMA ReleasesFollow ==
    ASSUME NEW l, NEW last, NEW held, NEW rw, RowsFit(rw), FundsAt(l, last, held, rw),
           NEW S, IsFiniteSet(S)
    PROVE  FundsAt(ReleaseAll(l, S), last, held, Without(rw, S))
<1>1. PICK g : Releasing(g, l, S)  BY ReleasesExist
<1> DEFINE Wrong == {s \in SUBSET S : ~FundsAt(g[s], last, held, Without(rw, s))}
<1>2. \A s : RowsFit(Without(rw, s)) /\ \A id : Without(Without(rw, s \ {id}), {id}) = Without(rw, (s \ {id}) \cup {id})
    <2> SUFFICES ASSUME NEW s PROVE /\ RowsFit(Without(rw, s))
                                    /\ \A id : Without(Without(rw, s \ {id}), {id})
                                                  = Without(rw, (s \ {id}) \cup {id})
        OBVIOUS
    <2>1. IsFiniteSet(DOMAIN rw \ s)  BY FS_Difference DEF RowsFit
    <2>2. RowsFit(Without(rw, s))  BY <2>1 DEF RowsFit, Without, Restrict
    <2> QED  BY <2>2 DEF Without, Restrict
<1>3. ASSUME Wrong # {} PROVE FALSE
    <2>1. \A s \in Wrong : IsFiniteSet(s)  BY FS_Subset
    <2>2. PICK s \in Wrong : \A x \in s : s \ {x} \notin Wrong
        <3> HIDE DEF Wrong
        <3> QED  BY <1>3, <2>1, SmallestSet
    <2>3. CASE s = {}
        <3>1. Without(rw, {}) = rw
            <4>1. DOMAIN rw \ {} = DOMAIN rw  OBVIOUS
            <4> QED  BY <4>1 DEF Without, Restrict, RowsFit
        <3> QED  BY <2>2, <2>3, <3>1, <1>1 DEF Releasing
    <2>4. CASE s # {}
        <3>1. PICK id \in s : g[s] = AfterRelease(g[s \ {id}], id)
            BY <1>1, <2>4 DEF Releasing
        <3>2. FundsAt(g[s \ {id}], last, held, Without(rw, s \ {id}))  BY <2>2, <3>1
        <3>3. FundsAt(g[s], last, held, Without(Without(rw, s \ {id}), {id}))
            BY <1>2, <3>1, <3>2, ReleaseFollows
        <3>4. (s \ {id}) \cup {id} = s  BY <3>1
        <3>5. Without(Without(rw, s \ {id}), {id}) = Without(rw, s)  BY <1>2, <3>4
        <3> QED  BY <2>2, <3>3, <3>5
    <2> QED  BY <2>3, <2>4
<1>4. S \notin Wrong  BY <1>3
<1>5. ReleaseAll(l, S) = g[S]  BY <1>1 DEF Releasing
<1> QED  BY <1>4, <1>5

-----------------------------------------------------------------------------
(* The invariant of the accounts, step by step.                             *)

\* The invariant: funds and limits, after every message.
AccountsInv ==
    /\ ~panicked
    /\ FundsAt(ledger, lastSeen, positions, rows)
    /\ IsFiniteSet(DOMAIN listings)
    /\ CapacityRespected

\* The end of apply_inner, on whatever ledger the message left.
LEMMA MessageKeepsAccounts ==
    ASSUME lastSeen \in Nat, NEW l, FundsAt(l, lastSeen, positions', rows'), Consumed(l),
           IsFiniteSet(DOMAIN listings'), CapacityRespected'
    PROVE  AccountsInv' /\ ledger'.bal = l.bal /\ ledger'.resv = l.resv
<1>1. /\ ~panicked' /\ lastSeen' = NextId
      /\ FundsAt(ledger', lastSeen', positions', rows')
      /\ ledger'.bal = l.bal /\ ledger'.resv = l.resv
    BY ConsumedKeepsFunds
<1> QED  BY <1>1 DEF AccountsInv

\* A message that leaves the market alone.
LEMMA QuietKeepsAccounts ==
    ASSUME lastSeen \in Nat, AccountsInv, Consumed(ledger),
           UNCHANGED <<positions, rows, openOrders, listings>>
    PROVE  AccountsInv' /\ UNCHANGED <<ledger.bal, ledger.resv>>
<1>1. FundsAt(ledger, lastSeen, positions', rows')  BY DEF AccountsInv
<1>2. IsFiniteSet(DOMAIN listings') /\ CapacityRespected'
    BY DEF AccountsInv, CapacityRespected
<1> QED  BY <1>1, <1>2, MessageKeepsAccounts

\* The index, the rows and the resting orders have the same ids.
LEMMA IndexHasRows ==
    ASSUME Sound(books, rows, openOrders)
    PROVE  DOMAIN openOrders = DOMAIN rows /\ IsFiniteSet(DOMAIN rows) /\ RowsFit(rows)
BY DEF Sound, IndexOf, RowsFit

\* apply_new, step 2: there is room for one more resting order.
LEMMA OrdersHaveRoom ==
    ASSUME Sound(books, rows, openOrders), Cardinality(DOMAIN openOrders) < MaxActive,
           NEW id, NEW rx, DOMAIN rx \subseteq DOMAIN rows \cup {id}
    PROVE  Cardinality(DOMAIN rx) <= MaxActive
<1>1. DOMAIN openOrders = DOMAIN rows /\ IsFiniteSet(DOMAIN rows)  BY IndexHasRows
<1>2. /\ IsFiniteSet(DOMAIN rows \cup {id})
      /\ Cardinality(DOMAIN rows \cup {id})
            = IF id \in DOMAIN rows THEN Cardinality(DOMAIN rows)
              ELSE Cardinality(DOMAIN rows) + 1
    BY <1>1, FS_AddElement
<1>3. Cardinality(DOMAIN rows) \in Nat  BY <1>1, FS_CardinalityType
<1>4. MaxActive \in Nat  BY ExchangeInputs
<1>5. Cardinality(DOMAIN rows \cup {id}) <= MaxActive /\ Cardinality(DOMAIN rows \cup {id}) \in Nat
    BY <1>1, <1>2, <1>3, <1>4, FS_CardinalityType
<1>6. /\ Cardinality(DOMAIN rx) <= Cardinality(DOMAIN rows \cup {id})
      /\ IsFiniteSet(DOMAIN rx)
    BY <1>2, FS_Subset
<1>7. Cardinality(DOMAIN rx) \in Nat  BY <1>6, FS_CardinalityType
<1> QED  BY <1>4, <1>5, <1>6, <1>7

\* check_positions: there is room for every row the fills of the plan add.
LEMMA PositionsHaveRoom ==
    ASSUME PositionsFit(positions), Cardinality(DOMAIN positions) <= MaxPositions,
           NEW o, PositionRowsFit(o), NEW n, PlanFits(PlanOf(o), n),
           NEW held, DOMAIN held \subseteq DOMAIN positions \cup TouchedRows(o)
    PROVE  Cardinality(DOMAIN held) <= MaxPositions
<1> DEFINE touch == TouchedRows(o)
           added == touch \ DOMAIN positions
           P == DOMAIN positions
<1>1. IsFiniteSet(touch)
    <2> DEFINE key == [i \in 1..n |-> <<PlanOf(o)[i].account, o.symbol>>]
    <2>1. n \in Nat /\ DOMAIN PlanOf(o) = 1..n  BY DEF PlanFits
    <2>2. IsFiniteSet(1..n)  BY <2>1, FS_Interval
    <2>3. IsFiniteSet(Range(key))
        <3>1. IsFiniteSet(DOMAIN key) /\ key = [x \in DOMAIN key |-> key[x]]  BY <2>2
        <3> HIDE DEF key
        <3> QED  BY <3>1, RangeIsFinite
    <2>4. IsFiniteSet(Range(key) \cup {<<o.account, o.symbol>>})  BY <2>3, FS_AddElement
    <2>5. touch \subseteq Range(key) \cup {<<o.account, o.symbol>>}
        <3>1. \A i \in 1..n : <<PlanOf(o)[i].account, o.symbol>> \in Range(key)
            BY DEF Range
        <3> HIDE DEF key, PlanOf
        <3> QED  BY <2>1, <3>1 DEF TouchedRows
    <2> HIDE DEF key, touch
    <2> QED  BY <2>4, <2>5, FS_Subset
<1>2. added # {} => Cardinality(P) + Cardinality(added) <= MaxPositions
    BY DEF PositionRowsFit, TouchedRows, PlanOf
<1>3. IsFiniteSet(P)  BY DEF PositionsFit
<1> HIDE DEF touch
<1>4. IsFiniteSet(added)  BY <1>1, FS_Difference
<1> HIDE DEF added
<1>5. /\ IsFiniteSet(P \cup added)
      /\ Cardinality(P \cup added)
            = Cardinality(P) + Cardinality(added) - Cardinality(P \cap added)
    BY <1>3, <1>4, FS_Union
<1>6. P \cap added = {}  BY DEF added
<1>7. Cardinality(P \cap added) = 0  BY <1>6, FS_EmptySet
<1>8. Cardinality(P) \in Nat /\ Cardinality(added) \in Nat /\ MaxPositions \in Nat
    BY <1>3, <1>4, FS_CardinalityType, ExchangeInputs
<1>9. Cardinality(P \cup added) <= MaxPositions
    <2>1. CASE added = {}  BY <2>1, <1>5
    <2>2. CASE added # {}
        <3> HIDE DEF P
        <3> QED  BY <2>2, <1>2, <1>5, <1>7, <1>8
    <2> QED  BY <2>1, <2>2
<1>10. DOMAIN held \subseteq P \cup added  BY DEF added, touch
<1>11. Cardinality(DOMAIN held) <= Cardinality(P \cup added) /\ IsFiniteSet(DOMAIN held)
    BY <1>5, <1>10, FS_Subset
<1>12. Cardinality(DOMAIN held) \in Nat /\ Cardinality(P \cup added) \in Nat
    BY <1>5, <1>11, FS_CardinalityType
<1> QED  BY <1>8, <1>9, <1>11, <1>12

\* An admitted order: what the step leaves, and what it leaves alone.
LEMMA OrderAdmitted ==
    ASSUME BooksInv, MoneySound(positions, trades), AccountsInv,
           NEW account \in Accounts, NEW symbol \in Symbols, NEW form \in Forms,
           NEW reference \in ReferencesFor(form),
           NEW arrived, arrived = Arrived(account, symbol, form),
           NEW o, o = Bounded(arrived, reference), AdmittedLate(o, arrived, reference)
    PROVE  /\ OrderFits(o) /\ o.tif \in {"GTC", "IOC", "FOK"} /\ o.id = NextId
           /\ o.tif = form.tif /\ o.qty = form.qty /\ o.symbol = symbol
           /\ FundsAndPlanFit(o) /\ PositionRowsFit(o)
           /\ o.id \notin DOMAIN rows /\ \A id \in DOMAIN rows : id < o.id
           /\ Sound(books, rows, openOrders)
<1>1. PriceBounded(arrived, reference) /\ FundsAndPlanFit(o) /\ PositionRowsFit(o)
    BY DEF AdmittedLate
<1>2. /\ OrderFits(o) /\ o.tif \in {"GTC", "IOC", "FOK"} /\ o.id = NextId
      /\ o.tif = form.tif /\ o.qty = form.qty /\ o.symbol = symbol
    BY <1>1, BoundedFits DEF BooksInv
<1>3. \A id \in DOMAIN rows : id \in Nat /\ id <= lastSeen /\ id < o.id
    BY <1>2 DEF BooksInv, AccountsInv, Sound, RowsFit, NextId
<1> QED  BY <1>1, <1>2, <1>3 DEF BooksInv

\* An admitted order, executed to its end.
LEMMA OrderFollows ==
    ASSUME Sound(books, rows, openOrders), MoneySound(positions, trades), AccountsInv,
           NEW o, OrderFits(o), o.id \notin DOMAIN rows, FundsAndPlanFit(o),
           NEW e, e = AfterRemainder(o, Execution(o))
    PROVE  OrderSettled(o, e)
<1> DEFINE x == Execution(o)
<1>1. FundsAt(ledger, lastSeen, positions, rows)  BY DEF AccountsInv
<1>2. Accountable(o, x, x.ledger) /\ x.stop \in {"no", "overflow"}
    BY <1>1, ExecutionFollows
<1> HIDE DEF x
<1> QED  BY <1>2, RemainderFollows DEF x

\* apply_new past admission
LEMMA ApplyNewKeepsAccounts ==
    ASSUME BooksInv, MoneySound(positions, trades), AccountsInv,
           NEW account \in Accounts, NEW symbol \in Symbols, NEW form \in Forms,
           NEW reference \in ReferencesFor(form),
           ApplyNew(Arrived(account, symbol, form), reference)
    PROVE  AccountsInv'
<1> DEFINE arrived == Arrived(account, symbol, form)
           o == Bounded(arrived, reference)
           e == AfterRemainder(o, Execution(o))
<1>1. /\ AdmittedEarly(arrived) /\ AdmittedLate(o, arrived, reference)
      /\ IF e.stop = "panic" THEN Panic
         ELSE /\ openOrders' = e.openOrders
              /\ positions' = e.positions
              /\ rows' = e.rows
              /\ Consumed(e.ledger)
              /\ UNCHANGED governance
    BY DEF ApplyNew
<1>2. /\ OrderFits(o) /\ o.tif \in {"GTC", "IOC", "FOK"} /\ o.id = NextId
      /\ FundsAndPlanFit(o) /\ PositionRowsFit(o)
      /\ o.id \notin DOMAIN rows /\ \A id \in DOMAIN rows : id < o.id
      /\ Sound(books, rows, openOrders)
    BY <1>1, OrderAdmitted
<1>3. OrderSettled(o, e)  BY <1>2, OrderFollows
<1>4. /\ Sound(PruneBook(Put(books, o.symbol, e.book), o.symbol), e.rows, e.openOrders)
      /\ DOMAIN e.rows \subseteq DOMAIN rows \cup {o.id}
    BY <1>2, OrderKeepsBook
<1>5. Cardinality(DOMAIN openOrders) < MaxActive  BY <1>1 DEF AdmittedEarly
<1> HIDE DEF e, o, arrived
<1>6. /\ openOrders' = e.openOrders /\ positions' = e.positions /\ rows' = e.rows
      /\ Consumed(e.ledger) /\ UNCHANGED governance
    BY <1>1, <1>3 DEF OrderSettled
<1>7. FundsAt(e.ledger, lastSeen, positions', rows')  BY <1>3, <1>6 DEF OrderSettled
<1>8. DOMAIN openOrders' = DOMAIN e.rows  BY <1>4, <1>6 DEF Sound, IndexOf
<1>9. Cardinality(DOMAIN openOrders') <= MaxActive
    BY <1>2, <1>4, <1>5, <1>8, OrdersHaveRoom
<1>10. PICK n : PlanFits(PlanOf(o), n)  BY <1>2, OnePlanLength
<1>11. /\ PositionsFit(positions) /\ Cardinality(DOMAIN positions) <= MaxPositions
       /\ IsFiniteSet(DOMAIN listings) /\ Cardinality(DOMAIN listings) <= MaxSymbols
    BY DEF AccountsInv, CapacityRespected, FundsAt
<1>12. DOMAIN e.positions \subseteq DOMAIN positions \cup TouchedRows(o)
    BY <1>3 DEF OrderSettled
<1>13. Cardinality(DOMAIN positions') <= MaxPositions
    BY <1>2, <1>6, <1>10, <1>11, <1>12, PositionsHaveRoom
<1>14. IsFiniteSet(DOMAIN listings') /\ Cardinality(DOMAIN listings') <= MaxSymbols
    BY <1>6, <1>11 DEF governance
<1>15. CapacityRespected'  BY <1>9, <1>13, <1>14 DEF CapacityRespected
<1>16. lastSeen \in Nat  BY DEF BooksInv
<1> QED  BY <1>6, <1>7, <1>14, <1>15, <1>16, MessageKeepsAccounts

\* apply_new, refused
LEMMA RefusalKeepsAccounts ==
    ASSUME BooksInv, AccountsInv, NEW arrived, NEW reference,
           RefuseEarly(arrived) \/ RefuseLate(arrived, reference)
    PROVE  AccountsInv' /\ UNCHANGED <<ledger.bal, ledger.resv>>
<1>1. Consumed(ledger) /\ UNCHANGED <<positions, rows, openOrders, listings>>
    BY DEF RefuseEarly, RefuseLate, market, governance
<1> QED  BY <1>1, QuietKeepsAccounts DEF BooksInv

\* apply_cancel
LEMMA CancelKeepsAccounts ==
    ASSUME BooksInv, AccountsInv, NEW account, NEW target,
           \/ IgnoreCancel(account, target)
           \/ RefuseCancel(account, target)
           \/ ApplyCancel(account, target)
    PROVE  AccountsInv'
<1>1. /\ Sound(books, rows, openOrders) /\ lastSeen \in Nat
      /\ DOMAIN openOrders = DOMAIN rows /\ IsFiniteSet(DOMAIN rows) /\ RowsFit(rows)
    BY IndexHasRows DEF BooksInv
<1>2. CASE IgnoreCancel(account, target)
    <2>1. target \notin DOMAIN openOrders
        BY <1>1, <1>2, IndexIsInBook DEF InTheBook, IgnoreCancel
    <2>2. openOrders' = openOrders
        BY <1>1, <1>2, <2>1 DEF IgnoreCancel, Without, Restrict, Sound, IndexOf
    <2>3. Consumed(ledger) /\ UNCHANGED <<positions, rows, listings>>
        BY <1>2 DEF IgnoreCancel, governance
    <2> QED  BY <1>1, <2>2, <2>3, QuietKeepsAccounts
<1>3. CASE RefuseCancel(account, target)
    <2>1. Consumed(ledger) /\ UNCHANGED <<positions, rows, openOrders, listings>>
        BY <1>3 DEF RefuseCancel, market, governance
    <2> QED  BY <1>1, <2>1, QuietKeepsAccounts
<1>4. CASE ApplyCancel(account, target)
    <2>1. FundsAt(ledger, lastSeen, positions, rows)  BY DEF AccountsInv
    <2>2. /\ CanRelease(ledger, target)
          /\ FundsAt(AfterRelease(ledger, target), lastSeen, positions, Without(rows, {target}))
        BY <1>1, <2>1, ReleaseFollows
    <2>3. /\ openOrders' = Without(openOrders, {target})
          /\ rows' = Without(rows, {target})
          /\ Consumed(AfterRelease(ledger, target))
          /\ UNCHANGED <<positions, trades, governance>>
        BY <1>4, <2>2 DEF ApplyCancel
    <2>4. DOMAIN openOrders' \subseteq DOMAIN openOrders  BY <2>3 DEF Without, Restrict
    <2>5. /\ Cardinality(DOMAIN openOrders') <= Cardinality(DOMAIN openOrders)
          /\ Cardinality(DOMAIN openOrders') \in Nat /\ Cardinality(DOMAIN openOrders) \in Nat
        BY <1>1, <2>4, FS_Subset, FS_CardinalityType
    <2>6. Cardinality(DOMAIN openOrders') <= MaxActive
        BY <2>5, ExchangeInputs DEF AccountsInv, CapacityRespected
    <2>7. IsFiniteSet(DOMAIN listings') /\ CapacityRespected'
        BY <2>3, <2>6 DEF AccountsInv, CapacityRespected, governance
    <2>8. FundsAt(AfterRelease(ledger, target), lastSeen, positions', rows')  BY <2>2, <2>3
    <2> QED  BY <1>1, <2>3, <2>7, <2>8, MessageKeepsAccounts
<1> QED  BY <1>2, <1>3, <1>4

\* apply_delist_symbol: every reservation it gives back was there to give.
LEMMA ClosedGiveBack ==
    ASSUME BooksInv, AccountsInv, NEW symbol \in Symbols,
           NEW closed, closed = {r.id : r \in OrdersIn(BookOf(symbol))}
    PROVE  /\ closed = RowsOf(rows, symbol) /\ closed \subseteq DOMAIN rows
           /\ \A done \in SUBSET closed : \A id \in closed \ done :
                 CanRelease(ReleaseAll(ledger, done), id)
           /\ FundsAt(ReleaseAll(ledger, closed), lastSeen, positions, Without(rows, closed))
<1>1. closed = RowsOf(rows, symbol)  BY ClosedAreRows DEF BooksInv
<1>2. closed \subseteq DOMAIN rows  BY <1>1 DEF RowsOf
<1>3. RowsFit(rows) /\ FundsAt(ledger, lastSeen, positions, rows)
    BY DEF BooksInv, Sound, AccountsInv
<1>4. ASSUME NEW S \in SUBSET closed
      PROVE  /\ FundsAt(ReleaseAll(ledger, S), lastSeen, positions, Without(rows, S))
             /\ RowsFit(Without(rows, S))
    <2>1. IsFiniteSet(S)  BY <1>2, <1>3, FS_Subset DEF RowsFit
    <2>2. IsFiniteSet(DOMAIN rows \ S)  BY <1>3, FS_Difference DEF RowsFit
    <2>3. RowsFit(Without(rows, S))  BY <1>3, <2>2 DEF RowsFit, Without, Restrict
    <2> QED  BY <1>3, <2>1, <2>3, ReleasesFollow
<1>5. ASSUME NEW done \in SUBSET closed, NEW id
      PROVE  CanRelease(ReleaseAll(ledger, done), id)
    BY <1>4, ReleaseFollows
<1> QED  BY <1>1, <1>2, <1>4, <1>5

\* apply_delist_symbol
LEMMA DelistKeepsAccounts ==
    ASSUME BooksInv, AccountsInv, NEW signer, NEW symbol \in Symbols,
           ApplyDelistSymbol(signer, symbol)
    PROVE  AccountsInv'
<1> DEFINE closed == {r.id : r \in OrdersIn(BookOf(symbol))}
<1>1. /\ openOrders' = Without(openOrders, closed) /\ rows' = Without(rows, closed)
      /\ listings' = [listings EXCEPT ![symbol].listed = FALSE]
      /\ UNCHANGED positions
      /\ (\A done \in SUBSET closed : \A id \in closed \ done :
             CanRelease(ReleaseAll(ledger, done), id)) => Consumed(ReleaseAll(ledger, closed))
    BY DEF ApplyDelistSymbol
<1> HIDE DEF closed
<1>2. /\ Consumed(ReleaseAll(ledger, closed))
      /\ FundsAt(ReleaseAll(ledger, closed), lastSeen, positions', rows')
    BY <1>1, ClosedGiveBack DEF closed
<1>3. lastSeen \in Nat /\ DOMAIN openOrders = DOMAIN rows /\ IsFiniteSet(DOMAIN rows)
    BY IndexHasRows DEF BooksInv
<1>4. DOMAIN openOrders' \subseteq DOMAIN openOrders /\ DOMAIN listings' = DOMAIN listings
    BY <1>1 DEF Without, Restrict
<1>5. /\ Cardinality(DOMAIN openOrders') <= Cardinality(DOMAIN openOrders)
      /\ Cardinality(DOMAIN openOrders') \in Nat /\ Cardinality(DOMAIN openOrders) \in Nat
    BY <1>3, <1>4, FS_Subset, FS_CardinalityType
<1>6. Cardinality(DOMAIN openOrders') <= MaxActive
    BY <1>5, ExchangeInputs DEF AccountsInv, CapacityRespected
<1>7. IsFiniteSet(DOMAIN listings') /\ CapacityRespected'
    BY <1>1, <1>4, <1>6 DEF AccountsInv, CapacityRespected
<1> QED  BY <1>2, <1>3, <1>7, MessageKeepsAccounts

\* apply_list_symbol: a symbol never listed before needs a place of its own.
LEMMA ListingKeepsAccounts ==
    ASSUME BooksInv, AccountsInv, NEW signer, NEW symbol \in Symbols, NEW step,
           ApplyListSymbol(signer, symbol, step)
    PROVE  AccountsInv' /\ UNCHANGED <<ledger.bal, ledger.resv>>
<1> DEFINE P == DOMAIN listings
<1>1. /\ \/ DOMAIN listings' = P
         \/ ListingServed(symbol, step) /\ DOMAIN listings' = P \cup {symbol}
      /\ Consumed(ledger) /\ UNCHANGED <<positions, rows, openOrders>>
    BY DEF ApplyListSymbol, Put, market
<1>2. /\ lastSeen \in Nat /\ FundsAt(ledger, lastSeen, positions', rows')
      /\ IsFiniteSet(P) /\ Cardinality(P) <= MaxSymbols
      /\ Cardinality(DOMAIN openOrders') <= MaxActive
      /\ Cardinality(DOMAIN positions') <= MaxPositions
    BY <1>1 DEF BooksInv, AccountsInv, CapacityRespected
<1>3. IsFiniteSet(DOMAIN listings') /\ Cardinality(DOMAIN listings') <= MaxSymbols
    <2>1. CASE DOMAIN listings' = P  BY <2>1, <1>2
    <2>2. CASE ListingServed(symbol, step) /\ DOMAIN listings' = P \cup {symbol}
        <3>1. /\ IsFiniteSet(P \cup {symbol})
              /\ Cardinality(P \cup {symbol})
                    = IF symbol \in P THEN Cardinality(P) ELSE Cardinality(P) + 1
            BY <1>2, FS_AddElement
        <3>2. symbol \notin P => Cardinality(P) < MaxSymbols
            BY <2>2 DEF ListingServed
        <3>3. Cardinality(P) \in Nat /\ MaxSymbols \in Nat
            BY <1>2, FS_CardinalityType, ExchangeInputs
        <3> HIDE DEF P
        <3> QED  BY <1>2, <2>2, <3>1, <3>2, <3>3
    <2> QED  BY <1>1, <2>1, <2>2
<1> QED  BY <1>1, <1>2, <1>3, MessageKeepsAccounts DEF CapacityRespected

\* The operator messages that leave the listings alone.
LEMMA OperatorKeepsAccounts ==
    ASSUME BooksInv, AccountsInv, NEW signer,
           \/ IgnoreOperator(signer)
           \/ \E symbol \in Symbols : RefuseDelistSymbol(signer, symbol)
           \/ \E version \in Versions : ApplyEngineRule(signer, version)
    PROVE  AccountsInv' /\ UNCHANGED <<ledger.bal, ledger.resv>>
<1>1. Consumed(ledger) /\ UNCHANGED <<positions, rows, openOrders, listings>>
    BY DEF IgnoreOperator, RefuseDelistSymbol, ApplyEngineRule, market, governance
<1> QED  BY <1>1, QuietKeepsAccounts DEF BooksInv

\* Every message.
LEMMA StepKeepsAccounts ==
    ASSUME BooksInv, MoneySound(positions, trades), AccountsInv, [Next]_vars
    PROVE  AccountsInv'
<1>1. CASE UNCHANGED vars
    BY <1>1 DEF vars, market, governance, AccountsInv, CapacityRespected
<1>2. ASSUME NEW account \in Accounts, NEW symbol \in Symbols, NEW form \in Forms,
             NEW reference \in ReferencesFor(form),
             New(Arrived(account, symbol, form), reference)
      PROVE  AccountsInv'
    <2> DEFINE arrived == Arrived(account, symbol, form)
    <2>1. CASE ApplyNew(arrived, reference)  BY <2>1, ApplyNewKeepsAccounts
    <2>2. CASE RefuseEarly(arrived) \/ RefuseLate(arrived, reference)
        <3> HIDE DEF arrived
        <3> QED  BY <2>2, RefusalKeepsAccounts
    <2> QED  BY <1>2, <2>1, <2>2 DEF New
<1>3. ASSUME NEW account \in Accounts, NEW target \in 1..lastSeen,
             \/ IgnoreCancel(account, target)
             \/ RefuseCancel(account, target)
             \/ ApplyCancel(account, target)
      PROVE  AccountsInv'
    BY <1>3, CancelKeepsAccounts
<1>4. ASSUME NEW signer \in Signers,
             \/ IgnoreOperator(signer)
             \/ \E symbol \in Symbols, step \in Steps : ApplyListSymbol(signer, symbol, step)
             \/ \E symbol \in Symbols :
                   \/ ApplyDelistSymbol(signer, symbol)
                   \/ RefuseDelistSymbol(signer, symbol)
             \/ \E version \in Versions : ApplyEngineRule(signer, version)
      PROVE  AccountsInv'
    <2>1. ASSUME NEW symbol \in Symbols, NEW step, ApplyListSymbol(signer, symbol, step)
          PROVE  AccountsInv'
        BY <2>1, ListingKeepsAccounts
    <2>2. ASSUME NEW symbol \in Symbols, ApplyDelistSymbol(signer, symbol)
          PROVE  AccountsInv'
        BY <2>2, DelistKeepsAccounts
    <2>3. CASE \/ IgnoreOperator(signer)
               \/ \E symbol \in Symbols : RefuseDelistSymbol(signer, symbol)
               \/ \E version \in Versions : ApplyEngineRule(signer, version)
        BY <2>3, OperatorKeepsAccounts
    <2> QED  BY <1>4, <2>1, <2>2, <2>3
<1> QED  BY <1>1, <1>2, <1>3, <1>4 DEF Next

\* The genesis ledger: nothing is reserved, every balance is its grant.
LEMMA FundedLedgerIsSound ==
    /\ LedgerSound(FundedLedger) /\ FundedLedger.last = 0
    /\ DOMAIN FundedLedger.resv = {}
    /\ IsFunded => \A a \in Accounts, asset \in Assets :
                      Total(FundedLedger, a, asset) = Funding[<<a, asset>>]
<1> DEFINE l == FundedLedger
<1>1. DOMAIN EmptyReservations = {}
      /\ EmptyReservations = [id \in DOMAIN EmptyReservations |-> EmptyReservations[id]]
    BY DEF EmptyReservations
<1>2. /\ l.resv = EmptyReservations /\ l.last = 0 /\ DOMAIN l = {"last", "bal", "resv"}
      /\ DOMAIN l.bal = Keys /\ l.bal = [k \in Keys |-> l.bal[k]]
      /\ \A k \in Keys : l.bal[k] = [available |-> IF IsFunded THEN Funding[k] ELSE 0,
                                     reserved  |-> 0]
    BY DEF FundedLedger
<1> HIDE DEF l
<1>3. \A k \in Keys : /\ l.bal[k] \in Balance /\ BalanceFits(l.bal[k])
                      /\ l.bal[k].reserved = 0
                      /\ IsFunded => l.bal[k].available = Funding[k]
    <2> SUFFICES ASSUME NEW k \in Keys
                 PROVE  /\ l.bal[k] \in Balance /\ BalanceFits(l.bal[k])
                        /\ l.bal[k].reserved = 0
                        /\ IsFunded => l.bal[k].available = Funding[k]
        OBVIOUS
    <2>1. PICK n : n = IF IsFunded THEN Funding[k] ELSE 0  OBVIOUS
    <2>2. n \in 0..MaxUnits /\ MaxUnits \in Nat /\ (IsFunded => n = Funding[k])
        BY <2>1, LedgerConfig
    <2>3. l.bal[k] = [available |-> n, reserved |-> 0]  BY <1>2, <2>1
    <2>4. l.bal[k].available = n /\ l.bal[k].reserved = 0 /\ l.bal[k] \in Balance
        BY <2>2, <2>3 DEF Balance
    <2>5. BalanceFits(l.bal[k])  BY <2>2, <2>4 DEF BalanceFits
    <2> QED  BY <2>2, <2>4, <2>5
<1>4. LedgerFits(l)
    BY <1>1, <1>2, <1>3 DEF LedgerFits, UnitsExact
<1>5. ReservesBacked(l)
    <2>1. ASSUME NEW k \in Keys PROVE Obligations(l, k) = 0
        <3>1. Holders(l.resv, k) = {}  BY <1>1, <1>2 DEF Holders
        <3> QED  BY <3>1, ObligationsAsSum, SumOfNothing
    <2> QED  BY <1>3, <2>1 DEF ReservesBacked
<1>6. IsFunded => \A a \in Accounts, asset \in Assets :
                     Total(l, a, asset) = Funding[<<a, asset>>]
    BY <1>3, LedgerConfig DEF Total, Keys
<1> QED  BY <1>1, <1>2, <1>4, <1>5, <1>6 DEF LedgerSound, l

\* The state of a new run.
LEMMA InitIsAccountable == Init => AccountsInv
<1> SUFFICES ASSUME Init PROVE AccountsInv  OBVIOUS
<1>1. /\ positions = EmptyMap /\ rows = EmptyMap /\ openOrders = EmptyMap /\ listings = EmptyMap
      /\ ledger = FundedLedger /\ lastSeen = 0 /\ ~panicked
    BY DEF Init
<1>2. DOMAIN EmptyMap = {} /\ EmptyMap = [x \in DOMAIN EmptyMap |-> EmptyMap[x]]
    BY DEF EmptyMap
<1>3. PositionsFit(positions)  BY <1>1, <1>2, FS_EmptySet DEF PositionsFit
<1>4. IsFunded => Mirrors(ledger, rows)  BY <1>1, <1>2, FundedLedgerIsSound DEF Mirrors
<1>5. ASSUME IsFunded PROVE AgreesWith(ledger, positions)
    <2> SUFFICES ASSUME NEW a \in Accounts, NEW asset \in Assets
                 PROVE  Total(ledger, a, asset) - Funding[<<a, asset>>]
                           = AmountOf(positions, a, asset)
        BY DEF AgreesWith
    <2>1. Total(ledger, a, asset) = Funding[<<a, asset>>] /\ Funding[<<a, asset>>] \in Int
        BY <1>1, <1>5, FundedLedgerIsSound, LedgerConfig DEF Keys
    <2>2. ASSUME NEW Z, NEW field PROVE SumIn(positions, Z, field) = 0
        <3>1. DOMAIN positions \cap Z = {}  BY <1>1, <1>2
        <3> QED  BY <3>1, SumOfNothing DEF SumIn
    <2>3. AmountOf(positions, a, asset) = 0
        BY <2>2, LedgerConfig DEF AmountOf
    <2> QED  BY <2>1, <2>3
<1>6. CapacityRespected
    <2>1. Cardinality({}) = 0  BY FS_EmptySet
    <2> QED  BY <1>1, <1>2, <2>1, ExchangeInputs DEF CapacityRespected
<1>7. LedgerSound(ledger) /\ ledger.last = lastSeen  BY <1>1, FundedLedgerIsSound
<1>8. IsFiniteSet(DOMAIN listings)  BY <1>1, <1>2, FS_EmptySet
<1> QED  BY <1>1, <1>3, <1>4, <1>5, <1>6, <1>7, <1>8 DEF AccountsInv, FundsAt

\* The invariant of the accounts holds in every state.
LEMMA AccountsHold == Spec => []AccountsInv
<1>1. Init => AccountsInv  BY InitIsAccountable
<1>2. ExchangeInv /\ AccountsInv /\ [Next]_vars => AccountsInv'
    BY StepKeepsAccounts DEF ExchangeInv
<1> QED  BY <1>1, <1>2, ExchangeInvHolds, PTL DEF Spec

-----------------------------------------------------------------------------
(* What the accounts promise.                                               *)

\* validate_obligations: the rows of the index are the orders of the books.
LEMMA RowsAreReservations == ExchangeInv /\ AccountsInv => ReservationsMatchOrders
<1> SUFFICES ASSUME ExchangeInv, AccountsInv, IsFunded PROVE
        /\ DOMAIN ledger.resv = DOMAIN openOrders
        /\ \A s \in DOMAIN books : \A r \in OrdersIn(books[s]) :
              LET held == ledger.resv[r.id]
              IN  /\ held.account = r.account
                  /\ held.symbol = s
                  /\ held.side = r.side
                  /\ held.limit = r.price
                  /\ held.remaining = r.qty
    BY DEF ReservationsMatchOrders
<1>1. Sound(books, rows, openOrders) /\ Mirrors(ledger, rows)
    BY DEF ExchangeInv, BooksInv, AccountsInv, FundsAt
<1>2. DOMAIN ledger.resv = DOMAIN openOrders  BY <1>1, IndexHasRows DEF Mirrors
<1>3. ASSUME NEW s \in DOMAIN books, NEW r \in OrdersIn(books[s])
      PROVE  /\ TermsOf(ledger.resv[r.id]) = rows[r.id]
             /\ r = OrderOf(r.id) /\ rows[r.id].symbol = s
    BY <1>1, RestingAreRows DEF Mirrors
<1>4. ASSUME NEW s \in DOMAIN books, NEW r \in OrdersIn(books[s])
      PROVE  /\ ledger.resv[r.id].account = r.account /\ ledger.resv[r.id].symbol = s
             /\ ledger.resv[r.id].side = r.side /\ ledger.resv[r.id].limit = r.price
             /\ ledger.resv[r.id].remaining = r.qty
    <2> DEFINE held == ledger.resv[r.id]
    <2>1. /\ TermsOf(held).account = held.account /\ TermsOf(held).symbol = held.symbol
          /\ TermsOf(held).side = held.side /\ TermsOf(held).price = held.limit
          /\ TermsOf(held).qty = held.remaining
        BY DEF TermsOf
    <2>2. /\ r.account = rows[r.id].account /\ r.side = rows[r.id].side
          /\ r.price = rows[r.id].price /\ r.qty = rows[r.id].qty
        <3>1. r = OrderOf(r.id)  BY <1>3
        <3> DEFINE x == OrderOf(r.id)
        <3>2. /\ x.account = rows[r.id].account /\ x.side = rows[r.id].side
              /\ x.price = rows[r.id].price /\ x.qty = rows[r.id].qty
            BY DEF OrderOf
        <3> HIDE DEF x
        <3> QED  BY <3>1, <3>2 DEF x
    <2> HIDE DEF held
    <2> QED  BY <1>3, <2>1, <2>2 DEF held
<1> QED  BY <1>2, <1>4

\* A sum over some rows of the positions, as the properties write it.
LEMMA SumOverPositions ==
    ASSUME NEW held, PositionsFit(held), NEW T \in SUBSET DOMAIN held, NEW Z,
           T = DOMAIN held \cap Z
    PROVE  /\ SumFunction([k \in T |-> held[k].net]) = SumIn(held, Z, "net")
           /\ SumFunction([k \in T |-> held[k].cash]) = SumIn(held, Z, "cash")
<1>1. IsFiniteSet(T)  BY FS_Subset DEF PositionsFit
<1>2. ASSUME NEW field
      PROVE  SumFunction([k \in T |-> held[k][field]]) = SumIn(held, Z, field)
    <2> DEFINE f == [k \in T |-> held[k][field]]
               g == FieldOf(held, field)
    <2>1. DOMAIN f = T /\ \A k \in T : f[k] = g[k]  BY DEF FieldOf
    <2> HIDE DEF f, g
    <2>2. SumFunction(f) = SumFunctionOnSet(f, T)  BY <2>1, SumFunctionIsSum
    <2>3. SumFunctionOnSet(f, T) = SumFunctionOnSet(g, T)  BY <1>1, <2>1, SumOfSame
    <2> QED  BY <2>2, <2>3 DEF f, g, SumIn
<1>3. SumFunction([k \in T |-> held[k]["net"]]) = SumIn(held, Z, "net")  BY <1>2
<1>4. SumFunction([k \in T |-> held[k]["cash"]]) = SumIn(held, Z, "cash")  BY <1>2
<1> QED  BY <1>3, <1>4

\* What a balance moved by is what the positions of its asset traded.
LEMMA BalancesAreFills == AccountsInv => LedgerAgreesWithPositions
<1> SUFFICES ASSUME AccountsInv, IsFunded, NEW a \in Accounts, NEW asset \in Assets
             PROVE  LET mine   == {k \in DOMAIN positions : k[1] = a /\ k[2] \in Markets}
                        goods  == {k \in mine : BaseAsset[k[2]] = asset}
                        quoted == {k \in mine : QuoteAsset[k[2]] = asset}
                    IN  Total(ledger, a, asset) - Funding[<<a, asset>>]
                           = UnitsPerTenth * SumOver(goods, LAMBDA k : positions[k].net)
                             + SumOver(quoted, LAMBDA k : positions[k].cash)
    BY DEF LedgerAgreesWithPositions
<1> DEFINE mine   == {k \in DOMAIN positions : k[1] = a /\ k[2] \in Markets}
           goods  == {k \in mine : BaseAsset[k[2]] = asset}
           quoted == {k \in mine : QuoteAsset[k[2]] = asset}
<1>1. PositionsFit(positions) /\ AgreesWith(ledger, positions)
    BY DEF AccountsInv, FundsAt
<1>2. /\ goods \in SUBSET DOMAIN positions
      /\ goods = DOMAIN positions \cap GoodsOf(a, asset)
      /\ quoted \in SUBSET DOMAIN positions
      /\ quoted = DOMAIN positions \cap CashOf(a, asset)
    BY <1>1 DEF PositionsFit, GoodsOf, CashOf
<1> HIDE DEF mine, goods, quoted
<1>3. SumFunction([k \in goods |-> positions[k].net])
         = SumIn(positions, GoodsOf(a, asset), "net")
    BY <1>1, <1>2, SumOverPositions
<1>4. SumFunction([k \in quoted |-> positions[k].cash])
         = SumIn(positions, CashOf(a, asset), "cash")
    BY <1>1, <1>2, SumOverPositions
<1>5. Total(ledger, a, asset) - Funding[<<a, asset>>]
         = UnitsPerTenth * SumFunction([k \in goods |-> positions[k].net])
           + SumFunction([k \in quoted |-> positions[k].cash])
    BY <1>1, <1>3, <1>4 DEF AgreesWith, AmountOf
<1> QED  BY <1>5 DEF SumOver, mine, goods, quoted

\* What admission accepts is what execution can finish and a restart can hold:
\* no `expect` and no assertion of the matcher fails, whatever was refused,
\* filled, stopped, cancelled or closed before, and neither the orders, the
\* positions nor the symbols outgrow their limits (apply_new, check_positions,
\* stage_fok_ledger, settle_fill, release, finish_sequence).
THEOREM AdmittedFits == Spec => []WhatIsAdmittedFits
<1>1. AccountsInv => WhatIsAdmittedFits
    BY DEF AccountsInv, WhatIsAdmittedFits, NeverPanics
<1> QED  BY <1>1, AccountsHold, PTL

\* The ledger follows the matcher: its reservations are the resting orders with
\* what is left of them, and its balances moved by what the positions traded,
\* though neither of the two ever reads the other (commit_fill, settle_fill,
\* release, validate_obligations).
THEOREM FundsFollow == Spec => []FundsFollowOrders
<1>1. ExchangeInv /\ AccountsInv => FundsFollowOrders
    BY RowsAreReservations, BalancesAreFills DEF FundsFollowOrders
<1> QED  BY <1>1, ExchangeInvHolds, AccountsHold, PTL

-----------------------------------------------------------------------------
(* Refusals.  Rows and trades say all there is to say of the market, so     *)
(* that a message which leaves these two leaves all of it.                  *)

\* restore: what a restart builds from rows and trades is what is there.
LEMMA MarketIsRestored ==
    ExchangeInv => /\ books = RestoredBooks
                   /\ openOrders = IndexOf(rows)
                   /\ positions = RestoredPositions
BY BooksAreRestored DEF ExchangeInv, BooksInv, Sound, MoneySound, RestoredPositions

\* The same rows and the same trades are the same market.
LEMMA SameRowsSameMarket ==
    ASSUME ExchangeInv, ExchangeInv', rows' = rows, trades' = trades
    PROVE  UNCHANGED market
<1>1. (ExchangeInv => /\ books = RestoredBooks
                      /\ openOrders = IndexOf(rows)
                      /\ positions = RestoredPositions)'
    BY MarketIsRestored, PTL
<1>2. books = RestoredBooks /\ openOrders = IndexOf(rows) /\ positions = RestoredPositions
    BY MarketIsRestored
<1>3. RestoredBooks' = RestoredBooks
    BY DEF RestoredBooks, RestoredSide, RestoredQueue
<1>4. IndexOf(rows)' = IndexOf(rows) /\ RestoredPositions' = RestoredPositions
    BY DEF IndexOf, RestoredPositions
<1> QED  BY <1>1, <1>2, <1>3, <1>4 DEF market

\* Two ledgers with the same balances and reservations.
SameHoldings(n, l) == n.bal = l.bal /\ n.resv = l.resv

\* reserve, then release: an order that did nothing gives everything back.
LEMMA ReserveThenRelease ==
    ASSUME NEW l, LedgerSound(l), NEW id, id \notin DOMAIN l.resv,
           NEW account \in Accounts, NEW symbol, NEW side \in Sides,
           NEW limit \in Int, NEW qty \in Int,
           IsFunded => symbol \in Markets,
           NEW m, m = AfterReserve(l, id, account, symbol, side, limit, qty),
           NEW n, n = AfterRelease(m, id)
    PROVE  SameHoldings(n, l)
<1>1. CASE ~IsFunded
    BY <1>1 DEF AfterReserve, AfterRelease, SameHoldings
<1>2. CASE IsFunded
    <2>1. PICK units : units = ReserveUnits(side, limit, qty)  OBVIOUS
    <2>2. PICK key : key = <<account, AssetFor(symbol, side)>>  OBVIOUS
    <2>3. PICK r : r = [account |-> account, symbol |-> symbol, side |-> side,
                        limit |-> limit, remaining |-> qty, units |-> units]
        OBVIOUS
    <2>4. units \in Int
        <3>1. limit * qty \in Int /\ qty * UnitsPerTenth \in Int  BY LedgerConfig
        <3> QED  BY <2>1, <3>1 DEF ReserveUnits
    <2>5. key \in Keys
        BY <1>2, <2>2, LedgerConfig DEF Keys, AssetFor, Markets
    <2>6. l.bal \in [Keys -> Balance] /\ l.bal[key] \in Balance
          /\ l.resv = [i \in DOMAIN l.resv |-> l.resv[i]]
          /\ DOMAIN l = {"last", "bal", "resv"}
        BY <2>5 DEF LedgerSound, LedgerFits
    <2>7. m = [l EXCEPT !.bal[key] = [available |-> @.available - units,
                                      reserved  |-> @.reserved + units],
                        !.resv = Put(@, id, r)]
        BY <1>2, <2>1, <2>2, <2>3 DEF AfterReserve
    <2>8. PICK b : b = [available |-> l.bal[key].available - units,
                        reserved  |-> l.bal[key].reserved + units]
        OBVIOUS
    <2>9. /\ m.bal = [l.bal EXCEPT ![key] = b]
          /\ m.resv = Put(l.resv, id, r)
          /\ DOMAIN m = {"last", "bal", "resv"}
        BY <2>6, <2>7, <2>8
    <2>10. /\ id \in DOMAIN m.resv /\ m.resv[id] = r
           /\ Without(m.resv, {id}) = l.resv
        <3>1. /\ DOMAIN m.resv = DOMAIN l.resv \cup {id}
              /\ \A i \in DOMAIN l.resv : m.resv[i] = l.resv[i]
              /\ m.resv[id] = r
            BY <2>9 DEF Put
        <3> QED  BY <2>6, <3>1 DEF Without, Restrict
    <2>11. ReservationKey(m.resv[id]) = key /\ m.resv[id].units = units
        BY <2>2, <2>3, <2>10 DEF ReservationKey
    <2>12. m.bal[key] = b
        BY <2>5, <2>6, <2>9
    <2>13. ReleasedBalance(m, id) = l.bal[key]
        <3>1. ReleasedBalance(m, id) = [available |-> b.available + units,
                                        reserved  |-> b.reserved - units]
            BY <2>11, <2>12 DEF ReleasedBalance
        <3>2. PICK av, re : /\ av \in Int /\ re \in Int
                            /\ l.bal[key] = [available |-> av, reserved |-> re]
            BY <2>6 DEF Balance
        <3>3. b.available = av - units /\ b.reserved = re + units
            BY <2>8, <3>2
        <3>4. b.available + units = av /\ b.reserved - units = re
            BY <2>4, <3>2, <3>3
        <3> QED  BY <3>1, <3>2, <3>4
    <2>14. n = [m EXCEPT !.bal[key] = l.bal[key], !.resv = Without(@, {id})]
        BY <2>10, <2>11, <2>13 DEF AfterRelease
    <2>15. n.bal = [m.bal EXCEPT ![key] = l.bal[key]] /\ n.resv = Without(m.resv, {id})
        BY <2>9, <2>14
    <2> QED  BY <2>5, <2>6, <2>9, <2>10, <2>15 DEF SameHoldings
<1> QED  BY <1>1, <1>2

\* A message after which nothing has traded, left the books or come to rest.
DoesNothing ==
    /\ trades' = trades
    /\ DOMAIN openOrders \subseteq DOMAIN openOrders'
    /\ lastSeen' \notin DOMAIN openOrders'

\* No row and no unit moved.
NoTrace == rows' = rows /\ UNCHANGED <<ledger.bal, ledger.resv>>

\* apply_new past admission: what neither traded nor rests was given back.
LEMMA IdleOrderNoTrace ==
    ASSUME BooksInv, MoneySound(positions, trades), AccountsInv,
           NEW account \in Accounts, NEW symbol \in Symbols, NEW form \in Forms,
           NEW reference \in ReferencesFor(form),
           ApplyNew(Arrived(account, symbol, form), reference), DoesNothing
    PROVE  NoTrace
<1> DEFINE arrived == Arrived(account, symbol, form)
           o == Bounded(arrived, reference)
           e == AfterRemainder(o, Execution(o))
<1>1. /\ AdmittedLate(o, arrived, reference)
      /\ IF e.stop = "panic" THEN Panic
         ELSE /\ openOrders' = e.openOrders
              /\ trades' = e.trades
              /\ rows' = e.rows
              /\ Consumed(e.ledger)
    BY DEF ApplyNew
<1>2. /\ OrderFits(o) /\ o.id = NextId /\ FundsAndPlanFit(o) /\ o.id \notin DOMAIN rows
      /\ Sound(books, rows, openOrders)
    BY <1>1, OrderAdmitted
<1>3. OrderSettled(o, e)  BY <1>2, OrderFollows
<1> HIDE DEF e, o, arrived
<1>4. /\ openOrders' = e.openOrders /\ trades' = e.trades /\ rows' = e.rows
      /\ Consumed(e.ledger) /\ FundsAt(e.ledger, lastSeen, e.positions, e.rows)
    BY <1>1, <1>3 DEF OrderSettled
<1>5. lastSeen' = o.id /\ ledger'.bal = e.ledger.bal /\ ledger'.resv = e.ledger.resv
    BY <1>2, <1>4, ConsumedKeepsFunds DEF BooksInv
<1>6. o.id \notin DOMAIN e.openOrders /\ e.trades = trades  BY <1>4, <1>5 DEF DoesNothing
<1>7. ~(Len(trades) < Len(e.trades))
    <2>1. Len(trades) \in Nat  BY DEF MoneySound
    <2> QED  BY <1>6, <2>1
<1>8. e.rows = rows /\ e.ledger = AfterRelease(ReservedFor(o), o.id)
    BY <1>3, <1>6, <1>7 DEF OrderSettled
<1>9. /\ LedgerSound(ledger)
      /\ IsFunded => DOMAIN ledger.resv = DOMAIN rows
    BY DEF AccountsInv, FundsAt, Mirrors
<1>10. o.id \notin DOMAIN ledger.resv  BY <1>2, <1>9 DEF LedgerSound
<1>11. /\ o.account \in Accounts /\ o.side \in Sides /\ o.limit \in Int /\ o.qty \in Int
    BY <1>2 DEF OrderFits, Cents, Tenths
<1>12. IsFunded => o.symbol \in Markets
    BY <1>2 DEF FundsAndPlanFit, CanReserve
<1>13. e.ledger.bal = ledger.bal /\ e.ledger.resv = ledger.resv
    <2>1. PICK m : m = AfterReserve(ledger, o.id, o.account, o.symbol, o.side, o.limit, o.qty)
        OBVIOUS
    <2>2. PICK n : n = AfterRelease(m, o.id)  OBVIOUS
    <2>3. e.ledger = n  BY <1>8, <2>1, <2>2 DEF ReservedFor
    <2>4. SameHoldings(n, ledger)
        BY <1>9, <1>10, <1>11, <1>12, <2>1, <2>2, ReserveThenRelease
    <2> QED  BY <2>3, <2>4 DEF SameHoldings
<1> QED  BY <1>4, <1>5, <1>8, <1>13 DEF NoTrace

\* apply_cancel: an order that is found leaves the index.
LEMMA IdleCancelNoTrace ==
    ASSUME BooksInv, AccountsInv, NEW account, NEW target,
           \/ IgnoreCancel(account, target)
           \/ RefuseCancel(account, target)
           \/ ApplyCancel(account, target),
           DoesNothing
    PROVE  NoTrace
<1>1. /\ Sound(books, rows, openOrders) /\ lastSeen \in Nat /\ RowsFit(rows)
      /\ FundsAt(ledger, lastSeen, positions, rows)
    BY IndexHasRows DEF BooksInv, AccountsInv
<1>2. CASE IgnoreCancel(account, target) \/ RefuseCancel(account, target)
    <2>1. Consumed(ledger) /\ rows' = rows
        BY <1>2 DEF IgnoreCancel, RefuseCancel, market
    <2>2. ledger'.bal = ledger.bal /\ ledger'.resv = ledger.resv
        BY <1>1, <2>1, ConsumedKeepsFunds
    <2> QED  BY <2>1, <2>2 DEF NoTrace
<1>3. CASE ApplyCancel(account, target)
    <2>1. CanRelease(ledger, target)  BY <1>1, ReleaseFollows
    <2>2. target \in DOMAIN openOrders /\ openOrders' = Without(openOrders, {target})
        BY <1>3, <2>1 DEF ApplyCancel, FoundInBook
    <2> QED  BY <2>2 DEF DoesNothing, Without, Restrict
<1> QED  BY <1>2, <1>3

\* apply_delist_symbol: a symbol nobody waits in has nothing to close.
LEMMA IdleDelistNoTrace ==
    ASSUME BooksInv, AccountsInv, NEW signer, NEW symbol \in Symbols,
           ApplyDelistSymbol(signer, symbol), DoesNothing
    PROVE  NoTrace
<1> DEFINE closed == {r.id : r \in OrdersIn(BookOf(symbol))}
<1>1. /\ openOrders' = Without(openOrders, closed) /\ rows' = Without(rows, closed)
      /\ (\A done \in SUBSET closed : \A id \in closed \ done :
             CanRelease(ReleaseAll(ledger, done), id)) => Consumed(ReleaseAll(ledger, closed))
    BY DEF ApplyDelistSymbol
<1> HIDE DEF closed
<1>2. Consumed(ReleaseAll(ledger, closed)) /\ closed \subseteq DOMAIN rows
    BY <1>1, ClosedGiveBack DEF closed
<1>3. DOMAIN openOrders = DOMAIN rows /\ RowsFit(rows) /\ lastSeen \in Nat
    BY IndexHasRows DEF BooksInv
<1>4. closed = {}
    BY <1>1, <1>2, <1>3 DEF DoesNothing, Without, Restrict
<1>5. rows' = rows
    <2>1. DOMAIN rows \ {} = DOMAIN rows  OBVIOUS
    <2> QED  BY <1>1, <1>3, <1>4, <2>1 DEF Without, Restrict, RowsFit
<1>6. ReleaseAll(ledger, {}) = ledger
    <2>1. IsFiniteSet({})  BY FS_EmptySet
    <2> QED  BY <2>1, ReleasesExist DEF Releasing
<1>7. Consumed(ledger)  BY <1>2, <1>4, <1>6
<1>8. FundsAt(ledger, lastSeen, positions, rows)  BY DEF AccountsInv
<1>9. ledger'.bal = ledger.bal /\ ledger'.resv = ledger.resv
    BY <1>3, <1>7, <1>8, ConsumedKeepsFunds
<1> QED  BY <1>5, <1>9 DEF NoTrace

\* Every message that does nothing.
LEMMA IdleStepNoTrace ==
    ASSUME BooksInv, MoneySound(positions, trades), AccountsInv, Next, DoesNothing
    PROVE  NoTrace
<1>1. ASSUME NEW account \in Accounts, NEW symbol \in Symbols, NEW form \in Forms,
             NEW reference \in ReferencesFor(form),
             New(Arrived(account, symbol, form), reference)
      PROVE  NoTrace
    <2> DEFINE arrived == Arrived(account, symbol, form)
    <2>1. CASE ApplyNew(arrived, reference)  BY <2>1, IdleOrderNoTrace
    <2>2. CASE RefuseEarly(arrived) \/ RefuseLate(arrived, reference)
        <3> HIDE DEF arrived
        <3>1. UNCHANGED <<ledger.bal, ledger.resv>>  BY <2>2, RefusalKeepsAccounts
        <3>2. rows' = rows  BY <2>2 DEF RefuseEarly, RefuseLate, market
        <3> QED  BY <3>1, <3>2 DEF NoTrace
    <2> QED  BY <1>1, <2>1, <2>2 DEF New
<1>2. ASSUME NEW account \in Accounts, NEW target \in 1..lastSeen,
             \/ IgnoreCancel(account, target)
             \/ RefuseCancel(account, target)
             \/ ApplyCancel(account, target)
      PROVE  NoTrace
    BY <1>2, IdleCancelNoTrace
<1>3. ASSUME NEW signer \in Signers,
             \/ IgnoreOperator(signer)
             \/ \E symbol \in Symbols, step \in Steps : ApplyListSymbol(signer, symbol, step)
             \/ \E symbol \in Symbols :
                   \/ ApplyDelistSymbol(signer, symbol)
                   \/ RefuseDelistSymbol(signer, symbol)
             \/ \E version \in Versions : ApplyEngineRule(signer, version)
      PROVE  NoTrace
    <2>1. ASSUME NEW symbol \in Symbols, NEW step, ApplyListSymbol(signer, symbol, step)
          PROVE  NoTrace
        <3>1. rows' = rows  BY <2>1 DEF ApplyListSymbol, market
        <3> QED  BY <2>1, <3>1, ListingKeepsAccounts DEF NoTrace
    <2>2. ASSUME NEW symbol \in Symbols, ApplyDelistSymbol(signer, symbol)
          PROVE  NoTrace
        BY <2>2, IdleDelistNoTrace
    <2>3. CASE \/ IgnoreOperator(signer)
               \/ \E symbol \in Symbols : RefuseDelistSymbol(signer, symbol)
               \/ \E version \in Versions : ApplyEngineRule(signer, version)
        <3>1. rows' = rows
            BY <2>3 DEF IgnoreOperator, RefuseDelistSymbol, ApplyEngineRule, market
        <3> QED  BY <2>3, <3>1, OperatorKeepsAccounts DEF NoTrace
    <2> QED  BY <1>3, <2>1, <2>2, <2>3
<1> QED  BY <1>1, <1>2, <1>3 DEF Next

\* An order that neither trades nor rests leaves no trace but its place in the
\* log, and neither does a cancel of an order that is not there or an operator
\* message that closes nothing: no empty book, no reservation, no index entry,
\* no row and not one unit moved from where it was (apply_new, prune_book,
\* release).
THEOREM RefusalsLeaveNoTrace == Spec => RefusalLeavesNoTrace
<1>1. ASSUME ExchangeInv, ExchangeInv', AccountsInv, Next, DoesNothing
      PROVE  UNCHANGED <<market, ledger.bal, ledger.resv>>
    <2>1. NoTrace  BY <1>1, IdleStepNoTrace DEF ExchangeInv
    <2>2. UNCHANGED market  BY <1>1, <2>1, SameRowsSameMarket DEF NoTrace, DoesNothing
    <2> QED  BY <2>1, <2>2 DEF NoTrace
<1>2. ExchangeInv /\ ExchangeInv' /\ AccountsInv /\ [Next]_vars =>
        [(/\ trades' = trades
          /\ DOMAIN openOrders \subseteq DOMAIN openOrders'
          /\ lastSeen' \notin DOMAIN openOrders')
         => UNCHANGED <<market, ledger.bal, ledger.resv>>]_vars
    BY <1>1 DEF DoesNothing
<1> QED  BY <1>2, ExchangeInvHolds, AccountsHold, PTL DEF RefusalLeavesNoTrace, Spec
=============================================================================
