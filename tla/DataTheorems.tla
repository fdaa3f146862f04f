---------------------------- MODULE DataTheorems ----------------------------
(***************************************************************************)
(* Facts about the data the models are made of: sums over finite sets,     *)
(* greatest elements, and prefixes of sequences.                           *)
(*                                                                         *)
(* SumFunctionOnSet(fun, S) of the community modules is a fold over an     *)
(* unspecified order, so that its value for an arbitrary finite set needs  *)
(* an induction.  It is made by minimal counterexample, from the           *)
(* well-foundedness of < on the natural numbers.                           *)
(***************************************************************************)
EXTENDS Integers, FiniteSets, Functions, Sequences, SequencesExt, FiniteSetsExt,
        FiniteSetTheorems, SequenceTheorems, WellFoundedInduction, TLAPS

-----------------------------------------------------------------------------
(* Minimal counterexamples *)

\* < on the natural numbers, as the relation WellFoundedInduction speaks of.
LEMMA NatOrderWellFounded == IsWellFoundedOn({ss \in Nat \X Nat : ss[1] < ss[2]}, Nat)
BY NatLessThanWellFounded DEF OpToRel

\* A nonempty set of natural numbers has a least element.
LEMMA LeastNatural ==
    ASSUME NEW T, T \subseteq Nat, T # {}
    PROVE  \E x \in T : \A y \in T : x <= y
<1>1. PICK x \in T : \A y \in T : ~(<<y, x>> \in {ss \in Nat \X Nat : ss[1] < ss[2]})
  BY NatOrderWellFounded, WFMin
<1>2. ASSUME NEW y \in T, y < x PROVE FALSE
  <2>1. <<y, x>> \in Nat \X Nat /\ <<y, x>>[1] < <<y, x>>[2]
    BY <1>2
  <2>2. <<y, x>> \in {ss \in Nat \X Nat : ss[1] < ss[2]}
    BY <2>1
  <2>3. QED
    BY <1>1, <2>2
<1>3. QED
  BY <1>2

\* A set of natural numbers that holds 0 and each one's successor holds all.
LEMMA EveryNatural ==
    ASSUME NEW Good, 0 \in Good, \A n \in Nat : n \in Good => n + 1 \in Good
    PROVE  \A n \in Nat : n \in Good
<1> DEFINE failing == {n \in Nat : n \notin Good}
<1>1. ASSUME failing # {} PROVE FALSE
  <2>1. PICK n \in failing : \A m \in failing : n <= m
    BY <1>1, LeastNatural
  <2>2. n \in Nat /\ n # 0
    BY <2>1
  <2>3. n - 1 \in Nat /\ n - 1 \notin failing /\ (n - 1) + 1 = n
    BY <2>1, <2>2
  <2>4. QED
    BY <2>1, <2>3
<1>2. QED
  BY <1>1

\* Among finite sets that are wrong there is one that taking any element away
\* makes right.
LEMMA SmallestSet ==
    ASSUME NEW Wrong, Wrong # {}, \A s \in Wrong : IsFiniteSet(s)
    PROVE  \E s \in Wrong : \A x \in s : s \ {x} \notin Wrong
<1> DEFINE sizes == {n \in Nat : \E s \in Wrong : Cardinality(s) = n}
<1>1. \A s \in Wrong : Cardinality(s) \in Nat
  BY FS_CardinalityType
<1>2. sizes \subseteq Nat /\ sizes # {}
  BY <1>1
<1>3. PICK n \in sizes : \A m \in sizes : n <= m
  BY <1>2, LeastNatural
<1>4. PICK s \in Wrong : Cardinality(s) = n
  BY <1>3
<1>5. ASSUME NEW x \in s, s \ {x} \in Wrong PROVE FALSE
  <2>1. Cardinality(s \ {x}) = n - 1
    BY <1>4, FS_RemoveElement
  <2>2. Cardinality(s \ {x}) \in sizes
    BY <1>1, <1>5
  <2>3. n \in Nat
    BY <1>2, <1>3
  <2>4. QED
    BY <1>3, <2>1, <2>2, <2>3
<1>6. QED
  BY <1>4, <1>5

-----------------------------------------------------------------------------
(* The fold exists *)

\* The element the fold takes off a set, and one step of the fold.
FoldFirst(s) == CHOOSE x \in s : TRUE
FoldStep(g, fun, s) == IF s = {} THEN 0 ELSE fun[FoldFirst(s)] + g[s \ {FoldFirst(s)}]
Folded(g, fun, S) == g = [s \in SUBSET S |-> FoldStep(g, fun, s)]

\* The fold of a finite set satisfies its recursive definition: a function
\* that satisfies it on the subsets of at most n elements is extended to those
\* of n + 1.
LEMMA SumsExist ==
    ASSUME NEW fun, NEW S, IsFiniteSet(S)
    PROVE  \E g : Folded(g, fun, S)
<1> DEFINE Upto(n) == \E g : \A s \in SUBSET S : Cardinality(s) <= n => g[s] = FoldStep(g, fun, s)
           holding == {n \in Nat : Upto(n)}
<1>1. \A s \in SUBSET S : IsFiniteSet(s) /\ Cardinality(s) \in Nat /\ Cardinality(s) <= Cardinality(S)
  BY FS_Subset, FS_CardinalityType
<1>2. Upto(0)
  <2> DEFINE g == [s \in SUBSET S |-> 0]
  <2>1. ASSUME NEW s \in SUBSET S, Cardinality(s) <= 0 PROVE g[s] = FoldStep(g, fun, s)
    <3>1. Cardinality(s) = 0
      BY <1>1, <2>1
    <3>2. s = {}
      BY <1>1, <3>1, FS_EmptySet
    <3>3. QED
      BY <3>2 DEF FoldStep
  <2>2. QED
    BY <2>1
<1>3. ASSUME NEW n \in Nat, Upto(n) PROVE Upto(n + 1)
  <2>1. PICK g : \A s \in SUBSET S : Cardinality(s) <= n => g[s] = FoldStep(g, fun, s)
    BY <1>3
  <2> DEFINE h == [s \in SUBSET S |-> FoldStep(g, fun, s)]
  <2>2. ASSUME NEW s \in SUBSET S, Cardinality(s) <= n + 1 PROVE h[s] = FoldStep(h, fun, s)
    <3>1. CASE s = {}
      BY <3>1 DEF FoldStep
    <3>2. CASE s # {}
      <4> DEFINE t == s \ {FoldFirst(s)}
      <4>1. FoldFirst(s) \in s
        BY <3>2 DEF FoldFirst
      <4>2. Cardinality(t) = Cardinality(s) - 1
        BY <1>1, <4>1, FS_RemoveElement
      <4>3. t \in SUBSET S /\ Cardinality(t) <= n
        BY <1>1, <2>2, <4>2
      <4>4. g[t] = FoldStep(g, fun, t)
        BY <2>1, <4>3
      <4>5. h[t] = g[t]
        BY <4>3, <4>4
      <4>6. h[s] = fun[FoldFirst(s)] + g[t] /\ FoldStep(h, fun, s) = fun[FoldFirst(s)] + h[t]
        BY <3>2 DEF FoldStep
      <4>7. QED
        BY <4>5, <4>6
    <3>3. QED
      BY <3>1, <3>2
  <2>3. QED
    BY <2>2
<1>4. \A n \in Nat : n \in holding
  <2> HIDE DEF Upto
  <2>1. 0 \in holding
    BY <1>2
  <2>2. \A n \in Nat : n \in holding => n + 1 \in holding
    BY <1>3
  <2>3. QED
    BY <2>1, <2>2, EveryNatural
<1>5. Cardinality(S) \in Nat
  BY FS_CardinalityType
<1>6. Upto(Cardinality(S))
  BY <1>4, <1>5
<1>7. PICK g : \A s \in SUBSET S : Cardinality(s) <= Cardinality(S) => g[s] = FoldStep(g, fun, s)
  BY <1>6
<1>8. \A s \in SUBSET S : g[s] = FoldStep(g, fun, s)
  BY <1>1, <1>7
<1> DEFINE k == [s \in SUBSET S |-> g[s]]
<1>9. \A s \in SUBSET S : k[s] = FoldStep(k, fun, s)
  <2> SUFFICES ASSUME NEW s \in SUBSET S PROVE k[s] = FoldStep(k, fun, s)
    OBVIOUS
  <2>1. s \ {FoldFirst(s)} \in SUBSET S
    OBVIOUS
  <2>2. k[s \ {FoldFirst(s)}] = g[s \ {FoldFirst(s)}] /\ k[s] = g[s]
    BY <2>1
  <2>3. QED
    BY <1>8, <2>2 DEF FoldStep
<1>10. k = [s \in SUBSET S |-> FoldStep(k, fun, s)]
  BY <1>9
<1>11. QED
  BY <1>10 DEF Folded

\* SumFunctionOnSet reads the whole set off such a function.
LEMMA SumIsFold ==
    ASSUME NEW fun, NEW S, IsFiniteSet(S)
    PROVE  \E g : Folded(g, fun, S) /\ SumFunctionOnSet(fun, S) = g[S]
<1> DEFINE iter == CHOOSE g : Folded(g, fun, S)
<1>1. Folded(iter, fun, S)
  BY SumsExist
<1>2. SumFunctionOnSet(fun, S) = iter[S]
  BY DEF SumFunctionOnSet, FoldFunctionOnSet, MapThenFoldSet, Folded, FoldStep, FoldFirst
<1>3. QED
  BY <1>1, <1>2

\* Two such functions for the same summands agree wherever both are defined.
LEMMA SumsAgree ==
    ASSUME NEW fun, NEW S, IsFiniteSet(S), NEW T, IsFiniteSet(T),
           NEW g, Folded(g, fun, S), NEW h, Folded(h, fun, T)
    PROVE  \A s \in SUBSET (S \cap T) : g[s] = h[s]
<1> DEFINE Wrong == {s \in SUBSET (S \cap T) : g[s] # h[s]}
<1>1. /\ \A s \in SUBSET S : g[s] = FoldStep(g, fun, s)
      /\ \A s \in SUBSET T : h[s] = FoldStep(h, fun, s)
  BY DEF Folded
<1>2. \A s \in Wrong : IsFiniteSet(s)
  BY FS_Subset
<1>3. ASSUME Wrong # {} PROVE FALSE
  <2>1. PICK s \in Wrong : \A x \in s : s \ {x} \notin Wrong
    BY <1>2, <1>3, SmallestSet
  <2>2. s \in SUBSET S /\ s \in SUBSET T /\ g[s] # h[s]
    BY <2>1
  <2>3. s # {}
    BY <1>1, <2>2 DEF FoldStep
  <2>4. FoldFirst(s) \in s
    BY <2>3 DEF FoldFirst
  <2>5. g[s \ {FoldFirst(s)}] = h[s \ {FoldFirst(s)}]
    BY <2>1, <2>4
  <2>6. g[s] = h[s]
    BY <1>1, <2>2, <2>3, <2>5 DEF FoldStep
  <2>7. QED
    BY <2>2, <2>6
<1>4. QED
  BY <1>3

-----------------------------------------------------------------------------
(* What a sum is *)

\* The empty sum is zero.
LEMMA SumOfNothing == ASSUME NEW fun PROVE SumFunctionOnSet(fun, {}) = 0
<1>1. PICK g : Folded(g, fun, {}) /\ SumFunctionOnSet(fun, {}) = g[{}]
  BY SumIsFold, FS_EmptySet
<1>2. g[{}] = FoldStep(g, fun, {})
  BY <1>1 DEF Folded
<1>3. QED
  BY <1>1, <1>2 DEF FoldStep

\* The fold takes one element off.
LEMMA SumTakesFirst ==
    ASSUME NEW fun, NEW S, IsFiniteSet(S), S # {}
    PROVE  /\ FoldFirst(S) \in S
           /\ SumFunctionOnSet(fun, S)
                = fun[FoldFirst(S)] + SumFunctionOnSet(fun, S \ {FoldFirst(S)})
<1> DEFINE rest == S \ {FoldFirst(S)}
<1>1. FoldFirst(S) \in S
  BY DEF FoldFirst
<1>2. IsFiniteSet(rest)
  BY FS_RemoveElement
<1>3. PICK g : Folded(g, fun, S) /\ SumFunctionOnSet(fun, S) = g[S]
  BY SumIsFold
<1>4. PICK h : Folded(h, fun, rest) /\ SumFunctionOnSet(fun, rest) = h[rest]
  BY <1>2, SumIsFold
<1>5. rest \in SUBSET (S \cap rest)
  OBVIOUS
<1>6. \A s \in SUBSET (S \cap rest) : g[s] = h[s]
  <2> HIDE DEF rest
  <2>1. QED
    BY <1>2, <1>3, <1>4, SumsAgree
<1>7. g[rest] = h[rest]
  BY <1>5, <1>6
<1>8. g[S] = fun[FoldFirst(S)] + g[rest]
  BY <1>3 DEF Folded, FoldStep
<1>9. QED
  BY <1>1, <1>3, <1>4, <1>7, <1>8

\* A finite sum of integers is an integer.
LEMMA SumIsInteger ==
    ASSUME NEW fun, NEW S, IsFiniteSet(S), \A x \in S : fun[x] \in Int
    PROVE  SumFunctionOnSet(fun, S) \in Int
<1> DEFINE Wrong == {s \in SUBSET S : SumFunctionOnSet(fun, s) \notin Int}
<1>1. \A s \in Wrong : IsFiniteSet(s)
  BY FS_Subset
<1>2. ASSUME Wrong # {} PROVE FALSE
  <2>1. PICK s \in Wrong : \A x \in s : s \ {x} \notin Wrong
    BY <1>1, <1>2, SmallestSet
  <2>2. s \in SUBSET S /\ IsFiniteSet(s) /\ SumFunctionOnSet(fun, s) \notin Int
    BY <1>1, <2>1
  <2>3. s # {}
    BY <2>2, SumOfNothing
  <2>4. /\ FoldFirst(s) \in s
        /\ SumFunctionOnSet(fun, s) = fun[FoldFirst(s)] + SumFunctionOnSet(fun, s \ {FoldFirst(s)})
    BY <2>2, <2>3, SumTakesFirst
  <2>5. SumFunctionOnSet(fun, s \ {FoldFirst(s)}) \in Int /\ fun[FoldFirst(s)] \in Int
    BY <2>1, <2>2, <2>4
  <2>6. QED
    BY <2>2, <2>4, <2>5
<1>3. QED
  BY <1>2

\* Any element can be taken off first: the order of the fold does not matter.
LEMMA SumTakesAny ==
    ASSUME NEW fun, NEW S, IsFiniteSet(S), \A x \in S : fun[x] \in Int, NEW x \in S
    PROVE  SumFunctionOnSet(fun, S) = fun[x] + SumFunctionOnSet(fun, S \ {x})
<1> DEFINE Sum(s) == SumFunctionOnSet(fun, s)
           Wrong == {s \in SUBSET S : \E y \in s : Sum(s) # fun[y] + Sum(s \ {y})}
<1>1. \A s \in SUBSET S : IsFiniteSet(s)
  BY FS_Subset
<1>2. \A s \in SUBSET S : Sum(s) \in Int
  <2> SUFFICES ASSUME NEW s \in SUBSET S PROVE Sum(s) \in Int
    OBVIOUS
  <2>1. IsFiniteSet(s) /\ \A y \in s : fun[y] \in Int
    BY <1>1
  <2>2. QED
    BY <2>1, SumIsInteger
<1>3. \A s \in SUBSET S : s # {} => /\ FoldFirst(s) \in s
                                     /\ Sum(s) = fun[FoldFirst(s)] + Sum(s \ {FoldFirst(s)})
  BY <1>1, SumTakesFirst
<1> HIDE DEF Sum
<1>4. ASSUME Wrong # {} PROVE FALSE
  <2>1. PICK s \in Wrong : \A y \in s : s \ {y} \notin Wrong
    BY <1>1, <1>4, SmallestSet
  <2>2. PICK y \in s : Sum(s) # fun[y] + Sum(s \ {y})
    BY <2>1
  <2> DEFINE f == FoldFirst(s)
             rest == s \ {f, y}
  <2>3. s \in SUBSET S /\ f \in s /\ Sum(s) = fun[f] + Sum(s \ {f})
    BY <1>3, <2>1, <2>2
  <2>4. f # y
    BY <2>2, <2>3
  <2>5. s \ {f} \in SUBSET S /\ y \in s \ {f} /\ (s \ {f}) \ {y} = rest
    BY <2>2, <2>3, <2>4
  <2>6. s \ {y} \in SUBSET S /\ f \in s \ {y} /\ (s \ {y}) \ {f} = rest
    BY <2>2, <2>3, <2>4
  <2>7. s \ {f} \notin Wrong /\ s \ {y} \notin Wrong
    BY <2>1, <2>2, <2>3
  <2>8. Sum(s \ {f}) = fun[y] + Sum(rest)
    BY <2>5, <2>7
  <2>9. Sum(s \ {y}) = fun[f] + Sum(rest)
    BY <2>6, <2>7
  <2>10. Sum(rest) \in Int /\ fun[f] \in Int /\ fun[y] \in Int
    BY <1>2, <2>2, <2>3
  <2>11. QED
    BY <2>2, <2>3, <2>8, <2>9, <2>10
<1>5. S \notin Wrong
  BY <1>4
<1>6. QED
  BY <1>5 DEF Sum

\* A sum depends on its summands only.
LEMMA SumOfSame ==
    ASSUME NEW S, IsFiniteSet(S), NEW fun, NEW gun, \A x \in S : fun[x] = gun[x]
    PROVE  SumFunctionOnSet(fun, S) = SumFunctionOnSet(gun, S)
<1> DEFINE Wrong == {s \in SUBSET S : SumFunctionOnSet(fun, s) # SumFunctionOnSet(gun, s)}
<1>1. \A s \in SUBSET S : IsFiniteSet(s)
  BY FS_Subset
<1>2. ASSUME Wrong # {} PROVE FALSE
  <2>1. PICK s \in Wrong : \A x \in s : s \ {x} \notin Wrong
    BY <1>1, <1>2, SmallestSet
  <2>2. s \in SUBSET S /\ IsFiniteSet(s) /\ s # {}
    BY <1>1, <2>1, SumOfNothing
  <2>3. /\ FoldFirst(s) \in s
        /\ SumFunctionOnSet(fun, s) = fun[FoldFirst(s)] + SumFunctionOnSet(fun, s \ {FoldFirst(s)})
        /\ SumFunctionOnSet(gun, s) = gun[FoldFirst(s)] + SumFunctionOnSet(gun, s \ {FoldFirst(s)})
    BY <2>2, SumTakesFirst
  <2>4. SumFunctionOnSet(fun, s \ {FoldFirst(s)}) = SumFunctionOnSet(gun, s \ {FoldFirst(s)})
    BY <2>1, <2>2, <2>3
  <2>5. QED
    BY <2>1, <2>2, <2>3, <2>4
<1>3. QED
  BY <1>2

\* SumFunction sums over the whole domain.
LEMMA SumFunctionIsSum ==
    ASSUME NEW fun PROVE SumFunction(fun) = SumFunctionOnSet(fun, DOMAIN fun)
BY DEF SumFunction

\* Natural summands: the sum is a natural number, and no summand exceeds it.
LEMMA SumBoundsEach ==
    ASSUME NEW fun, NEW S, IsFiniteSet(S), \A x \in S : fun[x] \in Nat
    PROVE  /\ SumFunctionOnSet(fun, S) \in Nat
           /\ \A x \in S : fun[x] <= SumFunctionOnSet(fun, S)
<1> DEFINE Sum(s) == SumFunctionOnSet(fun, s)
           Wrong == {s \in SUBSET S : Sum(s) \notin Nat}
<1>1. \A s \in SUBSET S : IsFiniteSet(s)
  BY FS_Subset
<1>2. ASSUME NEW s \in SUBSET S, NEW x \in s PROVE Sum(s) = fun[x] + Sum(s \ {x})
  <2>1. IsFiniteSet(s) /\ \A y \in s : fun[y] \in Int
    BY <1>1
  <2>2. QED
    BY <2>1, SumTakesAny
<1>3. Sum({}) = 0
  BY SumOfNothing
<1> HIDE DEF Sum
<1>4. ASSUME Wrong # {} PROVE FALSE
  <2>1. PICK s \in Wrong : \A x \in s : s \ {x} \notin Wrong
    BY <1>1, <1>4, SmallestSet
  <2>2. s \in SUBSET S /\ Sum(s) \notin Nat
    BY <2>1
  <2>3. s # {}
    BY <1>3, <2>2
  <2>4. PICK x \in s : TRUE
    BY <2>3
  <2>5. Sum(s \ {x}) \in Nat /\ fun[x] \in Nat /\ Sum(s) = fun[x] + Sum(s \ {x})
    BY <1>2, <2>1, <2>2
  <2>6. QED
    BY <2>2, <2>5
<1>5. \A s \in SUBSET S : Sum(s) \in Nat
  BY <1>4
<1>6. ASSUME NEW x \in S PROVE fun[x] <= Sum(S)
  <2>1. Sum(S) = fun[x] + Sum(S \ {x}) /\ Sum(S \ {x}) \in Nat /\ fun[x] \in Nat
    BY <1>2, <1>5
  <2>2. QED
    BY <2>1
<1>7. QED
  BY <1>5, <1>6 DEF Sum

\* Natural summands: a part of them adds up to no more than all.
LEMMA SumOfPart ==
    ASSUME NEW fun, NEW S, IsFiniteSet(S), \A x \in S : fun[x] \in Nat, NEW T \in SUBSET S
    PROVE  SumFunctionOnSet(fun, T) <= SumFunctionOnSet(fun, S)
<1> DEFINE Sum(s) == SumFunctionOnSet(fun, s)
           Wrong == {s \in SUBSET S : T \subseteq s /\ ~(Sum(T) <= Sum(s))}
<1>1. \A s \in SUBSET S : IsFiniteSet(s) /\ Sum(s) \in Nat
  <2>1. ASSUME NEW s \in SUBSET S PROVE IsFiniteSet(s) /\ Sum(s) \in Nat
    <3>1. IsFiniteSet(s) /\ \A x \in s : fun[x] \in Nat
      BY FS_Subset
    <3>2. QED
      BY <3>1, SumBoundsEach
  <2>2. QED
    BY <2>1
<1>2. ASSUME Wrong # {} PROVE FALSE
  <2>1. PICK s \in Wrong : \A x \in s : s \ {x} \notin Wrong
    <3>1. \A s \in Wrong : IsFiniteSet(s)
      BY <1>1
    <3> HIDE DEF Wrong
    <3>2. QED
      BY <1>2, <3>1, SmallestSet
  <2>2. s \in SUBSET S /\ T \subseteq s /\ ~(Sum(T) <= Sum(s)) /\ Sum(T) \in Nat /\ Sum(s) \in Nat
    BY <1>1, <2>1
  <2>3. PICK x \in s : x \notin T
    BY <2>2
  <2>4. s \ {x} \in SUBSET S /\ T \subseteq s \ {x} /\ Sum(s \ {x}) \in Nat
    BY <1>1, <2>2, <2>3
  <2>5. Sum(T) <= Sum(s \ {x})
    BY <2>1, <2>4
  <2>6. Sum(s) = fun[x] + Sum(s \ {x}) /\ fun[x] \in Nat
    <3>1. IsFiniteSet(s) /\ (\A y \in s : fun[y] \in Nat) /\ x \in s
      BY <1>1, <2>2
    <3>2. \A y \in s : fun[y] \in Int
      BY <3>1
    <3>3. QED
      BY <3>1, <3>2, SumTakesAny
  <2> HIDE DEF Sum
  <2>7. QED
    BY <2>2, <2>4, <2>5, <2>6
<1>3. S \notin Wrong
  BY <1>2
<1>4. QED
  BY <1>3

\* Elements that count for nothing may be left out of a sum.
LEMMA SumDropsNothing ==
    ASSUME NEW fun, NEW S, IsFiniteSet(S), \A x \in S : fun[x] \in Int,
           NEW T \in SUBSET S, \A x \in S \ T : fun[x] = 0
    PROVE  SumFunctionOnSet(fun, T) = SumFunctionOnSet(fun, S)
<1> DEFINE Sum(s) == SumFunctionOnSet(fun, s)
           Wrong == {s \in SUBSET S : T \subseteq s /\ Sum(s) # Sum(T)}
<1>1. \A s \in SUBSET S : IsFiniteSet(s) /\ Sum(s) \in Int
  <2>1. ASSUME NEW s \in SUBSET S PROVE IsFiniteSet(s) /\ Sum(s) \in Int
    <3>1. IsFiniteSet(s) /\ \A x \in s : fun[x] \in Int
      BY FS_Subset
    <3>2. QED
      BY <3>1, SumIsInteger
  <2>2. QED
    BY <2>1
<1>2. ASSUME Wrong # {} PROVE FALSE
  <2>1. PICK s \in Wrong : \A x \in s : s \ {x} \notin Wrong
    <3>1. \A s \in Wrong : IsFiniteSet(s)
      BY <1>1
    <3> HIDE DEF Wrong
    <3>2. QED
      BY <1>2, <3>1, SmallestSet
  <2>2. s \in SUBSET S /\ T \subseteq s /\ Sum(s) # Sum(T)
    BY <2>1
  <2>3. PICK x \in s : x \notin T
    BY <2>2
  <2>4. s \ {x} \in SUBSET S /\ T \subseteq s \ {x}
    BY <2>2, <2>3
  <2>5. Sum(s \ {x}) = Sum(T) /\ Sum(s \ {x}) \in Int
    BY <1>1, <2>1, <2>4
  <2>6. Sum(s) = fun[x] + Sum(s \ {x}) /\ fun[x] = 0
    <3>1. IsFiniteSet(s) /\ (\A y \in s : fun[y] \in Int) /\ x \in S \ T
      BY <1>1, <2>2, <2>3
    <3>2. QED
      BY <3>1, SumTakesAny
  <2> HIDE DEF Sum
  <2>7. QED
    BY <2>2, <2>5, <2>6
<1>3. S \notin Wrong
  BY <1>2
<1>4. QED
  BY <1>3

\* Summed term by term, two sums add up.
LEMMA SumAdds ==
    ASSUME NEW S, IsFiniteSet(S), NEW fun, NEW gun, NEW hun,
           \A x \in S : fun[x] \in Int /\ gun[x] \in Int /\ hun[x] = fun[x] + gun[x]
    PROVE  SumFunctionOnSet(hun, S) = SumFunctionOnSet(fun, S) + SumFunctionOnSet(gun, S)
<1> DEFINE F(s) == SumFunctionOnSet(fun, s)
           G(s) == SumFunctionOnSet(gun, s)
           H(s) == SumFunctionOnSet(hun, s)
           Wrong == {s \in SUBSET S : H(s) # F(s) + G(s)}
<1>1. \A x \in S : fun[x] \in Int /\ gun[x] \in Int /\ hun[x] \in Int
  OBVIOUS
<1>2. \A s \in SUBSET S : IsFiniteSet(s) /\ F(s) \in Int /\ G(s) \in Int
  <2>1. ASSUME NEW s \in SUBSET S PROVE IsFiniteSet(s) /\ F(s) \in Int /\ G(s) \in Int
    <3>1. IsFiniteSet(s) /\ \A x \in s : fun[x] \in Int /\ gun[x] \in Int
      BY <1>1, FS_Subset
    <3>2. QED
      BY <3>1, SumIsInteger
  <2>2. QED
    BY <2>1
<1>3. ASSUME NEW s \in SUBSET S, NEW x \in s
      PROVE  /\ F(s) = fun[x] + F(s \ {x}) /\ G(s) = gun[x] + G(s \ {x})
             /\ H(s) = hun[x] + H(s \ {x})
  <2>1. IsFiniteSet(s) /\ \A y \in s : fun[y] \in Int /\ gun[y] \in Int /\ hun[y] \in Int
    BY <1>1, <1>2
  <2>2. QED
    BY <2>1, SumTakesAny
<1>4. F({}) = 0 /\ G({}) = 0 /\ H({}) = 0
  BY SumOfNothing
<1> HIDE DEF F, G, H
<1>5. ASSUME Wrong # {} PROVE FALSE
  <2>1. PICK s \in Wrong : \A x \in s : s \ {x} \notin Wrong
    <3>1. \A s \in Wrong : IsFiniteSet(s)
      BY <1>2
    <3> HIDE DEF Wrong
    <3>2. QED
      BY <1>5, <3>1, SmallestSet
  <2>2. s \in SUBSET S /\ H(s) # F(s) + G(s)
    BY <2>1
  <2>3. PICK x \in s : TRUE
    BY <1>4, <2>2
  <2>4. s \ {x} \in SUBSET S /\ x \in S
    BY <2>2, <2>3
  <2>5. H(s \ {x}) = F(s \ {x}) + G(s \ {x}) /\ F(s \ {x}) \in Int /\ G(s \ {x}) \in Int
    BY <1>2, <2>1, <2>3, <2>4
  <2>6. hun[x] = fun[x] + gun[x] /\ fun[x] \in Int /\ gun[x] \in Int
    BY <2>4
  <2>7. /\ F(s) = fun[x] + F(s \ {x}) /\ G(s) = gun[x] + G(s \ {x})
        /\ H(s) = hun[x] + H(s \ {x})
    BY <1>3, <2>2, <2>3
  <2>8. QED
    BY <2>2, <2>5, <2>6, <2>7
<1>6. S \notin Wrong
  BY <1>5
<1>7. QED
  BY <1>6 DEF F, G, H

\* A sum of ones counts.
LEMMA SumOfOnes ==
    ASSUME NEW S, IsFiniteSet(S), NEW fun, \A x \in S : fun[x] = 1
    PROVE  SumFunctionOnSet(fun, S) = Cardinality(S)
<1> DEFINE Wrong == {s \in SUBSET S : SumFunctionOnSet(fun, s) # Cardinality(s)}
<1>1. SUFFICES ASSUME Wrong # {} PROVE FALSE
  OBVIOUS
<1>2. \A s \in Wrong : IsFiniteSet(s)
  BY FS_Subset
<1> HIDE DEF Wrong
<1>3. PICK s \in Wrong : \A x \in s : s \ {x} \notin Wrong
  BY <1>1, <1>2, SmallestSet
<1> USE DEF Wrong
<1>4. s \in SUBSET S /\ IsFiniteSet(s)
  BY FS_Subset
<1>5. s # {}
  BY SumOfNothing, FS_EmptySet
<1>6. PICK x \in s : TRUE
  BY <1>5
<1>7. fun[x] = 1 /\ \A y \in s : fun[y] \in Int
  BY <1>4
<1>8. SumFunctionOnSet(fun, s \ {x}) = Cardinality(s \ {x})
  BY <1>3, <1>4, <1>6
<1>9. SumFunctionOnSet(fun, s) = 1 + SumFunctionOnSet(fun, s \ {x})
  BY <1>4, <1>7, SumTakesAny
<1>10. Cardinality(s \ {x}) = Cardinality(s) - 1 /\ Cardinality(s) \in Nat
  BY <1>4, FS_RemoveElement, FS_CardinalityType
<1>11. QED
  BY <1>8, <1>9, <1>10

\* A sum over the images of a set under a map that keeps its elements apart.
LEMMA SumOverImage ==
    ASSUME NEW S, IsFiniteSet(S), NEW f, \A x, y \in S : f[x] = f[y] => x = y,
           NEW fun, NEW gun, \A x \in S : fun[x] \in Int /\ gun[f[x]] = fun[x]
    PROVE  /\ IsFiniteSet({f[x] : x \in S})
           /\ Cardinality({f[x] : x \in S}) = Cardinality(S)
           /\ SumFunctionOnSet(gun, {f[x] : x \in S}) = SumFunctionOnSet(fun, S)
<1> DEFINE Image(s) == {f[x] : x \in s}
           Wrong == {s \in SUBSET S : SumFunctionOnSet(gun, Image(s)) # SumFunctionOnSet(fun, s)}
<1>1. \A s \in SUBSET S : IsFiniteSet(s)
  BY FS_Subset
<1>2. ASSUME NEW s \in SUBSET S
      PROVE  IsFiniteSet(Image(s)) /\ Cardinality(Image(s)) = Cardinality(s)
  <2> DEFINE g == [x \in s |-> f[x]]
  <2>1. g \in Bijection(s, Image(s))
    BY DEF Bijection, Injection, IsInjective, Surjection
  <2>2. ExistsBijection(s, Image(s))
    BY <2>1 DEF ExistsBijection
  <2>3. QED
    BY <1>1, <2>2, FS_Bijection
<1>3. ASSUME NEW s \in SUBSET S, NEW x \in s PROVE Image(s) \ {f[x]} = Image(s \ {x})
  OBVIOUS
<1>4. ASSUME Wrong # {} PROVE FALSE
  <2>1. PICK s \in Wrong : \A x \in s : s \ {x} \notin Wrong
    BY <1>1, <1>4, SmallestSet
  <2>2. s \in SUBSET S /\ IsFiniteSet(s) /\ SumFunctionOnSet(gun, Image(s)) # SumFunctionOnSet(fun, s)
    BY <1>1, <2>1
  <2>3. s # {}
    <3>1. ASSUME s = {} PROVE FALSE
      <4>1. Image(s) = {}
        BY <3>1
      <4> HIDE DEF Image
      <4>2. QED
        BY <2>2, <3>1, <4>1, SumOfNothing
    <3>2. QED
      BY <3>1
  <2>4. PICK x \in s : TRUE
    BY <2>3
  <2>5. SumFunctionOnSet(fun, s) = fun[x] + SumFunctionOnSet(fun, s \ {x})
    <3>1. \A y \in s : fun[y] \in Int
      BY <2>2
    <3>2. QED
      BY <2>2, <3>1, SumTakesAny
  <2>6. SumFunctionOnSet(gun, Image(s)) = gun[f[x]] + SumFunctionOnSet(gun, Image(s) \ {f[x]})
    <3>1. \A y \in Image(s) : gun[y] \in Int
      BY <2>2
    <3>2. f[x] \in Image(s) /\ IsFiniteSet(Image(s))
      BY <1>2, <2>2
    <3> HIDE DEF Image
    <3>3. QED
      BY <3>1, <3>2, SumTakesAny
  <2>7. SumFunctionOnSet(gun, Image(s \ {x})) = SumFunctionOnSet(fun, s \ {x})
    BY <2>1, <2>2
  <2>8. gun[f[x]] = fun[x] /\ Image(s) \ {f[x]} = Image(s \ {x})
    BY <1>3, <2>2
  <2> HIDE DEF Image, Wrong
  <2>9. QED
    BY <2>2, <2>5, <2>6, <2>7, <2>8
<1>5. SumFunctionOnSet(gun, Image(S)) = SumFunctionOnSet(fun, S)
  BY <1>4
<1>6. QED
  BY <1>2, <1>5

\* Whole multiples of a step, and the sum of any number of them.
LEMMA MultiplesAdd ==
    ASSUME NEW d \in Nat \ {0}, NEW a \in Int, NEW b \in Int, a % d = 0, b % d = 0
    PROVE  (a + b) % d = 0 /\ (a - b) % d = 0
<1>1. a = d * (a \div d) /\ b = d * (b \div d) /\ a \div d \in Int /\ b \div d \in Int
  OBVIOUS
<1> DEFINE x == a \div d
           y == b \div d
<1>2. x \in Int /\ y \in Int /\ a = d * x /\ b = d * y
  BY <1>1
<1> HIDE DEF x, y
<1>3. a + b = d * (x + y) /\ a - b = d * (x - y)
  BY <1>2
<1>4. \A z \in Int : (d * z) % d = 0
  OBVIOUS
<1>5. QED
  BY <1>2, <1>3, <1>4

LEMMA SumOfMultiples ==
    ASSUME NEW d \in Nat \ {0}, NEW S, IsFiniteSet(S), NEW fun,
           \A x \in S : fun[x] \in Int /\ fun[x] % d = 0
    PROVE  SumFunctionOnSet(fun, S) % d = 0
<1> DEFINE Wrong == {s \in SUBSET S : SumFunctionOnSet(fun, s) % d # 0}
<1>1. \A s \in SUBSET S : IsFiniteSet(s)
  BY FS_Subset
<1>2. ASSUME Wrong # {} PROVE FALSE
  <2>1. PICK s \in Wrong : \A x \in s : s \ {x} \notin Wrong
    <3>1. \A s \in Wrong : IsFiniteSet(s)
      BY <1>1
    <3> HIDE DEF Wrong
    <3>2. QED
      BY <1>2, <3>1, SmallestSet
  <2>2. s \in SUBSET S /\ IsFiniteSet(s) /\ SumFunctionOnSet(fun, s) % d # 0
    BY <1>1, <2>1
  <2>3. s # {}
    <3>1. 0 % d = 0
      OBVIOUS
    <3>2. QED
      BY <2>2, <3>1, SumOfNothing
  <2>4. PICK x \in s : TRUE
    BY <2>3
  <2>5. SumFunctionOnSet(fun, s) = fun[x] + SumFunctionOnSet(fun, s \ {x})
    BY <2>2, SumTakesAny
  <2>6. s \ {x} \in SUBSET S /\ SumFunctionOnSet(fun, s \ {x}) % d = 0
    BY <2>1, <2>2
  <2>7. SumFunctionOnSet(fun, s \ {x}) \in Int
    <3>1. IsFiniteSet(s \ {x}) /\ \A y \in s \ {x} : fun[y] \in Int
      BY <1>1, <2>6
    <3>2. QED
      BY <3>1, SumIsInteger
  <2>8. fun[x] \in Int /\ fun[x] % d = 0
    BY <2>2
  <2>9. QED
    BY <2>2, <2>5, <2>6, <2>7, <2>8, MultiplesAdd
<1>3. S \notin Wrong
  BY <1>2
<1>4. QED
  BY <1>3

-----------------------------------------------------------------------------
(* Least and greatest elements *)

LEMMA MinOfTwo ==
    ASSUME NEW a \in Int, NEW b \in Int
    PROVE  /\ Min({a, b}) \in {a, b}
           /\ Min({a, b}) <= a /\ Min({a, b}) <= b
<1>1. \E x \in {a, b} : \A y \in {a, b} : x <= y
  BY a <= b \/ b <= a
<1>2. Min({a, b}) \in {a, b} /\ \A y \in {a, b} : Min({a, b}) <= y
  BY <1>1 DEF Min
<1>3. QED
  BY <1>2

LEMMA MaxOfTwo ==
    ASSUME NEW a \in Int, NEW b \in Int
    PROVE  /\ Max({a, b}) \in {a, b}
           /\ Max({a, b}) >= a /\ Max({a, b}) >= b
<1>1. \E x \in {a, b} : \A y \in {a, b} : x >= y
  BY a <= b \/ b <= a
<1>2. Max({a, b}) \in {a, b} /\ \A y \in {a, b} : Max({a, b}) >= y
  BY <1>1 DEF Max
<1>3. QED
  BY <1>2

\* A finite nonempty set of integers has a greatest element.
LEMMA MaxOfFinite ==
    ASSUME NEW S, IsFiniteSet(S), S \subseteq Int, S # {}
    PROVE  Max(S) \in S /\ \A y \in S : Max(S) >= y
<1> DEFINE Wrong == {s \in SUBSET S : s # {} /\ ~\E x \in s : \A y \in s : x >= y}
<1>1. \A s \in Wrong : IsFiniteSet(s)
  BY FS_Subset
<1>2. ASSUME Wrong # {} PROVE FALSE
  <2>1. PICK s \in Wrong : \A x \in s : s \ {x} \notin Wrong
    BY <1>1, <1>2, SmallestSet
  <2>2. PICK z \in s : TRUE
    BY <2>1
  <2>3. CASE s = {z}
    BY <2>1, <2>2, <2>3
  <2>4. CASE s # {z}
    <3>1. s \ {z} # {} /\ s \ {z} \in SUBSET S
      BY <2>1, <2>2, <2>4
    <3>2. PICK x \in s \ {z} : \A y \in s \ {z} : x >= y
      BY <2>1, <2>2, <3>1
    <3>3. x \in Int /\ z \in Int /\ s \subseteq Int
      BY <2>1, <2>2, <3>2
    <3>4. CASE x >= z
      BY <2>1, <3>2, <3>4
    <3>5. CASE ~(x >= z)
      <4>1. \A y \in s : z >= y
        BY <3>2, <3>3, <3>5
      <4>2. QED
        BY <2>1, <2>2, <4>1
    <3>6. QED
      BY <3>4, <3>5
  <2>5. QED
    BY <2>3, <2>4
<1>3. \E x \in S : \A y \in S : x >= y
  BY <1>2
<1>4. QED
  BY <1>3 DEF Max

\* A function on a finite set has finitely many values.
LEMMA RangeIsFinite ==
    ASSUME NEW f, IsFiniteSet(DOMAIN f), f = [x \in DOMAIN f |-> f[x]]
    PROVE  IsFiniteSet(Range(f))
<1>1. f \in Surjection(DOMAIN f, Range(f))
  BY DEF Surjection, Range
<1>2. QED
  BY <1>1, FS_Surjection

-----------------------------------------------------------------------------
(* Prefixes *)

\* A prefix, element by element.
LEMMA PrefixByElement ==
    ASSUME NEW S, NEW s \in Seq(S), NEW t \in Seq(S)
    PROVE  IsPrefix(s, t) <=> Len(s) <= Len(t) /\ \A i \in 1..Len(s) : s[i] = t[i]
<1>1. CASE Len(s) <= Len(t)
    <2>1. /\ Len(SubSeq(s, 1, Len(s))) = Len(s) /\ Len(SubSeq(t, 1, Len(s))) = Len(s)
          /\ SubSeq(s, 1, Len(s)) \in Seq(S) /\ SubSeq(t, 1, Len(s)) \in Seq(S)
          /\ \A i \in 1..Len(s) : SubSeq(s, 1, Len(s))[i] = s[i] /\ SubSeq(t, 1, Len(s))[i] = t[i]
        BY <1>1, SubSeqProperties
    <2>2. SubSeq(s, 1, Len(s)) = SubSeq(t, 1, Len(s)) <=> \A i \in 1..Len(s) : s[i] = t[i]
        BY <2>1, SeqEqual
    <2> QED  BY <1>1, <2>2 DEF IsPrefix
<1>2. CASE ~(Len(s) <= Len(t))
    BY <1>2 DEF IsPrefix
<1> QED  BY <1>1, <1>2

\* Prefixes are ordered.
LEMMA PrefixReflexive ==
    ASSUME NEW S, NEW s \in Seq(S)
    PROVE  IsPrefix(s, s)
BY PrefixByElement

LEMMA PrefixTransitive ==
    ASSUME NEW S, NEW s \in Seq(S), NEW t \in Seq(S), NEW u \in Seq(S),
           IsPrefix(s, t), IsPrefix(t, u)
    PROVE  IsPrefix(s, u)
<1>1. Len(s) <= Len(t) /\ \A i \in 1..Len(s) : s[i] = t[i]
    BY PrefixByElement
<1>2. Len(t) <= Len(u) /\ \A i \in 1..Len(t) : t[i] = u[i]
    BY PrefixByElement
<1>3. Len(s) <= Len(u) /\ \A i \in 1..Len(s) : s[i] = u[i]
    BY <1>1, <1>2
<1> QED  BY <1>3, PrefixByElement

\* What is appended leaves a prefix, a proper one if it is something.
LEMMA PrefixOfConcat ==
    ASSUME NEW S, NEW s \in Seq(S), NEW t \in Seq(S)
    PROVE  IsPrefix(s, s \o t) /\ (t # <<>> => Len(s) < Len(s \o t))
<1>1. s \o t \in Seq(S) /\ Len(s \o t) = Len(s) + Len(t) /\ \A i \in 1..Len(s) : (s \o t)[i] = s[i]
    BY ConcatProperties
<1>2. Len(s) <= Len(s \o t) /\ \A i \in 1..Len(s) : s[i] = (s \o t)[i]
    BY <1>1
<1>3. IsPrefix(s, s \o t)
    BY <1>1, <1>2, PrefixByElement
<1>4. t # <<>> => Len(t) > 0
    OBVIOUS
<1> QED  BY <1>1, <1>3, <1>4

\* The front of a prefix is the prefix shorter by one.
LEMMA FrontOfPrefix ==
    ASSUME NEW S, NEW s \in Seq(S), NEW m \in 1..Len(s)
    PROVE  Front(SubSeq(s, 1, m)) = SubSeq(s, 1, m - 1)
<1>1. /\ SubSeq(s, 1, m) \in Seq(S) /\ Len(SubSeq(s, 1, m)) = m
      /\ \A i \in 1..m : SubSeq(s, 1, m)[i] = s[i]
    BY SubSeqProperties
<1>2. /\ SubSeq(s, 1, m - 1) \in Seq(S) /\ Len(SubSeq(s, 1, m - 1)) = m - 1
      /\ \A i \in 1..(m - 1) : SubSeq(s, 1, m - 1)[i] = s[i]
    BY SubSeqProperties
<1> DEFINE t == SubSeq(s, 1, m)
<1>3. /\ SubSeq(t, 1, m - 1) \in Seq(S) /\ Len(SubSeq(t, 1, m - 1)) = m - 1
      /\ \A i \in 1..(m - 1) : SubSeq(t, 1, m - 1)[i] = t[i]
    <2> HIDE DEF t
    <2>1. t \in Seq(S) /\ Len(t) = m
        BY <1>1 DEF t
    <2> QED  BY <2>1, SubSeqProperties
<1>4. \A i \in 1..(m - 1) : SubSeq(t, 1, m - 1)[i] = SubSeq(s, 1, m - 1)[i]
    BY <1>1, <1>2, <1>3
<1>5. SubSeq(t, 1, m - 1) = SubSeq(s, 1, m - 1)
    <2> HIDE DEF t
    <2> QED  BY <1>2, <1>3, <1>4, SeqEqual
<1>6. Front(t) = SubSeq(t, 1, m - 1)
    BY <1>1 DEF Front
<1> QED  BY <1>5, <1>6

\* Appending keeps every prefix and adds the whole.
LEMMA PrefixesOfAppend ==
    ASSUME NEW S, NEW s \in Seq(S), NEW e \in S
    PROVE  /\ \A k \in 0..Len(s) : SubSeq(Append(s, e), 1, k) = SubSeq(s, 1, k)
           /\ SubSeq(Append(s, e), 1, Len(s) + 1) = Append(s, e)
<1>1. /\ Append(s, e) \in Seq(S) /\ Len(Append(s, e)) = Len(s) + 1 /\ Len(s) \in Nat
      /\ \A i \in 1..Len(s) : Append(s, e)[i] = s[i]
    OBVIOUS
<1> DEFINE t == Append(s, e)
<1>2. t \in Seq(S) /\ Len(t) = Len(s) + 1 /\ \A i \in 1..Len(s) : t[i] = s[i]
    BY <1>1
<1> HIDE DEF t
<1>3. ASSUME NEW k \in 0..Len(s)
      PROVE  SubSeq(t, 1, k) = SubSeq(s, 1, k)
    <2>1. /\ SubSeq(t, 1, k) \in Seq(S) /\ Len(SubSeq(t, 1, k)) = k
          /\ \A i \in 1..k : SubSeq(t, 1, k)[i] = t[i]
        BY <1>1, <1>2, SubSeqProperties
    <2>2. /\ SubSeq(s, 1, k) \in Seq(S) /\ Len(SubSeq(s, 1, k)) = k
          /\ \A i \in 1..k : SubSeq(s, 1, k)[i] = s[i]
        BY <1>1, SubSeqProperties
    <2>3. \A i \in 1..k : SubSeq(t, 1, k)[i] = SubSeq(s, 1, k)[i]
        BY <1>1, <1>2, <2>1, <2>2
    <2> QED  BY <2>1, <2>2, <2>3, SeqEqual
<1>4. SubSeq(t, 1, Len(s) + 1) = t
    <2> DEFINE n == Len(s) + 1
    <2>1. n \in Nat /\ Len(t) = n /\ n <= Len(t)
        BY <1>1, <1>2
    <2> HIDE DEF n
    <2>2. /\ SubSeq(t, 1, n) \in Seq(S) /\ Len(SubSeq(t, 1, n)) = n
          /\ \A i \in 1..n : SubSeq(t, 1, n)[i] = t[i]
        BY <1>2, <2>1, SubSeqProperties
    <2>3. SubSeq(t, 1, n) = t
        BY <1>2, <2>1, <2>2, SeqEqual
    <2> QED  BY <2>3 DEF n
<1> QED  BY <1>3, <1>4 DEF t

\* Dropping the last element keeps the other prefixes.
LEMMA PrefixesOfFront ==
    ASSUME NEW S, NEW s \in Seq(S), s # <<>>, NEW k \in 0..(Len(s) - 1)
    PROVE  SubSeq(Front(s), 1, k) = SubSeq(s, 1, k)
<1> DEFINE m == Len(s) - 1
           t == SubSeq(s, 1, m)
<1>1. Front(s) = t
    BY DEF Front
<1>2. m \in Nat /\ k \in 0..m /\ m <= Len(s)
    OBVIOUS
<1> HIDE DEF m
<1>3. t \in Seq(S) /\ Len(t) = m /\ \A i \in 1..m : t[i] = s[i]
    BY <1>2, SubSeqProperties
<1> HIDE DEF t
<1>4. /\ SubSeq(t, 1, k) \in Seq(S) /\ Len(SubSeq(t, 1, k)) = k
      /\ \A i \in 1..k : SubSeq(t, 1, k)[i] = t[i]
    BY <1>2, <1>3, SubSeqProperties
<1>5. /\ SubSeq(s, 1, k) \in Seq(S) /\ Len(SubSeq(s, 1, k)) = k
      /\ \A i \in 1..k : SubSeq(s, 1, k)[i] = s[i]
    BY <1>2, SubSeqProperties
<1>6. \A i \in 1..k : SubSeq(t, 1, k)[i] = SubSeq(s, 1, k)[i]
    BY <1>2, <1>3, <1>4, <1>5
<1>7. SubSeq(t, 1, k) = SubSeq(s, 1, k)
    BY <1>4, <1>5, <1>6, SeqEqual
<1> QED  BY <1>1, <1>7

\* A prefix of a prefix.
LEMMA PrefixesOfPrefix ==
    ASSUME NEW S, NEW s \in Seq(S), NEW m \in 0..Len(s), NEW k \in 0..m
    PROVE  /\ SubSeq(s, 1, m) \in Seq(S) /\ Len(SubSeq(s, 1, m)) = m
           /\ SubSeq(SubSeq(s, 1, m), 1, k) = SubSeq(s, 1, k)
<1> DEFINE t == SubSeq(s, 1, m)
<1>1. t \in Seq(S) /\ Len(t) = m /\ \A i \in 1..m : t[i] = s[i]
  BY SubSeqProperties
<1> HIDE DEF t
<1>2. /\ SubSeq(t, 1, k) \in Seq(S) /\ Len(SubSeq(t, 1, k)) = k
      /\ \A i \in 1..k : SubSeq(t, 1, k)[i] = t[i]
  BY <1>1, SubSeqProperties
<1>3. /\ SubSeq(s, 1, k) \in Seq(S) /\ Len(SubSeq(s, 1, k)) = k
      /\ \A i \in 1..k : SubSeq(s, 1, k)[i] = s[i]
  BY SubSeqProperties
<1>4. \A i \in 1..k : SubSeq(t, 1, k)[i] = SubSeq(s, 1, k)[i]
  BY <1>1, <1>2, <1>3
<1>5. SubSeq(t, 1, k) = SubSeq(s, 1, k)
  BY <1>2, <1>3, <1>4, SeqEqual
<1>6. QED
  BY <1>1, <1>5 DEF t

\* The prefix of a length a sequence has is a prefix of it.
LEMMA SubSeqIsPrefix ==
    ASSUME NEW S, NEW s \in Seq(S), NEW m \in 0..Len(s)
    PROVE  IsPrefix(SubSeq(s, 1, m), s)
<1> DEFINE t == SubSeq(s, 1, m)
<1>1. t \in Seq(S) /\ Len(t) = m /\ \A i \in 1..m : t[i] = s[i]
  BY SubSeqProperties
<1> HIDE DEF t
<1>2. IsPrefix(t, s)
  BY <1>1, PrefixByElement
<1>3. QED
  BY <1>2 DEF t

\* Two prefixes of one sequence are comparable.
LEMMA PrefixesComparable ==
    ASSUME NEW S, NEW s \in Seq(S), NEW t \in Seq(S), NEW u \in Seq(S),
           IsPrefix(s, u), IsPrefix(t, u)
    PROVE  IsPrefix(s, t) \/ IsPrefix(t, s)
<1>1. /\ Len(s) <= Len(u) /\ \A i \in 1..Len(s) : s[i] = u[i]
      /\ Len(t) <= Len(u) /\ \A i \in 1..Len(t) : t[i] = u[i]
  BY PrefixByElement
<1>2. CASE Len(s) <= Len(t)
  <2>1. \A i \in 1..Len(s) : s[i] = t[i]
    BY <1>1, <1>2
  <2>2. QED
    BY <1>2, <2>1, PrefixByElement
<1>3. CASE ~(Len(s) <= Len(t))
  <2>1. Len(t) <= Len(s) /\ \A i \in 1..Len(t) : t[i] = s[i]
    BY <1>1, <1>3
  <2>2. QED
    BY <2>1, PrefixByElement
<1>4. QED
  BY <1>2, <1>3

\* Prefixes of one length that differ are on different histories.
LEMMA SameLengthNoPrefix ==
    ASSUME NEW S, NEW s \in Seq(S), NEW t \in Seq(S), Len(s) = Len(t), s # t
    PROVE  ~IsPrefix(s, t)
BY PrefixByElement, SeqEqual

-----------------------------------------------------------------------------
(* Ranks.  The place of an element in a finite strict order is the number   *)
(* of elements before it.                                                   *)

StrictOrder(R, T) ==
    /\ \A x \in T : <<x, x>> \notin R
    /\ \A x, y, z \in T : <<x, y>> \in R /\ <<y, z>> \in R => <<x, z>> \in R
    /\ \A x, y \in T : x = y \/ <<x, y>> \in R \/ <<y, x>> \in R

Before(R, T, x) == {y \in T : <<y, x>> \in R}

LEMMA OrderOfPart ==
    ASSUME NEW R, NEW T, StrictOrder(R, T), NEW s \in SUBSET T
    PROVE  StrictOrder(R, s)
BY DEF StrictOrder

\* A finite nonempty set has a last element.
LEMMA LastInOrder ==
    ASSUME NEW R, NEW T, IsFiniteSet(T), StrictOrder(R, T), T # {}
    PROVE  \E m \in T : \A y \in T : y = m \/ <<y, m>> \in R
<1> DEFINE HasLast(s) == \E m \in s : \A y \in s : y = m \/ <<y, m>> \in R
           Wrong == {s \in SUBSET T : s # {} /\ ~HasLast(s)}
<1>1. ASSUME Wrong # {} PROVE FALSE
  <2>1. PICK s \in Wrong : \A x \in s : s \ {x} \notin Wrong
    <3>1. \A s \in Wrong : IsFiniteSet(s)
      BY FS_Subset
    <3> HIDE DEF Wrong
    <3>2. QED
      BY <1>1, <3>1, SmallestSet
  <2>2. PICK x \in s : TRUE
    BY <2>1
  <2>3. s \in SUBSET T /\ ~HasLast(s) /\ s \ {x} \notin Wrong
    BY <2>1
  <2>4. CASE s \ {x} = {}
    BY <2>2, <2>3, <2>4
  <2>5. CASE s \ {x} # {}
    <3>1. PICK m \in s \ {x} : \A y \in s \ {x} : y = m \/ <<y, m>> \in R
      BY <2>3, <2>5
    <3>2. m \in T /\ x \in T /\ m # x
      BY <2>3, <3>1
    <3>3. CASE <<x, m>> \in R
      BY <2>3, <3>1, <3>3
    <3>4. CASE <<m, x>> \in R
      <4>1. \A y \in s : y = x \/ <<y, x>> \in R
        BY <2>3, <3>1, <3>2, <3>4 DEF StrictOrder
      <4>2. QED
        BY <2>3, <4>1
    <3>5. QED
      BY <3>2, <3>3, <3>4 DEF StrictOrder
  <2>6. QED
    BY <2>4, <2>5
<1>2. T \notin Wrong
  BY <1>1
<1>3. QED
  BY <1>2

\* Every place is taken.
LEMMA EveryRankTaken ==
    ASSUME NEW R, NEW T, IsFiniteSet(T), StrictOrder(R, T), NEW i \in 1..Cardinality(T)
    PROVE  \E x \in T : Cardinality(Before(R, T, x)) = i - 1
<1> DEFINE Taken(s, j) == \E x \in s : Cardinality(Before(R, s, x)) = j - 1
           Wrong == {s \in SUBSET T : \E j \in 1..Cardinality(s) : ~Taken(s, j)}
<1>1. ASSUME Wrong # {} PROVE FALSE
  <2>1. PICK s \in Wrong : \A x \in s : s \ {x} \notin Wrong
    <3>1. \A s \in Wrong : IsFiniteSet(s)
      BY FS_Subset
    <3> HIDE DEF Wrong
    <3>2. QED
      BY <1>1, <3>1, SmallestSet
  <2>2. s \in SUBSET T /\ IsFiniteSet(s) /\ Cardinality(s) \in Nat /\ StrictOrder(R, s)
    BY <2>1, FS_Subset, FS_CardinalityType, OrderOfPart
  <2>3. PICK j \in 1..Cardinality(s) : ~Taken(s, j)
    BY <2>1
  <2>4. s # {}
    BY <2>2, <2>3, FS_EmptySet
  <2>5. PICK m \in s : \A y \in s : y = m \/ <<y, m>> \in R
    BY <2>2, <2>4, LastInOrder
  <2> DEFINE t == s \ {m}
  <2>6. t \in SUBSET T /\ Cardinality(t) = Cardinality(s) - 1 /\ IsFiniteSet(t)
    BY <2>2, FS_RemoveElement
  <2>7. Before(R, s, m) = t
    BY <2>2, <2>5 DEF Before, StrictOrder
  <2>8. \A x \in t : Before(R, s, x) = Before(R, t, x)
    BY <2>2, <2>5 DEF Before, StrictOrder
  <2>9. t \notin Wrong
    BY <2>1
  <2> HIDE DEF t
  <2>10. CASE j = Cardinality(s)
    BY <2>3, <2>5, <2>6, <2>7, <2>10
  <2>11. CASE j # Cardinality(s)
    <3>1. j \in 1..Cardinality(t)
      BY <2>2, <2>6, <2>11
    <3>2. PICK x \in t : Cardinality(Before(R, t, x)) = j - 1
      BY <2>6, <2>9, <3>1
    <3>3. x \in s /\ Cardinality(Before(R, s, x)) = j - 1
      BY <2>8, <3>2 DEF t
    <3>4. QED
      BY <2>3, <3>3
  <2>12. QED
    BY <2>10, <2>11
<1>2. T \notin Wrong
  BY <1>1
<1>3. QED
  BY <1>2

\* No two elements have one place.
LEMMA RankOnce ==
    ASSUME NEW R, NEW T, IsFiniteSet(T), StrictOrder(R, T), NEW x \in T, NEW y \in T,
           Cardinality(Before(R, T, x)) = Cardinality(Before(R, T, y))
    PROVE  x = y
<1>1. \A a, b \in T : <<a, b>> \in R => Cardinality(Before(R, T, a)) < Cardinality(Before(R, T, b))
  <2>1. ASSUME NEW a \in T, NEW b \in T, <<a, b>> \in R
        PROVE  Cardinality(Before(R, T, a)) < Cardinality(Before(R, T, b))
    <3> DEFINE A == Before(R, T, a)
               B == Before(R, T, b)
    <3>1. A \in SUBSET B /\ a \in B /\ a \notin A /\ B \in SUBSET T
      BY <2>1 DEF StrictOrder, Before
    <3> HIDE DEF A, B
    <3>2. IsFiniteSet(B) /\ IsFiniteSet(A)
      BY <3>1, FS_Subset
    <3>3. Cardinality(A) <= Cardinality(B) /\ Cardinality(A) # Cardinality(B)
      BY <3>1, <3>2, FS_Subset
    <3>4. Cardinality(A) \in Nat /\ Cardinality(B) \in Nat
      BY <3>2, FS_CardinalityType
    <3>5. QED
      BY <3>3, <3>4 DEF A, B
  <2>2. QED
    BY <2>1
<1>2. \A a \in T : Cardinality(Before(R, T, a)) \in Nat
  <2>1. \A a \in T : Before(R, T, a) \in SUBSET T
    BY DEF Before
  <2>2. QED
    BY <2>1, FS_Subset, FS_CardinalityType
<1>3. ~(<<x, y>> \in R) /\ ~(<<y, x>> \in R)
  BY <1>1, <1>2
<1>4. QED
  BY <1>3 DEF StrictOrder

-----------------------------------------------------------------------------
(* Folds of sequences.  A step that stays in a set of values is a function, *)
(* and the fold's recursive definition has a solution with values in it.    *)

FoldValue(g, base, step, s) ==
    IF s = {} THEN base ELSE step[<<g[s \ {Max(s)}], Max(s)>>]

FoldsBy(g, base, n, step) ==
    g = [s \in SUBSET (1..n) |-> FoldValue(g, base, step, s)]

LEMMA FoldsExist ==
    ASSUME NEW V, NEW base \in V, NEW n \in Nat, NEW step \in [V \X (1..n) -> V]
    PROVE  \E g : FoldsBy(g, base, n, step) /\ \A s \in SUBSET (1..n) : g[s] \in V
<1> DEFINE S == 1..n
           Step(g, s) == FoldValue(g, base, step, s)
           Upto(m) == \E g : \A s \in SUBSET S :
                         Cardinality(s) <= m => g[s] = Step(g, s) /\ g[s] \in V
           holding == {m \in Nat : Upto(m)}
<1>0. IsFiniteSet(S) /\ S \subseteq Int
  <2>1. 1 \in Int /\ n \in Int
    OBVIOUS
  <2>2. QED
    BY <2>1, FS_Interval
<1> HIDE DEF S
<1>1. \A s \in SUBSET S : IsFiniteSet(s) /\ Cardinality(s) \in Nat
                          /\ Cardinality(s) <= Cardinality(S)
  BY <1>0, FS_Subset, FS_CardinalityType
<1>2. \A s \in SUBSET S : s # {} =>
        /\ Max(s) \in s /\ s \ {Max(s)} \in SUBSET S
        /\ Cardinality(s \ {Max(s)}) = Cardinality(s) - 1
  <2>1. \A s \in SUBSET S : s # {} => Max(s) \in s
    BY <1>0, <1>1, MaxOfFinite
  <2>2. QED
    BY <1>1, <2>1, FS_RemoveElement
<1>3. \A g, h : \A s \in SUBSET S :
        (s # {} => g[s \ {Max(s)}] = h[s \ {Max(s)}]) => Step(g, s) = Step(h, s)
  BY DEF FoldValue
<1>4. \A g : \A s \in SUBSET S :
        (s # {} => g[s \ {Max(s)}] \in V) => Step(g, s) \in V
  <2>1. step \in [V \X S -> V]
    BY DEF S
  <2>2. ASSUME NEW g, NEW s \in SUBSET S, s # {}, g[s \ {Max(s)}] \in V
        PROVE  Step(g, s) \in V
    <3>1. <<g[s \ {Max(s)}], Max(s)>> \in V \X S
      BY <1>2, <2>2
    <3>2. step[<<g[s \ {Max(s)}], Max(s)>>] \in V
      BY <2>1, <3>1
    <3>3. QED
      BY <2>2, <3>2 DEF FoldValue
  <2>3. ASSUME NEW g, NEW s \in SUBSET S, s = {} PROVE Step(g, s) \in V
    BY <2>3 DEF FoldValue
  <2>4. QED
    BY <2>2, <2>3
<1> HIDE DEF Step
<1>5. Upto(0)
  <2> DEFINE g == [s \in SUBSET S |-> Step(<<>>, {})]
  <2>1. ASSUME NEW s \in SUBSET S, Cardinality(s) <= 0 PROVE g[s] = Step(g, s) /\ g[s] \in V
    <3>1. s = {}
      BY <1>1, <2>1, FS_EmptySet
    <3>2. Step(<<>>, {}) = Step(g, {}) /\ Step(<<>>, {}) \in V
      BY <1>3, <1>4
    <3>3. QED
      BY <3>1, <3>2
  <2>2. QED
    BY <2>1
<1>6. ASSUME NEW m \in Nat, Upto(m) PROVE Upto(m + 1)
  <2>1. PICK g : \A s \in SUBSET S : Cardinality(s) <= m => g[s] = Step(g, s) /\ g[s] \in V
    BY <1>6
  <2> DEFINE h == [s \in SUBSET S |-> Step(g, s)]
  <2>2. ASSUME NEW s \in SUBSET S, Cardinality(s) <= m + 1
        PROVE  h[s] = Step(h, s) /\ h[s] \in V
    <3>1. ASSUME s # {}
          PROVE  g[s \ {Max(s)}] = h[s \ {Max(s)}] /\ g[s \ {Max(s)}] \in V
      <4> DEFINE t == s \ {Max(s)}
      <4>1. t \in SUBSET S /\ Cardinality(t) = Cardinality(s) - 1
        BY <1>2, <3>1
      <4>2. Cardinality(t) <= m
        BY <1>1, <2>2, <4>1
      <4> HIDE DEF t
      <4>3. h[t] = g[t] /\ g[t] \in V
        BY <2>1, <4>1, <4>2
      <4>4. QED
        BY <4>3 DEF t
    <3>2. h[s] = Step(g, s)
      OBVIOUS
    <3> HIDE DEF h
    <3>3. QED
      BY <1>3, <1>4, <3>1, <3>2, ZenonT(40)
  <2>3. QED
    BY <2>2
<1>7. \A m \in Nat : m \in holding
  <2> HIDE DEF Upto
  <2>1. 0 \in holding
    BY <1>5
  <2>2. \A m \in Nat : m \in holding => m + 1 \in holding
    BY <1>6
  <2>3. QED
    BY <2>1, <2>2, EveryNatural
<1>8. PICK g : \A s \in SUBSET S : Cardinality(s) <= Cardinality(S) => g[s] = Step(g, s) /\ g[s] \in V
  BY <1>0, <1>7, FS_CardinalityType
<1>9. \A s \in SUBSET S : g[s] = Step(g, s) /\ g[s] \in V
  BY <1>1, <1>8
<1> DEFINE k == [s \in SUBSET S |-> g[s]]
<1>10. ASSUME NEW s \in SUBSET S PROVE k[s] = Step(k, s) /\ k[s] \in V
  <2>1. s # {} => g[s \ {Max(s)}] = k[s \ {Max(s)}]
    BY <1>2
  <2>2. k[s] = Step(g, s) /\ k[s] \in V
    BY <1>9
  <2> HIDE DEF k
  <2>3. QED
    BY <1>3, <2>1, <2>2
<1>11. k = [s \in SUBSET S |-> Step(k, s)]
  BY <1>10
<1>12. QED
  BY <1>10, <1>11 DEF FoldsBy, Step, S

\* The prefixes 1..k of the indices of a sequence, as the fold takes them.
LEMMA PrefixOfIndices ==
    ASSUME NEW n \in Nat, NEW k \in 1..n
    PROVE  /\ 1..k \in SUBSET (1..n) /\ 1..k # {}
           /\ Max(1..k) = k /\ (1..k) \ {k} = 1..(k - 1)
<1> DEFINE s == 1..k
<1>1. s # {} /\ k \in s /\ k \in Nat /\ s \subseteq Int /\ s \subseteq 1..n
  OBVIOUS
<1>2. s \ {k} = 1..(k - 1)
  OBVIOUS
<1>3. 1 \in Int /\ k \in Int /\ IsFiniteSet(s)
  BY FS_Interval
<1>4. Max(s) = k
  <2> HIDE DEF s
  <2>1. Max(s) \in s /\ \A y \in s : Max(s) >= y
    BY <1>1, <1>3, MaxOfFinite
  <2>2. QED
    BY <1>1, <2>1 DEF s
<1>5. QED
  BY <1>1, <1>2, <1>4

=============================================================================
