------------------------------- MODULE MerkleTree -------------------------------
(***************************************************************************)
(* merkle.rs: the tree of RFC 9162 over a list of entries, the nodes it    *)
(* stores, the proofs it serves and the two verifiers.                     *)
(*                                                                         *)
(* A hash is the tuple of what it was made from, so two hashes are equal   *)
(* when, and only when, their inputs are. Stored nodes are a function of   *)
(* (level, index); Missing is a node nobody stored, and any hash over it.  *)
(***************************************************************************)
EXTENDS Integers, Sequences, SequencesExt

CONSTANTS
    Missing,      \* model value: a stored node that cannot be read
    MaxLevel      \* bound: no tree has 2^(MaxLevel + 1) leaves

ASSUME MaxLevelAssumption == MaxLevel \in Nat

EmptyRoot == <<"empty">>
LeafHash(entry) == <<"leaf", entry>>
NodeHash(left, right) ==
    IF Missing \in {left, right} THEN Missing ELSE <<"node", left, right>>

Levels == 0..MaxLevel
PowersOfTwo == {2^level : level \in Levels}
Log2(n) == CHOOSE level \in Levels : 2^level = n

\* The largest power of two below n: n itself is not one of them.
SplitPoint(n) == Max({k \in PowersOfTwo : k < n})

\* How often n halves evenly; 0 for the number 0, where the climb stops.
Zeros(n) == Max({level \in Levels : n % 2^level = 0 /\ (n = 0 => level = 0)})

Bits(n) == Cardinality({level \in Levels : (n \div 2^level) % 2 = 1})

-----------------------------------------------------------------------------
(* What is stored. *)

\* The nodes that leaf number `leaf` makes, as (level, index), the leaf first.
AppendedAt(leaf) ==
    {<<level, (leaf + 1) \div 2^level - 1>> :
        level \in {l \in Levels : (leaf + 1) % 2^l = 0}}

NodesIn(leaves) == 2 * leaves - Bits(leaves)

Node(nodes, level, index) ==
    IF <<level, index>> \in DOMAIN nodes THEN nodes[<<level, index>>] ELSE Missing

\* The new leaf and one parent for each subtree it fills: the left child is
\* stored already, the right child is the node just made.
AppendNodes(nodes, size, leaf) ==
    LET Hash[level \in Levels] ==
            IF level = 0 THEN leaf
            ELSE NodeHash(Node(nodes, level - 1, (size + 1) \div 2^(level - 1) - 2),
                          Hash[level - 1])
    IN  [at \in AppendedAt(size) |-> Hash[at[1]]]

-----------------------------------------------------------------------------
(* The walks over stored nodes. *)

RECURSIVE SubtreeHash(_, _, _)
SubtreeHash(nodes, lo, hi) ==
    LET size == hi - lo
        k == SplitPoint(size)
    IN  IF size \in PowersOfTwo /\ lo % size = 0
        THEN Node(nodes, Log2(size), lo \div size)
        ELSE NodeHash(SubtreeHash(nodes, lo, lo + k), SubtreeHash(nodes, lo + k, hi))

RootOver(nodes, size) == IF size = 0 THEN EmptyRoot ELSE SubtreeHash(nodes, 0, size)

RECURSIVE WalkPath(_, _, _, _)
WalkPath(nodes, m, lo, hi) ==
    LET k == SplitPoint(hi - lo)
    IN  CASE hi - lo = 1 -> <<>>
          [] hi - lo > 1 /\ m < k ->
                Append(WalkPath(nodes, m, lo, lo + k), SubtreeHash(nodes, lo + k, hi))
          [] hi - lo > 1 /\ m >= k ->
                Append(WalkPath(nodes, m - k, lo + k, hi), SubtreeHash(nodes, lo, lo + k))

\* The inclusion proof of a leaf below `size`.
Path(nodes, leaf, size) == WalkPath(nodes, leaf, 0, size)

\* `complete`: the first tree is still a whole subtree of the range, so its
\* hash is one the verifier holds.
RECURSIVE WalkProof(_, _, _, _, _)
WalkProof(nodes, m, lo, hi, complete) ==
    LET n == hi - lo
        k == SplitPoint(n)
    IN  CASE m = n /\ complete -> <<>>
          [] m = n /\ ~complete -> <<SubtreeHash(nodes, lo, hi)>>
          [] m < n /\ m <= k ->
                Append(WalkProof(nodes, m, lo, lo + k, complete), SubtreeHash(nodes, lo + k, hi))
          [] m < n /\ m > k ->
                Append(WalkProof(nodes, m - k, lo + k, hi, FALSE), SubtreeHash(nodes, lo, lo + k))

\* The consistency proof of two sizes, first <= second.
Proof(nodes, first, second) ==
    IF first \in {0, second} THEN <<>> ELSE WalkProof(nodes, first, 0, second, TRUE)

-----------------------------------------------------------------------------
(* The right edge alone: RootFold. *)

EmptyFold == [edge |-> <<>>, leaves |-> 0]

\* The last node made swallows every edge node at its level and below.
FoldIn(fold, entry) ==
    LET made == AppendNodes(fold.edge, fold.leaves, LeafHash(entry))
        top == Zeros(fold.leaves + 1)
        kept == {at \in DOMAIN fold.edge : at[1] > top}
        last == <<top, (fold.leaves + 1) \div 2^top - 1>>
    IN  [edge |-> [at \in kept \cup {last} |-> IF at = last THEN made[at] ELSE fold.edge[at]],
         leaves |-> fold.leaves + 1]

FoldRoot(fold) == RootOver(fold.edge, fold.leaves)

-----------------------------------------------------------------------------
(* The verifiers. *)

\* A climb is [f, s, old, new, ok]: the numbers of the node that is proved and
\* of the last node at its level, and what has been rebuilt below them.
Halve(climb, times) ==
    [climb EXCEPT !.f = @ \div 2^times, !.s = @ \div 2^times]

\* On the left of its sibling, the node goes into the new root only; on the
\* right, or last at its level, into both, up to where the edge next turns.
Climb(climb, sibling) ==
    LET shared == climb.f % 2 = 1 \/ climb.f = climb.s
        next == IF shared
                THEN [climb EXCEPT !.old = NodeHash(sibling, @), !.new = NodeHash(sibling, @)]
                ELSE [climb EXCEPT !.new = NodeHash(@, sibling)]
    IN  IF climb.s = 0 THEN [climb EXCEPT !.ok = FALSE]
        ELSE Halve(next, 1 + IF shared THEN Zeros(climb.f) ELSE 0)

VerifyInclusion(leaf, size, leafHash, path, root) ==
    LET start == [f |-> leaf, s |-> size - 1, old |-> leafHash, new |-> leafHash, ok |-> TRUE]
        end == FoldLeft(Climb, start, path)
    IN  leaf < size /\ end.ok /\ end.s = 0 /\ end.new = root

RebuildsBoth(end, firstRoot, secondRoot) ==
    end.ok /\ end.s = 0 /\ end.old = firstRoot /\ end.new = secondRoot

VerifyConsistency(first, second, firstRoot, secondRoot, path) ==
    LET whole == IF first \in PowersOfTwo THEN <<firstRoot>> \o path ELSE path
        start == [f |-> first - 1, s |-> second - 1,
                  old |-> whole[1], new |-> whole[1], ok |-> TRUE]
        end == FoldLeft(Climb, Halve(start, Zeros(first)), Tail(whole))
    IN  CASE first > second -> FALSE
          [] first = 0 -> path = <<>> /\ firstRoot = EmptyRoot
          [] 0 < first /\ first = second -> path = <<>> /\ firstRoot = secondRoot
          [] 0 < first /\ first < second ->
                path # <<>> /\ RebuildsBoth(end, firstRoot, secondRoot)

=============================================================================
