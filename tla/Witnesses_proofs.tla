--------------------------- MODULE Witnesses_proofs ---------------------------
(***************************************************************************)
(* What validators say and what the mark of the exchange means, for any    *)
(* number of validators and URLs, any messages and all bounds.             *)
(*                                                                         *)
(* The argument: whatever answers at the address of the feed, a page is a  *)
(* piece of the history the feed has now, under a head of that history,    *)
(* and every prefix of that history carries a signature.  So what a        *)
(* validator has hashed is always a signed head; a hash that does not fit  *)
(* is a second history; and while every save reaches the disk, a session   *)
(* is only ever followed forwards.  The mark follows from the one list     *)
(* the round keeps: one entry per key, each backed by an attestation.      *)
(***************************************************************************)
EXTENDS WitnessesProperties, DataTheorems, TLAPS

Chains == Seq(Bodies)
Keys == {NoKey, FeedKey, StrangerKey}

ValidatorState ==
    [session : Nat \cup {NoSession}, key : Keys, cursor : Nat, chain : Chains,
     disputed : BOOLEAN, unchecked : Nat]

Heads == [key : {FeedKey}, session : Nat, last : Nat, chain : Chains]
Attestations == [validator : Validators, session : Nat, chain : Chains]
Engines == [session : Nat, chain : Chains, recent : Nat, mark : Nat]

\* Every prefix of the history the feed has now carries a signature.
FeedFits(f, heads) ==
    /\ f \in [session : Nat, log : Chains]
    /\ heads \subseteq Heads
    /\ \A n \in 0..Len(f.log) : HeadOf(f.session, SubSeq(f.log, 1, n)) \in heads

\* A validator stands on a signed head, and has a reason to accuse if it does.
StandsIn(s, heads) ==
    s.cursor > 0 =>
        [key |-> s.key, session |-> s.session, last |-> s.cursor, chain |-> s.chain] \in heads

StateFits(s, f, heads) ==
    /\ s \in ValidatorState
    /\ s.cursor = Len(s.chain)
    /\ StandsIn(s, heads)
    /\ s.session \in Nat => s.session <= f.session
    /\ s.disputed => \E x, y \in heads : Fork(x, y)

Comparable(x, y) == IsPrefix(x, y) \/ IsPrefix(y, x)

\* Where a validator stands, with the key it pinned.
Standing(s) == <<s.session, s.key, s.cursor, s.chain>>

\* What a validator has vouched for lies behind it.
BehindOf(v, s, voc) ==
    \A x \in voc : x.validator = v =>
        /\ s.session \in Nat /\ s.key = FeedKey /\ x.session <= s.session
        /\ x.session = s.session => IsPrefix(x.chain, s.chain)

Consistent(v, voc) ==
    \A x, y \in voc :
        x.validator = v /\ y.validator = v /\ x.session = y.session =>
            Comparable(x.chain, y.chain)

\* A validator in memory m and on disk d.
ValidatorFits(v, m, d, voc, unsaved) ==
    /\ Attested(v, m) \subseteq voc
    /\ d.disputed => m = d
    /\ v \notin unsaved =>
          Standing(m) = Standing(d) /\ BehindOf(v, m, voc) /\ Consistent(v, voc)

-----------------------------------------------------------------------------
(* Answers *)

\* What the feed, or whoever answers in its place, may say: a page of the
\* history it has now under a head of that history, signed or not.
FeedAnswer(r, f) ==
    \E p, n, m \in 0..Len(f.log) :
        /\ p <= n
        /\ r.head = HeadOf(f.session, SubSeq(f.log, 1, m))
        /\ r.messages = [i \in 1..(n - p) |-> [id |-> p + i, body |-> f.log[p + i]]]

AnswerFits(r, f) == FeedAnswer(r, f) \/ r = StrangersAnswer

LEMMA AnswersFit ==
    ASSUME FeedFits(feed, signed), NEW since \in Nat,
           NEW r \in HonestAnswers(since) \cup WrongAnswers(since) \cup {Unsigned}
    PROVE  AnswerFits(r, feed)
<1> DEFINE log == feed.log
<1>1. /\ log \in Seq(Bodies) /\ Len(log) \in Nat
      /\ 0 \in 0..Len(log) /\ Len(log) \in 0..Len(log)
  BY DEF FeedFits, Chains
<1>2. HeadOf(feed.session, SubSeq(log, 1, Len(log))) = HeadOf(feed.session, log)
  BY <1>1, SubSeqFull
<1>3. \A p, n, m \in 0..Len(log) :
        p <= n /\ r.head = HeadOf(feed.session, SubSeq(log, 1, m)) /\ r.messages = Page(p, n)
          => FeedAnswer(r, feed)
  BY DEF FeedAnswer, Page
<1>4. Page(0, 0) = <<>>
  BY DEF Page
<1>5. CASE r \in HonestAnswers(since)
  <2>1. CASE since >= Len(log)
    <3>1. r.head = HeadOf(feed.session, log) /\ r.messages = Page(0, 0)
      BY <1>4, <1>5, <2>1 DEF HonestAnswers, SignedAnswer
    <3>2. QED
      BY <1>1, <1>2, <1>3, <3>1 DEF AnswerFits
  <2>2. CASE ~(since >= Len(log))
    <3>1. PICK n \in (since + 1)..Len(log) :
            r = SignedAnswer(HeadOf(feed.session, SubSeq(log, 1, n)), Page(since, n))
      BY <1>5, <2>2 DEF HonestAnswers
    <3>2. /\ since \in 0..Len(log) /\ n \in 0..Len(log) /\ since <= n
          /\ r.head = HeadOf(feed.session, SubSeq(log, 1, n)) /\ r.messages = Page(since, n)
      BY <1>1, <2>2, <3>1 DEF SignedAnswer
    <3>3. QED
      BY <1>3, <3>2 DEF AnswerFits
  <2>3. QED
    BY <2>1, <2>2
<1>6. CASE r \in WrongAnswers(since)
  <2> DEFINE head == HeadOf(feed.session, log)
  <2>1. \/ \E n \in 0..(Min({since, Len(log)}) - 1) : r = SignedAnswer(head, Page(n, Len(log)))
        \/ \E n \in (since + 1)..(Len(log) - 1) : r = SignedAnswer(head, Page(since, n))
    BY <1>6 DEF WrongAnswers
  <2>2. CASE \E n \in 0..(Min({since, Len(log)}) - 1) : r = SignedAnswer(head, Page(n, Len(log)))
    <3>1. PICK n \in 0..(Min({since, Len(log)}) - 1) : r = SignedAnswer(head, Page(n, Len(log)))
      BY <2>2
    <3>2. Min({since, Len(log)}) \in Int /\ Min({since, Len(log)}) <= Len(log)
      <4> DEFINE l == Len(log)
      <4>1. since \in Int /\ l \in Int
        BY <1>1
      <4> HIDE DEF l
      <4>2. Min({since, l}) \in {since, l} /\ Min({since, l}) <= l
        BY <4>1, MinOfTwo
      <4>3. QED
        BY <4>1, <4>2 DEF l
    <3>3. n \in 0..Len(log) /\ Len(log) \in 0..Len(log) /\ n <= Len(log)
      BY <1>1, <3>1, <3>2
    <3>4. r.head = HeadOf(feed.session, SubSeq(log, 1, Len(log))) /\ r.messages = Page(n, Len(log))
      BY <1>2, <3>1 DEF SignedAnswer
    <3>5. QED
      BY <1>3, <3>3, <3>4 DEF AnswerFits
  <2>3. CASE \E n \in (since + 1)..(Len(log) - 1) : r = SignedAnswer(head, Page(since, n))
    <3>1. PICK n \in (since + 1)..(Len(log) - 1) : r = SignedAnswer(head, Page(since, n))
      BY <2>3
    <3>2. n \in 0..Len(log) /\ since \in 0..Len(log) /\ Len(log) \in 0..Len(log) /\ since <= n
      BY <1>1, <3>1
    <3>3. r.head = HeadOf(feed.session, SubSeq(log, 1, Len(log))) /\ r.messages = Page(since, n)
      BY <1>2, <3>1 DEF SignedAnswer
    <3>4. QED
      BY <1>3, <3>2, <3>3 DEF AnswerFits
  <2>4. QED
    BY <2>1, <2>2, <2>3
<1>7. CASE r = Unsigned
  <2>1. r.head = HeadOf(feed.session, log) /\ r.messages = Page(0, 0)
    BY <1>4, <1>7 DEF Unsigned, SignedAnswer
  <2>2. QED
    BY <1>1, <1>2, <1>3, <2>1 DEF AnswerFits
<1>8. QED
  BY <1>5, <1>6, <1>7

-----------------------------------------------------------------------------
(* One answer, taken in *)

\* How a validator's position may move: forwards in its session, or to the
\* session the feed has now; a pinned key stays.
Advances(s, t, f) ==
    /\ t.session = s.session => IsPrefix(s.chain, t.chain)
    /\ s.key # NoKey => t.key = s.key
    /\ s.key = FeedKey /\ t.session # s.session => t.session = f.session

\* A page that continues the cursor, under a head that stands at its end, is the
\* rest of the feed's history up to there.
LEMMA CoveredPage ==
    ASSUME NEW f, NEW heads, FeedFits(f, heads), NEW r, FeedAnswer(r, f),
           NEW w, w.cursor \in Nat, w.chain \in Chains, Len(w.chain) = w.cursor,
           Covered(w, r)
    PROVE  LET h == Hashed(w, r)
               m == r.head.last
           IN  /\ m \in 0..Len(f.log) /\ w.cursor <= m
               /\ r.head = HeadOf(f.session, SubSeq(f.log, 1, m))
               /\ h \in Chains /\ Len(h) = m
               /\ \A i \in 1..w.cursor : h[i] = w.chain[i]
               /\ \A i \in (w.cursor + 1)..m : h[i] = f.log[i]
<1>1. f.log \in Seq(Bodies) /\ Len(f.log) \in Nat
  BY DEF FeedFits, Chains
<1>2. PICK p \in 0..Len(f.log), n \in 0..Len(f.log), k \in 0..Len(f.log) :
        /\ p <= n
        /\ r.head = HeadOf(f.session, SubSeq(f.log, 1, k))
        /\ r.messages = [i \in 1..(n - p) |-> [id |-> p + i, body |-> f.log[p + i]]]
  BY DEF FeedAnswer
<1> DEFINE l == n - p
           c == w.cursor
           tail == [i \in 1..l |-> f.log[p + i]]
<1>3. l \in Nat /\ p \in Nat /\ n \in Nat /\ k \in Nat /\ n = p + l
  BY <1>1, <1>2
<1>4. Len(SubSeq(f.log, 1, k)) = k
  BY <1>1, <1>2, SubSeqProperties
<1>5. r.head.last = k
  BY <1>2, <1>4 DEF HeadOf
<1>6. DOMAIN r.messages = 1..l /\ Len(r.messages) = l
  BY <1>2, <1>3
<1>7. \A i \in 1..l : r.messages[i].id = p + i /\ r.messages[i].body = f.log[p + i]
  BY <1>2
<1>8. k = c + l /\ \A i \in 1..l : p + i = c + i
  BY <1>5, <1>6, <1>7 DEF Covered
<1>9. [i \in DOMAIN r.messages |-> r.messages[i].body] = tail
  BY <1>6, <1>7
<1>10. tail \in Seq(Bodies) /\ Len(tail) = l
  <2>1. \A i \in 1..l : f.log[p + i] \in Bodies
    BY <1>1, <1>2, <1>3
  <2> HIDE DEF l
  <2>2. tail \in [1..l -> Bodies]
    BY <2>1
  <2>3. QED
    BY <1>3, <2>2
<1>11. Hashed(w, r) = w.chain \o tail
  BY <1>9 DEF Hashed
<1> HIDE DEF tail
<1>12. /\ w.chain \o tail \in Seq(Bodies) /\ Len(w.chain \o tail) = c + l
       /\ \A i \in 1..(c + l) : (w.chain \o tail)[i] = IF i <= c THEN w.chain[i] ELSE tail[i - c]
  <2> DEFINE t == w.chain
  <2>1. t \in Seq(Bodies) /\ Len(t) = c
    BY DEF Chains
  <2> HIDE DEF t, l, c
  <2>2. QED
    BY <1>10, <2>1, ConcatProperties DEF t
<1> DEFINE h == Hashed(w, r)
<1>13. /\ h \in Chains /\ Len(h) = k
       /\ \A i \in 1..k : h[i] = IF i <= c THEN w.chain[i] ELSE tail[i - c]
  BY <1>8, <1>11, <1>12 DEF Chains
<1> HIDE DEF h
<1>14. \A i \in 1..c : h[i] = w.chain[i]
  BY <1>3, <1>8, <1>13
<1>15. ASSUME NEW i \in (c + 1)..k PROVE h[i] = f.log[i]
  <2>1. i - c \in 1..l
    <3>1. k = c + l /\ c \in Nat
      BY <1>8
    <3> HIDE DEF l, c
    <3>2. QED
      BY <1>3, <3>1
  <2>2. h[i] = tail[i - c]
    BY <1>3, <1>13
  <2>3. tail[i - c] = f.log[p + (i - c)]
    BY <2>1 DEF tail
  <2>4. p + (i - c) = c + (i - c)
    BY <1>8, <2>1
  <2>5. c + (i - c) = i
    BY <1>3
  <2>6. QED
    BY <2>2, <2>3, <2>4, <2>5
<1>16. c <= k
  BY <1>3, <1>8
<1>17. QED
  BY <1>2, <1>5, <1>13, <1>14, <1>15, <1>16 DEF h

\* The fields of the states ingest goes through.
LEMMA UncheckedFields ==
    ASSUME NEW s \in ValidatorState
    PROVE  /\ Unchecked(s) \in ValidatorState
           /\ Standing(Unchecked(s)) = Standing(s)
           /\ Unchecked(s).session = s.session /\ Unchecked(s).key = s.key
           /\ Unchecked(s).cursor = s.cursor /\ Unchecked(s).chain = s.chain
           /\ Unchecked(s).disputed = s.disputed
<1> DEFINE n == Min({s.unchecked + 1, StallAfter})
<1>1. n \in Nat
  <2> DEFINE a == s.unchecked + 1
  <2>1. a \in Nat /\ StallAfter \in Nat
    BY StallAssumption DEF ValidatorState
  <2> HIDE DEF a
  <2>2. Min({a, StallAfter}) \in {a, StallAfter}
    BY <2>1, MinOfTwo
  <2>3. QED
    BY <2>1, <2>2 DEF a
<1> HIDE DEF n
<1>2. Unchecked(s) = [s EXCEPT !.unchecked = n]
  BY DEF Unchecked, n
<1>3. QED
  BY <1>1, <1>2 DEF ValidatorState, Standing

LEMMA FollowingFields ==
    ASSUME NEW s \in ValidatorState, NEW r, r.head.key \in Keys, r.head.session \in Nat
    PROVE  LET w == Following(s, r)
           IN  /\ w \in ValidatorState
               /\ w.key = r.head.key /\ w.session = r.head.session
               /\ w.disputed = s.disputed
               /\ s.session = r.head.session => w.cursor = s.cursor /\ w.chain = s.chain
               /\ s.session # r.head.session => w.cursor = 0 /\ w.chain = <<>>
<1>1. CASE s.session = r.head.session
  BY <1>1 DEF Following, ValidatorState
<1>2. CASE s.session # r.head.session
  <2>1. Following(s, r) = [Fresh EXCEPT !.key = r.head.key, !.session = r.head.session,
                                        !.disputed = s.disputed]
    BY <1>2 DEF Following
  <2>2. <<>> \in Chains
    BY DEF Chains
  <2>3. Following(s, r) =
          [session |-> r.head.session, key |-> r.head.key, cursor |-> 0, chain |-> <<>>,
           disputed |-> s.disputed, unchecked |-> 0]
    BY <2>1 DEF Fresh
  <2>4. s.disputed \in BOOLEAN
    BY DEF ValidatorState
  <2>5. QED
    BY <1>2, <2>2, <2>3, <2>4 DEF ValidatorState
<1>3. QED
  BY <1>1, <1>2

\* Where a state stands decides what it may say: the count of unchecked polls
\* does not matter.
LEMMA SameStandingFits ==
    ASSUME NEW f, NEW heads, NEW s, StateFits(s, f, heads), NEW t \in ValidatorState,
           t.session = s.session, t.key = s.key, t.cursor = s.cursor, t.chain = s.chain,
           t.disputed = s.disputed
    PROVE  StateFits(t, f, heads)
BY DEF StateFits, StandsIn

\* A validator that has checked something pinned the key of the feed.
LEMMA StandingPinsFeed ==
    ASSUME NEW f, NEW heads, FeedFits(f, heads), NEW s, StateFits(s, f, heads), s.cursor > 0
    PROVE  s.key = FeedKey /\ s.session \in Nat
<1> DEFINE head == [key |-> s.key, session |-> s.session, last |-> s.cursor, chain |-> s.chain]
<1>1. head \in Heads
  BY DEF StateFits, StandsIn, FeedFits
<1>2. head.key \in {FeedKey} /\ head.session \in Nat
  BY <1>1 DEF Heads
<1>3. QED
  BY <1>2

\* What follow_feed makes of an answer: a state that fits, reached forwards.
LEMMA IngestFits ==
    ASSUME NEW f, NEW heads, FeedFits(f, heads), NEW s, StateFits(s, f, heads),
           NEW r, AnswerFits(r, f)
    PROVE  StateFits(Ingest(s, r), f, heads) /\ Advances(s, Ingest(s, r), f)
<1> DEFINE w == Following(s, r)
           h == Hashed(w, r)
<1>1. s \in ValidatorState /\ s.chain \in Seq(Bodies) /\ s.cursor = Len(s.chain)
  BY DEF StateFits, ValidatorState, Chains
<1>2. /\ r.head.key \in Keys \ {NoKey} /\ r.head.session \in Nat
      /\ r.head.session <= f.session
      /\ r.head.key = FeedKey => FeedAnswer(r, f) /\ r.head.session = f.session
  <2>1. CASE FeedAnswer(r, f)
    <3>1. PICK m \in 0..Len(f.log) : r.head = HeadOf(f.session, SubSeq(f.log, 1, m))
      BY <2>1 DEF FeedAnswer
    <3>2. r.head.key = FeedKey /\ r.head.session = f.session
      BY <3>1 DEF HeadOf
    <3>3. f.session \in Nat
      BY DEF FeedFits
    <3>4. QED
      BY <2>1, <3>2, <3>3, WitnessAssumption DEF Keys
  <2>2. CASE r = StrangersAnswer
    <3>1. r.head.key = StrangerKey /\ r.head.session = 0
      BY <2>2 DEF StrangersAnswer, SignedAnswer
    <3>2. f.session \in Nat
      BY DEF FeedFits
    <3>3. QED
      BY <3>1, <3>2, WitnessAssumption DEF Keys
  <2>3. QED
    BY <2>1, <2>2 DEF AnswerFits
<1>3. IsPrefix(s.chain, s.chain)
  BY <1>1, PrefixReflexive
<1>4. CASE ~Trusted(s, r)
  <2>1. Ingest(s, r) = Unchecked(s)
    BY <1>4 DEF Ingest
  <2>2. StateFits(Unchecked(s), f, heads)
    BY <1>1, UncheckedFields, SameStandingFits
  <2>3. Advances(s, Unchecked(s), f)
    BY <1>1, <1>3, UncheckedFields DEF Advances
  <2>4. QED
    BY <2>1, <2>2, <2>3
<1>5. CASE Trusted(s, r)
  <2>1. s.key \in {NoKey, r.head.key}
    BY <1>5 DEF Trusted
  <2>2. /\ w \in ValidatorState
        /\ w.key = r.head.key /\ w.session = r.head.session
        /\ w.disputed = s.disputed
        /\ s.session = r.head.session => w.cursor = s.cursor /\ w.chain = s.chain
        /\ s.session # r.head.session => w.cursor = 0 /\ w.chain = <<>>
    BY <1>1, <1>2, FollowingFields
  <2>3. w.cursor > 0 => w.cursor = s.cursor /\ w.chain = s.chain /\ w.session = s.session
                        /\ w.key = s.key /\ w.key = FeedKey
    <3>1. SUFFICES ASSUME w.cursor > 0
                   PROVE  w.cursor = s.cursor /\ w.chain = s.chain /\ w.session = s.session
                          /\ w.key = s.key /\ w.key = FeedKey
      OBVIOUS
    <3>2. s.session = r.head.session
      BY <2>2, <3>1
    <3>3. s.key = FeedKey
      BY <2>2, <3>1, <3>2, StandingPinsFeed
    <3>4. QED
      BY <2>1, <2>2, <3>2, <3>3, WitnessAssumption
  <2> HIDE DEF w
  <2>4. StateFits(w, f, heads)
    <3>1. w.cursor = Len(w.chain)
      BY <1>1, <2>2
    <3>2. StandsIn(w, heads)
      BY <2>3 DEF StateFits, StandsIn
    <3>3. w.session <= f.session
      BY <1>2, <2>2
    <3>4. QED
      BY <2>2, <3>1, <3>2, <3>3 DEF StateFits
  <2>5. Advances(s, w, f)
    <3>1. w.session = s.session => w.chain = s.chain
      BY <2>2
    <3>2. s.key # NoKey => w.key = s.key
      BY <2>1, <2>2
    <3>3. s.key = FeedKey /\ w.session # s.session => w.session = f.session
      BY <1>2, <2>1, <2>2, WitnessAssumption
    <3>4. QED
      BY <1>3, <3>1, <3>2, <3>3 DEF Advances
  <2>6. CASE ~Covered(w, r)
    <3>1. Ingest(s, r) = Unchecked(w)
      BY <1>5, <2>6 DEF Ingest, w
    <3>2. StateFits(Unchecked(w), f, heads)
      BY <2>2, <2>4, UncheckedFields, SameStandingFits
    <3>3. Advances(s, Unchecked(w), f)
      BY <2>2, <2>5, UncheckedFields DEF Advances
    <3>4. QED
      BY <3>1, <3>2, <3>3
  <2>7. CASE Covered(w, r) /\ r.head.key # FeedKey
    <3>1. r = StrangersAnswer
      <4>1. ASSUME FeedAnswer(r, f) PROVE FALSE
        <5>1. PICK m \in 0..Len(f.log) : r.head = HeadOf(f.session, SubSeq(f.log, 1, m))
          BY <4>1 DEF FeedAnswer
        <5>2. QED
          BY <2>7, <5>1 DEF HeadOf
      <4>2. QED
        BY <4>1 DEF AnswerFits
    <3>2. r.head.last = 0 /\ r.head.chain = <<>> /\ r.messages = <<>>
      BY <3>1 DEF StrangersAnswer, SignedAnswer
    <3>3. w.cursor = 0
      <4>1. w.cursor \in Nat
        BY <2>2 DEF ValidatorState
      <4>2. QED
        BY <2>7, <3>2, <4>1 DEF Covered
    <3>4. w.chain = <<>>
      BY <2>2, <2>4, <3>3 DEF StateFits, ValidatorState, Chains
    <3>5. h = <<>>
      BY <3>2, <3>4 DEF Hashed
    <3>6. Ingest(s, r) = Verified(w, r)
      BY <1>5, <2>7, <3>2, <3>5 DEF Ingest, w
    <3> DEFINE t == Verified(w, r)
    <3>7. /\ t \in ValidatorState /\ t.session = w.session /\ t.key = w.key
          /\ t.cursor = w.cursor /\ t.chain = w.chain /\ t.disputed = w.disputed
      BY <2>2, <3>2, <3>3, <3>4, <3>5 DEF Verified, ValidatorState
    <3> HIDE DEF t
    <3>8. StateFits(t, f, heads)
      BY <2>4, <3>7, SameStandingFits
    <3>9. Advances(s, t, f)
      BY <2>5, <3>7 DEF Advances
    <3>10. QED
      BY <3>6, <3>8, <3>9 DEF t
  <2>8. CASE Covered(w, r) /\ r.head.key = FeedKey
    <3> DEFINE m == r.head.last
               c == w.cursor
    <3>1. /\ c \in Nat /\ w.chain \in Chains /\ Len(w.chain) = c /\ FeedAnswer(r, f)
      BY <1>2, <2>2, <2>4, <2>8 DEF ValidatorState, StateFits
    <3>2. /\ m \in 0..Len(f.log) /\ c <= m
          /\ r.head = HeadOf(f.session, SubSeq(f.log, 1, m))
          /\ h \in Chains /\ Len(h) = m
          /\ \A i \in 1..c : h[i] = w.chain[i]
          /\ \A i \in (c + 1)..m : h[i] = f.log[i]
      BY <2>8, <3>1, CoveredPage
    <3>3. /\ f.log \in Seq(Bodies) /\ m \in Nat
          /\ r.head.chain = SubSeq(f.log, 1, m)
          /\ r.head \in heads /\ r.head.session = f.session
      BY <3>2 DEF FeedFits, Chains, HeadOf
    <3>4. CASE h # r.head.chain
      <4>1. Ingest(s, r) = [w EXCEPT !.disputed = TRUE]
        BY <1>5, <2>8, <3>4 DEF Ingest, w
      <4> DEFINE t == [w EXCEPT !.disputed = TRUE]
                 x == [key |-> w.key, session |-> w.session, last |-> w.cursor, chain |-> w.chain]
                 y == HeadOf(f.session, SubSeq(f.log, 1, c))
      <4>2. w.chain # SubSeq(f.log, 1, c)
        <5>1. ASSUME w.chain = SubSeq(f.log, 1, c) PROVE FALSE
          <6> DEFINE whole == SubSeq(f.log, 1, m)
          <6>1. /\ whole \in Seq(Bodies) /\ Len(whole) = m
                /\ \A i \in 1..m : whole[i] = f.log[i]
            BY <3>2, <3>3, SubSeqProperties
          <6>2. \A i \in 1..c : SubSeq(f.log, 1, c)[i] = f.log[i]
            BY <3>1, <3>2, <3>3, SubSeqProperties
          <6>3. \A i \in 1..m : h[i] = f.log[i]
            <7>1. \A i \in 1..c : h[i] = f.log[i]
              BY <3>2, <5>1, <6>2
            <7> HIDE DEF h, m, c
            <7>2. QED
              BY <3>1, <3>2, <3>3, <7>1
          <6> HIDE DEF whole, h, m
          <6>4. h = whole
            BY <3>2, <6>1, <6>3, SeqEqual DEF Chains
          <6>5. QED
            BY <3>3, <3>4, <6>4 DEF whole
        <5>2. QED
          BY <5>1
      <4>3. c > 0
        <5>1. CASE c = 0
          <6>1. w.chain = <<>>
            BY <3>1, <5>1 DEF Chains
          <6>2. SubSeq(f.log, 1, c) = <<>>
            BY <5>1, SubSeqEmpty
          <6>3. QED
            BY <4>2, <6>1, <6>2
        <5>2. QED
          BY <3>1, <5>1
      <4>4. x \in heads /\ y \in heads
        <5>1. x \in heads
          BY <2>4, <4>3 DEF StateFits, StandsIn
        <5>2. c \in 0..Len(f.log)
          BY <3>1, <3>2, <3>3
        <5>3. y \in heads
          BY <5>2 DEF FeedFits
        <5>4. QED
          BY <5>1, <5>3
      <4>5. Fork(x, y)
        <5>1. /\ SubSeq(f.log, 1, c) \in Seq(Bodies) /\ Len(SubSeq(f.log, 1, c)) = c
          BY <3>1, <3>2, <3>3, SubSeqProperties
        <5>2. x.chain = w.chain /\ y.chain = SubSeq(f.log, 1, c)
          BY DEF HeadOf
        <5>3. x.key = y.key /\ x.session = y.session
          BY <2>2, <2>8, <3>3 DEF HeadOf
        <5>4. w.chain \in Seq(Bodies) /\ Len(w.chain) = c
          BY <3>1 DEF Chains
        <5> DEFINE ours == w.chain
                   theirs == SubSeq(f.log, 1, c)
        <5>5. ours \in Seq(Bodies) /\ theirs \in Seq(Bodies)
              /\ Len(ours) = Len(theirs) /\ ours # theirs
          BY <4>2, <5>1, <5>4
        <5> HIDE DEF ours, theirs
        <5>6. ~IsPrefix(ours, theirs) /\ ~IsPrefix(theirs, ours)
          BY <5>5, SameLengthNoPrefix
        <5>7. QED
          BY <5>2, <5>3, <5>6 DEF Fork, ours, theirs
      <4>6. /\ t \in ValidatorState /\ t.session = w.session /\ t.key = w.key
            /\ t.cursor = w.cursor /\ t.chain = w.chain
        BY <2>2 DEF ValidatorState
      <4> HIDE DEF t, x, y
      <4>7. StateFits(t, f, heads)
        BY <2>4, <4>4, <4>5, <4>6 DEF StateFits, StandsIn
      <4>8. Advances(s, t, f)
        BY <2>5, <4>6 DEF Advances
      <4>9. QED
        BY <4>1, <4>7, <4>8 DEF t
    <3>5. CASE h = r.head.chain
      <4>1. Ingest(s, r) = Verified(w, r)
        BY <1>5, <2>8, <3>5 DEF Ingest, w
      <4> DEFINE t == Verified(w, r)
      <4>2. /\ t.session = w.session /\ t.key = w.key /\ t.cursor = m
            /\ t.chain = h /\ t.disputed = w.disputed
            /\ t \in ValidatorState
        BY <2>2, <3>2, <3>3 DEF Verified, ValidatorState
      <4>3. [key |-> t.key, session |-> t.session, last |-> t.cursor, chain |-> t.chain] = r.head
        BY <2>2, <2>8, <3>2, <3>3, <3>5, <4>2 DEF HeadOf
      <4>4. IsPrefix(w.chain, h)
        <5> DEFINE old == w.chain
        <5>1. /\ old \in Seq(Bodies) /\ h \in Seq(Bodies) /\ Len(old) <= Len(h)
              /\ \A i \in 1..Len(old) : old[i] = h[i]
          BY <3>1, <3>2 DEF Chains
        <5> HIDE DEF old, h
        <5>2. IsPrefix(old, h)
          BY <5>1, PrefixByElement
        <5>3. QED
          BY <5>2 DEF old
      <4> HIDE DEF t, h, m
      <4>5. StateFits(t, f, heads)
        BY <2>4, <3>2, <3>3, <4>2, <4>3 DEF StateFits, StandsIn
      <4>6. t.session = s.session => IsPrefix(s.chain, t.chain)
        BY <2>2, <4>2, <4>4
      <4>7. Advances(s, t, f)
        BY <2>5, <4>2, <4>6 DEF Advances
      <4>8. QED
        BY <4>1, <4>5, <4>7 DEF t
    <3>6. QED
      BY <3>4, <3>5
  <2>9. QED
    BY <2>6, <2>7, <2>8
<1>6. QED
  BY <1>4, <1>5

-----------------------------------------------------------------------------
(* What was vouched for, and the validators together *)

\* What a validator adds when it vouches from where it stands.
LEMMA AttestedFits ==
    ASSUME NEW f, NEW heads, FeedFits(f, heads), NEW v \in Validators,
           NEW s, StateFits(s, f, heads), NEW x \in Attested(v, s)
    PROVE  /\ x \in Attestations /\ x.validator = v
           /\ x.session = s.session /\ x.chain = s.chain /\ s.key = FeedKey
           /\ s.session \in Nat /\ Vouching(s) /\ s.cursor > 0
<1>1. s.cursor > 0 /\ Vouching(s)
      /\ x = [validator |-> v, session |-> s.session, chain |-> s.chain]
  BY DEF Attested
<1>2. s.key = FeedKey /\ s.session \in Nat
  BY <1>1, StandingPinsFeed
<1>3. s.chain \in Chains
  BY DEF StateFits, ValidatorState
<1>4. QED
  BY <1>1, <1>2, <1>3 DEF Attestations

\* A validator that went forwards still has everything it vouched for behind
\* it, and has vouched for one history.
LEMMA ForwardsStaysBehind ==
    ASSUME NEW f, NEW heads, FeedFits(f, heads), NEW v \in Validators,
           NEW s, StateFits(s, f, heads), NEW t, StateFits(t, f, heads), Advances(s, t, f),
           NEW voc, voc \subseteq Attestations, BehindOf(v, s, voc), Consistent(v, voc)
    PROVE  /\ BehindOf(v, t, voc \cup Attested(v, t))
           /\ Consistent(v, voc \cup Attested(v, t))
<1>1. /\ s.chain \in Seq(Bodies) /\ t.chain \in Seq(Bodies) /\ f.session \in Nat
      /\ t.session \in Nat \cup {NoSession}
  BY DEF StateFits, ValidatorState, Chains, FeedFits
<1>2. IsPrefix(t.chain, t.chain)
  BY <1>1, PrefixReflexive
<1>3. ASSUME NEW x \in voc, x.validator = v
      PROVE  /\ t.session \in Nat /\ t.key = FeedKey /\ x.session <= t.session
             /\ x.session = t.session => IsPrefix(x.chain, t.chain)
  <2>1. /\ s.session \in Nat /\ s.key = FeedKey /\ x.session <= s.session
        /\ x.session = s.session => IsPrefix(x.chain, s.chain)
    BY <1>3 DEF BehindOf
  <2>2. x.session \in Nat /\ x.chain \in Seq(Bodies)
    BY DEF Attestations, Chains
  <2>3. t.key = FeedKey
    BY <2>1, WitnessAssumption DEF Advances
  <2>4. CASE t.session = s.session
    <3>1. IsPrefix(s.chain, t.chain)
      BY <2>4 DEF Advances
    <3>2. x.session = t.session => IsPrefix(x.chain, t.chain)
      BY <1>1, <2>1, <2>2, <2>4, <3>1, PrefixTransitive
    <3>3. QED
      BY <2>1, <2>3, <2>4, <3>2
  <2>5. CASE t.session # s.session
    <3>1. t.session = f.session /\ s.session <= f.session
      BY <2>1, <2>5 DEF Advances, StateFits
    <3>2. x.session < t.session
      BY <1>1, <2>1, <2>2, <2>5, <3>1
    <3>3. QED
      BY <1>1, <2>2, <2>3, <3>1, <3>2
  <2>6. QED
    BY <2>4, <2>5
<1>4. ASSUME NEW x \in Attested(v, t)
      PROVE  /\ t.session \in Nat /\ t.key = FeedKey /\ x.session = t.session
             /\ x.chain = t.chain
  BY AttestedFits
<1>5. BehindOf(v, t, voc \cup Attested(v, t))
  <2>1. ASSUME NEW x \in Attested(v, t)
        PROVE  /\ t.session \in Nat /\ t.key = FeedKey /\ x.session <= t.session
               /\ IsPrefix(x.chain, t.chain)
    BY <1>2, <1>4
  <2>2. QED
    BY <1>3, <2>1 DEF BehindOf
<1>6. Consistent(v, voc \cup Attested(v, t))
  <2>1. SUFFICES ASSUME NEW x \in voc \cup Attested(v, t), NEW y \in voc \cup Attested(v, t),
                        x.validator = v, y.validator = v, x.session = y.session
                 PROVE  Comparable(x.chain, y.chain)
    BY DEF Consistent
  <2>2. CASE x \in voc /\ y \in voc
    BY <2>1, <2>2 DEF Consistent
  <2>3. CASE x \in Attested(v, t)
    <3>1. x.session = t.session /\ x.chain = t.chain
      BY <1>4, <2>3
    <3>2. IsPrefix(y.chain, t.chain)
      BY <1>5, <2>1, <3>1 DEF BehindOf
    <3>3. QED
      BY <3>1, <3>2 DEF Comparable
  <2>4. CASE y \in Attested(v, t)
    <3>1. y.session = t.session /\ y.chain = t.chain
      BY <1>4, <2>4
    <3>2. IsPrefix(x.chain, t.chain)
      BY <1>5, <2>1, <3>1 DEF BehindOf
    <3>3. QED
      BY <3>1, <3>2 DEF Comparable
  <2>5. QED
    BY <2>2, <2>3, <2>4
<1>7. QED
  BY <1>5, <1>6

\* All validators, in memory ms and on disk ds.
ValidatorsFit(ms, ds, f, heads, voc, unsaved) ==
    /\ ms \in [Validators -> ValidatorState] /\ ds \in [Validators -> ValidatorState]
    /\ voc \subseteq Attestations
    /\ \A v \in Validators :
          /\ StateFits(ms[v], f, heads) /\ StateFits(ds[v], f, heads)
          /\ ValidatorFits(v, ms[v], ds[v], voc, unsaved)

\* One validator moves to m in memory and to d on disk.
LEMMA OneValidatorMoves ==
    ASSUME NEW f, NEW heads, FeedFits(f, heads), NEW ms, NEW ds, NEW voc, NEW unsaved,
           ValidatorsFit(ms, ds, f, heads, voc, unsaved),
           NEW v \in Validators, NEW m, NEW d, NEW unsaved2, unsaved \subseteq unsaved2,
           StateFits(m, f, heads), StateFits(d, f, heads),
           d.disputed => m = d,
           v \notin unsaved2 => Standing(m) = Standing(d) /\ Advances(ms[v], m, f)
    PROVE  ValidatorsFit([ms EXCEPT ![v] = m], [ds EXCEPT ![v] = d], f, heads,
                         voc \cup Attested(v, m), unsaved2)
<1> DEFINE ms2 == [ms EXCEPT ![v] = m]
           ds2 == [ds EXCEPT ![v] = d]
           new == Attested(v, m)
<1>1. m \in ValidatorState /\ d \in ValidatorState
  BY DEF StateFits
<1>2. /\ ms2 \in [Validators -> ValidatorState] /\ ds2 \in [Validators -> ValidatorState]
      /\ ms2[v] = m /\ ds2[v] = d
      /\ \A u \in Validators \ {v} : ms2[u] = ms[u] /\ ds2[u] = ds[u]
  BY <1>1 DEF ValidatorsFit
<1>3. \A x \in new : x \in Attestations /\ x.validator = v
  BY AttestedFits
<1>4. voc \subseteq Attestations /\ voc \cup new \subseteq Attestations
  BY <1>3 DEF ValidatorsFit
<1> HIDE DEF ms2, ds2
<1>5. ValidatorFits(v, m, d, voc \cup new, unsaved2)
  <2>1. ASSUME v \notin unsaved2
        PROVE  BehindOf(v, m, voc \cup new) /\ Consistent(v, voc \cup new)
    <3>1. /\ StateFits(ms[v], f, heads) /\ Advances(ms[v], m, f)
          /\ BehindOf(v, ms[v], voc) /\ Consistent(v, voc)
      BY <2>1 DEF ValidatorsFit, ValidatorFits
    <3>2. QED
      BY <1>4, <3>1, ForwardsStaysBehind
  <2>2. new \subseteq voc \cup new
    OBVIOUS
  <2> HIDE DEF new
  <2>3. QED
    BY <2>1, <2>2 DEF ValidatorFits, new
<1> HIDE DEF new
<1>6. ASSUME NEW u \in Validators \ {v}
      PROVE  ValidatorFits(u, ms[u], ds[u], voc \cup new, unsaved2)
  <2>1. ValidatorFits(u, ms[u], ds[u], voc, unsaved)
    BY DEF ValidatorsFit
  <2>2. \A x \in new : x.validator # u
    BY <1>3
  <2>3. Attested(u, ms[u]) \subseteq voc \cup new
    BY <2>1 DEF ValidatorFits
  <2>4. ds[u].disputed => ms[u] = ds[u]
    BY <2>1 DEF ValidatorFits
  <2>5. ASSUME u \notin unsaved2
        PROVE  /\ Standing(ms[u]) = Standing(ds[u])
               /\ BehindOf(u, ms[u], voc \cup new) /\ Consistent(u, voc \cup new)
    <3>1. /\ Standing(ms[u]) = Standing(ds[u])
          /\ BehindOf(u, ms[u], voc) /\ Consistent(u, voc)
      BY <2>1, <2>5 DEF ValidatorFits
    <3>2. BehindOf(u, ms[u], voc \cup new)
      BY <2>2, <3>1 DEF BehindOf
    <3>3. Consistent(u, voc \cup new)
      BY <2>2, <3>1 DEF Consistent
    <3>4. QED
      BY <3>1, <3>2, <3>3
  <2>6. QED
    BY <2>3, <2>4, <2>5 DEF ValidatorFits
<1>7. ASSUME NEW u \in Validators
      PROVE  /\ StateFits(ms2[u], f, heads) /\ StateFits(ds2[u], f, heads)
             /\ ValidatorFits(u, ms2[u], ds2[u], voc \cup new, unsaved2)
  <2>1. CASE u = v
    BY <1>2, <1>5, <2>1 DEF new
  <2>2. CASE u # v
    <3>1. /\ ms2[u] = ms[u] /\ ds2[u] = ds[u]
          /\ StateFits(ms[u], f, heads) /\ StateFits(ds[u], f, heads)
      BY <1>2, <2>2 DEF ValidatorsFit
    <3>2. QED
      BY <1>6, <2>2, <3>1
  <2>3. QED
    BY <2>1, <2>2
<1>8. QED
  BY <1>2, <1>4, <1>7 DEF ValidatorsFit, ms2, ds2, new

\* The feed goes on, or another history takes its place: what was signed stays
\* signed, and no validator has to move.
LEMMA FeedMoves ==
    ASSUME NEW f, NEW heads, NEW ms, NEW ds, NEW voc, NEW unsaved, FeedFits(f, heads),
           ValidatorsFit(ms, ds, f, heads, voc, unsaved),
           NEW f2, NEW heads2, FeedFits(f2, heads2), heads \subseteq heads2,
           f.session <= f2.session
    PROVE  ValidatorsFit(ms, ds, f2, heads2, voc, unsaved)
<1>1. ASSUME NEW s, StateFits(s, f, heads) PROVE StateFits(s, f2, heads2)
  <2>1. f.session \in Nat /\ f2.session \in Nat
    BY DEF FeedFits
  <2>2. s.session \in Nat => s.session <= f2.session
    BY <1>1, <2>1 DEF StateFits
  <2>3. StandsIn(s, heads2)
    BY <1>1 DEF StateFits, StandsIn
  <2>4. s.disputed => \E x, y \in heads2 : Fork(x, y)
    BY <1>1 DEF StateFits
  <2>5. QED
    BY <1>1, <2>2, <2>3, <2>4 DEF StateFits
<1>2. QED
  BY <1>1 DEF ValidatorsFit
-----------------------------------------------------------------------------
(* The inductive invariant *)

\* One entry per key, for some of the validators.
Tallies == UNION {[D -> Nat] : D \in SUBSET Validators}

\* What commits and restarts start from: the copy continues the history.
EngineFits(e, c) ==
    /\ e \in Engines
    /\ c # NoCandidate => /\ c \in Engines /\ c.session = e.session
                          /\ IsPrefix(e.chain, c.chain)

\* The validator k vouched for n messages of the exchange's history.
VouchedAt(k, n, e, voc) ==
    \E x \in voc : /\ x.validator = k /\ x.session = e.session
                   /\ Len(x.chain) >= n /\ IsPrefix(x.chain, e.chain)

\* The round counts what validators vouched for, unless its run has ended.
RoundFits(tally, stale, e, voc) ==
    /\ tally \in Tallies
    /\ ~stale => \A k \in DOMAIN tally : tally[k] > 0 => VouchedAt(k, tally[k], e, voc)

MarkFits(e, voc) ==
    e.mark > 0 => Cardinality({v \in Validators : VouchedAt(v, e.mark, e, voc)}) >= Needed

\* The exchange e with the copy c, the round rd and whether its mark is stray.
ExchangeFits(e, c, rd, st, voc) ==
    /\ EngineFits(e, c)
    /\ rd \in [next : Nat \ {0}, matching : Tallies, stale : BOOLEAN]
    /\ RoundFits(rd.matching, rd.stale, e, voc)
    /\ ~st => MarkFits(e, voc)

SceneFits(s) == s \in [active : SUBSET Validators, left : [Events -> Nat]]

WitnessInv ==
    /\ FeedFits(feed, signed)
    /\ ValidatorsFit(mem, row, feed, signed, vouched, lost)
    /\ serving \in [1..Len(Urls) -> Validators]
    /\ ExchangeFits(engine, candidate, round, stray, vouched)
    /\ SceneFits(scene)

LEMMA SpendFits ==
    ASSUME SceneFits(scene), NEW event \in Events, Spend(event)
    PROVE  SceneFits(scene') /\ scene' # scene
<1> DEFINE left2 == [scene.left EXCEPT ![event] = @ - 1]
<1>1. PICK A \in SUBSET Validators, L \in [Events -> Nat] : scene = [active |-> A, left |-> L]
  BY DEF SceneFits
<1>2. L[event] > 0 /\ L[event] \in Nat
  BY <1>1 DEF Spend
<1>3. scene' = [scene EXCEPT !.left = left2]
  BY DEF Spend
<1>4. scene' = [active |-> A, left |-> [L EXCEPT ![event] = @ - 1]]
  BY <1>1, <1>3
<1>5. [L EXCEPT ![event] = @ - 1] \in [Events -> Nat] /\ [L EXCEPT ![event] = @ - 1] # L
  BY <1>1, <1>2
<1>6. QED
  BY <1>1, <1>4, <1>5 DEF SceneFits

\* The feed signs the history it has from now on, an older part of it or a
\* longer one.
LEMMA FeedBecomesFits ==
    ASSUME FeedFits(feed, signed), NEW session \in Nat, NEW log \in Chains,
           \A n \in 0..Len(log) :
              HeadOf(session, SubSeq(log, 1, n)) \in signed \cup {HeadOf(session, log)},
           FeedBecomes(session, log)
    PROVE  /\ FeedFits(feed', signed') /\ signed \subseteq signed'
           /\ feed'.session = session
<1>1. feed' = [session |-> session, log |-> log] /\ signed' = signed \cup {HeadOf(session, log)}
  BY DEF FeedBecomes
<1>2. HeadOf(session, log) \in Heads
  BY DEF HeadOf, Heads, Chains
<1>3. QED
  BY <1>1, <1>2 DEF FeedFits

LEMMA FeedStepFits ==
    ASSUME FeedFits(feed, signed), FeedNext
    PROVE  /\ FeedFits(feed', signed') /\ signed \subseteq signed'
           /\ feed.session <= feed'.session
<1> DEFINE log == feed.log
<1>1. feed.session \in Nat /\ log \in Chains /\ log \in Seq(Bodies) /\ Len(log) \in Nat
      /\ \A n \in 0..Len(log) : HeadOf(feed.session, SubSeq(log, 1, n)) \in signed
  BY DEF FeedFits, Chains
<1>2. ASSUME NEW b \in Bodies, FeedAppends(b)
      PROVE  /\ FeedFits(feed', signed') /\ signed \subseteq signed'
             /\ feed.session <= feed'.session
  <2> DEFINE longer == Append(log, b)
  <2>1. longer \in Chains /\ longer \in Seq(Bodies) /\ Len(longer) = Len(log) + 1
    BY <1>1 DEF Chains
  <2>2. /\ \A k \in 0..Len(log) : SubSeq(longer, 1, k) = SubSeq(log, 1, k)
        /\ SubSeq(longer, 1, Len(log) + 1) = longer
    BY <1>1, PrefixesOfAppend
  <2>3. FeedBecomes(feed.session, longer)
    BY <1>2 DEF FeedAppends
  <2> HIDE DEF longer, log
  <2>4. ASSUME NEW n \in 0..Len(longer)
        PROVE  HeadOf(feed.session, SubSeq(longer, 1, n))
                  \in signed \cup {HeadOf(feed.session, longer)}
    <3>1. CASE n \in 0..Len(log)
      BY <1>1, <2>2, <3>1
    <3>2. CASE n = Len(log) + 1
      BY <2>2, <3>2
    <3>3. QED
      BY <1>1, <2>1, <3>1, <3>2
  <2>5. QED
    BY <1>1, <2>1, <2>3, <2>4, FeedBecomesFits
<1>3. CASE FeedReplaced
  <2>1. FeedBecomes(feed.session + 1, <<>>)
    BY <1>3 DEF FeedReplaced
  <2>2. <<>> \in Chains /\ Len(<<>>) = 0 /\ SubSeq(<<>>, 1, 0) = <<>>
    BY SubSeqEmpty DEF Chains
  <2>3. \A n \in 0..Len(<<>>) : HeadOf(feed.session + 1, SubSeq(<<>>, 1, n))
            \in signed \cup {HeadOf(feed.session + 1, <<>>)}
    <3>1. 0..Len(<<>>) = {0}
      BY <2>2
    <3>2. QED
      BY <2>2, <3>1
  <2>4. QED
    BY <1>1, <2>1, <2>2, <2>3, FeedBecomesFits
<1>4. CASE FeedLosesItsEnd
  <2>1. PICK m \in 0..(Len(log) - 1) : FeedBecomes(feed.session, SubSeq(log, 1, m))
    BY <1>4 DEF FeedLosesItsEnd
  <2> DEFINE shorter == SubSeq(log, 1, m)
  <2>2. m \in 0..Len(log) /\ \A n \in 0..m : n \in 0..Len(log)
    BY <1>1, <2>1
  <2>3. /\ shorter \in Seq(Bodies) /\ Len(shorter) = m
        /\ \A n \in 0..m : SubSeq(shorter, 1, n) = SubSeq(log, 1, n)
    BY <1>1, <2>2, PrefixesOfPrefix
  <2>4. shorter \in Chains
    BY <2>3 DEF Chains
  <2> HIDE DEF shorter, log
  <2>5. \A n \in 0..Len(shorter) : HeadOf(feed.session, SubSeq(shorter, 1, n))
            \in signed \cup {HeadOf(feed.session, shorter)}
    BY <1>1, <2>2, <2>3
  <2>6. FeedBecomes(feed.session, shorter)
    BY <2>1 DEF shorter, log
  <2>7. QED
    BY <1>1, <2>4, <2>5, <2>6, FeedBecomesFits
<1>5. QED
  BY <1>2, <1>3, <1>4 DEF FeedNext

\* Attesting again from the same place adds nothing.
LEMMA NothingNewAttested ==
    ASSUME WitnessInv, NEW v \in Validators
    PROVE  vouched = vouched \cup Attested(v, mem[v])
BY DEF WitnessInv, ValidatorsFit, ValidatorFits

\* What every step of a validator leaves: the validators fit, and a verdict
\* that is on disk stands.
LEMMA ValidatorStepFits ==
    ASSUME WitnessInv, NEW v \in Validators, ValidatorNext(v)
    PROVE  /\ ValidatorsFit(mem', row', feed, signed, vouched', lost')
           /\ vouched \subseteq vouched'
           /\ UNCHANGED <<feedVars, engineVars, serving>>
           /\ SceneFits(scene')
           /\ mem[v].disputed /\ row[v].disputed => mem'[v] = mem[v]
           /\ \A u \in Validators \ {v} : mem'[u] = mem[u]
<1> DEFINE s == mem[v]
           d == row[v]
           Goal == /\ ValidatorsFit(mem', row', feed, signed, vouched', lost')
                   /\ vouched \subseteq vouched'
                   /\ mem[v].disputed /\ row[v].disputed => mem'[v] = mem[v]
                   /\ \A u \in Validators \ {v} : mem'[u] = mem[u]
<1>1. /\ FeedFits(feed, signed) /\ ValidatorsFit(mem, row, feed, signed, vouched, lost)
      /\ SceneFits(scene)
      /\ mem \in [Validators -> ValidatorState] /\ row \in [Validators -> ValidatorState]
      /\ StateFits(s, feed, signed) /\ StateFits(d, feed, signed)
      /\ d.disputed => s = d
      /\ v \notin lost => Standing(s) = Standing(d)
      /\ s.cursor \in Nat
  BY DEF WitnessInv, ValidatorsFit, ValidatorFits, StateFits, ValidatorState
<1>2. UNCHANGED <<feedVars, engineVars, serving>>
  BY DEF ValidatorNext, Poll, PollUnsaved, PollInVain, MeetStranger, RestartValidator,
         ClearDispute, Apply, feedVars, engineVars
<1>3. SceneFits(scene')
  <2>1. CASE Poll(v)
    BY <1>1, <2>1 DEF Poll
  <2>2. \A e \in {"saves", "noise", "strangers", "restarts", "clears"} : e \in Events
    BY DEF Events
  <2>3. CASE ~Poll(v)
    <3>1. \E e \in {"saves", "noise", "strangers", "restarts", "clears"} : Spend(e)
      BY <2>3 DEF ValidatorNext, PollUnsaved, PollInVain, MeetStranger, RestartValidator,
                  ClearDispute
    <3>2. QED
      BY <1>1, <2>2, <3>1, SpendFits
  <2>4. QED
    BY <2>1, <2>3
\* An answer that is taken in, and saved.
<1>4. ASSUME NEW r, AnswerFits(r, feed), Polls(v), Apply(v, Ingest(s, r)),
             row' = [row EXCEPT ![v] = Ingest(s, r)]
      PROVE  Goal
  <2> DEFINE t == Ingest(s, r)
  <2>1. StateFits(t, feed, signed) /\ Advances(s, t, feed)
    BY <1>1, <1>4, IngestFits
  <2> HIDE DEF t
  <2>2. /\ mem' = [mem EXCEPT ![v] = t] /\ row' = [row EXCEPT ![v] = t]
        /\ vouched' = vouched \cup Attested(v, t) /\ lost' = lost
    BY <1>4 DEF Apply, Takes, t
  <2>3. ValidatorsFit([mem EXCEPT ![v] = t], [row EXCEPT ![v] = t], feed, signed,
                      vouched \cup Attested(v, t), lost)
    BY <1>1, <2>1, OneValidatorMoves
  <2>4. ~s.disputed
    BY <1>4 DEF Polls
  <2>5. QED
    BY <1>1, <2>2, <2>3, <2>4
<1>5. ASSUME NEW r \in HonestAnswers(s.cursor) \cup WrongAnswers(s.cursor) \cup {Unsigned}
      PROVE  AnswerFits(r, feed)
  BY <1>1, AnswersFit
<1>6. CASE Poll(v)
  <2>1. PICK r \in HonestAnswers(s.cursor) :
          Apply(v, Ingest(s, r)) /\ row' = [row EXCEPT ![v] = Ingest(s, r)]
    BY <1>6 DEF Poll
  <2>2. Polls(v)
    BY <1>6 DEF Poll
  <2>3. Goal
    BY <1>4, <1>5, <2>1, <2>2
  <2>4. QED
    BY <1>2, <1>3, <2>3
<1>7. CASE PollInVain(v)
  <2>1. PICK r \in WrongAnswers(s.cursor) \cup {Unsigned} :
          Apply(v, Ingest(s, r)) /\ row' = [row EXCEPT ![v] = Ingest(s, r)]
    BY <1>7 DEF PollInVain
  <2>2. Polls(v)
    BY <1>7 DEF PollInVain
  <2>3. Goal
    BY <1>4, <1>5, <2>1, <2>2
  <2>4. QED
    BY <1>2, <1>3, <2>3
<1>8. CASE MeetStranger(v)
  <2>1. /\ Apply(v, Ingest(s, StrangersAnswer))
        /\ row' = [row EXCEPT ![v] = Ingest(s, StrangersAnswer)]
        /\ Polls(v)
    BY <1>8 DEF MeetStranger
  <2>2. AnswerFits(StrangersAnswer, feed)
    BY DEF AnswerFits
  <2>3. Goal
    BY <1>4, <2>1, <2>2
  <2>4. QED
    BY <1>2, <1>3, <2>3
<1>9. CASE PollUnsaved(v)
  <2>1. PICK r \in HonestAnswers(s.cursor) : Takes(v, Ingest(s, r))
    BY <1>9 DEF PollUnsaved
  <2>2. Polls(v) /\ lost' = lost \cup {v} /\ row' = row
    BY <1>9 DEF PollUnsaved
  <2> DEFINE t == Ingest(s, r)
  <2>3. StateFits(t, feed, signed)
    BY <1>1, <1>5, IngestFits
  <2> HIDE DEF t
  <2>4. ~s.disputed /\ ~d.disputed
    BY <1>1, <2>2 DEF Polls
  <2>5. ValidatorsFit([mem EXCEPT ![v] = t], [row EXCEPT ![v] = d], feed, signed,
                      vouched \cup Attested(v, t), lost \cup {v})
    BY <1>1, <2>3, <2>4, OneValidatorMoves
  <2>6. row' = [row EXCEPT ![v] = d]
    BY <1>1, <2>2
  <2>7. mem' = [mem EXCEPT ![v] = t] /\ vouched' = vouched \cup Attested(v, t)
    BY <2>1 DEF Takes, t
  <2>8. Goal
    BY <1>1, <2>2, <2>4, <2>5, <2>6, <2>7
  <2>9. QED
    BY <1>2, <1>3, <2>8
<1>10. CASE RestartValidator(v)
  <2>1. /\ mem' = [mem EXCEPT ![v] = d] /\ vouched' = vouched \cup Attested(v, d)
        /\ row' = row /\ lost' = lost
    BY <1>10 DEF RestartValidator, Takes
  <2>2. v \notin lost => Advances(s, d, feed)
    <3>1. SUFFICES ASSUME v \notin lost PROVE Advances(s, d, feed)
      OBVIOUS
    <3>2. s.chain = d.chain /\ s.session = d.session /\ s.key = d.key
      BY <1>1, <3>1 DEF Standing
    <3>3. IsPrefix(s.chain, d.chain)
      BY <1>1, <3>2, PrefixReflexive DEF StateFits, ValidatorState, Chains
    <3>4. QED
      BY <3>2, <3>3 DEF Advances
  <2>3. ValidatorsFit([mem EXCEPT ![v] = d], [row EXCEPT ![v] = d], feed, signed,
                      vouched \cup Attested(v, d), lost)
    BY <1>1, <2>2, OneValidatorMoves
  <2>4. row' = [row EXCEPT ![v] = d]
    BY <1>1, <2>1
  <2>5. Goal
    BY <1>1, <2>1, <2>3, <2>4
  <2>6. QED
    BY <1>2, <1>3, <2>5
<1>11. CASE ClearDispute(v)
  <2> DEFINE t == Cleared(d)
  <2>1. /\ mem' = mem /\ vouched' = vouched /\ row' = [row EXCEPT ![v] = t] /\ lost' = lost
    BY <1>11 DEF ClearDispute
  <2>2. d \in ValidatorState
    BY <1>1
  <2>3. /\ t \in ValidatorState /\ Standing(t) = Standing(d) /\ ~t.disputed
        /\ t.session = d.session /\ t.cursor = d.cursor /\ t.key = d.key /\ t.chain = d.chain
    BY <2>2 DEF Cleared, ValidatorState, Standing
  <2> HIDE DEF t
  <2>4. StateFits(t, feed, signed)
    BY <1>1, <2>3 DEF StateFits, StandsIn
  <2>5. Advances(s, s, feed)
    BY <1>1, PrefixReflexive DEF Advances, StateFits, ValidatorState, Chains
  <2>6. ValidatorsFit([mem EXCEPT ![v] = s], [row EXCEPT ![v] = t], feed, signed,
                      vouched \cup Attested(v, s), lost)
    BY <1>1, <2>3, <2>4, <2>5, OneValidatorMoves
  <2>7. mem' = [mem EXCEPT ![v] = s] /\ vouched' = vouched \cup Attested(v, s)
    BY <1>1, <2>1, NothingNewAttested
  <2>8. ValidatorsFit(mem', row', feed, signed, vouched', lost')
    BY <2>1, <2>6, <2>7
  <2>9. Goal
    BY <2>1, <2>8
  <2>10. QED
    BY <1>2, <1>3, <2>9
<1>12. QED
  BY <1>6, <1>7, <1>8, <1>9, <1>10, <1>11 DEF ValidatorNext
-----------------------------------------------------------------------------
(* The exchange *)

LEMMA NewEngineFits ==
    ASSUME FeedFits(feed, signed)
    PROVE  NewEngine(feed.session) \in Engines
BY DEF FeedFits, NewEngine, Engines, Chains

\* The attestations that back a position back it after the history went on.
LEMMA VouchedAtStays ==
    ASSUME NEW e \in Engines, NEW g \in Engines, g.session = e.session,
           IsPrefix(e.chain, g.chain), NEW voc, voc \subseteq Attestations, NEW voc2,
           voc \subseteq voc2, NEW k, NEW n, VouchedAt(k, n, e, voc)
    PROVE  VouchedAt(k, n, g, voc2)
<1>1. PICK x \in voc : /\ x.validator = k /\ x.session = e.session
                       /\ Len(x.chain) >= n /\ IsPrefix(x.chain, e.chain)
  BY DEF VouchedAt
<1>2. x.chain \in Seq(Bodies) /\ e.chain \in Seq(Bodies) /\ g.chain \in Seq(Bodies)
  BY DEF Attestations, Engines, Chains
<1>3. IsPrefix(x.chain, g.chain)
  BY <1>1, <1>2, PrefixTransitive
<1>4. QED
  BY <1>1, <1>3 DEF VouchedAt

LEMMA RoundStaysFit ==
    ASSUME NEW e \in Engines, NEW g \in Engines, g.session = e.session,
           IsPrefix(e.chain, g.chain), NEW voc, voc \subseteq Attestations, NEW voc2,
           voc \subseteq voc2, NEW tally, NEW stale, RoundFits(tally, stale, e, voc)
    PROVE  RoundFits(tally, stale, g, voc2)
BY VouchedAtStays DEF RoundFits

LEMMA MarkStaysFit ==
    ASSUME NEW e \in Engines, NEW g \in Engines, g.session = e.session, g.mark = e.mark,
           IsPrefix(e.chain, g.chain), NEW voc, voc \subseteq Attestations, NEW voc2,
           voc \subseteq voc2, MarkFits(e, voc)
    PROVE  MarkFits(g, voc2)
<1> DEFINE before == {v \in Validators : VouchedAt(v, e.mark, e, voc)}
           after == {v \in Validators : VouchedAt(v, g.mark, g, voc2)}
<1>1. before \subseteq after
  BY VouchedAtStays
<1>2. IsFiniteSet(after) /\ IsFiniteSet(before)
  BY WitnessAssumption, FS_Subset
<1>3. Cardinality(before) <= Cardinality(after)
  BY <1>1, <1>2, FS_Subset
<1>4. Cardinality(before) \in Int /\ Cardinality(after) \in Int
  BY <1>2, FS_CardinalityType
<1>5. Needed \in Int
  BY WitnessAssumption DEF Needed
<1>6. g.mark > 0 => Cardinality(before) >= Needed
  BY DEF MarkFits
<1> HIDE DEF before, after
<1>7. g.mark > 0 => Cardinality(after) >= Needed
  <2> DEFINE x == Cardinality(before)
             y == Cardinality(after)
             z == Needed
  <2>1. x \in Int /\ y \in Int /\ z \in Int /\ x <= y /\ (g.mark > 0 => x >= z)
    BY <1>3, <1>4, <1>5, <1>6
  <2> HIDE DEF x, y, z
  <2>2. g.mark > 0 => y >= z
    BY <2>1
  <2>3. QED
    BY <2>2 DEF y, z
<1>8. QED
  BY <1>7 DEF MarkFits, after

LEMMA NoRoundFits ==
    ASSUME NEW e, NEW voc
    PROVE  /\ NoRound \in [next : Nat \ {0}, matching : Tallies, stale : BOOLEAN]
           /\ RoundFits(NoRound.matching, NoRound.stale, e, voc)
<1>1. <<>> \in [{} -> Nat] /\ {} \in SUBSET Validators /\ DOMAIN <<>> = {}
  OBVIOUS
<1>2. <<>> \in Tallies
  BY <1>1 DEF Tallies
<1>3. QED
  BY <1>1, <1>2 DEF NoRound, RoundFits

\* Who has counted vouched for it.
LEMMA CountedHasVouched ==
    ASSUME WitnessInv, NEW v \in Validators, Counts(v)
    PROVE  /\ mem[v].cursor \in Nat
           /\ mem[v].cursor > 0 => VouchedAt(v, mem[v].cursor, engine, vouched)
<1> DEFINE s == mem[v]
<1>1. /\ s.cursor = Len(s.chain) /\ s.cursor \in Nat /\ s.chain \in Seq(Bodies)
      /\ Attested(v, s) \subseteq vouched
  BY DEF WitnessInv, ValidatorsFit, ValidatorFits, StateFits, ValidatorState, Chains
<1>2. ASSUME s.cursor > 0 PROVE VouchedAt(v, s.cursor, engine, vouched)
  <2> DEFINE x == [validator |-> v, session |-> s.session, chain |-> s.chain]
  <2>1. x \in vouched
    BY <1>1, <1>2 DEF Counts, Attested
  <2>2. engine.chain \in Seq(Bodies) /\ engine.recent \in Nat
    BY DEF WitnessInv, ExchangeFits, EngineFits, Engines, Chains
  <2>3. s.cursor \in (Len(engine.chain) - engine.recent + 1)..Len(engine.chain)
    BY DEF Counts, Remembers
  <2>4. s.cursor \in 0..Len(engine.chain)
    BY <1>1, <2>2, <2>3
  <2>5. IsPrefix(s.chain, engine.chain)
    BY <2>2, <2>4, SubSeqIsPrefix DEF Counts, ChainAt
  <2>6. x.validator = v /\ x.session = engine.session /\ Len(x.chain) >= s.cursor
        /\ IsPrefix(x.chain, engine.chain)
    BY <1>1, <2>5 DEF Counts
  <2>7. QED
    BY <2>1, <2>6 DEF VouchedAt
<1>3. QED
  BY <1>1, <1>2

\* What a tally says of a key after one more answer.
LEMMA MatchedFits ==
    ASSUME NEW tally \in Tallies, NEW key \in Validators, NEW n \in Nat
    PROVE  /\ Matched(tally, key, n) \in Tallies
           /\ DOMAIN Matched(tally, key, n) = DOMAIN tally \cup {key}
           /\ \A k \in DOMAIN tally \ {key} : Matched(tally, key, n)[k] = tally[k]
           /\ \/ Matched(tally, key, n)[key] = n
              \/ key \in DOMAIN tally /\ Matched(tally, key, n)[key] = tally[key]
<1> DEFINE T == Matched(tally, key, n)
<1>1. PICK D \in SUBSET Validators : tally \in [D -> Nat]
  BY DEF Tallies
<1>2. DOMAIN tally = D /\ \A k \in D : tally[k] \in Nat
  BY <1>1
<1>3. /\ DOMAIN T = D \cup {key}
      /\ \A k \in D \ {key} : T[k] = tally[k]
      /\ T[key] = IF key \in D THEN Max({tally[key], n}) ELSE n
      /\ T = [k \in D \cup {key} |-> T[k]]
  BY <1>2 DEF Matched
<1>4. T[key] = n \/ (key \in D /\ T[key] = tally[key])
  <2>1. CASE key \in D
    <3> DEFINE old == tally[key]
    <3>1. old \in Int /\ n \in Int
      BY <1>2, <2>1
    <3> HIDE DEF old
    <3>2. Max({old, n}) \in {old, n}
      BY <3>1, MaxOfTwo
    <3>3. QED
      BY <1>3, <2>1, <3>2 DEF old
  <2>2. CASE key \notin D
    BY <1>3, <2>2
  <2>3. QED
    BY <2>1, <2>2
<1> HIDE DEF T
<1>5. \A k \in D \cup {key} : T[k] \in Nat
  BY <1>2, <1>3, <1>4
<1>6. T \in [D \cup {key} -> Nat] /\ D \cup {key} \in SUBSET Validators
  BY <1>3, <1>5
<1>7. T \in Tallies
  BY <1>6 DEF Tallies
<1>8. QED
  BY <1>2, <1>3, <1>4, <1>7 DEF T

\* The position that is found is a number, and if it is not zero enough keys
\* stand at or beyond it.
LEMMA QuorumStandsThere ==
    ASSUME NEW tally \in Tallies, NEW needed \in Int
    PROVE  LET n == QuorumPosition(tally, needed)
           IN  /\ n \in Nat
               /\ n > 0 => Cardinality({k \in DOMAIN tally : tally[k] >= n}) >= needed
<1> DEFINE standing(n) == {k \in DOMAIN tally : tally[k] >= n}
           found == {n \in Range(tally) : Cardinality(standing(n)) >= needed}
           all == {0} \cup found
<1>1. PICK D \in SUBSET Validators : tally \in [D -> Nat]
  BY DEF Tallies
<1>2. DOMAIN tally = D /\ tally = [k \in D |-> tally[k]] /\ \A k \in D : tally[k] \in Nat
  BY <1>1
<1>3. IsFiniteSet(D)
  BY WitnessAssumption, FS_Subset
<1>4. IsFiniteSet(Range(tally)) /\ Range(tally) \subseteq Nat
  BY <1>2, <1>3, RangeIsFinite DEF Range
<1>5. found \subseteq Range(tally)
  OBVIOUS
<1>6. IsFiniteSet(found)
  BY <1>4, <1>5, FS_Subset
<1>7. IsFiniteSet(all)
  <2>1. IsFiniteSet(found \cup {0})
    BY <1>6, FS_AddElement
  <2>2. all = found \cup {0}
    OBVIOUS
  <2>3. QED
    BY <2>1, <2>2
<1>8. QuorumPosition(tally, needed) = Max(all)
  BY DEF QuorumPosition
<1>9. all \subseteq Int /\ all # {}
  BY <1>4, <1>5
<1>10. Max(all) \in all
  <2> HIDE DEF all
  <2>1. QED
    BY <1>7, <1>9, MaxOfFinite
<1>11. Max(all) = 0 \/ Max(all) \in found
  BY <1>10
<1>12. QED
  BY <1>4, <1>8, <1>11
\* The copy that is committed continues the history it was copied from.
LEMMA CopyContinues ==
    ASSUME FeedFits(feed, signed), NEW e \in Engines, IsPrefix(e.chain, feed.log),
           NEW n \in (Len(e.chain) + 1)..Len(feed.log)
    PROVE  /\ Consumed(e, n) \in Engines /\ Consumed(e, n).session = e.session
           /\ IsPrefix(e.chain, Consumed(e, n).chain)
<1> DEFINE log == feed.log
           t == SubSeq(log, 1, n)
           l == Len(e.chain)
           a == e.recent + n - l
           r == Min({RecentCap, a})
<1>1. log \in Seq(Bodies) /\ e.chain \in Seq(Bodies) /\ e.recent \in Nat
  BY DEF FeedFits, Engines, Chains
<1>2. l \in Nat /\ Len(log) \in Nat
  BY <1>1
<1>3. n \in 0..Len(log) /\ n > l
  BY <1>2
<1>4. t \in Seq(Bodies) /\ IsPrefix(t, log) /\ Len(t) = n
  BY <1>1, <1>3, SubSeqIsPrefix, PrefixesOfPrefix
<1>5. IsPrefix(e.chain, t)
  <2>1. \/ IsPrefix(e.chain, t)
        \/ IsPrefix(t, e.chain)
    BY <1>1, <1>4, PrefixesComparable
  <2>2. ASSUME IsPrefix(t, e.chain) PROVE FALSE
    <3>1. Len(t) <= l
      BY <1>1, <1>4, <2>2, PrefixByElement
    <3>2. QED
      BY <1>2, <1>3, <1>4, <3>1
  <2>3. QED
    BY <2>1, <2>2
<1>6. a \in Nat
  BY <1>1, <1>2, <1>3
<1>7. r \in Nat
  <2> HIDE DEF a
  <2>1. a \in Int /\ RecentCap \in Int /\ RecentCap \in Nat
    BY <1>6, WitnessAssumption
  <2>2. Min({RecentCap, a}) \in {RecentCap, a}
    BY <2>1, MinOfTwo
  <2>3. QED
    BY <1>6, <2>1, <2>2
<1>8. Consumed(e, n) = [e EXCEPT !.chain = t, !.recent = r]
  BY DEF Consumed
<1> HIDE DEF t, r
<1>9. t \in Chains
  BY <1>4 DEF Chains
<1>10. Consumed(e, n) \in Engines /\ Consumed(e, n).session = e.session
       /\ Consumed(e, n).chain = t
  BY <1>7, <1>8, <1>9 DEF Engines
<1>11. QED
  BY <1>5, <1>10

LEMMA PublishFits ==
    ASSUME NEW e, NEW c, NEW rd, NEW st, NEW voc, voc \subseteq Attestations,
           ExchangeFits(e, c, rd, st, voc), c # NoCandidate, NEW c2, c2 = NoCandidate
    PROVE  ExchangeFits(Published(c, e), c2, rd, st, voc) /\ Published(c, e).mark = e.mark
<1> DEFINE g == Published(c, e)
<1>1. /\ e \in Engines /\ c \in Engines /\ c.session = e.session /\ IsPrefix(e.chain, c.chain)
  BY DEF ExchangeFits, EngineFits
<1>2. /\ g \in Engines /\ g.session = e.session /\ g.mark = e.mark /\ g.chain = c.chain
  BY <1>1 DEF Published, Engines
<1> HIDE DEF g
<1>3. RoundFits(rd.matching, rd.stale, g, voc)
  BY <1>1, <1>2, RoundStaysFit DEF ExchangeFits
<1>4. ~st => MarkFits(g, voc)
  BY <1>1, <1>2, MarkStaysFit DEF ExchangeFits
<1>5. QED
  BY <1>2, <1>3, <1>4 DEF ExchangeFits, EngineFits, g

\* A run or a process that begins has no mark.
LEMMA NoMarkFits ==
    ASSUME NEW e, e.mark = 0, NEW voc
    PROVE  MarkFits(e, voc)
BY DEF MarkFits

LEMMA NewRunFits ==
    ASSUME WitnessInv, StartNewRun
    PROVE  /\ ExchangeFits(engine', candidate', round', stray', vouched)
           /\ engine'.chain = <<>>
<1>1. /\ engine' = NewEngine(feed.session) /\ stray' = FALSE /\ candidate = NoCandidate
      /\ candidate' = candidate
      /\ round' = [round EXCEPT !.stale = (@ \/ DOMAIN round.matching # {})]
  BY DEF StartNewRun
<1>2. engine' \in Engines /\ engine'.mark = 0 /\ engine'.chain = <<>>
  BY <1>1, NewEngineFits DEF WitnessInv, NewEngine
<1>3. PICK n \in Nat \ {0}, tally \in Tallies, s \in BOOLEAN :
        round = [next |-> n, matching |-> tally, stale |-> s]
  BY DEF WitnessInv, ExchangeFits
<1>4. round' = [next |-> n, matching |-> tally, stale |-> s \/ DOMAIN tally # {}]
  BY <1>1, <1>3
<1>5. RoundFits(round'.matching, round'.stale, engine', vouched)
  <2>1. round'.matching = tally /\ (~round'.stale => DOMAIN tally = {})
    BY <1>4
  <2>2. QED
    BY <2>1 DEF RoundFits
<1>6. round' \in [next : Nat \ {0}, matching : Tallies, stale : BOOLEAN]
  <2>1. (s \/ DOMAIN tally # {}) \in BOOLEAN
    OBVIOUS
  <2> DEFINE flag == s \/ DOMAIN tally # {}
  <2> HIDE DEF flag
  <2>2. round' = [next |-> n, matching |-> tally, stale |-> flag] /\ flag \in BOOLEAN
    BY <1>4, <2>1 DEF flag
  <2>3. QED
    BY <2>2
<1>7. QED
  BY <1>1, <1>2, <1>5, <1>6, NoMarkFits DEF ExchangeFits, EngineFits

LEMMA RestartFits ==
    ASSUME WitnessInv, RestartEngine
    PROVE  ExchangeFits(engine', candidate', round', stray', vouched)
<1>1. PICK e \in {engine, candidate} \ {NoCandidate} :
        engine' = [e EXCEPT !.recent = Min({1, Len(e.chain)}), !.mark = 0]
  BY DEF RestartEngine
<1>2. candidate' = NoCandidate /\ round' = NoRound
  BY DEF RestartEngine
<1>3. e \in Engines
  BY <1>1 DEF WitnessInv, ExchangeFits, EngineFits
<1> DEFINE l == Len(e.chain)
           r == Min({1, l})
<1>4. l \in Nat
  BY <1>3 DEF Engines, Chains
<1>5. r \in Nat
  <2> HIDE DEF l
  <2>1. Min({1, l}) \in {1, l}
    BY <1>4, MinOfTwo
  <2>2. QED
    BY <1>4, <2>1
<1> HIDE DEF l, r
<1>6. engine' = [e EXCEPT !.recent = r, !.mark = 0]
  BY <1>1 DEF l, r
<1>7. engine' \in Engines /\ engine'.mark = 0
  BY <1>3, <1>5, <1>6 DEF Engines
<1>8. QED
  BY <1>2, <1>7, NoRoundFits, NoMarkFits DEF ExchangeFits, EngineFits

LEMMA AskFits ==
    ASSUME WitnessInv, AskValidator
    PROVE  ExchangeFits(engine, candidate, round', stray, vouched)
<1> DEFINE u == round.next
           v == serving[u]
           fits == pinned[u] \in {NoKey, v}
           counted == fits /\ Counts(v)
<1>1. PICK n \in Nat \ {0}, tally \in Tallies, s \in BOOLEAN :
        round = [next |-> n, matching |-> tally, stale |-> s]
  BY DEF WitnessInv, ExchangeFits
<1>2. u = n /\ u \in 1..Len(Urls)
  BY <1>1, WitnessAssumption DEF AskValidator, Asking
<1>3. v \in Validators
  BY <1>2 DEF WitnessInv
<1>4. RoundFits(tally, s, engine, vouched)
  BY <1>1 DEF WitnessInv, ExchangeFits
<1>5. round' = [round EXCEPT !.next = @ + 1,
                  !.matching = IF counted THEN Matched(@, v, mem[v].cursor) ELSE @]
  BY DEF AskValidator
<1> HIDE DEF counted
<1>6. CASE ~counted
  <2>1. round' = [next |-> n + 1, matching |-> tally, stale |-> s]
    BY <1>1, <1>5, <1>6
  <2>2. round' \in [next : Nat \ {0}, matching : Tallies, stale : BOOLEAN]
    BY <2>1
  <2>3. round'.matching = tally /\ round'.stale = s
    BY <2>1
  <2>4. QED
    BY <1>4, <2>2, <2>3 DEF WitnessInv, ExchangeFits
<1>7. CASE counted
  <2> DEFINE m == mem[v].cursor
             more == Matched(tally, v, m)
  <2>1. round' = [next |-> n + 1, matching |-> more, stale |-> s]
    BY <1>1, <1>5, <1>7
  <2>2. m \in Nat /\ (m > 0 => VouchedAt(v, m, engine, vouched))
    BY <1>3, <1>7, CountedHasVouched DEF counted
  <2> HIDE DEF m, v
  <2>3. /\ more \in Tallies /\ DOMAIN more = DOMAIN tally \cup {v}
        /\ \A k \in DOMAIN tally \ {v} : more[k] = tally[k]
        /\ more[v] = m \/ (v \in DOMAIN tally /\ more[v] = tally[v])
    BY <1>3, <2>2, MatchedFits
  <2> HIDE DEF more
  <2>4. RoundFits(more, s, engine, vouched)
    <3>1. SUFFICES ASSUME ~s, NEW k \in DOMAIN more, more[k] > 0
                   PROVE  VouchedAt(k, more[k], engine, vouched)
      BY <2>3 DEF RoundFits
    <3>2. \A j \in DOMAIN tally : tally[j] > 0 => VouchedAt(j, tally[j], engine, vouched)
      BY <1>4, <3>1 DEF RoundFits
    <3>3. QED
      BY <2>2, <2>3, <3>1, <3>2
  <2>5. round' \in [next : Nat \ {0}, matching : Tallies, stale : BOOLEAN]
    BY <2>1, <2>3
  <2>6. round'.matching = more /\ round'.stale = s
    BY <2>1
  <2>7. QED
    BY <2>4, <2>5, <2>6 DEF WitnessInv, ExchangeFits
<1>8. QED
  BY <1>6, <1>7

LEMMA AskInVainFits ==
    ASSUME WitnessInv, AskInVain
    PROVE  ExchangeFits(engine, candidate, round', stray, vouched)
<1>1. PICK n \in Nat \ {0}, tally \in Tallies, s \in BOOLEAN :
        round = [next |-> n, matching |-> tally, stale |-> s]
  BY DEF WitnessInv, ExchangeFits
<1>2. RoundFits(tally, s, engine, vouched)
  BY <1>1 DEF WitnessInv, ExchangeFits
<1>3. round' = [round EXCEPT !.next = @ + 1]
  BY DEF AskInVain
<1>4. round' = [next |-> n + 1, matching |-> tally, stale |-> s]
  BY <1>1, <1>3
<1>5. round' \in [next : Nat \ {0}, matching : Tallies, stale : BOOLEAN]
  BY <1>4
<1>6. round'.matching = tally /\ round'.stale = s
  BY <1>4
<1>7. QED
  BY <1>2, <1>5, <1>6 DEF WitnessInv, ExchangeFits

\* A mark that moves, moves to where enough keys stand in this round.
LEMMA ConcludeFits ==
    ASSUME WitnessInv, ConcludeRound
    PROVE  /\ ExchangeFits(engine', candidate, round', stray', vouched)
           /\ engine'.mark >= engine.mark
<1> DEFINE tally == round.matching
           p == QuorumPosition(tally, Needed)
<1>1. /\ tally \in Tallies /\ engine \in Engines /\ vouched \subseteq Attestations
      /\ EngineFits(engine, candidate) /\ RoundFits(tally, round.stale, engine, vouched)
      /\ (~stray => MarkFits(engine, vouched))
  BY DEF WitnessInv, ExchangeFits, EngineFits, ValidatorsFit
<1>2. engine.mark \in Nat
  BY <1>1 DEF Engines
<1>3. Needed \in Int
  BY WitnessAssumption DEF Needed
<1>4. round' = NoRound
  BY DEF ConcludeRound
<1>5. CASE ~(p > engine.mark)
  <2>1. engine' = engine /\ stray' = stray
    BY <1>5 DEF ConcludeRound
  <2>2. QED
    BY <1>1, <1>2, <1>4, <2>1, NoRoundFits DEF ExchangeFits
<1>6. CASE p > engine.mark
  <2>1. engine' = [engine EXCEPT !.mark = p] /\ stray' = (stray \/ round.stale)
    BY <1>6 DEF ConcludeRound
  <2> HIDE DEF p
  <2>2. p \in Nat /\ p > 0 /\ Cardinality({k \in DOMAIN tally : tally[k] >= p}) >= Needed
    <3> HIDE DEF tally
    <3>1. p \in Nat /\ (p > 0 => Cardinality({k \in DOMAIN tally : tally[k] >= p}) >= Needed)
      BY <1>1, <1>3, QuorumStandsThere DEF p
    <3>2. p > 0
      BY <1>2, <1>6, <3>1
    <3>3. QED
      BY <3>1, <3>2
  <2>3. /\ engine' \in Engines /\ engine'.mark = p /\ engine'.chain = engine.chain
        /\ engine'.session = engine.session
    BY <1>1, <2>1, <2>2 DEF Engines
  <2>4. EngineFits(engine', candidate)
    BY <1>1, <2>3 DEF EngineFits
  <2>5. ASSUME ~stray' PROVE MarkFits(engine', vouched)
    <3> DEFINE standing == {k \in DOMAIN tally : tally[k] >= p}
               backers == {v \in Validators : VouchedAt(v, p, engine', vouched)}
    <3>1. ~round.stale
      BY <2>1, <2>5
    <3>2. \A k \in DOMAIN tally : tally[k] > 0 => VouchedAt(k, tally[k], engine, vouched)
      BY <1>1, <3>1 DEF RoundFits
    <3>3. DOMAIN tally \subseteq Validators /\ \A k \in DOMAIN tally : tally[k] \in Nat
      BY <1>1 DEF Tallies
    <3>4. ASSUME NEW k \in standing PROVE k \in backers
      <4>1. tally[k] > 0 /\ tally[k] >= p /\ tally[k] \in Nat /\ k \in Validators
        BY <2>2, <3>3
      <4>2. PICK x \in vouched :
              /\ x.validator = k /\ x.session = engine.session
              /\ Len(x.chain) >= tally[k] /\ IsPrefix(x.chain, engine.chain)
        BY <3>2, <4>1 DEF VouchedAt
      <4>3. Len(x.chain) \in Nat
        BY <1>1 DEF Attestations, Chains
      <4>4. Len(x.chain) >= p
        BY <2>2, <4>1, <4>2, <4>3
      <4>5. VouchedAt(k, p, engine', vouched)
        BY <2>3, <4>2, <4>4 DEF VouchedAt
      <4>6. QED
        BY <4>1, <4>5
    <3>5. IsFiniteSet(backers)
      BY WitnessAssumption, FS_Subset
    <3>6. standing \subseteq backers
      BY <3>4
    <3>7. IsFiniteSet(standing) /\ Cardinality(standing) <= Cardinality(backers)
      <4> HIDE DEF standing, backers
      <4>1. QED
        BY <3>5, <3>6, FS_Subset
    <3>8. Cardinality(standing) \in Int /\ Cardinality(backers) \in Int
      BY <3>5, <3>7, FS_CardinalityType
    <3>9. Cardinality(standing) >= Needed
      BY <2>2
    <3> HIDE DEF standing, backers
    <3>10. Cardinality(backers) >= Needed
      <4> DEFINE x == Cardinality(standing)
                 y == Cardinality(backers)
                 z == Needed
      <4>1. x \in Int /\ y \in Int /\ z \in Int /\ x <= y /\ x >= z
        BY <1>3, <3>7, <3>8, <3>9
      <4> HIDE DEF x, y, z
      <4>2. y >= z
        BY <4>1
      <4>3. QED
        BY <4>2 DEF y, z
    <3>11. QED
      BY <2>3, <3>10 DEF MarkFits, backers
  <2>6. engine'.mark >= engine.mark
    BY <1>2, <1>6, <2>2, <2>3
  <2>7. QED
    BY <1>4, <2>4, <2>5, <2>6, NoRoundFits DEF ExchangeFits
<1>7. QED
  BY <1>5, <1>6
-----------------------------------------------------------------------------
(* Every step *)

LEMMA WitnessInit == Init => WitnessInv
<1> SUFFICES ASSUME Init PROVE WitnessInv
  OBVIOUS
<1>1. <<>> \in Chains /\ Len(<<>>) = 0 /\ SubSeq(<<>>, 1, 0) = <<>>
  BY SubSeqEmpty DEF Chains
<1>2. FeedFits(feed, signed)
  <2>1. feed = [session |-> 1, log |-> <<>>] /\ signed = {HeadOf(1, <<>>)}
    BY DEF Init
  <2>2. HeadOf(1, <<>>) \in Heads
    BY <1>1 DEF HeadOf, Heads
  <2>3. 0..Len(feed.log) = {0}
    BY <1>1, <2>1
  <2>4. feed \in [session : Nat, log : Chains] /\ signed \subseteq Heads
    BY <1>1, <2>1, <2>2
  <2>5. \A n \in 0..Len(feed.log) : HeadOf(feed.session, SubSeq(feed.log, 1, n)) \in signed
    <3>1. SUFFICES ASSUME NEW n \in {0} PROVE HeadOf(1, SubSeq(<<>>, 1, n)) \in {HeadOf(1, <<>>)}
      BY <2>1, <2>3
    <3>2. QED
      BY <1>1
  <2>6. QED
    BY <2>4, <2>5 DEF FeedFits
<1>3. Fresh \in ValidatorState
  BY <1>1 DEF Fresh, ValidatorState, Keys
<1>4. StateFits(Fresh, feed, signed)
  BY <1>1, <1>3, WitnessAssumption DEF StateFits, StandsIn, Fresh
<1>5. ValidatorsFit(mem, row, feed, signed, vouched, lost)
  <2>1. mem = [v \in Validators |-> Fresh] /\ row = mem /\ vouched = {}
    BY DEF Init
  <2>2. \A v \in Validators : Attested(v, Fresh) = {}
    BY DEF Attested, Fresh
  <2>3. \A v \in Validators : ValidatorFits(v, Fresh, Fresh, {}, lost)
    BY <2>2 DEF ValidatorFits, BehindOf, Consistent
  <2>4. QED
    BY <1>3, <1>4, <2>1, <2>3 DEF ValidatorsFit
<1>6. engine \in Engines /\ engine.mark = 0
  BY <1>1 DEF Init, NewEngine, Engines
<1>7. ExchangeFits(engine, candidate, round, stray, vouched)
  <2>1. candidate = NoCandidate /\ round = NoRound
    BY DEF Init
  <2>2. QED
    BY <1>6, <2>1, NoRoundFits, NoMarkFits DEF ExchangeFits, EngineFits
<1>8. serving \in [1..Len(Urls) -> Validators] /\ SceneFits(scene)
  BY WitnessAssumption DEF Init, SceneFits
<1>9. QED
  BY <1>2, <1>5, <1>7, <1>8 DEF WitnessInv

\* What a step of the exchange leaves.
LEMMA EngineStepFits ==
    ASSUME WitnessInv, EngineNext
    PROVE  /\ ExchangeFits(engine', candidate', round', stray', vouched)
           /\ SceneFits(scene')
           /\ UNCHANGED <<feedVars, validatorVars, serving>>
           /\ engine'.mark < engine.mark => engine'.chain = <<>> \/ scene' # scene
<1> DEFINE Goal == /\ ExchangeFits(engine', candidate', round', stray', vouched)
                   /\ SceneFits(scene')
                   /\ engine'.mark < engine.mark => engine'.chain = <<>> \/ scene' # scene
<1>1. UNCHANGED <<feedVars, validatorVars, serving>>
  BY DEF EngineNext, BuildCandidate, PublishCandidate, StartNewRun, RestartEngine, AskValidator,
         AskInVain, ConcludeRound, feedVars, validatorVars
<1>2. /\ ExchangeFits(engine, candidate, round, stray, vouched) /\ SceneFits(scene)
      /\ FeedFits(feed, signed) /\ vouched \subseteq Attestations /\ engine \in Engines
      /\ engine.mark \in Nat
  BY DEF WitnessInv, ExchangeFits, EngineFits, ValidatorsFit, Engines
<1>3. \A e \in {"commits", "engineRestarts", "silences", "rounds"} : e \in Events
  BY DEF Events
<1>4. CASE BuildCandidate
  <2>1. PICK n \in (Len(engine.chain) + 1)..Len(feed.log) :
          IsPrefix(engine.chain, feed.log) /\ candidate' = Consumed(engine, n)
    BY <1>4 DEF BuildCandidate
  <2>2. /\ candidate' \in Engines /\ candidate'.session = engine.session
        /\ IsPrefix(engine.chain, candidate'.chain)
    BY <1>2, <2>1, CopyContinues
  <2>3. engine' = engine /\ round' = round /\ stray' = stray /\ Spend("commits")
    BY <1>4 DEF BuildCandidate
  <2>4. Goal
    BY <1>2, <1>3, <2>2, <2>3, SpendFits DEF ExchangeFits, EngineFits
  <2>5. QED
    BY <1>1, <2>4
<1>5. CASE PublishCandidate
  <2>1. /\ candidate # NoCandidate /\ candidate' = NoCandidate
        /\ engine' = Published(candidate, engine)
        /\ round' = round /\ stray' = stray /\ scene' = scene
    BY <1>5 DEF PublishCandidate
  <2>2. ExchangeFits(engine', candidate', round, stray, vouched) /\ engine'.mark = engine.mark
    BY <1>2, <2>1, PublishFits
  <2>3. Goal
    BY <1>2, <2>1, <2>2
  <2>4. QED
    BY <1>1, <2>3
<1>6. CASE StartNewRun
  <2>1. scene' = scene
    BY <1>6 DEF StartNewRun
  <2>2. Goal
    BY <1>2, <1>6, <2>1, NewRunFits
  <2>3. QED
    BY <1>1, <2>2
<1>7. CASE RestartEngine
  <2>1. Spend("engineRestarts")
    BY <1>7 DEF RestartEngine
  <2>2. Goal
    BY <1>2, <1>3, <1>7, <2>1, RestartFits, SpendFits
  <2>3. QED
    BY <1>1, <2>2
<1>8. CASE AskValidator
  <2>1. engine' = engine /\ candidate' = candidate /\ stray' = stray /\ scene' = scene
    BY <1>8 DEF AskValidator
  <2>2. Goal
    BY <1>2, <1>8, <2>1, AskFits
  <2>3. QED
    BY <1>1, <2>2
<1>9. CASE AskInVain
  <2>1. engine' = engine /\ candidate' = candidate /\ stray' = stray /\ Spend("silences")
    BY <1>9 DEF AskInVain
  <2>2. Goal
    BY <1>2, <1>3, <1>9, <2>1, AskInVainFits, SpendFits
  <2>3. QED
    BY <1>1, <2>2
<1>10. CASE ConcludeRound
  <2>1. candidate' = candidate /\ Spend("rounds")
    BY <1>10 DEF ConcludeRound
  <2>2. Goal
    BY <1>2, <1>3, <1>10, <2>1, ConcludeFits, SpendFits
  <2>3. QED
    BY <1>1, <2>2
<1>11. QED
  BY <1>4, <1>5, <1>6, <1>7, <1>8, <1>9, <1>10 DEF EngineNext

\* More attestations back what fewer did.
LEMMA MoreVouchersFit ==
    ASSUME NEW voc, voc \subseteq Attestations, NEW voc2, voc \subseteq voc2,
           ExchangeFits(engine, candidate, round, stray, voc)
    PROVE  ExchangeFits(engine, candidate, round, stray, voc2)
<1>1. engine \in Engines
  BY DEF ExchangeFits, EngineFits
<1>2. IsPrefix(engine.chain, engine.chain)
  BY <1>1, PrefixReflexive DEF Engines, Chains
<1>3. RoundFits(round.matching, round.stale, engine, voc2)
  BY <1>1, <1>2, RoundStaysFit DEF ExchangeFits
<1>4. ~stray => MarkFits(engine, voc2)
  BY <1>1, <1>2, MarkStaysFit DEF ExchangeFits
<1>5. QED
  BY <1>3, <1>4 DEF ExchangeFits

LEMMA WitnessStep == WitnessInv /\ [Next]_vars => WitnessInv'
<1> SUFFICES ASSUME WitnessInv, [Next]_vars PROVE WitnessInv'
  OBVIOUS
<1>1. CASE FeedNext
  <2>1. UNCHANGED <<validatorVars, engineVars, serving>>
    BY <1>1 DEF FeedNext, FeedAppends, FeedReplaced, FeedLosesItsEnd
  <2>2. /\ FeedFits(feed', signed') /\ signed \subseteq signed'
        /\ feed.session <= feed'.session
    BY <1>1, FeedStepFits DEF WitnessInv
  <2>3. ValidatorsFit(mem, row, feed', signed', vouched, lost)
    BY <2>2, FeedMoves DEF WitnessInv
  <2>4. SceneFits(scene')
    <3>1. scene' = scene \/ Spend("sessions") \/ Spend("losses")
      BY <1>1 DEF FeedNext, FeedAppends, FeedReplaced, FeedLosesItsEnd
    <3>2. "sessions" \in Events /\ "losses" \in Events
      BY DEF Events
    <3>3. QED
      BY <3>1, <3>2, SpendFits DEF WitnessInv
  <2>5. /\ mem' = mem /\ row' = row /\ vouched' = vouched /\ lost' = lost /\ engine' = engine
        /\ candidate' = candidate /\ round' = round /\ stray' = stray /\ serving' = serving
    BY <2>1 DEF validatorVars, engineVars
  <2>6. QED
    BY <2>2, <2>3, <2>4, <2>5 DEF WitnessInv
<1>2. CASE EngineNext
  <2>1. /\ ExchangeFits(engine', candidate', round', stray', vouched) /\ SceneFits(scene')
        /\ UNCHANGED <<feedVars, validatorVars, serving>>
    BY <1>2, EngineStepFits
  <2>2. /\ mem' = mem /\ row' = row /\ vouched' = vouched /\ lost' = lost
        /\ feed' = feed /\ signed' = signed /\ serving' = serving
    BY <2>1 DEF validatorVars, feedVars
  <2>3. QED
    BY <2>1, <2>2 DEF WitnessInv
<1>3. CASE \E v \in Validators : ValidatorNext(v)
  <2>1. PICK v \in Validators : ValidatorNext(v)
    BY <1>3
  <2>2. /\ ValidatorsFit(mem', row', feed, signed, vouched', lost')
        /\ vouched \subseteq vouched' /\ SceneFits(scene')
        /\ UNCHANGED <<feedVars, engineVars, serving>>
    BY <2>1, ValidatorStepFits
  <2>3. /\ feed' = feed /\ signed' = signed /\ serving' = serving /\ engine' = engine
        /\ candidate' = candidate /\ round' = round /\ stray' = stray
    BY <2>2 DEF feedVars, engineVars
  <2>4. ExchangeFits(engine, candidate, round, stray, vouched')
    BY <2>2, MoreVouchersFit DEF WitnessInv, ValidatorsFit
  <2>5. QED
    BY <2>2, <2>3, <2>4 DEF WitnessInv
<1>4. CASE \E u \in DOMAIN Behind : Redeploy(u)
  <2>1. PICK u \in DOMAIN Behind : Redeploy(u)
    BY <1>4
  <2>2. PICK v \in Validators : serving' = [serving EXCEPT ![u] = v]
    BY <2>1 DEF Redeploy
  <2>3. serving' \in [1..Len(Urls) -> Validators]
    BY <2>2 DEF WitnessInv
  <2>4. SceneFits(scene')
    <3>1. "redeploys" \in Events
      BY DEF Events
    <3>2. QED
      BY <2>1, <3>1, SpendFits DEF WitnessInv, Redeploy
  <2>5. /\ mem' = mem /\ row' = row /\ vouched' = vouched /\ lost' = lost /\ engine' = engine
        /\ candidate' = candidate /\ round' = round /\ stray' = stray
        /\ feed' = feed /\ signed' = signed
    BY <2>1 DEF Redeploy, feedVars, validatorVars, engineVars
  <2>6. QED
    BY <2>3, <2>4, <2>5 DEF WitnessInv
<1>5. CASE UNCHANGED vars
  BY <1>5 DEF WitnessInv, vars
<1>6. QED
  BY <1>1, <1>2, <1>3, <1>4, <1>5 DEF Next

LEMMA WitnessInductive == Spec => []WitnessInv
<1>1. Init => WitnessInv
  BY WitnessInit
<1>2. WitnessInv /\ [Next]_vars => WitnessInv'
  BY WitnessStep
<1>3. QED
  BY <1>1, <1>2, PTL DEF Spec

-----------------------------------------------------------------------------
(* The theorems *)

LEMMA InvGivesWords == WitnessInv => HonestWordsAreTrue
<1> SUFFICES ASSUME WitnessInv PROVE HonestWordsAreTrue
  OBVIOUS
<1>1. \A v \in Validators :
        /\ StateFits(mem[v], feed, signed) /\ StateFits(row[v], feed, signed)
        /\ ValidatorFits(v, mem[v], row[v], vouched, lost)
  BY DEF WitnessInv, ValidatorsFit
<1>2. AttestsWhatWasSigned
  BY <1>1 DEF AttestsWhatWasSigned, StandsOnSignedHead, StateFits, StandsIn
<1>3. HonestValidatorsVouchOnce
  BY <1>1 DEF HonestValidatorsVouchOnce, OneHistoryPerSession, ValidatorFits, Consistent, Comparable
<1>4. DisputesProveAFork
  BY <1>1 DEF DisputesProveAFork, StateFits
<1>5. QED
  BY <1>2, <1>3, <1>4 DEF HonestWordsAreTrue

\* Everything an honest validator says is true: it stands on a head the feed
\* signed, it vouches for one history of a session while its disk takes every
\* save, and it accuses only when two histories carry the feed's signature
\* (follow_feed, ingest, attest, dispute).
THEOREM HonestWordsHold == Spec => []HonestWordsAreTrue
<1>1. WitnessInv => HonestWordsAreTrue
  BY InvGivesWords
<1>2. QED
  BY <1>1, WitnessInductive, PTL

LEMMA InvGivesQuorum == WitnessInv => QuorumIsBacked
<1> SUFFICES ASSUME WitnessInv, ~stray PROVE Backed(engine)
  BY DEF QuorumIsBacked
<1>1. MarkFits(engine, vouched)
  BY DEF WitnessInv, ExchangeFits
<1>2. Backers(engine) = {v \in Validators : VouchedAt(v, engine.mark, engine, vouched)}
  BY DEF Backers, VouchedAt
<1>3. QED
  BY <1>1, <1>2 DEF Backed, MarkFits

\* The mark of the exchange is what enough validators, each with a key of its
\* own, vouched for in the history the exchange consumed, across commits,
\* restarts, new sessions and URLs that change hands (quorum_position, the
\* round of the validators' monitor).
THEOREM MarkIsBacked == Spec => []QuorumIsBacked
<1>1. WitnessInv => QuorumIsBacked
  BY InvGivesQuorum
<1>2. QED
  BY <1>1, WitnessInductive, PTL

LEMMA VerdictStep ==
    ASSUME WitnessInv, [Next]_vars, NEW v \in Validators, mem[v].disputed, row[v].disputed
    PROVE  mem'[v] = mem[v]
<1>1. CASE \E u \in Validators : ValidatorNext(u)
  <2>1. PICK u \in Validators : ValidatorNext(u)
    BY <1>1
  <2>2. CASE u = v
    BY <2>1, <2>2, ValidatorStepFits
  <2>3. CASE u # v
    BY <2>1, <2>3, ValidatorStepFits
  <2>4. QED
    BY <2>2, <2>3
<1>2. CASE EngineNext
  <2>1. UNCHANGED validatorVars
    BY <1>2, EngineStepFits
  <2>2. QED
    BY <2>1 DEF validatorVars
<1>3. CASE FeedNext \/ (\E u \in DOMAIN Behind : Redeploy(u)) \/ UNCHANGED vars
  <2>1. mem' = mem
    BY <1>3 DEF FeedNext, FeedAppends, FeedReplaced, FeedLosesItsEnd, Redeploy, validatorVars, vars
  <2>2. QED
    BY <2>1
<1>4. QED
  BY <1>1, <1>2, <1>3 DEF Next

\* A verdict that is on disk stands through every step until an operator clears
\* it, with the position it was reached at (follow_feed returns early, the row
\* brings it back).
THEOREM VerdictStands == Spec => DisputeStands
<1> DEFINE Stands == \A v \in Validators :
                       mem[v].disputed /\ row[v].disputed =>
                          mem'[v].disputed /\ Position(mem'[v]) = Position(mem[v])
<1>1. WitnessInv /\ [Next]_vars => [Stands]_vars
  <2>1. SUFFICES ASSUME WitnessInv, [Next]_vars, NEW v \in Validators,
                        mem[v].disputed, row[v].disputed
                 PROVE  mem'[v].disputed /\ Position(mem'[v]) = Position(mem[v])
    OBVIOUS
  <2>2. mem'[v] = mem[v]
    BY <2>1, VerdictStep
  <2>3. QED
    BY <2>1, <2>2
<1>2. QED
  BY <1>1, WitnessInductive, PTL DEF Spec, DisputeStands

\* The mark falls only when its run or its process ends: what the rounds wrote
\* while a batch was committed is carried over the swap (publish).
THEOREM MarkIsCarriedOver == Spec => MarkOutlivesCommits
<1> DEFINE Kept == engine'.mark < engine.mark => engine'.chain = <<>> \/ scene' # scene
<1>1. WitnessInv /\ [Next]_vars => [Kept]_vars
  <2> SUFFICES ASSUME WitnessInv, [Next]_vars PROVE Kept
    OBVIOUS
  <2>1. CASE EngineNext
    BY <2>1, EngineStepFits
  <2>2. CASE ~EngineNext
    <3>1. \/ FeedNext \/ (\E v \in Validators : ValidatorNext(v))
          \/ (\E u \in DOMAIN Behind : Redeploy(u)) \/ UNCHANGED vars
      BY <2>2 DEF Next
    <3>2. engine' = engine
      <4>1. CASE \E v \in Validators : ValidatorNext(v)
        BY <4>1, ValidatorStepFits DEF engineVars
      <4>2. CASE ~\E v \in Validators : ValidatorNext(v)
        BY <3>1, <4>2 DEF FeedNext, FeedAppends, FeedReplaced, FeedLosesItsEnd, Redeploy,
                          engineVars, vars
      <4>3. QED
        BY <4>1, <4>2
    <3>3. engine.mark \in Nat
      BY DEF WitnessInv, ExchangeFits, EngineFits, Engines
    <3>4. QED
      BY <3>2, <3>3
  <2>3. QED
    BY <2>1, <2>2
<1>2. QED
  BY <1>1, WitnessInductive, PTL DEF Spec, MarkOutlivesCommits

================================================================================
