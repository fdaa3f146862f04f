---------------------------- MODULE Intake_proofs ----------------------------
(***************************************************************************)
(* What the sequencer, the inbox and the drain between them promise, for   *)
(* every set of submissions and every limit.                               *)
(*                                                                         *)
(* One invariant carries the argument (IntakeInv).  It has a side for the  *)
(* sequencer: a history is numbered without a gap and spends no nonce      *)
(* twice, the file holds the newest one, the process knows what the file   *)
(* says, every message stands under its key.  It has a side for the inbox: *)
(* every entry is listed once, and a confirmed one is carried by the       *)
(* message named.  And it says of whatever is on its way between them, a   *)
(* page, a pairing, a mark in hand or a late one, that it is true of an    *)
(* entry of the database it names, for as long as that database is there.  *)
(***************************************************************************)
EXTENDS IntakeProperties, DataTheorems, TLAPS

-----------------------------------------------------------------------------
(* Lists.                                                                    *)

\* What is taken out of a list is of the list, is what was asked for, and is
\* no longer than the list.
TakenFrom(taken, s, T) ==
    /\ Len(taken) <= Len(s)
    /\ \A i \in DOMAIN taken : taken[i] \in T /\ \E j \in DOMAIN s : taken[i] = s[j]

LEMMA WithinTakes ==
    ASSUME NEW S, NEW s \in Seq(S), NEW T
    PROVE  Within(s, T) \in Seq(S) /\ TakenFrom(Within(s, T), s, T)
<1> DEFINE n == Len(s)
           V == Seq(S)
           Step(kept, x) == IF x \in T THEN Append(kept, x) ELSE kept
           step == [vi \in V \X (1..n) |-> Step(vi[1], s[vi[2]])]
           Solves(g) == g = [t \in SUBSET DOMAIN s |->
                               IF t = {} THEN <<>> ELSE Step(g[t \ {Max(t)}], s[Max(t)])]
           iter == CHOOSE g : Solves(g)
<1>1. n \in Nat /\ DOMAIN s = 1..n
  OBVIOUS
<1>2. Within(s, T) = iter[1..n]
  BY <1>1 DEF Within, FoldLeft, MapThenFoldSet
<1>3. <<>> \in V /\ step \in [V \X (1..n) -> V]
  <2>1. ASSUME NEW v \in V, NEW i \in 1..n PROVE Step(v, s[i]) \in V
    <3>1. s[i] \in S
      OBVIOUS
    <3>2. QED
      BY <3>1
  <2>2. ASSUME NEW vi \in V \X (1..n) PROVE Step(vi[1], s[vi[2]]) \in V
    <3>1. vi[1] \in V /\ vi[2] \in 1..n
      OBVIOUS
    <3> HIDE DEF Step, V
    <3>2. QED
      BY <2>1, <3>1
  <2> HIDE DEF Step
  <2>3. QED
    BY <2>2
<1> HIDE DEF n, V
<1>4. PICK g : FoldsBy(g, <<>>, n, step) /\ \A t \in SUBSET (1..n) : g[t] \in V
  BY <1>1, <1>3, FoldsExist
<1>5. Solves(g)
  <2>1. ASSUME NEW t \in SUBSET (1..n)
        PROVE  FoldValue(g, <<>>, step, t)
                 = IF t = {} THEN <<>> ELSE Step(g[t \ {Max(t)}], s[Max(t)])
    <3>1. CASE t = {}
      BY <3>1 DEF FoldValue
    <3>2. CASE t # {}
      <4>1. IsFiniteSet(t) /\ t \subseteq Int
        <5>1. 1 \in Int /\ n \in Int
          BY <1>1
        <5>2. IsFiniteSet(1..n)
          BY <5>1, FS_Interval
        <5>3. IsFiniteSet(t)
          BY <5>2, FS_Subset
        <5>4. t \subseteq Int
          BY <1>1
        <5>5. QED
          BY <5>3, <5>4
      <4>2. Max(t) \in 1..n
        BY <3>2, <4>1, MaxOfFinite
      <4>3. <<g[t \ {Max(t)}], Max(t)>> \in V \X (1..n)
        BY <1>4, <4>2
      <4> HIDE DEF Step
      <4>4. QED
        BY <3>2, <4>3 DEF FoldValue
    <3>3. QED
      BY <3>1, <3>2
  <2> HIDE DEF step, Step
  <2>2. QED
    BY <1>1, <1>4, <2>1 DEF FoldsBy
<1>6. Solves(iter)
  BY <1>5
<1> HIDE DEF step
<1>7. PICK h : h = iter /\ Solves(h)
  BY <1>6
<1> HIDE DEF iter
<1>8. h[1..0] = <<>>
  <2>1. 1..0 = {} /\ {} \in SUBSET DOMAIN s
    OBVIOUS
  <2>2. QED
    BY <1>7, <2>1
<1>9. ASSUME NEW k \in 1..n PROVE h[1..k] = Step(h[1..(k - 1)], s[k])
  <2>1. /\ 1..k \in SUBSET (1..n) /\ 1..k # {}
        /\ Max(1..k) = k /\ (1..k) \ {k} = 1..(k - 1)
    BY <1>1, PrefixOfIndices
  <2> HIDE DEF Step
  <2>2. QED
    BY <1>1, <1>7, <2>1
<1> DEFINE Good(k) == /\ h[1..k] \in V /\ Len(h[1..k]) <= k
                      /\ \A i \in DOMAIN h[1..k] : /\ h[1..k][i] \in T
                                                   /\ \E j \in DOMAIN s : h[1..k][i] = s[j]
           good == {k \in Nat : k <= n => Good(k)}
<1>10. 0 \in good
  BY <1>3, <1>8
<1>11. ASSUME NEW k \in Nat, k \in good PROVE k + 1 \in good
  <2> SUFFICES ASSUME k + 1 <= n PROVE Good(k + 1)
    OBVIOUS
  <2>1. k <= n /\ k + 1 \in 1..n /\ (k + 1) - 1 = k
    BY <1>1
  <2>2. PICK v, x, w : v = h[1..k] /\ x = s[k + 1] /\ w = h[1..(k + 1)]
    OBVIOUS
  <2>3. Good(k)
    BY <1>11, <2>1
  <2>4. w = Step(v, x) /\ x \in S /\ k + 1 \in DOMAIN s
    BY <1>1, <1>9, <2>1, <2>2
  <2>5. /\ v \in Seq(S) /\ Len(v) <= k
        /\ \A i \in DOMAIN v : v[i] \in T /\ \E j \in DOMAIN s : v[i] = s[j]
    BY <2>2, <2>3 DEF V
  <2>6. /\ w \in Seq(S) /\ Len(w) <= k + 1
        /\ \A i \in DOMAIN w : w[i] \in T /\ \E j \in DOMAIN s : w[i] = s[j]
    <3>1. CASE x \in T
      <4>1. w = Append(v, x)
        BY <2>4, <3>1
      <4>2. /\ w \in Seq(S) /\ Len(w) = Len(v) + 1 /\ DOMAIN w = 1..(Len(v) + 1)
            /\ DOMAIN v = 1..Len(v) /\ Len(v) \in Nat
            /\ w[Len(v) + 1] = x /\ \A i \in 1..Len(v) : w[i] = v[i]
        BY <2>4, <2>5, <4>1
      <4>3. ASSUME NEW i \in DOMAIN w PROVE w[i] \in T /\ \E j \in DOMAIN s : w[i] = s[j]
        <5>1. CASE i = Len(v) + 1
          BY <2>2, <2>4, <3>1, <4>2, <5>1
        <5>2. CASE i # Len(v) + 1
          <6>1. i \in DOMAIN v /\ w[i] = v[i]
            BY <4>2, <5>2
          <6>2. QED
            BY <2>5, <6>1
        <5>3. QED
          BY <5>1, <5>2
      <4>4. QED
        BY <2>5, <4>2, <4>3
    <3>2. CASE x \notin T
      BY <2>4, <2>5, <3>2
    <3>3. QED
      BY <3>1, <3>2
  <2>7. QED
    BY <2>2, <2>6 DEF V
<1>12. n \in good
  <2> HIDE DEF good
  <2>1. QED
    BY <1>1, <1>10, <1>11, EveryNatural
<1>13. Good(n)
  BY <1>1, <1>12
<1> HIDE DEF Good, Solves, Step
<1>14. PICK r : r = h[1..n]
  OBVIOUS
<1>15. /\ r \in V /\ Len(r) <= n
       /\ \A i \in DOMAIN r : r[i] \in T /\ \E j \in DOMAIN s : r[i] = s[j]
  BY <1>13, <1>14 DEF Good
<1>16. Within(s, T) = r
  BY <1>2, <1>7, <1>14
<1>17. QED
  BY <1>15, <1>16 DEF TakenFrom, V, n

Entry == [submission : Submissions, feedId : Int]
AccountKeys == {[account |-> s.account, key |-> s.key] : s \in Submissions}

FaultNames == {"proof_failed", "content_mismatch", "double_sequenced", "none"}

\* The tables hold rows of their columns' kinds.
TablesOK ==
    /\ inbox \in [epoch : Nat, entries : Seq(Entry), pins : SUBSET AccountKeys,
                  rejections : SUBSET FaultNames]

\* One key per account: what KeyFits decides is then what the first row says.
OneKey == \A p, q \in inbox.pins : p.account = q.account => p = q

ListingInv == TablesOK /\ OneKey /\ ListedOnceUnderItsKey

Message == [id : Nat \ {0}, content : Contents]
Pairing == [epoch : Nat \ {0}, entry : EntryIds, id : Nat \ {0}]
SignedHead == [session : Nat, lastId : Nat]
OperatorsOwn == {MessageFrom(s) : s \in OperatorMessages}

\* Ids are 1..N with no gaps and a nonce names one message.
HistoryOK(h) ==
    /\ h \in Seq(Message)
    /\ \A i \in DOMAIN h : h[i].id = i
    /\ OneNonceOneMessage(h)

OpeningOK(h) == \A i \in 1..Opening : i \in DOMAIN h => h[i].content \in OperatorsOwn

HistoriesOK ==
    /\ histories \in Seq(Seq(Message))
    /\ \A k \in DOMAIN histories : HistoryOK(histories[k]) /\ OpeningOK(histories[k])

PinsOK(pins) ==
    /\ pins \subseteq AccountKeys
    /\ Cardinality(pins) <= MaxAccounts
    /\ \A p, q \in pins : p.account = q.account => p = q

PairingsOK(pairings, messages) ==
    /\ pairings \subseteq Pairing
    /\ IsFiniteSet(pairings) /\ Cardinality(pairings) <= MaxPairings
    /\ \A p \in pairings : p.id \in DOMAIN messages
    /\ \A p, q \in pairings : p.epoch = q.epoch /\ p.entry = q.entry => p.id = q.id

FileOK ==
    /\ file \in [messages : Seq(Message), pairings : SUBSET Pairing,
                 pins : SUBSET AccountKeys, head : SignedHead]
    /\ HistoryOK(file.messages)
    /\ Cardinality(SpentBy(file.messages)) <= MaxNonces
    /\ PinsOK(file.pins)
    /\ PairingsOK(file.pairings, file.messages)
    /\ IF file.head = NoHead THEN file.messages = <<>>
       ELSE /\ histories # <<>>
            /\ file.messages = histories[Len(histories)]
            /\ file.head = [session |-> Len(histories), lastId |-> Len(file.messages)]

LiveOK ==
    IF feed.up
    THEN /\ histories # <<>>
         /\ file.messages = histories[Len(histories)]
         /\ feed = Restored(Len(histories))
    ELSE feed = Down

Carries(session, id, content) ==
    /\ session \in DOMAIN histories
    /\ id \in DOMAIN histories[session]
    /\ histories[session][id].content = content

\* What the inbox's entry i of that epoch asks for, while that database is there.
Asks(epoch, i, session, content) ==
    /\ epoch <= inbox.epoch
    /\ epoch = inbox.epoch =>
          /\ i \in DOMAIN inbox.entries
          /\ inbox.entries[i].submission.session = session
          /\ MessageFrom(inbox.entries[i].submission) = content

EntriesOK ==
    /\ inbox.epoch # 0
    /\ \A i \in DOMAIN inbox.entries :
          LET entry == inbox.entries[i]
          IN  /\ entry.feedId \in Nat
              /\ entry.feedId # NotMarked =>
                    Carries(entry.submission.session, entry.feedId,
                            MessageFrom(entry.submission))

PairingsFit ==
    \A p \in file.pairings :
        Asks(p.epoch, p.entry, file.head.session, file.messages[p.id].content)

Mark == [epoch : Nat \ {0}, entry : EntryIds, id : Nat \ {0}, message : Contents,
         session : Nat \ {0}, size : Nat \ {0}]
MarkOK(m) ==
    /\ m \in Mark
    /\ m.session \in DOMAIN histories
    /\ Included(m)
    /\ Asks(m.epoch, m.entry, m.session, m.message)

Listed == [entry : EntryIds, submission : Submissions]
Record == [refusals : Nat, waiting : BOOLEAN, givenUp : BOOLEAN]

TroubleOK(trouble) ==
    /\ trouble \in [DOMAIN trouble -> Record]
    /\ DOMAIN trouble \subseteq EntryIds
    /\ Cardinality(DOMAIN trouble) <= MaxTrouble

DueOK ==
    /\ Len(drain.due) <= PageLimit
    /\ drain.due # <<>> => feed.up /\ LogIsOpen /\ drain.epoch # 0
    /\ \A d, e \in Range(drain.due) : d.entry = e.entry => d.submission = e.submission
    /\ \A e \in Range(drain.due) :
          Asks(drain.epoch, e.entry, e.submission.session, MessageFrom(e.submission))

MarksOK ==
    /\ Len(drain.marks) <= MarkBudget
    /\ \A m \in Range(drain.marks) \cup late : MarkOK(m)

DrainOK ==
    /\ DOMAIN drain = {"epoch", "trouble", "due", "marks"}
    /\ drain.epoch \in Nat
    /\ drain.due \in Seq(Listed)
    /\ drain.marks \in Seq(Mark)
    /\ TroubleOK(drain.trouble)

\* The sequencer's side, the inbox's side, the drain between them.
FeedSideOK == HistoriesOK /\ FileOK /\ LiveOK /\ PublishedUnderItsKey
InboxSideOK == ListingInv /\ EntriesOK /\ NoEvidenceAgainstHonestFeed
DrainSideOK == DrainOK /\ DueOK /\ MarksOK

IntakeInv == FeedSideOK /\ InboxSideOK /\ PairingsFit /\ DrainSideOK /\ faults \in 0..MaxFaults

-----------------------------------------------------------------------------
(* Histories.                                                               *)

SpendsOnce(h) ==
    \A i, j \in DOMAIN h :
        /\ h[i].content # Generated /\ h[j].content # Generated
        /\ h[i].content.account = h[j].content.account
        /\ h[i].content.nonce = h[j].content.nonce
        => i = j

SpendingRow(h, i) ==
    [account |-> h[i].content.account, nonce |-> h[i].content.nonce, id |-> h[i].id]

LEMMA SpentRows ==
    ASSUME NEW h
    PROVE  SpentBy(h) = {SpendingRow(h, i) : i \in {j \in DOMAIN h : h[j].content # Generated}}
BY DEF SpentBy, SpendingRow

\* In a numbered history a nonce names one message if it stands there once.
LEMMA NonceStandsOnce ==
    ASSUME NEW h, \A i \in DOMAIN h : h[i].id = i
    PROVE  OneNonceOneMessage(h) <=> SpendsOnce(h)
<1>1. \A i \in DOMAIN h :
        /\ SpendingRow(h, i).account = h[i].content.account
        /\ SpendingRow(h, i).nonce = h[i].content.nonce
        /\ SpendingRow(h, i).id = i
  BY DEF SpendingRow
<1>2. \A m : m \in SpentBy(h) <=>
        \E i \in DOMAIN h : h[i].content # Generated /\ m = SpendingRow(h, i)
  BY SpentRows
<1>3. ASSUME OneNonceOneMessage(h) PROVE SpendsOnce(h)
  <2> SUFFICES ASSUME NEW i \in DOMAIN h, NEW j \in DOMAIN h,
                      h[i].content # Generated, h[j].content # Generated,
                      h[i].content.account = h[j].content.account,
                      h[i].content.nonce = h[j].content.nonce
               PROVE  i = j
    BY DEF SpendsOnce
  <2>1. SpendingRow(h, i) \in SpentBy(h) /\ SpendingRow(h, j) \in SpentBy(h)
    BY <1>2
  <2>2. SpendingRow(h, i).id = SpendingRow(h, j).id
    BY <1>1, <1>3, <2>1 DEF OneNonceOneMessage
  <2>3. QED
    BY <1>1, <2>2
<1>4. ASSUME SpendsOnce(h) PROVE OneNonceOneMessage(h)
  <2> SUFFICES ASSUME NEW m \in SpentBy(h), NEW n \in SpentBy(h),
                      m.account = n.account, m.nonce = n.nonce
               PROVE  m.id = n.id
    BY DEF OneNonceOneMessage
  <2>1. PICK i \in DOMAIN h : h[i].content # Generated /\ m = SpendingRow(h, i)
    BY <1>2
  <2>2. PICK j \in DOMAIN h : h[j].content # Generated /\ n = SpendingRow(h, j)
    BY <1>2
  <2>3. h[i].content.account = h[j].content.account /\ h[i].content.nonce = h[j].content.nonce
    BY <1>1, <2>1, <2>2
  <2>4. i = j
    BY <1>4, <2>1, <2>2, <2>3 DEF SpendsOnce
  <2>5. QED
    BY <2>1, <2>2, <2>4
<1>5. QED
  BY <1>3, <1>4

\* What two histories in a row spend.
LEMMA SpentOfConcat ==
    ASSUME NEW S, NEW s \in Seq(S), NEW t \in Seq(S)
    PROVE  SpentBy(s \o t) = SpentBy(s) \cup SpentBy(t)
<1> DEFINE u == s \o t
<1>1. /\ DOMAIN u = 1..(Len(s) + Len(t)) /\ DOMAIN s = 1..Len(s) /\ DOMAIN t = 1..Len(t)
      /\ Len(s) \in Nat /\ Len(t) \in Nat
      /\ \A i \in 1..Len(s) : u[i] = s[i]
      /\ \A i \in 1..Len(t) : u[Len(s) + i] = t[i]
  OBVIOUS
<1> HIDE DEF u
<1>2. ASSUME NEW m \in SpentBy(u) PROVE m \in SpentBy(s) \cup SpentBy(t)
  <2>1. PICK i \in DOMAIN u : u[i].content # Generated /\ m = SpendingRow(u, i)
    BY SpentRows
  <2>2. CASE i <= Len(s)
    <3>1. i \in DOMAIN s /\ u[i] = s[i]
      BY <1>1, <2>2
    <3>2. m = SpendingRow(s, i) /\ s[i].content # Generated
      BY <2>1, <3>1 DEF SpendingRow
    <3>3. QED
      BY <3>1, <3>2, SpentRows
  <2>3. CASE ~(i <= Len(s))
    <3>1. PICK j \in DOMAIN t : i = Len(s) + j /\ u[i] = t[j]
      <4>1. i - Len(s) \in DOMAIN t /\ i = Len(s) + (i - Len(s))
        BY <1>1, <2>3
      <4>2. QED
        BY <1>1, <4>1
    <3>2. m = SpendingRow(t, j) /\ t[j].content # Generated
      BY <2>1, <3>1 DEF SpendingRow
    <3>3. QED
      BY <3>1, <3>2, SpentRows
  <2>4. QED
    BY <2>2, <2>3
<1>3. ASSUME NEW m \in SpentBy(s) PROVE m \in SpentBy(u)
  <2>1. PICK i \in DOMAIN s : s[i].content # Generated /\ m = SpendingRow(s, i)
    BY SpentRows
  <2>2. i \in DOMAIN u /\ u[i] = s[i]
    BY <1>1
  <2>3. m = SpendingRow(u, i) /\ u[i].content # Generated
    BY <2>1, <2>2 DEF SpendingRow
  <2>4. QED
    BY <2>2, <2>3, SpentRows
<1>4. ASSUME NEW m \in SpentBy(t) PROVE m \in SpentBy(u)
  <2>1. PICK i \in DOMAIN t : t[i].content # Generated /\ m = SpendingRow(t, i)
    BY SpentRows
  <2>2. PICK k \in DOMAIN u : u[k] = t[i]
    <3>1. Len(s) + i \in DOMAIN u
      BY <1>1
    <3>2. QED
      BY <1>1, <3>1
  <2>3. m = SpendingRow(u, k) /\ u[k].content # Generated
    BY <2>1, <2>2 DEF SpendingRow
  <2>4. QED
    BY <2>2, <2>3, SpentRows
<1>5. QED
  BY <1>2, <1>3, <1>4 DEF u

\* A history spends at most a nonce a message.
LEMMA SpentIsFinite ==
    ASSUME NEW S, NEW h \in Seq(S)
    PROVE  /\ IsFiniteSet(SpentBy(h)) /\ Cardinality(SpentBy(h)) \in Nat
           /\ Cardinality(SpentBy(h)) <= Len(h)
<1> DEFINE I == {j \in DOMAIN h : h[j].content # Generated}
           f == [i \in I |-> SpendingRow(h, i)]
<1>1. 1 \in Int /\ Len(h) \in Int /\ Len(h) \in Nat /\ DOMAIN h = 1..Len(h)
  OBVIOUS
<1>2. IsFiniteSet(DOMAIN h) /\ Cardinality(DOMAIN h) = Len(h)
  BY <1>1, FS_Interval
<1>3. I \in SUBSET DOMAIN h
  OBVIOUS
<1>4. IsFiniteSet(I) /\ Cardinality(I) <= Len(h) /\ Cardinality(I) \in Nat
  BY <1>2, <1>3, FS_Subset, FS_CardinalityType
<1>5. f \in Surjection(I, SpentBy(h))
  BY SpentRows DEF Surjection
<1>6. IsFiniteSet(SpentBy(h)) /\ Cardinality(SpentBy(h)) <= Cardinality(I)
  BY <1>4, <1>5, FS_Surjection
<1>7. Cardinality(SpentBy(h)) \in Nat
  BY <1>6, FS_CardinalityType
<1>8. QED
  BY <1>4, <1>6, <1>7, <1>1

-----------------------------------------------------------------------------
(* What a step leaves alone stays as it was.                                *)

LEMMA HistoriesStay ==
    ASSUME HistoriesOK, UNCHANGED histories
    PROVE  HistoriesOK'
<1>1. histories' = histories
  OBVIOUS
<1>2. histories' \in Seq(Seq(Message))
  BY DEF HistoriesOK
<1>3. ASSUME NEW k \in DOMAIN histories
      PROVE  (HistoryOK(histories[k]) /\ OpeningOK(histories[k]))'
  <2>1. PICK h : h = histories[k]
    OBVIOUS
  <2>2. HistoryOK(h) /\ OpeningOK(h)
    BY <2>1 DEF HistoriesOK
  <2>3. HistoryOK(h)' /\ OpeningOK(h)'
    BY <2>2 DEF HistoryOK, OpeningOK, OneNonceOneMessage, SpentBy, OperatorsOwn
  <2>4. QED
    BY <2>1, <2>3
<1>4. QED
  BY <1>2, <1>3 DEF HistoriesOK

LEMMA FileStays ==
    ASSUME FileOK, UNCHANGED <<file, histories>>
    PROVE  FileOK'
BY DEF FileOK, HistoryOK, OneNonceOneMessage, SpentBy, PinsOK, PairingsOK

-----------------------------------------------------------------------------
(* The log with a group at its end.                                         *)

BatchItem ==
    [content : Contents,
     pairing : {{}} \cup {{p} : p \in [epoch : Nat \ {0}, entry : EntryIds]}]

WithBatch(batch) == file.messages \o Numbered(batch)

\* What a restored process knows.
LEMMA LiveFields ==
    ASSUME FileOK, LiveOK, feed.up
    PROVE  /\ feed.session = Len(histories) /\ histories # <<>>
           /\ file.messages = histories[Len(histories)]
           /\ feed.nextId = Len(file.messages) + 1
           /\ feed.nonces = SpentBy(file.messages)
           /\ feed.pairings = file.pairings /\ feed.pins = file.pins
           /\ DOMAIN feed = {"up", "session", "nextId", "nonces", "pairings", "pins"}
BY DEF LiveOK, Restored

RowsAre(n, batch, h) ==
    /\ n \in Nat /\ n = Len(file.messages) /\ feed.nextId = n + 1
    /\ h \in Seq(Message) /\ Len(h) = n + Len(batch) /\ DOMAIN h = 1..(n + Len(batch))
    /\ \A i \in 1..n : h[i] = file.messages[i]
    /\ \A i \in 1..Len(batch) : h[n + i] = [id |-> n + i, content |-> batch[i].content]
    /\ \A i \in DOMAIN h : h[i].id = i
    /\ Numbered(batch) \in Seq(Message) /\ Len(Numbered(batch)) = Len(batch)
    /\ feed.nonces \cup SpentBy(Numbered(batch)) = SpentBy(h)

LEMMA RowsWithBatch ==
    ASSUME FileOK, LiveOK, feed.up, NEW batch \in Seq(BatchItem)
    PROVE  RowsAre(Len(file.messages), batch, WithBatch(batch))
<1> DEFINE n == Len(file.messages)
           t == Numbered(batch)
<1>1. /\ file.messages \in Seq(Message) /\ \A i \in DOMAIN file.messages : file.messages[i].id = i
  BY DEF FileOK, HistoryOK
<1>2. n \in Nat /\ feed.nextId = n + 1 /\ feed.nonces = SpentBy(file.messages)
  BY <1>1, LiveFields
<1>3. \A i \in 1..Len(batch) : batch[i].content \in Contents
  <2>1. ASSUME NEW i \in 1..Len(batch) PROVE batch[i] \in BatchItem
    OBVIOUS
  <2>2. QED
    BY <2>1 DEF BatchItem
<1>4. t = [i \in 1..Len(batch) |-> [id |-> n + i, content |-> batch[i].content]]
  <2>1. DOMAIN batch = 1..Len(batch) /\ Len(batch) \in Nat
    OBVIOUS
  <2>2. \A i \in 1..Len(batch) : feed.nextId + i - 1 = n + i
    BY <1>2, <2>1
  <2>3. QED
    BY <2>1, <2>2 DEF Numbered
<1>5. \A i \in 1..Len(batch) : [id |-> n + i, content |-> batch[i].content] \in Message
  BY <1>2, <1>3 DEF Message
<1>6. t \in Seq(Message) /\ Len(t) = Len(batch)
  BY <1>4, <1>5
<1> HIDE DEF n, t
<1> DEFINE s == file.messages
           h == s \o t
<1>7. s \in Seq(Message) /\ Len(s) = n /\ Len(batch) \in Nat
  BY <1>1 DEF n
<1> HIDE DEF s
<1>8. /\ h \in Seq(Message) /\ Len(h) = n + Len(batch) /\ DOMAIN h = 1..(n + Len(batch))
      /\ \A i \in 1..n : h[i] = s[i]
      /\ \A i \in 1..Len(batch) : h[n + i] = t[i]
  BY <1>2, <1>6, <1>7
<1>9. SpentBy(h) = SpentBy(s) \cup SpentBy(t)
  BY <1>6, <1>7, SpentOfConcat
<1> HIDE DEF h
<1>10. \A i \in 1..Len(batch) : h[n + i] = [id |-> n + i, content |-> batch[i].content]
  BY <1>4, <1>8
<1>11. ASSUME NEW i \in DOMAIN h PROVE h[i].id = i
  <2>1. CASE i <= n
    <3>1. i \in 1..n /\ i \in DOMAIN file.messages
      BY <1>2, <1>7, <1>8, <2>1 DEF s
    <3>2. QED
      BY <1>1, <1>8, <3>1 DEF s
  <2>2. CASE ~(i <= n)
    <3>1. i - n \in 1..Len(batch) /\ n + (i - n) = i
      BY <1>2, <1>7, <1>8, <2>2
    <3>2. h[i] = [id |-> i, content |-> batch[i - n].content]
      BY <1>10, <3>1
    <3>3. QED
      BY <3>2
  <2>3. QED
    BY <2>1, <2>2
<1>12. h = WithBatch(batch)
  BY DEF h, s, t, WithBatch
<1>13. RowsAre(n, batch, h)
  BY <1>2, <1>6, <1>8, <1>9, <1>10, <1>11 DEF RowsAre, s, t, n
<1>14. QED
  BY <1>12, <1>13 DEF n

\* What message `id` says is what stands in the log with the group.
LEMMA ContentIsRow ==
    ASSUME FileOK, LiveOK, feed.up, NEW pass, pass.batch \in Seq(BatchItem),
           NEW id \in DOMAIN WithBatch(pass.batch)
    PROVE  ContentOf(pass, id) = WithBatch(pass.batch)[id].content
<1> DEFINE n == Len(file.messages)
           h == WithBatch(pass.batch)
<1>1. RowsAre(n, pass.batch, h)
  BY RowsWithBatch
<1>0. id \in DOMAIN h /\ Len(pass.batch) \in Nat
  OBVIOUS
<1> HIDE DEF n, h
<1>2. id \in 1..(n + Len(pass.batch)) /\ n \in Nat /\ feed.nextId = n + 1 /\ Len(pass.batch) \in Nat
  BY <1>0, <1>1 DEF RowsAre
<1>3. CASE id < feed.nextId
  <2>1. id \in 1..n
    BY <1>2, <1>3
  <2>2. h[id] = file.messages[id]
    BY <1>1, <2>1 DEF RowsAre
  <2>3. QED
    BY <1>3, <2>2 DEF ContentOf, h
<1>4. CASE ~(id < feed.nextId)
  <2>1. id - n \in 1..Len(pass.batch) /\ n + (id - n) = id /\ id - feed.nextId + 1 = id - n
    BY <1>2, <1>4
  <2>2. h[n + (id - n)] = [id |-> n + (id - n), content |-> pass.batch[id - n].content]
    BY <1>1, <2>1 DEF RowsAre
  <2>3. h[id].content = pass.batch[id - n].content
    BY <2>1, <2>2
  <2>4. ContentOf(pass, id) = pass.batch[id - n].content
    BY <1>4, <2>1 DEF ContentOf
  <2>5. QED
    BY <2>3, <2>4 DEF h
<1>5. QED
  BY <1>3, <1>4

\* The pairings of a group: at most one an item, at the item's message.
PairRow(batch, p) ==
    \E i \in DOMAIN batch : \E q \in batch[i].pairing :
        p = [epoch |-> q.epoch, entry |-> q.entry, id |-> feed.nextId + i - 1]

LEMMA PairsOfBatch ==
    ASSUME NEW batch \in Seq(BatchItem)
    PROVE  /\ \A p : p \in PairsOf(batch) <=> PairRow(batch, p)
           /\ IsFiniteSet(PairsOf(batch)) /\ Cardinality(PairsOf(batch)) \in Nat
           /\ Cardinality(PairsOf(batch)) <= Len(batch)
<1>1. \A p : p \in PairsOf(batch) <=> PairRow(batch, p)
  BY DEF PairsOf, PairRow
<1> DEFINE I == {i \in DOMAIN batch : batch[i].pairing # {}}
           q(i) == CHOOSE p \in batch[i].pairing : TRUE
           f == [i \in I |-> [epoch |-> q(i).epoch, entry |-> q(i).entry,
                              id |-> feed.nextId + i - 1]]
<1>2. 1 \in Int /\ Len(batch) \in Int /\ Len(batch) \in Nat /\ DOMAIN batch = 1..Len(batch)
  OBVIOUS
<1>3. IsFiniteSet(DOMAIN batch) /\ Cardinality(DOMAIN batch) = Len(batch)
  BY <1>2, FS_Interval
<1>4. I \in SUBSET DOMAIN batch
  OBVIOUS
<1>5. IsFiniteSet(I) /\ Cardinality(I) <= Len(batch) /\ Cardinality(I) \in Nat
  BY <1>3, <1>4, FS_Subset, FS_CardinalityType
<1>6. \A i \in I : \A p \in batch[i].pairing : p = q(i)
  <2>1. ASSUME NEW i \in I PROVE \E p : batch[i].pairing = {p}
    <3>1. batch[i] \in BatchItem
      OBVIOUS
    <3>2. batch[i].pairing \in {{}} \cup {{p} : p \in [epoch : Nat \ {0}, entry : EntryIds]}
      BY <3>1 DEF BatchItem
    <3>3. QED
      BY <3>2
  <2>2. QED
    BY <2>1
<1>7. f \in Surjection(I, PairsOf(batch))
  <2>1. ASSUME NEW i \in I PROVE f[i] \in PairsOf(batch)
    <3>1. q(i) \in batch[i].pairing
      OBVIOUS
    <3>2. PairRow(batch, f[i])
      BY <3>1 DEF PairRow
    <3>3. QED
      BY <1>1, <3>2
  <2>2. ASSUME NEW p \in PairsOf(batch) PROVE \E i \in I : f[i] = p
    <3>0. PICK i \in DOMAIN batch : \E r \in batch[i].pairing :
            p = [epoch |-> r.epoch, entry |-> r.entry, id |-> feed.nextId + i - 1]
      BY <1>1 DEF PairRow
    <3>1. PICK r \in batch[i].pairing :
            p = [epoch |-> r.epoch, entry |-> r.entry, id |-> feed.nextId + i - 1]
      BY <3>0
    <3>2. i \in I
      BY <3>1
    <3>3. r = q(i)
      BY <1>6, <3>1, <3>2
    <3>4. QED
      BY <3>1, <3>2, <3>3
  <2> HIDE DEF q, I
  <2>3. f \in [I -> PairsOf(batch)]
    BY <2>1
  <2> HIDE DEF f
  <2>4. QED
    BY <2>2, <2>3 DEF Surjection
<1>8. IsFiniteSet(PairsOf(batch)) /\ Cardinality(PairsOf(batch)) <= Cardinality(I)
  BY <1>5, <1>7, FS_Surjection
<1>9. Cardinality(PairsOf(batch)) \in Nat
  BY <1>8, FS_CardinalityType
<1>10. Cardinality(PairsOf(batch)) <= Len(batch)
  BY <1>2, <1>5, <1>8, <1>9
<1>11. QED
  BY <1>1, <1>8, <1>9, <1>10

-----------------------------------------------------------------------------
(* A group goes in.                                                         *)

\* Who may have asked for a message, under the keys and for the log named.
StandsUnder(content, pins, session) ==
    \/ content \in {Generated} \cup OperatorsOwn
    \/ \E s \in Submissions :
          /\ MessageFrom(s) = content
          /\ s.session = session
          /\ IsPinned(pins, s) /\ KeyFits(pins, s)

\* No item fulfils an entry that another one or an earlier group fulfils.
FulfilsOnce(batch) ==
    /\ \A i, j \in DOMAIN batch : \A p \in batch[i].pairing, q \in batch[j].pairing :
          p.epoch = q.epoch /\ p.entry = q.entry => i = j
    /\ \A i \in DOMAIN batch : \A p \in batch[i].pairing, q \in feed.pairings :
          ~(p.epoch = q.epoch /\ p.entry = q.entry)

PinsGrow(pins) == PinsOK(pins) /\ feed.pins \subseteq pins

GroupFits(batch, pins) ==
    /\ batch \in Seq(BatchItem) /\ batch # <<>>
    /\ PinsGrow(pins)
    /\ HistoryOK(WithBatch(batch)) /\ OpeningOK(WithBatch(batch))
    /\ RoomFor(Len(batch), Cardinality(SpentBy(Numbered(batch))), Cardinality(PairsOf(batch)))
    /\ \A i \in DOMAIN batch : StandsUnder(batch[i].content, pins, feed.session)
    /\ FulfilsOnce(batch)

\* The pairings a group adds name entries nobody named before.
LEMMA NewPairings ==
    ASSUME FeedSideOK, feed.up, NEW batch, NEW pins, GroupFits(batch, pins)
    PROVE  \A p \in PairsOf(batch), q \in feed.pairings \cup PairsOf(batch) :
              p.epoch = q.epoch /\ p.entry = q.entry => p.id = q.id
<1> SUFFICES ASSUME NEW p \in PairsOf(batch), NEW q \in feed.pairings \cup PairsOf(batch),
                    p.epoch = q.epoch, p.entry = q.entry
             PROVE  p.id = q.id
  OBVIOUS
<1>0. batch \in Seq(BatchItem) /\ FulfilsOnce(batch)
  BY DEF GroupFits
<1>1. PICK i \in DOMAIN batch : \E r \in batch[i].pairing :
        p = [epoch |-> r.epoch, entry |-> r.entry, id |-> feed.nextId + i - 1]
  BY <1>0, PairsOfBatch DEF PairRow
<1>2. PICK r \in batch[i].pairing :
        p = [epoch |-> r.epoch, entry |-> r.entry, id |-> feed.nextId + i - 1]
  BY <1>1
<1>3. CASE q \in feed.pairings
  BY <1>0, <1>2, <1>3 DEF FulfilsOnce
<1>4. CASE q \in PairsOf(batch)
  <2>1. PICK j \in DOMAIN batch : \E t \in batch[j].pairing :
          q = [epoch |-> t.epoch, entry |-> t.entry, id |-> feed.nextId + j - 1]
    BY <1>0, <1>4, PairsOfBatch DEF PairRow
  <2>2. PICK t \in batch[j].pairing :
          q = [epoch |-> t.epoch, entry |-> t.entry, id |-> feed.nextId + j - 1]
    BY <2>1
  <2>3. i = j
    BY <1>0, <1>2, <2>2 DEF FulfilsOnce
  <2>4. QED
    BY <1>2, <2>2, <2>3
<1>5. QED
  BY <1>3, <1>4

\* The guard before the transaction finds nothing wrong with such a group: its
\* ids are never left unused.
LEMMA GroupStands ==
    ASSUME FeedSideOK, feed.up, NEW batch, NEW pins, GroupFits(batch, pins)
    PROVE  BatchStands(batch)
<1> DEFINE h == WithBatch(batch)
<1>0. batch \in Seq(BatchItem) /\ HistoryOK(h) /\ FileOK /\ LiveOK
      /\ RoomFor(Len(batch), Cardinality(SpentBy(Numbered(batch))), Cardinality(PairsOf(batch)))
  BY DEF GroupFits, FeedSideOK
<1>1. feed.nonces \cup SpentBy(Numbered(batch)) = SpentBy(h)
  BY <1>0, RowsWithBatch DEF RowsAre
<1>2. OneNonceOneMessage(h)
  BY <1>0 DEF HistoryOK
<1> HIDE DEF h
<1>3. \A m \in SpentBy(Numbered(batch)), n \in feed.nonces \cup SpentBy(Numbered(batch)) :
          m.account = n.account /\ m.nonce = n.nonce => m.id = n.id
  BY <1>1, <1>2 DEF OneNonceOneMessage
<1>4. \A p \in PairsOf(batch), q \in feed.pairings \cup PairsOf(batch) :
              p.epoch = q.epoch /\ p.entry = q.entry => p.id = q.id
  BY NewPairings
<1>5. QED
  BY <1>0, <1>3, <1>4 DEF BatchStands

\* Every history anybody may have read goes on as it was.
Grows ==
    /\ DOMAIN histories \subseteq DOMAIN histories'
    /\ \A k \in DOMAIN histories : \A i \in DOMAIN histories[k] :
          i \in DOMAIN histories'[k] /\ histories'[k][i] = histories[k][i]

\* What publishing a group comes to.
Published(batch, pins) ==
    /\ histories' = [histories EXCEPT ![Len(histories)] = WithBatch(batch)]
    /\ histories' \in Seq(Seq(Message)) /\ Len(histories') = Len(histories)
    /\ file'.messages = WithBatch(batch)
    /\ file'.pairings = file.pairings \cup PairsOf(batch)
    /\ file'.pins = pins
    /\ file'.head = [session |-> Len(histories), lastId |-> Len(WithBatch(batch))]
    /\ file' = [messages |-> file'.messages, pairings |-> file'.pairings, pins |-> file'.pins,
                head |-> file'.head]
    /\ file'.head # NoHead
    /\ feed'.up /\ LiveOK'

LEMMA GroupGoesIn ==
    ASSUME FeedSideOK, feed.up, NEW batch, NEW pins, GroupFits(batch, pins), Publish(batch, pins)
    PROVE  Published(batch, pins)
<1> DEFINE h == WithBatch(batch)
           n == Len(file.messages)
           k == Len(histories)
<1>0. /\ batch \in Seq(BatchItem) /\ FileOK /\ LiveOK /\ HistoriesOK
      /\ histories \in Seq(Seq(Message))
  BY DEF GroupFits, FeedSideOK, HistoriesOK
<1>1. RowsAre(n, batch, h)
  BY <1>0, RowsWithBatch
<1>2. /\ feed.session = k /\ histories # <<>> /\ file.messages = histories[k]
      /\ feed.nextId = n + 1 /\ feed.nonces = SpentBy(file.messages)
      /\ feed.pairings = file.pairings /\ feed.pins = file.pins
      /\ feed = [up |-> TRUE, session |-> k, nextId |-> n + 1, nonces |-> SpentBy(file.messages),
                 pairings |-> file.pairings, pins |-> file.pins]
  BY <1>0, LiveFields DEF LiveOK, Restored
<1>3. h \in Seq(Message) /\ Len(h) = n + Len(batch) /\ n \in Nat /\ Len(batch) \in Nat
  BY <1>0, <1>1 DEF RowsAre
<1>4. k \in DOMAIN histories /\ k \in Nat \ {0} /\ DOMAIN histories = 1..k
  BY <1>0, <1>2
<1>5. histories' = [histories EXCEPT ![k] = h]
  <2>1. histories' = [histories EXCEPT ![k] = histories[k] \o Numbered(batch)]
    BY <1>2 DEF Publish
  <2>2. histories[k] \o Numbered(batch) = h
    BY <1>2 DEF WithBatch
  <2>3. QED
    BY <2>1, <2>2
<1>6. file' = [messages |-> h, pairings |-> file.pairings \cup PairsOf(batch), pins |-> pins,
               head |-> [session |-> k, lastId |-> n + Len(batch)]]
  <2>1. feed.nextId + Len(batch) - 1 = n + Len(batch)
    BY <1>2, <1>3
  <2>2. file' = Written(batch, pins)
    BY DEF Publish
  <2>3. QED
    BY <1>2, <2>1, <2>2 DEF Written, WithBatch
<1>7. feed' = [up |-> TRUE, session |-> k, nextId |-> Len(h) + 1, nonces |-> SpentBy(h),
               pairings |-> file.pairings \cup PairsOf(batch), pins |-> pins]
  <2>1. feed' = [feed EXCEPT !.nextId = feed.nextId + Len(batch), !.pins = pins,
                             !.nonces = feed.nonces \cup SpentBy(Numbered(batch)),
                             !.pairings = feed.pairings \cup PairsOf(batch)]
    BY DEF Publish, Remembering
  <2>2. feed.nextId + Len(batch) = Len(h) + 1
    BY <1>2, <1>3
  <2>3. feed.nonces \cup SpentBy(Numbered(batch)) = SpentBy(h)
    BY <1>1 DEF RowsAre
  <2> HIDE DEF h, n, k
  <2>4. PICK y, z : y = feed.nextId + Len(batch) /\ z = feed.nonces \cup SpentBy(Numbered(batch))
    OBVIOUS
  <2>5. feed' = [feed EXCEPT !.nextId = y, !.pins = pins, !.nonces = z,
                             !.pairings = file.pairings \cup PairsOf(batch)]
    BY <1>2, <2>1, <2>4
  <2>6. feed' = [up |-> TRUE, session |-> k, nextId |-> y, nonces |-> z,
                 pairings |-> file.pairings \cup PairsOf(batch), pins |-> pins]
    BY <1>2, <2>5
  <2>7. QED
    BY <2>2, <2>3, <2>4, <2>6
<1> HIDE DEF h, n, k
<1>8. /\ histories' \in Seq(Seq(Message)) /\ Len(histories') = k
      /\ histories'[k] = h /\ histories' # <<>>
  BY <1>0, <1>3, <1>4, <1>5
<1>9. LiveOK'
  <2>1. /\ file'.messages = h /\ file'.pins = pins
        /\ file'.pairings = file.pairings \cup PairsOf(batch)
    BY <1>6
  <2>2. Len(histories') = k /\ file'.messages = histories'[Len(histories')]
    BY <1>8, <2>1
  <2>3. feed' = [up |-> TRUE, session |-> Len(histories'), nextId |-> Len(file'.messages) + 1,
                 nonces |-> SpentBy(h), pairings |-> file'.pairings, pins |-> file'.pins]
    BY <1>7, <2>1, <2>2
  <2>4. SpentBy(h) = SpentBy(file'.messages)
    BY <2>1
  <2>5. SpentBy(file.messages)' = SpentBy(file'.messages)
    BY DEF SpentBy
  <2>6. feed' = Restored(Len(histories))'
    BY <2>3, <2>4, <2>5 DEF Restored
  <2>7. QED
    BY <1>8, <2>2, <2>6 DEF LiveOK, Restored
<1>10. file'.head = [session |-> k, lastId |-> Len(h)] /\ file'.head # NoHead
  BY <1>3, <1>4, <1>6 DEF NoHead
<1>11. QED
  BY <1>5, <1>6, <1>7, <1>8, <1>9, <1>10 DEF Published, h, k

LEMMA PublishedGrows ==
    ASSUME FeedSideOK, feed.up, NEW batch, NEW pins, GroupFits(batch, pins), Published(batch, pins)
    PROVE  Grows /\ HistoriesOK'
<1> DEFINE h == WithBatch(batch)
           n == Len(file.messages)
           k == Len(histories)
<1>0. /\ batch \in Seq(BatchItem) /\ FileOK /\ LiveOK
      /\ histories \in Seq(Seq(Message)) /\ HistoryOK(h) /\ OpeningOK(h)
      /\ \A j \in DOMAIN histories : HistoryOK(histories[j]) /\ OpeningOK(histories[j])
  BY DEF GroupFits, FeedSideOK, HistoriesOK
<1>1. RowsAre(n, batch, h)
  BY <1>0, RowsWithBatch
<1>2. histories # <<>> /\ file.messages = histories[k]
  BY <1>0, LiveFields
<1>3. k \in DOMAIN histories /\ DOMAIN histories = 1..k
  BY <1>0, <1>2
<1>4. /\ histories' = [histories EXCEPT ![k] = h]
      /\ histories' \in Seq(Seq(Message)) /\ Len(histories') = k
  BY DEF Published
<1> HIDE DEF h, k, n
<1>5. /\ DOMAIN histories' = DOMAIN histories /\ histories'[k] = h
      /\ \A j \in DOMAIN histories : j # k => histories'[j] = histories[j]
  BY <1>3, <1>4
<1>6. HistoriesOK'
  <2>1. ASSUME NEW j \in DOMAIN histories' PROVE HistoryOK(histories'[j]) /\ OpeningOK(histories'[j])
    BY <1>0, <1>5
  <2>2. QED
    BY <1>4, <2>1 DEF HistoriesOK, HistoryOK, OpeningOK, OneNonceOneMessage, SpentBy, OperatorsOwn
<1>7. ASSUME NEW j \in DOMAIN histories, NEW i \in DOMAIN histories[j]
      PROVE  i \in DOMAIN histories'[j] /\ histories'[j][i] = histories[j][i]
  <2>1. CASE j # k
    BY <1>5, <2>1
  <2>2. CASE j = k
    <3>1. i \in DOMAIN file.messages /\ file.messages \in Seq(Message)
      BY <1>0, <1>2, <2>2 DEF FileOK, HistoryOK
    <3>2. i \in 1..n
      BY <3>1 DEF n
    <3>3. Len(batch) \in Nat /\ n \in Nat
      BY <1>0, <1>1 DEF RowsAre
    <3>4. i \in DOMAIN h /\ h[i] = file.messages[i]
      BY <1>1, <3>2, <3>3 DEF RowsAre
    <3>5. QED
      BY <1>2, <1>5, <2>2, <3>4
  <2>3. QED
    BY <2>1, <2>2
<1>8. Grows
  BY <1>5, <1>7 DEF Grows
<1>9. QED
  BY <1>6, <1>8

\* What the file holds after a group is a file to start from.
LEMMA PublishedFile ==
    ASSUME FeedSideOK, feed.up, NEW batch, NEW pins, GroupFits(batch, pins), Published(batch, pins)
    PROVE  FileOK'
<1> DEFINE h == WithBatch(batch)
           n == Len(file.messages)
           k == Len(histories)
           pairings == file.pairings \cup PairsOf(batch)
<1>0. /\ batch \in Seq(BatchItem) /\ FileOK /\ LiveOK /\ HistoryOK(h) /\ PinsOK(pins)
      /\ RoomFor(Len(batch), Cardinality(SpentBy(Numbered(batch))), Cardinality(PairsOf(batch)))
      /\ histories \in Seq(Seq(Message))
  BY DEF GroupFits, FeedSideOK, PinsGrow, HistoriesOK
<1>1. RowsAre(n, batch, h)
  BY <1>0, RowsWithBatch
<1>2. /\ feed.nonces = SpentBy(file.messages) /\ feed.pairings = file.pairings
      /\ feed.nextId = n + 1 /\ histories # <<>>
  BY <1>0, LiveFields
<1>3. /\ file.messages \in Seq(Message) /\ file.pairings \subseteq Pairing
      /\ IsFiniteSet(file.pairings) /\ Cardinality(file.pairings) <= MaxPairings
      /\ \A p \in file.pairings : p.id \in DOMAIN file.messages
      /\ \A p, q \in file.pairings : p.epoch = q.epoch /\ p.entry = q.entry => p.id = q.id
  BY <1>0 DEF FileOK, HistoryOK, PairingsOK
<1>4. /\ IsFiniteSet(PairsOf(batch)) /\ Cardinality(PairsOf(batch)) \in Nat
      /\ \A p : p \in PairsOf(batch) <=> PairRow(batch, p)
  BY <1>0, PairsOfBatch
<1>5. pairings \subseteq Pairing /\ \A p \in PairsOf(batch) : p.id \in DOMAIN h
  <2>1. ASSUME NEW p \in PairsOf(batch) PROVE p \in Pairing /\ p.id \in DOMAIN h
    <3>1. PICK i \in DOMAIN batch : \E r \in batch[i].pairing :
            p = [epoch |-> r.epoch, entry |-> r.entry, id |-> feed.nextId + i - 1]
      BY <1>4 DEF PairRow
    <3>2. PICK r \in batch[i].pairing :
            p = [epoch |-> r.epoch, entry |-> r.entry, id |-> feed.nextId + i - 1]
      BY <3>1
    <3>3. i \in 1..Len(batch) /\ Len(batch) \in Nat /\ batch[i] \in BatchItem
      BY <1>0
    <3>4. batch[i].pairing \in {{}} \cup {{q} : q \in [epoch : Nat \ {0}, entry : EntryIds]}
      BY <3>3 DEF BatchItem
    <3>5. r \in [epoch : Nat \ {0}, entry : EntryIds]
      BY <3>4
    <3>6. n \in Nat /\ DOMAIN h = 1..(n + Len(batch))
      BY <1>1 DEF RowsAre
    <3> HIDE DEF n, h
    <3>7. feed.nextId + i - 1 = n + i /\ n + i \in 1..(n + Len(batch)) /\ n + i \in Nat \ {0}
      <4>1. PICK l, x : l = Len(batch) /\ x = feed.nextId
        OBVIOUS
      <4>2. l \in Nat /\ i \in 1..l /\ x = n + 1 /\ n \in Nat
        BY <1>2, <3>3, <3>6, <4>1
      <4>3. x + i - 1 = n + i /\ n + i \in 1..(n + l) /\ n + i \in Nat \ {0}
        BY <4>2
      <4>4. QED
        BY <4>1, <4>3
    <3>8. p = [epoch |-> r.epoch, entry |-> r.entry, id |-> n + i]
      BY <3>2, <3>7
    <3>9. QED
      BY <3>5, <3>6, <3>7, <3>8 DEF Pairing
  <2>2. QED
    BY <1>3, <2>1
<1>6. \A p \in file.pairings : p.id \in DOMAIN h
  <2>1. \A i \in DOMAIN file.messages : i \in DOMAIN h
    <3>1. DOMAIN h = 1..(n + Len(batch)) /\ n \in Nat /\ Len(batch) \in Nat
      BY <1>0, <1>1 DEF RowsAre
    <3>2. DOMAIN file.messages = 1..n
      BY <1>3
    <3> HIDE DEF n, h
    <3>3. QED
      BY <3>1, <3>2
  <2>2. QED
    BY <1>3, <2>1
<1>7. \A p, q \in pairings : p.epoch = q.epoch /\ p.entry = q.entry => p.id = q.id
  <2>1. \A p \in PairsOf(batch), q \in file.pairings \cup PairsOf(batch) :
              p.epoch = q.epoch /\ p.entry = q.entry => p.id = q.id
    BY <1>2, NewPairings
  <2>2. QED
    BY <1>3, <2>1
<1>8. IsFiniteSet(pairings) /\ Cardinality(pairings) <= MaxPairings
  <2>1. /\ IsFiniteSet(pairings) /\ IsFiniteSet(file.pairings \cap PairsOf(batch))
        /\ Cardinality(pairings) = Cardinality(file.pairings) + Cardinality(PairsOf(batch))
                                     - Cardinality(file.pairings \cap PairsOf(batch))
    BY <1>3, <1>4, FS_Union, FS_Intersection
  <2>2. Cardinality(file.pairings) + Cardinality(PairsOf(batch)) <= MaxPairings
    BY <1>0, <1>2 DEF RoomFor
  <2>3. /\ Cardinality(file.pairings) \in Nat
        /\ Cardinality(file.pairings \cap PairsOf(batch)) \in Nat
    BY <1>3, <2>1, FS_CardinalityType
  <2>4. MaxPairings \in Nat
    BY RetentionLimits
  <2>5. QED
    BY <1>4, <2>1, <2>2, <2>3, <2>4
<1>9. Cardinality(SpentBy(h)) <= MaxNonces
  <2> DEFINE old == SpentBy(file.messages)
             new == SpentBy(Numbered(batch))
  <2>1. SpentBy(h) = old \cup new /\ Numbered(batch) \in Seq(Message)
    BY <1>1, <1>2 DEF RowsAre
  <2>2. IsFiniteSet(old) /\ IsFiniteSet(new) /\ Cardinality(old) \in Nat /\ Cardinality(new) \in Nat
    BY <1>3, <2>1, SpentIsFinite
  <2>3. Cardinality(old) + Cardinality(new) <= MaxNonces
    BY <1>0, <1>2 DEF RoomFor
  <2>4. MaxNonces \in Nat
    BY RetentionLimits
  <2> HIDE DEF old, new
  <2>5. /\ IsFiniteSet(old \cup new) /\ IsFiniteSet(old \cap new)
        /\ Cardinality(old \cup new) = Cardinality(old) + Cardinality(new) - Cardinality(old \cap new)
    BY <2>2, FS_Union, FS_Intersection
  <2>6. Cardinality(old \cap new) \in Nat
    BY <2>5, FS_CardinalityType
  <2>7. Cardinality(old \cup new) <= MaxNonces
    BY <2>2, <2>3, <2>4, <2>5, <2>6
  <2>8. QED
    BY <2>1, <2>7
<1>10. PairingsOK(pairings, h)
  <2>1. \A p \in pairings : p.id \in DOMAIN h
    BY <1>5, <1>6
  <2> HIDE DEF h, pairings
  <2>2. QED
    BY <1>5, <1>7, <1>8, <2>1 DEF PairingsOK
<1>11. h \in Seq(Message) /\ Len(h) \in Nat /\ k \in Nat
  BY <1>0 DEF HistoryOK
<1>12. /\ histories' = [histories EXCEPT ![k] = h] /\ Len(histories') = k
       /\ file'.messages = h /\ file'.pairings = pairings /\ file'.pins = pins
       /\ file'.head = [session |-> k, lastId |-> Len(h)] /\ file'.head # NoHead
       /\ file' = [messages |-> file'.messages, pairings |-> file'.pairings, pins |-> file'.pins,
                   head |-> file'.head]
       /\ LiveOK' /\ feed'.up
  BY DEF Published
<1> HIDE DEF h, n, k, pairings
<1>13. histories' # <<>> /\ file'.messages = histories'[Len(histories')]
  BY <1>12 DEF LiveOK
<1>14. pins \in SUBSET AccountKeys
  BY <1>0 DEF PinsOK
<1>15. file'.head \in SignedHead
  BY <1>11, <1>12 DEF SignedHead
<1>16. file' = [messages |-> h, pairings |-> pairings, pins |-> pins, head |-> file'.head]
  BY <1>12
<1>17. file' \in [messages : Seq(Message), pairings : SUBSET Pairing,
                  pins : SUBSET AccountKeys, head : SignedHead]
  <2>1. pairings \in SUBSET Pairing
    BY <1>5
  <2>2. QED
    BY <1>11, <1>14, <1>15, <1>16, <2>1
<1>18. HistoryOK(file'.messages) /\ Cardinality(SpentBy(file'.messages)) <= MaxNonces
  BY <1>0, <1>9, <1>12
<1>19. PinsOK(file'.pins) /\ PairingsOK(file'.pairings, file'.messages)
  BY <1>0, <1>10, <1>12
<1>20. file'.head = [session |-> Len(histories'), lastId |-> Len(file'.messages)]
  BY <1>12
<1>21. QED
  BY <1>12, <1>13, <1>17, <1>18, <1>19, <1>20
     DEF FileOK, HistoryOK, OneNonceOneMessage, SpentBy, PinsOK, PairingsOK

\* Pinning more accounts moves no key.
LEMMA StandsOnward ==
    ASSUME NEW old, NEW pins, PinsOK(pins), old \subseteq pins,
           NEW content, NEW session, StandsUnder(content, old, session)
    PROVE  StandsUnder(content, pins, session)
<1>1. CASE content \in {Generated} \cup OperatorsOwn
  BY <1>1 DEF StandsUnder
<1>2. CASE \E s \in Submissions :
             /\ MessageFrom(s) = content
             /\ s.session = session
             /\ IsPinned(old, s) /\ KeyFits(old, s)
  <2>1. PICK s \in Submissions :
             /\ MessageFrom(s) = content
             /\ s.session = session
             /\ IsPinned(old, s) /\ KeyFits(old, s)
    BY <1>2
  <2>2. PICK q \in old : q.account = s.account
    BY <2>1 DEF IsPinned
  <2>3. q \in pins /\ q.key = s.key
    BY <2>1, <2>2 DEF KeyFits
  <2>4. IsPinned(pins, s)
    BY <2>2, <2>3 DEF IsPinned
  <2>5. ASSUME NEW p \in pins, p.account = s.account PROVE p.key = s.key
    <3>1. p = q
      BY <2>2, <2>3, <2>5 DEF PinsOK
    <3>2. QED
      BY <2>3, <3>1
  <2>6. KeyFits(pins, s)
    BY <2>5 DEF KeyFits
  <2>7. QED
    BY <2>1, <2>4, <2>6 DEF StandsUnder
<1>3. QED
  BY <1>1, <1>2 DEF StandsUnder

LEMMA KeysByRow ==
    PublishedUnderItsKey <=>
        \A i \in DOMAIN file.messages :
            StandsUnder(file.messages[i].content, file.pins, file.head.session)
BY DEF PublishedUnderItsKey, StandsUnder, OperatorsOwn

LEMMA PublishedKeys ==
    ASSUME FeedSideOK, feed.up, NEW batch, NEW pins, GroupFits(batch, pins), Published(batch, pins)
    PROVE  PublishedUnderItsKey'
<1> DEFINE h == WithBatch(batch)
           n == Len(file.messages)
           k == Len(histories)
<1>0. /\ batch \in Seq(BatchItem) /\ FileOK /\ LiveOK /\ PinsOK(pins) /\ feed.pins \subseteq pins
      /\ \A i \in DOMAIN batch : StandsUnder(batch[i].content, pins, feed.session)
      /\ PublishedUnderItsKey
  BY DEF GroupFits, FeedSideOK, PinsGrow
<1>1. RowsAre(n, batch, h)
  BY <1>0, RowsWithBatch
<1>2. feed.session = k /\ feed.pins = file.pins
  BY <1>0, LiveFields
<1>3. file'.messages = h /\ file'.pins = pins /\ file'.head.session = k
  BY DEF Published
<1>4. /\ n \in Nat /\ Len(batch) \in Nat /\ DOMAIN h = 1..(n + Len(batch))
      /\ \A i \in 1..n : h[i] = file.messages[i]
      /\ \A i \in 1..Len(batch) : h[n + i] = [id |-> n + i, content |-> batch[i].content]
      /\ DOMAIN file.messages = 1..n /\ DOMAIN batch = 1..Len(batch)
  BY <1>0, <1>1 DEF RowsAre, FileOK, HistoryOK
<1>5. file.messages # <<>> => file.head.session = k
  BY <1>0 DEF FileOK
<1> HIDE DEF h, n, k
<1>6. ASSUME NEW i \in DOMAIN h PROVE StandsUnder(h[i].content, pins, k)
  <2>1. CASE i <= n
    <3>1. i \in 1..n
      BY <1>4, <2>1
    <3>2. h[i] = file.messages[i] /\ i \in DOMAIN file.messages
      BY <1>4, <3>1
    <3>3. file.head.session = k
      BY <1>5, <3>2
    <3>4. StandsUnder(file.messages[i].content, file.pins, k)
      BY <1>0, <3>2, <3>3, KeysByRow
    <3>5. QED
      BY <1>0, <1>2, <3>2, <3>4, StandsOnward
  <2>2. CASE ~(i <= n)
    <3>1. PICK j \in 1..Len(batch) : n + j = i
      <4>1. i - n \in 1..Len(batch) /\ n + (i - n) = i
        BY <1>4, <2>2
      <4>2. QED
        BY <4>1
    <3>2. h[i].content = batch[j].content
      <4>1. h[n + j] = [id |-> n + j, content |-> batch[j].content]
        BY <1>4
      <4>2. QED
        BY <3>1, <4>1
    <3>4. StandsUnder(batch[j].content, pins, k)
      BY <1>0, <1>2, <1>4
    <3>5. QED
      BY <3>2, <3>4
  <2>3. QED
    BY <2>1, <2>2
<1>7. \A i \in DOMAIN file'.messages :
        StandsUnder(file'.messages[i].content, file'.pins, file'.head.session)
  BY <1>3, <1>6
<1>8. QED
  BY <1>7 DEF PublishedUnderItsKey, StandsUnder, OperatorsOwn

LEMMA GroupKeepsFeed ==
    ASSUME FeedSideOK, feed.up, NEW batch, NEW pins, GroupFits(batch, pins), Publish(batch, pins)
    PROVE  FeedSideOK' /\ Grows /\ Published(batch, pins)
<1>1. Published(batch, pins)
  BY GroupGoesIn
<1>2. HistoriesOK' /\ Grows /\ FileOK' /\ PublishedUnderItsKey'
  BY <1>1, PublishedGrows, PublishedFile, PublishedKeys
<1>3. LiveOK'
  BY <1>1 DEF Published
<1>4. QED
  BY <1>1, <1>2, <1>3 DEF FeedSideOK

\* Only keys are written down.
Silent(pins) ==
    /\ UNCHANGED histories
    /\ file'.messages = file.messages /\ file'.pairings = file.pairings
    /\ file'.head = file.head /\ file'.pins = pins
    /\ feed'.up

LEMMA NothingGoesIn ==
    ASSUME FeedSideOK, feed.up, NEW batch, NEW pins, PinsGrow(pins), PublishNothing(batch, pins)
    PROVE  FeedSideOK' /\ Grows /\ Silent(pins)
<1>1. FileOK /\ LiveOK /\ HistoriesOK /\ PublishedUnderItsKey
  BY DEF FeedSideOK
<1>2. /\ histories' = histories
      /\ file' = [file EXCEPT !.pins = pins] /\ feed' = [feed EXCEPT !.pins = pins]
  BY DEF PublishNothing
<1>3. /\ file \in [messages : Seq(Message), pairings : SUBSET Pairing,
                   pins : SUBSET AccountKeys, head : SignedHead]
      /\ pins \in SUBSET AccountKeys
  BY <1>1 DEF FileOK, PinsGrow, PinsOK
<1>4. /\ file' \in [messages : Seq(Message), pairings : SUBSET Pairing,
                    pins : SUBSET AccountKeys, head : SignedHead]
      /\ file'.messages = file.messages /\ file'.pairings = file.pairings
      /\ file'.head = file.head /\ file'.pins = pins
  BY <1>2, <1>3
<1>5. PinsOK(file'.pins)
  BY <1>4 DEF PinsGrow
<1>6. FileOK'
  BY <1>1, <1>2, <1>4, <1>5
     DEF FileOK, HistoryOK, OneNonceOneMessage, SpentBy, PinsOK, PairingsOK
<1>7. HistoriesOK'
  BY <1>1, <1>2, HistoriesStay
<1>8. feed'.up /\ LiveOK'
  <2>1. /\ histories # <<>> /\ file.messages = histories[Len(histories)]
        /\ feed = Restored(Len(histories))
    BY <1>1 DEF LiveOK
  <2>2. feed' = [up |-> TRUE, session |-> Len(histories), nextId |-> Len(file.messages) + 1,
                 nonces |-> SpentBy(file.messages), pairings |-> file.pairings, pins |-> pins]
    BY <1>2, <2>1 DEF Restored
  <2>3. SpentBy(file.messages)' = SpentBy(file.messages)
    BY <1>4 DEF SpentBy
  <2>4. feed' = Restored(Len(histories))'
    BY <1>2, <1>4, <2>2, <2>3 DEF Restored
  <2>5. feed'.up
    BY <2>2
  <2>6. QED
    BY <1>2, <1>4, <2>1, <2>4, <2>5 DEF LiveOK, Restored
<1>9. PublishedUnderItsKey'
  <2>1. feed.pins = file.pins
    BY <1>1, LiveFields
  <2>2. PinsOK(pins) /\ file.pins \subseteq pins
    BY <2>1 DEF PinsGrow
  <2>3. \A i \in DOMAIN file.messages : StandsUnder(file.messages[i].content, pins, file.head.session)
    BY <1>1, <2>2, KeysByRow, StandsOnward
  <2>4. QED
    BY <1>4, <2>3 DEF PublishedUnderItsKey, StandsUnder, OperatorsOwn
<1>10. Grows
  BY <1>2 DEF Grows
<1>11. QED
  BY <1>2, <1>4, <1>6, <1>7, <1>8, <1>9, <1>10 DEF FeedSideOK, Silent

\* A group that fits goes in whole or not at all, and no id is left unused.
LEMMA SequenceKeepsFeed ==
    ASSUME FeedSideOK, feed.up, NEW batch, NEW pins, NEW writes,
           GroupFits(batch, pins), Sequence(batch, pins, writes)
    PROVE  /\ FeedSideOK' /\ Grows /\ BatchStands(batch)
           /\ (writes /\ Published(batch, pins)) \/ (~writes /\ Silent(pins))
<1>1. BatchStands(batch)
  BY GroupStands
<1>2. CASE writes
  <2>1. Publish(batch, pins)
    BY <1>1, <1>2 DEF Sequence
  <2>2. QED
    BY <1>1, <1>2, <2>1, GroupKeepsFeed
<1>3. CASE ~writes
  <2>1. PublishNothing(batch, pins)
    BY <1>1, <1>3 DEF Sequence
  <2>2. PinsGrow(pins)
    BY DEF GroupFits
  <2>3. QED
    BY <1>1, <1>3, <2>1, <2>2, NothingGoesIn
<1>4. QED
  BY <1>2, <1>3

-----------------------------------------------------------------------------
(* What may go in.                                                          *)

LEMMA LastIsLength ==
    ASSUME FileOK
    PROVE  LastId = Len(file.messages) /\ LastId \in Nat
<1>1. file.messages \in Seq(Message) /\ \A i \in DOMAIN file.messages : file.messages[i].id = i
  BY DEF FileOK, HistoryOK
<1>2. CASE file.messages = <<>>
  BY <1>2 DEF LastId
<1>3. CASE file.messages # <<>>
  <2>1. Len(file.messages) \in DOMAIN file.messages /\ Len(file.messages) \in Nat
    BY <1>1, <1>3
  <2>2. QED
    BY <1>1, <1>3, <2>1 DEF LastId
<1>4. QED
  BY <1>2, <1>3

\* The log as it is opens with the operator's messages.
LEMMA OpeningSoFar ==
    ASSUME FeedSideOK, feed.up
    PROVE  OpeningOK(file.messages) /\ HistoryOK(file.messages)
<1>1. FileOK /\ LiveOK /\ HistoriesOK /\ histories \in Seq(Seq(Message))
  BY DEF FeedSideOK, HistoriesOK
<1>2. histories # <<>> /\ file.messages = histories[Len(histories)]
  BY <1>1, LiveFields
<1>3. Len(histories) \in DOMAIN histories
  BY <1>1, <1>2
<1>4. QED
  BY <1>1, <1>2, <1>3 DEF HistoriesOK

\* An open log has its opening behind it.
LEMMA OpeningStays ==
    ASSUME FeedSideOK, feed.up, LogIsOpen, NEW batch \in Seq(BatchItem)
    PROVE  OpeningOK(WithBatch(batch))
<1> DEFINE h == WithBatch(batch)
           n == Len(file.messages)
<1>1. FileOK /\ LiveOK
  BY DEF FeedSideOK
<1>2. RowsAre(n, batch, h)
  BY <1>1, RowsWithBatch
<1>3. OpeningOK(file.messages)
  BY OpeningSoFar
<1>4. n \in Nat /\ n >= Opening /\ Opening \in Nat /\ \A i \in 1..n : h[i] = file.messages[i]
  BY <1>1, <1>2, LastIsLength, OpeningIsACount DEF LogIsOpen, RowsAre
<1>5. DOMAIN file.messages = 1..n
  BY <1>1 DEF FileOK, HistoryOK
<1> HIDE DEF h, n
<1>6. ASSUME NEW i \in 1..Opening, i \in DOMAIN h PROVE h[i].content \in OperatorsOwn
  <2>1. i \in 1..n
    BY <1>4
  <2>2. QED
    BY <1>3, <1>4, <1>5, <2>1 DEF OpeningOK
<1>7. QED
  BY <1>6 DEF OpeningOK, h

\* Content whose nonce nothing in the history is spent on.
Unspent(h, content) ==
    content # Generated =>
        \A i \in DOMAIN h :
            ~(/\ h[i].content # Generated
              /\ h[i].content.account = content.account
              /\ h[i].content.nonce = content.nonce)

LEMMA HistoryAppends ==
    ASSUME NEW h, HistoryOK(h), NEW content \in Contents, Unspent(h, content)
    PROVE  HistoryOK(Append(h, [id |-> Len(h) + 1, content |-> content]))
<1> DEFINE m == [id |-> Len(h) + 1, content |-> content]
           g == Append(h, m)
<1>1. h \in Seq(Message) /\ (\A i \in DOMAIN h : h[i].id = i) /\ SpendsOnce(h)
  BY NonceStandsOnce DEF HistoryOK
<1>2. m \in Message /\ Len(h) \in Nat /\ DOMAIN h = 1..Len(h)
  BY <1>1 DEF Message
<1>3. m.id = Len(h) + 1 /\ m.content = content
  OBVIOUS
<1> HIDE DEF m
<1>4. /\ g \in Seq(Message) /\ Len(g) = Len(h) + 1 /\ DOMAIN g = 1..(Len(h) + 1)
      /\ g[Len(h) + 1] = m /\ \A i \in 1..Len(h) : g[i] = h[i]
  BY <1>1, <1>2
<1> HIDE DEF g
<1>5. \A i \in DOMAIN g : g[i].id = i
  <2>1. ASSUME NEW i \in DOMAIN g PROVE g[i].id = i
    <3>1. CASE i = Len(h) + 1
      BY <1>3, <1>4, <3>1
    <3>2. CASE i # Len(h) + 1
      BY <1>1, <1>2, <1>4, <3>2
    <3>3. QED
      BY <3>1, <3>2
  <2>2. QED
    BY <2>1
<1>6. SpendsOnce(g)
  <2> SUFFICES ASSUME NEW i \in DOMAIN g, NEW j \in DOMAIN g,
                      g[i].content # Generated, g[j].content # Generated,
                      g[i].content.account = g[j].content.account,
                      g[i].content.nonce = g[j].content.nonce
               PROVE  i = j
    BY DEF SpendsOnce
  <2>1. CASE i # Len(h) + 1 /\ j # Len(h) + 1
    <3>1. i \in DOMAIN h /\ j \in DOMAIN h /\ g[i] = h[i] /\ g[j] = h[j]
      BY <1>2, <1>4, <2>1
    <3>2. QED
      BY <1>1, <3>1 DEF SpendsOnce
  <2>2. CASE i = Len(h) + 1 /\ j # Len(h) + 1
    <3>1. j \in DOMAIN h /\ g[j] = h[j] /\ g[i].content = content
      BY <1>2, <1>3, <1>4, <2>2
    <3>2. QED
      BY <3>1 DEF Unspent
  <2>3. CASE i # Len(h) + 1 /\ j = Len(h) + 1
    <3>1. i \in DOMAIN h /\ g[i] = h[i] /\ g[j].content = content
      BY <1>2, <1>3, <1>4, <2>3
    <3>2. QED
      BY <3>1 DEF Unspent
  <2>4. QED
    BY <2>1, <2>2, <2>3
<1>7. OneNonceOneMessage(g)
  BY <1>5, <1>6, NonceStandsOnce
<1>8. HistoryOK(g)
  BY <1>4, <1>5, <1>7 DEF HistoryOK
<1>9. QED
  BY <1>8 DEF g, m

\* What no nonce of a history is for is unspent in it.
LEMMA NoneSpent ==
    ASSUME NEW h, NEW content,
           \A m \in SpentBy(h) : ~(m.account = content.account /\ m.nonce = content.nonce)
    PROVE  Unspent(h, content)
<1>1. ASSUME NEW i \in DOMAIN h, h[i].content # Generated
      PROVE  ~(h[i].content.account = content.account /\ h[i].content.nonce = content.nonce)
  <2>1. SpendingRow(h, i) \in SpentBy(h)
    BY <1>1, SpentRows
  <2>2. /\ SpendingRow(h, i).account = h[i].content.account
        /\ SpendingRow(h, i).nonce = h[i].content.nonce
    BY DEF SpendingRow
  <2>3. QED
    BY <2>1, <2>2
<1>2. QED
  BY <1>1 DEF Unspent

LEMMA NoGroup ==
    ASSUME FileOK, LiveOK, feed.up
    PROVE  <<>> \in Seq(BatchItem) /\ WithBatch(<<>>) = file.messages
<1>1. <<>> \in Seq(BatchItem) /\ file.messages \in Seq(Message)
  BY DEF FileOK
<1>2. Numbered(<<>>) = <<>>
  BY DEF Numbered
<1>3. QED
  BY <1>1, <1>2 DEF WithBatch

\* One more item.
LEMMA GroupAppends ==
    ASSUME FileOK, LiveOK, feed.up, NEW batch \in Seq(BatchItem), NEW item \in BatchItem
    PROVE  /\ Append(batch, item) \in Seq(BatchItem)
           /\ WithBatch(Append(batch, item))
                = Append(WithBatch(batch),
                         [id |-> Len(WithBatch(batch)) + 1, content |-> item.content])
<1> DEFINE b == Append(batch, item)
           n == Len(file.messages)
           h == WithBatch(batch)
           g == WithBatch(b)
           m == [id |-> Len(h) + 1, content |-> item.content]
           a == Append(h, m)
<1>1. /\ b \in Seq(BatchItem) /\ Len(b) = Len(batch) + 1 /\ Len(batch) \in Nat
      /\ b[Len(batch) + 1] = item /\ \A i \in 1..Len(batch) : b[i] = batch[i]
  OBVIOUS
<1> HIDE DEF b
<1>2. RowsAre(n, batch, h) /\ RowsAre(n, b, g)
  BY <1>1, RowsWithBatch
<1> HIDE DEF n, g, h
<1>3. /\ n \in Nat /\ h \in Seq(Message) /\ Len(h) = n + Len(batch)
      /\ \A i \in 1..n : h[i] = file.messages[i]
      /\ \A i \in 1..Len(batch) : h[n + i] = [id |-> n + i, content |-> batch[i].content]
  BY <1>2 DEF RowsAre
<1>4. /\ g \in Seq(Message) /\ Len(g) = n + Len(b)
      /\ \A i \in 1..n : g[i] = file.messages[i]
      /\ \A i \in 1..Len(b) : g[n + i] = [id |-> n + i, content |-> b[i].content]
  BY <1>2 DEF RowsAre
<1>5. m \in Message
  <2>1. item.content \in Contents
    BY DEF BatchItem
  <2>2. QED
    BY <1>1, <1>3, <2>1 DEF Message
<1>6. m = [id |-> n + Len(b), content |-> item.content]
  BY <1>1, <1>3
<1> HIDE DEF m
<1>7. /\ a \in Seq(Message) /\ Len(a) = Len(h) + 1 /\ a[Len(h) + 1] = m
      /\ \A i \in 1..Len(h) : a[i] = h[i]
  BY <1>3, <1>5
<1> HIDE DEF a
<1>8. Len(a) = Len(g) /\ Len(g) \in Nat /\ Len(g) = n + Len(batch) + 1
  BY <1>1, <1>3, <1>4, <1>7
<1>9. ASSUME NEW i \in 1..Len(g) PROVE a[i] = g[i]
  <2>1. CASE i <= n
    <3>1. i \in 1..n /\ i \in 1..Len(h)
      BY <1>1, <1>3, <2>1
    <3>2. QED
      BY <1>3, <1>4, <1>7, <3>1
  <2>2. CASE i > n /\ i <= n + Len(batch)
    <3>1. PICK j \in 1..Len(batch) : n + j = i
      <4>1. i - n \in 1..Len(batch) /\ n + (i - n) = i
        BY <1>1, <1>3, <2>2
      <4>2. QED
        BY <4>1
    <3>2. j \in 1..Len(b) /\ i \in 1..Len(h) /\ b[j] = batch[j]
      BY <1>1, <1>3, <2>2, <3>1
    <3>3. /\ h[n + j] = [id |-> n + j, content |-> batch[j].content]
          /\ g[n + j] = [id |-> n + j, content |-> b[j].content]
      BY <1>3, <1>4, <3>2
    <3>4. QED
      BY <1>7, <3>1, <3>2, <3>3
  <2>3. CASE i = n + Len(batch) + 1
    <3>1. Len(b) \in 1..Len(b) /\ i = n + Len(b) /\ b[Len(b)] = item /\ i = Len(h) + 1
      BY <1>1, <1>3, <2>3
    <3>2. g[n + Len(b)] = [id |-> n + Len(b), content |-> b[Len(b)].content]
      BY <1>4, <3>1
    <3>3. QED
      BY <1>6, <1>7, <3>1, <3>2
  <2>4. QED
    BY <1>1, <1>3, <1>8, <2>1, <2>2, <2>3
<1>10. a = g
  BY <1>4, <1>7, <1>8, <1>9, SeqEqual
<1>11. QED
  BY <1>1, <1>10 DEF a, b, g, h, m

\* What there is room for, there is room for less of.
LEMMA RoomForLess ==
    ASSUME FeedSideOK, feed.up,
           NEW a \in Nat, NEW b \in Nat, NEW c \in Nat, RoomFor(a, b, c),
           NEW x \in Nat, NEW y \in Nat, NEW z \in Nat, x <= a, y <= b, z <= c
    PROVE  RoomFor(x, y, z)
<1>1. FileOK /\ LiveOK
  BY DEF FeedSideOK
<1>2. feed.nonces = SpentBy(file.messages) /\ feed.pairings = file.pairings
  BY <1>1, LiveFields
<1>3. Cardinality(feed.nonces) \in Nat
  BY <1>1, <1>2, SpentIsFinite DEF FileOK, HistoryOK
<1>4. Cardinality(feed.pairings) \in Nat
  BY <1>1, <1>2, FS_CardinalityType DEF FileOK, PairingsOK
<1>5. MaxBatch \in Nat /\ MaxNonces \in Nat /\ MaxPairings \in Nat
  BY RetentionLimits
<1>6. QED
  BY <1>3, <1>4, <1>5 DEF RoomFor

\* Items that fulfil no entry pair nothing.
LEMMA NothingPaired ==
    ASSUME NEW batch, \A i \in DOMAIN batch : batch[i].pairing = {}
    PROVE  PairsOf(batch) = {} /\ Cardinality(PairsOf(batch)) = 0 /\ FulfilsOnce(batch)
<1>1. PairsOf(batch) = {}
  BY DEF PairsOf
<1>2. FulfilsOnce(batch)
  BY DEF FulfilsOnce
<1>3. QED
  BY <1>1, <1>2, FS_EmptySet

LEMMA ContentOfOne ==
    ASSUME NEW s \in Submissions \cup OperatorMessages
    PROVE  /\ Item(s) \in BatchItem /\ Item(s).content = MessageFrom(s) /\ Item(s).pairing = {}
           /\ MessageFrom(s) \in Contents /\ MessageFrom(s) # Generated
           /\ MessageFrom(s).account = s.account /\ MessageFrom(s).nonce = s.nonce
<1>1. MessageFrom(s) \in Contents
  BY DEF Contents
<1>2. MessageFrom(s) # Generated
  BY GeneratedIsNoSubmission
<1>3. Item(s) \in BatchItem
  BY <1>1 DEF Item, BatchItem
<1>4. QED
  BY <1>1, <1>2, <1>3 DEF Item, MessageFrom

\* A message on its own, at one of the two front doors.
LEMMA OneMessageFits ==
    ASSUME FeedSideOK, feed.up,
           NEW s \in Submissions \cup OperatorMessages, NEW pins, PinsGrow(pins),
           SpentFor(feed.nonces, s) = {}, RoomFor(1, 1, 0),
           StandsUnder(MessageFrom(s), pins, feed.session),
           MessageFrom(s) \in OperatorsOwn \/ LogIsOpen
    PROVE  GroupFits(<<Item(s)>>, pins) /\ PairsOf(<<Item(s)>>) = {}
<1> DEFINE item == Item(s)
           batch == <<item>>
           f == file.messages
           h == WithBatch(batch)
<1>1. FileOK /\ LiveOK
  BY DEF FeedSideOK
<1>2. /\ item \in BatchItem /\ item.content = MessageFrom(s) /\ item.pairing = {}
      /\ MessageFrom(s) \in Contents /\ MessageFrom(s) # Generated
      /\ MessageFrom(s).account = s.account /\ MessageFrom(s).nonce = s.nonce
  BY ContentOfOne
<1>3. feed.nonces = SpentBy(f) /\ HistoryOK(f) /\ OpeningOK(f)
  BY <1>1, LiveFields, OpeningSoFar
<1> HIDE DEF item
<1>4. /\ batch \in Seq(BatchItem) /\ batch # <<>> /\ Len(batch) = 1
      /\ DOMAIN batch = {1} /\ batch[1] = item
  BY <1>2
<1>5. h = Append(f, [id |-> Len(f) + 1, content |-> MessageFrom(s)])
  <2>1. <<>> \in Seq(BatchItem) /\ WithBatch(<<>>) = f
    BY <1>1, NoGroup
  <2>2. batch = Append(<<>>, item)
    BY <1>2
  <2>3. QED
    BY <1>1, <1>2, <2>1, <2>2, GroupAppends
<1>6. HistoryOK(h)
  <2>1. \A m \in SpentBy(f) : ~(m.account = MessageFrom(s).account /\ m.nonce = MessageFrom(s).nonce)
    BY <1>2, <1>3 DEF SpentFor
  <2>2. Unspent(f, MessageFrom(s))
    BY <2>1, NoneSpent
  <2>3. QED
    BY <1>2, <1>3, <1>5, <2>2, HistoryAppends
<1>7. OpeningOK(h)
  <2>1. CASE LogIsOpen
    BY <1>4, <2>1, OpeningStays
  <2>2. CASE MessageFrom(s) \in OperatorsOwn
    <3> DEFINE m == [id |-> Len(f) + 1, content |-> MessageFrom(s)]
    <3>1. f \in Seq(Message) /\ m \in Message
      BY <1>2, <1>3 DEF HistoryOK, Message
    <3>2. m.content = MessageFrom(s)
      OBVIOUS
    <3> HIDE DEF m, h
    <3>3. h = Append(f, m)
      BY <1>5 DEF m
    <3>4. /\ Len(f) \in Nat /\ DOMAIN f = 1..Len(f) /\ DOMAIN h = 1..(Len(f) + 1)
          /\ h[Len(f) + 1] = m /\ \A i \in 1..Len(f) : h[i] = f[i]
      BY <3>1, <3>3
    <3>5. ASSUME NEW i \in 1..Opening, i \in DOMAIN h PROVE h[i].content \in OperatorsOwn
      <4>1. CASE i = Len(f) + 1
        BY <2>2, <3>2, <3>4, <4>1
      <4>2. CASE i # Len(f) + 1
        <5>1. i \in DOMAIN f /\ h[i] = f[i]
          BY <3>4, <3>5, <4>2
        <5>2. QED
          BY <1>3, <5>1 DEF OpeningOK
      <4>3. QED
        BY <4>1, <4>2
    <3>6. QED
      BY <3>5 DEF OpeningOK
  <2>3. QED
    BY <2>1, <2>2
<1>8. PairsOf(batch) = {} /\ Cardinality(PairsOf(batch)) = 0 /\ FulfilsOnce(batch)
  <2>1. \A i \in DOMAIN batch : batch[i].pairing = {}
    BY <1>2, <1>4
  <2>2. QED
    BY <2>1, NothingPaired
<1>9. RoomFor(Len(batch), Cardinality(SpentBy(Numbered(batch))), Cardinality(PairsOf(batch)))
  <2>1. RowsAre(Len(f), batch, h)
    BY <1>1, <1>4, RowsWithBatch
  <2>2. Numbered(batch) \in Seq(Message) /\ Len(Numbered(batch)) = 1
    BY <1>4, <2>1 DEF RowsAre
  <2>3. Cardinality(SpentBy(Numbered(batch))) \in Nat /\ Cardinality(SpentBy(Numbered(batch))) <= 1
    BY <2>2, SpentIsFinite
  <2>4. PICK a, b, c : a = Len(batch) /\ b = Cardinality(SpentBy(Numbered(batch)))
                       /\ c = Cardinality(PairsOf(batch))
    OBVIOUS
  <2>5. a \in Nat /\ b \in Nat /\ c \in Nat /\ a <= 1 /\ b <= 1 /\ c <= 0
        /\ 1 \in Nat /\ 0 \in Nat
    BY <1>4, <1>8, <2>3, <2>4
  <2>6. RoomFor(a, b, c)
    BY <2>5, RoomForLess
  <2>7. QED
    BY <2>4, <2>6
<1>10. \A i \in DOMAIN batch : StandsUnder(batch[i].content, pins, feed.session)
  BY <1>2, <1>4
<1> HIDE DEF batch, h, f
<1>11. GroupFits(batch, pins)
  BY <1>4, <1>6, <1>7, <1>8, <1>9, <1>10 DEF GroupFits, h
<1>12. QED
  BY <1>8, <1>11 DEF batch, item

\* A burst of the generator's.
LEMMA BurstFits ==
    ASSUME FeedSideOK, feed.up, LogIsOpen, NEW n \in Nat \ {0}, RoomFor(n, 0, 0),
           NEW batch, batch = [i \in 1..n |-> [content |-> Generated, pairing |-> {}]]
    PROVE  GroupFits(batch, feed.pins) /\ PairsOf(batch) = {}
<1> DEFINE f == file.messages
           h == WithBatch(batch)
           k == Len(f)
<1>1. FileOK /\ LiveOK /\ feed.pins = file.pins /\ feed.nonces = SpentBy(f)
  BY LiveFields DEF FeedSideOK
<1>2. /\ batch \in Seq(BatchItem) /\ batch # <<>> /\ Len(batch) = n
      /\ \A i \in DOMAIN batch : batch[i].pairing = {} /\ batch[i].content = Generated
  <2>1. [content |-> Generated, pairing |-> {}] \in BatchItem
    BY DEF BatchItem, Contents
  <2>2. PICK it : it = [content |-> Generated, pairing |-> {}]
    OBVIOUS
  <2>3. /\ it \in BatchItem /\ it.content = Generated /\ it.pairing = {}
        /\ batch = [i \in 1..n |-> it]
    BY <2>1, <2>2
  <2>4. batch \in Seq(BatchItem) /\ Len(batch) = n /\ batch # <<>>
    <3>1. n \in Nat
      OBVIOUS
    <3>2. batch \in Seq(BatchItem) /\ Len(batch) = n
      BY <2>3, <3>1
    <3>3. QED
      BY <3>2
  <2>5. \A i \in DOMAIN batch : batch[i] = it
    BY <2>3
  <2>6. QED
    BY <2>3, <2>4, <2>5
<1>3. RowsAre(k, batch, h)
  BY <1>1, <1>2, RowsWithBatch
<1>4. OpeningOK(h)
  BY <1>2, OpeningStays
<1>5. f \in Seq(Message) /\ (\A i \in DOMAIN f : f[i].id = i) /\ SpendsOnce(f)
  BY <1>1, NonceStandsOnce DEF FileOK, HistoryOK
<1>6. /\ k \in Nat /\ DOMAIN f = 1..k /\ h \in Seq(Message) /\ DOMAIN h = 1..(k + n)
      /\ \A i \in 1..k : h[i] = f[i]
      /\ \A i \in 1..n : h[k + i] = [id |-> k + i, content |-> batch[i].content]
      /\ \A i \in DOMAIN h : h[i].id = i
      /\ Numbered(batch) \in Seq(Message) /\ Len(Numbered(batch)) = n
  <2>1. k \in Nat /\ DOMAIN f = 1..k
    BY <1>5
  <2> HIDE DEF h, k, f
  <2>2. QED
    BY <1>2, <1>3, <2>1 DEF RowsAre, f
<1> HIDE DEF h, k, f
<1>7. ASSUME NEW i \in DOMAIN h, h[i].content # Generated PROVE i \in DOMAIN f /\ h[i] = f[i]
  <2>1. i <= k
    <3> SUFFICES ASSUME ~(i <= k) PROVE FALSE
      BY <1>6
    <3>1. PICK j \in 1..n : k + j = i
      <4>1. i - k \in 1..n /\ k + (i - k) = i
        BY <1>6
      <4>2. QED
        BY <4>1
    <3>2. h[i] = [id |-> k + j, content |-> batch[j].content] /\ j \in DOMAIN batch
      BY <1>2, <1>6, <3>1
    <3>3. QED
      BY <1>2, <1>7, <3>2
  <2>2. QED
    BY <1>6, <2>1
<1>8. SpendsOnce(h)
  BY <1>5, <1>7 DEF SpendsOnce
<1>9. HistoryOK(h)
  BY <1>6, <1>8, NonceStandsOnce DEF HistoryOK
<1>10. Cardinality(SpentBy(Numbered(batch))) = 0
  <2>1. \A i \in DOMAIN Numbered(batch) : Numbered(batch)[i].content = Generated
    BY <1>2 DEF Numbered
  <2>2. SpentBy(Numbered(batch)) = {}
    BY <2>1 DEF SpentBy
  <2>3. QED
    BY <2>2, FS_EmptySet
<1>11. PairsOf(batch) = {} /\ Cardinality(PairsOf(batch)) = 0 /\ FulfilsOnce(batch)
  BY <1>2, NothingPaired
<1>12. RoomFor(Len(batch), Cardinality(SpentBy(Numbered(batch))), Cardinality(PairsOf(batch)))
  BY <1>2, <1>10, <1>11
<1>13. PinsGrow(feed.pins)
  BY <1>1 DEF PinsGrow, FileOK
<1>14. \A i \in DOMAIN batch : StandsUnder(batch[i].content, feed.pins, feed.session)
  BY <1>2 DEF StandsUnder
<1>15. QED
  BY <1>2, <1>4, <1>9, <1>11, <1>12, <1>13, <1>14 DEF GroupFits, h

-----------------------------------------------------------------------------
(* Keys.                                                                     *)

LEMMA AccountKeysFinite == IsFiniteSet(AccountKeys)
<1> DEFINE f == [s \in Submissions |-> [account |-> s.account, key |-> s.key]]
<1>1. f \in Surjection(Submissions, AccountKeys)
  BY DEF Surjection, AccountKeys
<1>2. QED
  BY <1>1, FinitelyManySubmissions, FS_Surjection

\* A key pinned is one more, if it is the account's first; nobody's key moves.
LEMMA PinAnother ==
    ASSUME NEW pins, PinsGrow(pins), NEW s \in Submissions, NEW works, MayPin(pins, s, works)
    PROVE  /\ PinsGrow(AfterPin(pins, s)) /\ pins \subseteq AfterPin(pins, s)
           /\ IsPinned(AfterPin(pins, s), s) /\ KeyFits(AfterPin(pins, s), s)
<1> DEFINE new == [account |-> s.account, key |-> s.key]
           after == AfterPin(pins, s)
<1>1. /\ pins \subseteq AccountKeys /\ Cardinality(pins) <= MaxAccounts
      /\ \A p, q \in pins : p.account = q.account => p = q
      /\ feed.pins \subseteq pins
  BY DEF PinsGrow, PinsOK
<1>2. \A p \in AccountKeys : p = [account |-> p.account, key |-> p.key]
  BY DEF AccountKeys
<1>3. new \in AccountKeys /\ after = pins \cup {new}
  BY DEF AccountKeys, AfterPin
<1>4. \A p \in pins : p.account = s.account => p = new
  BY <1>1, <1>2 DEF MayPin, KeyFits
<1>5. IsFiniteSet(pins) /\ Cardinality(pins) \in Nat
  BY <1>1, AccountKeysFinite, FS_Subset, FS_CardinalityType
<1>6. Cardinality(after) <= MaxAccounts
  <2>1. CASE IsPinned(pins, s)
    <3>1. new \in pins
      BY <1>4, <2>1 DEF IsPinned
    <3>2. after = pins
      BY <1>3, <3>1
    <3>3. QED
      BY <1>1, <3>2
  <2>2. CASE ~IsPinned(pins, s)
    <3>1. Cardinality(pins) < MaxAccounts
      BY <2>2 DEF MayPin
    <3>2. Cardinality(after) = Cardinality(pins) \/ Cardinality(after) = Cardinality(pins) + 1
      BY <1>3, <1>5, FS_AddElement
    <3>3. MaxAccounts \in Nat
      BY RetentionLimits
    <3>4. QED
      BY <1>5, <3>1, <3>2, <3>3
  <2>3. QED
    BY <2>1, <2>2
<1>7. \A p, q \in after : p.account = q.account => p = q
  BY <1>1, <1>3, <1>4
<1>8. PinsGrow(after)
  BY <1>1, <1>3, <1>6, <1>7 DEF PinsGrow, PinsOK
<1>9. new \in after /\ new.account = s.account /\ new.key = s.key
  BY <1>3
<1>10. IsPinned(after, s)
  BY <1>9 DEF IsPinned
<1>11. KeyFits(after, s)
  BY <1>7, <1>9 DEF KeyFits
<1>12. QED
  BY <1>3, <1>8, <1>10, <1>11

\* What is pinned stays pinned.
LEMMA PinnedOnward ==
    ASSUME NEW old, NEW pins, PinsOK(pins), old \subseteq pins,
           NEW s, IsPinned(old, s), KeyFits(old, s)
    PROVE  IsPinned(pins, s) /\ KeyFits(pins, s)
<1>1. PICK q \in old : q.account = s.account
  BY DEF IsPinned
<1>2. q \in pins /\ q.key = s.key
  BY <1>1 DEF KeyFits
<1>3. ASSUME NEW p \in pins, p.account = s.account PROVE p.key = s.key
  <2>1. p = q
    BY <1>1, <1>2, <1>3 DEF PinsOK
  <2>2. QED
    BY <1>2, <2>1
<1>4. QED
  BY <1>1, <1>2, <1>3 DEF IsPinned, KeyFits

-----------------------------------------------------------------------------
(* The pass over a page.                                                     *)

Sequencing ==
    FeedSideOK /\ feed.up /\ PairingsFit /\ DrainOK /\ DueOK /\ drain.due # <<>>

ItemFor(e) == [content |-> MessageFrom(e.submission),
               pairing |-> {[epoch |-> drain.epoch, entry |-> e.entry]}]

\* The message is for this log, and its sender's key is the pinned one.
MayGoIn(pins, e) ==
    /\ e.submission.session = feed.session
    /\ IsPinned(pins, e.submission) /\ KeyFits(pins, e.submission)
    /\ PairedAs(e.entry) = {}

ToMark == [entry : EntryIds, id : Nat \ {0}, fresh : BOOLEAN]
Pass == [pins : SUBSET AccountKeys, batch : Seq(BatchItem), pairs : Seq(ToMark),
         refused : Seq(EntryIds)]

\* A pair is of an entry and the message it asked for.
PairFits(batch, r) ==
    /\ r.id \in DOMAIN WithBatch(batch)
    /\ r.fresh <=> r.id >= feed.nextId
    /\ Asks(drain.epoch, r.entry, feed.session, WithBatch(batch)[r.id].content)

ItemsOK(pins, batch) ==
    \A i \in DOMAIN batch : \E e \in Range(drain.due) : batch[i] = ItemFor(e) /\ MayGoIn(pins, e)

PassOK(p) ==
    /\ p \in Pass
    /\ PinsGrow(p.pins)
    /\ HistoryOK(WithBatch(p.batch))
    /\ p.batch # <<>> => RoomFor(Len(p.batch), Len(p.batch), Len(p.batch))
    /\ ItemsOK(p.pins, p.batch)
    /\ \A i \in DOMAIN p.pairs : PairFits(p.batch, p.pairs[i])

LEMMA DueEntry ==
    ASSUME Sequencing, NEW e \in Range(drain.due)
    PROVE  /\ e \in Listed /\ e.entry \in EntryIds /\ e.submission \in Submissions
           /\ ItemFor(e) \in BatchItem
           /\ ItemFor(e).content = MessageFrom(e.submission)
           /\ drain.epoch \in Nat \ {0}
<1>1. drain.due \in Seq(Listed) /\ drain.epoch \in Nat \ {0}
  BY DEF Sequencing, DrainOK, DueOK
<1>2. e \in Listed
  <2>1. PICK i \in DOMAIN drain.due : e = drain.due[i]
    BY DEF Range
  <2>2. QED
    BY <1>1, <2>1
<1>3. e.entry \in EntryIds /\ e.submission \in Submissions
  BY <1>2 DEF Listed
<1>4. MessageFrom(e.submission) \in Contents
  BY <1>3 DEF Contents
<1>5. [epoch |-> drain.epoch, entry |-> e.entry] \in [epoch : Nat \ {0}, entry : EntryIds]
  BY <1>1, <1>3
<1>6. ItemFor(e) \in BatchItem
  BY <1>4, <1>5 DEF ItemFor, BatchItem
<1>7. QED
  BY <1>1, <1>2, <1>3, <1>6 DEF ItemFor

LEMMA PassPairs ==
    ASSUME NEW p, PassOK(p), NEW r \in ToMark, PairFits(p.batch, r),
           NEW q, q = [p EXCEPT !.pairs = Append(p.pairs, r)]
    PROVE  PassOK(q)
<1>1. p \in Pass /\ p.pairs \in Seq(ToMark)
  BY DEF PassOK, Pass
<1>2. /\ q.pins = p.pins /\ q.batch = p.batch /\ q.refused = p.refused
      /\ q.pairs = Append(p.pairs, r)
  BY <1>1 DEF Pass
<1>3. q \in Pass
  <2>1. PICK t : t = Append(p.pairs, r)
    OBVIOUS
  <2>2. t \in Seq(ToMark) /\ q = [p EXCEPT !.pairs = t]
    BY <1>1, <2>1
  <2>3. QED
    BY <1>1, <2>2 DEF Pass
<1>4. /\ DOMAIN q.pairs = 1..(Len(p.pairs) + 1) /\ Len(p.pairs) \in Nat
      /\ DOMAIN p.pairs = 1..Len(p.pairs)
      /\ q.pairs[Len(p.pairs) + 1] = r /\ \A i \in 1..Len(p.pairs) : q.pairs[i] = p.pairs[i]
  BY <1>1, <1>2
<1>5. ASSUME NEW i \in DOMAIN q.pairs PROVE PairFits(q.batch, q.pairs[i])
  <2>1. CASE i = Len(p.pairs) + 1
    BY <1>2, <1>4, <2>1
  <2>2. CASE i # Len(p.pairs) + 1
    <3>1. i \in DOMAIN p.pairs /\ q.pairs[i] = p.pairs[i]
      BY <1>4, <2>2
    <3>2. QED
      BY <1>2, <3>1 DEF PassOK
  <2>3. QED
    BY <2>1, <2>2
<1>6. /\ PinsGrow(q.pins) /\ HistoryOK(WithBatch(q.batch)) /\ ItemsOK(q.pins, q.batch)
      /\ q.batch # <<>> => RoomFor(Len(q.batch), Len(q.batch), Len(q.batch))
  BY <1>2 DEF PassOK
<1>7. QED
  BY <1>3, <1>5, <1>6 DEF PassOK

LEMMA PassRefuses ==
    ASSUME NEW p, PassOK(p), NEW i \in EntryIds
    PROVE  PassOK(Refuse(p, i))
<1> DEFINE q == Refuse(p, i)
<1>1. p \in Pass /\ p.refused \in Seq(EntryIds)
  BY DEF PassOK, Pass
<1>2. q.pins = p.pins /\ q.batch = p.batch /\ q.pairs = p.pairs
  BY <1>1 DEF Pass, Refuse
<1>3. q \in Pass
  <2>1. PICK t : t = Append(p.refused, i)
    OBVIOUS
  <2>2. t \in Seq(EntryIds) /\ q = [p EXCEPT !.refused = t]
    BY <1>1, <2>1 DEF Refuse
  <2> HIDE DEF q
  <2>3. QED
    BY <1>1, <2>2 DEF Pass
<1> HIDE DEF q
<1>4. PassOK(q)
  BY <1>2, <1>3 DEF PassOK
<1>5. QED
  BY <1>4 DEF q

LEMMA PassPins ==
    ASSUME NEW p, PassOK(p), NEW pins, PinsGrow(pins), p.pins \subseteq pins,
           NEW q, q = [p EXCEPT !.pins = pins]
    PROVE  PassOK(q) /\ q.pins = pins /\ q.batch = p.batch
<1>1. p \in Pass /\ pins \in SUBSET AccountKeys /\ PinsOK(pins)
  BY DEF PassOK, PinsGrow, PinsOK
<1>2. q.pins = pins /\ q.batch = p.batch /\ q.pairs = p.pairs
  BY <1>1 DEF Pass
<1>3. q \in Pass
  BY <1>1 DEF Pass
<1>4. ASSUME NEW i \in DOMAIN q.batch
      PROVE  \E e \in Range(drain.due) : q.batch[i] = ItemFor(e) /\ MayGoIn(q.pins, e)
  <2>1. PICK e \in Range(drain.due) : p.batch[i] = ItemFor(e) /\ MayGoIn(p.pins, e)
    BY <1>2, <1>4 DEF PassOK, ItemsOK
  <2>2. IsPinned(pins, e.submission) /\ KeyFits(pins, e.submission)
    BY <1>1, <2>1, PinnedOnward DEF MayGoIn
  <2>3. MayGoIn(q.pins, e)
    BY <1>2, <2>1, <2>2 DEF MayGoIn
  <2>4. QED
    BY <1>2, <2>1, <2>3
<1>5. QED
  BY <1>2, <1>3, <1>4 DEF PassOK, ItemsOK

\* A message joins the batch.
LEMMA PassTakes ==
    ASSUME Sequencing, NEW p, PassOK(p), NEW e \in Range(drain.due), MayGoIn(p.pins, e),
           SpentOn(p, e.submission) = {}, RoomForOneMore(p)
    PROVE  PassOK(Take(p, e))
<1> DEFINE item == ItemFor(e)
           b == Append(p.batch, item)
           h == WithBatch(p.batch)
           g == WithBatch(b)
           content == MessageFrom(e.submission)
           id == feed.nextId + Len(p.batch)
           r == [entry |-> e.entry, id |-> id, fresh |-> id >= feed.nextId]
           pairs == Append(p.pairs, r)
           q == Take(p, e)
<1>1. /\ p \in Pass /\ p.pairs \in Seq(ToMark) /\ p.batch \in Seq(BatchItem)
      /\ PinsGrow(p.pins) /\ HistoryOK(h) /\ ItemsOK(p.pins, p.batch)
      /\ \A i \in DOMAIN p.pairs : PairFits(p.batch, p.pairs[i])
  BY DEF PassOK, Pass
<1>2. /\ e.entry \in EntryIds /\ e.submission \in Submissions
      /\ item \in BatchItem /\ item.content = content
      /\ drain.epoch \in Nat \ {0}
  BY DueEntry
<1>3. /\ FileOK /\ LiveOK /\ feed.up
      /\ Asks(drain.epoch, e.entry, e.submission.session, content)
  BY DEF Sequencing, FeedSideOK, DueOK
<1>4. /\ b \in Seq(BatchItem) /\ Len(b) = Len(p.batch) + 1 /\ Len(p.batch) \in Nat
      /\ b[Len(p.batch) + 1] = item /\ (\A i \in 1..Len(p.batch) : b[i] = p.batch[i])
      /\ DOMAIN b = 1..(Len(p.batch) + 1) /\ DOMAIN p.batch = 1..Len(p.batch)
      /\ b # <<>>
  BY <1>1, <1>2
<1>5. RowsAre(Len(file.messages), p.batch, h)
  BY <1>1, <1>3, RowsWithBatch
<1>6. g = Append(h, [id |-> Len(h) + 1, content |-> content])
  BY <1>1, <1>2, <1>3, GroupAppends
<1>7. /\ content \in Contents /\ content # Generated
      /\ content.account = e.submission.account /\ content.nonce = e.submission.nonce
  BY <1>2, ContentOfOne
<1>8. \A m \in SpentBy(h) : ~(m.account = content.account /\ m.nonce = content.nonce)
  <2>1. feed.nonces \cup SpentBy(Numbered(p.batch)) = SpentBy(h)
    BY <1>5 DEF RowsAre
  <2>2. SpentOn(p, e.submission) = {n.id : n \in SpentFor(SpentBy(h), e.submission)}
    BY <2>1 DEF SpentOn
  <2>3. SpentFor(SpentBy(h), e.submission) = {}
    BY <2>2
  <2>4. QED
    BY <1>7, <2>3 DEF SpentFor
<1>9. HistoryOK(g)
  BY <1>1, <1>6, <1>7, <1>8, NoneSpent, HistoryAppends
<1>10. /\ id = Len(h) + 1 /\ id \in Nat \ {0} /\ Len(h) \in Nat /\ h \in Seq(Message)
       /\ id >= feed.nextId
  <2>1. PICK n : n = Len(file.messages)
    OBVIOUS
  <2>2. /\ n \in Nat /\ feed.nextId = n + 1 /\ Len(h) = n + Len(p.batch) /\ h \in Seq(Message)
    BY <1>5, <2>1 DEF RowsAre
  <2> HIDE DEF h
  <2>3. QED
    BY <1>4, <2>2
<1>11. r \in ToMark
  BY <1>2, <1>10 DEF ToMark
<1>12. q.pins = p.pins /\ q.batch = b /\ q.pairs = pairs /\ q \in Pass
  <2> DEFINE mid == Pair(p, e.entry, id)
  <2>1. mid = [p EXCEPT !.pairs = pairs]
    BY DEF Pair
  <2>2. pairs \in Seq(ToMark)
    BY <1>1, <1>11
  <2>3. q = [mid EXCEPT !.batch = Append(mid.batch, item)]
    BY DEF Take, ItemFor
  <2> HIDE DEF mid, q, pairs, item
  <2>4. mid \in Pass /\ mid.batch = p.batch /\ mid.pairs = pairs /\ mid.pins = p.pins
    BY <1>1, <2>1, <2>2 DEF Pass
  <2>5. q = [mid EXCEPT !.batch = b]
    BY <2>3, <2>4
  <2> HIDE DEF b
  <2>6. QED
    BY <1>4, <2>4, <2>5 DEF Pass
<1> HIDE DEF q
<1>13. pairs \in Seq(ToMark) /\ DOMAIN pairs = 1..(Len(p.pairs) + 1) /\ Len(p.pairs) \in Nat
       /\ DOMAIN p.pairs = 1..Len(p.pairs)
       /\ pairs[Len(p.pairs) + 1] = r /\ \A i \in 1..Len(p.pairs) : pairs[i] = p.pairs[i]
  BY <1>1, <1>11
<1> HIDE DEF pairs
<1>14. /\ DOMAIN g = 1..(Len(h) + 1) /\ DOMAIN h = 1..Len(h)
       /\ g[Len(h) + 1].content = content /\ \A i \in 1..Len(h) : g[i] = h[i]
  <2>1. PICK m : m = [id |-> Len(h) + 1, content |-> content]
    OBVIOUS
  <2>2. m \in Message /\ m.content = content
    BY <1>7, <1>10, <2>1 DEF Message
  <2>3. g = Append(h, m)
    BY <1>6, <2>1
  <2> HIDE DEF g, h
  <2>4. QED
    BY <1>10, <2>2, <2>3
<1>15. ASSUME NEW i \in DOMAIN pairs PROVE PairFits(b, pairs[i])
  <2>1. CASE i = Len(p.pairs) + 1
    <3>1. pairs[i] = r /\ r.id = id /\ r.entry = e.entry /\ r.fresh = (id >= feed.nextId)
      BY <1>13, <2>1
    <3>2. id \in DOMAIN g /\ g[id].content = content
      BY <1>10, <1>14
    <3>3. e.submission.session = feed.session
      BY DEF MayGoIn
    <3>4. Asks(drain.epoch, r.entry, feed.session, g[id].content)
      BY <1>3, <3>1, <3>2, <3>3
    <3>5. r.fresh <=> r.id >= feed.nextId
      BY <3>1
    <3> HIDE DEF r, b
    <3>6. QED
      BY <3>1, <3>2, <3>4, <3>5 DEF PairFits
  <2>2. CASE i # Len(p.pairs) + 1
    <3>1. i \in DOMAIN p.pairs /\ pairs[i] = p.pairs[i]
      BY <1>13, <2>2
    <3>2. PICK x : x = p.pairs[i]
      OBVIOUS
    <3>3. PairFits(p.batch, x)
      BY <1>1, <3>1, <3>2
    <3>4. x.id \in DOMAIN g /\ g[x.id] = h[x.id]
      <4>1. x.id \in 1..Len(h)
        BY <1>14, <3>3 DEF PairFits
      <4>2. QED
        BY <1>10, <1>14, <4>1
    <3>5. PairFits(b, x)
      BY <3>3, <3>4 DEF PairFits
    <3>6. QED
      BY <3>1, <3>2, <3>5
  <2>3. QED
    BY <2>1, <2>2
<1>16. ItemsOK(p.pins, b)
  <2>1. ASSUME NEW i \in DOMAIN b
        PROVE  \E d \in Range(drain.due) : b[i] = ItemFor(d) /\ MayGoIn(p.pins, d)
    <3>1. CASE i = Len(p.batch) + 1
      BY <1>4, <3>1
    <3>2. CASE i # Len(p.batch) + 1
      <4>1. i \in DOMAIN p.batch /\ b[i] = p.batch[i]
        BY <1>4, <3>2
      <4>2. QED
        BY <1>1, <4>1 DEF ItemsOK
    <3>3. QED
      BY <3>1, <3>2
  <2>2. QED
    BY <2>1 DEF ItemsOK
<1>17. RoomFor(Len(b), Len(b), Len(b))
  BY <1>4 DEF RoomForOneMore
<1> HIDE DEF b, h, g, r
<1>18. PassOK(q)
  BY <1>1, <1>9, <1>12, <1>15, <1>16, <1>17 DEF PassOK, g
<1>19. QED
  BY <1>18 DEF q

\* The entry was sequenced in an earlier pass.
LEMMA PassRemembers ==
    ASSUME Sequencing, NEW p, PassOK(p), NEW e \in Range(drain.due), NEW id \in PairedAs(e.entry)
    PROVE  PassOK(Pair(p, e.entry, id))
<1> DEFINE h == WithBatch(p.batch)
           r == [entry |-> e.entry, id |-> id, fresh |-> id >= feed.nextId]
<1>1. FileOK /\ LiveOK /\ feed.up /\ PairingsFit
  BY DEF Sequencing, FeedSideOK
<1>2. PICK m \in feed.pairings : m.epoch = drain.epoch /\ m.entry = e.entry /\ m.id = id
  BY DEF PairedAs
<1>3. /\ m \in file.pairings /\ m \in Pairing /\ id \in DOMAIN file.messages
      /\ file.messages \in Seq(Message)
  <2>1. feed.pairings = file.pairings
    BY <1>1, LiveFields
  <2>2. /\ file.pairings \subseteq Pairing /\ file.messages \in Seq(Message)
        /\ \A x \in file.pairings : x.id \in DOMAIN file.messages
    BY <1>1 DEF FileOK, HistoryOK, PairingsOK
  <2>3. QED
    BY <1>2, <2>1, <2>2
<1>4. file.head.session = feed.session
  <2>1. file.messages # <<>>
    BY <1>3
  <2>2. file.head = [session |-> Len(histories), lastId |-> Len(file.messages)]
    BY <1>1, <2>1 DEF FileOK
  <2>3. feed.session = Len(histories)
    BY <1>1, LiveFields
  <2>4. QED
    BY <2>2, <2>3
<1>5. Asks(drain.epoch, e.entry, feed.session, file.messages[id].content)
  BY <1>1, <1>2, <1>3, <1>4 DEF PairingsFit
<1>6. p.batch \in Seq(BatchItem) /\ p \in Pass
  BY DEF PassOK, Pass
<1>7. id \in DOMAIN h /\ h[id] = file.messages[id]
  <2>1. RowsAre(Len(file.messages), p.batch, h)
    BY <1>1, <1>6, RowsWithBatch
  <2>2. PICK n : n = Len(file.messages)
    OBVIOUS
  <2>3. n \in Nat /\ id \in 1..n /\ Len(p.batch) \in Nat
    BY <1>3, <1>6, <2>2
  <2>4. DOMAIN h = 1..(n + Len(p.batch)) /\ \A i \in 1..n : h[i] = file.messages[i]
    BY <2>1, <2>2 DEF RowsAre
  <2> HIDE DEF h
  <2>5. QED
    BY <2>3, <2>4
<1>8. r \in ToMark
  <2>1. id \in Nat \ {0}
    BY <1>2, <1>3 DEF Pairing
  <2>2. e.entry \in EntryIds
    BY DueEntry
  <2>3. QED
    BY <2>1, <2>2 DEF ToMark
<1>9. PairFits(p.batch, r)
  <2>1. r.id = id /\ r.entry = e.entry /\ r.fresh = (id >= feed.nextId)
    OBVIOUS
  <2>2. r.fresh <=> r.id >= feed.nextId
    BY <2>1
  <2> HIDE DEF r
  <2>3. Asks(drain.epoch, r.entry, feed.session, h[r.id].content)
    BY <1>5, <1>7, <2>1
  <2>4. r.id \in DOMAIN h
    BY <1>7, <2>1
  <2>5. QED
    BY <2>2, <2>3, <2>4 DEF PairFits
<1>10. Pair(p, e.entry, id) = [p EXCEPT !.pairs = Append(p.pairs, r)]
  BY DEF Pair
<1> HIDE DEF r
<1>11. QED
  BY <1>8, <1>9, <1>10, PassPairs

\* The message is in the log, or in the batch.
LEMMA PassFinds ==
    ASSUME Sequencing, NEW p, PassOK(p), NEW e \in Range(drain.due), MayGoIn(p.pins, e),
           NEW id \in SpentOn(p, e.submission), AnsweredBy(p, e.submission, id)
    PROVE  PassOK(Pair(p, e.entry, id))
<1> DEFINE h == WithBatch(p.batch)
           r == [entry |-> e.entry, id |-> id, fresh |-> id >= feed.nextId]
           content == MessageFrom(e.submission)
<1>1. /\ FileOK /\ LiveOK /\ feed.up
      /\ Asks(drain.epoch, e.entry, e.submission.session, content)
  BY DEF Sequencing, FeedSideOK, DueOK
<1>2. p.batch \in Seq(BatchItem) /\ p \in Pass /\ HistoryOK(h)
  BY DEF PassOK, Pass
<1>3. h \in Seq(Message) /\ \A i \in DOMAIN h : h[i].id = i
  BY <1>2 DEF HistoryOK
<1>4. id \in DOMAIN h
  <2>1. RowsAre(Len(file.messages), p.batch, h)
    BY <1>1, <1>2, RowsWithBatch
  <2>2. feed.nonces \cup SpentBy(Numbered(p.batch)) = SpentBy(h)
    BY <2>1 DEF RowsAre
  <2>3. PICK m \in SpentBy(h) : m.id = id
    BY <2>2 DEF SpentOn, SpentFor
  <2>4. PICK i \in DOMAIN h : m = SpendingRow(h, i)
    BY <2>3, SpentRows
  <2> HIDE DEF h
  <2>5. m.id = h[i].id
    BY <2>4 DEF SpendingRow
  <2>6. QED
    BY <1>3, <2>3, <2>4, <2>5
<1>5. h[id].content = content
  BY <1>1, <1>2, <1>4, ContentIsRow DEF AnsweredBy
<1>6. r \in ToMark
  <2>1. id \in Nat \ {0}
    BY <1>3, <1>4
  <2>2. e.entry \in EntryIds
    BY DueEntry
  <2>3. QED
    BY <2>1, <2>2 DEF ToMark
<1>7. PairFits(p.batch, r)
  <2>1. r.id = id /\ r.entry = e.entry /\ r.fresh = (id >= feed.nextId)
    OBVIOUS
  <2>2. r.fresh <=> r.id >= feed.nextId
    BY <2>1
  <2>3. e.submission.session = feed.session
    BY DEF MayGoIn
  <2> HIDE DEF r
  <2>4. Asks(drain.epoch, r.entry, feed.session, h[r.id].content)
    BY <1>1, <1>5, <2>1, <2>3
  <2>5. QED
    BY <1>4, <2>1, <2>2, <2>4 DEF PairFits
<1>8. Pair(p, e.entry, id) = [p EXCEPT !.pairs = Append(p.pairs, r)]
  BY DEF Pair
<1> HIDE DEF r
<1>9. QED
  BY <1>6, <1>7, <1>8, PassPairs

\* Whatever the loop decides about an entry, the pass stays sound.
LEMMA PassConsiders ==
    ASSUME Sequencing, NEW p, PassOK(p), NEW e \in Range(drain.due), NEW pinning
    PROVE  PassOK(Consider(p, e, pinning))
<1>1. e.entry \in EntryIds /\ e.submission \in Submissions
  BY DueEntry
<1>2. PassOK(Refuse(p, e.entry))
  BY <1>1, PassRefuses
<1>3. CASE PairedAs(e.entry) # {}
  <2>1. PICK id : id = CHOOSE x \in PairedAs(e.entry) : TRUE
    OBVIOUS
  <2>2. id \in PairedAs(e.entry)
    BY <1>3, <2>1
  <2>3. Consider(p, e, pinning) = Pair(p, e.entry, id)
    BY <1>3, <2>1 DEF Consider
  <2>4. QED
    BY <2>2, <2>3, PassRemembers
<1>4. CASE PairedAs(e.entry) = {} /\ ~MayPin(p.pins, e.submission, pinning)
  BY <1>2, <1>4 DEF Consider
<1>5. CASE PairedAs(e.entry) = {} /\ MayPin(p.pins, e.submission, pinning)
  <2> DEFINE q == [p EXCEPT !.pins = AfterPin(p.pins, e.submission)]
  <2>1. PinsGrow(p.pins)
    BY DEF PassOK
  <2>2. PICK pins : pins = AfterPin(p.pins, e.submission)
    OBVIOUS
  <2>3. /\ PinsGrow(pins) /\ p.pins \subseteq pins
        /\ IsPinned(pins, e.submission) /\ KeyFits(pins, e.submission)
    BY <1>1, <1>5, <2>1, <2>2, PinAnother
  <2>4. q = [p EXCEPT !.pins = pins]
    BY <2>2
  <2>5. Consider(p, e, pinning) = ConsiderSigned(q, e)
    BY <1>5 DEF Consider
  <2> HIDE DEF q
  <2>6. PassOK(q) /\ q.pins = pins
    BY <2>3, <2>4, PassPins
  <2>7. PassOK(Refuse(q, e.entry))
    BY <1>1, <2>6, PassRefuses
  <2>8. ASSUME e.submission.session = feed.session PROVE PassOK(ConsiderSigned(q, e))
    <3>1. MayGoIn(q.pins, e)
      BY <1>5, <2>3, <2>6, <2>8 DEF MayGoIn
    <3>2. CASE SpentOn(q, e.submission) # {}
      <4>1. PICK id : id = CHOOSE n \in SpentOn(q, e.submission) : TRUE
        OBVIOUS
      <4>2. id \in SpentOn(q, e.submission)
        BY <3>2, <4>1
      <4>3. ConsiderSigned(q, e) = IF AnsweredBy(q, e.submission, id)
                                   THEN Pair(q, e.entry, id) ELSE Refuse(q, e.entry)
        BY <2>8, <3>2, <4>1 DEF ConsiderSigned
      <4>4. CASE AnsweredBy(q, e.submission, id)
        BY <2>6, <3>1, <4>2, <4>3, <4>4, PassFinds
      <4>5. CASE ~AnsweredBy(q, e.submission, id)
        BY <2>7, <4>3, <4>5
      <4>6. QED
        BY <4>4, <4>5
    <3>3. CASE SpentOn(q, e.submission) = {} /\ RoomForOneMore(q)
      <4>1. ConsiderSigned(q, e) = Take(q, e)
        BY <2>8, <3>3 DEF ConsiderSigned
      <4>2. QED
        BY <2>6, <3>1, <3>3, <4>1, PassTakes
    <3>4. CASE SpentOn(q, e.submission) = {} /\ ~RoomForOneMore(q)
      BY <2>7, <2>8, <3>4 DEF ConsiderSigned
    <3>5. QED
      BY <3>2, <3>3, <3>4
  <2>9. ASSUME e.submission.session # feed.session PROVE PassOK(ConsiderSigned(q, e))
    BY <2>7, <2>9 DEF ConsiderSigned
  <2>10. QED
    BY <2>5, <2>8, <2>9
<1>6. QED
  BY <1>3, <1>4, <1>5

LEMMA PassStarts ==
    ASSUME Sequencing
    PROVE  PassOK(NewPass)
<1>1. FileOK /\ LiveOK /\ feed.up /\ FeedSideOK
  BY DEF Sequencing, FeedSideOK
<1>2. feed.pins = file.pins /\ PinsOK(file.pins)
  BY <1>1, LiveFields DEF FileOK
<1>3. PinsGrow(feed.pins) /\ feed.pins \in SUBSET AccountKeys
  BY <1>2 DEF PinsGrow, PinsOK
<1>4. <<>> \in Seq(BatchItem) /\ WithBatch(<<>>) = file.messages
  BY <1>1, NoGroup
<1>5. HistoryOK(WithBatch(<<>>))
  BY <1>1, <1>4 DEF FileOK
<1>6. <<>> \in Seq(ToMark) /\ <<>> \in Seq(EntryIds)
  OBVIOUS
<1>7. /\ NewPass \in Pass /\ NewPass.pins = feed.pins /\ NewPass.batch = <<>>
      /\ NewPass.pairs = <<>>
  BY <1>3, <1>4, <1>6 DEF NewPass, Pass
<1>8. ItemsOK(NewPass.pins, <<>>)
  BY DEF ItemsOK
<1>9. QED
  BY <1>3, <1>5, <1>7, <1>8 DEF PassOK

-----------------------------------------------------------------------------
(* The two loops.                                                            *)

LEMMA PassIsSound ==
    ASSUME Sequencing, NEW pinning
    PROVE  PassOK(PassOver(drain.due, pinning))
<1> DEFINE s == drain.due
           n == Len(s)
           V == {p \in Pass : PassOK(p)}
           step == [vi \in V \X (1..n) |-> Consider(vi[1], s[vi[2]], pinning)]
           Solves(g) == g = [t \in SUBSET DOMAIN s |->
                               IF t = {} THEN NewPass
                               ELSE Consider(g[t \ {Max(t)}], s[Max(t)], pinning)]
           iter == CHOOSE g : Solves(g)
<1>1. n \in Nat /\ DOMAIN s = 1..n /\ s \in Seq(Listed)
  <2>1. s \in Seq(Listed)
    BY DEF Sequencing, DrainOK
  <2>2. QED
    BY <2>1
<1>2. PassOver(s, pinning) = iter[1..n]
  BY <1>1 DEF PassOver, FoldLeft, MapThenFoldSet
<1>3. ASSUME NEW v \in V, NEW i \in 1..n PROVE Consider(v, s[i], pinning) \in V
  <2>1. s[i] \in Range(drain.due)
    BY <1>1 DEF Range
  <2>2. PassOK(Consider(v, s[i], pinning))
    BY <2>1, PassConsiders
  <2>3. QED
    BY <2>2 DEF PassOK
<1>4. NewPass \in V /\ step \in [V \X (1..n) -> V]
  <2>1. NewPass \in V
    BY PassStarts DEF PassOK
  <2> HIDE DEF V, n, s
  <2>2. ASSUME NEW vi \in V \X (1..n) PROVE Consider(vi[1], s[vi[2]], pinning) \in V
    <3>1. vi[1] \in V /\ vi[2] \in 1..n
      OBVIOUS
    <3>2. QED
      BY <1>3, <3>1
  <2>3. QED
    BY <2>1, <2>2
<1> HIDE DEF n, V
<1>5. PICK g : FoldsBy(g, NewPass, n, step) /\ \A t \in SUBSET (1..n) : g[t] \in V
  BY <1>1, <1>4, FoldsExist
<1>6. Solves(g)
  <2>1. ASSUME NEW t \in SUBSET (1..n)
        PROVE  FoldValue(g, NewPass, step, t)
                 = IF t = {} THEN NewPass ELSE Consider(g[t \ {Max(t)}], s[Max(t)], pinning)
    <3>1. CASE t = {}
      BY <3>1 DEF FoldValue
    <3>2. CASE t # {}
      <4>1. IsFiniteSet(t) /\ t \subseteq Int
        <5>1. 1 \in Int /\ n \in Int
          BY <1>1
        <5>2. IsFiniteSet(1..n)
          BY <5>1, FS_Interval
        <5>3. IsFiniteSet(t)
          BY <5>2, FS_Subset
        <5>4. t \subseteq Int
          BY <1>1
        <5>5. QED
          BY <5>3, <5>4
      <4>2. Max(t) \in 1..n
        BY <3>2, <4>1, MaxOfFinite
      <4>3. <<g[t \ {Max(t)}], Max(t)>> \in V \X (1..n)
        BY <1>5, <4>2
      <4>4. QED
        BY <3>2, <4>3 DEF FoldValue
    <3>3. QED
      BY <3>1, <3>2
  <2> HIDE DEF step, s
  <2>2. QED
    BY <1>1, <1>5, <2>1 DEF FoldsBy
<1>7. Solves(iter)
  BY <1>6
<1> HIDE DEF step
<1>8. PICK h : h = iter /\ Solves(h)
  BY <1>7
<1> HIDE DEF iter
<1>9. h[1..0] = NewPass
  <2>1. 1..0 = {} /\ {} \in SUBSET DOMAIN s
    OBVIOUS
  <2>2. QED
    BY <1>8, <2>1
<1>10. ASSUME NEW k \in 1..n PROVE h[1..k] = Consider(h[1..(k - 1)], s[k], pinning)
  <2>1. /\ 1..k \in SUBSET (1..n) /\ 1..k # {}
        /\ Max(1..k) = k /\ (1..k) \ {k} = 1..(k - 1)
    BY <1>1, PrefixOfIndices
  <2> HIDE DEF s
  <2>2. QED
    BY <1>1, <1>8, <2>1
<1> HIDE DEF s, Solves
<1> DEFINE good == {k \in Nat : k <= n => h[1..k] \in V}
<1>11. 0 \in good
  BY <1>4, <1>9
<1>12. ASSUME NEW k \in Nat, k \in good PROVE k + 1 \in good
  <2> SUFFICES ASSUME k + 1 <= n PROVE h[1..(k + 1)] \in V
    OBVIOUS
  <2>1. k <= n /\ k + 1 \in 1..n /\ (k + 1) - 1 = k
    BY <1>1
  <2>2. h[1..k] \in V
    BY <1>12, <2>1
  <2>3. h[1..(k + 1)] = Consider(h[1..k], s[k + 1], pinning)
    BY <1>10, <2>1
  <2>4. QED
    BY <1>3, <2>1, <2>2, <2>3
<1>13. n \in good
  <2> HIDE DEF good
  <2>1. QED
    BY <1>1, <1>11, <1>12, EveryNatural
<1>14. h[1..n] \in V
  BY <1>1, <1>13
<1>15. PassOver(s, pinning) \in V
  BY <1>2, <1>8, <1>14
<1>16. QED
  BY <1>15 DEF V, s

-----------------------------------------------------------------------------
(* Records of failures.                                                      *)

LEMMA EntryIdsFinite == IsFiniteSet(EntryIds) /\ EntryIds \subseteq Nat \ {0}
<1>1. Cardinality(Submissions) \in Nat
  BY FinitelyManySubmissions, FS_CardinalityType
<1>2. 1 \in Int /\ Cardinality(Submissions) \in Int
  BY <1>1
<1>3. IsFiniteSet(EntryIds)
  BY <1>2, FS_Interval DEF EntryIds
<1>4. EntryIds \subseteq Nat \ {0}
  BY <1>1 DEF EntryIds
<1>5. QED
  BY <1>3, <1>4

LEMMA FailedFits ==
    ASSUME NEW trouble, TroubleOK(trouble), NEW i \in EntryIds, NEW refused
    PROVE  TroubleOK(Failed(trouble, i, refused))
<1> DEFINE count == Refusals(trouble, i) + (IF refused THEN 1 ELSE 0)
           row == [refusals |-> count, waiting |-> TRUE, givenUp |-> count >= RefusalLimit]
           D == DOMAIN trouble
           after == [j \in D \cup {i} |-> IF j = i THEN row ELSE trouble[j]]
<1>1. trouble \in [D -> Record] /\ D \subseteq EntryIds /\ Cardinality(D) <= MaxTrouble
  BY DEF TroubleOK
<1>2. IsFiniteSet(D) /\ Cardinality(D) \in Nat
  BY <1>1, EntryIdsFinite, FS_Subset, FS_CardinalityType
<1>3. CASE i \notin D /\ Cardinality(D) >= MaxTrouble
  BY <1>3 DEF Failed
<1>4. CASE ~(i \notin D /\ Cardinality(D) >= MaxTrouble)
  <2>1. Failed(trouble, i, refused) = after
    BY <1>4 DEF Failed
  <2>2. Refusals(trouble, i) \in Nat
    BY <1>1 DEF Refusals, Record
  <2>3. row \in Record
    <3>1. count \in Nat
      BY <2>2
    <3>2. (count >= RefusalLimit) \in BOOLEAN
      OBVIOUS
    <3> HIDE DEF count
    <3>3. QED
      BY <3>1, <3>2 DEF Record
  <2> HIDE DEF row
  <2>4. DOMAIN after = D \cup {i} /\ after \in [DOMAIN after -> Record]
    BY <1>1, <2>3
  <2>5. Cardinality(D \cup {i}) <= MaxTrouble
    <3>1. CASE i \in D
      <4>1. D \cup {i} = D
        BY <3>1
      <4>2. QED
        BY <1>1, <4>1
    <3>2. CASE i \notin D
      <4>2. Cardinality(D \cup {i}) = Cardinality(D) + 1
        BY <1>2, <3>2, FS_AddElement
      <4>3. MaxTrouble \in Nat
        BY DrainLimits
      <4>4. QED
        BY <1>2, <1>4, <3>2, <4>2, <4>3
    <3>3. QED
      BY <3>1, <3>2
  <2>6. TroubleOK(after)
    <3> HIDE DEF after, D
    <3>1. D \cup {i} \subseteq EntryIds
      BY <1>1
    <3>2. QED
      BY <2>4, <2>5, <3>1 DEF TroubleOK
  <2>7. QED
    BY <2>1, <2>6
<1>5. QED
  BY <1>3, <1>4

LEMMA PartOfTrouble ==
    ASSUME NEW trouble, TroubleOK(trouble), NEW i
    PROVE  TroubleOK(Succeeded(trouble, i))
<1> DEFINE D == DOMAIN trouble
           E == D \ {i}
<1>1. trouble \in [D -> Record] /\ D \subseteq EntryIds /\ Cardinality(D) <= MaxTrouble
  BY DEF TroubleOK
<1>2. Succeeded(trouble, i) = [j \in E |-> trouble[j]]
  BY DEF Succeeded, Restrict
<1>3. IsFiniteSet(D) /\ Cardinality(D) \in Nat
  BY <1>1, EntryIdsFinite, FS_Subset, FS_CardinalityType
<1>4. Cardinality(E) <= Cardinality(D) /\ Cardinality(E) \in Nat
  <2>1. E \in SUBSET D
    OBVIOUS
  <2>2. QED
    BY <1>3, <2>1, FS_Subset, FS_CardinalityType
<1>5. Cardinality(E) <= MaxTrouble
  BY <1>1, <1>3, <1>4, DrainLimits
<1>6. QED
  BY <1>1, <1>2, <1>5 DEF TroubleOK

LEMMA AllFailedFits ==
    ASSUME NEW trouble, TroubleOK(trouble), NEW refused \in Seq(EntryIds)
    PROVE  TroubleOK(AllFailed(trouble, refused))
<1> DEFINE s == refused
           n == Len(s)
           V == {t \in UNION {[E -> Record] : E \in SUBSET EntryIds} : TroubleOK(t)}
           step == [vi \in V \X (1..n) |-> Failed(vi[1], s[vi[2]], TRUE)]
           Solves(g) == g = [t \in SUBSET DOMAIN s |->
                               IF t = {} THEN trouble
                               ELSE Failed(g[t \ {Max(t)}], s[Max(t)], TRUE)]
           iter == CHOOSE g : Solves(g)
<1>1. n \in Nat /\ DOMAIN s = 1..n
  OBVIOUS
<1>2. AllFailed(trouble, s) = iter[1..n]
  BY <1>1 DEF AllFailed, FoldLeft, MapThenFoldSet
<1>0. ASSUME NEW t, TroubleOK(t) PROVE t \in V
  <2>1. t \in [DOMAIN t -> Record] /\ DOMAIN t \in SUBSET EntryIds
    BY <1>0 DEF TroubleOK
  <2>2. QED
    BY <1>0, <2>1
<1>3. ASSUME NEW v \in V, NEW i \in 1..n PROVE Failed(v, s[i], TRUE) \in V
  <2>1. s[i] \in EntryIds
    BY <1>1
  <2>2. TroubleOK(Failed(v, s[i], TRUE))
    BY <2>1, FailedFits
  <2>3. QED
    BY <1>0, <2>2
<1>4. trouble \in V /\ step \in [V \X (1..n) -> V]
  <2>1. trouble \in V
    BY <1>0
  <2> HIDE DEF V, n, s
  <2>2. ASSUME NEW vi \in V \X (1..n) PROVE Failed(vi[1], s[vi[2]], TRUE) \in V
    <3>1. vi[1] \in V /\ vi[2] \in 1..n
      OBVIOUS
    <3>2. QED
      BY <1>3, <3>1
  <2>3. QED
    BY <2>1, <2>2
<1> HIDE DEF n, V
<1>5. PICK g : FoldsBy(g, trouble, n, step) /\ \A t \in SUBSET (1..n) : g[t] \in V
  BY <1>1, <1>4, FoldsExist
<1>6. Solves(g)
  <2>1. ASSUME NEW t \in SUBSET (1..n)
        PROVE  FoldValue(g, trouble, step, t)
                 = IF t = {} THEN trouble ELSE Failed(g[t \ {Max(t)}], s[Max(t)], TRUE)
    <3>1. CASE t = {}
      BY <3>1 DEF FoldValue
    <3>2. CASE t # {}
      <4>1. IsFiniteSet(t) /\ t \subseteq Int
        <5>1. 1 \in Int /\ n \in Int
          BY <1>1
        <5>2. IsFiniteSet(1..n)
          BY <5>1, FS_Interval
        <5>3. IsFiniteSet(t)
          BY <5>2, FS_Subset
        <5>4. t \subseteq Int
          BY <1>1
        <5>5. QED
          BY <5>3, <5>4
      <4>2. Max(t) \in 1..n
        BY <3>2, <4>1, MaxOfFinite
      <4>3. <<g[t \ {Max(t)}], Max(t)>> \in V \X (1..n)
        BY <1>5, <4>2
      <4>4. QED
        BY <3>2, <4>3 DEF FoldValue
    <3>3. QED
      BY <3>1, <3>2
  <2> HIDE DEF step, s
  <2>2. QED
    BY <1>1, <1>5, <2>1 DEF FoldsBy
<1>7. Solves(iter)
  BY <1>6
<1> HIDE DEF step
<1>8. PICK h : h = iter /\ Solves(h)
  BY <1>7
<1> HIDE DEF iter
<1>9. h[1..0] = trouble
  <2>1. 1..0 = {} /\ {} \in SUBSET DOMAIN s
    OBVIOUS
  <2>2. QED
    BY <1>8, <2>1
<1>10. ASSUME NEW k \in 1..n PROVE h[1..k] = Failed(h[1..(k - 1)], s[k], TRUE)
  <2>1. /\ 1..k \in SUBSET (1..n) /\ 1..k # {}
        /\ Max(1..k) = k /\ (1..k) \ {k} = 1..(k - 1)
    BY <1>1, PrefixOfIndices
  <2> HIDE DEF s
  <2>2. QED
    BY <1>1, <1>8, <2>1
<1> HIDE DEF s, Solves
<1> DEFINE good == {k \in Nat : k <= n => h[1..k] \in V}
<1>11. 0 \in good
  BY <1>4, <1>9
<1>12. ASSUME NEW k \in Nat, k \in good PROVE k + 1 \in good
  <2> SUFFICES ASSUME k + 1 <= n PROVE h[1..(k + 1)] \in V
    OBVIOUS
  <2>1. k <= n /\ k + 1 \in 1..n /\ (k + 1) - 1 = k
    BY <1>1
  <2>2. h[1..k] \in V
    BY <1>12, <2>1
  <2>3. h[1..(k + 1)] = Failed(h[1..k], s[k + 1], TRUE)
    BY <1>10, <2>1
  <2>4. QED
    BY <1>3, <2>1, <2>2, <2>3
<1>13. n \in good
  <2> HIDE DEF good
  <2>1. QED
    BY <1>1, <1>11, <1>12, EveryNatural
<1>14. h[1..n] \in V
  BY <1>1, <1>13
<1>15. AllFailed(trouble, s) \in V
  BY <1>2, <1>8, <1>14
<1>16. QED
  BY <1>15 DEF V, s

-----------------------------------------------------------------------------
(* The marks of a pass.                                                      *)

SentFrom(marks, pairs, messages) ==
    /\ Len(marks) \in Nat /\ Len(marks) <= MarkBudget /\ DOMAIN marks = 1..Len(marks)
    /\ \A i \in DOMAIN marks : \E j \in DOMAIN pairs : marks[i] = MarkFor(pairs[j], messages)

LEMMA FirstTakes ==
    ASSUME NEW S, NEW s \in Seq(S), NEW n \in Nat
    PROVE  /\ FirstOf(n, s) \in Seq(S) /\ Len(FirstOf(n, s)) <= n
           /\ Len(FirstOf(n, s)) <= Len(s)
           /\ \A i \in DOMAIN FirstOf(n, s) : i \in DOMAIN s /\ FirstOf(n, s)[i] = s[i]
<1> DEFINE k == IF n < Len(s) THEN n ELSE Len(s)
<1>1. k \in 0..Len(s) /\ k <= n /\ Len(s) \in Nat /\ DOMAIN s = 1..Len(s)
  OBVIOUS
<1>2. FirstOf(n, s) = SubSeq(s, 1, k)
  BY DEF FirstOf
<1> HIDE DEF k
<1>3. /\ SubSeq(s, 1, k) \in Seq(S) /\ Len(SubSeq(s, 1, k)) = k
      /\ DOMAIN SubSeq(s, 1, k) = 1..k /\ \A i \in 1..k : SubSeq(s, 1, k)[i] = s[i]
  BY <1>1
<1>4. QED
  BY <1>1, <1>2, <1>3

LEMMA MarksSent ==
    ASSUME NEW pairs \in Seq(ToMark), NEW messages
    PROVE  SentFrom(MarksFor(pairs, messages), pairs, messages)
<1> DEFINE sent == FirstOf(MarkBudget, pairs)
           marks == [i \in DOMAIN sent |-> MarkFor(sent[i], messages)]
<1>1. MarkBudget \in Nat
  BY DrainLimits
<1>2. /\ sent \in Seq(ToMark) /\ Len(sent) <= MarkBudget
      /\ \A i \in DOMAIN sent : i \in DOMAIN pairs /\ sent[i] = pairs[i]
  BY <1>1, FirstTakes
<1> HIDE DEF sent
<1>3. DOMAIN sent = 1..Len(sent) /\ Len(sent) \in Nat
  BY <1>2
<1>4. DOMAIN marks = 1..Len(sent) /\ \A i \in DOMAIN marks : marks[i] = MarkFor(pairs[i], messages)
  BY <1>2, <1>3
<1>5. Len(marks) = Len(sent)
  BY <1>3, <1>4
<1>6. MarksFor(pairs, messages) = marks
  BY DEF MarksFor, sent
<1> HIDE DEF marks
<1>7. QED
  BY <1>2, <1>3, <1>4, <1>5, <1>6 DEF SentFrom

\* What is marked was decided by the pass, and what the pass itself put into
\* the log is marked only if it got there.
MarkedOf(marked, pairs, sequenced) ==
    /\ marked \in Seq(ToMark)
    /\ \A i \in DOMAIN marked : \E j \in DOMAIN pairs :
          marked[i] = pairs[j] /\ (pairs[j].fresh => sequenced)

LEMMA PairsMarked ==
    ASSUME NEW pass, pass.pairs \in Seq(ToMark), NEW sequenced
    PROVE  MarkedOf(PairsToMark(pass, sequenced), pass.pairs, sequenced)
<1> DEFINE s == pass.pairs
           F == {p \in Range(s) : p.fresh /\ sequenced}
           O == {p \in Range(s) : ~p.fresh}
           a == Within(s, F)
           b == Within(s, O)
           m == a \o b
<1>1. a \in Seq(ToMark) /\ TakenFrom(a, s, F)
  BY WithinTakes
<1>2. b \in Seq(ToMark) /\ TakenFrom(b, s, O)
  BY WithinTakes
<1>3. \A i \in DOMAIN a : \E j \in DOMAIN s : a[i] = s[j] /\ (s[j].fresh => sequenced)
  <2> HIDE DEF a, b, s
  <2>1. ASSUME NEW i \in DOMAIN a
        PROVE  \E j \in DOMAIN s : a[i] = s[j] /\ (s[j].fresh => sequenced)
    <3>1. a[i] \in F
      BY <1>1 DEF TakenFrom
    <3>2. PICK j \in DOMAIN s : a[i] = s[j]
      BY <1>1 DEF TakenFrom
    <3>3. QED
      BY <3>1, <3>2
  <2>2. QED
    BY <2>1
<1>4. \A i \in DOMAIN b : \E j \in DOMAIN s : b[i] = s[j] /\ (s[j].fresh => sequenced)
  <2> HIDE DEF a, b, s
  <2>1. ASSUME NEW i \in DOMAIN b
        PROVE  \E j \in DOMAIN s : b[i] = s[j] /\ (s[j].fresh => sequenced)
    <3>1. b[i] \in O
      BY <1>2 DEF TakenFrom
    <3>2. PICK j \in DOMAIN s : b[i] = s[j]
      BY <1>2 DEF TakenFrom
    <3>3. QED
      BY <3>1, <3>2
  <2>2. QED
    BY <2>1
<1>5. PairsToMark(pass, sequenced) = m
  BY DEF PairsToMark
<1> HIDE DEF a, b
<1>6. /\ m \in Seq(ToMark) /\ DOMAIN m = 1..(Len(a) + Len(b)) /\ Len(a) \in Nat /\ Len(b) \in Nat
      /\ DOMAIN a = 1..Len(a) /\ DOMAIN b = 1..Len(b)
      /\ \A i \in 1..Len(a) : m[i] = a[i]
      /\ \A i \in 1..Len(b) : m[Len(a) + i] = b[i]
  BY <1>1, <1>2
<1> HIDE DEF m, s
<1>7. ASSUME NEW i \in DOMAIN m
      PROVE  \E j \in DOMAIN s : m[i] = s[j] /\ (s[j].fresh => sequenced)
  <2>1. CASE i <= Len(a)
    <3>1. i \in DOMAIN a /\ m[i] = a[i]
      BY <1>6, <2>1
    <3>2. QED
      BY <1>3, <3>1
  <2>2. CASE ~(i <= Len(a))
    <3>1. PICK k \in DOMAIN b : m[i] = b[k]
      <4>1. i - Len(a) \in 1..Len(b) /\ Len(a) + (i - Len(a)) = i
        BY <1>6, <2>2
      <4>2. QED
        BY <1>6, <4>1
    <3>2. QED
      BY <1>4, <3>1
  <2>3. QED
    BY <2>1, <2>2
<1>8. QED
  BY <1>5, <1>6, <1>7 DEF MarkedOf, s

-----------------------------------------------------------------------------
(* What stays true as the log and the inbox go on.                           *)

\* Entries stay, until another database takes this one's place.
InboxGoesOn ==
    \/ inbox'.epoch > inbox.epoch
    \/ /\ inbox'.epoch = inbox.epoch
       /\ \A i \in DOMAIN inbox.entries :
             /\ i \in DOMAIN inbox'.entries
             /\ inbox'.entries[i].submission = inbox.entries[i].submission

LEMMA AsksOnward ==
    ASSUME ListingInv, ListingInv', InboxGoesOn,
           NEW epoch \in Nat, NEW i, NEW session, NEW content, Asks(epoch, i, session, content)
    PROVE  Asks(epoch, i, session, content)'
<1>1. inbox.epoch \in Nat /\ inbox'.epoch \in Nat
  BY DEF ListingInv, TablesOK
<1>2. CASE inbox'.epoch > inbox.epoch
  BY <1>1, <1>2 DEF Asks
<1>3. CASE ~(inbox'.epoch > inbox.epoch)
  BY <1>1, <1>3 DEF Asks, InboxGoesOn
<1>4. QED
  BY <1>2, <1>3

LEMMA MarkOnward ==
    ASSUME HistoriesOK, HistoriesOK', Grows, ListingInv, ListingInv', InboxGoesOn,
           NEW m, MarkOK(m)
    PROVE  MarkOK(m)'
<1>1. /\ m \in Mark /\ m.session \in DOMAIN histories /\ Included(m)
      /\ Asks(m.epoch, m.entry, m.session, m.message)
  BY DEF MarkOK
<1>2. m.epoch \in Nat /\ m.id \in Nat \ {0} /\ m.size \in Nat \ {0}
  BY <1>1 DEF Mark
<1>3. Asks(m.epoch, m.entry, m.session, m.message)'
  BY <1>1, <1>2, AsksOnward
<1>4. PICK g, h : g = histories[m.session] /\ h = histories'[m.session]
  OBVIOUS
<1>5. m.session \in DOMAIN histories' /\ \A i \in DOMAIN g : i \in DOMAIN h /\ h[i] = g[i]
  BY <1>1, <1>4 DEF Grows
<1>6. g \in Seq(Message) /\ h \in Seq(Message)
  BY <1>1, <1>4, <1>5 DEF HistoriesOK
<1>7. /\ m.id \in 1..m.size /\ m.size <= Len(g)
      /\ g[m.id] = [id |-> m.id, content |-> m.message]
  BY <1>1, <1>4 DEF Included
<1>8. m.id \in DOMAIN g /\ m.size \in DOMAIN g
  BY <1>2, <1>6, <1>7
<1>9. m.size <= Len(h) /\ h[m.id] = [id |-> m.id, content |-> m.message]
  <2>1. m.size \in DOMAIN h
    BY <1>5, <1>8
  <2>2. m.size <= Len(h)
    BY <1>6, <2>1
  <2>3. QED
    BY <1>5, <1>7, <1>8, <2>2
<1>10. Included(m)'
  BY <1>4, <1>7, <1>9 DEF Included
<1>11. QED
  BY <1>1, <1>3, <1>5, <1>10 DEF MarkOK

LEMMA CarriesOnward ==
    ASSUME Grows, NEW session, NEW id, NEW content, Carries(session, id, content)
    PROVE  Carries(session, id, content)'
BY DEF Grows, Carries

LEMMA PairingsGoOn ==
    ASSUME PairingsFit, FileOK, ListingInv, ListingInv', InboxGoesOn, UNCHANGED file
    PROVE  PairingsFit'
<1>1. ASSUME NEW p \in file.pairings
      PROVE  Asks(p.epoch, p.entry, file.head.session, file.messages[p.id].content)'
  <2>1. p.epoch \in Nat
    BY DEF FileOK, PairingsOK, Pairing
  <2>2. PICK e, i, s, c : e = p.epoch /\ i = p.entry /\ s = file.head.session
                          /\ c = file.messages[p.id].content
    OBVIOUS
  <2>3. Asks(e, i, s, c)
    BY <2>2 DEF PairingsFit
  <2>4. Asks(e, i, s, c)'
    BY <2>1, <2>2, <2>3, AsksOnward
  <2>5. QED
    BY <2>2, <2>4 DEF Asks
<1>2. QED
  BY <1>1 DEF PairingsFit, Asks

LEMMA PairingsInSilence ==
    ASSUME PairingsFit, NEW pins, Silent(pins), UNCHANGED inbox
    PROVE  PairingsFit'
BY DEF PairingsFit, Silent, Asks

\* A pairing is of an entry and what stands in the log for it.
LEMMA PairingsWithGroup ==
    ASSUME FeedSideOK, feed.up, PairingsFit, NEW batch, NEW pins, GroupFits(batch, pins),
           Published(batch, pins), UNCHANGED inbox,
           \A p \in PairsOf(batch) :
               Asks(p.epoch, p.entry, feed.session, WithBatch(batch)[p.id].content)
    PROVE  PairingsFit'
<1> DEFINE h == WithBatch(batch)
           k == Len(histories)
<1>1. FileOK /\ LiveOK /\ feed.session = k /\ batch \in Seq(BatchItem)
  BY LiveFields DEF FeedSideOK, GroupFits
<1>2. RowsAre(Len(file.messages), batch, h)
  BY <1>1, RowsWithBatch
<1>3. /\ file'.messages = h /\ file'.pairings = file.pairings \cup PairsOf(batch)
      /\ file'.head.session = k
  BY DEF Published
<1>4. PICK n : n = Len(file.messages)
  OBVIOUS
<1>5. file.messages \in Seq(Message) /\ n \in Nat /\ DOMAIN file.messages = 1..n
  BY <1>1, <1>4 DEF FileOK, HistoryOK
<1>6. \A i \in 1..n : h[i] = file.messages[i]
  BY <1>2, <1>4 DEF RowsAre
<1> HIDE DEF h, k
<1>7. ASSUME NEW p \in file.pairings
      PROVE  Asks(p.epoch, p.entry, k, h[p.id].content)
  <2>1. p.id \in DOMAIN file.messages
    BY <1>1 DEF FileOK, PairingsOK
  <2>2. file.messages # <<>>
    BY <1>5, <2>1
  <2>3. file.head.session = k
    BY <1>1, <2>2 DEF FileOK, k
  <2>4. h[p.id] = file.messages[p.id]
    BY <1>5, <1>6, <2>1
  <2>5. QED
    BY <2>3, <2>4 DEF PairingsFit
<1>8. ASSUME NEW p \in file'.pairings
      PROVE  Asks(p.epoch, p.entry, k, h[p.id].content)
  <2>1. CASE p \in file.pairings
    BY <1>7, <2>1
  <2>2. CASE p \in PairsOf(batch)
    BY <1>1, <2>2 DEF h
  <2>3. QED
    BY <1>3, <2>1, <2>2
<1>9. ASSUME NEW p \in file'.pairings
      PROVE  Asks(p.epoch, p.entry, file.head.session, file.messages[p.id].content)'
  BY <1>3, <1>8 DEF Asks
<1>10. QED
  BY <1>9 DEF PairingsFit, Asks

\* A log that is open stays open while its process runs.
LEMMA StaysOpen ==
    ASSUME FileOK, FileOK', LogIsOpen, Len(file.messages) <= Len(file'.messages)
    PROVE  LogIsOpen'
<1>1. Len(file.messages) \in Nat /\ Len(file.messages) >= Opening /\ Opening \in Nat
  BY LastIsLength, OpeningIsACount DEF LogIsOpen
<1>2. file'.messages \in Seq(Message) /\ \A i \in DOMAIN file'.messages : file'.messages[i].id = i
  BY DEF FileOK, HistoryOK
<1>3. PICK f : f = file'.messages
  OBVIOUS
<1>4. Len(f) >= Opening /\ Len(f) \in Nat
  BY <1>1, <1>2, <1>3
<1>5. CASE f = <<>>
  <2>1. 0 >= Opening
    BY <1>4, <1>5
  <2>2. QED
    BY <1>3, <1>5, <2>1 DEF LogIsOpen, LastId
<1>6. CASE f # <<>>
  <2>1. Len(f) \in DOMAIN f
    BY <1>2, <1>3, <1>6
  <2>2. f[Len(f)].id >= Opening
    BY <1>2, <1>3, <1>4, <2>1
  <2>3. QED
    BY <1>3, <1>6, <2>2 DEF LogIsOpen, LastId
<1>7. QED
  BY <1>5, <1>6

LEMMA StaysOpenInSilence ==
    ASSUME FileOK, FileOK', LogIsOpen, NEW pins, Silent(pins)
    PROVE  LogIsOpen'
<1>1. file'.messages = file.messages
  BY DEF Silent
<1>2. Len(file.messages) \in Nat
  BY LastIsLength
<1>3. QED
  BY <1>1, <1>2, StaysOpen

LEMMA StaysOpenWithGroup ==
    ASSUME FeedSideOK, FeedSideOK', feed.up, LogIsOpen, NEW batch, NEW pins,
           GroupFits(batch, pins), Published(batch, pins)
    PROVE  LogIsOpen'
<1>1. FileOK /\ LiveOK /\ batch \in Seq(BatchItem) /\ FileOK'
  BY DEF FeedSideOK, GroupFits
<1>2. RowsAre(Len(file.messages), batch, WithBatch(batch))
  BY <1>1, RowsWithBatch
<1>3. Len(file'.messages) = Len(file.messages) + Len(batch) /\ Len(file.messages) \in Nat
  BY <1>2 DEF RowsAre, Published
<1>4. Len(batch) \in Nat
  BY <1>1
<1>5. Len(file.messages) <= Len(file'.messages)
  BY <1>3, <1>4
<1>6. QED
  BY <1>1, <1>5, StaysOpen

-----------------------------------------------------------------------------
(* The group of a pass.                                                      *)

LEMMA PassFulfilsOnce ==
    ASSUME Sequencing, NEW p, PassOK(p)
    PROVE  FulfilsOnce(p.batch)
<1> DEFINE b == p.batch
           h == WithBatch(b)
<1>1. /\ FileOK /\ LiveOK /\ feed.up
      /\ \A d, e \in Range(drain.due) : d.entry = e.entry => d.submission = e.submission
  BY DEF Sequencing, FeedSideOK, DueOK
<1>2. b \in Seq(BatchItem) /\ HistoryOK(h) /\ ItemsOK(p.pins, b)
  BY DEF PassOK, Pass
<1>3. RowsAre(Len(file.messages), b, h)
  BY <1>1, <1>2, RowsWithBatch
<1>4. PICK n : n = Len(file.messages)
  OBVIOUS
<1>5. SpendsOnce(h)
  BY <1>2, NonceStandsOnce DEF HistoryOK
<1> HIDE DEF h, b
<1>6. /\ n \in Nat /\ DOMAIN h = 1..(n + Len(b)) /\ DOMAIN b = 1..Len(b) /\ Len(b) \in Nat
      /\ \A i \in 1..Len(b) : h[n + i] = [id |-> n + i, content |-> b[i].content]
  BY <1>2, <1>3, <1>4 DEF RowsAre
<1>7. ASSUME NEW i \in DOMAIN b
      PROVE  \E e \in Range(drain.due) :
                /\ b[i].content = MessageFrom(e.submission)
                /\ b[i].pairing = {[epoch |-> drain.epoch, entry |-> e.entry]}
                /\ PairedAs(e.entry) = {}
                /\ e.submission \in Submissions
  <2>1. PICK e \in Range(drain.due) : b[i] = ItemFor(e) /\ MayGoIn(p.pins, e)
    BY <1>2 DEF ItemsOK
  <2>2. e.submission \in Submissions
    BY DueEntry
  <2>3. QED
    BY <2>1, <2>2 DEF ItemFor, MayGoIn
<1>8. ASSUME NEW i \in DOMAIN b, NEW j \in DOMAIN b, NEW x \in b[i].pairing, NEW y \in b[j].pairing,
             x.epoch = y.epoch, x.entry = y.entry
      PROVE  i = j
  <2>1. PICK d \in Range(drain.due) :
                /\ b[i].content = MessageFrom(d.submission)
                /\ b[i].pairing = {[epoch |-> drain.epoch, entry |-> d.entry]}
                /\ d.submission \in Submissions
    BY <1>7
  <2>2. PICK e \in Range(drain.due) :
                /\ b[j].content = MessageFrom(e.submission)
                /\ b[j].pairing = {[epoch |-> drain.epoch, entry |-> e.entry]}
    BY <1>7
  <2>3. x.entry = d.entry /\ y.entry = e.entry
    BY <2>1, <2>2
  <2>4. d.submission = e.submission
    BY <1>1, <1>8, <2>3
  <2>5. b[i].content = b[j].content /\ b[i].content # Generated
    BY <2>1, <2>2, <2>4, ContentOfOne
  <2>6. /\ n + i \in DOMAIN h /\ n + j \in DOMAIN h
        /\ h[n + i].content = b[i].content /\ h[n + j].content = b[j].content
    <3>1. h[n + i] = [id |-> n + i, content |-> b[i].content]
          /\ h[n + j] = [id |-> n + j, content |-> b[j].content]
      BY <1>6
    <3>2. n + i \in DOMAIN h /\ n + j \in DOMAIN h
      BY <1>6
    <3>3. QED
      BY <3>1, <3>2
  <2>7. n + i = n + j
    BY <1>5, <2>5, <2>6 DEF SpendsOnce
  <2>8. QED
    BY <1>6, <2>7
<1>9. ASSUME NEW i \in DOMAIN b, NEW x \in b[i].pairing, NEW q \in feed.pairings
      PROVE  ~(x.epoch = q.epoch /\ x.entry = q.entry)
  <2>1. PICK e \in Range(drain.due) :
                /\ b[i].pairing = {[epoch |-> drain.epoch, entry |-> e.entry]}
                /\ PairedAs(e.entry) = {}
    BY <1>7
  <2>2. x.epoch = drain.epoch /\ x.entry = e.entry
    BY <2>1
  <2>3. QED
    BY <2>1, <2>2 DEF PairedAs
<1>10. QED
  BY <1>8, <1>9 DEF FulfilsOnce, b

LEMMA PassGoesIn ==
    ASSUME Sequencing, NEW p, PassOK(p), p.batch # <<>>
    PROVE  GroupFits(p.batch, p.pins)
<1> DEFINE b == p.batch
           h == WithBatch(b)
<1>1. FeedSideOK /\ FileOK /\ LiveOK /\ feed.up /\ LogIsOpen
  BY DEF Sequencing, FeedSideOK, DueOK
<1>2. /\ b \in Seq(BatchItem) /\ HistoryOK(h) /\ ItemsOK(p.pins, b) /\ PinsGrow(p.pins)
      /\ RoomFor(Len(b), Len(b), Len(b))
  BY DEF PassOK, Pass
<1>3. OpeningOK(h)
  BY <1>1, <1>2, OpeningStays
<1>4. RoomFor(Len(b), Cardinality(SpentBy(Numbered(b))), Cardinality(PairsOf(b)))
  <2>1. RowsAre(Len(file.messages), b, h)
    BY <1>1, <1>2, RowsWithBatch
  <2>2. Numbered(b) \in Seq(Message) /\ Len(Numbered(b)) = Len(b) /\ Len(b) \in Nat
    BY <1>2, <2>1 DEF RowsAre
  <2>3. Cardinality(SpentBy(Numbered(b))) \in Nat /\ Cardinality(SpentBy(Numbered(b))) <= Len(b)
    BY <2>2, SpentIsFinite
  <2>4. Cardinality(PairsOf(b)) \in Nat /\ Cardinality(PairsOf(b)) <= Len(b)
    BY <1>2, PairsOfBatch
  <2>5. PICK x, y, z : x = Len(b) /\ y = Cardinality(SpentBy(Numbered(b)))
                       /\ z = Cardinality(PairsOf(b))
    OBVIOUS
  <2>6. x \in Nat /\ y \in Nat /\ z \in Nat /\ x <= x /\ y <= x /\ z <= x
    BY <2>2, <2>3, <2>4, <2>5
  <2>7. RoomFor(x, y, z)
    BY <1>1, <1>2, <2>5, <2>6, RoomForLess
  <2>8. QED
    BY <2>5, <2>7
<1>5. ASSUME NEW i \in DOMAIN b PROVE StandsUnder(b[i].content, p.pins, feed.session)
  <2>1. PICK e \in Range(drain.due) : b[i] = ItemFor(e) /\ MayGoIn(p.pins, e)
    BY <1>2 DEF ItemsOK
  <2>2. e.submission \in Submissions /\ b[i].content = MessageFrom(e.submission)
    BY <2>1, DueEntry
  <2>3. QED
    BY <2>1, <2>2 DEF MayGoIn, StandsUnder
<1>6. FulfilsOnce(b)
  BY PassFulfilsOnce
<1> HIDE DEF h
<1>7. QED
  BY <1>2, <1>3, <1>4, <1>5, <1>6 DEF GroupFits, h

\* The entries a pass pairs asked for what the group says.
LEMMA PassPairsFit ==
    ASSUME Sequencing, NEW p, PassOK(p), NEW x \in PairsOf(p.batch)
    PROVE  Asks(x.epoch, x.entry, feed.session, WithBatch(p.batch)[x.id].content)
<1> DEFINE b == p.batch
           h == WithBatch(b)
<1>1. /\ FileOK /\ LiveOK /\ feed.up
      /\ \A e \in Range(drain.due) :
            Asks(drain.epoch, e.entry, e.submission.session, MessageFrom(e.submission))
  BY DEF Sequencing, FeedSideOK, DueOK
<1>2. b \in Seq(BatchItem) /\ ItemsOK(p.pins, b)
  BY DEF PassOK, Pass
<1>3. RowsAre(Len(file.messages), b, h)
  BY <1>1, <1>2, RowsWithBatch
<1>4. PICK i \in DOMAIN b : \E r \in b[i].pairing :
        x = [epoch |-> r.epoch, entry |-> r.entry, id |-> feed.nextId + i - 1]
  BY <1>2, PairsOfBatch DEF PairRow
<1>5. PICK r \in b[i].pairing :
        x = [epoch |-> r.epoch, entry |-> r.entry, id |-> feed.nextId + i - 1]
  BY <1>4
<1>6. PICK e \in Range(drain.due) : b[i] = ItemFor(e) /\ MayGoIn(p.pins, e)
  BY <1>2 DEF ItemsOK
<1>7. /\ b[i].content = MessageFrom(e.submission)
      /\ r = [epoch |-> drain.epoch, entry |-> e.entry]
      /\ e.submission.session = feed.session
  BY <1>5, <1>6 DEF ItemFor, MayGoIn
<1>8. x.epoch = drain.epoch /\ x.entry = e.entry /\ x.id = feed.nextId + i - 1
  BY <1>5, <1>7
<1>9. h[x.id].content = MessageFrom(e.submission)
  <2>1. PICK n : n = Len(file.messages)
    OBVIOUS
  <2>2. /\ n \in Nat /\ feed.nextId = n + 1
        /\ \A j \in 1..Len(b) : h[n + j] = [id |-> n + j, content |-> b[j].content]
    BY <1>3, <2>1 DEF RowsAre
  <2> HIDE DEF h
  <2>3. i \in 1..Len(b) /\ Len(b) \in Nat
    BY <1>2
  <2>4. feed.nextId + i - 1 = n + i
    BY <2>2, <2>3
  <2>5. h[n + i] = [id |-> n + i, content |-> b[i].content]
    BY <2>2, <2>3
  <2>6. QED
    BY <1>7, <1>8, <2>4, <2>5
<1> HIDE DEF h
<1>10. QED
  BY <1>1, <1>7, <1>8, <1>9 DEF h

\* Where the pairs that are marked stand in the log after the pass.
StandsWhere(p, r, messages) ==
    /\ r.id \in DOMAIN messages
    /\ messages[r.id] = WithBatch(p.batch)[r.id]

LEMMA MarkedStands ==
    ASSUME Sequencing, NEW p, PassOK(p), NEW r \in ToMark, PairFits(p.batch, r),
           NEW messages,
           \/ messages = WithBatch(p.batch)
           \/ ~r.fresh /\ messages = file.messages
    PROVE  StandsWhere(p, r, messages)
<1> DEFINE h == WithBatch(p.batch)
<1>1. FileOK /\ LiveOK /\ feed.up /\ p.batch \in Seq(BatchItem)
  BY DEF Sequencing, FeedSideOK, PassOK, Pass
<1>2. RowsAre(Len(file.messages), p.batch, h)
  BY <1>1, RowsWithBatch
<1>3. r.id \in DOMAIN h /\ r.id \in Nat \ {0} /\ (r.fresh <=> r.id >= feed.nextId)
  BY DEF PairFits, ToMark
<1>4. CASE messages = h
  BY <1>3, <1>4 DEF StandsWhere
<1>5. CASE ~r.fresh /\ messages = file.messages
  <2>1. PICK n : n = Len(file.messages)
    OBVIOUS
  <2>2. n \in Nat /\ feed.nextId = n + 1 /\ \A i \in 1..n : h[i] = file.messages[i]
    BY <1>2, <2>1 DEF RowsAre
  <2>3. DOMAIN file.messages = 1..n
    BY <1>1, <2>1 DEF FileOK, HistoryOK
  <2>4. ~(r.id >= feed.nextId)
    BY <1>3, <1>5
  <2>5. r.id \in 1..n
    BY <1>3, <2>2, <2>4
  <2> HIDE DEF h
  <2>6. r.id \in DOMAIN messages /\ messages[r.id] = h[r.id]
    BY <1>5, <2>2, <2>3, <2>5
  <2>7. QED
    BY <2>6 DEF StandsWhere, h
<1>6. QED
  BY <1>4, <1>5

\* A mark is signed with the head after the pass, and proved by it.
LEMMA MarkIsProved ==
    ASSUME Sequencing, HistoriesOK, HistoriesOK', FileOK', LiveOK', feed'.up,
           Len(histories') = Len(histories),
           UNCHANGED inbox, NEW p, PassOK(p), NEW r \in ToMark, PairFits(p.batch, r),
           NEW messages, messages = file'.messages, StandsWhere(p, r, messages),
           NEW m, m = MarkFor(r, messages)
    PROVE  MarkOK(m)'
<1> DEFINE c == messages[r.id].content
<1>1. FileOK /\ LiveOK /\ feed.up /\ drain.epoch \in Nat \ {0}
  BY DEF Sequencing, FeedSideOK, DrainOK, DueOK
<1>2. feed.session = Len(histories) /\ histories # <<>>
  BY <1>1, LiveFields
<1>3. PICK k : k = feed.session
  OBVIOUS
<1>4. k \in Nat \ {0} /\ k = Len(histories') /\ k \in DOMAIN histories'
  <2>1. histories \in Seq(Seq(Message)) /\ histories' \in Seq(Seq(Message))
    BY DEF HistoriesOK
  <2>2. QED
    BY <1>2, <1>3, <2>1
<1>5. messages = histories'[k] /\ messages \in Seq(Message) /\ HistoryOK(messages)
  <2>1. messages = histories'[k]
    BY <1>4 DEF LiveOK
  <2>2. /\ messages \in Seq(Message) /\ (\A i \in DOMAIN messages : messages[i].id = i)
        /\ OneNonceOneMessage(messages)
    BY DEF FileOK, HistoryOK, OneNonceOneMessage, SpentBy
  <2>3. QED
    BY <2>1, <2>2 DEF HistoryOK
<1>6. r.id \in DOMAIN messages /\ \A i \in DOMAIN messages : messages[i].id = i
  BY <1>5 DEF StandsWhere, HistoryOK
<1>7. messages[r.id] \in Message /\ messages[r.id].id = r.id
  BY <1>5, <1>6
<1>8. messages[r.id] = [id |-> r.id, content |-> c] /\ c \in Contents
  BY <1>7 DEF Message
<1> HIDE DEF c
<1>9. m = [epoch |-> drain.epoch, entry |-> r.entry, id |-> r.id, message |-> c,
           session |-> k, size |-> Len(messages)]
  BY <1>3 DEF MarkFor, c
<1>10. Len(messages) \in Nat \ {0} /\ r.id \in 1..Len(messages) /\ r.id \in Nat \ {0}
       /\ r.entry \in EntryIds
  <2>1. r.id \in Nat \ {0} /\ r.entry \in EntryIds
    BY DEF ToMark
  <2>2. QED
    BY <1>5, <1>6, <2>1
<1>11. m \in Mark
  BY <1>1, <1>4, <1>8, <1>9, <1>10 DEF Mark
<1>12. /\ m.epoch = drain.epoch /\ m.entry = r.entry /\ m.id = r.id /\ m.message = c
       /\ m.session = k /\ m.size = Len(messages)
  BY <1>9
<1>13. Asks(drain.epoch, r.entry, k, c)
  <2>1. Asks(drain.epoch, r.entry, feed.session, WithBatch(p.batch)[r.id].content)
    BY DEF PairFits
  <2>2. WithBatch(p.batch)[r.id].content = c
    BY DEF StandsWhere, c
  <2>3. QED
    BY <1>3, <2>1, <2>2
<1>14. Asks(m.epoch, m.entry, m.session, m.message)'
  BY <1>12, <1>13 DEF Asks
<1>15. Included(m)'
  BY <1>5, <1>8, <1>10, <1>12 DEF Included
<1>16. QED
  BY <1>4, <1>11, <1>12, <1>14, <1>15 DEF MarkOK

\* What is marked of a pass, whatever became of its group.
MarkedFits(p, sequenced, messages) ==
    \A r \in ToMark :
        PairFits(p.batch, r) /\ (r.fresh => sequenced) => StandsWhere(p, r, messages)

LEMMA MarksAreProved ==
    ASSUME Sequencing, HistoriesOK, HistoriesOK', FileOK', LiveOK', feed'.up,
           Len(histories') = Len(histories),
           UNCHANGED inbox, NEW p, PassOK(p), NEW sequenced,
           NEW messages, messages = file'.messages, MarkedFits(p, sequenced, messages),
           NEW marks, marks = MarksFor(PairsToMark(p, sequenced), messages)
    PROVE  Len(marks) <= MarkBudget /\ \A m \in Range(marks) : MarkOK(m)'
<1>1. p.pairs \in Seq(ToMark) /\ \A i \in DOMAIN p.pairs : PairFits(p.batch, p.pairs[i])
  BY DEF PassOK, Pass
<1>2. PICK marked : marked = PairsToMark(p, sequenced)
  OBVIOUS
<1>3. MarkedOf(marked, p.pairs, sequenced)
  BY <1>1, <1>2, PairsMarked
<1>4. marked \in Seq(ToMark) /\ marks = MarksFor(marked, messages)
  BY <1>2, <1>3 DEF MarkedOf
<1>5. SentFrom(marks, marked, messages)
  BY <1>4, MarksSent
<1>6. ASSUME NEW m \in Range(marks) PROVE MarkOK(m)'
  <2>1. PICK i \in DOMAIN marks : m = marks[i]
    BY DEF Range
  <2>2. PICK j \in DOMAIN marked : m = MarkFor(marked[j], messages)
    BY <1>5, <2>1 DEF SentFrom
  <2>3. PICK l \in DOMAIN p.pairs : marked[j] = p.pairs[l] /\ (p.pairs[l].fresh => sequenced)
    BY <1>3 DEF MarkedOf
  <2>4. PICK r : r = p.pairs[l]
    OBVIOUS
  <2>5. r \in ToMark /\ PairFits(p.batch, r) /\ (r.fresh => sequenced)
    BY <1>1, <2>3, <2>4
  <2>6. StandsWhere(p, r, messages) /\ m = MarkFor(r, messages)
    BY <2>2, <2>3, <2>4, <2>5 DEF MarkedFits
  <2>7. QED
    BY <2>5, <2>6, MarkIsProved
<1>7. QED
  BY <1>5, <1>6 DEF SentFrom

\* What the group of a pass comes to: it is in the log, or nothing is.
PassGoes(p, sequenced) ==
    /\ FeedSideOK' /\ Grows /\ feed'.up /\ PairingsFit' /\ LogIsOpen'
    /\ Len(histories') = Len(histories)
    /\ MarkedFits(p, sequenced, file'.messages)

LEMMA PassIsPublished ==
    ASSUME Sequencing, NEW p, PassOK(p), p.batch # <<>>, Published(p.batch, p.pins),
           FeedSideOK', Grows, UNCHANGED inbox
    PROVE  PassGoes(p, TRUE)
<1>1. GroupFits(p.batch, p.pins)
  BY PassGoesIn
<1>2. FeedSideOK /\ feed.up /\ PairingsFit /\ LogIsOpen
  BY DEF Sequencing, DueOK
<1>3. LogIsOpen'
  BY <1>1, <1>2, StaysOpenWithGroup
<1>4. PairingsFit'
  <2>1. \A x \in PairsOf(p.batch) :
           Asks(x.epoch, x.entry, feed.session, WithBatch(p.batch)[x.id].content)
    BY PassPairsFit
  <2>2. QED
    BY <1>1, <1>2, <2>1, PairingsWithGroup
<1>5. file'.messages = WithBatch(p.batch) /\ Len(histories') = Len(histories) /\ feed'.up
  BY DEF Published
<1>6. MarkedFits(p, TRUE, file'.messages)
  <2>1. PICK messages : messages = file'.messages
    OBVIOUS
  <2>2. ASSUME NEW r \in ToMark, PairFits(p.batch, r) PROVE StandsWhere(p, r, messages)
    BY <1>5, <2>1, <2>2, MarkedStands
  <2>3. QED
    BY <2>1, <2>2 DEF MarkedFits
<1>7. QED
  BY <1>3, <1>4, <1>5, <1>6 DEF PassGoes

LEMMA PassIsSilent ==
    ASSUME Sequencing, NEW p, PassOK(p), Silent(p.pins),
           FeedSideOK', Grows, UNCHANGED inbox, NEW sequenced, sequenced => p.batch = <<>>
    PROVE  PassGoes(p, sequenced)
<1>1. FeedSideOK /\ FileOK /\ LiveOK /\ feed.up /\ PairingsFit /\ LogIsOpen /\ FileOK'
  BY DEF Sequencing, DueOK, FeedSideOK
<1>2. LogIsOpen'
  BY <1>1, StaysOpenInSilence
<1>3. PairingsFit'
  BY <1>1, PairingsInSilence
<1>4. file'.messages = file.messages /\ histories' = histories /\ feed'.up
  BY DEF Silent
<1>5. MarkedFits(p, sequenced, file'.messages)
  <2>1. PICK messages : messages = file'.messages
    OBVIOUS
  <2>2. ASSUME NEW r \in ToMark, PairFits(p.batch, r), r.fresh => sequenced
        PROVE  StandsWhere(p, r, messages)
    <3>1. CASE r.fresh
      <4>1. p.batch = <<>>
        BY <2>2, <3>1
      <4>2. messages = WithBatch(p.batch)
        BY <1>1, <1>4, <2>1, <4>1, NoGroup
      <4>3. QED
        BY <2>2, <4>2, MarkedStands
    <3>2. CASE ~r.fresh
      BY <1>4, <2>1, <2>2, <3>2, MarkedStands
    <3>3. QED
      BY <3>1, <3>2
  <2>3. QED
    BY <2>1, <2>2 DEF MarkedFits
<1>6. QED
  BY <1>2, <1>3, <1>4, <1>5 DEF PassGoes

\* The drain after a pass, whose entries are no longer due.
LEMMA DrainAfterPass ==
    ASSUME Sequencing, NEW p, PassOK(p), NEW sequenced, PassGoes(p, sequenced),
           ListingInv, MarksOK, UNCHANGED <<inbox, late>>,
           drain' = AfterPass(p, sequenced)
    PROVE  DrainSideOK'
<1>1. /\ DrainOK /\ HistoriesOK /\ HistoriesOK' /\ FileOK' /\ LiveOK' /\ feed'.up /\ Grows
      /\ Len(histories') = Len(histories) /\ MarkedFits(p, sequenced, file'.messages)
  BY DEF Sequencing, FeedSideOK, PassGoes
<1>2. PICK messages : messages = file'.messages
  OBVIOUS
<1>3. PICK marks, trouble : /\ marks = MarksFor(PairsToMark(p, sequenced), messages)
                            /\ trouble = AllFailed(drain.trouble, p.refused)
  OBVIOUS
<1>4. Len(marks) <= MarkBudget /\ \A m \in Range(marks) : MarkOK(m)'
  BY <1>1, <1>2, <1>3, MarksAreProved
<1>5. TroubleOK(trouble)
  <2>1. p.refused \in Seq(EntryIds)
    BY DEF PassOK, Pass
  <2>2. QED
    BY <1>1, <1>3, <2>1, AllFailedFits DEF DrainOK
<1>6. drain' = [drain EXCEPT !.due = <<>>, !.trouble = trouble, !.marks = marks]
  BY <1>2, <1>3 DEF AfterPass
<1>7. /\ DOMAIN drain' = {"epoch", "trouble", "due", "marks"} /\ drain'.epoch = drain.epoch
      /\ drain'.due = <<>> /\ drain'.trouble = trouble /\ drain'.marks = marks
  BY <1>1, <1>6 DEF DrainOK
<1>8. marks \in Seq(Mark)
  <2>1. /\ Len(marks) \in Nat /\ DOMAIN marks = 1..Len(marks)
    <3>1. p.pairs \in Seq(ToMark)
      BY DEF PassOK, Pass
    <3>2. PICK marked : marked = PairsToMark(p, sequenced)
      OBVIOUS
    <3>3. marked \in Seq(ToMark)
      BY <3>1, <3>2, PairsMarked DEF MarkedOf
    <3>4. SentFrom(marks, marked, messages)
      BY <1>3, <3>2, <3>3, MarksSent
    <3>5. QED
      BY <3>4 DEF SentFrom
  <2>2. ASSUME NEW i \in DOMAIN marks PROVE marks[i] \in Mark
    <3>1. PICK m : m = marks[i]
      OBVIOUS
    <3>2. m \in Range(marks)
      BY <3>1 DEF Range
    <3>3. MarkOK(m)'
      BY <1>4, <3>2
    <3>4. QED
      BY <3>1, <3>3 DEF MarkOK
  <2>3. PICK n : n = Len(marks)
    OBVIOUS
  <2>4. n \in Nat /\ DOMAIN marks = 1..n /\ \A i \in 1..n : marks[i] \in Mark
    BY <2>1, <2>2, <2>3
  <2>5. marks = [i \in 1..n |-> marks[i]]
    <3>1. PICK marked : marked = PairsToMark(p, sequenced)
      OBVIOUS
    <3>2. marks = [i \in DOMAIN FirstOf(MarkBudget, marked) |->
                      MarkFor(FirstOf(MarkBudget, marked)[i], messages)]
      BY <1>3, <3>1 DEF MarksFor
    <3>3. QED
      BY <2>4, <3>2
  <2>6. QED
    BY <2>4, <2>5
<1>9. DrainOK'
  BY <1>1, <1>5, <1>7, <1>8 DEF DrainOK, TroubleOK
<1>10. DueOK'
  <2>1. PageLimit \in Nat
    BY DrainLimits
  <2>2. Range(drain'.due) = {} /\ Len(drain'.due) = 0
    BY <1>7 DEF Range
  <2>3. QED
    BY <1>7, <2>1, <2>2 DEF DueOK
<1>11. MarksOK'
  <2>1. ASSUME NEW m \in late PROVE MarkOK(m)'
    <3>1. MarkOK(m)
      BY DEF MarksOK
    <3>2. ListingInv' /\ InboxGoesOn
      <4>1. InboxGoesOn
        BY DEF InboxGoesOn
      <4>2. ListingInv'
        BY DEF ListingInv, TablesOK, OneKey, ListedOnceUnderItsKey
      <4>3. QED
        BY <4>1, <4>2
    <3>3. QED
      BY <1>1, <3>1, <3>2, MarkOnward
  <2>2. Range(drain'.marks) = Range(marks) /\ Len(drain'.marks) = Len(marks)
    BY <1>7
  <2>3. ASSUME NEW m \in Range(drain'.marks) \cup late' PROVE MarkOK(m)'
    BY <1>4, <2>1, <2>2
  <2>4. QED
    BY <1>4, <2>2, <2>3 DEF MarksOK
<1>12. QED
  BY <1>9, <1>10, <1>11 DEF DrainSideOK

-----------------------------------------------------------------------------
(* The sequencer's steps.                                                    *)

\* What a step does to what anybody may have read.
HistoryStep ==
    \/ UNCHANGED histories
    \/ histories' = Append(histories, <<>>)
    \/ feed.up /\ \E batch, pins : GroupFits(batch, pins) /\ Published(batch, pins)

FeedGoesOn ==
    /\ FeedSideOK' /\ Grows /\ PairingsFit' /\ HistoryStep
    /\ feed.up /\ LogIsOpen => feed'.up /\ LogIsOpen'

LEMMA GroupGoesOn ==
    ASSUME FeedSideOK, feed.up, PairingsFit, UNCHANGED inbox, NEW batch, NEW pins,
           GroupFits(batch, pins), PairsOf(batch) = {}, NEW writes, Sequence(batch, pins, writes)
    PROVE  FeedGoesOn
<1>1. /\ FeedSideOK' /\ Grows
      /\ (writes /\ Published(batch, pins)) \/ (~writes /\ Silent(pins))
  BY SequenceKeepsFeed
<1>2. FileOK /\ FileOK'
  BY <1>1 DEF FeedSideOK
<1>3. CASE Published(batch, pins)
  <2>1. PairingsFit'
    BY <1>3, PairingsWithGroup
  <2>2. feed'.up /\ (LogIsOpen => LogIsOpen')
    BY <1>1, <1>3, StaysOpenWithGroup DEF Published
  <2>3. HistoryStep
    BY <1>3 DEF HistoryStep
  <2>4. QED
    BY <1>1, <2>1, <2>2, <2>3 DEF FeedGoesOn
<1>4. CASE Silent(pins)
  <2>1. PairingsFit'
    BY <1>4, PairingsInSilence
  <2>2. feed'.up /\ (LogIsOpen => LogIsOpen')
    BY <1>2, <1>4, StaysOpenInSilence DEF Silent
  <2>3. HistoryStep
    BY <1>4 DEF HistoryStep, Silent
  <2>4. QED
    BY <1>1, <2>1, <2>2, <2>3 DEF FeedGoesOn
<1>5. QED
  BY <1>1, <1>3, <1>4

LEMMA SilenceGoesOn ==
    ASSUME FeedSideOK, feed.up, PairingsFit, UNCHANGED inbox, NEW batch, NEW pins,
           PinsGrow(pins), PublishNothing(batch, pins)
    PROVE  FeedGoesOn
<1>1. FeedSideOK' /\ Grows /\ Silent(pins)
  BY NothingGoesIn
<1>2. FileOK /\ FileOK'
  BY <1>1 DEF FeedSideOK
<1>3. PairingsFit'
  BY <1>1, PairingsInSilence
<1>4. feed'.up /\ (LogIsOpen => LogIsOpen')
  BY <1>1, <1>2, StaysOpenInSilence DEF Silent
<1>5. HistoryStep
  BY <1>1 DEF HistoryStep, Silent
<1>6. QED
  BY <1>1, <1>3, <1>4, <1>5 DEF FeedGoesOn

LEMMA PinsAsTheyAre ==
    ASSUME FeedSideOK, feed.up
    PROVE  PinsGrow(feed.pins)
<1>1. feed.pins = file.pins /\ PinsOK(file.pins)
  BY LiveFields DEF FeedSideOK, FileOK
<1>2. QED
  BY <1>1 DEF PinsGrow

LEMMA OperatorGoesOn ==
    ASSUME FeedSideOK, PairingsFit, UNCHANGED inbox, NEW s \in OperatorMessages, NEW writes,
           OperatorPublishes(s, writes)
    PROVE  FeedGoesOn
<1>1. /\ feed.up /\ SpentFor(feed.nonces, s) = {} /\ RoomFor(1, 1, 0)
      /\ Sequence(<<Item(s)>>, feed.pins, writes)
  BY DEF OperatorPublishes
<1>2. MessageFrom(s) \in OperatorsOwn
  BY DEF OperatorsOwn
<1>3. PinsGrow(feed.pins) /\ StandsUnder(MessageFrom(s), feed.pins, feed.session)
  BY <1>1, <1>2, PinsAsTheyAre DEF StandsUnder
<1>4. GroupFits(<<Item(s)>>, feed.pins) /\ PairsOf(<<Item(s)>>) = {}
  BY <1>1, <1>2, <1>3, OneMessageFits
<1>5. QED
  BY <1>1, <1>4, GroupGoesOn

LEMMA FrontDoorPins ==
    ASSUME FeedSideOK, NEW s \in Submissions, AtTheFrontDoor(s)
    PROVE  /\ feed.up /\ LogIsOpen /\ PinsGrow(AfterPin(feed.pins, s))
           /\ StandsUnder(MessageFrom(s), AfterPin(feed.pins, s), feed.session)
<1>1. feed.up /\ LogIsOpen /\ s.session = feed.session /\ MayPin(feed.pins, s, TRUE)
  BY DEF AtTheFrontDoor
<1>2. PinsGrow(feed.pins)
  BY <1>1, PinsAsTheyAre
<1>3. PICK pins : pins = AfterPin(feed.pins, s)
  OBVIOUS
<1>4. PinsGrow(pins) /\ IsPinned(pins, s) /\ KeyFits(pins, s)
  BY <1>1, <1>2, <1>3, PinAnother
<1>5. StandsUnder(MessageFrom(s), pins, feed.session)
  BY <1>1, <1>4 DEF StandsUnder
<1>6. QED
  BY <1>1, <1>3, <1>4, <1>5

LEMMA FrontDoorGoesOn ==
    ASSUME FeedSideOK, PairingsFit, UNCHANGED inbox, NEW s \in Submissions, NEW writes,
           FrontDoorPublishes(s, writes)
    PROVE  FeedGoesOn
<1>1. PICK pins : pins = AfterPin(feed.pins, s)
  OBVIOUS
<1>2. /\ AtTheFrontDoor(s) /\ SpentFor(feed.nonces, s) = {} /\ RoomFor(1, 1, 0)
      /\ Sequence(<<Item(s)>>, pins, writes)
  BY <1>1 DEF FrontDoorPublishes
<1>3. /\ feed.up /\ LogIsOpen /\ PinsGrow(pins)
      /\ StandsUnder(MessageFrom(s), pins, feed.session)
  BY <1>1, <1>2, FrontDoorPins
<1>4. GroupFits(<<Item(s)>>, pins) /\ PairsOf(<<Item(s)>>) = {}
  BY <1>2, <1>3, OneMessageFits
<1>5. QED
  BY <1>2, <1>3, <1>4, GroupGoesOn

LEMMA RefusalGoesOn ==
    ASSUME FeedSideOK, PairingsFit, UNCHANGED inbox, NEW s \in Submissions, FrontDoorRefuses(s)
    PROVE  FeedGoesOn
<1>1. PICK pins : pins = AfterPin(feed.pins, s)
  OBVIOUS
<1>2. AtTheFrontDoor(s) /\ PublishNothing(<<Item(s)>>, pins)
  BY <1>1 DEF FrontDoorRefuses
<1>3. feed.up /\ PinsGrow(pins)
  BY <1>1, <1>2, FrontDoorPins
<1>4. QED
  BY <1>2, <1>3, SilenceGoesOn

LEMMA BurstGoesOn ==
    ASSUME FeedSideOK, PairingsFit, UNCHANGED inbox, NEW n \in Nat \ {0}, NEW writes,
           GenerateBurst(n, writes)
    PROVE  FeedGoesOn
<1>1. PICK batch : batch = [i \in 1..n |-> [content |-> Generated, pairing |-> {}]]
  OBVIOUS
<1>2. feed.up /\ LogIsOpen /\ RoomFor(n, 0, 0) /\ Sequence(batch, feed.pins, writes)
  BY <1>1 DEF GenerateBurst
<1>3. GroupFits(batch, feed.pins) /\ PairsOf(batch) = {}
  BY <1>1, <1>2, BurstFits
<1>4. QED
  BY <1>2, <1>3, GroupGoesOn

-----------------------------------------------------------------------------
(* Starting, and losing the file.                                            *)

LEMMA ContinueGoesOn ==
    ASSUME FeedSideOK, PairingsFit, UNCHANGED inbox, ContinueHistory
    PROVE  FeedGoesOn
<1>1. /\ ~feed.up /\ file.head # NoHead /\ feed' = Restored(file.head.session)
      /\ file' = file /\ histories' = histories
  BY DEF ContinueHistory
<1>2. FileOK /\ HistoriesOK /\ PublishedUnderItsKey
  BY DEF FeedSideOK
<1>3. /\ histories # <<>> /\ file.messages = histories[Len(histories)]
      /\ file.head = [session |-> Len(histories), lastId |-> Len(file.messages)]
  BY <1>1, <1>2 DEF FileOK
<1>4. feed' = Restored(Len(histories))
  BY <1>1, <1>3
<1>5. feed'.up
  BY <1>4 DEF Restored
<1>6. Restored(Len(histories))' = Restored(Len(histories))
  BY <1>1 DEF Restored, SpentBy
<1>7. LiveOK'
  BY <1>1, <1>3, <1>4, <1>5, <1>6 DEF LiveOK
<1>8. FileOK'
  BY <1>1, <1>2, FileStays
<1>9. HistoriesOK'
  BY <1>1, <1>2, HistoriesStay
<1>10. PublishedUnderItsKey'
  BY <1>1, <1>2 DEF PublishedUnderItsKey
<1>11. Grows /\ PairingsFit' /\ HistoryStep
  BY <1>1 DEF Grows, PairingsFit, Asks, HistoryStep
<1>12. QED
  BY <1>1, <1>7, <1>8, <1>9, <1>10, <1>11 DEF FeedGoesOn, FeedSideOK

LEMMA NewHistoryGoesOn ==
    ASSUME FeedSideOK, PairingsFit, UNCHANGED inbox, NameNewHistory
    PROVE  FeedGoesOn
<1>1. /\ ~feed.up /\ file.head = NoHead /\ feed' = Restored(Len(histories'))
      /\ file' = file /\ histories' = Append(histories, <<>>)
  BY DEF NameNewHistory
<1>2. /\ FileOK /\ HistoriesOK /\ PublishedUnderItsKey /\ histories \in Seq(Seq(Message))
      /\ file.messages = <<>>
  BY <1>1 DEF FeedSideOK, FileOK, HistoriesOK
<1>3. /\ histories' \in Seq(Seq(Message)) /\ Len(histories') = Len(histories) + 1
      /\ Len(histories) \in Nat /\ DOMAIN histories = 1..Len(histories)
      /\ DOMAIN histories' = 1..(Len(histories) + 1)
      /\ histories'[Len(histories) + 1] = <<>>
      /\ \A k \in 1..Len(histories) : histories'[k] = histories[k]
  <2>1. <<>> \in Seq(Message)
    OBVIOUS
  <2>2. PICK e : e = <<>>
    OBVIOUS
  <2>3. e \in Seq(Message) /\ histories' = Append(histories, e)
    BY <1>1, <2>1, <2>2
  <2>4. QED
    BY <1>2, <2>2, <2>3
<1>4. feed'.up
  BY <1>1 DEF Restored
<1>5. LiveOK'
  <2>1. Restored(Len(histories))' = Restored(Len(histories'))
    BY <1>1 DEF Restored, SpentBy
  <2>2. histories' # <<>> /\ file'.messages = histories'[Len(histories')]
    BY <1>1, <1>2, <1>3
  <2>3. QED
    BY <1>1, <1>4, <2>1, <2>2 DEF LiveOK
<1>6. FileOK'
  BY <1>1, <1>2 DEF FileOK, HistoryOK, OneNonceOneMessage, SpentBy, PinsOK, PairingsOK
<1>7. HistoriesOK'
  <2>1. HistoryOK(<<>>) /\ OpeningOK(<<>>)
    <3>1. SpentBy(<<>>) = {}
      BY DEF SpentBy
    <3>2. QED
      BY <3>1 DEF HistoryOK, OneNonceOneMessage, OpeningOK
  <2>2. ASSUME NEW k \in DOMAIN histories' PROVE HistoryOK(histories'[k]) /\ OpeningOK(histories'[k])
    <3>1. CASE k = Len(histories) + 1
      BY <1>3, <2>1, <3>1
    <3>2. CASE k # Len(histories) + 1
      <4>1. k \in DOMAIN histories /\ histories'[k] = histories[k]
        BY <1>3, <3>2
      <4>2. QED
        BY <1>2, <4>1 DEF HistoriesOK
    <3>3. QED
      BY <3>1, <3>2
  <2>3. QED
    BY <1>3, <2>2 DEF HistoriesOK, HistoryOK, OpeningOK, OneNonceOneMessage, SpentBy, OperatorsOwn
<1>8. PublishedUnderItsKey'
  BY <1>1, <1>2 DEF PublishedUnderItsKey
<1>9. Grows
  BY <1>3 DEF Grows
<1>10. PairingsFit' /\ HistoryStep
  BY <1>1 DEF PairingsFit, Asks, HistoryStep
<1>11. QED
  BY <1>1, <1>5, <1>6, <1>7, <1>8, <1>9, <1>10 DEF FeedGoesOn, FeedSideOK

LEMMA LosingFileGoesOn ==
    ASSUME FeedSideOK, PairingsFit, UNCHANGED inbox, ReplaceFile
    PROVE  FeedGoesOn
<1>1. ~feed.up /\ file' = EmptyFile /\ feed' = feed /\ histories' = histories
  BY DEF ReplaceFile
<1>2. LiveOK /\ HistoriesOK
  BY DEF FeedSideOK
<1>3. /\ file'.messages = <<>> /\ file'.pairings = {} /\ file'.pins = {} /\ file'.head = NoHead
  BY <1>1 DEF EmptyFile
<1>4. FileOK'
  <2>1. SpentBy(<<>>) = {} /\ Cardinality({}) = 0 /\ IsFiniteSet({})
    BY FS_EmptySet DEF SpentBy
  <2>2. NoHead \in SignedHead
    BY DEF NoHead, SignedHead
  <2>3. file' \in [messages : Seq(Message), pairings : SUBSET Pairing,
                   pins : SUBSET AccountKeys, head : SignedHead]
    <3>1. <<>> \in Seq(Message)
      OBVIOUS
    <3>2. QED
      BY <1>1, <2>2, <3>1 DEF EmptyFile
  <2>4. HistoryOK(<<>>)
    BY <2>1 DEF HistoryOK, OneNonceOneMessage
  <2>5. {MaxNonces, MaxAccounts, MaxPairings} \subseteq Nat
    BY RetentionLimits
  <2>6. PinsOK({})
    BY <2>1, <2>5 DEF PinsOK
  <2>7. PairingsOK({}, <<>>)
    BY <2>1, <2>5 DEF PairingsOK
  <2>8. Cardinality(SpentBy(<<>>)) <= MaxNonces
    BY <2>1, <2>5
  <2>9. QED
    BY <1>3, <2>3, <2>4, <2>6, <2>7, <2>8
       DEF FileOK, HistoryOK, OneNonceOneMessage, SpentBy, PinsOK, PairingsOK
<1>5. LiveOK'
  BY <1>1, <1>2 DEF LiveOK, Down
<1>6. HistoriesOK'
  BY <1>1, <1>2, HistoriesStay
<1>7. PublishedUnderItsKey'
  BY <1>3 DEF PublishedUnderItsKey
<1>8. Grows /\ PairingsFit' /\ HistoryStep
  BY <1>1, <1>3 DEF Grows, PairingsFit, HistoryStep
<1>9. QED
  BY <1>1, <1>4, <1>5, <1>6, <1>7, <1>8 DEF FeedGoesOn, FeedSideOK

-----------------------------------------------------------------------------
(* What the sequencer's steps leave of the others' state.                    *)

LEMMA FaultsCounted ==
    ASSUME faults \in 0..MaxFaults
    PROVE  /\ UNCHANGED faults => faults' \in 0..MaxFaults
           /\ Fail => faults' \in 0..MaxFaults
           /\ \A writes \in BOOLEAN : Works(writes) => faults' \in 0..MaxFaults
<1>1. MaxFaults \in Nat
  BY DrainLimits
<1>2. Fail => faults' \in 0..MaxFaults
  BY <1>1 DEF Fail
<1>3. QED
  BY <1>2 DEF Works

LEMMA InboxStays ==
    ASSUME InboxSideOK, Grows, UNCHANGED inbox
    PROVE  InboxSideOK' /\ InboxGoesOn
<1>1. ListingInv'
  BY DEF InboxSideOK, ListingInv, TablesOK, OneKey, ListedOnceUnderItsKey
<1>2. ASSUME NEW i \in DOMAIN inbox.entries, inbox.entries[i].feedId # NotMarked
      PROVE  Carries(inbox.entries[i].submission.session, inbox.entries[i].feedId,
                     MessageFrom(inbox.entries[i].submission))'
  <2>1. PICK s, f, c : /\ s = inbox.entries[i].submission.session /\ f = inbox.entries[i].feedId
                       /\ c = MessageFrom(inbox.entries[i].submission)
    OBVIOUS
  <2>2. Carries(s, f, c)
    BY <1>2, <2>1 DEF InboxSideOK, EntriesOK
  <2>3. Carries(s, f, c)'
    BY <2>2, CarriesOnward
  <2>4. QED
    BY <2>1, <2>3 DEF Carries
<1>3. EntriesOK'
  BY <1>2 DEF InboxSideOK, EntriesOK, Carries
<1>4. QED
  BY <1>1, <1>3 DEF InboxSideOK, NoEvidenceAgainstHonestFeed, InboxGoesOn

\* The drain's page and marks, when neither changes.
LEMMA DrainStays ==
    ASSUME DrainSideOK, HistoriesOK, HistoriesOK', Grows, ListingInv, ListingInv', InboxGoesOn,
           UNCHANGED <<drain, late>>, drain.due # <<>> => feed'.up /\ LogIsOpen'
    PROVE  DrainSideOK'
<1>1. DrainOK'
  BY DEF DrainSideOK, DrainOK, TroubleOK
<1>2. MarksOK'
  <2>1. ASSUME NEW m \in Range(drain.marks) \cup late PROVE MarkOK(m)'
    BY MarkOnward DEF DrainSideOK, MarksOK
  <2>2. QED
    BY <2>1 DEF DrainSideOK, MarksOK
<1>3. DueOK'
  <2>1. /\ Len(drain.due) <= PageLimit
        /\ drain.due # <<>> => drain.epoch # 0
        /\ \A d, e \in Range(drain.due) : d.entry = e.entry => d.submission = e.submission
    BY DEF DrainSideOK, DueOK
  <2>2. ASSUME NEW e \in Range(drain.due)
        PROVE  Asks(drain.epoch, e.entry, e.submission.session, MessageFrom(e.submission))'
    <3>1. PICK a, b, c, d : /\ a = drain.epoch /\ b = e.entry /\ c = e.submission.session
                            /\ d = MessageFrom(e.submission)
      OBVIOUS
    <3>2. a \in Nat /\ Asks(a, b, c, d)
      BY <3>1 DEF DrainSideOK, DrainOK, DueOK
    <3>3. Asks(a, b, c, d)'
      BY <3>2, AsksOnward
    <3>4. QED
      BY <3>1, <3>3 DEF Asks
  <2>3. QED
    BY <2>1, <2>2 DEF DueOK, Asks
<1>4. QED
  BY <1>1, <1>2, <1>3 DEF DrainSideOK

LEMMA FeedStepKeeps ==
    ASSUME IntakeInv, FeedGoesOn, UNCHANGED <<inbox, drain, late>>, faults' \in 0..MaxFaults
    PROVE  IntakeInv'
<1>1. /\ FeedSideOK' /\ Grows /\ PairingsFit' /\ HistoriesOK /\ HistoriesOK'
      /\ InboxSideOK /\ DrainSideOK
  BY DEF IntakeInv, FeedGoesOn, FeedSideOK
<1>2. InboxSideOK' /\ InboxGoesOn
  BY <1>1, InboxStays
<1>3. ListingInv /\ ListingInv'
  BY <1>1, <1>2 DEF InboxSideOK
<1>4. drain.due # <<>> => feed'.up /\ LogIsOpen'
  BY <1>1 DEF DrainSideOK, DueOK, FeedGoesOn
<1>5. DrainSideOK'
  BY <1>1, <1>2, <1>3, <1>4, DrainStays
<1>6. QED
  BY <1>1, <1>2, <1>5 DEF IntakeInv

-----------------------------------------------------------------------------
(* The process dies.                                                         *)

LEMMA NextIsMark ==
    ASSUME MarksOK, DrainOK, drain.marks # <<>>
    PROVE  MarkOK(NextMark) /\ NextMark \in Mark
<1>1. drain.marks \in Seq(Mark)
  BY DEF DrainOK
<1>2. NextMark \in Range(drain.marks)
  <2>1. 1 \in DOMAIN drain.marks /\ NextMark = drain.marks[1]
    BY <1>1 DEF NextMark
  <2>2. QED
    BY <2>1 DEF Range
<1>3. QED
  BY <1>2 DEF MarksOK, MarkOK

LEMMA NothingOnHand ==
    ASSUME drain' = Forgotten, \A m \in late' : MarkOK(m)'
    PROVE  DrainSideOK'
<1>1. /\ drain'.epoch = 0 /\ drain'.trouble = <<>> /\ drain'.due = <<>> /\ drain'.marks = <<>>
      /\ DOMAIN drain' = {"epoch", "trouble", "due", "marks"}
  BY DEF Forgotten, NoEpoch, NoRecords
<1>2. PageLimit \in Nat /\ MarkBudget \in Nat /\ MaxTrouble \in Nat
  BY DrainLimits
<1>3. TroubleOK(<<>>)
  <2>1. DOMAIN <<>> = {} /\ <<>> \in [{} -> Record] /\ Cardinality({}) = 0
    BY FS_EmptySet
  <2>2. QED
    BY <1>2, <2>1 DEF TroubleOK
<1>4. DrainOK'
  <2>1. <<>> \in Seq(Listed) /\ <<>> \in Seq(Mark) /\ 0 \in Nat
    OBVIOUS
  <2>2. QED
    BY <1>1, <1>3, <2>1 DEF DrainOK, TroubleOK
<1>5. Range(<<>>) = {} /\ Len(<<>>) = 0
  BY DEF Range
<1>6. DueOK'
  BY <1>1, <1>2, <1>5 DEF DueOK
<1>7. MarksOK'
  BY <1>1, <1>2, <1>5 DEF MarksOK
<1>8. QED
  BY <1>4, <1>6, <1>7 DEF DrainSideOK

LEMMA CrashKeeps ==
    ASSUME IntakeInv, CrashFeed
    PROVE  IntakeInv' /\ UNCHANGED <<histories, inbox>>
<1>1. /\ Fail /\ feed' = Down /\ drain' = Forgotten
      /\ late' = IF drain.marks = <<>> THEN late ELSE late \cup {NextMark}
      /\ file' = file /\ histories' = histories /\ inbox' = inbox
  BY DEF CrashFeed
<1>2. /\ HistoriesOK /\ FileOK /\ PublishedUnderItsKey /\ InboxSideOK /\ DrainOK /\ MarksOK
      /\ PairingsFit /\ faults \in 0..MaxFaults
  BY DEF IntakeInv, FeedSideOK, DrainSideOK
<1>3. Grows
  BY <1>1 DEF Grows
<1>4. HistoriesOK'
  BY <1>1, <1>2, HistoriesStay
<1>5. FileOK'
  BY <1>1, <1>2, FileStays
<1>6. LiveOK'
  BY <1>1 DEF LiveOK, Down
<1>7. PublishedUnderItsKey'
  BY <1>1, <1>2 DEF PublishedUnderItsKey
<1>8. PairingsFit'
  BY <1>1, <1>2 DEF PairingsFit, Asks
<1>9. InboxSideOK' /\ InboxGoesOn
  BY <1>1, <1>2, <1>3, InboxStays
<1>10. ASSUME NEW m \in late' PROVE MarkOK(m)'
  <2>1. MarkOK(m)
    <3>1. CASE m \in late
      BY <1>2, <3>1 DEF MarksOK
    <3>2. CASE m \notin late
      <4>1. drain.marks # <<>> /\ m = NextMark
        BY <1>1, <3>2
      <4>2. QED
        BY <1>2, <4>1, NextIsMark
    <3>3. QED
      BY <3>1, <3>2
  <2>2. ListingInv /\ ListingInv'
    BY <1>2, <1>9 DEF InboxSideOK
  <2>3. QED
    BY <1>2, <1>3, <1>4, <1>9, <2>1, <2>2, MarkOnward
<1>11. DrainSideOK'
  BY <1>1, <1>10, NothingOnHand
<1>12. faults' \in 0..MaxFaults
  BY <1>1, <1>2, FaultsCounted
<1>13. QED
  BY <1>1, <1>4, <1>5, <1>6, <1>7, <1>8, <1>9, <1>11, <1>12 DEF IntakeInv, FeedSideOK

-----------------------------------------------------------------------------
(* The drain's own steps.                                                    *)

LEMMA SequenceDueKeeps ==
    ASSUME IntakeInv, NEW pinning \in BOOLEAN, NEW writes \in BOOLEAN,
           SequenceDue(pinning, writes)
    PROVE  IntakeInv' /\ HistoryStep /\ UNCHANGED inbox
<1>1. PICK p : /\ p = PassOver(drain.due, pinning)
               /\ IF p.batch = <<>> THEN PublishNothing(<<>>, p.pins)
                  ELSE Sequence(p.batch, p.pins, writes)
               /\ drain' = AfterPass(p, p.batch = <<>> \/ (writes /\ BatchStands(p.batch)))
  BY DEF SequenceDue
<1>2. /\ feed.up /\ drain.due # <<>> /\ inbox' = inbox /\ late' = late
      /\ Works(pinning /\ writes)
  BY DEF SequenceDue
<1>3. Sequencing /\ FeedSideOK /\ InboxSideOK /\ MarksOK /\ faults \in 0..MaxFaults
  BY <1>2 DEF Sequencing, IntakeInv, DrainSideOK
<1>4. PassOK(p)
  BY <1>1, <1>3, PassIsSound
<1>5. PICK sequenced : sequenced = (p.batch = <<>> \/ (writes /\ BatchStands(p.batch)))
  OBVIOUS
<1>6. PassGoes(p, sequenced) /\ HistoryStep
  <2>1. CASE p.batch = <<>>
    <3>1. sequenced = TRUE /\ PublishNothing(<<>>, p.pins)
      BY <1>1, <1>5, <2>1
    <3>2. PinsGrow(p.pins)
      BY <1>4 DEF PassOK
    <3>3. FeedSideOK' /\ Grows /\ Silent(p.pins)
      BY <1>2, <1>3, <3>1, <3>2, NothingGoesIn
    <3>4. PassGoes(p, sequenced)
      BY <1>2, <1>3, <1>4, <2>1, <3>3, PassIsSilent
    <3>5. QED
      BY <3>3, <3>4 DEF HistoryStep, Silent
  <2>2. CASE p.batch # <<>>
    <3>1. Sequence(p.batch, p.pins, writes) /\ GroupFits(p.batch, p.pins)
      BY <1>1, <1>3, <1>4, <2>2, PassGoesIn
    <3>2. /\ FeedSideOK' /\ Grows /\ BatchStands(p.batch)
          /\ (writes /\ Published(p.batch, p.pins)) \/ (~writes /\ Silent(p.pins))
      BY <1>2, <1>3, <3>1, SequenceKeepsFeed
    <3>3. CASE writes /\ Published(p.batch, p.pins)
      <4>1. sequenced = TRUE
        BY <1>5, <3>2, <3>3
      <4>2. PassGoes(p, TRUE)
        BY <1>2, <1>3, <1>4, <2>2, <3>2, <3>3, PassIsPublished
      <4>3. HistoryStep
        BY <1>2, <3>1, <3>3 DEF HistoryStep
      <4>4. QED
        BY <4>1, <4>2, <4>3
    <3>4. CASE ~writes /\ Silent(p.pins)
      <4>1. sequenced = FALSE
        BY <1>5, <2>2, <3>4
      <4>2. PassGoes(p, FALSE)
        BY <1>2, <1>3, <1>4, <3>2, <3>4, PassIsSilent
      <4>3. QED
        BY <3>4, <4>1, <4>2 DEF HistoryStep, Silent
    <3>5. QED
      BY <3>2, <3>3, <3>4
  <2>3. QED
    BY <2>1, <2>2
<1>7. DrainSideOK'
  <2>1. ListingInv
    BY <1>3 DEF InboxSideOK
  <2>2. drain' = AfterPass(p, sequenced)
    BY <1>1, <1>5
  <2>3. QED
    BY <1>2, <1>3, <1>4, <1>6, <2>1, <2>2, DrainAfterPass
<1>8. InboxSideOK'
  BY <1>2, <1>3, <1>6, InboxStays DEF PassGoes
<1>9. faults' \in 0..MaxFaults
  <2>1. (pinning /\ writes) \in BOOLEAN
    OBVIOUS
  <2>2. QED
    BY <1>2, <1>3, <2>1, FaultsCounted
<1>10. QED
  BY <1>2, <1>6, <1>7, <1>8, <1>9 DEF IntakeInv, PassGoes

\* No nonce is listed twice, so the entries are no more than the submissions.
LEMMA EntriesAreFew ==
    ASSUME ListingInv
    PROVE  DOMAIN inbox.entries \subseteq EntryIds
<1> DEFINE n == Len(inbox.entries)
           f == [i \in 1..n |-> inbox.entries[i].submission]
<1>1. inbox.entries \in Seq(Entry) /\ ListedOnceUnderItsKey
  BY DEF ListingInv, TablesOK
<1>2. n \in Nat /\ DOMAIN inbox.entries = 1..n /\ \A i \in 1..n : inbox.entries[i] \in Entry
  BY <1>1
<1> HIDE DEF n
<1>3. f \in [1..n -> Submissions]
  BY <1>2 DEF Entry
<1>4. \A i, j \in 1..n : f[i] = f[j] => i = j
  <2>1. ASSUME NEW i \in 1..n, NEW j \in 1..n, f[i] = f[j], i # j PROVE FALSE
    <3>1. inbox.entries[i].submission = inbox.entries[j].submission
      BY <2>1
    <3>2. QED
      BY <1>1, <1>2, <2>1, <3>1 DEF ListedOnceUnderItsKey
  <2>2. QED
    BY <2>1
<1>5. f \in Injection(1..n, Submissions)
  BY <1>3, <1>4 DEF Injection, IsInjective
<1>6. IsFiniteSet(1..n) /\ Cardinality(1..n) <= Cardinality(Submissions)
  BY <1>5, FinitelyManySubmissions, FS_Injection
<1>7. Cardinality(1..n) = n
  <2>1. 1 \in Int /\ n \in Int
    BY <1>2
  <2>2. Cardinality(1..n) = IF 1 > n THEN 0 ELSE n - 1 + 1
    BY <2>1, FS_Interval
  <2>3. QED
    BY <1>2, <2>2
<1>8. Cardinality(Submissions) \in Nat
  BY FinitelyManySubmissions, FS_CardinalityType
<1>9. 1..n \subseteq 1..Cardinality(Submissions)
  BY <1>2, <1>6, <1>7, <1>8
<1>10. QED
  BY <1>2, <1>9 DEF EntryIds

\* A row of a page is an entry of this database.
ListedHere(e) ==
    /\ e \in Listed /\ e.entry \in DOMAIN inbox.entries
    /\ e.submission = inbox.entries[e.entry].submission

LEMMA PageIsOfEntries ==
    ASSUME ListingInv
    PROVE  PendingInOrder \in Seq(Listed) /\ \A e \in Range(PendingInOrder) : ListedHere(e)
<1> DEFINE row(i) == [entry |-> i, submission |-> inbox.entries[i].submission]
           s == [i \in DOMAIN inbox.entries |-> row(i)]
           T == {row(i) : i \in PendingEntries}
<1>1. inbox.entries \in Seq(Entry)
  BY DEF ListingInv, TablesOK
<1>2. PICK n : n = Len(inbox.entries)
  OBVIOUS
<1>3. n \in Nat /\ DOMAIN inbox.entries = 1..n /\ \A i \in 1..n : inbox.entries[i] \in Entry
  BY <1>1, <1>2
<1>4. \A i \in DOMAIN inbox.entries : row(i) \in Listed
  BY <1>3, EntriesAreFew DEF Listed, Entry
<1>5. s \in Seq(Listed)
  BY <1>3, <1>4
<1>6. \A i \in DOMAIN s : ListedHere(s[i])
  <2>1. ASSUME NEW i \in DOMAIN s PROVE ListedHere(s[i])
    <3>1. i \in DOMAIN inbox.entries /\ s[i] = row(i) /\ row(i) \in Listed
      BY <1>4
    <3>2. row(i).entry = i /\ row(i).submission = inbox.entries[i].submission
      OBVIOUS
    <3> HIDE DEF row, s
    <3>3. QED
      BY <3>1, <3>2 DEF ListedHere
  <2>2. QED
    BY <2>1
<1>7. PendingInOrder = Within(s, T)
  BY DEF PendingInOrder
<1>8. PICK page : page = Within(s, T)
  OBVIOUS
<1> HIDE DEF s, T
<1>9. page \in Seq(Listed) /\ TakenFrom(page, s, T)
  BY <1>5, <1>8, WithinTakes
<1>10. ASSUME NEW e \in Range(page) PROVE ListedHere(e)
  <2>1. PICK i \in DOMAIN page : e = page[i]
    BY DEF Range
  <2>2. PICK j \in DOMAIN s : page[i] = s[j]
    BY <1>9 DEF TakenFrom
  <2>3. QED
    BY <1>6, <2>1, <2>2
<1>11. QED
  BY <1>7, <1>8, <1>9, <1>10

LEMMA DueIsOfPage ==
    ASSUME NEW page \in Seq(Listed), NEW trouble
    PROVE  /\ DueOf(page, trouble) \in Seq(Listed)
           /\ Len(DueOf(page, trouble)) <= Len(page)
           /\ \A e \in Range(DueOf(page, trouble)) : e \in Range(page)
<1> DEFINE T == {e \in Range(page) : Due(trouble, e.entry)}
<1>1. PICK due : due = DueOf(page, trouble)
  OBVIOUS
<1>2. due = Within(page, T)
  BY <1>1 DEF DueOf
<1>3. due \in Seq(Listed) /\ TakenFrom(due, page, T)
  BY <1>2, WithinTakes
<1>4. ASSUME NEW e \in Range(due) PROVE e \in Range(page)
  <2>1. PICK i \in DOMAIN due : e = due[i]
    BY DEF Range
  <2>2. PICK j \in DOMAIN page : due[i] = page[j]
    BY <1>3 DEF TakenFrom
  <2>3. QED
    BY <2>1, <2>2 DEF Range
<1>5. QED
  BY <1>1, <1>3, <1>4 DEF TakenFrom

\* A step of the drain that takes up work and touches nothing else.
LEMMA DrainStepKeeps ==
    ASSUME IntakeInv, UNCHANGED <<file, feed, histories, inbox, late, faults>>, DrainOK', DueOK',
           drain'.marks = drain.marks
    PROVE  IntakeInv'
<1>1. /\ file' = file /\ feed' = feed /\ histories' = histories /\ inbox' = inbox
      /\ late' = late /\ faults' = faults
  OBVIOUS
<1>2. /\ HistoriesOK /\ FileOK /\ LiveOK /\ PublishedUnderItsKey /\ PairingsFit
      /\ InboxSideOK /\ MarksOK /\ faults \in 0..MaxFaults
  BY DEF IntakeInv, FeedSideOK, DrainSideOK
<1>3. Grows
  BY <1>1 DEF Grows
<1>4. HistoriesOK'
  BY <1>1, <1>2, HistoriesStay
<1>5. FileOK'
  BY <1>1, <1>2, FileStays
<1>6. LiveOK'
  BY <1>1, <1>2 DEF LiveOK, Restored, SpentBy, Down
<1>7. PublishedUnderItsKey' /\ PairingsFit'
  BY <1>1, <1>2 DEF PublishedUnderItsKey, PairingsFit, Asks
<1>8. InboxSideOK' /\ InboxGoesOn
  BY <1>1, <1>2, <1>3, InboxStays
<1>9. MarksOK'
  <2>1. ListingInv /\ ListingInv'
    BY <1>2, <1>8 DEF InboxSideOK
  <2>2. ASSUME NEW m \in Range(drain.marks) \cup late PROVE MarkOK(m)'
    BY <1>2, <1>3, <1>4, <1>8, <2>1, MarkOnward DEF MarksOK
  <2>3. QED
    BY <1>1, <1>2, <2>2 DEF MarksOK
<1>10. QED
  BY <1>1, <1>2, <1>4, <1>5, <1>6, <1>7, <1>8, <1>9 DEF IntakeInv, FeedSideOK, DrainSideOK

LEMMA PollKeeps ==
    ASSUME IntakeInv, Poll
    PROVE  IntakeInv'
<1>1. PICK page, epoch, trouble : page = PendingInOrder /\ epoch = inbox.epoch
                                  /\ trouble = TroubleIn(epoch)
  OBVIOUS
<1>2. PICK due : due = DueOf(FirstOf(PageLimit, page), trouble)
  OBVIOUS
<1>3. /\ feed.up /\ LogIsOpen
      /\ drain' = [drain EXCEPT !.epoch = epoch, !.trouble = trouble, !.due = due]
      /\ file' = file /\ feed' = feed /\ histories' = histories /\ inbox' = inbox
      /\ late' = late /\ faults' = faults
  BY <1>1, <1>2 DEF Poll, TakePage, DrainIsIdle
<1>4. DrainOK /\ ListingInv /\ EntriesOK /\ epoch \in Nat \ {0}
  BY <1>1 DEF IntakeInv, DrainSideOK, InboxSideOK, ListingInv, TablesOK, EntriesOK
<1>5. page \in Seq(Listed) /\ \A e \in Range(page) : ListedHere(e)
  BY <1>1, <1>4, PageIsOfEntries
<1>6. PageLimit \in Nat
  BY DrainLimits
<1>7. PICK first : first = FirstOf(PageLimit, page)
  OBVIOUS
<1>8. /\ first \in Seq(Listed) /\ Len(first) <= PageLimit
      /\ \A i \in DOMAIN first : i \in DOMAIN page /\ first[i] = page[i]
  BY <1>5, <1>6, <1>7, FirstTakes
<1>9. \A e \in Range(first) : ListedHere(e)
  BY <1>5, <1>8 DEF Range
<1>10. /\ due \in Seq(Listed) /\ Len(due) <= Len(first) /\ \A e \in Range(due) : e \in Range(first)
  BY <1>2, <1>7, <1>8, DueIsOfPage
<1>11. Len(due) <= PageLimit /\ \A e \in Range(due) : ListedHere(e)
  <2>1. Len(due) \in Nat /\ Len(first) \in Nat
    BY <1>8, <1>10
  <2>2. QED
    BY <1>6, <1>8, <1>9, <1>10, <2>1
<1>12. TroubleOK(trouble)
  <2>1. MaxTrouble \in Nat
    BY DrainLimits
  <2>2. DOMAIN <<>> = {} /\ <<>> \in [{} -> Record] /\ Cardinality({}) = 0
    BY FS_EmptySet
  <2>3. TroubleOK(<<>>)
    BY <2>1, <2>2 DEF TroubleOK
  <2>4. QED
    BY <1>1, <1>4, <2>3 DEF TroubleIn, NoRecords, DrainOK
<1>13. /\ DOMAIN drain' = {"epoch", "trouble", "due", "marks"} /\ drain'.epoch = epoch
       /\ drain'.trouble = trouble /\ drain'.due = due /\ drain'.marks = drain.marks
  BY <1>3, <1>4 DEF DrainOK
<1>14. DrainOK'
  BY <1>4, <1>10, <1>12, <1>13 DEF DrainOK, TroubleOK
<1>15. DueOK'
  <2>1. ASSUME NEW d \in Range(due), NEW e \in Range(due), d.entry = e.entry
        PROVE  d.submission = e.submission
    BY <1>11, <2>1 DEF ListedHere
  <2>2. ASSUME NEW e \in Range(due)
        PROVE  Asks(epoch, e.entry, e.submission.session, MessageFrom(e.submission))
    <3>1. epoch = inbox.epoch /\ inbox.epoch \in Nat
      BY <1>1, <1>4
    <3>2. ListedHere(e)
      BY <1>11
    <3>3. QED
      BY <3>1, <3>2 DEF ListedHere, Asks
  <2>3. LogIsOpen' /\ feed'.up
    BY <1>3 DEF LogIsOpen, LastId
  <2>4. \A e \in Range(due) :
          Asks(epoch, e.entry, e.submission.session, MessageFrom(e.submission))'
    BY <1>3, <2>2 DEF Asks
  <2>5. QED
    BY <1>4, <1>11, <1>13, <2>1, <2>3, <2>4 DEF DueOK, Asks
<1>16. QED
  BY <1>3, <1>13, <1>14, <1>15, DrainStepKeeps

LEMMA BackoffKeeps ==
    ASSUME IntakeInv, NEW i, BackoffEnds(i)
    PROVE  IntakeInv'
<1>1. PICK row : row = [drain.trouble[i] EXCEPT !.waiting = FALSE]
  OBVIOUS
<1>2. PICK trouble : trouble = [drain.trouble EXCEPT ![i] = row]
  OBVIOUS
<1>3. /\ i \in DOMAIN drain.trouble
      /\ drain' = [drain EXCEPT !.trouble = trouble]
      /\ file' = file /\ feed' = feed /\ histories' = histories /\ inbox' = inbox
      /\ late' = late /\ faults' = faults
  BY <1>1, <1>2 DEF BackoffEnds
<1>4. DrainOK /\ DueOK /\ TroubleOK(drain.trouble)
  BY DEF IntakeInv, DrainSideOK, DrainOK
<1>5. row \in Record
  BY <1>1, <1>3, <1>4 DEF TroubleOK, Record
<1>6. TroubleOK(trouble)
  BY <1>2, <1>3, <1>4, <1>5 DEF TroubleOK
<1>7. /\ DOMAIN drain' = {"epoch", "trouble", "due", "marks"} /\ drain'.epoch = drain.epoch
      /\ drain'.trouble = trouble /\ drain'.due = drain.due /\ drain'.marks = drain.marks
  BY <1>3, <1>4 DEF DrainOK
<1>8. DrainOK'
  BY <1>4, <1>6, <1>7 DEF DrainOK, TroubleOK
<1>9. DueOK'
  BY <1>3, <1>4, <1>7 DEF DueOK, LogIsOpen, LastId, Asks
<1>10. QED
  BY <1>3, <1>7, <1>8, <1>9, DrainStepKeeps

LEMMA InitListing == Init => ListingInv
<1> SUFFICES ASSUME InboxInit PROVE ListingInv
    BY DEF Init
<1>1. inbox.entries = <<>> /\ inbox.pins = {}
    BY DEF InboxInit
<1>2. TablesOK
    BY DEF InboxInit, TablesOK
<1>3. OneKey /\ ListedOnceUnderItsKey
    BY <1>1 DEF OneKey, ListedOnceUnderItsKey
<1> QED  BY <1>2, <1>3 DEF ListingInv

\* Pinning a key that fits leaves one key per account and moves no other.
LEMMA PinFits ==
    ASSUME ListingInv, NEW s \in Submissions, KeyFits(inbox.pins, s)
    PROVE  /\ AfterPin(inbox.pins, s) \in SUBSET AccountKeys
           /\ [account |-> s.account, key |-> s.key] \in AfterPin(inbox.pins, s)
           /\ inbox.pins \subseteq AfterPin(inbox.pins, s)
           /\ \A p, q \in AfterPin(inbox.pins, s) : p.account = q.account => p = q
<1> DEFINE new == [account |-> s.account, key |-> s.key]
<1>1. new \in AccountKeys /\ inbox.pins \subseteq AccountKeys
    BY DEF ListingInv, TablesOK, AccountKeys
<1>2. \A p \in AccountKeys : p = [account |-> p.account, key |-> p.key]
    BY DEF AccountKeys
<1>3. AfterPin(inbox.pins, s) = inbox.pins \cup {new}
    BY DEF AfterPin
<1>4. \A p \in inbox.pins : p.account = s.account => p = new
    BY <1>1, <1>2 DEF KeyFits
<1> QED  BY <1>1, <1>3, <1>4 DEF ListingInv, OneKey

\* POST /submit, with the entry written.
LEMMA ListKeeps ==
    ASSUME ListingInv, NEW s \in Submissions, ListSubmission(s)
    PROVE  ListingInv'
<1> DEFINE row == [submission |-> s, feedId |-> NotMarked]
           key == [account |-> s.account, key |-> s.key]
<1>1. /\ KeyFits(inbox.pins, s)
      /\ inbox \in [epoch : Nat, entries : Seq(Entry), pins : SUBSET AccountKeys,
                    rejections : SUBSET FaultNames]
    BY DEF ListSubmission, MayList, ListingInv, TablesOK
<1>2. inbox' = [inbox EXCEPT !.pins = AfterPin(inbox.pins, s),
                             !.entries = IF NonceListed(s) THEN inbox.entries
                                         ELSE Append(inbox.entries, row)]
    BY DEF ListSubmission
<1>3. inbox'.pins = AfterPin(inbox.pins, s)
    BY <1>1, <1>2
<1>4. /\ inbox'.pins \in SUBSET AccountKeys
      /\ key \in inbox'.pins
      /\ inbox.pins \subseteq inbox'.pins
      /\ OneKey'
    BY <1>1, <1>3, PinFits DEF OneKey
<1>5. row \in Entry
    BY DEF Entry, NotMarked
<1>6. CASE NonceListed(s)
    <2>1. inbox'.entries = inbox.entries
        BY <1>1, <1>2, <1>6
    <2>2. TablesOK'
        BY <1>1, <1>2, <1>4, <1>6 DEF TablesOK
    <2>3. ListedOnceUnderItsKey'
        BY <2>1, <1>4 DEF ListingInv, ListedOnceUnderItsKey
    <2> QED  BY <1>4, <2>2, <2>3 DEF ListingInv
<1>7. CASE ~NonceListed(s)
    <2> DEFINE n == Len(inbox.entries)
    <2>1. inbox'.entries = Append(inbox.entries, row)
        BY <1>1, <1>2, <1>7
    <2>2. /\ inbox'.entries \in Seq(Entry)
          /\ n \in Nat
          /\ DOMAIN inbox.entries = 1..n
          /\ DOMAIN inbox'.entries = 1..(n + 1)
          /\ \A i \in 1..n : inbox'.entries[i] = inbox.entries[i]
          /\ inbox'.entries[n + 1] = row
        BY <1>1, <1>5, <2>1
    <2>3. TablesOK'
        BY <1>1, <1>2, <1>4, <2>1, <2>2 DEF TablesOK
    <2>4. ASSUME NEW i \in DOMAIN inbox'.entries, i # n + 1
          PROVE  i \in DOMAIN inbox.entries /\ inbox'.entries[i] = inbox.entries[i]
        BY <2>2, <2>4
    <2>5. ASSUME NEW i \in DOMAIN inbox.entries
          PROVE  \/ inbox.entries[i].submission.account # s.account
                 \/ inbox.entries[i].submission.nonce # s.nonce
        BY <1>7 DEF NonceListed
    <2>6. inbox'.entries[n + 1].submission = s
        BY <2>2
    <2>7. ASSUME NEW i \in DOMAIN inbox'.entries
          PROVE  [account |-> inbox'.entries[i].submission.account,
                  key |-> inbox'.entries[i].submission.key] \in inbox'.pins
        <3>1. CASE i = n + 1  BY <3>1, <2>6, <1>4
        <3>2. CASE i # n + 1
            BY <3>2, <2>4, <1>4 DEF ListingInv, ListedOnceUnderItsKey
        <3> QED  BY <3>1, <3>2
    <2>8. ASSUME NEW i \in DOMAIN inbox'.entries, NEW j \in DOMAIN inbox'.entries, i # j
          PROVE  \/ inbox'.entries[i].submission.account # inbox'.entries[j].submission.account
                 \/ inbox'.entries[i].submission.nonce # inbox'.entries[j].submission.nonce
        <3>1. CASE i = n + 1
            BY <3>1, <2>8, <2>4, <2>5, <2>6
        <3>2. CASE j = n + 1
            BY <3>2, <2>8, <2>4, <2>5, <2>6
        <3>3. CASE i # n + 1 /\ j # n + 1
            BY <3>3, <2>8, <2>4 DEF ListingInv, ListedOnceUnderItsKey
        <3> QED  BY <3>1, <3>2, <3>3
    <2>9. ListedOnceUnderItsKey'
        BY <2>7, <2>8 DEF ListedOnceUnderItsKey
    <2> QED  BY <1>4, <2>3, <2>9 DEF ListingInv
<1> QED  BY <1>6, <1>7

\* POST /submit, with the key pinned and the entry lost.
LEMMA FailKeeps ==
    ASSUME ListingInv, NEW s \in Submissions, FailToList(s)
    PROVE  ListingInv'
<1>1. /\ KeyFits(inbox.pins, s)
      /\ inbox \in [epoch : Nat, entries : Seq(Entry), pins : SUBSET AccountKeys,
                    rejections : SUBSET FaultNames]
    BY DEF FailToList, MayList, ListingInv, TablesOK
<1>2. inbox' = [inbox EXCEPT !.pins = AfterPin(inbox.pins, s)]
    BY DEF FailToList
<1>3. inbox'.pins = AfterPin(inbox.pins, s) /\ inbox'.entries = inbox.entries
    BY <1>1, <1>2
<1>4. /\ AfterPin(inbox.pins, s) \in SUBSET AccountKeys
      /\ inbox.pins \subseteq AfterPin(inbox.pins, s)
      /\ \A p, q \in AfterPin(inbox.pins, s) : p.account = q.account => p = q
    BY <1>1, PinFits
<1>5. TablesOK'
    BY <1>1, <1>2, <1>3, <1>4 DEF TablesOK
<1>6. OneKey' /\ ListedOnceUnderItsKey'
    BY <1>3, <1>4 DEF ListingInv, OneKey, ListedOnceUnderItsKey
<1> QED  BY <1>5, <1>6 DEF ListingInv

\* POST /mark writes an id or a rejection; it never touches a submission.
LEMMA MarkKeeps ==
    ASSUME ListingInv, NEW m, HandleMark(m, Included(m))
    PROVE  ListingInv'
<1>1. inbox \in [epoch : Nat, entries : Seq(Entry), pins : SUBSET AccountKeys,
                 rejections : SUBSET FaultNames]
    BY DEF ListingInv, TablesOK
<1>2. CASE ConfirmEntry(m, Included(m))
    <2>1. m.entry \in DOMAIN inbox.entries /\ m.id \in Int
        <3>1. Included(m) /\ m.entry \in DOMAIN inbox.entries
            BY <1>2 DEF ConfirmEntry, Accepted, AboutAnEntry, Fault
        <3> QED  BY <3>1 DEF Included
    <2>2. inbox' = [inbox EXCEPT !.entries =
                      [inbox.entries EXCEPT ![m.entry] =
                          [inbox.entries[m.entry] EXCEPT !.feedId = m.id]]]
        BY <1>2 DEF ConfirmEntry
    <2> DEFINE row == [inbox.entries[m.entry] EXCEPT !.feedId = m.id]
    <2>3. /\ inbox'.entries = [inbox.entries EXCEPT ![m.entry] = row]
          /\ inbox'.pins = inbox.pins
        BY <1>1, <2>2
    <2>4. inbox.entries[m.entry] \in Entry
        BY <1>1, <2>1
    <2>5. row \in Entry /\ row.submission = inbox.entries[m.entry].submission
        BY <2>1, <2>4 DEF Entry
    <2>6. /\ inbox'.entries \in Seq(Entry)
          /\ DOMAIN inbox'.entries = DOMAIN inbox.entries
          /\ \A i \in DOMAIN inbox.entries :
                inbox'.entries[i].submission = inbox.entries[i].submission
        BY <1>1, <2>1, <2>3, <2>5
    <2>7. TablesOK'
        BY <1>1, <2>2, <2>3, <2>6 DEF TablesOK
    <2>8. OneKey'
        BY <2>3 DEF ListingInv, OneKey
    <2> HIDE DEF row
    <2>9. ListedOnceUnderItsKey'
        <3>1. ASSUME NEW i \in DOMAIN inbox'.entries
              PROVE  [account |-> inbox'.entries[i].submission.account,
                      key |-> inbox'.entries[i].submission.key] \in inbox'.pins
            BY <2>3, <2>6 DEF ListingInv, ListedOnceUnderItsKey
        <3>2. ASSUME NEW i \in DOMAIN inbox'.entries, NEW j \in DOMAIN inbox'.entries, i # j
              PROVE  \/ inbox'.entries[i].submission.account
                           # inbox'.entries[j].submission.account
                     \/ inbox'.entries[i].submission.nonce
                           # inbox'.entries[j].submission.nonce
            BY <2>6, <3>2 DEF ListingInv, ListedOnceUnderItsKey
        <3> QED  BY <3>1, <3>2 DEF ListedOnceUnderItsKey
    <2> QED  BY <2>7, <2>8, <2>9 DEF ListingInv
<1>3. CASE RecordRejection(m, Included(m))
    <2>1. inbox' = [inbox EXCEPT !.rejections =
                                    inbox.rejections \cup {Fault(m, Included(m))}]
        BY <1>3 DEF RecordRejection
    <2>2. Fault(m, Included(m)) \in FaultNames
        BY Zenon DEF Fault, FaultNames
    <2>3. inbox'.entries = inbox.entries /\ inbox'.pins = inbox.pins
        BY <1>1, <2>1
    <2>4. TablesOK'
        BY <1>1, <2>1, <2>2 DEF TablesOK
    <2> QED  BY <2>3, <2>4 DEF ListingInv, OneKey, ListedOnceUnderItsKey
<1>4. CASE UNCHANGED inbox
    BY <1>4 DEF ListingInv, TablesOK, OneKey, ListedOnceUnderItsKey
<1> QED  BY <1>2, <1>3, <1>4 DEF HandleMark

\* A new database lists nothing.
LEMMA ReplaceKeeps == ASSUME ListingInv, ReplaceInbox PROVE ListingInv'
<1>1. inbox.epoch \in Nat
    BY DEF ListingInv, TablesOK
<1>2. inbox' = [epoch |-> inbox.epoch + 1, entries |-> <<>>, pins |-> {}, rejections |-> {}]
    BY DEF ReplaceInbox
<1>3. TablesOK'
    BY <1>1, <1>2 DEF TablesOK
<1>4. inbox'.entries = <<>> /\ inbox'.pins = {}
    BY <1>2
<1>5. OneKey' /\ ListedOnceUnderItsKey'
    BY <1>4 DEF OneKey, ListedOnceUnderItsKey
<1> QED  BY <1>3, <1>5 DEF ListingInv

\* Every step of the composition is one of these for the inbox, or none.
LEMMA StepForInbox ==
    ASSUME Next
    PROVE  \/ \E s \in Submissions : ListSubmission(s) \/ FailToList(s)
           \/ \E m : HandleMark(m, Included(m))
           \/ ReplaceInbox
           \/ UNCHANGED inbox
<1>1. CASE ClientActs
    BY <1>1 DEF ClientActs, ClientLists, ClientListsInVain, ClientPublishes, ClientIsRefused
<1>2. CASE OperatorOrGenerator
    BY <1>2 DEF OperatorOrGenerator, OperatorActs, Generate
<1>3. CASE DrainActs
    <2>1. CASE Poll
        BY <2>1 DEF Poll, TakePage
    <2>2. CASE \E i \in DOMAIN drain.trouble : BackoffEnds(i)
        BY <2>2 DEF BackoffEnds
    <2>3. CASE \E pinning, writes \in BOOLEAN : SequenceDue(pinning, writes)
        BY <2>3 DEF SequenceDue
    <2>4. CASE MarkAccepted \/ MarkRefused
        BY <2>4 DEF MarkAccepted, MarkRefused
    <2>5. CASE MarkTimesOut
        BY <2>5 DEF MarkTimesOut
    <2> QED  BY <1>3, <2>1, <2>2, <2>3, <2>4, <2>5 DEF DrainActs
<1>4. CASE Environment
    <2>1. CASE Start \/ CrashFeed \/ LoseFile
        BY <2>1 DEF Start, CrashFeed, LoseFile
    <2>2. CASE \E m \in late : LateMark(m)
        BY <2>2 DEF LateMark
    <2>3. CASE LoseInbox
        BY <2>3 DEF LoseInbox
    <2> QED  BY <1>4, <2>1, <2>2, <2>3 DEF Environment
<1> QED  BY <1>1, <1>2, <1>3, <1>4 DEF Next

LEMMA StepListing == ASSUME ListingInv, [Next]_vars PROVE ListingInv'
<1>1. CASE Next
    <2>1. ASSUME NEW s \in Submissions, ListSubmission(s) \/ FailToList(s)
          PROVE  ListingInv'
        BY <2>1, ListKeeps, FailKeeps
    <2>2. ASSUME NEW m, HandleMark(m, Included(m)) PROVE ListingInv'
        BY <2>2, MarkKeeps
    <2>3. ASSUME ReplaceInbox PROVE ListingInv'
        BY <2>3, ReplaceKeeps
    <2>4. ASSUME UNCHANGED inbox PROVE ListingInv'
        BY <2>4 DEF ListingInv, TablesOK, OneKey, ListedOnceUnderItsKey
    <2> QED  BY <1>1, StepForInbox, <2>1, <2>2, <2>3, <2>4
<1>2. CASE UNCHANGED vars
    BY <1>2 DEF vars, ListingInv, TablesOK, OneKey, ListedOnceUnderItsKey
<1> QED  BY <1>1, <1>2

\* Through every interleaving, crash and lost answer the inbox lists no nonce of
\* an account twice, and every entry is signed with the one key its account is
\* pinned to (submit, mark).
THEOREM ListingHolds == Spec => []ListedOnceUnderItsKey
<1>1. Init => ListingInv
    BY InitListing
<1>2. ListingInv /\ [Next]_vars => ListingInv'
    BY StepListing
<1>3. ListingInv => ListedOnceUnderItsKey
    BY DEF ListingInv
<1> QED  BY <1>1, <1>2, <1>3, PTL DEF Spec

-----------------------------------------------------------------------------
(* The inbox's steps.                                                        *)

\* What a step of the inbox owes the others.
InboxStepOK ==
    /\ EntriesOK' /\ NoEvidenceAgainstHonestFeed' /\ InboxGoesOn

\* A step of the inbox, whatever the drain makes of it.
LEMMA InboxStepKeepsFeed ==
    ASSUME IntakeInv, InboxStepOK, ListingInv', UNCHANGED <<file, feed, histories>>
    PROVE  FeedSideOK' /\ InboxSideOK' /\ PairingsFit' /\ Grows
<1>1. /\ HistoriesOK /\ FileOK /\ LiveOK /\ PublishedUnderItsKey /\ PairingsFit /\ ListingInv
  BY DEF IntakeInv, FeedSideOK, InboxSideOK
<1>2. file' = file /\ feed' = feed /\ histories' = histories
  OBVIOUS
<1>3. HistoriesOK'
  BY <1>1, <1>2, HistoriesStay
<1>4. FileOK'
  BY <1>1, <1>2, FileStays
<1>5. LiveOK'
  BY <1>1, <1>2 DEF LiveOK, Restored, SpentBy, Down
<1>6. PublishedUnderItsKey' /\ Grows
  BY <1>1, <1>2 DEF PublishedUnderItsKey, Grows
<1>7. PairingsFit'
  BY <1>1, <1>2, PairingsGoOn DEF InboxStepOK
<1>8. QED
  BY <1>3, <1>4, <1>5, <1>6, <1>7 DEF FeedSideOK, InboxSideOK, InboxStepOK

LEMMA InboxStepKeeps ==
    ASSUME IntakeInv, InboxStepOK, ListingInv',
           UNCHANGED <<file, feed, histories, drain, late>>, faults' \in 0..MaxFaults
    PROVE  IntakeInv'
<1>1. FeedSideOK' /\ InboxSideOK' /\ PairingsFit' /\ Grows
  BY InboxStepKeepsFeed
<1>2. HistoriesOK /\ HistoriesOK' /\ ListingInv /\ DrainSideOK /\ InboxGoesOn
  BY <1>1 DEF IntakeInv, FeedSideOK, InboxSideOK, InboxStepOK
<1>3. drain.due # <<>> => feed'.up /\ LogIsOpen'
  BY <1>2 DEF DrainSideOK, DueOK, LogIsOpen, LastId
<1>4. DrainSideOK'
  BY <1>1, <1>2, <1>3, DrainStays
<1>5. QED
  BY <1>1, <1>4 DEF IntakeInv

LEMMA ListingIsSound ==
    ASSUME IntakeInv, NEW s \in Submissions, ListSubmission(s), UNCHANGED histories
    PROVE  InboxStepOK
<1>1. /\ inbox \in [epoch : Nat, entries : Seq(Entry), pins : SUBSET AccountKeys,
                    rejections : SUBSET FaultNames]
      /\ EntriesOK /\ NoEvidenceAgainstHonestFeed
  BY DEF IntakeInv, InboxSideOK, ListingInv, TablesOK
<1>2. PICK row, pins : row = [submission |-> s, feedId |-> NotMarked]
                       /\ pins = AfterPin(inbox.pins, s)
  OBVIOUS
<1>3. PICK entries : entries = IF NonceListed(s) THEN inbox.entries ELSE Append(inbox.entries, row)
  OBVIOUS
<1>4. inbox' = [inbox EXCEPT !.pins = pins, !.entries = entries]
  BY <1>2, <1>3 DEF ListSubmission
<1>5. /\ inbox'.epoch = inbox.epoch /\ inbox'.entries = entries
      /\ inbox'.rejections = inbox.rejections
  BY <1>1, <1>4
<1>6. row \in Entry /\ row.feedId = NotMarked
  BY <1>2 DEF Entry, NotMarked
<1>7. PICK n : n = Len(inbox.entries)
  OBVIOUS
<1>8. /\ n \in Nat /\ DOMAIN inbox.entries = 1..n
      /\ \A i \in 1..n : i \in DOMAIN entries /\ entries[i] = inbox.entries[i]
      /\ \A i \in DOMAIN entries : i \in 1..n \/ entries[i] = row
  BY <1>1, <1>3, <1>6, <1>7
<1>9. InboxGoesOn
  BY <1>5, <1>8 DEF InboxGoesOn
<1>10. NoEvidenceAgainstHonestFeed'
  BY <1>1, <1>5 DEF NoEvidenceAgainstHonestFeed
<1>11. EntriesOK'
  <2>2. ASSUME NEW i \in DOMAIN entries
        PROVE  /\ entries[i].feedId \in Nat
               /\ entries[i].feedId # NotMarked =>
                    i \in 1..n /\ entries[i] = inbox.entries[i]
    <3>1. CASE i \in 1..n
      BY <1>1, <1>8, <3>1 DEF EntriesOK
    <3>2. CASE i \notin 1..n
      BY <1>6, <1>8, <3>2 DEF NotMarked
    <3>3. QED
      BY <3>1, <3>2
  <2>3. ASSUME NEW i \in DOMAIN entries, entries[i].feedId # NotMarked
        PROVE  Carries(entries[i].submission.session, entries[i].feedId,
                       MessageFrom(entries[i].submission))
    <3>1. i \in DOMAIN inbox.entries /\ entries[i] = inbox.entries[i]
      BY <1>8, <2>2, <2>3
    <3>2. QED
      BY <1>1, <2>3, <3>1 DEF EntriesOK
  <2>4. inbox'.epoch # 0
    BY <1>1, <1>5 DEF EntriesOK
  <2>5. QED
    BY <1>5, <2>2, <2>3, <2>4 DEF EntriesOK, Carries
<1>12. QED
  BY <1>9, <1>10, <1>11 DEF InboxStepOK

LEMMA FailedListingIsSound ==
    ASSUME IntakeInv, NEW s \in Submissions, FailToList(s), UNCHANGED histories
    PROVE  InboxStepOK
<1>1. /\ inbox \in [epoch : Nat, entries : Seq(Entry), pins : SUBSET AccountKeys,
                    rejections : SUBSET FaultNames]
      /\ EntriesOK /\ NoEvidenceAgainstHonestFeed
  BY DEF IntakeInv, InboxSideOK, ListingInv, TablesOK
<1>2. PICK pins : pins = AfterPin(inbox.pins, s)
  OBVIOUS
<1>3. inbox' = [inbox EXCEPT !.pins = pins]
  BY <1>2 DEF FailToList
<1>4. /\ inbox'.epoch = inbox.epoch /\ inbox'.entries = inbox.entries
      /\ inbox'.rejections = inbox.rejections
  BY <1>1, <1>3
<1>5. EntriesOK'
  BY <1>1, <1>4 DEF EntriesOK, Carries
<1>6. QED
  BY <1>1, <1>4, <1>5 DEF InboxStepOK, InboxGoesOn, NoEvidenceAgainstHonestFeed

LEMMA ReplacingIsSound ==
    ASSUME IntakeInv, ReplaceInbox
    PROVE  InboxStepOK
<1>1. inbox.epoch \in Nat
  BY DEF IntakeInv, InboxSideOK, ListingInv, TablesOK
<1>2. inbox'.epoch = inbox.epoch + 1 /\ inbox'.entries = <<>> /\ inbox'.rejections = {}
  BY DEF ReplaceInbox
<1>3. InboxGoesOn
  BY <1>1, <1>2 DEF InboxGoesOn
<1>4. EntriesOK'
  BY <1>1, <1>2 DEF EntriesOK
<1>5. QED
  BY <1>2, <1>3, <1>4 DEF InboxStepOK, NoEvidenceAgainstHonestFeed

\* A mark that a sequencer running this code signed is never wrong about an
\* entry of the database it names: its proof holds, the message is the entry's,
\* and no other message was confirmed for it, for no nonce stands twice.
LEMMA MarkIsRight ==
    ASSUME IntakeInv, NEW m, MarkOK(m), AboutAnEntry(m)
    PROVE  /\ Fault(m, Included(m)) = "none"
           /\ Carries(inbox.entries[m.entry].submission.session, m.id,
                      MessageFrom(inbox.entries[m.entry].submission))
           /\ m.id \in Nat \ {0}
<1> DEFINE s == inbox.entries[m.entry].submission
           f == inbox.entries[m.entry].feedId
<1>1. /\ EntriesOK /\ HistoriesOK /\ TablesOK
  BY DEF IntakeInv, InboxSideOK, FeedSideOK, ListingInv
<1>2. /\ m \in Mark /\ m.session \in DOMAIN histories /\ Included(m)
      /\ Asks(m.epoch, m.entry, m.session, m.message)
  BY DEF MarkOK
<1>3. m.epoch = inbox.epoch /\ m.entry \in DOMAIN inbox.entries
  BY DEF AboutAnEntry
<1>4. s.session = m.session /\ MessageFrom(s) = m.message
  BY <1>2, <1>3 DEF Asks
<1>5. s \in Submissions
  <2>1. inbox.entries \in Seq(Entry)
    BY <1>1 DEF TablesOK
  <2>2. inbox.entries[m.entry] \in Entry
    BY <1>3, <2>1
  <2>3. QED
    BY <2>2 DEF Entry
<1>6. MessageFrom(s) # Generated
  BY <1>5, ContentOfOne
<1> HIDE DEF s
<1>7. PICK h : h = histories[m.session]
  OBVIOUS
<1>8. /\ h \in Seq(Message) /\ HistoryOK(h) /\ (\A i \in DOMAIN h : h[i].id = i) /\ SpendsOnce(h)
  <2>1. HistoryOK(h)
    BY <1>1, <1>2, <1>7 DEF HistoriesOK
  <2>2. QED
    BY <2>1, NonceStandsOnce DEF HistoryOK
<1>9. /\ m.id \in Nat \ {0} /\ m.size \in Nat \ {0} /\ m.id \in 1..m.size /\ m.size <= Len(h)
      /\ h[m.id] = [id |-> m.id, content |-> m.message]
  BY <1>2, <1>7 DEF Included, Mark
<1>10. m.id \in DOMAIN h /\ h[m.id].content = MessageFrom(s)
  BY <1>4, <1>8, <1>9
<1>11. Carries(s.session, m.id, MessageFrom(s))
  BY <1>2, <1>4, <1>7, <1>10 DEF Carries
<1>12. f \in {NotMarked, m.id}
  <2>1. SUFFICES ASSUME f # NotMarked PROVE f = m.id
    OBVIOUS
  <2>2. Carries(s.session, f, MessageFrom(s))
    BY <1>1, <1>3, <2>1 DEF EntriesOK, s
  <2>3. f \in DOMAIN h /\ h[f].content = MessageFrom(s)
    BY <1>4, <1>7, <2>2 DEF Carries
  <2>4. QED
    BY <1>6, <1>8, <1>10, <2>3 DEF SpendsOnce
<1>13. Fault(m, Included(m)) = "none"
  <2>1. ~(m.id = 0 \/ ~Included(m))
    BY <1>2, <1>9
  <2>2. m.message = MessageFrom(inbox.entries[m.entry].submission)
    BY <1>4 DEF s
  <2>3. inbox.entries[m.entry].feedId \in {NotMarked, m.id}
    BY <1>12
  <2>4. QED
    BY <2>1, <2>2, <2>3 DEF Fault
<1>14. QED
  BY <1>9, <1>11, <1>13 DEF s

\* So a mark is filed under its entry, or says nothing about this database.
LEMMA MarkIsTaken ==
    ASSUME IntakeInv, NEW m, MarkOK(m), HandleMark(m, Included(m)), UNCHANGED histories
    PROVE  InboxStepOK
<1>1. /\ inbox \in [epoch : Nat, entries : Seq(Entry), pins : SUBSET AccountKeys,
                    rejections : SUBSET FaultNames]
      /\ EntriesOK /\ NoEvidenceAgainstHonestFeed
  BY DEF IntakeInv, InboxSideOK, ListingInv, TablesOK
<1>2. CASE ConfirmEntry(m, Included(m))
  <2>1. AboutAnEntry(m)
    BY <1>2 DEF ConfirmEntry, Accepted
  <2>2. PICK e : e = inbox.entries[m.entry]
    OBVIOUS
  <2>3. m.entry \in DOMAIN inbox.entries /\ e \in Entry
    BY <1>1, <2>1, <2>2 DEF AboutAnEntry
  <2>4. m.id \in Nat \ {0} /\ Carries(e.submission.session, m.id, MessageFrom(e.submission))
    BY <2>1, <2>2, MarkIsRight
  <2>5. PICK row : row = [e EXCEPT !.feedId = m.id]
    OBVIOUS
  <2>6. row.submission = e.submission /\ row.feedId = m.id
    BY <2>3, <2>5 DEF Entry
  <2>7. PICK entries : entries = [inbox.entries EXCEPT ![m.entry] = row]
    OBVIOUS
  <2>8. inbox' = [inbox EXCEPT !.entries = entries]
    BY <1>2, <2>2, <2>5, <2>7 DEF ConfirmEntry
  <2>9. /\ inbox'.epoch = inbox.epoch /\ inbox'.entries = entries
        /\ inbox'.rejections = inbox.rejections
    BY <1>1, <2>8
  <2>10. /\ DOMAIN entries = DOMAIN inbox.entries /\ entries[m.entry] = row
         /\ \A i \in DOMAIN entries : i # m.entry => entries[i] = inbox.entries[i]
    BY <2>3, <2>7
  <2>11. InboxGoesOn
    BY <2>2, <2>6, <2>9, <2>10 DEF InboxGoesOn
  <2>12. ASSUME NEW i \in DOMAIN entries
         PROVE  /\ entries[i].feedId \in Nat
                /\ entries[i].feedId # NotMarked =>
                      Carries(entries[i].submission.session, entries[i].feedId,
                              MessageFrom(entries[i].submission))
    <3>1. CASE i = m.entry
      BY <2>4, <2>6, <2>10, <3>1
    <3>2. CASE i # m.entry
      BY <1>1, <2>10, <3>2 DEF EntriesOK
    <3>3. QED
      BY <3>1, <3>2
  <2>13. inbox'.epoch # 0
    BY <1>1, <2>9 DEF EntriesOK
  <2>14. EntriesOK'
    BY <2>9, <2>12, <2>13 DEF EntriesOK, Carries
  <2>15. QED
    BY <1>1, <2>9, <2>11, <2>14 DEF InboxStepOK, NoEvidenceAgainstHonestFeed
<1>3. CASE RecordRejection(m, Included(m))
  BY <1>3, MarkIsRight DEF RecordRejection
<1>4. CASE UNCHANGED inbox
  BY <1>1, <1>4 DEF InboxStepOK, EntriesOK, Carries, NoEvidenceAgainstHonestFeed, InboxGoesOn
<1>5. QED
  BY <1>2, <1>3, <1>4 DEF HandleMark

-----------------------------------------------------------------------------
(* The steps of marking.                                                     *)

DrainBecomes(trouble, marks) ==
    /\ DOMAIN drain' = {"epoch", "trouble", "due", "marks"}
    /\ drain'.epoch = drain.epoch /\ drain'.due = drain.due
    /\ drain'.trouble = trouble /\ drain'.marks = marks

LEMMA MarkStepKeeps ==
    ASSUME IntakeInv, InboxStepOK, ListingInv', UNCHANGED <<file, feed, histories>>,
           faults' \in 0..MaxFaults,
           NEW trouble, TroubleOK(trouble),
           NEW marks \in Seq(Mark), Len(marks) <= MarkBudget,
           \A m \in Range(marks) \cup late' : MarkOK(m),
           DrainBecomes(trouble, marks)
    PROVE  IntakeInv'
<1>1. FeedSideOK' /\ InboxSideOK' /\ PairingsFit' /\ Grows
  BY InboxStepKeepsFeed
<1>2. HistoriesOK /\ HistoriesOK' /\ ListingInv /\ DrainOK /\ DueOK /\ InboxGoesOn
  BY <1>1 DEF IntakeInv, FeedSideOK, InboxSideOK, InboxStepOK, DrainSideOK
<1>3. /\ DOMAIN drain' = {"epoch", "trouble", "due", "marks"}
      /\ drain'.epoch = drain.epoch /\ drain'.due = drain.due
      /\ drain'.trouble = trouble /\ drain'.marks = marks
  BY DEF DrainBecomes
<1>4. DrainOK'
  BY <1>2, <1>3 DEF DrainOK, TroubleOK
<1>5. MarksOK'
  <2>1. ASSUME NEW m \in Range(marks) \cup late' PROVE MarkOK(m)'
    BY <1>1, <1>2, <2>1, MarkOnward
  <2>2. QED
    BY <1>3, <2>1 DEF MarksOK
<1>6. DueOK'
  <2>1. /\ Len(drain.due) <= PageLimit
        /\ drain.due # <<>> => drain.epoch # 0 /\ feed.up /\ LogIsOpen
        /\ \A d, e \in Range(drain.due) : d.entry = e.entry => d.submission = e.submission
    BY <1>2 DEF DueOK
  <2>2. ASSUME NEW e \in Range(drain.due)
        PROVE  Asks(drain.epoch, e.entry, e.submission.session, MessageFrom(e.submission))'
    <3>1. PICK a, b, c, d : /\ a = drain.epoch /\ b = e.entry /\ c = e.submission.session
                            /\ d = MessageFrom(e.submission)
      OBVIOUS
    <3>2. a \in Nat /\ Asks(a, b, c, d)
      BY <1>2, <3>1 DEF DrainOK, DueOK
    <3>3. Asks(a, b, c, d)'
      BY <1>1, <1>2, <3>2, AsksOnward
    <3>4. QED
      BY <1>3, <3>1, <3>3 DEF Asks
  <2>3. drain.due # <<>> => feed'.up /\ LogIsOpen'
    BY <2>1 DEF LogIsOpen, LastId
  <2>4. QED
    BY <1>3, <2>1, <2>2, <2>3 DEF DueOK, Asks
<1>7. QED
  BY <1>1, <1>4, <1>5, <1>6 DEF IntakeInv, DrainSideOK

LEMMA MarksLeft ==
    ASSUME MarksOK, DrainOK, drain.marks # <<>>
    PROVE  /\ Tail(drain.marks) \in Seq(Mark) /\ Len(Tail(drain.marks)) <= MarkBudget
           /\ \A m \in Range(Tail(drain.marks)) : MarkOK(m)
           /\ NextMark.entry \in EntryIds
<1>1. PICK s : s = drain.marks
  OBVIOUS
<1>2. s \in Seq(Mark) /\ s # <<>> /\ Len(s) <= MarkBudget /\ \A m \in Range(s) : MarkOK(m)
  BY <1>1 DEF MarksOK, DrainOK
<1>3. PICK t : t = Tail(s)
  OBVIOUS
<1>4. /\ t \in Seq(Mark) /\ Len(t) = Len(s) - 1 /\ Len(s) \in Nat /\ Len(t) \in Nat
      /\ DOMAIN t = 1..Len(t) /\ DOMAIN s = 1..Len(s)
      /\ \A i \in 1..Len(t) : t[i] = s[i + 1]
  BY <1>2, <1>3
<1>5. MarkBudget \in Nat
  BY DrainLimits
<1>6. ASSUME NEW m \in Range(t) PROVE m \in Range(s)
  <2>1. PICK i \in DOMAIN t : m = t[i]
    BY DEF Range
  <2>2. i + 1 \in DOMAIN s /\ m = s[i + 1]
    BY <1>4, <2>1
  <2>3. QED
    BY <2>2 DEF Range
<1>7. NextMark.entry \in EntryIds
  BY NextIsMark DEF Mark
<1>8. Len(t) <= MarkBudget
  BY <1>2, <1>4, <1>5
<1>9. QED
  BY <1>1, <1>2, <1>3, <1>4, <1>6, <1>7, <1>8

LEMMA DrainEdited ==
    ASSUME DrainOK, NEW trouble, NEW marks,
           drain' = [drain EXCEPT !.marks = marks, !.trouble = trouble]
    PROVE  DrainBecomes(trouble, marks)
BY DEF DrainOK, DrainBecomes

\* A mark is answered; the drain notes the answer.
LEMMA AnsweredKeeps ==
    ASSUME IntakeInv, MarkAccepted \/ MarkRefused
    PROVE  IntakeInv'
<1>1. PICK m, s : m = NextMark /\ s = Tail(drain.marks)
  OBVIOUS
<1>2. PICK trouble : \/ MarkAccepted /\ trouble = Succeeded(drain.trouble, m.entry)
                     \/ MarkRefused /\ trouble = Failed(drain.trouble, m.entry, TRUE)
  OBVIOUS
<1>3. /\ drain.marks # <<>> /\ HandleMark(m, Included(m))
      /\ drain' = [drain EXCEPT !.marks = s, !.trouble = trouble]
      /\ UNCHANGED <<file, feed, histories, late, faults>>
  BY <1>1, <1>2 DEF MarkAccepted, MarkRefused
<1>4. DrainOK /\ MarksOK /\ TroubleOK(drain.trouble) /\ ListingInv /\ faults \in 0..MaxFaults
  BY DEF IntakeInv, DrainSideOK, DrainOK, InboxSideOK
<1>5. MarkOK(m) /\ m.entry \in EntryIds
  BY <1>1, <1>3, <1>4, NextIsMark, MarksLeft
<1>6. TroubleOK(trouble)
  <2>1. TroubleOK(Succeeded(drain.trouble, m.entry))
    BY <1>4, PartOfTrouble
  <2>2. TroubleOK(Failed(drain.trouble, m.entry, TRUE))
    BY <1>4, <1>5, FailedFits
  <2>3. QED
    BY <1>2, <2>1, <2>2
<1>7. s \in Seq(Mark) /\ Len(s) <= MarkBudget /\ \A n \in Range(s) \cup late' : MarkOK(n)
  <2>1. \A n \in late' : MarkOK(n)
    BY <1>3, <1>4 DEF MarksOK
  <2>2. QED
    BY <1>1, <1>3, <1>4, <2>1, MarksLeft
<1>8. InboxStepOK
  BY <1>3, <1>5, MarkIsTaken
<1>9. ListingInv'
  BY <1>3, <1>4, MarkKeeps
<1>10. DrainBecomes(trouble, s)
  BY <1>3, <1>4, DrainEdited
<1>11. faults' \in 0..MaxFaults
  BY <1>3, <1>4
<1>12. UNCHANGED <<file, feed, histories>>
  BY <1>3
<1>13. QED
  BY <1>6, <1>7, <1>8, <1>9, <1>10, <1>11, <1>12, MarkStepKeeps

LEMMA SameInboxIsSound ==
    ASSUME IntakeInv, UNCHANGED <<inbox, histories>>
    PROVE  InboxStepOK /\ ListingInv'
<1>1. InboxSideOK /\ Grows
  BY DEF IntakeInv, Grows
<1>2. InboxSideOK' /\ InboxGoesOn
  BY <1>1, InboxStays
<1>3. QED
  BY <1>2 DEF InboxSideOK, InboxStepOK

\* No answer in time: the mark may still arrive.
LEMMA UnansweredKeeps ==
    ASSUME IntakeInv, MarkTimesOut
    PROVE  IntakeInv'
<1>1. PICK m, s : m = NextMark /\ s = <<>>
  OBVIOUS
<1>2. PICK trouble : trouble = Failed(drain.trouble, m.entry, FALSE)
  OBVIOUS
<1>3. /\ drain.marks # <<>> /\ Fail /\ late' = late \cup {m}
      /\ drain' = [drain EXCEPT !.marks = s, !.trouble = trouble]
      /\ UNCHANGED <<file, feed, histories, inbox>>
  BY <1>1, <1>2 DEF MarkTimesOut
<1>4. DrainOK /\ MarksOK /\ TroubleOK(drain.trouble) /\ faults \in 0..MaxFaults
  BY DEF IntakeInv, DrainSideOK, DrainOK
<1>5. MarkOK(m) /\ m.entry \in EntryIds
  BY <1>1, <1>3, <1>4, NextIsMark, MarksLeft
<1>6. TroubleOK(trouble)
  BY <1>2, <1>4, <1>5, FailedFits
<1>7. s \in Seq(Mark) /\ Len(s) <= MarkBudget /\ \A n \in Range(s) \cup late' : MarkOK(n)
  <2>1. MarkBudget \in Nat
    BY DrainLimits
  <2>2. Range(s) = {} /\ s \in Seq(Mark) /\ Len(s) = 0
    BY <1>1 DEF Range
  <2>3. \A n \in late' : MarkOK(n)
    BY <1>3, <1>4, <1>5 DEF MarksOK
  <2>4. QED
    BY <2>1, <2>2, <2>3
<1>8. InboxStepOK /\ ListingInv'
  BY <1>3, SameInboxIsSound
<1>9. DrainBecomes(trouble, s)
  BY <1>3, <1>4, DrainEdited
<1>10. faults' \in 0..MaxFaults
  BY <1>3, <1>4, FaultsCounted
<1>11. UNCHANGED <<file, feed, histories>>
  BY <1>3
<1>12. QED
  BY <1>6, <1>7, <1>8, <1>9, <1>10, <1>11, MarkStepKeeps

\* A mark that nobody waits for arrives.
LEMMA LateMarkKeeps ==
    ASSUME IntakeInv, NEW m, LateMark(m)
    PROVE  IntakeInv'
<1>1. /\ m \in late /\ late' = late \ {m} /\ HandleMark(m, Included(m))
      /\ UNCHANGED <<file, feed, histories, drain, faults>>
  BY DEF LateMark
<1>2. DrainOK /\ MarksOK /\ ListingInv /\ faults \in 0..MaxFaults
  BY DEF IntakeInv, DrainSideOK, InboxSideOK
<1>3. PICK trouble, s : trouble = drain.trouble /\ s = drain.marks
  OBVIOUS
<1>4. MarkOK(m)
  BY <1>1, <1>2 DEF MarksOK
<1>5. InboxStepOK
  BY <1>1, <1>4, MarkIsTaken
<1>6. ListingInv'
  BY <1>1, <1>2, MarkKeeps
<1>7. TroubleOK(trouble) /\ s \in Seq(Mark) /\ Len(s) <= MarkBudget
  BY <1>2, <1>3 DEF DrainOK, MarksOK
<1>8. \A n \in Range(s) \cup late' : MarkOK(n)
  BY <1>1, <1>2, <1>3 DEF MarksOK
<1>9. DrainBecomes(trouble, s)
  BY <1>1, <1>2, <1>3 DEF DrainOK, DrainBecomes
<1>10. UNCHANGED <<file, feed, histories>> /\ faults' \in 0..MaxFaults
  BY <1>1, <1>2
<1>11. QED
  BY <1>5, <1>6, <1>7, <1>8, <1>9, <1>10, MarkStepKeeps

-----------------------------------------------------------------------------
(* The invariant holds.                                                      *)

LEMMA NothingYet == Init => IntakeInv
<1> SUFFICES ASSUME Init PROVE IntakeInv
  OBVIOUS
<1>1. /\ file = EmptyFile /\ feed = Down /\ histories = <<>> /\ drain = Forgotten
      /\ late = {} /\ faults = 0
      /\ inbox = [epoch |-> 1, entries |-> <<>>, pins |-> {}, rejections |-> {}]
  BY DEF Init, SequencerInit, InboxInit
<1>2. SpentBy(<<>>) = {} /\ Cardinality({}) = 0 /\ IsFiniteSet({})
  BY FS_EmptySet DEF SpentBy
<1>3. /\ file.messages = <<>> /\ file.pairings = {} /\ file.pins = {} /\ file.head = NoHead
  BY <1>1 DEF EmptyFile
<1>4. FileOK
  <2>1. NoHead \in SignedHead
    BY DEF NoHead, SignedHead
  <2>2. file \in [messages : Seq(Message), pairings : SUBSET Pairing,
                  pins : SUBSET AccountKeys, head : SignedHead]
    <3>1. <<>> \in Seq(Message)
      OBVIOUS
    <3>2. QED
      BY <1>1, <2>1, <3>1 DEF EmptyFile
  <2>3. HistoryOK(<<>>)
    BY <1>2 DEF HistoryOK, OneNonceOneMessage
  <2>4. {MaxNonces, MaxAccounts, MaxPairings} \subseteq Nat
    BY RetentionLimits
  <2>5. PinsOK({})
    BY <1>2, <2>4 DEF PinsOK
  <2>6. PairingsOK({}, <<>>)
    BY <1>2, <2>4 DEF PairingsOK
  <2>7. Cardinality(SpentBy(<<>>)) <= MaxNonces
    <3>1. Cardinality(SpentBy(<<>>)) = 0
      BY <1>2
    <3>2. MaxNonces \in Nat
      BY <2>4
    <3>3. QED
      BY <3>1, <3>2
  <2>8. QED
    BY <1>3, <2>2, <2>3, <2>5, <2>6, <2>7 DEF FileOK
<1>5. LiveOK
  BY <1>1 DEF LiveOK, Down
<1>6. HistoriesOK
  BY <1>1 DEF HistoriesOK
<1>7. PublishedUnderItsKey /\ PairingsFit
  BY <1>3 DEF PublishedUnderItsKey, PairingsFit
<1>8. EntriesOK /\ NoEvidenceAgainstHonestFeed
  BY <1>1 DEF EntriesOK, NoEvidenceAgainstHonestFeed
<1>9. ListingInv
  BY InitListing
<1>10. DrainSideOK
  <2>1. /\ drain.epoch = 0 /\ drain.trouble = <<>> /\ drain.due = <<>> /\ drain.marks = <<>>
        /\ DOMAIN drain = {"epoch", "trouble", "due", "marks"}
    BY <1>1 DEF Forgotten, NoEpoch, NoRecords
  <2>2. PageLimit \in Nat /\ MarkBudget \in Nat /\ MaxTrouble \in Nat
    BY DrainLimits
  <2>3. TroubleOK(<<>>)
    <3>1. DOMAIN <<>> = {} /\ <<>> \in [{} -> Record] /\ Cardinality({}) = 0
      BY FS_EmptySet
    <3>2. QED
      BY <2>2, <3>1 DEF TroubleOK
  <2>4. <<>> \in Seq(Listed) /\ <<>> \in Seq(Mark) /\ 0 \in Nat
    OBVIOUS
  <2>5. DrainOK
    BY <2>1, <2>3, <2>4 DEF DrainOK
  <2>6. Range(<<>>) = {} /\ Len(<<>>) = 0
    BY DEF Range
  <2>7. DueOK
    BY <2>1, <2>2, <2>6 DEF DueOK
  <2>8. MarksOK
    BY <1>1, <2>1, <2>2, <2>6 DEF MarksOK
  <2>9. QED
    BY <2>5, <2>7, <2>8 DEF DrainSideOK
<1>11. faults \in 0..MaxFaults
  BY <1>1, DrainLimits
<1>12. QED
  BY <1>4, <1>5, <1>6, <1>7, <1>8, <1>9, <1>10, <1>11 DEF IntakeInv, FeedSideOK, InboxSideOK

\* One of the inbox's own steps.
LEMMA InboxActsKeeps ==
    ASSUME IntakeInv, UNCHANGED <<file, feed, histories, drain, late>>, Fail \/ UNCHANGED faults,
           (\E s \in Submissions : ListSubmission(s) \/ FailToList(s)) \/ ReplaceInbox
    PROVE  IntakeInv'
<1>1. ListingInv /\ faults \in 0..MaxFaults
  BY DEF IntakeInv, InboxSideOK
<1>2. faults' \in 0..MaxFaults
  BY <1>1, FaultsCounted
<1>3. UNCHANGED histories
  OBVIOUS
<1>4. CASE \E s \in Submissions : ListSubmission(s)
  <2>1. PICK s \in Submissions : ListSubmission(s)
    BY <1>4
  <2>2. InboxStepOK /\ ListingInv'
    BY <1>1, <1>3, <2>1, ListingIsSound, ListKeeps
  <2>3. QED
    BY <1>2, <2>2, InboxStepKeeps
<1>5. CASE \E s \in Submissions : FailToList(s)
  <2>1. PICK s \in Submissions : FailToList(s)
    BY <1>5
  <2>2. InboxStepOK /\ ListingInv'
    BY <1>1, <1>3, <2>1, FailedListingIsSound, FailKeeps
  <2>3. QED
    BY <1>2, <2>2, InboxStepKeeps
<1>6. CASE ReplaceInbox
  <2>1. InboxStepOK /\ ListingInv'
    BY <1>1, <1>6, ReplacingIsSound, ReplaceKeeps
  <2>2. QED
    BY <1>2, <2>1, InboxStepKeeps
<1>7. QED
  BY <1>4, <1>5, <1>6

\* One of the sequencer's own steps.
LEMMA FeedActsKeeps ==
    ASSUME IntakeInv, UNCHANGED <<inbox, drain, late>>,
           UNCHANGED faults \/ \E writes \in BOOLEAN : Works(writes),
           UNCHANGED inbox /\ FeedSideOK /\ PairingsFit => FeedGoesOn
    PROVE  IntakeInv' /\ HistoryStep
<1>1. FeedSideOK /\ PairingsFit /\ faults \in 0..MaxFaults
  BY DEF IntakeInv
<1>2. faults' \in 0..MaxFaults
  BY <1>1, FaultsCounted
<1>3. FeedGoesOn
  BY <1>1
<1>4. QED
  BY <1>2, <1>3, FeedStepKeeps DEF FeedGoesOn

LEMMA ClientKeeps ==
    ASSUME IntakeInv, ClientActs
    PROVE  IntakeInv'
<1>1. PICK s \in Submissions :
        \/ ClientLists(s)
        \/ ClientListsInVain(s)
        \/ \E writes \in BOOLEAN : ClientPublishes(s, writes)
        \/ ClientIsRefused(s)
  BY DEF ClientActs
<1>2. CASE ClientLists(s) \/ ClientListsInVain(s)
  <2>1. /\ UNCHANGED <<file, feed, histories, drain, late>> /\ (Fail \/ UNCHANGED faults)
        /\ ListSubmission(s) \/ FailToList(s)
    BY <1>2 DEF ClientLists, ClientListsInVain, drainVars
  <2>2. QED
    BY <2>1, InboxActsKeeps
<1>3. CASE \E writes \in BOOLEAN : ClientPublishes(s, writes)
  <2>1. PICK writes \in BOOLEAN : ClientPublishes(s, writes)
    BY <1>3
  <2>2. UNCHANGED <<inbox, drain, late>> /\ Works(writes) /\ FrontDoorPublishes(s, writes)
    BY <2>1 DEF ClientPublishes
  <2>3. UNCHANGED inbox /\ FeedSideOK /\ PairingsFit => FeedGoesOn
    BY <2>2, FrontDoorGoesOn
  <2>4. QED
    BY <2>2, <2>3, FeedActsKeeps
<1>4. CASE ClientIsRefused(s)
  <2>1. UNCHANGED <<inbox, drain, late>> /\ UNCHANGED faults /\ FrontDoorRefuses(s)
    BY <1>4 DEF ClientIsRefused, drainVars
  <2>2. UNCHANGED inbox /\ FeedSideOK /\ PairingsFit => FeedGoesOn
    BY <2>1, RefusalGoesOn
  <2>3. QED
    BY <2>1, <2>2, FeedActsKeeps
<1>5. QED
  BY <1>1, <1>2, <1>3, <1>4

LEMMA OperatorOrGeneratorKeeps ==
    ASSUME IntakeInv, OperatorOrGenerator
    PROVE  IntakeInv' /\ HistoryStep
<1>1. CASE \E s \in OperatorMessages, writes \in BOOLEAN : OperatorActs(s, writes)
  <2>1. PICK s \in OperatorMessages, writes \in BOOLEAN : OperatorActs(s, writes)
    BY <1>1
  <2>2. UNCHANGED <<inbox, drain, late>> /\ Works(writes) /\ OperatorPublishes(s, writes)
    BY <2>1 DEF OperatorActs
  <2>3. UNCHANGED inbox /\ FeedSideOK /\ PairingsFit => FeedGoesOn
    BY <2>2, OperatorGoesOn
  <2>4. QED
    BY <2>2, <2>3, FeedActsKeeps
<1>2. CASE \E n \in 1..MaxBatch, writes \in BOOLEAN : Generate(n, writes)
  <2>1. PICK n \in 1..MaxBatch, writes \in BOOLEAN : Generate(n, writes)
    BY <1>2
  <2>2. UNCHANGED <<inbox, drain, late>> /\ Works(writes) /\ GenerateBurst(n, writes)
    BY <2>1 DEF Generate
  <2>3. n \in Nat \ {0}
    BY RetentionLimits
  <2>4. UNCHANGED inbox /\ FeedSideOK /\ PairingsFit => FeedGoesOn
    BY <2>2, <2>3, BurstGoesOn
  <2>5. QED
    BY <2>2, <2>4, FeedActsKeeps
<1>3. QED
  BY <1>1, <1>2 DEF OperatorOrGenerator

LEMMA DrainKeeps ==
    ASSUME IntakeInv, DrainActs
    PROVE  IntakeInv'
<1>1. CASE Poll
  BY <1>1, PollKeeps
<1>2. CASE \E i \in DOMAIN drain.trouble : BackoffEnds(i)
  BY <1>2, BackoffKeeps
<1>3. CASE \E pinning, writes \in BOOLEAN : SequenceDue(pinning, writes)
  BY <1>3, SequenceDueKeeps
<1>4. CASE MarkAccepted \/ MarkRefused
  BY <1>4, AnsweredKeeps
<1>5. CASE MarkTimesOut
  BY <1>5, UnansweredKeeps
<1>6. QED
  BY <1>1, <1>2, <1>3, <1>4, <1>5 DEF DrainActs

LEMMA StartKeeps ==
    ASSUME IntakeInv, Start \/ LoseFile
    PROVE  IntakeInv' /\ HistoryStep
<1>1. UNCHANGED <<inbox, drain, late>> /\ UNCHANGED faults
  BY DEF Start, LoseFile, drainVars
<1>2. ContinueHistory \/ NameNewHistory \/ ReplaceFile
  BY DEF Start, StartFeed, LoseFile
<1>3. UNCHANGED inbox /\ FeedSideOK /\ PairingsFit => FeedGoesOn
  BY <1>2, ContinueGoesOn, NewHistoryGoesOn, LosingFileGoesOn
<1>4. QED
  BY <1>1, <1>3, FeedActsKeeps

LEMMA EnvironmentKeeps ==
    ASSUME IntakeInv, Environment
    PROVE  IntakeInv'
<1>1. CASE Start \/ LoseFile
  BY <1>1, StartKeeps
<1>2. CASE CrashFeed
  BY <1>2, CrashKeeps
<1>3. CASE \E m \in late : LateMark(m)
  BY <1>3, LateMarkKeeps
<1>4. CASE LoseInbox
  <2>1. /\ UNCHANGED <<file, feed, histories, drain, late>> /\ Fail /\ ReplaceInbox
    BY <1>4 DEF LoseInbox
  <2>2. QED
    BY <2>1, InboxActsKeeps
<1>5. QED
  BY <1>1, <1>2, <1>3, <1>4 DEF Environment

LEMMA StepKeeps ==
    ASSUME IntakeInv, [Next]_vars
    PROVE  IntakeInv'
<1>1. CASE Next
  BY <1>1, ClientKeeps, OperatorOrGeneratorKeeps, DrainKeeps, EnvironmentKeeps DEF Next
<1>2. CASE UNCHANGED vars
  <2>1. UNCHANGED <<file, feed, histories, inbox, drain, late, faults>>
    BY <1>2 DEF vars
  <2>2. InboxStepOK /\ ListingInv'
    BY <2>1, SameInboxIsSound
  <2>3. faults' \in 0..MaxFaults
    BY <2>1 DEF IntakeInv
  <2>4. UNCHANGED <<file, feed, histories, drain, late>>
    BY <2>1
  <2>5. QED
    BY <2>2, <2>3, <2>4, InboxStepKeeps
<1>3. QED
  BY <1>1, <1>2

-----------------------------------------------------------------------------
(* What the invariant says.                                                  *)

LEMMA LogsOK == \A h \in Seq(Message) : IsLog(h)
<1>1. ASSUME NEW h \in Seq(Message), NEW i \in DOMAIN h
      PROVE  h[i].id \in Nat /\ h[i].content \in Contents
  <2>1. h[i] \in Message
    OBVIOUS
  <2>2. QED
    BY <2>1 DEF Message
<1>2. QED
  BY <1>1 DEF IsLog

LEMMA KindsAreRight ==
    ASSUME IntakeInv
    PROVE  IntakeTypeOK
<1>1. /\ HistoriesOK /\ FileOK /\ LiveOK /\ TablesOK /\ EntriesOK /\ NoEvidenceAgainstHonestFeed
      /\ DrainOK /\ DueOK /\ MarksOK /\ TroubleOK(drain.trouble)
  BY DEF IntakeInv, FeedSideOK, InboxSideOK, ListingInv, DrainSideOK, DrainOK
<1>2. IsLog(file.messages) /\ \A k \in DOMAIN histories : IsLog(histories[k])
  BY <1>1, LogsOK DEF FileOK, HistoriesOK, HistoryOK
<1>3. Len(histories) \in Nat
  BY <1>1 DEF HistoriesOK
<1>4. AccountKeys \subseteq [account : Accounts, key : Keys]
  BY DEF AccountKeys, Accounts, Keys
<1>5. /\ feed.up \in BOOLEAN /\ feed.session \in 0..Len(histories)
      /\ feed.pins \subseteq AccountKeys
  <2>1. CASE feed.up
    <3>1. feed = Restored(Len(histories)) /\ file.pins \subseteq AccountKeys
      BY <1>1, <2>1 DEF LiveOK, FileOK, PinsOK
    <3>2. feed.up = TRUE /\ feed.session = Len(histories) /\ feed.pins = file.pins
      BY <3>1 DEF Restored
    <3>3. Len(histories) \in 0..Len(histories)
      BY <1>3
    <3>4. feed.pins \subseteq AccountKeys
      BY <3>1, <3>2
    <3>5. QED
      BY <3>2, <3>3, <3>4
  <2>2. CASE ~feed.up
    <3>1. feed = Down
      BY <1>1, <2>2 DEF LiveOK
    <3>2. feed.up = FALSE /\ feed.session = 0 /\ feed.pins = {}
      BY <3>1 DEF Down
    <3>3. 0 \in 0..Len(histories) /\ {} \subseteq AccountKeys
      BY <1>3
    <3>4. QED
      BY <3>2, <3>3
  <2>3. QED
    BY <2>1, <2>2
<1>6. {feed.pins, file.pins, inbox.pins} \subseteq SUBSET [account : Accounts, key : Keys]
  <2>1. file.pins \subseteq AccountKeys /\ inbox.pins \subseteq AccountKeys
    BY <1>1 DEF FileOK, PinsOK, TablesOK
  <2>2. QED
    BY <1>4, <1>5, <2>1
<1>7. \A i \in DOMAIN inbox.entries :
          inbox.entries[i].submission \in Submissions /\ inbox.entries[i].feedId \in Nat
  <2>1. inbox.entries \in Seq(Entry)
    BY <1>1 DEF TablesOK
  <2>2. ASSUME NEW i \in DOMAIN inbox.entries PROVE inbox.entries[i].submission \in Submissions
    <3>1. inbox.entries[i] \in Entry
      BY <2>1
    <3>2. QED
      BY <3>1 DEF Entry
  <2>3. QED
    BY <1>1, <2>2 DEF EntriesOK
<1>8. \A m \in Range(drain.marks) \cup late : IsMark(m)
  <2>1. ASSUME NEW m \in Mark PROVE IsMark(m)
    <3>1. DOMAIN m = {"epoch", "entry", "id", "message", "session", "size"}
      BY DEF Mark
    <3>2. {m.epoch, m.entry, m.id, m.session, m.size} \subseteq Nat \ {0}
      BY EntryIdsFinite DEF Mark
    <3>3. m.message \in Contents
      BY DEF Mark
    <3>4. QED
      BY <3>1, <3>2, <3>3 DEF IsMark
  <2>2. QED
    BY <1>1, <2>1 DEF MarksOK, MarkOK
<1>9. inbox.rejections \subseteq {"proof_failed", "content_mismatch", "double_sequenced"}
  BY <1>1 DEF NoEvidenceAgainstHonestFeed
<1>10. DOMAIN drain.trouble \subseteq EntryIds /\ Cardinality(DOMAIN drain.trouble) <= MaxTrouble
  BY <1>1 DEF TroubleOK
<1>11. Len(drain.due) <= PageLimit /\ Len(drain.marks) <= MarkBudget /\ faults \in 0..MaxFaults
  BY <1>1 DEF DueOK, MarksOK, IntakeInv
<1>12. QED
  BY <1>2, <1>5, <1>6, <1>7, <1>8, <1>9, <1>10, <1>11 DEF IntakeTypeOK

LEMMA DiskIsRight ==
    ASSUME IntakeInv
    PROVE  DiskIsTheTruth
<1>1. HistoriesOK /\ FileOK /\ LiveOK
  BY DEF IntakeInv, FeedSideOK
<1>2. MemoryIsFile
  <2>1. SUFFICES ASSUME feed.up
                 PROVE  feed = Restored(IF file.head = NoHead THEN feed.session
                                        ELSE file.head.session)
    BY DEF MemoryIsFile
  <2>2. feed = Restored(Len(histories)) /\ feed.session = Len(histories)
    BY <1>1, <2>1, LiveFields DEF LiveOK
  <2>3. file.head # NoHead => file.head.session = Len(histories)
    BY <1>1 DEF FileOK
  <2>4. QED
    BY <2>2, <2>3
<1>3. CanStart
  BY <1>1 DEF FileOK, PinsOK, PairingsOK, HistoryOK, CanStart
<1>4. file.head # NoHead => /\ file.head.session = Len(histories)
                            /\ file.messages = Last(histories)
  BY <1>1 DEF FileOK, Last
<1>5. FileIsTheHistory
  BY <1>3, <1>4 DEF FileIsTheHistory
<1>6. QED
  BY <1>2, <1>5, KindsAreRight DEF DiskIsTheTruth

LEMMA KeysAreRight ==
    ASSUME IntakeInv
    PROVE  EveryoneUnderTheirKey
<1>1. HistoriesOK /\ PublishedUnderItsKey
  BY DEF IntakeInv, FeedSideOK
<1>2. OpeningIsTheOperators
  BY <1>1 DEF HistoriesOK, OpeningOK, OperatorsOwn, OpeningIsTheOperators
<1>3. QED
  BY <1>1, <1>2 DEF EveryoneUnderTheirKey

\* Every step of the composition keeps the invariant.
LEMMA IntakeInvHolds == Spec => []IntakeInv
<1>1. Init => IntakeInv
  BY NothingYet
<1>2. IntakeInv /\ [Next]_vars => IntakeInv'
  BY StepKeeps
<1>3. QED
  BY <1>1, <1>2, PTL DEF Spec

\* Through every crash, failed write and refused group the sequencer's process
\* knows what its file says, and the file holds everything ever published
\* (sequence, with_db, pin_or_check_account).
THEOREM DiskHolds == Spec => []DiskIsTheTruth
<1>1. IntakeInv => DiskIsTheTruth
  BY DiskIsRight
<1>2. QED
  BY <1>1, IntakeInvHolds, PTL

\* Whichever way a message came in, it stands in the log under the key that may
\* send it (log_is_open, pin_or_check_account, sequence_drained).
THEOREM KeysHold == Spec => []EveryoneUnderTheirKey
<1>1. IntakeInv => EveryoneUnderTheirKey
  BY KeysAreRight
<1>2. QED
  BY <1>1, IntakeInvHolds, PTL

\* The inbox files no evidence against a sequencer that runs this code, whatever
\* is lost, late or repeated between them (mark_entry, drain_inbox).
THEOREM NoEvidence == Spec => []NoEvidenceAgainstHonestFeed
<1>1. IntakeInv => NoEvidenceAgainstHonestFeed
  BY DEF IntakeInv, InboxSideOK
<1>2. QED
  BY <1>1, IntakeInvHolds, PTL

-----------------------------------------------------------------------------
(* The services implement the log of submissions.                            *)

Row(entries, i) == [submission |-> entries[i].submission, id |-> entries[i].feedId]
Marked(entries) == {i \in DOMAIN entries : entries[i].feedId # NotMarked}
ConfirmedIn(entries) == {Row(entries, i) : i \in Marked(entries)}

LEMMA ConfirmedNow ==
    {[submission |-> inbox.entries[i].submission, id |-> inbox.entries[i].feedId] :
        i \in DOMAIN inbox.entries \ PendingEntries} = ConfirmedIn(inbox.entries)
<1>1. DOMAIN inbox.entries \ PendingEntries = Marked(inbox.entries)
  BY DEF PendingEntries, Marked
<1>2. QED
  BY <1>1 DEF ConfirmedIn, Row

LEMMA ConfirmedNext ==
    {[submission |-> inbox'.entries[i].submission, id |-> inbox'.entries[i].feedId] :
        i \in DOMAIN inbox'.entries \ (PendingEntries')} = ConfirmedIn(inbox'.entries)
<1>1. DOMAIN inbox'.entries \ (PendingEntries') = Marked(inbox'.entries)
  BY DEF PendingEntries, Marked
<1>2. QED
  BY <1>1 DEF ConfirmedIn, Row

\* A step of the log of submissions, or none.
LogStep ==
    [Log!Next]_<<histories,
                 {[submission |-> inbox.entries[i].submission,
                   id |-> inbox.entries[i].feedId] :
                     i \in DOMAIN inbox.entries \ PendingEntries}>>

LEMMA PrefixStays ==
    ASSUME NEW S, NEW s \in Seq(S), NEW t \in Seq(S), NEW n \in Nat, n <= Len(s), n <= Len(t),
           \A i \in 1..n : s[i] = t[i]
    PROVE  SubSeq(s, 1, n) = SubSeq(t, 1, n)
OBVIOUS

\* A group published is messages at the end of the newest history.
LEMMA PublishedIsPublish ==
    ASSUME IntakeInv, FeedSideOK', feed.up, NEW batch, NEW pins, GroupFits(batch, pins),
           Published(batch, pins), UNCHANGED inbox
    PROVE  LogStep
<1> DEFINE h == WithBatch(batch)
           k == Len(histories)
           g == file.messages
<1>1. /\ FileOK /\ LiveOK /\ histories \in Seq(Seq(Message)) /\ batch \in Seq(BatchItem)
      /\ batch # <<>> /\ HistoryOK(h)
  BY DEF IntakeInv, FeedSideOK, HistoriesOK, GroupFits
<1>2. RowsAre(Len(g), batch, h)
  BY <1>1, RowsWithBatch
<1>3. /\ Len(g) \in Nat /\ g \in Seq(Message) /\ h \in Seq(Message)
      /\ Len(h) = Len(g) + Len(batch) /\ \A i \in 1..Len(g) : h[i] = g[i]
      /\ \A i \in DOMAIN h : h[i].id = i
  BY <1>1, <1>2 DEF RowsAre, FileOK
<1>4. histories # <<>> /\ g = histories[k] /\ k \in Nat /\ k # 0
  BY <1>1, LiveFields
<1>5. /\ histories' = [histories EXCEPT ![k] = h] /\ histories' \in Seq(Seq(Message))
      /\ Len(histories') = k
  BY DEF Published
<1>6. SpendsOnce(h)
  BY <1>1, <1>3, NonceStandsOnce DEF HistoryOK
<1>7. Len(batch) \in Nat /\ Len(batch) # 0
  BY <1>1
<1> HIDE DEF h, k, g
<1>8. Last(histories) = g /\ Last(histories') = h
  BY <1>1, <1>4, <1>5 DEF Last, k
<1>9. Front(histories') = Front(histories)
  <2>1. \A i \in 1..(k - 1) : histories'[i] = histories[i]
    BY <1>1, <1>4, <1>5
  <2>2. k - 1 \in Nat /\ k - 1 <= Len(histories) /\ k - 1 <= Len(histories')
    BY <1>4, <1>5 DEF k
  <2>3. SubSeq(histories', 1, k - 1) = SubSeq(histories, 1, k - 1)
    BY <1>1, <1>5, <2>1, <2>2, PrefixStays
  <2>4. QED
    BY <1>5, <2>3 DEF Front, k
<1>10. IsStrictPrefix(g, h)
  <2>1. Len(g) <= Len(h) /\ Len(g) # Len(h)
    BY <1>3, <1>7
  <2>2. SubSeq(g, 1, Len(g)) = SubSeq(h, 1, Len(g))
    BY <1>3, <2>1, PrefixStays
  <2>3. QED
    BY <2>1, <2>2 DEF IsStrictPrefix, IsPrefix
<1>11. Log!Numbered(h)
  BY <1>3 DEF Log!Numbered
<1>12. Log!NoncesDiffer(h)
  BY <1>6 DEF SpendsOnce, Log!NoncesDiffer
<1>13. ConfirmedIn(inbox'.entries) = ConfirmedIn(inbox.entries)
  OBVIOUS
<1>14. Len(histories') = Len(histories) /\ histories # <<>>
  BY <1>4, <1>5 DEF k
<1>15. Log!Publish
  <2>1. Log!Last(histories) = g /\ Log!Last(histories') = h
    BY <1>8 DEF Last, Log!Last
  <2>2. Log!Front(histories') = Log!Front(histories)
    BY <1>9 DEF Front, Log!Front
  <2>3. Log!IsStrictPrefix(g, h)
    BY <1>10 DEF IsStrictPrefix, IsPrefix, Log!IsStrictPrefix, Log!IsPrefix
  <2>4. QED
    BY <1>11, <1>12, <1>13, <1>14, <2>1, <2>2, <2>3, ConfirmedNow, ConfirmedNext
       DEF Log!Publish
<1>16. QED
  BY <1>15 DEF LogStep, Log!Next

\* The sequencer's steps are the log's.
LEMMA FeedStepIsLogs ==
    ASSUME IntakeInv, IntakeInv', HistoryStep, UNCHANGED inbox
    PROVE  LogStep
<1>1. ConfirmedIn(inbox'.entries) = ConfirmedIn(inbox.entries)
  OBVIOUS
<1>2. CASE UNCHANGED histories
  BY <1>1, <1>2, ConfirmedNow, ConfirmedNext DEF LogStep
<1>3. CASE histories' = Append(histories, <<>>)
  <2>1. Log!NewHistory
    BY <1>1, <1>3, ConfirmedNow, ConfirmedNext DEF Log!NewHistory
  <2>2. QED
    BY <2>1 DEF LogStep, Log!Next
<1>4. CASE feed.up /\ \E batch, pins : GroupFits(batch, pins) /\ Published(batch, pins)
  <2>1. PICK batch, pins : GroupFits(batch, pins) /\ Published(batch, pins)
    BY <1>4
  <2>2. FeedSideOK'
    BY DEF IntakeInv
  <2>3. QED
    BY <1>4, <2>1, <2>2, PublishedIsPublish
<1>5. QED
  BY <1>2, <1>3, <1>4 DEF HistoryStep

-----------------------------------------------------------------------------
(* The inbox's steps are the log's.                                          *)

\* Writing what was there already, or an entry that is not marked yet.
LEMMA ListingConfirmsNothing ==
    ASSUME ListingInv, NEW s \in Submissions, ListSubmission(s)
    PROVE  ConfirmedIn(inbox'.entries) = ConfirmedIn(inbox.entries)
<1>1. inbox \in [epoch : Nat, entries : Seq(Entry), pins : SUBSET AccountKeys,
                 rejections : SUBSET FaultNames]
  BY DEF ListingInv, TablesOK
<1>2. PICK row, pins : row = [submission |-> s, feedId |-> NotMarked]
                       /\ pins = AfterPin(inbox.pins, s)
  OBVIOUS
<1>3. PICK old, entries : /\ old = inbox.entries
                          /\ entries = IF NonceListed(s) THEN old ELSE Append(old, row)
  OBVIOUS
<1>4. inbox' = [inbox EXCEPT !.pins = pins, !.entries = entries]
  BY <1>2, <1>3 DEF ListSubmission
<1>5. inbox'.entries = entries
  BY <1>1, <1>4
<1>6. row.feedId = NotMarked /\ row \in Entry
  BY <1>2 DEF Entry, NotMarked
<1>7. PICK n : n = Len(old)
  OBVIOUS
<1>8. /\ n \in Nat /\ DOMAIN old = 1..n
      /\ \A i \in 1..n : i \in DOMAIN entries /\ entries[i] = old[i]
      /\ \A i \in DOMAIN entries : i \in 1..n \/ entries[i] = row
  BY <1>1, <1>3, <1>6, <1>7
<1>9. Marked(entries) = Marked(old)
  BY <1>6, <1>8 DEF Marked
<1>10. \A i \in Marked(old) : Row(entries, i) = Row(old, i)
  BY <1>8 DEF Marked, Row
<1>11. ConfirmedIn(entries) = ConfirmedIn(old)
  BY <1>9, <1>10 DEF ConfirmedIn
<1>12. QED
  BY <1>3, <1>5, <1>11

\* A mark confirms its own entry, by the one message that carries it.
LEMMA MarkIsConfirm ==
    ASSUME IntakeInv, NEW m, MarkOK(m), ConfirmEntry(m, Included(m)), UNCHANGED histories
    PROVE  LogStep
<1>1. /\ inbox \in [epoch : Nat, entries : Seq(Entry), pins : SUBSET AccountKeys,
                    rejections : SUBSET FaultNames]
      /\ EntriesOK /\ HistoriesOK /\ ListedOnceUnderItsKey
  BY DEF IntakeInv, InboxSideOK, ListingInv, TablesOK, FeedSideOK
<1>2. AboutAnEntry(m)
  BY DEF ConfirmEntry, Accepted
<1>3. PICK old, e, s, k, id : /\ old = inbox.entries /\ k = m.entry /\ e = old[k]
                              /\ s = e.submission /\ id = m.id
  OBVIOUS
<1>4. /\ old \in Seq(Entry) /\ k \in DOMAIN old /\ e \in Entry /\ s \in Submissions
      /\ id \in Nat \ {0} /\ Carries(s.session, id, MessageFrom(s))
  <2>1. k \in DOMAIN old /\ old \in Seq(Entry)
    BY <1>1, <1>2, <1>3 DEF AboutAnEntry
  <2>2. e \in Entry
    BY <1>3, <2>1
  <2>3. QED
    BY <1>2, <1>3, <2>1, <2>2, MarkIsRight DEF Entry
<1>5. PICK row : row = [e EXCEPT !.feedId = id]
  OBVIOUS
<1>6. row.submission = s /\ row.feedId = id /\ id # NotMarked
  BY <1>3, <1>4, <1>5 DEF Entry, NotMarked
<1>7. PICK entries : entries = [old EXCEPT ![k] = row]
  OBVIOUS
<1>8. inbox' = [inbox EXCEPT !.entries = entries]
  BY <1>3, <1>5, <1>7 DEF ConfirmEntry
<1>9. inbox'.entries = entries
  BY <1>1, <1>8
<1>10. /\ DOMAIN entries = DOMAIN old /\ entries[k] = row
       /\ \A i \in DOMAIN old : i # k => entries[i] = old[i]
  BY <1>4, <1>7
<1>11. PICK new : new = [submission |-> s, id |-> id]
  OBVIOUS
<1>12. Row(entries, k) = new
  BY <1>6, <1>10, <1>11 DEF Row
<1>13. \A i \in DOMAIN old : i # k => Row(entries, i) = Row(old, i)
  BY <1>10 DEF Row
<1>14. Marked(entries) = Marked(old) \cup {k}
  BY <1>4, <1>6, <1>10 DEF Marked
<1>15. e.feedId \in {NotMarked, id}
  BY <1>3 DEF ConfirmEntry, Accepted, Fault
<1>16. k \in Marked(old) => Row(old, k) = new
  BY <1>3, <1>11, <1>15 DEF Marked, Row
<1>17. Marked(old) \subseteq DOMAIN old
  BY DEF Marked
<1>18. ConfirmedIn(entries) = ConfirmedIn(old) \cup {new}
  <2>1. ASSUME NEW c \in ConfirmedIn(entries) PROVE c \in ConfirmedIn(old) \cup {new}
    BY <1>12, <1>13, <1>14, <1>17 DEF ConfirmedIn
  <2>2. new \in ConfirmedIn(entries)
    BY <1>12, <1>14 DEF ConfirmedIn
  <2>3. ASSUME NEW c \in ConfirmedIn(old) PROVE c \in ConfirmedIn(entries)
    <3>1. PICK i \in Marked(old) : c = Row(old, i)
      BY DEF ConfirmedIn
    <3>2. CASE i = k
      BY <1>16, <2>2, <3>1, <3>2
    <3>3. CASE i # k
      <4>1. Row(entries, i) = c /\ i \in Marked(entries)
        BY <1>13, <1>14, <1>17, <3>1, <3>3
      <4>2. QED
        BY <4>1 DEF ConfirmedIn
    <3>4. QED
      BY <3>2, <3>3
  <2>4. QED
    BY <2>1, <2>2, <2>3
<1>19. ASSUME NEW c \in ConfirmedIn(old), c.submission.session = s.session
       PROVE  c.submission = s <=> c.id = id
  <2>1. PICK i \in Marked(old) : c = Row(old, i)
    BY DEF ConfirmedIn
  <2>2. CASE i = k
    BY <1>11, <1>16, <2>1, <2>2
  <2>3. CASE i # k
    <3>1. PICK f, t : f = old[i].feedId /\ t = old[i].submission
      OBVIOUS
    <3>2. c.submission = t /\ c.id = f /\ i \in DOMAIN old /\ f # NotMarked
      BY <2>1, <3>1 DEF Row, Marked
    <3>3. t.account # s.account \/ t.nonce # s.nonce
      BY <1>1, <1>3, <1>4, <2>3, <3>1, <3>2 DEF ListedOnceUnderItsKey
    <3>4. Carries(t.session, f, MessageFrom(t)) /\ t.session = s.session
      BY <1>1, <1>3, <1>19, <3>1, <3>2 DEF EntriesOK
    <3>5. ASSUME f = id PROVE FALSE
      <4>1. MessageFrom(t) = MessageFrom(s)
        BY <1>4, <3>4, <3>5 DEF Carries
      <4>2. t.account = s.account /\ t.nonce = s.nonce
        BY <4>1 DEF MessageFrom
      <4>3. QED
        BY <3>3, <4>2
    <3>6. t # s
      BY <3>3
    <3>7. QED
      BY <3>2, <3>5, <3>6
  <2>4. QED
    BY <2>2, <2>3
<1>20. PICK before, after : before = ConfirmedIn(inbox.entries) /\ after = ConfirmedIn(inbox'.entries)
  OBVIOUS
<1>21. after = before \cup {new}
  BY <1>3, <1>9, <1>18, <1>20
<1>22. /\ s.session \in DOMAIN histories /\ id \in DOMAIN histories[s.session]
       /\ histories[s.session][id].content = MessageFrom(s)
  BY <1>4 DEF Carries
<1>23. \A c \in before : c.submission.session = s.session => (c.submission = s <=> c.id = id)
  BY <1>3, <1>19, <1>20
<1>24. Log!Confirm(s, id)
  BY <1>11, <1>20, <1>21, <1>22, <1>23, ConfirmedNow, ConfirmedNext DEF Log!Confirm, Log!MessageFrom, MessageFrom
<1>25. new \in after /\ new.id = id
  BY <1>11, <1>21
<1>26. Log!Next
  BY <1>4, <1>20, <1>24, <1>25, ConfirmedNext DEF Log!Next
<1>27. QED
  BY <1>26 DEF LogStep

LEMMA TakingIsLogs ==
    ASSUME IntakeInv, NEW m, MarkOK(m), HandleMark(m, Included(m)), UNCHANGED histories
    PROVE  LogStep
<1>1. CASE ConfirmEntry(m, Included(m))
  BY <1>1, MarkIsConfirm
<1>2. CASE RecordRejection(m, Included(m))
  BY <1>2, MarkIsRight DEF RecordRejection
<1>3. CASE UNCHANGED inbox
  <2>1. ConfirmedIn(inbox'.entries) = ConfirmedIn(inbox.entries)
    BY <1>3
  <2>2. QED
    BY <2>1, ConfirmedNow, ConfirmedNext DEF LogStep
<1>4. QED
  BY <1>1, <1>2, <1>3 DEF HandleMark

LEMMA InboxStepIsLogs ==
    ASSUME IntakeInv, UNCHANGED histories,
           (\E s \in Submissions : ListSubmission(s) \/ FailToList(s)) \/ ReplaceInbox
    PROVE  LogStep
<1>1. ListingInv
  BY DEF IntakeInv, InboxSideOK
<1>2. CASE \E s \in Submissions : ListSubmission(s) \/ FailToList(s)
  <2>1. PICK s \in Submissions : ListSubmission(s) \/ FailToList(s)
    BY <1>2
  <2>2. ConfirmedIn(inbox'.entries) = ConfirmedIn(inbox.entries)
    <3>1. CASE ListSubmission(s)
      BY <1>1, <3>1, ListingConfirmsNothing
    <3>2. CASE FailToList(s)
      <4>1. PICK pins : pins = AfterPin(inbox.pins, s)
        OBVIOUS
      <4>2. inbox' = [inbox EXCEPT !.pins = pins]
        BY <3>2, <4>1 DEF FailToList
      <4>3. inbox'.entries = inbox.entries
        BY <1>1, <4>2 DEF ListingInv, TablesOK
      <4>4. QED
        BY <4>3
    <3>3. QED
      BY <2>1, <3>1, <3>2
  <2>3. QED
    BY <2>2, ConfirmedNow, ConfirmedNext DEF LogStep
<1>3. CASE ReplaceInbox
  <2>1. inbox'.entries = <<>>
    BY <1>3 DEF ReplaceInbox
  <2>2. ConfirmedIn(inbox'.entries) = {}
    BY <2>1 DEF ConfirmedIn, Marked
  <2>3. Log!Forget
    BY <2>2, ConfirmedNext DEF Log!Forget
  <2>4. QED
    BY <2>3 DEF LogStep, Log!Next
<1>4. QED
  BY <1>2, <1>3

\* What a step is to the log of submissions.
StepSeen ==
    \/ HistoryStep /\ UNCHANGED inbox
    \/ /\ UNCHANGED histories
       /\ (\E s \in Submissions : ListSubmission(s) \/ FailToList(s)) \/ ReplaceInbox
    \/ UNCHANGED histories /\ \E m : MarkOK(m) /\ HandleMark(m, Included(m))

LEMMA PublishesOrNot ==
    ASSUME IntakeInv, NEW s \in Submissions,
           (\E writes \in BOOLEAN : ClientPublishes(s, writes)) \/ ClientIsRefused(s)
    PROVE  HistoryStep /\ UNCHANGED inbox
<1>1. FeedSideOK /\ PairingsFit
  BY DEF IntakeInv
<1>2. CASE \E writes \in BOOLEAN : ClientPublishes(s, writes)
  <2>1. PICK writes \in BOOLEAN : ClientPublishes(s, writes)
    BY <1>2
  <2>2. UNCHANGED inbox /\ FrontDoorPublishes(s, writes)
    BY <2>1 DEF ClientPublishes
  <2>3. QED
    BY <1>1, <2>2, FrontDoorGoesOn DEF FeedGoesOn
<1>3. CASE ClientIsRefused(s)
  <2>1. UNCHANGED inbox /\ FrontDoorRefuses(s)
    BY <1>3 DEF ClientIsRefused
  <2>2. QED
    BY <1>1, <2>1, RefusalGoesOn DEF FeedGoesOn
<1>4. QED
  BY <1>2, <1>3

LEMMA StepIsSeen ==
    ASSUME IntakeInv, Next
    PROVE  StepSeen
<1>1. MarksOK /\ DrainOK
  BY DEF IntakeInv, DrainSideOK
<1>2. CASE ClientActs
  <2>1. PICK s \in Submissions :
          \/ ClientLists(s)
          \/ ClientListsInVain(s)
          \/ \E writes \in BOOLEAN : ClientPublishes(s, writes)
          \/ ClientIsRefused(s)
    BY <1>2 DEF ClientActs
  <2>2. CASE ClientLists(s) \/ ClientListsInVain(s)
    <3>1. UNCHANGED histories /\ (ListSubmission(s) \/ FailToList(s))
      BY <2>2 DEF ClientLists, ClientListsInVain
    <3>2. QED
      BY <3>1 DEF StepSeen
  <2>3. CASE (\E writes \in BOOLEAN : ClientPublishes(s, writes)) \/ ClientIsRefused(s)
    <3>1. HistoryStep /\ UNCHANGED inbox
      BY <2>3, PublishesOrNot
    <3>2. QED
      BY <3>1 DEF StepSeen
  <2>4. QED
    BY <2>1, <2>2, <2>3
<1>3. CASE OperatorOrGenerator
  <2>1. HistoryStep /\ UNCHANGED inbox
    BY <1>3, OperatorOrGeneratorKeeps DEF OperatorOrGenerator, OperatorActs, Generate
  <2>2. QED
    BY <2>1 DEF StepSeen
<1>4. CASE DrainActs
  <2>1. CASE Poll \/ (\E i \in DOMAIN drain.trouble : BackoffEnds(i)) \/ MarkTimesOut
    <3>1. UNCHANGED <<histories, inbox>>
      BY <2>1 DEF Poll, TakePage, BackoffEnds, MarkTimesOut
    <3>2. QED
      BY <3>1 DEF StepSeen, HistoryStep
  <2>2. CASE \E pinning, writes \in BOOLEAN : SequenceDue(pinning, writes)
    BY <2>2, SequenceDueKeeps DEF StepSeen
  <2>3. CASE MarkAccepted \/ MarkRefused
    <3>1. /\ drain.marks # <<>> /\ HandleMark(NextMark, Included(NextMark))
          /\ UNCHANGED histories
      BY <2>3 DEF MarkAccepted, MarkRefused
    <3>2. MarkOK(NextMark)
      BY <1>1, <3>1, NextIsMark
    <3>3. PICK m : m = NextMark
      OBVIOUS
    <3>4. MarkOK(m) /\ HandleMark(m, Included(m))
      BY <3>1, <3>2, <3>3
    <3>5. QED
      BY <3>1, <3>4 DEF StepSeen
  <2>4. QED
    BY <1>4, <2>1, <2>2, <2>3 DEF DrainActs
<1>5. CASE Environment
  <2>1. CASE Start \/ LoseFile
    <3>1. HistoryStep /\ UNCHANGED inbox
      BY <2>1, StartKeeps DEF Start, LoseFile
    <3>2. QED
      BY <3>1 DEF StepSeen
  <2>2. CASE CrashFeed
    <3>1. UNCHANGED <<histories, inbox>>
      BY <2>2 DEF CrashFeed
    <3>2. QED
      BY <3>1 DEF StepSeen, HistoryStep
  <2>3. CASE \E m \in late : LateMark(m)
    <3>1. PICK m \in late : LateMark(m)
      BY <2>3
    <3>2. UNCHANGED histories /\ HandleMark(m, Included(m)) /\ MarkOK(m)
      BY <1>1, <3>1 DEF LateMark, MarksOK
    <3>3. QED
      BY <3>2 DEF StepSeen
  <2>4. CASE LoseInbox
    BY <2>4 DEF LoseInbox, StepSeen
  <2>5. QED
    BY <1>5, <2>1, <2>2, <2>3, <2>4 DEF Environment
<1>6. QED
  BY <1>2, <1>3, <1>4, <1>5 DEF Next

LEMMA StepIsLogs ==
    ASSUME IntakeInv, IntakeInv', [Next]_vars
    PROVE  LogStep
<1>1. CASE Next
  BY <1>1, StepIsSeen, FeedStepIsLogs, InboxStepIsLogs, TakingIsLogs DEF StepSeen
<1>2. CASE UNCHANGED vars
  <2>1. HistoryStep /\ UNCHANGED inbox
    BY <1>2 DEF vars, HistoryStep
  <2>2. QED
    BY <2>1, FeedStepIsLogs
<1>3. QED
  BY <1>1, <1>2

LEMMA EmptyLog == Init => Log!Init
<1> SUFFICES ASSUME Init PROVE Log!Init
  OBVIOUS
<1>1. histories = <<>> /\ inbox.entries = <<>>
  BY DEF Init, SequencerInit, InboxInit
<1>2. ConfirmedIn(inbox.entries) = {}
  BY <1>1 DEF ConfirmedIn, Marked
<1>3. QED
  BY <1>1, <1>2, ConfirmedNow DEF Log!Init

\* The sequencer and the inbox, with all their pages, crashes, retries and late
\* marks, are a log of submissions: histories grow by whole numbers at the end,
\* no nonce stands twice in one, and a confirmation names, for good, the one
\* message that carries its entry (sequence, mark_entry, drain_inbox).
THEOREM LogImplemented == Spec => ImplementsSubmissionLog
<1>1. Init => Log!Init
  BY EmptyLog
<1>2. IntakeInv /\ IntakeInv' /\ [Next]_vars
        => [Log!Next]_<<histories,
                        {[submission |-> inbox.entries[i].submission,
                          id |-> inbox.entries[i].feedId] :
                            i \in DOMAIN inbox.entries \ PendingEntries}>>
  BY StepIsLogs DEF LogStep
<1>3. QED
  BY <1>1, <1>2, IntakeInvHolds, PTL DEF Spec, ImplementsSubmissionLog, Log!Spec
================================================================================
