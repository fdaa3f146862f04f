--------------------------- MODULE IntakeProperties ---------------------------
(***************************************************************************)
(* What the sequencer, the inbox and the drain between them promise, and   *)
(* what comments of the code say of them that the code does not keep.      *)
(***************************************************************************)
EXTENDS Intake

Accounts == {s.account : s \in Submissions \cup OperatorMessages}
Keys == {s.key : s \in Submissions}
Contents == {MessageFrom(s) : s \in Submissions \cup OperatorMessages} \cup {Generated}

IsLog(messages) ==
    \A i \in DOMAIN messages : messages[i].id \in Nat /\ messages[i].content \in Contents

IsMark(m) ==
    /\ DOMAIN m = {"epoch", "entry", "id", "message", "session", "size"}
    /\ {m.epoch, m.entry, m.id, m.session, m.size} \subseteq Nat \ {0}
    /\ m.message \in Contents

\* Every part of the state is of the kind the code's types and tables allow.
IntakeTypeOK ==
    /\ IsLog(file.messages)
    /\ \A i \in DOMAIN histories : IsLog(histories[i])
    /\ feed.up \in BOOLEAN
    /\ feed.session \in 0..Len(histories)
    /\ {feed.pins, file.pins, inbox.pins} \subseteq SUBSET [account : Accounts, key : Keys]
    /\ \A i \in DOMAIN inbox.entries :
          inbox.entries[i].submission \in Submissions /\ inbox.entries[i].feedId \in Nat
    /\ inbox.rejections \subseteq {"proof_failed", "content_mismatch", "double_sequenced"}
    /\ DOMAIN drain.trouble \subseteq EntryIds
    /\ Cardinality(DOMAIN drain.trouble) <= MaxTrouble
    /\ Len(drain.due) <= PageLimit /\ Len(drain.marks) <= MarkBudget
    /\ \A m \in Range(drain.marks) \cup late : IsMark(m)
    /\ faults \in 0..MaxFaults

\* Whatever failed on the way, the process remembers exactly what a restart
\* would read back: the next id, the spent nonces, the pairings and the keys
\* (sequence rolls back, pin_or_check_account writes before it remembers).
MemoryIsFile ==
    feed.up => feed = Restored(IF file.head = NoHead THEN feed.session
                               ELSE file.head.session)

\* The database is always one the sequencer starts on, and it holds every
\* message ever published in the history it goes on with: nothing was answered
\* for that is not on disk (sequence, with_db).
FileIsTheHistory ==
    /\ CanStart
    /\ file.head # NoHead => /\ file.head.session = Len(histories)
                             /\ file.messages = Last(histories)

\* A client's message stands in the log only if somebody signed it with the
\* key pinned for its account (pin_or_check_account, both ways in).
PublishedUnderItsKey ==
    \A i \in DOMAIN file.messages :
        \/ file.messages[i].content \in {Generated} \cup {MessageFrom(s) : s \in OperatorMessages}
        \/ \E s \in Submissions :
              /\ MessageFrom(s) = file.messages[i].content
              /\ s.session = file.head.session
              /\ IsPinned(file.pins, s) /\ KeyFits(file.pins, s)

\* The first OPENING_MESSAGES positions of every history are the operator's
\* (log_is_open at each of the ways in).
OpeningIsTheOperators ==
    \A h \in DOMAIN histories : \A i \in 1..Opening :
        i \in DOMAIN histories[h] =>
            histories[h][i].content \in {MessageFrom(s) : s \in OperatorMessages}

\* The disk and the process agree on everything ever published (sequence,
\* with_db, pin_or_check_account).
DiskIsTheTruth == IntakeTypeOK /\ MemoryIsFile /\ FileIsTheHistory

\* Every message stands under the key that may send it: the operator's the
\* opening, an account's pinned one the rest (log_is_open, pin_or_check_account).
EveryoneUnderTheirKey == PublishedUnderItsKey /\ OpeningIsTheOperators

\* The inbox never files evidence against a sequencer that runs this code: each
\* mark it signs is proved, names the entry's own message, and never a second
\* one, across crashes, late marks and lost databases (mark_entry).
NoEvidenceAgainstHonestFeed == inbox.rejections = {}

\* The inbox lists no nonce of an account twice, whoever sends the same or other
\* bytes, and every entry is signed with the key its account is pinned to
\* (submit pins before it writes; mark_entry touches no submission).
ListedOnceUnderItsKey ==
    /\ \A i \in DOMAIN inbox.entries :
          [account |-> inbox.entries[i].submission.account,
           key |-> inbox.entries[i].submission.key] \in inbox.pins
    /\ \A i, j \in DOMAIN inbox.entries :
          i # j => \/ inbox.entries[i].submission.account # inbox.entries[j].submission.account
                   \/ inbox.entries[i].submission.nonce # inbox.entries[j].submission.nonce

\* The two services together implement the log of submissions.
Log == INSTANCE SubmissionLog WITH
    confirmed <- {[submission |-> inbox.entries[i].submission,
                   id |-> inbox.entries[i].feedId] : i \in DOMAIN inbox.entries \ PendingEntries}

\* Histories grow at the end and by whole numbers, no nonce stands twice in one,
\* and an entry is confirmed, once and for good, by the message that carries it.
ImplementsSubmissionLog == Log!Spec

-----------------------------------------------------------------------------
(* What the code owes an accepted entry.                                    *)

CurrentSession == IF file.head = NoHead THEN feed.session ELSE file.head.session

\* Nothing the sequencer knows speaks against the submission.
Sequenceable(s) ==
    /\ s.session = CurrentSession
    /\ MayPin(file.pins, s, TRUE)
    /\ \/ /\ SpentFor(SpentBy(file.messages), s) = {}
          /\ Cardinality(SpentBy(file.messages)) < MaxNonces
          /\ Cardinality(file.pairings) < MaxPairings
       \/ \E n \in SpentFor(SpentBy(file.messages), s) :
              file.messages[n.id].content = MessageFrom(s)

\* Entries that cannot be sequenced stay at the head of the page: fewer of them
\* than a page must be older.
InReach(i) ==
    Cardinality({j \in PendingEntries :
                    j < i /\ ~Sequenceable(inbox.entries[j].submission)}) < PageLimit

Owed(s) ==
    \E i \in PendingEntries :
        inbox.entries[i].submission = s /\ Sequenceable(s) /\ InReach(i)

\* "Everything this service accepts, the sequencer must sequence" (inbox.rs
\* validate_submission): an entry that nothing speaks against is sequenced and
\* its mark accepted, through crashes, failed writes and lost answers, unless
\* something comes to speak against it or the inbox loses its database.
AcceptedIsConfirmed == \A s \in Submissions : Owed(s) ~> ~Owed(s)

-----------------------------------------------------------------------------
(* What comments say.                                                       *)

\* "A limited page still empties this service; it takes more ticks" (inbox.rs
\* PAGE_LIMIT): an entry is reached whatever stands before it.
PagesReachEveryEntry ==
    \A s \in Submissions :
        []<>(~Sequenceable(s) \/ \A i \in PendingEntries : inbox.entries[i].submission # s)

\* The address of the inbox "can point at any address": a page may hold anything.
PollAnyPage(page) == TakePage(inbox.epoch, page)

AnyPages ==
    UNION {[1..n -> [entry : 1..2, submission : Submissions]] : n \in 0..PageLimit}

SpecAnyInbox == Init /\ [][Next \/ \E page \in AnyPages : PollAnyPage(page)]_vars

\* "Ids are 1..N with no gaps. Everything here depends on that" (feed.rs
\* with_db).
IdsHaveNoGaps == \A i \in DOMAIN file.messages : file.messages[i].id = i
=============================================================================
