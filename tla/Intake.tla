-------------------------------- MODULE Intake --------------------------------
(***************************************************************************)
(* The sequencer, the inbox and the clients of both, joined by the drain   *)
(* (src/services/src/feed/drain.rs): a task of the sequencer's process     *)
(* that asks the inbox for its pending entries, has them sequenced under   *)
(* the sequencer's lock, and marks them one HTTP call after another.       *)
(*                                                                         *)
(* Between the page and the lock, and between two marks, everybody else    *)
(* may act.  The drain's memory dies with the process.  A mark whose       *)
(* answer does not come in time may still be on its way.                   *)
(***************************************************************************)
EXTENDS Sequencer, Inbox, SequencesExt

CONSTANTS
    PageLimit,      \* entries of one page (PAGE_LIMIT)
    RefusalLimit,   \* refusals before an entry is given up (MARK_REFUSAL_LIMIT)
    MaxTrouble,     \* records of failed entries (max_retry_records)
    MarkBudget,     \* marks of one pass (MARK_BUDGET_PER_TICK)
    MaxFaults       \* bound: crashes, failed writes, lost answers, lost databases

ASSUME DrainLimits ==
    {PageLimit, RefusalLimit, MaxTrouble, MarkBudget, MaxFaults} \subseteq Nat

VARIABLES
    drain,      \* [epoch, trouble, due, marks]: struct Drain, the page and the marks in hand
    late,       \* marks nobody waits for any more that the inbox may still get
    faults      \* how many faults have happened

drainVars == <<drain, late, faults>>
vars == <<file, feed, histories, inbox, drain, late, faults>>

NoEpoch == 0
NoRecords == <<>>
Forgotten == [epoch |-> NoEpoch, trouble |-> NoRecords, due |-> <<>>, marks |-> <<>>]

Init == SequencerInit /\ InboxInit /\ drain = Forgotten /\ late = {} /\ faults = 0

Fail == faults < MaxFaults /\ faults' = faults + 1
Works(writes) == IF writes THEN UNCHANGED faults ELSE Fail

FirstOf(n, s) == SubSeq(s, 1, IF n < Len(s) THEN n ELSE Len(s))

\* The elements of s that are in T, in their order.
Within(s, T) ==
    FoldLeft(LAMBDA kept, e : IF e \in T THEN Append(kept, e) ELSE kept, <<>>, s)

-----------------------------------------------------------------------------
(* Records of entries that failed (struct Trouble).                         *)

Due(trouble, i) ==
    IF i \in DOMAIN trouble THEN ~trouble[i].givenUp /\ ~trouble[i].waiting
    ELSE Cardinality(DOMAIN trouble) < MaxTrouble

Refusals(trouble, i) == IF i \in DOMAIN trouble THEN trouble[i].refusals ELSE 0

\* A failure that finds no room for a record is not recorded.
Failed(trouble, i, refused) ==
    LET count == Refusals(trouble, i) + (IF refused THEN 1 ELSE 0)
    IN IF i \notin DOMAIN trouble /\ Cardinality(DOMAIN trouble) >= MaxTrouble
       THEN trouble
       ELSE [j \in DOMAIN trouble \cup {i} |->
                IF j = i THEN [refusals |-> count, waiting |-> TRUE,
                               givenUp |-> count >= RefusalLimit]
                ELSE trouble[j]]

\* The entries a pass refused.
AllFailed(trouble, refused) ==
    FoldLeft(LAMBDA t, i : Failed(t, i, TRUE), trouble, refused)

Succeeded(trouble, i) == Restrict(trouble, DOMAIN trouble \ {i})

-----------------------------------------------------------------------------
(* The page (drain_inbox, Drain::pending).                                  *)

PendingInOrder ==
    LET row(i) == [entry |-> i, submission |-> inbox.entries[i].submission]
    IN Within([i \in DOMAIN inbox.entries |-> row(i)], {row(i) : i \in PendingEntries})

DrainIsIdle == feed.up /\ drain.due = <<>> /\ drain.marks = <<>>

\* What is remembered is about one database of the inbox.
TroubleIn(epoch) == IF drain.epoch = epoch THEN drain.trouble ELSE NoRecords

DueOf(page, trouble) == Within(page, {e \in Range(page) : Due(trouble, e.entry)})

TakePage(epoch, page) ==
    /\ DrainIsIdle
    /\ LogIsOpen
    /\ drain' = [drain EXCEPT
                   !.epoch = epoch,
                   !.trouble = TroubleIn(epoch),
                   !.due = DueOf(FirstOf(PageLimit, page), TroubleIn(epoch))]
    /\ UNCHANGED <<file, feed, histories, inbox, late, faults>>

Poll == TakePage(inbox.epoch, PendingInOrder)

\* The wait before an entry is tried again is over.
BackoffEnds(i) ==
    /\ i \in DOMAIN drain.trouble
    /\ drain.trouble[i].waiting
    /\ ~drain.trouble[i].givenUp
    /\ drain' = [drain EXCEPT !.trouble[i].waiting = FALSE]
    /\ UNCHANGED <<file, feed, histories, inbox, late, faults>>

-----------------------------------------------------------------------------
(* The pass over the page (sequence_drained).  `pass` is what the loop has  *)
(* decided so far: the keys pinned, the batch, the pairs to mark, and the   *)
(* entries refused.                                                         *)

NewPass == [pins |-> feed.pins, batch |-> <<>>, pairs |-> <<>>, refused |-> <<>>]

PairedAs(i) == {p.id : p \in {q \in feed.pairings : q.epoch = drain.epoch /\ q.entry = i}}

\* The messages a submission's nonce is spent on: published, or in the batch.
SpentOn(pass, s) ==
    {n.id : n \in SpentFor(feed.nonces \cup SpentBy(Numbered(pass.batch)), s)}

ContentOf(pass, id) ==
    IF id < feed.nextId THEN file.messages[id].content
    ELSE pass.batch[id - feed.nextId + 1].content

Pair(pass, i, id) ==
    [pass EXCEPT !.pairs = Append(@, [entry |-> i, id |-> id, fresh |-> id >= feed.nextId])]

Refuse(pass, i) == [pass EXCEPT !.refused = Append(@, i)]

Take(pass, e) ==
    [Pair(pass, e.entry, feed.nextId + Len(pass.batch)) EXCEPT
        !.batch = Append(@, [content |-> MessageFrom(e.submission),
                             pairing |-> {[epoch |-> drain.epoch, entry |-> e.entry]}])]

RoomForOneMore(pass) ==
    \A k \in {Len(pass.batch) + 1} : RoomFor(k, k, k)

\* A slip the runs must notice: the message under its nonce is not compared.
AnsweredByAny(pass, s, id) == TRUE

\* Message `id`, under the submission's nonce, is this submission.
AnsweredBy(pass, s, id) == ContentOf(pass, id) = MessageFrom(s)

\* An entry that carries the account's key.
ConsiderSigned(pass, e) ==
    IF e.submission.session # feed.session THEN Refuse(pass, e.entry)
    ELSE IF SpentOn(pass, e.submission) # {}
         THEN LET id == CHOOSE n \in SpentOn(pass, e.submission) : TRUE
              IN IF AnsweredBy(pass, e.submission, id)
                 THEN Pair(pass, e.entry, id)
                 ELSE Refuse(pass, e.entry)
         ELSE IF RoomForOneMore(pass) THEN Take(pass, e) ELSE Refuse(pass, e.entry)

\* `pinning` is whether the disk takes a new key in this pass.
Consider(pass, e, pinning) ==
    IF PairedAs(e.entry) # {}
    THEN Pair(pass, e.entry, CHOOSE id \in PairedAs(e.entry) : TRUE)
    ELSE IF MayPin(pass.pins, e.submission, pinning)
         THEN ConsiderSigned([pass EXCEPT !.pins = AfterPin(@, e.submission)], e)
         ELSE Refuse(pass, e.entry)

PassOver(due, pinning) ==
    FoldLeft(LAMBDA pass, e : Consider(pass, e, pinning), NewPass, due)

\* A slip the runs must notice: only what this pass wrote is marked.
PairsToMarkOnce(pass, sequenced) ==
    Within(pass.pairs, {p \in Range(pass.pairs) : p.fresh /\ sequenced})

\* What this pass wrote first, then what an earlier one did.
PairsToMark(pass, sequenced) ==
    Within(pass.pairs, {p \in Range(pass.pairs) : p.fresh /\ sequenced})
        \o Within(pass.pairs, {p \in Range(pass.pairs) : ~p.fresh})

\* A mark is signed with the head after the pass; `messages` is what it covers.
MarkFor(pair, messages) ==
    [epoch |-> drain.epoch, entry |-> pair.entry, id |-> pair.id,
     message |-> messages[pair.id].content,
     session |-> feed.session, size |-> Len(messages)]

\* A slip the runs must notice: a pass may send every mark it has.
MarksForAll(pairs, messages) == [i \in DOMAIN pairs |-> MarkFor(pairs[i], messages)]

MarksFor(pairs, messages) ==
    LET sent == FirstOf(MarkBudget, pairs)
    IN [i \in DOMAIN sent |-> MarkFor(sent[i], messages)]

AfterPass(pass, sequenced) ==
    [drain EXCEPT
       !.due = <<>>,
       !.trouble = AllFailed(@, pass.refused),
       !.marks = MarksFor(PairsToMark(pass, sequenced), file'.messages)]

SequenceDue(pinning, writes) ==
    /\ feed.up
    /\ drain.due # <<>>
    /\ \E pass \in {PassOver(drain.due, pinning)} :
          /\ IF pass.batch = <<>> THEN PublishNothing(<<>>, pass.pins)
             ELSE Sequence(pass.batch, pass.pins, writes)
          /\ drain' = AfterPass(pass, pass.batch = <<>> \/ (writes /\ BatchStands(pass.batch)))
    /\ Works(pinning /\ writes)
    /\ UNCHANGED <<inbox, late>>

-----------------------------------------------------------------------------
(* Marking (drain_inbox, client_mark).                                      *)

\* The proof of a mark holds: these bytes are message `id` of the history its
\* head is signed over.
Included(m) ==
    /\ m.id \in 1..m.size
    /\ m.size <= Len(histories[m.session])
    /\ histories[m.session][m.id] = [id |-> m.id, content |-> m.message]

NextMark == Head(drain.marks)

\* A mark that is answered.
MarkAccepted ==
    /\ drain.marks # <<>>
    /\ Accepted(NextMark, Included(NextMark))
    /\ HandleMark(NextMark, Included(NextMark))
    /\ drain' = [drain EXCEPT !.marks = Tail(@), !.trouble = Succeeded(@, NextMark.entry)]
    /\ UNCHANGED <<file, feed, histories, late, faults>>

MarkRefused ==
    /\ drain.marks # <<>>
    /\ ~Accepted(NextMark, Included(NextMark))
    /\ HandleMark(NextMark, Included(NextMark))
    /\ drain' = [drain EXCEPT !.marks = Tail(@), !.trouble = Failed(@, NextMark.entry, TRUE)]
    /\ UNCHANGED <<file, feed, histories, late, faults>>

\* No answer in time: the rest waits for another pass.
MarkTimesOut ==
    /\ drain.marks # <<>>
    /\ Fail
    /\ late' = late \cup {NextMark}
    /\ drain' = [drain EXCEPT !.marks = <<>>, !.trouble = Failed(@, NextMark.entry, FALSE)]
    /\ UNCHANGED <<file, feed, histories, inbox>>

\* The inbox gets a mark that nobody waits for.
LateMark(m) ==
    /\ m \in late
    /\ late' = late \ {m}
    /\ HandleMark(m, Included(m))
    /\ UNCHANGED <<file, feed, histories, drain, faults>>

\* The process dies; the mark under way, if any, may still arrive.
CrashFeed ==
    /\ feed.up
    /\ Fail
    /\ feed' = Down
    /\ drain' = Forgotten
    /\ late' = IF drain.marks = <<>> THEN late ELSE late \cup {NextMark}
    /\ UNCHANGED <<file, histories, inbox>>

-----------------------------------------------------------------------------
(* Everybody else.                                                          *)

\* Clients sign for a log they have seen.
Signable(s) == s.session <= Len(histories)

ClientLists(s) ==
    /\ Signable(s)
    /\ ListSubmission(s)
    /\ UNCHANGED <<file, feed, histories, drainVars>>

ClientListsInVain(s) ==
    /\ Signable(s)
    /\ FailToList(s)
    /\ Fail
    /\ UNCHANGED <<file, feed, histories, drain, late>>

ClientPublishes(s, writes) ==
    /\ FrontDoorPublishes(s, writes)
    /\ Works(writes)
    /\ UNCHANGED <<inbox, drain, late>>

ClientIsRefused(s) == FrontDoorRefuses(s) /\ UNCHANGED <<inbox, drainVars>>

OperatorActs(s, writes) ==
    /\ OperatorPublishes(s, writes)
    /\ Works(writes)
    /\ UNCHANGED <<inbox, drain, late>>

Generate(n, writes) ==
    /\ GenerateBurst(n, writes)
    /\ DrainIsIdle
    /\ Works(writes)
    /\ UNCHANGED <<inbox, drain, late>>

Start == StartFeed /\ UNCHANGED <<inbox, drainVars>>

LoseFile == file # EmptyFile /\ ReplaceFile /\ UNCHANGED <<inbox, drainVars>>

LoseInbox == ReplaceInbox /\ Fail /\ UNCHANGED <<file, feed, histories, drain, late>>

-----------------------------------------------------------------------------
ClientActs ==
    \E s \in Submissions :
        \/ ClientLists(s)
        \/ ClientListsInVain(s)
        \/ \E writes \in BOOLEAN : ClientPublishes(s, writes)
        \/ ClientIsRefused(s)

OperatorOrGenerator ==
    \/ \E s \in OperatorMessages, writes \in BOOLEAN : OperatorActs(s, writes)
    \/ \E n \in 1..MaxBatch, writes \in BOOLEAN : Generate(n, writes)

DrainActs ==
    \/ Poll
    \/ \E i \in DOMAIN drain.trouble : BackoffEnds(i)
    \/ \E pinning, writes \in BOOLEAN : SequenceDue(pinning, writes)
    \/ MarkAccepted
    \/ MarkRefused
    \/ MarkTimesOut

Environment ==
    \/ Start
    \/ CrashFeed
    \/ \E m \in late : LateMark(m)
    \/ LoseFile
    \/ LoseInbox

Next == ClientActs \/ OperatorOrGenerator \/ DrainActs \/ Environment

Spec == Init /\ [][Next]_vars

\* The supervisor restarts a sequencer that died, the generator task is never
\* starved, timers fire, an inbox that is up answers, and the operator of a
\* log completes its opening.
EntryIds == 1..Cardinality(Submissions)

FairSpec ==
    /\ Spec
    /\ WF_vars(Start)
    /\ WF_vars(Poll)
    /\ WF_vars(\E pinning, writes \in BOOLEAN : SequenceDue(pinning, writes))
    /\ WF_vars(MarkAccepted \/ MarkRefused)
    /\ WF_vars(~LogIsOpen /\ \E s \in OperatorMessages : OperatorActs(s, TRUE))
    /\ \A i \in EntryIds : WF_vars(BackoffEnds(i))
=============================================================================
