------------------------------ MODULE Sequencer ------------------------------
(***************************************************************************)
(* The sequencer's log (src/services/src/feed.rs FeedState): one database, *)
(* the memory of the process that owns it, and the ways a message gets in: *)
(* the operator's opening, the front door, the generator, and groups of    *)
(* inbox entries (IntakeDrain).                                            *)
(*                                                                         *)
(* The chain, the tree and the signatures over them are what they commit   *)
(* to: a signed head is [session, lastId], and a history anybody may have  *)
(* read under a session is histories[session].  All handlers run under one *)
(* lock, so a handler is one step; its two transactions (the pin, then the *)
(* group) are told apart where one works and the other does not.           *)
(***************************************************************************)
EXTENDS Submissions

CONSTANTS
    OperatorMessages,   \* what the operator may sign; same fields, no pin
    Opening,            \* OPENING_MESSAGES: positions kept for the operator; 0 with no operator
    Generated,          \* the content of a generated message, with no nonce
    MaxBatch, MaxNonces, MaxAccounts, MaxPairings,   \* RetentionLimits
    MaxGenerated        \* bound: generated messages in one history

ASSUME OpeningIsACount == Opening \in Nat
ASSUME RetentionLimits == {MaxBatch, MaxNonces, MaxAccounts, MaxPairings} \subseteq Nat
ASSUME GeneratedIsNoSubmission ==
    \A s \in Submissions \cup OperatorMessages : Generated # MessageFrom(s)

VARIABLES
    file,       \* feed.db: [messages, pairings, pins, head]
    feed,       \* the process: [up, session, nextId, nonces, pairings, pins]
    histories   \* what was ever published, by session (sessions are 1, 2, ...)

NoHead == [session |-> 0, lastId |-> 0]
EmptyFile == [messages |-> <<>>, pairings |-> {}, pins |-> {}, head |-> NoHead]
Down == [up |-> FALSE, session |-> 0, nextId |-> 0, nonces |-> {}, pairings |-> {},
         pins |-> {}]

SequencerInit == file = EmptyFile /\ feed = Down /\ histories = <<>>

\* The nonces a sequence of messages spends, each with the message it became.
SpentBy(messages) ==
    {[account |-> messages[i].content.account, nonce |-> messages[i].content.nonce,
      id |-> messages[i].id] :
        i \in {j \in DOMAIN messages : messages[j].content # Generated}}

SpentFor(nonces, s) == {n \in nonces : n.account = s.account /\ n.nonce = s.nonce}

LastId == IF file.messages = <<>> THEN 0 ELSE file.messages[Len(file.messages)].id

\* A slip the runs must notice: the next message counts as published.
OpensEarly == LastId + 1 >= Opening

LogIsOpen == LastId >= Opening

-----------------------------------------------------------------------------
(* Starting (with_db_and_retention_limits).                                 *)

OneNonceOneMessage(messages) ==
    \A m, n \in SpentBy(messages) :
        m.account = n.account /\ m.nonce = n.nonce => m.id = n.id

CanStart ==
    /\ Cardinality(file.pins) <= MaxAccounts
    /\ Cardinality(file.pairings) <= MaxPairings
    /\ Cardinality(SpentBy(file.messages)) <= MaxNonces
    /\ \A i \in DOMAIN file.messages : file.messages[i].id = i
    /\ OneNonceOneMessage(file.messages)
    /\ IF file.head = NoHead THEN file.messages = <<>>
       ELSE file.head.lastId = Len(file.messages)

\* A slip the runs must notice: the nonces are not read back.
RestoredUnspent(session) ==
    [up |-> TRUE, session |-> session, nextId |-> Len(file.messages) + 1,
     nonces |-> {}, pairings |-> file.pairings, pins |-> file.pins]

Restored(session) ==
    [up |-> TRUE, session |-> session, nextId |-> Len(file.messages) + 1,
     nonces |-> SpentBy(file.messages), pairings |-> file.pairings, pins |-> file.pins]

\* A file with a signed head goes on under the name the head is signed for.
ContinueHistory ==
    /\ ~feed.up /\ CanStart
    /\ file.head # NoHead
    /\ feed' = Restored(file.head.session)
    /\ UNCHANGED <<file, histories>>

\* A file nothing was ever signed for gets a new name, written down nowhere yet.
NameNewHistory ==
    /\ ~feed.up /\ CanStart
    /\ file.head = NoHead
    /\ histories' = Append(histories, <<>>)
    /\ feed' = Restored(Len(histories'))
    /\ UNCHANGED file

StartFeed == ContinueHistory \/ NameNewHistory

\* An operator deletes feed.db while the process is down; feed.key stays.
ReplaceFile == ~feed.up /\ file' = EmptyFile /\ UNCHANGED <<feed, histories>>

-----------------------------------------------------------------------------
(* A group of messages goes in (sequence).  An item is [content, pairing],   *)
(* `pairing` being the set with the inbox entry it fulfils, or empty; the    *)
(* callers number the items from feed.nextId.                                *)

Numbered(batch) ==
    [i \in DOMAIN batch |-> [id |-> feed.nextId + i - 1, content |-> batch[i].content]]

PairsOf(batch) ==
    UNION {{[epoch |-> p.epoch, entry |-> p.entry, id |-> feed.nextId + i - 1] :
                p \in batch[i].pairing} : i \in DOMAIN batch}

\* check_retention_growth
RoomFor(messages, nonces, pairings) ==
    /\ messages <= MaxBatch
    /\ Cardinality(feed.nonces) + nonces <= MaxNonces
    /\ Cardinality(feed.pairings) + pairings <= MaxPairings

\* check_retention_batch: room, and no nonce or entry twice.
BatchStands(batch) ==
    /\ RoomFor(Len(batch), Cardinality(SpentBy(Numbered(batch))),
               Cardinality(PairsOf(batch)))
    /\ \A m \in SpentBy(Numbered(batch)), n \in feed.nonces \cup SpentBy(Numbered(batch)) :
          m.account = n.account /\ m.nonce = n.nonce => m.id = n.id
    /\ \A p \in PairsOf(batch), q \in feed.pairings \cup PairsOf(batch) :
          p.epoch = q.epoch /\ p.entry = q.entry => p.id = q.id

\* What one transaction writes: messages, pairings, session and signed head.
Written(batch, pins) ==
    [messages |-> file.messages \o Numbered(batch),
     pairings |-> file.pairings \cup PairsOf(batch),
     pins |-> pins,
     head |-> [session |-> feed.session, lastId |-> feed.nextId + Len(batch) - 1]]

\* What the process remembers of a group that committed.
Remembering(batch, pins) ==
    [feed EXCEPT !.nextId = @ + Len(batch), !.pins = pins,
                 !.nonces = @ \cup SpentBy(Numbered(batch)),
                 !.pairings = @ \cup PairsOf(batch)]

Publish(batch, pins) ==
    /\ file' = Written(batch, pins)
    /\ feed' = Remembering(batch, pins)
    /\ histories' = [histories EXCEPT ![feed.session] = @ \o Numbered(batch)]

\* Two slips the runs must notice: a failed write keeps the ids its group took,
\* and a nonce is spent before its message is written.
KeepIds(batch, pins) ==
    /\ file' = [file EXCEPT !.pins = pins]
    /\ feed' = [feed EXCEPT !.pins = pins, !.nextId = @ + Len(batch)]
    /\ UNCHANGED histories

SpendEarly(batch, pins) ==
    /\ file' = [file EXCEPT !.pins = pins]
    /\ feed' = [feed EXCEPT !.pins = pins, !.nonces = @ \cup SpentBy(Numbered(batch))]
    /\ UNCHANGED histories

\* The transaction fails: the ids go back.  The pins were their own transactions.
PublishNothing(batch, pins) ==
    /\ file' = [file EXCEPT !.pins = pins]
    /\ feed' = [feed EXCEPT !.pins = pins]
    /\ UNCHANGED histories

\* The guard before the transaction refuses the group: the ids do not go back.
RefuseGroup(batch, pins) ==
    /\ file' = [file EXCEPT !.pins = pins]
    /\ feed' = [feed EXCEPT !.pins = pins, !.nextId = @ + Len(batch)]
    /\ UNCHANGED histories

Sequence(batch, pins, writes) ==
    IF ~BatchStands(batch) THEN RefuseGroup(batch, pins)
    ELSE IF writes THEN Publish(batch, pins) ELSE PublishNothing(batch, pins)

-----------------------------------------------------------------------------
(* The ways in.  `writes` is whether the disk takes the group.               *)

Item(s) == [content |-> MessageFrom(s), pairing |-> {}]

\* POST /operator: no opening to wait for, and no pin.
OperatorPublishes(s, writes) ==
    /\ feed.up
    /\ s.session = feed.session
    /\ SpentFor(feed.nonces, s) = {}
    /\ RoomFor(1, 1, 0)
    /\ Sequence(<<Item(s)>>, feed.pins, writes)

\* A slip the runs must notice: a key that is not the pinned one passes.
MayPinAnother(pins, s, writes) ==
    IsPinned(pins, s) \/ (writes /\ Cardinality(pins) < MaxAccounts)

\* pin_or_check_account: `writes` is whether the disk takes a new pin.
MayPin(pins, s, writes) ==
    /\ KeyFits(pins, s)
    /\ IsPinned(pins, s) \/ (writes /\ Cardinality(pins) < MaxAccounts)

\* POST /order and POST /cancel, up to the pin.
AtTheFrontDoor(s) ==
    /\ feed.up
    /\ LogIsOpen
    /\ s.session = feed.session
    /\ MayPin(feed.pins, s, TRUE)

FrontDoorPublishes(s, writes) ==
    /\ AtTheFrontDoor(s)
    /\ SpentFor(feed.nonces, s) = {}
    /\ RoomFor(1, 1, 0)
    /\ Sequence(<<Item(s)>>, AfterPin(feed.pins, s), writes)

\* The nonce is spent, or there is no room for another: refused, its key stays.
FrontDoorRefuses(s) ==
    /\ AtTheFrontDoor(s)
    /\ SpentFor(feed.nonces, s) # {} \/ ~RoomFor(1, 1, 0)
    /\ PublishNothing(<<Item(s)>>, AfterPin(feed.pins, s))

\* The generator's burst of a tick.
GenerateBurst(n, writes) ==
    /\ feed.up
    /\ LogIsOpen
    /\ RoomFor(n, 0, 0)
    /\ n + Cardinality({i \in DOMAIN file.messages : file.messages[i].content = Generated})
          <= MaxGenerated
    /\ Sequence([i \in 1..n |-> [content |-> Generated, pairing |-> {}]], feed.pins, writes)
=============================================================================
