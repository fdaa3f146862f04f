-------------------------------- MODULE Inbox --------------------------------
(***************************************************************************)
(* The separate order-submission service (src/services/src/inbox.rs): it   *)
(* takes signed submissions, lists the ones the sequencer still owes, and  *)
(* takes the sequencer's marks, each a signed claim that an entry became a *)
(* message.  It trusts no mark further than it can check it, and keeps the *)
(* claims that are wrong as evidence.                                      *)
(*                                                                         *)
(* Every statement commits to the database before it is answered, so a     *)
(* restart of the service changes nothing that is modelled here; only an   *)
(* operator who deletes the database does.                                 *)
(***************************************************************************)
EXTENDS Submissions

CONSTANTS MaxPending    \* how many entries may be pending (MAX_PENDING)

VARIABLE inbox          \* the database: [epoch, entries, pins, rejections]

NotMarked == 0          \* feed_id IS NULL: message ids start at 1

InboxInit ==
    inbox = [epoch |-> 1, entries |-> <<>>, pins |-> {}, rejections |-> {}]

PendingEntries == {i \in DOMAIN inbox.entries : inbox.entries[i].feedId = NotMarked}

\* A slip the runs must notice: the index covers the signed bytes.
BytesListed(s) == \E i \in DOMAIN inbox.entries : inbox.entries[i].submission = s

\* The unique index on (account, nonce).
NonceListed(s) ==
    \E i \in DOMAIN inbox.entries :
        /\ inbox.entries[i].submission.account = s.account
        /\ inbox.entries[i].submission.nonce = s.nonce

MayList(s) == Cardinality(PendingEntries) < MaxPending /\ KeyFits(inbox.pins, s)

\* POST /submit.  The key is pinned before the entry is written.
ListSubmission(s) ==
    /\ MayList(s)
    /\ inbox' = [inbox EXCEPT
                    !.pins = AfterPin(@, s),
                    !.entries = IF NonceListed(s) THEN @
                                ELSE Append(@, [submission |-> s, feedId |-> NotMarked])]

\* POST /submit when the entry cannot be written: the pin stays.
FailToList(s) ==
    /\ MayList(s)
    /\ inbox' = [inbox EXCEPT !.pins = AfterPin(@, s)]

-----------------------------------------------------------------------------
(* POST /mark.  A mark [epoch, entry, id, message, ...] says that the entry  *)
(* became message `id`; `included` is whether its proof shows those bytes at *)
(* that place of the log.                                                    *)

\* A mark for another database, or for no entry, says nothing about this one.
AboutAnEntry(m) == m.epoch = inbox.epoch /\ m.entry \in DOMAIN inbox.entries

\* The first claim the mark gets wrong.
Fault(m, included) ==
    IF m.id = 0 \/ ~included
    THEN "proof_failed"
    ELSE IF m.message # MessageFrom(inbox.entries[m.entry].submission)
         THEN "content_mismatch"
         ELSE IF inbox.entries[m.entry].feedId \notin {NotMarked, m.id}
              THEN "double_sequenced"
              ELSE "none"

Accepted(m, included) == AboutAnEntry(m) /\ Fault(m, included) = "none"

\* A repeated mark writes what is there already.
ConfirmEntry(m, included) ==
    /\ Accepted(m, included)
    /\ inbox' = [inbox EXCEPT !.entries[m.entry].feedId = m.id]

RecordRejection(m, included) ==
    /\ AboutAnEntry(m)
    /\ Fault(m, included) # "none"
    /\ inbox' = [inbox EXCEPT !.rejections = @ \cup {Fault(m, included)}]

HandleMark(m, included) ==
    \/ ConfirmEntry(m, included)
    \/ RecordRejection(m, included)
    \/ ~AboutAnEntry(m) /\ UNCHANGED inbox

\* An operator deletes inbox.db: another epoch, and entry ids from 1 again.
ReplaceInbox ==
    inbox' = [epoch |-> inbox.epoch + 1, entries |-> <<>>, pins |-> {},
              rejections |-> {}]
=============================================================================
