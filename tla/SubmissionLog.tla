---------------------------- MODULE SubmissionLog ----------------------------
(***************************************************************************)
(* What the sequencer and the inbox promise together, with no pages,       *)
(* memories, crashes or retries: signed histories that only grow at the    *)
(* end, in which no account's nonce stands twice, and confirmations that   *)
(* name the one message a submission became.                               *)
(***************************************************************************)
EXTENDS Submissions, SequencesExt

CONSTANT Generated      \* the content of a message no submission asked for

VARIABLES
    histories,  \* the messages published, by session
    confirmed   \* what the inbox's database confirms: [submission, id]

Init == histories = <<>> /\ confirmed = {}

Numbered(history) == \A i \in DOMAIN history : history[i].id = i

NoncesDiffer(history) ==
    \A i, j \in {k \in DOMAIN history : history[k].content # Generated} :
        /\ history[i].content.account = history[j].content.account
        /\ history[i].content.nonce = history[j].content.nonce
        => i = j

NewHistory == histories' = Append(histories, <<>>) /\ UNCHANGED confirmed

\* Only the newest history grows.
Publish ==
    /\ histories # <<>>
    /\ Len(histories') = Len(histories)
    /\ Front(histories') = Front(histories)
    /\ IsStrictPrefix(Last(histories), Last(histories'))
    /\ Numbered(Last(histories'))
    /\ NoncesDiffer(Last(histories'))
    /\ UNCHANGED confirmed

\* A message answers for one submission and a submission has one message.
Confirm(s, id) ==
    /\ s.session \in DOMAIN histories
    /\ id \in DOMAIN histories[s.session]
    /\ histories[s.session][id].content = MessageFrom(s)
    /\ \A c \in confirmed : c.submission.session = s.session => (c.submission = s <=> c.id = id)
    /\ confirmed' = confirmed \cup {[submission |-> s, id |-> id]}
    /\ UNCHANGED histories

\* The inbox's database is lost.
Forget == confirmed' = {} /\ UNCHANGED histories

Next ==
    \/ NewHistory
    \/ Publish
    \/ \E s \in Submissions : \E c \in confirmed' : Confirm(s, c.id)
    \/ Forget

Spec == Init /\ [][Next]_<<histories, confirmed>>
=============================================================================
