------------------------------- MODULE Published -------------------------------
(***************************************************************************)
(* What an exchange shows the outside: the feed's messages and the head    *)
(* and the root it signs over them, and the matcher's signed claims and    *)
(* recorded trades.  Hashes are ideal: the root over the first n messages, *)
(* and the state they lead to, are those messages.                         *)
(*                                                                         *)
(* The matcher commits a page of messages, its trades, and one claim over  *)
(* it in one transaction, so the cursor is where the last claim ends.  The *)
(* operator may, once, tamper with what was published.                     *)
(***************************************************************************)
EXTENDS Integers, SequencesExt

CONSTANTS
    Sessions, Contents,
    Fills,          \* the contents that make one trade; the others make none
    MaxLog,         \* bound: the length of a log
    MaxTampered,    \* bound: the length of a log that is, or was, tampered with
    BatchLimit      \* messages one commit covers at most

ASSUME PublishedAssumption ==
    /\ Fills \subseteq Contents
    /\ MaxLog \in Nat /\ MaxTampered \in Nat /\ BatchLimit \in Nat \ {0}

VARIABLES
    session, log,
    claims,         \* [session, from, to, before, after, total]
    rows,           \* trade k's record: the message that made it
    tampered        \* what the operator did, or "no"

published == <<session, log, claims, rows, tampered>>

Upto(history, n) == SubSeq(history, 1, n)
FillsOf(history) ==
    SelectSeq([i \in DOMAIN history |-> i], LAMBDA i : history[i] \in Fills)

Cursor == IF claims = <<>> THEN 0 ELSE Last(claims).to

InitPublished ==
    /\ session \in Sessions
    /\ log = <<>> /\ claims = <<>> /\ rows = <<>>
    /\ tampered = "no"

Publish(content) ==
    /\ Len(log) < IF tampered = "no" THEN MaxLog ELSE MaxTampered
    /\ log' = Append(log, content)
    /\ UNCHANGED <<session, claims, rows, tampered>>

\* The matcher stops at a log that is not a continuation of what it consumed.
Commit(n) ==
    LET from  == Cursor
        after == Upto(log, from + n)
    IN  /\ from + n <= Len(log)
        /\ claims # <<>> => IsPrefix(Last(claims).after, log)
        /\ claims' = Append(claims, [session |-> session, from |-> from + 1, to |-> from + n,
                                     before |-> Upto(log, from), after |-> after,
                                     total |-> Len(FillsOf(after))])
        /\ rows' = rows \o SubSeq(FillsOf(after), Len(FillsOf(Upto(log, from))) + 1, Len(FillsOf(after)))
        /\ UNCHANGED <<session, log, tampered>>

MayTamper == tampered = "no" /\ Len(log) <= MaxTampered

\* Older copies of both databases are put back; the exchange goes on from there.
Rewind(n) ==
    LET kept == SelectSeq(claims, LAMBDA c : c.to <= n)
    IN  /\ MayTamper /\ n < Len(log)
        /\ log' = Upto(log, n)
        /\ claims' = kept
        /\ rows' = Upto(rows, IF kept = <<>> THEN 0 ELSE Last(kept).total)
        /\ tampered' = "rewound"
        /\ UNCHANGED session

Replace(other) ==
    /\ MayTamper /\ other # session
    /\ session' = other
    /\ log' = <<>> /\ claims' = <<>> /\ rows' = <<>>
    /\ tampered' = "replaced"

Rewrite(i, content) ==
    /\ MayTamper /\ i \in DOMAIN log /\ log[i] # content
    /\ log' = [log EXCEPT ![i] = content]
    /\ tampered' = "rewritten"
    /\ UNCHANGED <<session, claims, rows>>

Doctor(k) ==
    /\ MayTamper /\ k \in DOMAIN rows
    /\ rows' = [rows EXCEPT ![k] = 0]
    /\ tampered' = "doctored"
    /\ UNCHANGED <<session, log, claims>>
=============================================================================
