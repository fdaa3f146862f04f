----------------------------- MODULE RunHistory -----------------------------
(***************************************************************************)
(* What a state database promises whoever reads it: an append-only list of *)
(* runs.  A run is opened empty, is named after one feed session before it *)
(* consumes anything, then only grows by whole batches of that session's   *)
(* messages, and once closed for good never changes again.                 *)
(***************************************************************************)
EXTENDS Naturals, Sequences

CONSTANTS Sessions, NoSession, Bodies

VARIABLE runLog     \* sequence of [session, history, final]

NewRun == [session |-> NoSession, history |-> <<>>, final |-> FALSE]

Init == runLog = <<>>

OpenRun == runLog' = Append(runLog, NewRun)

NameRun(r, session) ==
    /\ ~runLog[r].final
    /\ runLog[r].session = NoSession
    /\ runLog[r].history = <<>>
    /\ runLog' = [runLog EXCEPT ![r].session = session]

\* The batch is whatever the longer history adds.
ExtendRun(r) ==
    /\ ~runLog[r].final
    /\ runLog[r].session # NoSession
    /\ DOMAIN runLog' = DOMAIN runLog
    /\ Len(runLog'[r].history) > Len(runLog[r].history)
    /\ SubSeq(runLog'[r].history, 1, Len(runLog[r].history)) = runLog[r].history
    /\ runLog' = [runLog EXCEPT ![r].history = runLog'[r].history]

CloseRun(r) ==
    /\ ~runLog[r].final
    /\ runLog' = [runLog EXCEPT ![r].final = TRUE]

Next ==
    \/ OpenRun
    \/ \E r \in DOMAIN runLog :
          \/ \E session \in Sessions : NameRun(r, session)
          \/ ExtendRun(r)
          \/ CloseRun(r)

Spec == Init /\ [][Next]_runLog
=============================================================================
