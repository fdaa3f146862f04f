------------------------ MODULE DurableRunsProperties ------------------------
(***************************************************************************)
(* What the poller and the state database promise together.                *)
(***************************************************************************)
EXTENDS DurableRuns

Final(run) == run.status \in {"feed_restarted", "reset"}

Histories == UNION {[1..n -> Bodies] : n \in 0..MaxFeed}
Roots == [session : 0..MaxSession, history : Histories]

\* The rows and the memories have the columns and fields the structs declare.
RunsTypeOK ==
    /\ feed.session \in Sessions /\ feed.log \in Histories
    /\ disk \in BOOLEAN
    /\ Len(runs) <= MaxRuns
    /\ \A r \in DOMAIN runs :
          /\ runs[r].status \in {"open", "stopped", "feed_restarted", "reset"}
          /\ runs[r].owner \in Procs
          /\ runs[r].epoch \in Nat \ {0}
          /\ runs[r].session \in 0..MaxSession
          /\ runs[r].history \in Histories
          /\ \A i \in DOMAIN runs[r].claims :
                runs[r].claims[i] \in [from : Nat, to : Nat, before : Roots, after : Roots]
    /\ \A p \in Procs :
          /\ procs[p].run \in 0..MaxRuns
          /\ procs[p].live \in Histories /\ procs[p].cand \in Histories
          /\ procs[p].root \in Roots

\* The claims of every run, whoever wrote them, cover its history from the
\* first message to the last with no gap and no overlap, each starting at the
\* root the one before it reached, and the last one ends at the state the rows
\* hold: crashes, takeovers and zombies included.
ClaimsChainRootToRoot ==
    \A r \in DOMAIN runs :
        LET run == runs[r]
            n   == Len(run.claims)
        IN  /\ \A i \in 1..n :
                  /\ run.claims[i].from = (IF i = 1 THEN 0 ELSE run.claims[i - 1].to) + 1
                  /\ run.claims[i].before = (IF i = 1 THEN Root(run.session, <<>>)
                                                      ELSE run.claims[i - 1].after)
                  /\ run.claims[i].to >= run.claims[i].from
            /\ IF n = 0 THEN run.history = <<>>
               ELSE /\ run.claims[n].to = Len(run.history)
                    /\ run.claims[n].after = Root(run.session, run.history)

\* The same, of rows that have their types.
ClaimsChainInEveryRun == RunsTypeOK /\ ClaimsChainRootToRoot

\* Nothing an endpoint serves can be lost: the published state is a state some
\* run of the database holds or has grown from (the candidate is swapped in
\* only after its commit).
PublishedIsDurable ==
    \A p \in Procs :
        procs[p].live # <<>> =>
            \E r \in DOMAIN runs : /\ runs[r].session = procs[p].session
                                   /\ IsPrefix(procs[p].live, runs[r].history)

\* Every history the database holds is one the sequencer signed, whole and
\* under that session: no wrong answer and no mixture of two feeds gets in.
HistoryWasSigned ==
    \A r \in DOMAIN runs :
        runs[r].history # <<>> =>
            [session |-> runs[r].session, log |-> runs[r].history] \in signed

Active(p) == procs[p].stage \in {"loading", "resetting", "genesis", "polling", "answered",
                                 "committing", "publishing", "replacing", "naming", "renewing"}

\* However two processes interleave their claims of a run, at most one of them
\* passes the fence of each write (take_run and the epoch).
OneWriterPerRun ==
    \A p, q \in Procs :
        (p # q /\ Active(p) /\ Active(q) /\ Owned(p) /\ Owned(q))
            => procs[p].run # procs[q].run

-----------------------------------------------------------------------------
(* The database implements the append-only list of runs. *)

RunLog ==
    [r \in DOMAIN runs |-> [session |-> runs[r].session, history |-> runs[r].history,
                            final |-> Final(runs[r])]]

Abstract == INSTANCE RunHistory WITH runLog <- RunLog

\* Every transaction on the database is a step of RunHistory or no step: a run
\* is named once, before it consumes anything, only grows, and is never written
\* again once it was closed for good.
ImplementsRunHistory == Abstract!Spec

-----------------------------------------------------------------------------
(* What the comments say. *)

PollsTheDatabase(p) ==
    /\ procs[p].stage \in {"polling", "answered", "committing", "publishing"}
    /\ ~procs[p].paused
    /\ Owned(p)

\* "The run claim in Store::open is what stops two pollers starting on one
\* database."
OnePollerPerDatabase == Cardinality({p \in Procs : PollsTheDatabase(p)}) <= 1

\* The scheduling of the runtime: a process that can go on does, a disk that
\* failed is repaired, and nobody kills or stops a process without end.
Fairness ==
    /\ \A p \in Procs : WF_vars(Start(p)) /\ WF_vars(Poll(p))
    /\ WF_vars(DiskRecovers)
FairSpec == Spec /\ Fairness

\* "It is also how a run comes back after a failed disk works again."
PausedRunsComeBack ==
    \A p \in Procs :
        [](procs[p].paused => <>(~procs[p].paused \/ procs[p].stage = "gone"))
=============================================================================
