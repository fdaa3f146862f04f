----------------------------- MODULE DurableRuns -----------------------------
(***************************************************************************)
(* The exchange's poller (src/services/src/matcher.rs poll_feed, Poller)   *)
(* over its state database (store.rs): exchange processes that start,      *)
(* resume or take over a run, read signed batches from a feed that may     *)
(* answer wrongly or be replaced, commit each batch with its claim before  *)
(* they publish it, and crash at any point.                                *)
(*                                                                         *)
(* The engine is deterministic (Exchange), so its state after a history is *)
(* that history, and a state root is the session and the history it binds. *)
(* A chain over a history is the history.  Every SQLite transaction is one *)
(* step; two transactions are two steps, with everybody's steps between    *)
(* them.  A process is one operating system process: after a restart it is *)
(* another one, with another pid.                                          *)
(***************************************************************************)
EXTENDS Naturals, Sequences, SequencesExt, FiniteSetsExt

CONSTANTS
    Procs,          \* the processes that may be started, each once
    Bodies,         \* message bodies
    MaxFeed,        \* bound: messages of one feed history
    MaxRuns,        \* bound: runs in the database
    Scenes          \* bound: [bodies, sessions, losses]: which bodies the feed publishes, how
                    \* often its history is replaced and how often it loses the end of it

NoSession == 0
MaxSession == 1 + Max({scene.sessions : scene \in Scenes})
Sessions == 1..MaxSession

ASSUME RunsInputs ==
    /\ MaxFeed \in Nat /\ MaxRuns \in Nat /\ MaxSession \in Nat
    /\ Scenes \subseteq [bodies : SUBSET Bodies, sessions : Nat, losses : Nat]
    /\ \A scene \in Scenes : scene.sessions < MaxSession

VARIABLES
    feed,           \* the sequencer now: [session, log], and what it may still do: [bodies, sessions, losses]
    signed,         \* every [session, log] a head was ever signed for
    disk,           \* whether writes to the database work now
    runs,           \* the database: one record per run, by run id
    procs           \* the memory of every process

vars == <<feed, signed, disk, runs, procs>>

NoResponse == [session |-> NoSession, from |-> 0, bodies |-> <<>>, head |-> <<>>]

\* state_root of the state a history leads to (version 5 binds the session).
Root(session, history) == [session |-> session, history |-> history]

\* A process's memory: `run` and `epoch` are its store's, `session` and `live`
\* the published state, `root` the committed_root, `cand` the candidate state.
Unstarted ==
    [stage |-> "down", run |-> 0, epoch |-> 0, session |-> NoSession,
     live |-> <<>>, root |-> Root(NoSession, <<>>), resp |-> NoResponse,
     cand |-> <<>>, paused |-> FALSE, reset |-> FALSE, seenValid |-> FALSE]

Init ==
    /\ \E scene \in Scenes : feed = [session |-> 1, log |-> <<>>, may |-> scene]
    /\ signed = {[session |-> 1, log |-> <<>>]}
    /\ disk = TRUE
    /\ runs = <<>>
    /\ procs = [p \in Procs |-> Unstarted]

-----------------------------------------------------------------------------
(* The feed and the disk: what the code in matcher.rs meets, from outside. *)

SignNow == signed' = signed \cup {[session |-> feed'.session, log |-> feed'.log]}

FeedAppends(body) ==
    /\ Len(feed.log) < MaxFeed
    /\ body \in feed.may.bodies
    /\ feed' = [feed EXCEPT !.log = Append(@, body)]
    /\ SignNow
    /\ UNCHANGED <<disk, runs, procs>>

\* A replaced sequencer: a new session, a history from nothing.
FeedReplaced ==
    /\ feed.may.sessions > 0
    /\ feed' = [feed EXCEPT !.session = @ + 1, !.log = <<>>, !.may.sessions = @ - 1]
    /\ SignNow
    /\ UNCHANGED <<disk, runs, procs>>

\* A sequencer that came back without the end of its history.
FeedLosesItsEnd ==
    /\ feed.log # <<>>
    /\ feed.may.losses > 0
    /\ feed' = [feed EXCEPT !.log = Front(@), !.may.losses = @ - 1]
    /\ UNCHANGED <<signed, disk, runs, procs>>

DiskFails == disk /\ disk' = FALSE /\ UNCHANGED <<feed, signed, runs, procs>>
DiskRecovers == ~disk /\ disk' = TRUE /\ UNCHANGED <<feed, signed, runs, procs>>

-----------------------------------------------------------------------------
(* The database. *)

\* A slip the runs must notice: a run the feed has left behind is resumed.
ResumableUnlessReset(r) == runs[r].status # "reset"

Resumable(r) == runs[r].status \in {"open", "stopped"}

\* A slip the runs must notice: a write names its run and not its epoch.
OwnedByStatus(p) ==
    procs[p].run \in DOMAIN runs /\ runs[procs[p].run].status = "open"

\* ... WHERE run_id = ? AND epoch = ? AND status = 'open'
Owned(p) ==
    /\ procs[p].run \in DOMAIN runs
    /\ runs[procs[p].run].epoch = procs[p].epoch
    /\ runs[procs[p].run].status = "open"

OwnerAlive(r) == procs[runs[r].owner].stage # "gone"

\* A process between reading a run's row and claiming it holds the heartbeat
\* it read; every write of the heartbeat makes that reading out of date.
Beaten(r, q) ==
    IF procs[q].stage = "taking" /\ procs[q].run = r
    THEN [procs[q] EXCEPT !.seenValid = FALSE] ELSE procs[q]

\* p moves on, and the heartbeat of run r was written on the way.
Move(p, memory) == procs' = [procs EXCEPT ![p] = memory]
MoveAndBeat(p, r, memory) ==
    procs' = [q \in Procs |-> IF q = p THEN memory ELSE Beaten(r, q)]

To(p, stage) == [procs[p] EXCEPT !.stage = stage]
Gone == [Unstarted EXCEPT !.stage = "gone"]
Pausing(memory) == [memory EXCEPT !.stage = "polling", !.paused = TRUE,
                                  !.resp = NoResponse, !.cand = <<>>]

\* A write of Poller to its own run lands, or it is fenced or refused by the
\* disk and execution pauses.
WriteOrPause(p, row, memory) ==
    IF disk /\ Owned(p)
    THEN runs' = [runs EXCEPT ![procs[p].run] = row] /\ Move(p, memory)
    ELSE UNCHANGED runs /\ Move(p, Pausing(procs[p]))

\* The same for a write that also sets the heartbeat.
BeatOrPause(p, memory) ==
    IF disk /\ Owned(p)
    THEN /\ runs' = [runs EXCEPT ![procs[p].run].fresh = TRUE]
         /\ MoveAndBeat(p, procs[p].run, memory)
    ELSE UNCHANGED runs /\ Move(p, Pausing(procs[p]))

\* A poll that executed nothing ends with a heartbeat, when one is due.
EndPoll(p, memory) ==
    \/ UNCHANGED runs /\ Move(p, memory)
    \/ /\ disk /\ Owned(p)
       /\ runs' = [runs EXCEPT ![procs[p].run].fresh = TRUE]
       /\ MoveAndBeat(p, procs[p].run, memory)
    \/ /\ ~(disk /\ Owned(p))
       /\ UNCHANGED runs
       /\ Move(p, Pausing(memory))

-----------------------------------------------------------------------------
(* Starting: Store::open and open_state. *)

\* The SELECT of claim_open_run.  `reset` is --reset-state.
ReadNewestRun(p, reset) ==
    LET open == {r \in DOMAIN runs : Resumable(r)}
        held(r) == runs[r].status = "open" /\ runs[r].fresh /\ OwnerAlive(r)
        newest == {r \in open : \A other \in open : other <= r}
    IN  /\ procs[p].stage = "down"
        /\ \/ open = {} /\ Move(p, To(p, "creating"))
           \/ \E r \in newest : held(r) /\ Move(p, Gone)
           \/ \E r \in newest :
                /\ ~held(r)
                /\ Move(p, [To(p, "taking") EXCEPT !.run = r, !.epoch = runs[r].epoch,
                                                   !.reset = reset, !.seenValid = TRUE])
        /\ UNCHANGED <<feed, signed, disk, runs>>

\* A slip the runs must notice: a takeover does not raise the epoch.
SameEpoch(epoch) == epoch

NextEpoch(epoch) == epoch + 1

\* The UPDATE of take_run: it names what the SELECT saw.
TakeRun(p) ==
    LET r == procs[p].run
    IN  /\ procs[p].stage = "taking"
        /\ IF disk /\ procs[p].seenValid /\ Resumable(r) /\ runs[r].epoch = procs[p].epoch
           THEN /\ runs' = [runs EXCEPT ![r].status = "open", ![r].owner = p,
                                        ![r].epoch = NextEpoch(@), ![r].fresh = TRUE]
                /\ MoveAndBeat(p, r, [procs[p] EXCEPT
                      !.epoch = NextEpoch(@),
                      !.stage = IF procs[p].reset THEN "resetting" ELSE "loading"])
           ELSE UNCHANGED runs /\ Move(p, Gone)
        /\ UNCHANGED <<feed, signed, disk>>

\* --reset-state: the claimed run is closed, and a new one follows.
ResetRun(p) ==
    /\ procs[p].stage = "resetting"
    /\ IF disk /\ Owned(p)
       THEN /\ runs' = [runs EXCEPT ![procs[p].run].status = "reset"]
            /\ Move(p, To(p, "creating"))
       ELSE UNCHANGED runs /\ Move(p, Gone)
    /\ UNCHANGED <<feed, signed, disk>>

LastClaimCovers(run) ==
    run.history # <<>> =>
        /\ run.claims # <<>>
        /\ Last(run.claims).to = Len(run.history)
        /\ Last(run.claims).after = Root(run.session, run.history)

\* load, authenticate_snapshot, restore and the root check of open_state.
LoadRun(p) ==
    LET run == runs[procs[p].run]
    IN  /\ procs[p].stage = "loading"
        /\ IF LastClaimCovers(run)
           THEN Move(p, [procs[p] EXCEPT
                            !.stage   = IF run.history = <<>> THEN "genesis" ELSE "polling",
                            !.session = run.session,
                            !.live    = run.history,
                            !.root    = Root(run.session, run.history)])
           ELSE Move(p, Gone)
        /\ UNCHANGED <<feed, signed, disk, runs>>

\* A slip the runs must notice: a new run keeps the column's default epoch.
EmptyRunAtDefault(p) ==
    [status |-> "open", owner |-> p, epoch |-> 0, fresh |-> TRUE,
     session |-> NoSession, history |-> <<>>, claims |-> <<>>]

EmptyRun(p) == [status |-> "open", owner |-> p, epoch |-> 1, fresh |-> TRUE,
                session |-> NoSession, history |-> <<>>, claims |-> <<>>]

\* start_run, from an open that found nothing to resume.
CreateRun(p) ==
    /\ procs[p].stage = "creating"
    /\ Len(runs) < MaxRuns
    /\ IF disk
       THEN /\ runs' = Append(runs, EmptyRun(p))
            /\ Move(p, [To(p, "genesis") EXCEPT !.run = Len(runs) + 1, !.epoch = 1])
       ELSE UNCHANGED runs /\ Move(p, Gone)
    /\ UNCHANGED <<feed, signed, disk>>

\* The genesis of an empty run is written before the feed says anything.
WriteGenesis(p) ==
    LET r == procs[p].run
    IN  /\ procs[p].stage = "genesis"
        /\ IF disk /\ Owned(p)
           THEN /\ runs' = [runs EXCEPT ![r].fresh = TRUE]
                /\ MoveAndBeat(p, r, To(p, "polling"))
           ELSE UNCHANGED runs /\ Move(p, Gone)
        /\ UNCHANGED <<feed, signed, disk>>

-----------------------------------------------------------------------------
(* Polling. *)

Polling(p) == procs[p].stage = "polling" /\ ~procs[p].paused

\* What an honest feed answers to ?since=n, for a batch of k messages.
HonestResponse(n, k) ==
    LET last == IF k = 0 THEN Len(feed.log) ELSE n + k
    IN  [session |-> feed.session, from |-> n + 1,
         bodies |-> SubSeq(feed.log, n + 1, n + k), head |-> SubSeq(feed.log, 1, last)]

\* A wrong answer under a good signature: an id skipped, a body exchanged, or
\* a head that does not stand at the end of the batch.
BrokenResponses(r) ==
    {[r EXCEPT !.from = @ + 1], [r EXCEPT !.head = Front(@)]}
    \cup {[r EXCEPT !.bodies = <<b>> \o Tail(@)] : b \in feed.may.bodies \ {Head(r.bodies)}}

FetchBatch(p) ==
    LET n == Len(procs[p].live)
    IN  /\ Polling(p)
        /\ \E k \in 1..(Len(feed.log) - n) :
              \E resp \in {HonestResponse(n, k)} \cup BrokenResponses(HonestResponse(n, k)) :
                 Move(p, [To(p, "answered") EXCEPT !.resp = resp])
        /\ UNCHANGED <<feed, signed, disk, runs>>

FetchNothing(p) ==
    /\ Polling(p)
    /\ Len(feed.log) <= Len(procs[p].live)
    /\ Move(p, [To(p, "answered") EXCEPT !.resp = HonestResponse(Len(procs[p].live), 0)])
    /\ UNCHANGED <<feed, signed, disk, runs>>

\* No answer, an unsigned one, or one with a bad signature: nothing is read.
PollInVain(p) ==
    /\ Polling(p)
    /\ EndPoll(p, To(p, "polling"))
    /\ UNCHANGED <<feed, signed, disk>>

\* A live run whose owner has not written for the grace period.
GoStale(r) ==
    /\ runs[r].fresh
    /\ runs' = [runs EXCEPT ![r].fresh = FALSE]
    /\ UNCHANGED <<feed, signed, disk, procs>>

Answered(p) == procs[p].stage = "answered"
\* A slip the runs must notice: the session of an answer is not looked at.
AnySession(p) == TRUE

SameSession(p) == procs[p].session = procs[p].resp.session

\* adopt_session, or a run with a cursor and no session.
AdoptSession(p) ==
    LET r == procs[p].run
        s == procs[p].resp.session
    IN  /\ Answered(p)
        /\ procs[p].session = NoSession
        /\ procs[p].live = <<>>
        /\ WriteOrPause(p, [runs[r] EXCEPT !.session = s],
                        [procs[p] EXCEPT !.session = s, !.root = Root(s, <<>>)])
        /\ UNCHANGED <<feed, signed, disk>>

\* The feed's history was replaced.
MeetNewSession(p) ==
    /\ Answered(p)
    /\ ~SameSession(p)
    /\ ~(procs[p].session = NoSession /\ procs[p].live = <<>>)
    /\ Move(p, To(p, "replacing"))
    /\ UNCHANGED <<feed, signed, disk, runs>>

\* An empty answer: the probe for a feed that fell behind the cursor, or the
\* comparison of the signed head with the history already consumed.
ProbeFeed(p) ==
    /\ Answered(p)
    /\ SameSession(p)
    /\ procs[p].resp.bodies = <<>>
    /\ feed.log # <<>>
    /\ Len(feed.log) < Len(procs[p].live)
    /\ Move(p, To(p, "replacing"))
    /\ UNCHANGED <<feed, signed, disk, runs>>

\* Whether the idle head is the chain executed is only counted.
CheckIdleChain(p) ==
    /\ Answered(p)
    /\ SameSession(p)
    /\ procs[p].resp.bodies = <<>>
    /\ EndPoll(p, [To(p, "polling") EXCEPT !.resp = NoResponse])
    /\ UNCHANGED <<feed, signed, disk>>

-----------------------------------------------------------------------------
(* A batch: apply_committed_batch on a candidate, commit, publish. *)

\* The checks of apply_batch, in its order.
BatchStands(p) ==
    LET resp == procs[p].resp
        live == procs[p].live
    IN  /\ resp.from = Len(live) + 1
        /\ Len(resp.head) = Len(live) + Len(resp.bodies)
        /\ resp.head = live \o resp.bodies

HasBatch(p) == Answered(p) /\ SameSession(p) /\ procs[p].resp.bodies # <<>>

\* A slip the runs must notice: the batch runs on the published state.
BuildInPlace(p) ==
    /\ HasBatch(p)
    /\ BatchStands(p)
    /\ Move(p, [To(p, "committing") EXCEPT !.cand = procs[p].live \o procs[p].resp.bodies,
                                           !.live = procs[p].live \o procs[p].resp.bodies])
    /\ UNCHANGED <<feed, signed, disk, runs>>

BuildCandidate(p) ==
    /\ HasBatch(p)
    /\ BatchStands(p)
    /\ Move(p, [To(p, "committing") EXCEPT !.cand = procs[p].live \o procs[p].resp.bodies])
    /\ UNCHANGED <<feed, signed, disk, runs>>

\* The candidate is dropped.
RefuseBatch(p) ==
    /\ HasBatch(p)
    /\ ~BatchStands(p)
    /\ EndPoll(p, [To(p, "polling") EXCEPT !.resp = NoResponse])
    /\ UNCHANGED <<feed, signed, disk>>

\* The claim a batch is committed with.
ClaimOf(p) ==
    [from |-> Len(procs[p].live) + 1, to |-> Len(procs[p].cand),
     before |-> procs[p].root, after |-> Root(procs[p].session, procs[p].cand)]

\* Store::commit: one transaction that checks the owner and the cursor and
\* writes the changes, the cursor, the claim and the heartbeat.
CommitBatch(p) ==
    LET r == procs[p].run
    IN  /\ procs[p].stage = "committing"
        /\ IF /\ disk
              /\ Owned(p)
              /\ Len(procs[p].cand) >= Len(runs[r].history)
           THEN /\ runs' = [runs EXCEPT ![r].history = procs[p].cand,
                                        ![r].claims  = Append(@, ClaimOf(p)),
                                        ![r].fresh   = TRUE]
                /\ MoveAndBeat(p, r, To(p, "publishing"))
           ELSE UNCHANGED runs /\ Move(p, Pausing(procs[p]))
        /\ UNCHANGED <<feed, signed, disk>>

\* The candidate becomes the state every endpoint serves.
PublishCandidate(p) ==
    /\ procs[p].stage = "publishing"
    /\ Move(p, [To(p, "polling") EXCEPT
                   !.live = procs[p].cand,
                   !.root = Root(procs[p].session, procs[p].cand),
                   !.cand = <<>>, !.resp = NoResponse])
    /\ UNCHANGED <<feed, signed, disk, runs>>

-----------------------------------------------------------------------------
(* start_new_run: four transactions and the swap of the live state.  Its   *)
(* first line, commit(), finds nothing to write: a published state has no  *)
(* pending change.                                                         *)

CloseReplacedRun(p) ==
    LET r == procs[p].run
    IN  /\ procs[p].stage = "replacing"
        /\ IF disk /\ Owned(p)
           THEN /\ runs' = [runs EXCEPT ![r].status = "feed_restarted"]
                /\ Move(p, To(p, "succeeding"))
           ELSE UNCHANGED runs /\ Move(p, Pausing(procs[p]))
        /\ UNCHANGED <<feed, signed, disk>>

SucceedRun(p) ==
    /\ procs[p].stage = "succeeding"
    /\ Len(runs) < MaxRuns
    /\ IF disk
       THEN /\ runs' = Append(runs, EmptyRun(p))
            /\ Move(p, [To(p, "naming") EXCEPT !.run = Len(runs) + 1, !.epoch = 1])
       ELSE UNCHANGED runs /\ Move(p, Pausing(procs[p]))
    /\ UNCHANGED <<feed, signed, disk>>

NameSuccessor(p) ==
    LET r == procs[p].run
    IN  /\ procs[p].stage = "naming"
        /\ WriteOrPause(p, [runs[r] EXCEPT !.session = procs[p].resp.session],
                        To(p, "renewing"))
        /\ UNCHANGED <<feed, signed, disk>>

\* The new run's genesis, and then the fresh state replaces the old one.
RenewState(p) ==
    LET s == procs[p].resp.session
    IN  /\ procs[p].stage = "renewing"
        /\ BeatOrPause(p, [Unstarted EXCEPT !.stage = "polling", !.run = procs[p].run,
                                            !.epoch = procs[p].epoch, !.session = s,
                                            !.root = Root(s, <<>>)])
        /\ UNCHANGED <<feed, signed, disk>>

-----------------------------------------------------------------------------
(* The end of a process. *)

\* finish: a clean stop between two polls; a paused engine closes nothing.
Finish(p) ==
    /\ procs[p].stage = "polling"
    /\ IF ~procs[p].paused /\ disk /\ Owned(p)
       THEN runs' = [runs EXCEPT ![procs[p].run].status = "stopped"]
       ELSE UNCHANGED runs
    /\ Move(p, Gone)
    /\ UNCHANGED <<feed, signed, disk>>

\* kill -9, at any point.
Crash(p) ==
    /\ procs[p].stage \notin {"down", "gone"}
    /\ Move(p, Gone)
    /\ UNCHANGED <<feed, signed, disk, runs>>

-----------------------------------------------------------------------------
Start(p) ==
    \/ \E reset \in BOOLEAN : ReadNewestRun(p, reset)
    \/ TakeRun(p) \/ ResetRun(p) \/ LoadRun(p) \/ CreateRun(p) \/ WriteGenesis(p)

Poll(p) ==
    \/ FetchBatch(p) \/ FetchNothing(p) \/ PollInVain(p)
    \/ AdoptSession(p) \/ MeetNewSession(p) \/ ProbeFeed(p) \/ CheckIdleChain(p)
    \/ BuildCandidate(p) \/ RefuseBatch(p) \/ CommitBatch(p) \/ PublishCandidate(p)
    \/ CloseReplacedRun(p) \/ SucceedRun(p) \/ NameSuccessor(p) \/ RenewState(p)

Environment ==
    \/ \E body \in Bodies : FeedAppends(body)
    \/ FeedReplaced \/ FeedLosesItsEnd \/ DiskFails \/ DiskRecovers
    \/ \E r \in DOMAIN runs : GoStale(r)

Next ==
    \/ \E p \in Procs : Start(p) \/ Poll(p) \/ Finish(p) \/ Crash(p)
    \/ Environment

Spec == Init /\ [][Next]_vars
=============================================================================
