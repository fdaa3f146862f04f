---------------------------- MODULE Durable_proofs ----------------------------
(***************************************************************************)
(* What the state database keeps, for every set of processes and all       *)
(* bounds.  First the fence: however many processes start, take a run over *)
(* from each other, pause and crash, a run has at most one writer the      *)
(* database lets through.  Then what its rows say: the claims of a run     *)
(* chain root to root, every history was signed, nothing published is      *)
(* lost, and the database is an append-only list of runs.                  *)
(***************************************************************************)
EXTENDS DurableRunsProperties, DataTheorems, SequenceTheorems, TLAPS

-----------------------------------------------------------------------------
(* The fence.  A process that may write holds a run under an epoch.  Of the *)
(* processes that hold one run no two have the same epoch, and none has one *)
(* the row has not reached; the row itself names one epoch only.            *)

Stages ==
    {"down", "gone", "creating", "taking", "loading", "resetting", "genesis", "polling",
     "answered", "committing", "publishing", "replacing", "succeeding", "naming", "renewing"}

Holding == Stages \ {"down", "gone", "creating", "taking"}

SomeResponse ==
    [session : 0..MaxSession, from : Nat, bodies : Seq(Bodies), head : Histories]

Memory ==
    [stage : Stages, run : 0..MaxRuns, epoch : Nat, session : 0..MaxSession, live : Histories,
     root : Roots, resp : SomeResponse, cand : Histories, paused : BOOLEAN,
     reset : BOOLEAN, seenValid : BOOLEAN]

SomeClaim == [from : Nat, to : Nat, before : Roots, after : Roots]

Row ==
    [status : {"open", "stopped", "feed_restarted", "reset"}, owner : Procs, epoch : Nat \ {0},
     fresh : BOOLEAN, session : 0..MaxSession, history : Histories, claims : Seq(SomeClaim)]

Allowed == [bodies : SUBSET Bodies, sessions : Nat, losses : Nat]

Feed == [session : Sessions, log : Histories, may : Allowed]

Typed ==
    /\ feed \in Feed /\ feed.session + feed.may.sessions <= MaxSession
    /\ disk \in BOOLEAN
    /\ runs \in Seq(Row) /\ Len(runs) <= MaxRuns
    /\ procs \in [Procs -> Memory]

\* What a process that read, or holds, a run knows of it.
Known ==
    \A p \in Procs :
        /\ procs[p].stage = "taking" => procs[p].run \in DOMAIN runs
        /\ procs[p].stage \in Holding =>
              procs[p].run \in DOMAIN runs /\ procs[p].epoch <= runs[procs[p].run].epoch

\* No two hold one run under one epoch.
Fenced ==
    \A p, q \in Procs :
        p # q /\ procs[p].stage \in Holding /\ procs[q].stage \in Holding
              /\ procs[p].run = procs[q].run
            => procs[p].epoch # procs[q].epoch

FenceInv == Typed /\ Known /\ Fenced

-----------------------------------------------------------------------------
(* A step of one process, as far as the fence can see it. *)

\* Another process may find the heartbeat it read out of date.
Alike(q) ==
    /\ procs'[q].stage = procs[q].stage
    /\ procs'[q].run = procs[q].run /\ procs'[q].epoch = procs[q].epoch
    /\ procs'[q].session = procs[q].session /\ procs'[q].live = procs[q].live
    /\ procs'[q].root = procs[q].root /\ procs'[q].resp = procs[q].resp
    /\ procs'[q].cand = procs[q].cand /\ procs'[q].paused = procs[q].paused

RowsOnlyRise ==
    \A r \in DOMAIN runs : r \in DOMAIN runs' /\ runs'[r].epoch >= runs[r].epoch

LetsGo(p) == procs'[p].stage \notin Holding \cup {"taking"}
Looks(p) == procs'[p].stage = "taking" /\ procs'[p].run \in DOMAIN runs'
Keeps(p) ==
    /\ procs[p].stage \in Holding
    /\ procs'[p].run = procs[p].run /\ procs'[p].epoch = procs[p].epoch
    /\ procs'[p].stage # "taking"
Takes(p) ==
    /\ procs'[p].stage # "taking"
    /\ procs'[p].run \in DOMAIN runs'
    /\ procs'[p].epoch <= runs'[procs'[p].run].epoch
    /\ procs'[p].run \in DOMAIN runs => procs'[p].epoch > runs[procs'[p].run].epoch

FenceStep(p) ==
    /\ \A q \in Procs \ {p} : Alike(q)
    /\ RowsOnlyRise
    /\ LetsGo(p) \/ Looks(p) \/ Keeps(p) \/ Takes(p)

\* The histories within the bound.
LEMMA BoundedHistories ==
    /\ \A h \in Histories : h \in Seq(Bodies) /\ Len(h) \in 0..MaxFeed
    /\ \A h \in Seq(Bodies) : Len(h) <= MaxFeed => h \in Histories
    /\ <<>> \in Histories
<1>1. MaxFeed \in Nat
    BY RunsInputs DEF RunsInputs
<1>2. ASSUME NEW h \in Histories
      PROVE  h \in Seq(Bodies) /\ Len(h) \in 0..MaxFeed
    <2>1. PICK n \in 0..MaxFeed : h \in [1..n -> Bodies]
        BY DEF Histories
    <2>2. h \in Seq(Bodies) /\ Len(h) = n
        BY <1>1, <2>1
    <2> QED  BY <2>2
<1>3. ASSUME NEW h \in Seq(Bodies), Len(h) <= MaxFeed
      PROVE  h \in Histories
    <2>1. h \in [1..Len(h) -> Bodies] /\ Len(h) \in 0..MaxFeed
        BY <1>1, <1>3
    <2> QED  BY <2>1 DEF Histories
<1>4. <<>> \in Seq(Bodies) /\ Len(<<>>) <= MaxFeed
    BY <1>1
<1> QED  BY <1>2, <1>3, <1>4

LEMMA RootTyped ==
    \A session \in 0..MaxSession, history \in Histories : Root(session, history) \in Roots
BY DEF Root, Roots

LEMMA SessionsBounded ==
    /\ MaxSession \in Nat /\ MaxRuns \in Nat
    /\ NoSession \in 0..MaxSession /\ Sessions \subseteq 0..MaxSession
BY RunsInputs DEF RunsInputs, Sessions, NoSession

LEMMA RowsHaveEpochs ==
    ASSUME NEW rows \in Seq(Row)
    PROVE  \A r \in DOMAIN rows : rows[r] \in Row /\ rows[r].epoch \in Nat
<1>1. \A r \in DOMAIN rows : rows[r] \in Row
    OBVIOUS
<1>2. \A row \in Row : row.epoch \in Nat
    BY DEF Row
<1> QED  BY <1>1, <1>2

\* Whoever takes a run has an epoch that nobody who held it could have.
LEMMA FenceHolds ==
    ASSUME FenceInv, Typed', NEW p \in Procs, FenceStep(p)
    PROVE  Known' /\ Fenced'
<1>1. ASSUME NEW q \in Procs \ {p}
      PROVE  /\ procs'[q].stage = procs[q].stage
             /\ procs'[q].run = procs[q].run /\ procs'[q].epoch = procs[q].epoch
    BY DEF FenceStep, Alike
<1>2. \A r \in DOMAIN runs : r \in DOMAIN runs' /\ runs'[r].epoch >= runs[r].epoch
    BY DEF FenceStep, RowsOnlyRise
<1>3. /\ \A q \in Procs : procs[q].epoch \in Nat /\ procs'[q].epoch \in Nat
      /\ \A r \in DOMAIN runs : runs[r].epoch \in Nat
      /\ \A r \in DOMAIN runs' : runs'[r].epoch \in Nat
    BY RowsHaveEpochs DEF FenceInv, Typed, Memory
<1>4. \A q \in Procs :
        /\ procs[q].stage = "taking" => procs[q].run \in DOMAIN runs
        /\ procs[q].stage \in Holding =>
              procs[q].run \in DOMAIN runs /\ procs[q].epoch <= runs[procs[q].run].epoch
    BY DEF FenceInv, Known
<1>5. ASSUME NEW q \in Procs
      PROVE  /\ procs'[q].stage = "taking" => procs'[q].run \in DOMAIN runs'
             /\ procs'[q].stage \in Holding =>
                  /\ procs'[q].run \in DOMAIN runs'
                  /\ procs'[q].epoch <= runs'[procs'[q].run].epoch
    <2>1. CASE q # p
        <3>1. /\ procs'[q].stage = procs[q].stage
              /\ procs'[q].run = procs[q].run /\ procs'[q].epoch = procs[q].epoch
            BY <2>1, <1>1
        <3>2. procs'[q].stage = "taking" => procs'[q].run \in DOMAIN runs'
            BY <3>1, <1>2, <1>4
        <3>3. ASSUME procs'[q].stage \in Holding
              PROVE  /\ procs'[q].run \in DOMAIN runs'
                     /\ procs'[q].epoch <= runs'[procs'[q].run].epoch
            BY <3>3, <3>1, <1>2, <1>3, <1>4
        <3> QED  BY <3>2, <3>3
    <2>2. CASE q = p /\ LetsGo(p)
        BY <2>2 DEF LetsGo
    <2>3. CASE q = p /\ Looks(p)
        BY <2>3 DEF Looks, Holding
    <2>4. CASE q = p /\ Keeps(p)
        BY <2>4, <1>2, <1>3, <1>4 DEF Keeps
    <2>5. CASE q = p /\ Takes(p)
        BY <2>5 DEF Takes
    <2> QED  BY <2>1, <2>2, <2>3, <2>4, <2>5 DEF FenceStep
<1>6. ASSUME NEW q \in Procs \ {p},
             procs'[p].stage \in Holding, procs'[q].stage \in Holding,
             procs'[p].run = procs'[q].run
      PROVE  procs'[p].epoch # procs'[q].epoch
    <2>1. /\ procs[q].stage \in Holding
          /\ procs[q].run = procs'[p].run /\ procs[q].epoch = procs'[q].epoch
        BY <1>1, <1>6
    <2>2. CASE LetsGo(p) \/ Looks(p)
        BY <2>2, <1>6 DEF LetsGo, Looks, Holding
    <2>3. CASE Keeps(p)
        BY <2>1, <2>3 DEF Keeps, FenceInv, Fenced
    <2>4. CASE Takes(p)
        <3>1. procs[q].run \in DOMAIN runs /\ procs[q].epoch <= runs[procs[q].run].epoch
            BY <2>1, <1>4
        <3>2. procs'[p].epoch > runs[procs[q].run].epoch
            BY <2>1, <2>4, <3>1 DEF Takes
        <3> QED  BY <2>1, <3>1, <3>2, <1>2, <1>3
    <2> QED  BY <2>2, <2>3, <2>4 DEF FenceStep
<1>7. ASSUME NEW q1 \in Procs \ {p}, NEW q2 \in Procs \ {p}, q1 # q2,
             procs'[q1].stage \in Holding, procs'[q2].stage \in Holding,
             procs'[q1].run = procs'[q2].run
      PROVE  procs'[q1].epoch # procs'[q2].epoch
    BY <1>1, <1>7 DEF FenceInv, Fenced
<1>8. Known'
    BY <1>5 DEF Known
<1>9. Fenced'
    BY <1>6, <1>7 DEF Fenced
<1> QED  BY <1>8, <1>9

-----------------------------------------------------------------------------
(* The pieces steps are made of. *)

\* What the memory of a process may become so that the fence stands.
MayBecome(p, memory) ==
    \/ memory.stage \notin Holding \cup {"taking"}
    \/ /\ procs[p].stage \in Holding /\ memory.stage # "taking"
       /\ memory.run = procs[p].run /\ memory.epoch = procs[p].epoch

Moved(p) ==
    /\ procs' \in [Procs -> Memory]
    /\ runs' \in Seq(Row) /\ Len(runs') <= MaxRuns
    /\ FenceStep(p)

\* The memory of a process that is not there, and the row of an empty run.
LEMMA Beginnings ==
    /\ Unstarted \in Memory /\ Gone \in Memory
    /\ Gone.stage = "gone" /\ Unstarted.stage = "down"
    /\ NoResponse \in SomeResponse
    /\ \A p \in Procs : EmptyRun(p) \in Row /\ EmptyRun(p).epoch = 1
<1> NoSession \in 0..MaxSession /\ <<>> \in Histories /\ 0 \in 0..MaxRuns
    BY SessionsBounded, BoundedHistories
<1>1. NoResponse \in SomeResponse
    BY DEF NoResponse, SomeResponse
<1>2. Root(NoSession, <<>>) \in Roots
    BY RootTyped
<1>3. Unstarted \in Memory /\ Unstarted.stage = "down"
    BY <1>1, <1>2 DEF Unstarted, Memory, Stages
<1>4. Gone \in Memory /\ Gone.stage = "gone"
    BY <1>3 DEF Gone, Memory, Stages
<1>5. \A p \in Procs : EmptyRun(p) \in Row /\ EmptyRun(p).epoch = 1
    BY DEF EmptyRun, Row
<1> QED  BY <1>1, <1>3, <1>4, <1>5

\* A process moves on, whether or not it wrote a heartbeat on the way.
LEMMA MovesAlone ==
    ASSUME procs \in [Procs -> Memory], NEW p \in Procs, NEW memory \in Memory, NEW r,
           Move(p, memory) \/ MoveAndBeat(p, r, memory)
    PROVE  /\ procs' \in [Procs -> Memory]
           /\ procs'[p] = memory
           /\ \A q \in Procs \ {p} : Alike(q)
<1>1. CASE Move(p, memory)
    BY <1>1 DEF Move, Alike
<1>2. CASE MoveAndBeat(p, r, memory)
    <2>1. ASSUME NEW q \in Procs
          PROVE  /\ Beaten(r, q) \in Memory
                 /\ Beaten(r, q).stage = procs[q].stage
                 /\ Beaten(r, q).run = procs[q].run
                 /\ Beaten(r, q).epoch = procs[q].epoch
                 /\ Beaten(r, q).session = procs[q].session
                 /\ Beaten(r, q).live = procs[q].live
                 /\ Beaten(r, q).root = procs[q].root
                 /\ Beaten(r, q).resp = procs[q].resp
                 /\ Beaten(r, q).cand = procs[q].cand
                 /\ Beaten(r, q).paused = procs[q].paused
        <3> procs[q] \in Memory
            OBVIOUS
        <3> QED  BY DEF Beaten, Memory
    <2> QED  BY <1>2, <2>1 DEF MoveAndBeat, Alike
<1> QED  BY <1>1, <1>2

\* A row is written, by a transaction that does not lower its epoch.
LEMMA RowWritten ==
    ASSUME runs \in Seq(Row), NEW r \in DOMAIN runs, NEW row \in Row,
           row.epoch >= runs[r].epoch, runs' = [runs EXCEPT ![r] = row]
    PROVE  /\ runs' \in Seq(Row) /\ runs'[r] = row
           /\ DOMAIN runs' = DOMAIN runs /\ Len(runs') = Len(runs)
           /\ RowsOnlyRise
<1>1. runs' \in Seq(Row) /\ DOMAIN runs' = DOMAIN runs /\ Len(runs') = Len(runs)
    OBVIOUS
<1>2. \A other \in DOMAIN runs : runs'[other] = IF other = r THEN row ELSE runs[other]
    OBVIOUS
<1>3. \A other \in DOMAIN runs : runs[other].epoch \in Nat
    BY RowsHaveEpochs
<1>4. \A other \in DOMAIN runs : runs'[other].epoch >= runs[other].epoch
    BY <1>2, <1>3
<1> QED  BY <1>1, <1>2, <1>4 DEF RowsOnlyRise

\* A row is added at the end.
LEMMA RowAdded ==
    ASSUME runs \in Seq(Row), NEW row \in Row, runs' = Append(runs, row)
    PROVE  /\ runs' \in Seq(Row) /\ Len(runs') = Len(runs) + 1
           /\ Len(runs) + 1 \in DOMAIN runs' /\ runs'[Len(runs) + 1] = row
           /\ Len(runs) + 1 \notin DOMAIN runs
           /\ RowsOnlyRise
<1>1. /\ runs' \in Seq(Row) /\ Len(runs') = Len(runs) + 1
      /\ Len(runs) + 1 \in DOMAIN runs'
      /\ runs'[Len(runs) + 1] = row /\ Len(runs) + 1 \notin DOMAIN runs
    OBVIOUS
<1>2. \A r \in DOMAIN runs : r \in DOMAIN runs' /\ runs'[r] = runs[r]
    OBVIOUS
<1>3. \A r \in DOMAIN runs : runs[r].epoch \in Nat
    BY RowsHaveEpochs
<1>4. RowsOnlyRise
    BY <1>2, <1>3 DEF RowsOnlyRise
<1> QED  BY <1>1, <1>4

\* A process lets go of its run, or keeps it as it had it.
LEMMA StaysFenced ==
    ASSUME procs \in [Procs -> Memory], NEW p \in Procs, NEW memory \in Memory, NEW r,
           Move(p, memory) \/ MoveAndBeat(p, r, memory), MayBecome(p, memory),
           runs' \in Seq(Row), Len(runs') <= MaxRuns, RowsOnlyRise
    PROVE  Moved(p)
<1>1. /\ procs' \in [Procs -> Memory] /\ procs'[p] = memory
      /\ \A q \in Procs \ {p} : Alike(q)
    BY MovesAlone
<1>2. LetsGo(p) \/ Keeps(p)
    BY <1>1 DEF MayBecome, LetsGo, Keeps
<1> QED  BY <1>1, <1>2 DEF Moved, FenceStep

LEMMA NothingWritten ==
    ASSUME runs \in Seq(Row), UNCHANGED runs
    PROVE  runs' \in Seq(Row) /\ Len(runs') = Len(runs) /\ RowsOnlyRise
<1>1. \A r \in DOMAIN runs : runs[r].epoch \in Nat
    BY RowsHaveEpochs
<1> QED  BY <1>1 DEF RowsOnlyRise

-----------------------------------------------------------------------------
(* Starting. *)

\* A process that leaves, or pauses, needs nothing of the database.
LEMMA LeavesQuietly ==
    ASSUME FenceInv, NEW p \in Procs, UNCHANGED runs, Move(p, Gone)
    PROVE  Moved(p)
<1>1. Gone \in Memory /\ MayBecome(p, Gone)
    BY Beginnings DEF MayBecome, Holding
<1>2. runs' \in Seq(Row) /\ Len(runs') <= MaxRuns /\ RowsOnlyRise
    BY NothingWritten DEF FenceInv, Typed
<1> QED  BY <1>1, <1>2, StaysFenced DEF FenceInv, Typed

LEMMA ReadFenced ==
    ASSUME FenceInv, NEW p \in Procs, NEW reset \in BOOLEAN, ReadNewestRun(p, reset)
    PROVE  Moved(p)
<1> DEFINE open == {r \in DOMAIN runs : Resumable(r)}
<1>1. /\ procs[p] \in Memory /\ procs \in [Procs -> Memory]
      /\ runs \in Seq(Row) /\ Len(runs) <= MaxRuns
    BY DEF FenceInv, Typed
<1>2. UNCHANGED runs /\ runs' \in Seq(Row) /\ Len(runs') <= MaxRuns /\ RowsOnlyRise
    BY <1>1, NothingWritten DEF ReadNewestRun
<1>3. CASE Move(p, To(p, "creating"))
    <2>1. To(p, "creating") \in Memory /\ MayBecome(p, To(p, "creating"))
        BY <1>1 DEF To, Memory, Stages, MayBecome, Holding
    <2> QED  BY <1>1, <1>2, <1>3, <2>1, StaysFenced
<1>4. CASE Move(p, Gone)
    BY <1>2, <1>4, LeavesQuietly
<1>5. ASSUME NEW r \in DOMAIN runs,
             Move(p, [To(p, "taking") EXCEPT !.run = r, !.epoch = runs[r].epoch,
                                             !.reset = reset, !.seenValid = TRUE])
      PROVE  Moved(p)
    <2> DEFINE memory == [To(p, "taking") EXCEPT !.run = r, !.epoch = runs[r].epoch,
                                                 !.reset = reset, !.seenValid = TRUE]
    <2>1. runs[r].epoch \in Nat /\ r \in 0..MaxRuns
        BY <1>1, RowsHaveEpochs, SessionsBounded
    <2>2. memory \in Memory /\ memory.stage = "taking" /\ memory.run = r
        BY <1>1, <2>1 DEF To, Memory, Stages
    <2> HIDE DEF memory
    <2>3. Move(p, memory)
        BY <1>5 DEF memory
    <2>4. /\ procs' \in [Procs -> Memory] /\ procs'[p] = memory
          /\ \A q \in Procs \ {p} : Alike(q)
        BY <1>1, <2>2, <2>3, MovesAlone
    <2>5. Looks(p)
        BY <1>2, <2>2, <2>4 DEF Looks
    <2> QED  BY <1>2, <2>4, <2>5 DEF Moved, FenceStep
<1>6. open \subseteq DOMAIN runs
    OBVIOUS
<1> HIDE DEF open
<1>7. \/ Move(p, To(p, "creating"))
      \/ Move(p, Gone)
      \/ \E r \in DOMAIN runs :
            Move(p, [To(p, "taking") EXCEPT !.run = r, !.epoch = runs[r].epoch,
                                            !.reset = reset, !.seenValid = TRUE])
    BY <1>6 DEF ReadNewestRun, open
<1> QED  BY <1>3, <1>4, <1>5, <1>7

\* The row and the memory of a run that was taken.
LEMMA RowTaken ==
    ASSUME NEW row \in Row, NEW p \in Procs
    PROVE  LET taken == [row EXCEPT !.status = "open", !.owner = p,
                                    !.epoch = @ + 1, !.fresh = TRUE]
           IN  taken \in Row /\ taken.epoch = row.epoch + 1
<1>1. \A epoch \in Nat \ {0} :
        LET taken == [row EXCEPT !.status = "open", !.owner = p,
                                 !.epoch = epoch, !.fresh = TRUE]
        IN  taken \in Row /\ taken.epoch = epoch
    BY DEF Row
<1>2. row.epoch \in Nat
    BY DEF Row
<1>3. row.epoch + 1 \in Nat \ {0}
    BY <1>2
<1> QED  BY <1>1, <1>3

LEMMA MemoryTaken ==
    ASSUME NEW memory \in Memory
    PROVE  LET taken == [memory EXCEPT
                            !.epoch = @ + 1,
                            !.stage = IF memory.reset THEN "resetting" ELSE "loading"]
           IN  /\ taken \in Memory /\ taken.stage \in Stages \ {"taking"}
               /\ taken.run = memory.run /\ taken.epoch = memory.epoch + 1
<1>1. \A epoch \in Nat, stage \in Stages :
        LET taken == [memory EXCEPT !.epoch = epoch, !.stage = stage]
        IN  /\ taken \in Memory /\ taken.stage = stage
            /\ taken.run = memory.run /\ taken.epoch = epoch
    BY DEF Memory
<1>2. memory.epoch \in Nat
    BY DEF Memory
<1>3. memory.epoch + 1 \in Nat
    BY <1>2
<1>4. (IF memory.reset THEN "resetting" ELSE "loading") \in Stages \ {"taking"}
    BY DEF Stages
<1> QED  BY <1>1, <1>3, <1>4, ZenonT(40)

LEMMA TakeFenced ==
    ASSUME FenceInv, NEW p \in Procs, TakeRun(p)
    PROVE  Moved(p)
<1> DEFINE r == procs[p].run
           won == disk /\ procs[p].seenValid /\ Resumable(r) /\ runs[r].epoch = procs[p].epoch
           row == [runs[r] EXCEPT !.status = "open", !.owner = p,
                                  !.epoch = NextEpoch(@), !.fresh = TRUE]
           memory == [procs[p] EXCEPT
                        !.epoch = NextEpoch(@),
                        !.stage = IF procs[p].reset THEN "resetting" ELSE "loading"]
<1>1. /\ procs[p] \in Memory /\ procs \in [Procs -> Memory]
      /\ runs \in Seq(Row) /\ Len(runs) <= MaxRuns
    BY DEF FenceInv, Typed
<1>2. r \in DOMAIN runs
    BY DEF TakeRun, FenceInv, Known
<1>3. runs[r] \in Row /\ runs[r].epoch \in Nat
    BY <1>1, <1>2, RowsHaveEpochs
<1>4. CASE ~won
    BY <1>4, LeavesQuietly DEF TakeRun
<1>5. CASE won
    <2>1. row \in Row /\ row.epoch = runs[r].epoch + 1
        BY <1>3, RowTaken DEF NextEpoch
    <2>2. /\ memory.stage \in Stages \ {"taking"}
          /\ memory \in Memory /\ memory.run = r /\ memory.epoch = procs[p].epoch + 1
        BY <1>1, MemoryTaken DEF NextEpoch
    <2>4. runs' = [runs EXCEPT ![r] = row]
        BY <1>1, <1>2, <1>5 DEF TakeRun
    <2>5. MoveAndBeat(p, r, memory)
        BY <1>5 DEF TakeRun
    <2>6. procs[p].epoch = runs[r].epoch
        BY <1>5
    <2> HIDE DEF row, memory, won, r
    <2>7. /\ procs' \in [Procs -> Memory] /\ procs'[p] = memory
          /\ \A q \in Procs \ {p} : Alike(q)
        BY <1>1, <2>2, <2>5, MovesAlone
    <2>8. /\ runs' \in Seq(Row) /\ Len(runs') <= MaxRuns
          /\ runs'[r] = row /\ DOMAIN runs' = DOMAIN runs
          /\ RowsOnlyRise
        <3>1. row.epoch >= runs[r].epoch
            BY <1>3, <2>1
        <3> QED  BY <1>1, <1>2, <2>1, <2>4, <3>1, RowWritten
    <2>9. Takes(p)
        <3>1. procs'[p].epoch = runs[r].epoch + 1 /\ runs'[r].epoch = runs[r].epoch + 1
            BY <2>1, <2>2, <2>6, <2>7, <2>8
        <3>2. procs'[p].epoch <= runs'[r].epoch /\ procs'[p].epoch > runs[r].epoch
            BY <1>3, <3>1
        <3>3. procs'[p].run = r /\ r \in DOMAIN runs' /\ procs'[p].stage # "taking"
            BY <1>2, <2>2, <2>7, <2>8
        <3> QED  BY <3>2, <3>3 DEF Takes
    <2> QED  BY <2>7, <2>8, <2>9 DEF Moved, FenceStep
<1> QED  BY <1>4, <1>5

-----------------------------------------------------------------------------
(* The writes of a process that holds a run. *)

\* To(p, stage) keeps everything but the stage.
LEMMA ToStage ==
    ASSUME procs \in [Procs -> Memory], NEW p \in Procs, NEW stage \in Stages
    PROVE  /\ To(p, stage) \in Memory /\ To(p, stage).stage = stage
           /\ To(p, stage).run = procs[p].run /\ To(p, stage).epoch = procs[p].epoch
           /\ To(p, stage).resp = procs[p].resp /\ To(p, stage).live = procs[p].live
<1> procs[p] \in Memory
    OBVIOUS
<1> QED  BY DEF To, Memory

LEMMA PausingKeeps ==
    ASSUME NEW memory \in Memory
    PROVE  /\ Pausing(memory) \in Memory /\ Pausing(memory).stage = "polling"
           /\ Pausing(memory).run = memory.run /\ Pausing(memory).epoch = memory.epoch
<1>1. PICK resp \in SomeResponse, cand \in Histories : resp = NoResponse /\ cand = <<>>
    <2>1. NoResponse \in SomeResponse /\ <<>> \in Histories
        BY Beginnings, BoundedHistories
    <2> QED  BY <2>1
<1>2. Pausing(memory) = [memory EXCEPT !.stage = "polling", !.paused = TRUE,
                                       !.resp = resp, !.cand = cand]
    BY <1>1 DEF Pausing
<1>3. "polling" \in Stages
    BY DEF Stages
<1> QED  BY <1>2, <1>3 DEF Memory

\* A process keeps its run while it, or nobody, writes.
LEMMA KeepsItsRun ==
    ASSUME FenceInv, NEW p \in Procs, procs[p].stage \in Holding, NEW memory \in Memory,
           memory.stage # "taking",
           memory.run = procs[p].run, memory.epoch = procs[p].epoch, NEW r,
           Move(p, memory) \/ MoveAndBeat(p, r, memory),
           \/ UNCHANGED runs
           \/ \E row \in Row : /\ row.epoch = runs[procs[p].run].epoch
                               /\ runs' = [runs EXCEPT ![procs[p].run] = row]
    PROVE  Moved(p)
<1>1. /\ procs \in [Procs -> Memory] /\ procs[p].run \in DOMAIN runs
      /\ runs \in Seq(Row) /\ Len(runs) <= MaxRuns
    BY DEF FenceInv, Typed, Known
<1>2. MayBecome(p, memory)
    BY DEF MayBecome
<1>3. CASE UNCHANGED runs
    BY <1>1, <1>2, <1>3, NothingWritten, StaysFenced
<1>4. ASSUME NEW row \in Row, row.epoch = runs[procs[p].run].epoch,
             runs' = [runs EXCEPT ![procs[p].run] = row]
      PROVE  Moved(p)
    <2>1. row.epoch >= runs[procs[p].run].epoch
        BY <1>1, <1>4, RowsHaveEpochs
    <2>2. runs' \in Seq(Row) /\ Len(runs') <= MaxRuns /\ RowsOnlyRise
        BY <1>1, <1>4, <2>1, RowWritten
    <2> QED  BY <1>1, <1>2, <2>2, StaysFenced
<1> QED  BY <1>3, <1>4

\* The transaction that ends a run.
LEMMA EndsItsRun ==
    ASSUME FenceInv, NEW p \in Procs, procs[p].stage \in Holding, NEW memory \in Memory,
           NEW status \in {"open", "stopped", "feed_restarted", "reset"},
           runs' = [runs EXCEPT ![procs[p].run].status = status],
           Move(p, memory), MayBecome(p, memory)
    PROVE  Moved(p)
<1>1. /\ procs \in [Procs -> Memory] /\ procs[p].run \in DOMAIN runs
      /\ runs \in Seq(Row) /\ Len(runs) <= MaxRuns
    BY DEF FenceInv, Typed, Known
<1> DEFINE row == [runs[procs[p].run] EXCEPT !.status = status]
<1>2. runs[procs[p].run] \in Row /\ runs[procs[p].run].epoch \in Nat
    BY <1>1, RowsHaveEpochs
<1>3. row \in Row /\ row.epoch = runs[procs[p].run].epoch
    BY <1>2 DEF Row
<1>4. runs' = [runs EXCEPT ![procs[p].run] = row]
    BY <1>1
<1> HIDE DEF row
<1>5. row.epoch >= runs[procs[p].run].epoch
    BY <1>2, <1>3
<1>6. runs' \in Seq(Row) /\ Len(runs') <= MaxRuns /\ RowsOnlyRise
    BY <1>1, <1>3, <1>4, <1>5, RowWritten
<1> QED  BY <1>1, <1>6, StaysFenced

\* A heartbeat keeps the columns the fence reads.
LEMMA FreshRow ==
    ASSUME FenceInv, NEW p \in Procs, procs[p].stage \in Holding, NEW fresh \in BOOLEAN,
           runs' = [runs EXCEPT ![procs[p].run].fresh = fresh]
    PROVE  \E row \in Row : /\ row.epoch = runs[procs[p].run].epoch
                            /\ runs' = [runs EXCEPT ![procs[p].run] = row]
<1>1. runs \in Seq(Row) /\ procs[p].run \in DOMAIN runs
    BY DEF FenceInv, Typed, Known
<1> DEFINE row == [runs[procs[p].run] EXCEPT !.fresh = fresh]
<1>2. runs[procs[p].run] \in Row
    BY <1>1, RowsHaveEpochs
<1>3. row \in Row /\ row.epoch = runs[procs[p].run].epoch
    BY <1>2 DEF Row
<1>4. runs' = [runs EXCEPT ![procs[p].run] = row]
    BY <1>1
<1> QED  BY <1>3, <1>4

\* A run of its own, that nobody can have held before.
LEMMA TakesNewRun ==
    ASSUME FenceInv, NEW p \in Procs, NEW stage \in Stages \ {"taking"},
           Len(runs) < MaxRuns, runs' = Append(runs, EmptyRun(p)),
           Move(p, [To(p, stage) EXCEPT !.run = Len(runs) + 1, !.epoch = 1])
    PROVE  Moved(p)
<1> DEFINE memory == [To(p, stage) EXCEPT !.run = Len(runs) + 1, !.epoch = 1]
<1>1. procs \in [Procs -> Memory] /\ runs \in Seq(Row)
    BY DEF FenceInv, Typed
<1>2. EmptyRun(p) \in Row /\ EmptyRun(p).epoch = 1
    BY Beginnings
<1>3. /\ runs' \in Seq(Row) /\ Len(runs') = Len(runs) + 1 /\ RowsOnlyRise
      /\ Len(runs) + 1 \in DOMAIN runs' /\ runs'[Len(runs) + 1] = EmptyRun(p)
      /\ Len(runs) + 1 \notin DOMAIN runs
    BY <1>1, <1>2, RowAdded
<1>4. To(p, stage) \in Memory /\ To(p, stage).stage = stage
    BY <1>1, ToStage
<1>5. \A run \in 0..MaxRuns, epoch \in Nat :
        LET taken == [To(p, stage) EXCEPT !.run = run, !.epoch = epoch]
        IN  /\ taken \in Memory /\ taken.stage = stage
            /\ taken.run = run /\ taken.epoch = epoch
    BY <1>4 DEF Memory
<1>6. Len(runs) + 1 \in 0..MaxRuns /\ 1 \in Nat /\ Len(runs') <= MaxRuns
    BY <1>1, <1>3, SessionsBounded
<1>7. memory \in Memory /\ memory.stage = stage /\ memory.run = Len(runs) + 1 /\ memory.epoch = 1
    BY <1>5, <1>6, ZenonT(40)
<1>8. Move(p, memory)
    OBVIOUS
<1> HIDE DEF memory
<1>9. /\ procs' \in [Procs -> Memory] /\ procs'[p] = memory
      /\ \A q \in Procs \ {p} : Alike(q)
    BY <1>1, <1>7, <1>8, MovesAlone
<1>10. procs'[p].epoch <= runs'[procs'[p].run].epoch
    BY <1>2, <1>3, <1>7, <1>9
<1>11. Takes(p)
    BY <1>3, <1>7, <1>9, <1>10 DEF Takes
<1> QED  BY <1>3, <1>6, <1>9, <1>11 DEF Moved, FenceStep

\* A write of a process that pauses when it is fenced.
LEMMA PausesFenced ==
    ASSUME FenceInv, NEW p \in Procs, procs[p].stage \in Holding, NEW memory \in Memory,
           memory.run = procs[p].run, memory.epoch = procs[p].epoch,
           UNCHANGED runs, Move(p, Pausing(memory))
    PROVE  Moved(p)
<1>1. /\ Pausing(memory) \in Memory /\ Pausing(memory).stage # "taking"
      /\ Pausing(memory).run = procs[p].run /\ Pausing(memory).epoch = procs[p].epoch
    BY PausingKeeps
<1> QED  BY <1>1, KeepsItsRun

LEMMA WriteOrPauseFenced ==
    ASSUME FenceInv, NEW p \in Procs, procs[p].stage \in Holding,
           NEW row \in Row, row.epoch = runs[procs[p].run].epoch,
           NEW memory \in Memory, memory.stage # "taking",
           memory.run = procs[p].run, memory.epoch = procs[p].epoch,
           WriteOrPause(p, row, memory)
    PROVE  Moved(p)
<1>1. CASE disk /\ Owned(p)
    <2>1. runs' = [runs EXCEPT ![procs[p].run] = row] /\ Move(p, memory)
        BY <1>1 DEF WriteOrPause
    <2> QED  BY <2>1, KeepsItsRun
<1>2. CASE ~(disk /\ Owned(p))
    <2>1. UNCHANGED runs /\ Move(p, Pausing(procs[p])) /\ procs[p] \in Memory
        BY <1>2 DEF WriteOrPause, FenceInv, Typed
    <2> QED  BY <2>1, PausesFenced
<1> QED  BY <1>1, <1>2

LEMMA BeatFenced ==
    ASSUME FenceInv, NEW p \in Procs, procs[p].stage \in Holding,
           NEW memory \in Memory, memory.stage # "taking",
           memory.run = procs[p].run, memory.epoch = procs[p].epoch,
           runs' = [runs EXCEPT ![procs[p].run].fresh = TRUE],
           MoveAndBeat(p, procs[p].run, memory)
    PROVE  Moved(p)
<1>1. \E row \in Row : /\ row.epoch = runs[procs[p].run].epoch
                       /\ runs' = [runs EXCEPT ![procs[p].run] = row]
    BY FreshRow
<1> QED  BY <1>1, KeepsItsRun

LEMMA BeatOrPauseFenced ==
    ASSUME FenceInv, NEW p \in Procs, procs[p].stage \in Holding,
           NEW memory \in Memory, memory.stage # "taking",
           memory.run = procs[p].run, memory.epoch = procs[p].epoch,
           BeatOrPause(p, memory)
    PROVE  Moved(p)
<1>1. CASE disk /\ Owned(p)
    BY <1>1, BeatFenced DEF BeatOrPause
<1>2. CASE ~(disk /\ Owned(p))
    <2>1. UNCHANGED runs /\ Move(p, Pausing(procs[p])) /\ procs[p] \in Memory
        BY <1>2 DEF BeatOrPause, FenceInv, Typed
    <2> QED  BY <2>1, PausesFenced
<1> QED  BY <1>1, <1>2

LEMMA EndPollFenced ==
    ASSUME FenceInv, NEW p \in Procs, procs[p].stage \in Holding,
           NEW memory \in Memory, memory.stage # "taking",
           memory.run = procs[p].run, memory.epoch = procs[p].epoch,
           EndPoll(p, memory)
    PROVE  Moved(p)
<1>1. CASE UNCHANGED runs /\ Move(p, memory)
    BY <1>1, KeepsItsRun
<1>2. CASE /\ runs' = [runs EXCEPT ![procs[p].run].fresh = TRUE]
           /\ MoveAndBeat(p, procs[p].run, memory)
    BY <1>2, BeatFenced
<1>3. CASE UNCHANGED runs /\ Move(p, Pausing(memory))
    BY <1>3, PausesFenced
<1> QED  BY <1>1, <1>2, <1>3 DEF EndPoll

-----------------------------------------------------------------------------
(* The rest of the start. *)

LEMMA ResetFenced ==
    ASSUME FenceInv, NEW p \in Procs, ResetRun(p)
    PROVE  Moved(p)
<1>1. procs \in [Procs -> Memory] /\ procs[p].stage \in Holding
    BY DEF FenceInv, Typed, ResetRun, Holding, Stages
<1>2. CASE disk /\ Owned(p)
    <2>1. /\ runs' = [runs EXCEPT ![procs[p].run].status = "reset"]
          /\ Move(p, To(p, "creating"))
        BY <1>2 DEF ResetRun
    <2>2. To(p, "creating") \in Memory /\ To(p, "creating").stage = "creating"
        BY <1>1, ToStage DEF Stages
    <2>3. MayBecome(p, To(p, "creating"))
        BY <2>2 DEF MayBecome, Holding
    <2> QED  BY <1>1, <2>1, <2>2, <2>3, EndsItsRun
<1>3. CASE ~(disk /\ Owned(p))
    BY <1>3, LeavesQuietly DEF ResetRun
<1> QED  BY <1>2, <1>3

LEMMA LoadFenced ==
    ASSUME FenceInv, NEW p \in Procs, LoadRun(p)
    PROVE  Moved(p)
<1> DEFINE run == runs[procs[p].run]
           stage == IF run.history = <<>> THEN "genesis" ELSE "polling"
           memory == [procs[p] EXCEPT !.stage = stage, !.session = run.session,
                                      !.live = run.history,
                                      !.root = Root(run.session, run.history)]
<1>1. procs \in [Procs -> Memory] /\ procs[p] \in Memory /\ procs[p].stage \in Holding
    BY DEF FenceInv, Typed, LoadRun, Holding, Stages
<1>2. run \in Row
    BY <1>1, RowsHaveEpochs DEF FenceInv, Typed, Known
<1>3. CASE LastClaimCovers(run)
    <2>1. UNCHANGED runs /\ Move(p, memory)
        BY <1>3 DEF LoadRun
    <2>2. run.session \in 0..MaxSession /\ run.history \in Histories
        BY <1>2 DEF Row
    <2>3. Root(run.session, run.history) \in Roots
        BY <2>2, RootTyped
    <2>4. stage \in Stages \ {"taking"}
        BY DEF Stages
    <2> HIDE DEF stage, run
    <2>5. /\ memory \in Memory /\ memory.stage # "taking"
          /\ memory.run = procs[p].run /\ memory.epoch = procs[p].epoch
        BY <1>1, <2>2, <2>3, <2>4 DEF Memory
    <2> HIDE DEF memory
    <2> QED  BY <1>1, <2>1, <2>5, KeepsItsRun
<1>4. CASE ~LastClaimCovers(run)
    BY <1>4, LeavesQuietly DEF LoadRun
<1> QED  BY <1>3, <1>4

LEMMA CreateFenced ==
    ASSUME FenceInv, NEW p \in Procs, CreateRun(p)
    PROVE  Moved(p)
<1>1. CASE disk
    <2>1. "genesis" \in Stages \ {"taking"}
        BY DEF Stages
    <2> QED  BY <1>1, <2>1, TakesNewRun DEF CreateRun
<1>2. CASE ~disk
    BY <1>2, LeavesQuietly DEF CreateRun
<1> QED  BY <1>1, <1>2

LEMMA GenesisFenced ==
    ASSUME FenceInv, NEW p \in Procs, WriteGenesis(p)
    PROVE  Moved(p)
<1>1. procs \in [Procs -> Memory] /\ procs[p].stage \in Holding
    BY DEF FenceInv, Typed, WriteGenesis, Holding, Stages
<1>2. CASE disk /\ Owned(p)
    <2>1. /\ To(p, "polling") \in Memory /\ To(p, "polling").stage # "taking"
          /\ To(p, "polling").run = procs[p].run /\ To(p, "polling").epoch = procs[p].epoch
        BY <1>1, ToStage DEF Stages
    <2>2. /\ runs' = [runs EXCEPT ![procs[p].run].fresh = TRUE]
          /\ MoveAndBeat(p, procs[p].run, To(p, "polling"))
        BY <1>2 DEF WriteGenesis
    <2> QED  BY <1>1, <2>1, <2>2, BeatFenced
<1>3. CASE ~(disk /\ Owned(p))
    BY <1>3, LeavesQuietly DEF WriteGenesis
<1> QED  BY <1>2, <1>3

LEMMA StartFenced ==
    ASSUME FenceInv, NEW p \in Procs, Start(p)
    PROVE  Moved(p) /\ UNCHANGED <<feed, disk>>
<1>1. Moved(p)
    BY ReadFenced, TakeFenced, ResetFenced, LoadFenced, CreateFenced, GenesisFenced DEF Start
<1>2. UNCHANGED <<feed, disk>>
    BY DEF Start, ReadNewestRun, TakeRun, ResetRun, LoadRun, CreateRun, WriteGenesis
<1> QED  BY <1>1, <1>2

-----------------------------------------------------------------------------
(* Polling: what comes from the feed. *)

LEMMA PrefixOfSeq ==
    ASSUME NEW S, NEW s \in Seq(S), NEW m \in Nat \ {0}, NEW n \in Nat,
           n <= Len(s) \/ n < m
    PROVE  SubSeq(s, m, n) \in Seq(S)
<1>1. CASE n < m
    BY <1>1
<1>2. CASE n >= m /\ n <= Len(s)
    BY <1>2, SubSeqProperties
<1> QED  BY <1>1, <1>2

LEMMA FrontOfHistory ==
    ASSUME NEW h \in Histories, h # <<>>
    PROVE  Front(h) \in Histories
<1>1. h \in Seq(Bodies) /\ Len(h) \in 1..MaxFeed
    BY BoundedHistories, RunsInputs DEF RunsInputs
<1>2. Front(h) \in Seq(Bodies)
    BY <1>1, PrefixOfSeq DEF Front
<1>3. Len(Front(h)) <= MaxFeed
    BY <1>1, RunsInputs DEF Front, RunsInputs
<1> QED  BY <1>2, <1>3, BoundedHistories

\* The honest answer, within the log or beyond its end.
LEMMA HonestAnswers ==
    ASSUME feed \in Feed, NEW n \in Nat, NEW k \in Nat,
           k = 0 \/ n + k <= Len(feed.log)
    PROVE  /\ HonestResponse(n, k) \in SomeResponse
           /\ HonestResponse(n, k).session = feed.session
           /\ k # 0 => HonestResponse(n, k).head # <<>> /\ HonestResponse(n, k).bodies # <<>>
<1>1. /\ feed.session \in 0..MaxSession
      /\ feed.log \in Seq(Bodies) /\ Len(feed.log) \in 0..MaxFeed
    BY SessionsBounded, BoundedHistories DEF Feed
<1> DEFINE last == IF k = 0 THEN Len(feed.log) ELSE n + k
<1>2. last \in Nat /\ last <= Len(feed.log)
    BY <1>1
<1>3. SubSeq(feed.log, n + 1, n + k) \in Seq(Bodies)
    BY <1>1, PrefixOfSeq
<1>4. SubSeq(feed.log, 1, last) \in Histories
    <2>1. SubSeq(feed.log, 1, last) \in Seq(Bodies)
        BY <1>1, <1>2, PrefixOfSeq
    <2>2. Len(SubSeq(feed.log, 1, last)) <= MaxFeed
        <3>1. \A m \in Nat : m <= Len(feed.log) => Len(SubSeq(feed.log, 1, m)) = m
            BY <1>1
        <3>2. Len(SubSeq(feed.log, 1, last)) = last
            BY <1>2, <3>1
        <3>3. last \in Nat /\ last <= Len(feed.log) /\ MaxFeed \in Nat
            BY <1>2, RunsInputs DEF RunsInputs
        <3>4. Len(feed.log) \in Nat /\ Len(feed.log) <= MaxFeed
            BY <1>1
        <3> HIDE DEF last
        <3>5. last <= MaxFeed
            BY <3>3, <3>4
        <3> QED  BY <3>2, <3>5
    <2> QED  BY <2>1, <2>2, BoundedHistories
<1>5. n + 1 \in Nat
    OBVIOUS
<1>6. HonestResponse(n, k) = [session |-> feed.session, from |-> n + 1,
                              bodies |-> SubSeq(feed.log, n + 1, n + k),
                              head |-> SubSeq(feed.log, 1, last)]
    BY DEF HonestResponse
<1>7. HonestResponse(n, k) \in SomeResponse
    BY <1>1, <1>3, <1>4, <1>5, <1>6 DEF SomeResponse
<1>8. ASSUME k # 0
      PROVE  SubSeq(feed.log, n + 1, n + k) # <<>> /\ SubSeq(feed.log, 1, n + k) # <<>>
    <2>1. Len(SubSeq(feed.log, n + 1, n + k)) = k
        BY <1>1, <1>8
    <2>2. Len(SubSeq(feed.log, 1, n + k)) = n + k
        BY <1>1, <1>8
    <2> QED  BY <1>8, <2>1, <2>2
<1>9. ASSUME k # 0
      PROVE  HonestResponse(n, k).head # <<>> /\ HonestResponse(n, k).bodies # <<>>
    <2>1. last = n + k
        BY <1>9
    <2>2. /\ HonestResponse(n, k).head = SubSeq(feed.log, 1, last)
          /\ HonestResponse(n, k).bodies = SubSeq(feed.log, n + 1, n + k)
        BY DEF HonestResponse
    <2> HIDE DEF last
    <2> QED  BY <1>8, <1>9, <2>1, <2>2
<1>10. HonestResponse(n, k).session = feed.session
    BY DEF HonestResponse
<1> QED  BY <1>7, <1>9, <1>10

\* The wrong answers are answers.
LEMMA BrokenAnswers ==
    ASSUME feed \in Feed, NEW answer \in SomeResponse,
           answer.head # <<>>, answer.bodies # <<>>,
           NEW broken \in BrokenResponses(answer)
    PROVE  broken \in SomeResponse
<1>1. answer.from \in Nat /\ answer.head \in Histories /\ answer.bodies \in Seq(Bodies)
    BY DEF SomeResponse
<1>2. CASE broken = [answer EXCEPT !.from = @ + 1]
    <2>1. answer.from + 1 \in Nat
        BY <1>1
    <2>2. \A from \in Nat : [answer EXCEPT !.from = from] \in SomeResponse
        BY DEF SomeResponse
    <2> QED  BY <1>2, <2>1, <2>2
<1>3. CASE broken = [answer EXCEPT !.head = Front(@)]
    <2>1. Front(answer.head) \in Histories
        BY <1>1, FrontOfHistory
    <2>2. \A head \in Histories : [answer EXCEPT !.head = head] \in SomeResponse
        BY DEF SomeResponse
    <2> QED  BY <1>3, <2>1, <2>2
<1>4. ASSUME NEW body \in feed.may.bodies, broken = [answer EXCEPT !.bodies = <<body>> \o Tail(@)]
      PROVE  broken \in SomeResponse
    <2>1. body \in Bodies
        <3>1. feed.may \in Allowed
            BY DEF Feed
        <3> QED  BY <3>1 DEF Allowed
    <2>2. Tail(answer.bodies) \in Seq(Bodies)
        BY <1>1
    <2>3. <<body>> \o Tail(answer.bodies) \in Seq(Bodies)
        BY <2>1, <2>2
    <2>4. \A bodies \in Seq(Bodies) : [answer EXCEPT !.bodies = bodies] \in SomeResponse
        BY DEF SomeResponse
    <2> QED  BY <1>4, <2>3, <2>4
<1> QED  BY <1>2, <1>3, <1>4 DEF BrokenResponses

\* A process reads an answer.
LEMMA AnswerRead ==
    ASSUME FenceInv, NEW p \in Procs, procs[p].stage \in Holding,
           NEW answer \in SomeResponse, UNCHANGED runs,
           Move(p, [To(p, "answered") EXCEPT !.resp = answer])
    PROVE  Moved(p)
<1> DEFINE memory == [To(p, "answered") EXCEPT !.resp = answer]
<1>1. /\ To(p, "answered") \in Memory /\ To(p, "answered").stage = "answered"
      /\ To(p, "answered").run = procs[p].run /\ To(p, "answered").epoch = procs[p].epoch
    BY ToStage DEF FenceInv, Typed, Stages
<1>2. /\ memory \in Memory /\ memory.stage # "taking"
      /\ memory.run = procs[p].run /\ memory.epoch = procs[p].epoch
    BY <1>1 DEF Memory
<1>3. Move(p, memory)
    OBVIOUS
<1> HIDE DEF memory
<1> QED  BY <1>2, <1>3, KeepsItsRun

LEMMA FetchFenced ==
    ASSUME FenceInv, NEW p \in Procs, FetchBatch(p) \/ FetchNothing(p)
    PROVE  Moved(p)
<1> DEFINE n == Len(procs[p].live)
<1>1. procs[p] \in Memory /\ feed \in Feed
    BY DEF FenceInv, Typed
<1>2. n \in Nat /\ Len(feed.log) \in Nat
    BY <1>1 DEF Memory, Feed
<1>3. procs[p].stage \in Holding /\ UNCHANGED runs
    BY DEF FetchBatch, FetchNothing, Polling, Holding, Stages
<1>4. CASE FetchBatch(p)
    <2>1. PICK k \in 1..(Len(feed.log) - n) :
            \E answer \in {HonestResponse(n, k)} \cup BrokenResponses(HonestResponse(n, k)) :
                Move(p, [To(p, "answered") EXCEPT !.resp = answer])
        BY <1>4 DEF FetchBatch
    <2>2. PICK answer \in {HonestResponse(n, k)} \cup BrokenResponses(HonestResponse(n, k)) :
            Move(p, [To(p, "answered") EXCEPT !.resp = answer])
        BY <2>1
    <2> HIDE DEF n
    <2>3. k \in Nat /\ k # 0 /\ n + k <= Len(feed.log)
        BY <1>2
    <2>4. /\ HonestResponse(n, k) \in SomeResponse
          /\ HonestResponse(n, k).head # <<>> /\ HonestResponse(n, k).bodies # <<>>
        BY <1>1, <1>2, <2>3, HonestAnswers
    <2>5. answer \in SomeResponse
        BY <1>1, <2>2, <2>4, BrokenAnswers
    <2> QED  BY <1>3, <2>2, <2>5, AnswerRead
<1>5. CASE FetchNothing(p)
    <2>1. HonestResponse(n, 0) \in SomeResponse
        BY <1>1, <1>2, HonestAnswers
    <2>2. Move(p, [To(p, "answered") EXCEPT !.resp = HonestResponse(n, 0)])
        BY <1>5 DEF FetchNothing
    <2> QED  BY <1>3, <2>1, <2>2, AnswerRead
<1> QED  BY <1>4, <1>5

-----------------------------------------------------------------------------
(* Polling: what is done with an answer. *)

LEMMA ResponseTyped ==
    ASSUME NEW memory \in Memory
    PROVE  /\ memory.resp.session \in 0..MaxSession /\ memory.resp.bodies \in Seq(Bodies)
           /\ memory.resp.head \in Histories /\ memory.session \in 0..MaxSession
           /\ memory.live \in Histories /\ memory.cand \in Histories
           /\ memory.root \in Roots
<1>1. memory.resp \in SomeResponse
    BY DEF Memory
<1> QED  BY <1>1 DEF Memory, SomeResponse

\* A process that forgets an answer, or not, as the poll ends.
LEMMA ForgetsAnswer ==
    ASSUME procs \in [Procs -> Memory], NEW p \in Procs
    PROVE  LET memory == [To(p, "polling") EXCEPT !.resp = NoResponse]
           IN  /\ memory \in Memory /\ memory.stage # "taking"
               /\ memory.run = procs[p].run /\ memory.epoch = procs[p].epoch
<1>1. PICK resp \in SomeResponse : resp = NoResponse
    BY Beginnings
<1>2. /\ To(p, "polling") \in Memory /\ To(p, "polling").stage = "polling"
      /\ To(p, "polling").run = procs[p].run /\ To(p, "polling").epoch = procs[p].epoch
    BY ToStage DEF Stages
<1>3. LET memory == [To(p, "polling") EXCEPT !.resp = resp]
      IN  /\ memory \in Memory /\ memory.stage # "taking"
          /\ memory.run = procs[p].run /\ memory.epoch = procs[p].epoch
    BY <1>2 DEF Memory
<1> QED  BY <1>1, <1>3

LEMMA IdleFenced ==
    ASSUME FenceInv, NEW p \in Procs,
           PollInVain(p) \/ CheckIdleChain(p) \/ RefuseBatch(p)
    PROVE  Moved(p)
<1>1. procs \in [Procs -> Memory] /\ procs[p].stage \in Holding
    BY DEF FenceInv, Typed, PollInVain, CheckIdleChain, RefuseBatch, HasBatch, Answered,
           Polling, Holding, Stages
<1>2. CASE PollInVain(p)
    <2>1. /\ To(p, "polling") \in Memory /\ To(p, "polling").stage # "taking"
          /\ To(p, "polling").run = procs[p].run /\ To(p, "polling").epoch = procs[p].epoch
        BY <1>1, ToStage DEF Stages
    <2> QED  BY <1>1, <1>2, <2>1, EndPollFenced DEF PollInVain
<1>3. CASE CheckIdleChain(p) \/ RefuseBatch(p)
    <2>1. EndPoll(p, [To(p, "polling") EXCEPT !.resp = NoResponse])
        BY <1>3 DEF CheckIdleChain, RefuseBatch
    <2> DEFINE memory == [To(p, "polling") EXCEPT !.resp = NoResponse]
    <2>2. /\ memory \in Memory /\ memory.stage # "taking"
          /\ memory.run = procs[p].run /\ memory.epoch = procs[p].epoch
        BY <1>1, ForgetsAnswer
    <2>3. EndPoll(p, memory)
        BY <2>1
    <2> HIDE DEF memory
    <2> QED  BY <1>1, <2>2, <2>3, EndPollFenced
<1> QED  BY <1>2, <1>3

LEMMA AdoptFenced ==
    ASSUME FenceInv, NEW p \in Procs, AdoptSession(p)
    PROVE  Moved(p)
<1> DEFINE s == procs[p].resp.session
           row == [runs[procs[p].run] EXCEPT !.session = s]
           memory == [procs[p] EXCEPT !.session = s, !.root = Root(s, <<>>)]
<1>1. procs[p] \in Memory /\ procs[p].stage = "answered" /\ procs[p].stage \in Holding
    BY DEF FenceInv, Typed, AdoptSession, Answered, Holding, Stages
<1>2. runs[procs[p].run] \in Row
    BY <1>1, RowsHaveEpochs DEF FenceInv, Typed, Known
<1>3. s \in 0..MaxSession
    BY <1>1, ResponseTyped
<1>4. Root(s, <<>>) \in Roots
    BY <1>3, RootTyped, BoundedHistories
<1>5. WriteOrPause(p, row, memory)
    BY DEF AdoptSession
<1> HIDE DEF s
<1>6. row \in Row /\ row.epoch = runs[procs[p].run].epoch
    BY <1>2, <1>3 DEF Row
<1>7. /\ memory \in Memory /\ memory.stage # "taking"
      /\ memory.run = procs[p].run /\ memory.epoch = procs[p].epoch
    BY <1>1, <1>3, <1>4 DEF Memory
<1> HIDE DEF row, memory
<1> QED  BY <1>1, <1>5, <1>6, <1>7, WriteOrPauseFenced

LEMMA ReplaceFenced ==
    ASSUME FenceInv, NEW p \in Procs, MeetNewSession(p) \/ ProbeFeed(p)
    PROVE  Moved(p)
<1>1. procs \in [Procs -> Memory] /\ procs[p].stage \in Holding
    BY DEF FenceInv, Typed, MeetNewSession, ProbeFeed, Answered, Holding, Stages
<1>2. /\ To(p, "replacing") \in Memory /\ To(p, "replacing").stage # "taking"
      /\ To(p, "replacing").run = procs[p].run /\ To(p, "replacing").epoch = procs[p].epoch
    BY <1>1, ToStage DEF Stages
<1>3. UNCHANGED runs /\ Move(p, To(p, "replacing"))
    BY DEF MeetNewSession, ProbeFeed
<1> QED  BY <1>1, <1>2, <1>3, KeepsItsRun

LEMMA BuildFenced ==
    ASSUME FenceInv, NEW p \in Procs, BuildCandidate(p)
    PROVE  Moved(p)
<1> DEFINE batch == procs[p].live \o procs[p].resp.bodies
           memory == [To(p, "committing") EXCEPT !.cand = batch]
<1>1. procs \in [Procs -> Memory] /\ procs[p] \in Memory /\ procs[p].stage \in Holding
    BY DEF FenceInv, Typed, BuildCandidate, HasBatch, Answered, Holding, Stages
<1>2. batch \in Histories
    BY <1>1, ResponseTyped DEF BuildCandidate, BatchStands
<1>3. UNCHANGED runs /\ Move(p, memory)
    BY DEF BuildCandidate
<1>4. /\ To(p, "committing") \in Memory /\ To(p, "committing").stage = "committing"
      /\ To(p, "committing").run = procs[p].run /\ To(p, "committing").epoch = procs[p].epoch
    BY <1>1, ToStage DEF Stages
<1> HIDE DEF batch
<1>5. /\ memory \in Memory /\ memory.stage # "taking"
      /\ memory.run = procs[p].run /\ memory.epoch = procs[p].epoch
    BY <1>2, <1>4 DEF Memory
<1> HIDE DEF memory
<1> QED  BY <1>1, <1>3, <1>5, KeepsItsRun

\* The transaction of Store::commit keeps the columns the fence reads.
LEMMA CommittedRow ==
    ASSUME NEW row \in Row, NEW history \in Histories, NEW claim \in SomeClaim
    PROVE  LET committed == [row EXCEPT !.history = history, !.claims = Append(@, claim),
                                        !.fresh = TRUE]
           IN  committed \in Row /\ committed.epoch = row.epoch
<1>1. PICK claims \in Seq(SomeClaim) : claims = Append(row.claims, claim)
    <2>1. row.claims \in Seq(SomeClaim)
        BY DEF Row
    <2>2. Append(row.claims, claim) \in Seq(SomeClaim)
        BY <2>1
    <2> QED  BY <2>2
<1>2. LET committed == [row EXCEPT !.history = history, !.claims = claims, !.fresh = TRUE]
      IN  committed \in Row /\ committed.epoch = row.epoch
    BY DEF Row
<1> QED  BY <1>1, <1>2

LEMMA ClaimTyped ==
    ASSUME NEW p \in Procs, procs[p] \in Memory
    PROVE  ClaimOf(p) \in SomeClaim
<1>1. /\ procs[p].live \in Histories /\ procs[p].cand \in Histories
      /\ procs[p].root \in Roots /\ procs[p].session \in 0..MaxSession
    BY ResponseTyped
<1>2. Len(procs[p].live) + 1 \in Nat /\ Len(procs[p].cand) \in Nat
    BY <1>1, BoundedHistories
<1>3. Root(procs[p].session, procs[p].cand) \in Roots
    BY <1>1, RootTyped
<1> QED  BY <1>1, <1>2, <1>3 DEF ClaimOf, SomeClaim

LEMMA CommitFenced ==
    ASSUME FenceInv, NEW p \in Procs, CommitBatch(p)
    PROVE  Moved(p)
<1> DEFINE r == procs[p].run
           stands == disk /\ Owned(p) /\ Len(procs[p].cand) >= Len(runs[r].history)
           row == [runs[r] EXCEPT !.history = procs[p].cand, !.claims = Append(@, ClaimOf(p)),
                                  !.fresh = TRUE]
<1>1. /\ procs \in [Procs -> Memory] /\ procs[p] \in Memory /\ procs[p].stage \in Holding
      /\ runs \in Seq(Row)
    BY DEF FenceInv, Typed, CommitBatch, Holding, Stages
<1>2. r \in DOMAIN runs /\ runs[r] \in Row
    BY <1>1, RowsHaveEpochs DEF FenceInv, Known
<1>3. CASE stands
    <2>1. /\ To(p, "publishing") \in Memory /\ To(p, "publishing").stage # "taking"
          /\ To(p, "publishing").run = r /\ To(p, "publishing").epoch = procs[p].epoch
        BY <1>1, ToStage DEF Stages
    <2>2. row \in Row /\ row.epoch = runs[r].epoch
        BY <1>1, <1>2, CommittedRow, ClaimTyped, ResponseTyped
    <2>3. runs' = [runs EXCEPT ![r] = row]
        BY <1>1, <1>2, <1>3 DEF CommitBatch
    <2>4. MoveAndBeat(p, r, To(p, "publishing"))
        BY <1>3 DEF CommitBatch
    <2> HIDE DEF row
    <2> QED  BY <1>1, <2>1, <2>2, <2>3, <2>4, KeepsItsRun
<1>4. CASE ~stands
    <2>1. UNCHANGED runs /\ Move(p, Pausing(procs[p]))
        BY <1>4 DEF CommitBatch
    <2> QED  BY <1>1, <2>1, PausesFenced
<1> QED  BY <1>3, <1>4

LEMMA PublishFenced ==
    ASSUME FenceInv, NEW p \in Procs, PublishCandidate(p)
    PROVE  Moved(p)
<1>1. procs \in [Procs -> Memory] /\ procs[p] \in Memory /\ procs[p].stage \in Holding
    BY DEF FenceInv, Typed, PublishCandidate, Holding, Stages
<1>2. procs[p].cand \in Histories /\ procs[p].session \in 0..MaxSession
    BY <1>1, ResponseTyped
<1>3. PICK root \in Roots, resp \in SomeResponse, none \in Histories :
        /\ root = Root(procs[p].session, procs[p].cand)
        /\ resp = NoResponse /\ none = <<>>
    <2>1. Root(procs[p].session, procs[p].cand) \in Roots
        BY <1>2, RootTyped
    <2>2. NoResponse \in SomeResponse /\ <<>> \in Histories
        BY Beginnings, BoundedHistories
    <2> QED  BY <2>1, <2>2
<1> DEFINE memory == [To(p, "polling") EXCEPT !.live = procs[p].cand, !.root = root,
                                              !.cand = none, !.resp = resp]
<1>4. UNCHANGED runs /\ Move(p, memory)
    BY <1>3 DEF PublishCandidate
<1>5. /\ To(p, "polling") \in Memory /\ To(p, "polling").stage = "polling"
      /\ To(p, "polling").run = procs[p].run /\ To(p, "polling").epoch = procs[p].epoch
    BY <1>1, ToStage DEF Stages
<1>6. /\ memory \in Memory /\ memory.stage # "taking"
      /\ memory.run = procs[p].run /\ memory.epoch = procs[p].epoch
    BY <1>2, <1>5 DEF Memory
<1> HIDE DEF memory
<1> QED  BY <1>1, <1>4, <1>6, KeepsItsRun

-----------------------------------------------------------------------------
(* start_new_run, and the end of a process. *)

LEMMA SuccessionFenced ==
    ASSUME FenceInv, NEW p \in Procs, CloseReplacedRun(p) \/ SucceedRun(p)
    PROVE  Moved(p)
<1>1. /\ procs \in [Procs -> Memory] /\ procs[p] \in Memory /\ procs[p].stage \in Holding
    BY DEF FenceInv, Typed, CloseReplacedRun, SucceedRun, Holding, Stages
<1>2. CASE CloseReplacedRun(p) /\ disk /\ Owned(p)
    <2>1. /\ runs' = [runs EXCEPT ![procs[p].run].status = "feed_restarted"]
          /\ Move(p, To(p, "succeeding"))
        BY <1>2 DEF CloseReplacedRun
    <2>2. /\ To(p, "succeeding") \in Memory /\ To(p, "succeeding").stage = "succeeding"
          /\ To(p, "succeeding").run = procs[p].run
          /\ To(p, "succeeding").epoch = procs[p].epoch
        BY <1>1, ToStage DEF Stages
    <2>3. MayBecome(p, To(p, "succeeding"))
        BY <1>1, <2>2 DEF MayBecome
    <2> QED  BY <1>1, <2>1, <2>2, <2>3, EndsItsRun
<1>3. CASE CloseReplacedRun(p) /\ ~(disk /\ Owned(p))
    BY <1>1, <1>3, PausesFenced DEF CloseReplacedRun
<1>4. CASE SucceedRun(p) /\ disk
    <2>1. "naming" \in Stages \ {"taking"}
        BY DEF Stages
    <2> QED  BY <1>4, <2>1, TakesNewRun DEF SucceedRun
<1>5. CASE SucceedRun(p) /\ ~disk
    BY <1>1, <1>5, PausesFenced DEF SucceedRun
<1> QED  BY <1>2, <1>3, <1>4, <1>5

LEMMA NameFenced ==
    ASSUME FenceInv, NEW p \in Procs, NameSuccessor(p)
    PROVE  Moved(p)
<1> DEFINE s == procs[p].resp.session
           row == [runs[procs[p].run] EXCEPT !.session = s]
<1>1. procs \in [Procs -> Memory] /\ procs[p] \in Memory /\ procs[p].stage \in Holding
    BY DEF FenceInv, Typed, NameSuccessor, Holding, Stages
<1>2. runs[procs[p].run] \in Row
    BY <1>1, RowsHaveEpochs DEF FenceInv, Typed, Known
<1>3. s \in 0..MaxSession
    BY <1>1, ResponseTyped
<1>4. WriteOrPause(p, row, To(p, "renewing"))
    BY DEF NameSuccessor
<1> HIDE DEF s
<1>5. row \in Row /\ row.epoch = runs[procs[p].run].epoch
    BY <1>2, <1>3 DEF Row
<1>6. /\ To(p, "renewing") \in Memory /\ To(p, "renewing").stage # "taking"
      /\ To(p, "renewing").run = procs[p].run /\ To(p, "renewing").epoch = procs[p].epoch
    BY <1>1, ToStage DEF Stages
<1> HIDE DEF row
<1> QED  BY <1>1, <1>4, <1>5, <1>6, WriteOrPauseFenced

LEMMA RenewFenced ==
    ASSUME FenceInv, NEW p \in Procs, RenewState(p)
    PROVE  Moved(p)
<1> DEFINE s == procs[p].resp.session
<1>1. procs[p] \in Memory /\ procs[p].stage \in Holding
    BY DEF FenceInv, Typed, RenewState, Holding, Stages
<1>2. s \in 0..MaxSession /\ procs[p].run \in 0..MaxRuns /\ procs[p].epoch \in Nat
    BY <1>1, ResponseTyped DEF Memory
<1>3. PICK root \in Roots : root = Root(s, <<>>)
    <2>1. Root(s, <<>>) \in Roots
        BY <1>2, RootTyped, BoundedHistories
    <2> QED  BY <2>1
<1> DEFINE memory == [Unstarted EXCEPT !.stage = "polling", !.run = procs[p].run,
                                       !.epoch = procs[p].epoch, !.session = s,
                                       !.root = root]
<1>4. BeatOrPause(p, memory)
    BY <1>3 DEF RenewState
<1> HIDE DEF s
<1>5. Unstarted \in Memory /\ "polling" \in Stages
    BY Beginnings DEF Stages
<1>6. /\ memory \in Memory /\ memory.stage # "taking"
      /\ memory.run = procs[p].run /\ memory.epoch = procs[p].epoch
    BY <1>2, <1>5 DEF Memory
<1> HIDE DEF memory
<1> QED  BY <1>1, <1>4, <1>6, BeatOrPauseFenced

LEMMA PollFenced ==
    ASSUME FenceInv, NEW p \in Procs, Poll(p)
    PROVE  Moved(p) /\ UNCHANGED <<feed, disk>>
<1>1. Moved(p)
    BY FetchFenced, IdleFenced, AdoptFenced, ReplaceFenced, BuildFenced, CommitFenced,
       PublishFenced, SuccessionFenced, NameFenced, RenewFenced DEF Poll
<1>2. UNCHANGED <<feed, disk>>
    BY DEF Poll, FetchBatch, FetchNothing, PollInVain, AdoptSession, MeetNewSession, ProbeFeed,
           CheckIdleChain, BuildCandidate, RefuseBatch, CommitBatch, PublishCandidate,
           CloseReplacedRun, SucceedRun, NameSuccessor, RenewState
<1> QED  BY <1>1, <1>2

LEMMA EndFenced ==
    ASSUME FenceInv, NEW p \in Procs, Finish(p) \/ Crash(p)
    PROVE  Moved(p) /\ UNCHANGED <<feed, disk>>
<1>1. CASE Crash(p)
    BY <1>1, LeavesQuietly DEF Crash
<1>2. CASE Finish(p)
    <2>1. CASE ~procs[p].paused /\ disk /\ Owned(p)
        <3>1. /\ runs' = [runs EXCEPT ![procs[p].run].status = "stopped"]
              /\ Move(p, Gone) /\ UNCHANGED <<feed, disk>>
            BY <1>2, <2>1 DEF Finish
        <3>2. procs[p].stage \in Holding
            BY <1>2 DEF Finish, Holding, Stages
        <3>3. Gone \in Memory /\ MayBecome(p, Gone)
            BY Beginnings DEF MayBecome, Holding
        <3> QED  BY <3>1, <3>2, <3>3, EndsItsRun
    <2>2. CASE ~(~procs[p].paused /\ disk /\ Owned(p))
        <3>1. UNCHANGED runs /\ Move(p, Gone) /\ UNCHANGED <<feed, disk>>
            BY <1>2, <2>2 DEF Finish
        <3> QED  BY <3>1, LeavesQuietly
    <2> QED  BY <2>1, <2>2
<1> QED  BY <1>1, <1>2

-----------------------------------------------------------------------------
(* The environment: processes stay as they are. *)

LEMMA FeedStepTyped ==
    ASSUME feed \in Feed, feed.session + feed.may.sessions <= MaxSession,
           (\E body \in Bodies : FeedAppends(body)) \/ FeedReplaced \/ FeedLosesItsEnd
    PROVE  /\ feed' \in Feed /\ feed'.session + feed'.may.sessions <= MaxSession
           /\ UNCHANGED <<disk, runs, procs>>
<1>1. /\ feed.session \in Sessions /\ feed.log \in Histories /\ feed.may \in Allowed
    BY DEF Feed
<1>2. /\ feed.may.sessions \in Nat /\ feed.may.losses \in Nat
      /\ \A left \in Nat : /\ [feed.may EXCEPT !.sessions = left] \in Allowed
                           /\ [feed.may EXCEPT !.losses = left] \in Allowed
    BY <1>1 DEF Allowed
<1>3. ASSUME NEW body \in Bodies, FeedAppends(body)
      PROVE  /\ feed' \in Feed /\ feed'.session + feed'.may.sessions <= MaxSession
             /\ UNCHANGED <<disk, runs, procs>>
    <2>1. PICK log \in Histories : log = Append(feed.log, body)
        <3>1. feed.log \in Seq(Bodies) /\ Len(feed.log) < MaxFeed
            BY <1>1, <1>3, BoundedHistories DEF FeedAppends
        <3>2. Append(feed.log, body) \in Seq(Bodies) /\ Len(Append(feed.log, body)) <= MaxFeed
            BY <3>1, RunsInputs DEF RunsInputs
        <3> QED  BY <3>2, BoundedHistories
    <2>2. feed' = [feed EXCEPT !.log = log] /\ UNCHANGED <<disk, runs, procs>>
        BY <1>3, <2>1 DEF FeedAppends
    <2>3. feed' \in Feed /\ feed'.session = feed.session /\ feed'.may = feed.may
        BY <2>2 DEF Feed
    <2> QED  BY <2>2, <2>3
<1>4. CASE FeedReplaced
    <2>1. PICK left \in Nat : left = feed.may.sessions - 1
        BY <1>2, <1>4 DEF FeedReplaced
    <2>2. PICK session \in Sessions : session = feed.session + 1
        BY <1>1, <1>2, <1>4, SessionsBounded DEF FeedReplaced, Sessions
    <2>3. PICK none \in Histories : none = <<>>
        BY BoundedHistories
    <2>4. PICK may \in Allowed : may = [feed.may EXCEPT !.sessions = left]
        BY <1>2
    <2>5. /\ feed' = [feed EXCEPT !.session = session, !.log = none, !.may = may]
          /\ UNCHANGED <<disk, runs, procs>>
        BY <1>4, <2>1, <2>2, <2>3, <2>4 DEF FeedReplaced, Feed
    <2>6. feed' \in Feed /\ feed'.session = session /\ feed'.may.sessions = left
        BY <1>1, <2>4, <2>5 DEF Feed, Allowed
    <2>7. session + left <= MaxSession
        BY <1>1, <1>2, <2>1, <2>2, SessionsBounded DEF Sessions
    <2> QED  BY <2>5, <2>6, <2>7
<1>5. CASE FeedLosesItsEnd
    <2>1. PICK left \in Nat : left = feed.may.losses - 1
        BY <1>2, <1>5 DEF FeedLosesItsEnd
    <2>2. PICK log \in Histories : log = Front(feed.log)
        <3>1. Front(feed.log) \in Histories
            BY <1>1, <1>5, FrontOfHistory DEF FeedLosesItsEnd
        <3> QED  BY <3>1
    <2>3. PICK may \in Allowed : may = [feed.may EXCEPT !.losses = left]
        BY <1>2
    <2>4. feed' = [feed EXCEPT !.log = log, !.may = may] /\ UNCHANGED <<disk, runs, procs>>
        BY <1>5, <2>1, <2>2, <2>3 DEF FeedLosesItsEnd, Feed
    <2>5. /\ feed' \in Feed /\ feed'.session = feed.session
          /\ feed'.may.sessions = feed.may.sessions
        BY <1>1, <2>3, <2>4 DEF Feed, Allowed
    <2> QED  BY <2>4, <2>5
<1> QED  BY <1>3, <1>4, <1>5

\* The invariant does not look at the signatures or the disk.
LEMMA UntouchedFence ==
    ASSUME FenceInv, feed' \in Feed, feed'.session + feed'.may.sessions <= MaxSession,
           disk' \in BOOLEAN, UNCHANGED <<runs, procs>>
    PROVE  FenceInv'
BY DEF FenceInv, Typed, Known, Fenced

LEMMA StaleFence ==
    ASSUME FenceInv, NEW r \in DOMAIN runs, GoStale(r)
    PROVE  FenceInv'
<1> DEFINE row == [runs[r] EXCEPT !.fresh = FALSE]
<1>1. runs \in Seq(Row) /\ runs[r] \in Row /\ runs[r].epoch \in Nat
    BY RowsHaveEpochs DEF FenceInv, Typed
<1>2. row \in Row /\ row.epoch = runs[r].epoch
    BY <1>1 DEF Row
<1>3. runs' = [runs EXCEPT ![r] = row]
    BY <1>1 DEF GoStale
<1> HIDE DEF row
<1>4. /\ runs' \in Seq(Row) /\ DOMAIN runs' = DOMAIN runs /\ Len(runs') = Len(runs)
      /\ \A other \in DOMAIN runs : runs'[other].epoch = runs[other].epoch
    BY <1>1, <1>2, <1>3
<1>5. UNCHANGED <<feed, disk, procs>>
    BY DEF GoStale
<1> QED  BY <1>4, <1>5 DEF FenceInv, Typed, Known, Fenced

-----------------------------------------------------------------------------
LEMMA FenceInit ==
    ASSUME Init
    PROVE  FenceInv
<1>1. PICK scene \in Scenes : feed = [session |-> 1, log |-> <<>>, may |-> scene]
    BY DEF Init
<1>2. procs \in [Procs -> Memory] /\ \A p \in Procs : procs[p].stage = "down"
    BY Beginnings DEF Init
<1>3. Known /\ Fenced
    BY <1>2 DEF Known, Fenced, Holding
<1>4. feed \in Feed /\ feed.session + feed.may.sessions <= MaxSession
    <2>1. /\ scene \in Allowed /\ scene.sessions \in Nat
          /\ scene.sessions < MaxSession /\ MaxSession \in Nat
        BY RunsInputs DEF RunsInputs, Allowed
    <2>2. 1 \in Sessions /\ <<>> \in Histories
        BY <2>1, BoundedHistories DEF Sessions
    <2> QED  BY <1>1, <2>1, <2>2 DEF Feed
<1>5. runs \in Seq(Row) /\ Len(runs) <= MaxRuns /\ disk \in BOOLEAN
    BY SessionsBounded DEF Init
<1> QED  BY <1>2, <1>3, <1>4, <1>5 DEF FenceInv, Typed

LEMMA FenceNext ==
    ASSUME FenceInv, [Next]_vars
    PROVE  FenceInv'
<1>1. ASSUME NEW p \in Procs, Start(p) \/ Poll(p) \/ Finish(p) \/ Crash(p)
      PROVE  FenceInv'
    <2>1. Moved(p) /\ UNCHANGED <<feed, disk>>
        BY <1>1, StartFenced, PollFenced, EndFenced
    <2>2. Typed' /\ FenceStep(p)
        BY <2>1 DEF Moved, FenceInv, Typed
    <2> QED  BY <2>2, FenceHolds DEF FenceInv
<1>2. CASE Environment
    <2>1. CASE (\E body \in Bodies : FeedAppends(body)) \/ FeedReplaced \/ FeedLosesItsEnd
        <3>1. /\ feed' \in Feed /\ feed'.session + feed'.may.sessions <= MaxSession
              /\ disk' \in BOOLEAN /\ UNCHANGED <<runs, procs>>
            BY <2>1, FeedStepTyped DEF FenceInv, Typed
        <3> QED  BY <3>1, UntouchedFence
    <2>2. CASE DiskFails \/ DiskRecovers
        <3>1. /\ feed' \in Feed /\ feed'.session + feed'.may.sessions <= MaxSession
              /\ disk' \in BOOLEAN /\ UNCHANGED <<runs, procs>>
            BY <2>2 DEF DiskFails, DiskRecovers, FenceInv, Typed
        <3> QED  BY <3>1, UntouchedFence
    <2>3. CASE \E r \in DOMAIN runs : GoStale(r)
        BY <2>3, StaleFence
    <2> QED  BY <1>2, <2>1, <2>2, <2>3 DEF Environment
<1>3. CASE UNCHANGED vars
    <2>1. /\ feed' \in Feed /\ feed'.session + feed'.may.sessions <= MaxSession
          /\ disk' \in BOOLEAN /\ UNCHANGED <<runs, procs>>
        BY <1>3 DEF vars, FenceInv, Typed
    <2> QED  BY <2>1, UntouchedFence
<1> QED  BY <1>1, <1>2, <1>3 DEF Next

\* The invariant gives every column and field its type, within the bounds.
LEMMA TypesSuffice ==
    ASSUME FenceInv
    PROVE  RunsTypeOK
<1>1. /\ feed \in Feed /\ disk \in BOOLEAN /\ runs \in Seq(Row) /\ Len(runs) <= MaxRuns
      /\ procs \in [Procs -> Memory]
    BY DEF FenceInv, Typed
<1>2. feed.session \in Sessions /\ feed.log \in Histories
    BY <1>1 DEF Feed
<1>3. ASSUME NEW r \in DOMAIN runs
      PROVE  /\ runs[r].status \in {"open", "stopped", "feed_restarted", "reset"}
             /\ runs[r].owner \in Procs /\ runs[r].epoch \in Nat \ {0}
             /\ runs[r].session \in 0..MaxSession /\ runs[r].history \in Histories
             /\ \A i \in DOMAIN runs[r].claims :
                   runs[r].claims[i] \in [from : Nat, to : Nat, before : Roots, after : Roots]
    <2>1. runs[r] \in Row
        BY <1>1, RowsHaveEpochs
    <2>2. runs[r].claims \in Seq(SomeClaim)
        BY <2>1 DEF Row
    <2>3. \A i \in DOMAIN runs[r].claims : runs[r].claims[i] \in SomeClaim
        BY <2>2
    <2> QED  BY <2>1, <2>3 DEF Row, SomeClaim
<1>4. ASSUME NEW p \in Procs
      PROVE  /\ procs[p].run \in 0..MaxRuns
             /\ procs[p].live \in Histories /\ procs[p].cand \in Histories
             /\ procs[p].root \in Roots
    BY <1>1 DEF Memory
<1> QED  BY <1>1, <1>2, <1>3, <1>4 DEF RunsTypeOK

\* Two processes whose writes pass have the epoch the row has now.
LEMMA FenceSuffices ==
    ASSUME FenceInv
    PROVE  OneWriterPerRun
<1>1. \A p \in Procs : Active(p) => procs[p].stage \in Holding
    BY DEF Active, Holding, Stages
<1> QED  BY <1>1 DEF OneWriterPerRun, Owned, FenceInv, Fenced

\* However many processes there are and however their claims of a run
\* interleave (take_run's UPDATE names what the SELECT saw), at most one of
\* them passes the fence of each write.
THEOREM OneWriter == Spec => []OneWriterPerRun
<1>1. Init => FenceInv
    BY FenceInit
<1>2. FenceInv /\ [Next]_vars => FenceInv'
    BY FenceNext
<1>3. FenceInv => OneWriterPerRun
    BY FenceSuffices
<1> QED  BY <1>1, <1>2, <1>3, PTL DEF Spec

-----------------------------------------------------------------------------
(* The rows.  The argument is about the one process that holds a run under  *)
(* the row's own epoch: what it has in memory is what the row holds.  A     *)
(* process that lost its run knows nothing of the row any more, and cannot  *)
(* write.                                                                   *)

Early == {"down", "gone", "creating", "taking", "loading", "resetting"}

Answering ==
    {"answered", "committing", "publishing", "replacing", "succeeding", "naming", "renewing"}

InStep == {"genesis", "polling", "answered", "committing"}

WasSigned(session, history) == [session |-> session, log |-> history] \in signed

Held(rows, session, history) ==
    \E r \in DOMAIN rows : rows[r].session = session /\ IsPrefix(history, rows[r].history)

\* A batch that stood the checks of apply_batch.
BatchFits(memory) ==
    memory.stage = "committing" =>
        /\ memory.session = memory.resp.session /\ memory.cand = memory.resp.head
        /\ IsPrefix(memory.live, memory.cand) /\ Len(memory.live) < Len(memory.cand)

AnswerFits(memory) ==
    memory.stage \in Answering =>
        /\ memory.resp.session \in Sessions
        /\ WasSigned(memory.resp.session, memory.resp.head)

PublishFits(memory) ==
    memory.stage = "publishing" =>
        memory.cand # <<>> /\ Held(runs, memory.session, memory.cand)

\* What whoever holds a run under the epoch of its row has of it.
RowFits(memory) ==
    /\ memory.stage \in Holding /\ ~memory.paused
    /\ memory.run \in DOMAIN runs /\ memory.epoch = runs[memory.run].epoch
    =>
    /\ memory.stage \in InStep =>
          /\ runs[memory.run].session = memory.session
          /\ runs[memory.run].history = memory.live
    /\ memory.stage = "publishing" =>
          /\ runs[memory.run].session = memory.session
          /\ runs[memory.run].history = memory.cand
    /\ memory.stage = "naming" =>
          /\ runs[memory.run].session = NoSession
          /\ runs[memory.run].history = <<>>
    /\ memory.stage = "renewing" =>
          /\ runs[memory.run].session = memory.resp.session
          /\ runs[memory.run].history = <<>>

\* What every process has of what it serves.
StateFits(memory) ==
    /\ memory.root = Root(memory.session, memory.live)
    /\ memory.paused => memory.stage = "polling"
    /\ memory.stage \in Early => memory.session = NoSession /\ memory.live = <<>>
    /\ memory.live # <<>> => Held(runs, memory.session, memory.live)

MemoryFits(memory) ==
    /\ StateFits(memory)
    /\ BatchFits(memory) /\ AnswerFits(memory) /\ PublishFits(memory)
    /\ RowFits(memory)

\* The claims of one run, as in ClaimsChainRootToRoot.
Chained(run) ==
    LET n == Len(run.claims)
    IN  /\ \A i \in 1..n :
              /\ run.claims[i].from = (IF i = 1 THEN 0 ELSE run.claims[i - 1].to) + 1
              /\ run.claims[i].before = (IF i = 1 THEN Root(run.session, <<>>)
                                                  ELSE run.claims[i - 1].after)
              /\ run.claims[i].to >= run.claims[i].from
        /\ IF n = 0 THEN run.history = <<>>
           ELSE /\ run.claims[n].to = Len(run.history)
                /\ run.claims[n].after = Root(run.session, run.history)

RowsFit ==
    \A r \in DOMAIN runs :
        /\ Chained(runs[r])
        /\ runs[r].history # <<>> => WasSigned(runs[r].session, runs[r].history)

\* Every end of the log, and every beginning of it, was signed.
FeedFits == \A k \in 0..Len(feed.log) : WasSigned(feed.session, SubSeq(feed.log, 1, k))

HistoryInv ==
    /\ FenceInv
    /\ FeedFits
    /\ RowsFit
    /\ \A p \in Procs : MemoryFits(procs[p])

-----------------------------------------------------------------------------
(* A step, as far as the histories can see it. *)

\* A row of which at most the owner, the heartbeat, the epoch or the status
\* is written.
Same(r) ==
    /\ r \in DOMAIN runs'
    /\ runs'[r].session = runs[r].session
    /\ runs'[r].history = runs[r].history /\ runs'[r].claims = runs[r].claims

\* The row of the process that takes the step, which may write it.
Mine(p, r) == procs[p].stage \in Holding /\ Owned(p) /\ r = procs[p].run

\* Histories grow, and keep the session they were consumed under.
HistoriesGrow ==
    \A r \in DOMAIN runs :
        /\ r \in DOMAIN runs'
        /\ IsPrefix(runs[r].history, runs'[r].history)
        /\ runs[r].history # <<>> => runs'[r].session = runs[r].session

RowsStep(p) ==
    /\ HistoriesGrow
    /\ \A r \in DOMAIN runs : Same(r) \/ Mine(p, r)
    /\ signed \subseteq signed'

LEMMA RowHistories ==
    ASSUME NEW rows \in Seq(Row), NEW r \in DOMAIN rows
    PROVE  /\ rows[r].history \in Histories /\ rows[r].history \in Seq(Bodies)
           /\ rows[r].session \in 0..MaxSession /\ rows[r].claims \in Seq(SomeClaim)
<1>1. rows[r] \in Row
    BY RowsHaveEpochs
<1>2. /\ rows[r].history \in Histories
      /\ rows[r].session \in 0..MaxSession /\ rows[r].claims \in Seq(SomeClaim)
    BY <1>1 DEF Row
<1> QED  BY <1>2, BoundedHistories

\* What a run holds it goes on holding.
LEMMA HeldStays ==
    ASSUME runs \in Seq(Row), runs' \in Seq(Row), HistoriesGrow,
           NEW session, NEW history \in Histories, history # <<>>, Held(runs, session, history)
    PROVE  Held(runs', session, history)
<1>1. PICK r \in DOMAIN runs : runs[r].session = session /\ IsPrefix(history, runs[r].history)
    BY DEF Held
<1>2. r \in DOMAIN runs' /\ IsPrefix(runs[r].history, runs'[r].history)
    BY DEF HistoriesGrow
<1>3. /\ history \in Seq(Bodies) /\ runs[r].history \in Seq(Bodies)
      /\ runs'[r].history \in Seq(Bodies)
    BY <1>1, <1>2, RowHistories, BoundedHistories
<1>4. runs[r].history # <<>>
    BY <1>1, <1>3, PrefixByElement
<1>5. runs'[r].session = session
    BY <1>1, <1>4 DEF HistoriesGrow
<1>6. IsPrefix(history, runs'[r].history)
    BY <1>1, <1>2, <1>3, PrefixTransitive
<1> QED  BY <1>2, <1>5, <1>6 DEF Held

\* The row of a process that holds it under its own epoch is its own still.
LEMMA EpochStands ==
    ASSUME FenceInv, NEW q \in Procs, procs[q].stage \in Holding, RowsOnlyRise,
           runs' \in Seq(Row),
           procs[q].run \in DOMAIN runs', procs[q].epoch = runs'[procs[q].run].epoch
    PROVE  procs[q].run \in DOMAIN runs /\ procs[q].epoch = runs[procs[q].run].epoch
<1>1. procs[q].run \in DOMAIN runs /\ procs[q].epoch <= runs[procs[q].run].epoch
    BY DEF FenceInv, Known
<1>2. runs[procs[q].run].epoch <= runs'[procs[q].run].epoch
    BY <1>1 DEF RowsOnlyRise
<1>3. /\ procs[q].epoch \in Nat /\ runs[procs[q].run].epoch \in Nat
      /\ runs'[procs[q].run].epoch \in Nat
    BY <1>1, RowsHaveEpochs DEF FenceInv, Typed, Memory
<1> QED  BY <1>1, <1>2, <1>3

\* The others notice nothing.
LEMMA OthersFit ==
    ASSUME HistoryInv, NEW p \in Procs, Moved(p), RowsStep(p), NEW q \in Procs \ {p}
    PROVE  MemoryFits(procs[q])'
<1>1. /\ procs'[q].stage = procs[q].stage
      /\ procs'[q].run = procs[q].run /\ procs'[q].epoch = procs[q].epoch
      /\ procs'[q].session = procs[q].session /\ procs'[q].live = procs[q].live
      /\ procs'[q].root = procs[q].root /\ procs'[q].resp = procs[q].resp
      /\ procs'[q].cand = procs[q].cand /\ procs'[q].paused = procs[q].paused
    BY DEF Moved, FenceStep, Alike
<1>2. /\ runs \in Seq(Row) /\ runs' \in Seq(Row) /\ HistoriesGrow /\ RowsOnlyRise
      /\ FenceInv /\ signed \subseteq signed'
    BY DEF HistoryInv, FenceInv, Typed, Moved, FenceStep, RowsStep
<1>3. procs[q].live \in Histories /\ procs[q].cand \in Histories
    BY DEF HistoryInv, FenceInv, Typed, Memory
<1>4. MemoryFits(procs[q])
    BY DEF HistoryInv
<1>5. StateFits(procs[q])'
    <2>1. procs[q].live # <<>> =>
            Held(runs', procs[q].session, procs[q].live)
        BY <1>2, <1>3, <1>4, HeldStays DEF MemoryFits, StateFits
    <2> QED  BY <1>1, <1>4, <2>1 DEF MemoryFits, StateFits
<1>6. BatchFits(procs[q])'
    BY <1>1, <1>4 DEF MemoryFits, BatchFits
<1>7. AnswerFits(procs[q])'
    BY <1>1, <1>2, <1>4 DEF MemoryFits, AnswerFits, WasSigned
<1>8. PublishFits(procs[q])'
    <2>1. procs[q].stage = "publishing" =>
            Held(runs', procs[q].session, procs[q].cand)
        BY <1>2, <1>3, <1>4, HeldStays DEF MemoryFits, PublishFits
    <2> QED  BY <1>1, <1>4, <2>1 DEF MemoryFits, PublishFits
<1>9. RowFits(procs[q])'
    <2>1. SUFFICES ASSUME procs[q].stage \in Holding, ~procs[q].paused,
                          procs[q].run \in DOMAIN runs',
                          procs[q].epoch = runs'[procs[q].run].epoch
                   PROVE  Same(procs[q].run)
                            /\ procs[q].run \in DOMAIN runs
                            /\ procs[q].epoch = runs[procs[q].run].epoch
        <3>1. RowFits(procs[q])
            BY <1>4 DEF MemoryFits
        <3> QED  BY <1>1, <3>1 DEF RowFits, Same
    <2>2. procs[q].run \in DOMAIN runs /\ procs[q].epoch = runs[procs[q].run].epoch
        BY <1>2, <2>1, EpochStands
    <2>3. ~Mine(p, procs[q].run)
        <3>1. ASSUME Mine(p, procs[q].run)
              PROVE  FALSE
            <4>1. /\ procs[p].stage \in Holding /\ procs[p].run = procs[q].run
                  /\ procs[p].epoch = procs[q].epoch
                BY <2>2, <3>1 DEF Mine, Owned
            <4> QED  BY <1>2, <2>1, <4>1 DEF FenceInv, Fenced
        <3> QED  BY <3>1
    <2> QED  BY <2>2, <2>3 DEF RowsStep
<1> QED  BY <1>5, <1>6, <1>7, <1>8, <1>9 DEF MemoryFits

-----------------------------------------------------------------------------
(* The chain of claims. *)

\* A run that consumed nothing has no claim.
LEMMA NoHistoryNoClaim ==
    ASSUME NEW row \in Row, Chained(row), row.history = <<>>
    PROVE  Len(row.claims) = 0
<1>1. row.claims \in Seq(SomeClaim)
    BY DEF Row
<1> DEFINE n == Len(row.claims)
<1>2. n \in Nat /\ \A i \in 1..n : row.claims[i].to \in Nat /\ row.claims[i].from \in Nat
    <2>1. \A i \in 1..n : row.claims[i] \in SomeClaim
        BY <1>1
    <2> QED  BY <1>1, <2>1 DEF SomeClaim
<1>3. ASSUME n # 0
      PROVE  FALSE
    <2>1. n \in 1..n
        BY <1>2, <1>3
    <2>2. row.claims[n].to = 0
        BY <1>3 DEF Chained
    <2>3. row.claims[n].from = (IF n = 1 THEN 0 ELSE row.claims[n - 1].to) + 1
        BY <2>1 DEF Chained
    <2>4. row.claims[n].to >= row.claims[n].from
        BY <2>1 DEF Chained
    <2> HIDE DEF n
    <2>5. (IF n = 1 THEN 0 ELSE row.claims[n - 1].to) \in Nat
        BY <1>2, <1>3
    <2> QED  BY <1>2, <2>1, <2>2, <2>3, <2>4, <2>5
<1> QED  BY <1>3

LEMMA EmptyChain ==
    ASSUME NEW row, Len(row.claims) = 0, row.history = <<>>
    PROVE  Chained(row)
BY DEF Chained

\* A claim that starts where the history ends, at the root it has, and ends
\* further on, continues the chain.
LEMMA ChainGrows ==
    ASSUME NEW row \in Row, Chained(row), NEW cand \in Histories,
           Len(row.history) < Len(cand),
           NEW claim \in SomeClaim,
           claim.from = Len(row.history) + 1, claim.to = Len(cand),
           claim.before = Root(row.session, row.history),
           claim.after = Root(row.session, cand),
           NEW grown, grown.session = row.session, grown.history = cand,
           grown.claims = Append(row.claims, claim)
    PROVE  Chained(grown)
<1> DEFINE n == Len(row.claims)
           m == Len(grown.claims)
<1>1. row.claims \in Seq(SomeClaim) /\ row.history \in Histories
    BY DEF Row
<1>2. /\ n \in Nat /\ m = n + 1 /\ grown.claims[m] = claim
      /\ \A i \in 1..n : grown.claims[i] = row.claims[i]
    BY <1>1
<1>3. /\ Len(row.history) \in Nat /\ Len(cand) \in Nat
      /\ Len(row.history) = 0 => row.history = <<>>
    BY <1>1, BoundedHistories
<1>4. /\ \A i \in 1..n :
            /\ row.claims[i].from = (IF i = 1 THEN 0 ELSE row.claims[i - 1].to) + 1
            /\ row.claims[i].before = (IF i = 1 THEN Root(row.session, <<>>)
                                                ELSE row.claims[i - 1].after)
            /\ row.claims[i].to >= row.claims[i].from
      /\ n = 0 => row.history = <<>>
      /\ n # 0 => /\ row.claims[n].to = Len(row.history)
                  /\ row.claims[n].after = Root(row.session, row.history)
    BY DEF Chained
<1> HIDE DEF n, m
<1>5. ASSUME NEW i \in 1..n
      PROVE  /\ grown.claims[i].from = (IF i = 1 THEN 0 ELSE grown.claims[i - 1].to) + 1
             /\ grown.claims[i].before = (IF i = 1 THEN Root(grown.session, <<>>)
                                                   ELSE grown.claims[i - 1].after)
             /\ grown.claims[i].to >= grown.claims[i].from
    <2>1. grown.claims[i] = row.claims[i]
        BY <1>2
    <2>2. i # 1 => grown.claims[i - 1] = row.claims[i - 1]
        <3>1. i # 1 => i - 1 \in 1..n
            BY <1>2
        <3> QED  BY <1>2, <3>1
    <2> QED  BY <1>4, <2>1, <2>2
<1>6. /\ claim.from = (IF m = 1 THEN 0 ELSE grown.claims[m - 1].to) + 1
      /\ claim.before = (IF m = 1 THEN Root(grown.session, <<>>)
                                  ELSE grown.claims[m - 1].after)
    <2>1. CASE n = 0
        <3>1. m = 1 /\ row.history = <<>>
            BY <1>2, <1>4, <2>1
        <3>2. Len(row.history) = 0
            BY <3>1
        <3> QED  BY <3>1, <3>2
    <2>2. CASE n # 0
        <3>1. m # 1 /\ m - 1 = n /\ n \in 1..n
            BY <1>2, <2>2
        <3>2. grown.claims[m - 1] = row.claims[n]
            BY <1>2, <3>1
        <3> QED  BY <1>4, <2>2, <3>1, <3>2
    <2> QED  BY <2>1, <2>2
<1>7. claim.to >= claim.from
    BY <1>3
<1>8. ASSUME NEW i \in 1..m
      PROVE  /\ grown.claims[i].from = (IF i = 1 THEN 0 ELSE grown.claims[i - 1].to) + 1
             /\ grown.claims[i].before = (IF i = 1 THEN Root(grown.session, <<>>)
                                                   ELSE grown.claims[i - 1].after)
             /\ grown.claims[i].to >= grown.claims[i].from
    <2>1. i = m \/ i \in 1..n
        BY <1>2
    <2>2. CASE i = m
        BY <1>2, <1>6, <1>7, <2>2
    <2> QED  BY <1>5, <2>1, <2>2
<1>9. /\ m # 0
      /\ grown.claims[m].to = Len(grown.history)
      /\ grown.claims[m].after = Root(grown.session, grown.history)
    BY <1>2
<1> QED  BY <1>8, <1>9 DEF Chained, m

-----------------------------------------------------------------------------
(* The transactions, as far as the histories can see them. *)

LEMMA RowsUntouched ==
    ASSUME HistoryInv, NEW p \in Procs, runs' \in Seq(Row),
           DOMAIN runs' = DOMAIN runs, \A r \in DOMAIN runs : Same(r),
           signed \subseteq signed'
    PROVE  RowsStep(p) /\ RowsFit'
<1>1. runs \in Seq(Row)
    BY DEF HistoryInv, FenceInv, Typed
<1>2. \A r \in DOMAIN runs : runs[r].history \in Seq(Bodies)
    BY <1>1, RowHistories
<1>3. HistoriesGrow
    BY <1>2, PrefixReflexive DEF HistoriesGrow, Same
<1>4. RowsFit'
    BY DEF HistoryInv, RowsFit, Same, Chained, WasSigned
<1> QED  BY <1>3, <1>4 DEF RowsStep

LEMMA RowsOpened ==
    ASSUME HistoryInv, NEW p \in Procs, runs' = Append(runs, EmptyRun(p)), UNCHANGED signed
    PROVE  RowsStep(p) /\ RowsFit'
<1>1. runs \in Seq(Row) /\ EmptyRun(p) \in Row
    BY Beginnings DEF HistoryInv, FenceInv, Typed
<1>2. /\ \A r \in DOMAIN runs : r \in DOMAIN runs' /\ runs'[r] = runs[r]
      /\ \A r \in DOMAIN runs' : r \in DOMAIN runs \/ runs'[r] = EmptyRun(p)
    BY <1>1
<1>3. \A r \in DOMAIN runs : runs[r].history \in Seq(Bodies)
    BY <1>1, RowHistories
<1>4. HistoriesGrow
    BY <1>2, <1>3, PrefixReflexive DEF HistoriesGrow
<1>5. Chained(EmptyRun(p)) /\ EmptyRun(p).history = <<>>
    BY EmptyChain DEF EmptyRun
<1>6. RowsFit'
    <2> SUFFICES ASSUME NEW r \in DOMAIN runs'
                 PROVE  /\ Chained(runs'[r])
                        /\ runs'[r].history # <<>> =>
                              [session |-> runs'[r].session, log |-> runs'[r].history] \in signed'
        BY DEF RowsFit, WasSigned, Chained
    <2>1. CASE r \in DOMAIN runs
        BY <1>2, <2>1 DEF HistoryInv, RowsFit, WasSigned
    <2>2. CASE runs'[r] = EmptyRun(p)
        BY <1>5, <2>2
    <2> QED  BY <1>2, <2>1, <2>2
<1> QED  BY <1>2, <1>4, <1>6 DEF RowsStep, Same

LEMMA RowsNamed ==
    ASSUME HistoryInv, NEW p \in Procs, Mine(p, procs[p].run),
           runs[procs[p].run].history = <<>>,
           NEW session, runs' = [runs EXCEPT ![procs[p].run].session = session],
           UNCHANGED signed
    PROVE  RowsStep(p) /\ RowsFit'
<1> DEFINE r == procs[p].run
<1>1. runs \in Seq(Row) /\ r \in DOMAIN runs
    BY DEF HistoryInv, FenceInv, Typed, Mine, Owned
<1>2. runs[r] \in Row
    BY <1>1, RowsHaveEpochs
<1>3. /\ runs'[r].session = session /\ runs'[r].history = <<>>
      /\ runs'[r].claims = runs[r].claims
    BY <1>1, <1>2 DEF Row
<1>4. /\ DOMAIN runs' = DOMAIN runs
      /\ \A other \in DOMAIN runs \ {r} : runs'[other] = runs[other]
    BY <1>1
<1> HIDE DEF r
<1>5. \A other \in DOMAIN runs : runs[other].history \in Seq(Bodies)
    BY <1>1, RowHistories
<1>6. HistoriesGrow
    <2> SUFFICES ASSUME NEW other \in DOMAIN runs
                 PROVE  /\ IsPrefix(runs[other].history, runs'[other].history)
                        /\ runs[other].history # <<>> =>
                              runs'[other].session = runs[other].session
        BY <1>4 DEF HistoriesGrow
    <2>1. runs'[other].history = runs[other].history
        BY <1>3, <1>4 DEF r
    <2>2. other # r \/ runs[other].history = <<>>
        BY DEF r
    <2> QED  BY <1>4, <1>5, <2>1, <2>2, PrefixReflexive
<1>7. RowsFit'
    <2> SUFFICES ASSUME NEW other \in DOMAIN runs
                 PROVE  /\ Chained(runs'[other])
                        /\ runs'[other].history # <<>> =>
                              [session |-> runs'[other].session,
                               log |-> runs'[other].history] \in signed
        BY <1>4, SMTT(60) DEF RowsFit, WasSigned, Chained
    <2>1. CASE other = r
        <3>1. Len(runs[r].claims) = 0
            BY <1>1, <1>2, NoHistoryNoClaim DEF HistoryInv, RowsFit, r
        <3>2. Chained(runs'[r])
            BY <1>3, <3>1, EmptyChain
        <3> QED  BY <1>3, <2>1, <3>2
    <2>2. CASE other # r
        BY <1>4, <2>2 DEF HistoryInv, RowsFit, WasSigned
    <2> QED  BY <2>1, <2>2
<1>8. \A other \in DOMAIN runs : Same(other) \/ Mine(p, other)
    BY <1>4 DEF Same, r
<1> QED  BY <1>6, <1>7, <1>8 DEF RowsStep

\* The transaction of CommitBatch.
LEMMA RowsGrown ==
    ASSUME HistoryInv, NEW p \in Procs, procs[p].stage = "committing", Owned(p),
           NEW r, r = procs[p].run,
           runs'[r].session = runs[r].session, runs'[r].history = procs[p].cand,
           runs'[r].claims = Append(runs[r].claims, ClaimOf(p)),
           DOMAIN runs' = DOMAIN runs,
           \A other \in DOMAIN runs \ {r} : runs'[other] = runs[other],
           UNCHANGED signed
    PROVE  /\ RowsStep(p) /\ RowsFit'
           /\ runs[r].session = procs[p].session /\ runs[r].history = procs[p].live
           /\ procs[p].session # NoSession
<1> DEFINE cand == procs[p].cand
<1>1. /\ runs \in Seq(Row) /\ r \in DOMAIN runs /\ procs[p] \in Memory
      /\ procs[p].epoch = runs[r].epoch
    BY DEF HistoryInv, FenceInv, Typed, Owned
<1>2. runs[r] \in Row
    BY <1>1, RowsHaveEpochs
<1>3. MemoryFits(procs[p])
    BY DEF HistoryInv
<1>4. procs[p].stage \in Holding /\ ~procs[p].paused
    BY <1>3 DEF MemoryFits, StateFits, Holding, Stages
<1>5. runs[r].session = procs[p].session /\ runs[r].history = procs[p].live
    BY <1>1, <1>3, <1>4 DEF MemoryFits, RowFits, InStep
<1>6. /\ procs[p].session = procs[p].resp.session /\ cand = procs[p].resp.head
      /\ IsPrefix(procs[p].live, cand) /\ Len(procs[p].live) < Len(cand)
    BY <1>3 DEF MemoryFits, BatchFits
<1>7. /\ procs[p].resp.session \in Sessions
      /\ WasSigned(procs[p].resp.session, procs[p].resp.head)
    BY <1>3 DEF MemoryFits, AnswerFits, Answering
<1>8. procs[p].root = Root(procs[p].session, procs[p].live)
    BY <1>3 DEF MemoryFits, StateFits
<1>9. cand \in Histories /\ procs[p].live \in Histories
    BY <1>1 DEF Memory
<1>10. runs'[r].history = cand
    OBVIOUS
<1> HIDE DEF cand
<1>11. procs[p].session # NoSession
    BY <1>6, <1>7, SessionsBounded DEF Sessions, NoSession
<1>12. \A other \in DOMAIN runs : runs[other].history \in Seq(Bodies)
    BY <1>1, RowHistories
<1>13. HistoriesGrow
    <2> SUFFICES ASSUME NEW other \in DOMAIN runs
                 PROVE  /\ IsPrefix(runs[other].history, runs'[other].history)
                        /\ runs[other].history # <<>> =>
                              runs'[other].session = runs[other].session
        BY DEF HistoriesGrow
    <2>1. CASE other = r
        BY <1>10, <1>5, <1>6, <2>1
    <2>2. CASE other # r
        BY <1>12, <2>2, PrefixReflexive
    <2> QED  BY <2>1, <2>2
<1>14. Chained(runs'[r])
    <2>1. Chained(runs[r])
        BY <1>1 DEF HistoryInv, RowsFit
    <2>2. ClaimOf(p) \in SomeClaim
        BY <1>1, ClaimTyped
    <2>3. /\ ClaimOf(p).from = Len(runs[r].history) + 1 /\ ClaimOf(p).to = Len(cand)
          /\ ClaimOf(p).before = Root(runs[r].session, runs[r].history)
          /\ ClaimOf(p).after = Root(runs[r].session, cand)
        BY <1>5, <1>8 DEF ClaimOf, cand
    <2>4. Len(runs[r].history) < Len(cand)
        BY <1>5, <1>6
    <2> QED  BY <1>2, <1>10, <1>9, <2>1, <2>2, <2>3, <2>4, ChainGrows
<1>15. RowsFit'
    <2>1. ASSUME NEW other \in DOMAIN runs
          PROVE  /\ Chained(runs'[other])
                 /\ runs'[other].history # <<>> =>
                       [session |-> runs'[other].session,
                        log |-> runs'[other].history] \in signed'
        <3>1. CASE other = r
            BY <1>10, <1>5, <1>6, <1>7, <1>14, <3>1 DEF WasSigned
        <3>2. CASE other # r
            BY <3>2 DEF HistoryInv, RowsFit, WasSigned
        <3> QED  BY <3>1, <3>2
    <2> QED  BY <2>1 DEF RowsFit, WasSigned, Chained
<1>16. \A other \in DOMAIN runs : Same(other) \/ Mine(p, other)
    BY <1>4 DEF Same, Mine
<1>17. RowsStep(p)
    BY <1>13, <1>16 DEF RowsStep
<1> QED  BY <1>5, <1>11, <1>15, <1>17

-----------------------------------------------------------------------------
(* What becomes of the memory of the process that takes the step. *)

\* What serves a state goes on serving it.
LEMMA StateStaysFit ==
    ASSUME HistoryInv, NEW p \in Procs, RowsStep(p), runs' \in Seq(Row), NEW memory \in Memory,
           memory.session = procs[p].session, memory.live = procs[p].live,
           memory.root = procs[p].root,
           memory.paused => memory.stage = "polling",
           memory.stage \in Early => procs[p].stage \in Early
    PROVE  /\ memory.root = Root(memory.session, memory.live)
           /\ memory.paused => memory.stage = "polling"
           /\ memory.stage \in Early => memory.session = NoSession /\ memory.live = <<>>
           /\ memory.live # <<>> => Held(runs', memory.session, memory.live)
<1>1. StateFits(procs[p]) /\ runs \in Seq(Row) /\ HistoriesGrow /\ memory.live \in Histories
    BY DEF HistoryInv, MemoryFits, FenceInv, Typed, RowsStep, Memory
<1>2. memory.live # <<>> => Held(runs', memory.session, memory.live)
    BY <1>1, HeldStays DEF StateFits
<1> QED  BY <1>1, <1>2 DEF StateFits

\* A memory out of which nothing is asked of the rows.
LEMMA BlankFits ==
    ASSUME NEW memory, memory.stage \in Early, ~memory.paused,
           memory.session = NoSession, memory.live = <<>>,
           memory.root = Root(NoSession, <<>>),
           NEW p \in Procs, procs'[p] = memory
    PROVE  MemoryFits(procs[p])'
<1>1. StateFits(procs[p])'
    BY DEF StateFits
<1>2. BatchFits(procs[p])' /\ AnswerFits(procs[p])' /\ PublishFits(procs[p])'
    BY DEF BatchFits, AnswerFits, PublishFits, Early, Answering
<1>3. RowFits(procs[p])'
    BY DEF RowFits, InStep, Early
<1> QED  BY <1>1, <1>2, <1>3 DEF MemoryFits

LEMMA GoneFits ==
    ASSUME HistoryInv, NEW p \in Procs, Move(p, Gone)
    PROVE  MemoryFits(procs[p])'
<1>1. procs'[p] = Gone
    BY DEF Move, HistoryInv, FenceInv, Typed
<1>2. /\ Gone.stage = "gone" /\ ~Gone.paused /\ Gone.session = NoSession
      /\ Gone.live = <<>> /\ Gone.root = Root(NoSession, <<>>)
    BY DEF Gone, Unstarted
<1> QED  BY <1>1, <1>2, BlankFits DEF Early

\* A paused process serves what it served, and asks nothing of its row.
LEMMA PausedFits ==
    ASSUME HistoryInv, NEW p \in Procs, RowsStep(p), runs' \in Seq(Row), NEW memory \in Memory,
           memory.session = procs[p].session, memory.live = procs[p].live,
           memory.root = procs[p].root, procs'[p] = Pausing(memory)
    PROVE  MemoryFits(procs[p])'
<1> DEFINE after == Pausing(memory)
<1>1. /\ after \in Memory /\ after.stage = "polling"
    BY PausingKeeps
<1>2. /\ after.session = memory.session /\ after.live = memory.live
      /\ after.root = memory.root /\ after.paused
    BY DEF Pausing, Memory
<1> HIDE DEF after
<1>3. procs'[p] = after
    BY DEF after
<1>4. StateFits(procs[p])'
    BY <1>1, <1>2, <1>3, StateStaysFit DEF StateFits, Early
<1>5. BatchFits(procs[p])' /\ AnswerFits(procs[p])' /\ PublishFits(procs[p])' /\ RowFits(procs[p])'
    BY <1>1, <1>2, <1>3 DEF BatchFits, AnswerFits, PublishFits, RowFits, Answering
<1> QED  BY <1>4, <1>5 DEF MemoryFits

-----------------------------------------------------------------------------
(* Starting. *)

Fitted(p) == RowsStep(p) /\ RowsFit' /\ MemoryFits(procs[p])'

LEMMA Basics ==
    ASSUME HistoryInv, NEW p \in Procs
    PROVE  /\ FenceInv /\ procs \in [Procs -> Memory] /\ procs[p] \in Memory
           /\ runs \in Seq(Row) /\ MemoryFits(procs[p])
           /\ procs[p].paused => procs[p].stage = "polling"
BY DEF HistoryInv, FenceInv, Typed, MemoryFits, StateFits

\* Nothing is written.
LEMMA NothingWrittenFits ==
    ASSUME HistoryInv, NEW p \in Procs, UNCHANGED <<runs, signed>>
    PROVE  RowsStep(p) /\ RowsFit' /\ runs' \in Seq(Row)
BY Basics, RowsUntouched DEF Same

\* Columns are written that the histories do not see.
LEMMA ColumnWrittenFits ==
    ASSUME HistoryInv, NEW p \in Procs, NEW r \in DOMAIN runs, NEW row \in Row,
           row.session = runs[r].session, row.history = runs[r].history,
           row.claims = runs[r].claims,
           runs' = [runs EXCEPT ![r] = row], UNCHANGED signed
    PROVE  RowsStep(p) /\ RowsFit' /\ runs' \in Seq(Row) /\ \A other \in DOMAIN runs : Same(other)
<1>1. runs \in Seq(Row)
    BY Basics
<1>2. /\ runs' \in Seq(Row) /\ DOMAIN runs' = DOMAIN runs
      /\ \A other \in DOMAIN runs : runs'[other] = IF other = r THEN row ELSE runs[other]
    BY <1>1
<1>3. \A other \in DOMAIN runs : Same(other)
    BY <1>2 DEF Same
<1> QED  BY <1>2, <1>3, RowsUntouched

LEMMA FreshWrittenFits ==
    ASSUME HistoryInv, NEW p \in Procs, NEW r \in DOMAIN runs, NEW fresh \in BOOLEAN,
           runs' = [runs EXCEPT ![r].fresh = fresh], UNCHANGED signed
    PROVE  RowsStep(p) /\ RowsFit' /\ runs' \in Seq(Row) /\ \A other \in DOMAIN runs : Same(other)
<1> DEFINE row == [runs[r] EXCEPT !.fresh = fresh]
<1>1. runs \in Seq(Row) /\ runs[r] \in Row
    BY Basics, RowsHaveEpochs
<1>2. /\ row \in Row /\ row.session = runs[r].session /\ row.history = runs[r].history
      /\ row.claims = runs[r].claims
    BY <1>1 DEF Row
<1>3. runs' = [runs EXCEPT ![r] = row]
    BY <1>1
<1> HIDE DEF row
<1> QED  BY <1>2, <1>3, ColumnWrittenFits

LEMMA StatusWrittenFits ==
    ASSUME HistoryInv, NEW p \in Procs, NEW r \in DOMAIN runs,
           NEW status \in {"open", "stopped", "feed_restarted", "reset"},
           runs' = [runs EXCEPT ![r].status = status], UNCHANGED signed
    PROVE  RowsStep(p) /\ RowsFit' /\ runs' \in Seq(Row) /\ \A other \in DOMAIN runs : Same(other)
<1> DEFINE row == [runs[r] EXCEPT !.status = status]
<1>1. runs \in Seq(Row) /\ runs[r] \in Row
    BY Basics, RowsHaveEpochs
<1>2. /\ row \in Row /\ row.session = runs[r].session /\ row.history = runs[r].history
      /\ row.claims = runs[r].claims
    BY <1>1 DEF Row
<1>3. runs' = [runs EXCEPT ![r] = row]
    BY <1>1
<1> HIDE DEF row
<1> QED  BY <1>2, <1>3, ColumnWrittenFits

\* A process that has read nothing yet.
LEMMA EarlyFits ==
    ASSUME HistoryInv, NEW p \in Procs, procs[p].stage \in Early,
           NEW memory, memory.stage \in Early,
           memory.session = procs[p].session, memory.live = procs[p].live,
           memory.root = procs[p].root, memory.paused = procs[p].paused,
           procs'[p] = memory
    PROVE  MemoryFits(procs[p])'
<1>1. /\ procs[p].session = NoSession /\ procs[p].live = <<>>
      /\ procs[p].root = Root(NoSession, <<>>) /\ ~procs[p].paused
    BY Basics DEF MemoryFits, StateFits, Early
<1> QED  BY <1>1, BlankFits

LEMMA LeavesFits ==
    ASSUME HistoryInv, NEW p \in Procs, UNCHANGED <<runs, signed>>, Move(p, Gone)
    PROVE  Fitted(p)
BY NothingWrittenFits, GoneFits DEF Fitted

LEMMA ReadFits ==
    ASSUME HistoryInv, NEW p \in Procs, NEW reset \in BOOLEAN, ReadNewestRun(p, reset)
    PROVE  Fitted(p)
<1>1. UNCHANGED <<runs, signed>> /\ procs[p].stage = "down" /\ procs[p] \in Memory
      /\ procs \in [Procs -> Memory]
    BY Basics DEF ReadNewestRun
<1>2. CASE Move(p, Gone)
    BY <1>1, <1>2, LeavesFits
<1>3. ASSUME NEW memory,
             \/ memory = To(p, "creating")
             \/ \E r \in DOMAIN runs :
                    memory = [To(p, "taking") EXCEPT !.run = r, !.epoch = runs[r].epoch,
                                                     !.reset = reset, !.seenValid = TRUE],
             Move(p, memory)
      PROVE  Fitted(p)
    <2>1. /\ memory.stage \in Early /\ memory.session = procs[p].session
          /\ memory.live = procs[p].live /\ memory.root = procs[p].root
          /\ memory.paused = procs[p].paused
        BY <1>1, <1>3 DEF To, Memory, Early
    <2>2. procs'[p] = memory
        BY <1>1, <1>3 DEF Move
    <2>3. MemoryFits(procs[p])'
        BY <1>1, <2>1, <2>2, EarlyFits DEF Early
    <2> QED  BY <1>1, <2>3, NothingWrittenFits DEF Fitted
<1>4. \/ Move(p, Gone)
      \/ \E memory :
            /\ \/ memory = To(p, "creating")
               \/ \E r \in DOMAIN runs :
                    memory = [To(p, "taking") EXCEPT !.run = r, !.epoch = runs[r].epoch,
                                                     !.reset = reset, !.seenValid = TRUE]
            /\ Move(p, memory)
    <2> DEFINE open == {r \in DOMAIN runs : Resumable(r)}
    <2>1. open \subseteq DOMAIN runs
        OBVIOUS
    <2> HIDE DEF open
    <2> QED  BY <2>1 DEF ReadNewestRun, open
<1> QED  BY <1>2, <1>3, <1>4

LEMMA TakeFits ==
    ASSUME HistoryInv, NEW p \in Procs, TakeRun(p)
    PROVE  Fitted(p)
<1> DEFINE r == procs[p].run
           won == disk /\ procs[p].seenValid /\ Resumable(r) /\ runs[r].epoch = procs[p].epoch
           row == [runs[r] EXCEPT !.status = "open", !.owner = p,
                                  !.epoch = NextEpoch(@), !.fresh = TRUE]
           memory == [procs[p] EXCEPT
                        !.epoch = NextEpoch(@),
                        !.stage = IF procs[p].reset THEN "resetting" ELSE "loading"]
<1>1. /\ procs[p] \in Memory /\ procs[p].stage = "taking" /\ UNCHANGED signed
      /\ r \in DOMAIN runs /\ runs \in Seq(Row) /\ runs[r] \in Row
    BY Basics, RowsHaveEpochs DEF TakeRun, FenceInv, Known
<1>2. CASE ~won
    BY <1>1, <1>2, LeavesFits DEF TakeRun
<1>3. CASE won
    <2>1. runs' = [runs EXCEPT ![r] = row] /\ MoveAndBeat(p, r, memory)
        BY <1>1, <1>3 DEF TakeRun
    <2>2. row \in Row
        BY <1>1, RowTaken DEF NextEpoch
    <2>3. /\ row.session = runs[r].session /\ row.history = runs[r].history
          /\ row.claims = runs[r].claims
        BY <1>1 DEF Row
    <2>4. memory.stage \in Early
        BY <1>1, MemoryTaken DEF Memory, Early
    <2>5. /\ memory.session = procs[p].session /\ memory.live = procs[p].live
          /\ memory.root = procs[p].root /\ memory.paused = procs[p].paused
        BY <1>1 DEF Memory
    <2> HIDE DEF row, memory
    <2>6. RowsStep(p) /\ RowsFit'
        BY <1>1, <2>1, <2>2, <2>3, ColumnWrittenFits
    <2>7. procs'[p] = memory
        BY <2>1 DEF MoveAndBeat
    <2>8. MemoryFits(procs[p])'
        BY <1>1, <2>4, <2>5, <2>7, EarlyFits DEF Early
    <2> QED  BY <2>6, <2>8 DEF Fitted
<1> QED  BY <1>2, <1>3

LEMMA ResetFits ==
    ASSUME HistoryInv, NEW p \in Procs, ResetRun(p)
    PROVE  Fitted(p)
<1>1. /\ procs[p] \in Memory /\ procs \in [Procs -> Memory] /\ procs[p].stage = "resetting"
      /\ UNCHANGED signed
    BY Basics DEF ResetRun
<1>2. CASE ~(disk /\ Owned(p))
    BY <1>1, <1>2, LeavesFits DEF ResetRun
<1>3. CASE disk /\ Owned(p)
    <2>1. /\ runs' = [runs EXCEPT ![procs[p].run].status = "reset"]
          /\ Move(p, To(p, "creating")) /\ procs[p].run \in DOMAIN runs
        BY <1>3 DEF ResetRun, Owned
    <2>2. RowsStep(p) /\ RowsFit'
        BY <1>1, <2>1, StatusWrittenFits
    <2>3. /\ To(p, "creating").stage \in Early
          /\ To(p, "creating").session = procs[p].session
          /\ To(p, "creating").live = procs[p].live /\ To(p, "creating").root = procs[p].root
          /\ To(p, "creating").paused = procs[p].paused
        BY <1>1 DEF To, Memory, Early
    <2>4. procs'[p] = To(p, "creating")
        BY <1>1, <2>1 DEF Move
    <2>5. MemoryFits(procs[p])'
        BY <1>1, <2>3, <2>4, EarlyFits DEF Early
    <2> QED  BY <2>2, <2>5 DEF Fitted
<1> QED  BY <1>2, <1>3

LEMMA LoadFits ==
    ASSUME HistoryInv, NEW p \in Procs, LoadRun(p)
    PROVE  Fitted(p)
<1> DEFINE run == runs[procs[p].run]
           stage == IF run.history = <<>> THEN "genesis" ELSE "polling"
           memory == [procs[p] EXCEPT !.stage = stage, !.session = run.session,
                                      !.live = run.history,
                                      !.root = Root(run.session, run.history)]
<1>1. /\ procs[p] \in Memory /\ procs \in [Procs -> Memory] /\ procs[p].stage = "loading"
      /\ UNCHANGED <<runs, signed>> /\ FenceInv /\ runs \in Seq(Row)
    BY Basics DEF LoadRun
<1>2. CASE ~LastClaimCovers(run)
    BY <1>1, <1>2, LeavesFits DEF LoadRun
<1>3. CASE LastClaimCovers(run)
    <2>1. procs[p].run \in DOMAIN runs
        BY <1>1 DEF FenceInv, Known, Holding, Stages
    <2>2. run.history \in Seq(Bodies)
        BY <1>1, <2>1, RowHistories
    <2>3. procs'[p] = memory
        BY <1>1, <1>3 DEF LoadRun, Move
    <2>4. stage \in {"genesis", "polling"}
        OBVIOUS
    <2>5. /\ memory.stage = stage /\ memory.session = run.session /\ memory.live = run.history
          /\ memory.root = Root(run.session, run.history)
          /\ memory.run = procs[p].run /\ memory.epoch = procs[p].epoch
          /\ memory.paused = procs[p].paused
        BY <1>1 DEF Memory
    <2>6. ~memory.paused
        BY <1>1, <2>5, Basics
    <2> HIDE DEF stage, memory
    <2>7. StateFits(procs[p])'
        <3>1. Held(runs, run.session, run.history)
            BY <2>1, <2>2, PrefixReflexive DEF Held
        <3>2. Held(runs', memory.session, memory.live)
            BY <1>1, <2>5, <3>1
        <3> QED  BY <2>3, <2>4, <2>5, <2>6, <3>2 DEF StateFits, Early
    <2>8. BatchFits(procs[p])' /\ AnswerFits(procs[p])' /\ PublishFits(procs[p])'
        BY <2>3, <2>4, <2>5 DEF BatchFits, AnswerFits, PublishFits, Answering
    <2>9. RowFits(procs[p])'
        BY <1>1, <2>3, <2>4, <2>5 DEF RowFits
    <2> QED  BY <1>1, <2>7, <2>8, <2>9, NothingWrittenFits DEF Fitted, MemoryFits
<1> QED  BY <1>2, <1>3

LEMMA CreateFits ==
    ASSUME HistoryInv, NEW p \in Procs, CreateRun(p)
    PROVE  Fitted(p)
<1> DEFINE memory == [To(p, "genesis") EXCEPT !.run = Len(runs) + 1, !.epoch = 1]
<1>1. /\ procs[p] \in Memory /\ procs \in [Procs -> Memory] /\ procs[p].stage = "creating"
      /\ UNCHANGED signed /\ runs \in Seq(Row)
    BY Basics DEF CreateRun
<1>2. CASE ~disk
    BY <1>1, <1>2, LeavesFits DEF CreateRun
<1>3. CASE disk
    <2>1. runs' = Append(runs, EmptyRun(p)) /\ procs'[p] = memory
        BY <1>1, <1>3 DEF CreateRun, Move
    <2>2. /\ memory.stage = "genesis" /\ memory.session = procs[p].session
          /\ memory.live = procs[p].live /\ memory.root = procs[p].root
          /\ memory.run = Len(runs) + 1 /\ memory.paused = procs[p].paused
        BY <1>1 DEF To, Memory
    <2>3. /\ procs[p].session = NoSession /\ procs[p].live = <<>>
          /\ procs[p].root = Root(NoSession, <<>>) /\ ~procs[p].paused
        BY <1>1, Basics DEF MemoryFits, StateFits, Early
    <2>4. runs'[Len(runs) + 1] = EmptyRun(p)
        BY <1>1, <2>1
    <2>5. EmptyRun(p).session = NoSession /\ EmptyRun(p).history = <<>>
        BY DEF EmptyRun
    <2> HIDE DEF memory
    <2>6. StateFits(procs[p])'
        BY <2>1, <2>2, <2>3 DEF StateFits
    <2>7. BatchFits(procs[p])' /\ AnswerFits(procs[p])' /\ PublishFits(procs[p])'
        BY <2>1, <2>2 DEF BatchFits, AnswerFits, PublishFits, Answering
    <2>8. RowFits(procs[p])'
        <3>1. /\ runs'[procs'[p].run].session = procs'[p].session
              /\ runs'[procs'[p].run].history = procs'[p].live
            BY <2>1, <2>2, <2>3, <2>4, <2>5
        <3> QED  BY <2>1, <2>2, <3>1 DEF RowFits
    <2> QED  BY <1>1, <2>1, <2>6, <2>7, <2>8, RowsOpened DEF Fitted, MemoryFits
<1> QED  BY <1>2, <1>3

-----------------------------------------------------------------------------
(* A process that keeps its run. *)

\* Its row says what it said before.
LEMMA RowSaysTheSame ==
    ASSUME HistoryInv, NEW p \in Procs, RowsOnlyRise, runs' \in Seq(Row),
           procs[p].stage \in Holding,
           procs[p].run \in DOMAIN runs', procs[p].epoch = runs'[procs[p].run].epoch,
           ~procs[p].paused,
           \A r \in DOMAIN runs : Same(r)
    PROVE  /\ procs[p].stage \in InStep =>
                /\ runs'[procs[p].run].session = procs[p].session
                /\ runs'[procs[p].run].history = procs[p].live
           /\ procs[p].stage = "publishing" =>
                /\ runs'[procs[p].run].session = procs[p].session
                /\ runs'[procs[p].run].history = procs[p].cand
           /\ procs[p].stage = "renewing" =>
                /\ runs'[procs[p].run].session = procs[p].resp.session
                /\ runs'[procs[p].run].history = <<>>
<1>1. procs[p].run \in DOMAIN runs /\ procs[p].epoch = runs[procs[p].run].epoch
    BY Basics, EpochStands
<1>2. RowFits(procs[p])
    BY Basics DEF MemoryFits
<1> QED  BY <1>1, <1>2 DEF RowFits, Same

\* It goes on in step with its row, or towards the end of the run.
LEMMA KeepingFits ==
    ASSUME HistoryInv, NEW p \in Procs, RowsStep(p), RowsOnlyRise, runs' \in Seq(Row),
           \A r \in DOMAIN runs : Same(r),
           procs[p].stage \in Holding, NEW memory \in Memory, procs'[p] = memory,
           memory.run = procs[p].run, memory.epoch = procs[p].epoch,
           memory.session = procs[p].session, memory.live = procs[p].live,
           memory.root = procs[p].root,
           ~memory.paused, ~procs[p].paused,
           memory.stage \in InStep => procs[p].stage \in InStep,
           memory.stage \in InStep \cup {"replacing", "succeeding"},
           AnswerFits(memory), BatchFits(memory), UNCHANGED signed
    PROVE  MemoryFits(procs[p])'
<1>1. StateFits(procs[p])'
    BY StateStaysFit DEF StateFits, InStep, Early
<1>2. BatchFits(procs[p])' /\ AnswerFits(procs[p])' /\ PublishFits(procs[p])'
    BY DEF BatchFits, AnswerFits, PublishFits, WasSigned, InStep
<1>3. RowFits(procs[p])'
    BY RowSaysTheSame DEF RowFits, InStep
<1> QED  BY <1>1, <1>2, <1>3 DEF MemoryFits

LEMMA NotPausedElsewhere ==
    ASSUME HistoryInv, NEW p \in Procs, procs[p].stage # "polling" \/ Polling(p)
    PROVE  ~procs[p].paused
BY Basics DEF Polling

\* The step of a process that writes nothing but the heartbeat.
LEMMA HeartbeatFits ==
    ASSUME HistoryInv, NEW p \in Procs, Moved(p), procs[p].stage \in Holding,
           UNCHANGED signed,
           UNCHANGED runs \/ runs' = [runs EXCEPT ![procs[p].run].fresh = TRUE]
    PROVE  /\ RowsStep(p) /\ RowsFit' /\ RowsOnlyRise /\ runs' \in Seq(Row)
           /\ \A r \in DOMAIN runs : Same(r)
<1>1. RowsOnlyRise /\ runs' \in Seq(Row)
    BY DEF Moved, FenceStep
<1>2. CASE UNCHANGED runs
    BY <1>1, <1>2, NothingWrittenFits DEF Same
<1>3. CASE runs' = [runs EXCEPT ![procs[p].run].fresh = TRUE]
    <2>1. procs[p].run \in DOMAIN runs
        BY Basics DEF FenceInv, Known
    <2> QED  BY <1>1, <1>3, <2>1, FreshWrittenFits
<1> QED  BY <1>2, <1>3

LEMMA GenesisStepFits ==
    ASSUME HistoryInv, NEW p \in Procs, WriteGenesis(p)
    PROVE  Fitted(p)
<1>1. /\ procs[p] \in Memory /\ procs \in [Procs -> Memory] /\ procs[p].stage = "genesis"
      /\ UNCHANGED signed /\ Moved(p)
    BY Basics, GenesisFenced DEF WriteGenesis
<1>2. CASE ~(disk /\ Owned(p))
    BY <1>1, <1>2, LeavesFits DEF WriteGenesis
<1>3. CASE disk /\ Owned(p)
    <2> DEFINE memory == To(p, "polling")
    <2>1. /\ runs' = [runs EXCEPT ![procs[p].run].fresh = TRUE]
          /\ procs'[p] = memory
        BY <1>3 DEF WriteGenesis, MoveAndBeat
    <2>2. /\ RowsStep(p) /\ RowsFit' /\ RowsOnlyRise /\ runs' \in Seq(Row)
          /\ \A r \in DOMAIN runs : Same(r)
        BY <1>1, <2>1, HeartbeatFits DEF Holding, Stages
    <2>3. /\ memory \in Memory /\ memory.stage = "polling"
          /\ memory.run = procs[p].run /\ memory.epoch = procs[p].epoch
          /\ memory.session = procs[p].session /\ memory.live = procs[p].live
          /\ memory.root = procs[p].root /\ memory.paused = procs[p].paused
        BY <1>1, ToStage, ZenonT(40) DEF To, Memory, Stages
    <2>4. ~procs[p].paused
        BY <1>1, NotPausedElsewhere
    <2> HIDE DEF memory
    <2>5. AnswerFits(memory) /\ BatchFits(memory)
        BY <2>3 DEF AnswerFits, BatchFits, Answering
    <2>6. MemoryFits(procs[p])'
        BY <1>1, <2>1, <2>2, <2>3, <2>4, <2>5, KeepingFits DEF InStep, Holding, Stages
    <2> QED  BY <2>2, <2>6 DEF Fitted
<1> QED  BY <1>2, <1>3

\* Whatever the feed answers, its head was signed.
LEMMA AnswersAreSigned ==
    ASSUME HistoryInv, NEW n \in Nat, NEW k \in Nat, k = 0 \/ n + k <= Len(feed.log),
           NEW answer,
           \/ answer = HonestResponse(n, k)
           \/ k # 0 /\ answer \in BrokenResponses(HonestResponse(n, k))
    PROVE  /\ answer.session \in Sessions
           /\ [session |-> answer.session, log |-> answer.head] \in signed
<1>1. /\ feed \in Feed /\ feed.session \in Sessions
      /\ feed.log \in Seq(Bodies) /\ Len(feed.log) \in Nat
    BY BoundedHistories DEF HistoryInv, FenceInv, Typed, Feed
<1> DEFINE last == IF k = 0 THEN Len(feed.log) ELSE n + k
           honest == HonestResponse(n, k)
<1>2. last \in 0..Len(feed.log) /\ (k # 0 => last \in 1..Len(feed.log) /\ last - 1 \in 0..Len(feed.log))
    BY <1>1
<1>3. \A m \in 0..Len(feed.log) :
        [session |-> feed.session, log |-> SubSeq(feed.log, 1, m)] \in signed
    BY DEF HistoryInv, FeedFits, WasSigned
<1>4. honest.session = feed.session /\ honest.head = SubSeq(feed.log, 1, last)
    BY DEF HonestResponse
<1>5. honest \in SomeResponse
    BY <1>1, HonestAnswers
<1> HIDE DEF last, honest
<1>6. CASE answer = honest
    BY <1>1, <1>2, <1>3, <1>4, <1>6
<1>7. ASSUME k # 0, answer \in BrokenResponses(honest)
      PROVE  /\ answer.session = feed.session
             /\ answer.head = honest.head \/ answer.head = Front(honest.head)
    BY <1>4, <1>5, <1>7 DEF BrokenResponses, SomeResponse
<1>8. CASE k # 0 /\ answer \in BrokenResponses(honest)
    <2>1. Front(honest.head) = SubSeq(feed.log, 1, last - 1)
        BY <1>1, <1>2, <1>4, <1>8, FrontOfPrefix
    <2> QED  BY <1>1, <1>2, <1>3, <1>4, <1>7, <1>8, <2>1
<1> QED  BY <1>6, <1>8 DEF honest

LEMMA FetchingFits ==
    ASSUME HistoryInv, NEW p \in Procs, FetchBatch(p) \/ FetchNothing(p)
    PROVE  Fitted(p)
<1> DEFINE n == Len(procs[p].live)
<1>1. /\ procs[p] \in Memory /\ procs \in [Procs -> Memory] /\ procs[p].stage = "polling"
      /\ UNCHANGED <<runs, signed>> /\ Moved(p) /\ Polling(p) /\ feed \in Feed
    BY Basics, FetchFenced DEF FetchBatch, FetchNothing, Polling, FenceInv, Typed
<1>2. n \in Nat /\ Len(feed.log) \in Nat
    BY <1>1, BoundedHistories DEF Memory, Feed
<1>3. \E answer \in SomeResponse :
        /\ answer.session \in Sessions
        /\ [session |-> answer.session, log |-> answer.head] \in signed
        /\ Move(p, [To(p, "answered") EXCEPT !.resp = answer])
    <2>1. CASE FetchBatch(p)
        <3>1. PICK k \in 1..(Len(feed.log) - n) :
                \E answer \in {HonestResponse(n, k)} \cup BrokenResponses(HonestResponse(n, k)) :
                    Move(p, [To(p, "answered") EXCEPT !.resp = answer])
            BY <2>1 DEF FetchBatch
        <3>2. PICK answer \in {HonestResponse(n, k)} \cup BrokenResponses(HonestResponse(n, k)) :
                Move(p, [To(p, "answered") EXCEPT !.resp = answer])
            BY <3>1
        <3> HIDE DEF n
        <3>3. k \in Nat /\ k # 0 /\ n + k <= Len(feed.log)
            BY <1>2
        <3>4. /\ HonestResponse(n, k) \in SomeResponse
              /\ HonestResponse(n, k).head # <<>> /\ HonestResponse(n, k).bodies # <<>>
            BY <1>1, <1>2, <3>3, HonestAnswers
        <3>5. answer \in SomeResponse
            BY <1>1, <3>2, <3>4, BrokenAnswers
        <3>6. /\ answer.session \in Sessions
              /\ [session |-> answer.session, log |-> answer.head] \in signed
            BY <1>2, <3>2, <3>3, AnswersAreSigned
        <3> QED  BY <3>2, <3>5, <3>6
    <2>2. CASE FetchNothing(p)
        <3>1. HonestResponse(n, 0) \in SomeResponse
            BY <1>1, <1>2, HonestAnswers
        <3>2. Move(p, [To(p, "answered") EXCEPT !.resp = HonestResponse(n, 0)])
            BY <2>2 DEF FetchNothing
        <3> HIDE DEF n
        <3>3. /\ HonestResponse(n, 0).session \in Sessions
              /\ [session |-> HonestResponse(n, 0).session,
                  log |-> HonestResponse(n, 0).head] \in signed
            BY <1>2, AnswersAreSigned
        <3> QED  BY <3>1, <3>2, <3>3
    <2> QED  BY <2>1, <2>2
<1>4. PICK answer \in SomeResponse :
        /\ answer.session \in Sessions
        /\ [session |-> answer.session, log |-> answer.head] \in signed
        /\ Move(p, [To(p, "answered") EXCEPT !.resp = answer])
    BY <1>3
<1> DEFINE memory == [To(p, "answered") EXCEPT !.resp = answer]
<1>5. /\ To(p, "answered") \in Memory /\ To(p, "answered").stage = "answered"
      /\ To(p, "answered").run = procs[p].run /\ To(p, "answered").epoch = procs[p].epoch
      /\ To(p, "answered").session = procs[p].session
      /\ To(p, "answered").live = procs[p].live /\ To(p, "answered").root = procs[p].root
      /\ To(p, "answered").paused = procs[p].paused
    BY <1>1, ToStage, ZenonT(40) DEF To, Memory, Stages
<1>6. /\ memory \in Memory /\ memory.stage = "answered" /\ memory.resp = answer
      /\ memory.run = procs[p].run /\ memory.epoch = procs[p].epoch
      /\ memory.session = procs[p].session /\ memory.live = procs[p].live
      /\ memory.root = procs[p].root /\ memory.paused = procs[p].paused
    BY <1>5 DEF Memory
<1>7. procs'[p] = memory
    BY <1>1, <1>4 DEF Move
<1> HIDE DEF memory
<1>8. AnswerFits(memory) /\ BatchFits(memory)
    BY <1>4, <1>6 DEF AnswerFits, BatchFits, WasSigned
<1>9. ~procs[p].paused
    BY <1>1, NotPausedElsewhere
<1>10. /\ RowsStep(p) /\ RowsFit' /\ RowsOnlyRise /\ runs' \in Seq(Row)
       /\ \A r \in DOMAIN runs : Same(r)
    BY <1>1, HeartbeatFits DEF Holding, Stages
<1>11. MemoryFits(procs[p])'
    BY <1>1, <1>6, <1>7, <1>8, <1>9, <1>10, KeepingFits DEF InStep, Holding, Stages
<1> QED  BY <1>10, <1>11 DEF Fitted

-----------------------------------------------------------------------------
(* The rest of a poll. *)

LEMMA PausesFits ==
    ASSUME HistoryInv, NEW p \in Procs, UNCHANGED <<runs, signed>>, NEW memory \in Memory,
           memory.session = procs[p].session, memory.live = procs[p].live,
           memory.root = procs[p].root, Move(p, Pausing(memory))
    PROVE  Fitted(p)
<1>1. procs'[p] = Pausing(memory)
    BY Basics DEF Move
<1>2. RowsStep(p) /\ RowsFit' /\ runs' \in Seq(Row)
    BY NothingWrittenFits
<1>3. MemoryFits(procs[p])'
    BY <1>1, <1>2, PausedFits
<1> QED  BY <1>2, <1>3 DEF Fitted

LEMMA EndPollFits ==
    ASSUME HistoryInv, NEW p \in Procs, Moved(p), procs[p].stage \in InStep, ~procs[p].paused,
           UNCHANGED signed, NEW memory \in Memory, memory.stage = "polling",
           memory.run = procs[p].run, memory.epoch = procs[p].epoch,
           memory.session = procs[p].session, memory.live = procs[p].live,
           memory.root = procs[p].root, ~memory.paused, EndPoll(p, memory)
    PROVE  Fitted(p)
<1>1. CASE UNCHANGED runs /\ Move(p, Pausing(memory))
    BY <1>1, PausesFits
<1>2. CASE \/ UNCHANGED runs /\ Move(p, memory)
           \/ /\ runs' = [runs EXCEPT ![procs[p].run].fresh = TRUE]
              /\ MoveAndBeat(p, procs[p].run, memory)
    <2>1. procs'[p] = memory
        BY <1>2, Basics DEF Move, MoveAndBeat
    <2>2. procs[p].stage \in Holding
        BY DEF InStep, Holding, Stages
    <2>3. /\ RowsStep(p) /\ RowsFit' /\ RowsOnlyRise /\ runs' \in Seq(Row)
          /\ \A r \in DOMAIN runs : Same(r)
        BY <1>2, <2>2, HeartbeatFits
    <2>4. AnswerFits(memory) /\ BatchFits(memory)
        BY DEF AnswerFits, BatchFits, Answering
    <2>5. MemoryFits(procs[p])'
        BY <2>1, <2>2, <2>3, <2>4, KeepingFits DEF InStep
    <2> QED  BY <2>3, <2>5 DEF Fitted
<1> QED  BY <1>1, <1>2 DEF EndPoll

LEMMA IdleFits ==
    ASSUME HistoryInv, NEW p \in Procs,
           PollInVain(p) \/ CheckIdleChain(p) \/ RefuseBatch(p)
    PROVE  Fitted(p)
<1>1. /\ procs[p] \in Memory /\ procs \in [Procs -> Memory] /\ UNCHANGED signed
      /\ procs[p].stage \in InStep /\ Moved(p)
    BY Basics, IdleFenced DEF PollInVain, CheckIdleChain, RefuseBatch, HasBatch, Answered,
       Polling, InStep
<1>2. ~procs[p].paused
    BY NotPausedElsewhere DEF PollInVain, CheckIdleChain, RefuseBatch, HasBatch, Answered
<1>3. PICK resp \in SomeResponse : resp = NoResponse
    BY Beginnings
<1> DEFINE quiet  == To(p, "polling")
           forgot == [To(p, "polling") EXCEPT !.resp = resp]
<1>4. /\ quiet \in Memory /\ quiet.stage = "polling"
      /\ quiet.run = procs[p].run /\ quiet.epoch = procs[p].epoch
      /\ quiet.session = procs[p].session /\ quiet.live = procs[p].live
      /\ quiet.root = procs[p].root /\ quiet.paused = procs[p].paused
    BY <1>1, ToStage, ZenonT(40) DEF To, Memory, Stages
<1>5. /\ forgot \in Memory /\ forgot.stage = "polling"
      /\ forgot.run = procs[p].run /\ forgot.epoch = procs[p].epoch
      /\ forgot.session = procs[p].session /\ forgot.live = procs[p].live
      /\ forgot.root = procs[p].root /\ forgot.paused = procs[p].paused
    BY <1>4 DEF Memory
<1>6. EndPoll(p, quiet) \/ EndPoll(p, forgot)
    BY <1>3 DEF PollInVain, CheckIdleChain, RefuseBatch
<1> HIDE DEF quiet, forgot
<1> QED  BY <1>1, <1>2, <1>4, <1>5, <1>6, EndPollFits

LEMMA ReplacingFits ==
    ASSUME HistoryInv, NEW p \in Procs, MeetNewSession(p) \/ ProbeFeed(p)
    PROVE  Fitted(p)
<1> DEFINE memory == To(p, "replacing")
<1>1. /\ procs[p] \in Memory /\ procs \in [Procs -> Memory] /\ UNCHANGED <<runs, signed>>
      /\ procs[p].stage = "answered" /\ Moved(p) /\ Move(p, memory) /\ MemoryFits(procs[p])
    BY Basics, ReplaceFenced DEF MeetNewSession, ProbeFeed, Answered
<1>2. ~procs[p].paused
    BY <1>1, NotPausedElsewhere
<1>3. /\ memory \in Memory /\ memory.stage = "replacing" /\ memory.resp = procs[p].resp
      /\ memory.run = procs[p].run /\ memory.epoch = procs[p].epoch
      /\ memory.session = procs[p].session /\ memory.live = procs[p].live
      /\ memory.root = procs[p].root /\ memory.paused = procs[p].paused
    BY <1>1, ToStage, ZenonT(40) DEF To, Memory, Stages
<1>4. procs'[p] = memory
    BY <1>1 DEF Move
<1> HIDE DEF memory
<1>5. AnswerFits(memory) /\ BatchFits(memory)
    BY <1>1, <1>3 DEF MemoryFits, AnswerFits, BatchFits, Answering
<1>6. /\ RowsStep(p) /\ RowsFit' /\ RowsOnlyRise /\ runs' \in Seq(Row)
      /\ \A r \in DOMAIN runs : Same(r)
    BY <1>1, HeartbeatFits DEF Holding, Stages
<1>7. MemoryFits(procs[p])'
    BY <1>1, <1>2, <1>3, <1>4, <1>5, <1>6, KeepingFits DEF InStep, Holding, Stages
<1> QED  BY <1>6, <1>7 DEF Fitted

LEMMA BuildFits ==
    ASSUME HistoryInv, NEW p \in Procs, BuildCandidate(p)
    PROVE  Fitted(p)
<1> DEFINE batch == procs[p].live \o procs[p].resp.bodies
           memory == [To(p, "committing") EXCEPT !.cand = batch]
<1>1. /\ procs[p] \in Memory /\ procs \in [Procs -> Memory] /\ UNCHANGED <<runs, signed>>
      /\ procs[p].stage = "answered" /\ Moved(p) /\ Move(p, memory) /\ MemoryFits(procs[p])
    BY Basics, BuildFenced DEF BuildCandidate, HasBatch, Answered
<1>2. /\ procs[p].session = procs[p].resp.session /\ batch = procs[p].resp.head
      /\ procs[p].resp.bodies # <<>>
    BY DEF BuildCandidate, HasBatch, BatchStands, SameSession
<1>3. /\ batch \in Histories /\ procs[p].live \in Seq(Bodies)
      /\ procs[p].resp.bodies \in Seq(Bodies)
    BY <1>1, <1>2, ResponseTyped, BoundedHistories
<1>4. IsPrefix(procs[p].live, batch) /\ Len(procs[p].live) < Len(batch)
    BY <1>2, <1>3, PrefixOfConcat
<1>5. ~procs[p].paused
    BY <1>1, NotPausedElsewhere
<1>6. /\ To(p, "committing") \in Memory /\ To(p, "committing").stage = "committing"
      /\ To(p, "committing").resp = procs[p].resp
      /\ To(p, "committing").run = procs[p].run /\ To(p, "committing").epoch = procs[p].epoch
      /\ To(p, "committing").session = procs[p].session
      /\ To(p, "committing").live = procs[p].live /\ To(p, "committing").root = procs[p].root
      /\ To(p, "committing").paused = procs[p].paused
    BY <1>1, ToStage, ZenonT(40) DEF To, Memory, Stages
<1> HIDE DEF batch
<1>7. /\ memory \in Memory /\ memory.stage = "committing" /\ memory.resp = procs[p].resp
      /\ memory.run = procs[p].run /\ memory.epoch = procs[p].epoch
      /\ memory.session = procs[p].session /\ memory.live = procs[p].live
      /\ memory.root = procs[p].root /\ memory.paused = procs[p].paused
      /\ memory.cand = batch
    BY <1>3, <1>6 DEF Memory
<1>8. procs'[p] = memory
    BY <1>1 DEF Move
<1> HIDE DEF memory
<1>9. AnswerFits(memory) /\ BatchFits(memory)
    BY <1>1, <1>2, <1>4, <1>7 DEF MemoryFits, AnswerFits, BatchFits, Answering
<1>10. /\ RowsStep(p) /\ RowsFit' /\ RowsOnlyRise /\ runs' \in Seq(Row)
       /\ \A r \in DOMAIN runs : Same(r)
    BY <1>1, HeartbeatFits DEF Holding, Stages
<1>11. MemoryFits(procs[p])'
    BY <1>1, <1>5, <1>7, <1>8, <1>9, <1>10, KeepingFits DEF InStep, Holding, Stages
<1> QED  BY <1>10, <1>11 DEF Fitted

LEMMA NamedRow ==
    ASSUME runs \in Seq(Row), NEW r \in DOMAIN runs, NEW session,
           runs' = [runs EXCEPT ![r] = [runs[r] EXCEPT !.session = session]]
    PROVE  /\ runs' = [runs EXCEPT ![r].session = session]
           /\ runs'[r].session = session /\ runs'[r].history = runs[r].history
<1>1. runs[r] \in Row
    BY RowsHaveEpochs
<1> QED  BY <1>1 DEF Row

LEMMA AdoptFits ==
    ASSUME HistoryInv, NEW p \in Procs, AdoptSession(p)
    PROVE  Fitted(p)
<1> DEFINE r == procs[p].run
           s == procs[p].resp.session
           memory == [procs[p] EXCEPT !.session = s, !.root = Root(s, <<>>)]
<1>1. /\ procs[p] \in Memory /\ procs \in [Procs -> Memory] /\ UNCHANGED signed
      /\ procs[p].stage = "answered" /\ MemoryFits(procs[p]) /\ runs \in Seq(Row)
      /\ procs[p].live = <<>>
    BY Basics DEF AdoptSession, Answered
<1>2. ~procs[p].paused
    BY <1>1, NotPausedElsewhere
<1>3. CASE ~(disk /\ Owned(p))
    <2>1. UNCHANGED runs /\ Move(p, Pausing(procs[p]))
        BY <1>3 DEF AdoptSession, WriteOrPause
    <2> QED  BY <1>1, <2>1, PausesFits
<1>4. CASE disk /\ Owned(p)
    <2>1. /\ runs' = [runs EXCEPT ![r] = [runs[r] EXCEPT !.session = s]]
          /\ Move(p, memory)
        BY <1>4 DEF AdoptSession, WriteOrPause
    <2>2. r \in DOMAIN runs /\ procs[p].epoch = runs[r].epoch
        BY <1>4 DEF Owned
    <2>3. runs[r].history = <<>>
        BY <1>1, <1>2, <2>2 DEF MemoryFits, RowFits, InStep, Holding, Stages
    <2>4. Mine(p, r)
        BY <1>1, <1>4 DEF Mine, Holding, Stages
    <2>5. /\ runs' = [runs EXCEPT ![r].session = s]
          /\ runs'[r].session = s /\ runs'[r].history = <<>>
        BY <1>1, <2>1, <2>2, <2>3, NamedRow
    <2>6. RowsStep(p) /\ RowsFit'
        BY <1>1, <2>3, <2>4, <2>5, RowsNamed
    <2>7. procs'[p] = memory
        BY <1>1, <2>1 DEF Move
    <2>8. /\ memory.stage = "answered" /\ memory.session = s /\ memory.live = <<>>
          /\ memory.root = Root(s, <<>>) /\ memory.run = r /\ ~memory.paused
          /\ memory.resp = procs[p].resp
        BY <1>1, <1>2 DEF Memory
    <2>9. runs'[procs'[p].run].session = s /\ runs'[procs'[p].run].history = <<>>
        BY <2>5, <2>7, <2>8
    <2>10. MemoryFits(procs[p])'
        <3> HIDE DEF memory, s, r
        <3>1. StateFits(procs[p])' /\ BatchFits(procs[p])' /\ PublishFits(procs[p])'
            BY <2>7, <2>8 DEF StateFits, BatchFits, PublishFits, Early
        <3>2. AnswerFits(procs[p])'
            BY <1>1, <2>7, <2>8 DEF MemoryFits, AnswerFits, WasSigned, Answering
        <3>3. RowFits(procs[p])'
            BY <2>7, <2>8, <2>9 DEF RowFits
        <3> QED  BY <3>1, <3>2, <3>3 DEF MemoryFits
    <2> QED  BY <2>6, <2>10 DEF Fitted
<1> QED  BY <1>3, <1>4

LEMMA CommitFits ==
    ASSUME HistoryInv, NEW p \in Procs, CommitBatch(p)
    PROVE  Fitted(p)
<1> DEFINE r == procs[p].run
           stands == disk /\ Owned(p) /\ Len(procs[p].cand) >= Len(runs[r].history)
           memory == To(p, "publishing")
<1>1. /\ procs[p] \in Memory /\ procs \in [Procs -> Memory] /\ UNCHANGED signed
      /\ procs[p].stage = "committing" /\ MemoryFits(procs[p]) /\ runs \in Seq(Row)
      /\ Moved(p)
    BY Basics, CommitFenced DEF CommitBatch
<1>2. ~procs[p].paused
    BY <1>1, NotPausedElsewhere
<1>3. CASE ~stands
    <2>1. UNCHANGED runs /\ Move(p, Pausing(procs[p]))
        BY <1>3 DEF CommitBatch
    <2> QED  BY <1>1, <2>1, PausesFits
<1>4. CASE stands
    <2>1. /\ runs' = [runs EXCEPT ![r].history = procs[p].cand,
                                  ![r].claims  = Append(@, ClaimOf(p)),
                                  ![r].fresh   = TRUE]
          /\ MoveAndBeat(p, r, memory)
        BY <1>4 DEF CommitBatch
    <2>2. r \in DOMAIN runs /\ runs[r] \in Row
        BY <1>1, <1>4, RowsHaveEpochs DEF Owned
    <2>3. /\ runs'[r].session = runs[r].session /\ runs'[r].history = procs[p].cand
          /\ runs'[r].claims = Append(runs[r].claims, ClaimOf(p))
          /\ DOMAIN runs' = DOMAIN runs
          /\ \A other \in DOMAIN runs \ {r} : runs'[other] = runs[other]
        BY <1>1, <2>1, <2>2 DEF Row
    <2>4. procs'[p] = memory
        BY <1>1, <2>1 DEF MoveAndBeat
    <2>5. Owned(p) /\ runs' \in Seq(Row)
        BY <1>1, <1>4 DEF Moved
    <2>6. /\ memory.stage = "publishing" /\ memory.session = procs[p].session
          /\ memory.live = procs[p].live /\ memory.root = procs[p].root
          /\ memory.run = r /\ memory.paused = procs[p].paused
          /\ memory.resp = procs[p].resp /\ memory.cand = procs[p].cand
          /\ memory \in Memory
        BY <1>1, ToStage, ZenonT(40) DEF To, Memory, Stages
    <2> QED
        <3> HIDE DEF memory, r
        <3>1. r = procs[p].run
            BY DEF r
        <3>2. /\ RowsStep(p) /\ RowsFit' /\ runs[r].session = procs[p].session
            BY <1>1, <2>3, <2>5, <3>1, RowsGrown
        <3>3. StateFits(procs[p])'
            BY <1>2, <2>4, <2>5, <2>6, <3>2, StateStaysFit DEF StateFits, Early
        <3>4. BatchFits(procs[p])' /\ AnswerFits(procs[p])'
            BY <1>1, <2>4, <2>6 DEF MemoryFits, BatchFits, AnswerFits, WasSigned, Answering
        <3>5. procs[p].cand \in Seq(Bodies) /\ procs[p].cand # <<>>
            <4>1. /\ procs[p].cand \in Seq(Bodies) /\ Len(procs[p].live) \in Nat
                  /\ Len(procs[p].live) < Len(procs[p].cand)
                BY <1>1, ResponseTyped, BoundedHistories DEF MemoryFits, BatchFits
            <4> QED  BY <4>1
        <3>6. Held(runs', procs[p].session, procs[p].cand)
            <4>1. IsPrefix(procs[p].cand, runs'[r].history)
                BY <2>3, <3>5, PrefixReflexive
            <4> QED  BY <2>2, <2>3, <3>2, <4>1 DEF Held
        <3>7. PublishFits(procs[p])'
            BY <2>4, <2>6, <3>5, <3>6 DEF PublishFits
        <3>8. RowFits(procs[p])'
            BY <2>3, <2>4, <2>6, <3>2 DEF RowFits, InStep
        <3> QED  BY <3>2, <3>3, <3>4, <3>7, <3>8 DEF Fitted, MemoryFits
<1> QED  BY <1>3, <1>4

LEMMA PublishingFits ==
    ASSUME HistoryInv, NEW p \in Procs, PublishCandidate(p)
    PROVE  Fitted(p)
<1>1. /\ procs[p] \in Memory /\ procs \in [Procs -> Memory] /\ UNCHANGED <<runs, signed>>
      /\ procs[p].stage = "publishing" /\ MemoryFits(procs[p]) /\ Moved(p)
      /\ FenceInv
    BY Basics, PublishFenced DEF PublishCandidate
<1>2. ~procs[p].paused
    BY <1>1, NotPausedElsewhere
<1> DEFINE memory == [To(p, "polling") EXCEPT !.live = procs[p].cand,
                                              !.root = Root(procs[p].session, procs[p].cand),
                                              !.cand = <<>>, !.resp = NoResponse]
<1>3. procs'[p] = memory
    BY <1>1 DEF PublishCandidate, Move
<1>4. /\ memory.stage = "polling" /\ memory.session = procs[p].session
      /\ memory.live = procs[p].cand /\ memory.run = procs[p].run
      /\ memory.root = Root(procs[p].session, procs[p].cand)
      /\ memory.epoch = procs[p].epoch /\ ~memory.paused
    BY <1>1, <1>2 DEF To, Memory
<1> HIDE DEF memory
<1>5. Held(runs', procs[p].session, procs[p].cand)
    BY <1>1 DEF MemoryFits, PublishFits
<1>6. StateFits(procs[p])' /\ BatchFits(procs[p])' /\ AnswerFits(procs[p])' /\ PublishFits(procs[p])'
    BY <1>3, <1>4, <1>5 DEF StateFits, BatchFits, AnswerFits, PublishFits, Early, Answering
<1>7. RowFits(procs[p])'
    <2>1. procs[p].epoch = runs[procs[p].run].epoch /\ procs[p].run \in DOMAIN runs =>
            /\ runs[procs[p].run].session = procs[p].session
            /\ runs[procs[p].run].history = procs[p].cand
        BY <1>1, <1>2 DEF MemoryFits, RowFits, Holding, Stages
    <2> QED  BY <1>1, <1>3, <1>4, <2>1 DEF RowFits
<1> QED  BY <1>1, <1>6, <1>7, NothingWrittenFits DEF Fitted, MemoryFits

-----------------------------------------------------------------------------
(* start_new_run, and the end of a process. *)

LEMMA CloseFits ==
    ASSUME HistoryInv, NEW p \in Procs, CloseReplacedRun(p)
    PROVE  Fitted(p)
<1> DEFINE memory == To(p, "succeeding")
<1>1. /\ procs[p] \in Memory /\ procs \in [Procs -> Memory] /\ UNCHANGED signed
      /\ procs[p].stage = "replacing" /\ MemoryFits(procs[p]) /\ Moved(p)
    BY Basics, SuccessionFenced DEF CloseReplacedRun
<1>2. ~procs[p].paused
    BY <1>1, NotPausedElsewhere
<1>3. CASE ~(disk /\ Owned(p))
    <2>1. UNCHANGED runs /\ Move(p, Pausing(procs[p]))
        BY <1>3 DEF CloseReplacedRun
    <2> QED  BY <1>1, <2>1, PausesFits
<1>4. CASE disk /\ Owned(p)
    <2>1. /\ runs' = [runs EXCEPT ![procs[p].run].status = "feed_restarted"]
          /\ Move(p, memory) /\ procs[p].run \in DOMAIN runs
        BY <1>4 DEF CloseReplacedRun, Owned
    <2>2. /\ RowsStep(p) /\ RowsFit' /\ runs' \in Seq(Row) /\ \A r \in DOMAIN runs : Same(r)
        BY <1>1, <2>1, StatusWrittenFits
    <2>3. /\ memory \in Memory /\ memory.stage = "succeeding" /\ memory.resp = procs[p].resp
          /\ memory.run = procs[p].run /\ memory.epoch = procs[p].epoch
          /\ memory.session = procs[p].session /\ memory.live = procs[p].live
          /\ memory.root = procs[p].root /\ memory.paused = procs[p].paused
        BY <1>1, ToStage, ZenonT(40) DEF To, Memory, Stages
    <2>4. procs'[p] = memory /\ RowsOnlyRise
        BY <1>1, <2>1 DEF Move, Moved, FenceStep
    <2> HIDE DEF memory
    <2>5. AnswerFits(memory) /\ BatchFits(memory)
        BY <1>1, <2>3 DEF MemoryFits, AnswerFits, BatchFits, Answering
    <2>6. MemoryFits(procs[p])'
        BY <1>1, <1>2, <2>2, <2>3, <2>4, <2>5, KeepingFits DEF InStep, Holding, Stages
    <2> QED  BY <2>2, <2>6 DEF Fitted
<1> QED  BY <1>3, <1>4

LEMMA SucceedFits ==
    ASSUME HistoryInv, NEW p \in Procs, SucceedRun(p)
    PROVE  Fitted(p)
<1> DEFINE memory == [To(p, "naming") EXCEPT !.run = Len(runs) + 1, !.epoch = 1]
<1>1. /\ procs[p] \in Memory /\ procs \in [Procs -> Memory] /\ UNCHANGED signed
      /\ procs[p].stage = "succeeding" /\ MemoryFits(procs[p]) /\ Moved(p)
      /\ runs \in Seq(Row) /\ runs' \in Seq(Row) /\ procs'[p] \in Memory
    BY Basics, SuccessionFenced DEF SucceedRun, Moved
<1>2. ~procs[p].paused
    BY <1>1, NotPausedElsewhere
<1>3. CASE ~disk
    <2>1. UNCHANGED runs /\ Move(p, Pausing(procs[p]))
        BY <1>3 DEF SucceedRun
    <2> QED  BY <1>1, <2>1, PausesFits
<1>4. CASE disk
    <2>1. runs' = Append(runs, EmptyRun(p)) /\ procs'[p] = memory
        BY <1>1, <1>4 DEF SucceedRun, Move
    <2>2. /\ memory.stage = "naming" /\ memory.session = procs[p].session
          /\ memory.live = procs[p].live /\ memory.root = procs[p].root
          /\ memory.run = Len(runs) + 1 /\ memory.paused = procs[p].paused
          /\ memory.resp = procs[p].resp
        BY <1>1 DEF To, Memory
    <2>3. /\ runs'[Len(runs) + 1].session = NoSession
          /\ runs'[Len(runs) + 1].history = <<>>
        BY <1>1, <2>1 DEF EmptyRun
    <2>4. RowsStep(p) /\ RowsFit'
        BY <1>1, <2>1, RowsOpened
    <2> HIDE DEF memory
    <2>5. StateFits(procs[p])'
        BY <1>1, <1>2, <2>1, <2>2, <2>4, StateStaysFit DEF StateFits, Early
    <2>6. BatchFits(procs[p])' /\ AnswerFits(procs[p])' /\ PublishFits(procs[p])'
        BY <1>1, <2>1, <2>2 DEF MemoryFits, BatchFits, AnswerFits, PublishFits, WasSigned, Answering
    <2>7. RowFits(procs[p])'
        BY <2>1, <2>2, <2>3 DEF RowFits, InStep
    <2> QED  BY <2>4, <2>5, <2>6, <2>7 DEF Fitted, MemoryFits
<1> QED  BY <1>3, <1>4

LEMMA NameFits ==
    ASSUME HistoryInv, NEW p \in Procs, NameSuccessor(p)
    PROVE  Fitted(p)
<1> DEFINE r == procs[p].run
           s == procs[p].resp.session
           memory == To(p, "renewing")
<1>1. /\ procs[p] \in Memory /\ procs \in [Procs -> Memory] /\ UNCHANGED signed
      /\ procs[p].stage = "naming" /\ MemoryFits(procs[p]) /\ Moved(p)
      /\ runs \in Seq(Row) /\ runs' \in Seq(Row)
    BY Basics, NameFenced DEF NameSuccessor, Moved
<1>2. ~procs[p].paused
    BY <1>1, NotPausedElsewhere
<1>3. CASE ~(disk /\ Owned(p))
    <2>1. UNCHANGED runs /\ Move(p, Pausing(procs[p]))
        BY <1>3 DEF NameSuccessor, WriteOrPause
    <2> QED  BY <1>1, <2>1, PausesFits
<1>4. CASE disk /\ Owned(p)
    <2>1. /\ runs' = [runs EXCEPT ![r] = [runs[r] EXCEPT !.session = s]]
          /\ Move(p, memory)
        BY <1>4 DEF NameSuccessor, WriteOrPause
    <2>2. r \in DOMAIN runs /\ procs[p].epoch = runs[r].epoch
        BY <1>4 DEF Owned
    <2>3. runs[r].history = <<>>
        BY <1>1, <1>2, <2>2 DEF MemoryFits, RowFits, Holding, Stages
    <2>4. Mine(p, r)
        BY <1>1, <1>4 DEF Mine, Holding, Stages
    <2>5. /\ runs' = [runs EXCEPT ![r].session = s]
          /\ runs'[r].session = s /\ runs'[r].history = <<>>
        BY <1>1, <2>1, <2>2, <2>3, NamedRow
    <2>6. RowsStep(p) /\ RowsFit'
        BY <1>1, <2>3, <2>4, <2>5, RowsNamed
    <2>7. procs'[p] = memory
        BY <1>1, <2>1 DEF Move
    <2>8. /\ memory \in Memory /\ memory.stage = "renewing" /\ memory.resp = procs[p].resp
          /\ memory.run = r /\ memory.epoch = procs[p].epoch
          /\ memory.session = procs[p].session /\ memory.live = procs[p].live
          /\ memory.root = procs[p].root /\ memory.paused = procs[p].paused
        BY <1>1, ToStage, ZenonT(40) DEF To, Memory, Stages
    <2>9. /\ runs'[procs'[p].run].session = procs'[p].resp.session
          /\ runs'[procs'[p].run].history = <<>>
        BY <2>5, <2>7, <2>8
    <2>10. MemoryFits(procs[p])'
        <3> HIDE DEF memory, s, r
        <3>1. StateFits(procs[p])'
            BY <1>1, <1>2, <2>6, <2>7, <2>8, StateStaysFit DEF StateFits, Early
        <3>2. BatchFits(procs[p])' /\ AnswerFits(procs[p])' /\ PublishFits(procs[p])'
            BY <1>1, <2>7, <2>8 DEF MemoryFits, BatchFits, AnswerFits, PublishFits, WasSigned,
               Answering
        <3>3. RowFits(procs[p])'
            BY <2>7, <2>8, <2>9 DEF RowFits, InStep
        <3> QED  BY <3>1, <3>2, <3>3 DEF MemoryFits
    <2> QED  BY <2>6, <2>10 DEF Fitted
<1> QED  BY <1>3, <1>4

LEMMA RenewFits ==
    ASSUME HistoryInv, NEW p \in Procs, RenewState(p)
    PROVE  Fitted(p)
<1> DEFINE s == procs[p].resp.session
           memory == [Unstarted EXCEPT !.stage = "polling", !.run = procs[p].run,
                                       !.epoch = procs[p].epoch, !.session = s,
                                       !.root = Root(s, <<>>)]
<1>1. /\ procs[p] \in Memory /\ procs \in [Procs -> Memory] /\ UNCHANGED signed
      /\ procs[p].stage = "renewing" /\ procs[p].stage \in Holding /\ Moved(p)
    BY Basics, RenewFenced DEF RenewState, Holding, Stages
<1>2. ~procs[p].paused
    BY <1>1, NotPausedElsewhere
<1>3. CASE ~(disk /\ Owned(p))
    <2>1. UNCHANGED runs /\ Move(p, Pausing(procs[p]))
        BY <1>3 DEF RenewState, BeatOrPause
    <2> QED  BY <1>1, <2>1, PausesFits
<1>4. CASE disk /\ Owned(p)
    <2>1. /\ runs' = [runs EXCEPT ![procs[p].run].fresh = TRUE]
          /\ procs'[p] = memory
        BY <1>1, <1>4 DEF RenewState, BeatOrPause, MoveAndBeat
    <2>2. /\ RowsStep(p) /\ RowsFit' /\ RowsOnlyRise /\ runs' \in Seq(Row)
          /\ \A r \in DOMAIN runs : Same(r)
        BY <1>1, <2>1, HeartbeatFits
    <2>3. /\ memory.stage = "polling" /\ memory.session = s /\ memory.live = <<>>
          /\ memory.root = Root(s, <<>>) /\ memory.run = procs[p].run
          /\ memory.epoch = procs[p].epoch /\ ~memory.paused
        BY DEF Unstarted
    <2> HIDE DEF memory
    <2>4. StateFits(procs[p])' /\ BatchFits(procs[p])' /\ AnswerFits(procs[p])' /\ PublishFits(procs[p])'
        BY <2>1, <2>3 DEF StateFits, BatchFits, AnswerFits, PublishFits, Early, Answering
    <2>5. RowFits(procs[p])'
        <3>1. ASSUME procs[p].run \in DOMAIN runs', procs[p].epoch = runs'[procs[p].run].epoch
              PROVE  /\ runs'[procs[p].run].session = s
                     /\ runs'[procs[p].run].history = <<>>
            BY <1>1, <1>2, <2>2, <3>1, RowSaysTheSame
        <3> QED  BY <2>1, <2>3, <3>1 DEF RowFits
    <2> QED  BY <2>2, <2>4, <2>5 DEF Fitted, MemoryFits
<1> QED  BY <1>3, <1>4

LEMMA EndFits ==
    ASSUME HistoryInv, NEW p \in Procs, Finish(p) \/ Crash(p)
    PROVE  Fitted(p)
<1>1. CASE UNCHANGED runs
    BY <1>1, LeavesFits DEF Finish, Crash
<1>2. CASE ~UNCHANGED runs
    <2>1. /\ runs' = [runs EXCEPT ![procs[p].run].status = "stopped"]
          /\ Move(p, Gone) /\ procs[p].run \in DOMAIN runs /\ UNCHANGED signed
        BY <1>2 DEF Finish, Crash, Owned
    <2>2. RowsStep(p) /\ RowsFit'
        BY <2>1, StatusWrittenFits
    <2> QED  BY <2>1, <2>2, GoneFits DEF Fitted
<1> QED  BY <1>1, <1>2

LEMMA ProcessFits ==
    ASSUME HistoryInv, NEW p \in Procs, Start(p) \/ Poll(p) \/ Finish(p) \/ Crash(p)
    PROVE  Fitted(p)
<1>1. CASE Start(p)
    BY <1>1, ReadFits, TakeFits, ResetFits, LoadFits, CreateFits, GenesisStepFits DEF Start
<1>2. CASE Poll(p)
    BY <1>2, FetchingFits, IdleFits, AdoptFits, ReplacingFits, BuildFits, CommitFits,
       PublishingFits, CloseFits, SucceedFits, NameFits, RenewFits DEF Poll
<1>3. CASE Finish(p) \/ Crash(p)
    BY <1>3, EndFits
<1> QED  BY <1>1, <1>2, <1>3

-----------------------------------------------------------------------------
(* The environment. *)

LEMMA FeedStepFits ==
    ASSUME HistoryInv,
           (\E body \in Bodies : FeedAppends(body)) \/ FeedReplaced \/ FeedLosesItsEnd
    PROVE  FeedFits' /\ signed \subseteq signed'
<1>1. /\ feed \in Feed /\ feed.log \in Seq(Bodies) /\ Len(feed.log) \in Nat /\ feed.may \in Allowed
    BY BoundedHistories DEF HistoryInv, FenceInv, Typed, Feed
<1>2. \A k \in 0..Len(feed.log) :
        [session |-> feed.session, log |-> SubSeq(feed.log, 1, k)] \in signed
    BY DEF HistoryInv, FeedFits, WasSigned
<1>3. ASSUME NEW body \in Bodies, FeedAppends(body)
      PROVE  FeedFits' /\ signed \subseteq signed'
    <2>1. /\ feed'.session = feed.session /\ feed'.log = Append(feed.log, body)
          /\ signed' = signed \cup {[session |-> feed'.session, log |-> feed'.log]}
        BY <1>1, <1>3 DEF FeedAppends, SignNow, Feed
    <2>2. Len(Append(feed.log, body)) = Len(feed.log) + 1
        BY <1>1
    <2>3. ASSUME NEW k \in 0..(Len(feed.log) + 1)
          PROVE  [session |-> feed.session, log |-> SubSeq(Append(feed.log, body), 1, k)]
                    \in signed'
        <3>1. CASE k \in 0..Len(feed.log)
            BY <1>1, <1>2, <2>1, <3>1, PrefixesOfAppend
        <3>2. CASE k = Len(feed.log) + 1
            BY <1>1, <2>1, <3>2, PrefixesOfAppend
        <3> QED  BY <1>1, <3>1, <3>2
    <2> QED  BY <2>1, <2>2, <2>3 DEF FeedFits, WasSigned
<1>4. CASE FeedReplaced
    <2>1. /\ feed'.log = <<>>
          /\ signed' = signed \cup {[session |-> feed'.session, log |-> feed'.log]}
        BY <1>1, <1>4 DEF FeedReplaced, SignNow, Feed
    <2>2. Len(<<>>) = 0 /\ SubSeq(<<>>, 1, 0) = <<>>
        OBVIOUS
    <2>3. \A k \in 0..Len(feed'.log) : k = 0
        BY <2>1, <2>2
    <2> QED  BY <2>1, <2>2, <2>3 DEF FeedFits, WasSigned
<1>5. CASE FeedLosesItsEnd
    <2>1. /\ feed'.session = feed.session /\ feed'.log = Front(feed.log)
          /\ signed' = signed /\ feed.log # <<>>
        BY <1>1, <1>5 DEF FeedLosesItsEnd, Feed
    <2>2. Len(Front(feed.log)) = Len(feed.log) - 1
        <3>1. Len(feed.log) - 1 \in Nat /\ Len(feed.log) - 1 <= Len(feed.log)
            BY <1>1, <2>1
        <3> QED  BY <1>1, <3>1, SubSeqProperties DEF Front
    <2>3. ASSUME NEW k \in 0..(Len(feed.log) - 1)
          PROVE  [session |-> feed.session, log |-> SubSeq(Front(feed.log), 1, k)] \in signed
        <3>1. k \in 0..Len(feed.log)
            BY <1>1
        <3> QED  BY <1>1, <1>2, <2>1, <3>1, PrefixesOfFront
    <2> QED  BY <2>1, <2>2, <2>3 DEF FeedFits, WasSigned
<1> QED  BY <1>3, <1>4, <1>5

\* No process moves, and no row of theirs changes what the histories see.
LEMMA UndisturbedFit ==
    ASSUME HistoryInv, UNCHANGED procs, runs' \in Seq(Row), RowsOnlyRise,
           DOMAIN runs' = DOMAIN runs, \A r \in DOMAIN runs : Same(r), signed \subseteq signed',
           NEW q \in Procs
    PROVE  RowsFit' /\ MemoryFits(procs[q])'
<1>1. RowsStep(q) /\ RowsFit'
    BY RowsUntouched
<1>2. /\ procs[q] \in Memory /\ MemoryFits(procs[q]) /\ procs'[q] = procs[q]
      /\ runs \in Seq(Row) /\ FenceInv /\ HistoriesGrow
    BY <1>1, Basics DEF RowsStep
<1>3. procs[q].live \in Histories /\ procs[q].cand \in Histories
    BY <1>2, ResponseTyped
<1>4. StateFits(procs[q])'
    <2>1. procs[q].live # <<>> => Held(runs', procs[q].session, procs[q].live)
        BY <1>2, <1>3, HeldStays DEF MemoryFits, StateFits
    <2> QED  BY <1>2, <2>1 DEF MemoryFits, StateFits
<1>5. PublishFits(procs[q])'
    <2>1. procs[q].stage = "publishing" => Held(runs', procs[q].session, procs[q].cand)
        BY <1>2, <1>3, HeldStays DEF MemoryFits, PublishFits
    <2> QED  BY <1>2, <2>1 DEF MemoryFits, PublishFits
<1>6. BatchFits(procs[q])' /\ AnswerFits(procs[q])'
    BY <1>2 DEF MemoryFits, BatchFits, AnswerFits, WasSigned
<1>7. RowFits(procs[q])'
    <2>1. ASSUME procs[q].stage \in Holding, procs[q].run \in DOMAIN runs',
                 procs[q].epoch = runs'[procs[q].run].epoch
          PROVE  /\ procs[q].run \in DOMAIN runs /\ procs[q].epoch = runs[procs[q].run].epoch
                 /\ Same(procs[q].run)
        BY <1>2, <2>1, EpochStands
    <2>2. RowFits(procs[q])
        BY <1>2 DEF MemoryFits
    <2> QED  BY <1>2, <2>1, <2>2 DEF RowFits, Same
<1> QED  BY <1>1, <1>4, <1>5, <1>6, <1>7 DEF MemoryFits

\* The same, when the rows are all there are.
LEMMA RowsStand ==
    ASSUME HistoryInv, runs' \in Seq(Row), DOMAIN runs' = DOMAIN runs,
           \A r \in DOMAIN runs : Same(r), signed \subseteq signed'
    PROVE  RowsFit'
<1>1. ASSUME NEW r \in DOMAIN runs
      PROVE  /\ Chained(runs'[r])
             /\ runs'[r].history # <<>> =>
                    [session |-> runs'[r].session, log |-> runs'[r].history] \in signed'
    <2>1. /\ runs'[r].session = runs[r].session /\ runs'[r].history = runs[r].history
          /\ runs'[r].claims = runs[r].claims
        BY DEF Same
    <2>2. /\ Chained(runs[r])
          /\ runs[r].history # <<>> =>
                 [session |-> runs[r].session, log |-> runs[r].history] \in signed
        BY DEF HistoryInv, RowsFit, WasSigned
    <2>3. Chained(runs'[r])
        BY <2>1, <2>2 DEF Chained
    <2> QED  BY <2>1, <2>2, <2>3
<1> QED  BY <1>1 DEF RowsFit, WasSigned, Chained

LEMMA HistoryInit ==
    ASSUME Init
    PROVE  HistoryInv
<1>1. FenceInv
    BY FenceInit
<1>2. FeedFits
    <2>1. feed.session = 1 /\ feed.log = <<>> /\ signed = {[session |-> 1, log |-> <<>>]}
        BY DEF Init
    <2>2. Len(<<>>) = 0 /\ SubSeq(<<>>, 1, 0) = <<>>
        OBVIOUS
    <2>3. \A k \in 0..Len(feed.log) : k = 0
        BY <2>1, <2>2
    <2> QED  BY <2>1, <2>2, <2>3 DEF FeedFits, WasSigned
<1>3. RowsFit
    <2>1. DOMAIN runs = {}
        BY DEF Init
    <2> QED  BY <2>1 DEF RowsFit
<1>4. ASSUME NEW p \in Procs
      PROVE  MemoryFits(procs[p])
    <2>1. procs[p] = Unstarted
        BY DEF Init
    <2>2. /\ Unstarted.stage = "down" /\ Unstarted.session = NoSession
          /\ Unstarted.live = <<>> /\ Unstarted.root = Root(NoSession, <<>>)
          /\ ~Unstarted.paused
        BY DEF Unstarted
    <2>3. StateFits(procs[p])
        BY <2>1, <2>2 DEF StateFits
    <2>4. BatchFits(procs[p]) /\ AnswerFits(procs[p]) /\ PublishFits(procs[p]) /\ RowFits(procs[p])
        BY <2>1, <2>2 DEF BatchFits, AnswerFits, PublishFits, RowFits, Answering, Holding
    <2> QED  BY <2>3, <2>4 DEF MemoryFits
<1> QED  BY <1>1, <1>2, <1>3, <1>4 DEF HistoryInv

\* A step of the environment: nobody's memory moves.
LEMMA EnvironmentFits ==
    ASSUME HistoryInv, UNCHANGED procs, FenceInv', FeedFits', RowsOnlyRise,
           DOMAIN runs' = DOMAIN runs, \A r \in DOMAIN runs : Same(r), signed \subseteq signed'
    PROVE  HistoryInv'
<1>1. runs' \in Seq(Row)
    BY DEF FenceInv, Typed
<1>2. RowsFit'
    BY <1>1, RowsStand
<1>3. \A q \in Procs : MemoryFits(procs[q])'
    BY <1>1, UndisturbedFit
<1> QED  BY <1>2, <1>3 DEF HistoryInv

LEMMA RowsAsTheyWere ==
    ASSUME HistoryInv, UNCHANGED runs
    PROVE  RowsOnlyRise /\ DOMAIN runs' = DOMAIN runs /\ \A r \in DOMAIN runs : Same(r)
<1>1. \A r \in DOMAIN runs : runs[r].epoch \in Nat
    BY RowsHaveEpochs DEF HistoryInv, FenceInv, Typed
<1> QED  BY <1>1 DEF RowsOnlyRise, Same

LEMMA HistoryNext ==
    ASSUME HistoryInv, [Next]_vars
    PROVE  HistoryInv'
<1>1. FenceInv'
    BY FenceNext DEF HistoryInv
<1>2. ASSUME NEW p \in Procs, Start(p) \/ Poll(p) \/ Finish(p) \/ Crash(p)
      PROVE  HistoryInv'
    <2>1. Moved(p) /\ UNCHANGED <<feed, disk>>
        BY <1>2, StartFenced, PollFenced, EndFenced DEF HistoryInv
    <2>2. RowsStep(p) /\ RowsFit' /\ MemoryFits(procs[p])'
        BY <1>2, ProcessFits DEF Fitted
    <2>3. \A q \in Procs \ {p} : MemoryFits(procs[q])'
        BY <2>1, <2>2, OthersFit
    <2>4. FeedFits'
        BY <2>1, <2>2 DEF HistoryInv, FeedFits, WasSigned, RowsStep
    <2>5. \A q \in Procs : MemoryFits(procs[q])'
        BY <2>2, <2>3
    <2> QED  BY <1>1, <2>2, <2>4, <2>5 DEF HistoryInv
<1>3. CASE Environment
    <2>1. CASE (\E body \in Bodies : FeedAppends(body)) \/ FeedReplaced \/ FeedLosesItsEnd
        <3>1. UNCHANGED <<runs, procs>>
            BY <2>1 DEF FeedAppends, FeedReplaced, FeedLosesItsEnd
        <3> QED  BY <1>1, <2>1, <3>1, FeedStepFits, RowsAsTheyWere, EnvironmentFits
    <2>2. CASE DiskFails \/ DiskRecovers
        <3>1. UNCHANGED <<feed, signed, runs, procs>>
            BY <2>2 DEF DiskFails, DiskRecovers
        <3>2. FeedFits'
            BY <3>1 DEF HistoryInv, FeedFits, WasSigned
        <3> QED  BY <1>1, <3>1, <3>2, RowsAsTheyWere, EnvironmentFits
    <2>3. ASSUME NEW r \in DOMAIN runs, GoStale(r)
          PROVE  HistoryInv'
        <3>1. runs \in Seq(Row) /\ runs[r] \in Row
            BY RowsHaveEpochs DEF HistoryInv, FenceInv, Typed
        <3>2. /\ runs' = [runs EXCEPT ![r].fresh = FALSE] /\ UNCHANGED <<feed, signed, procs>>
            BY <2>3 DEF GoStale
        <3>3. /\ DOMAIN runs' = DOMAIN runs
              /\ \A other \in DOMAIN runs :
                    /\ runs'[other].session = runs[other].session
                    /\ runs'[other].history = runs[other].history
                    /\ runs'[other].claims = runs[other].claims
                    /\ runs'[other].epoch = runs[other].epoch
            BY <3>1, <3>2 DEF Row
        <3>4. \A other \in DOMAIN runs : runs[other].epoch \in Nat
            BY <3>1, RowsHaveEpochs
        <3>5. RowsOnlyRise /\ \A other \in DOMAIN runs : Same(other)
            BY <3>3, <3>4 DEF RowsOnlyRise, Same
        <3>6. FeedFits'
            BY <3>2 DEF HistoryInv, FeedFits, WasSigned
        <3> QED  BY <1>1, <3>2, <3>3, <3>5, <3>6, EnvironmentFits
    <2> QED  BY <1>3, <2>1, <2>2, <2>3 DEF Environment
<1>4. CASE UNCHANGED vars
    <2>1. UNCHANGED <<feed, signed, runs, procs>>
        BY <1>4 DEF vars
    <2>2. FeedFits'
        BY <2>1 DEF HistoryInv, FeedFits, WasSigned
    <2> QED  BY <1>1, <2>1, <2>2, RowsAsTheyWere, EnvironmentFits
<1> QED  BY <1>2, <1>3, <1>4 DEF Next

-----------------------------------------------------------------------------
(* The database as a list of runs. *)

EntryOf(row) == [session |-> row.session, history |-> row.history, final |-> Final(row)]

Logged == [Abstract!Next]_RunLog

LEMMA LogOfRows == RunLog = [r \in DOMAIN runs |-> EntryOf(runs[r])]
BY DEF RunLog, EntryOf

\* An entry whose row has one column written.
LEMMA EntryWritten ==
    ASSUME NEW old, NEW new
    PROVE  /\ new.history = old.history /\ Final(new) = Final(old) =>
                EntryOf(new) = [EntryOf(old) EXCEPT !.session = new.session]
           /\ new.session = old.session /\ Final(new) = Final(old) =>
                EntryOf(new) = [EntryOf(old) EXCEPT !.history = new.history]
           /\ new.session = old.session /\ new.history = old.history =>
                EntryOf(new) = [EntryOf(old) EXCEPT !.final = Final(new)]
BY DEF EntryOf

LEMMA FinalByStatus ==
    ASSUME NEW old, NEW new
    PROVE  /\ new.status = old.status => Final(new) = Final(old)
           /\ new.status \in {"feed_restarted", "reset"} => Final(new) = TRUE
           /\ new.status \in {"open", "stopped"} => Final(new) = FALSE
BY DEF Final

LEMMA LogStutters ==
    ASSUME DOMAIN runs' = DOMAIN runs, \A r \in DOMAIN runs : EntryOf(runs'[r]) = EntryOf(runs[r])
    PROVE  Logged
<1>1. RunLog' = RunLog
    BY DEF RunLog, EntryOf
<1> QED  BY <1>1 DEF Logged

LEMMA LogUntouched ==
    ASSUME UNCHANGED runs
    PROVE  Logged
BY DEF Logged, RunLog

\* One row is written, and no column but its own entry is made of.
LEMMA LogWritten ==
    ASSUME runs \in Seq(Row), NEW r \in DOMAIN runs, NEW row,
           runs' = [runs EXCEPT ![r] = row]
    PROVE  /\ r \in DOMAIN RunLog /\ RunLog[r] = EntryOf(runs[r])
           /\ DOMAIN RunLog' = DOMAIN RunLog /\ RunLog'[r] = EntryOf(row)
           /\ RunLog' = [RunLog EXCEPT ![r] = EntryOf(row)]
<1>1. /\ DOMAIN runs' = DOMAIN runs
      /\ \A other \in DOMAIN runs : runs'[other] = IF other = r THEN row ELSE runs[other]
    OBVIOUS
<1>2. RunLog = [s \in DOMAIN runs |-> EntryOf(runs[s])]
    BY LogOfRows
<1>3. RunLog' = [s \in DOMAIN runs' |-> EntryOf(runs'[s])]
    BY DEF RunLog, EntryOf
<1>4. RunLog' = [RunLog EXCEPT ![r] = EntryOf(row)]
    BY <1>1, <1>2, <1>3
<1> QED  BY <1>1, <1>2, <1>3, <1>4

LEMMA LogKept ==
    ASSUME runs \in Seq(Row), NEW r \in DOMAIN runs, NEW row,
           runs' = [runs EXCEPT ![r] = row], EntryOf(row) = EntryOf(runs[r])
    PROVE  Logged
<1>1. /\ DOMAIN runs' = DOMAIN runs
      /\ \A other \in DOMAIN runs : runs'[other] = IF other = r THEN row ELSE runs[other]
    OBVIOUS
<1>2. \A other \in DOMAIN runs : EntryOf(runs'[other]) = EntryOf(runs[other])
    BY <1>1
<1> QED  BY <1>1, <1>2, LogStutters

LEMMA LogOpened ==
    ASSUME runs \in Seq(Row), NEW p \in Procs, runs' = Append(runs, EmptyRun(p))
    PROVE  Logged
<1> DEFINE n == Len(runs)
<1>1. /\ n \in Nat /\ DOMAIN runs = 1..n /\ DOMAIN runs' = 1..(n + 1)
      /\ \A r \in 1..n : runs'[r] = runs[r]
      /\ runs'[n + 1] = EmptyRun(p)
    OBVIOUS
<1>2. EntryOf(EmptyRun(p)) = Abstract!NewRun
    <2>1. /\ EmptyRun(p).session = NoSession /\ EmptyRun(p).history = <<>>
          /\ EmptyRun(p).status = "open"
        BY DEF EmptyRun
    <2>2. Final(EmptyRun(p)) = FALSE
        BY <2>1, FinalByStatus
    <2> QED  BY <2>1, <2>2 DEF EntryOf, Abstract!NewRun
<1> HIDE DEF n
<1>3. RunLog = [r \in 1..n |-> EntryOf(runs[r])]
    BY <1>1, LogOfRows
<1>4. RunLog' = [r \in 1..(n + 1) |-> EntryOf(runs'[r])]
    BY <1>1 DEF RunLog, EntryOf
<1> DEFINE S == {EntryOf(runs[r]) : r \in 1..n} \cup {Abstract!NewRun}
           grown == Append(RunLog, Abstract!NewRun)
<1>5. RunLog \in Seq(S) /\ Len(RunLog) = n
    BY <1>1, <1>3
<1>6. /\ grown \in Seq(S) /\ Len(grown) = n + 1
      /\ \A r \in 1..n : grown[r] = RunLog[r]
      /\ grown[n + 1] = Abstract!NewRun
    <2>1. Abstract!NewRun \in S
        OBVIOUS
    <2> HIDE DEF S
    <2> QED  BY <1>1, <1>5, <2>1
<1>7. \A r \in 1..(n + 1) : EntryOf(runs'[r]) = grown[r] /\ grown[r] \in S
    <2> HIDE DEF grown
    <2>1. \A r \in 1..n : EntryOf(runs'[r]) = grown[r] /\ grown[r] \in S
        BY <1>1, <1>3, <1>6
    <2>2. \A r \in 1..(n + 1) : r \in 1..n \/ r = n + 1
        BY <1>1
    <2> QED  BY <1>1, <1>2, <1>6, <2>1, <2>2
<1> HIDE DEF S, grown
<1>8. RunLog' \in Seq(S) /\ Len(RunLog') = n + 1 /\ \A r \in 1..(n + 1) : RunLog'[r] = grown[r]
    BY <1>1, <1>4, <1>7
<1>9. RunLog' = grown
    BY <1>1, <1>6, <1>8, SeqEqual
<1> QED  BY <1>9 DEF grown, Logged, Abstract!Next, Abstract!OpenRun

LEMMA LogNamed ==
    ASSUME runs \in Seq(Row), NEW r \in DOMAIN runs, NEW session \in Sessions,
           runs[r].session = NoSession, runs[r].history = <<>>, runs[r].status = "open",
           runs' = [runs EXCEPT ![r] = [runs[r] EXCEPT !.session = session]]
    PROVE  Logged
<1> DEFINE row == [runs[r] EXCEPT !.session = session]
<1>1. runs[r] \in Row
    BY RowsHaveEpochs
<1>2. EntryOf(row) = [EntryOf(runs[r]) EXCEPT !.session = session]
    <2>1. /\ row.session = session /\ row.history = runs[r].history
          /\ row.status = runs[r].status
        BY <1>1 DEF Row
    <2> HIDE DEF row
    <2> QED  BY <2>1, EntryWritten, FinalByStatus, ZenonT(40)
<1>3. /\ EntryOf(runs[r]).session = NoSession /\ EntryOf(runs[r]).history = <<>>
      /\ ~EntryOf(runs[r]).final
    BY DEF EntryOf, Final
<1>4. runs' = [runs EXCEPT ![r] = row]
    OBVIOUS
<1> HIDE DEF row
<1>5. /\ r \in DOMAIN RunLog /\ RunLog[r] = EntryOf(runs[r])
      /\ RunLog' = [RunLog EXCEPT ![r] = EntryOf(row)]
    BY <1>4, LogWritten
<1>6. RunLog' = [RunLog EXCEPT ![r].session = session]
    BY <1>2, <1>5
<1>7. Abstract!NameRun(r, session)
    BY <1>3, <1>5, <1>6 DEF Abstract!NameRun
<1> QED  BY <1>5, <1>7 DEF Logged, Abstract!Next

LEMMA LogClosed ==
    ASSUME runs \in Seq(Row), NEW r \in DOMAIN runs, runs[r].status = "open",
           NEW status \in {"feed_restarted", "reset"},
           runs' = [runs EXCEPT ![r].status = status]
    PROVE  Logged
<1> DEFINE row == [runs[r] EXCEPT !.status = status]
<1>1. runs[r] \in Row
    BY RowsHaveEpochs
<1>2. EntryOf(row) = [EntryOf(runs[r]) EXCEPT !.final = TRUE]
    <2>1. /\ row.session = runs[r].session /\ row.history = runs[r].history
          /\ row.status = status
        BY <1>1 DEF Row
    <2> HIDE DEF row
    <2>2. Final(row) = TRUE
        BY <2>1, FinalByStatus
    <2> QED  BY <2>1, <2>2, EntryWritten
<1>3. ~EntryOf(runs[r]).final
    BY DEF EntryOf, Final
<1>4. runs' = [runs EXCEPT ![r] = row]
    BY <1>1
<1> HIDE DEF row
<1>5. /\ r \in DOMAIN RunLog /\ RunLog[r] = EntryOf(runs[r])
      /\ RunLog' = [RunLog EXCEPT ![r] = EntryOf(row)]
    BY <1>4, LogWritten
<1>6. RunLog' = [RunLog EXCEPT ![r].final = TRUE]
    BY <1>2, <1>5
<1>7. Abstract!CloseRun(r)
    BY <1>3, <1>5, <1>6 DEF Abstract!CloseRun
<1> QED  BY <1>5, <1>7 DEF Logged, Abstract!Next

LEMMA LogExtended ==
    ASSUME runs \in Seq(Row), NEW r \in DOMAIN runs, runs[r].status = "open",
           NEW cand \in Histories, NEW claims, runs[r].session # NoSession,
           IsPrefix(runs[r].history, cand), Len(runs[r].history) < Len(cand),
           runs' = [runs EXCEPT ![r].history = cand, ![r].claims = claims, ![r].fresh = TRUE]
    PROVE  Logged
<1> DEFINE row == [runs[r] EXCEPT !.history = cand, !.claims = claims, !.fresh = TRUE]
<1>1. runs[r] \in Row
    BY RowsHaveEpochs
<1>2. EntryOf(row) = [EntryOf(runs[r]) EXCEPT !.history = cand]
    <2>1. /\ row.session = runs[r].session /\ row.history = cand
          /\ row.status = runs[r].status
        BY <1>1 DEF Row
    <2> HIDE DEF row
    <2> QED  BY <2>1, EntryWritten, FinalByStatus, ZenonT(40)
<1>3. /\ ~EntryOf(runs[r]).final /\ EntryOf(runs[r]).session # NoSession
      /\ EntryOf(runs[r]).history = runs[r].history /\ EntryOf(row).history = cand
    BY <1>2 DEF EntryOf, Final
<1>4. runs' = [runs EXCEPT ![r] = row]
    BY <1>1
<1>5. SubSeq(cand, 1, Len(runs[r].history)) = runs[r].history
    <2>1. cand \in Seq(Bodies) /\ runs[r].history \in Seq(Bodies)
        BY RowHistories, BoundedHistories
    <2>2. SubSeq(cand, 1, Len(runs[r].history)) = SubSeq(runs[r].history, 1, Len(runs[r].history))
        BY DEF IsPrefix
    <2>3. SubSeq(runs[r].history, 1, Len(runs[r].history)) = runs[r].history
        BY <2>1
    <2> QED  BY <2>2, <2>3
<1> HIDE DEF row
<1>6. /\ r \in DOMAIN RunLog /\ RunLog[r] = EntryOf(runs[r])
      /\ DOMAIN RunLog' = DOMAIN RunLog /\ RunLog'[r] = EntryOf(row)
      /\ RunLog' = [RunLog EXCEPT ![r] = EntryOf(row)]
    BY <1>4, LogWritten
<1>7. RunLog' = [RunLog EXCEPT ![r].history = RunLog'[r].history]
    BY <1>2, <1>3, <1>6
<1>8. Len(cand) > Len(runs[r].history)
    BY RowHistories, BoundedHistories
<1>9. Abstract!ExtendRun(r)
    BY <1>3, <1>5, <1>6, <1>7, <1>8 DEF Abstract!ExtendRun
<1> QED  BY <1>6, <1>9 DEF Logged, Abstract!Next

\* The heartbeat is no part of an entry.
LEMMA LogBeaten ==
    ASSUME runs \in Seq(Row), NEW r \in DOMAIN runs, NEW fresh,
           runs' = [runs EXCEPT ![r].fresh = fresh]
    PROVE  Logged
<1> DEFINE row == [runs[r] EXCEPT !.fresh = fresh]
<1>1. runs[r] \in Row
    BY RowsHaveEpochs
<1>2. /\ row.session = runs[r].session /\ row.history = runs[r].history
      /\ row.status = runs[r].status
    BY <1>1 DEF Row
<1>3. runs' = [runs EXCEPT ![r] = row]
    BY <1>1
<1> HIDE DEF row
<1>4. EntryOf(row) = EntryOf(runs[r])
    BY <1>2, FinalByStatus DEF EntryOf
<1> QED  BY <1>3, <1>4, LogKept

\* A run in use, or stopped in good order, is not closed for good.
LEMMA LogTaken ==
    ASSUME HistoryInv, NEW p \in Procs, TakeRun(p)
    PROVE  Logged
<1> DEFINE r == procs[p].run
           won == disk /\ procs[p].seenValid /\ Resumable(r) /\ runs[r].epoch = procs[p].epoch
           row == [runs[r] EXCEPT !.status = "open", !.owner = p,
                                  !.epoch = NextEpoch(@), !.fresh = TRUE]
<1>1. runs \in Seq(Row) /\ r \in DOMAIN runs /\ runs[r] \in Row
    BY Basics, RowsHaveEpochs DEF TakeRun, FenceInv, Known
<1>2. CASE ~won
    BY <1>2, LogUntouched DEF TakeRun
<1>3. CASE won
    <2>1. runs' = [runs EXCEPT ![r] = row]
        BY <1>1, <1>3 DEF TakeRun
    <2>2. /\ row.session = runs[r].session /\ row.history = runs[r].history
          /\ row.status = "open"
        BY <1>1 DEF Row
    <2>3. runs[r].status \in {"open", "stopped"}
        BY <1>3 DEF Resumable
    <2> HIDE DEF row
    <2>4. Final(row) = FALSE /\ Final(runs[r]) = FALSE
        BY <2>2, <2>3, FinalByStatus
    <2>5. EntryOf(row) = EntryOf(runs[r])
        BY <2>2, <2>4 DEF EntryOf
    <2> QED  BY <1>1, <2>1, <2>5, LogKept
<1> QED  BY <1>2, <1>3

\* The row a process writes its session to is an empty one, without a name.
LEMMA LogNaming ==
    ASSUME HistoryInv, NEW p \in Procs, AdoptSession(p) \/ NameSuccessor(p)
    PROVE  Logged
<1> DEFINE r == procs[p].run
           s == procs[p].resp.session
<1>1. /\ procs[p].stage \in {"answered", "naming"} /\ MemoryFits(procs[p])
      /\ runs \in Seq(Row)
    BY Basics DEF AdoptSession, NameSuccessor, Answered
<1>2. ~procs[p].paused
    BY <1>1, NotPausedElsewhere
<1>3. CASE ~(disk /\ Owned(p))
    BY <1>3, LogUntouched DEF AdoptSession, NameSuccessor, WriteOrPause
<1>4. CASE disk /\ Owned(p)
    <2>1. runs' = [runs EXCEPT ![r] = [runs[r] EXCEPT !.session = s]]
        BY <1>4 DEF AdoptSession, NameSuccessor, WriteOrPause
    <2>2. r \in DOMAIN runs /\ procs[p].epoch = runs[r].epoch /\ runs[r].status = "open"
        BY <1>4 DEF Owned
    <2>3. s \in Sessions
        BY <1>1 DEF MemoryFits, AnswerFits, Answering
    <2>4. runs[r].session = NoSession /\ runs[r].history = <<>>
        <3>1. CASE AdoptSession(p)
            BY <1>1, <1>2, <2>2, <3>1
               DEF MemoryFits, RowFits, InStep, Holding, Stages, AdoptSession, Answered
        <3>2. CASE NameSuccessor(p)
            BY <1>1, <1>2, <2>2, <3>2 DEF MemoryFits, RowFits, Holding, Stages, NameSuccessor
        <3> QED  BY <3>1, <3>2
    <2> HIDE DEF r, s
    <2> QED  BY <1>1, <2>1, <2>2, <2>3, <2>4, LogNamed
<1> QED  BY <1>3, <1>4

LEMMA LogCommitted ==
    ASSUME HistoryInv, NEW p \in Procs, CommitBatch(p)
    PROVE  Logged
<1> DEFINE r == procs[p].run
           stands == disk /\ Owned(p) /\ Len(procs[p].cand) >= Len(runs[r].history)
<1>1. /\ procs[p] \in Memory /\ procs[p].stage = "committing" /\ MemoryFits(procs[p])
      /\ runs \in Seq(Row)
    BY Basics DEF CommitBatch
<1>2. ~procs[p].paused
    BY <1>1, NotPausedElsewhere
<1>3. CASE ~stands
    BY <1>3, LogUntouched DEF CommitBatch
<1>4. CASE stands
    <2>1. /\ r \in DOMAIN runs /\ procs[p].epoch = runs[r].epoch /\ runs[r].status = "open"
        BY <1>4 DEF Owned
    <2>2. runs[r].session = procs[p].session /\ runs[r].history = procs[p].live
        BY <1>1, <1>2, <2>1 DEF MemoryFits, RowFits, InStep, Holding, Stages
    <2>3. /\ procs[p].session \in Sessions
          /\ IsPrefix(procs[p].live, procs[p].cand) /\ Len(procs[p].live) < Len(procs[p].cand)
        BY <1>1 DEF MemoryFits, BatchFits, AnswerFits, Answering
    <2>4. procs[p].cand \in Histories
        BY <1>1, ResponseTyped
    <2>5. procs[p].session # NoSession
        BY <2>3, SessionsBounded DEF Sessions, NoSession
    <2>6. PICK claims : claims = Append(runs[r].claims, ClaimOf(p))
        OBVIOUS
    <2>7. runs' = [runs EXCEPT ![r].history = procs[p].cand, ![r].claims = claims,
                               ![r].fresh = TRUE]
        BY <1>1, <1>4, <2>1, <2>6 DEF CommitBatch
    <2> HIDE DEF r
    <2> QED  BY <1>1, <2>1, <2>2, <2>3, <2>4, <2>5, <2>7, LogExtended
<1> QED  BY <1>3, <1>4

LEMMA LogEnded ==
    ASSUME HistoryInv, NEW p \in Procs, Finish(p)
    PROVE  Logged
<1> DEFINE r == procs[p].run
           row == [runs[r] EXCEPT !.status = "stopped"]
<1>1. CASE UNCHANGED runs
    BY <1>1, LogUntouched
<1>2. CASE ~UNCHANGED runs
    <2>1. /\ runs' = [runs EXCEPT ![r].status = "stopped"] /\ r \in DOMAIN runs
          /\ runs[r].status = "open"
        BY <1>2 DEF Finish, Owned
    <2>2. runs \in Seq(Row) /\ runs[r] \in Row
        BY <2>1, Basics, RowsHaveEpochs
    <2>3. runs' = [runs EXCEPT ![r] = row]
        BY <2>1, <2>2
    <2>4. /\ row.session = runs[r].session /\ row.history = runs[r].history
          /\ row.status = "stopped"
        BY <2>2 DEF Row
    <2> HIDE DEF row
    <2>5. Final(row) = FALSE /\ Final(runs[r]) = FALSE
        BY <2>1, <2>4, FinalByStatus
    <2>6. EntryOf(row) = EntryOf(runs[r])
        BY <2>4, <2>5 DEF EntryOf
    <2> QED  BY <2>1, <2>2, <2>3, <2>6, LogKept
<1> QED  BY <1>1, <1>2

LEMMA LogClosing ==
    ASSUME HistoryInv, NEW p \in Procs, ResetRun(p) \/ CloseReplacedRun(p)
    PROVE  Logged
<1>1. runs \in Seq(Row)
    BY Basics
<1>2. CASE UNCHANGED runs
    BY <1>2, LogUntouched
<1>3. CASE ~UNCHANGED runs
    <2>1. /\ procs[p].run \in DOMAIN runs /\ runs[procs[p].run].status = "open"
          /\ \/ runs' = [runs EXCEPT ![procs[p].run].status = "reset"]
             \/ runs' = [runs EXCEPT ![procs[p].run].status = "feed_restarted"]
        BY <1>3 DEF ResetRun, CloseReplacedRun, Owned
    <2> QED  BY <1>1, <2>1, LogClosed
<1> QED  BY <1>2, <1>3

LEMMA LogHeartbeat ==
    ASSUME HistoryInv, NEW p \in Procs,
           WriteGenesis(p) \/ RenewState(p) \/ PollInVain(p) \/ CheckIdleChain(p) \/ RefuseBatch(p)
    PROVE  Logged
<1>1. runs \in Seq(Row)
    BY Basics
<1>2. \/ UNCHANGED runs
      \/ Owned(p) /\ runs' = [runs EXCEPT ![procs[p].run].fresh = TRUE]
    BY DEF WriteGenesis, RenewState, BeatOrPause, PollInVain, CheckIdleChain, RefuseBatch, EndPoll
<1>3. CASE UNCHANGED runs
    BY <1>3, LogUntouched
<1>4. CASE Owned(p) /\ runs' = [runs EXCEPT ![procs[p].run].fresh = TRUE]
    <2>1. procs[p].run \in DOMAIN runs
        BY <1>4 DEF Owned
    <2> QED  BY <1>1, <1>4, <2>1, LogBeaten
<1> QED  BY <1>2, <1>3, <1>4

LEMMA LogOpening ==
    ASSUME HistoryInv, NEW p \in Procs, CreateRun(p) \/ SucceedRun(p)
    PROVE  Logged
<1>1. runs \in Seq(Row)
    BY Basics
<1>2. UNCHANGED runs \/ runs' = Append(runs, EmptyRun(p))
    BY DEF CreateRun, SucceedRun
<1> QED  BY <1>1, <1>2, LogUntouched, LogOpened

\* Every step is one of the list of runs, or none.
LEMMA LogNext ==
    ASSUME HistoryInv, [Next]_vars
    PROVE  Logged
<1>1. ASSUME NEW p \in Procs, Start(p)
      PROVE  Logged
    <2>1. CASE \/ \E reset \in BOOLEAN : ReadNewestRun(p, reset)
               \/ LoadRun(p)
        BY <2>1, LogUntouched DEF ReadNewestRun, LoadRun
    <2> QED  BY <1>1, <2>1, LogTaken, LogClosing, LogOpening, LogHeartbeat DEF Start
<1>2. ASSUME NEW p \in Procs, Poll(p)
      PROVE  Logged
    <2>1. CASE \/ FetchBatch(p) \/ FetchNothing(p) \/ MeetNewSession(p) \/ ProbeFeed(p)
               \/ BuildCandidate(p) \/ PublishCandidate(p)
        BY <2>1, LogUntouched
           DEF FetchBatch, FetchNothing, MeetNewSession, ProbeFeed, BuildCandidate,
               PublishCandidate
    <2> QED  BY <1>2, <2>1, LogNaming, LogCommitted, LogClosing, LogOpening, LogHeartbeat DEF Poll
<1>3. ASSUME NEW p \in Procs, Finish(p) \/ Crash(p)
      PROVE  Logged
    BY <1>3, LogEnded, LogUntouched DEF Crash
<1>4. CASE Environment
    <2>1. CASE \E r \in DOMAIN runs : GoStale(r)
        <3>1. PICK r \in DOMAIN runs : runs' = [runs EXCEPT ![r].fresh = FALSE]
            BY <2>1 DEF GoStale
        <3>2. runs \in Seq(Row)
            BY DEF HistoryInv, FenceInv, Typed
        <3> QED  BY <3>1, <3>2, LogBeaten
    <2>2. CASE ~\E r \in DOMAIN runs : GoStale(r)
        BY <1>4, <2>2, LogUntouched
           DEF Environment, FeedAppends, FeedReplaced, FeedLosesItsEnd, DiskFails, DiskRecovers
    <2> QED  BY <2>1, <2>2
<1>5. CASE UNCHANGED vars
    BY <1>5, LogUntouched DEF vars
<1> QED  BY <1>1, <1>2, <1>3, <1>4, <1>5 DEF Next

LEMMA LogInit ==
    ASSUME Init
    PROVE  Abstract!Init
<1>1. DOMAIN runs = {}
    BY DEF Init
<1>2. RunLog = <<>>
    BY <1>1 DEF RunLog
<1> QED  BY <1>2 DEF Abstract!Init

-----------------------------------------------------------------------------
LEMMA HistorySuffices ==
    ASSUME HistoryInv
    PROVE  ClaimsChainInEveryRun /\ HistoryWasSigned /\ PublishedIsDurable
<1>1. RunsTypeOK
    BY TypesSuffice DEF HistoryInv
<1>2. ClaimsChainRootToRoot
    BY DEF HistoryInv, RowsFit, Chained, ClaimsChainRootToRoot
<1>3. HistoryWasSigned
    BY DEF HistoryInv, RowsFit, WasSigned, HistoryWasSigned
<1>4. PublishedIsDurable
    BY DEF HistoryInv, MemoryFits, StateFits, Held, PublishedIsDurable
<1> QED  BY <1>1, <1>2, <1>3, <1>4 DEF ClaimsChainInEveryRun

LEMMA HistoryAlways == Spec => []HistoryInv
<1>1. Init => HistoryInv
    BY HistoryInit
<1>2. HistoryInv /\ [Next]_vars => HistoryInv'
    BY HistoryNext
<1> QED  BY <1>1, <1>2, PTL DEF Spec

\* The claims Store::commit writes chain root to root over every run, whoever
\* wrote them, through crashes, takeovers and writers who lost their run.
THEOREM ClaimsChain == Spec => []ClaimsChainInEveryRun
<1>1. HistoryInv => ClaimsChainInEveryRun
    BY HistorySuffices
<1> QED  BY <1>1, HistoryAlways, PTL

\* No answer that apply_batch lets through brings a history into the database
\* that the sequencer did not sign.
THEOREM Signed == Spec => []HistoryWasSigned
<1>1. HistoryInv => HistoryWasSigned
    BY HistorySuffices
<1> QED  BY <1>1, HistoryAlways, PTL

\* Poller publishes a candidate only after its commit, and no other process
\* can take from the database what was committed.
THEOREM Durable == Spec => []PublishedIsDurable
<1>1. HistoryInv => PublishedIsDurable
    BY HistorySuffices
<1> QED  BY <1>1, HistoryAlways, PTL

\* The transactions of store.rs, by all the processes, make an append-only
\* list of runs: a run is named once, before it consumes anything, only
\* grows, and is never written again once closed for good.
THEOREM AppendOnly == Spec => ImplementsRunHistory
<1>1. Init => Abstract!Init
    BY LogInit
<1>2. HistoryInv /\ [Next]_vars => [Abstract!Next]_RunLog
    BY LogNext DEF Logged
<1> QED  BY <1>1, <1>2, HistoryAlways, PTL DEF Spec, ImplementsRunHistory, Abstract!Spec

================================================================================
