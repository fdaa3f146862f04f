------------------------------ MODULE Witnesses ------------------------------
(***************************************************************************)
(* Validators follow a feed and attest what they verified; an exchange     *)
(* consumes the same feed and asks them, URL by URL, while it goes on      *)
(* consuming, how far its own history is backed.  The feed may be started  *)
(* on a new history, or again from an older copy of the one it serves;     *)
(* every head it ever signed stays signed.                                 *)
(*                                                                         *)
(* signed, vouched, lost and stray are history.  A behaviour is one scene: *)
(* the validators that take part, and how often each event that is not the *)
(* ordinary course of things may happen.                                   *)
(***************************************************************************)
EXTENDS Validator

CONSTANTS
    Bodies,         \* message bodies
    Validators,     \* validator processes, each with a key of its own
    Urls,           \* the sequence of URLs the exchange was told to ask
    Behind,         \* which validator answers at which URL
    FeedKey,        \* the key of the feed
    StrangerKey,    \* the key of another feed that may answer once
    NoCandidate,    \* nothing is being committed
    RecentCap,      \* how many of its last chains the exchange remembers
    MaxLog,         \* bound: messages in one history
    Scenes          \* bound: who takes part and how often each event may happen

\* The events that are not the ordinary course of things.
Events == {"sessions", "losses", "saves", "noise", "strangers", "restarts", "clears",
           "commits", "rounds", "silences", "engineRestarts", "redeploys"}

ASSUME WitnessAssumption ==
    /\ IsFiniteSet(Validators)
    /\ Len(Urls) \in Nat
    /\ Behind \in [1..Len(Urls) -> Validators]
    /\ Scenes \subseteq [active : SUBSET Validators, left : [Events -> Nat]]
    /\ NoSession \notin Nat /\ FeedKey # StrangerKey /\ NoKey \notin {FeedKey, StrangerKey}
    /\ RecentCap \in Nat \ {0}

VARIABLES
    feed,       \* [session, log]: the history the feed serves
    mem,        \* each validator's state
    row,        \* each validator's row in its database
    serving,    \* which validator answers at each URL
    engine,     \* the exchange: [session, chain, recent, mark]
    candidate,  \* NoCandidate, or the copy that is being committed
    pinned,     \* the validator key each URL was fixed to, for the life of the process
    round,      \* [next, matching, stale]: the round of questions in progress
    scene,      \* bound: [active, left]: who takes part, how often each event may still happen
    signed,     \* history: every head [key, session, last, chain] the feed signed
    vouched,    \* history: every [validator, session, chain] attested without a flag
    lost,       \* history: the validators whose disk refused a save
    stray       \* history: the mark was moved by answers that were counted before its run began

vars == <<feed, mem, row, serving, engine, candidate, pinned, round, scene,
          signed, vouched, lost, stray>>

feedVars == <<feed, signed>>
validatorVars == <<mem, row, vouched, lost>>
engineVars == <<engine, candidate, pinned, round, stray>>

Spend(event) == scene.left[event] > 0 /\ scene' = [scene EXCEPT !.left[event] = @ - 1]

(***************************************************************************)
(* The feed.                                                               *)
(***************************************************************************)

HeadOf(session, log) ==
    [key |-> FeedKey, session |-> session, last |-> Len(log), chain |-> log]

FeedBecomes(session, log) ==
    /\ feed' = [session |-> session, log |-> log]
    /\ signed' = signed \cup {HeadOf(session, log)}

FeedAppends(b) ==
    /\ Len(feed.log) < MaxLog
    /\ FeedBecomes(feed.session, Append(feed.log, b))
    /\ UNCHANGED <<validatorVars, engineVars, serving, scene>>

FeedReplaced ==
    /\ Spend("sessions")
    /\ FeedBecomes(feed.session + 1, <<>>)
    /\ UNCHANGED <<validatorVars, engineVars, serving>>

\* The operator puts an older copy of the database in place and goes on.
FeedLosesItsEnd ==
    /\ Spend("losses")
    /\ \E n \in 0..(Len(feed.log) - 1) : FeedBecomes(feed.session, SubSeq(feed.log, 1, n))
    /\ UNCHANGED <<validatorVars, engineVars, serving>>

(***************************************************************************)
(* What a poll may be answered with.                                       *)
(***************************************************************************)

Page(since, upto) ==
    [i \in 1..(upto - since) |-> [id |-> since + i, body |-> feed.log[since + i]]]

SignedAnswer(head, messages) == [head |-> head, verifies |-> TRUE, messages |-> messages]

HonestAnswers(since) ==
    IF since >= Len(feed.log) THEN {SignedAnswer(HeadOf(feed.session, feed.log), <<>>)}
    ELSE {SignedAnswer(HeadOf(feed.session, SubSeq(feed.log, 1, n)), Page(since, n)) :
              n \in (since + 1)..Len(feed.log)}

\* A page that was asked for before, and one whose head stands further on.
WrongAnswers(since) ==
    LET head == HeadOf(feed.session, feed.log)
    IN  {SignedAnswer(head, Page(n, Len(feed.log))) : n \in 0..(Min({since, Len(feed.log)}) - 1)}
        \cup {SignedAnswer(head, Page(since, n)) : n \in (since + 1)..(Len(feed.log) - 1)}

Unsigned == [SignedAnswer(HeadOf(feed.session, feed.log), <<>>) EXCEPT !.verifies = FALSE]

StrangersAnswer ==
    SignedAnswer([key |-> StrangerKey, session |-> 0, last |-> 0, chain |-> <<>>], <<>>)

(***************************************************************************)
(* The validators.  follow_feed polls, applies the answer and saves under  *)
(* one lock, so that the three are one step for whoever asks it.           *)
(***************************************************************************)

Attested(v, state) ==
    IF Vouching(state) /\ state.cursor > 0
    THEN {[validator |-> v, session |-> state.session, chain |-> state.chain]} ELSE {}

\* A slip the runs must notice: a validator goes on polling after a dispute.
PollsOn(v) == v \in scene.active

Polls(v) == v \in scene.active /\ ~mem[v].disputed

Takes(v, state) ==
    /\ mem' = [mem EXCEPT ![v] = state]
    /\ vouched' = vouched \cup Attested(v, state)

Apply(v, state) ==
    /\ Takes(v, state)
    /\ UNCHANGED <<feedVars, engineVars, serving, lost>>

Poll(v) ==
    /\ Polls(v)
    /\ \E r \in HonestAnswers(mem[v].cursor) :
          Apply(v, Ingest(mem[v], r)) /\ row' = [row EXCEPT ![v] = Ingest(mem[v], r)]
    /\ UNCHANGED scene

PollUnsaved(v) ==
    /\ Polls(v) /\ Spend("saves")
    /\ \E r \in HonestAnswers(mem[v].cursor) : Takes(v, Ingest(mem[v], r))
    /\ lost' = lost \cup {v}
    /\ UNCHANGED <<feedVars, engineVars, serving, row>>

\* No answer, an unsigned one, or one the feed did not mean for this question.
PollInVain(v) ==
    /\ Polls(v) /\ Spend("noise")
    /\ \E r \in WrongAnswers(mem[v].cursor) \cup {Unsigned} :
          Apply(v, Ingest(mem[v], r)) /\ row' = [row EXCEPT ![v] = Ingest(mem[v], r)]

MeetStranger(v) ==
    /\ Polls(v) /\ Spend("strangers")
    /\ LET state == Ingest(mem[v], StrangersAnswer)
       IN Apply(v, state) /\ row' = [row EXCEPT ![v] = state]

RestartValidator(v) ==
    /\ v \in scene.active /\ Spend("restarts")
    /\ Takes(v, row[v])
    /\ UNCHANGED <<feedVars, engineVars, serving, row, lost>>

\* The operator's command edits the row; a running process does not read it.
ClearDispute(v) ==
    /\ row[v].disputed /\ Spend("clears")
    /\ row' = [row EXCEPT ![v] = Cleared(row[v])]
    /\ UNCHANGED <<feedVars, engineVars, serving, mem, vouched, lost>>

(***************************************************************************)
(* The exchange.  Its candidate is a copy taken before the commit; the     *)
(* mark may move while the commit runs.                                    *)
(***************************************************************************)

NewEngine(session) == [session |-> session, chain |-> <<>>, recent |-> 0, mark |-> 0]

Consumed(e, n) ==
    [e EXCEPT !.chain = SubSeq(feed.log, 1, n),
              !.recent = Min({RecentCap, @ + n - Len(e.chain)})]

BuildCandidate ==
    /\ candidate = NoCandidate /\ Spend("commits")
    /\ engine.session = feed.session
    /\ \E n \in (Len(engine.chain) + 1)..Len(feed.log) :
          /\ IsPrefix(engine.chain, feed.log)
          /\ candidate' = Consumed(engine, n)
    /\ UNCHANGED <<feedVars, validatorVars, serving, engine, pinned, round, stray>>

\* A slip the runs must notice: the copy's mark is published.
PublishedAsCopied(new, published) == new

\* What the rounds wrote to the published state meanwhile is carried over.
Published(new, published) == [new EXCEPT !.mark = published.mark]

PublishCandidate ==
    /\ candidate # NoCandidate
    /\ engine' = Published(candidate, engine)
    /\ candidate' = NoCandidate
    /\ UNCHANGED <<feedVars, validatorVars, serving, pinned, round, scene, stray>>

NoRound == [next |-> 1, matching |-> <<>>, stale |-> FALSE]

\* Another session, or a head behind what was consumed.
FeedRestarted ==
    \/ engine.session # feed.session
    \/ feed.log # <<>> /\ Len(feed.log) < Len(engine.chain)

\* A round in progress keeps what it counted for the history that ended.
StartNewRun ==
    /\ candidate = NoCandidate
    /\ FeedRestarted
    /\ engine' = NewEngine(feed.session)
    /\ stray' = FALSE
    /\ round' = [round EXCEPT !.stale = (@ \/ DOMAIN round.matching # {})]
    /\ UNCHANGED <<feedVars, validatorVars, serving, candidate, pinned, scene>>

\* The database has the candidate or it has not; the rest is not in it.
RestartEngine ==
    /\ Spend("engineRestarts")
    /\ \E e \in {engine, candidate} \ {NoCandidate} :
          engine' = [e EXCEPT !.recent = Min({1, Len(e.chain)}), !.mark = 0]
    /\ candidate' = NoCandidate /\ round' = NoRound
    /\ pinned' = [u \in DOMAIN Behind |-> NoKey] /\ stray' = FALSE
    /\ UNCHANGED <<feedVars, validatorVars, serving>>

(***************************************************************************)
(* The round of questions.                                                 *)
(***************************************************************************)

Needed == (2 * Len(Urls) + 2) \div 3

\* The chain the exchange had at a position, while it remembers it.
Remembers(e, n) == n \in (Len(e.chain) - e.recent + 1)..Len(e.chain)
ChainAt(e, n) == SubSeq(e.chain, 1, n)

\* A slip the runs must notice: a position counts whatever its chain.
CountsAnyChain(v) ==
    Vouching(mem[v]) /\ mem[v].session = engine.session /\ Remembers(engine, mem[v].cursor)

Counts(v) ==
    /\ Vouching(mem[v])
    /\ mem[v].session = engine.session
    /\ Remembers(engine, mem[v].cursor)
    /\ ChainAt(engine, mem[v].cursor) = mem[v].chain

\* One entry per key: three URLs of one validator are one voice.
Matched(matching, key, n) ==
    [k \in DOMAIN matching \cup {key} |->
        IF k # key THEN matching[k]
        ELSE IF k \in DOMAIN matching THEN Max({matching[k], n}) ELSE n]

Asking == round.next <= Len(Urls)

AskValidator ==
    /\ Asking
    /\ round.next > 1 \/ scene.left.rounds > 0
    /\ LET u == round.next
           v == serving[u]
           fits == pinned[u] \in {NoKey, v}
       IN /\ pinned' = IF fits THEN [pinned EXCEPT ![u] = v] ELSE pinned
          /\ round' = [round EXCEPT
                !.next = @ + 1,
                !.matching = IF fits /\ Counts(v) THEN Matched(@, v, mem[v].cursor) ELSE @]
    /\ UNCHANGED <<feedVars, validatorVars, serving, engine, candidate, scene, stray>>

\* No answer, or one that does not verify under the key it names.
AskInVain ==
    /\ Asking /\ Spend("silences")
    /\ round' = [round EXCEPT !.next = @ + 1]
    /\ UNCHANGED <<feedVars, validatorVars, serving, engine, candidate, pinned, stray>>

\* The highest position that enough of the validators stand at or beyond.
QuorumPosition(matching, needed) ==
    LET standing(n) == {k \in DOMAIN matching : matching[k] >= n}
    IN  Max({0} \cup {n \in Range(matching) : Cardinality(standing(n)) >= needed})

ConcludeRound ==
    /\ ~Asking /\ Spend("rounds")
    /\ LET position == QuorumPosition(round.matching, Needed)
       IN IF position > engine.mark
          THEN /\ engine' = [engine EXCEPT !.mark = position]
               /\ stray' = (stray \/ round.stale)
          ELSE UNCHANGED <<engine, stray>>
    /\ round' = NoRound
    /\ UNCHANGED <<feedVars, validatorVars, serving, candidate, pinned>>

\* Another validator process answers at the URL from now on.
Redeploy(u) ==
    /\ Spend("redeploys")
    /\ \E v \in Validators \ {serving[u]} : serving' = [serving EXCEPT ![u] = v]
    /\ UNCHANGED <<feedVars, validatorVars, engineVars>>

(***************************************************************************)
(* The specification.                                                      *)
(***************************************************************************)

Init ==
    /\ feed = [session |-> 1, log |-> <<>>]
    /\ signed = {HeadOf(1, <<>>)}
    /\ mem = [v \in Validators |-> Fresh] /\ row = mem
    /\ serving = Behind
    /\ engine = NewEngine(1) /\ candidate = NoCandidate
    /\ pinned = [u \in DOMAIN Behind |-> NoKey] /\ round = NoRound
    /\ scene \in Scenes
    /\ vouched = {} /\ lost = {} /\ stray = FALSE

FeedNext == (\E b \in Bodies : FeedAppends(b)) \/ FeedReplaced \/ FeedLosesItsEnd

ValidatorNext(v) ==
    Poll(v) \/ PollUnsaved(v) \/ PollInVain(v) \/ MeetStranger(v) \/ RestartValidator(v) \/ ClearDispute(v)

EngineNext ==
    \/ BuildCandidate \/ PublishCandidate \/ StartNewRun \/ RestartEngine
    \/ AskValidator \/ AskInVain \/ ConcludeRound

Next ==
    \/ FeedNext \/ EngineNext
    \/ \E v \in Validators : ValidatorNext(v)
    \/ \E u \in DOMAIN Behind : Redeploy(u)

Spec == Init /\ [][Next]_vars
=============================================================================
