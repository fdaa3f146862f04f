--------------------------------- MODULE Audit ---------------------------------
(***************************************************************************)
(* The audit of src/services/src/prove.rs, run from outside against an     *)
(* exchange that goes on trading and anchoring: what it reads, one request *)
(* at a time, and every check it makes.  It fixes its view at the cursor   *)
(* of its first request, then pages through messages, claims and recorded  *)
(* trades as the re-execution asks for them.                               *)
(*                                                                         *)
(* `chained` is the older contract, which holds hash chains: written by a  *)
(* sender outside this repository, read by the same audit.                 *)
(***************************************************************************)
EXTENDS RootAnchors

CONSTANTS
    PageLimit,          \* rows of one page of messages, of claims, of trades
    MaxChainAnchors     \* bound: anchors of the older contract

ASSUME PageAssumption == PageLimit \in Nat \ {0}

VARIABLES chained, audit

auditVars == <<published, anchoring, chained, audit>>

NotStarted == [step |-> "none", failed |-> {}]

Asks(step) == audit.step = step
Reads(next) == audit' = next /\ UNCHANGED <<published, anchoring, chained>>
Failing(a, check, fails) == IF fails THEN [a EXCEPT !.failed = @ \cup {check}] ELSE a
PageOf(list) == Upto(list, IF Len(list) < PageLimit THEN Len(list) ELSE PageLimit)

\* ExchangeAnchor.anchor: all four values stand at one message.
AnchorChain ==
    /\ Len(chained) < MaxChainAnchors
    /\ Cursor > 0
    /\ chained # <<>> => session = Last(chained).session /\ Cursor > Last(chained).lastId
    /\ chained' = Append(chained, [lastId |-> Cursor, session |-> session,
                                   chain |-> Upto(log, Cursor), state |-> Last(claims).after])
    /\ UNCHANGED <<published, anchoring, audit>>

-----------------------------------------------------------------------------
(* The documents read before the walk: audit_url. *)

ReadFacts ==
    /\ Asks("none")
    /\ Reads([step |-> "feed head", failed |-> {}, session |-> session, cursor |-> Cursor,
              tamperedBefore |-> tampered])

ReadFeedHead == Asks("feed head") /\ Reads([step |-> "wire session", head |-> log] @@ audit)

\* A feed that serves another history than the run consumed ends the audit.
ReadWireSession ==
    /\ Asks("wire session")
    /\ Reads(IF session = audit.session THEN [audit EXCEPT !.step = "chain anchors"]
             ELSE [audit EXCEPT !.step = "done", !.failed = {"session"}])

\* latest() and the scan, at once; an empty contract is one that cannot be read.
ReadChainAnchors ==
    /\ Asks("chain anchors")
    /\ Reads(Failing([step |-> "tree head", chained |-> chained] @@ audit,
                     "readable", chained = <<>>))

ReadSignedTree == Asks("tree head") /\ Reads([step |-> "latest", signed |-> log] @@ audit)

ReadLatestAnchor ==
    /\ Asks("latest")
    /\ Reads(Failing([step |-> "scan", total |-> Len(anchored)] @@ audit,
                     "readable", anchored = <<>>))

\* The scan runs backwards, over what the contract holds by now, and may run
\* out of requests before it reaches the oldest anchor.
ScanAnchors(oldest) ==
    LET found == {i \in DOMAIN anchored : i >= oldest /\ audit.total > 0}
        read  == [step |-> "walk", anchors |-> {anchored[i] : i \in found},
                  served |-> <<>>, page |-> <<>>, fedBy |-> <<>>,
                  ahead |-> <<>>, previous |-> <<>>, neededTo |-> 0, claimsEnded |-> FALSE,
                  applied |-> 0, firstSeen |-> FALSE,
                  held |-> <<>>, rowsRead |-> 0, compared |-> 0, extra |-> 0,
                  rowsEnded |-> FALSE] @@ audit
    IN  /\ Asks("scan")
        /\ Reads(Failing(Failing(read, "complete", ~(1..audit.total \subseteq found)),
                         "agrees", audit.total > 0 /\ audit.total \notin found))

-----------------------------------------------------------------------------
(* The re-execution: Replay.  The engine's state is the messages applied.  *)

Applied(a) == Upto(a.served, a.applied)
Replayed(a) == FillsOf(Applied(a))      \* the trades it has produced

\* push_claims, one claim; the claim that reaches the view's end is the last.
PushClaim(a, claim) ==
    LET first == a.previous = <<>>
        continues == /\ claim.before = a.previous[1].after
                     /\ claim.from = a.previous[1].to + 1
        signed == claim.session = a.session
    IN  IF a.claimsEnded THEN a
        ELSE [Failing(a, "continuity", ~first /\ ~continues) EXCEPT
                 !.previous = <<claim>>,
                 !.ahead = Append(@, claim),
                 !.neededTo = IF claim.to > @ THEN claim.to ELSE @,
                 !.claimsEnded = claim.to >= a.cursor]

\* Every claim of a fetched page has its signature checked; a short page is the last.
PushClaims(a, page) ==
    LET pushed == FoldLeft(PushClaim, a, page)
    IN  [Failing(pushed, "signatures", \E i \in DOMAIN page : page[i].session # a.session)
            EXCEPT !.claimsEnded = @ \/ Len(page) < PageLimit]

WantsClaims(a) == ~a.claimsEnded /\ a.ahead = <<>>
WantsRows(a) == ~a.rowsEnded /\ a.held = <<>> /\ Len(Replayed(a)) > a.compared

\* A slip the runs must notice: the last trade of a batch is not compared.
ComparedButTheLast(a) ==
    LET ours == Replayed(a)
        more == Len(ours) - a.compared
        n    == IF Len(a.held) < more THEN Len(a.held) ELSE more
    IN  [Failing(a, "trades", \E i \in 1..(n - 1) : a.held[i].made # ours[a.compared + i])
            EXCEPT !.compared = @ + n, !.held = SubSeq(@, n + 1, Len(@))]

\* compare_trades: as far as both the rows held and the trades replayed go.
Compared(a) ==
    LET ours == Replayed(a)
        more == Len(ours) - a.compared
        n    == IF Len(a.held) < more THEN Len(a.held) ELSE more
    IN  [Failing(a, "trades", \E i \in 1..n : a.held[i].made # ours[a.compared + i])
            EXCEPT !.compared = @ + n, !.held = SubSeq(@, n + 1, Len(@))]

\* A slip the runs must notice: whatever the feed serves is applied.
AppliedBeyondClaims(a) ==
    LET id == Len(a.served)
        b  == Failing(a, "roots", a.ahead # <<>> /\ ~a.firstSeen /\ a.ahead[1].from = id
                                     /\ a.ahead[1].before # Applied(a))
        c  == [b EXCEPT !.applied = id, !.firstSeen = TRUE]
        at == a.ahead # <<>> /\ a.ahead[1].to = id
        d  == Failing(Failing(c, "roots", at /\ a.ahead[1].after # Applied(c)),
                      "totals", at /\ a.ahead[1].total # Len(Replayed(c)))
    IN  IF at THEN [d EXCEPT !.ahead = Tail(@)] ELSE d

\* apply: the message just served, unless no claim in the view covers it.
AppliedNext(a) ==
    LET id == Len(a.served)
        b  == Failing(a, "roots", a.ahead # <<>> /\ ~a.firstSeen /\ a.ahead[1].from = id
                                     /\ a.ahead[1].before # Applied(a))
        c  == [b EXCEPT !.applied = id, !.firstSeen = TRUE]
        at == a.ahead # <<>> /\ a.ahead[1].to = id
        d  == Failing(Failing(c, "roots", at /\ a.ahead[1].after # Applied(c)),
                      "totals", at /\ a.ahead[1].total # Len(Replayed(c)))
    IN  IF id > a.neededTo THEN a
        ELSE IF at THEN [d EXCEPT !.ahead = Tail(@)] ELSE d

-----------------------------------------------------------------------------
(* The walk over the feed: the loop of check_run. *)

LastAnchored(a) == Max({0} \cup {x.lastId : x \in ToSet(a.chained)})
LargestTree(a) == Max({Len(a.signed)} \cup {x.size : x \in a.anchors})

MoreNeeded(a) ==
    \/ ~a.claimsEnded \/ a.ahead # <<>>
    \/ Len(a.served) < Max({Len(a.head), a.cursor, LastAnchored(a), LargestTree(a)})

\* One page of messages; none left ends the walk.  Another session than the
\* walk began with is an error: no verdict.
ReadPage ==
    LET a == audit
        page == PageOf(SubSeq(log, Len(a.served) + 1, Len(log)))
    IN  /\ Asks("walk") /\ a.page = <<>> /\ ~WantsRows(a) /\ MoreNeeded(a)
        /\ Reads(IF a.fedBy # <<>> /\ a.fedBy # <<session>>
                 THEN [a EXCEPT !.step = "done", !.failed = {"error"}]
                 ELSE IF page = <<>> THEN [a EXCEPT !.step = "claims"]
                 ELSE [a EXCEPT !.page = page, !.fedBy = <<session>>])

\* The claims that follow the newest one read.
NextClaims(a) ==
    PageOf(SelectSeq(claims, LAMBDA c : a.previous # <<>> => c.from > a.previous[1].from))

ReadClaims ==
    /\ \/ Asks("walk") /\ audit.page # <<>> /\ ~WantsRows(audit)
       \/ Asks("claims")
    /\ WantsClaims(audit)
    /\ Reads(PushClaims(audit, NextClaims(audit)))

TakeMessage ==
    LET a == [audit EXCEPT !.served = Append(@, Head(audit.page)), !.page = Tail(@)]
    IN  /\ Asks("walk") /\ audit.page # <<>> /\ ~WantsRows(audit) /\ ~WantsClaims(audit)
        /\ Reads(Compared(AppliedNext(a)))

NextRows(a) ==
    PageOf([k \in 1..(Len(rows) - a.rowsRead) |->
               [id |-> a.rowsRead + k, made |-> rows[a.rowsRead + k]]])

ReadRows ==
    LET page == NextRows(audit)
    IN  /\ Asks("walk") /\ WantsRows(audit)
        /\ Reads(IF page = <<>> THEN [audit EXCEPT !.rowsEnded = TRUE]
                 ELSE Compared([audit EXCEPT !.held = page, !.rowsRead = Last(page).id]))

EndWalk ==
    /\ Asks("walk") /\ audit.page = <<>> /\ ~WantsRows(audit) /\ ~MoreNeeded(audit)
    /\ Reads([audit EXCEPT !.step = "claims"])

\* The trades in the view are the ones the last claim in it counts.
BoundOf(a) == IF a.previous = <<>> THEN 0 ELSE a.previous[1].total

\* A slip the runs must notice: rows already fetched are counted, in the view or not.
AllFetched(a) == a

\* set_trades_bound: it reaches back into the rows already fetched.
WithinBound(a) ==
    LET inside == SelectSeq(a.held, LAMBDA r : r.id <= BoundOf(a))
    IN  [a EXCEPT !.held = inside, !.rowsEnded = @ \/ Len(inside) < Len(a.held)]

\* Rows the re-execution never reaches are counted, not compared.
Counted(a) == [Compared(a) EXCEPT !.extra = @ + Len(Compared(a).held), !.held = <<>>]

EndClaims ==
    /\ Asks("claims") /\ ~WantsClaims(audit)
    /\ Reads([Counted(WithinBound(audit)) EXCEPT !.step = "rows"])

ReadLeftoverRows ==
    LET page   == NextRows(audit)
        inside == SelectSeq(page, LAMBDA r : r.id <= BoundOf(audit))
    IN  /\ Asks("rows") /\ ~audit.rowsEnded
        /\ Reads(Counted([audit EXCEPT !.held = inside,
                                       !.rowsRead = @ + Len(inside),
                                       !.rowsEnded = Len(inside) < Len(page) \/ page = <<>>]))

-----------------------------------------------------------------------------
(* The checks made at the end. *)

\* The walk produced this history as its first messages.
Walked(a, history) == IsPrefix(history, a.served)

ClaimedTo(a) == IF a.previous = <<>> THEN 0 ELSE a.previous[1].to
Recorded(a) == a.compared + a.extra

Failed(checks) == {check \in DOMAIN checks : checks[check]}

HeadChecks(a) ==
    [feedHead |-> ~Walked(a, a.head),
     covers   |-> Len(a.head) < Max({ClaimedTo(a), a.cursor})]

TreeChecks(a) ==
    [treeHead      |-> ~Walked(a, a.signed),
     anchoredRoots |-> \E x \in a.anchors : ~Walked(a, x.root)]

HistoryChecks(a) == [history |-> Len(a.served) < a.cursor]

ReplayChecks(a) ==
    [coverage |-> ClaimedTo(a) # a.cursor,
     roots    |-> a.ahead # <<>> \/ (a.previous # <<>> /\ ~a.firstSeen),
     totals   |-> a.previous # <<>> /\ BoundOf(a) # Recorded(a),
     trades   |-> Len(Replayed(a)) # Recorded(a)]

ChainChecks(a) ==
    [sessions  |-> \E x \in ToSet(a.chained) : x.session # a.session,
     chains    |-> \E x \in ToSet(a.chained) : x.session # a.session \/ ~Walked(a, x.chain),
     execution |-> \E x \in ToSet(a.chained) :
                       \/ x.session # a.session \/ x.lastId > a.applied
                       \/ x.state # Upto(a.served, x.lastId)]

FailedAtEnd(a) ==
    Failed(HeadChecks(a)) \cup Failed(TreeChecks(a)) \cup Failed(HistoryChecks(a))
        \cup Failed(ReplayChecks(a)) \cup Failed(ChainChecks(a))

Report ==
    /\ Asks("rows") /\ audit.rowsEnded
    /\ Reads([audit EXCEPT !.step = "done", !.failed = @ \cup FailedAtEnd(audit)])

TheAuditGoesOn ==
    \/ ReadFeedHead \/ ReadWireSession \/ ReadChainAnchors \/ ReadSignedTree
    \/ ReadPage \/ ReadClaims \/ TakeMessage \/ ReadRows \/ EndWalk
    \/ EndClaims \/ ReadLeftoverRows \/ Report
=============================================================================
