---------------------------- MODULE AuditProperties ----------------------------
(***************************************************************************)
(* The exchange, its operator, the anchor contract, the sender and the     *)
(* audit together, and what an audit's verdict is worth.                   *)
(***************************************************************************)
EXTENDS Audit

Init == InitPublished /\ InitAnchoring /\ chained = <<>> /\ audit = NotStarted

\* Bounds on what happens beside an audit.  An exchange that was tampered with
\* stands still.  An honest one goes on; the sender's ticks fall before the audit
\* or between its reading of the exchange and its reading of the contract, and
\* anchors land until the audit has read the contracts.  What is still under way
\* when it has is of no more interest to it, and is left out.
BeforeAnAudit == audit.step = "none"
Unfinished == tampered = "no" /\ audit.step # "done"
ContractsUnread == tampered = "no" /\ audit.step \notin {"walk", "claims", "rows", "done"}
BetweenTicks == sender.step \in {"idle", "waiting"}
NothingUnderWay == At("idle") /\ pending = <<>>
AnAuditMayBegin == At("idle") /\ (tampered = "no" \/ NothingUnderWay)

TheExchangeAlone == (BeforeAnAudit \/ Unfinished) /\ UNCHANGED <<anchoring, chained, audit>>
TheOperatorAlone == BeforeAnAudit /\ UNCHANGED <<anchoring, chained, audit>>
TheChainAlone == (BeforeAnAudit \/ ContractsUnread) /\ UNCHANGED <<chained, audit>>
TheSenderAlone == (BeforeAnAudit \/ (tampered = "no" /\ Asks("latest"))) /\ UNCHANGED <<chained, audit>>

Next ==
    \/ \E content \in Contents : Publish(content) /\ TheExchangeAlone
    \/ \E n \in 1..BatchLimit : Commit(n) /\ TheExchangeAlone
    \/ \E n \in 0..MaxLog : Rewind(n) /\ TheOperatorAlone
    \/ \E other \in Sessions : Replace(other) /\ TheOperatorAlone
    \/ \E i \in 1..MaxLog, content \in Contents : Rewrite(i, content) /\ TheOperatorAlone
    \/ \E k \in 1..MaxLog : Doctor(k) /\ TheOperatorAlone
    \/ Land /\ TheChainAlone
    \/ AnchorChain /\ (BeforeAnAudit \/ ContractsUnread)
    \/ ReadLatest /\ TheSenderAlone
    \/ ReadEnvelope /\ TheSenderAlone
    \/ ReadClaim /\ TheSenderAlone
    \/ ReadTreeHead /\ TheSenderAlone
    \/ ReadProof /\ TheSenderAlone
    \/ Send /\ TheSenderAlone
    \/ TickEnds /\ TheSenderAlone
    \/ ReadFacts /\ AnAuditMayBegin
    \/ ReadLatestAnchor /\ BetweenTicks
    \/ \E oldest \in 1..(MaxAnchors + 1) : ScanAnchors(oldest) /\ NothingUnderWay
    \/ TheAuditGoesOn

Spec == Init /\ [][Next]_auditVars

SessionSymmetry == Permutations(Sessions)

-----------------------------------------------------------------------------
(* The verdict. *)

Done == Asks("done")
ScanComplete == audit.failed \cap {"complete", "agrees", "readable"} = {}
Honest == tampered = "no"
TamperedBeforeOnly == audit.tamperedBefore = tampered

\* What an audit may say of an honest exchange: that it could not read or
\* could not reach every anchor.
NotAnAccusation == {"complete", "agrees", "readable"}

\* An exchange that did nothing wrong is not accused, although it publishes,
\* commits and is anchored between any two requests of the audit: messages,
\* claims and trades past the cursor the audit began with are outside its view
\* (prove.rs set_trades_bound, push_claims, wants_trades).  Two things are
\* excepted: an audit that began before the first commit, and an anchor of the
\* older contract that landed after the audit had read the cursor.
NoAccusationInView ==
    Done /\ Honest /\ audit.cursor > 0
        /\ (\A i \in DOMAIN chained : chained[i].lastId <= audit.cursor)
    => audit.failed \subseteq NotAnAccusation

\* An audit that found nothing: every anchor of the root contract it set out to
\* read is a beginning of the feed the exchange serves, every claim in its view
\* is what re-executing that feed gives, and the recorded trades those claims
\* count are the trades of that feed, each in its place.  Whatever the operator
\* changed, he changed it before the audit began (prove.rs check_run).
PassedAuditMeansTheRecordStands ==
    Done /\ audit.failed = {} /\ TamperedBeforeOnly =>
        LET counted == BoundOf(audit) IN
        /\ \A i \in 1..audit.total : IsPrefix(anchored[i].root, log)
        /\ \A i \in DOMAIN claims : claims[i].to <= audit.cursor =>
              /\ claims[i].after = Upto(log, claims[i].to)
              /\ claims[i].session = audit.session
        /\ Upto(rows, counted) = Upto(FillsOf(log), counted)
        /\ counted <= Len(rows)

-----------------------------------------------------------------------------
(* The anchors. *)

\* However late its transactions land and however often the sender gives up on
\* one and sends the next, the anchors of an honest exchange are one growing
\* history, and each carries the state its own messages lead to (main.go tick,
\* exchange.go treeHead, ExchangeRootAnchor.anchor).
HonestAnchorsAreOneHistory ==
    Honest =>
        \A i \in DOMAIN anchored :
            /\ IsPrefix(anchored[i].root, log)
            /\ anchored[i].state = Upto(anchored[i].root, anchored[i].lastId)
            /\ i > 1 => /\ anchored[i - 1].size < anchored[i].size
                        /\ anchored[i - 1].lastId <= anchored[i].lastId

\* Even when the operator tampers, no transaction the sender sent contradicts
\* the newest anchor it had read: it extends that tree, in that session
\* (exchange.go checkAgainstChain and extends).
SentExtendsWhatWasRead ==
    At("waiting") =>
        LET sent == sender.sent IN
        sender.onChain > 0 =>
            LET newest == anchored[sender.onChain] IN
            /\ sent.session = newest.session
            /\ IsPrefix(newest.root, sent.root)
            /\ sent.size > newest.size
            /\ sent.lastId >= newest.lastId

\* Both: late transactions and a tampering operator between the requests of a
\* tick can neither bend what is anchored nor what the sender vouches for.
AnchorsAreOneHistory == HonestAnchorsAreOneHistory /\ SentExtendsWhatWasRead
=============================================================================
