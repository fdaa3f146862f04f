-------------------------- MODULE WitnessesProperties --------------------------
(* What validators and the mark of the exchange may be relied on for. *)
EXTENDS Witnesses

(***************************************************************************)
(* The cursor never passes what was checked: what a validator would sign,  *)
(* and what its database brings back, is a head that the feed it pinned    *)
(* really signed, over the messages the validator itself hashed.           *)
(***************************************************************************)
StandsOnSignedHead(state) ==
    state.cursor > 0 =>
        [key |-> state.key, session |-> state.session,
         last |-> state.cursor, chain |-> state.chain] \in signed

AttestsWhatWasSigned ==
    \A v \in Validators : StandsOnSignedHead(mem[v]) /\ StandsOnSignedHead(row[v])

(***************************************************************************)
(* No validator whose disk took every save vouches for two histories of    *)
(* one session: the proof of dishonesty is never produced by an honest     *)
(* one, whatever the feed serves twice, late, again from an older copy, or *)
(* to a validator whose dispute was cleared.                               *)
(***************************************************************************)
OneHistoryPerSession(v) ==
    \A x, y \in {z \in vouched : z.validator = v} :
        x.session = y.session =>
            IsPrefix(x.chain, y.chain) \/ IsPrefix(y.chain, x.chain)

HonestValidatorsVouchOnce == \A v \in Validators \ lost : OneHistoryPerSession(v)

(***************************************************************************)
(* Nobody is accused wrongly: a dispute is held only while two heads that  *)
(* cannot both be of one history carry the feed's signature.  A page that  *)
(* comes late, twice, or short of its head never looks like one.           *)
(***************************************************************************)
Fork(x, y) ==
    /\ x.key = y.key /\ x.session = y.session
    /\ ~IsPrefix(x.chain, y.chain) /\ ~IsPrefix(y.chain, x.chain)

DisputesProveAFork ==
    \A v \in Validators :
        mem[v].disputed \/ row[v].disputed => \E x, y \in signed : Fork(x, y)

(***************************************************************************)
(* The words an honest validator may give are true: what it stands on, its *)
(* vouching and its accusing (follow_feed, ingest, attest, dispute).       *)
(***************************************************************************)
HonestWordsAreTrue ==
    AttestsWhatWasSigned /\ HonestValidatorsVouchOnce /\ DisputesProveAFork

(***************************************************************************)
(* A verdict that reached the disk stands, with the position it was        *)
(* reached at, through polls, new sessions and restarts, until an operator *)
(* clears it.                                                              *)
(***************************************************************************)
Position(state) == [session |-> state.session, chain |-> state.chain]

DisputeStands ==
    [][\A v \in Validators :
         mem[v].disputed /\ row[v].disputed =>
            mem'[v].disputed /\ Position(mem'[v]) = Position(mem[v])]_vars

(***************************************************************************)
(* The mark of the exchange is backed: enough validators, each with a key  *)
(* of its own, vouched for the history the exchange itself consumed, at    *)
(* the mark or beyond it.                                                  *)
(***************************************************************************)
Backers(e) ==
    {v \in Validators : \E x \in vouched :
        /\ x.validator = v /\ x.session = e.session
        /\ Len(x.chain) >= e.mark /\ IsPrefix(x.chain, e.chain)}

Backed(e) == e.mark > 0 => Cardinality(Backers(e)) >= Needed

QuorumIsBacked == ~stray => Backed(engine)

\* The same of every mark, as its comment has it: "counting only validators
\* whose chain matches the exchange's chain".
EveryMarkIsBacked == Backed(engine)

(***************************************************************************)
(* What the rounds observe while a batch is committed survives the swap:   *)
(* the mark falls only when its run or its process ends.                   *)
(***************************************************************************)
MarkOutlivesCommits ==
    [][engine'.mark < engine.mark => engine'.chain = <<>> \/ scene' # scene]_vars
=============================================================================
