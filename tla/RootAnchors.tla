------------------------------ MODULE RootAnchors ------------------------------
(***************************************************************************)
(* The anchor contract, the chain's pending transactions, and the sender   *)
(* of src/anchor: a tick reads the contract, then the exchange, one        *)
(* request at a time, checks what it read, and sends one transaction,      *)
(* which may land after the sender stopped waiting for it, or never.       *)
(*                                                                         *)
(* An anchor is [size, session, root, lastId, state].                      *)
(***************************************************************************)
EXTENDS Published

CONSTANTS MaxAnchors, MaxPending    \* bounds: anchors, and transactions not yet landed

VARIABLES
    anchored,   \* the contract: every anchor it holds, oldest first
    pending,    \* transactions sent and not landed, in the order of their nonces
    sender      \* where the tick stands and what it has read

anchoring == <<anchored, pending, sender>>

Idle == [step |-> "idle"]

InitAnchoring == anchored = <<>> /\ pending = <<>> /\ sender = Idle

-----------------------------------------------------------------------------
(* ExchangeRootAnchor.anchor. *)

\* A slip the runs must notice: any tree is taken, a smaller one too.
TakesAnyTree(held, a) ==
    /\ held # <<>> => a.session = Last(held).session
    /\ a.lastId <= a.size

Takes(held, a) ==
    /\ held # <<>> => /\ a.session = Last(held).session
                      /\ a.size > Last(held).size
                      /\ a.lastId >= Last(held).lastId
    /\ a.size > 0
    /\ a.lastId <= a.size

\* The oldest transaction lands: it is written, or it reverts.
Land ==
    /\ pending # <<>>
    /\ pending' = Tail(pending)
    /\ anchored' = IF Takes(anchored, Head(pending)) THEN Append(anchored, Head(pending))
                   ELSE anchored
    /\ sender' = IF sender.step = "waiting" /\ Len(pending) = 1 THEN Idle ELSE sender
    /\ UNCHANGED published

-----------------------------------------------------------------------------
(* The sender. *)

At(step) == sender.step = step
GoesOn(next) == sender' = next /\ UNCHANGED <<published, anchored, pending>>
IfOr(holds, next) == GoesOn(IF holds THEN next ELSE Idle)

\* `onChain` is the number of anchors the contract held; 0 is Empty.
ReadLatest == At("idle") /\ GoesOn([step |-> "envelope", onChain |-> Len(anchored)])

ReadEnvelope ==
    /\ At("envelope")
    /\ IfOr(Cursor > 0, [step |-> "claim", onChain |-> sender.onChain,
                         session |-> session, lastId |-> Cursor])

\* The claim that ends at the cursor, signed for the session of the envelope.
ReadClaim ==
    LET found == {c \in ToSet(claims) : c.to = sender.lastId /\ c.session = sender.session}
    IN  /\ At("claim")
        /\ IfOr(found # {},
                [step |-> "head", onChain |-> sender.onChain, session |-> sender.session,
                 lastId |-> sender.lastId, state |-> (CHOOSE c \in found : TRUE).after])

ContradictsChain(read, signed) ==
    LET newest == anchored[read.onChain]
    IN  \/ read.session # newest.session
        \/ Len(signed) < newest.size
        \/ Len(signed) = newest.size /\ signed # newest.root
        \/ read.lastId < newest.lastId

\* The tree head the feed signs now; equal sizes leave nothing new to anchor.
ReadTreeHead ==
    LET read == [session |-> sender.session, lastId |-> sender.lastId, state |-> sender.state,
                 size |-> Len(log), root |-> log, onChain |-> sender.onChain]
        empty == sender.onChain = 0
    IN  /\ At("head")
        /\ IfOr(/\ session = sender.session
                /\ Len(log) >= sender.lastId
                /\ empty \/ ~ContradictsChain(read, log)
                /\ empty \/ Len(log) > anchored[sender.onChain].size,
                [step |-> IF empty THEN "send" ELSE "proof"] @@ read)

\* The feed's tree, as it is now, proves the step from one size to the other.
ProvesExtension(first, second, old, new) ==
    /\ second <= Len(log)
    /\ Upto(log, first) = old /\ Upto(log, second) = new

ReadProof ==
    LET newest == anchored[sender.onChain]
    IN  /\ At("proof")
        /\ IfOr(ProvesExtension(newest.size, sender.size, newest.root, sender.root),
                [sender EXCEPT !.step = "send"])

Facts == [size |-> sender.size, session |-> sender.session, root |-> sender.root,
          lastId |-> sender.lastId, state |-> sender.state]

\* The gas estimate runs the call on the newest block: it must not revert there.
Send ==
    /\ At("send")
    /\ Len(pending) < MaxPending /\ Len(anchored) + Len(pending) < MaxAnchors
    /\ IF Takes(anchored, Facts)
       THEN /\ pending' = Append(pending, Facts)
            /\ sender' = [step |-> "waiting", sent |-> Facts, onChain |-> sender.onChain]
       ELSE sender' = Idle /\ UNCHANGED pending
    /\ UNCHANGED <<published, anchored>>

\* A failed request, a transaction that did not land in time, or a restart:
\* the next tick begins from nothing.
TickEnds == ~At("idle") /\ GoesOn(Idle)
=============================================================================
