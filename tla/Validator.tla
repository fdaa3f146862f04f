------------------------------ MODULE Validator ------------------------------
(***************************************************************************)
(* What a validator does with one answer of the feed, as operators on its  *)
(* state: the session it follows, the feed key it pinned, the last message *)
(* it verified, the chain up to there, whether it caught the feed signing  *)
(* another history than it served, and how many polls in a row it could    *)
(* not check.  A chain is the sequence of bodies it was hashed from.       *)
(***************************************************************************)
EXTENDS Integers, Sequences, FiniteSetsExt, SequencesExt

CONSTANTS
    NoSession,      \* no session was followed yet
    NoKey,          \* no key was pinned yet
    StallAfter      \* unchecked polls in a row before a validator is stalled

ASSUME StallAssumption == StallAfter \in Nat \ {0}

Fresh == [session |-> NoSession, key |-> NoKey, cursor |-> 0, chain |-> <<>>,
          disputed |-> FALSE, unchecked |-> 0]

Stalled(v) == v.unchecked >= StallAfter

Vouching(v) == ~v.disputed /\ ~Stalled(v)

\* The answer proves nothing.  The count stops at the bound that matters.
Unchecked(v) == [v EXCEPT !.unchecked = Min({@ + 1, StallAfter})]

(***************************************************************************)
(* An answer is [head, verifies, messages]: a head [key, session, last,    *)
(* chain], whether its signature verifies, and messages [id, body].        *)
(***************************************************************************)

Trusted(v, r) == r.verifies /\ v.key \in {NoKey, r.head.key}

\* The key is pinned; another session is followed from its first message.
Following(v, r) ==
    IF v.session = r.head.session THEN [v EXCEPT !.key = r.head.key]
    ELSE [Fresh EXCEPT !.key = r.head.key, !.session = r.head.session,
                       !.disputed = v.disputed]

\* A slip the runs must notice: a message answered twice is taken for the next.
CoveredByHead(v, r) == r.head.last >= v.cursor + Len(r.messages)

\* The ids continue the cursor and the head stands at the last of them.
Covered(v, r) ==
    /\ \A i \in DOMAIN r.messages : r.messages[i].id = v.cursor + i
    /\ r.head.last = v.cursor + Len(r.messages)

Hashed(v, r) == v.chain \o [i \in DOMAIN r.messages |-> r.messages[i].body]

Verified(v, r) == [v EXCEPT !.cursor = r.head.last, !.chain = Hashed(v, r), !.unchecked = 0]

Ingest(v, r) ==
    IF ~Trusted(v, r) THEN Unchecked(v)
    ELSE LET w == Following(v, r)
         IN IF ~Covered(w, r) THEN Unchecked(w)
            ELSE IF Hashed(w, r) # r.head.chain THEN [w EXCEPT !.disputed = TRUE]
            ELSE Verified(w, r)

\* A slip the runs must notice: a cleared validator begins at the first message.
ClearedToStart(row) == [Fresh EXCEPT !.key = row.key]

\* The operator's edit of the row.
Cleared(row) == [row EXCEPT !.disputed = FALSE, !.unchecked = 0]
=============================================================================
