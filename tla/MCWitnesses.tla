----------------------------- MODULE MCWitnesses -----------------------------
(***************************************************************************)
(* Two validators behind three URLs, one of them twice, so that two of     *)
(* three voices must be two validators.                                    *)
(***************************************************************************)
EXTENDS WitnessesProperties, TLC

CONSTANTS v1, v2, a, b, feedKey, strangerKey, none

MCUrls == <<"u1", "u2", "u3">>
MCBehind == <<v1, v2, v2>>

Scene(who, counts) ==
    [active |-> who,
     left |-> [e \in Events |-> IF e \in DOMAIN counts THEN counts[e] ELSE 0]]

\* One validator with everything that can happen to it; then two of them and
\* the exchange: across histories, across a fork, across restarts.
MCScenes ==
    {Scene({v1}, [sessions |-> 1, losses |-> 1, saves |-> 1, noise |-> 1, strangers |-> 1,
                  restarts |-> 1, clears |-> 1]),
     Scene({v1, v2}, [sessions |-> 1, commits |-> 2, rounds |-> 1]),
     Scene({v1, v2}, [losses |-> 1, commits |-> 2, rounds |-> 1]),
     Scene({v1, v2}, [noise |-> 1, commits |-> 2, rounds |-> 1, silences |-> 1, engineRestarts |-> 1]),
     Scene({v1, v2}, [redeploys |-> 1, commits |-> 1, rounds |-> 2])}

BodySymmetry == Permutations(Bodies)
=============================================================================
