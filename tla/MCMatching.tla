------------------------------ MODULE MCMatching ------------------------------
(***************************************************************************)
(* A synthetic (unfunded) exchange with one symbol: limit, immediate,      *)
(* fill-or-kill, post-only and market orders of two accounts, with a       *)
(* machine integer small enough for a position to overflow on the second   *)
(* or third fill of an order.                                              *)
(***************************************************************************)
EXTENDS CheckedExchange, TLC

CONSTANTS alice, bob, gold, eth, op, eve, nobody

MCNoMarket == [s \in {} |-> gold]
MCNoFunding == [k \in Keys |-> 0]

Limit(side, limit, qty, tif, postOnly) ==
    [side |-> side, limit |-> limit, qty |-> qty, market |-> FALSE,
     tif |-> tif, postOnly |-> postOnly]

MCForms ==
    {Limit("sell", 1, 1, "GTC", FALSE), Limit("sell", 2, 2, "GTC", FALSE),
     Limit("sell", 2, 1, "GTC", TRUE),
     Limit("buy", 1, 2, "GTC", FALSE), Limit("buy", 2, 3, "GTC", FALSE),
     Limit("buy", 2, 3, "FOK", FALSE),
     [Limit("buy", 3, 2, "IOC", FALSE) EXCEPT !.market = TRUE],
     [Limit("sell", 1, 2, "GTC", FALSE) EXCEPT !.market = TRUE]}

MCReferences == {NoReference, 3}
MCSteps == {[price |-> 1, qty |-> 1]}
MCVersions == {2}

NameSymmetry == Permutations(Accounts) \cup Permutations(Signers)

=============================================================================
