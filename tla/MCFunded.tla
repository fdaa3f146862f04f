------------------------------- MODULE MCFunded -------------------------------
(***************************************************************************)
(* A funded exchange: markets of a base and a quote asset that are listed, *)
(* closed and listed again on two grids under the key of one of two        *)
(* signers, two accounts whose grants cover some of the orders and not     *)
(* others, a ledger integer small enough for a credit to overflow, and     *)
(* limits on orders, positions and symbols small enough to be met.         *)
(***************************************************************************)
EXTENDS ExchangeProperties, TLC

CONSTANTS alice, bob, coin, usd, eth, btc, sol, intruder, op, nobody

MCBase == [s \in {eth, btc, sol} |-> coin]
MCQuote == [s \in {eth, btc, sol} |-> usd]
MCFunding == [k \in Keys |-> CASE k = <<alice, coin>> -> 4 [] k = <<alice, usd>> -> 2
                               [] k = <<bob, usd>> -> 5    [] OTHER -> 0]

Limit(side, limit, qty, tif) ==
    [side |-> side, limit |-> limit, qty |-> qty, market |-> FALSE,
     tif |-> tif, postOnly |-> FALSE]

MCForms ==
    {Limit("sell", 1, 1, "GTC"), Limit("sell", 2, 2, "GTC"),
     Limit("buy", 1, 2, "GTC"), Limit("buy", 2, 1, "GTC"), Limit("buy", 2, 3, "GTC"),
     Limit("buy", 2, 2, "IOC"), Limit("sell", 1, 2, "IOC"),
     Limit("buy", 2, 2, "FOK"), Limit("sell", 1, 2, "FOK"),
     [Limit("buy", 3, 1, "IOC") EXCEPT !.market = TRUE]}

MCReferences == {2}
MCSteps == {[price |-> 1, qty |-> 1], [price |-> 2, qty |-> 2], [price |-> 1, qty |-> 0]}
MCVersions == {1, 2, 3}

NameSymmetry == Permutations(Symbols) \cup Permutations(Signers)
=============================================================================
