------------------------------ MODULE MCLedger ------------------------------
(* Small instances of Ledger: two markets that share an asset, so that one   *)
(* account can be buyer and seller, and hold base and quote in one balance.  *)
EXTENDS Ledger, TLC

CONSTANTS alice, bob, usd, btc, eth

MCAccounts == {alice, bob}
MCAssets == {usd, btc, eth}
MCSymbols == {"btc-usd", "eth-btc", "eth-usd"}
MCBase == [s \in {"btc-usd", "eth-btc"} |-> IF s = "btc-usd" THEN btc ELSE eth]
MCQuote == [s \in {"btc-usd", "eth-btc"} |-> IF s = "btc-usd" THEN usd ELSE btc]
MCFunding ==
    [k \in MCAccounts \X MCAssets |->
        CASE k = <<alice, usd>> -> 4
          [] k = <<alice, btc>> -> 2
          [] k = <<bob, btc>>   -> 3
          [] k = <<bob, usd>>   -> 3
          [] k = <<alice, eth>> -> 1
          [] OTHER -> 0]

=============================================================================
