--------------------------- MODULE MCAlertPipeline ---------------------------
(* Small instances of AlertPipeline: market events of one symbol, user     *)
(* rules of one or two accounts, and the delivery settings that take       *)
(* different routes.                                                       *)
EXTENDS AlertPipeline, TLC

CONSTANTS e1, e2, r1, r2, uA, uB, btc, w1, w2

(* Events of one symbol and one kind.                                      *)
TwoEvents == {e1, e2}
Liquidations == [e \in Events |-> "liquidation"]
Trades == [e \in Events |-> "agg_trade"]
MCSymbolOf == [e \in Events |-> btc]

(* Liquidations always reach the threshold; a trade raises nothing, its    *)
(* own alert, or the alert of the window too; all system rules are off.    *)
RaisesLiquidation == [e \in Events |-> {<<"liquidation">>}]
RaisesTrade == [e \in Events |-> {<<>>, <<"large_trade">>}]
RaisesBoth == [e \in Events |-> {<<>>, <<"large_trade", "large_trade_window">>}]
RaisesNone == [e \in Events |-> {<<>>}]

(* Handlers, and events of one kind and symbol, are interchangeable.       *)
MCWorkers == {w1, w2}
Interchangeable == Permutations(MCWorkers) \cup Permutations(TwoEvents)
HandlersInterchangeable == Permutations(MCWorkers)

(* A rule of each type a trade can satisfy; a rule on liquidations.        *)
MCRuleSymbol == [r \in Rules |-> btc]
TradeRules == [r \in Rules |-> IF r = r1 THEN "large_trade" ELSE "large_trade_window"]
LiquidationRule == [r \in Rules |-> "liquidation"]
OneOwner == [r \in Rules |-> uA]
TwoOwners == [r \in Rules |-> IF r = r1 THEN uA ELSE uB]

(* RetryMaxAttempts is a setting (3 by default); a webhook posts once.     *)
OneAttempt == [c \in 0..Channels |-> 1]
TwoAttempts == [c \in 0..Channels |-> 2]
WebhookAttempts == [c \in 0..Channels |-> IF c = 0 THEN 2 ELSE 1]

Profile(delivery, quiet, digest) ==
  [active |-> TRUE, bound |-> TRUE, delivery |-> delivery, quiet |-> quiet, digest |-> digest]

Direct == Profile(TRUE, {}, FALSE)
Quiet == Profile(TRUE, {e1}, TRUE)
Digest == Profile(TRUE, {}, TRUE)
Unbound == [Direct EXCEPT !.bound = FALSE]

DirectOnly == {Direct}
AllRoutes == {Direct, Quiet, Digest, Unbound}
=============================================================================
