----------------------------- MODULE TradeWindow -----------------------------
(***************************************************************************)
(* The sliding sum of the cumulative trade rule of the system              *)
(* (Engine.windowLargeTradeRule).  A window is the sequence of the trades  *)
(* it holds, each with its notional and its event time.  The test whether  *)
(* a trade fires the rule is the same for users (evaluateUserWindowRule).  *)
(***************************************************************************)
EXTENDS Integers, Sequences

(* The sum the loop over the trades arrives at; sum[i] is its value after   *)
(* i trades.  float64 notionals are whole numbers here: no property        *)
(* depends on how sums are rounded.                                        *)
Total(trades) ==
  LET sum[i \in 0..Len(trades)] == IF i = 0 THEN 0 ELSE sum[i - 1] + trades[i].notional
  IN  sum[Len(trades)]

(* Slips: the cutoff of a user rule, the threshold itself not reached.    *)
(* (No specification uses Faulty... definitions: each is substituted for   *)
(* the one below it to confirm that a property notices.)                   *)
FaultyKept(trades, cutoff) == SelectSeq(trades, LAMBDA x : x.at > cutoff)
FaultyCrosses(previous, total, threshold) == ~(previous >= threshold \/ total <= threshold)

(* What the same loop keeps: a trade exactly at the cutoff stays (Before). *)
KeptBySystem(trades, cutoff) ==
  LET kept[i \in 0..Len(trades)] ==
        IF i = 0 THEN <<>>
        ELSE IF trades[i].at < cutoff THEN kept[i - 1] ELSE Append(kept[i - 1], trades[i])
  IN  kept[Len(trades)]

(* A rule fires when this trade lifts the sum to the threshold.            *)
Crosses(previous, total, threshold) == ~(previous >= threshold \/ total < threshold)
=============================================================================
