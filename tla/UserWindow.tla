------------------------------ MODULE UserWindow ------------------------------
(***************************************************************************)
(* The trade windows of user rules (Pipeline.evaluateUserWindowRule): the  *)
(* sorted set in Redis, which one script prunes, sums and extends, and     *)
(* which expires; and the list in process memory that stands in for it     *)
(* when no Redis is configured.  Both are fed with the same trades here,   *)
(* so that they can be compared.                                           *)
(*                                                                         *)
(* A member of the sorted set is "id:notional" with the event time as its  *)
(* score, a record here; of the list only the arrivals matter, not their   *)
(* order.  One time unit is a second; Slack is the 60 the script adds to   *)
(* the lifetime.  The code bounds the event time nowhere: a trade may be   *)
(* as old, or as far ahead of the clock, as Times allows.                  *)
(***************************************************************************)
EXTENDS TradeWindow, FiniteSetsExt

CONSTANTS
  Windows,      \* one for each user rule and market
  Ids,          \* event ids
  Notionals,    \* sizes of trades
  Lengths,      \* values of window_sec a user may choose
  Thresholds,   \* values of threshold a user may choose
  Times,        \* event times, whenever the events are handled
  Slack,        \* lifetime of the key beyond the length of the window
  MaxTime,      \* bound of the clock
  MaxArrivals   \* bound: trades and replays handled in total

ASSUME WindowAssumption ==
  /\ Notionals \subseteq Nat \ {0}
  /\ Lengths \subseteq Nat \ {0}
  /\ Thresholds \subseteq Nat \ {0}
  /\ Times \subseteq Int
  /\ Slack \in Nat
  /\ MaxTime \in Nat /\ MaxArrivals \in Nat

Trade == [id : Ids, notional : Notionals, at : Times]

VARIABLES
  now,         \* the clock
  rule,        \* rule[k]: length and threshold of the rule of window k
  zset,        \* zset[k]: what the script left under the key
  expires,     \* expires[k]: when the key expires
  memory,      \* memory[k]: the arrivals a process without Redis holds
  arrivals,    \* number of arrivals
  fired,       \* fired[k]: the last update raised an alert
  used,        \* history: used[k]: length of the window at the last update
  lost,        \* history: lost[k]: the answer of the last update was lost
  total        \* history: total[k]: threshold and sum at the last update

stateVars == <<zset, expires, memory>>
historyVars == <<used, lost, total>>
vars == <<now, rule, stateVars, arrivals, fired, historyVars>>

Init ==
  /\ now = 0
  /\ rule \in [Windows -> [sec : Lengths, threshold : Thresholds]]
  /\ zset = [k \in Windows |-> {}]
  /\ expires = [k \in Windows |-> 0]
  /\ memory = [k \in Windows |-> {}]
  /\ arrivals = 0
  /\ fired = [k \in Windows |-> FALSE]
  /\ used = [k \in Windows |-> 0]
  /\ lost = [k \in Windows |-> FALSE]
  /\ total = [k \in Windows |-> [threshold |-> 0, sum |-> 0]]

-----------------------------------------------------------------------------
(* The loop over the members, or over the kept items of the list.          *)
Sum(items) == MapThenSumSet(LAMBDA x : x.notional, items)

(* Definitions named Faulty... are slips; no specification uses them, each *)
(* is substituted for the one below it to confirm that a property notices. *)
(* The lifetime of the key is the length of the window.                    *)
FaultyLifetime(sec) == sec

(* ZREMRANGEBYSCORE key -inf cutoff: a trade at the cutoff goes.           *)
After(items, cutoff) == {x \in items : x.at > cutoff}

Lifetime(sec) == sec + Slack

(* What the script finds under the key.                                    *)
Live(k) == IF now < expires[k] THEN zset[k] ELSE {}

(* The script counts and adds, and prunes nothing.                         *)
FaultyUnpruned(k, e) ==
  /\ zset' = [zset EXCEPT ![k] = Live(k) \cup {e}]
  /\ expires' = [expires EXCEPT ![k] = now + Lifetime(rule[k].sec)]

SameMember(x, y) == x.id = y.id /\ x.notional = y.notional

(* updateRedisUserWindow: the script.  ZADD of a member that is there only *)
(* gives it its new score.                                                 *)
Script(k, e) ==
  LET others == {x \in After(Live(k), e.at - rule[k].sec) : ~SameMember(x, e)} IN
  /\ zset' = [zset EXCEPT ![k] = others \cup {e}]
  /\ expires' = [expires EXCEPT ![k] = now + Lifetime(rule[k].sec)]

(* updateMemoryUserWindow: a replay is a further item.  When an item came  *)
(* in is history.                                                          *)
Remember(k, e) ==
  LET kept == {x \in memory[k] : x.trade.at > e.at - rule[k].sec} IN
  memory' = [memory EXCEPT ![k] = kept \cup {[trade |-> e, n |-> arrivals, came |-> now]}]

(* evaluateUserWindowRule for the trade e.  The reply of the script may be *)
(* lost, or the request cancelled: the trade is in, the rule not decided.  *)
Update(k, e) ==
  LET previous == Sum(After(Live(k), e.at - rule[k].sec))
      sum == previous + e.notional IN
  /\ Script(k, e)
  /\ Remember(k, e)
  /\ arrivals' = arrivals + 1
  /\ \E answered \in BOOLEAN :
       /\ fired' = [fired EXCEPT ![k] = answered /\ Crosses(previous, sum, rule[k].threshold)]
       /\ lost' = [lost EXCEPT ![k] = ~answered]
  /\ used' = [used EXCEPT ![k] = rule[k].sec]
  /\ total' = [total EXCEPT ![k] = [threshold |-> rule[k].threshold, sum |-> sum]]
  /\ UNCHANGED <<now, rule>>

(* A trade of the market comes from the bus, or from replay-event: late,   *)
(* early, in any order, and an id may come again, with whatever content.   *)
HandleTrade(k) ==
  /\ arrivals < MaxArrivals
  /\ \E e \in Trade : Update(k, e)

(* The user edits the rule.                                                *)
ChangeRule(k) ==
  /\ \E r \in [sec : Lengths, threshold : Thresholds] :
       r # rule[k] /\ rule' = [rule EXCEPT ![k] = r]
  /\ UNCHANGED <<now, stateVars, arrivals, fired, historyVars>>

Tick ==
  /\ now < MaxTime
  /\ now' = now + 1
  /\ UNCHANGED <<rule, stateVars, arrivals, fired, historyVars>>

Next == Tick \/ \E k \in Windows : HandleTrade(k) \/ ChangeRule(k)

Spec == Init /\ [][Next]_vars

-----------------------------------------------------------------------------
(* Type correctness.                                                       *)
TypeOK ==
  /\ now \in Nat
  /\ rule \in [Windows -> [sec : Lengths, threshold : Thresholds]]
  /\ zset \in [Windows -> SUBSET Trade]
  /\ expires \in [Windows -> Nat]
  /\ memory \in [Windows -> SUBSET [trade : Trade, n : Nat, came : Nat]]
  /\ arrivals \in Nat
  /\ fired \in [Windows -> BOOLEAN]
  /\ used \in [Windows -> Nat]
  /\ lost \in [Windows -> BOOLEAN]
  /\ total \in [Windows -> [threshold : Nat, sum : Nat]]

Held(k) == {x.trade : x \in memory[k]}

(* Redis never counts a trade the process alone would not count, whatever  *)
(* expires, is replayed or edited.                                         *)
NeverMore == \A k \in Windows : zset[k] \subseteq Held(k)

(* The lifetime of the key (EXPIRE key windowSec + 60) is long enough but  *)
(* for one case: a trade which the window still reaches, and a list would  *)
(* keep, leaves Redis unless its own event comes again only when the time  *)
(* it came ahead of its event time, the time the next trade comes late,    *)
(* and the seconds the user has added to the window meanwhile together     *)
(* exceed those 60.                                                        *)
ExpiryCosts ==
  [][\A k \in Windows : \A x \in memory[k] \cap memory'[k] :
       x.trade \in zset[k] \ zset'[k] =>
         \E y \in memory'[k] \ memory[k] :
           \/ SameMember(x.trade, y.trade)
           \/ (x.trade.at - x.came) + (now - y.trade.at) + (rule[k].sec - used[k]) > Slack]_vars

(* A rise of the sum over an unchanged threshold raises an alert, unless   *)
(* the answer of that update is lost (evaluateUserWindowRule).             *)
RisesNoticed ==
  [][\A k \in Windows :
       /\ total'[k] # total[k]
       /\ total[k].threshold = total'[k].threshold
       /\ total[k].sum < total[k].threshold
       /\ total'[k].sum >= total'[k].threshold
       => fired'[k] \/ lost'[k]]_vars
=============================================================================
