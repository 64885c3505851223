------------------------------ MODULE RuleEngine ------------------------------
(***************************************************************************)
(* rule.Engine and rule.RuntimeRuleService for one exchange and symbol.    *)
(*                                                                         *)
(* Requests of the rule API write the table alert_rules and then the       *)
(* overrides of the engine, two steps of concurrent requests; a start      *)
(* loads the overrides from the table.  Evaluations of market events run   *)
(* at the same time: they read one threshold after the other, each under   *)
(* its own read lock, and update the trade window of the market under the  *)
(* write lock.                                                             *)
(***************************************************************************)
EXTENDS TradeWindow, FiniteSets

CONSTANTS
  Writers,      \* requests POST /api/v1/rules that can be under way at a time
  Evaluators,   \* goroutines that call Engine.Evaluate
  Markets,      \* market types of the symbol: each has its own window
  Kinds,        \* the event types that occur
  Thresholds,   \* thresholds a rule may be given
  Seconds,      \* window_sec a rule may be given
  Fallback,     \* Fallback[t]: threshold of rule type t in the configuration
  WindowSec,    \* LargeTradeWindowSec of the configuration
  Notionals,    \* sizes of events
  None,         \* no row, no rule, no event
  MaxWrites,    \* bound: writes requested in total
  MaxEvents,    \* bound: events evaluated in total
  MaxCrashes,   \* bound: restarts of the process
  MaxTime       \* bound of event times

SingleRule == [agg_trade |-> "large_trade", liquidation |-> "liquidation",
               funding |-> "funding_anomaly"]
RuleTypes == {SingleRule[k] : k \in Kinds}
               \cup (IF "agg_trade" \in Kinds THEN {"large_trade_window"} ELSE {})

ASSUME EngineAssumption ==
  /\ Kinds \subseteq DOMAIN SingleRule
  /\ Thresholds \subseteq Nat \ {0}
  /\ Seconds \subseteq Nat \ {0}
  /\ Notionals \subseteq Nat \ {0}
  /\ Fallback \in [RuleTypes -> Nat]
  /\ WindowSec \in Nat
  /\ MaxWrites \in Nat /\ MaxEvents \in Nat /\ MaxCrashes \in Nat /\ MaxTime \in Nat

Rule == [type : RuleTypes, threshold : Thresholds, sec : Seconds, enabled : BOOLEAN]
Override == [threshold : Thresholds, enabled : BOOLEAN]
Event == [kind : Kinds, market : Markets, notional : Notionals, at : 0..MaxTime]

ASSUME NoneAssumption == None \notin Rule \cup Override \cup Event

VARIABLES
  up,          \* the process runs
  rows,        \* rows[t]: the system row of alert_rules for rule type t, or None
  overrides,   \* overrides[t]: Engine.overrides, or None
  windows,     \* windows[m]: Engine.windows, the trades of market m
  wpc,         \* wpc[w]: next step of request w
  rule,        \* rule[w]: what it writes
  epc,         \* epc[v]: next step of evaluation v
  event,       \* event[v]: the event it evaluates, or evaluated last
  threshold,   \* threshold[v]: the window threshold it has read
  alerts,      \* alerts[v]: the rule types of the alerts it has collected
  writes,      \* number of writes requested
  count,       \* number of events evaluated
  crashes,     \* number of restarts
  promised,    \* history: promised[t]: the last rule the API acknowledged, or None
  settled,     \* history: settled[v]: types whose promise has stood since v began
  passed,      \* history: passed[m]: the trades the window of m has taken in
  before       \* history: before[m]: threshold and total of the last update of m

dataVars == <<rows, overrides>>
writerVars == <<wpc, rule>>
evaluatorVars == <<epc, event, threshold, alerts>>
historyVars == <<promised, settled>>
windowVars == <<windows, passed, before>>
boundVars == <<writes, count, crashes>>
vars == <<up, dataVars, writerVars, evaluatorVars, windowVars, boundVars, historyVars>>

Empty == [m \in Markets |-> <<>>]
Unmeasured == [m \in Markets |-> [threshold |-> 0, total |-> 0]]

Init ==
  /\ up = FALSE
  /\ rows = [t \in RuleTypes |-> None]
  /\ overrides = [t \in RuleTypes |-> None]
  /\ windows = Empty
  /\ wpc = [w \in Writers |-> "idle"]
  /\ rule = [w \in Writers |-> None]
  /\ epc = [v \in Evaluators |-> "idle"]
  /\ event = [v \in Evaluators |-> None]
  /\ threshold = [v \in Evaluators |-> 0]
  /\ alerts = [v \in Evaluators |-> {}]
  /\ settled = [v \in Evaluators |-> {}]
  /\ writes = 0
  /\ count = 0
  /\ crashes = 0
  /\ promised = [t \in RuleTypes |-> None]
  /\ passed = Empty
  /\ before = Unmeasured

-----------------------------------------------------------------------------
(***************************************************************************)
(* Start and stop                                                          *)
(***************************************************************************)

AsOverride(r) == [threshold |-> r.threshold, enabled |-> r.enabled]

(* Definitions named Faulty... are slips a change to the code could make;   *)
(* no specification uses them.  Each is substituted for the definition     *)
(* below it to confirm that a property notices.                            *)

(* Only enabled rows are loaded, as the query for user rules does.         *)
FaultyLoad ==
  /\ ~up
  /\ up' = TRUE
  /\ overrides' = [t \in RuleTypes |->
       IF rows[t] = None THEN None
       ELSE IF rows[t].enabled THEN AsOverride(rows[t]) ELSE None]
  /\ UNCHANGED <<rows, writerVars, evaluatorVars, windowVars, boundVars, historyVars>>

(* RuntimeRuleService.Load, before anything else runs.                     *)
Load ==
  /\ ~up
  /\ up' = TRUE
  /\ overrides' = [t \in RuleTypes |-> IF rows[t] = None THEN None ELSE AsOverride(rows[t])]
  /\ UNCHANGED <<rows, writerVars, evaluatorVars, windowVars, boundVars, historyVars>>

(* A request w that has not been answered may have changed the row of t.   *)
Pending(w, t) == wpc[w] # "idle" /\ rule[w].type = t

Crash ==
  /\ up
  /\ crashes < MaxCrashes
  /\ crashes' = crashes + 1
  /\ up' = FALSE
  /\ overrides' = [t \in RuleTypes |-> None]
  /\ windows' = Empty
  /\ wpc' = [w \in Writers |-> "idle"]
  /\ rule' = [w \in Writers |-> None]
  /\ epc' = [v \in Evaluators |-> "idle"]
  /\ event' = [v \in Evaluators |-> None]
  /\ threshold' = [v \in Evaluators |-> 0]
  /\ alerts' = [v \in Evaluators |-> {}]
  /\ settled' = [v \in Evaluators |-> {}]
  /\ promised' = [t \in RuleTypes |-> IF \E w \in Writers : Pending(w, t)
                                        THEN None ELSE promised[t]]
  /\ passed' = Empty
  /\ before' = Unmeasured
  /\ UNCHANGED <<rows, writes, count>>

-----------------------------------------------------------------------------
(***************************************************************************)
(* A request writes a system rule                                          *)
(***************************************************************************)

GotoW(w, label) == wpc' = [wpc EXCEPT ![w] = label]

(* The request keeps its place.                                            *)
FaultyWriterDone(w) == GotoW(w, "answered") /\ UNCHANGED rule
WriterDone(w) == GotoW(w, "idle") /\ rule' = [rule EXCEPT ![w] = None]

Post(w) ==
  /\ up
  /\ wpc[w] = "idle"
  /\ writes < MaxWrites
  /\ writes' = writes + 1
  /\ \E r \in Rule :
       /\ rule' = [rule EXCEPT ![w] = r]
       /\ settled' = [v \in Evaluators |-> settled[v] \ {r.type}]
  /\ GotoW(w, "update")
  /\ UNCHANGED <<up, dataVars, evaluatorVars, windowVars, count, crashes, promised>>

(* UPDATE alert_rules; no row affected leads on to the INSERT.             *)
Update(w) ==
  LET r == rule[w] IN
  /\ wpc[w] = "update"
  /\ \/ /\ rows[r.type] # None
        /\ rows' = [rows EXCEPT ![r.type] = r]
        /\ GotoW(w, "apply")
     \/ /\ rows[r.type] = None
        /\ GotoW(w, "insert")
        /\ UNCHANGED rows
  /\ UNCHANGED <<up, overrides, rule, evaluatorVars, windowVars, boundVars, historyVars>>

(* INSERT, when the row is still missing.                                  *)
Insert(w) ==
  LET r == rule[w] IN
  /\ wpc[w] = "insert"
  /\ rows[r.type] = None
  /\ rows' = [rows EXCEPT ![r.type] = r]
  /\ GotoW(w, "apply")
  /\ UNCHANGED <<up, overrides, rule, evaluatorVars, windowVars, boundVars, historyVars>>

(* Answered with an error: the unique index refuses a second row, a        *)
(* statement fails, or the answer to one that took effect is lost.         *)
WriteFails(w) ==
  LET r == rule[w] IN
  /\ wpc[w] \in {"update", "insert"}
  /\ \/ UNCHANGED rows
     \/ (rows[r.type] # None <=> wpc[w] = "update") /\ rows' = [rows EXCEPT ![r.type] = r]
  /\ promised' = [promised EXCEPT ![r.type] = None]
  /\ WriterDone(w)
  /\ UNCHANGED <<up, overrides, evaluatorVars, windowVars, boundVars, settled>>

(* Engine.ApplyRule, then the answer "rule updated".                       *)
Apply(w) ==
  LET r == rule[w] IN
  /\ wpc[w] = "apply"
  /\ overrides' = [overrides EXCEPT ![r.type] = AsOverride(r)]
  /\ promised' = [promised EXCEPT ![r.type] = r]
  /\ WriterDone(w)
  /\ UNCHANGED <<up, rows, evaluatorVars, windowVars, boundVars, settled>>

-----------------------------------------------------------------------------
(***************************************************************************)
(* An evaluation                                                           *)
(***************************************************************************)

(* The switch of an override is derived like that of the configuration.    *)
FaultyThresholdFor(t) ==
  LET found == IF overrides[t] = None THEN Fallback[t] ELSE overrides[t].threshold IN
  [threshold |-> found, enabled |-> found > 0]

(* Engine.thresholdFor                                                     *)
ThresholdFor(t) ==
  IF overrides[t] = None
    THEN [threshold |-> Fallback[t], enabled |-> Fallback[t] > 0]
    ELSE overrides[t]

GotoE(v, label) == epc' = [epc EXCEPT ![v] = label]

Acknowledged(t) == promised[t] # None /\ \A w \in Writers : ~Pending(w, t)

(* Engine.Evaluate begins.  Event times are those of the exchange or of a  *)
(* replay: they come in any order.                                         *)
Evaluate(v) ==
  /\ up
  /\ epc[v] = "idle"
  /\ count < MaxEvents
  /\ count' = count + 1
  /\ \E e \in Event : event' = [event EXCEPT ![v] = e]
  /\ alerts' = [alerts EXCEPT ![v] = {}]
  /\ settled' = [settled EXCEPT ![v] = {t \in RuleTypes : Acknowledged(t)}]
  /\ GotoE(v, "single")
  /\ UNCHANGED <<up, dataVars, writerVars, windowVars, threshold, writes, crashes, promised>>

(* largeTradeRule, liquidationRule, fundingRule: of the three rules that   *)
(* look at the event alone, the one of its kind decides.                   *)
EvaluateSingle(v) ==
  LET t == SingleRule[event[v].kind]
      inForce == ThresholdFor(t) IN
  /\ epc[v] = "single"
  /\ alerts' = [alerts EXCEPT ![v] =
       IF inForce.enabled /\ event[v].notional >= inForce.threshold THEN {t} ELSE {}]
  /\ GotoE(v, IF event[v].kind = "agg_trade" THEN "threshold" ELSE "idle")
  /\ UNCHANGED <<up, dataVars, writerVars, event, threshold, windowVars, boundVars, historyVars>>

(* windowLargeTradeRule: a rule that is off leaves the window alone.       *)
ReadThreshold(v) ==
  LET inForce == ThresholdFor("large_trade_window") IN
  /\ epc[v] = "threshold"
  /\ IF inForce.enabled
       THEN /\ threshold' = [threshold EXCEPT ![v] = inForce.threshold]
            /\ GotoE(v, "window")
       ELSE /\ GotoE(v, "idle")
            /\ UNCHANGED threshold
  /\ UNCHANGED <<up, dataVars, writerVars, event, alerts, windowVars, boundVars, historyVars>>

Span == IF WindowSec > 0 THEN WindowSec ELSE 60

(* windowLargeTradeRule, from the Lock on.                                 *)
UpdateWindow(v) ==
  LET e == event[v]
      m == e.market
      kept == KeptBySystem(windows[m], e.at - Span)
      trade == [notional |-> e.notional, at |-> e.at]
      total == Total(kept) + e.notional IN
  /\ epc[v] = "window"
  /\ windows' = [windows EXCEPT ![m] = Append(kept, trade)]
  /\ alerts' = [alerts EXCEPT ![v] = IF Crosses(Total(kept), total, threshold[v])
                                       THEN @ \cup {"large_trade_window"} ELSE @]
  /\ passed' = [passed EXCEPT ![m] = Append(@, trade)]
  /\ before' = [before EXCEPT ![m] = [threshold |-> threshold[v], total |-> total]]
  /\ threshold' = [threshold EXCEPT ![v] = 0]
  /\ GotoE(v, "idle")
  /\ UNCHANGED <<up, dataVars, writerVars, event, boundVars, historyVars>>

-----------------------------------------------------------------------------
Next ==
  \/ Load \/ Crash
  \/ \E w \in Writers : Post(w) \/ Update(w) \/ Insert(w) \/ WriteFails(w) \/ Apply(w)
  \/ \E v \in Evaluators :
       Evaluate(v) \/ EvaluateSingle(v) \/ ReadThreshold(v) \/ UpdateWindow(v)

Spec == Init /\ [][Next]_vars

-----------------------------------------------------------------------------
(***************************************************************************)
(* Properties                                                              *)
(***************************************************************************)

Trade == [notional : Notionals, at : 0..MaxTime]

(* Type correctness.                                                       *)
TypeOK ==
  /\ up \in BOOLEAN
  /\ rows \in [RuleTypes -> Rule \cup {None}]
  /\ overrides \in [RuleTypes -> Override \cup {None}]
  /\ windows \in [Markets -> Seq(Trade)]
  /\ wpc \in [Writers -> {"idle", "update", "insert", "apply"}]
  /\ rule \in [Writers -> Rule \cup {None}]
  /\ \A w \in Writers : wpc[w] # "idle" => rule[w] \in Rule
  /\ epc \in [Evaluators -> {"idle", "single", "threshold", "window"}]
  /\ event \in [Evaluators -> Event \cup {None}]
  /\ \A v \in Evaluators : epc[v] # "idle" => event[v] \in Event
  /\ threshold \in [Evaluators -> Nat]
  /\ alerts \in [Evaluators -> SUBSET RuleTypes]
  /\ promised \in [RuleTypes -> Rule \cup {None}]
  /\ settled \in [Evaluators -> SUBSET RuleTypes]
  /\ passed \in [Markets -> Seq(Trade)]
  /\ before \in [Markets -> [threshold : Nat, total : Nat]]

(* README.md:309 says that a rule takes effect in the running engine as    *)
(* soon as it is written to the database.  What the API has acknowledged   *)
(* last is what the table holds and what the engine uses, through errors   *)
(* and restarts (RuntimeRuleService.UpsertSystemRule, Load).               *)
AckedInForce ==
  \A t \in RuleTypes : Acknowledged(t) =>
    /\ rows[t] = promised[t]
    /\ up => overrides[t] = AsOverride(promised[t])

(* An evaluation that begins after the acknowledgement goes by the rule,   *)
(* as long as no other write of that rule is requested: the event raises   *)
(* an alert exactly when it reaches the threshold of an enabled rule, and  *)
(* a disabled rule is silent (Engine.Evaluate).                            *)
EvaluatedByPromise ==
  \A v \in Evaluators : epc[v] = "idle" /\ event[v] # None =>
    \A t \in settled[v] :
      /\ t \in alerts[v] => promised[t].enabled
      /\ t = SingleRule[event[v].kind] =>
           (t \in alerts[v] <=> /\ promised[t].enabled
                                /\ event[v].notional >= promised[t].threshold)

(* The window is what a computation from scratch would keep of all trades  *)
(* it took in: the trades no later one has cut off, each once and in the   *)
(* order they came, in whatever order the event times come and whichever   *)
(* goroutine gets the lock.                                                *)
WindowIsTrailing ==
  \A m \in Markets :
    LET all == passed[m]
        survivors == {i \in 1..Len(all) : \A j \in i..Len(all) : all[i].at >= all[j].at - Span}
    IN  \E place \in [1..Len(windows[m]) -> survivors] :
          /\ \A i, j \in 1..Len(windows[m]) : i < j => place[i] < place[j]
          /\ \A k \in survivors : \E i \in 1..Len(windows[m]) : place[i] = k
          /\ \A i \in 1..Len(windows[m]) : windows[m][i] = all[place[i]]

(* While the threshold stays the same, the sum of a market never rises     *)
(* over it without an alert, also when evaluations overlap                 *)
(* (windowLargeTradeRule: test of the sums before and after).              *)
RisesNoticed ==
  [][\A v \in Evaluators :
       epc[v] = "window" /\ epc'[v] = "idle" /\ up' =>
         LET m == event[v].market IN
           /\ before[m].threshold = before'[m].threshold
           /\ before[m].total < before'[m].threshold
           /\ before'[m].total >= before'[m].threshold
           => "large_trade_window" \in alerts'[v]]_vars
=============================================================================
