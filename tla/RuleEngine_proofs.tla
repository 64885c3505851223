--------------------------- MODULE RuleEngine_proofs ---------------------------
(***************************************************************************)
(* Proofs about rules, the evaluations that use them and the trade         *)
(* windows.  The theorems about rules hold for one request at a time       *)
(* (OneWriter): with two, EngineDiverges refutes the first.  Those about   *)
(* types and windows hold for any number of requests.  Any number of       *)
(* evaluations may overlap in all of them.                                 *)
(***************************************************************************)
EXTENDS RuleEngine, FiniteSetTheorems, TLAPS

OneWriter == \A w1, w2 \in Writers : w1 = w2

(* The part of TypeOK the argument needs.                                  *)
TypeInv ==
  /\ up \in BOOLEAN
  /\ rows \in [RuleTypes -> Rule \cup {None}]
  /\ overrides \in [RuleTypes -> Override \cup {None}]
  /\ wpc \in [Writers -> {"idle", "update", "insert", "apply"}]
  /\ rule \in [Writers -> Rule \cup {None}]
  /\ \A w \in Writers : wpc[w] # "idle" => rule[w] \in Rule
  /\ promised \in [RuleTypes -> Rule \cup {None}]

EvaluatorTypes ==
  /\ epc \in [Evaluators -> {"idle", "single", "threshold", "window"}]
  /\ event \in [Evaluators -> Event \cup {None}]
  /\ alerts \in [Evaluators -> SUBSET RuleTypes]
  /\ settled \in [Evaluators -> SUBSET RuleTypes]
  /\ \A v \in Evaluators : epc[v] # "idle" => event[v] \in Event

(* Nothing runs before Load; an applied rule is the stored one.            *)
Down == ~up => \A w \in Writers : wpc[w] = "idle"
DownE == ~up => \A v \in Evaluators : epc[v] = "idle" /\ event[v] = None
Written == \A w \in Writers : wpc[w] = "apply" => rows[rule[w].type] = rule[w]

(* No promise an evaluation relies on is being changed.                    *)
Standing == \A v \in Evaluators : \A t \in settled[v] : Acknowledged(t)

RuleInv == TypeInv /\ Down /\ Written /\ AckedInForce

(* What an evaluation has decided so far agrees with the promises.         *)
Decided(v) ==
  /\ epc[v] = "single" => alerts[v] = {}
  /\ epc[v] \in {"threshold", "window"} => event[v].kind = "agg_trade"
  /\ epc[v] # "single" /\ event[v] # None =>
       \A t \in settled[v] :
         /\ t \in alerts[v] => promised[t].enabled
         /\ t = SingleRule[event[v].kind] =>
              (t \in alerts[v] <=> /\ promised[t].enabled
                                   /\ event[v].notional >= promised[t].threshold)
  /\ epc[v] = "window" /\ "large_trade_window" \in settled[v] =>
       promised["large_trade_window"].enabled

EvaluatorInv ==
  /\ EvaluatorTypes
  /\ DownE
  /\ Standing
  /\ \A v \in Evaluators : Decided(v)

LEMMA OverrideType ==
  ASSUME NEW r \in Rule
  PROVE  AsOverride(r) \in Override /\ r.type \in RuleTypes /\ r # None
BY NoneAssumption DEF Rule, Override, AsOverride

LEMMA InitOK == Init => RuleInv /\ EvaluatorInv
<1> SUFFICES ASSUME Init PROVE RuleInv /\ EvaluatorInv
  OBVIOUS
<1>1. RuleInv
  BY DEF Init, RuleInv, TypeInv, Down, Written, AckedInForce, Acknowledged
<1>2. EvaluatorTypes /\ DownE /\ Standing
  BY DEF Init, EvaluatorTypes, DownE, Standing
<1>3. \A v \in Evaluators : Decided(v)
  BY DEF Init, Decided
<1> QED
  BY <1>1, <1>2, <1>3 DEF EvaluatorInv

(***************************************************************************)
(* Table and engine                                                        *)
(***************************************************************************)

LEMMA RuleStep == OneWriter /\ RuleInv /\ [Next]_vars => RuleInv'
<1> SUFFICES ASSUME OneWriter, RuleInv, [Next]_vars PROVE RuleInv'
  OBVIOUS
<1> USE DEF RuleInv
<1>1. ASSUME Load
      PROVE  RuleInv'
  <2>1. /\ up' = TRUE
        /\ overrides' = [t \in RuleTypes |-> IF rows[t] = None THEN None ELSE AsOverride(rows[t])]
        /\ UNCHANGED <<rows, wpc, rule, promised>>
    BY <1>1 DEF Load, writerVars, historyVars
  <2>2. \A t \in RuleTypes : rows[t] # None => AsOverride(rows[t]) \in Override
    BY OverrideType DEF TypeInv
  <2>3. TypeInv'
    BY <2>1, <2>2 DEF TypeInv
  <2>4. Down' /\ Written'
    BY <2>1 DEF Down, Written
  <2>5. AckedInForce'
    BY <2>1 DEF AckedInForce, Acknowledged, Pending, TypeInv
  <2> QED
    BY <2>3, <2>4, <2>5
<1>2. ASSUME Crash
      PROVE  RuleInv'
  <2>1. /\ up' = FALSE
        /\ overrides' = [t \in RuleTypes |-> None]
        /\ wpc' = [w \in Writers |-> "idle"]
        /\ rule' = [w \in Writers |-> None]
        /\ promised' = [t \in RuleTypes |-> IF \E w \in Writers : Pending(w, t)
                                              THEN None ELSE promised[t]]
        /\ rows' = rows
    BY <1>2 DEF Crash
  <2>2. TypeInv'
    <3>1. promised' \in [RuleTypes -> Rule \cup {None}]
      BY <2>1 DEF TypeInv
    <3> QED
      BY <2>1, <3>1 DEF TypeInv
  <2>3. Down' /\ Written'
    BY <2>1 DEF Down, Written
  <2>4. AckedInForce'
    BY <2>1 DEF AckedInForce, Acknowledged, TypeInv
  <2> QED
    BY <2>2, <2>3, <2>4
<1>3. ASSUME NEW w \in Writers, Post(w)
      PROVE  RuleInv'
  <2>1. PICK r \in Rule : rule' = [rule EXCEPT ![w] = r]
    BY <1>3 DEF Post
  <2>2. /\ up /\ wpc[w] = "idle" /\ wpc' = [wpc EXCEPT ![w] = "update"]
        /\ UNCHANGED <<up, rows, overrides, promised>>
    BY <1>3 DEF Post, GotoW, dataVars
  <2>3. TypeInv'
    BY <2>1, <2>2 DEF TypeInv
  <2>4. Down' /\ Written'
    BY <2>1, <2>2 DEF Down, Written, TypeInv
  <2>5. AckedInForce'
    BY <2>1, <2>2 DEF AckedInForce, Acknowledged, Pending, TypeInv
  <2> QED
    BY <2>3, <2>4, <2>5
<1>4. ASSUME NEW w \in Writers, Update(w)
      PROVE  RuleInv'
  <2>1. /\ wpc[w] = "update" /\ rule[w] \in Rule /\ rule[w].type \in RuleTypes
        /\ UNCHANGED <<up, overrides, rule, promised>>
    BY <1>4, OverrideType DEF Update, historyVars, TypeInv
  <2>2. CASE rows' = [rows EXCEPT ![rule[w].type] = rule[w]] /\ wpc' = [wpc EXCEPT ![w] = "apply"]
    <3>1. TypeInv' /\ Down' /\ Written'
      BY <2>1, <2>2 DEF TypeInv, Down, Written, OneWriter
    <3>2. AckedInForce'
      BY <2>1, <2>2 DEF TypeInv, AckedInForce, Acknowledged, Pending
    <3> QED
      BY <3>1, <3>2
  <2>3. CASE rows' = rows /\ wpc' = [wpc EXCEPT ![w] = "insert"]
    <3>1. TypeInv' /\ Down' /\ Written'
      BY <2>1, <2>3 DEF TypeInv, Down, Written
    <3>2. AckedInForce'
      BY <2>1, <2>3 DEF TypeInv, AckedInForce, Acknowledged, Pending
    <3> QED
      BY <3>1, <3>2
  <2> QED
    BY <1>4, <2>2, <2>3 DEF Update, GotoW
<1>5. ASSUME NEW w \in Writers, Insert(w)
      PROVE  RuleInv'
  <2>1. /\ wpc[w] = "insert" /\ rule[w] \in Rule /\ rule[w].type \in RuleTypes
        /\ rows' = [rows EXCEPT ![rule[w].type] = rule[w]]
        /\ wpc' = [wpc EXCEPT ![w] = "apply"]
        /\ UNCHANGED <<up, overrides, rule, promised>>
    BY <1>5, OverrideType DEF Insert, GotoW, historyVars, TypeInv
  <2>2. TypeInv' /\ Down' /\ Written'
    BY <2>1 DEF TypeInv, Down, Written, OneWriter
  <2>3. AckedInForce'
    BY <2>1 DEF TypeInv, AckedInForce, Acknowledged, Pending
  <2> QED
    BY <2>2, <2>3
<1>6. ASSUME NEW w \in Writers, WriteFails(w)
      PROVE  RuleInv'
  <2>1. /\ wpc[w] # "idle" /\ rule[w] \in Rule /\ rule[w].type \in RuleTypes
        /\ promised' = [promised EXCEPT ![rule[w].type] = None]
        /\ wpc' = [wpc EXCEPT ![w] = "idle"]
        /\ rule' = [rule EXCEPT ![w] = None]
        /\ rows' = rows \/ rows' = [rows EXCEPT ![rule[w].type] = rule[w]]
        /\ UNCHANGED <<up, overrides>>
    BY <1>6, OverrideType DEF WriteFails, WriterDone, GotoW, TypeInv
  <2>2. TypeInv' /\ Down'
    BY <2>1 DEF TypeInv, Down
  <2>3. Written'
    BY <2>1 DEF TypeInv, Written, OneWriter
  <2>4. AckedInForce'
    <3> SUFFICES ASSUME NEW t \in RuleTypes, Acknowledged(t)'
                 PROVE  (rows[t] = promised[t] /\ (up => overrides[t] = AsOverride(promised[t])))'
      BY DEF AckedInForce
    <3>1. t # rule[w].type
      BY <2>1 DEF Acknowledged, TypeInv
    <3>2. promised'[t] = promised[t] /\ rows'[t] = rows[t] /\ promised[t] # None
      BY <2>1, <3>1 DEF Acknowledged, TypeInv
    <3>3. \A x \in Writers : ~Pending(x, t)
      BY <2>1, <3>1 DEF OneWriter, Pending
    <3> QED
      BY <2>1, <3>2, <3>3 DEF AckedInForce, Acknowledged
  <2> QED
    BY <2>2, <2>3, <2>4
<1>7. ASSUME NEW w \in Writers, Apply(w)
      PROVE  RuleInv'
  <2>1. /\ wpc[w] = "apply" /\ rule[w] \in Rule /\ rule[w].type \in RuleTypes /\ rule[w] # None
        /\ AsOverride(rule[w]) \in Override
        /\ overrides' = [overrides EXCEPT ![rule[w].type] = AsOverride(rule[w])]
        /\ promised' = [promised EXCEPT ![rule[w].type] = rule[w]]
        /\ wpc' = [wpc EXCEPT ![w] = "idle"]
        /\ rule' = [rule EXCEPT ![w] = None]
        /\ UNCHANGED <<up, rows>>
    BY <1>7, OverrideType DEF Apply, WriterDone, GotoW, TypeInv
  <2>2. TypeInv' /\ Down'
    BY <2>1 DEF TypeInv, Down
  <2>3. Written'
    BY <2>1 DEF TypeInv, Written, OneWriter
  <2>4. AckedInForce'
    <3> SUFFICES ASSUME NEW t \in RuleTypes, Acknowledged(t)'
                 PROVE  (rows[t] = promised[t] /\ (up => overrides[t] = AsOverride(promised[t])))'
      BY DEF AckedInForce
    <3>1. CASE t = rule[w].type
      <4>1. promised'[t] = rule[w] /\ overrides'[t] = AsOverride(rule[w]) /\ rows'[t] = rule[w]
        BY <2>1, <3>1 DEF Written, TypeInv
      <4> QED
        BY <4>1 DEF AsOverride
    <3>2. CASE t # rule[w].type
      <4>1. /\ promised'[t] = promised[t] /\ rows'[t] = rows[t] /\ promised[t] # None
            /\ overrides'[t] = overrides[t]
        BY <2>1, <3>2 DEF Acknowledged, TypeInv
      <4>2. \A x \in Writers : ~Pending(x, t)
        BY <2>1, <3>2 DEF OneWriter, Pending
      <4> QED
        BY <2>1, <4>1, <4>2 DEF AckedInForce, Acknowledged, AsOverride
    <3> QED
      BY <3>1, <3>2
  <2> QED
    BY <2>2, <2>3, <2>4
<1>8. CASE UNCHANGED <<up, rows, overrides, wpc, rule, promised>>
  <2>1. TypeInv' /\ Down' /\ Written'
    BY <1>8 DEF TypeInv, Down, Written
  <2>2. AckedInForce'
    BY <1>8 DEF AckedInForce, Acknowledged, Pending
  <2> QED
    BY <2>1, <2>2
<1>9. ASSUME NEW v \in Evaluators,
             Evaluate(v) \/ EvaluateSingle(v) \/ ReadThreshold(v) \/ UpdateWindow(v)
      PROVE  UNCHANGED <<up, rows, overrides, wpc, rule, promised>>
  BY <1>9 DEF Evaluate, EvaluateSingle, ReadThreshold, UpdateWindow, dataVars, writerVars, historyVars
<1>10. CASE UNCHANGED vars
  BY <1>10, <1>8 DEF vars, dataVars, writerVars, historyVars
<1> QED
  BY <1>1, <1>2, <1>3, <1>4, <1>5, <1>6, <1>7, <1>8, <1>9, <1>10 DEF Next

(***************************************************************************)
(* Evaluations                                                             *)
(***************************************************************************)

(* What is in force for an acknowledged rule is what was promised.         *)
LEMMA InForce ==
  ASSUME RuleInv, up, NEW t \in RuleTypes, Acknowledged(t)
  PROVE  /\ ThresholdFor(t).enabled = promised[t].enabled
         /\ ThresholdFor(t).threshold = promised[t].threshold
<1>1. overrides[t] = AsOverride(promised[t]) /\ promised[t] \in Rule
  BY DEF RuleInv, AckedInForce, Acknowledged, TypeInv
<1>2. overrides[t] # None
  BY <1>1, OverrideType, NoneAssumption
<1> QED
  BY <1>1, <1>2 DEF ThresholdFor, AsOverride

(* A step of a request or of another evaluation leaves an evaluation       *)
(* alone, and the promises it relies on.                                   *)
LEMMA Unaffected ==
  ASSUME EvaluatorInv, NEW v \in Evaluators,
         epc'[v] = epc[v], event'[v] = event[v], alerts'[v] = alerts[v],
         settled'[v] \subseteq settled[v],
         \A t \in settled'[v] : promised'[t] = promised[t]
  PROVE  Decided(v)'
<1>1. Decided(v)
  BY DEF EvaluatorInv
<1> QED
  BY <1>1 DEF Decided

(* Nor does a request take back a promise that is relied on.               *)
LEMMA RequestStep ==
  ASSUME RuleInv, EvaluatorInv, NEW w \in Writers,
         Post(w) \/ Update(w) \/ Insert(w) \/ WriteFails(w) \/ Apply(w)
  PROVE  EvaluatorInv'
<1> USE DEF EvaluatorInv
<1>1. UNCHANGED <<up, epc, event, alerts>>
  BY DEF Post, Update, Insert, WriteFails, Apply, evaluatorVars
<1>2. ASSUME NEW v \in Evaluators
      PROVE  /\ settled'[v] \subseteq settled[v]
             /\ \A t \in settled'[v] : promised'[t] = promised[t] /\ Acknowledged(t)'
  <2>1. CASE Post(w)
    <3>1. PICK r \in Rule : /\ rule' = [rule EXCEPT ![w] = r]
                            /\ settled' = [x \in Evaluators |-> settled[x] \ {r.type}]
      BY <2>1 DEF Post
    <3>2. promised' = promised /\ wpc' = [wpc EXCEPT ![w] = "update"] /\ wpc[w] = "idle"
      BY <2>1 DEF Post, GotoW
    <3>3. settled'[v] = settled[v] \ {r.type}
      BY <3>1
    <3>4. ASSUME NEW t \in settled'[v]
          PROVE  Acknowledged(t)'
      <4>1. Acknowledged(t) /\ t # r.type
        BY <3>3, <3>4 DEF Standing
      <4> QED
        BY <4>1, <3>1, <3>2 DEF Acknowledged, Pending, RuleInv, TypeInv
    <3> QED
      BY <3>2, <3>3, <3>4
  <2>2. CASE Update(w) \/ Insert(w)
    <3>1. UNCHANGED <<rule, promised, settled>> /\ wpc[w] # "idle" /\ wpc'[w] # "idle"
          /\ \A x \in Writers : x # w => wpc'[x] = wpc[x]
      BY <2>2 DEF Update, Insert, GotoW, historyVars, RuleInv, TypeInv
    <3>2. \A t \in settled[v] : Acknowledged(t) => Acknowledged(t)'
      BY <3>1 DEF Acknowledged, Pending
    <3> QED
      BY <3>1, <3>2 DEF Standing
  <2>3. CASE WriteFails(w) \/ Apply(w)
    <3>1. /\ settled' = settled /\ wpc[w] # "idle" /\ rule[w].type \in RuleTypes
          /\ \A t \in RuleTypes : t # rule[w].type => promised'[t] = promised[t]
          /\ wpc' = [wpc EXCEPT ![w] = "idle"]
          /\ rule' = [rule EXCEPT ![w] = None]
      BY <2>3, OverrideType DEF WriteFails, Apply, WriterDone, GotoW, RuleInv, TypeInv
    <3>2. ASSUME NEW t \in settled[v]
          PROVE  promised'[t] = promised[t] /\ Acknowledged(t)'
      <4>1. Acknowledged(t) /\ t \in RuleTypes
        BY DEF Standing, EvaluatorTypes
      <4>2. t # rule[w].type
        BY <4>1, <3>1 DEF Acknowledged, Pending
      <4>3. promised'[t] = promised[t]
        BY <3>1, <4>1, <4>2
      <4> QED
        BY <3>1, <4>1, <4>3 DEF Acknowledged, Pending, RuleInv, TypeInv
    <3> QED
      BY <3>1, <3>2
  <2> QED
    BY <2>1, <2>2, <2>3
<1>3. settled' \in [Evaluators -> SUBSET RuleTypes]
  BY DEF Post, Update, Insert, WriteFails, Apply, historyVars, EvaluatorTypes
<1>4. EvaluatorTypes' /\ DownE' /\ Standing'
  BY <1>1, <1>2, <1>3 DEF EvaluatorTypes, DownE, Standing
<1>5. \A v \in Evaluators : Decided(v)'
  BY <1>1, <1>2, Unaffected
<1> QED
  BY <1>4, <1>5

(* An evaluation that runs finds the process up and its promises standing. *)
LEMMA Running ==
  ASSUME EvaluatorInv, NEW v \in Evaluators, epc[v] # "idle"
  PROVE  /\ up
         /\ event[v] \in Event
         /\ SingleRule[event[v].kind] \in RuleTypes
         /\ \A t \in settled[v] : t \in RuleTypes /\ Acknowledged(t)
BY DEF EvaluatorInv, EvaluatorTypes, DownE, Standing, Event, RuleTypes

LEMMA EvaluationStep ==
  ASSUME RuleInv, EvaluatorInv, NEW v \in Evaluators,
         Evaluate(v) \/ EvaluateSingle(v) \/ ReadThreshold(v) \/ UpdateWindow(v)
  PROVE  EvaluatorInv'
<1> USE DEF EvaluatorInv
<1>1. UNCHANGED <<up, rows, overrides, wpc, rule, promised>>
  BY DEF Evaluate, EvaluateSingle, ReadThreshold, UpdateWindow, dataVars, writerVars, historyVars
<1>2. \A t : Acknowledged(t) => Acknowledged(t)'
  BY <1>1 DEF Acknowledged, Pending
<1>3. CASE Evaluate(v)
  <2>1. PICK e \in Event : event' = [event EXCEPT ![v] = e]
    BY <1>3 DEF Evaluate
  <2>2. /\ epc[v] = "idle" /\ epc' = [epc EXCEPT ![v] = "single"]
        /\ alerts' = [alerts EXCEPT ![v] = {}]
        /\ settled' = [settled EXCEPT ![v] = {t \in RuleTypes : Acknowledged(t)}]
        /\ up
    BY <1>3 DEF Evaluate, GotoE
  <2>3. EvaluatorTypes' /\ DownE'
    BY <1>1, <2>1, <2>2 DEF EvaluatorTypes, DownE
  <2>4. Standing'
    BY <1>2, <2>2 DEF EvaluatorTypes, Standing
  <2>5. ASSUME NEW u \in Evaluators PROVE Decided(u)'
    <3>1. CASE u = v
      BY <2>2, <3>1 DEF Decided, EvaluatorTypes
    <3>2. CASE u # v
      BY <1>1, <2>1, <2>2, <3>2, Unaffected DEF EvaluatorTypes
    <3> QED
      BY <3>1, <3>2
  <2> QED
    BY <2>3, <2>4, <2>5
<1>4. CASE EvaluateSingle(v)
  <2> DEFINE kind == event[v].kind
             one == SingleRule[kind]
  <2>1. epc[v] = "single" /\ UNCHANGED <<event, settled>>
    BY <1>4 DEF EvaluateSingle, historyVars
  <2>2. epc' = [epc EXCEPT ![v] = IF kind = "agg_trade" THEN "threshold" ELSE "idle"]
    BY <1>4 DEF EvaluateSingle, GotoE
  <2>3. alerts' = [alerts EXCEPT ![v] =
                     IF ThresholdFor(one).enabled /\ event[v].notional >= ThresholdFor(one).threshold
                       THEN {one} ELSE {}]
    BY <1>4 DEF EvaluateSingle
  <2>4. up /\ event[v] \in Event /\ one \in RuleTypes
    BY <2>1, Running
  <2>5. EvaluatorTypes' /\ DownE' /\ Standing'
    <3>1. {one} \subseteq RuleTypes
      BY <2>4
    <3> HIDE DEF one, kind
    <3>2. alerts' \in [Evaluators -> SUBSET RuleTypes]
      <4>1. PICK a \in SUBSET RuleTypes : alerts' = [alerts EXCEPT ![v] = a]
        BY <2>3, <3>1
      <4> QED
        BY <4>1 DEF EvaluatorTypes
    <3>3. epc' \in [Evaluators -> {"idle", "single", "threshold", "window"}]
      BY <2>2 DEF EvaluatorTypes
    <3>4. EvaluatorTypes'
      BY <2>1, <2>2, <2>4, <3>2, <3>3 DEF EvaluatorTypes
    <3> QED
      BY <1>1, <1>2, <2>1, <2>4, <3>4 DEF DownE, Standing
  <2>6. ASSUME NEW u \in Evaluators PROVE Decided(u)'
    <3>1. CASE u = v
      <4>1. epc'[v] = IF kind = "agg_trade" THEN "threshold" ELSE "idle"
        BY <2>2 DEF EvaluatorTypes
      <4>2. alerts'[v] =
              IF ThresholdFor(one).enabled /\ event[v].notional >= ThresholdFor(one).threshold
                THEN {one} ELSE {}
        BY <2>3 DEF EvaluatorTypes
      <4>3. ASSUME NEW t \in settled[v]
            PROVE  /\ t \in alerts'[v] => promised[t].enabled
                   /\ t = one => (t \in alerts'[v] <=> /\ promised[t].enabled
                                                      /\ event[v].notional >= promised[t].threshold)
        <5>1. t \in RuleTypes /\ Acknowledged(t)
          BY <2>1, Running
        <5>2. CASE t = one
          <6>1. /\ ThresholdFor(one).enabled = promised[one].enabled
                /\ ThresholdFor(one).threshold = promised[one].threshold
            BY <2>4, <5>1, <5>2, InForce
          <6> HIDE DEF one
          <6> QED
            BY <4>2, <5>2, <6>1
        <5>3. CASE t # one
          <6> HIDE DEF one
          <6> QED
            BY <4>2, <5>3
        <5> QED
          BY <5>2, <5>3
      <4>4. epc'[v] # "single" /\ epc'[v] # "window"
        BY <4>1
      <4>5. epc'[v] \in {"threshold", "window"} => kind = "agg_trade"
        BY <4>1
      <4>6. /\ event'[v].kind = kind /\ event'[v].notional = event[v].notional
            /\ settled'[v] = settled[v] /\ SingleRule[event'[v].kind] = one
        BY <2>1
      <4> HIDE DEF one, kind
      <4> QED
        BY <1>1, <3>1, <4>3, <4>4, <4>5, <4>6 DEF Decided
    <3>2. CASE u # v
      <4>1. epc'[u] = epc[u] /\ alerts'[u] = alerts[u]
        BY <2>2, <2>3, <3>2 DEF EvaluatorTypes
      <4> QED
        BY <1>1, <2>1, <4>1, Unaffected
    <3> QED
      BY <3>1, <3>2
  <2> QED
    BY <2>5, <2>6
<1>5. CASE ReadThreshold(v)
  <2> DEFINE t == "large_trade_window"
  <2>1. epc[v] = "threshold" /\ UNCHANGED <<event, alerts, settled>>
    BY <1>5 DEF ReadThreshold, historyVars
  <2>2. epc' = [epc EXCEPT ![v] = IF ThresholdFor(t).enabled THEN "window" ELSE "idle"]
    BY <1>5 DEF ReadThreshold, GotoE
  <2>3. up /\ event[v] \in Event
    BY <2>1, Running
  <2>4. EvaluatorTypes' /\ DownE' /\ Standing'
    <3>1. epc' \in [Evaluators -> {"idle", "single", "threshold", "window"}]
      BY <2>2 DEF EvaluatorTypes
    <3>2. EvaluatorTypes'
      BY <2>1, <2>2, <2>3, <3>1 DEF EvaluatorTypes
    <3> QED
      BY <1>1, <1>2, <2>1, <2>3, <3>2 DEF DownE, Standing
  <2>5. ASSUME NEW u \in Evaluators PROVE Decided(u)'
    <3>1. CASE u = v
      <4>1. epc'[v] = IF ThresholdFor(t).enabled THEN "window" ELSE "idle"
        BY <2>2 DEF EvaluatorTypes
      <4>2. ASSUME epc'[v] = "window", t \in settled[v]
            PROVE  promised[t].enabled
        <5>1. t \in RuleTypes /\ Acknowledged(t)
          BY <2>1, <4>2, Running
        <5>2. ThresholdFor(t).enabled
          BY <4>1, <4>2
        <5> QED
          BY <2>3, <5>1, <5>2, InForce
      <4> QED
        BY <1>1, <2>1, <3>1, <4>1, <4>2 DEF Decided
    <3>2. CASE u # v
      <4>1. epc'[u] = epc[u]
        BY <2>2, <3>2 DEF EvaluatorTypes
      <4> QED
        BY <1>1, <2>1, <4>1, Unaffected
    <3> QED
      BY <3>1, <3>2
  <2> QED
    BY <2>4, <2>5
<1>6. CASE UpdateWindow(v)
  <2> DEFINE t == "large_trade_window"
  <2>1. /\ epc[v] = "window" /\ UNCHANGED <<event, settled>>
        /\ epc' = [epc EXCEPT ![v] = "idle"]
    BY <1>6 DEF UpdateWindow, historyVars, GotoE
  <2>2. alerts' = [alerts EXCEPT ![v] = alerts[v] \cup {t}] \/ alerts' = alerts
    BY <1>6 DEF UpdateWindow, EvaluatorTypes
  <2>3. up /\ event[v] \in Event /\ event[v].kind = "agg_trade"
    BY <2>1, Running DEF Decided
  <2>4. t \in RuleTypes /\ t # SingleRule[event[v].kind]
    BY <2>3 DEF RuleTypes, Event, SingleRule
  <2>5. EvaluatorTypes' /\ DownE' /\ Standing'
    <3>1. alerts' \in [Evaluators -> SUBSET RuleTypes]
      BY <2>2, <2>4 DEF EvaluatorTypes
    <3>2. EvaluatorTypes'
      BY <2>1, <2>3, <3>1 DEF EvaluatorTypes
    <3> QED
      BY <1>1, <1>2, <2>1, <2>3, <3>2 DEF DownE, Standing
  <2>6. ASSUME NEW u \in Evaluators PROVE Decided(u)'
    <3>1. CASE u = v
      <4>1. alerts'[v] = alerts[v] \cup {t} \/ alerts'[v] = alerts[v]
        BY <2>2 DEF EvaluatorTypes
      <4>2. epc'[v] = "idle"
        BY <2>1 DEF EvaluatorTypes
      <4>3. Decided(v)
        OBVIOUS
      <4> QED
        BY <1>1, <2>1, <2>3, <2>4, <3>1, <4>1, <4>2, <4>3, NoneAssumption DEF Decided
    <3>2. CASE u # v
      <4>1. epc'[u] = epc[u] /\ alerts'[u] = alerts[u]
        BY <2>1, <2>2, <3>2 DEF EvaluatorTypes
      <4> QED
        BY <1>1, <2>1, <4>1, Unaffected
    <3> QED
      BY <3>1, <3>2
  <2> QED
    BY <2>5, <2>6
<1> QED
  BY <1>3, <1>4, <1>5, <1>6

LEMMA EvaluatorStep == RuleInv /\ EvaluatorInv /\ [Next]_vars => EvaluatorInv'
<1> SUFFICES ASSUME RuleInv, EvaluatorInv, [Next]_vars PROVE EvaluatorInv'
  OBVIOUS
<1> USE DEF EvaluatorInv
<1>1. ASSUME Load PROVE EvaluatorInv'
  <2>1. UNCHANGED <<wpc, rule, promised, settled, epc, event, alerts>> /\ up'
    BY <1>1 DEF Load, writerVars, historyVars, evaluatorVars
  <2>2. EvaluatorTypes' /\ DownE' /\ Standing'
    BY <2>1 DEF EvaluatorTypes, DownE, Standing, Acknowledged, Pending
  <2> QED
    BY <2>1, <2>2, Unaffected
<1>2. ASSUME Crash PROVE EvaluatorInv'
  <2>1. /\ epc' = [v \in Evaluators |-> "idle"]
        /\ event' = [v \in Evaluators |-> None]
        /\ alerts' = [v \in Evaluators |-> {}]
        /\ settled' = [v \in Evaluators |-> {}]
    BY <1>2 DEF Crash
  <2>2. EvaluatorTypes' /\ DownE' /\ Standing'
    BY <2>1 DEF EvaluatorTypes, DownE, Standing
  <2>3. \A v \in Evaluators : Decided(v)'
    BY <2>1 DEF Decided
  <2> QED
    BY <2>2, <2>3
<1>3. CASE UNCHANGED vars
  <2>1. UNCHANGED <<up, wpc, rule, promised, settled, epc, event, alerts>>
    BY <1>3 DEF vars, writerVars, historyVars, evaluatorVars
  <2>2. EvaluatorTypes' /\ DownE' /\ Standing'
    BY <2>1 DEF EvaluatorTypes, DownE, Standing, Acknowledged, Pending
  <2> QED
    BY <2>1, <2>2, Unaffected
<1> QED
  BY <1>1, <1>2, <1>3, RequestStep, EvaluationStep DEF Next

-----------------------------------------------------------------------------
(* What the rule API has acknowledged is what the table holds and what the *)
(* engine uses, through failing statements, lost answers and restarts, as  *)
(* long as requests come one at a time (RuntimeRuleService).               *)
THEOREM AckedInForceHolds ==
  ASSUME OneWriter
  PROVE  Spec => []AckedInForce
<1>1. Init => RuleInv
  BY InitOK
<1>2. RuleInv /\ [Next]_vars => RuleInv'
  BY RuleStep
<1>3. RuleInv => AckedInForce
  BY DEF RuleInv
<1> QED
  BY <1>1, <1>2, <1>3, PTL DEF Spec

(* Evaluations that begin after the acknowledgement go by the rule, however *)
(* many of them overlap, with each other and with writes of other rules    *)
(* (Engine.Evaluate, thresholdFor).                                        *)
THEOREM EvaluatedByPromiseHolds ==
  ASSUME OneWriter
  PROVE  Spec => []EvaluatedByPromise
<1>1. Init => RuleInv /\ EvaluatorInv
  BY InitOK
<1>2. (RuleInv /\ EvaluatorInv) /\ [Next]_vars => (RuleInv /\ EvaluatorInv)'
  BY RuleStep, EvaluatorStep
<1>3. RuleInv /\ EvaluatorInv => EvaluatedByPromise
  BY DEF EvaluatorInv, Decided, EvaluatedByPromise
<1> QED
  BY <1>1, <1>2, <1>3, PTL DEF Spec
-----------------------------------------------------------------------------
(***************************************************************************)
(* Loops                                                                   *)
(***************************************************************************)

(* Induction on the natural numbers, for a set instead of a predicate.     *)
LEMMA AllNat ==
  ASSUME NEW T \in SUBSET Nat, 0 \in T, \A n \in T : n + 1 \in T
  PROVE  T = Nat
<1> SUFFICES ASSUME T # Nat
             PROVE  FALSE
  OBVIOUS
<1> DEFINE R == OpToRel(<, Nat)
<1>1. PICK x \in Nat \ T : \A y \in Nat \ T : ~(<<y, x>> \in R)
  <2>1. IsWellFoundedOn(R, Nat)
    BY NatLessThanWellFounded
  <2> HIDE DEF R
  <2> QED
    BY <2>1, WFMin
<1>2. x - 1 \in Nat \ T
  OBVIOUS
<1>3. <<x - 1, x>> \in R
  BY <1>2 DEF OpToRel
<1> QED
  BY <1>1, <1>2, <1>3

(* A loop over n elements that starts with the value base and takes the    *)
(* value v to step[i, v]; g says its value after each element.             *)
Steps(n, V) == [(1..n) \X V -> V]
IsLoop(g, n, V, base, step) ==
  g \in [0..n -> V] /\ g[0] = base /\ \A i \in 1..n : g[i] = step[i, g[i - 1]]

LEMMA LoopExists ==
  ASSUME NEW n \in Nat, NEW V, NEW base \in V, NEW step \in Steps(n, V)
  PROVE  \E g : IsLoop(g, n, V, base, step)
<1> USE DEF Steps
<1> DEFINE Upto(m) == \E g \in [0..m -> V] :
                        g[0] = base /\ \A i \in 1..m : g[i] = step[i, g[i - 1]]
           T == {m \in Nat : m <= n => Upto(m)}
<1>1. Upto(0)
  <2> DEFINE g == [i \in 0..0 |-> base]
  <2>1. g \in [0..0 -> V] /\ g[0] = base /\ 1..0 = {}
    OBVIOUS
  <2> QED
    BY <2>1
<1>2. ASSUME NEW m \in Nat, m + 1 <= n, Upto(m)
      PROVE  Upto(m + 1)
  <2>1. PICK g \in [0..m -> V] : g[0] = base /\ \A i \in 1..m : g[i] = step[i, g[i - 1]]
    BY <1>2
  <2>2. g[m] \in V /\ m + 1 \in 1..n
    <3>1. m \in 0..m
      BY SMT
    <3>2. m + 1 \in 1..n
      <4> HIDE DEF Upto
      <4> QED
        BY <1>2
    <3> QED
      BY <3>1, <3>2
  <2> DEFINE v == step[m + 1, g[m]]
             f == [i \in 0..(m + 1) |-> IF i = m + 1 THEN v ELSE g[i]]
  <2>3. v \in V
    <3>1. <<m + 1, g[m]>> \in (1..n) \X V
      BY <2>2
    <3> QED
      BY <3>1
  <2>4. f \in [0..(m + 1) -> V]
    <3> HIDE DEF v
    <3> QED
      BY <2>3
  <2>5. f[0] = base
    <3>1. f[0] = g[0]
      <4> HIDE DEF v
      <4> QED
        OBVIOUS
    <3> QED
      BY <3>1, <2>1
  <2>6. ASSUME NEW i \in 1..(m + 1)
        PROVE  f[i] = step[i, f[i - 1]]
    <3>1. f[i - 1] = g[i - 1]
      <4>1. i - 1 \in 0..(m + 1) /\ i - 1 # m + 1
        OBVIOUS
      <4> HIDE DEF v
      <4> QED
        BY <4>1
    <3>2. CASE i = m + 1
      <4>1. i \in 0..(m + 1) /\ i - 1 = m
        BY <3>2
      <4>2. f[i] = v
        <5> HIDE DEF v
        <5> QED
          BY <4>1, <3>2
      <4> QED
        BY <4>1, <4>2, <3>1, <3>2
    <3>3. CASE i # m + 1
      <4>1. i \in 1..m /\ i \in 0..(m + 1)
        BY <3>3
      <4>2. f[i] = g[i]
        BY <3>3, <4>1
      <4> QED
        BY <4>1, <4>2, <3>1, <2>1
    <3> QED
      BY <3>2, <3>3
  <2> HIDE DEF f
  <2> QED
    BY <2>4, <2>5, <2>6
<1> HIDE DEF Upto
<1>3. 0 \in T
  BY <1>1
<1>4. ASSUME NEW m \in T
      PROVE  m + 1 \in T
  BY <1>2
<1>5. T \in SUBSET Nat
  OBVIOUS
<1>6. n \in T
  <2> HIDE DEF T
  <2> QED
    BY <1>3, <1>4, <1>5, AllNat
<1>7. Upto(n)
  BY <1>6
<1> QED
  BY <1>7 DEF Upto, IsLoop

(* Induction along the elements of a loop.                                 *)
LEMMA Upwards ==
  ASSUME NEW n \in Nat, NEW G, 0 \in G,
         \A i \in Nat : i + 1 <= n /\ i \in G => i + 1 \in G
  PROVE  n \in G
<1> DEFINE T == {i \in Nat : i <= n => i \in G}
<1>1. 0 \in T
  OBVIOUS
<1>2. ASSUME NEW i \in T
      PROVE  i + 1 \in T
  OBVIOUS
<1>3. T \in SUBSET Nat
  OBVIOUS
<1>4. T = Nat
  <2> HIDE DEF T
  <2> QED
    BY <1>1, <1>2, <1>3, AllNat
<1> QED
  BY <1>4

-----------------------------------------------------------------------------
(***************************************************************************)
(* Sums of trades                                                          *)
(***************************************************************************)

LEMMA TradeTyped ==
  ASSUME NEW x \in Trade
  PROVE  x.notional \in Nat /\ x.at \in 0..MaxTime
BY EngineAssumption DEF Trade

(* The values of the loop that computes Total(s).                          *)
Sums(g, s) ==
  /\ g \in [0..Len(s) -> Nat] /\ g[0] = 0
  /\ \A i \in 1..Len(s) : g[i] = g[i - 1] + s[i].notional

LEMMA TotalLoop ==
  ASSUME NEW s \in Seq(Trade)
  PROVE  \E g : Sums(g, s) /\ Total(s) = g[Len(s)]
<1> DEFINE n == Len(s)
           step == [p \in (1..n) \X Nat |-> p[2] + s[p[1]].notional]
<1>1. n \in Nat
  OBVIOUS
<1>2. \A i \in 1..n : s[i].notional \in Nat
  BY TradeTyped
<1>3. step \in Steps(n, Nat)
  <2>1. ASSUME NEW p \in (1..n) \X Nat
        PROVE  p[2] + s[p[1]].notional \in Nat
    BY <1>2
  <2> QED
    BY <2>1 DEF Steps
<1>4. PICK g : IsLoop(g, n, Nat, 0, step)
  <2> HIDE DEF step, n
  <2> QED
    BY <1>1, <1>3, LoopExists
<1>5. ASSUME NEW i \in 1..n
      PROVE  g[i] = g[i - 1] + s[i].notional
  <2>1. i - 1 \in 0..n
    OBVIOUS
  <2>2. <<i, g[i - 1]>> \in (1..n) \X Nat
    <3> HIDE DEF n
    <3> QED
      BY <1>4, <2>1 DEF IsLoop
  <2>3. g[i] = step[i, g[i - 1]]
    BY <1>4 DEF IsLoop
  <2> HIDE DEF n
  <2> QED
    BY <2>2, <2>3
<1> DEFINE Loop(f) == [i \in 0..n |-> IF i = 0 THEN 0 ELSE f[i - 1] + s[i].notional]
           sum == CHOOSE f : f = Loop(f)
<1>6. g = Loop(g)
  <2>1. ASSUME NEW i \in 0..n
        PROVE  g[i] = Loop(g)[i]
    <3>1. CASE i = 0
      BY <3>1, <1>4 DEF IsLoop
    <3>2. CASE i # 0
      <4>1. i \in 1..n
        BY <3>2
      <4> HIDE DEF n
      <4> QED
        BY <3>2, <4>1, <1>5
    <3> QED
      BY <3>1, <3>2
  <2>2. g \in [0..n -> Nat]
    BY <1>4 DEF IsLoop
  <2> QED
    BY <2>1, <2>2
<1>7. sum = Loop(sum)
  <2> HIDE DEF Loop
  <2> QED
    BY <1>6
<1>8. Total(s) = sum[n]
  BY DEF Total
<1> HIDE DEF sum
<1>9. sum[0] = 0 /\ \A i \in 1..n : sum[i] = sum[i - 1] + s[i].notional
  <2>1. \A i \in 0..n : sum[i] = Loop(sum)[i]
    BY <1>7
  <2>2. 0 \in 0..n /\ \A i \in 1..n : i \in 0..n /\ i # 0
    OBVIOUS
  <2> HIDE DEF n
  <2> QED
    BY <2>1, <2>2
<1> DEFINE G == {i \in Nat : sum[i] = g[i]}
<1>10. sum[n] = g[n]
  <2>1. 0 \in G
    BY <1>4, <1>9 DEF IsLoop
  <2>2. \A i \in Nat : i + 1 <= n /\ i \in G => i + 1 \in G
    <3> SUFFICES ASSUME NEW i \in Nat, i + 1 <= n, sum[i] = g[i]
                 PROVE  sum[i + 1] = g[i + 1]
      OBVIOUS
    <3>1. i + 1 \in 1..n /\ (i + 1) - 1 = i
      BY <1>1
    <3> HIDE DEF n
    <3> QED
      BY <3>1, <1>5, <1>9
  <2>3. n \in G
    <3> HIDE DEF G, n
    <3> QED
      BY <1>1, <2>1, <2>2, Upwards
  <2> QED
    BY <2>3
<1> QED
  BY <1>4, <1>5, <1>8, <1>10 DEF Sums, IsLoop
LEMMA TotalEmpty == Total(<<>>) = 0
<1>1. <<>> \in Seq(Trade) /\ Len(<<>>) = 0
  OBVIOUS
<1>2. PICK g : Sums(g, <<>>) /\ Total(<<>>) = g[Len(<<>>)]
  BY <1>1, TotalLoop
<1> QED
  BY <1>1, <1>2 DEF Sums

(* One more trade adds its notional.                                       *)
LEMMA TotalAppend ==
  ASSUME NEW s \in Seq(Trade), NEW x \in Trade
  PROVE  Total(s) \in Nat /\ Total(Append(s, x)) = Total(s) + x.notional
<1> DEFINE n == Len(s)
           q == Append(s, x)
<1>1. n \in Nat /\ q \in Seq(Trade) /\ Len(q) = n + 1 /\ q[n + 1] = x
      /\ \A i \in 1..n : q[i] = s[i]
  OBVIOUS
<1>2. PICK g : Sums(g, s) /\ Total(s) = g[n]
  BY TotalLoop
<1> HIDE DEF q
<1>3. PICK h : Sums(h, q) /\ Total(q) = h[n + 1]
  BY <1>1, TotalLoop
<1> HIDE DEF n
<1> DEFINE G == {i \in Nat : g[i] = h[i]}
<1>4. 0 \in G
  BY <1>2, <1>3 DEF Sums
<1>5. \A i \in Nat : i + 1 <= n /\ i \in G => i + 1 \in G
  <2> SUFFICES ASSUME NEW i \in Nat, i + 1 <= n, g[i] = h[i]
               PROVE  g[i + 1] = h[i + 1]
    OBVIOUS
  <2>1. i + 1 \in 1..n /\ i + 1 \in 1..(n + 1) /\ (i + 1) - 1 = i
    BY <1>1
  <2>2. g[i + 1] = g[i] + s[i + 1].notional
    BY <1>2, <2>1 DEF Sums, n
  <2>3. h[i + 1] = h[i] + q[i + 1].notional
    BY <1>1, <1>3, <2>1 DEF Sums
  <2> QED
    BY <1>1, <2>1, <2>2, <2>3
<1>6. g[n] = h[n]
  <2>1. n \in G
    <3> HIDE DEF G
    <3> QED
      BY <1>1, <1>4, <1>5, Upwards
  <2> QED
    BY <2>1
<1>7. h[n + 1] = h[n] + x.notional
  <2>1. n + 1 \in 1..(n + 1) /\ (n + 1) - 1 = n
    BY <1>1
  <2> QED
    BY <1>1, <1>3, <2>1 DEF Sums
<1>8. g[n] \in Nat
  BY <1>1, <1>2 DEF Sums, n
<1> QED
  BY <1>2, <1>3, <1>6, <1>7, <1>8 DEF q

-----------------------------------------------------------------------------
(***************************************************************************)
(* What a window keeps                                                     *)
(***************************************************************************)

(* The values of the loop that computes KeptBySystem(s, cutoff).           *)
Keeps(g, s, cutoff) ==
  /\ g \in [0..Len(s) -> Seq(Trade)] /\ g[0] = <<>>
  /\ \A i \in 1..Len(s) :
       g[i] = IF s[i].at < cutoff THEN g[i - 1] ELSE Append(g[i - 1], s[i])

LEMMA KeptLoop ==
  ASSUME NEW s \in Seq(Trade), NEW cutoff \in Int
  PROVE  \E g : Keeps(g, s, cutoff) /\ KeptBySystem(s, cutoff) = g[Len(s)]
<1> DEFINE n == Len(s)
           V == Seq(Trade)
           step == [p \in (1..n) \X V |->
                      IF s[p[1]].at < cutoff THEN p[2] ELSE Append(p[2], s[p[1]])]
<1>1. n \in Nat /\ <<>> \in V
  OBVIOUS
<1>2. step \in Steps(n, V)
  <2>1. ASSUME NEW p \in (1..n) \X V
        PROVE  (IF s[p[1]].at < cutoff THEN p[2] ELSE Append(p[2], s[p[1]])) \in V
    <3>1. s[p[1]] \in Trade /\ p[2] \in Seq(Trade)
      OBVIOUS
    <3> QED
      BY <3>1
  <2> QED
    BY <2>1 DEF Steps
<1>3. PICK g : IsLoop(g, n, V, <<>>, step)
  <2> HIDE DEF step, V, n
  <2> QED
    BY <1>1, <1>2, LoopExists
<1>4. ASSUME NEW i \in 1..n
      PROVE  g[i] = IF s[i].at < cutoff THEN g[i - 1] ELSE Append(g[i - 1], s[i])
  <2>1. i - 1 \in 0..n
    OBVIOUS
  <2>2. <<i, g[i - 1]>> \in (1..n) \X V
    <3> HIDE DEF V, n
    <3> QED
      BY <1>3, <2>1 DEF IsLoop
  <2>3. g[i] = step[i, g[i - 1]]
    BY <1>3 DEF IsLoop
  <2> HIDE DEF V, n
  <2> QED
    BY <2>2, <2>3
<1> DEFINE Loop(f) == [i \in 0..n |-> IF i = 0 THEN <<>>
                        ELSE IF s[i].at < cutoff THEN f[i - 1] ELSE Append(f[i - 1], s[i])]
           kept == CHOOSE f : f = Loop(f)
<1>5. g = Loop(g)
  <2>1. ASSUME NEW i \in 0..n
        PROVE  g[i] = Loop(g)[i]
    <3>1. CASE i = 0
      BY <3>1, <1>3 DEF IsLoop
    <3>2. CASE i # 0
      <4>1. i \in 1..n
        BY <3>2
      <4> HIDE DEF V, n
      <4> QED
        BY <3>2, <4>1, <1>4
    <3> QED
      BY <3>1, <3>2
  <2> HIDE DEF V
  <2>2. g \in [0..n -> V]
    BY <1>3 DEF IsLoop
  <2> QED
    BY <2>1, <2>2
<1>6. kept = Loop(kept)
  <2> HIDE DEF Loop
  <2> QED
    BY <1>5
<1>7. KeptBySystem(s, cutoff) = kept[n]
  BY DEF KeptBySystem
<1> HIDE DEF kept
<1>8. kept[0] = <<>> /\ \A i \in 1..n :
        kept[i] = IF s[i].at < cutoff THEN kept[i - 1] ELSE Append(kept[i - 1], s[i])
  <2>1. \A i \in 0..n : kept[i] = Loop(kept)[i]
    BY <1>6
  <2>2. 0 \in 0..n /\ \A i \in 1..n : i \in 0..n /\ i # 0
    OBVIOUS
  <2> HIDE DEF n
  <2> QED
    BY <2>1, <2>2
<1> DEFINE G == {i \in Nat : kept[i] = g[i]}
<1>9. kept[n] = g[n]
  <2>1. 0 \in G
    BY <1>3, <1>8 DEF IsLoop
  <2>2. \A i \in Nat : i + 1 <= n /\ i \in G => i + 1 \in G
    <3> SUFFICES ASSUME NEW i \in Nat, i + 1 <= n, kept[i] = g[i]
                 PROVE  kept[i + 1] = g[i + 1]
      OBVIOUS
    <3>1. i + 1 \in 1..n /\ (i + 1) - 1 = i
      BY <1>1
    <3> HIDE DEF n, V
    <3> QED
      BY <3>1, <1>4, <1>8
  <2>3. n \in G
    <3> HIDE DEF G, n, V
    <3> QED
      BY <1>1, <2>1, <2>2, Upwards
  <2> QED
    BY <2>3
<1> QED
  BY <1>3, <1>4, <1>7, <1>9 DEF Keeps, IsLoop

(* r lists the elements of s with an index in I, in their order.           *)
Picks(place, r, s, I) ==
  /\ place \in [1..Len(r) -> I]
  /\ \A i, j \in 1..Len(r) : i < j => place[i] < place[j]
  /\ \A k \in I : \E i \in 1..Len(r) : place[i] = k
  /\ \A i \in 1..Len(r) : r[i] = s[place[i]]

(* One more element, with the highest index.                               *)
LEMMA PicksMore ==
  ASSUME NEW r \in Seq(Trade), NEW x \in Trade, NEW s, NEW k \in Nat, s[k] = x,
         NEW I \in SUBSET (1..(k - 1)), NEW place, Picks(place, r, s, I)
  PROVE  \E p : Picks(p, Append(r, x), s, I \cup {k})
<1> DEFINE n == Len(r)
           q == Append(r, x)
           p == [i \in 1..Len(q) |-> IF i = n + 1 THEN k ELSE place[i]]
<1>1. n \in Nat /\ q \in Seq(Trade) /\ Len(q) = n + 1 /\ q[n + 1] = x
      /\ \A i \in 1..n : q[i] = r[i]
  OBVIOUS
<1>2. /\ \A i \in 1..n : place[i] \in I /\ r[i] = s[place[i]]
      /\ \A i, j \in 1..n : i < j => place[i] < place[j]
      /\ \A l \in I : \E i \in 1..n : place[i] = l
  BY DEF Picks
<1>3. \A l \in I : l \in Nat /\ l < k
  OBVIOUS
<1> HIDE DEF q, n
<1>4. \A i \in 1..Len(q) : i = n + 1 \/ i \in 1..n
  BY <1>1
<1>5. \A i \in 1..n : i \in 1..Len(q) /\ i # n + 1
  BY <1>1
<1>6. p[n + 1] = k /\ \A i \in 1..n : p[i] = place[i]
  BY <1>1, <1>5
<1>7. p \in [1..Len(q) -> I \cup {k}]
  BY <1>2, <1>4, <1>5
<1> HIDE DEF p
<1>8. ASSUME NEW i \in 1..Len(q), NEW j \in 1..Len(q), i < j
      PROVE  p[i] < p[j]
  <2>1. i \in 1..n
    BY <1>1, <1>8
  <2>2. p[i] = place[i] /\ place[i] < k
    BY <2>1, <1>2, <1>3, <1>6
  <2>3. CASE j = n + 1
    BY <2>2, <2>3, <1>6
  <2>4. CASE j \in 1..n
    BY <2>1, <2>2, <2>4, <1>2, <1>6, <1>8
  <2> QED
    BY <2>3, <2>4, <1>4
<1>9. \A l \in I \cup {k} : \E i \in 1..Len(q) : p[i] = l
  BY <1>1, <1>2, <1>5, <1>6
<1>10. \A i \in 1..Len(q) : q[i] = s[p[i]]
  BY <1>1, <1>2, <1>4, <1>6
<1>11. Picks(p, q, s, I \cup {k})
  BY <1>7, <1>8, <1>9, <1>10 DEF Picks
<1> QED
  BY <1>11 DEF q

(* The loop keeps what the cutoff does not cut off, in its order, and the  *)
(* sum of that is at most the sum of all.                                  *)
LEMMA KeptPicks ==
  ASSUME NEW s \in Seq(Trade), NEW cutoff \in Int
  PROVE  LET r == KeptBySystem(s, cutoff) IN
         /\ r \in Seq(Trade) /\ Total(r) \in Nat /\ Total(s) \in Nat /\ Total(r) <= Total(s)
         /\ \E place : Picks(place, r, s, {i \in 1..Len(s) : s[i].at >= cutoff})
<1> DEFINE n == Len(s)
           I(i) == {k \in 1..i : s[k].at >= cutoff}
<1>1. n \in Nat
  OBVIOUS
<1>2. PICK g : Keeps(g, s, cutoff) /\ KeptBySystem(s, cutoff) = g[n]
  BY KeptLoop
<1>3. PICK t : Sums(t, s) /\ Total(s) = t[n]
  BY TotalLoop
<1>4. \A i \in 0..n : g[i] \in Seq(Trade) /\ Total(g[i]) \in Nat /\ t[i] \in Nat
  <2>1. \A i \in 0..n : g[i] \in Seq(Trade) /\ t[i] \in Nat
    BY <1>2, <1>3 DEF Keeps, Sums
  <2>2. \A r \in Seq(Trade) : \A x \in Trade : Total(r) \in Nat
    BY TotalAppend
  <2>3. \A i \in 0..n : i = 0 \/ s[i] \in Trade
    OBVIOUS
  <2>4. g[0] = <<>>
    BY <1>2 DEF Keeps
  <2>5. ASSUME NEW i \in 0..n
        PROVE  Total(g[i]) \in Nat
    <3>1. CASE i = 0
      BY <2>4, <3>1, TotalEmpty
    <3>2. CASE i # 0
      <4>1. s[i] \in Trade
        BY <2>3, <3>2
      <4> QED
        BY <2>1, <2>2, <4>1
    <3> QED
      BY <3>1, <3>2
  <2> QED
    BY <2>1, <2>5
<1> DEFINE Good(i) == Total(g[i]) <= t[i] /\ \E place : Picks(place, g[i], s, I(i))
           G == {i \in 0..n : Good(i)}
<1>5. Good(0)
  <2>1. g[0] = <<>> /\ t[0] = 0
    BY <1>2, <1>3 DEF Keeps, Sums
  <2>2. Picks(<<>>, <<>>, s, I(0))
    BY DEF Picks
  <2>3. Total(<<>>) <= 0
    BY TotalEmpty
  <2> HIDE DEF I
  <2> QED
    BY <2>1, <2>2, <2>3
<1>6. ASSUME NEW i \in Nat, i + 1 <= n, Good(i)
      PROVE  Good(i + 1)
  <2> DEFINE x == s[i + 1]
  <2>1. i + 1 \in 1..n /\ (i + 1) - 1 = i /\ i \in 0..n
    <3> HIDE DEF Good
    <3> QED
      BY <1>1, <1>6
  <2>2. x \in Trade /\ x.notional \in Nat /\ x.at \in Int
    BY <2>1, TradeTyped
  <2>3. g[i + 1] = IF x.at < cutoff THEN g[i] ELSE Append(g[i], x)
    BY <1>2, <2>1 DEF Keeps
  <2>4. t[i + 1] = t[i] + x.notional
    BY <1>3, <2>1 DEF Sums
  <2>5. /\ x.at < cutoff => I(i + 1) = I(i)
        /\ ~(x.at < cutoff) => I(i + 1) = I(i) \cup {i + 1}
    <3>1. 1..(i + 1) = (1..i) \cup {i + 1}
      OBVIOUS
    <3> HIDE DEF Good
    <3>2. x.at >= cutoff <=> ~(x.at < cutoff)
      BY <2>2
    <3> QED
      BY <3>1, <3>2
  <2>6. I(i) \in SUBSET (1..((i + 1) - 1))
    BY <2>1
  <2>7. PICK place : Picks(place, g[i], s, I(i))
    BY <1>6
  <2>8. Total(g[i]) <= t[i]
    BY <1>6
  <2> HIDE DEF I
  <2>9. CASE x.at < cutoff
    <3>1. g[i + 1] = g[i] /\ I(i + 1) = I(i)
      BY <2>2, <2>3, <2>5, <2>9
    <3>2. Total(g[i]) <= t[i + 1]
      BY <1>4, <2>1, <2>2, <2>4, <2>8
    <3> QED
      BY <2>7, <3>1, <3>2
  <2>10. CASE ~(x.at < cutoff)
    <3>1. g[i + 1] = Append(g[i], x) /\ I(i + 1) = I(i) \cup {i + 1}
      BY <2>2, <2>3, <2>5, <2>10
    <3>2. g[i] \in Seq(Trade) /\ t[i] \in Nat
      BY <1>4, <2>1
    <3>3. Total(g[i + 1]) = Total(g[i]) + x.notional /\ Total(g[i]) \in Nat
      BY <2>2, <3>1, <3>2, TotalAppend
    <3>4. \E p : Picks(p, Append(g[i], x), s, I(i) \cup {i + 1})
      <4> DEFINE k == i + 1
                 J == I(i)
                 r == g[i]
      <4>1. k \in Nat /\ s[k] = x /\ J \in SUBSET (1..(k - 1))
        BY <2>6
      <4>2. r \in Seq(Trade) /\ x \in Trade /\ Picks(place, r, s, J)
        BY <2>2, <2>7, <3>2
      <4> HIDE DEF Good, x, k, J, r
      <4>3. \E p : Picks(p, Append(r, x), s, J \cup {k})
        BY <4>1, <4>2, PicksMore
      <4> QED
        BY <4>3 DEF k, J, r
    <3>5. Total(g[i + 1]) <= t[i + 1]
      BY <2>2, <2>4, <2>8, <3>2, <3>3
    <3> QED
      BY <3>1, <3>4, <3>5
  <2> QED
    BY <2>9, <2>10
<1> HIDE DEF Good
<1>7. n \in G
  <2>1. 0 \in G
    BY <1>1, <1>5
  <2>2. \A i \in Nat : i + 1 <= n /\ i \in G => i + 1 \in G
    BY <1>1, <1>6
  <2> HIDE DEF G, n
  <2> QED
    BY <1>1, <2>1, <2>2, Upwards
<1>8. Good(n)
  BY <1>7
<1>9. n \in 0..n
  BY <1>1
<1> QED
  BY <1>2, <1>3, <1>4, <1>8, <1>9 DEF Good
-----------------------------------------------------------------------------
(***************************************************************************)
(* Types and windows, with any number of requests                          *)
(***************************************************************************)

(* The inductive invariant: only trades reach the window, ...              *)
OnlyTrades == \A v \in Evaluators : epc[v] \in {"threshold", "window"} => event[v].kind = "agg_trade"
(* ... the window and everything it took in are related by a place for     *)
(* each trade it holds, and the last sum is that of what it holds.         *)
Survivors(all) == {i \in 1..Len(all) : \A j \in i..Len(all) : all[i].at >= all[j].at - Span}
Trailing(m) == \E place : Picks(place, windows[m], passed[m], Survivors(passed[m]))
Measured(m) == before[m].total = Total(windows[m])
WindowInv == TypeOK /\ OnlyTrades /\ \A m \in Markets : Trailing(m) /\ Measured(m)

LEMMA RuleTypesOf ==
  /\ \A k \in Kinds : SingleRule[k] \in RuleTypes
  /\ "agg_trade" \in Kinds => "large_trade_window" \in RuleTypes
BY DEF RuleTypes

LEMMA ThresholdForType ==
  ASSUME TypeOK, NEW t \in RuleTypes
  PROVE  ThresholdFor(t).threshold \in Nat /\ ThresholdFor(t).enabled \in BOOLEAN
<1>1. Fallback[t] \in Nat /\ Thresholds \subseteq Nat
  BY EngineAssumption
<1>2. overrides[t] \in Override \cup {None}
  BY DEF TypeOK
<1>3. CASE overrides[t] = None
  BY <1>1, <1>3 DEF ThresholdFor
<1>4. CASE overrides[t] # None
  <2>1. ThresholdFor(t) = overrides[t] /\ overrides[t] \in Override
    BY <1>2, <1>4 DEF ThresholdFor
  <2>2. overrides[t].threshold \in Thresholds /\ overrides[t].enabled \in BOOLEAN
    BY <2>1 DEF Override
  <2> QED
    BY <1>1, <2>1, <2>2
<1> QED
  BY <1>3, <1>4

LEMMA EventType ==
  ASSUME NEW e \in Event
  PROVE  /\ e.kind \in Kinds /\ e.market \in Markets /\ e.notional \in Nat /\ e.at \in 0..MaxTime
         /\ [notional |-> e.notional, at |-> e.at] \in Trade
         /\ e # None
<1>1. e.kind \in Kinds /\ e.market \in Markets /\ e.notional \in Notionals /\ e.at \in 0..MaxTime
  BY DEF Event
<1>2. e.notional \in Nat
  BY <1>1, EngineAssumption
<1>3. e # None
  BY NoneAssumption
<1> QED
  BY <1>1, <1>2, <1>3 DEF Trade

LEMMA WindowInit == Init => WindowInv
<1> SUFFICES ASSUME Init
             PROVE  WindowInv
  OBVIOUS
<1>1. <<>> \in Seq(Trade) /\ Len(<<>>) = 0
  OBVIOUS
<1>2. TypeOK
  BY <1>1 DEF Init, TypeOK, Empty, Unmeasured
<1>3. OnlyTrades
  BY DEF Init, OnlyTrades
<1>4. ASSUME NEW m \in Markets
      PROVE  Trailing(m) /\ Measured(m)
  <2>1. windows[m] = <<>> /\ passed[m] = <<>> /\ before[m].total = 0
    BY DEF Init, Empty, Unmeasured
  <2>2. Survivors(<<>>) = {}
    BY <1>1 DEF Survivors
  <2>3. Picks(<<>>, <<>>, <<>>, {})
    BY DEF Picks
  <2> QED
    BY <2>1, <2>2, <2>3, TotalEmpty DEF Trailing, Measured
<1> QED
  BY <1>2, <1>3, <1>4 DEF WindowInv

(* A step that leaves the windows alone.                                   *)
LEMMA WindowsKept ==
  ASSUME WindowInv, UNCHANGED <<windows, passed, before>>, TypeOK', OnlyTrades'
  PROVE  WindowInv'
<1>1. ASSUME NEW m \in Markets
      PROVE  Trailing(m)' /\ Measured(m)'
  <2>1. PICK place : Picks(place, windows[m], passed[m], Survivors(passed[m]))
    BY DEF WindowInv, Trailing
  <2>2. windows'[m] = windows[m] /\ passed'[m] = passed[m] /\ before'[m] = before[m]
    OBVIOUS
  <2>3. Survivors(passed[m])' = Survivors(passed[m])
    BY <2>2 DEF Survivors, Span
  <2>4. Picks(place, windows[m], passed[m], Survivors(passed[m]))'
    BY <2>1, <2>2, <2>3 DEF Picks
  <2>5. Trailing(m)'
    BY <2>4 DEF Trailing
  <2>6. Measured(m)'
    BY <2>2 DEF WindowInv, Measured
  <2> QED
    BY <2>5, <2>6
<1> QED
  BY <1>1 DEF WindowInv
(* windowLargeTradeRule on the window of its market: what survives is what *)
(* the cutoff of this trade leaves of the survivors, and the trade.        *)
LEMMA UpdateMeasured ==
  ASSUME WindowInv, NEW v \in Evaluators, UpdateWindow(v)
  PROVE  /\ event[v].market \in Markets
         /\ windows'[event[v].market] \in Seq(Trade)
         /\ passed'[event[v].market] \in Seq(Trade)
         /\ before'[event[v].market].total \in Nat
         /\ before'[event[v].market].total = Total(windows'[event[v].market])
<1> DEFINE e == event[v]
           m == e.market
           kept == KeptBySystem(windows[m], e.at - Span)
           trade == [notional |-> e.notional, at |-> e.at]
<1>1. e \in Event
  BY DEF UpdateWindow, WindowInv, TypeOK
<1>2. m \in Markets /\ trade \in Trade /\ e.at \in Int /\ e.notional \in Nat
  BY <1>1, EventType, EngineAssumption
<1>3. windows[m] \in Seq(Trade) /\ passed[m] \in Seq(Trade) /\ Span \in Nat
  BY <1>2, EngineAssumption DEF WindowInv, TypeOK, Span
<1>4. kept \in Seq(Trade) /\ Total(kept) \in Nat
  <2> DEFINE s == windows[m]
             c == e.at - Span
  <2>1. s \in Seq(Trade) /\ c \in Int
    BY <1>2, <1>3
  <2> HIDE DEF s, c
  <2>2. KeptBySystem(s, c) \in Seq(Trade) /\ Total(KeptBySystem(s, c)) \in Nat
    BY <2>1, KeptPicks
  <2> QED
    BY <2>2 DEF s, c
<1>5. /\ windows' = [windows EXCEPT ![m] = Append(kept, trade)]
      /\ passed' = [passed EXCEPT ![m] = Append(@, trade)]
      /\ before' = [before EXCEPT ![m] = [threshold |-> threshold[v],
                                          total |-> Total(kept) + e.notional]]
  BY DEF UpdateWindow
<1>6. trade.notional = e.notional
  OBVIOUS
<1> HIDE DEF kept, trade, m
<1>7. Total(Append(kept, trade)) = Total(kept) + e.notional
  BY <1>2, <1>4, <1>6, TotalAppend
<1>8. windows'[m] = Append(kept, trade) /\ passed'[m] = Append(passed[m], trade)
      /\ before'[m].total = Total(kept) + e.notional
  BY <1>2, <1>5 DEF WindowInv, TypeOK
<1>9. windows'[m] \in Seq(Trade) /\ passed'[m] \in Seq(Trade) /\ before'[m].total \in Nat
  BY <1>2, <1>3, <1>4, <1>8
<1>10. before'[m].total = Total(windows'[m])
  BY <1>7, <1>8
<1> QED
  BY <1>2, <1>9, <1>10 DEF m

LEMMA UpdateTrailing ==
  ASSUME WindowInv, NEW v \in Evaluators, UpdateWindow(v)
  PROVE  \A m \in Markets : m = event[v].market => Trailing(m)'
<1> SUFFICES ASSUME NEW m \in Markets, m = event[v].market
             PROVE  Trailing(m)'
  OBVIOUS
<1>1. PICK e \in Event : e = event[v]
  BY DEF UpdateWindow, WindowInv, TypeOK
<1>2. PICK trade \in Trade : trade = [notional |-> e.notional, at |-> e.at]
  BY EventType
<1>3. PICK w \in Seq(Trade), all \in Seq(Trade) : w = windows[m] /\ all = passed[m]
  BY DEF WindowInv, TypeOK
<1>4. PICK cutoff \in Int : cutoff = e.at - Span
  <2>1. e.at \in 0..MaxTime /\ MaxTime \in Nat /\ Span \in Nat
    BY EventType, EngineAssumption DEF Span
  <2> QED
    BY <2>1
<1>5. PICK kept \in Seq(Trade) : kept = KeptBySystem(w, cutoff)
  BY KeptPicks
<1>6. windows'[m] = Append(kept, trade) /\ passed'[m] = Append(all, trade)
  BY <1>1, <1>2, <1>3, <1>4, <1>5 DEF UpdateWindow, WindowInv, TypeOK
<1>7. PICK place : Picks(place, w, all, Survivors(all))
  BY <1>3 DEF WindowInv, Trailing
<1>8. PICK p : Picks(p, kept, w, {i \in 1..Len(w) : w[i].at >= cutoff})
  BY <1>5, KeptPicks
<1> DEFINE n == Len(all)
           new == Append(all, trade)
           J == {i \in Survivors(all) : all[i].at >= cutoff}
           q == [i \in 1..Len(kept) |-> place[p[i]]]
<1>9. n \in Nat /\ new \in Seq(Trade) /\ Len(new) = n + 1 /\ new[n + 1] = trade
      /\ \A i \in 1..n : new[i] = all[i]
  OBVIOUS
<1>10. Survivors(new) = J \cup {n + 1}
  <2>1. cutoff = trade.at - Span /\ trade.at \in Nat /\ Span \in Nat
    BY <1>2, <1>4, TradeTyped, EngineAssumption DEF Span
  <2>2. \A i \in 1..n : all[i].at \in Nat
    BY TradeTyped
  <2>3. \A i \in 1..n : i..(n + 1) = (i..n) \cup {n + 1}
    BY <1>9
  <2>4. 1..(n + 1) = (1..n) \cup {n + 1} /\ (n + 1)..(n + 1) = {n + 1}
    BY <1>9
  <2> HIDE DEF new, n
  <2>5. ASSUME NEW i \in 1..n
        PROVE  i \in Survivors(new) <=> i \in J
    <3>1. i \in Survivors(new) <=> \A j \in i..(n + 1) : new[i].at >= new[j].at - Span
      BY <1>9, <2>4 DEF Survivors
    <3>2. \A j \in i..n : j \in 1..n
      BY <1>9
    <3>3. (\A j \in i..(n + 1) : new[i].at >= new[j].at - Span)
            <=> (\A j \in i..n : all[i].at >= all[j].at - Span) /\ all[i].at >= cutoff
      BY <1>9, <2>1, <2>3, <3>2
    <3> QED
      BY <3>1, <3>3 DEF Survivors, n
  <2>6. n + 1 \in Survivors(new)
    <3>1. new[n + 1].at >= new[n + 1].at - Span
      BY <1>9, <2>1
    <3> QED
      BY <1>9, <2>4, <3>1 DEF Survivors
  <2>7. Survivors(new) \subseteq 1..(n + 1) /\ J \subseteq 1..n
    BY <1>9 DEF Survivors, n
  <2> HIDE DEF J
  <2> QED
    BY <2>4, <2>5, <2>6, <2>7
<1>11. Picks(q, kept, all, J)
  <2>1. /\ \A i \in 1..Len(w) : place[i] \in Survivors(all) /\ w[i] = all[place[i]]
        /\ \A i, j \in 1..Len(w) : i < j => place[i] < place[j]
        /\ \A k \in Survivors(all) : \E i \in 1..Len(w) : place[i] = k
    BY <1>7 DEF Picks
  <2>2. /\ \A i \in 1..Len(kept) : p[i] \in 1..Len(w) /\ w[p[i]].at >= cutoff /\ kept[i] = w[p[i]]
        /\ \A i, j \in 1..Len(kept) : i < j => p[i] < p[j]
        /\ \A k \in 1..Len(w) : w[k].at >= cutoff => \E i \in 1..Len(kept) : p[i] = k
    BY <1>8 DEF Picks
  <2>3. \A i \in 1..Len(kept) : q[i] = place[p[i]]
    OBVIOUS
  <2>4. q \in [1..Len(kept) -> J]
    BY <2>1, <2>2
  <2> HIDE DEF q
  <2>5. \A i, j \in 1..Len(kept) : i < j => q[i] < q[j]
    BY <2>1, <2>2, <2>3
  <2>6. ASSUME NEW k \in J
        PROVE  \E i \in 1..Len(kept) : q[i] = k
    <3>1. PICK i \in 1..Len(w) : place[i] = k
      BY <2>1
    <3>2. w[i].at >= cutoff
      BY <2>1, <3>1
    <3>3. PICK j \in 1..Len(kept) : p[j] = i
      BY <2>2, <3>2
    <3> QED
      BY <2>3, <3>1, <3>3
  <2>7. \A i \in 1..Len(kept) : kept[i] = all[q[i]]
    BY <2>1, <2>2, <2>3
  <2> QED
    BY <2>4, <2>5, <2>6, <2>7 DEF Picks
<1>12. Picks(q, kept, new, J)
  <2>1. \A i \in J : new[i] = all[i]
    BY <1>9 DEF Survivors
  <2> HIDE DEF q, J, new
  <2> QED
    BY <1>11, <2>1 DEF Picks
<1>13. J \in SUBSET (1..((n + 1) - 1))
  BY <1>9 DEF Survivors
<1>14. \E r : Picks(r, Append(kept, trade), new, J \cup {n + 1})
  <2> DEFINE k == n + 1
  <2>1. k \in Nat /\ new[k] = trade /\ J \in SUBSET (1..(k - 1))
    BY <1>9, <1>13
  <2> HIDE DEF q, J, new, k
  <2>2. \E r : Picks(r, Append(kept, trade), new, J \cup {k})
    BY <1>12, <2>1, PicksMore
  <2> QED
    BY <2>2 DEF k
<1>15. PICK r : Picks(r, Append(kept, trade), new, Survivors(new))
  <2> HIDE DEF J, new, n
  <2> QED
    BY <1>10, <1>14
<1>16. Survivors(passed[m])' = Survivors(new)
  BY <1>6 DEF Survivors, Span
<1>17. Picks(r, windows[m], passed[m], Survivors(passed[m]))'
  <2> HIDE DEF J, n
  <2> QED
    BY <1>6, <1>15, <1>16 DEF Picks
<1> QED
  BY <1>17 DEF Trailing
LEMMA UpdateWindowStep ==
  ASSUME WindowInv, NEW v \in Evaluators, UpdateWindow(v)
  PROVE  WindowInv'
<1> DEFINE m == event[v].market
<1>1. /\ m \in Markets /\ windows'[m] \in Seq(Trade) /\ passed'[m] \in Seq(Trade)
      /\ before'[m].total \in Nat /\ before'[m].total = Total(windows'[m])
  BY UpdateMeasured
<1>2. PICK x \in Seq(Trade), y \in Seq(Trade), b \in [threshold : Nat, total : Nat] :
        /\ windows' = [windows EXCEPT ![m] = x] /\ passed' = [passed EXCEPT ![m] = y]
        /\ before' = [before EXCEPT ![m] = b]
  <2>1. PICK x, y, z : /\ windows' = [windows EXCEPT ![m] = x]
                       /\ passed' = [passed EXCEPT ![m] = y]
                       /\ before' = [before EXCEPT ![m] =
                                       [threshold |-> threshold[v], total |-> z]]
    BY DEF UpdateWindow
  <2>2. windows'[m] = x /\ passed'[m] = y
        /\ before'[m] = [threshold |-> threshold[v], total |-> z]
    BY <1>1, <2>1 DEF WindowInv, TypeOK
  <2>3. threshold[v] \in Nat /\ z \in Nat
    BY <1>1, <2>2 DEF WindowInv, TypeOK
  <2>4. [threshold |-> threshold[v], total |-> z] \in [threshold : Nat, total : Nat]
    BY <2>3
  <2> QED
    BY <1>1, <2>1, <2>2, <2>4
<1>3. /\ epc' = [epc EXCEPT ![v] = "idle"] /\ threshold' = [threshold EXCEPT ![v] = 0]
      /\ \E s \in SUBSET RuleTypes : alerts' = [alerts EXCEPT ![v] = s]
      /\ UNCHANGED <<up, rows, overrides, wpc, rule, event, promised, settled>>
  <2>1. "large_trade_window" \in RuleTypes
    <3>1. event[v] \in Event /\ event[v].kind = "agg_trade"
      BY DEF UpdateWindow, WindowInv, TypeOK, OnlyTrades
    <3> QED
      BY <3>1, EventType, RuleTypesOf
  <2>2. alerts[v] \in SUBSET RuleTypes
    BY DEF WindowInv, TypeOK
  <2>3. alerts' = [alerts EXCEPT ![v] = alerts[v] \cup {"large_trade_window"}]
        \/ alerts' = [alerts EXCEPT ![v] = alerts[v]]
    BY DEF UpdateWindow
  <2> QED
    BY <2>1, <2>2, <2>3 DEF UpdateWindow, GotoE, dataVars, writerVars, historyVars
<1>4. TypeOK'
  <2> HIDE DEF m
  <2> QED
    BY <1>1, <1>2, <1>3 DEF WindowInv, TypeOK
<1>5. OnlyTrades'
  BY <1>3 DEF WindowInv, TypeOK, OnlyTrades
<1>6. ASSUME NEW k \in Markets
      PROVE  Trailing(k)' /\ Measured(k)'
  <2>1. CASE k = m
    <3>1. Trailing(k)'
      BY <2>1, UpdateTrailing
    <3>2. before'[k].total = Total(windows'[k])
      BY <1>1, <2>1
    <3> QED
      BY <3>1, <3>2 DEF Measured
  <2>2. CASE k # m
    <3>1. windows'[k] = windows[k] /\ passed'[k] = passed[k] /\ before'[k] = before[k]
      BY <1>2, <2>2 DEF WindowInv, TypeOK
    <3>2. PICK place : Picks(place, windows[k], passed[k], Survivors(passed[k]))
      BY DEF WindowInv, Trailing
    <3>3. Survivors(passed[k])' = Survivors(passed[k])
      BY <3>1 DEF Survivors, Span
    <3>4. Picks(place, windows[k], passed[k], Survivors(passed[k]))'
      BY <3>1, <3>2, <3>3 DEF Picks
    <3> QED
      BY <3>1, <3>4 DEF WindowInv, Measured, Trailing
  <2> QED
    BY <2>1, <2>2
<1> QED
  BY <1>4, <1>5, <1>6 DEF WindowInv

(* The steps that leave the windows alone keep the types.                  *)
LEMMA RequestTypes ==
  ASSUME TypeOK, OnlyTrades,
         \E w \in Writers : Post(w) \/ Update(w) \/ Insert(w) \/ WriteFails(w) \/ Apply(w)
  PROVE  TypeOK' /\ OnlyTrades'
<1>1. PICK w \in Writers : Post(w) \/ Update(w) \/ Insert(w) \/ WriteFails(w) \/ Apply(w)
  OBVIOUS
<1>2. UNCHANGED <<epc, event, threshold, alerts, windows, passed, before>>
  BY <1>1 DEF Post, Update, Insert, WriteFails, Apply, evaluatorVars, windowVars
<1>3. OnlyTrades'
  BY <1>2 DEF OnlyTrades
<1> USE DEF GotoW, dataVars, historyVars
<1>4. CASE Post(w)
  <2>1. PICK r \in Rule : rule' = [rule EXCEPT ![w] = r]
                          /\ settled' = [v \in Evaluators |-> settled[v] \ {r.type}]
    BY <1>4 DEF Post
  <2>2. settled' \in [Evaluators -> SUBSET RuleTypes]
    BY <2>1 DEF TypeOK
  <2> QED
    BY <1>2, <1>3, <1>4, <2>1, <2>2 DEF Post, TypeOK
<1>5. CASE Update(w) \/ Insert(w)
  <2>1. rule[w] \in Rule /\ rule[w].type \in RuleTypes
    BY <1>5, OverrideType DEF Update, Insert, TypeOK
  <2> QED
    BY <1>2, <1>3, <1>5, <2>1 DEF Update, Insert, TypeOK
<1>6. CASE WriteFails(w)
  <2>1. rule[w] \in Rule /\ rule[w].type \in RuleTypes
    BY <1>6, OverrideType DEF WriteFails, TypeOK
  <2> QED
    BY <1>2, <1>3, <1>6, <2>1 DEF WriteFails, WriterDone, TypeOK
<1>7. CASE Apply(w)
  <2>1. rule[w] \in Rule /\ rule[w].type \in RuleTypes /\ AsOverride(rule[w]) \in Override
    BY <1>7, OverrideType DEF Apply, TypeOK
  <2> QED
    BY <1>2, <1>3, <1>7, <2>1 DEF Apply, WriterDone, TypeOK
<1> QED
  BY <1>1, <1>4, <1>5, <1>6, <1>7

LEMMA EvaluationTypes ==
  ASSUME TypeOK, OnlyTrades, NEW v \in Evaluators,
         Evaluate(v) \/ EvaluateSingle(v) \/ ReadThreshold(v)
  PROVE  TypeOK' /\ OnlyTrades'
<1> USE DEF GotoE, dataVars, writerVars, historyVars, windowVars
<1>1. CASE Evaluate(v)
  <2>1. PICK e \in Event : event' = [event EXCEPT ![v] = e]
    BY <1>1 DEF Evaluate
  <2>2. PICK s \in SUBSET RuleTypes : settled' = [settled EXCEPT ![v] = s]
    BY <1>1 DEF Evaluate
  <2> QED
    BY <1>1, <2>1, <2>2 DEF Evaluate, TypeOK, OnlyTrades
<1>2. CASE EvaluateSingle(v)
  <2>1. event[v] \in Event
    BY <1>2 DEF EvaluateSingle, TypeOK
  <2>2. SingleRule[event[v].kind] \in RuleTypes
    BY <2>1, EventType, RuleTypesOf
  <2>3. PICK s \in SUBSET RuleTypes : alerts' = [alerts EXCEPT ![v] = s]
    <3>1. {SingleRule[event[v].kind]} \in SUBSET RuleTypes /\ {} \in SUBSET RuleTypes
      BY <2>2
    <3> QED
      BY <1>2, <3>1 DEF EvaluateSingle
  <2> QED
    BY <1>2, <2>1, <2>3 DEF EvaluateSingle, TypeOK, OnlyTrades
<1>3. CASE ReadThreshold(v)
  <2>1. event[v] \in Event /\ event[v].kind = "agg_trade"
    BY <1>3 DEF ReadThreshold, TypeOK, OnlyTrades
  <2>2. "large_trade_window" \in RuleTypes
    BY <2>1, EventType, RuleTypesOf
  <2>3. PICK n \in Nat : n = ThresholdFor("large_trade_window").threshold
    BY <2>2, ThresholdForType
  <2> QED
    BY <1>3, <2>1, <2>3 DEF ReadThreshold, TypeOK, OnlyTrades
<1> QED
  BY <1>1, <1>2, <1>3

LEMMA WindowStep == WindowInv /\ [Next]_vars => WindowInv'
<1> SUFFICES ASSUME WindowInv, [Next]_vars
             PROVE  WindowInv'
  OBVIOUS
<1>1. TypeOK /\ OnlyTrades
  BY DEF WindowInv
<1>2. CASE Load
  <2>1. \A t \in RuleTypes : rows[t] # None => AsOverride(rows[t]) \in Override
    BY <1>1, OverrideType DEF TypeOK
  <2>2. overrides' \in [RuleTypes -> Override \cup {None}]
    BY <1>2, <2>1 DEF Load
  <2>3. TypeOK' /\ OnlyTrades'
    BY <1>1, <1>2, <2>2 DEF Load, TypeOK, OnlyTrades, writerVars, evaluatorVars, windowVars,
       historyVars
  <2> QED
    BY <1>2, <2>3, WindowsKept DEF Load, windowVars
<1>3. CASE Crash
  <2>1. <<>> \in Seq(Trade) /\ Len(<<>>) = 0
    OBVIOUS
  <2>2. promised' \in [RuleTypes -> Rule \cup {None}]
    BY <1>1, <1>3 DEF Crash, TypeOK
  <2>3. TypeOK' /\ OnlyTrades'
    BY <1>1, <1>3, <2>1, <2>2 DEF Crash, TypeOK, OnlyTrades, Empty, Unmeasured
  <2>4. ASSUME NEW m \in Markets
        PROVE  Trailing(m)' /\ Measured(m)'
    <3>1. windows'[m] = <<>> /\ passed'[m] = <<>> /\ before'[m].total = 0
      BY <1>3 DEF Crash, Empty, Unmeasured
    <3>2. Survivors(passed[m])' = {}
      BY <2>1, <3>1 DEF Survivors
    <3>3. Picks(<<>>, windows[m], passed[m], Survivors(passed[m]))'
      BY <3>1, <3>2 DEF Picks
    <3> QED
      BY <3>1, <3>3, TotalEmpty DEF Trailing, Measured
  <2> QED
    BY <2>3, <2>4 DEF WindowInv
<1>4. CASE \E w \in Writers : Post(w) \/ Update(w) \/ Insert(w) \/ WriteFails(w) \/ Apply(w)
  <2>1. UNCHANGED <<windows, passed, before>>
    BY <1>4 DEF Post, Update, Insert, WriteFails, Apply, windowVars
  <2> QED
    BY <1>1, <1>4, <2>1, RequestTypes, WindowsKept
<1>5. ASSUME NEW v \in Evaluators, Evaluate(v) \/ EvaluateSingle(v) \/ ReadThreshold(v)
      PROVE  WindowInv'
  <2>1. UNCHANGED <<windows, passed, before>>
    BY <1>5 DEF Evaluate, EvaluateSingle, ReadThreshold, windowVars
  <2> QED
    BY <1>1, <1>5, <2>1, EvaluationTypes, WindowsKept
<1>6. ASSUME NEW v \in Evaluators, UpdateWindow(v)
      PROVE  WindowInv'
  BY <1>6, UpdateWindowStep
<1>7. CASE UNCHANGED vars
  <2>1. TypeOK' /\ OnlyTrades' /\ UNCHANGED <<windows, passed, before>>
    BY <1>1, <1>7 DEF vars, TypeOK, OnlyTrades, dataVars, writerVars, evaluatorVars, windowVars,
       boundVars, historyVars
  <2> QED
    BY <2>1, WindowsKept
<1> QED
  BY <1>2, <1>3, <1>4, <1>5, <1>6, <1>7 DEF Next

LEMMA WindowInvariance == Spec => []WindowInv
BY WindowInit, WindowStep, PTL DEF Spec

(* Every variable keeps its type, whatever requests and evaluations        *)
(* overlap.                                                                *)
THEOREM TypeCorrect == Spec => []TypeOK
BY WindowInvariance, PTL DEF WindowInv

(* The window of a market holds the trades no later one has cut off, each  *)
(* once and in the order they came, whatever order the event times come in *)
(* and however many evaluations overlap (windowLargeTradeRule).            *)
THEOREM WindowIsTrailingHolds == Spec => []WindowIsTrailing
<1>1. WindowInv => WindowIsTrailing
  <2> SUFFICES ASSUME WindowInv, NEW m \in Markets
               PROVE  LET all == passed[m]
                          survivors == {i \in 1..Len(all) : \A j \in i..Len(all) :
                                                              all[i].at >= all[j].at - Span}
                      IN  \E place \in [1..Len(windows[m]) -> survivors] :
                            /\ \A i, j \in 1..Len(windows[m]) : i < j => place[i] < place[j]
                            /\ \A k \in survivors : \E i \in 1..Len(windows[m]) : place[i] = k
                            /\ \A i \in 1..Len(windows[m]) : windows[m][i] = all[place[i]]
    BY DEF WindowIsTrailing
  <2>1. PICK place : Picks(place, windows[m], passed[m], Survivors(passed[m]))
    BY DEF WindowInv, Trailing
  <2> QED
    BY <2>1 DEF Picks, Survivors
<1> QED
  BY WindowInvariance, <1>1, PTL

(* The trade that lifts the sum of a market to an unchanged threshold      *)
(* raises the alert: what the cutoff removes first can only lower the sum, *)
(* so a rise from one evaluation to the next is a rise inside the second.  *)
THEOREM RisesNoticedHolds == Spec => RisesNoticed
<1> DEFINE Noticed(v) ==
             epc[v] = "window" /\ epc'[v] = "idle" /\ up' =>
               LET m == event[v].market IN
                 /\ before[m].threshold = before'[m].threshold
                 /\ before[m].total < before'[m].threshold
                 /\ before'[m].total >= before'[m].threshold
                 => "large_trade_window" \in alerts'[v]
<1>1. ASSUME WindowInv, [Next]_vars
      PROVE  \A v \in Evaluators : Noticed(v)
  <2> SUFFICES ASSUME NEW v \in Evaluators, epc[v] = "window", epc'[v] = "idle", up',
                      LET m == event[v].market IN
                        /\ before[m].threshold = before'[m].threshold
                        /\ before[m].total < before'[m].threshold
                        /\ before'[m].total >= before'[m].threshold
               PROVE  "large_trade_window" \in alerts'[v]
    OBVIOUS
  <2>1. UpdateWindow(v)
    BY <1>1 DEF Next, Load, Crash, Post, Update, Insert, WriteFails, Apply, Evaluate,
       EvaluateSingle, ReadThreshold, UpdateWindow, GotoE, vars, evaluatorVars, WindowInv, TypeOK
  <2> DEFINE e == event[v]
             m == e.market
             s == windows[m]
             c == e.at - Span
  <2>2. e \in Event
    BY <1>1, <2>1 DEF UpdateWindow, WindowInv, TypeOK
  <2>3. m \in Markets /\ e.notional \in Nat /\ c \in Int
    <3>1. Span \in Nat /\ MaxTime \in Nat
      BY EngineAssumption DEF Span
    <3>2. e.market \in Markets /\ e.notional \in Nat /\ e.at \in 0..MaxTime
      BY <2>2, EventType
    <3>3. e.at \in Int
      BY <3>1, <3>2
    <3> QED
      BY <3>1, <3>2, <3>3
  <2>4. s \in Seq(Trade) /\ before[m].total = Total(s) /\ threshold[v] \in Nat
    BY <1>1, <2>3 DEF WindowInv, TypeOK, Measured
  <2>5. Total(KeptBySystem(s, c)) \in Nat /\ Total(s) \in Nat
        /\ Total(KeptBySystem(s, c)) <= Total(s)
    <3> HIDE DEF s, c
    <3> QED
      BY <2>3, <2>4, KeptPicks
  <2> DEFINE previous == Total(KeptBySystem(s, c))
  <2>6. /\ before'[m].threshold = threshold[v]
        /\ before'[m].total = previous + e.notional
    BY <1>1, <2>1, <2>3 DEF UpdateWindow, WindowInv, TypeOK
  <2>7. Crosses(previous, previous + e.notional, threshold[v])
    <3> HIDE DEF s, c, m, e
    <3>1. Total(s) < threshold[v] /\ previous + e.notional >= threshold[v]
      BY <2>4, <2>6 DEF m, e
    <3> HIDE DEF previous
    <3>2. previous \in Nat /\ previous <= Total(s) /\ Total(s) \in Nat
      BY <2>5 DEF previous
    <3> QED
      BY <2>3, <2>4, <3>1, <3>2 DEF Crosses
  <2>8. alerts' = [alerts EXCEPT ![v] = @ \cup {"large_trade_window"}]
    BY <2>1, <2>7 DEF UpdateWindow
  <2> QED
    BY <1>1, <2>8 DEF WindowInv, TypeOK
<1> QED
  BY WindowInvariance, <1>1, PTL DEF Spec, RisesNoticed
=============================================================================
