------------------------ MODULE AlertPipeline_proofs ------------------------
(* Theorems about AlertPipeline, for every number of handlers, events,     *)
(* rules, users and senders and every pair of key lifetimes.               *)
EXTENDS AlertPipeline, FiniteSetTheorems, TLAPS

USE DEF UserChannel, chatVars

-----------------------------------------------------------------------------
LEMMA AttemptsType ==
  /\ UserChannel \in 0..Channels
  /\ \A c \in 0..Channels : Attempts[c] \in Nat /\ Attempts[c] >= 1
<1>1. \A c \in 0..Channels : Attempts[c] \in Nat \ {0}
  BY AttemptsAssumption
<1>2. \A n \in Nat \ {0} : n >= 1
  OBVIOUS
<1> QED
  BY <1>1, <1>2, NumberAssumption

(* The local variables of a handler name an alert.                         *)
LEMMA SystemAlertType ==
  ASSUME TypeOK, LocalInv, NEW w \in Workers, pc[w] \in SystemLabels
  PROVE  /\ SystemAlert(w) \in Alert
         /\ SystemAlert(w).by = System
         /\ SystemAlert(w).event = event[w]
         /\ Trigger(SystemAlert(w)) \in Triggers
<1>1. /\ event[w] \in Events
      /\ pend[w] \in Seq(TypesOf(KindOf[event[w]]))
      /\ pend[w] # <<>>
  BY DEF LocalInv, Local, SystemLabels
<1>2. Head(pend[w]) \in TypesOf(KindOf[event[w]])
  BY <1>1
<1>3. Head(pend[w]) \in AlertTypes
  BY <1>1, <1>2, DomainAssumption DEF TypesOf, Kinds, AlertTypes
<1>4. SystemAlert(w) \in Alert
  BY <1>1, <1>2, <1>3, DomainAssumption DEF SystemAlert, Alert
<1> QED
  BY <1>4 DEF SystemAlert, Triggers

LEMMA UserAlertType ==
  ASSUME TypeOK, LocalInv, NEW w \in Workers, pc[w] \in UserLabels
  PROVE  /\ UserAlert(w) \in Alert
         /\ UserAlert(w).by # System
         /\ UserAlert(w).event = event[w]
         /\ Trigger(UserAlert(w)) \in Triggers
<1>1. /\ event[w] \in Events
      /\ target[w] \in Target
      /\ RuleSymbol[target[w].rule] = SymbolOf[event[w]]
      /\ RuleType[target[w].rule] \in TypesOf(KindOf[event[w]])
  BY DEF LocalInv, Local, UserLabels
<1>2. /\ target[w].rule \in Rules
      /\ RuleType[target[w].rule] \in AlertTypes
      /\ target[w].rule # System
  BY <1>1, DomainAssumption DEF Target
<1>3. UserAlert(w) \in Alert
  BY <1>1, <1>2, DomainAssumption DEF UserAlert, Alert
<1> QED
  BY <1>2, <1>3 DEF UserAlert, Triggers

LEMMA TypesOfEvent ==
  ASSUME NEW e \in Events
  PROVE  /\ TypesOf(KindOf[e]) \subseteq AlertTypes
         /\ \A s \in Raises[e] : s \in Seq(TypesOf(KindOf[e])) /\ s \in Seq(AlertTypes)
<1> DEFINE T == TypesOf(KindOf[e])
<1>1. T \subseteq AlertTypes
  BY DomainAssumption DEF TypesOf, Kinds, AlertTypes
<1>2. \A s \in Evaluations(e) : s \in Seq(T)
  <2>1. CASE KindOf[e] = "agg_trade"
    <3>1. "large_trade" \in T /\ "large_trade_window" \in T
      BY <2>1 DEF TypesOf
    <3>2. /\ <<>> \in Seq(T)
          /\ <<"large_trade">> \in Seq(T)
          /\ <<"large_trade_window">> \in Seq(T)
          /\ <<"large_trade", "large_trade_window">> \in Seq(T)
      BY <3>1
    <3> QED
      BY <2>1, <3>2 DEF Evaluations
  <2>2. CASE KindOf[e] = "liquidation"
    <3>1. "liquidation" \in T
      BY <2>2 DEF TypesOf
    <3>2. <<>> \in Seq(T) /\ <<"liquidation">> \in Seq(T)
      BY <3>1
    <3> QED
      BY <2>2, <3>2 DEF Evaluations
  <2>3. CASE KindOf[e] = "funding"
    <3>1. "funding_anomaly" \in T
      BY <2>3 DEF TypesOf
    <3>2. <<>> \in Seq(T) /\ <<"funding_anomaly">> \in Seq(T)
      BY <3>1
    <3> QED
      BY <2>3, <3>2 DEF Evaluations
  <2> QED
    BY <2>1, <2>2, <2>3, DomainAssumption DEF Kinds
<1>3. Raises[e] \subseteq Evaluations(e)
  BY DomainAssumption
<1>4. \A s \in Seq(T) : s \in Seq(AlertTypes)
  BY <1>1
<1> QED
  BY <1>1, <1>2, <1>3, <1>4

LEMMA NextSystemAlertType ==
  ASSUME TypeOK, LocalInv, NEW w \in Workers, pc[w] \in SystemLabels, NextSystemAlert(w)
  PROVE  /\ pend' \in [Workers -> Seq(AlertTypes)]
         /\ pc' \in [Workers -> Labels]
<1>1. pend[w] # <<>> /\ pend[w] \in Seq(AlertTypes)
  BY DEF LocalInv, Local, TypeOK, HandlerTypes
<1>2. Tail(pend[w]) \in Seq(AlertTypes)
  BY <1>1
<1> QED
  BY <1>2 DEF NextSystemAlert, Goto, Labels, TypeOK, HandlerTypes

LEMMA ReturnType ==
  ASSUME TypeOK, NEW w \in Workers, NEW res \in {"ok", "error", "sendErr"}, Return(w, res)
  PROVE  HandlerTypes'
  BY DEF Return, Goto, TypeOK, HandlerTypes, Labels, Statuses

-----------------------------------------------------------------------------
(* What one attempt of a sender does to the history.                       *)
LEMMA PostEffect ==
  ASSUME TypeOK, NEW a \in Alert, NEW c \in 0..Channels,
         NEW arrives \in BOOLEAN, NEW known \in BOOLEAN, Post(a, c, arrives, known)
  PROVE  /\ delivered' \in [Message -> Nat] /\ confirmed' \in [Message -> Nat]
         /\ delivered'[<<a, c>>] = IF arrives THEN delivered[<<a, c>>] + 1 ELSE delivered[<<a, c>>]
         /\ confirmed'[<<a, c>>] = IF known THEN confirmed[<<a, c>>] + 1 ELSE confirmed[<<a, c>>]
         /\ \A m \in Message : m # <<a, c>> =>
              delivered'[m] = delivered[m] /\ confirmed'[m] = confirmed[m]
         /\ \A m \in Message : confirmed[m] <= confirmed'[m]
<1>1. <<a, c>> \in Message
  BY DEF Message
<1>2. delivered \in [Message -> Nat] /\ confirmed \in [Message -> Nat]
  BY DEF TypeOK, HistoryTypes
<1> QED
  BY <1>1, <1>2 DEF Post

LEMMA PostKnown ==
  ASSUME TypeOK, NEW a \in Alert, NEW c \in 0..Channels, Post(a, c, TRUE, TRUE)
  PROVE  confirmed'[<<a, c>>] > 0
<1>1. confirmed' = [confirmed EXCEPT ![<<a, c>>] = @ + 1]
  BY DEF Post
<1>2. <<a, c>> \in Message /\ confirmed \in [Message -> Nat]
  BY DEF Message, TypeOK, HistoryTypes
<1>3. confirmed[<<a, c>>] \in Nat /\ confirmed'[<<a, c>>] = confirmed[<<a, c>>] + 1
  BY <1>1, <1>2
<1> QED
  BY <1>3

LEMMA SendToPosts ==
  ASSUME NEW w, NEW a, NEW c, NEW label, SendTo(w, a, c, label)
  PROVE  \E arrives \in BOOLEAN, known \in BOOLEAN : Post(a, c, arrives, known)
BY DEF SendTo

-----------------------------------------------------------------------------
(* Type correctness.                                                       *)
LEMMA TypeInit == Init => TypeOK
<1> SUFFICES ASSUME Init PROVE TypeOK
  OBVIOUS
<1>1. StoreTypes
  BY DEF Init, StoreTypes
<1>2. HandlerTypes
  BY DEF Init, HandlerTypes, Labels, Statuses
<1>3. HistoryTypes
  BY DEF Init, HistoryTypes
<1> QED
  BY <1>1, <1>2, <1>3 DEF TypeOK

LEMMA SendToType ==
  ASSUME TypeOK, NEW w \in Workers, NEW a, NEW c, NEW label \in Labels, SendTo(w, a, c, label)
  PROVE  /\ pc' \in [Workers -> Labels]
         /\ status' \in [Workers -> Statuses]
         /\ attempt' \in [Workers -> Nat \ {0}]
<1> USE DEF TypeOK, HandlerTypes, Goto, Statuses
<1>1. CASE Retry(w)
  BY <1>1 DEF Retry
<1>2. ASSUME NEW outcome \in {"sent", "failed"}, SendReturns(w, outcome, label)
      PROVE  /\ pc' \in [Workers -> Labels]
             /\ status' \in [Workers -> Statuses]
             /\ attempt' \in [Workers -> Nat \ {0}]
  BY <1>2 DEF SendReturns
<1> QED
  BY <1>1, <1>2 DEF SendTo

(* The three parts of the type invariant, action by action.                *)
LEMMA StoreTypesStep == TypeOK /\ LocalInv /\ [Next]_vars => StoreTypes'
<1> SUFFICES ASSUME TypeOK, LocalInv, [Next]_vars PROVE StoreTypes'
  OBVIOUS
<1> USE NumberAssumption DEF TypeOK, StoreTypes, redisVars, sqlVars
<1>1. ASSUME NEW w \in Workers, NEW e \in Events, Accept(w, e) PROVE StoreTypes'
  BY <1>1 DEF Accept
<1>2. ASSUME NEW w \in Workers, SystemDedupe(w) PROVE StoreTypes'
  <2>1. SystemAlert(w) \in Alert
    BY <1>2, SystemAlertType DEF SystemDedupe, SystemLabels
  <2>2. dedupe' \in [Alert -> Nat]
    BY <1>2, <2>1 DEF SystemDedupe, SetNXDedupe
  <2> QED
    BY <1>2, <2>2 DEF SystemDedupe
<1>3. ASSUME NEW w \in Workers, SystemRateLimit(w) PROVE StoreTypes'
  <2>1. Trigger(SystemAlert(w)) \in Triggers
    BY <1>3, SystemAlertType DEF SystemRateLimit, SystemLabels
  <2>2. rate' \in [Triggers -> Nat]
    BY <1>3, <2>1 DEF SystemRateLimit, SetNXRate
  <2> QED
    BY <1>3, <2>2 DEF SystemRateLimit
<1>4. ASSUME NEW w \in Workers, SystemInsertEvent(w) PROVE StoreTypes'
  BY <1>4 DEF SystemInsertEvent, LocalInv, Local
<1>5. ASSUME NEW w \in Workers, SystemInsertAlert(w) PROVE StoreTypes'
  BY <1>5, SystemAlertType DEF SystemInsertAlert, SystemLabels
<1>6. ASSUME NEW w \in Workers, SystemSend(w) PROVE StoreTypes'
  BY <1>6 DEF SystemSend
<1>7. ASSUME NEW w \in Workers, SystemLog(w) PROVE StoreTypes'
  BY <1>7, SystemAlertType DEF SystemLog, InsertLog, LocalInv, Local, SystemLabels, HandlerTypes
<1>8. ASSUME NEW w \in Workers, ListUserRules(w) PROVE StoreTypes'
  BY <1>8 DEF ListUserRules
<1>9. ASSUME NEW w \in Workers, EvaluateUserRule(w) PROVE StoreTypes'
  BY <1>9 DEF EvaluateUserRule
<1>10. ASSUME NEW w \in Workers, UserDedupe(w) PROVE StoreTypes'
  <2>1. UserAlert(w) \in Alert
    BY <1>10, UserAlertType DEF UserDedupe, UserLabels
  <2>2. dedupe' \in [Alert -> Nat]
    BY <1>10, <2>1 DEF UserDedupe, SetNXDedupe
  <2> QED
    BY <1>10, <2>2 DEF UserDedupe
<1>11. ASSUME NEW w \in Workers, UserRateLimit(w) PROVE StoreTypes'
  <2>1. Trigger(UserAlert(w)) \in Triggers
    BY <1>11, UserAlertType DEF UserRateLimit, UserLabels
  <2>2. rate' \in [Triggers -> Nat]
    BY <1>11, <2>1 DEF UserRateLimit, SetNXRate
  <2> QED
    BY <1>11, <2>2 DEF UserRateLimit
<1>12. ASSUME NEW w \in Workers, UserInsertEvent(w) PROVE StoreTypes'
  BY <1>12 DEF UserInsertEvent, LocalInv, Local
<1>13. ASSUME NEW w \in Workers, UserInsertAlert(w) PROVE StoreTypes'
  BY <1>13, UserAlertType DEF UserInsertAlert, UserLabels
<1>14. ASSUME NEW w \in Workers, UserRoute(w) PROVE StoreTypes'
  BY <1>14 DEF UserRoute
<1>21. ASSUME NEW w \in Workers, UserSend(w) PROVE StoreTypes'
  BY <1>21 DEF UserSend
<1>15. ASSUME NEW w \in Workers, UserLog(w) PROVE StoreTypes'
  BY <1>15, UserAlertType DEF UserLog, InsertLog, UserLabels, HandlerTypes
<1>16. ASSUME NEW w \in Workers, Finish(w) PROVE StoreTypes'
  BY <1>16 DEF Finish
<1>17. ASSUME NEW w \in Workers, Abort(w) PROVE StoreTypes'
  BY <1>17 DEF Abort
<1>18. ASSUME NEW u \in Users, ChangeProfile(u) PROVE StoreTypes'
  BY <1>18 DEF ChangeProfile
<1>19. CASE Tick
  BY <1>19 DEF Tick
<1>20. CASE UNCHANGED vars
  BY <1>20 DEF vars
<1> QED
  BY <1>1, <1>2, <1>3, <1>4, <1>5, <1>6, <1>7, <1>8, <1>9, <1>10, <1>11, <1>12, <1>13,
     <1>14, <1>15, <1>16, <1>17, <1>18, <1>19, <1>20, <1>21 DEF Next, Step

LEMMA HandlerTypesStep == TypeOK /\ LocalInv /\ [Next]_vars => HandlerTypes'
<1> SUFFICES ASSUME TypeOK, LocalInv, [Next]_vars PROVE HandlerTypes'
  OBVIOUS
<1> USE DEF TypeOK, HandlerTypes, Goto, Labels, Statuses, localVars
<1>1. ASSUME NEW w \in Workers, NEW e \in Events, Accept(w, e) PROVE HandlerTypes'
<2>1. PICK types \in Raises[e] : pend' = [pend EXCEPT ![w] = types]
  BY <1>1 DEF Accept
<2>2. types \in Seq(AlertTypes)
  BY <2>1, TypesOfEvent
<2> QED
  BY <1>1, <2>1, <2>2 DEF Accept
<1>2. ASSUME NEW w \in Workers, SystemDedupe(w) PROVE HandlerTypes'
  BY <1>2, NextSystemAlertType DEF SystemDedupe, SystemLabels
<1>3. ASSUME NEW w \in Workers, SystemRateLimit(w) PROVE HandlerTypes'
<2>1. pend' \in [Workers -> Seq(AlertTypes)] /\ pc' \in [Workers -> Labels]
  BY <1>3, NextSystemAlertType DEF SystemRateLimit, SystemLabels
<2> QED
  BY <1>3, <2>1 DEF SystemRateLimit
<1>4. ASSUME NEW w \in Workers, SystemInsertEvent(w) PROVE HandlerTypes'
  BY <1>4 DEF SystemInsertEvent
<1>5. ASSUME NEW w \in Workers, SystemInsertAlert(w) PROVE HandlerTypes'
<2>1. pend' \in [Workers -> Seq(AlertTypes)] /\ pc' \in [Workers -> Labels]
  BY <1>5, NextSystemAlertType DEF SystemInsertAlert, SystemLabels
<2>2. chan' \in [Workers -> Nat]
  <3>1. chan' = chan \/ chan' = [chan EXCEPT ![w] = 1]
    BY <1>5 DEF SystemInsertAlert
  <3>2. chan \in [Workers -> Nat]
    OBVIOUS
  <3> HIDE DEF TypeOK, HandlerTypes
  <3> QED
    BY <3>1, <3>2
<2>3. UNCHANGED <<event, todo, target, status, attempt, result>>
  BY <1>5 DEF SystemInsertAlert
<2> QED
  BY <2>1, <2>2, <2>3
<1>6. ASSUME NEW w \in Workers, SystemSend(w) PROVE HandlerTypes'
<2>1. /\ pc' \in [Workers -> Labels]
      /\ status' \in [Workers -> Statuses]
      /\ attempt' \in [Workers -> Nat \ {0}]
  BY <1>6, SendToType DEF SystemSend
<2> QED
  BY <1>6, <2>1 DEF SystemSend
<1>7. ASSUME NEW w \in Workers, SystemLog(w) PROVE HandlerTypes'
<2>1. pend' \in [Workers -> Seq(AlertTypes)] /\ pc' \in [Workers -> Labels]
  <3>1. CASE chan[w] < Channels
    BY <1>7, <3>1 DEF SystemLog
  <3>2. CASE ~(chan[w] < Channels)
    <4>1. NextSystemAlert(w) /\ pc[w] \in SystemLabels
      BY <1>7, <3>2 DEF SystemLog, SystemLabels
    <4> QED
      BY <4>1, NextSystemAlertType
  <3> QED
    BY <3>1, <3>2
<2>2. chan' \in [Workers -> Nat] /\ status' \in [Workers -> Statuses]
  BY <1>7 DEF SystemLog, NextSystemAlert
<2>3. UNCHANGED <<event, todo, target, attempt, result>>
  BY <1>7 DEF SystemLog
<2> QED
  BY <2>1, <2>2, <2>3
<1>8. ASSUME NEW w \in Workers, ListUserRules(w) PROVE HandlerTypes'
  BY <1>8, DomainAssumption DEF ListUserRules, MatchingRules, Target, StoreTypes
<1>9. ASSUME NEW w \in Workers, EvaluateUserRule(w) PROVE HandlerTypes'
<2>1. PICK t \in todo[w] :
        /\ todo' = [todo EXCEPT ![w] = @ \ {t}]
        /\ \/ target' = [target EXCEPT ![w] = t] /\ Goto(w, "uDedupe")
           \/ UNCHANGED <<target, pc>>
  BY <1>9 DEF EvaluateUserRule
<2>2. t \in Target /\ todo[w] \in SUBSET Target
  BY <2>1
<2>3. todo' \in [Workers -> SUBSET Target]
  BY <2>1, <2>2
<2>5. target' \in [Workers -> Target \cup {None}]
  <3>1. target' = target \/ target' = [target EXCEPT ![w] = t]
    BY <2>1
  <3> QED
    BY <2>2, <3>1
<2>4. pc' \in [Workers -> Labels]
  BY <2>1
<2> QED
  BY <1>9, <2>3, <2>4, <2>5 DEF EvaluateUserRule
<1>10. ASSUME NEW w \in Workers, UserDedupe(w) PROVE HandlerTypes'
  BY <1>10 DEF UserDedupe, NextUserRule
<1>11. ASSUME NEW w \in Workers, UserRateLimit(w) PROVE HandlerTypes'
  BY <1>11 DEF UserRateLimit, NextUserRule
<1>12. ASSUME NEW w \in Workers, UserInsertEvent(w) PROVE HandlerTypes'
  BY <1>12 DEF UserInsertEvent
<1>13. ASSUME NEW w \in Workers, UserInsertAlert(w) PROVE HandlerTypes'
  BY <1>13 DEF UserInsertAlert
<1>14. ASSUME NEW w \in Workers, UserRoute(w) PROVE HandlerTypes'
<2>1. Route(target[w].user, event[w]) \in Statuses
  BY DEF Route
<2>2. pc' \in [Workers -> Labels] /\ status' \in [Workers -> Statuses]
  BY <1>14, <2>1 DEF UserRoute
<2> QED
  BY <1>14, <2>2 DEF UserRoute
<1>21. ASSUME NEW w \in Workers, UserSend(w) PROVE HandlerTypes'
<2>1. /\ pc' \in [Workers -> Labels]
      /\ status' \in [Workers -> Statuses]
      /\ attempt' \in [Workers -> Nat \ {0}]
  BY <1>21, SendToType DEF UserSend
<2> QED
  BY <1>21, <2>1 DEF UserSend
<1>15. ASSUME NEW w \in Workers, UserLog(w) PROVE HandlerTypes'
  BY <1>15, ReturnType DEF UserLog, NextUserRule
<1>16. ASSUME NEW w \in Workers, Finish(w) PROVE HandlerTypes'
  BY <1>16, ReturnType DEF Finish
<1>17. ASSUME NEW w \in Workers, Abort(w) PROVE HandlerTypes'
  BY <1>17, ReturnType DEF Abort
<1>18. ASSUME NEW u \in Users, ChangeProfile(u) PROVE HandlerTypes'
  BY <1>18 DEF ChangeProfile
<1>19. CASE Tick
  BY <1>19 DEF Tick
<1>20. CASE UNCHANGED vars
  BY <1>20 DEF vars
<1> QED
  BY <1>1, <1>2, <1>3, <1>4, <1>5, <1>6, <1>7, <1>8, <1>9, <1>10, <1>11, <1>12, <1>13,
     <1>14, <1>15, <1>16, <1>17, <1>18, <1>19, <1>20, <1>21 DEF Next, Step

LEMMA HistoryTypesStep == TypeOK /\ LocalInv /\ [Next]_vars => HistoryTypes'
<1> SUFFICES ASSUME TypeOK, LocalInv, [Next]_vars PROVE HistoryTypes'
  OBVIOUS
<1> USE NumberAssumption DEF TypeOK, HistoryTypes, gateVars
<1>1. ASSUME NEW w \in Workers, NEW e \in Events, Accept(w, e) PROVE HistoryTypes'
  BY <1>1 DEF Accept
<1>2. ASSUME NEW w \in Workers, SystemDedupe(w) PROVE HistoryTypes'
  BY <1>2 DEF SystemDedupe
<1>3. ASSUME NEW w \in Workers, SystemRateLimit(w) PROVE HistoryTypes'
  BY <1>3, SystemAlertType DEF SystemRateLimit, Admit, SystemLabels, StoreTypes
<1>4. ASSUME NEW w \in Workers, SystemInsertEvent(w) PROVE HistoryTypes'
  BY <1>4 DEF SystemInsertEvent
<1>5. ASSUME NEW w \in Workers, SystemInsertAlert(w) PROVE HistoryTypes'
  BY <1>5 DEF SystemInsertAlert
<1>6. ASSUME NEW w \in Workers, SystemSend(w) PROVE HistoryTypes'
<2>1. SystemAlert(w) \in Alert /\ chan[w] \in 0..Channels
  BY <1>6, SystemAlertType DEF SystemSend, SystemLabels, LocalInv, Local
<2>2. PICK arrives \in BOOLEAN, known \in BOOLEAN : Post(SystemAlert(w), chan[w], arrives, known)
  BY <1>6, SendToPosts DEF SystemSend
<2>3. delivered' \in [Message -> Nat] /\ confirmed' \in [Message -> Nat]
  BY <2>1, <2>2, PostEffect
<2> QED
  BY <1>6, <2>3 DEF SystemSend
<1>7. ASSUME NEW w \in Workers, SystemLog(w) PROVE HistoryTypes'
  BY <1>7 DEF SystemLog, InsertLog
<1>8. ASSUME NEW w \in Workers, ListUserRules(w) PROVE HistoryTypes'
  BY <1>8 DEF ListUserRules
<1>9. ASSUME NEW w \in Workers, EvaluateUserRule(w) PROVE HistoryTypes'
  BY <1>9 DEF EvaluateUserRule
<1>10. ASSUME NEW w \in Workers, UserDedupe(w) PROVE HistoryTypes'
  BY <1>10, UserAlertType DEF UserDedupe, Admit, UserLabels, StoreTypes
<1>11. ASSUME NEW w \in Workers, UserRateLimit(w) PROVE HistoryTypes'
  BY <1>11, UserAlertType DEF UserRateLimit, Admit, UserLabels, StoreTypes
<1>12. ASSUME NEW w \in Workers, UserInsertEvent(w) PROVE HistoryTypes'
  BY <1>12 DEF UserInsertEvent
<1>13. ASSUME NEW w \in Workers, UserInsertAlert(w) PROVE HistoryTypes'
  BY <1>13 DEF UserInsertAlert
<1>14. ASSUME NEW w \in Workers, UserRoute(w) PROVE HistoryTypes'
<2>1. UserAlert(w) \in Alert /\ UserChannel \in 0..Channels
  BY <1>14, UserAlertType DEF UserRoute, UserLabels
<2>2. delivered' \in [Message -> Nat] /\ confirmed' \in [Message -> Nat]
  <3> DEFINE sent == Route(target[w].user, event[w]) = "digested"
  <3>1. CASE UNCHANGED chatVars
    BY <3>1
  <3>2. CASE Post(UserAlert(w), UserChannel, sent, sent)
    <4> sent \in BOOLEAN
      OBVIOUS
    <4> QED
      BY <2>1, <3>2, PostEffect
  <3> QED
    BY <1>14, <3>1, <3>2 DEF UserRoute
<2> QED
  BY <1>14, <2>2 DEF UserRoute
<1>21. ASSUME NEW w \in Workers, UserSend(w) PROVE HistoryTypes'
<2>1. UserAlert(w) \in Alert /\ UserChannel \in 0..Channels
  BY <1>21, UserAlertType DEF UserSend, UserLabels
<2>2. PICK arrives \in BOOLEAN, known \in BOOLEAN : Post(UserAlert(w), UserChannel, arrives, known)
  BY <1>21, SendToPosts DEF UserSend
<2>3. delivered' \in [Message -> Nat] /\ confirmed' \in [Message -> Nat]
  BY <2>1, <2>2, PostEffect
<2> QED
  BY <1>21, <2>3 DEF UserSend
<1>15. ASSUME NEW w \in Workers, UserLog(w) PROVE HistoryTypes'
  BY <1>15 DEF UserLog, InsertLog
<1>16. ASSUME NEW w \in Workers, Finish(w) PROVE HistoryTypes'
  BY <1>16 DEF Finish
<1>17. ASSUME NEW w \in Workers, Abort(w) PROVE HistoryTypes'
  BY <1>17 DEF Abort
<1>18. ASSUME NEW u \in Users, ChangeProfile(u) PROVE HistoryTypes'
  BY <1>18 DEF ChangeProfile
<1>19. CASE Tick
  BY <1>19 DEF Tick
<1>20. CASE UNCHANGED vars
  BY <1>20 DEF vars
<1> QED
  BY <1>1, <1>2, <1>3, <1>4, <1>5, <1>6, <1>7, <1>8, <1>9, <1>10, <1>11, <1>12, <1>13,
     <1>14, <1>15, <1>16, <1>17, <1>18, <1>19, <1>20, <1>21 DEF Next, Step

LEMMA TypeStep == TypeOK /\ LocalInv /\ [Next]_vars => TypeOK'
  BY StoreTypesStep, HandlerTypesStep, HistoryTypesStep DEF TypeOK

-----------------------------------------------------------------------------
(* One step of handler w, and what it leaves alone.                        *)
Move(w) == Step(w) \/ Abort(w) \/ \E e \in Events : Accept(w, e)

LEMMA OthersKept ==
  ASSUME TypeOK, NEW w \in Workers, NEW v \in Workers, v # w, Move(w)
  PROVE  /\ UNCHANGED <<pc[v], event[v], pend[v], chan[v], todo[v], target[v], status[v], attempt[v]>>
         /\ UNCHANGED <<result[v], owed[v]>>
<1> USE DEF TypeOK, HandlerTypes, HistoryTypes, Goto, localVars
<1> DEFINE Kept == /\ UNCHANGED <<pc[v], event[v], pend[v], chan[v], todo[v], target[v], status[v], attempt[v]>>
                   /\ UNCHANGED <<result[v], owed[v]>>
<1>1. ASSUME NEW e \in Events, Accept(w, e) PROVE Kept
  BY <1>1 DEF Accept
<1>2. CASE SystemDedupe(w)
  BY <1>2 DEF SystemDedupe, NextSystemAlert
<1>3. CASE SystemRateLimit(w)
  BY <1>3 DEF SystemRateLimit, NextSystemAlert, Admit
<1>4. CASE SystemInsertEvent(w)
  BY <1>4 DEF SystemInsertEvent
<1>5. CASE SystemInsertAlert(w)
  BY <1>5 DEF SystemInsertAlert, NextSystemAlert
<1>6. CASE SystemSend(w)
  BY <1>6 DEF SystemSend, SendTo, SendReturns, Retry
<1>7. CASE SystemLog(w)
  BY <1>7 DEF SystemLog, NextSystemAlert, InsertLog
<1>8. CASE ListUserRules(w)
  BY <1>8 DEF ListUserRules
<1>9. CASE EvaluateUserRule(w)
  BY <1>9 DEF EvaluateUserRule
<1>10. CASE UserDedupe(w)
  BY <1>10 DEF UserDedupe, NextUserRule, Admit
<1>11. CASE UserRateLimit(w)
  BY <1>11 DEF UserRateLimit, NextUserRule, Admit
<1>12. CASE UserInsertEvent(w)
  BY <1>12 DEF UserInsertEvent
<1>13. CASE UserInsertAlert(w)
  BY <1>13 DEF UserInsertAlert
<1>14. CASE UserRoute(w)
  BY <1>14 DEF UserRoute
<1>18. CASE UserSend(w)
  BY <1>18 DEF UserSend, SendTo, SendReturns, Retry
<1>15. CASE UserLog(w)
  BY <1>15 DEF UserLog, NextUserRule, InsertLog, Return
<1>16. CASE Finish(w)
  BY <1>16 DEF Finish, Return
<1>17. CASE Abort(w)
  BY <1>17 DEF Abort, Return
<1> QED
  BY <1>1, <1>2, <1>3, <1>4, <1>5, <1>6, <1>7, <1>8, <1>9, <1>10, <1>11,
     <1>12, <1>13, <1>14, <1>15, <1>16, <1>17, <1>18 DEF Move, Step

(* Rows and acknowledged messages are never taken back.                    *)
LEMMA StoresGrow ==
  ASSUME TypeOK, LocalInv, [Next]_vars
  PROVE  /\ events \subseteq events'
         /\ alerts \subseteq alerts'
         /\ \A m \in Message : confirmed[m] <= confirmed'[m]
<1> USE DEF TypeOK, StoreTypes, HistoryTypes, sqlVars
<1> DEFINE Grown == /\ events \subseteq events'
                    /\ alerts \subseteq alerts'
                    /\ \A m \in Message : confirmed[m] <= confirmed'[m]
<1>1. ASSUME NEW w \in Workers, NEW e \in Events, Accept(w, e) PROVE Grown
  BY <1>1 DEF Accept
<1>2. ASSUME NEW w \in Workers, SystemDedupe(w) PROVE Grown
  BY <1>2 DEF SystemDedupe
<1>3. ASSUME NEW w \in Workers, SystemRateLimit(w) PROVE Grown
  BY <1>3 DEF SystemRateLimit
<1>4. ASSUME NEW w \in Workers, SystemInsertEvent(w) PROVE Grown
  BY <1>4 DEF SystemInsertEvent
<1>5. ASSUME NEW w \in Workers, SystemInsertAlert(w) PROVE Grown
  BY <1>5 DEF SystemInsertAlert
<1>6. ASSUME NEW w \in Workers, SystemSend(w) PROVE Grown
  <2>1. SystemAlert(w) \in Alert /\ chan[w] \in 0..Channels
    BY <1>6, SystemAlertType DEF SystemSend, SystemLabels, LocalInv, Local
  <2> QED
    BY <1>6, <2>1, SendToPosts, PostEffect DEF SystemSend
<1>7. ASSUME NEW w \in Workers, SystemLog(w) PROVE Grown
  BY <1>7 DEF SystemLog
<1>8. ASSUME NEW w \in Workers, ListUserRules(w) PROVE Grown
  BY <1>8 DEF ListUserRules
<1>9. ASSUME NEW w \in Workers, EvaluateUserRule(w) PROVE Grown
  BY <1>9 DEF EvaluateUserRule
<1>10. ASSUME NEW w \in Workers, UserDedupe(w) PROVE Grown
  BY <1>10 DEF UserDedupe
<1>11. ASSUME NEW w \in Workers, UserRateLimit(w) PROVE Grown
  BY <1>11 DEF UserRateLimit
<1>12. ASSUME NEW w \in Workers, UserInsertEvent(w) PROVE Grown
  BY <1>12 DEF UserInsertEvent
<1>13. ASSUME NEW w \in Workers, UserInsertAlert(w) PROVE Grown
  BY <1>13 DEF UserInsertAlert
<1>14. ASSUME NEW w \in Workers, UserRoute(w) PROVE Grown
  <2>1. UserAlert(w) \in Alert /\ UserChannel \in 0..Channels
    BY <1>14, UserAlertType, NumberAssumption DEF UserRoute, UserLabels
  <2>2. CASE UNCHANGED chatVars
    BY <1>14, <2>2 DEF UserRoute
  <2>3. CASE ~UNCHANGED chatVars
    <3>1. PICK sent \in BOOLEAN : Post(UserAlert(w), UserChannel, sent, sent)
      BY <1>14, <2>3 DEF UserRoute
    <3>2. \A m \in Message : confirmed[m] <= confirmed'[m]
      BY <2>1, <3>1, PostEffect
    <3> QED
      BY <1>14, <3>2 DEF UserRoute
  <2> QED
    BY <2>2, <2>3
<1>21. ASSUME NEW w \in Workers, UserSend(w) PROVE Grown
  <2>1. UserAlert(w) \in Alert /\ UserChannel \in 0..Channels
    BY <1>21, UserAlertType, NumberAssumption DEF UserSend, UserLabels
  <2> QED
    BY <1>21, <2>1, SendToPosts, PostEffect DEF UserSend
<1>15. ASSUME NEW w \in Workers, UserLog(w) PROVE Grown
  BY <1>15 DEF UserLog
<1>16. ASSUME NEW w \in Workers, Finish(w) PROVE Grown
  BY <1>16 DEF Finish
<1>17. ASSUME NEW w \in Workers, Abort(w) PROVE Grown
  BY <1>17 DEF Abort
<1>18. ASSUME NEW u \in Users, ChangeProfile(u) PROVE Grown
  BY <1>18 DEF ChangeProfile
<1>19. CASE Tick
  BY <1>19 DEF Tick
<1>20. CASE UNCHANGED vars
  BY <1>20 DEF vars
<1> QED
  BY <1>1, <1>2, <1>3, <1>4, <1>5, <1>6, <1>7, <1>8, <1>9, <1>10, <1>11, <1>12, <1>13,
     <1>14, <1>15, <1>16, <1>17, <1>18, <1>19, <1>20, <1>21 DEF Next, Step

-----------------------------------------------------------------------------
(* A running handler denotes an alert of its event.                        *)
LEMMA LocalInit == Init => LocalInv
  BY DEF Init, LocalInv, Local, SystemLabels, UserLabels

LEMMA NonEmptySeq ==
  ASSUME NEW S, NEW s \in Seq(S), Len(s) # 0
  PROVE  s # <<>>
  OBVIOUS

LEMMA TailOfSeq ==
  ASSUME NEW S, NEW s \in Seq(S), s # <<>>
  PROVE  Tail(s) \in Seq(S) /\ (Len(s) # 1 => Tail(s) # <<>>)
<1>1. Tail(s) \in Seq(S) /\ (Len(s) # 1 => Len(Tail(s)) # 0)
  OBVIOUS
<1> QED
  BY <1>1, NonEmptySeq

LEMMA NextSystemAlertLocal ==
  ASSUME TypeOK, NEW w \in Workers, Local(w), pc[w] \in SystemLabels,
         NextSystemAlert(w), UNCHANGED <<event, todo, target, attempt>>,
         pc[w] # "send"
  PROVE  Local(w)'
<1> DEFINE T == TypesOf(KindOf[event[w]])
<1>1. pend[w] \in Seq(T) /\ pend[w] # <<>>
  BY DEF Local, SystemLabels
<1>2. Tail(pend[w]) \in Seq(T) /\ (Len(pend[w]) # 1 => Tail(pend[w]) # <<>>)
  BY <1>1, TailOfSeq
<1>3. pend'[w] = Tail(pend[w])
  BY DEF NextSystemAlert, TypeOK, HandlerTypes
<1>4. pc'[w] = IF Len(pend[w]) = 1 THEN "list" ELSE "dedupe"
  BY DEF NextSystemAlert, Goto, TypeOK, HandlerTypes
<1> QED
  BY <1>2, <1>3, <1>4 DEF Local, SystemLabels, UserLabels

LEMMA LocalMove ==
  ASSUME TypeOK, LocalInv, NEW w \in Workers, Move(w)
  PROVE  Local(w)'
<1> USE DEF TypeOK, HandlerTypes, Goto, localVars, Local, SystemLabels, UserLabels
<1>0. Local(w)
  BY DEF LocalInv
<1>1. ASSUME NEW e \in Events, Accept(w, e) PROVE Local(w)'
  <2>1. PICK types \in Raises[e] :
          /\ pend' = [pend EXCEPT ![w] = types]
          /\ pc' = [pc EXCEPT ![w] = IF types = <<>> THEN "list" ELSE "dedupe"]
    BY <1>1 DEF Accept
  <2>2. types \in Seq(TypesOf(KindOf[e]))
    BY <2>1, TypesOfEvent
  <2>3. event'[w] = e /\ pend'[w] = types /\ todo'[w] = todo[w] /\ attempt'[w] = attempt[w]
    BY <1>1, <2>1 DEF Accept
  <2>4. pc'[w] = IF types = <<>> THEN "list" ELSE "dedupe"
    BY <2>1
  <2>5. todo[w] = {} /\ attempt[w] = 1
    BY <1>0, <1>1 DEF Accept
  <2> HIDE DEF HandlerTypes
  <2> QED
    BY <2>2, <2>3, <2>4, <2>5
<1>2. CASE SystemDedupe(w)
  <2>1. CASE NextSystemAlert(w)
    BY <1>0, <1>2, <2>1, NextSystemAlertLocal DEF SystemDedupe
  <2>2. CASE pc' = [pc EXCEPT ![w] = "rate"] /\ UNCHANGED pend
    BY <1>0, <1>2, <2>2 DEF SystemDedupe
  <2> QED
    BY <1>2, <2>1, <2>2 DEF SystemDedupe
<1>3. CASE SystemRateLimit(w)
  <2>1. CASE NextSystemAlert(w)
    BY <1>0, <1>3, <2>1, NextSystemAlertLocal DEF SystemRateLimit
  <2>2. CASE pc' = [pc EXCEPT ![w] = "event"] /\ UNCHANGED pend
    BY <1>0, <1>3, <2>2 DEF SystemRateLimit
  <2> QED
    BY <1>3, <2>1, <2>2 DEF SystemRateLimit
<1>4. CASE SystemInsertEvent(w)
  BY <1>0, <1>4 DEF SystemInsertEvent
<1>5. CASE SystemInsertAlert(w)
  <2>1. CASE Channels = 0
    BY <1>0, <1>5, <2>1, NextSystemAlertLocal DEF SystemInsertAlert
  <2>2. CASE Channels # 0
    BY <1>0, <1>5, <2>2, NumberAssumption, AttemptsType DEF SystemInsertAlert
  <2> QED
    BY <2>1, <2>2
<1>6. CASE SystemSend(w)
  <2>1. chan[w] \in 0..Channels
    BY <1>0, <1>6 DEF SystemSend
  <2>2. CASE pc'[w] = "log" /\ attempt'[w] = 1
    BY <1>0, <1>6, <2>2 DEF SystemSend
  <2>3. CASE attempt[w] < Attempts[chan[w]] /\ Retry(w)
    BY <1>0, <1>6, <2>1, <2>3, AttemptsType DEF SystemSend, Retry
  <2> QED
    BY <1>6, <2>2, <2>3 DEF SystemSend, SendTo, SendReturns
<1>7. CASE SystemLog(w)
  <2>1. CASE chan[w] < Channels
    BY <1>0, <1>7, <2>1, NumberAssumption, AttemptsType DEF SystemLog
  <2>2. CASE ~(chan[w] < Channels)
    BY <1>0, <1>7, <2>2, NextSystemAlertLocal DEF SystemLog
  <2> QED
    BY <2>1, <2>2
<1>8. CASE ListUserRules(w)
  <2>1. PICK S \in SUBSET MatchingRules(event[w]) :
          todo' = [todo EXCEPT ![w] = {[rule |-> r, user |-> users[Owner[r]]] : r \in S}]
    BY <1>8 DEF ListUserRules
  <2>2. \A t \in todo'[w] : RuleSymbol[t.rule] = SymbolOf[event[w]]
    BY <2>1 DEF MatchingRules
  <2>3. pc'[w] = "user" /\ event'[w] = event[w] /\ pend'[w] = pend[w]
    BY <1>8 DEF ListUserRules
  <2> QED
    BY <1>0, <1>8, <2>2, <2>3 DEF ListUserRules
<1>9. CASE EvaluateUserRule(w)
  BY <1>0, <1>9 DEF EvaluateUserRule
<1>10. CASE UserDedupe(w)
  <2>1. CASE Limited(UserAlert(w)) /\ Goto(w, "uRate") /\ UNCHANGED target
    <3>1. RuleType[target[w].rule] # "large_trade_window"
      BY <1>10, <2>1, UserAlertType DEF UserDedupe, Limited, UserAlert
    <3> QED
      BY <1>0, <1>10, <2>1, <3>1 DEF UserDedupe
  <2>2. CASE Goto(w, "uEvent") /\ UNCHANGED target
    BY <1>0, <1>10, <2>2 DEF UserDedupe
  <2>3. CASE NextUserRule(w)
    BY <1>0, <1>10, <2>3 DEF UserDedupe, NextUserRule
  <2> QED
    BY <1>10, <2>1, <2>2, <2>3 DEF UserDedupe
<1>11. CASE UserRateLimit(w)
  BY <1>0, <1>11 DEF UserRateLimit, NextUserRule
<1>12. CASE UserInsertEvent(w)
  BY <1>0, <1>12 DEF UserInsertEvent
<1>13. CASE UserInsertAlert(w)
  BY <1>0, <1>13 DEF UserInsertAlert
<1>14. CASE UserRoute(w)
  <2>1. 1 <= Attempts[UserChannel]
    BY AttemptsType
  <2> QED
    BY <1>0, <1>14, <2>1 DEF UserRoute
<1>18. CASE UserSend(w)
  <2>1. CASE pc'[w] = "uLog" /\ attempt'[w] = 1
    BY <1>0, <1>18, <2>1 DEF UserSend
  <2>2. CASE attempt[w] < Attempts[UserChannel] /\ Retry(w)
    BY <1>0, <1>18, <2>2, AttemptsType DEF UserSend, Retry
  <2> QED
    BY <1>18, <2>1, <2>2 DEF UserSend, SendTo, SendReturns
<1>15. CASE UserLog(w)
  BY <1>0, <1>15 DEF UserLog, NextUserRule, Return
<1>16. CASE Finish(w)
  BY <1>0, <1>16 DEF Finish, Return
<1>17. CASE Abort(w)
  BY <1>0, <1>17 DEF Abort, Return
<1> QED
  BY <1>1, <1>2, <1>3, <1>4, <1>5, <1>6, <1>7, <1>8, <1>9, <1>10, <1>11,
     <1>12, <1>13, <1>14, <1>15, <1>16, <1>17, <1>18 DEF Move, Step

LEMMA LocalStep == TypeOK /\ LocalInv /\ [Next]_vars => LocalInv'
<1> SUFFICES ASSUME TypeOK, LocalInv, [Next]_vars, NEW v \in Workers PROVE Local(v)'
  BY DEF LocalInv
<1>1. Local(v)
  BY DEF LocalInv
<1>2. ASSUME NEW w \in Workers, Move(w) PROVE Local(v)'
  <2>1. CASE v = w
    BY <1>2, <2>1, LocalMove
  <2>2. CASE v # w
    BY <1>1, <1>2, <2>2, OthersKept DEF Local
  <2> QED
    BY <2>1, <2>2
<1>3. ASSUME NEW u \in Users, ChangeProfile(u) PROVE Local(v)'
  BY <1>1, <1>3 DEF ChangeProfile, Local, localVars
<1>4. CASE Tick
  BY <1>1, <1>4 DEF Tick, Local, localVars
<1>5. CASE UNCHANGED vars
  BY <1>1, <1>5 DEF vars, Local, localVars
<1> QED
  BY <1>2, <1>3, <1>4, <1>5 DEF Next, Move

-----------------------------------------------------------------------------
(* The audit trail, with what each handler has stored on its way.          *)
LEMMA AuditInit == Init => AuditTrail /\ StoredInv
  BY DEF Init, AuditTrail, StoredInv, Stored

LEMMA NextSystemAlertAt ==
  ASSUME TypeOK, NEW w \in Workers, NextSystemAlert(w)
  PROVE  pc'[w] \in {"list", "dedupe"}
  BY DEF NextSystemAlert, Goto, TypeOK, HandlerTypes

LEMMA StoredMove ==
  ASSUME TypeOK, LocalInv, StoredInv, NEW w \in Workers, Move(w)
  PROVE  Stored(w)'
<1> USE DEF TypeOK, HandlerTypes, Goto, localVars, Stored
<1>0. Stored(w)
  BY DEF StoredInv
<1>1. ASSUME NEW e \in Events, Accept(w, e) PROVE Stored(w)'
  BY <1>0, <1>1 DEF Accept
<1>2. CASE SystemDedupe(w)
  BY <1>0, <1>2, NextSystemAlertAt DEF SystemDedupe
<1>3. CASE SystemRateLimit(w)
  BY <1>0, <1>3, NextSystemAlertAt DEF SystemRateLimit
<1>4. CASE SystemInsertEvent(w)
  BY <1>0, <1>4 DEF SystemInsertEvent
<1>5. CASE SystemInsertAlert(w)
  BY <1>0, <1>5, NextSystemAlertAt DEF SystemInsertAlert, SystemAlert
<1>6. CASE SystemSend(w)
  <2>1. /\ SystemAlert(w)' = SystemAlert(w) /\ SystemAlert(w) \in Alert
        /\ chan'[w] = chan[w] /\ chan[w] \in 0..Channels
    BY <1>6, SystemAlertType DEF SystemSend, SystemAlert, SystemLabels, LocalInv, Local
  <2>2. /\ SystemAlert(w) \in alerts /\ event[w] \in events
        /\ UNCHANGED <<events, alerts, event>>
    BY <1>0, <1>6 DEF SystemSend, sqlVars
  <2>3. CASE Retry(w)
    BY <1>6, <2>1, <2>2, <2>3 DEF SystemSend, Retry
  <2>4. CASE Post(SystemAlert(w), chan[w], TRUE, TRUE) /\ SendReturns(w, "sent", "log")
    <3>1. confirmed'[<<SystemAlert(w), chan[w]>>] > 0
      BY <2>1, <2>4, PostKnown
    <3> QED
      BY <2>1, <2>2, <2>4, <3>1 DEF SendReturns
  <2>5. CASE SendReturns(w, "failed", "log")
    BY <2>1, <2>2, <2>5 DEF SendReturns
  <2> QED
    BY <1>6, <2>3, <2>4, <2>5 DEF SystemSend, SendTo
<1>7. CASE SystemLog(w)
  BY <1>0, <1>7, NextSystemAlertAt DEF SystemLog, SystemAlert
<1>8. CASE ListUserRules(w)
  BY <1>0, <1>8 DEF ListUserRules
<1>9. CASE EvaluateUserRule(w)
  BY <1>0, <1>9 DEF EvaluateUserRule
<1>10. CASE UserDedupe(w)
  BY <1>0, <1>10 DEF UserDedupe, NextUserRule
<1>11. CASE UserRateLimit(w)
  BY <1>0, <1>11 DEF UserRateLimit, NextUserRule
<1>12. CASE UserInsertEvent(w)
  BY <1>0, <1>12 DEF UserInsertEvent
<1>13. CASE UserInsertAlert(w)
  BY <1>0, <1>13 DEF UserInsertAlert, UserAlert
<1>14. CASE UserRoute(w)
  <2>1. UserAlert(w)' = UserAlert(w) /\ UserAlert(w) \in Alert /\ UserChannel \in 0..Channels
    BY <1>14, UserAlertType, NumberAssumption DEF UserRoute, UserAlert, UserLabels
  <2>2. /\ UserAlert(w) \in alerts /\ event[w] \in events
        /\ UNCHANGED <<events, alerts, event>>
    BY <1>0, <1>14 DEF UserRoute, sqlVars
  <2> DEFINE route == Route(target[w].user, event[w])
  <2>3. CASE route = "sent"
    BY <1>14, <2>1, <2>2, <2>3 DEF UserRoute
  <2>4. CASE route = "digested"
    <3>1. Post(UserAlert(w), UserChannel, TRUE, TRUE)
      BY <1>14, <2>4 DEF UserRoute
    <3>2. confirmed'[<<UserAlert(w), UserChannel>>] > 0
      BY <2>1, <3>1, PostKnown
    <3> QED
      BY <1>14, <2>1, <2>2, <2>4, <3>2 DEF UserRoute
  <2>5. CASE route \notin {"sent", "digested"}
    BY <1>14, <2>1, <2>2, <2>5 DEF UserRoute
  <2> QED
    BY <2>3, <2>4, <2>5
<1>18. CASE UserSend(w)
  <2>1. UserAlert(w)' = UserAlert(w) /\ UserAlert(w) \in Alert /\ UserChannel \in 0..Channels
    BY <1>18, UserAlertType, NumberAssumption DEF UserSend, UserAlert, UserLabels
  <2>2. /\ UserAlert(w) \in alerts /\ event[w] \in events
        /\ UNCHANGED <<events, alerts, event>>
    BY <1>0, <1>18 DEF UserSend, sqlVars
  <2>3. CASE Retry(w)
    BY <1>18, <2>1, <2>2, <2>3 DEF UserSend, Retry
  <2>4. CASE Post(UserAlert(w), UserChannel, TRUE, TRUE) /\ SendReturns(w, "sent", "uLog")
    <3>1. confirmed'[<<UserAlert(w), UserChannel>>] > 0
      BY <2>1, <2>4, PostKnown
    <3> QED
      BY <2>1, <2>2, <2>4, <3>1 DEF SendReturns
  <2>5. CASE SendReturns(w, "failed", "uLog")
    BY <2>1, <2>2, <2>5 DEF SendReturns
  <2> QED
    BY <1>18, <2>3, <2>4, <2>5 DEF UserSend, SendTo
<1>15. CASE UserLog(w)
  BY <1>0, <1>15 DEF UserLog, NextUserRule, Return
<1>16. CASE Finish(w)
  BY <1>0, <1>16 DEF Finish, Return
<1>17. CASE Abort(w)
  BY <1>0, <1>17 DEF Abort, Return
<1> QED
  BY <1>1, <1>2, <1>3, <1>4, <1>5, <1>6, <1>7, <1>8, <1>9, <1>10, <1>11,
     <1>12, <1>13, <1>14, <1>15, <1>16, <1>17, <1>18 DEF Move, Step

LEMMA StoredStep == TypeOK /\ LocalInv /\ StoredInv /\ [Next]_vars => StoredInv'
<1> SUFFICES ASSUME TypeOK, LocalInv, StoredInv, [Next]_vars, NEW v \in Workers PROVE Stored(v)'
  BY DEF StoredInv
<1>1. Stored(v)
  BY DEF StoredInv
<1>2. /\ events \subseteq events'
      /\ alerts \subseteq alerts'
      /\ \A m \in Message : confirmed[m] <= confirmed'[m]
  BY StoresGrow
<1>3. ASSUME UNCHANGED <<pc[v], event[v], pend[v], chan[v], target[v], status[v]>>
      PROVE  Stored(v)'
  <2>1. SystemAlert(v)' = SystemAlert(v) /\ UserAlert(v)' = UserAlert(v)
    BY <1>3 DEF SystemAlert, UserAlert
  <2>2. pc[v] = "log" => <<SystemAlert(v), chan[v]>> \in Message
    BY SystemAlertType DEF SystemLabels, Message, LocalInv, Local
  <2>3. pc[v] = "uLog" => <<UserAlert(v), UserChannel>> \in Message
    BY UserAlertType, NumberAssumption DEF UserLabels, Message
  <2>4. \A m \in Message : confirmed[m] > 0 => confirmed'[m] > 0
    <3>1. confirmed \in [Message -> Nat] /\ confirmed' \in [Message -> Nat]
      BY TypeStep DEF TypeOK, HistoryTypes
    <3> QED
      BY <1>2, <3>1
  <2> QED
    BY <1>1, <1>2, <1>3, <2>1, <2>2, <2>3, <2>4 DEF Stored
<1>4. ASSUME NEW w \in Workers, Move(w) PROVE Stored(v)'
  <2>1. CASE v = w
    BY <1>4, <2>1, StoredMove
  <2>2. CASE v # w
    BY <1>3, <1>4, <2>2, OthersKept
  <2> QED
    BY <2>1, <2>2
<1>5. ASSUME NEW u \in Users, ChangeProfile(u) PROVE Stored(v)'
  BY <1>3, <1>5 DEF ChangeProfile, localVars
<1>6. CASE Tick
  BY <1>3, <1>6 DEF Tick, localVars
<1>7. CASE UNCHANGED vars
  BY <1>3, <1>7 DEF vars, localVars
<1> QED
  BY <1>4, <1>5, <1>6, <1>7 DEF Next, Move

LEMMA AuditStep == TypeOK /\ LocalInv /\ StoredInv /\ AuditTrail /\ [Next]_vars => AuditTrail'
<1> SUFFICES ASSUME TypeOK, LocalInv, StoredInv, AuditTrail, [Next]_vars PROVE AuditTrail'
  OBVIOUS
<1>1. /\ events \subseteq events'
      /\ alerts \subseteq alerts'
      /\ \A m \in Message : confirmed[m] > 0 => confirmed'[m] > 0
  <2>1. confirmed \in [Message -> Nat] /\ confirmed' \in [Message -> Nat]
    BY TypeStep DEF TypeOK, HistoryTypes
  <2> QED
    BY <2>1, StoresGrow
<1>2. \A l \in logs : <<l.alert, l.channel>> \in Message
  BY DEF TypeOK, StoreTypes, Message
<1>24. ASSUME NEW a \in Alert, a \in alerts, NEW c \in 0..Channels,
              NEW arrives \in BOOLEAN, NEW known \in BOOLEAN, Post(a, c, arrives, known),
              events' = events, alerts' = alerts, logs' = logs
       PROVE  AuditTrail'
  <2>1. \A m \in Message : delivered'[m] > 0 => m[1] \in alerts
    <3> SUFFICES ASSUME NEW m \in Message, delivered'[m] > 0 PROVE m[1] \in alerts
      OBVIOUS
    <3>1. CASE m = <<a, c>>
      BY <1>24, <3>1
    <3>2. CASE m # <<a, c>>
      <4>1. delivered'[m] = delivered[m]
        BY <1>24, <3>2, PostEffect
      <4> QED
        BY <4>1 DEF AuditTrail
    <3> QED
      BY <3>1, <3>2
  <2> QED
    BY <1>1, <1>2, <1>24, <2>1 DEF AuditTrail
<1>3. ASSUME UNCHANGED <<events, alerts, logs, delivered, confirmed>> PROVE AuditTrail'
  BY <1>3 DEF AuditTrail
<1> USE DEF sqlVars
<1>4. ASSUME NEW w \in Workers, NEW e \in Events, Accept(w, e) PROVE AuditTrail'
  BY <1>3, <1>4 DEF Accept
<1>5. ASSUME NEW w \in Workers, SystemDedupe(w) PROVE AuditTrail'
  BY <1>3, <1>5 DEF SystemDedupe
<1>6. ASSUME NEW w \in Workers, SystemRateLimit(w) PROVE AuditTrail'
  BY <1>3, <1>6 DEF SystemRateLimit
<1>7. ASSUME NEW w \in Workers, SystemInsertEvent(w) PROVE AuditTrail'
  BY <1>1, <1>7 DEF SystemInsertEvent, AuditTrail
<1>8. ASSUME NEW w \in Workers, SystemInsertAlert(w) PROVE AuditTrail'
  <2>1. SystemAlert(w).event \in events
    BY <1>8, SystemAlertType DEF SystemInsertAlert, SystemLabels, StoredInv, Stored
  <2>2. alerts' = alerts \cup {SystemAlert(w)} /\ UNCHANGED <<events, logs, chatVars>>
    BY <1>8 DEF SystemInsertAlert
  <2>3. UNCHANGED <<events, logs, delivered, confirmed>> /\ alerts \subseteq alerts'
    BY <2>2
  <2>4. \A a \in alerts' : a.event \in events'
    BY <2>1, <2>2, <2>3 DEF AuditTrail
  <2> QED
    BY <2>3, <2>4 DEF AuditTrail
<1>9. ASSUME NEW w \in Workers, SystemSend(w) PROVE AuditTrail'
  <2>1. SystemAlert(w) \in Alert /\ SystemAlert(w) \in alerts /\ chan[w] \in 0..Channels
    <3>1. pc[w] = "send" /\ pc[w] \in SystemLabels
      BY <1>9 DEF SystemSend, SystemLabels
    <3>2. SystemAlert(w) \in alerts
      BY <3>1 DEF StoredInv, Stored
    <3>3. chan[w] \in 0..Channels
      BY <3>1 DEF LocalInv, Local
    <3> QED
      BY <3>1, <3>2, <3>3, SystemAlertType
  <2>2. PICK arrives \in BOOLEAN, known \in BOOLEAN : Post(SystemAlert(w), chan[w], arrives, known)
    BY <1>9, SendToPosts DEF SystemSend
  <2>3. events' = events /\ alerts' = alerts /\ logs' = logs
    BY <1>9 DEF SystemSend, sqlVars
  <2> QED
    BY <1>24, <2>1, <2>2, <2>3
<1>10. ASSUME NEW w \in Workers, SystemLog(w) PROVE AuditTrail'
  <2>1. SystemAlert(w) \in alerts
    BY <1>10 DEF SystemLog, StoredInv, Stored
  <2>2. status[w] \in {"sent", "digested"} => confirmed[<<SystemAlert(w), chan[w]>>] > 0
    BY <1>10 DEF SystemLog, StoredInv, Stored
  <2> QED
    BY <1>10, <2>1, <2>2 DEF SystemLog, InsertLog, AuditTrail
<1>11. ASSUME NEW w \in Workers, ListUserRules(w) PROVE AuditTrail'
  BY <1>3, <1>11 DEF ListUserRules
<1>12. ASSUME NEW w \in Workers, EvaluateUserRule(w) PROVE AuditTrail'
  BY <1>3, <1>12 DEF EvaluateUserRule
<1>13. ASSUME NEW w \in Workers, UserDedupe(w) PROVE AuditTrail'
  BY <1>3, <1>13 DEF UserDedupe
<1>14. ASSUME NEW w \in Workers, UserRateLimit(w) PROVE AuditTrail'
  BY <1>3, <1>14 DEF UserRateLimit
<1>15. ASSUME NEW w \in Workers, UserInsertEvent(w) PROVE AuditTrail'
  BY <1>1, <1>15 DEF UserInsertEvent, AuditTrail
<1>16. ASSUME NEW w \in Workers, UserInsertAlert(w) PROVE AuditTrail'
  <2>1. UserAlert(w).event \in events
    BY <1>16, UserAlertType DEF UserInsertAlert, UserLabels, StoredInv, Stored
  <2>2. alerts' = alerts \cup {UserAlert(w)} /\ UNCHANGED <<events, logs, chatVars>>
    BY <1>16 DEF UserInsertAlert
  <2>3. UNCHANGED <<events, logs, delivered, confirmed>> /\ alerts \subseteq alerts'
    BY <2>2
  <2>4. \A a \in alerts' : a.event \in events'
    BY <2>1, <2>2, <2>3 DEF AuditTrail
  <2> QED
    BY <2>3, <2>4 DEF AuditTrail
<1>17. ASSUME NEW w \in Workers, UserRoute(w) PROVE AuditTrail'
  <2>1. UserAlert(w) \in Alert /\ UserAlert(w) \in alerts /\ UserChannel \in 0..Channels
    <3>1. pc[w] = "uRoute" /\ pc[w] \in UserLabels
      BY <1>17 DEF UserRoute, UserLabels
    <3>2. UserAlert(w) \in alerts
      BY <3>1 DEF StoredInv, Stored
    <3> QED
      BY <3>1, <3>2, UserAlertType, AttemptsType
  <2>2. CASE UNCHANGED chatVars
    BY <1>3, <1>17, <2>2 DEF UserRoute
  <2>3. CASE ~UNCHANGED chatVars
    <3>1. PICK sent \in BOOLEAN : Post(UserAlert(w), UserChannel, sent, sent)
      BY <1>17, <2>3 DEF UserRoute
    <3>2. events' = events /\ alerts' = alerts /\ logs' = logs
      BY <1>17 DEF UserRoute, sqlVars
    <3> QED
      BY <1>24, <2>1, <3>1, <3>2
  <2> QED
    BY <2>2, <2>3
<1>25. ASSUME NEW w \in Workers, UserSend(w) PROVE AuditTrail'
  <2>1. UserAlert(w) \in Alert /\ UserAlert(w) \in alerts /\ UserChannel \in 0..Channels
    <3>1. pc[w] = "uSend" /\ pc[w] \in UserLabels
      BY <1>25 DEF UserSend, UserLabels
    <3>2. UserAlert(w) \in alerts
      BY <3>1 DEF StoredInv, Stored
    <3> QED
      BY <3>1, <3>2, UserAlertType, AttemptsType
  <2>2. PICK arrives \in BOOLEAN, known \in BOOLEAN : Post(UserAlert(w), UserChannel, arrives, known)
    BY <1>25, SendToPosts DEF UserSend
  <2>3. events' = events /\ alerts' = alerts /\ logs' = logs
    BY <1>25 DEF UserSend, sqlVars
  <2> QED
    BY <1>24, <2>1, <2>2, <2>3
<1>18. ASSUME NEW w \in Workers, UserLog(w) PROVE AuditTrail'
  <2>1. UserAlert(w) \in alerts
    BY <1>18 DEF UserLog, StoredInv, Stored
  <2>2. status[w] \in {"sent", "digested"} => confirmed[<<UserAlert(w), UserChannel>>] > 0
    BY <1>18 DEF UserLog, StoredInv, Stored
  <2> QED
    BY <1>18, <2>1, <2>2 DEF UserLog, InsertLog, AuditTrail
<1>19. ASSUME NEW w \in Workers, Finish(w) PROVE AuditTrail'
  BY <1>3, <1>19 DEF Finish
<1>20. ASSUME NEW w \in Workers, Abort(w) PROVE AuditTrail'
  BY <1>3, <1>20 DEF Abort
<1>21. ASSUME NEW u \in Users, ChangeProfile(u) PROVE AuditTrail'
  BY <1>3, <1>21 DEF ChangeProfile
<1>22. CASE Tick
  BY <1>3, <1>22 DEF Tick
<1>23. CASE UNCHANGED vars
  BY <1>3, <1>23 DEF vars
<1> QED
  BY <1>4, <1>5, <1>6, <1>7, <1>8, <1>9, <1>10, <1>11, <1>12, <1>13, <1>14, <1>15,
     <1>16, <1>17, <1>18, <1>19, <1>20, <1>21, <1>22, <1>23, <1>25 DEF Next, Step

-----------------------------------------------------------------------------
(* The log rows still owed.                                                *)
LEMMA OwedInit == Init => OwedInv
  BY DEF Init, OwedInv, Owed

LEMMA OwedMove ==
  ASSUME TypeOK, LocalInv, OwedInv, NEW w \in Workers, Move(w)
  PROVE  Owed(w)'
<1> USE DEF TypeOK, HandlerTypes, HistoryTypes, Goto, localVars, Owed
<1>0. Owed(w)
  BY DEF OwedInv
<1>1. ASSUME NEW e \in Events, Accept(w, e) PROVE Owed(w)'
  BY <1>0, <1>1 DEF Accept
<1>2. CASE SystemDedupe(w)
  BY <1>0, <1>2, NextSystemAlertAt DEF SystemDedupe
<1>3. CASE SystemRateLimit(w)
  <2>1. CASE Admit(w, SystemAlert(w), 1..Channels) /\ Goto(w, "event") /\ UNCHANGED pend
    <3>1. owed'[w] = {<<SystemAlert(w), c>> : c \in 1..Channels}
      BY <1>0, <1>3, <2>1 DEF SystemRateLimit, Admit
    <3>2. pc'[w] = "event" /\ SystemAlert(w)' = SystemAlert(w)
      BY <1>3, <2>1 DEF SystemRateLimit, SystemAlert
    <3> QED
      BY <3>1, <3>2
  <2>2. CASE NextSystemAlert(w) /\ UNCHANGED owed
    BY <1>0, <1>3, <2>2, NextSystemAlertAt DEF SystemRateLimit
  <2> QED
    BY <1>3, <2>1, <2>2 DEF SystemRateLimit
<1>4. CASE SystemInsertEvent(w)
  BY <1>0, <1>4 DEF SystemInsertEvent, SystemAlert
<1>5. CASE SystemInsertAlert(w)
  <2>1. owed[w] \subseteq {SystemAlert(w)} \X (1..Channels) /\ UNCHANGED owed
    BY <1>0, <1>5 DEF SystemInsertAlert
  <2>2. CASE Channels = 0
    <3>1. NextSystemAlert(w)
      BY <1>5, <2>2 DEF SystemInsertAlert
    <3>2. owed'[w] = {}
      BY <2>1, <2>2
    <3> QED
      BY <3>1, <3>2, NextSystemAlertAt
  <2>3. CASE Channels # 0
    <3>1. pc'[w] = "send" /\ chan'[w] = 1 /\ SystemAlert(w)' = SystemAlert(w)
      BY <1>5, <2>3 DEF SystemInsertAlert, SystemAlert
    <3> QED
      BY <2>1, <3>1
  <2> QED
    BY <2>2, <2>3
<1>6. CASE SystemSend(w)
  BY <1>0, <1>6 DEF SystemSend, SystemAlert, SendTo, SendReturns, Retry
<1>7. CASE SystemLog(w)
  <2>1. /\ owed[w] \subseteq {SystemAlert(w)} \X (chan[w]..Channels)
        /\ owed'[w] = owed[w] \ {<<SystemAlert(w), chan[w]>>}
        /\ chan[w] \in 1..Channels
    BY <1>0, <1>7 DEF SystemLog, InsertLog, LocalInv, Local
  <2>2. CASE chan[w] < Channels
    <3>1. pc'[w] = "send" /\ chan'[w] = chan[w] + 1 /\ SystemAlert(w)' = SystemAlert(w)
      BY <1>7, <2>2 DEF SystemLog, SystemAlert
    <3>2. owed'[w] \subseteq {SystemAlert(w)} \X ((chan[w] + 1)..Channels)
      BY <2>1, NumberAssumption
    <3> QED
      BY <3>1, <3>2
  <2>3. CASE ~(chan[w] < Channels)
    <3>1. NextSystemAlert(w)
      BY <1>7, <2>3 DEF SystemLog
    <3>2. owed'[w] = {}
      BY <2>1, <2>3, NumberAssumption
    <3> QED
      BY <3>1, <3>2, NextSystemAlertAt
  <2> QED
    BY <2>2, <2>3
<1>8. CASE ListUserRules(w)
  BY <1>0, <1>8 DEF ListUserRules
<1>9. CASE EvaluateUserRule(w)
  BY <1>0, <1>9 DEF EvaluateUserRule
<1>10. CASE UserDedupe(w)
  <2>1. CASE Admit(w, UserAlert(w), {UserChannel}) /\ Goto(w, "uEvent") /\ UNCHANGED target
    <3>1. owed'[w] = {<<UserAlert(w), UserChannel>>}
      BY <1>0, <1>10, <2>1 DEF UserDedupe, Admit
    <3>2. pc'[w] = "uEvent" /\ UserAlert(w)' = UserAlert(w)
      BY <1>10, <2>1 DEF UserDedupe, UserAlert
    <3> QED
      BY <3>1, <3>2
  <2>2. CASE (Goto(w, "uRate") \/ NextUserRule(w)) /\ UNCHANGED owed
    BY <1>0, <1>10, <2>2 DEF UserDedupe, NextUserRule
  <2> QED
    BY <1>10, <2>1, <2>2 DEF UserDedupe
<1>11. CASE UserRateLimit(w)
  <2>1. CASE Admit(w, UserAlert(w), {UserChannel}) /\ Goto(w, "uEvent") /\ UNCHANGED target
    <3>1. owed'[w] = {<<UserAlert(w), UserChannel>>}
      BY <1>0, <1>11, <2>1 DEF UserRateLimit, Admit
    <3>2. pc'[w] = "uEvent" /\ UserAlert(w)' = UserAlert(w)
      BY <1>11, <2>1 DEF UserRateLimit, UserAlert
    <3> QED
      BY <3>1, <3>2
  <2>2. CASE NextUserRule(w) /\ UNCHANGED owed
    BY <1>0, <1>11, <2>2 DEF UserRateLimit, NextUserRule
  <2> QED
    BY <1>11, <2>1, <2>2 DEF UserRateLimit
<1>12. CASE UserInsertEvent(w)
  BY <1>0, <1>12 DEF UserInsertEvent, UserAlert
<1>13. CASE UserInsertAlert(w)
  BY <1>0, <1>13 DEF UserInsertAlert, UserAlert
<1>14. CASE UserRoute(w)
  BY <1>0, <1>14 DEF UserRoute, UserAlert
<1>18. CASE UserSend(w)
  BY <1>0, <1>18 DEF UserSend, UserAlert, SendTo, SendReturns, Retry
<1>15. CASE UserLog(w)
  <2>1. owed'[w] = {}
    BY <1>0, <1>15 DEF UserLog, InsertLog
  <2>2. pc'[w] \in {"idle", "user"}
    BY <1>15 DEF UserLog, Return, NextUserRule
  <2> QED
    BY <2>1, <2>2
<1>16. CASE Finish(w)
  BY <1>0, <1>16 DEF Finish, Return
<1>17. CASE Abort(w)
  BY <1>0, <1>17 DEF Abort, Return
<1> QED
  BY <1>1, <1>2, <1>3, <1>4, <1>5, <1>6, <1>7, <1>8, <1>9, <1>10, <1>11,
     <1>12, <1>13, <1>14, <1>15, <1>16, <1>17, <1>18 DEF Move, Step

LEMMA OwedStep == TypeOK /\ LocalInv /\ OwedInv /\ [Next]_vars => OwedInv'
<1> SUFFICES ASSUME TypeOK, LocalInv, OwedInv, [Next]_vars, NEW v \in Workers PROVE Owed(v)'
  BY DEF OwedInv
<1>1. Owed(v)
  BY DEF OwedInv
<1>2. ASSUME UNCHANGED <<pc[v], event[v], pend[v], chan[v], target[v], owed[v]>>
      PROVE  Owed(v)'
  BY <1>1, <1>2 DEF Owed, SystemAlert, UserAlert
<1>3. ASSUME NEW w \in Workers, Move(w) PROVE Owed(v)'
  <2>1. CASE v = w
    BY <1>3, <2>1, OwedMove
  <2>2. CASE v # w
    BY <1>2, <1>3, <2>2, OthersKept
  <2> QED
    BY <2>1, <2>2
<1>4. ASSUME NEW u \in Users, ChangeProfile(u) PROVE Owed(v)'
  BY <1>2, <1>4 DEF ChangeProfile, localVars
<1>5. CASE Tick
  BY <1>2, <1>5 DEF Tick, localVars
<1>6. CASE UNCHANGED vars
  BY <1>2, <1>6 DEF vars, localVars
<1> QED
  BY <1>3, <1>4, <1>5, <1>6 DEF Next, Move

LEMMA OwedSettled == OwedInv => SettledWhenOk
  BY DEF OwedInv, Owed, SettledWhenOk

-----------------------------------------------------------------------------
(* The Redis keys, and the claims that are not admissions yet.             *)
LEMMA BetweenType ==
  ASSUME NEW a
  PROVE  IsFiniteSet(Between(a)) /\ Cardinality(Between(a)) \in Nat
<1>1. Between(a) \subseteq Workers
  BY DEF Between
<1> QED
  BY <1>1, DomainAssumption, FS_Subset, FS_CardinalityType

LEMMA BetweenTypeNext ==
  ASSUME NEW a
  PROVE  IsFiniteSet(Between(a)') /\ Cardinality(Between(a)') \in Nat
<1>1. Between(a)' \subseteq Workers
  BY DEF Between
<1> QED
  BY <1>1, DomainAssumption, FS_Subset, FS_CardinalityType

LEMMA BetweenMove ==
  ASSUME TypeOK, NEW w \in Workers, Move(w), NEW a
  PROVE  /\ (w \in Between(a) <=> w \in Between(a)')
              => Cardinality(Between(a)') = Cardinality(Between(a))
         /\ w \notin Between(a) /\ w \in Between(a)'
              => Cardinality(Between(a)') = Cardinality(Between(a)) + 1
         /\ w \in Between(a) /\ w \notin Between(a)'
              => Cardinality(Between(a)) = Cardinality(Between(a)') + 1
<1>1. \A v \in Workers : v # w => (v \in Between(a) <=> v \in Between(a)')
  BY OthersKept DEF Between, SystemAlert, UserAlert
<1>2. Between(a) \subseteq Workers /\ Between(a)' \subseteq Workers
  BY DEF Between
<1>3. CASE w \in Between(a) <=> w \in Between(a)'
  <2>1. Between(a)' = Between(a)
    BY <1>1, <1>2, <1>3
  <2> QED
    BY <2>1, <1>3
<1>4. CASE w \notin Between(a) /\ w \in Between(a)'
  <2>1. Between(a)' = Between(a) \cup {w}
    BY <1>1, <1>2, <1>4
  <2> QED
    BY <2>1, <1>4, BetweenType, FS_AddElement
<1>5. CASE w \in Between(a) /\ w \notin Between(a)'
  <2>1. Between(a) = Between(a)' \cup {w}
    BY <1>1, <1>2, <1>5
  <2> QED
    BY <2>1, <1>5, BetweenTypeNext, FS_AddElement
<1> QED
  BY <1>3, <1>4, <1>5

LEMMA Multiples ==
  ASSUME NEW m \in Nat, NEW n \in Nat, NEW d \in Nat
  PROVE  /\ m * d \in Nat
         /\ m <= n => m * d <= n * d
         /\ (m + 1) * d = m * d + d
  OBVIOUS

(* The facts about one alert the steps below rest on.                      *)
LEMMA KeysTypes ==
  ASSUME TypeOK, NEW a \in Alert
  PROVE  /\ now \in Nat
         /\ dedupe[a] \in Nat
         /\ rate[Trigger(a)] \in Nat
         /\ admits[a] \in Nat
         /\ last[a] \in Nat
         /\ Cardinality(Between(a)) \in Nat
         /\ DedupeTTL \in Nat \ {0}
         /\ RateTTL \in Nat \ {0}
<1>1. Trigger(a) \in Triggers
  BY DEF Triggers
<1> QED
  BY <1>1, BetweenType, NumberAssumption DEF TypeOK, StoreTypes, HistoryTypes

LEMMA KeysInit == Init => KeysInv
<1> SUFFICES ASSUME Init, NEW a \in Alert PROVE Keys(a)
  BY DEF KeysInv
<1>1. Between(a) = {}
  BY DEF Init, Between
<1>2. Cardinality(Between(a)) = 0
  BY <1>1, FS_EmptySet
<1>3. now = 0 /\ admits[a] = 0 /\ dedupe[a] = 0
  BY DEF Init
<1> QED
  BY <1>2, <1>3, NumberAssumption DEF Keys

(* Nothing is claimed or admitted, the clock does not go back.             *)
LEMMA KeysKept ==
  ASSUME TypeOK, NEW a \in Alert, Keys(a),
         now' \in Nat, now <= now',
         UNCHANGED <<dedupe[a], rate[Trigger(a)], admits[a], last[a]>>,
         Cardinality(Between(a)') <= Cardinality(Between(a))
  PROVE  Keys(a)'
<1> DEFINE n == Cardinality(Between(a))
           k == Cardinality(Between(a)')
<1>1. n \in Nat /\ k \in Nat /\ k <= n /\ admits[a] \in Nat /\ DedupeTTL \in Nat /\ dedupe[a] \in Nat
  BY KeysTypes, BetweenTypeNext
<1>2. (admits[a] + k) * DedupeTTL <= (admits[a] + n) * DedupeTTL
  <2> HIDE DEF n, k
  <2>1. admits[a] + k \in Nat /\ admits[a] + n \in Nat /\ admits[a] + k <= admits[a] + n
    BY <1>1
  <2> QED
    BY <2>1, <1>1, Multiples
<1>3. (admits[a] + k) * DedupeTTL \in Nat /\ (admits[a] + n) * DedupeTTL \in Nat
  <2> HIDE DEF n, k
  <2> QED
    BY <1>1, Multiples
<1>4. (admits[a] + k) * DedupeTTL <= dedupe[a]
  <2>1. (admits[a] + n) * DedupeTTL <= dedupe[a]
    BY DEF Keys
  <2> HIDE DEF n, k
  <2> QED
    BY <1>1, <1>2, <1>3, <2>1
<1>5. /\ admits[a] > 0 => last[a] <= now
      /\ Limited(a) /\ admits[a] > 0 => last[a] + RateTTL <= rate[Trigger(a)]
      /\ ~Limited(a) /\ admits[a] > 0 => last[a] + DedupeTTL <= dedupe[a]
      /\ dedupe[a] <= now + DedupeTTL
  BY DEF Keys
<1>6. /\ admits[a] > 0 => last[a] <= now'
      /\ dedupe[a] <= now' + DedupeTTL
  BY <1>5, KeysTypes
<1> QED
  BY <1>4, <1>5, <1>6 DEF Keys, Limited, Trigger

(* A handler that makes no claim changes no key and no history.            *)
LEMMA KeysQuiet ==
  ASSUME TypeOK, NEW w \in Workers, Move(w), NEW a \in Alert, Keys(a),
         pc'[w] \notin {"rate", "uRate"},
         UNCHANGED <<now, dedupe, rate, admits, last>>
  PROVE  Keys(a)'
<1>1. w \notin Between(a)'
  BY DEF Between
<1>2. Cardinality(Between(a)') <= Cardinality(Between(a))
  BY <1>1, BetweenMove, BetweenType, BetweenTypeNext
<1> QED
  BY <1>2, KeysKept DEF TypeOK, StoreTypes

(* The first SETNX succeeds; the claim of c waits for the second one.      *)
LEMMA KeysClaim ==
  ASSUME TypeOK, NEW w \in Workers, Move(w), NEW a \in Alert, Keys(a),
         NEW c \in Alert, Limited(c), SetNXDedupe(c), UNCHANGED <<now, rate, admits, last>>,
         w \notin Between(a), w \in Between(a)' <=> a = c
  PROVE  Keys(a)'
<1>1. CASE a = c
  <2> DEFINE n == Cardinality(Between(a))
  <2>1. Cardinality(Between(a)') = n + 1
    BY <1>1, BetweenMove
  <2>2. dedupe'[a] = now + DedupeTTL /\ dedupe[a] <= now
    BY <1>1, KeysTypes DEF SetNXDedupe, TypeOK, StoreTypes
  <2>3. (admits[a] + n) * DedupeTTL <= dedupe[a]
    BY DEF Keys
  <2>4. (admits[a] + (n + 1)) * DedupeTTL <= now + DedupeTTL
    <3>1. admits[a] \in Nat /\ n \in Nat /\ DedupeTTL \in Nat /\ now \in Nat /\ dedupe[a] \in Nat
      BY KeysTypes
    <3> HIDE DEF n
    <3>2. admits[a] + n \in Nat /\ admits[a] + (n + 1) = (admits[a] + n) + 1
      BY <3>1
    <3>3. (admits[a] + (n + 1)) * DedupeTTL = (admits[a] + n) * DedupeTTL + DedupeTTL
      BY <3>1, <3>2, Multiples
    <3>4. (admits[a] + n) * DedupeTTL \in Nat
      BY <3>1, <3>2, Multiples
    <3> QED
      BY <3>1, <3>3, <3>4, <2>2, <2>3
  <2>5. /\ admits[a] > 0 => last[a] <= now
        /\ admits[a] > 0 => last[a] + RateTTL <= rate[Trigger(a)]
    BY <1>1 DEF Keys
  <2> HIDE DEF n
  <2> QED
    BY <1>1, <2>1, <2>2, <2>4, <2>5, KeysTypes DEF Keys, Limited, Trigger
<1>2. CASE a # c
  <2>1. dedupe'[a] = dedupe[a]
    BY <1>2 DEF SetNXDedupe, TypeOK, StoreTypes
  <2>2. Cardinality(Between(a)') = Cardinality(Between(a))
    BY <1>2, BetweenMove
  <2> QED
    BY <2>1, <2>2, KeysTypes, KeysKept
<1> QED
  BY <1>1, <1>2

(* The second SETNX succeeds and turns the claim of c into an admission.   *)
LEMMA KeysAdmit ==
  ASSUME TypeOK, NEW w \in Workers, Move(w), NEW a \in Alert, Keys(a),
         NEW c \in Alert, Limited(c), SetNXRate(Trigger(c)), UNCHANGED <<now, dedupe>>,
         Admit(w, c, 1..Channels) \/ Admit(w, c, {UserChannel}),
         w \notin Between(a)', w \in Between(a) <=> a = c
  PROVE  Keys(a)'
<1> DEFINE n == Cardinality(Between(a))
           k == Cardinality(Between(a)')
<1>0. /\ now \in Nat /\ dedupe[a] \in Nat /\ rate[Trigger(a)] \in Nat /\ admits[a] \in Nat
      /\ last[a] \in Nat /\ RateTTL \in Nat /\ DedupeTTL \in Nat /\ n \in Nat /\ k \in Nat
  BY KeysTypes, BetweenTypeNext
<1>1. rate'[Trigger(a)] = IF Trigger(a) = Trigger(c) THEN now + RateTTL ELSE rate[Trigger(a)]
  BY DEF SetNXRate, TypeOK, StoreTypes, Triggers
<1>2. Trigger(a) = Trigger(c) => rate[Trigger(a)] <= now
  BY <1>0 DEF SetNXRate
<1>3. /\ admits'[a] = IF a = c THEN admits[a] + 1 ELSE admits[a]
      /\ last'[a] = IF a = c THEN now ELSE last[a]
  BY DEF Admit, TypeOK, HistoryTypes
<1>4. admits'[a] + k = admits[a] + n
  <2>1. CASE a = c
    <3>1. n = k + 1
      BY <2>1, BetweenMove
    <3> HIDE DEF n, k
    <3> QED
      BY <2>1, <3>1, <1>0, <1>3
  <2>2. CASE a # c
    <3>1. k = n
      BY <2>2, BetweenMove
    <3> QED
      BY <2>2, <3>1, <1>3
  <2> QED
    BY <2>1, <2>2
<1>5. admits'[a] > 0 => last'[a] <= now
  BY <1>0, <1>3 DEF Keys
<1>6. Limited(a) /\ admits'[a] > 0 => last'[a] + RateTTL <= rate'[Trigger(a)]
  <2>1. CASE a = c
    BY <2>1, <1>0, <1>1, <1>3
  <2>2. CASE a # c
    BY <2>2, <1>0, <1>1, <1>2, <1>3 DEF Keys
  <2> QED
    BY <2>1, <2>2
<1>7. ~Limited(a) /\ admits'[a] > 0 => last'[a] + DedupeTTL <= dedupe[a]
  BY <1>3 DEF Keys
<1>8. dedupe[a] <= now + DedupeTTL /\ (admits'[a] + k) * DedupeTTL <= dedupe[a]
  BY <1>4 DEF Keys
<1> HIDE DEF n
<1> QED
  BY <1>5, <1>6, <1>7, <1>8 DEF Keys, Limited, Trigger

(* A crossing of a user window rule is admitted by the first SETNX alone.  *)
LEMMA KeysCross ==
  ASSUME TypeOK, NEW w \in Workers, Move(w), NEW a \in Alert, Keys(a),
         NEW c \in Alert, ~Limited(c), SetNXDedupe(c), UNCHANGED <<now, rate>>,
         Admit(w, c, {UserChannel}),
         w \notin Between(a), w \notin Between(a)'
  PROVE  Keys(a)'
<1> DEFINE n == Cardinality(Between(a))
<1>0. /\ now \in Nat /\ dedupe[a] \in Nat /\ admits[a] \in Nat
      /\ last[a] \in Nat /\ DedupeTTL \in Nat /\ n \in Nat
  BY KeysTypes
<1>1. Cardinality(Between(a)') = n
  BY BetweenMove
<1>2. CASE a = c
  <2>1. dedupe'[a] = now + DedupeTTL /\ dedupe[a] <= now
    BY <1>0, <1>2 DEF SetNXDedupe, TypeOK, StoreTypes
  <2>2. admits'[a] = admits[a] + 1 /\ last'[a] = now
    BY <1>2 DEF Admit, TypeOK, HistoryTypes
  <2>3. (admits[a] + n) * DedupeTTL <= dedupe[a]
    BY DEF Keys
  <2> HIDE DEF n
  <2>4. (admits'[a] + n) * DedupeTTL <= now + DedupeTTL
    <3>1. admits[a] + n \in Nat /\ admits'[a] + n = (admits[a] + n) + 1
      BY <1>0, <2>2
    <3>2. (admits'[a] + n) * DedupeTTL = (admits[a] + n) * DedupeTTL + DedupeTTL
      BY <1>0, <3>1, Multiples
    <3>3. (admits[a] + n) * DedupeTTL \in Nat
      BY <1>0, <3>1, Multiples
    <3> QED
      BY <1>0, <2>1, <2>3, <3>2, <3>3
  <2> QED
    BY <1>0, <1>1, <1>2, <2>1, <2>2, <2>4 DEF Keys, Limited, Trigger
<1>3. CASE a # c
  <2>1. dedupe'[a] = dedupe[a]
    BY <1>3 DEF SetNXDedupe, TypeOK, StoreTypes
  <2>2. admits'[a] = admits[a] /\ last'[a] = last[a]
    BY <1>3 DEF Admit, TypeOK, HistoryTypes
  <2> QED
    BY <1>0, <1>1, <2>1, <2>2, KeysKept
<1> QED
  BY <1>2, <1>3

(* The four steps that claim or admit, as seen by the keys.                *)
LEMMA SystemDedupeStep ==
  ASSUME TypeOK, LocalInv, NEW w \in Workers, SystemDedupe(w), NEW a \in Alert
  PROVE  /\ UNCHANGED <<now, rate, admits, last>>
         /\ w \notin Between(a)
         /\ \/ /\ SystemAlert(w) \in Alert
               /\ Limited(SystemAlert(w))
               /\ SetNXDedupe(SystemAlert(w))
               /\ w \in Between(a)' <=> a = SystemAlert(w)
            \/ UNCHANGED dedupe /\ pc'[w] \notin {"rate", "uRate"}
<1> USE DEF SystemDedupe, TypeOK, HandlerTypes, gateVars
<1>1. UNCHANGED <<now, rate, admits, last>> /\ w \notin Between(a)
  BY DEF Between
<1>2. SystemAlert(w) \in Alert /\ Limited(SystemAlert(w))
  BY SystemAlertType DEF SystemLabels, Limited
<1>3. CASE SetNXDedupe(SystemAlert(w)) /\ Goto(w, "rate") /\ UNCHANGED pend
  <2>1. pc'[w] = "rate" /\ SystemAlert(w)' = SystemAlert(w)
    BY <1>3 DEF Goto, SystemAlert
  <2> QED
    BY <1>1, <1>2, <1>3, <2>1 DEF Between
<1>4. CASE NextSystemAlert(w) /\ UNCHANGED dedupe
  BY <1>1, <1>4, NextSystemAlertAt
<1> QED
  BY <1>3, <1>4

LEMMA UserDedupeStep ==
  ASSUME TypeOK, LocalInv, NEW w \in Workers, UserDedupe(w), NEW a \in Alert
  PROVE  /\ UNCHANGED <<now, rate>>
         /\ UserAlert(w) \in Alert
         /\ w \notin Between(a)
         /\ \/ /\ Limited(UserAlert(w))
               /\ SetNXDedupe(UserAlert(w))
               /\ UNCHANGED <<admits, last>>
               /\ w \in Between(a)' <=> a = UserAlert(w)
            \/ /\ ~Limited(UserAlert(w))
               /\ SetNXDedupe(UserAlert(w))
               /\ Admit(w, UserAlert(w), {UserChannel})
               /\ w \notin Between(a)'
            \/ UNCHANGED <<dedupe, admits, last>> /\ pc'[w] \notin {"rate", "uRate"}
<1> USE DEF UserDedupe, TypeOK, HandlerTypes, gateVars, Goto
<1>1. UNCHANGED <<now, rate>> /\ w \notin Between(a) /\ UserAlert(w) \in Alert
  BY UserAlertType DEF Between, UserLabels
<1>2. CASE Limited(UserAlert(w)) /\ SetNXDedupe(UserAlert(w)) /\ Goto(w, "uRate")
           /\ UNCHANGED <<target, owed, gateVars>>
  <2>1. pc'[w] = "uRate" /\ UserAlert(w)' = UserAlert(w)
    BY <1>2 DEF UserAlert
  <2> QED
    BY <1>1, <1>2, <2>1 DEF Between
<1>3. CASE ~Limited(UserAlert(w)) /\ SetNXDedupe(UserAlert(w)) /\ Goto(w, "uEvent")
           /\ Admit(w, UserAlert(w), {UserChannel})
  <2>1. pc'[w] = "uEvent"
    BY <1>3
  <2> QED
    BY <1>1, <1>3, <2>1 DEF Between
<1>4. CASE NextUserRule(w) /\ UNCHANGED <<dedupe, owed, gateVars>>
  BY <1>1, <1>4 DEF NextUserRule
<1> QED
  BY <1>2, <1>3, <1>4

LEMMA SystemRateStep ==
  ASSUME TypeOK, LocalInv, NEW w \in Workers, SystemRateLimit(w), NEW a \in Alert
  PROVE  /\ UNCHANGED <<now, dedupe>>
         /\ SystemAlert(w) \in Alert
         /\ Limited(SystemAlert(w))
         /\ w \in Between(a) <=> a = SystemAlert(w)
         /\ \/ /\ SetNXRate(Trigger(SystemAlert(w)))
               /\ Admit(w, SystemAlert(w), 1..Channels)
               /\ w \notin Between(a)'
            \/ UNCHANGED <<rate, admits, last>> /\ pc'[w] \notin {"rate", "uRate"}
<1> USE DEF SystemRateLimit, TypeOK, HandlerTypes, gateVars, Goto
<1>1. /\ UNCHANGED <<now, dedupe>>
      /\ SystemAlert(w) \in Alert
      /\ Limited(SystemAlert(w))
      /\ w \in Between(a) <=> a = SystemAlert(w)
  BY SystemAlertType DEF Between, SystemLabels, Limited
<1>2. CASE SetNXRate(Trigger(SystemAlert(w))) /\ Goto(w, "event")
           /\ Admit(w, SystemAlert(w), 1..Channels)
  <2>1. pc'[w] = "event"
    BY <1>2
  <2> QED
    BY <1>1, <1>2, <2>1 DEF Between
<1>3. CASE NextSystemAlert(w) /\ UNCHANGED <<rate, owed, gateVars>>
  BY <1>1, <1>3, NextSystemAlertAt
<1> QED
  BY <1>2, <1>3

LEMMA UserRateStep ==
  ASSUME TypeOK, LocalInv, NEW w \in Workers, UserRateLimit(w), NEW a \in Alert
  PROVE  /\ UNCHANGED <<now, dedupe>>
         /\ UserAlert(w) \in Alert
         /\ Limited(UserAlert(w))
         /\ w \in Between(a) <=> a = UserAlert(w)
         /\ \/ /\ SetNXRate(Trigger(UserAlert(w)))
               /\ Admit(w, UserAlert(w), {UserChannel})
               /\ w \notin Between(a)'
            \/ UNCHANGED <<rate, admits, last>> /\ pc'[w] \notin {"rate", "uRate"}
<1> USE DEF UserRateLimit, TypeOK, HandlerTypes, gateVars, Goto
<1>1. /\ UNCHANGED <<now, dedupe>>
      /\ UserAlert(w) \in Alert
      /\ Limited(UserAlert(w))
      /\ w \in Between(a) <=> a = UserAlert(w)
  BY UserAlertType DEF Between, UserLabels, LocalInv, Local, Limited, UserAlert
<1>2. CASE SetNXRate(Trigger(UserAlert(w))) /\ Goto(w, "uEvent")
           /\ Admit(w, UserAlert(w), {UserChannel})
  <2>1. pc'[w] = "uEvent"
    BY <1>2
  <2> QED
    BY <1>1, <1>2, <2>1 DEF Between
<1>3. CASE NextUserRule(w) /\ UNCHANGED <<rate, owed, gateVars>>
  BY <1>1, <1>3 DEF NextUserRule
<1> QED
  BY <1>2, <1>3

LEMMA KeysStep == TypeOK /\ LocalInv /\ KeysInv /\ [Next]_vars => KeysInv'
<1> SUFFICES ASSUME TypeOK, LocalInv, KeysInv, [Next]_vars, NEW a \in Alert PROVE Keys(a)'
  BY DEF KeysInv
<1>1. Keys(a)
  BY DEF KeysInv
<1> USE DEF redisVars, gateVars
<1>2. ASSUME NEW w \in Workers, NEW e \in Events, Accept(w, e) PROVE Keys(a)'
  <2>1. Move(w) /\ pc'[w] \notin {"rate", "uRate"}
    BY <1>2 DEF Move, Accept, Goto, TypeOK, HandlerTypes
  <2> QED
    BY <1>1, <1>2, <2>1, KeysQuiet DEF Accept
<1>3. ASSUME NEW w \in Workers, SystemDedupe(w) PROVE Keys(a)'
  <2>1. Move(w)
    BY <1>3 DEF Move, Step
  <2> QED
    BY <1>1, <1>3, <2>1, SystemDedupeStep, KeysClaim, KeysQuiet
<1>4. ASSUME NEW w \in Workers, UserDedupe(w) PROVE Keys(a)'
  <2>1. Move(w)
    BY <1>4 DEF Move, Step
  <2> QED
    BY <1>1, <1>4, <2>1, UserDedupeStep, KeysClaim, KeysCross, KeysQuiet
<1>5. ASSUME NEW w \in Workers, SystemRateLimit(w) PROVE Keys(a)'
  <2>1. Move(w)
    BY <1>5 DEF Move, Step
  <2> QED
    BY <1>1, <1>5, <2>1, SystemRateStep, KeysAdmit, KeysQuiet
<1>6. ASSUME NEW w \in Workers, UserRateLimit(w) PROVE Keys(a)'
  <2>1. Move(w)
    BY <1>6 DEF Move, Step
  <2> QED
    BY <1>1, <1>6, <2>1, UserRateStep, KeysAdmit, KeysQuiet
<1>7. ASSUME NEW w \in Workers, SystemInsertEvent(w) PROVE Keys(a)'
  <2>1. Move(w) /\ pc'[w] \notin {"rate", "uRate"}
    BY <1>7 DEF Move, Step, SystemInsertEvent, Goto, TypeOK, HandlerTypes, localVars
  <2> QED
    BY <1>1, <1>7, <2>1, KeysQuiet DEF SystemInsertEvent
<1>8. ASSUME NEW w \in Workers, SystemInsertAlert(w) PROVE Keys(a)'
  <2>1. Move(w) /\ pc'[w] \notin {"rate", "uRate"}
    BY <1>8 DEF Move, Step, SystemInsertAlert, NextSystemAlert, Goto, TypeOK, HandlerTypes, localVars
  <2> QED
    BY <1>1, <1>8, <2>1, KeysQuiet DEF SystemInsertAlert
<1>9. ASSUME NEW w \in Workers, SystemSend(w) PROVE Keys(a)'
  <2>1. Move(w) /\ pc'[w] \notin {"rate", "uRate"}
    BY <1>9 DEF Move, Step, SystemSend, SendTo, SendReturns, Retry, Goto, TypeOK, HandlerTypes
  <2> QED
    BY <1>1, <1>9, <2>1, KeysQuiet DEF SystemSend
<1>10. ASSUME NEW w \in Workers, SystemLog(w) PROVE Keys(a)'
  <2>1. Move(w) /\ pc'[w] \notin {"rate", "uRate"}
    BY <1>10 DEF Move, Step, SystemLog, NextSystemAlert, Goto, TypeOK, HandlerTypes, localVars
  <2> QED
    BY <1>1, <1>10, <2>1, KeysQuiet DEF SystemLog
<1>11. ASSUME NEW w \in Workers, ListUserRules(w) PROVE Keys(a)'
  <2>1. Move(w) /\ pc'[w] \notin {"rate", "uRate"}
    BY <1>11 DEF Move, Step, ListUserRules, Goto, TypeOK, HandlerTypes, localVars
  <2> QED
    BY <1>1, <1>11, <2>1, KeysQuiet DEF ListUserRules
<1>12. ASSUME NEW w \in Workers, EvaluateUserRule(w) PROVE Keys(a)'
  <2>1. Move(w) /\ pc'[w] \notin {"rate", "uRate"}
    BY <1>12 DEF Move, Step, EvaluateUserRule, Goto, TypeOK, HandlerTypes, localVars
  <2> QED
    BY <1>1, <1>12, <2>1, KeysQuiet DEF EvaluateUserRule
<1>13. ASSUME NEW w \in Workers, UserInsertEvent(w) PROVE Keys(a)'
  <2>1. Move(w) /\ pc'[w] \notin {"rate", "uRate"}
    BY <1>13 DEF Move, Step, UserInsertEvent, Goto, TypeOK, HandlerTypes, localVars
  <2> QED
    BY <1>1, <1>13, <2>1, KeysQuiet DEF UserInsertEvent
<1>14. ASSUME NEW w \in Workers, UserInsertAlert(w) PROVE Keys(a)'
  <2>1. Move(w) /\ pc'[w] \notin {"rate", "uRate"}
    BY <1>14 DEF Move, Step, UserInsertAlert, Goto, TypeOK, HandlerTypes, localVars
  <2> QED
    BY <1>1, <1>14, <2>1, KeysQuiet DEF UserInsertAlert
<1>15. ASSUME NEW w \in Workers, UserRoute(w) PROVE Keys(a)'
  <2>1. Move(w) /\ pc'[w] \notin {"rate", "uRate"}
    BY <1>15 DEF Move, Step, UserRoute, Goto, TypeOK, HandlerTypes, localVars
  <2> QED
    BY <1>1, <1>15, <2>1, KeysQuiet DEF UserRoute
<1>23. ASSUME NEW w \in Workers, UserSend(w) PROVE Keys(a)'
  <2>1. Move(w) /\ pc'[w] \notin {"rate", "uRate"}
    BY <1>23 DEF Move, Step, UserSend, SendTo, SendReturns, Retry, Goto, TypeOK, HandlerTypes
  <2> QED
    BY <1>1, <1>23, <2>1, KeysQuiet DEF UserSend
<1>16. ASSUME NEW w \in Workers, UserLog(w) PROVE Keys(a)'
  <2>1. Move(w) /\ pc'[w] \notin {"rate", "uRate"}
    BY <1>16 DEF Move, Step, UserLog, NextUserRule, Return, Goto, TypeOK, HandlerTypes, localVars
  <2> QED
    BY <1>1, <1>16, <2>1, KeysQuiet DEF UserLog
<1>17. ASSUME NEW w \in Workers, Finish(w) PROVE Keys(a)'
  <2>1. Move(w) /\ pc'[w] \notin {"rate", "uRate"}
    BY <1>17 DEF Move, Step, Finish, Return, Goto, TypeOK, HandlerTypes, localVars
  <2> QED
    BY <1>1, <1>17, <2>1, KeysQuiet DEF Finish
<1>18. ASSUME NEW w \in Workers, Abort(w) PROVE Keys(a)'
  <2>1. Move(w) /\ pc'[w] \notin {"rate", "uRate"}
    BY <1>18 DEF Move, Step, Abort, Return, Goto, TypeOK, HandlerTypes, localVars
  <2> QED
    BY <1>1, <1>18, <2>1, KeysQuiet DEF Abort
<1>19. ASSUME UNCHANGED <<pc, localVars>>, now' \in Nat, now <= now',
              UNCHANGED <<dedupe, rate, admits, last>>
       PROVE  Keys(a)'
  <2>1. Between(a)' = Between(a)
    BY <1>19 DEF Between, SystemAlert, UserAlert, localVars
  <2>2. Cardinality(Between(a)') <= Cardinality(Between(a))
    BY <2>1, BetweenType
  <2> QED
    BY <1>1, <1>19, <2>2, KeysKept
<1>20. ASSUME NEW u \in Users, ChangeProfile(u) PROVE Keys(a)'
  BY <1>19, <1>20 DEF ChangeProfile, TypeOK, StoreTypes
<1>21. CASE Tick
  BY <1>19, <1>21 DEF Tick, TypeOK, StoreTypes
<1>22. CASE UNCHANGED vars
  BY <1>19, <1>22 DEF vars, TypeOK, StoreTypes
<1> QED
  BY <1>2, <1>3, <1>4, <1>5, <1>6, <1>7, <1>8, <1>9, <1>10, <1>11, <1>12, <1>13, <1>14,
     <1>15, <1>16, <1>17, <1>18, <1>20, <1>21, <1>22, <1>23 DEF Next, Step

-----------------------------------------------------------------------------
(***************************************************************************)
(* Messages: what is still ahead of the handlers is paid for.              *)
(***************************************************************************)
SendLabels == {"event", "alert", "send", "log", "uEvent", "uAlert", "uRoute", "uSend"}

(* The attempts to send a on channel c that handler w has left.            *)
Left(w, a, c) == IF w \in Ahead(a, c) THEN Tries(w, c) ELSE {}

LEMMA PairsFinite ==
  ASSUME NEW c \in 0..Channels, NEW S \in SUBSET (Workers \X (1..Attempts[c]))
  PROVE  IsFiniteSet(S) /\ Cardinality(S) \in Nat
<1>1. IsFiniteSet(1..Attempts[c]) /\ IsFiniteSet(Workers)
  BY FS_Interval, AttemptsType, DomainAssumption
<1>2. IsFiniteSet(Workers \X (1..Attempts[c]))
  BY <1>1, FS_Product
<1> QED
  BY <1>2, FS_Subset, FS_CardinalityType

LEMMA CreditsType ==
  ASSUME NEW a, NEW c \in 0..Channels
  PROVE  /\ Credits(a, c) \subseteq Workers \X (1..Attempts[c])
         /\ Credits(a, c)' \subseteq Workers \X (1..Attempts[c])
         /\ IsFiniteSet(Credits(a, c)) /\ IsFiniteSet(Credits(a, c)')
         /\ Cardinality(Credits(a, c)) \in Nat /\ Cardinality(Credits(a, c)') \in Nat
<1>1. /\ Credits(a, c) \subseteq Workers \X (1..Attempts[c])
      /\ Credits(a, c)' \subseteq Workers \X (1..Attempts[c])
  BY DEF Credits
<1> QED
  BY <1>1, PairsFinite

LEMMA AheadType ==
  ASSUME NEW a, NEW c
  PROVE  /\ Ahead(a, c) \subseteq Workers /\ Ahead(a, c)' \subseteq Workers
         /\ IsFiniteSet(Ahead(a, c)) /\ IsFiniteSet(Ahead(a, c)')
         /\ Cardinality(Ahead(a, c)) \in Nat /\ Cardinality(Ahead(a, c)') \in Nat
<1>1. Ahead(a, c) \subseteq Workers /\ Ahead(a, c)' \subseteq Workers
  BY DEF Ahead
<1> QED
  BY <1>1, DomainAssumption, FS_Subset, FS_CardinalityType

(* A handler has nothing ahead outside the way from admission to log.      *)
LEMMA NothingAhead ==
  ASSUME NEW w \in Workers, pc'[w] \notin SendLabels
  PROVE  \A a, c : w \notin Ahead(a, c)' /\ Left(w, a, c)' = {}
BY DEF Ahead, Left, SendLabels

(* A step of w touches what is ahead of w alone.                           *)
LEMMA AheadOthers ==
  ASSUME TypeOK, NEW w \in Workers, Move(w), NEW a, NEW c, NEW v \in Workers, v # w
  PROVE  /\ v \in Ahead(a, c)' <=> v \in Ahead(a, c)
         /\ Tries(v, c)' = Tries(v, c)
BY OthersKept DEF Ahead, Tries, SystemAlert, UserAlert

LEMMA AheadMove ==
  ASSUME TypeOK, NEW w \in Workers, Move(w), NEW a, NEW c
  PROVE  /\ (w \in Ahead(a, c)' => w \in Ahead(a, c))
              => Cardinality(Ahead(a, c)') <= Cardinality(Ahead(a, c))
         /\ w \in Ahead(a, c) /\ w \notin Ahead(a, c)'
              => Cardinality(Ahead(a, c)') + 1 <= Cardinality(Ahead(a, c))
         /\ Cardinality(Ahead(a, c)') <= Cardinality(Ahead(a, c)) + 1
<1>1. \A v \in Workers : v # w => (v \in Ahead(a, c)' <=> v \in Ahead(a, c))
  BY AheadOthers
<1>2. CASE w \in Ahead(a, c)' <=> w \in Ahead(a, c)
  <2>1. Ahead(a, c)' = Ahead(a, c)
    BY <1>1, <1>2, AheadType
  <2> QED
    BY <2>1, <1>2, AheadType
<1>3. CASE w \in Ahead(a, c) /\ w \notin Ahead(a, c)'
  <2>1. Ahead(a, c) = Ahead(a, c)' \cup {w}
    BY <1>1, <1>3, AheadType
  <2>2. Cardinality(Ahead(a, c)) = Cardinality(Ahead(a, c)') + 1
    BY <2>1, <1>3, AheadType, FS_AddElement
  <2> QED
    BY <1>3, <2>2, AheadType
<1>4. CASE w \notin Ahead(a, c) /\ w \in Ahead(a, c)'
  <2>1. Ahead(a, c)' = Ahead(a, c) \cup {w}
    BY <1>1, <1>4, AheadType
  <2>2. Cardinality(Ahead(a, c)') = Cardinality(Ahead(a, c)) + 1
    BY <2>1, <1>4, AheadType, FS_AddElement
  <2> QED
    BY <1>4, <2>2, AheadType
<1> QED
  BY <1>2, <1>3, <1>4

LEMMA CreditsMove ==
  ASSUME TypeOK, NEW w \in Workers, Move(w), NEW a, NEW c \in 0..Channels,
         NEW p \in Credits(a, c)'
  PROVE  /\ p[1] # w => p \in Credits(a, c)
         /\ p[1] = w => p[2] \in Left(w, a, c)' /\ p[2] \in 1..Attempts[c] /\ p = <<w, p[2]>>
<1>1. /\ p \in Workers \X (1..Attempts[c]) /\ p[1] \in Workers /\ p = <<p[1], p[2]>>
      /\ p[1] \in Ahead(a, c)' /\ p[2] \in Tries(p[1], c)'
  BY DEF Credits
<1>2. CASE p[1] # w
  BY <1>1, <1>2, AheadOthers DEF Credits
<1>3. CASE p[1] = w
  BY <1>1, <1>3 DEF Left
<1> QED
  BY <1>2, <1>3

LEMMA CreditsKept ==
  ASSUME TypeOK, NEW w \in Workers, Move(w), NEW a, NEW c \in 0..Channels,
         Left(w, a, c)' \subseteq Left(w, a, c)
  PROVE  Cardinality(Credits(a, c)') <= Cardinality(Credits(a, c))
<1>1. Credits(a, c)' \subseteq Credits(a, c)
  <2> SUFFICES ASSUME NEW p \in Credits(a, c)' PROVE p \in Credits(a, c)
    OBVIOUS
  <2> QED
    BY CreditsMove DEF Credits, Left
<1> QED
  BY <1>1, CreditsType, FS_Subset

LEMMA CreditsSpent ==
  ASSUME TypeOK, NEW w \in Workers, Move(w), NEW a, NEW c \in 0..Channels,
         NEW i \in 1..Attempts[c], i \in Left(w, a, c),
         Left(w, a, c)' \subseteq Left(w, a, c) \ {i}
  PROVE  Cardinality(Credits(a, c)') + 1 <= Cardinality(Credits(a, c))
<1> DEFINE q == <<w, i>>
<1>1. q \in Credits(a, c)
  BY DEF Credits, Left
<1>2. Credits(a, c)' \subseteq Credits(a, c) \ {q}
  <2> SUFFICES ASSUME NEW p \in Credits(a, c)' PROVE p \in Credits(a, c) \ {q}
    OBVIOUS
  <2> QED
    BY CreditsMove DEF Credits, Left
<1>3. /\ IsFiniteSet(Credits(a, c) \ {q})
      /\ Cardinality(Credits(a, c) \ {q}) = Cardinality(Credits(a, c)) - 1
  BY <1>1, CreditsType, FS_RemoveElement
<1>4. Cardinality(Credits(a, c)') <= Cardinality(Credits(a, c) \ {q})
  BY <1>2, <1>3, FS_Subset
<1> QED
  BY <1>3, <1>4, CreditsType

LEMMA CreditsGranted ==
  ASSUME TypeOK, NEW w \in Workers, Move(w), NEW a, NEW c \in 0..Channels
  PROVE  Cardinality(Credits(a, c)') <= Cardinality(Credits(a, c)) + Attempts[c]
<1> DEFINE New == {w} \X (1..Attempts[c])
<1>1. IsFiniteSet(1..Attempts[c]) /\ Cardinality(1..Attempts[c]) = Attempts[c]
  <2>1. Attempts[c] \in Int /\ Attempts[c] >= 1
    BY AttemptsType
  <2> QED
    BY <2>1, FS_Interval
<1>2. IsFiniteSet(New) /\ Cardinality(New) = Attempts[c]
  <2>1. IsFiniteSet({w}) /\ Cardinality({w}) = 1
    BY FS_Singleton
  <2>2. IsFiniteSet(New) /\ Cardinality(New) = Cardinality({w}) * Cardinality(1..Attempts[c])
    BY <1>1, <2>1, FS_Product
  <2> QED
    BY <1>1, <2>1, <2>2, AttemptsType
<1>3. Credits(a, c)' \subseteq Credits(a, c) \cup New
  <2> SUFFICES ASSUME NEW p \in Credits(a, c)' PROVE p \in Credits(a, c) \cup New
    OBVIOUS
  <2> QED
    BY CreditsMove
<1> HIDE DEF New
<1>4. /\ IsFiniteSet(Credits(a, c) \cup New)
      /\ Cardinality(Credits(a, c) \cup New)
           = Cardinality(Credits(a, c)) + Cardinality(New) - Cardinality(Credits(a, c) \cap New)
  BY <1>2, CreditsType, FS_Union
<1>5. Cardinality(Credits(a, c) \cap New) \in Nat
  BY CreditsType, FS_Intersection, FS_CardinalityType
<1>6. Cardinality(Credits(a, c)') <= Cardinality(Credits(a, c) \cup New)
  BY <1>3, <1>4, FS_Subset
<1>7. Attempts[c] \in Nat
  BY AttemptsType
<1> QED
  BY <1>2, <1>4, <1>5, <1>6, <1>7, CreditsType

LEMMA PaidTypes ==
  ASSUME TypeOK, NEW a \in Alert, NEW c \in 0..Channels
  PROVE  /\ <<a, c>> \in Message
         /\ delivered[<<a, c>>] \in Nat /\ confirmed[<<a, c>>] \in Nat
         /\ admits[a] \in Nat /\ Attempts[c] \in Nat /\ Attempts[c] >= 1
         /\ Cardinality(Credits(a, c)) \in Nat /\ Cardinality(Credits(a, c)') \in Nat
         /\ Cardinality(Ahead(a, c)) \in Nat /\ Cardinality(Ahead(a, c)') \in Nat
         /\ admits[a] * Attempts[c] \in Nat
<1>1. /\ <<a, c>> \in Message
      /\ delivered[<<a, c>>] \in Nat /\ confirmed[<<a, c>>] \in Nat
      /\ admits[a] \in Nat
  BY DEF TypeOK, HistoryTypes, Message
<1>2. Attempts[c] \in Nat /\ Attempts[c] >= 1
  BY AttemptsType
<1> QED
  BY <1>1, <1>2, CreditsType, AheadType, Multiples

LEMMA PaidInit == Init => PaidInv
<1> SUFFICES ASSUME Init, NEW a \in Alert, NEW c \in 0..Channels PROVE Paid(a, c)
  BY DEF PaidInv
<1>1. Ahead(a, c) = {} /\ Credits(a, c) = {}
  BY DEF Init, Credits, Ahead
<1>2. Attempts[c] \in Nat
  BY AttemptsType
<1>3. admits[a] = 0 /\ delivered[<<a, c>>] = 0 /\ confirmed[<<a, c>>] = 0
  BY DEF Init, Message
<1> QED
  BY <1>1, <1>2, <1>3, FS_EmptySet DEF Paid

(* What is ahead of w does not grow.                                       *)
Less(w, a, c) ==
  /\ w \in Ahead(a, c)' => w \in Ahead(a, c)
  /\ Left(w, a, c)' \subseteq Left(w, a, c)

(* Nothing is admitted or sent.                                            *)
LEMMA PaidQuiet ==
  ASSUME TypeOK, NEW w \in Workers, Move(w), NEW a \in Alert, NEW c \in 0..Channels,
         Paid(a, c), UNCHANGED <<admits, delivered, confirmed>>, Less(w, a, c)
  PROVE  Paid(a, c)'
<1>1. /\ Cardinality(Ahead(a, c)') <= Cardinality(Ahead(a, c))
      /\ Cardinality(Credits(a, c)') <= Cardinality(Credits(a, c))
  BY AheadMove, CreditsKept DEF Less
<1> QED
  BY <1>1, PaidTypes DEF Paid

(* An attempt is made: it uses up one of those left, and a handler that    *)
(* sees it accepted makes no other.                                        *)
LEMMA PaidPost ==
  ASSUME TypeOK, NEW w \in Workers, Move(w), NEW a \in Alert, NEW c \in 0..Channels,
         Paid(a, c), NEW b \in Alert, NEW d \in 0..Channels,
         NEW arrives \in BOOLEAN, NEW known \in BOOLEAN, Post(b, d, arrives, known),
         UNCHANGED admits, Less(w, a, c),
         a = b /\ c = d /\ known => w \in Ahead(a, c) /\ w \notin Ahead(a, c)',
         a = b /\ c = d => \E i \in 1..Attempts[c] : i \in Left(w, a, c) /\ i \notin Left(w, a, c)'
  PROVE  Paid(a, c)'
<1>1. CASE <<a, c>> = <<b, d>>
  <2>1. Cardinality(Credits(a, c)') + 1 <= Cardinality(Credits(a, c))
    <3>1. PICK i \in 1..Attempts[c] : i \in Left(w, a, c) /\ i \notin Left(w, a, c)'
      BY <1>1
    <3>2. Left(w, a, c)' \subseteq Left(w, a, c) \ {i}
      BY <3>1 DEF Less
    <3> QED
      BY <3>1, <3>2, CreditsSpent
  <2>2. delivered'[<<a, c>>] <= delivered[<<a, c>>] + 1
    BY <1>1, PostEffect, PaidTypes
  <2>3. /\ Cardinality(Ahead(a, c)') <= Cardinality(Ahead(a, c))
        /\ known => Cardinality(Ahead(a, c)') + 1 <= Cardinality(Ahead(a, c))
    BY <1>1, AheadMove DEF Less
  <2>4. confirmed'[<<a, c>>] = IF known THEN confirmed[<<a, c>>] + 1 ELSE confirmed[<<a, c>>]
    BY <1>1, PostEffect
  <2>5. delivered'[<<a, c>>] \in Nat
    BY PostEffect, PaidTypes
  <2> QED
    BY <2>1, <2>2, <2>3, <2>4, <2>5, PaidTypes DEF Paid
<1>2. CASE <<a, c>> # <<b, d>>
  <2>1. /\ delivered'[<<a, c>>] = delivered[<<a, c>>]
        /\ confirmed'[<<a, c>>] = confirmed[<<a, c>>]
    BY <1>2, PostEffect, PaidTypes
  <2>2. /\ Cardinality(Ahead(a, c)') <= Cardinality(Ahead(a, c))
        /\ Cardinality(Credits(a, c)') <= Cardinality(Credits(a, c))
    BY AheadMove, CreditsKept DEF Less
  <2> QED
    BY <2>1, <2>2, PaidTypes DEF Paid
<1> QED
  BY <1>1, <1>2

(* An admission pays for one handler and its attempts on every channel.    *)
LEMMA PaidAdmit ==
  ASSUME TypeOK, NEW w \in Workers, Move(w), NEW a \in Alert, NEW c \in 0..Channels,
         Paid(a, c), NEW b \in Alert, NEW channels, Admit(w, b, channels),
         UNCHANGED <<delivered, confirmed>>,
         a # b => w \notin Ahead(a, c)'
  PROVE  Paid(a, c)'
<1>1. CASE a = b
  <2>1. admits'[a] = admits[a] + 1
    BY <1>1 DEF Admit, TypeOK, HistoryTypes
  <2>2. /\ Cardinality(Ahead(a, c)') <= Cardinality(Ahead(a, c)) + 1
        /\ Cardinality(Credits(a, c)') <= Cardinality(Credits(a, c)) + Attempts[c]
    BY AheadMove, CreditsGranted
  <2>3. admits'[a] * Attempts[c] = admits[a] * Attempts[c] + Attempts[c]
    BY <2>1, PaidTypes, Multiples
  <2> QED
    BY <2>1, <2>2, <2>3, PaidTypes DEF Paid
<1>2. CASE a # b
  <2>1. admits'[a] = admits[a]
    BY <1>2 DEF Admit, TypeOK, HistoryTypes
  <2>2. /\ Cardinality(Ahead(a, c)') <= Cardinality(Ahead(a, c))
        /\ Cardinality(Credits(a, c)') <= Cardinality(Credits(a, c))
    BY <1>2, AheadMove, CreditsKept DEF Left
  <2> QED
    BY <2>1, <2>2, PaidTypes DEF Paid
<1> QED
  BY <1>1, <1>2

(* What an attempt of SendTo leaves ahead: the later attempts, or nothing. *)
LEMMA PaidSend ==
  ASSUME TypeOK, LocalInv, NEW w \in Workers, Move(w), NEW a \in Alert, NEW c \in 0..Channels,
         Paid(a, c), NEW b \in Alert, NEW d \in 0..Channels, NEW label,
         SendTo(w, b, d, label), UNCHANGED <<admits, event, pend, chan, target>>,
         \/ pc[w] = "send" /\ label = "log" /\ b = SystemAlert(w) /\ d = chan[w] /\ d > 0
         \/ pc[w] = "uSend" /\ label = "uLog" /\ b = UserAlert(w) /\ d = UserChannel
  PROVE  Paid(a, c)'
<1> USE DEF TypeOK, HandlerTypes, Goto
<1>0. /\ SystemAlert(w)' = SystemAlert(w) /\ UserAlert(w)' = UserAlert(w)
      /\ chan'[w] = chan[w] /\ chan[w] \in Nat
      /\ attempt[w] \in Nat \ {0} /\ attempt[w] <= Attempts[d]
      /\ Attempts[c] \in Nat /\ Attempts[d] \in Nat
  BY AttemptsType DEF SystemAlert, UserAlert, LocalInv, Local
<1>1. CASE attempt[w] < Attempts[d] /\ Retry(w)
  <2>1. pc'[w] = pc[w] /\ attempt'[w] = attempt[w] + 1
    BY <1>1 DEF Retry
  <2>2. w \in Ahead(a, c)' <=> w \in Ahead(a, c)
    BY <1>0, <2>1 DEF Ahead
  <2>3. Tries(w, c)' \subseteq Tries(w, c)
    BY <1>0, <2>1 DEF Tries
  <2>4. a = b /\ c = d => /\ attempt[w] \in Left(w, a, c)
                          /\ attempt[w] \notin Left(w, a, c)'
    BY <1>0, <2>1, <2>2 DEF Left, Tries, Ahead
  <2>5. Less(w, a, c)
    BY <2>2, <2>3 DEF Less, Left
  <2>6. PICK arrives \in BOOLEAN : Post(b, d, arrives, FALSE)
    BY <1>1, <2>1 DEF SendTo, SendReturns
  <2>7. attempt[w] \in 1..Attempts[d]
    BY <1>0
  <2> QED
    BY <2>4, <2>5, <2>6, <2>7, PaidPost
<1>2. CASE pc' = [pc EXCEPT ![w] = label] /\ attempt' = [attempt EXCEPT ![w] = 1]
  <2>1. pc'[w] = label /\ attempt'[w] = 1
    BY <1>2
  <2>2. /\ w \in Ahead(a, c)' => w \in Ahead(a, c) /\ (c # d \/ a # b)
        /\ a = b /\ c = d => w \in Ahead(a, c)
    BY <1>0, <2>1 DEF Ahead
  <2>3. w \in Ahead(a, c)' => Tries(w, c)' = Tries(w, c)
    BY <1>0, <2>1 DEF Tries, Ahead
  <2>4. a = b /\ c = d => /\ attempt[w] \in Left(w, a, c)
                          /\ attempt[w] \notin Left(w, a, c)'
    BY <1>0, <2>2 DEF Left, Tries
  <2>5. Less(w, a, c)
    BY <2>2, <2>3 DEF Less, Left
  <2>6. PICK arrives \in BOOLEAN, known \in BOOLEAN : Post(b, d, arrives, known)
    BY SendToPosts
  <2>7. attempt[w] \in 1..Attempts[d]
    BY <1>0
  <2> QED
    BY <2>2, <2>4, <2>5, <2>6, <2>7, PaidPost
<1> QED
  BY <1>1, <1>2 DEF SendTo, SendReturns

LEMMA PaidMove ==
  ASSUME TypeOK, LocalInv, NEW w \in Workers, Move(w), NEW a \in Alert, NEW c \in 0..Channels,
         Paid(a, c)
  PROVE  Paid(a, c)'
<1> USE DEF TypeOK, HandlerTypes, Goto, localVars, gateVars
<1>0. ASSUME pc'[w] \notin SendLabels, UNCHANGED <<admits, delivered, confirmed>>
      PROVE  Paid(a, c)'
  <2>1. Less(w, a, c)
    BY <1>0, NothingAhead DEF Less
  <2> QED
    BY <1>0, <2>1, PaidQuiet
<1>1. ASSUME NEW e \in Events, Accept(w, e) PROVE Paid(a, c)'
  <2>1. pc'[w] \notin SendLabels
    BY <1>1 DEF Accept, SendLabels
  <2> QED
    BY <1>0, <1>1, <2>1 DEF Accept
<1>2. CASE SystemDedupe(w)
  <2>1. pc'[w] \notin SendLabels
    BY <1>2 DEF SystemDedupe, NextSystemAlert, SendLabels
  <2> QED
    BY <1>0, <1>2, <2>1 DEF SystemDedupe
<1>3. CASE SystemRateLimit(w)
  <2> DEFINE b == SystemAlert(w)
  <2>1. b \in Alert
    BY <1>3, SystemAlertType DEF SystemRateLimit, SystemLabels
  <2>2. CASE Admit(w, b, 1..Channels) /\ Goto(w, "event") /\ UNCHANGED pend
    <3>1. pc'[w] = "event" /\ SystemAlert(w)' = b
      BY <1>3, <2>2 DEF SystemRateLimit, SystemAlert
    <3>2. a # b => w \notin Ahead(a, c)'
      BY <3>1 DEF Ahead
    <3>3. UNCHANGED <<delivered, confirmed>>
      BY <1>3 DEF SystemRateLimit
    <3> HIDE DEF b
    <3> QED
      BY <2>1, <2>2, <3>2, <3>3, PaidAdmit
  <2>3. CASE NextSystemAlert(w) /\ UNCHANGED admits
    <3>1. pc'[w] \notin SendLabels
      BY <2>3 DEF NextSystemAlert, SendLabels
    <3> QED
      BY <1>0, <1>3, <2>3, <3>1 DEF SystemRateLimit
  <2> QED
    BY <1>3, <2>2, <2>3 DEF SystemRateLimit
<1>4. CASE SystemInsertEvent(w)
  <2>1. /\ pc[w] = "event" /\ pc'[w] = "alert"
        /\ SystemAlert(w)' = SystemAlert(w)
        /\ UNCHANGED <<admits, delivered, confirmed>>
    BY <1>4 DEF SystemInsertEvent, SystemAlert
  <2>2. Less(w, a, c)
    BY <2>1 DEF Less, Left, Ahead, Tries
  <2> QED
    BY <2>1, <2>2, PaidQuiet
<1>5. CASE SystemInsertAlert(w)
  <2>1. CASE Channels = 0
    <3>1. pc'[w] \notin SendLabels
      BY <1>5, <2>1 DEF SystemInsertAlert, NextSystemAlert, SendLabels
    <3> QED
      BY <1>0, <1>5, <3>1 DEF SystemInsertAlert
  <2>2. CASE Channels # 0
    <3>1. /\ pc[w] = "alert" /\ pc'[w] = "send" /\ chan'[w] = 1 /\ SystemAlert(w)' = SystemAlert(w)
          /\ attempt'[w] \in Nat \ {0}
          /\ UNCHANGED <<admits, delivered, confirmed>>
      BY <1>5, <2>2 DEF SystemInsertAlert, SystemAlert
    <3>2. Less(w, a, c)
      BY <3>1, NumberAssumption DEF Less, Left, Ahead, Tries
    <3> QED
      BY <3>1, <3>2, PaidQuiet
  <2> QED
    BY <2>1, <2>2
<1>6. CASE SystemSend(w)
  <2>1. SystemAlert(w) \in Alert /\ chan[w] \in 0..Channels /\ chan[w] > 0
    BY <1>6, SystemAlertType DEF SystemSend, SystemLabels, LocalInv, Local
  <2>2. /\ pc[w] = "send" /\ SendTo(w, SystemAlert(w), chan[w], "log")
        /\ UNCHANGED <<admits, event, pend, chan, target>>
    BY <1>6 DEF SystemSend
  <2> QED
    BY <2>1, <2>2, PaidSend
<1>7. CASE SystemLog(w)
  <2>1. CASE chan[w] < Channels
    <3>1. /\ pc[w] = "log" /\ pc'[w] = "send" /\ chan[w] \in Nat /\ chan'[w] = chan[w] + 1
          /\ SystemAlert(w)' = SystemAlert(w)
          /\ attempt'[w] \in Nat \ {0}
          /\ UNCHANGED <<admits, delivered, confirmed>>
      BY <1>7, <2>1 DEF SystemLog, SystemAlert
    <3>2. Less(w, a, c)
      BY <3>1, NumberAssumption DEF Less, Left, Ahead, Tries
    <3> QED
      BY <3>1, <3>2, PaidQuiet
  <2>2. CASE ~(chan[w] < Channels)
    <3>1. pc'[w] \notin SendLabels
      BY <1>7, <2>2 DEF SystemLog, NextSystemAlert, SendLabels
    <3> QED
      BY <1>0, <1>7, <3>1 DEF SystemLog
  <2> QED
    BY <2>1, <2>2
<1>8. CASE ListUserRules(w)
  <2>1. pc'[w] \notin SendLabels
    BY <1>8 DEF ListUserRules, SendLabels
  <2> QED
    BY <1>0, <1>8, <2>1 DEF ListUserRules
<1>9. CASE EvaluateUserRule(w)
  <2>1. pc'[w] \notin SendLabels
    BY <1>9 DEF EvaluateUserRule, SendLabels
  <2> QED
    BY <1>0, <1>9, <2>1 DEF EvaluateUserRule
<1>11. CASE UserDedupe(w) \/ UserRateLimit(w)
  <2>1. UserAlert(w) \in Alert
    BY <1>11, UserAlertType DEF UserDedupe, UserRateLimit, UserLabels
  <2>2. CASE pc'[w] = "uEvent"
    <3>1. /\ Admit(w, UserAlert(w), {UserChannel})
          /\ UNCHANGED <<event, target, delivered, confirmed>>
      BY <1>11, <2>2 DEF UserDedupe, UserRateLimit, NextUserRule
    <3>2. a # UserAlert(w) => w \notin Ahead(a, c)'
      BY <2>2, <3>1 DEF Ahead, UserAlert
    <3> QED
      BY <2>1, <3>1, <3>2, PaidAdmit
  <2>3. CASE pc'[w] # "uEvent"
    <3>1. pc'[w] \notin SendLabels /\ UNCHANGED <<admits, delivered, confirmed>>
      BY <1>11, <2>3 DEF UserDedupe, UserRateLimit, NextUserRule, SendLabels
    <3> QED
      BY <1>0, <3>1
  <2> QED
    BY <2>2, <2>3
<1>12. CASE UserInsertEvent(w) \/ UserInsertAlert(w)
  <2>1. /\ pc[w] \in {"uEvent", "uAlert"} /\ pc'[w] \in {"uAlert", "uRoute"}
        /\ UserAlert(w)' = UserAlert(w)
        /\ UNCHANGED <<admits, delivered, confirmed>>
    BY <1>12 DEF UserInsertEvent, UserInsertAlert, UserAlert
  <2>2. Less(w, a, c)
    BY <2>1 DEF Less, Left, Ahead, Tries
  <2> QED
    BY <2>1, <2>2, PaidQuiet
<1>13. CASE UserRoute(w)
  <2>1. UserAlert(w) \in Alert /\ UserChannel \in 0..Channels
    BY <1>13, UserAlertType, NumberAssumption DEF UserRoute, UserLabels
  <2>2. /\ pc[w] = "uRoute" /\ UserAlert(w)' = UserAlert(w) /\ UNCHANGED admits
        /\ attempt'[w] \in Nat \ {0}
    BY <1>13 DEF UserRoute, UserAlert
  <2>3. CASE pc'[w] = "uSend" /\ UNCHANGED <<delivered, confirmed>>
    <3>1. Less(w, a, c)
      BY <2>2, <2>3, NumberAssumption DEF Less, Left, Ahead, Tries
    <3> QED
      BY <2>2, <2>3, <3>1, PaidQuiet
  <2>4. CASE pc'[w] = "uLog"
    <3>1. PICK sent \in BOOLEAN : Post(UserAlert(w), UserChannel, sent, sent)
      BY <1>13, <2>4 DEF UserRoute
    <3>2. w \notin Ahead(a, c)' /\ Left(w, a, c)' = {}
      BY <2>4, NothingAhead DEF SendLabels
    <3>3. a = UserAlert(w) /\ c = UserChannel => w \in Ahead(a, c) /\ 1 \in Left(w, a, c)
      BY <2>2, AttemptsType DEF Ahead, Left, Tries
    <3>4. Less(w, a, c)
      BY <3>2 DEF Less
    <3>5. 1 \in 1..Attempts[c]
      BY AttemptsType
    <3> QED
      BY <2>1, <2>2, <3>1, <3>2, <3>3, <3>4, <3>5, PaidPost
  <2> QED
    BY <1>13, <2>3, <2>4 DEF UserRoute
<1>16. CASE UserSend(w)
  <2>1. UserAlert(w) \in Alert /\ UserChannel \in 0..Channels
    BY <1>16, UserAlertType, NumberAssumption DEF UserSend, UserLabels
  <2>2. /\ pc[w] = "uSend" /\ SendTo(w, UserAlert(w), UserChannel, "uLog")
        /\ UNCHANGED <<admits, event, pend, chan, target>>
    BY <1>16 DEF UserSend
  <2> QED
    BY <2>1, <2>2, PaidSend
<1>14. CASE UserLog(w)
  <2>1. pc'[w] \notin SendLabels
    BY <1>14 DEF UserLog, NextUserRule, Return, SendLabels
  <2> QED
    BY <1>0, <1>14, <2>1 DEF UserLog
<1>15. CASE Finish(w) \/ Abort(w)
  <2>1. pc'[w] \notin SendLabels
    BY <1>15 DEF Finish, Abort, Return, SendLabels
  <2> QED
    BY <1>0, <1>15, <2>1 DEF Finish, Abort
<1> QED
  BY <1>1, <1>2, <1>3, <1>4, <1>5, <1>6, <1>7, <1>8, <1>9, <1>11, <1>12, <1>13, <1>14, <1>15, <1>16
     DEF Move, Step

LEMMA PaidStep == TypeOK /\ LocalInv /\ PaidInv /\ [Next]_vars => PaidInv'
<1> SUFFICES ASSUME TypeOK, LocalInv, PaidInv, [Next]_vars,
                    NEW a \in Alert, NEW c \in 0..Channels
             PROVE  Paid(a, c)'
  BY DEF PaidInv
<1>1. Paid(a, c)
  BY DEF PaidInv
<1>2. ASSUME UNCHANGED <<pc, localVars, admits, delivered, confirmed>> PROVE Paid(a, c)'
  <2>1. Ahead(a, c)' = Ahead(a, c) /\ Credits(a, c)' = Credits(a, c)
    BY <1>2 DEF Credits, Ahead, Tries, SystemAlert, UserAlert, localVars
  <2> QED
    BY <1>1, <1>2, <2>1 DEF Paid
<1>3. ASSUME NEW u \in Users, ChangeProfile(u) PROVE Paid(a, c)'
  BY <1>2, <1>3 DEF ChangeProfile, gateVars
<1>4. CASE Tick \/ UNCHANGED vars
  BY <1>2, <1>4 DEF Tick, vars, gateVars
<1> QED
  BY <1>1, <1>3, <1>4, PaidMove DEF Next, Move

-----------------------------------------------------------------------------
(* IInv is inductive: type correctness, what the handlers hold, the audit  *)
(* trail, the Redis keys and the attempts paid for survive every call,     *)
(* retry, error and crash.                                                 *)
THEOREM Invariance == Spec => []IInv
<1>1. Init => IInv
  BY TypeInit, LocalInit, AuditInit, OwedInit, KeysInit, PaidInit DEF IInv
<1>2. IInv /\ [Next]_vars => IInv'
  BY TypeStep, LocalStep, AuditStep, StoredStep, OwedStep, KeysStep, PaidStep DEF IInv
<1> QED
  BY <1>1, <1>2, PTL DEF Spec

(* Every variable of the pipeline keeps its type (rule.Pipeline).          *)
THEOREM TypeCorrect == Spec => []TypeOK
<1>1. IInv => TypeOK
  BY DEF IInv
<1> QED
  BY <1>1, Invariance, PTL

(* A log row has its alert, an alert its event, nothing is delivered for   *)
(* an alert that is not stored, and a row that claims a delivery is true:  *)
(* for any number of concurrent HandleEvent calls, failing anywhere.       *)
THEOREM AuditTrailHolds == Spec => []AuditTrail
<1>1. IInv => AuditTrail
  BY DEF IInv
<1> QED
  BY <1>1, Invariance, PTL

(* When HandleEvent ends without an infrastructure error every alert it    *)
(* admitted has its log rows, one per channel.                             *)
THEOREM SettledWhenOkHolds == Spec => []SettledWhenOk
<1>1. IInv => SettledWhenOk
  BY OwedSettled DEF IInv
<1> QED
  BY <1>1, Invariance, PTL

(* However many handlers serve the same event, and wherever they stop, an  *)
(* admission of HandleEvent yields at most one acknowledged message per    *)
(* channel, and at most Attempts[c] messages if none is acknowledged.      *)
THEOREM NoExtraDeliveryHolds == Spec => []NoExtraDelivery
<1>1. IInv => NoExtraDelivery
  <2> SUFFICES ASSUME IInv, NEW a \in Alert, NEW c \in 0..Channels
               PROVE  /\ confirmed[<<a, c>>] <= admits[a]
                      /\ delivered[<<a, c>>] <= admits[a] * Attempts[c]
    BY DEF NoExtraDelivery
  <2>1. TypeOK /\ Paid(a, c)
    BY DEF IInv, PaidInv
  <2>2. /\ confirmed[<<a, c>>] \in Nat /\ Cardinality(Ahead(a, c)) \in Nat
        /\ delivered[<<a, c>>] \in Nat /\ Cardinality(Credits(a, c)) \in Nat
        /\ admits[a] \in Nat /\ admits[a] * Attempts[c] \in Nat
    BY <2>1, PaidTypes
  <2> QED
    BY <2>1, <2>2 DEF Paid
<1> QED
  BY <1>1, Invariance, PTL

-----------------------------------------------------------------------------
(* The two Redis keys implement AlertGate.                                 *)
LEMMA AdmitByRate ==
  ASSUME TypeOK, KeysInv, NEW w \in Workers, NEW c \in Alert, Limited(c), w \in Between(c),
         SetNXRate(Trigger(c)), UNCHANGED now,
         Admit(w, c, 1..Channels) \/ Admit(w, c, {UserChannel})
  PROVE  Gate!Admit(c)
<1>1. ASSUME NEW b \in Alert, Trigger(b) = Trigger(c), admits[b] > 0
      PROVE  now >= last[b] + RateTTL
  <2>1. Limited(b)
    BY <1>1 DEF Limited, Trigger
  <2>2. last[b] + RateTTL <= rate[Trigger(c)]
    BY <1>1, <2>1 DEF KeysInv, Keys
  <2>3. rate[Trigger(c)] <= now
    BY KeysTypes DEF SetNXRate
  <2> QED
    BY <2>2, <2>3, KeysTypes
<1>2. admits[c] * DedupeTTL <= now
  <2> DEFINE n == Cardinality(Between(c))
  <2>1. n \in Nat /\ n # 0
    BY BetweenType, FS_EmptySet
  <2>2. (admits[c] + n) * DedupeTTL <= dedupe[c] /\ dedupe[c] <= now + DedupeTTL
    BY DEF KeysInv, Keys
  <2>3. /\ admits[c] \in Nat /\ DedupeTTL \in Nat
        /\ now \in Nat /\ dedupe[c] \in Nat
    BY KeysTypes
  <2> HIDE DEF n
  <2>4. admits[c] + 1 \in Nat /\ admits[c] + n \in Nat /\ admits[c] + 1 <= admits[c] + n
    BY <2>1, <2>3
  <2>5. (admits[c] + 1) * DedupeTTL <= (admits[c] + n) * DedupeTTL
    BY <2>3, <2>4, Multiples
  <2>6. (admits[c] + 1) * DedupeTTL = admits[c] * DedupeTTL + DedupeTTL
    BY <2>3, Multiples
  <2>7. admits[c] * DedupeTTL \in Nat /\ (admits[c] + n) * DedupeTTL \in Nat
    BY <2>3, <2>4, Multiples
  <2> QED
    BY <2>2, <2>3, <2>5, <2>6, <2>7
<1>3. /\ admits' = [admits EXCEPT ![c] = @ + 1]
      /\ last' = [last EXCEPT ![c] = now]
  BY DEF Admit
<1> QED
  BY <1>1, <1>2, <1>3 DEF Gate!Admit, Gate!BucketQuiet, Gate!NotRepeated, Gate!WithinBudget

LEMMA AdmitByDedupe ==
  ASSUME TypeOK, KeysInv, NEW w \in Workers, NEW c \in Alert, ~Limited(c),
         SetNXDedupe(c), UNCHANGED now, Admit(w, c, {UserChannel})
  PROVE  Gate!Admit(c)
<1>1. dedupe[c] <= now
  BY KeysTypes DEF SetNXDedupe
<1>2. admits[c] > 0 => now >= last[c] + DedupeTTL
  BY <1>1, KeysTypes DEF KeysInv, Keys
<1>3. admits[c] * DedupeTTL <= now
  <2> DEFINE n == Cardinality(Between(c))
  <2>1. (admits[c] + n) * DedupeTTL <= dedupe[c]
    BY DEF KeysInv, Keys
  <2>2. /\ admits[c] \in Nat /\ DedupeTTL \in Nat /\ n \in Nat
        /\ now \in Nat /\ dedupe[c] \in Nat
    BY KeysTypes
  <2> HIDE DEF n
  <2>3. admits[c] + n \in Nat /\ admits[c] <= admits[c] + n
    BY <2>2
  <2>4. admits[c] * DedupeTTL <= (admits[c] + n) * DedupeTTL
    BY <2>2, <2>3, Multiples
  <2>5. admits[c] * DedupeTTL \in Nat /\ (admits[c] + n) * DedupeTTL \in Nat
    BY <2>2, <2>3, Multiples
  <2> QED
    BY <1>1, <2>1, <2>2, <2>4, <2>5
<1>4. /\ admits' = [admits EXCEPT ![c] = @ + 1]
      /\ last' = [last EXCEPT ![c] = now]
  BY DEF Admit
<1> QED
  BY <1>2, <1>3, <1>4 DEF Gate!Admit, Gate!BucketQuiet, Gate!NotRepeated, Gate!WithinBudget

LEMMA GateStep == IInv /\ [Next]_vars => [Gate!Next]_(Gate!vars)
<1> SUFFICES ASSUME IInv, [Next]_vars PROVE Gate!Next \/ UNCHANGED Gate!vars
  OBVIOUS
<1>1. TypeOK /\ LocalInv /\ KeysInv
  BY DEF IInv
<1> USE DEF gateVars
<1>2. ASSUME NEW w \in Workers, NEW e \in Events, Accept(w, e) PROVE UNCHANGED Gate!vars
  BY <1>2 DEF Accept, Gate!vars
<1>3. ASSUME NEW w \in Workers, SystemDedupe(w) PROVE UNCHANGED Gate!vars
  BY <1>3 DEF SystemDedupe, Gate!vars
<1>4. ASSUME NEW w \in Workers, UserDedupe(w) PROVE Gate!Next \/ UNCHANGED Gate!vars
  <2>1. CASE UNCHANGED <<admits, last>>
    BY <1>4, <2>1 DEF UserDedupe, Gate!vars
  <2>2. CASE /\ ~Limited(UserAlert(w))
             /\ SetNXDedupe(UserAlert(w))
             /\ Admit(w, UserAlert(w), {UserChannel})
    <3>1. PICK c \in Alert : c = UserAlert(w)
      BY <1>1, <1>4, UserAlertType DEF UserDedupe, UserLabels
    <3>2. Gate!Admit(c)
      BY <1>1, <1>4, <2>2, <3>1, AdmitByDedupe DEF UserDedupe
    <3> QED
      BY <3>2 DEF Gate!Next
  <2> QED
    BY <1>4, <2>1, <2>2 DEF UserDedupe
<1>5. ASSUME NEW w \in Workers, SystemRateLimit(w) PROVE Gate!Next \/ UNCHANGED Gate!vars
  <2>1. CASE UNCHANGED <<admits, last>>
    BY <1>5, <2>1 DEF SystemRateLimit, Gate!vars
  <2>2. CASE /\ SetNXRate(Trigger(SystemAlert(w)))
             /\ Admit(w, SystemAlert(w), 1..Channels)
    <3>1. PICK c \in Alert : c = SystemAlert(w)
      BY <1>1, <1>5, SystemAlertType DEF SystemRateLimit, SystemLabels
    <3>2. Limited(c) /\ w \in Between(c) /\ UNCHANGED now
      BY <1>1, <1>5, <3>1, SystemRateStep
    <3>3. Gate!Admit(c)
      BY <1>1, <2>2, <3>1, <3>2, AdmitByRate
    <3> QED
      BY <3>3 DEF Gate!Next
  <2> QED
    BY <1>5, <2>1, <2>2 DEF SystemRateLimit
<1>6. ASSUME NEW w \in Workers, UserRateLimit(w) PROVE Gate!Next \/ UNCHANGED Gate!vars
  <2>1. CASE UNCHANGED <<admits, last>>
    BY <1>6, <2>1 DEF UserRateLimit, Gate!vars
  <2>2. CASE /\ SetNXRate(Trigger(UserAlert(w)))
             /\ Admit(w, UserAlert(w), {UserChannel})
    <3>1. PICK c \in Alert : c = UserAlert(w)
      BY <1>1, <1>6, UserAlertType DEF UserRateLimit, UserLabels
    <3>2. Limited(c) /\ w \in Between(c) /\ UNCHANGED now
      BY <1>1, <1>6, <3>1, UserRateStep
    <3>3. Gate!Admit(c)
      BY <1>1, <2>2, <3>1, <3>2, AdmitByRate
    <3> QED
      BY <3>3 DEF Gate!Next
  <2> QED
    BY <1>6, <2>1, <2>2 DEF UserRateLimit
<1>7. ASSUME NEW w \in Workers, SystemInsertEvent(w) PROVE UNCHANGED Gate!vars
  BY <1>7 DEF SystemInsertEvent, Gate!vars
<1>8. ASSUME NEW w \in Workers, SystemInsertAlert(w) PROVE UNCHANGED Gate!vars
  BY <1>8 DEF SystemInsertAlert, Gate!vars
<1>9. ASSUME NEW w \in Workers, SystemSend(w) PROVE UNCHANGED Gate!vars
  BY <1>9 DEF SystemSend, Gate!vars
<1>10. ASSUME NEW w \in Workers, SystemLog(w) PROVE UNCHANGED Gate!vars
  BY <1>10 DEF SystemLog, Gate!vars
<1>11. ASSUME NEW w \in Workers, ListUserRules(w) PROVE UNCHANGED Gate!vars
  BY <1>11 DEF ListUserRules, Gate!vars
<1>12. ASSUME NEW w \in Workers, EvaluateUserRule(w) PROVE UNCHANGED Gate!vars
  BY <1>12 DEF EvaluateUserRule, Gate!vars
<1>13. ASSUME NEW w \in Workers, UserInsertEvent(w) PROVE UNCHANGED Gate!vars
  BY <1>13 DEF UserInsertEvent, Gate!vars
<1>14. ASSUME NEW w \in Workers, UserInsertAlert(w) PROVE UNCHANGED Gate!vars
  BY <1>14 DEF UserInsertAlert, Gate!vars
<1>15. ASSUME NEW w \in Workers, UserRoute(w) PROVE UNCHANGED Gate!vars
  BY <1>15 DEF UserRoute, Gate!vars
<1>22. ASSUME NEW w \in Workers, UserSend(w) PROVE UNCHANGED Gate!vars
  BY <1>22 DEF UserSend, Gate!vars
<1>16. ASSUME NEW w \in Workers, UserLog(w) PROVE UNCHANGED Gate!vars
  BY <1>16 DEF UserLog, Gate!vars
<1>17. ASSUME NEW w \in Workers, Finish(w) PROVE UNCHANGED Gate!vars
  BY <1>17 DEF Finish, Gate!vars
<1>18. ASSUME NEW w \in Workers, Abort(w) PROVE UNCHANGED Gate!vars
  BY <1>18 DEF Abort, Gate!vars
<1>19. ASSUME NEW u \in Users, ChangeProfile(u) PROVE UNCHANGED Gate!vars
  BY <1>19 DEF ChangeProfile, Gate!vars
<1>20. CASE Tick
  BY <1>20 DEF Tick, Gate!Next, Gate!Tick
<1>21. CASE UNCHANGED vars
  BY <1>21 DEF vars, Gate!vars
<1> QED
  BY <1>2, <1>3, <1>4, <1>5, <1>6, <1>7, <1>8, <1>9, <1>10, <1>11, <1>12, <1>13, <1>14,
     <1>15, <1>16, <1>17, <1>18, <1>19, <1>20, <1>21, <1>22 DEF Next, Step

(* The pipeline implements the gate: whatever the interleaving of the two  *)
(* SETNX commands, admitted alerts of a trigger key are RateTTL apart and  *)
(* no alert is admitted more than once per DedupeTTL.                      *)
THEOREM PipelineImplementsGate == Spec => GateSpec
<1>1. Init => Gate!Init
  BY DEF Init, Gate!Init
<1>2. IInv /\ [Next]_vars => [Gate!Next]_(Gate!vars)
  BY GateStep
<1> QED
  BY <1>1, <1>2, Invariance, PTL DEF Spec, GateSpec, Gate!Spec
=============================================================================
