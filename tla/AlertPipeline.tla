---------------------------- MODULE AlertPipeline ----------------------------
(***************************************************************************)
(* rule.Pipeline.HandleEvent: one market event is evaluated, each alert it *)
(* raises passes the Redis deduplication and rate-limit keys, is persisted,*)
(* sent and logged, and then the user rules of the event are served the    *)
(* same way for each bound user.                                           *)
(*                                                                         *)
(* Handlers run concurrently: the event-bus goroutine of cmd/server and    *)
(* one goroutine per POST /api/v1/admin/replay-event.  Each Redis, SQL or  *)
(* sender call is one action; any of them may return an error (a cancelled *)
(* request context, a lost connection, a crash), which ends HandleEvent.   *)
(***************************************************************************)
EXTENDS Integers, Sequences, FiniteSets

CONSTANTS
  Workers,      \* goroutines that call HandleEvent
  Events,       \* market events (their IDs)
  Symbols,      \* exchange:symbol pairs
  KindOf,       \* KindOf[e]: EventType of e
  SymbolOf,     \* SymbolOf[e]: exchange and symbol of e
  Raises,       \* Raises[e]: the alert lists the system rules may raise for e
  Rules,        \* user-scoped rows of alert_rules
  RuleType,     \* RuleType[r]: rule_type of r
  RuleSymbol,   \* RuleSymbol[r]: exchange and symbol of r
  Users,        \* accounts
  Owner,        \* Owner[r]: user_id of r
  System,       \* the author of system alerts; not a rule
  None,         \* no event or no user rule is being served
  Profiles,     \* delivery settings a user may have
  Channels,     \* number of configured system senders
  Attempts,     \* Attempts[c]: how often the sender of channel c posts a message
  MaxScan,      \* userRuleMaxScan
  DedupeTTL,    \* seconds a dedupe:* key lives
  RateTTL,      \* seconds a rate_limit:* key lives
  MaxTime       \* bound of the clock

Kinds == {"agg_trade", "liquidation", "funding"}
AlertTypes == {"large_trade", "liquidation", "funding_anomaly", "large_trade_window"}

(* The rule types an event of a given kind can satisfy.                    *)
TypesOf(kind) ==
  CASE kind = "agg_trade"   -> {"large_trade", "large_trade_window"}
    [] kind = "liquidation" -> {"liquidation"}
    [] kind = "funding"     -> {"funding_anomaly"}

(* Engine.Evaluate: which alerts an event of a kind can raise, in order.   *)
(* Thresholds, overrides and the trade window decide which of them;        *)
(* switched-off rules raise nothing.                                       *)
Evaluations(e) ==
  CASE KindOf[e] = "agg_trade"   -> {<<>>, <<"large_trade">>, <<"large_trade_window">>,
                                     <<"large_trade", "large_trade_window">>}
    [] KindOf[e] = "liquidation" -> {<<>>, <<"liquidation">>}
    [] KindOf[e] = "funding"     -> {<<>>, <<"funding_anomaly">>}

ASSUME DomainAssumption ==
  /\ Workers # {}
  /\ IsFiniteSet(Workers)
  /\ KindOf \in [Events -> Kinds]
  /\ SymbolOf \in [Events -> Symbols]
  /\ Raises \in [Events -> SUBSET Seq(AlertTypes)]
  /\ \A e \in Events : Raises[e] \subseteq Evaluations(e)
  /\ RuleType \in [Rules -> AlertTypes]
  /\ RuleSymbol \in [Rules -> Symbols]
  /\ Owner \in [Rules -> Users]
  /\ System \notin Rules
  /\ None \notin Events

(* A profile: account status, is a chat bound, delivery switch, the events *)
(* that fall into the user's quiet hours, and the digest switch.           *)
ASSUME ProfileAssumption ==
  \A p \in Profiles :
    /\ p.active \in BOOLEAN
    /\ p.bound \in BOOLEAN
    /\ p.delivery \in BOOLEAN
    /\ p.digest \in BOOLEAN
    /\ p.quiet \subseteq Events

ASSUME NumberAssumption ==
  /\ Channels \in Nat
  /\ MaxScan \in Nat \ {0}
  /\ DedupeTTL \in Nat \ {0}
  /\ RateTTL \in Nat \ {0}
  /\ MaxTime \in Nat

ASSUME AttemptsAssumption == Attempts \in [0..Channels -> Nat \ {0}]

(* An alert is fixed by its event, its type and the rule that raised it.   *)
Alert ==
  {a \in [event : Events, type : AlertTypes, by : Rules \cup {System}] :
     /\ a.type \in TypesOf(KindOf[a.event])
     /\ a.by \in Rules => /\ a.type = RuleType[a.by]
                          /\ SymbolOf[a.event] = RuleSymbol[a.by]}

(* Alert.TriggerKey: exchange, symbol and type, for a user alert extended  *)
(* with its user and rule; the market type is not part of it.              *)
Trigger(a) == [symbol |-> SymbolOf[a.event], type |-> a.type, by |-> a.by]

(* Window crossings of user rules pass without the rate-limit key.         *)
Limited(a) == a.by = System \/ a.type # "large_trade_window"

Triggers == {Trigger(a) : a \in Alert}

(* A row of ListActiveUserRulesForEvent: the rule and a COPY of its owner. *)
Target == [rule : Rules, user : Profiles]

Statuses == {"sent", "failed", "disabled", "quiet_hours", "digested"}
UserChannel == 0        \* the channel number of the user Telegram sender

(* An alert and the channel it goes out on.                                *)
Message == Alert \X (0..Channels)

Labels == {"idle", "dedupe", "rate", "event", "alert", "send", "log",
           "list", "user", "uDedupe", "uRate", "uEvent", "uAlert", "uRoute", "uSend", "uLog"}

VARIABLES
  now,        \* the clock Redis expires keys by
  users,      \* users[u]: current row of table users
  dedupe,     \* dedupe[a]: expiry of key dedupe:*:{TriggerKey}:{EventID}
  rate,       \* rate[t]: expiry of key rate_limit:*:{TriggerKey}
  events,     \* rows of market_events
  alerts,     \* rows of alerts
  logs,       \* rows of notification_logs
  pc,         \* pc[w]: the next call of handler w
  event,      \* event[w]: the event it handles
  pend,       \* pend[w]: types of the system alerts left, the current one first
  chan,       \* chan[w]: index of the system sender
  todo,       \* todo[w]: user rules of the event still to serve
  target,     \* target[w]: the user rule being served
  status,     \* status[w]: outcome to be logged
  attempt,    \* attempt[w]: the sender's loop counter
  result,     \* result[w]: what HandleEvent returned last
  owed,       \* owed[w]: history, log rows admitted alerts are still owed
  admits,     \* history: admissions of each alert
  last,       \* history: time of the last admission of each alert
  delivered,  \* history: messages of an alert that arrived over a channel
  confirmed   \* history: how many of them the sender knows of

redisVars == <<dedupe, rate>>
sqlVars == <<events, alerts, logs>>
gateVars == <<admits, last>>
localVars == <<event, pend, chan, todo, target, status, attempt>>
chatVars == <<delivered, confirmed>>
vars == <<now, users, redisVars, sqlVars, pc, localVars, result, owed,
          gateVars, chatVars>>

Init ==
  /\ now = 0
  /\ users \in [Users -> Profiles]
  /\ dedupe = [a \in Alert |-> 0]
  /\ rate = [t \in Triggers |-> 0]
  /\ events = {}
  /\ alerts = {}
  /\ logs = {}
  /\ pc = [w \in Workers |-> "idle"]
  /\ event = [w \in Workers |-> None]
  /\ pend = [w \in Workers |-> <<>>]
  /\ chan = [w \in Workers |-> 1]
  /\ todo = [w \in Workers |-> {}]
  /\ target = [w \in Workers |-> None]
  /\ status = [w \in Workers |-> "sent"]
  /\ attempt = [w \in Workers |-> 1]
  /\ result = [w \in Workers |-> "none"]
  /\ owed = [w \in Workers |-> {}]
  /\ admits = [a \in Alert |-> 0]
  /\ last = [a \in Alert |-> 0]
  /\ delivered = [m \in Message |-> 0]
  /\ confirmed = [m \in Message |-> 0]
-----------------------------------------------------------------------------
(***************************************************************************)
(* Redis, SQL and history                                                  *)
(***************************************************************************)

Goto(w, label) == pc' = [pc EXCEPT ![w] = label]

(* Definitions named Faulty... are slips a change to the code could make;   *)
(* no specification uses them.  Each is substituted for the definition     *)
(* below it to confirm that a property notices.                            *)

(* The two lifetimes are mixed up; SET is used in place of SETNX.          *)
FaultyShortDedupe(a) == now >= dedupe[a] /\ dedupe' = [dedupe EXCEPT ![a] = now + RateTTL]
FaultySetRate(t) == rate' = [rate EXCEPT ![t] = now + RateTTL]

(* SETNX key ttl succeeds exactly when the key is absent or has expired.   *)
SetNXDedupe(a) == now >= dedupe[a] /\ dedupe' = [dedupe EXCEPT ![a] = now + DedupeTTL]
SetNXRate(t)   == now >= rate[t]   /\ rate' = [rate EXCEPT ![t] = now + RateTTL]

(* allowAlert / allowUserAlert return true; channels: the rows then due.   *)
Admit(w, a, channels) ==
  /\ admits' = [admits EXCEPT ![a] = @ + 1]
  /\ last' = [last EXCEPT ![a] = now]
  /\ owed' = [owed EXCEPT ![w] = @ \cup {<<a, c>> : c \in channels}]

(* A message of alert a to channel c arrives or not, and the sender learns  *)
(* that it did or not.                                                      *)
Post(a, c, arrives, known) ==
  /\ delivered' = IF arrives THEN [delivered EXCEPT ![<<a, c>>] = @ + 1] ELSE delivered
  /\ confirmed' = IF known THEN [confirmed EXCEPT ![<<a, c>>] = @ + 1] ELSE confirmed

(* The sender's call returns.                                              *)
SendReturns(w, outcome, label) ==
  /\ status' = [status EXCEPT ![w] = outcome]
  /\ attempt' = [attempt EXCEPT ![w] = 1]
  /\ Goto(w, label)

Retry(w) ==
  /\ attempt' = [attempt EXCEPT ![w] = @ + 1]
  /\ UNCHANGED <<status, pc>>

(* The loop goes on after a success; its counter starts over.              *)
FaultySendTo(w, a, c, label) ==
  \/ /\ Post(a, c, TRUE, TRUE)
     /\ IF attempt[w] < Attempts[c] THEN Retry(w) ELSE SendReturns(w, "sent", label)
  \/ /\ attempt[w] = Attempts[c]
     /\ Post(a, c, FALSE, FALSE)
     /\ SendReturns(w, "failed", label)
FaultyRetryForever(w, a, c, label) ==
  \/ /\ Post(a, c, TRUE, TRUE)
     /\ SendReturns(w, "sent", label)
  \/ /\ Post(a, c, FALSE, FALSE)
     /\ attempt' = [attempt EXCEPT ![w] = IF @ = Attempts[c] THEN 1 ELSE @ + 1]
     /\ UNCHANGED <<status, pc>>

(* One SendMessage of SendTo, or the single POST of a webhook.  An error   *)
(* does not tell whether the message arrived (a lost answer, a timeout); a *)
(* retryable one is followed by another attempt, unless the context ends.  *)
SendTo(w, a, c, label) ==
  \/ /\ Post(a, c, TRUE, TRUE)
     /\ SendReturns(w, "sent", label)
  \/ \E arrives \in BOOLEAN :
       /\ Post(a, c, arrives, FALSE)
       /\ \/ attempt[w] < Attempts[c] /\ Retry(w)
          \/ SendReturns(w, "failed", label)

(* The row claims success; rows are only written for deliveries.           *)
FaultyLogSent(w, a, channel) ==
  /\ logs' = logs \cup {[alert |-> a, channel |-> channel, status |-> "sent"]}
  /\ owed' = [owed EXCEPT ![w] = @ \ {<<a, channel>>}]
FaultyLogDelivered(w, a, channel) ==
  IF status[w] \in {"sent", "digested"}
    THEN /\ logs' = logs \cup {[alert |-> a, channel |-> channel, status |-> status[w]]}
         /\ owed' = [owed EXCEPT ![w] = @ \ {<<a, channel>>}]
    ELSE UNCHANGED <<logs, owed>>

(* INSERT INTO notification_logs                                           *)
InsertLog(w, a, channel) ==
  /\ logs' = logs \cup {[alert |-> a, channel |-> channel, status |-> status[w]]}
  /\ owed' = [owed EXCEPT ![w] = @ \ {<<a, channel>>}]

(* HandleEvent returns res; its local variables are gone.                  *)
Return(w, res) ==
  /\ Goto(w, "idle")
  /\ result' = [result EXCEPT ![w] = res]
  /\ event' = [event EXCEPT ![w] = None]
  /\ pend' = [pend EXCEPT ![w] = <<>>]
  /\ chan' = [chan EXCEPT ![w] = 1]
  /\ todo' = [todo EXCEPT ![w] = {}]
  /\ target' = [target EXCEPT ![w] = None]
  /\ status' = [status EXCEPT ![w] = "sent"]
  /\ attempt' = [attempt EXCEPT ![w] = 1]

-----------------------------------------------------------------------------
(***************************************************************************)
(* System alerts                                                           *)
(***************************************************************************)

SystemAlert(w) == [event |-> event[w], type |-> Head(pend[w]), by |-> System]

(* A call of HandleEvent: evaluate, and enter the loop over the alerts.    *)
Accept(w, e) ==
  /\ pc[w] = "idle"
  /\ \E types \in Raises[e] :
       /\ pend' = [pend EXCEPT ![w] = types]
       /\ Goto(w, IF types = <<>> THEN "list" ELSE "dedupe")
  /\ event' = [event EXCEPT ![w] = e]
  /\ result' = [result EXCEPT ![w] = "none"]
  /\ owed' = [owed EXCEPT ![w] = {}]
  /\ UNCHANGED <<now, users, redisVars, sqlVars, chan, todo, target, status, attempt,
                 gateVars, chatVars>>

(* The loop goes on with the next alert, or to the user rules.             *)
NextSystemAlert(w) ==
  /\ pend' = [pend EXCEPT ![w] = Tail(@)]
  /\ Goto(w, IF Len(pend[w]) = 1 THEN "list" ELSE "dedupe")

(* allowAlert, first SETNX.                                                *)
SystemDedupe(w) ==
  /\ pc[w] = "dedupe"
  /\ \/ /\ SetNXDedupe(SystemAlert(w))
        /\ Goto(w, "rate")
        /\ UNCHANGED pend
     \/ /\ now < dedupe[SystemAlert(w)]
        /\ NextSystemAlert(w)
        /\ UNCHANGED dedupe
  /\ UNCHANGED <<now, users, rate, sqlVars, event, chan, todo, target, status, attempt,
                 result, owed, gateVars, chatVars>>

(* allowAlert, second SETNX.                                               *)
SystemRateLimit(w) ==
  /\ pc[w] = "rate"
  /\ \/ /\ SetNXRate(Trigger(SystemAlert(w)))
        /\ Admit(w, SystemAlert(w), 1..Channels)
        /\ Goto(w, "event")
        /\ UNCHANGED pend
     \/ /\ now < rate[Trigger(SystemAlert(w))]
        /\ NextSystemAlert(w)
        /\ UNCHANGED <<rate, owed, gateVars>>
  /\ UNCHANGED <<now, users, dedupe, sqlVars, event, chan, todo, target, status, attempt,
                 result, chatVars>>

(* INSERT ... ON CONFLICT (event_id) DO NOTHING                            *)
SystemInsertEvent(w) ==
  /\ pc[w] = "event"
  /\ events' = events \cup {event[w]}
  /\ Goto(w, "alert")
  /\ UNCHANGED <<now, users, redisVars, alerts, logs, localVars, result, owed,
                 gateVars, chatVars>>

(* INSERT ... ON CONFLICT (id) DO NOTHING, then the loop over the senders. *)
SystemInsertAlert(w) ==
  /\ pc[w] = "alert"
  /\ alerts' = alerts \cup {SystemAlert(w)}
  /\ IF Channels = 0
       THEN NextSystemAlert(w) /\ UNCHANGED chan
       ELSE /\ Goto(w, "send")
            /\ chan' = [chan EXCEPT ![w] = 1]
            /\ UNCHANGED pend
  /\ UNCHANGED <<now, users, redisVars, events, logs, event, todo, target, status, attempt,
                 result, owed, gateVars, chatVars>>

(* sender.Send: an error is only remembered for the log row.               *)
SystemSend(w) ==
  /\ pc[w] = "send"
  /\ SendTo(w, SystemAlert(w), chan[w], "log")
  /\ UNCHANGED <<now, users, redisVars, sqlVars, event, pend, chan, todo, target,
                 result, owed, gateVars>>

SystemLog(w) ==
  /\ pc[w] = "log"
  /\ InsertLog(w, SystemAlert(w), chan[w])
  /\ status' = [status EXCEPT ![w] = "sent"]
  /\ IF chan[w] < Channels
       THEN /\ chan' = [chan EXCEPT ![w] = @ + 1]
            /\ Goto(w, "send")
            /\ UNCHANGED pend
       ELSE /\ chan' = [chan EXCEPT ![w] = 1]
            /\ NextSystemAlert(w)
  /\ UNCHANGED <<now, users, redisVars, events, alerts, event, todo, target,
                 attempt, result, gateVars, chatVars>>

-----------------------------------------------------------------------------
(***************************************************************************)
(* User alerts                                                             *)
(***************************************************************************)

UserAlert(w) == [event |-> event[w], type |-> RuleType[target[w].rule], by |-> target[w].rule]

(* WHERE clause of ListActiveUserRulesForEvent.                            *)
MatchingRules(e) ==
  {r \in Rules : /\ RuleSymbol[r] = SymbolOf[e]
                 /\ users[Owner[r]].active
                 /\ users[Owner[r]].bound}

(* The rows come ordered by updated_at, which any edit changes: which of   *)
(* too many rows are cut off, and the order of the rest, is left open.     *)
ListUserRules(w) ==
  /\ pc[w] = "list"
  /\ \E S \in SUBSET MatchingRules(event[w]) :
       /\ Cardinality(S) <= MaxScan
       /\ S = MatchingRules(event[w]) \/ Cardinality(S) = MaxScan
       /\ todo' = [todo EXCEPT ![w] = {[rule |-> r, user |-> users[Owner[r]]] : r \in S}]
  /\ Goto(w, "user")
  /\ UNCHANGED <<now, users, redisVars, sqlVars, event, pend, chan, target, status, attempt,
                 result, owed, gateVars, chatVars>>

(* evaluateUserRule: threshold and window decide whether a rule that fits  *)
(* the event kind fires.                                                   *)
EvaluateUserRule(w) ==
  /\ pc[w] = "user"
  /\ \E t \in todo[w] :
       /\ todo' = [todo EXCEPT ![w] = @ \ {t}]
       /\ \/ /\ t.user.active /\ t.user.bound
             /\ RuleType[t.rule] \in TypesOf(KindOf[event[w]])
             /\ target' = [target EXCEPT ![w] = t]
             /\ Goto(w, "uDedupe")
          \/ UNCHANGED <<target, pc>>
  /\ UNCHANGED <<now, users, redisVars, sqlVars, event, pend, chan, status, attempt,
                 result, owed, gateVars, chatVars>>

NextUserRule(w) ==
  /\ target' = [target EXCEPT ![w] = None]
  /\ Goto(w, "user")

(* allowUserAlert, first SETNX; a window crossing is admitted at once.     *)
UserDedupe(w) ==
  /\ pc[w] = "uDedupe"
  /\ \/ /\ SetNXDedupe(UserAlert(w))
        /\ IF Limited(UserAlert(w))
             THEN Goto(w, "uRate") /\ UNCHANGED <<owed, gateVars>>
             ELSE Goto(w, "uEvent") /\ Admit(w, UserAlert(w), {UserChannel})
        /\ UNCHANGED target
     \/ /\ now < dedupe[UserAlert(w)]
        /\ NextUserRule(w)
        /\ UNCHANGED <<dedupe, owed, gateVars>>
  /\ UNCHANGED <<now, users, rate, sqlVars, event, pend, chan, todo, status, attempt,
                 result, chatVars>>

(* allowUserAlert, second SETNX.                                           *)
UserRateLimit(w) ==
  /\ pc[w] = "uRate"
  /\ \/ /\ SetNXRate(Trigger(UserAlert(w)))
        /\ Admit(w, UserAlert(w), {UserChannel})
        /\ Goto(w, "uEvent")
        /\ UNCHANGED target
     \/ /\ now < rate[Trigger(UserAlert(w))]
        /\ NextUserRule(w)
        /\ UNCHANGED <<rate, owed, gateVars>>
  /\ UNCHANGED <<now, users, dedupe, sqlVars, event, pend, chan, todo, status, attempt,
                 result, chatVars>>

UserInsertEvent(w) ==
  /\ pc[w] = "uEvent"
  /\ events' = events \cup {event[w]}
  /\ Goto(w, "uAlert")
  /\ UNCHANGED <<now, users, redisVars, alerts, logs, localVars, result, owed,
                 gateVars, chatVars>>

UserInsertAlert(w) ==
  /\ pc[w] = "uAlert"
  /\ alerts' = alerts \cup {UserAlert(w)}
  /\ Goto(w, "uRoute")
  /\ UNCHANGED <<now, users, redisVars, events, logs, localVars, result, owed,
                 gateVars, chatVars>>

(* The chain of conditions that picks the delivery, on the copied profile. *)
Route(user, e) ==
  IF ~user.delivery THEN "disabled"
  ELSE IF e \in user.quiet THEN "quiet_hours"
  ELSE IF user.digest THEN "digested"
  ELSE "sent"

(* Digest entries are queued by queueUserDigest (module DigestQueue).      *)
UserRoute(w) ==
  LET route == Route(target[w].user, event[w]) IN
  /\ pc[w] = "uRoute"
  /\ IF route = "sent"
       THEN Goto(w, "uSend") /\ UNCHANGED <<status, chatVars>>
       ELSE /\ Goto(w, "uLog")
            /\ status' = [status EXCEPT ![w] = route]
            /\ Post(UserAlert(w), UserChannel, route = "digested", route = "digested")
  /\ UNCHANGED <<now, users, redisVars, sqlVars, event, pend, chan, todo, target,
                 attempt, result, owed, gateVars>>

UserSend(w) ==
  /\ pc[w] = "uSend"
  /\ SendTo(w, UserAlert(w), UserChannel, "uLog")
  /\ UNCHANGED <<now, users, redisVars, sqlVars, event, pend, chan, todo, target,
                 result, owed, gateVars>>

(* After the log row a failed send ends HandleEvent with its error.        *)
UserLog(w) ==
  /\ pc[w] = "uLog"
  /\ InsertLog(w, UserAlert(w), UserChannel)
  /\ IF status[w] = "failed"
       THEN Return(w, "sendErr")
       ELSE /\ NextUserRule(w)
            /\ status' = [status EXCEPT ![w] = "sent"]
            /\ UNCHANGED <<event, pend, chan, todo, attempt, result>>
  /\ UNCHANGED <<now, users, redisVars, events, alerts, gateVars, chatVars>>

Finish(w) ==
  /\ pc[w] = "user"
  /\ todo[w] = {}
  /\ Return(w, "ok")
  /\ UNCHANGED <<now, users, redisVars, sqlVars, owed, gateVars, chatVars>>

-----------------------------------------------------------------------------
(***************************************************************************)
(* Errors and the environment                                              *)
(***************************************************************************)

(* A Redis or SQL call returns an error, before or after it took effect:   *)
(* HandleEvent returns it.  A crash is the same for every handler.         *)
Abort(w) ==
  /\ pc[w] # "idle"
  /\ Return(w, "error")
  /\ owed' = [owed EXCEPT ![w] = {}]
  /\ UNCHANGED <<now, users, redisVars, sqlVars, gateVars, chatVars>>

(* The user API or the Telegram poller changes a row of table users.       *)
ChangeProfile(u) ==
  /\ \E p \in Profiles : users' = [users EXCEPT ![u] = p]
  /\ UNCHANGED <<now, redisVars, sqlVars, pc, localVars, result, owed, gateVars, chatVars>>

Tick ==
  /\ now < MaxTime
  /\ now' = now + 1
  /\ UNCHANGED <<users, redisVars, sqlVars, pc, localVars, result, owed, gateVars, chatVars>>

Step(w) ==
  \/ SystemDedupe(w) \/ SystemRateLimit(w) \/ SystemInsertEvent(w)
  \/ SystemInsertAlert(w) \/ SystemSend(w) \/ SystemLog(w)
  \/ ListUserRules(w) \/ EvaluateUserRule(w)
  \/ UserDedupe(w) \/ UserRateLimit(w) \/ UserInsertEvent(w)
  \/ UserInsertAlert(w) \/ UserRoute(w) \/ UserSend(w) \/ UserLog(w) \/ Finish(w)

Next ==
  \/ \E w \in Workers : Step(w) \/ Abort(w) \/ \E e \in Events : Accept(w, e)
  \/ \E u \in Users : ChangeProfile(u)
  \/ Tick

Spec == Init /\ [][Next]_vars

(* A running goroutine is scheduled until its call returns.                *)
FairSpec == Spec /\ \A w \in Workers : WF_vars(Step(w))

-----------------------------------------------------------------------------
(***************************************************************************)
(* Properties                                                              *)
(***************************************************************************)

(* Type correctness: the stores, the handlers, and the history.            *)
StoreTypes ==
  /\ now \in Nat
  /\ users \in [Users -> Profiles]
  /\ dedupe \in [Alert -> Nat]
  /\ rate \in [Triggers -> Nat]
  /\ events \in SUBSET Events
  /\ alerts \in SUBSET Alert
  /\ logs \in SUBSET [alert : Alert, channel : 0..Channels, status : Statuses]

HandlerTypes ==
  /\ pc \in [Workers -> Labels]
  /\ event \in [Workers -> Events \cup {None}]
  /\ pend \in [Workers -> Seq(AlertTypes)]
  /\ chan \in [Workers -> Nat]
  /\ todo \in [Workers -> SUBSET Target]
  /\ target \in [Workers -> Target \cup {None}]
  /\ status \in [Workers -> Statuses]
  /\ attempt \in [Workers -> Nat \ {0}]
  /\ result \in [Workers -> {"none", "ok", "error", "sendErr"}]

HistoryTypes ==
  /\ owed \in [Workers -> SUBSET (Alert \X (0..Channels))]
  /\ admits \in [Alert -> Nat]
  /\ last \in [Alert -> Nat]
  /\ delivered \in [Message -> Nat]
  /\ confirmed \in [Message -> Nat]

TypeOK == StoreTypes /\ HandlerTypes /\ HistoryTypes

(* Rows are written in an order that keeps the audit trail closed under    *)
(* every interleaving, error and crash: a log row has its alert, an alert  *)
(* has its market event, no message arrives for an alert that is not       *)
(* stored, and a row that claims success names a channel that confirmed    *)
(* the alert (HandleEvent, handleUserRules: insert event, insert alert,    *)
(* send, insert log).  A "failed" row claims nothing: its message may have *)
(* arrived.                                                                *)
AuditTrail ==
  /\ \A l \in logs : l.alert \in alerts
  /\ \A a \in alerts : a.event \in events
  /\ \A m \in Message : delivered[m] > 0 => m[1] \in alerts
  /\ \A l \in logs : l.status \in {"sent", "digested"} => confirmed[<<l.alert, l.channel>>] > 0

(* When HandleEvent returns without an error, every alert it admitted has  *)
(* one log row per channel: nothing is dropped by a `continue`, a failing  *)
(* sender or a shared loop variable.                                       *)
SettledWhenOk ==
  \A w \in Workers : pc[w] = "idle" /\ result[w] \in {"ok", "sendErr"} => owed[w] = {}

(* However many handlers serve the same event and wherever they stop, an   *)
(* admission yields at most one message per channel that the sender has    *)
(* seen accepted: no handler sends what another has sent, and the retry    *)
(* loop stops at the first success (SendTo).  Attempts that fail without   *)
(* telling whether the message arrived can repeat it in the chat; the loop *)
(* bounds how often.                                                       *)
NoExtraDelivery ==
  \A a \in Alert, c \in 0..Channels :
    /\ confirmed[<<a, c>>] <= admits[a]
    /\ delivered[<<a, c>>] <= admits[a] * Attempts[c]

Gate == INSTANCE AlertGate

(* The two Redis keys, claimed in two separate commands by handlers that   *)
(* run concurrently and may stop in between, implement the gate: admitted  *)
(* alerts of one trigger key are RateTTL apart, crossings of a user window *)
(* rule are not repeated within DedupeTTL, and one alert is admitted at    *)
(* most once per DedupeTTL (allowAlert, allowUserAlert).                   *)
GateSpec == Gate!Spec

(* HandleEvent always returns: no handler is stuck in its loops, the       *)
(* sender's retries included.                                              *)
HandlerReturns == \A w \in Workers : pc[w] # "idle" ~> pc[w] = "idle"

(***************************************************************************)
(* The inductive invariant behind AuditTrail, SettledWhenOk,               *)
(* NoExtraDelivery and GateSpec.                                           *)
(***************************************************************************)
SystemLabels == {"dedupe", "rate", "event", "alert", "send", "log"}
UserLabels == {"uDedupe", "uRate", "uEvent", "uAlert", "uRoute", "uSend", "uLog"}

(* The local variables of a running handler denote an alert of its event.  *)
Local(w) ==
  /\ pc[w] = "idle" => todo[w] = {}
  /\ pc[w] # "idle" => /\ event[w] \in Events
                       /\ pend[w] \in Seq(TypesOf(KindOf[event[w]]))
                       /\ \A t \in todo[w] : RuleSymbol[t.rule] = SymbolOf[event[w]]
  /\ pc[w] \in SystemLabels => pend[w] # <<>>
  /\ pc[w] \in {"send", "log"} => chan[w] \in 1..Channels
  /\ pc[w] = "send" => attempt[w] <= Attempts[chan[w]]
  /\ pc[w] = "uSend" => attempt[w] <= Attempts[UserChannel]
  /\ pc[w] \notin {"send", "uSend"} => attempt[w] = 1
  /\ pc[w] \in UserLabels =>
       /\ target[w] \in Target
       /\ RuleSymbol[target[w].rule] = SymbolOf[event[w]]
       /\ RuleType[target[w].rule] \in TypesOf(KindOf[event[w]])
  /\ pc[w] = "uRate" => RuleType[target[w].rule] # "large_trade_window"

(* What a handler has already stored at each point of its way.             *)
Stored(w) ==
  /\ pc[w] \in {"alert", "send", "log", "uAlert", "uRoute", "uSend", "uLog"} => event[w] \in events
  /\ pc[w] \in {"send", "log"} => SystemAlert(w) \in alerts
  /\ pc[w] = "log" /\ status[w] \in {"sent", "digested"} =>
       confirmed[<<SystemAlert(w), chan[w]>>] > 0
  /\ pc[w] \in {"uRoute", "uSend", "uLog"} => UserAlert(w) \in alerts
  /\ pc[w] = "uLog" /\ status[w] \in {"sent", "digested"} =>
       confirmed[<<UserAlert(w), UserChannel>>] > 0

(* The log rows still owed belong to the current alert and later channels. *)
Owed(w) ==
  /\ pc[w] \in {"idle", "dedupe", "rate", "list", "user", "uDedupe", "uRate"} => owed[w] = {}
  /\ pc[w] \in {"event", "alert"} => owed[w] \subseteq {SystemAlert(w)} \X (1..Channels)
  /\ pc[w] \in {"send", "log"} => owed[w] \subseteq {SystemAlert(w)} \X (chan[w]..Channels)
  /\ pc[w] \in {"uEvent", "uAlert", "uRoute", "uSend", "uLog"} =>
       owed[w] \subseteq {<<UserAlert(w), UserChannel>>}

LocalInv == \A w \in Workers : Local(w)
StoredInv == \A w \in Workers : Stored(w)
OwedInv == \A w \in Workers : Owed(w)

(* Handlers that hold a deduplication claim for a but no admission yet.    *)
Between(a) ==
  {w \in Workers : \/ pc[w] = "rate" /\ SystemAlert(w) = a
                   \/ pc[w] = "uRate" /\ UserAlert(w) = a}

(* The keys outlive the admissions they stand for, and every admission and *)
(* every pending claim of an alert has consumed a DedupeTTL of its own.    *)
Keys(a) ==
  /\ admits[a] > 0 => last[a] <= now
  /\ Limited(a) /\ admits[a] > 0 => last[a] + RateTTL <= rate[Trigger(a)]
  /\ ~Limited(a) /\ admits[a] > 0 => last[a] + DedupeTTL <= dedupe[a]
  /\ dedupe[a] <= now + DedupeTTL
  /\ (admits[a] + Cardinality(Between(a))) * DedupeTTL <= dedupe[a]

KeysInv == \A a \in Alert : Keys(a)

(* The handlers that will still try to send a on channel c, and the        *)
(* attempts each of them has left.                                         *)
Ahead(a, c) ==
  {w \in Workers :
     \/ /\ \/ pc[w] \in {"event", "alert"} /\ c > 0
           \/ pc[w] = "send" /\ c >= chan[w]
           \/ pc[w] = "log" /\ c > chan[w]
        /\ SystemAlert(w) = a
     \/ /\ pc[w] \in {"uEvent", "uAlert", "uRoute", "uSend"}
        /\ c = UserChannel
        /\ UserAlert(w) = a}

Tries(w, c) ==
  IF pc[w] = "uSend" \/ (pc[w] = "send" /\ c = chan[w])
    THEN attempt[w]..Attempts[c]
    ELSE 1..Attempts[c]

Credits(a, c) ==
  {p \in Workers \X (1..Attempts[c]) : p[1] \in Ahead(a, c) /\ p[2] \in Tries(p[1], c)}

(* Every acknowledged message and every handler still ahead of its send is *)
(* paid for by an admission, and every attempt made or left by Attempts[c] *)
(* times as many.                                                          *)
Paid(a, c) ==
  /\ confirmed[<<a, c>>] + Cardinality(Ahead(a, c)) <= admits[a]
  /\ delivered[<<a, c>>] + Cardinality(Credits(a, c)) <= admits[a] * Attempts[c]
PaidInv == \A a \in Alert, c \in 0..Channels : Paid(a, c)

IInv == TypeOK /\ LocalInv /\ AuditTrail /\ StoredInv /\ OwedInv /\ KeysInv /\ PaidInv

(* docs/superpowers/plans/[9]2026-07-01-user-telegram-fanout.md:20 says    *)
(* that bound users receive the alerts of their own matched rules.  So a   *)
(* failed send to one user must not end the handling of the rules of the   *)
(* others (handleUserRules).                                               *)
FailureIsolated ==
  [][\A w \in Workers :
       result'[w] = "sendErr" /\ result[w] # "sendErr" => todo[w] = {}]_vars
=============================================================================
