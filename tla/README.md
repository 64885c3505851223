# crypto-watchtower: TLA+ models, model checking and proofs

crypto-watchtower is a Go service that listens to the market data streams of
Binance and OKX, evaluates alert rules on every trade, liquidation and funding
rate, stores the alerts it raises and sends them to Telegram and webhooks. This
directory holds TLA+ specifications of its concurrent parts, TLC
configurations that check them on small instances, and TLAPS proofs for
instances of any size. Paths in this file are relative to the repository (`src/`
in `PROJECT.json`); "engine.go" is `internal/rule/engine.go`.

* `PROJECT.json`: components, runs, the map from each definition to the
  lines it models, one mutant per checked property, hazards, findings, theorems.
* `X.tla`: a component. `MCX.tla`: its small instances. `X_proofs.tla`: proofs.
* Run a check with `tlc -workers 2 -config <cfg> <MC module>.tla`, a proof with
  `tlapm <module>_proofs.tla`.

## 1. The system

One process (`cmd/server/main.go`) wires everything under one root context that
SIGINT or SIGTERM cancels:

```
 Binance spot/futures WS --+
 OKX WS -------------------+--> eventbus.Bus --> one goroutine --> Pipeline.HandleEvent
 funding job (REST) -------+      (256 slots)                       |  Engine.Evaluate (system rules)
                                                                    |  user rules and their windows
 POST /admin/replay-event -- further concurrent HandleEvent calls --+  Redis keys, SQL rows, senders
                                                                    |  digest lists (Redis)
 POST /rules --> RuntimeRuleService --> alert_rules + Engine        v
 UserDigestJob (every minute) --------------------------------> digest messages
 UserService / AuthService / Telegram poller --> users, alert_rules, bindings, sessions
 SummaryJob --> market summaries
```

Three facts shape the models. HandleEvent is **not** only called by the single
event-bus goroutine: every replay request is a further caller, with a request
context that can be cancelled at any call. Redis is used **one command at a
time**; the only script is the one of the user windows. And there is **no
transaction** around the statements of one alert.

### Inventory

| component | state | operations | interacts with | hard behaviour | what makes it correct |
|---|---|---|---|---|---|
| alert pipeline (`Pipeline`) | Redis keys `dedupe:*`, `rate_limit:*`; tables `market_events`, `alerts`, `notification_logs` | `HandleEvent`, `handleUserRules` | engine, windows, digests, senders, user rows | concurrent handlers; an error or a stop between any two calls; stale copies of user rows | admitted alerts obey the gate; the audit trail stays closed; messages are bounded by admissions and attempts; every call returns |
| event bus | list of channels, their buffers | `Publish`, `Subscribe` and its goroutine, the range loop | collectors, funding job, pipeline | full buffers; send without lock on a channel being closed | per-subscriber streams; backpressure instead of loss; loss and panic confined to shutdown |
| user digests | Redis list per user, index set, TTL | `queueRedisUserDigest`, `pruneRedisUserDigest`, `flushRedisUserDigests` | pipeline, `UserDigestJob` | seven commands against three, any of them failing; late events | an alert has one fate; nothing follows an acknowledged digest; lists are indexed and bounded; due digests are sent |
| rule engine | overrides, trade windows | `Evaluate`, `ApplyRule`, `LoadRules` | pipeline, rule service | threshold read under one lock, used under another | alerts go by the acknowledged rule; windows are exact |
| runtime rule service | table `alert_rules` (system rows) | `Load`, `UpsertSystemRule` | engine, API | table, then engine, without a common lock; crash between | table and engine agree with what was acknowledged |
| user windows | Redis sorted set with a lifetime, or a list in memory | `updateRedisUserWindow`, `updateMemoryUserWindow` | pipeline | expiry against late events; replays; edits of the rule | expiry costs a trade only if earliness, lateness and a longer window exceed 60 s; rises are noticed |
| collectors | connection, backoff, status | `Start`, `runConnection`, `keepAlive`, `Status` | bus, health endpoint | deadline, ping, close and blocked publish race | reconnects for ever, spaced; silent peers are noticed; true status; clean end |
| accounts (`auth.Service`) | `users`, `user_sessions`, `password_reset_tokens` | register, login, logout, `CurrentUser`, reset request and confirmation, change of password | API, pipeline (through the user row) | find-then-write over two to five statements, concurrent requests, expiry, errors in between | what is over is refused; an account per email; resets per token bounded |
| notification preferences (`user.Service`, quiet hours) | columns of `users` | normalize, validate, update; `userQuietHoursActive` | API, pipeline | concurrent updates of one row; minutes past midnight | the pipeline reads what the API accepted |
| user rules API, operator's rules API | `alert_rules` (user rows) | `CanCreateRule`, `UpsertUserRule` | pipeline | quota counted, then inserted; a second writer that does not count | plan limits of what the customer makes, up to what is served at once |
| Telegram binding and poller | codes, chat of a user, update offset | `PollOnce`, `handleMessage`, bind, unbind | users, pipeline | offset moved before handling, kept in memory; find, bind and mark are three statements | no update is lost or repeated; a token binds once; a chat belongs to who presented a token |
| senders | none | `SendTo` with retries | pipeline, digests | an error does not tell whether the message arrived; retries | bounded attempts; none after a success |
| market summary, funding job | last summaries | tickers around one run | senders, bus | run longer than its tick | one summary per period |
| migrations | table `schema_migrations` | `Run` at start | database | crash between statement and mark | each applied once |
| configuration, normalizers, HTTP rendering, list queries | none that later steps read | parsing, formatting | - | - | data conversion |

The list of hazards, each at its line, is in `PROJECT.json`.

## 2. Plan

Order: what stands between a market event and a message first.

1. `AlertGate`, `AlertPipeline`, 2. `EventStream`, `EventBus`, 3. `DigestQueue`,
4. `TradeWindow`, `RuleEngine`, 5. `UserWindow`, 6. `Collector`, 7. `Binding`,
8. `Accounts` with the quiet hours are written and proved about: every safety
property a passing run checks is a theorem.

What would come next: the in-memory digest variant (used by tests only) and
`DigestQueue` as two implementations of one digest specification.

Abstract specifications: `AlertGate` (implemented by `AlertPipeline`) and
`EventStream` (implemented by `EventBus`); both refinements are checked and
proved.

## 3. The modules

Modules are coupled through what one assumes of the other and the other
shows: `EventBus` assumes that HandleEvent returns (`HandlerReturns` of
`AlertPipeline`), `Collector` assumes that Publish returns while its consumer
runs (`PublishReturns` of `EventBus`), `AlertPipeline` leaves open which rules
fire (`RuleEngine`, `UserWindow` decide) and what becomes of a digest entry
(`DigestQueue`). `RuleEngine` and `UserWindow` share `TradeWindow`. The account
rows that `Binding` and `Accounts` change are the profiles `AlertPipeline` changes
with `ChangeProfile`; what `Accounts` shows of stored preferences (`QuietAsAsked`)
is why `AlertPipeline` may leave the minutes out.

### AlertPipeline, AlertGate

`pc[w]` is the next call of handler `w`; one action per Redis, SQL or sender call
of `HandleEvent` (engine.go:265-308) and `handleUserRules` (engine.go:310-396).
`dedupe` and `rate` hold expiry times; SETNX succeeds when the key is absent or
expired, and sets it. `pend` is the rest of the alerts of the event, `todo` the
rest of the user rules, each a *copy* of rule and owner as
`ListActiveUserRulesForEvent` returns them, so `ChangeProfile` (settings changed by
the API or the poller) makes them stale. `Abort` is the error return of any
call: with the effect of the call when the error came after it (the action and
then `Abort`), without it otherwise. A crash is the same for every handler.

A send is one action per attempt (`SendTo`: telegram.go:46-79). An attempt succeeds, or
fails, and a failure does not tell whether the message arrived: a timeout or a
lost answer is an error for the code (telegram_bot.go:283-313). `delivered` counts
the messages that arrived, `confirmed` those whose attempt returned without an
error; the difference is what the user saw and the sender does not know of. After a failure
the loop goes on, up to `Attempts[c]` for channel `c` (`AttemptsAssumption`: at least one;
3 by default for Telegram, 1 for a webhook), or returns: an error that is not retryable
(telegram_bot.go:352-358), or the context that ends while it waits. So a row "failed" may
belong to a message that arrived, and one admission can reach a chat several times.
A digest entry counts as one message, confirmed when it is queued.

Left open: which alerts the system rules raise (`Raises`), whether a user rule
is satisfied, and the order of user rules.

`AlertGate` says when an alert may be admitted: admitted alerts of one trigger key
`RateTTL` apart, window crossings not within `DedupeTTL`, at most one admission of
an alert per `DedupeTTL`. It knows no handlers and no Redis. `GateSpec` is the
refinement; the mapping is by name (`now`, `admits`, `last`).

### EventBus, EventStream

`Copy` takes the list of channels under the read lock, `Send` the select per channel,
`Panic` a send on a closed channel, `GiveUp` the cancelled context.
`Unsubscribe` is Subscribe's goroutine: it removes and closes under the lock.
`Receive` and `EndRange` are the range loop of `cmd/server`. `Exit` is the return of main:
after the cancellation it waits for the HTTP server and for nobody else
(main.go:210-217), so it can come at any time, with events still in the channels; then,
as after a panic, nothing runs any more (`Running`). `EventStream` is the
stream each subscriber is promised.

### DigestQueue

One action per Redis command: `Queue` (RPUSH), `Trim`, `ReadBack`, `Delete`,
`WriteBack`, `SetTTL`, `Register` of a handler; `StartFlush` (SMEMBERS),
`ReadDigest`, `SendDigest`, `DeleteDigest`, `Unregister` of the job. `QueueError` and
`FlushError` end a call at any command. `SendDigest` is a send that is acknowledged in
the end, `SendFails` one that is not; either may have put up to `Attempts` messages into the
chat that the job knows nothing of (`unseen`, beside `acked`), and a digest that
failed stays in its list and is sent again at the next tick. `disturbed` marks users whose list two
actors used at once, or one left half done; the safety properties speak of the
others, because the code promises nothing for these (section 6).

### RuleEngine, TradeWindow

`Post`, `Update`, `Insert`, `Apply` are the steps of one POST /rules; `WriteFails` is
an error, with or without the statement's effect; `Crash` and `Load` a restart.
`Evaluate`, `EvaluateSingle`, `ReadThreshold`, `UpdateWindow` are the steps of
`Engine.Evaluate` between locks. `promised` records what the API acknowledged;
`Acknowledged(t)` holds while no request for `t` is under way. `TradeWindow` has
the arithmetic both kinds of windows share.

### UserWindow

`Script` is the Lua script (atomic in Redis), `Remember` the variant in memory, fed
with the same trades. `Tick` lets the key expire. A trade has any event time of
`Times` whatever the clock shows: replay-event takes the `event_time` it is given
(router.go:193-220), and backpressure or the retries of a send can delay a trade
of the bus by more than the 60 seconds the script adds to the lifetime (`Slack`). An id
may come again, with the same notional, so as the same member with a new score, or
with another one. `came` (when an item entered the list) and `used` (the length
of the window at the last update) are history for `ExpiryCosts`.

### Collector

Start and runConnection of both WebSocket collectors; where OKX differs
(subscription, batches, deadline renewed by any message) the variable `exchange`
decides. Beside the loop: `Ping` and `EndHeartbeat` (keepAlive), `Watch` (the
goroutine that closes the connection when the context is done), the exchange
(`PeerSends`, `PeerCuts`) and `Cancel`. Timers count down in `Tick`; local steps
take no time, so `Tick` needs the loop to be waiting (`Blocking`). A message is
one of five kinds, by what the loop does with it (`Frames`).

### Binding

Telegram's queue (`message`, `confirmed`), the poller (`offset`, `next`, `last`,
`pc`) and the rows it writes (`token`, `chat`, `saved`). `Poll` is getUpdates: what
lies before the offset is dropped by Telegram, the batch is the beginning of the
rest. `Take` moves the offset and looks at the command; `FindActiveByHash`,
`BindTelegramChat`, `MarkUsed`, `UpsertTelegramChat` and `SendMessage` are the calls
of `handleMessage`; `Fail` is the error of any of them, `Crash` a restart. The
unique index on chats (001_init.sql:11) is `Free`: a bind it forbids can only
fail. `CreateBindingToken` and `UnbindTelegramChat` are requests of the dashboard.
A message is a token after /start, /start alone, another command, or none.
`cuts` counts the runs that ended between binding and marking.

### Accounts

Every request is a goroutine `r`, `pc[r]` its next SQL statement, `req[r]` its input
and what it has read so far. `Arrive` takes one of `Calls` (one operator per
endpoint; a cookie or token is only sent once it exists). The statements of
`auth.Service`: `FindForRegister`, `CreateWithPassword`, `FindForLogin`, `CreateSession`,
`FindForReset`, `CreateToken`, `FindToken`, `MarkUsed`, `RevokeByHash`, `FindSession` and
`FindUser` (CurrentUser and requireDashboardUser, before every request with a
cookie), `CheckCurrent`. `Write` is the UPDATE of the column a request is about
(`Columns`), `Read` the refreshed profile or a list. `CountUserRules`, `UpdateRule`,
`InsertRule` are POST /user/rules. `Operate` is the operator's POST /api/v1/rules with a
`user_id`, which has no session and starts at `UpdateRule`, without the count. `Fail` ends a request at any statement: an error,
a closed connection, or a lost answer when it follows the statement's action. A
unique index is a guard: `CreateWithPassword` needs the email to be free, so a
second registration can only `Fail`. `Disable` is the operator's change of the status
in the database; no endpoint does it. Times of day are minutes; an empty field is
`Absent`, an unreadable one `Malformed`, a time zone a fixed offset.
History: `late` marks a request that was too late when it arrived; `resets` and
`cuts` count the passwords a token wrote and the requests that then ended, `shared` has the
tokens two confirmations held at once; `imposed` has the rules the operator inserted, `crowded`
the users two of whose posts were counted before either was done.

## 4. The runs

Every property has a mutant in `PROJECT.json`: a definition replaced by the body a
plausible slip would give it (`Faulty...` beside it), under which TLC finds
the property violated.

| run | instance | shows |
|---|---|---|
| `pipeline` | 2 handlers, 2 liquidations of one symbol, system rule without sender, one user rule, 2 attempts to the user, clock to 1, RateTTL 1, DedupeTTL 2 | `IInv` (the inductive invariant), `NoExtraDelivery`, `GateSpec` |
| `pipeline_routes` | 1 handler, 1 trade, up to 2 system alerts, 2 system senders, 1 user rule, 4 profiles changing, 2 attempts to the user, under fairness | `AuditTrail`, `SettledWhenOk`, `HandlerReturns` |
| `pipeline_isolation` | 2 users | violation: `FailureIsolated` |
| `bus` | 2 publishers of 2 events, 2 subscribers, buffer of 1, under fairness | `NoGap`, `CrashOnlyAtShutdown`, `StreamSpec`, `PublishReturns`, `EventsReceived` |
| `digest` | 2 handlers, job, 2 alerts, late alerts, 2 attempts, cap of 1 item, clock to 2, under fairness | `TypeOK`, `OneFate`, `NotOrphaned`, `ListBounded`, `NothingAfterSuccess`, `DigestLeaves` |
| `digest_starved` | 1 handler, job, 2 users, one chat blocked, clock to 3 | violation: `DigestLeaves` |
| `engine` | 1 request at a time, 2 evaluations, 3 trades, 1 crash | `TypeOK`, `AckedInForce`, `EvaluatedByPromise`, `WindowIsTrailing`, `RisesNoticed` |
| `engine_diverges` | 2 concurrent requests | violation: `AckedInForce` |
| `window` | 1 window, 3 arrivals of 2 ids at any of 5 times, 2 lengths, 2 thresholds, slack 2, clock to 4 | `NeverMore`, `ExpiryCosts`, `RisesNoticed` |
| `collector` | both exchanges, backoff 1..3, timeout 3, ping 2, batches of 2, 2 frames in flight | `StatusTrue`, `SilenceEnds`, `DialsSpaced`, `ReaderNotStuck`, `Recovers`, `Stops` |
| `binding` | 2 accounts, 2 chats, 2 tokens of lifetime 1, 2 updates, clock to 1, 1 restart | `NothingSkipped`, `HandledOnce`, `TokenOnce`, `BoundByOwner`, `EveryUpdateSettled` |
| `accounts` | 2 requests at once, 3 in all, 2 users, emails, passwords, sessions and tokens, quota of 1 rule, 3 rules, lifetimes of 1, clock to 1 | `RefusedWhenLate`, `RulesBounded`, `ResetBounded`, `QuietAsAsked` |

Why these bounds are enough for the cases they are about:

* *Two actors suffice for each race*: the races are between one holder of a
  half-done operation and one other actor (claim / claim, push / flush, row / row,
  send / close). For every safety property it is proved that more actors change
  nothing (section 5); the bound matters for liveness only.
* *Clock*: `pipeline` lets the rate key expire under a pending claim; the longer
  histories are covered by the proof of `GateSpec`. `digest` reaches a due
  digest and keeps the clock below the lifetime of a key (`Grace` 3), so that
  leaving Redis means being sent; it has one interval, and the proofs have all. In `accounts` session and token expire while a
  request stands between two statements.
  `window` lets the key of a window of 1 second expire (1 + 2 < 4), and a trade of the
  first second be a slack late behind one of the last; that of 2 seconds expires at 4.
* *Limits*: a buffer of 1 and a cap of 1 are reached at once; two publishers on
  one slot block each other. Two alerts overflow the cap while the first of them
  may be under way to its chat. The backoff 1, 2, 3 (capped), 3 passes through its
  doubling and its cap; the timeout of 3 is longer than the ping interval
  and shorter than an outage. Two attempts are one retry: an
  ambiguous failure before it, and one at the end. Two updates make a batch with something behind the
  one that fails; two chats, or one token sent twice, make the conflicts. A quota
  of 1 is reached by the first rule and passed by two posts at once or by the operator; the third
  request of `accounts` is the one that comes too late. The preferences sent are
  the defaults, a whole day, hours of the day and a malformed body; the minutes
  asked are those around every boundary.
* *Symmetry* is declared only where actors or events are interchangeable
  (handlers; events of one kind and symbol; requests; evaluations; rules; ids), and in no
  run with a temporal property under fairness.
* `engine` keeps one market: windows of different markets share only the lock. It
  keeps the trade rules, one threshold each; liquidation and funding rules
  take the same path as `large_trade` (`EvaluateSingle`).

`CHECK_DEADLOCK FALSE` stands where the instance really stops: all events
published, all alerts queued, the clock at its bound.

### Fairness

* `AlertPipeline`: weak fairness of the steps of each running handler: a goroutine
  is scheduled, and each call it makes has a timeout or a context.
* `EventBus`: the goroutines of a publisher inside Publish and of the subscribers
  run; nobody is forced to publish. That the consumer keeps receiving is
  `HandlerReturns`. The cancellation may come at any time and main may return at
  any time after it: both properties end there (`EventsReceived` at the cancellation,
  `PublishReturns` at the exit), since nothing after it is guaranteed.
* `DigestQueue`: goroutines and ticker go on (weak); the commands of the job fail
  again and again but not for ever (strong, on reading, sending to a chat that is
  not blocked, and deleting). A blocked chat never succeeds.
* `Collector`: goroutines, timers and the bus go on (weak); a dial fails again
  and again but not for ever (strong). The exchange owes nothing: neither an
  answer to a ping nor a close.
* `Binding`: the poller's goroutine runs and its calls return (the client has a
  timeout), and Telegram answers some poll in the end: `Start` repeats it for ever.
  Users owe nothing; a call may always fail.

## 5. Proofs

All proofs are for every value of the constants under the named assumptions of the
modules, with sets of any size except where said.

**AlertPipeline_proofs** proves `TypeOK`, `AuditTrail`, `SettledWhenOk`,
`NoExtraDelivery` and `GateSpec`. None is inductive alone. `IInv` adds: what the local variables of a
running handler denote (`LocalInv`), what is stored at each point of its way
(`StoredInv`: an alert row is written only where the event row is, a log row only
where the alert row is), which log rows are still owed (`OwedInv`), `KeysInv` and `PaidInv`.
`KeysInv` is the heart: keys outlive the admissions they stand for, and
`(admits[a] + pending claims of a) * DedupeTTL <= dedupe[a] <= now + DedupeTTL`,
a budget that every successful SETNX pays into and every admission is paid from. It
is what makes two commands that are not atomic implement the atomic gate.
`PaidInv` is a second budget, in two currencies. An admission pays for one acknowledged
message per channel: what is confirmed together with the handlers still ahead of that
send (`Ahead`) never exceeds the admissions. And it pays for `Attempts[c]` attempts:
what arrived together with the attempts these handlers have left (`Credits`, pairs of
handler and attempt) never exceeds that many times the admissions. An attempt spends a
credit whether its message arrives or not; a success gives up the rest; only an
admission makes new ones. The sets of handlers are finite (`DomainAssumption`), for the
cardinality of claims and credits. `NoExtraDelivery` is the two budgets without what is ahead.

**DigestQueue_proofs** proves `TypeOK`, `OneFate`, `NothingAfterSuccess`, `NotOrphaned` and `ListBounded`,
for any number of handlers, users and alerts, any cap and all intervals up to the
1440 minutes `digestIntervalMin` allows. `OwnedInv` holds for all users: a list, the items a
handler keeps and the digest in the hands of the job hold alerts of one user
only. `CalmInv` is about a user nobody has disturbed: at most one actor is at work
on the list (`Alone`), and an alert is in exactly one place (`Fates`) where the place
that counts as the list moves with the actor: the items a handler has read stand
for it between its LRANGE and its RPUSH (`Handled`), and nothing does between the
send of a digest and its DEL (`Flushed`). A step that would break this puts the
user among the disturbed; the proof shows that no other step does. A digest whose send
failed keeps its place in the list, whatever arrived, so only an acknowledged one moves
its alerts on, and from there no send can have them in its batch (`NothingAfterSuccess`). The lemmas say
what pruning leaves of a list: some of its items, each once, in no greater number.

**RuleEngine_proofs** proves `AckedInForce` and `EvaluatedByPromise` under `OneWriter`
(requests do not overlap; without it `engine_diverges` refutes the first). The
invariant links table, engine and the request under way: while a request for `t`
is between its statement and `Apply`, the promise of `t` is suspended; a restart
loads what the table has, so it repairs an engine a failed request left behind.
It also proves, without that hypothesis, `TypeOK`, `WindowIsTrailing` and
`RisesNoticed`. The invariant is that there is an increasing enumeration of the
trades no later one cut off that yields the window (`Trailing`), and that the sum an
evaluation reported is the sum of the window it left (`Measured`): what the cutoff
of the next trade removes can only lower that sum, so a rise to the threshold
happens inside one evaluation, which raises the alert.

**UserWindow_proofs** proves `TypeOK`, `NeverMore`, `ExpiryCosts` and
`RisesNoticed`, with no assumption about event times. The invariant says that what the
key holds is in the list (`NeverMore`), that a key which was touched expires no earlier
than the length of the window at its last update plus the slack after the last arrival
(`Touched`, `Recent`), and that what the key holds is finite and sums to no
more than the last update computed (`Counted`; less after a replay, which that update
counted twice). `ExpiryCosts` then is arithmetic: for the key to be gone while the
window of the new trade reaches an older one, the three delays must exceed the slack. The lemmas show that the sum over the members of the sorted set
does not depend on their order, grows by at most the notional of a new member and
shrinks with its members.

**Collector_proofs** proves `TypeOK` (the backoff stays in its bounds), `StatusTrue`,
`DialsSpaced` and `SilenceEnds`. `SilenceEnds` needs: while no unread frame proves the
peer alive, `deadline + quiet >= ReadTimeout` (time can only be taken from one
as it is added to the other); a blocked Publish is excepted until it ends, since
the renewal after it restores the sum. `DialsSpaced` needs
`pause + sleep >= MinBackoff`.

**Binding_proofs** proves every invariant of the run, `TypeOK` and `AnswersTrue`. The first two safety
properties need that what lies behind the offset is settled, but for the update
being handled (`Behind`), and that an update has been taken once for each restart
and once more only when the offset has passed it (`Counted`). `TokenOnce` needs
`binds <= cuts` for a token neither used nor about to be marked (`Spent`).
`AnswersTrue` needs what the poller knows of its token at each call (`Told`), which
no other actor can undo: tokens only grow older and used.

**EventBus_proofs** proves `TypeOK`, `CrashOnlyAtShutdown`, `NoGap` and `StreamSpec` for any
buffer. The invariant adds: what a channel buffers is the rest of its stream
after what was read (`Flow`), a publisher's events stand in a stream in order and
before the one it is about to send (`Ordered`), the list of channels and its
copies name each subscriber once (`Once`), and while the context is alive a
channel that was sent to stays on the list (`Listed`). The refinement maps streams by name; `Receive` is
`Consume` because of `Flow`, `Send` is `Stream` because of `Ordered`.

**Accounts_proofs** proves every property of the run, `TypeOK` and `OneAccount` (an
email belongs to one account). The invariant adds: what a request has in hand at
each statement (`Shape`), that what was acknowledged is in the tables (`Ended`), that
a late request stands before the statement that refuses it while the reason still
holds (`Refusable`), that stored preferences validate (`Stored`), and two budgets:
rules and posts under way (`Room`), and passwords written and confirmations under
way for one token (`Resetting`). Each budget holds with a slack of one request, or of all requests once two of them
held the same token (`shared`) or were counted together (`crowded`); while no two did,
at most one request is past the check, and the tables it leaves pay for the next. The rules of
the operator are outside the budget (`imposed`) and make the count only stricter. `QuietAsAsked` is then arithmetic modulo a day, for
every start, end and offset.

**Loops.** What a loop computes (`Total`, `KeptBySystem`, `Pruned`, the fold `Sum`) is a recursive
function over the elements it has passed, and is proved by induction on their
number. The induction theorems of the library take the induction hypothesis as an
operator, which the provers cannot instantiate; `AllNat` states induction for a set of
numbers instead and follows from the well-foundedness of `<` (`WFMin`). A lemma per
loop (`LoopExists`, `TotalLoop`, `KeptLoop`, `SumTotals`) shows that the recursion has a
solution; everything else cites the lemma and not the definition.

**Only model-checked**: liveness (`HandlerReturns`, `PublishReturns`,
`EventsReceived`, `DigestLeaves`, `ReaderNotStuck`, `Recovers`, `Stops`,
`EveryUpdateSettled`): the proof system reasons neither about fairness nor about
ENABLED.

## 6. What the checks found

Disagreements between the code and what the repository says of it, each shown by a
violation run:

* `pipeline_isolation`: a failed send to one user ends the loop over the rules of
  all other users of the event (engine.go:388-392).
* `digest_starved`: a failed digest ends the run of the job; one blocked chat can
  starve all others (engine.go:591-593).
* `engine_diverges`: two concurrent POST /rules for one rule can leave table and
  engine different until a restart (service.go:58-71).

Two more disagreements with docs/superpowers/plans/[8]2026-06-30-saas-auth-subscription.md
have no run of their own; the properties of `accounts` are as tight as the code allows, and
what they except is the disagreement:

* The plan limits are enforced on the dashboard's path only (line 24: "enforced in the
  backend"). The operator's POST /api/v1/rules with a `user_id` inserts rules of an account
  without a count (api/rules.go:204-207), one request after the other. With two posts of the customer at
  once the limit falls too; `RulesBounded` says by how much, and that nothing else passes it.
* A reset token is not one-time (line 20: "expiring one-time reset tokens"). Two
  confirmations that overlap both pass the lookup and both write a password; one whose mark
  fails has written it and leaves the token good (auth/service.go:302-312). One after
  the other and without an error the second is refused, as the SIT case 08-33 tests;
  `ResetBounded` says that nothing else repeats a token.

Behaviour that follows from the code and that the properties therefore do not
deny; a reader should know it:

* *Ambiguous sends.* A message whose answer is lost is sent again by the loop: an alert can
  reach a chat up to `RetryMaxAttempts` times, and the row then says "sent" once, or "failed" for
  a message that arrived. A digest whose send failed is sent again at every tick until one
  is acknowledged. A log row is never the number of messages.
* *Shutdown.* main returns without waiting for the consumer: what is in the bus (up to 256
  events) and the rest of the event being handled are lost. No document promises a drain.
* *Start.* Nothing orders the consumer's Subscribe before the first Publish of a collector;
  `NoGap` speaks of what follows the first event a subscriber heard of a publisher.
* *Late and early trades.* The lifetime of a window's key runs by the server's clock, its
  members by event times. A trade that came ahead of its time, followed by one that is late, or
  by an edit that lengthens the window, may find the key gone; `ExpiryCosts` says it takes
  more than 60 seconds in sum. A late trade alone needs to be more than 60 seconds late.

* *Pushes.* The rate-limit key spaces admissions. A send can be delayed behind SQL
  and retries, so two messages of one symbol and rule can be closer than 60 s.
* *Digests under races.* The job can read a list between RPUSH and LTRIM (one item
  more than the cap); an alert queued between its DEL and SREM is in a list that is
  not indexed until the next alert of that user; a stop between send and DEL sends
  the digest twice; a failed write-back loses the items. An alert the pruning window of another
  item drops counts as dropped, not as lost.
* *Digests and changes.* A digest goes to the chat stored with its first item,
  also after the user has bound another; the pruning window is that of
  the newest item, while the comment at engine.go:663 speaks of the oldest.
* *window_sec of system rules* is stored and listed, and not applied to the running
  engine (engine.go:1057-1060).
* *Replays and user windows.* The script sums before it adds, so an event handled
  again counts twice in the volume of that evaluation. An id that comes again with another
  notional is a second member.
* *Collectors.* One goroutine per connection waits for the end of the process, also
  after its connection is gone (binance_ws.go:121). The backoff never returns to
  its minimum after a good connection. An OKX error acknowledgement is only
  recorded. A message with one unknown instrument ends the OKX connection.
* *Binding.* A run that ends between binding the account and marking the token leaves
  the token good until it expires; the plan of this feature says "consumes the token
  once" (docs/superpowers/plans/[9]2026-07-01-user-telegram-fanout.md:16). A
  plain `/start` gives the chat a user row of its own (user_repo.go:23-32); a later
  `/start <token>` from that chat then meets the unique index, the update is dropped
  and the chat gets no answer, although README.md:368 promises the binding.
* *Quota.* Posts served at once all pass the count: a customer can exceed the plan
  by the number of requests in flight less one, beside what the operator inserts. A user at the limit of rules cannot
  edit a rule that exists: `CanCreateRule` (user/service.go:272-288) is asked before
  `UpsertUserRule` (api/user.go:379-388). A VIP may have 200 rules and is shown 50
  (`ListUserRules` asks for the default limit).
* *Many rules.* At most 200 matching rules are served per event, the last edited
  first (engine.go:320-324); the rest get nothing, and nothing says so.
* *Passwords.* A reset or a change of the password ends no session, and earlier reset
  tokens of the account stay good until they expire (`LiveToken` looks at the one
  token only). A confirmation that answers an error may have changed the password
  (auth/service.go:309-312). A disabled account can still reset its password; it
  cannot log in. Outside development no code delivers a reset token
  (`RequestPasswordReset` returns it to the caller or to nobody).

## 7. Not modelled, and why

Section 2 lists what would come next. Market summary and funding job are single
goroutines that run one step at a time on rows of their own; of the senders, the development
token `local-sandbox` (success without sending) and the pauses between attempts are left out; migrations run
once, before any goroutine, and every script may be run again (`IF NOT EXISTS`), so
a stop between a script and its mark is harmless. No code changes a plan. A
password, token or email is a model value: weak passwords and unreadable bodies are
refused before any statement. Out of scope: configuration and normalizers (pure
conversion without later state), HTTP rendering and list queries (read-only),
message texts, password hashing, real time (clocks are counters), and the number
formats of trades (notionals are integers; the code uses float64, whose rounding
no property depends on). SQL statements are atomic, as PostgreSQL runs each in a
transaction of its own; Redis commands and the script are atomic. Loss of Redis
data other than expiry is not modelled.
