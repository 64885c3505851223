----------------------------- MODULE DigestQueue -----------------------------
(***************************************************************************)
(* The per-user digest lists of rule.Pipeline, kept in Redis.              *)
(*                                                                         *)
(* A handler of market events queues an alert of a user in digest mode     *)
(* (queueRedisUserDigest, pruneRedisUserDigest); the digest job of         *)
(* cmd/server sends what is due (flushRedisUserDigests).  Both work on the *)
(* same lists with one Redis command at a time and no lock or transaction, *)
(* so every command is an action here.  Any command may fail, which ends   *)
(* the handler's call or the run of the job.                               *)
(***************************************************************************)
EXTENDS Integers, Sequences, FiniteSets

CONSTANTS
  Handlers,     \* goroutines that call HandleEvent
  Users,
  Chats,        \* Telegram chats
  Blocked,      \* users whose chat rejects every message
  Attempts,     \* how often SendTo posts a message before it gives up
  None,         \* nobody
  Intervals,    \* digest intervals, as digestIntervalMin bounds them
  Grace,        \* what the key TTL adds to the interval (60 minutes)
  MaxItems,     \* digestMaxItems
  MaxAlerts,    \* bound: alerts queued in total
  MaxLate,      \* bound: how far an event time lags behind the clock
  MaxTime       \* bound of the clock

LongestInterval == 1440     \* what digestIntervalMin cuts an interval down to

ASSUME DigestAssumption ==
  /\ IsFiniteSet(Handlers)
  /\ Blocked \subseteq Users
  /\ Attempts \in Nat \ {0}
  /\ None \notin Users \cup Chats
  /\ Intervals \subseteq 1..LongestInterval
  /\ Grace \in Nat
  /\ MaxItems \in Nat \ {0}
  /\ MaxAlerts \in Nat
  /\ MaxLate \in Nat
  /\ MaxTime \in Nat

Alerts == 1..MaxAlerts

(* userDigestItem; the alert stands for its text.                          *)
Item == [alert : Alerts, chat : Chats, at : 0..MaxTime, every : Intervals]

Never == MaxTime + LongestInterval + Grace + 1     \* a key without a TTL: later than any

VARIABLES
  now,         \* the clock
  chat,        \* chat[u]: the chat user u is bound to, or None
  owner,       \* owner[n]: the user alert n was queued for, or None
  list,        \* list[u]: Redis list digest:user:{u}
  expiry,      \* expiry[u]: when that key expires
  index,       \* Redis set digest:user_ids
  hpc,         \* hpc[h]: next command of handler h
  user,        \* user[h]: whose digest it queues to
  item,        \* item[h]: what it queues
  kept,        \* kept[h]: the items it will write back
  fpc,         \* next command of the digest job
  flushTime,   \* its argument now
  ids,         \* user ids of SMEMBERS it has not visited
  current,     \* the user it serves
  batch,       \* the items it read
  acked,       \* history: 0, 1 or 2: alert n was in no, one or several digests whose
               \* send returned without an error
  unseen,      \* history: as many messages with alert n arrived whose attempt failed
  dropped,     \* history: alerts cut off, pruned or expired
  disturbed    \* history: users whose list two actors used at the same time

clockVars == <<now, chat>>
redisVars == <<list, expiry, index>>
handlerVars == <<hpc, user, item, kept>>
jobVars == <<fpc, flushTime, ids, current, batch>>
sentVars == <<acked, unseen>>
historyVars == <<sentVars, dropped, disturbed>>
vars == <<clockVars, owner, redisVars, handlerVars, jobVars, historyVars>>

NoItem == [alert |-> 0]

Init ==
  /\ now = 0
  /\ chat \in [Users -> Chats]
  /\ owner = [n \in Alerts |-> None]
  /\ list = [u \in Users |-> <<>>]
  /\ expiry = [u \in Users |-> Never]
  /\ index = {}
  /\ hpc = [h \in Handlers |-> "idle"]
  /\ user = [h \in Handlers |-> None]
  /\ item = [h \in Handlers |-> NoItem]
  /\ kept = [h \in Handlers |-> <<>>]
  /\ fpc = "idle"
  /\ flushTime = 0
  /\ ids = {}
  /\ current = None
  /\ batch = <<>>
  /\ acked = [n \in Alerts |-> 0]
  /\ unseen = [n \in Alerts |-> 0]
  /\ dropped = {}
  /\ disturbed = {}

-----------------------------------------------------------------------------
(***************************************************************************)
(* Pure helpers                                                            *)
(***************************************************************************)

(* Definitions named Faulty... are slips a change to the code could make;   *)
(* no specification uses them.  Each is substituted for the definition     *)
(* below it to confirm that a property notices.                            *)

(* The cap is not applied.                                                 *)
FaultyTrimmed(items) == items

(* trimDigestItems: the newest MaxItems items.                             *)
Trimmed(items) == SubSeq(items, 1 + (IF Len(items) > MaxItems THEN Len(items) - MaxItems ELSE 0),
                         Len(items))

(* pruneDigestItems: the items inside the window of the LAST item;          *)
(* rest[i] is what the loop has kept after i items.                        *)
Pruned(items, time) ==
  LET cutoff == time - items[Len(items)].every
      rest[i \in 0..Len(items)] ==
        IF i = 0 THEN <<>>
        ELSE IF items[i].at < cutoff THEN rest[i - 1] ELSE Append(rest[i - 1], items[i])
  IN  rest[Len(items)]

(* An empty list counts as due.                                            *)
FaultyDue(items, time) == items = <<>> \/ time >= items[1].at + items[1].every

(* digestDue: the interval of the FIRST item has passed.                   *)
Due(items, time) == items # <<>> /\ time >= items[1].at + items[1].every

Occurrences(n, items) == Cardinality({i \in DOMAIN items : items[i].alert = n})
Saturated(k) == IF k > 2 THEN 2 ELSE k

AlertsOf(items) == {items[i].alert : i \in DOMAIN items}

(* Who is in the middle of its commands on the list of u.                  *)
Using(u) ==
  {h \in Handlers : hpc[h] # "idle" /\ user[h] = u}
    \cup (IF fpc \in {"send", "del", "unlist"} /\ current = u THEN {"job"} ELSE {})

(* An actor starts on the list of u, or stops half way.                    *)
Enter(u) == disturbed' = IF Using(u) = {} THEN disturbed ELSE disturbed \cup {u}
Break(u) == disturbed' = disturbed \cup {u}

-----------------------------------------------------------------------------
(***************************************************************************)
(* A handler queues an alert                                               *)
(***************************************************************************)

Goto(h, label) == hpc' = [hpc EXCEPT ![h] = label]

HandlerDone(h) ==
  /\ Goto(h, "idle")
  /\ user' = [user EXCEPT ![h] = None]
  /\ item' = [item EXCEPT ![h] = NoItem]
  /\ kept' = [kept EXCEPT ![h] = <<>>]

(* queueUserDigest: QueuedAt is the event time; RPUSH.  Bound: nothing is  *)
(* queued that cannot become due before the clock stops.                   *)
QueueItem(h, u, n, at, every) ==
  LET new == [alert |-> n, chat |-> chat[u], at |-> at, every |-> every] IN
  /\ hpc[h] = "idle"
  /\ chat[u] # None
  /\ owner[n] = None /\ \A m \in 1..(n - 1) : owner[m] # None
  /\ at + MaxLate >= now
  /\ now + every <= MaxTime
  /\ owner' = [owner EXCEPT ![n] = u]
  /\ item' = [item EXCEPT ![h] = new]
  /\ list' = [list EXCEPT ![u] = Append(@, new)]
  /\ user' = [user EXCEPT ![h] = u]
  /\ Goto(h, "trim")
  /\ Enter(u)
  /\ UNCHANGED <<clockVars, expiry, index, kept, jobVars, sentVars, dropped>>

Queue(h, u) ==
  \E n \in Alerts, at \in 0..now, every \in Intervals : QueueItem(h, u, n, at, every)

(* LTRIM key -max -1                                                       *)
Trim(h) ==
  LET u == user[h] IN
  /\ hpc[h] = "trim"
  /\ list' = [list EXCEPT ![u] = Trimmed(@)]
  /\ dropped' = dropped \cup (AlertsOf(list[u]) \ AlertsOf(Trimmed(list[u])))
  /\ Goto(h, "read")
  /\ UNCHANGED <<clockVars, owner, expiry, index, user, item, kept, jobVars,
                 sentVars, disturbed>>

(* LRANGE, then prune and trim in memory.                                  *)
ReadBack(h) ==
  LET u == user[h]
      rest == Trimmed(Pruned(list[u], item[h].at)) IN
  /\ hpc[h] = "read"
  /\ kept' = [kept EXCEPT ![h] = rest]
  /\ dropped' = dropped \cup (AlertsOf(list[u]) \ AlertsOf(rest))
  /\ Goto(h, "del")
  /\ UNCHANGED <<clockVars, owner, redisVars, user, item, jobVars, sentVars,
                 disturbed>>

(* DEL; an empty rest is not written back.                                 *)
Delete(h) ==
  /\ hpc[h] = "del"
  /\ list' = [list EXCEPT ![user[h]] = <<>>]
  /\ expiry' = [expiry EXCEPT ![user[h]] = Never]
  /\ Goto(h, IF kept[h] = <<>> THEN "expire" ELSE "write")
  /\ UNCHANGED <<clockVars, owner, index, user, item, kept, jobVars, historyVars>>

(* RPUSH of the rest.                                                      *)
WriteBack(h) ==
  /\ hpc[h] = "write"
  /\ list' = [list EXCEPT ![user[h]] = @ \o kept[h]]
  /\ kept' = [kept EXCEPT ![h] = <<>>]
  /\ Goto(h, "expire")
  /\ UNCHANGED <<clockVars, owner, expiry, index, user, item, jobVars, historyVars>>

(* EXPIRE; a missing key stays missing.                                    *)
SetTTL(h) ==
  /\ hpc[h] = "expire"
  /\ expiry' = [expiry EXCEPT ![user[h]] =
                  IF list[user[h]] = <<>> THEN @ ELSE now + item[h].every + Grace]
  /\ Goto(h, "index")
  /\ UNCHANGED <<clockVars, owner, list, index, user, item, kept, jobVars, historyVars>>

(* The user is only indexed when the list was not there before.            *)
FaultyRegister(h) ==
  /\ hpc[h] = "index"
  /\ index' = IF expiry[user[h]] = Never THEN index \cup {user[h]} ELSE index
  /\ HandlerDone(h)
  /\ UNCHANGED <<clockVars, owner, list, expiry, jobVars, historyVars>>

(* SADD digest:user_ids                                                    *)
Register(h) ==
  /\ hpc[h] = "index"
  /\ index' = index \cup {user[h]}
  /\ HandlerDone(h)
  /\ UNCHANGED <<clockVars, owner, list, expiry, jobVars, historyVars>>

(* A command fails: queueUserDigest returns the error.                     *)
QueueError(h) ==
  /\ hpc[h] # "idle"
  /\ Break(user[h])
  /\ HandlerDone(h)
  /\ UNCHANGED <<clockVars, owner, redisVars, jobVars, sentVars, dropped>>

-----------------------------------------------------------------------------
(***************************************************************************)
(* The digest job                                                          *)
(***************************************************************************)

JobDone ==
  /\ fpc' = "idle"
  /\ flushTime' = 0
  /\ ids' = {}
  /\ current' = None
  /\ batch' = <<>>

(* A tick of the job: SMEMBERS.                                            *)
StartFlush ==
  /\ fpc = "idle"
  /\ index # {}
  /\ fpc' = "next"
  /\ flushTime' = now
  /\ ids' = index
  /\ UNCHANGED <<clockVars, owner, redisVars, handlerVars, current, batch, historyVars>>

(* LRANGE of one of the users; a digest that is not due is skipped.        *)
ReadDigest(u) ==
  /\ fpc = "next"
  /\ u \in ids
  /\ ids' = ids \ {u}
  /\ IF Due(list[u], flushTime)
       THEN /\ fpc' = "send"
            /\ current' = u
            /\ batch' = list[u]
            /\ Enter(u)
       ELSE UNCHANGED <<fpc, current, batch, disturbed>>
  /\ UNCHANGED <<clockVars, owner, redisVars, handlerVars, flushTime, sentVars,
                 dropped>>

(* counts, after so many messages with the digest that was read.           *)
Counted(counts, messages) ==
  [n \in Alerts |-> Saturated(counts[n] + messages * Occurrences(n, batch))]

(* SendTo, to the chat of the first item, is acknowledged.  The attempts   *)
(* before the last one failed, but their message may have arrived: an      *)
(* error does not tell.                                                    *)
SendDigest ==
  /\ fpc = "send"
  /\ current \notin Blocked
  /\ acked' = Counted(acked, 1)
  /\ \E lost \in 0..(Attempts - 1) : unseen' = Counted(unseen, lost)
  /\ fpc' = "del"
  /\ UNCHANGED <<clockVars, owner, redisVars, handlerVars, flushTime, ids, current,
                 batch, dropped, disturbed>>

(* The digest is cleared although the send failed.                         *)
FaultySendFails ==
  /\ fpc = "send"
  /\ fpc' = "del"
  /\ UNCHANGED <<clockVars, owner, redisVars, handlerVars, flushTime, ids, current,
                 batch, historyVars>>

(* SendTo fails, after one or several attempts that may have arrived: the  *)
(* run ends, the users not visited wait for the next.                      *)
SendFails ==
  /\ fpc = "send"
  /\ \E lost \in 0..(IF current \in Blocked THEN 0 ELSE Attempts) :
       unseen' = Counted(unseen, lost)
  /\ JobDone
  /\ UNCHANGED <<clockVars, owner, redisVars, handlerVars, acked, dropped, disturbed>>

(* The list stays after it was sent.                                       *)
FaultyKeepDigest ==
  /\ fpc = "del"
  /\ fpc' = "next"
  /\ current' = None
  /\ batch' = <<>>
  /\ UNCHANGED <<clockVars, owner, redisVars, handlerVars, flushTime, ids, historyVars>>

(* DEL                                                                     *)
DeleteDigest ==
  /\ fpc = "del"
  /\ list' = [list EXCEPT ![current] = <<>>]
  /\ expiry' = [expiry EXCEPT ![current] = Never]
  /\ fpc' = "unlist"
  /\ UNCHANGED <<clockVars, owner, index, handlerVars, flushTime, ids, current, batch,
                 historyVars>>

(* SREM digest:user_ids                                                    *)
Unregister ==
  /\ fpc = "unlist"
  /\ index' = index \ {current}
  /\ fpc' = "next"
  /\ current' = None
  /\ batch' = <<>>
  /\ UNCHANGED <<clockVars, owner, list, expiry, handlerVars, flushTime, ids, historyVars>>

EndFlush ==
  /\ fpc = "next"
  /\ ids = {}
  /\ JobDone
  /\ UNCHANGED <<clockVars, owner, redisVars, handlerVars, historyVars>>

(* A Redis command of the job fails; the next tick starts over.            *)
FlushError ==
  /\ fpc # "idle"
  /\ IF fpc \in {"del", "unlist"} THEN Break(current) ELSE UNCHANGED disturbed
  /\ JobDone
  /\ UNCHANGED <<clockVars, owner, redisVars, handlerVars, sentVars, dropped>>

-----------------------------------------------------------------------------
(***************************************************************************)
(* Environment                                                             *)
(***************************************************************************)

(* The user unbinds the chat, or binds another one.                        *)
ChangeChat(u) ==
  /\ \E c \in Chats \cup {None} : c # chat[u] /\ chat' = [chat EXCEPT ![u] = c]
  /\ UNCHANGED <<now, owner, redisVars, handlerVars, jobVars, historyVars>>

(* Time passes; Redis removes the keys that expire.                        *)
Tick ==
  LET gone == {u \in Users : expiry[u] <= now + 1} IN
  /\ now < MaxTime
  /\ now' = now + 1
  /\ list' = [u \in Users |-> IF u \in gone THEN <<>> ELSE list[u]]
  /\ expiry' = [u \in Users |-> IF u \in gone THEN Never ELSE expiry[u]]
  /\ dropped' = dropped \cup UNION {AlertsOf(list[u]) : u \in gone}
  /\ disturbed' = disturbed \cup {u \in gone : Using(u) # {}}
  /\ UNCHANGED <<chat, owner, index, handlerVars, jobVars, sentVars>>

QueueStep(h) ==
  Trim(h) \/ ReadBack(h) \/ Delete(h) \/ WriteBack(h) \/ SetTTL(h) \/ Register(h)

FlushStep ==
  \/ \E u \in Users : ReadDigest(u)
  \/ SendDigest \/ DeleteDigest \/ Unregister \/ EndFlush

Next ==
  \/ \E h \in Handlers : QueueStep(h) \/ QueueError(h) \/ \E u \in Users : Queue(h, u)
  \/ StartFlush \/ FlushStep \/ SendFails \/ FlushError
  \/ \E u \in Users : ChangeChat(u)
  \/ Tick

Spec == Init /\ [][Next]_vars

(* Commands are not lost for ever: Redis comes back, and the ticker, the   *)
(* clock and the goroutines go on.  A blocked chat is never delivered to.  *)
FairSpec ==
  /\ Spec
  /\ \A h \in Handlers : WF_vars(QueueStep(h))
  /\ WF_vars(Tick)
  /\ WF_vars(StartFlush)
  /\ SF_vars(\E u \in Users : ReadDigest(u))
  /\ SF_vars(SendDigest)
  /\ SF_vars(DeleteDigest)
  /\ WF_vars(FlushStep \/ SendFails)

-----------------------------------------------------------------------------
(***************************************************************************)
(* Properties                                                              *)
(***************************************************************************)

(* Type correctness.                                                       *)
TypeOK ==
  /\ now \in 0..MaxTime
  /\ chat \in [Users -> Chats \cup {None}]
  /\ owner \in [Alerts -> Users \cup {None}]
  /\ DOMAIN list = Users /\ \A u \in Users : list[u] \in Seq(Item)
  /\ expiry \in [Users -> Nat]
  /\ index \subseteq Users
  /\ hpc \in [Handlers -> {"idle", "trim", "read", "del", "write", "expire", "index"}]
  /\ user \in [Handlers -> Users \cup {None}]
  /\ item \in [Handlers -> Item \cup {NoItem}]
  /\ DOMAIN kept = Handlers
  /\ \A h \in Handlers :
       /\ hpc[h] # "idle" => user[h] \in Users /\ item[h] \in Item
       /\ kept[h] \in Seq(Item)
  /\ fpc \in {"idle", "next", "send", "del", "unlist"}
  /\ fpc \in {"send", "del", "unlist"} => current \in Users /\ batch \in Seq(Item) \ {<<>>}
  /\ flushTime \in 0..MaxTime
  /\ ids \subseteq Users
  /\ current \in Users \cup {None}
  /\ batch \in Seq(Item)
  /\ acked \in [Alerts -> 0..2]
  /\ unseen \in [Alerts -> 0..2]
  /\ dropped \subseteq Alerts
  /\ disturbed \subseteq Users

Settled(u) == Using(u) = {} /\ u \notin disturbed

(* As long as no two actors were on the list of a user at the same time    *)
(* and none stopped half way, every queued alert has exactly one fate: it  *)
(* waits once in the list, went out in one digest whose send succeeded, or *)
(* fell to the limits on count, window and lifetime, through every failed  *)
(* send and retry (queueRedisUserDigest, flushRedisUserDigests).  It       *)
(* speaks of what the job knows: a digest whose send failed may have       *)
(* arrived all the same, and its alerts then wait to be sent once more.    *)
OneFate ==
  \A u \in Users : Settled(u) =>
    \A n \in Alerts : owner[n] = u =>
      Occurrences(n, list[u]) + acked[n] + (IF n \in dropped THEN 1 ELSE 0) = 1

(* What the user sees: an alert may reach the chat several times while no  *)
(* send of it has succeeded, but nothing follows the digest that did.  The *)
(* DEL comes after the send, with only these two actors' care between a    *)
(* sent digest and the same digest once more (flushRedisUserDigests).      *)
NothingAfterSuccess ==
  [][\A n \in Alerts : owner[n] \notin disturbed /\ acked[n] = 1 =>
       UNCHANGED <<acked[n], unseen[n]>>]_vars

(* Under the same condition no list is orphaned: a list with items is in   *)
(* the index the job works from, and it has a lifetime.                    *)
NotOrphaned ==
  \A u \in Users : Settled(u) /\ list[u] # <<>> => u \in index /\ expiry[u] # Never

(* And under the same condition the cap on the number of items holds       *)
(* whenever no one is at work on the list, so for what the next flush      *)
(* sends: the push, LTRIM, and write-back together keep it.                *)
ListBounded == \A u \in Users : Settled(u) => Len(list[u]) <= MaxItems

(* A user whose chat accepts messages is served: a list that is indexed    *)
(* while the job is not just finishing with it leaves Redis.  (With a      *)
(* MaxTime below the lifetime of a key, so that it leaves in a digest.)    *)
DigestLeaves ==
  \A u \in Users \ Blocked :
    list[u] # <<>> /\ u \in index /\ current # u ~> list[u] = <<>>
=============================================================================
