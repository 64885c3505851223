------------------------------- MODULE Binding -------------------------------
(***************************************************************************)
(* The Telegram poller (notifier.TelegramPoller) and what its commands     *)
(* change: binding tokens and the chat of an account                       *)
(* (user.TelegramBindingService, storage.TelegramBindingRepo and           *)
(* storage.UserRepo).  Telegram keeps an update until a getUpdates asks    *)
(* for a later one; the poller keeps its offset in memory only.  Next to   *)
(* it run the requests of the dashboard that make tokens and unbind.       *)
(***************************************************************************)
EXTENDS Integers, Sequences

CONSTANTS
  Users, Chats, Tokens,
  NoUser, NoChat,
  TTL,          \* lifetime of a token
  MaxUpdates,   \* bound: messages users send to the bot
  MaxClock,     \* bound: time
  MaxCrashes    \* bound: restarts

ASSUME BindingAssumption ==
  /\ NoUser \notin Users /\ NoChat \notin Chats
  /\ Tokens \cap {"start", "command", "talk"} = {}
  /\ TTL \in Nat \ {0}
  /\ MaxUpdates \in Nat /\ MaxClock \in Nat /\ MaxCrashes \in Nat

(* What a message says: a token after /start, /start alone, one of the     *)
(* commands that change nothing, or no command at all.                     *)
Texts == Tokens \cup {"start", "command", "talk"}
Messages == [chat : Chats, text : Texts]

VARIABLES
  message,     \* what users have sent: update n is the n-th
  confirmed,   \* Telegram has dropped the updates up to this one
  pc,          \* next call of the poller
  offset,      \* TelegramPoller.offset
  next, last,  \* updates next .. last of the current batch are to be handled
  token,       \* owner, expiry and use of each token
  chat,        \* users.telegram_chat_id of each account
  saved,       \* chats with a user row of their own
  clock,
  crashes,
  times, outcome, answer,  \* history: of an update
  binds, cuts              \* history: of a token; cuts: bound and then not marked

telegramVars == <<message, confirmed>>
batchVars == <<offset, next, last>>
rowVars == <<token, chat, saved>>
timeVars == <<clock, crashes>>
updateVars == <<times, outcome, answer>>
tokenVars == <<binds, cuts>>
vars == <<telegramVars, pc, batchVars, rowVars, timeVars, updateVars, tokenVars>>

Init ==
  /\ message = <<>> /\ confirmed = 0
  /\ pc = "idle" /\ offset = 0 /\ next = 1 /\ last = 0
  /\ token = [t \in Tokens |-> [owner |-> NoUser, expires |-> 0, used |-> FALSE]]
  /\ chat = [u \in Users |-> NoChat]
  /\ saved = {}
  /\ clock = 0 /\ crashes = 0
  /\ times = [n \in 1..MaxUpdates |-> 0]
  /\ outcome = [n \in 1..MaxUpdates |-> "pending"]
  /\ answer = [n \in 1..MaxUpdates |-> "none"]
  /\ binds = [t \in Tokens |-> 0]
  /\ cuts = [t \in Tokens |-> 0]

-----------------------------------------------------------------------------
(* The world: users, the dashboard, time.                                  *)

Sent == Len(message)
Created(t) == token[t].owner # NoUser

(* A token is 32 random bytes: only one that was handed out is ever sent.  *)
SendUpdate ==
  /\ Sent < MaxUpdates
  /\ \E m \in Messages :
       /\ m.text \in Tokens => Created(m.text)
       /\ message' = Append(message, m)
  /\ UNCHANGED <<confirmed, pc, batchVars, rowVars, timeVars, updateVars, tokenVars>>

CreateBindingToken(u, t) ==
  /\ ~Created(t)
  /\ token' = [token EXCEPT ![t] = [owner |-> u, expires |-> clock + TTL, used |-> FALSE]]
  /\ UNCHANGED <<telegramVars, pc, batchVars, chat, saved, timeVars, updateVars, tokenVars>>

UnbindTelegramChat(u) ==
  /\ chat[u] # NoChat
  /\ chat' = [chat EXCEPT ![u] = NoChat]
  /\ UNCHANGED <<telegramVars, pc, batchVars, token, saved, timeVars, updateVars, tokenVars>>

Tick ==
  /\ clock < MaxClock
  /\ clock' = clock + 1
  /\ UNCHANGED <<telegramVars, pc, batchVars, rowVars, crashes, updateVars, tokenVars>>

-----------------------------------------------------------------------------
(* The poller.  Definitions named Faulty... are slips a change to the code *)
(* could make; the model does not use them.                                *)

Later(m, n) == IF m < n THEN n ELSE m

(* The first poll would confirm update -1.                                 *)
FaultyConfirm == offset - 1

(* What a getUpdates with this offset leaves at Telegram.                  *)
Confirm == Later(confirmed, offset - 1)

(* A batch is the beginning of what is left; the long poll answers as soon *)
(* as something is.                                                        *)
Poll ==
  /\ pc = "idle" /\ next > last
  /\ confirmed' = Confirm
  /\ next' = confirmed' + 1
  /\ last' \in IF confirmed' < Sent THEN next'..Sent ELSE {confirmed'}
  /\ UNCHANGED <<message, pc, offset, rowVars, timeVars, updateVars, tokenVars>>

(* The request fails, before or after it reached Telegram.                 *)
PollFails ==
  /\ pc = "idle" /\ next > last
  /\ confirmed' \in {confirmed, Confirm}
  /\ UNCHANGED <<message, pc, batchVars, rowVars, timeVars, updateVars, tokenVars>>

(* The update being handled.                                               *)
Cur == next - 1
Text == message[Cur].text
From == message[Cur].chat

FirstCall(text) ==
  CASE text \in Tokens  -> "find"
    [] text = "start"   -> "upsert"
    [] text = "command" -> "reply"
    [] text = "talk"    -> "idle"

(* The offset stays at the update while it is handled.                     *)
FaultyTake ==
  /\ pc = "idle" /\ next <= last
  /\ offset' = Later(offset, next)
  /\ next' = next + 1
  /\ pc' = FirstCall(message[next].text)
  /\ times' = [times EXCEPT ![next] = @ + 1]
  /\ outcome' = [outcome EXCEPT ![next] = IF pc' = "idle" THEN "done" ELSE @]
  /\ UNCHANGED <<telegramVars, last, rowVars, timeVars, answer, tokenVars>>

(* The offset moves past an update before it is handled.                   *)
Take ==
  /\ pc = "idle" /\ next <= last
  /\ offset' = Later(offset, next + 1)
  /\ next' = next + 1
  /\ pc' = FirstCall(message[next].text)
  /\ times' = [times EXCEPT ![next] = @ + 1]
  /\ outcome' = [outcome EXCEPT ![next] = IF pc' = "idle" THEN "done" ELSE @]
  /\ UNCHANGED <<telegramVars, last, rowVars, timeVars, answer, tokenVars>>

(* The query does not look at used_at.                                     *)
FaultyActive(t) == clock < token[t].expires

Active(t) == ~token[t].used /\ clock < token[t].expires

FindActiveByHash ==
  /\ pc = "find"
  /\ pc' = IF Active(Text) THEN "bind" ELSE "refuse"
  /\ UNCHANGED <<telegramVars, batchVars, rowVars, timeVars, updateVars, tokenVars>>

(* A chat with a row of its own counts as free.                            *)
FaultyFree(c, u) == \A v \in Users \ {u} : chat[v] # c

(* The unique index on telegram_chat_id: no other row has the chat.        *)
Free(c, u) == c \notin saved /\ \A v \in Users \ {u} : chat[v] # c

BindTelegramChat ==
  /\ pc = "bind"
  /\ LET u == token[Text].owner IN
       /\ Free(From, u)
       /\ chat' = [chat EXCEPT ![u] = From]
  /\ pc' = "mark"
  /\ binds' = [binds EXCEPT ![Text] = @ + 1]
  /\ UNCHANGED <<telegramVars, batchVars, token, saved, timeVars, updateVars, cuts>>

MarkUsed ==
  /\ pc = "mark"
  /\ pc' = "confirm"
  /\ token' = [token EXCEPT ![Text].used = TRUE]
  /\ UNCHANGED <<telegramVars, batchVars, chat, saved, timeVars, updateVars, tokenVars>>

(* /start alone saves the chat: a row of its own unless a row has it.      *)
UpsertTelegramChat ==
  /\ pc = "upsert"
  /\ pc' = "reply"
  /\ saved' = IF \E v \in Users : chat[v] = From THEN saved ELSE saved \cup {From}
  /\ UNCHANGED <<telegramVars, batchVars, token, chat, timeVars, updateVars, tokenVars>>

Answers == [confirm |-> "bound", refuse |-> "invalid", reply |-> "text"]

SendMessage ==
  /\ pc \in DOMAIN Answers
  /\ pc' = "idle"
  /\ answer' = [answer EXCEPT ![Cur] = Answers[pc]]
  /\ outcome' = [outcome EXCEPT ![Cur] = "done"]
  /\ UNCHANGED <<telegramVars, batchVars, rowVars, timeVars, times, tokenVars>>

(* The token of the current update is left bound and not marked.           *)
Cut == cuts' = IF pc = "mark" THEN [cuts EXCEPT ![Text] = @ + 1] ELSE cuts

(* An error gives up the whole batch.                                      *)
FaultyFail ==
  /\ pc # "idle"
  /\ pc' = "idle"
  /\ next' = last + 1
  /\ offset' = last + 1
  /\ outcome' = [outcome EXCEPT ![Cur] = "failed"]
  /\ Cut
  /\ UNCHANGED <<telegramVars, last, rowVars, timeVars, times, answer, binds>>

(* An error ends the loop of Start.                                        *)
FaultyEnd ==
  /\ pc # "idle"
  /\ pc' = "ended"
  /\ last' = Cur
  /\ outcome' = [outcome EXCEPT ![Cur] = "failed"]
  /\ Cut
  /\ UNCHANGED <<telegramVars, offset, next, rowVars, timeVars, times, answer, binds>>

(* A call returns an error, and PollOnce with it: the rest of the batch is *)
(* dropped here and asked for again by the next poll.  A call that took    *)
(* effect before its answer was lost is that call and then this.           *)
Fail ==
  /\ pc # "idle"
  /\ pc' = "idle"
  /\ last' = Cur
  /\ outcome' = [outcome EXCEPT ![Cur] = "failed"]
  /\ Cut
  /\ UNCHANGED <<telegramVars, offset, next, rowVars, timeVars, times, answer, binds>>

(* The process stops and starts again.                                     *)
Crash ==
  /\ crashes < MaxCrashes
  /\ crashes' = crashes + 1
  /\ pc' = "idle" /\ offset' = 0 /\ next' = 1 /\ last' = 0
  /\ Cut
  /\ UNCHANGED <<telegramVars, rowVars, clock, updateVars, binds>>

-----------------------------------------------------------------------------
HandleMessage ==
  \/ Take \/ FindActiveByHash \/ BindTelegramChat \/ MarkUsed
  \/ UpsertTelegramChat \/ SendMessage \/ Fail

Next ==
  \/ Poll \/ PollFails \/ HandleMessage \/ Crash
  \/ SendUpdate \/ Tick
  \/ \E u \in Users : UnbindTelegramChat(u) \/ \E t \in Tokens : CreateBindingToken(u, t)

Spec == Init /\ [][Next]_vars

(* The poller's goroutine runs, calls come back, and Telegram answers some *)
(* poll in the end.                                                        *)
FairSpec == Spec /\ WF_vars(Poll) /\ WF_vars(HandleMessage)

-----------------------------------------------------------------------------
Settled(n) == outcome[n] # "pending"

(* Every variable has its type.                                            *)
TypeOK ==
  /\ message \in Seq(Messages) /\ Sent <= MaxUpdates
  /\ confirmed \in 0..Sent
  /\ pc \in {"idle", "find", "bind", "mark", "upsert"} \cup DOMAIN Answers
  /\ offset \in 0..(Sent + 1)
  /\ next \in 1..(Sent + 1) /\ last \in 0..Sent
  /\ token \in [Tokens -> [owner : Users \cup {NoUser}, expires : Nat, used : BOOLEAN]]
  /\ chat \in [Users -> Chats \cup {NoChat}]
  /\ saved \subseteq Chats
  /\ clock \in 0..MaxClock
  /\ crashes \in 0..MaxCrashes
  /\ times \in [1..MaxUpdates -> Nat]
  /\ outcome \in [1..MaxUpdates -> {"pending", "done", "failed"}]
  /\ answer \in [1..MaxUpdates -> {"none", "bound", "invalid", "text"}]
  /\ binds \in [Tokens -> Nat]
  /\ cuts \in [Tokens -> Nat]

(* Telegram drops no update that the bot has not handled to its end or     *)
(* failed to handle: neither an error in the middle of a batch nor a       *)
(* restart loses the updates behind (PollOnce moves the offset one by one).*)
NothingSkipped == \A n \in 1..confirmed : Settled(n)

(* An update is handled again only because of a restart: an update whose   *)
(* handling fails does not hold up or repeat the ones around it.           *)
HandledOnce == \A n \in 1..Sent : times[n] <= 1 + crashes

(* A token binds once, except that a run that stops between binding the    *)
(* account and marking the token leaves it good for one more.              *)
TokenOnce ==
  \A t \in Tokens : /\ binds[t] <= 1 + cuts[t]
                    /\ token[t].used => binds[t] >= 1

(* An account has only a chat that presented a token of that account, and  *)
(* no chat belongs to two rows.                                            *)
BoundByOwner ==
  \A u \in Users : chat[u] # NoChat =>
    /\ \E n \in 1..Sent : /\ message[n].chat = chat[u]
                          /\ message[n].text \in Tokens
                          /\ token[message[n].text].owner = u
                          /\ times[n] > 0
    /\ chat[u] \notin saved
    /\ \A v \in Users \ {u} : chat[v] # chat[u]

(* What the bot answers to a token stays true: it is used up when the bot  *)
(* said it is bound, used up or expired when the bot called it invalid.    *)
AnswersTrue ==
  \A n \in 1..Sent :
    LET t == message[n].text IN
      /\ answer[n] = "bound" => token[t].used
      /\ answer[n] = "invalid" => ~Active(t)

(* Every message to the bot is handled or dropped for an error: what is    *)
(* settled stays so, and again and again all that was sent is settled.     *)
EveryUpdateSettled == []<>(\A n \in 1..Sent : Settled(n))
=============================================================================
