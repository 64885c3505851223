--------------------------- MODULE Binding_proofs ---------------------------
(***************************************************************************)
(* Proofs about the Telegram poller and the binding tokens.                *)
(*                                                                         *)
(* The argument: the offset has passed exactly the updates the poller has  *)
(* taken since it started, and all of them but the current one are         *)
(* settled; a poll confirms what the offset has passed.  A token that is   *)
(* not marked has bound as often as runs were cut, except while it is      *)
(* about to be marked.                                                     *)
(***************************************************************************)
EXTENDS Binding, TLAPS

Busy == pc # "idle"
Handles(t) == Busy /\ Text = t

(* Where the poller is in its batch.                                       *)
Placed ==
  /\ Busy => offset = next /\ next >= 2
  /\ next <= last => offset <= next

(* What lies behind the offset, or before the batch, is settled.           *)
Behind == \A n \in 1..Sent :
  n < offset \/ (n < next /\ next <= last) => Settled(n) \/ (Busy /\ n = Cur)

(* Nothing is recorded of an update that does not exist.                   *)
Unsent == \A n \in 1..MaxUpdates : n > Sent => times[n] = 0 /\ answer[n] = "none"

Counted ==
  /\ \A n \in 1..MaxUpdates : times[n] <= crashes + (IF n < offset THEN 1 ELSE 0)
  /\ Busy => times[Cur] > 0

Known ==
  /\ \A n \in 1..Sent : message[n].text \in Tokens => Created(message[n].text)
  /\ \A n \in 1..Sent : answer[n] \in {"bound", "invalid"} => message[n].text \in Tokens
  /\ pc \in {"find", "bind", "mark", "confirm", "refuse"} => Text \in Tokens

Spent ==
  /\ \A t \in Tokens : token[t].used => Created(t) /\ binds[t] >= 1
  /\ \A t \in Tokens : binds[t] <= cuts[t]
                         + (IF token[t].used \/ (pc = "mark" /\ Text = t) THEN 1 ELSE 0)
  /\ pc = "bind" => ~token[Text].used
  /\ pc = "mark" => binds[Text] >= 1

Told ==
  /\ pc = "confirm" => token[Text].used
  /\ pc = "refuse" => ~Active(Text)

IInv ==
  /\ TypeOK /\ Placed /\ Behind /\ Unsent /\ Counted /\ Known /\ Spent /\ Told
  /\ NothingSkipped /\ BoundByOwner /\ AnswersTrue

-----------------------------------------------------------------------------
(* The next call of the poller depends on the text alone.                  *)
LEMMA FirstCalls ==
  ASSUME NEW text \in Texts
  PROVE  /\ FirstCall(text) \in {"find", "upsert", "reply", "idle"}
         /\ FirstCall(text) = "find" <=> text \in Tokens
BY BindingAssumption DEF FirstCall, Texts

LEMMA LaterIs ==
  ASSUME NEW m \in Int, NEW n \in Int
  PROVE  /\ Later(m, n) \in {m, n}
         /\ Later(m, n) >= m /\ Later(m, n) >= n
BY DEF Later

LEMMA InitType == Init => TypeOK
<1> SUFFICES ASSUME Init PROVE TypeOK
  OBVIOUS
<1> USE BindingAssumption DEF Init
<1>1. /\ message \in Seq(Messages) /\ Sent <= MaxUpdates /\ Sent = 0
      /\ confirmed \in 0..Sent
      /\ offset \in 0..(Sent + 1)
      /\ next \in 1..(Sent + 1) /\ last \in 0..Sent
  BY DEF Sent
<1>2. /\ pc \in {"idle", "find", "bind", "mark", "upsert"} \cup DOMAIN Answers
      /\ token \in [Tokens -> [owner : Users \cup {NoUser}, expires : Nat, used : BOOLEAN]]
      /\ chat \in [Users -> Chats \cup {NoChat}]
      /\ saved \subseteq Chats
      /\ clock \in 0..MaxClock
      /\ crashes \in 0..MaxCrashes
  OBVIOUS
<1>3. /\ times \in [1..MaxUpdates -> Nat]
      /\ outcome \in [1..MaxUpdates -> {"pending", "done", "failed"}]
      /\ answer \in [1..MaxUpdates -> {"none", "bound", "invalid", "text"}]
      /\ binds \in [Tokens -> Nat]
      /\ cuts \in [Tokens -> Nat]
  OBVIOUS
<1> QED
  BY <1>1, <1>2, <1>3 DEF TypeOK

(* The current update exists.                                              *)
LEMMA CurExists ==
  ASSUME TypeOK, Placed, Busy
  PROVE  /\ Cur \in 1..Sent /\ Cur \in 1..MaxUpdates
         /\ message[Cur] \in Messages /\ Text \in Texts /\ From \in Chats
<1>1. Cur \in 1..Sent /\ Cur \in 1..MaxUpdates
  BY BindingAssumption DEF TypeOK, Placed, Cur, Sent
<1>2. message[Cur] \in Messages
  BY <1>1 DEF TypeOK, Sent
<1> QED
  BY <1>1, <1>2 DEF Messages, Text, From

-----------------------------------------------------------------------------
(* Type correctness, in three groups of variables.                         *)
TypeBatch ==
  /\ message \in Seq(Messages) /\ Sent <= MaxUpdates
  /\ confirmed \in 0..Sent
  /\ offset \in 0..(Sent + 1)
  /\ next \in 1..(Sent + 1) /\ last \in 0..Sent

TypeRows ==
  /\ pc \in {"idle", "find", "bind", "mark", "upsert"} \cup DOMAIN Answers
  /\ token \in [Tokens -> [owner : Users \cup {NoUser}, expires : Nat, used : BOOLEAN]]
  /\ chat \in [Users -> Chats \cup {NoChat}]
  /\ saved \subseteq Chats
  /\ clock \in 0..MaxClock
  /\ crashes \in 0..MaxCrashes

TypeHistory ==
  /\ times \in [1..MaxUpdates -> Nat]
  /\ outcome \in [1..MaxUpdates -> {"pending", "done", "failed"}]
  /\ answer \in [1..MaxUpdates -> {"none", "bound", "invalid", "text"}]
  /\ binds \in [Tokens -> Nat]
  /\ cuts \in [Tokens -> Nat]

LEMMA TypeParts == TypeOK <=> TypeBatch /\ TypeRows /\ TypeHistory
BY DEF TypeOK, TypeBatch, TypeRows, TypeHistory

LEMMA TypeStep ==
  ASSUME TypeOK, Placed, Known, [Next]_vars
  PROVE  TypeOK'
<1> SUFFICES TypeBatch' /\ TypeRows' /\ TypeHistory'
  BY DEF TypeOK, TypeBatch, TypeRows, TypeHistory
<1>t. TypeBatch /\ TypeRows /\ TypeHistory
  BY TypeParts
<1> USE BindingAssumption, <1>t DEF telegramVars, batchVars, rowVars, timeVars, updateVars, tokenVars
<1>0. /\ Sent \in Nat /\ MaxUpdates \in Nat
      /\ confirmed \in Nat /\ offset \in Nat /\ next \in Nat /\ last \in Nat
      /\ clock \in Nat /\ crashes \in Nat /\ TTL \in Nat
  BY DEF TypeBatch, TypeRows, Sent
<1>c. Busy => /\ Cur \in 1..Sent /\ Cur \in 1..MaxUpdates /\ From \in Chats
  BY CurExists
<1>1. CASE Poll
  <2>1. TypeBatch'
    <3>1. Confirm \in Nat /\ Confirm <= Sent
      BY <1>0, LaterIs DEF Confirm, TypeBatch
    <3> QED
      BY <1>1, <1>0, <3>1 DEF Poll, TypeBatch, Sent
  <2> QED
    BY <1>1, <2>1 DEF Poll, TypeRows, TypeHistory
<1>2. CASE PollFails
  <2>1. Confirm \in Nat /\ Confirm <= Sent
    BY <1>0, LaterIs DEF Confirm, TypeBatch
  <2>2. TypeBatch'
    BY <1>2, <1>0, <2>1 DEF PollFails, TypeBatch, Sent
  <2> QED
    BY <1>2, <2>2 DEF PollFails, TypeRows, TypeHistory
<1>3. CASE Take
  <2>1. next \in 1..Sent /\ next \in 1..MaxUpdates /\ message[next].text \in Texts
    <3>1. next \in 1..Sent /\ next \in 1..MaxUpdates
      BY <1>3, <1>0 DEF Take, TypeBatch
    <3>2. message[next] \in Messages
      BY <3>1 DEF TypeBatch, Sent
    <3> QED
      BY <3>1, <3>2 DEF Messages
  <2>2. pc' \in {"find", "upsert", "reply", "idle"}
    BY <1>3, <2>1, FirstCalls DEF Take
  <2>3. offset' \in 0..(Sent + 1)
    BY <1>3, <1>0, <2>1, LaterIs DEF Take, TypeBatch
  <2>4. TypeBatch'
    <3>1. message' = message /\ Sent' = Sent /\ next' = next + 1
            /\ last' = last /\ confirmed' = confirmed
      BY <1>3 DEF Take, Sent
    <3> QED
      BY <3>1, <1>0, <2>1, <2>3 DEF TypeBatch
  <2>5. TypeRows'
    BY <1>3, <2>2 DEF Take, TypeRows, Answers
  <2>6. TypeHistory'
    BY <1>3, <2>1 DEF Take, TypeHistory
  <2> QED
    BY <2>4, <2>5, <2>6
<1>4. CASE FindActiveByHash
  BY <1>4 DEF FindActiveByHash, TypeBatch, TypeRows, TypeHistory, Sent, Answers
<1>5. CASE BindTelegramChat
  <2>1. TypeBatch'
    BY <1>5 DEF BindTelegramChat, TypeBatch, Sent
  <2>2. TypeRows'
    BY <1>5, <1>c DEF BindTelegramChat, TypeRows, Busy
  <2>3. TypeHistory'
    BY <1>5 DEF BindTelegramChat, TypeHistory, Known
  <2> QED
    BY <2>1, <2>2, <2>3
<1>6. CASE MarkUsed
  <2>1. TypeRows'
    BY <1>6 DEF MarkUsed, TypeRows, Answers, Known
  <2> QED
    BY <1>6, <2>1 DEF MarkUsed, TypeBatch, TypeHistory, Sent
<1>7. CASE UpsertTelegramChat
  <2>1. TypeRows'
    BY <1>7, <1>c DEF UpsertTelegramChat, TypeRows, Busy, Answers
  <2> QED
    BY <1>7, <2>1 DEF UpsertTelegramChat, TypeBatch, TypeHistory, Sent
<1>8. CASE SendMessage
  <2>1. TypeHistory'
    BY <1>8, <1>c DEF SendMessage, TypeHistory, Busy, Answers
  <2> QED
    BY <1>8, <2>1 DEF SendMessage, TypeBatch, TypeRows, Sent
<1>9. CASE Fail
  <2>1. TypeBatch'
    BY <1>9, <1>0, <1>c DEF Fail, TypeBatch, Busy, Sent
  <2>2. TypeRows'
    BY <1>9 DEF Fail, TypeRows
  <2>3. TypeHistory'
    BY <1>9, <1>c DEF Fail, Cut, TypeHistory, Busy, Known
  <2> QED
    BY <2>1, <2>2, <2>3
<1>10. CASE Crash
  <2>1. TypeBatch'
    BY <1>10, <1>0 DEF Crash, TypeBatch, Sent
  <2>2. TypeRows'
    BY <1>10, <1>0 DEF Crash, TypeRows
  <2>3. TypeHistory'
    BY <1>10 DEF Crash, Cut, TypeHistory, Known
  <2> QED
    BY <2>1, <2>2, <2>3
<1>11. CASE SendUpdate
  <2>1. message' \in Seq(Messages) /\ Sent' = Sent + 1
    BY <1>11 DEF SendUpdate, TypeBatch, Sent
  <2>2. TypeBatch'
    BY <1>11, <1>0, <2>1 DEF SendUpdate, TypeBatch
  <2> QED
    BY <1>11, <2>2 DEF SendUpdate, TypeRows, TypeHistory
<1>12. CASE Tick
  BY <1>12, <1>0 DEF Tick, TypeBatch, TypeRows, TypeHistory, Sent
<1>13. ASSUME NEW u \in Users, UnbindTelegramChat(u)
       PROVE  TypeBatch' /\ TypeRows' /\ TypeHistory'
  BY <1>13 DEF UnbindTelegramChat, TypeBatch, TypeRows, TypeHistory, Sent
<1>14. ASSUME NEW u \in Users, NEW t \in Tokens, CreateBindingToken(u, t)
       PROVE  TypeBatch' /\ TypeRows' /\ TypeHistory'
  <2>1. TypeRows'
    BY <1>14, <1>0 DEF CreateBindingToken, TypeRows
  <2> QED
    BY <1>14, <2>1 DEF CreateBindingToken, TypeBatch, TypeHistory, Sent
<1>15. CASE UNCHANGED vars
  BY <1>15 DEF vars, TypeBatch, TypeRows, TypeHistory, Sent
<1> QED
  BY <1>1, <1>2, <1>3, <1>4, <1>5, <1>6, <1>7, <1>8, <1>9, <1>10, <1>11, <1>12, <1>13, <1>14, <1>15 DEF Next, HandleMessage

-----------------------------------------------------------------------------
(* Confirmed and passed updates are settled.                               *)
LEMMA BatchStep ==
  ASSUME TypeOK, TypeOK', Placed, Behind, NothingSkipped, [Next]_vars
  PROVE  Placed' /\ Behind' /\ NothingSkipped'
<1> USE DEF telegramVars, batchVars, rowVars, timeVars, updateVars, tokenVars
<1>0. /\ Sent \in Nat /\ confirmed \in 0..Sent /\ offset \in 0..(Sent + 1)
      /\ next \in 1..(Sent + 1) /\ last \in 0..Sent /\ Sent' \in Nat
      /\ Sent <= MaxUpdates /\ MaxUpdates \in Nat
      /\ outcome \in [1..MaxUpdates -> {"pending", "done", "failed"}]
  <2>1. Sent \in Nat /\ Sent' \in Nat /\ MaxUpdates \in Nat
    <3>1. message \in Seq(Messages)
      BY DEF TypeOK
    <3>2. message' \in Seq(Messages)'
      BY DEF TypeOK
    <3> QED
      BY <3>1, <3>2, BindingAssumption DEF Sent, Messages
  <2> QED
    BY <2>1 DEF TypeOK
<1>1. Confirm \in Nat /\ Confirm \in {confirmed, offset - 1}
      /\ Confirm >= confirmed /\ Confirm >= offset - 1
  BY <1>0, LaterIs DEF Confirm
<1>2. ASSUME ~Busy, NEW n \in 1..Confirm
      PROVE  Settled(n)
  BY <1>0, <1>1, <1>2 DEF Behind, NothingSkipped
<1>3. CASE Poll
  <2>1. /\ ~Busy /\ Busy' = Busy /\ Sent' = Sent /\ outcome' = outcome /\ offset' = offset
        /\ confirmed' = Confirm /\ next' = Confirm + 1
    BY <1>3 DEF Poll, Busy, Sent
  <2>2. Placed'
    BY <2>1, <1>0, <1>1 DEF Placed
  <2>3. Behind'
    BY <2>1, <1>0, <1>1, <1>2 DEF Behind, Settled
  <2>4. NothingSkipped'
    BY <2>1, <1>2 DEF NothingSkipped, Settled
  <2> QED
    BY <2>2, <2>3, <2>4
<1>4. CASE PollFails
  <2>1. ~Busy /\ confirmed' \in {confirmed, Confirm} /\ Sent' = Sent
        /\ UNCHANGED <<pc, offset, next, last, outcome>>
    BY <1>4 DEF PollFails, Busy, Sent
  <2>2. Placed' /\ Behind'
    BY <2>1 DEF Placed, Behind, Busy, Cur, Settled
  <2>3. NothingSkipped'
    BY <2>1, <1>2 DEF NothingSkipped, Settled
  <2> QED
    BY <2>2, <2>3
<1>5. CASE Take
  <2>1. /\ ~Busy /\ next <= last /\ Sent' = Sent /\ confirmed' = confirmed /\ last' = last
        /\ next' = next + 1 /\ Cur' = next
        /\ outcome' = [outcome EXCEPT ![next] = IF pc' = "idle" THEN "done" ELSE @]
    BY <1>5, <1>0 DEF Take, Busy, Sent, Cur
  <2>2. offset' = next + 1
    <3>1. offset <= next
      BY <2>1 DEF Placed
    <3> QED
      BY <1>5, <1>0, <3>1 DEF Take, Later
  <2>3. \A n \in 1..Sent : Settled(n) => Settled(n)'
    BY <2>1, <1>0 DEF Settled
  <2>4. ~Busy' => outcome'[next] # "pending"
    BY <2>1, <1>0 DEF Settled, Busy
  <2>5. Placed'
    BY <2>1, <2>2, <1>0 DEF Placed
  <2>6. \A n \in 1..Sent : n < next => Settled(n)
    BY <2>1 DEF Behind
  <2>7. \A n \in 1..Sent : n <= next => Settled(n)' \/ (Busy' /\ n = next)
    BY <2>3, <2>4, <2>6, <1>0 DEF Settled
  <2>8. Behind'
    BY <2>1, <2>2, <2>7, <1>0 DEF Behind
  <2>9. NothingSkipped'
    BY <2>1, <2>3, <1>0 DEF NothingSkipped
  <2> QED
    BY <2>5, <2>8, <2>9
<1>6. CASE FindActiveByHash \/ BindTelegramChat \/ MarkUsed \/ UpsertTelegramChat
  <2>1. /\ Busy /\ Busy' /\ Sent' = Sent
        /\ UNCHANGED <<confirmed, offset, next, last, outcome>>
    BY <1>6 DEF FindActiveByHash, BindTelegramChat, MarkUsed, UpsertTelegramChat, Busy, Sent
  <2> QED
    BY <2>1 DEF Placed, Behind, NothingSkipped, Settled, Cur
<1>7. CASE SendMessage \/ Fail
  <2>1. PICK o \in {"done", "failed"} : outcome' = [outcome EXCEPT ![Cur] = o]
    BY <1>7 DEF SendMessage, Fail
  <2>2. Busy /\ ~Busy' /\ Sent' = Sent /\ UNCHANGED <<confirmed, offset, next>>
    BY <1>7 DEF SendMessage, Fail, Answers, Busy, Sent
  <2>3. last' \in {last, Cur}
    BY <1>7 DEF SendMessage, Fail
  <2>4. Cur \in 1..Sent /\ Cur \in 1..MaxUpdates
    BY <2>2, CurExists
  <2>5. outcome'[Cur] # "pending" /\ \A n \in 1..Sent : Settled(n) => Settled(n)'
    <3> HIDE DEF Cur
    <3> QED
      BY <2>1, <2>4, <1>0 DEF Settled
  <2>6. offset' = next'
    BY <2>2 DEF Placed
  <2>7. Placed'
    BY <2>2, <2>6, <1>0 DEF Placed
  <2>8. \A n \in 1..Sent : n < next => Settled(n)'
    <3>1. offset = next
      BY <2>2 DEF Placed
    <3>2. \A n \in 1..Sent : n < next => Settled(n) \/ n = Cur
      BY <3>1 DEF Behind
    <3> QED
      BY <3>2, <2>5 DEF Settled
  <2>9. Behind'
    BY <2>2, <2>6, <2>8, <1>0 DEF Behind
  <2>10. NothingSkipped'
    BY <2>2, <2>5, <1>0 DEF NothingSkipped
  <2> QED
    BY <2>7, <2>9, <2>10
<1>8. CASE Crash
  <2>1. ~Busy' /\ Sent' = Sent /\ offset' = 0 /\ next' = 1 /\ last' = 0
        /\ UNCHANGED <<confirmed, outcome>>
    BY <1>8 DEF Crash, Busy, Sent
  <2> QED
    BY <2>1, <1>0 DEF Placed, Behind, NothingSkipped, Settled
<1>9. CASE SendUpdate
  <2>1. Sent' = Sent + 1 /\ UNCHANGED <<confirmed, pc, offset, next, last, outcome>>
    BY <1>9 DEF SendUpdate, Sent, TypeOK
  <2>2. Placed' /\ NothingSkipped'
    BY <2>1 DEF Placed, NothingSkipped, Settled, Busy
  <2>3. Behind'
    BY <2>1, <1>0 DEF Behind, Settled, Busy, Cur
  <2> QED
    BY <2>2, <2>3
<1>10. CASE \/ Tick \/ UNCHANGED vars
            \/ \E u \in Users : \/ UnbindTelegramChat(u)
                              \/ \E t \in Tokens : CreateBindingToken(u, t)
  <2>1. Sent' = Sent /\ UNCHANGED <<confirmed, pc, offset, next, last, outcome>>
    BY <1>10 DEF Tick, vars, UnbindTelegramChat, CreateBindingToken, Sent
  <2> QED
    BY <2>1 DEF Placed, Behind, NothingSkipped, Settled, Busy, Cur
<1> QED
  BY <1>3, <1>4, <1>5, <1>6, <1>7, <1>8, <1>9, <1>10 DEF Next, HandleMessage

-----------------------------------------------------------------------------
(* An update is taken once for each start of the poller.                   *)
LEMMA CountStep ==
  ASSUME TypeOK, TypeOK', Placed, Unsent, Counted, [Next]_vars
  PROVE  Unsent' /\ Counted'
<1> USE DEF telegramVars, batchVars, rowVars, timeVars, updateVars, tokenVars
<1>0. /\ Sent \in Nat /\ offset \in 0..(Sent + 1) /\ crashes \in Nat
      /\ next \in 1..(Sent + 1) /\ last \in 0..Sent
      /\ Sent <= MaxUpdates /\ MaxUpdates \in Nat
      /\ times \in [1..MaxUpdates -> Nat]
      /\ answer \in [1..MaxUpdates -> {"none", "bound", "invalid", "text"}]
  <2>1. Sent \in Nat /\ MaxUpdates \in Nat /\ crashes \in Nat
    BY BindingAssumption DEF TypeOK, Sent
  <2> QED
    BY <2>1 DEF TypeOK
<1>1. CASE Take
  <2>1. /\ ~Busy /\ next <= last /\ Sent' = Sent /\ answer' = answer /\ crashes' = crashes
        /\ times' = [times EXCEPT ![next] = @ + 1] /\ Cur' = next
    BY <1>1, <1>0 DEF Take, Busy, Sent, Cur
  <2>2. offset <= next /\ offset' = next + 1
    <3>1. offset <= next
      BY <2>1 DEF Placed
    <3> QED
      BY <1>1, <1>0, <3>1 DEF Take, Later
  <2>3. Unsent'
    BY <2>1, <1>0 DEF Unsent
  <2>4. ASSUME NEW n \in 1..MaxUpdates
        PROVE  times'[n] <= crashes + (IF n < next + 1 THEN 1 ELSE 0)
    <3>1. times[n] <= crashes + (IF n < offset THEN 1 ELSE 0)
      BY DEF Counted
    <3> QED
      BY <2>1, <2>2, <3>1, <1>0
  <2>5. times'[next] > 0
    BY <2>1, <1>0
  <2> QED
    BY <2>1, <2>2, <2>3, <2>4, <2>5 DEF Counted
<1>2. CASE \/ FindActiveByHash \/ BindTelegramChat \/ MarkUsed \/ UpsertTelegramChat
           \/ Poll \/ PollFails \/ Tick \/ UNCHANGED vars \/ Fail
           \/ \E u \in Users : \/ UnbindTelegramChat(u)
                             \/ \E t \in Tokens : CreateBindingToken(u, t)
  <2>1. Sent' = Sent /\ UNCHANGED <<offset, crashes, times, answer>>
    BY <1>2 DEF FindActiveByHash, BindTelegramChat, MarkUsed, UpsertTelegramChat, Poll,
       PollFails, Tick, vars, Fail, UnbindTelegramChat, CreateBindingToken, Sent
  <2>2. Busy' => Busy /\ Cur' = Cur
    BY <1>2 DEF FindActiveByHash, BindTelegramChat, MarkUsed, UpsertTelegramChat, Poll,
       PollFails, Tick, vars, Fail, UnbindTelegramChat, CreateBindingToken, Busy, Cur
  <2> HIDE DEF Cur
  <2> QED
    BY <2>1, <2>2 DEF Unsent, Counted
<1>3. CASE SendMessage
  <2>1. Busy /\ ~Busy' /\ Sent' = Sent /\ UNCHANGED <<offset, crashes, times>>
    BY <1>3 DEF SendMessage, Busy, Sent, Answers
  <2>2. Cur \in 1..Sent
    BY <2>1, CurExists
  <2>3. \A n \in 1..MaxUpdates : n > Sent => answer'[n] = answer[n]
    BY <1>3, <2>2, <1>0 DEF SendMessage
  <2> QED
    BY <2>1, <2>3 DEF Unsent, Counted
<1>4. CASE Crash
  <2>1. /\ ~Busy' /\ Sent' = Sent /\ UNCHANGED <<times, answer>>
        /\ crashes' = crashes + 1 /\ offset' = 0
    BY <1>4 DEF Crash, Busy, Sent
  <2> QED
    BY <2>1, <1>0 DEF Unsent, Counted
<1>5. CASE SendUpdate
  <2>1. Sent' = Sent + 1 /\ UNCHANGED <<pc, next, offset, crashes, times, answer>>
    BY <1>5 DEF SendUpdate, Sent, TypeOK
  <2> QED
    BY <2>1, <1>0 DEF Unsent, Counted, Busy, Cur
<1> QED
  BY <1>1, <1>2, <1>3, <1>4, <1>5 DEF Next, HandleMessage

-----------------------------------------------------------------------------
(* The messages that exist stay as they are.                               *)
LEMMA MessagesStay ==
  ASSUME TypeOK, [Next]_vars, NEW n \in 1..Sent
  PROVE  n \in 1..Sent' /\ message'[n] = message[n] /\ message[n] \in Messages
<1> USE DEF telegramVars, batchVars, rowVars, timeVars, updateVars, tokenVars
<1>1. CASE SendUpdate
  <2>1. PICK m \in Messages : message' = Append(message, m)
    BY <1>1 DEF SendUpdate
  <2> QED
    BY <2>1 DEF TypeOK, Sent
<1>2. CASE message' = message
  BY <1>2 DEF TypeOK, Sent
<1>3. SendUpdate \/ message' = message
  BY DEF Next, HandleMessage, FindActiveByHash, BindTelegramChat, MarkUsed, UpsertTelegramChat,
     Poll, PollFails, Tick, vars, Fail, UnbindTelegramChat, CreateBindingToken, Take,
     SendMessage, Crash
<1> QED
  BY <1>1, <1>2, <1>3

(* A token keeps its owner and its expiry, and stays used.                 *)
LEMMA TokensStay ==
  ASSUME TypeOK, Placed, Known, Spent, [Next]_vars, NEW t \in Tokens
  PROVE  /\ Created(t) => /\ Created(t)' /\ token'[t].owner = token[t].owner
                          /\ token'[t].expires = token[t].expires
         /\ token[t].used => token'[t].used
         /\ token'[t].used => token[t].used \/ (pc = "mark" /\ Text = t)
<1> USE DEF telegramVars, batchVars, rowVars, timeVars, updateVars, tokenVars
<1>1. CASE MarkUsed
  <2>1. Text \in Tokens /\ pc = "mark"
    BY <1>1 DEF MarkUsed, Known
  <2> HIDE DEF Text
  <2> QED
    BY <1>1, <2>1 DEF MarkUsed, TypeOK, Created
<1>2. ASSUME NEW u \in Users, NEW x \in Tokens, CreateBindingToken(u, x)
      PROVE  /\ Created(t) => /\ Created(t)' /\ token'[t].owner = token[t].owner
                              /\ token'[t].expires = token[t].expires
             /\ token[t].used => token'[t].used
             /\ token'[t].used => token[t].used
  BY <1>2, BindingAssumption DEF CreateBindingToken, TypeOK, Created, Spent
<1>3. CASE token' = token
  BY <1>3 DEF Created
<1>4. \/ MarkUsed \/ token' = token
      \/ \E u \in Users, x \in Tokens : CreateBindingToken(u, x)
  BY DEF Next, HandleMessage, FindActiveByHash, BindTelegramChat, UpsertTelegramChat,
     Poll, PollFails, Tick, vars, Fail, UnbindTelegramChat, Take, SendMessage, Crash, SendUpdate
<1> QED
  BY <1>1, <1>2, <1>3, <1>4

(* A token that is not active stays so.                                    *)
LEMMA InactiveStays ==
  ASSUME TypeOK, TypeOK', Placed, Known, Spent, [Next]_vars,
         NEW t \in Tokens, Created(t), ~Active(t)
  PROVE  ~Active(t)'
<1>1. clock <= clock' /\ clock \in Nat /\ clock' \in Nat
  <2>1. clock \in Nat
    BY BindingAssumption DEF TypeOK
  <2> QED
    BY <2>1 DEF Next, HandleMessage, FindActiveByHash, BindTelegramChat, MarkUsed, UpsertTelegramChat,
     Poll, PollFails, Tick, vars, Fail, UnbindTelegramChat, CreateBindingToken, Take,
     SendMessage, Crash, SendUpdate,
       telegramVars, batchVars, rowVars, timeVars, updateVars, tokenVars
<1>2. /\ token'[t].expires = token[t].expires /\ token[t].expires \in Nat
      /\ token[t].used => token'[t].used
  BY TokensStay DEF TypeOK
<1> QED
  BY <1>1, <1>2 DEF Active

(* The current update stays the current one until its call is over; a new  *)
(* one comes from Take.                                                    *)
LEMMA CurrentStays ==
  ASSUME TypeOK, Placed, [Next]_vars, Busy, Busy'
  PROVE  /\ Cur' = Cur /\ Text' = Text /\ From' = From
         /\ Cur \in 1..Sent /\ From \in Chats
         /\ \/ pc' = pc
            \/ FindActiveByHash \/ BindTelegramChat \/ MarkUsed \/ UpsertTelegramChat
<1>1. Cur \in 1..Sent /\ From \in Chats
  BY CurExists
<1>2. Cur' = Cur
  BY DEF Busy, Cur, Next, HandleMessage, FindActiveByHash, BindTelegramChat, MarkUsed, UpsertTelegramChat,
     Poll, PollFails, Tick, vars, Fail, UnbindTelegramChat, CreateBindingToken, Take,
     SendMessage, Crash, SendUpdate,
     telegramVars, batchVars, rowVars, timeVars, updateVars, tokenVars
<1>3. message'[Cur] = message[Cur]
  <2> HIDE DEF Cur
  <2> QED
    BY <1>1, MessagesStay
<1>4. \/ pc' = pc
      \/ FindActiveByHash \/ BindTelegramChat \/ MarkUsed \/ UpsertTelegramChat
  BY DEF Busy, Next, HandleMessage, Poll, PollFails, Tick, vars, Fail, UnbindTelegramChat,
     CreateBindingToken, Take, SendMessage, Crash, SendUpdate
<1> QED
  BY <1>1, <1>2, <1>3, <1>4 DEF Text, From

LEMMA BusyComesFromTake ==
  ASSUME [Next]_vars, ~Busy, Busy'
  PROVE  Take
BY DEF Busy, Answers, Next, HandleMessage, Poll, PollFails, Tick, vars, Fail, UnbindTelegramChat,
   CreateBindingToken, SendMessage, Crash, SendUpdate, FindActiveByHash, BindTelegramChat,
   MarkUsed, UpsertTelegramChat

LEMMA TakeIs ==
  ASSUME TypeOK, Placed, Take
  PROVE  /\ Text' = message[next].text /\ next \in 1..Sent
         /\ pc' \in {"find", "upsert", "reply", "idle"}
         /\ pc' = "find" => Text' \in Tokens
<1>1. next \in 1..Sent
  BY DEF Take, TypeOK, Sent
<1>2. message[next] \in Messages
  BY <1>1 DEF TypeOK, Sent
<1>3. message' = message /\ next' = next + 1
  BY DEF Take, telegramVars
<1>4. Cur' = next
  BY <1>1, <1>3 DEF Cur, Sent, TypeOK
<1>5. Text' = message[next].text
  BY <1>3, <1>4 DEF Text
<1>6. message[next].text \in Texts
  BY <1>2 DEF Messages
<1> QED
  BY <1>1, <1>5, <1>6, FirstCalls DEF Take

-----------------------------------------------------------------------------
(* What the poller knows about the token of the current update.            *)
LEMMA KnownStep ==
  ASSUME TypeOK, TypeOK', Placed, Unsent, Known, Spent, [Next]_vars
  PROVE  Known'
<1> USE DEF telegramVars, batchVars, rowVars, timeVars, updateVars, tokenVars
<1>1. ASSUME NEW n \in 1..Sent', message'[n].text \in Tokens
      PROVE  token'[message'[n].text].owner # NoUser
  <2>1. CASE n \in 1..Sent
    <3>1. message'[n].text = message[n].text /\ message[n].text \in Tokens
      BY <1>1, <2>1, MessagesStay
    <3>2. Created(message[n].text)
      BY <2>1, <3>1 DEF Known
    <3> QED
      BY <3>1, <3>2, TokensStay DEF Created
  <2>2. CASE n \notin 1..Sent
    <3>1. SendUpdate
      BY <2>2 DEF Sent, Next, HandleMessage, FindActiveByHash, BindTelegramChat, MarkUsed,
         UpsertTelegramChat, Poll, PollFails, Tick, vars, Fail, UnbindTelegramChat,
         CreateBindingToken, Take, SendMessage, Crash
    <3>2. PICK m \in Messages : /\ m.text \in Tokens => Created(m.text)
                                /\ message' = Append(message, m)
      BY <3>1 DEF SendUpdate
    <3>3. message'[n] = m
      <4>1. message \in Seq(Messages) /\ n \in 1..Len(message')
        BY DEF TypeOK, Sent
      <4>2. n = Len(message) + 1
        BY <3>2, <2>2, <4>1 DEF Sent
      <4> QED
        BY <3>2, <4>1, <4>2
    <3>4. token' = token
      BY <3>1 DEF SendUpdate
    <3> QED
      BY <1>1, <3>2, <3>3, <3>4 DEF Created
  <2> QED
    BY <2>1, <2>2
<1>2. ASSUME NEW n \in 1..Sent', answer'[n] \in {"bound", "invalid"}
      PROVE  message'[n].text \in Tokens
  <2>1. CASE SendMessage
    <3>1. Cur \in 1..Sent /\ Sent' = Sent /\ message' = message
      BY <2>1, CurExists DEF SendMessage, Sent, Busy, Answers
    <3>2. CASE n = Cur
      <4>1. pc \in {"confirm", "refuse"}
        BY <1>2, <2>1, <3>1, <3>2 DEF SendMessage, Answers, TypeOK
      <4> QED
        BY <4>1, <3>1, <3>2 DEF Known, Text
    <3>3. CASE n # Cur
      <4>1. answer'[n] = answer[n]
        BY <2>1, <3>3 DEF SendMessage, TypeOK, Sent
      <4> QED
        BY <1>2, <3>1, <4>1 DEF Known
    <3> QED
      BY <3>2, <3>3
  <2>2. CASE ~SendMessage
    <3>1. answer' = answer
      BY <2>2 DEF Next, HandleMessage, FindActiveByHash, BindTelegramChat, MarkUsed,
         UpsertTelegramChat, Poll, PollFails, Tick, vars, Fail, UnbindTelegramChat,
         CreateBindingToken, Take, Crash, SendUpdate
    <3>2. n \in 1..MaxUpdates /\ n \in Nat
      BY BindingAssumption DEF TypeOK, Sent
    <3>3. n \in 1..Sent
      <4>1. ~(n > Sent)
        BY <1>2, <3>1, <3>2 DEF Unsent
      <4> QED
        BY <3>2, <4>1 DEF Sent, TypeOK
    <3> QED
      BY <1>2, <3>1, <3>3, MessagesStay DEF Known
  <2> QED
    BY <2>1, <2>2
<1>3. ASSUME pc' \in {"find", "bind", "mark", "confirm", "refuse"}
      PROVE  Text' \in Tokens
  <2>1. Busy'
    BY <1>3 DEF Busy
  <2>2. CASE Busy
    BY <1>3, <2>1, <2>2, CurrentStays
       DEF Known, FindActiveByHash, BindTelegramChat, MarkUsed, UpsertTelegramChat
  <2>3. CASE ~Busy
    BY <1>3, <2>1, <2>3, BusyComesFromTake, TakeIs
  <2> QED
    BY <2>2, <2>3
<1> QED
  BY <1>1, <1>2, <1>3 DEF Known, Created

(* A token binds in one action only, and is cut in two.                    *)
LEMMA BindsAndCuts ==
  ASSUME TypeOK, Known, [Next]_vars, NEW t \in Tokens
  PROVE  /\ binds[t] \in Nat /\ cuts[t] \in Nat /\ binds'[t] >= binds[t]
         /\ binds'[t] = IF BindTelegramChat /\ Text = t THEN binds[t] + 1 ELSE binds[t]
         /\ cuts'[t] = IF (Fail \/ Crash) /\ pc = "mark" /\ Text = t THEN cuts[t] + 1 ELSE cuts[t]
<1> USE DEF telegramVars, batchVars, rowVars, timeVars, updateVars, tokenVars
<1>1. binds \in [Tokens -> Nat] /\ cuts \in [Tokens -> Nat]
  BY DEF TypeOK
<1> HIDE DEF Text
<1>2. CASE BindTelegramChat
  <2>1. (~Fail /\ ~Crash) \/ pc # "mark"
    BY <1>2 DEF BindTelegramChat
  <2> QED
    BY <1>1, <1>2, <2>1 DEF BindTelegramChat
<1>3. CASE Fail \/ Crash
  <2>1. ~BindTelegramChat
    BY <1>3 DEF Fail, Crash, BindTelegramChat
  <2> QED
    BY <1>1, <1>3, <2>1 DEF Fail, Crash, Cut
<1>4. CASE ~(BindTelegramChat \/ Fail \/ Crash)
  <2>1. binds' = binds /\ cuts' = cuts
    BY <1>4 DEF Next, HandleMessage, Poll, PollFails, Tick, vars, UnbindTelegramChat,
       CreateBindingToken, Take, SendMessage, SendUpdate, FindActiveByHash, MarkUsed,
       UpsertTelegramChat
  <2> QED
    BY <1>1, <1>4, <2>1
<1> QED
  BY <1>2, <1>3, <1>4

LEMMA SpentStep ==
  ASSUME TypeOK, TypeOK', Placed, Known, Known', Spent, [Next]_vars
  PROVE  Spent'
<1>1. ASSUME NEW t \in Tokens, token'[t].used
      PROVE  Created(t)' /\ binds'[t] >= 1
  <2>1. binds'[t] >= binds[t] /\ binds[t] \in Nat /\ binds'[t] \in Nat
    BY BindsAndCuts DEF TypeOK
  <2>2. CASE token[t].used
    BY <2>1, <2>2, TokensStay DEF Spent
  <2>3. CASE pc = "mark" /\ Text = t
    <3>1. Created(t) /\ binds[t] >= 1
      BY <2>3, CurExists DEF Known, Spent, Busy, Text
    <3> QED
      BY <2>1, <3>1, TokensStay
  <2> QED
    BY <1>1, <2>2, <2>3, TokensStay
<1>2. ASSUME NEW t \in Tokens
      PROVE  binds'[t] <= cuts'[t]
               + (IF token'[t].used \/ (pc' = "mark" /\ Text' = t) THEN 1 ELSE 0)
  <2>1. /\ binds[t] \in Nat /\ cuts[t] \in Nat
        /\ binds'[t] = IF BindTelegramChat /\ Text = t THEN binds[t] + 1 ELSE binds[t]
        /\ cuts'[t] = IF (Fail \/ Crash) /\ pc = "mark" /\ Text = t THEN cuts[t] + 1 ELSE cuts[t]
    BY BindsAndCuts
  <2>2. binds[t] <= cuts[t] + (IF token[t].used \/ (pc = "mark" /\ Text = t) THEN 1 ELSE 0)
    BY DEF Spent
  <2>3. token[t].used => token'[t].used
    BY TokensStay
  <2>4. CASE BindTelegramChat /\ Text = t
    <3>1. pc = "bind" /\ pc' = "mark" /\ Text' = t /\ ~token[t].used
      BY <2>4, CurrentStays DEF BindTelegramChat, Busy, Spent
    <3>2. cuts'[t] = cuts[t]
      BY <2>1, <3>1
    <3> QED
      BY <2>1, <2>2, <2>4, <3>1, <3>2
  <2>5. CASE ~(BindTelegramChat /\ Text = t) /\ pc = "mark" /\ Text = t
    <3>1. CASE Fail \/ Crash
      BY <2>1, <2>2, <2>5, <3>1
    <3>2. CASE MarkUsed
      <4>1. token'[t].used
        BY <2>5, <3>2 DEF MarkUsed, TypeOK
      <4> QED
        BY <2>1, <2>2, <2>5, <4>1
    <3>3. CASE ~(Fail \/ Crash \/ MarkUsed)
      <4>1. pc' = "mark"
        BY <2>5, <3>3 DEF Next, HandleMessage, Poll, PollFails, Tick, vars, UnbindTelegramChat,
           CreateBindingToken, Take, SendMessage, SendUpdate, FindActiveByHash,
           BindTelegramChat, UpsertTelegramChat, Answers
      <4>2. Text' = t
        BY <2>5, <4>1, CurrentStays DEF Busy
      <4> QED
        BY <2>1, <2>2, <2>5, <4>1, <4>2
    <3> QED
      BY <3>1, <3>2, <3>3
  <2>6. CASE ~(pc = "mark" /\ Text = t) /\ ~(BindTelegramChat /\ Text = t)
    <3>1. binds'[t] = binds[t] /\ cuts'[t] = cuts[t]
      BY <2>1, <2>6
    <3> QED
      BY <2>1, <2>2, <2>3, <2>6, <3>1
  <2> QED
    BY <2>4, <2>5, <2>6
<1>3. ASSUME pc' = "bind"
      PROVE  ~token'[Text'].used
  <2>1. Busy /\ Text' = Text /\ Text \in Tokens /\ pc # "mark" /\ ~token[Text].used
    <3>1. Busy' /\ Busy
      BY <1>3, BusyComesFromTake, TakeIs DEF Busy
    <3>2. \/ pc = "bind"
          \/ FindActiveByHash /\ pc = "find" /\ Active(Text)
      BY <1>3, <3>1, CurrentStays
         DEF FindActiveByHash, BindTelegramChat, MarkUsed, UpsertTelegramChat
    <3> QED
      BY <3>1, <3>2, CurrentStays DEF Spent, Known, Active
  <2> HIDE DEF Text
  <2> QED
    BY <2>1, TokensStay
<1>4. ASSUME pc' = "mark"
      PROVE  binds'[Text'] >= 1
  <2>1. Busy' /\ Busy
    BY <1>4, BusyComesFromTake, TakeIs DEF Busy
  <2>2. (pc = "mark" \/ (BindTelegramChat /\ pc = "bind")) /\ Text' = Text
    BY <1>4, <2>1, CurrentStays
       DEF FindActiveByHash, BindTelegramChat, MarkUsed, UpsertTelegramChat
  <2>3. Text \in Tokens
    BY <2>2 DEF Known
  <2>4. /\ binds[Text] \in Nat /\ binds'[Text] \in {binds[Text], binds[Text] + 1}
        /\ BindTelegramChat => binds'[Text] = binds[Text] + 1
    <3> HIDE DEF Text
    <3> QED
      BY <2>3, BindsAndCuts
  <2>5. pc = "mark" => binds[Text] >= 1
    BY DEF Spent
  <2> QED
    BY <2>2, <2>4, <2>5
<1> QED
  BY <1>1, <1>2, <1>3, <1>4 DEF Spent

LEMMA ToldStep ==
  ASSUME TypeOK, TypeOK', Placed, Known, Known', Spent, Told, [Next]_vars
  PROVE  Told'
<1>1. ASSUME pc' = "confirm"
      PROVE  token'[Text'].used
  <2>1. Busy' /\ Busy
    BY <1>1, BusyComesFromTake, TakeIs DEF Busy
  <2>2. (pc = "confirm" \/ (MarkUsed /\ pc = "mark")) /\ Text' = Text
    BY <1>1, <2>1, CurrentStays
       DEF FindActiveByHash, BindTelegramChat, MarkUsed, UpsertTelegramChat
  <2>3. Text \in Tokens
    BY <2>2 DEF Known
  <2>4. MarkUsed => token'[Text].used
    <3> HIDE DEF Text
    <3> QED
      BY <2>3 DEF MarkUsed, TypeOK
  <2>5. pc = "confirm" => token'[Text].used
    <3>1. pc = "confirm" => token[Text].used
      BY DEF Told
    <3> HIDE DEF Text
    <3> QED
      BY <2>3, <3>1, TokensStay
  <2> QED
    BY <2>2, <2>4, <2>5
<1>2. ASSUME pc' = "refuse"
      PROVE  ~Active(Text)'
  <2>1. Busy' /\ Busy
    BY <1>2, BusyComesFromTake, TakeIs DEF Busy
  <2>2. /\ pc = "refuse" \/ (FindActiveByHash /\ pc = "find" /\ ~Active(Text))
        /\ Text' = Text /\ Cur \in 1..Sent
    BY <1>2, <2>1, CurrentStays
       DEF FindActiveByHash, BindTelegramChat, MarkUsed, UpsertTelegramChat
  <2>3. Text \in Tokens /\ ~Active(Text) /\ Created(Text)
    BY <2>2 DEF Known, Told, Text
  <2>4. PICK t \in Tokens : t = Text
    BY <2>3
  <2>5. ~Active(t)'
    BY <2>3, <2>4, InactiveStays
  <2> QED
    BY <2>2, <2>4, <2>5 DEF Active
<1> QED
  BY <1>1, <1>2 DEF Told

-----------------------------------------------------------------------------
(* A chat belongs to the account whose token it presented, and to no other.*)
LEMMA Presented ==
  ASSUME TypeOK, Placed, Known, Spent, [Next]_vars,
         NEW u \in Users, NEW c \in Chats, NEW n \in 1..Sent,
         message[n].chat = c, message[n].text \in Tokens,
         token[message[n].text].owner = u, times[n] > 0
  PROVE  \E m \in 1..Sent' : /\ message'[m].chat = c
                             /\ message'[m].text \in Tokens
                             /\ token'[message'[m].text].owner = u
                             /\ times'[m] > 0
<1>1. n \in 1..Sent' /\ message'[n] = message[n]
  BY MessagesStay
<1>2. token'[message[n].text].owner = u
  BY TokensStay DEF Known
<1>3. times'[n] > 0
  <2>1. n \in 1..MaxUpdates /\ times \in [1..MaxUpdates -> Nat]
    BY BindingAssumption DEF TypeOK, Sent
  <2>2. times' = times \/ times' = [times EXCEPT ![next] = @ + 1]
    BY DEF Next, HandleMessage, Poll, PollFails, Tick, vars, UnbindTelegramChat,
       CreateBindingToken, Take, SendMessage, SendUpdate, FindActiveByHash, MarkUsed,
       BindTelegramChat, UpsertTelegramChat, Fail, Crash, telegramVars, batchVars, rowVars, timeVars, updateVars, tokenVars
  <2>3. times'[n] \in {times[n], times[n] + 1} /\ times[n] \in Nat
    BY <2>1, <2>2
  <2> QED
    BY <2>3
<1> QED
  BY <1>1, <1>2, <1>3

LEMMA OwnerStep ==
  ASSUME TypeOK, TypeOK', Placed, Counted, Known, Spent, BoundByOwner, [Next]_vars
  PROVE  BoundByOwner'
<1> USE DEF telegramVars, batchVars, rowVars, timeVars, updateVars, tokenVars
<1>0. NoChat \notin Chats /\ chat \in [Users -> Chats \cup {NoChat}]
  BY BindingAssumption DEF TypeOK
<1>1. ASSUME NEW u \in Users, chat'[u] = chat[u], chat[u] # NoChat
      PROVE  \E m \in 1..Sent' : /\ message'[m].chat = chat'[u]
                                 /\ message'[m].text \in Tokens
                                 /\ token'[message'[m].text].owner = u
                                 /\ times'[m] > 0
  BY <1>0, <1>1, Presented DEF BoundByOwner
<1>2. CASE BindTelegramChat
  <2>1. /\ Cur \in 1..Sent /\ From \in Chats /\ times[Cur] > 0 /\ Text \in Tokens
        /\ Created(Text) /\ Free(From, token[Text].owner)
        /\ chat' = [chat EXCEPT ![token[Text].owner] = From] /\ saved' = saved
    BY <1>2, CurExists DEF BindTelegramChat, Busy, Known, Counted, Text
  <2>2. token[Text].owner \in Users
    <3> HIDE DEF Text
    <3> QED
      BY <2>1 DEF TypeOK, Created
  <2>3. PICK w \in Users : w = token[Text].owner
    BY <2>2
  <2>4. chat' = [chat EXCEPT ![w] = From] /\ Free(From, w)
    BY <2>1, <2>3
  <2>5. \E m \in 1..Sent' : /\ message'[m].chat = From
                            /\ message'[m].text \in Tokens
                            /\ token'[message'[m].text].owner = w
                            /\ times'[m] > 0
    <3>1. message[Cur].chat = From /\ message[Cur].text = Text
      BY DEF From, Text
    <3> HIDE DEF Cur, From, Text
    <3> QED
      BY <2>1, <2>3, <3>1, Presented
  <2>6. ASSUME NEW u \in Users, chat'[u] # NoChat
        PROVE  /\ \E m \in 1..Sent' : /\ message'[m].chat = chat'[u]
                                       /\ message'[m].text \in Tokens
                                       /\ token'[message'[m].text].owner = u
                                       /\ times'[m] > 0
               /\ chat'[u] \notin saved'
               /\ \A v \in Users \ {u} : chat'[v] # chat'[u]
    <3> HIDE DEF From
    <3>1. CASE u = w
      <4>1. chat'[u] = From
        BY <2>4, <3>1, <1>0
      <4>2. \A v \in Users \ {u} : chat'[v] = chat[v]
        BY <2>4, <3>1, <1>0
      <4> QED
        BY <2>1, <2>4, <2>5, <3>1, <4>1, <4>2 DEF Free
    <3>2. CASE u # w
      <4>1. chat'[u] = chat[u] /\ chat'[w] = From
        BY <2>4, <3>2, <1>0
      <4>2. chat[u] # From
        BY <2>4, <3>2 DEF Free
      <4>3. \A v \in Users \ {u} : chat'[v] # chat'[u]
        <5>1. \A v \in Users \ {u} : chat[v] # chat[u]
          BY <2>6, <4>1 DEF BoundByOwner
        <5> QED
          BY <2>4, <4>1, <4>2, <5>1, <1>0
      <4> QED
        BY <1>1, <2>1, <2>6, <4>1, <4>3 DEF BoundByOwner
    <3> QED
      BY <3>1, <3>2
  <2> QED
    BY <2>6 DEF BoundByOwner
<1>3. CASE UpsertTelegramChat
  <2>1. /\ chat' = chat
        /\ \/ saved' = saved
           \/ saved' = saved \cup {From} /\ \A v \in Users : chat[v] # From
    BY <1>3 DEF UpsertTelegramChat
  <2> QED
    BY <1>1, <2>1 DEF BoundByOwner
<1>4. ASSUME NEW w \in Users, UnbindTelegramChat(w)
      PROVE  BoundByOwner'
  <2>1. chat' = [chat EXCEPT ![w] = NoChat] /\ saved' = saved
    BY <1>4 DEF UnbindTelegramChat
  <2>2. ASSUME NEW u \in Users, chat'[u] # NoChat
        PROVE  /\ chat'[u] = chat[u] /\ chat'[u] \notin saved'
               /\ \A v \in Users \ {u} : chat'[v] # chat'[u]
    BY <2>1, <2>2, <1>0 DEF BoundByOwner
  <2> QED
    BY <1>1, <2>2 DEF BoundByOwner
<1>5. CASE chat' = chat /\ saved' = saved
  BY <1>1, <1>5 DEF BoundByOwner
<1>6. \/ BindTelegramChat \/ UpsertTelegramChat
      \/ \E w \in Users : UnbindTelegramChat(w)
      \/ chat' = chat /\ saved' = saved
  BY DEF Next, HandleMessage, Poll, PollFails, Tick, vars, CreateBindingToken, Take,
     SendMessage, SendUpdate, FindActiveByHash, MarkUsed, Fail, Crash
<1> QED
  BY <1>2, <1>3, <1>4, <1>5, <1>6

-----------------------------------------------------------------------------
(* An answer that was true stays true.                                     *)
LEMMA AnswerStep ==
  ASSUME TypeOK, TypeOK', Placed, Unsent, Known, Spent, Told, AnswersTrue, [Next]_vars
  PROVE  AnswersTrue'
<1>1. ASSUME NEW n \in 1..Sent', answer'[n] \in {"bound", "invalid"}
      PROVE  /\ n \in 1..Sent /\ message'[n] = message[n] /\ message[n].text \in Tokens
             /\ answer'[n] = "bound" => token[message[n].text].used
             /\ answer'[n] = "invalid" => ~Active(message[n].text)
  <2>1. CASE SendMessage /\ n = Cur
    <3>1. Cur \in 1..Sent /\ message' = message
      BY <2>1, CurExists DEF SendMessage, Busy, Answers, telegramVars
    <3>2. answer'[n] = Answers[pc] /\ pc \in DOMAIN Answers
      BY <2>1, CurExists DEF SendMessage, TypeOK, Busy, Answers
    <3>3. /\ answer'[n] = "bound" => pc = "confirm"
          /\ answer'[n] = "invalid" => pc = "refuse"
      BY <3>2 DEF Answers
    <3> QED
      BY <1>1, <2>1, <3>1, <3>3 DEF Known, Told, Text
  <2>2. CASE ~(SendMessage /\ n = Cur)
    <3>1. n \in 1..MaxUpdates
      BY BindingAssumption DEF TypeOK, Sent
    <3>2. answer'[n] = answer[n]
      <4>1. CASE SendMessage
        BY <2>2, <3>1, <4>1 DEF SendMessage, TypeOK
      <4>2. CASE ~SendMessage
        BY <4>2 DEF Next, HandleMessage, FindActiveByHash, BindTelegramChat, MarkUsed,
           UpsertTelegramChat, Poll, PollFails, Tick, vars, Fail, UnbindTelegramChat,
           CreateBindingToken, Take, Crash, SendUpdate, updateVars
      <4> QED
        BY <4>1, <4>2
    <3>3. ~(n > Sent)
      BY <1>1, <3>1, <3>2 DEF Unsent
    <3>4. n \in 1..Sent
      BY <3>1, <3>3 DEF Sent, TypeOK
    <3> QED
      BY <1>1, <3>2, <3>4, MessagesStay DEF Known, AnswersTrue
  <2> QED
    BY <2>1, <2>2
<1>2. ASSUME NEW n \in 1..Sent', answer'[n] = "bound"
      PROVE  token'[message'[n].text].used
  BY <1>1, <1>2, TokensStay
<1>3. ASSUME NEW n \in 1..Sent', answer'[n] = "invalid"
      PROVE  ~(~token'[message'[n].text].used /\ clock' < token'[message'[n].text].expires)
  <2>1. PICK t \in Tokens : t = message'[n].text
    BY <1>1, <1>3
  <2>2. ~Active(t) /\ Created(t)
    BY <1>1, <1>3, <2>1 DEF Known
  <2>3. ~Active(t)'
    BY <2>2, InactiveStays
  <2> QED
    BY <2>1, <2>3 DEF Active
<1> QED
  BY <1>2, <1>3 DEF AnswersTrue, Active

-----------------------------------------------------------------------------
LEMMA InitOK == Init => IInv
<1> SUFFICES ASSUME Init PROVE IInv
  OBVIOUS
<1> USE BindingAssumption
<1>1. TypeOK
  BY InitType
<1>2. Sent = 0
  BY DEF Init, Sent
<1>3. Placed /\ Behind /\ NothingSkipped /\ Unsent /\ Counted
  BY <1>2 DEF Init, Placed, Behind, NothingSkipped, Unsent, Counted, Busy
<1>4. Known /\ Spent /\ Told
  BY <1>2 DEF Init, Known, Spent, Told
<1>5. BoundByOwner /\ AnswersTrue
  BY <1>2 DEF Init, BoundByOwner, AnswersTrue
<1> QED
  BY <1>1, <1>3, <1>4, <1>5 DEF IInv

LEMMA NextOK == IInv /\ [Next]_vars => IInv'
<1> SUFFICES ASSUME IInv, [Next]_vars PROVE IInv'
  OBVIOUS
<1>1. TypeOK'
  BY TypeStep DEF IInv
<1>2. Placed' /\ Behind' /\ NothingSkipped'
  BY <1>1, BatchStep DEF IInv
<1>3. Unsent' /\ Counted'
  BY <1>1, CountStep DEF IInv
<1>4. Known'
  BY <1>1, KnownStep DEF IInv
<1>5. Spent' /\ Told'
  BY <1>1, <1>4, SpentStep, ToldStep DEF IInv
<1>6. BoundByOwner' /\ AnswersTrue'
  BY <1>1, OwnerStep, AnswerStep DEF IInv
<1> QED
  BY <1>1, <1>2, <1>3, <1>4, <1>5, <1>6 DEF IInv

(* What each property takes from the invariant.                            *)
LEMMA Implies == IInv => HandledOnce /\ TokenOnce
<1> SUFFICES ASSUME IInv PROVE HandledOnce /\ TokenOnce
  OBVIOUS
<1>1. HandledOnce
  <2>1. crashes \in Nat /\ Sent <= MaxUpdates /\ Sent \in Nat /\ MaxUpdates \in Nat
        /\ times \in [1..MaxUpdates -> Nat]
    BY BindingAssumption DEF IInv, TypeOK, Sent
  <2> QED
    BY <2>1 DEF IInv, Counted, HandledOnce
<1>2. TokenOnce
  <2>1. binds \in [Tokens -> Nat] /\ cuts \in [Tokens -> Nat]
    BY DEF IInv, TypeOK
  <2>2. ASSUME NEW t \in Tokens
        PROVE  binds[t] <= 1 + cuts[t]
    BY <2>1 DEF IInv, Spent
  <2> QED
    BY <2>2 DEF IInv, Spent, TokenOnce
<1> QED
  BY <1>1, <1>2

LEMMA Invariant == Spec => []IInv
BY InitOK, NextOK, PTL DEF Spec

(* Every variable keeps its type (TelegramPoller and the rows it writes).  *)
THEOREM TypeCorrect == Spec => []TypeOK
BY Invariant, PTL DEF IInv

(* Telegram never drops an update the bot has not settled, whatever fails  *)
(* and however often the process restarts (PollOnce).                      *)
THEOREM NothingSkippedHolds == Spec => []NothingSkipped
BY Invariant, PTL DEF IInv

(* An update is handled at most once for each start of the process.        *)
THEOREM HandledOnceHolds == Spec => []HandledOnce
BY Invariant, Implies, PTL

(* A token binds once, and once more for every run stopped between the     *)
(* binding and the mark (TelegramBindingService.BindTelegramChat).         *)
THEOREM TokenOnceHolds == Spec => []TokenOnce
BY Invariant, Implies, PTL

(* An account only has a chat that presented a token of that account, and  *)
(* no two rows share a chat (UserRepo.BindTelegramChat).                   *)
THEOREM BoundByOwnerHolds == Spec => []BoundByOwner
BY Invariant, PTL DEF IInv

(* What the bot answered to a token stays true.                            *)
THEOREM AnswersTrueHolds == Spec => []AnswersTrue
BY Invariant, PTL DEF IInv
=============================================================================
