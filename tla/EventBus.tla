------------------------------- MODULE EventBus -------------------------------
(***************************************************************************)
(* internal/eventbus: Publish copies the list of subscriber channels under *)
(* a read lock and then sends to each of them WITHOUT the lock, while      *)
(* Subscribe's goroutine unregisters and closes a channel as soon as the   *)
(* context is done.  Publishers are the collector goroutines, subscribers  *)
(* the goroutines that range over their channel (cmd/server: one).         *)
(***************************************************************************)
EXTENDS Integers, Sequences

CONSTANTS
  Publishers,
  Subscribers,
  Buffer,       \* capacity of a subscriber channel (New: at least 1)
  MaxEvents     \* bound: events each publisher publishes

ASSUME BusAssumption ==
  /\ Buffer \in Nat \ {0}
  /\ MaxEvents \in Nat

VARIABLES
  subscribers,  \* Bus.subscribers, one channel per subscriber
  chan,         \* chan[s]: what the channel of s buffers
  closed,       \* subscribers whose channel is closed
  canceled,     \* the root context is done
  crashed,      \* a send on a closed channel has panicked
  exited,       \* main has returned: the goroutines are gone
  ppc,          \* ppc[p]: is p inside Publish?
  sent,         \* sent[p]: number of the last event p gave to Publish
  left,         \* left[p]: the copied channels p has not sent to yet
  rpc,          \* rpc[s]: has s subscribed, has its range loop ended?
  log,          \* history: what was sent to the channel of s
  read          \* history: what s has received

publisherVars == <<ppc, sent, left>>
historyVars == <<log, read>>
vars == <<subscribers, chan, closed, canceled, crashed, exited, publisherVars, rpc, historyVars>>

Init ==
  /\ subscribers = <<>>
  /\ chan = [s \in Subscribers |-> <<>>]
  /\ closed = {}
  /\ canceled = FALSE
  /\ crashed = FALSE
  /\ exited = FALSE
  /\ ppc = [p \in Publishers |-> "idle"]
  /\ sent = [p \in Publishers |-> 0]
  /\ left = [p \in Publishers |-> <<>>]
  /\ rpc = [s \in Subscribers |-> "new"]
  /\ log = [s \in Subscribers |-> <<>>]
  /\ read = [s \in Subscribers |-> <<>>]

Running == ~crashed /\ ~exited

-----------------------------------------------------------------------------
(* Publish: the copy under the read lock.                                  *)
Copy(p) ==
  /\ Running
  /\ ppc[p] = "idle"
  /\ sent[p] < MaxEvents
  /\ sent' = [sent EXCEPT ![p] = @ + 1]
  /\ left' = [left EXCEPT ![p] = subscribers]
  /\ ppc' = [ppc EXCEPT ![p] = "sending"]
  /\ UNCHANGED <<subscribers, chan, closed, canceled, crashed, exited, rpc, historyVars>>

(* Definitions named Faulty... are slips a change to the code could make;   *)
(* no specification uses them.  Each is substituted for the definition     *)
(* below it to confirm that a property notices.                            *)

(* select with a default case: a full channel is skipped.                  *)
FaultyDroppingSend(p) ==
  /\ Running /\ ppc[p] = "sending" /\ left[p] # <<>>
  /\ LET s == Head(left[p]) IN
       IF Len(chan[s]) < Buffer
         THEN /\ s \notin closed
              /\ chan' = [chan EXCEPT ![s] = Append(@, <<p, sent[p]>>)]
              /\ log' = [log EXCEPT ![s] = Append(@, <<p, sent[p]>>)]
         ELSE UNCHANGED <<chan, log>>
  /\ left' = [left EXCEPT ![p] = Tail(@)]
  /\ UNCHANGED <<subscribers, closed, canceled, crashed, exited, ppc, sent, rpc, read>>

(* The loop over the copied channels does not advance.                     *)
FaultyRepeatedSend(p) ==
  /\ Running /\ ppc[p] = "sending" /\ left[p] # <<>>
  /\ LET s == Head(left[p]) IN
       /\ s \notin closed
       /\ Len(chan[s]) < Buffer
       /\ chan' = [chan EXCEPT ![s] = Append(@, <<p, sent[p]>>)]
       /\ log' = [log EXCEPT ![s] = Append(@, <<p, sent[p]>>)]
       /\ left' \in {left, [left EXCEPT ![p] = Tail(@)]}
  /\ UNCHANGED <<subscribers, closed, canceled, crashed, exited, ppc, sent, rpc, read>>

(* select, case sub <- event: the channel is open and has room.            *)
Send(p) ==
  /\ Running
  /\ ppc[p] = "sending"
  /\ left[p] # <<>>
  /\ LET s == Head(left[p]) IN
       /\ s \notin closed
       /\ Len(chan[s]) < Buffer
       /\ chan' = [chan EXCEPT ![s] = Append(@, <<p, sent[p]>>)]
       /\ log' = [log EXCEPT ![s] = Append(@, <<p, sent[p]>>)]
  /\ left' = [left EXCEPT ![p] = Tail(@)]
  /\ UNCHANGED <<subscribers, closed, canceled, crashed, exited, ppc, sent, rpc, read>>

(* The same case on a closed channel: the runtime panics.                  *)
Panic(p) ==
  /\ Running
  /\ ppc[p] = "sending"
  /\ left[p] # <<>>
  /\ Head(left[p]) \in closed
  /\ crashed' = TRUE
  /\ UNCHANGED <<subscribers, chan, closed, canceled, exited, publisherVars, rpc, historyVars>>

(* select, case <-ctx.Done(): also chosen when the send could proceed.     *)
GiveUp(p) ==
  /\ Running
  /\ ppc[p] = "sending"
  /\ left[p] # <<>>
  /\ canceled
  /\ ppc' = [ppc EXCEPT ![p] = "idle"]
  /\ left' = [left EXCEPT ![p] = <<>>]
  /\ UNCHANGED <<subscribers, chan, closed, canceled, crashed, exited, sent, rpc, historyVars>>

Return(p) ==
  /\ Running
  /\ ppc[p] = "sending"
  /\ left[p] = <<>>
  /\ ppc' = [ppc EXCEPT ![p] = "idle"]
  /\ UNCHANGED <<subscribers, chan, closed, canceled, crashed, exited, sent, left, rpc, historyVars>>

Subscribe(s) ==
  /\ Running
  /\ rpc[s] = "new"
  /\ subscribers' = Append(subscribers, s)
  /\ rpc' = [rpc EXCEPT ![s] = "ranging"]
  /\ UNCHANGED <<chan, closed, canceled, crashed, exited, publisherVars, historyVars>>

(* The goroutine does not wait for the context.                            *)
FaultyEarlyUnsubscribe(s) ==
  /\ Running
  /\ \E i \in 1..Len(subscribers) :
       /\ subscribers[i] = s
       /\ subscribers' = SubSeq(subscribers, 1, i - 1)
                           \o SubSeq(subscribers, i + 1, Len(subscribers))
  /\ closed' = closed \cup {s}
  /\ UNCHANGED <<chan, canceled, crashed, exited, publisherVars, rpc, historyVars>>

(* The goroutine Subscribe starts: remove and close under the write lock.  *)
Unsubscribe(s) ==
  /\ Running
  /\ canceled
  /\ \E i \in 1..Len(subscribers) :
       /\ subscribers[i] = s
       /\ subscribers' = SubSeq(subscribers, 1, i - 1)
                           \o SubSeq(subscribers, i + 1, Len(subscribers))
  /\ closed' = closed \cup {s}
  /\ UNCHANGED <<chan, canceled, crashed, exited, publisherVars, rpc, historyVars>>

(* for event := range sub                                                  *)
Receive(s) ==
  /\ Running
  /\ rpc[s] = "ranging"
  /\ chan[s] # <<>>
  /\ read' = [read EXCEPT ![s] = Append(@, Head(chan[s]))]
  /\ chan' = [chan EXCEPT ![s] = Tail(@)]
  /\ UNCHANGED <<subscribers, closed, canceled, crashed, exited, publisherVars, rpc, log>>

(* The consumer returns while its channel is open.                         *)
FaultyEndRange(s) ==
  /\ Running
  /\ rpc[s] = "ranging"
  /\ rpc' = [rpc EXCEPT ![s] = "done"]
  /\ UNCHANGED <<subscribers, chan, closed, canceled, crashed, exited, publisherVars, historyVars>>

(* The loop ends when the channel is closed and drained.                   *)
EndRange(s) ==
  /\ Running
  /\ rpc[s] = "ranging"
  /\ s \in closed
  /\ chan[s] = <<>>
  /\ rpc' = [rpc EXCEPT ![s] = "done"]
  /\ UNCHANGED <<subscribers, chan, closed, canceled, crashed, exited, publisherVars, historyVars>>

(* SIGINT or SIGTERM cancels the root context.                             *)
Cancel ==
  /\ Running
  /\ ~canceled
  /\ canceled' = TRUE
  /\ UNCHANGED <<subscribers, chan, closed, crashed, exited, publisherVars, rpc, historyVars>>

(* main waits for the HTTP server only (server.Shutdown) and returns: what *)
(* the channels buffer, and what a goroutine is doing, is lost.            *)
Exit ==
  /\ Running
  /\ canceled
  /\ exited' = TRUE
  /\ UNCHANGED <<subscribers, chan, closed, canceled, crashed, publisherVars, rpc, historyVars>>

InPublish(p) == Send(p) \/ Panic(p) \/ GiveUp(p) \/ Return(p)
InRange(s) == Receive(s) \/ EndRange(s)

Next ==
  \/ \E p \in Publishers : Copy(p) \/ InPublish(p)
  \/ \E s \in Subscribers : Subscribe(s) \/ Unsubscribe(s) \/ InRange(s)
  \/ Cancel \/ Exit

Spec == Init /\ [][Next]_vars

(* Goroutines that can run are scheduled; every HandleEvent call returns,  *)
(* so a subscriber keeps receiving.                                        *)
FairSpec ==
  /\ Spec
  /\ \A p \in Publishers : WF_vars(InPublish(p))
  /\ \A s \in Subscribers : WF_vars(Subscribe(s)) /\ WF_vars(Unsubscribe(s)) /\ WF_vars(InRange(s))

-----------------------------------------------------------------------------
Events == Publishers \X (1..MaxEvents)

(* Type correctness.                                                       *)
TypeOK ==
  /\ subscribers \in Seq(Subscribers)
  /\ chan \in [Subscribers -> Seq(Events)]
  /\ closed \in SUBSET Subscribers
  /\ canceled \in BOOLEAN
  /\ crashed \in BOOLEAN
  /\ exited \in BOOLEAN
  /\ ppc \in [Publishers -> {"idle", "sending"}]
  /\ sent \in [Publishers -> 0..MaxEvents]
  /\ left \in [Publishers -> Seq(Subscribers)]
  /\ rpc \in [Subscribers -> {"new", "ranging", "done"}]
  /\ log \in [Subscribers -> Seq(Events)]
  /\ read \in [Subscribers -> Seq(Events)]

(* p still has to send its current event to s.                             *)
Owes(p, s) == ppc[p] = "sending" /\ \E i \in 1..Len(left[p]) : left[p][i] = s

Streamed(s) == {log[s][i] : i \in 1..Len(log[s])}

(* A slow subscriber makes publishers wait, it never makes them skip: up   *)
(* to the cancellation, the events of a publisher reach a subscriber from  *)
(* the first one it got to the last one published, save the one whose      *)
(* Publish still waits (Publish: select without a default case).           *)
NoGap ==
  ~canceled =>
    \A s \in Subscribers, e \in Events :
      e \in Streamed(s) =>
        \A k \in e[2]..sent[e[1]] :
          <<e[1], k>> \in Streamed(s) \/ (k = sent[e[1]] /\ Owes(e[1], s))

(* The send on a closed channel is confined to the shutdown: while the     *)
(* context is alive no channel is closed and the bus cannot panic.         *)
CrashOnlyAtShutdown == closed # {} \/ crashed => canceled

(* The stream of each subscriber is what EventStream promises.             *)
Streams == INSTANCE EventStream WITH Lag <- Buffer

(* Publish and the range loop implement the per-subscriber stream: in the  *)
(* order of each publisher, each event once, read without gap or repeat.   *)
StreamSpec == Streams!Spec

(* Publish returns, or the process has ended: backpressure ends.           *)
PublishReturns == \A p \in Publishers : ppc[p] = "sending" ~> ppc[p] = "idle" \/ ~Running

Received(s) == {read[s][i] : i \in 1..Len(read[s])}

(* Until the context is canceled no event is stranded in a channel: what   *)
(* Publish has sent, the range loop receives.  The shutdown does not wait  *)
(* for it: main may return with events still buffered (Publish; the        *)
(* consumer goroutine and the end of main in cmd/server).                  *)
EventsReceived ==
  \A s \in Subscribers, e \in Events : e \in Streamed(s) ~> e \in Received(s) \/ canceled
=============================================================================
