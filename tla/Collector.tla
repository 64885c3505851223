------------------------------ MODULE Collector ------------------------------
(***************************************************************************)
(* One WebSocket collector of internal/collector: Start dials, serves the  *)
(* connection (runConnection), and after a failure waits for the backoff   *)
(* and dials again.  Next to that loop run the heartbeat goroutine of the  *)
(* connection (keepAlive), a goroutine that closes it when the context is  *)
(* done, the exchange, and the readers of Status.                          *)
(*                                                                         *)
(* Timers count down.  Local steps take no time; a dial, a blocked Publish *)
(* and the wait for a message do.                                          *)
(***************************************************************************)
EXTENDS Integers, Sequences

CONSTANTS
  MinBackoff, MaxBackoff,
  ReadTimeout,
  PingInterval,   \* 0: no heartbeat
  MaxBatch,       \* bound: events of one OKX message
  MaxFrames,      \* bound: frames on their way
  MaxCount        \* bound: where the reconnect counter stops

ASSUME CollectorAssumption ==
  /\ MinBackoff \in Nat \ {0}
  /\ MaxBackoff \in Nat /\ MinBackoff <= MaxBackoff
  /\ ReadTimeout \in Nat \ {0}
  /\ PingInterval \in Nat
  /\ MaxBatch \in Nat \ {0} /\ MaxFrames \in Nat \ {0} /\ MaxCount \in Nat \ {0}

(* What the exchange sends: an answer to a ping, market data, a message    *)
(* without data (an acknowledgement, an unknown channel), an error         *)
(* acknowledgement of OKX, and data that cannot be normalized.             *)
Frames == {"pong", "event", "ignored", "reject", "bad"}

VARIABLES
  exchange,    \* which of the two collectors this is
  live,        \* the context is not done
  pc,          \* next step of Start and runConnection
  conn,        \* the connection: none, open, cut by the peer, closed here
  inbox,       \* frames that have arrived and are not read
  deadline,    \* time left until the read deadline
  batch,       \* events of the current message still to publish
  backoff,
  sleep,       \* time left of the backoff
  heartbeat,   \* the goroutine of this connection runs ...
  ping,        \* ... and sends the next ping after so long
  pinged,      \* the peer has a ping to answer
  watch,       \* a goroutine waits to close this connection
  connected, reconnects, failed,   \* Status; failed: LastError is set
  quiet,       \* history: time since a frame came that proves the peer alive
  pause        \* history: time since the last dial

linkVars == <<conn, inbox, deadline, batch>>
beatVars == <<heartbeat, ping, pinged>>
statusVars == <<connected, reconnects, failed>>
loopVars == <<backoff, sleep>>
historyVars == <<quiet, pause>>
vars == <<exchange, live, pc, linkVars, beatVars, watch, statusVars, loopVars, historyVars>>

Init ==
  /\ exchange \in {"binance", "okx"}
  /\ live = TRUE
  /\ pc = "dial"
  /\ conn = "none" /\ inbox = <<>> /\ deadline = ReadTimeout /\ batch = 0
  /\ backoff = MinBackoff /\ sleep = 0
  /\ heartbeat = FALSE /\ ping = 0 /\ pinged = FALSE
  /\ watch = FALSE
  /\ connected = FALSE /\ reconnects = 0 /\ failed = FALSE
  /\ quiet = 0 /\ pause = MinBackoff

-----------------------------------------------------------------------------
(* runConnection returns an error; its deferred calls stop the heartbeat   *)
(* and close the connection.  The watching goroutine stays until the end,  *)
(* with nothing left to close.                                             *)
Lose ==
  /\ pc' = "lost"
  /\ conn' = "none" /\ inbox' = <<>> /\ deadline' = ReadTimeout /\ batch' = 0
  /\ heartbeat' = FALSE /\ ping' = 0 /\ pinged' = FALSE
  /\ watch' = FALSE

Reach(label) == pc' = label /\ UNCHANGED <<conn, beatVars, watch>>

DialFails ==
  /\ pc = "dial"
  /\ Lose
  /\ pause' = 0
  /\ UNCHANGED <<exchange, live, loopVars, statusVars, quiet>>

(* DialContext, and the first read deadline.                               *)
DialSucceeds ==
  /\ pc = "dial"
  /\ pc' = "greet"
  /\ conn' = "open"
  /\ deadline' = ReadTimeout
  /\ quiet' = 0 /\ pause' = 0
  /\ UNCHANGED <<exchange, live, inbox, batch, beatVars, watch, loopVars, statusVars>>

(* recordConnected; OKX subscribes, and may fail to.                       *)
Greet ==
  /\ pc = "greet"
  /\ connected' = TRUE
  /\ failed' = FALSE
  /\ Reach(IF exchange = "okx" THEN "subscribe" ELSE "serve")
  /\ UNCHANGED <<exchange, live, inbox, deadline, batch, loopVars, reconnects, historyVars>>

(* The write only hands the request to the socket: on a connection that    *)
(* was cut it may fail, or succeed and leave the failure to the next read. *)
Subscribe ==
  /\ pc = "subscribe"
  /\ \/ Reach("serve") /\ UNCHANGED <<inbox, deadline, batch>>
     \/ conn = "cut" /\ Lose
  /\ UNCHANGED <<exchange, live, loopVars, statusVars, historyVars>>

(* The two goroutines of the connection start.                             *)
Serve ==
  /\ pc = "serve"
  /\ pc' = "read"
  /\ watch' = TRUE
  /\ heartbeat' = (PingInterval > 0)
  /\ ping' = PingInterval
  /\ UNCHANGED <<exchange, live, linkVars, pinged, loopVars, statusVars, historyVars>>

-----------------------------------------------------------------------------
(* Definitions named Faulty... are slips a change to the code could make;   *)
(* no specification uses them.  Each is substituted for the definition     *)
(* below it to confirm that a property notices.                            *)

Renew == deadline' = ReadTimeout

(* ReadMessage handles a pong itself; handleMessage or parseMessage tells  *)
(* the other frames apart.  Only OKX renews the deadline after a message   *)
(* without events.  On a connection closed here renewing fails, which ends *)
(* runConnection as ReadFails does.                                        *)
ReadFrame ==
  LET frame == Head(inbox) IN
  /\ pc = "read" /\ inbox # <<>>
  /\ conn = "closed" => frame \in {"event", "bad"} \/ (frame = "ignored" /\ exchange = "binance")
  /\ \/ /\ frame = "pong"
        /\ Renew /\ Reach("read")
        /\ UNCHANGED <<batch, failed>>
     \/ /\ frame \in {"ignored", "reject"}
        /\ IF exchange = "okx" THEN Renew ELSE UNCHANGED deadline
        /\ failed' = (failed \/ (frame = "reject" /\ exchange = "okx"))
        /\ Reach("read")
        /\ UNCHANGED batch
     \/ /\ frame = "event"
        /\ batch' \in 1..(IF exchange = "okx" THEN MaxBatch ELSE 1)
        /\ Reach("publish")
        /\ UNCHANGED <<deadline, failed>>
     \/ /\ frame = "bad"
        /\ Lose
        /\ UNCHANGED failed
  /\ frame # "bad" => inbox' = Tail(inbox)
  /\ UNCHANGED <<exchange, live, loopVars, connected, reconnects, historyVars>>

(* The deadline is only renewed by the next frame.                         *)
FaultyPublished ==
  /\ pc = "publish"
  /\ batch' = batch - 1
  /\ Reach(IF batch > 1 THEN "publish" ELSE "read")
  /\ UNCHANGED <<exchange, live, inbox, deadline, loopVars, statusVars, historyVars>>

(* bus.Publish has taken an event; after the last the deadline is renewed, *)
(* which fails on a connection that was closed.                            *)
Published ==
  /\ pc = "publish"
  /\ IF batch = 1 /\ conn = "closed" THEN Lose
     ELSE /\ batch' = batch - 1
          /\ IF batch > 1 THEN Reach("publish") /\ UNCHANGED deadline
                          ELSE Reach("read") /\ Renew
          /\ UNCHANGED inbox
  /\ UNCHANGED <<exchange, live, loopVars, statusVars, historyVars>>

(* bus.Publish gives up when the context is done.                          *)
PublishCanceled ==
  /\ pc = "publish" /\ ~live
  /\ Lose
  /\ UNCHANGED <<exchange, live, loopVars, statusVars, historyVars>>

(* Reading goes on without a deadline.                                     *)
FaultyBroken == conn = "closed" \/ (conn = "cut" /\ inbox = <<>>)

(* What ends a read: closed here, cut by the peer, or nothing in time.     *)
Broken ==
  \/ conn = "closed"
  \/ inbox = <<>> /\ (conn = "cut" \/ deadline = 0)

ReadFails ==
  /\ pc = "read" /\ Broken
  /\ Lose
  /\ UNCHANGED <<exchange, live, loopVars, statusVars, historyVars>>

-----------------------------------------------------------------------------
(* A first failure ends the collector.                                     *)
FaultyLost ==
  /\ pc = "lost"
  /\ pc' = "ended"
  /\ connected' = FALSE
  /\ UNCHANGED <<exchange, live, linkVars, beatVars, watch, loopVars, reconnects, failed,
                 historyVars>>

(* Start, after runConnection: the end, or recordError.                    *)
Lost ==
  /\ pc = "lost"
  /\ IF live
       THEN pc' = "count" /\ failed' = TRUE /\ UNCHANGED connected
       ELSE pc' = "ended" /\ connected' = FALSE /\ UNCHANGED failed
  /\ UNCHANGED <<exchange, live, linkVars, beatVars, watch, loopVars, reconnects, historyVars>>

(* The status keeps showing the connection that is gone.                   *)
FaultyCount ==
  /\ pc = "count"
  /\ pc' = "sleep"
  /\ sleep' = backoff
  /\ UNCHANGED <<exchange, live, linkVars, beatVars, watch, backoff, statusVars, historyVars>>

(* setConnected(false), incrementReconnects, and sleepContext begins.      *)
Count ==
  /\ pc = "count"
  /\ pc' = "sleep"
  /\ connected' = FALSE
  /\ reconnects' = IF reconnects < MaxCount THEN reconnects + 1 ELSE MaxCount
  /\ sleep' = backoff
  /\ UNCHANGED <<exchange, live, linkVars, beatVars, watch, backoff, failed, historyVars>>

(* The cap is forgotten; the wait is.                                      *)
FaultyDoubled(b) == 2 * b
FaultyRested == TRUE

Doubled(b) == IF 2 * b > MaxBackoff THEN MaxBackoff ELSE 2 * b
Rested == sleep = 0

Wake ==
  /\ pc = "sleep"
  /\ \/ /\ Rested
        /\ pc' = "dial"
        /\ backoff' = Doubled(backoff)
     \/ /\ ~live
        /\ pc' = "ended"
        /\ UNCHANGED backoff
  /\ sleep' = 0
  /\ UNCHANGED <<exchange, live, linkVars, beatVars, watch, statusVars, historyVars>>

-----------------------------------------------------------------------------
(* keepAlive: a ping is written, or fails to be (the peer is gone, or the  *)
(* write deadline passes) and the connection is closed.                    *)
Ping ==
  /\ heartbeat /\ ping = 0
  /\ \/ /\ conn = "open"
        /\ pinged' = TRUE
        /\ ping' = PingInterval
        /\ UNCHANGED <<conn, heartbeat>>
     \/ /\ conn' = "closed"
        /\ heartbeat' = FALSE
        /\ UNCHANGED <<ping, pinged>>
  /\ UNCHANGED <<exchange, live, pc, inbox, deadline, batch, watch, loopVars, statusVars,
                 historyVars>>

(* keepAlive sees that the context is done.                                *)
EndHeartbeat ==
  /\ heartbeat /\ ~live
  /\ heartbeat' = FALSE
  /\ UNCHANGED <<exchange, live, pc, linkVars, ping, pinged, watch, loopVars, statusVars,
                 historyVars>>

(* Nobody closes the connection.                                           *)
FaultyWatch ==
  /\ watch /\ ~live
  /\ watch' = FALSE
  /\ UNCHANGED <<exchange, live, pc, linkVars, beatVars, loopVars, statusVars, historyVars>>

(* The goroutine that waits for the context closes the connection.         *)
Watch ==
  /\ watch /\ ~live
  /\ watch' = FALSE
  /\ conn' = "closed"
  /\ UNCHANGED <<exchange, live, pc, inbox, deadline, batch, beatVars, loopVars, statusVars,
                 historyVars>>

-----------------------------------------------------------------------------
(* The exchange.  What comes after the read deadline is not looked at any  *)
(* more.  Market data and, for OKX, every message proves the peer alive.   *)
PeerSends(frame) ==
  /\ conn = "open" /\ Len(inbox) < MaxFrames
  /\ pc = "read" => deadline > 0
  /\ frame = "pong" => pinged
  /\ frame = "reject" => exchange = "okx"
  /\ inbox' = Append(inbox, frame)
  /\ pinged' = (pinged /\ frame # "pong")
  /\ quiet' = IF frame \in {"pong", "event"} \/ exchange = "okx" THEN 0 ELSE quiet
  /\ UNCHANGED <<exchange, live, pc, conn, deadline, batch, heartbeat, ping, watch, loopVars,
                 statusVars, pause>>

PeerCuts ==
  /\ conn = "open"
  /\ conn' = "cut"
  /\ UNCHANGED <<exchange, live, pc, inbox, deadline, batch, beatVars, watch, loopVars,
                 statusVars, historyVars>>

(* The process is told to stop.                                            *)
Cancel ==
  /\ live
  /\ live' = FALSE
  /\ UNCHANGED <<exchange, pc, linkVars, beatVars, watch, loopVars, statusVars, historyVars>>

(* The steps that wait for the network, the bus, or a timer.               *)
Blocking == pc \in {"dial", "publish", "sleep", "ended"} \/ (pc = "read" /\ inbox = <<>>)

Down(n) == IF n = 0 THEN 0 ELSE n - 1
Up(n, max) == IF n < max THEN n + 1 ELSE max

Tick ==
  /\ Blocking
  /\ deadline' = Down(deadline)
  /\ sleep' = Down(sleep)
  /\ ping' = Down(ping)
  /\ quiet' = Up(quiet, ReadTimeout)
  /\ pause' = Up(pause, MinBackoff)
  /\ UNCHANGED <<exchange, live, pc, conn, inbox, batch, backoff, heartbeat, pinged, watch,
                 statusVars>>

-----------------------------------------------------------------------------
Serving == Greet \/ Subscribe \/ Serve \/ ReadFrame \/ ReadFails
Publishing == Published \/ PublishCanceled
Restarting == Lost \/ Count \/ Wake

Next ==
  \/ DialFails \/ DialSucceeds
  \/ Serving \/ Publishing \/ Restarting
  \/ Ping \/ EndHeartbeat \/ Watch
  \/ \E frame \in Frames : PeerSends(frame)
  \/ PeerCuts \/ Cancel \/ Tick

Spec == Init /\ [][Next]_vars

(* Goroutines are scheduled, time passes, a dial ends, and the bus takes   *)
(* events while its subscriber runs (module EventBus).  The exchange may   *)
(* refuse a dial, but not for ever.                                        *)
FairSpec ==
  /\ Spec
  /\ WF_vars(Serving) /\ WF_vars(Publishing) /\ WF_vars(Restarting)
  /\ WF_vars(DialFails \/ DialSucceeds) /\ SF_vars(DialSucceeds)
  /\ WF_vars(EndHeartbeat) /\ WF_vars(Watch)
  /\ WF_vars(Tick)

-----------------------------------------------------------------------------
(* Type correctness: the loop, the connection, its heartbeat, the status.  *)
LoopTypes ==
  /\ exchange \in {"binance", "okx"}
  /\ live \in BOOLEAN
  /\ pc \in {"dial", "greet", "subscribe", "serve", "read", "publish", "lost", "count",
             "sleep", "ended"}
  /\ backoff \in MinBackoff..MaxBackoff
  /\ sleep \in 0..MaxBackoff
  /\ pause \in 0..MinBackoff

LinkTypes ==
  /\ conn \in {"none", "open", "cut", "closed"}
  /\ inbox \in Seq(Frames)
  /\ deadline \in 0..ReadTimeout
  /\ batch \in 0..MaxBatch
  /\ pc = "publish" => batch > 0
  /\ quiet \in 0..ReadTimeout

BeatTypes ==
  /\ heartbeat \in BOOLEAN
  /\ ping \in 0..PingInterval
  /\ pinged \in BOOLEAN
  /\ watch \in BOOLEAN

StatusTypes ==
  /\ connected \in BOOLEAN
  /\ reconnects \in 0..MaxCount
  /\ failed \in BOOLEAN

TypeOK == LoopTypes /\ LinkTypes /\ BeatTypes /\ StatusTypes

(* The status an operator reads is not stale: while the collector waits,   *)
(* dials again or has ended it never shows a connection, it shows one      *)
(* while messages are read, and between attempts the reason of the last    *)
(* failure and the attempt itself are shown.                               *)
StatusTrue ==
  /\ pc \in {"dial", "greet", "sleep", "ended"} => ~connected
  /\ pc \in {"subscribe", "serve", "read", "publish"} => connected
  /\ pc = "sleep" => failed /\ reconnects > 0

(* A read deadline only ever ends a connection whose peer has been silent  *)
(* for all of ReadTimeout: no answer to a ping and no data, even if a      *)
(* Publish was blocked for longer than the deadline (runConnection renews  *)
(* it after the events are published, not before).                         *)
SilenceEnds ==
  [][ReadFails /\ conn = "open" => quiet = ReadTimeout]_vars

(* README.md:16 promises backoff: attempts to connect are MinBackoff apart, *)
(* whatever ends the attempts between them.                                *)
DialsSpaced ==
  [][(DialFails \/ DialSucceeds) => pause = MinBackoff]_vars

(* A reader is never stuck: again and again it finds a frame, or it gives  *)
(* the connection up (read deadline, heartbeat, close).                    *)
ReaderNotStuck == []<>(pc # "read" \/ inbox # <<>>)

(* docs/sit/case/02-okx-exchange-integration-sit.md:74: after an outage    *)
(* the collector connects again, however long the outage was.              *)
Recovers == ~connected ~> connected \/ ~live

(* When the process is told to stop, Start returns and the goroutines of   *)
(* the connection end, wherever they are.                                  *)
Stops == ~live ~> pc = "ended" /\ ~connected /\ ~heartbeat /\ ~watch
=============================================================================
