--------------------------- MODULE Collector_proofs ---------------------------
(***************************************************************************)
(* What holds of a collector for every backoff, deadline and heartbeat     *)
(* interval.  The inductive invariant relates timers to history: while the *)
(* collector sleeps, the time slept and the time left make up a backoff;   *)
(* while it waits for messages and none that proves the peer alive is      *)
(* unread, the peer's silence and the time left make up a ReadTimeout.     *)
(***************************************************************************)
EXTENDS Collector, TLAPS

Lively(frame) == frame \in {"pong", "event"} \/ exchange = "okx"

(* No unread frame proves the peer alive.                                  *)
NothingLively == \A i \in 1..Len(inbox) : ~Lively(inbox[i])

SleepInv ==
  /\ pc = "dial" => pause = MinBackoff
  /\ pc = "sleep" => pause + sleep >= MinBackoff

SilenceInv ==
  pc \in {"greet", "subscribe", "serve", "read"} /\ NothingLively
    => deadline + quiet >= ReadTimeout

StatusInv == StatusTrue /\ (pc = "count" => failed)

Inv == TypeOK /\ StatusInv /\ SleepInv /\ SilenceInv

-----------------------------------------------------------------------------
(* A lost connection leaves well-typed variables behind.                   *)
LEMMA LoseTypes ==
  Lose => /\ pc' = "lost" /\ conn' = "none" /\ inbox' = <<>> /\ inbox' \in Seq(Frames)
          /\ deadline' \in 0..ReadTimeout /\ batch' \in 0..MaxBatch
          /\ heartbeat' = FALSE /\ ping' \in 0..PingInterval /\ pinged' = FALSE
          /\ watch' = FALSE
BY CollectorAssumption DEF Lose

LEMMA InitTypes == Init => TypeOK
<1> SUFFICES ASSUME Init PROVE TypeOK
  OBVIOUS
<1> USE CollectorAssumption DEF Init
<1>1. LoopTypes
  BY DEF LoopTypes
<1>2. LinkTypes
  BY DEF LinkTypes
<1>3. BeatTypes
  <2>1. heartbeat \in BOOLEAN /\ pinged \in BOOLEAN /\ watch \in BOOLEAN
    BY Zenon
  <2>2. ping \in 0..PingInterval
    OBVIOUS
  <2> QED
    BY <2>1, <2>2 DEF BeatTypes
<1>4. StatusTypes
  <2>1. connected \in BOOLEAN /\ failed \in BOOLEAN
    BY Zenon
  <2>2. reconnects \in 0..MaxCount
    OBVIOUS
  <2> QED
    BY <2>1, <2>2 DEF StatusTypes
<1> QED
  BY <1>1, <1>2, <1>3, <1>4 DEF TypeOK

(* No step leaves the types of the loop.                                   *)
LEMMA LoopTypesStep == TypeOK /\ [Next]_vars => LoopTypes'
<1> SUFFICES ASSUME TypeOK, [Next]_vars PROVE LoopTypes'
  OBVIOUS
<1> USE CollectorAssumption DEF TypeOK, LoopTypes, loopVars, historyVars
<1>1. CASE DialFails
  BY <1>1, LoseTypes DEF DialFails
<1>2. CASE DialSucceeds
  BY <1>2 DEF DialSucceeds
<1>3. CASE Greet
  BY <1>3 DEF Greet, Reach
<1>4. CASE Subscribe
  BY <1>4, LoseTypes DEF Subscribe, Reach
<1>5. CASE Serve
  BY <1>5 DEF Serve
<1>6. CASE ReadFrame
  BY <1>6, LoseTypes DEF ReadFrame, Reach
<1>7. CASE ReadFails
  BY <1>7, LoseTypes DEF ReadFails
<1>8. CASE Published
  BY <1>8, LoseTypes DEF Published, Reach
<1>9. CASE PublishCanceled
  BY <1>9, LoseTypes DEF PublishCanceled
<1>10. CASE Lost
  BY <1>10 DEF Lost
<1>11. CASE Count
  BY <1>11 DEF Count
<1>12. CASE Wake
  BY <1>12 DEF Wake, Doubled
<1>13. CASE Ping
  BY <1>13 DEF Ping
<1>14. CASE EndHeartbeat
  BY <1>14 DEF EndHeartbeat
<1>15. CASE Watch
  BY <1>15 DEF Watch
<1>16. ASSUME NEW frame \in Frames, PeerSends(frame) PROVE LoopTypes'
  BY <1>16 DEF PeerSends
<1>17. CASE PeerCuts
  BY <1>17 DEF PeerCuts
<1>18. CASE Cancel
  BY <1>18 DEF Cancel
<1>19. CASE Tick
  BY <1>19 DEF Tick, Up, Down
<1>20. CASE UNCHANGED vars
  BY <1>20 DEF vars
<1> QED
  BY <1>1, <1>2, <1>3, <1>4, <1>5, <1>6, <1>7, <1>8, <1>9, <1>10, <1>11, <1>12, <1>13,
     <1>14, <1>15, <1>16, <1>17, <1>18, <1>19, <1>20
  DEF Next, Serving, Publishing, Restarting

(* No step leaves the types of the connection.                             *)
LEMMA LinkTypesStep == TypeOK /\ [Next]_vars => LinkTypes'
<1> SUFFICES ASSUME TypeOK, [Next]_vars PROVE LinkTypes'
  OBVIOUS
<1> USE CollectorAssumption DEF TypeOK, LinkTypes, linkVars, historyVars
<1>1. CASE DialFails
  BY <1>1, LoseTypes DEF DialFails
<1>2. CASE DialSucceeds
  BY <1>2 DEF DialSucceeds
<1>3. CASE Greet
  BY <1>3 DEF Greet, Reach
<1>4. CASE Subscribe
  BY <1>4, LoseTypes DEF Subscribe, Reach
<1>5. CASE Serve
  BY <1>5 DEF Serve
<1>6. CASE ReadFrame
  <2>1. CASE Lose
    BY <1>6, <2>1, LoseTypes DEF ReadFrame, Reach
  <2>2. CASE ~Lose
    <3>1. inbox' = Tail(inbox) /\ inbox # <<>>
      BY <1>6, <2>2 DEF ReadFrame
    <3>2. inbox' \in Seq(Frames)
      BY <3>1
    <3> QED
      BY <1>6, <2>2, <3>2 DEF ReadFrame, Reach, Renew
  <2> QED
    BY <2>1, <2>2
<1>7. CASE ReadFails
  BY <1>7, LoseTypes DEF ReadFails
<1>8. CASE Published
  <2>1. CASE Lose
    BY <1>8, <2>1, LoseTypes DEF Published
  <2>2. CASE ~Lose
    BY <1>8, <2>2 DEF Published, Reach, Renew
  <2> QED
    BY <2>1, <2>2
<1>9. CASE PublishCanceled
  BY <1>9, LoseTypes DEF PublishCanceled
<1>10. CASE Lost
  BY <1>10 DEF Lost
<1>11. CASE Count
  BY <1>11 DEF Count
<1>12. CASE Wake
  BY <1>12 DEF Wake
<1>13. CASE Ping
  BY <1>13 DEF Ping
<1>14. CASE EndHeartbeat
  BY <1>14 DEF EndHeartbeat
<1>15. CASE Watch
  BY <1>15 DEF Watch
<1>16. ASSUME NEW frame \in Frames, PeerSends(frame) PROVE LinkTypes'
  BY <1>16 DEF PeerSends
<1>17. CASE PeerCuts
  BY <1>17 DEF PeerCuts
<1>18. CASE Cancel
  BY <1>18 DEF Cancel
<1>19. CASE Tick
  BY <1>19 DEF Tick, Up, Down
<1>20. CASE UNCHANGED vars
  BY <1>20 DEF vars
<1> QED
  BY <1>1, <1>2, <1>3, <1>4, <1>5, <1>6, <1>7, <1>8, <1>9, <1>10, <1>11, <1>12, <1>13,
     <1>14, <1>15, <1>16, <1>17, <1>18, <1>19, <1>20
  DEF Next, Serving, Publishing, Restarting

(* No step leaves the types of the heartbeat.                              *)
LEMMA BeatTypesStep == TypeOK /\ [Next]_vars => BeatTypes'
<1> SUFFICES ASSUME TypeOK, [Next]_vars PROVE BeatTypes'
  OBVIOUS
<1> USE CollectorAssumption DEF TypeOK, BeatTypes, beatVars
<1>1. CASE DialFails
  BY <1>1, LoseTypes DEF DialFails
<1>2. CASE DialSucceeds
  BY <1>2 DEF DialSucceeds
<1>3. CASE Greet
  BY <1>3 DEF Greet, Reach
<1>4. CASE Subscribe
  BY <1>4, LoseTypes DEF Subscribe, Reach
<1>5. CASE Serve
  BY <1>5 DEF Serve
<1>6. CASE ReadFrame
  BY <1>6, LoseTypes DEF ReadFrame, Reach
<1>7. CASE ReadFails
  BY <1>7, LoseTypes DEF ReadFails
<1>8. CASE Published
  BY <1>8, LoseTypes DEF Published, Reach
<1>9. CASE PublishCanceled
  BY <1>9, LoseTypes DEF PublishCanceled
<1>10. CASE Lost
  BY <1>10 DEF Lost
<1>11. CASE Count
  BY <1>11 DEF Count
<1>12. CASE Wake
  BY <1>12 DEF Wake
<1>13. CASE Ping
  <2>1. heartbeat' \in BOOLEAN /\ pinged' \in BOOLEAN /\ watch' \in BOOLEAN
    <3>1. CASE UNCHANGED <<conn, heartbeat>>
      BY <1>13, <3>1, Zenon DEF Ping
    <3>2. CASE heartbeat' = FALSE
      BY <1>13, <3>2, Zenon DEF Ping
    <3> QED
      BY <1>13, <3>1, <3>2 DEF Ping
  <2>2. ping' \in 0..PingInterval
    <3>1. ping' = PingInterval \/ ping' = ping
      BY <1>13, Zenon DEF Ping
    <3> QED
      BY <3>1
  <2> QED
    BY <2>1, <2>2
<1>14. CASE EndHeartbeat
  BY <1>14 DEF EndHeartbeat
<1>15. CASE Watch
  BY <1>15 DEF Watch
<1>16. ASSUME NEW frame \in Frames, PeerSends(frame) PROVE BeatTypes'
  BY <1>16 DEF PeerSends
<1>17. CASE PeerCuts
  BY <1>17 DEF PeerCuts
<1>18. CASE Cancel
  BY <1>18 DEF Cancel
<1>19. CASE Tick
  BY <1>19 DEF Tick, Up, Down
<1>20. CASE UNCHANGED vars
  BY <1>20 DEF vars
<1> QED
  BY <1>1, <1>2, <1>3, <1>4, <1>5, <1>6, <1>7, <1>8, <1>9, <1>10, <1>11, <1>12, <1>13,
     <1>14, <1>15, <1>16, <1>17, <1>18, <1>19, <1>20
  DEF Next, Serving, Publishing, Restarting

(* No step leaves the types of the status.                                 *)
LEMMA StatusTypesStep == TypeOK /\ [Next]_vars => StatusTypes'
<1> SUFFICES ASSUME TypeOK, [Next]_vars PROVE StatusTypes'
  OBVIOUS
<1> USE CollectorAssumption DEF TypeOK, StatusTypes, statusVars
<1>1. CASE DialFails
  BY <1>1 DEF DialFails
<1>2. CASE DialSucceeds
  BY <1>2 DEF DialSucceeds
<1>3. CASE Greet
  BY <1>3 DEF Greet
<1>4. CASE Subscribe
  BY <1>4 DEF Subscribe
<1>5. CASE Serve
  BY <1>5 DEF Serve
<1>6. CASE ReadFrame
  BY <1>6 DEF ReadFrame
<1>7. CASE ReadFails
  BY <1>7 DEF ReadFails
<1>8. CASE Published
  BY <1>8 DEF Published
<1>9. CASE PublishCanceled
  BY <1>9 DEF PublishCanceled
<1>10. CASE Lost
  BY <1>10 DEF Lost
<1>11. CASE Count
  <2>1. connected' \in BOOLEAN /\ failed' \in BOOLEAN
    BY <1>11, Zenon DEF Count
  <2>2. reconnects' \in 0..MaxCount
    BY <1>11 DEF Count
  <2> QED
    BY <2>1, <2>2
<1>12. CASE Wake
  BY <1>12 DEF Wake
<1>13. CASE Ping
  BY <1>13 DEF Ping
<1>14. CASE EndHeartbeat
  BY <1>14 DEF EndHeartbeat
<1>15. CASE Watch
  BY <1>15 DEF Watch
<1>16. ASSUME NEW frame \in Frames, PeerSends(frame) PROVE StatusTypes'
  BY <1>16 DEF PeerSends
<1>17. CASE PeerCuts
  BY <1>17 DEF PeerCuts
<1>18. CASE Cancel
  BY <1>18 DEF Cancel
<1>19. CASE Tick
  BY <1>19 DEF Tick
<1>20. CASE UNCHANGED vars
  BY <1>20 DEF vars
<1> QED
  BY <1>1, <1>2, <1>3, <1>4, <1>5, <1>6, <1>7, <1>8, <1>9, <1>10, <1>11, <1>12, <1>13,
     <1>14, <1>15, <1>16, <1>17, <1>18, <1>19, <1>20
  DEF Next, Serving, Publishing, Restarting

LEMMA TypeStep == TypeOK /\ [Next]_vars => TypeOK'
BY LoopTypesStep, LinkTypesStep, BeatTypesStep, StatusTypesStep DEF TypeOK

(* For every choice of the timers, the variables keep their types; in      *)
(* particular the backoff stays between its bounds (Start).                *)
THEOREM TypeCorrect == Spec => []TypeOK
<1> QED
  BY InitTypes, TypeStep, PTL DEF Spec

(* The status goes with the place in the loop.                             *)
LEMMA StatusStep == TypeOK /\ StatusInv /\ [Next]_vars => StatusInv'
<1> SUFFICES ASSUME TypeOK, StatusInv, [Next]_vars PROVE StatusInv'
  OBVIOUS
<1> USE CollectorAssumption DEF TypeOK, StatusTypes, StatusInv, StatusTrue, statusVars
<1>1. CASE DialFails
  BY <1>1 DEF DialFails, Lose
<1>2. CASE DialSucceeds
  BY <1>2 DEF DialSucceeds
<1>3. CASE Greet
  BY <1>3 DEF Greet, Reach
<1>4. CASE Subscribe
  BY <1>4 DEF Subscribe, Lose, Reach
<1>5. CASE Serve
  BY <1>5 DEF Serve
<1>6. CASE ReadFrame
  BY <1>6 DEF ReadFrame, Lose, Reach
<1>7. CASE ReadFails
  BY <1>7 DEF ReadFails, Lose
<1>8. CASE Published
  BY <1>8 DEF Published, Lose, Reach
<1>9. CASE PublishCanceled
  BY <1>9 DEF PublishCanceled, Lose
<1>10. CASE Lost
  BY <1>10 DEF Lost
<1>11. CASE Count
  BY <1>11 DEF Count
<1>12. CASE Wake
  BY <1>12 DEF Wake
<1>13. CASE Ping
  BY <1>13 DEF Ping
<1>14. CASE EndHeartbeat
  BY <1>14 DEF EndHeartbeat
<1>15. CASE Watch
  BY <1>15 DEF Watch
<1>16. ASSUME NEW frame \in Frames, PeerSends(frame) PROVE StatusInv'
  BY <1>16 DEF PeerSends
<1>17. CASE PeerCuts
  BY <1>17 DEF PeerCuts
<1>18. CASE Cancel
  BY <1>18 DEF Cancel
<1>19. CASE Tick
  BY <1>19 DEF Tick
<1>20. CASE UNCHANGED vars
  BY <1>20 DEF vars
<1> QED
  BY <1>1, <1>2, <1>3, <1>4, <1>5, <1>6, <1>7, <1>8, <1>9, <1>10, <1>11, <1>12, <1>13,
     <1>14, <1>15, <1>16, <1>17, <1>18, <1>19, <1>20
  DEF Next, Serving, Publishing, Restarting

(* The time slept and the time left make up a backoff.                     *)
LEMMA SleepStep == TypeOK /\ SleepInv /\ [Next]_vars => SleepInv'
<1> SUFFICES ASSUME TypeOK, SleepInv, [Next]_vars PROVE SleepInv'
  OBVIOUS
<1> USE CollectorAssumption DEF TypeOK, LoopTypes, SleepInv, loopVars, historyVars
<1>1. CASE DialFails
  BY <1>1 DEF DialFails, Lose
<1>2. CASE DialSucceeds
  BY <1>2 DEF DialSucceeds
<1>3. CASE Greet
  BY <1>3 DEF Greet, Reach
<1>4. CASE Subscribe
  BY <1>4 DEF Subscribe, Lose, Reach
<1>5. CASE Serve
  BY <1>5 DEF Serve
<1>6. CASE ReadFrame
  BY <1>6 DEF ReadFrame, Lose, Reach
<1>7. CASE ReadFails
  BY <1>7 DEF ReadFails, Lose
<1>8. CASE Published
  BY <1>8 DEF Published, Lose, Reach
<1>9. CASE PublishCanceled
  BY <1>9 DEF PublishCanceled, Lose
<1>10. CASE Lost
  BY <1>10 DEF Lost
<1>11. CASE Count
  BY <1>11 DEF Count
<1>12. CASE Wake
  BY <1>12 DEF Wake, Rested
<1>13. CASE Ping
  BY <1>13 DEF Ping
<1>14. CASE EndHeartbeat
  BY <1>14 DEF EndHeartbeat
<1>15. CASE Watch
  BY <1>15 DEF Watch
<1>16. ASSUME NEW frame \in Frames, PeerSends(frame) PROVE SleepInv'
  BY <1>16 DEF PeerSends
<1>17. CASE PeerCuts
  BY <1>17 DEF PeerCuts
<1>18. CASE Cancel
  BY <1>18 DEF Cancel
<1>19. CASE Tick
  BY <1>19 DEF Tick, Up, Down
<1>20. CASE UNCHANGED vars
  BY <1>20 DEF vars
<1> QED
  BY <1>1, <1>2, <1>3, <1>4, <1>5, <1>6, <1>7, <1>8, <1>9, <1>10, <1>11, <1>12, <1>13,
     <1>14, <1>15, <1>16, <1>17, <1>18, <1>19, <1>20
  DEF Next, Serving, Publishing, Restarting

(* The silence of the peer and the time left make up a ReadTimeout.        *)
LEMMA SilenceStep == TypeOK /\ SilenceInv /\ [Next]_vars => SilenceInv'
<1> SUFFICES ASSUME TypeOK, SilenceInv, [Next]_vars PROVE SilenceInv'
  OBVIOUS
<1> USE CollectorAssumption DEF TypeOK, LinkTypes, SilenceInv, NothingLively, Lively, linkVars, historyVars
<1>1. CASE DialFails
  BY <1>1 DEF DialFails, Lose
<1>2. CASE DialSucceeds
  BY <1>2 DEF DialSucceeds
<1>3. CASE Greet
  BY <1>3 DEF Greet, Reach
<1>4. CASE Subscribe
  BY <1>4 DEF Subscribe, Lose, Reach
<1>5. CASE Serve
  BY <1>5 DEF Serve
<1>6. CASE ReadFrame
  <2>1. CASE Lose
    BY <2>1 DEF Lose
  <2>2. CASE ~Lose
    <3> SUFFICES ASSUME NothingLively', pc' # "publish"
                 PROVE  deadline' + quiet' >= ReadTimeout
      OBVIOUS
    <3>1. inbox # <<>> /\ inbox' = Tail(inbox) /\ quiet' = quiet /\ pc = "read"
      BY <1>6, <2>2 DEF ReadFrame
    <3>2. CASE deadline' = ReadTimeout
      BY <3>1, <3>2
    <3>3. CASE deadline' # ReadTimeout
      <4>1. exchange' = exchange
        BY <1>6 DEF ReadFrame
      <4> HIDE DEF TypeOK, LinkTypes, SilenceInv, NothingLively
      <4>2. Head(inbox) \in {"ignored", "reject"}
        BY <1>6, <2>2, <3>3, Zenon DEF ReadFrame, Reach, Renew
      <4>3. deadline' = deadline /\ exchange # "okx"
        BY <1>6, <2>2, <3>3, <4>2, Zenon DEF ReadFrame, Reach, Renew
      <4>4. deadline' = deadline /\ ~Lively(Head(inbox)) /\ exchange' = exchange
        BY <4>1, <4>2, <4>3
      <4>5. \A i \in 2..Len(inbox) : i - 1 \in 1..Len(inbox') /\ inbox[i] = inbox'[i - 1]
        BY <3>1 DEF TypeOK, LinkTypes
      <4>6. NothingLively
        <5> SUFFICES ASSUME NEW i \in 1..Len(inbox), Lively(inbox[i]) PROVE FALSE
          BY DEF NothingLively
        <5>1. CASE i = 1
          BY <5>1, <4>4, Head(inbox) = inbox[1], <3>1 DEF TypeOK, LinkTypes
        <5>2. CASE i \in 2..Len(inbox)
          BY <5>2, <4>5, <4>4 DEF NothingLively
        <5> QED
          BY <5>1, <5>2 DEF TypeOK, LinkTypes
      <4> QED
        BY <3>1, <4>4, <4>6 DEF TypeOK, LinkTypes, SilenceInv
    <3> QED
      BY <3>2, <3>3
  <2> QED
    BY <2>1, <2>2
<1>7. CASE ReadFails
  BY <1>7 DEF ReadFails, Lose
<1>8. CASE Published
  BY <1>8 DEF Published, Lose, Reach, Renew
<1>9. CASE PublishCanceled
  BY <1>9 DEF PublishCanceled, Lose
<1>10. CASE Lost
  BY <1>10 DEF Lost
<1>11. CASE Count
  BY <1>11 DEF Count
<1>12. CASE Wake
  BY <1>12 DEF Wake
<1>13. CASE Ping
  BY <1>13 DEF Ping
<1>14. CASE EndHeartbeat
  BY <1>14 DEF EndHeartbeat
<1>15. CASE Watch
  BY <1>15 DEF Watch
<1>16. ASSUME NEW frame \in Frames, PeerSends(frame) PROVE SilenceInv'
  BY <1>16 DEF PeerSends
<1>17. CASE PeerCuts
  BY <1>17 DEF PeerCuts
<1>18. CASE Cancel
  BY <1>18 DEF Cancel
<1>19. CASE Tick
  BY <1>19 DEF Tick, Up, Down, Blocking
<1>20. CASE UNCHANGED vars
  BY <1>20 DEF vars
<1> QED
  BY <1>1, <1>2, <1>3, <1>4, <1>5, <1>6, <1>7, <1>8, <1>9, <1>10, <1>11, <1>12, <1>13,
     <1>14, <1>15, <1>16, <1>17, <1>18, <1>19, <1>20
  DEF Next, Serving, Publishing, Restarting

(* The inductive invariant.                                                *)
LEMMA Invariant == Spec => []Inv
<1>1. Init => Inv
  <2> SUFFICES ASSUME Init PROVE Inv
    OBVIOUS
  <2>1. TypeOK
    BY InitTypes
  <2>2. StatusInv /\ SleepInv /\ SilenceInv
    BY CollectorAssumption DEF Init, StatusInv, StatusTrue, SleepInv, SilenceInv
  <2> QED
    BY <2>1, <2>2 DEF Inv
<1>2. Inv /\ [Next]_vars => Inv'
  BY TypeStep, StatusStep, SleepStep, SilenceStep DEF Inv
<1> QED
  BY <1>1, <1>2, PTL DEF Spec

(* The status is never stale, for every choice of the timers (Start,       *)
(* runConnection, Status).                                                 *)
THEOREM StatusTrueHolds == Spec => []StatusTrue
<1>1. Inv => StatusTrue
  BY DEF Inv, StatusInv
<1> QED
  BY Invariant, <1>1, PTL

(* Attempts to connect are at least MinBackoff apart (Start).              *)
THEOREM DialsSpacedHolds == Spec => DialsSpaced
<1>1. Inv /\ [Next]_vars => [(DialFails \/ DialSucceeds) => pause = MinBackoff]_vars
  BY DEF Inv, SleepInv, DialFails, DialSucceeds
<1> QED
  BY Invariant, <1>1, PTL DEF Spec, DialsSpaced

(* A read deadline only ends connections whose peer has been silent for    *)
(* all of ReadTimeout, however long publishing took (runConnection).       *)
THEOREM SilenceEndsHolds == Spec => SilenceEnds
<1>1. Inv /\ [Next]_vars => [ReadFails /\ conn = "open" => quiet = ReadTimeout]_vars
  <2> SUFFICES ASSUME Inv, ReadFails, conn = "open" PROVE quiet = ReadTimeout
    OBVIOUS
  <2>1. pc = "read" /\ inbox = <<>> /\ deadline = 0
    BY DEF ReadFails, Broken
  <2>2. NothingLively
    BY <2>1 DEF NothingLively
  <2> QED
    BY <2>1, <2>2, CollectorAssumption DEF Inv, SilenceInv, TypeOK, LinkTypes
<1> QED
  BY Invariant, <1>1, PTL DEF Spec, SilenceEnds
=============================================================================
