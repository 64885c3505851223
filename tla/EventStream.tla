------------------------------ MODULE EventStream ------------------------------
(***************************************************************************)
(* What the event bus promises to each subscriber: one stream, to which    *)
(* the publishers append their events in the order they publish them, and  *)
(* which the subscriber reads from the front, without gap or repetition,   *)
(* at most Lag events behind.  EventBus implements this specification.     *)
(***************************************************************************)
EXTENDS Integers, Sequences

CONSTANTS Publishers, Subscribers, Lag, MaxEvents

VARIABLES
  log,    \* log[s]: the events <<publisher, number>> streamed to s
  read    \* read[s]: the events s has received

Init ==
  /\ log = [s \in Subscribers |-> <<>>]
  /\ read = [s \in Subscribers |-> <<>>]

(* The next event of p comes after every earlier event of p in the stream. *)
Stream(s, p, n) ==
  /\ \A i \in 1..Len(log[s]) : log[s][i][1] = p => log[s][i][2] < n
  /\ Len(log[s]) - Len(read[s]) < Lag
  /\ log' = [log EXCEPT ![s] = Append(@, <<p, n>>)]
  /\ UNCHANGED read

Consume(s) ==
  /\ Len(read[s]) < Len(log[s])
  /\ read' = [read EXCEPT ![s] = Append(@, log[s][Len(@) + 1])]
  /\ UNCHANGED log

Next ==
  \E s \in Subscribers :
    Consume(s) \/ \E p \in Publishers, n \in 1..MaxEvents : Stream(s, p, n)

Spec == Init /\ [][Next]_<<log, read>>
=============================================================================
