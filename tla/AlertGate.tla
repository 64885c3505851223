------------------------------ MODULE AlertGate ------------------------------
(***************************************************************************)
(* What the deduplication and rate-limit hooks of the pipeline promise:    *)
(* WHEN an alert may be admitted to persistence and delivery.  Nothing is  *)
(* said here of Redis, of handlers or of senders; AlertPipeline implements *)
(* this specification.                                                     *)
(***************************************************************************)
EXTENDS Naturals

CONSTANTS
  Alert,         \* the alerts the rules can raise
  Trigger(_),    \* the rate-limit bucket of an alert (model.MarketEvent.TriggerBucket)
  Limited(_),    \* is the alert subject to the per-bucket rate limit?
  DedupeTTL,     \* lifetime of a deduplication claim
  RateTTL,       \* lifetime of a rate-limit claim
  MaxTime        \* bound of the clock

VARIABLES
  now,           \* the clock
  admits,        \* admits[a]: how often alert a has been admitted
  last           \* last[a]: when alert a was last admitted

vars == <<now, admits, last>>

Init ==
  /\ now = 0
  /\ admits = [a \in Alert |-> 0]
  /\ last = [a \in Alert |-> 0]

(* Any two admissions of a rate-limited bucket are RateTTL apart.          *)
BucketQuiet(a) ==
  Limited(a) =>
    \A b \in Alert : Trigger(b) = Trigger(a) /\ admits[b] > 0
                       => now >= last[b] + RateTTL

(* An alert that is not rate-limited is not repeated within DedupeTTL.     *)
NotRepeated(a) ==
  ~Limited(a) /\ admits[a] > 0 => now >= last[a] + DedupeTTL

(* Every admission of one alert uses up a deduplication period of its own. *)
WithinBudget(a) == admits[a] * DedupeTTL <= now

Admit(a) ==
  /\ BucketQuiet(a)
  /\ NotRepeated(a)
  /\ WithinBudget(a)
  /\ admits' = [admits EXCEPT ![a] = @ + 1]
  /\ last' = [last EXCEPT ![a] = now]
  /\ UNCHANGED now

Tick ==
  /\ now < MaxTime
  /\ now' = now + 1
  /\ UNCHANGED <<admits, last>>

Next == Tick \/ \E a \in Alert : Admit(a)

Spec == Init /\ [][Next]_vars
=============================================================================
