\* One request, two evaluations, a crash: rules and windows together.
SPECIFICATION Spec
CONSTANTS
  w1 = w1  w2 = w2  v1 = v1  v2 = v2  spot = spot  perp = perp  None = None
  Writers = {w1}
  Evaluators <- MCEvaluators
  Markets = {spot}
  Kinds = {"agg_trade"}
  Thresholds = {1, 2}
  Seconds = {1}
  Fallback <- On
  WindowSec = 1
  Notionals = {1}
  MaxWrites = 2
  MaxEvents = 3
  MaxCrashes = 1
  MaxTime = 2
SYMMETRY Interchangeable
CHECK_DEADLOCK FALSE
INVARIANTS TypeOK AckedInForce EvaluatedByPromise WindowIsTrailing
PROPERTY RisesNoticed
