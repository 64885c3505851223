\* Two concurrent requests for the same rule.
SPECIFICATION Spec
CONSTANTS
  w1 = w1  w2 = w2  v1 = v1  v2 = v2  spot = spot  perp = perp  None = None
  Writers <- MCWriters
  Evaluators = {v1}
  Markets = {spot}
  Kinds = {"liquidation"}
  Thresholds = {1, 2}
  Seconds = {1}
  Fallback <- Off
  WindowSec = 1
  Notionals = {1}
  MaxWrites = 2
  MaxEvents = 1
  MaxCrashes = 0
  MaxTime = 0
SYMMETRY Interchangeable
CHECK_DEADLOCK FALSE
INVARIANT AckedInForce
