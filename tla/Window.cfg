\* One window; trades late, early, replayed with other contents; the key
\* expires; the rule is edited.
SPECIFICATION Spec
CONSTANTS
  k1 = k1  e1 = e1  e2 = e2
  Windows = {k1}
  Ids <- MCIds
  Notionals = {1, 2}
  Lengths = {1, 2}
  Thresholds = {2, 3}
  Times <- MCTimes
  Slack = 2
  MaxTime = 4
  MaxArrivals = 3
SYMMETRY Interchangeable
\* The clock and the number of arrivals are bounded.
CHECK_DEADLOCK FALSE
INVARIANT NeverMore
PROPERTIES ExpiryCosts RisesNoticed
