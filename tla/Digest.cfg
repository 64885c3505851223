\* Two handlers and the job on the list of one user, which leaves Redis when it is due.
SPECIFICATION FairSpec
CONSTANTS
  h1 = h1  h2 = h2  uA = uA  uB = uB  c1 = c1  c2 = c2  None = None
  Handlers = {h1, h2}
  Users = {uA}
  Chats = {c1}
  Blocked = {}
  Attempts = 2
  Intervals = {1}
  Grace = 3
  MaxItems = 1
  MaxAlerts = 2
  MaxLate = 1
  MaxTime = 2
CHECK_DEADLOCK FALSE
INVARIANTS TypeOK OneFate NotOrphaned ListBounded
PROPERTIES NothingAfterSuccess DigestLeaves
