\* A user whose chat is blocked, and another one.
SPECIFICATION FairSpec
CONSTANTS
  h1 = h1  h2 = h2  uA = uA  uB = uB  c1 = c1  c2 = c2  None = None
  Handlers = {h1}
  Users = {uA, uB}
  Chats = {c1}
  Blocked = {uB}
  Attempts = 1
  Intervals = {1}
  Grace = 3
  MaxItems = 1
  MaxAlerts = 2
  MaxLate = 0
  MaxTime = 3
CHECK_DEADLOCK FALSE
PROPERTY DigestLeaves
