\* One account with session and reset token, a second one to come, requests in pairs.
SPECIFICATION Spec
CONSTANTS
  u1 = u1  u2 = u2  e1 = e1  e2 = e2  p1 = p1  p2 = p2  s1 = s1  s2 = s2  t1 = t1  t2 = t2
  r1 = r1  r2 = r2  k1 = k1  k2 = k2  k3 = k3  None = None
  Users = {u1, u2}
  Emails = {e1, e2}
  Passwords = {p1, p2}
  Sessions = {s1, s2}
  Tokens = {t1, t2}
  Rules = {k1, k2, k3}
  Drafts <- MCDrafts
  Moments <- MCMoments
  Requests = {r1, r2}
  First <- MCFirst
  MaxRules = 1
  SessionTTL = 1
  ResetTTL = 1
  MaxCalls = 3
  MaxClock = 1
SYMMETRY Interchangeable
INVARIANTS RefusedWhenLate RulesBounded ResetBounded QuietAsAsked
CHECK_DEADLOCK FALSE
