\* One handler, one trade that may raise two alerts, two system senders and a user
\* rule whose owner's delivery settings change, replays; every call returns.
SPECIFICATION FairSpec
CONSTANTS
  e1 = e1  e2 = e2  r1 = r1  r2 = r2  uA = uA  uB = uB  btc = btc
  System = System  None = None
  w1 = w1  w2 = w2
  Symbols = {btc}
  SymbolOf <- MCSymbolOf
  RuleSymbol <- MCRuleSymbol
  Workers = {w1}
  Events = {e1}
  KindOf <- Trades
  Raises <- RaisesBoth
  Rules = {r1}
  RuleType <- TradeRules
  Users = {uA}
  Owner <- OneOwner
  Profiles <- AllRoutes
  Channels = 2
  Attempts <- WebhookAttempts
  MaxScan = 2
  DedupeTTL = 1
  RateTTL = 1
  MaxTime = 0
INVARIANTS AuditTrail SettledWhenOk
PROPERTY HandlerReturns
