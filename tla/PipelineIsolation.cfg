\* A failed send to one user against the rules of the other.
SPECIFICATION Spec
CONSTANTS
  e1 = e1  e2 = e2  r1 = r1  r2 = r2  uA = uA  uB = uB  btc = btc
  System = System  None = None
  w1 = w1  w2 = w2
  Symbols = {btc}
  SymbolOf <- MCSymbolOf
  RuleSymbol <- MCRuleSymbol
  Workers <- MCWorkers
  Events = {e1}
  KindOf <- Trades
  Raises <- RaisesNone
  Rules = {r1, r2}
  RuleType <- TradeRules
  Users = {uA, uB}
  Owner <- TwoOwners
  Profiles <- DirectOnly
  Channels = 0
  Attempts <- TwoAttempts
  MaxScan = 2
  DedupeTTL = 2
  RateTTL = 1
  MaxTime = 2
SYMMETRY HandlersInterchangeable
PROPERTY FailureIsolated
