\* Two handlers, two liquidations of one symbol, the system rule and a user rule.
SPECIFICATION Spec
CONSTANTS
  e1 = e1  e2 = e2  r1 = r1  r2 = r2  uA = uA  uB = uB  btc = btc
  System = System  None = None
  w1 = w1  w2 = w2
  Symbols = {btc}
  SymbolOf <- MCSymbolOf
  RuleSymbol <- MCRuleSymbol
  Workers <- MCWorkers
  Events <- TwoEvents
  KindOf <- Liquidations
  Raises <- RaisesLiquidation
  Rules = {r1}
  RuleType <- LiquidationRule
  Users = {uA}
  Owner <- OneOwner
  Profiles <- DirectOnly
  Channels = 0
  Attempts <- TwoAttempts
  MaxScan = 1
  DedupeTTL = 2
  RateTTL = 1
  MaxTime = 1
SYMMETRY Interchangeable
INVARIANTS IInv NoExtraDelivery
PROPERTY GateSpec
