CONSTANTS
    m1 = m1  m2 = m2  s1 = s1  s2 = s2
    Markets <- TwoMarkets
    Strategies <- TwoStrategies
SPECIFICATION ControlSpec
INVARIANT RecoveryNotAbandoned
