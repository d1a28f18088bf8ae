CONSTANTS
  k1 = k1 k2 = k2 None = None
  Key = {k1, k2}
  KindOf <- MixedRows
  Worker = {w1, w2}
  Token = {t1, t2, t3}
  Route = {r1}
  Limit = 2
  MaxSends = 2
  MaxRetries = 1
SPECIFICATION MCSpec
INVARIANTS NeverResent StatusIsTrue
PROPERTIES StartedSettles
CHECK_DEADLOCK FALSE
