SPECIFICATION Spec
CONSTANTS
  t1 = t1
  t2 = t2
  t3 = t3
  s1 = s1
  s2 = s2
  Tasks = {t1, t2, t3}
  Stripes = {s1, s2}
  StripeOf <- TwoStripes
  None = None
SYMMETRY TaskSymmetry
INVARIANT
  ConnectionInvariant
CHECK_DEADLOCK FALSE
