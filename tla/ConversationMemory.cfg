SPECIFICATION Spec
CONSTANTS
  Threads = {c1}
  Tasks = {t1, t2}
  Stripes = {s1}
  StripeOf <- OneStripe
  MaxTurns = 3
  Null = Null
SYMMETRY TaskSymmetry
INVARIANTS
  MemoryInvariant
PROPERTIES
  SparedThreadsStay
