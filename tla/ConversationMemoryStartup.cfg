SPECIFICATION Spec
CONSTANTS
  Threads = {c1}
  Tasks = {t1}
  Stripes = {s1}
  StripeOf <- OneStripe
  MaxTurns = 1
  Null = Null
PROPERTIES
  CleanupSparesSaved
