SPECIFICATION FairSpec
CONSTANTS
  c1 = c1
  c2 = c2
  w = w
  n = n
  Clients = {c1, c2}
  MaxRows = 2
  Identities = {w, n}
  Catalogue = {w}
  Bodies = {"b"}
  MaxEntries = 1
  MaxRequests = 4
  None = None
INVARIANT CuratedInvariant
PROPERTY NoLostUpdate RequestsSettle
