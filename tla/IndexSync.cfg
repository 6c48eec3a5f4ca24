SPECIFICATION Spec
CONSTANTS
  f1 = f1
  f2 = f2
  v1 = v1
  v2 = v2
  Files = {f1, f2}
  Versions = {v1, v2}
  FirstVersion = v1
  Texts <- MCTexts
  Loaders = {l1, l2}
  l1 = l1
  l2 = l2
  MaxRuns = 2
  MaxGen = 3
  MaxEdits = 1
  Torn = Torn
  Null = Null
  Height = 100
  StripHeaders = TRUE
  StripFooters = TRUE
  ChunkSize = 1024
  ChunkOverlap = 256
  MinChars = 200
  MinScore = 4
  Books <- MCBooks
SYMMETRY MCSymmetry
INVARIANTS
  TrackerInvariant
  AnswersFromOneCollection
  ChunksTellTheBook
CHECK_DEADLOCK FALSE
