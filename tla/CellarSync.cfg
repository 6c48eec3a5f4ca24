SPECIFICATION SyncSpec
CONSTANTS
  b1 = b1
  s1 = s1
  s2 = s2
  d1 = d1
  Bottles = {b1}
  Ratings <- MCRatings
  Syncs = {s1, s2}
  Describers = {d1}
  MaxRuns = 2
  MaxEdits = 1
  MaxFaults = 1
  Null = Null
  GrapeNames <- MCGrapeNames
  Letters <- MCLetters
  Entities <- MCEntities
  Searches <- MCSearches
  Answers <- MCAnswers
  Batches <- MCBatches
  MaxChunks = 1
  Slack = 4
  Year = 2026
SYMMETRY MCSymmetry
INVARIANTS
  CellarInvariant
  EstimatesAreGrounded
PROPERTIES
  WindowsGiveWay
CHECK_DEADLOCK FALSE
