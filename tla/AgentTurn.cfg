SPECIFICATION Spec
CONSTANTS
  q1 = q1
  q2 = q2
  d1 = d1
  d2 = d2
  Queries = {q1, q2}
  Turns <- MCTurns
  Chunks = {d1, d2}
  Web = Web
  Correctable = {q1, q2}
  Bridged = {q1}
  MaxAttempts = 2
  Null = Null
  MaxCalls = 2
  MaxSteps = 13
  Enabled = {"call_budget", "loop_detection"}
  MaxPrior = 1
  MaxBatch = 2
  Earlier <- MCEarlier
  Questions <- MCQuestions
  Respelled <- MCRespelled
  Synonyms <- MCSynonyms
  Entities <- MCEntities
  IntentWords <- MCIntentWords
  Fillers = {"how", "long"}
  Parts <- MCParts
  Numerals = {"1855", "2005"}
  Size = 3
  Worlds <- MCWorlds
  Seconds <- MCSeconds
  Settings <- MCSettings
  Texts <- MCTexts
  Weights = {0, 1}
  Limits = {4, 9, 25}
  MinLength = 3
INVARIANTS
  TurnLimits
  ResultsAgree
  FailSoftHasCause
  ThreadIsWholeTurns
  SearchesWellRanked
SYMMETRY MCSymmetry
CHECK_DEADLOCK FALSE
