SPECIFICATION FairSpec
CONSTANTS
  c1 = c1
  c2 = c2
  c3 = c3
  t1 = t1
  t2 = t2
  t3 = t3
  Calls <- MCCalls
  Capacity = 2
  Null = Null
  KnownExtensions = {"pdf", "epub", "txt", "md", "html"}
  NoPage = NoPage
  Threads <- MCThreads
  Owned <- MCOwned
  Completed <- MCCompleted
  Outputs <- MCOutputs
  Earlier <- MCEarlier
  Answers <- MCAnswers
  Contexts <- MCContexts
  StopWords = {"the"}
  Reserved = {"local"}
  Default = 10
  MaxEntries = 2
  Enabled = TRUE
  Invocations <- MCInvocations
  Searches = 5
  None = None
INVARIANTS
  StreamInvariant
  ExactlyOneTerminal
  TransportsAgree
  SourcesAreEvidence
  SearchesKeepTheirWord
PROPERTY
  StreamsEnd
CHECK_DEADLOCK FALSE
