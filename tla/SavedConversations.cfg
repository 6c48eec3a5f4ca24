\* One conversation, three operations, two tasks.
SPECIFICATION Spec
CONSTANTS
  Conversations = {c1}
  Operations = {o1, o2, o3}
  Messages = {m1, m2}
  Clients = {k1}
  Tasks = {t1, t2}
  Stripes = {s1}
  StripeOf <- OneStripe
  MaxPriorTurns = 1
  MaxVersion = 2
  Null = Null
SYMMETRY Symmetric
INVARIANTS
  StoryInv
  RunningFreezesConversation
  InferenceAtMostOnce
  RowsTellOneStory
  MemoryFollowsTranscript
PROPERTIES
  TerminalIsFinal
  HistoryIsKept
  KeepsPromise
