SPECIFICATION CaughtSpec
CONSTANTS
  Conversations = {c1}
  Operations = {o1, o2}
  Messages = {m1}
  Clients = {k1}
  Tasks = {t1}
  Stripes = {s1}
  StripeOf <- OneStripe
  MaxPriorTurns = 1
  MaxVersion = 0
  Null = Null
PROPERTY
  AcceptedRequestsSettle
