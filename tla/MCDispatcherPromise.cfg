SPECIFICATION FairSpec
CONSTANTS
  e1 = e1
  e2 = e2
  Events <- OneEvent
  Subs <- TwoSubs
  Subscribed <- Both
  QueueCap = 1
  Retries = 2
  MaxFailures = 4
  MaxRestarts = 1
PROPERTIES KeepsPromise HeldIsResolved StopTerminates RetriesDrain
CHECK_DEADLOCK FALSE
