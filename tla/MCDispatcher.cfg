SPECIFICATION Spec
CONSTANTS
  e1 = e1
  e2 = e2
  Events <- TwoEvents
  Subs <- TwoSubs
  Subscribed <- Overlapping
  QueueCap = 1
  Retries = 1
  MaxFailures = 2
  MaxRestarts = 1
INVARIANTS OneCopy
PROPERTIES DeactivationEarned RowsOnlyDecay QuietAfterStop
CHECK_DEADLOCK FALSE
