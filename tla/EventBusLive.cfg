SPECIFICATION FairSpec
CONSTANTS
  e1 = e1
  e2 = e2
  e3 = e3
  e4 = e4
  ka = ka
  kb = kb
  Events = {e1, e2, e3, e4}
  Keys = {ka, kb}
  KeyOf <- TwoKeys
  Oversized = {e4}
  QueueCapacity = 2
  MaxConcurrent = 1
  EnqueueWait = TRUE
  Orders = {0}
  MaxSubscriptions = 1
  MaxActions = 1
  MayRaise = FALSE
  NoEvent = NoEvent
INVARIANTS
  KeyBarrier
PROPERTIES
  EveryoneAnswered
CHECK_DEADLOCK FALSE
