SPECIFICATION Spec
CONSTANTS
  e1 = e1
  e2 = e2
  e3 = e3
  e4 = e4
  ka = ka
  kb = kb
  Events = {e1, e2, e3}
  Keys = {ka, kb}
  KeyOf <- TwoKeys
  Oversized = {}
  QueueCapacity = 2
  MaxConcurrent = 1
  EnqueueWait = TRUE
  Orders = {0}
  MaxSubscriptions = 2
  MaxActions = 1
  MayRaise = TRUE
  NoEvent = NoEvent
INVARIANTS
  TypeOK
  AdmissionAccounting
  SlotAccounting
  NothingStranded
  ClosedMeansQuiet
PROPERTIES
  KeepsOrder
  AnswersAreFinal
CHECK_DEADLOCK FALSE
SYMMETRY SameKeyEvents
