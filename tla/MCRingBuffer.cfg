CONSTANTS
  e1 = e1
  e2 = e2
  NoEvent = NoEvent
  Capacity <- MCCapacity
  Values <- MCValues

SPECIFICATION Spec

INVARIANT TypeOK
PROPERTY QueueRefinement
PROPERTY EventualDelivery
