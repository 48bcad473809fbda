\* Honest consumer on a weakly ordered CPU: the publish of put_behind may
\* become visible before the record copied into the slot.
CONSTANTS
  QueueSize = 4
  NotificationThreshold = 2
  MaxAttempts = 2
  p1 = p1  p2 = p2  e1 = e1  e2 = e2
  NoRecord = NoRecord
  NoHolder = NoHolder
  Producers <- MCProducers
  EventTypes <- MCEventTypes

SPECIFICATION WeakSpec
SYMMETRY ProducerSymmetry

INVARIANT FifoDelivery

CHECK_DEADLOCK FALSE
