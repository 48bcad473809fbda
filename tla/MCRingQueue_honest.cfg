CONSTANTS
  QueueSize = 4
  NotificationThreshold = 2
  MaxAttempts = 6
  p1 = p1  p2 = p2  e1 = e1  e2 = e2
  NoRecord = NoRecord
  NoHolder = NoHolder
  Producers <- MCProducers
  EventTypes <- MCEventTypes

SPECIFICATION Spec
SYMMETRY ProducerSymmetry

INVARIANT TypeOK
INVARIANT FifoDelivery
INVARIANT NoSilentLoss
PROPERTY ImplementsLossyQueue

CHECK_DEADLOCK FALSE
