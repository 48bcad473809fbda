\* Registrations may fail; allocations succeed.
CONSTANTS
  s1 = s1  s2 = s2  q1 = q1  q2 = q2  c1 = c1  g1 = g1
  NoScope = NoScope
  Spaces <- MCSpaces
  Trackers <- MCTrackers
  QueueTrackers <- MCQueueTrackers
  TrackerSpace <- MCTrackerSpace
  Gpus <- MCGpus
  QueueMasks <- MCDeliveryQueueMasks
  CounterMasks <- MCDeliveryCounterMasks
  NumIdx = 6
  BroadcastEvents = {4}  ImmediateEvents = {5}
  EvCpuFault = 1  EvMigration = 2  EvGpuFault = 3  EvReadDuplicate = 6
  CntBytesHtD = 0  CntBytesDtH = 1  CntCpuFault = 2  CntGpuFault = 3
  RegisterMayFail = TRUE
  AllocMayFail = FALSE
  MaxRecords = 2
  MaxBurst = 2
SPECIFICATION Spec
INVARIANT EventsReachSubscribers
\* Every tracker closed and the callback budget spent is a final state.
CHECK_DEADLOCK FALSE
