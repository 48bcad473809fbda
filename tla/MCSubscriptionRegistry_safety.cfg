\* Registrations may fail; allocations succeed.
CONSTANTS
  s1 = s1  s2 = s2  q1 = q1  q2 = q2  c1 = c1  g1 = g1
  NoScope = NoScope
  Spaces <- MCSpaces
  Trackers <- MCTrackers
  QueueTrackers <- MCQueueTrackers
  TrackerSpace <- MCTrackerSpace
  Gpus <- MCGpus
  QueueMasks <- MCQueueMasks
  CounterMasks <- MCCounterMasks
  NumIdx = 4
  BroadcastEvents = {}  ImmediateEvents = {}
  EvCpuFault = 1  EvMigration = 2  EvGpuFault = 3  EvReadDuplicate = 4
  CntBytesHtD = 0  CntBytesDtH = 1  CntCpuFault = 2  CntGpuFault = 3
  RegisterMayFail = TRUE
  AllocMayFail = FALSE
  MaxRecords = 2
  MaxBurst = 2
SPECIFICATION Spec
VIEW SafetyView
INVARIANT TypeOK EnabledCountMatchesTrackers ActiveListInSync NeededCallbacksRegistered CountersFollowScope
PROPERTY NoDeliveryAfterClose
\* Every tracker closed and the callback budget spent is a final state.
CHECK_DEADLOCK FALSE
