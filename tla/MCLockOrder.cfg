\* Every path that takes tools locks, with FIFO wait queues on every lock,
\* under the fairness of the kernel primitives.  Deadlock is checked.
CONSTANTS
  tClose = tClose  tDriver = tDriver  tWorker = tWorker  tFlush = tFlush
  NoThread = NoThread
  Threads <- MCThreads
  Role <- MCRole
  MaxWork = 2
SPECIFICATION FairSpec
INVARIANT NoWaitCycle
PROPERTY EveryCallReturns
