\* Two tools threads and GPUs added to and removed from the VA space.
CONSTANTS
  t1 = t1  t2 = t2
  Accessors <- MCAccessors
  Gpus = {1, 2}
  PAGE_SIZE = 2
  MaxSize = 3
  MaxCalls = 1
SPECIFICATION Spec
SYMMETRY ThreadSymmetry
INVARIANT TypeOK StageOnLiveGpus GpuRefsBalanced LockReleasedAtExit
