\* One load and unload of the tools layer.  Load and unload each run once,
\* so a behaviour ends: deadlock is not an error here.
CONSTANTS
  NumCaches = 6
  QInitResults <- MCQInitResults

SPECIFICATION Spec
INVARIANT InitSuccessMeansReady

CHECK_DEADLOCK FALSE
