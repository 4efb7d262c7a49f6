\* Boundaries that fail or die anywhere, and their recovery.
SPECIFICATION FairSpec
CONSTANTS
  Archives = {a1, a2}
  MaxHead = 2
  NoArchive = NoArchive
  ProbesMayFail = FALSE
  MaxLaunches = 3
  MaxCrashes = 2
CHECK_DEADLOCK FALSE
INVARIANTS
  NoRolloutsDuringBoundary
PROPERTIES
  CompletedMeansClean
  CommittedWorkKept
  BoundaryEnds
