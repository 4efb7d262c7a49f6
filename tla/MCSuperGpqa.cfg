\* A crash between any two steps; rollouts solve one problem and miss another;
\* the last batch may find the pool exhausted.
SPECIFICATION Spec
CONSTANTS
  Problems = {p1, p2, p3}
  NoItem = NoItem
  PoolSize = 2
  LastBatch = 1
  N = 2
  MaxSubmissions = 2
  MaxLaunches = 3
  MaxCrashes = 1
SYMMETRY MCSymmetry
CHECK_DEADLOCK FALSE
INVARIANTS
  LatestSolvedNeverOffered
  RetirementRecorded
