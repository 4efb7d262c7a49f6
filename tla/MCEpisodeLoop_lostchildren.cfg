\* A crash between the run log and the pool file loses a generation.
SPECIFICATION Spec
CONSTANTS
  LastTask = 1
  N = 2
  Boot = Boot
  Down = Down
  MaxLaunches = 2
  MaxCrashes = 1
  MaxRetries = 0
  OpenCode = {}
  TornWrites = FALSE
CHECK_DEADLOCK FALSE
INVARIANTS
  ChildrenFormNextPool
