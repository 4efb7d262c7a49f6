\* A Codex and an OpenCode slot: retries, failed futures, a crash anywhere.
SPECIFICATION FairSpec
CONSTANTS
  LastTask = 2
  N = 2
  Boot = Boot
  Down = Down
  MaxLaunches = 2
  MaxCrashes = 1
  MaxRetries = 1
  OpenCode = {1}
  TornWrites = FALSE
CHECK_DEADLOCK FALSE
INVARIANTS
  WorkspaceInheritedOnce
  LineagesContinue
PROPERTIES
  CompletedRolloutsSkipped
  HistorySpec
  ProcessesEnd
