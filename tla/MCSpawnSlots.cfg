\* Parallel calls of one rollout and of a peer; reads succeed.
SPECIFICATION FairSpec
CONSTANTS
  r1 = r1
  r2 = r2
  c1 = c1
  c2 = c2
  c3 = c3
  Rollouts = {r1, r2}
  Calls = {c1, c2, c3}
  Owner <- MCOwner
  NoCall = NoCall
  ReadMayFail = FALSE
CHECK_DEADLOCK FALSE
INVARIANTS
  OneChildPerRollout
  RecordedSlotComplete
  DirectoriesAccounted
PROPERTIES
  StartedCallsAnswered
  OpportunitySpec
