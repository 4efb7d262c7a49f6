\* Two slots, mixed pools, one dead launcher.
SPECIFICATION Spec
CONSTANTS
  N = 2
  Sessions = {s1, s2, s3}
  NoSession = NoSession
  LastIteration = 3
  MaxCount = 2
  MaxDeaths = 1
SYMMETRY SessionSymmetry
CHECK_DEADLOCK FALSE
INVARIANTS
  BatchesDoNotOverlap
  NoSilentAdvance
  SessionsAreRuns
  ReadyIsRunnable
PROPERTIES
  BlockedEvidenceKept
