CONSTANTS
  Rollouts = {r1}
  Items = {g1, g2}
  Actions = {ACTION1}
  NoSession = NoSession
  NoGame = NoGame
  NoOutcome = NoOutcome
  Failed = Failed
  Unattempted = Unattempted
  Unavailable = Unavailable
  Clean = Clean
  Torn = Torn
  MaxCommands <- Three
  MaxBatches = 1
SPECIFICATION Spec
INVARIANTS WinsCount LossIsDetected OneGamePerRollout
PROPERTIES BatchesEnd
CHECK_DEADLOCK FALSE
