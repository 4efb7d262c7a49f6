CONSTANTS
  Path <- MCPath
  Names <- MCNames
  Absolute = {"/a"}
  Walk <- MCWalk
  Real <- MCReal
  Trees <- MCTrees
  Start = "s"
  Operands <- MCOperands
  Unknown = Unknown
  Missing = Missing
  Dynamic = Dynamic
  MaxCommands = 4
SPECIFICATION Spec
INVARIANTS TransitionsWereMade GitScopesWereUsed NothingLeftOut
CHECK_DEADLOCK FALSE
