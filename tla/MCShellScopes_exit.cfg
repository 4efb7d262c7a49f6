CONSTANTS
  Path <- MCPath
  Names <- MCNames
  Absolute = {"/a"}
  Walk <- MCWalk
  Real <- MCReal
  Trees <- MCTrees
  Start = "s"
  Operands <- MCOperands
  Unknown = Unknown
  Missing = Missing
  Dynamic = Dynamic
  MaxCommands = 3
SPECIFICATION ExitSpec
INVARIANT TransitionsWereMade
CHECK_DEADLOCK FALSE
