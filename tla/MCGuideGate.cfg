CONSTANTS
  Root = root
  Other = other
  Dirs <- MCDirs
  Revisions <- MCRevisions
  Calls = {c1, c2}
  MaxMessages = 7
  MaxAttempts = 2
SPECIFICATION GateSpec
INVARIANTS IssuerSawGuides LedgerAccounts
PROPERTIES RequestsGrow CallsRun
CHECK_DEADLOCK FALSE
