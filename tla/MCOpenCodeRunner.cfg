CONSTANT MaxReconnects = 1
SPECIFICATION SandboxedSpec
INVARIANTS OutcomeIsTheSessions NoProcessSurvives
PROPERTY SupervisorReturns
CHECK_DEADLOCK FALSE
