SPECIFICATION ToolSpec
CONSTANTS
    Tool = {inspect}
    ReadTool = {inspect}
    LedgerTool = {inspect}
    RetryableTool = {inspect}
    CallLimit = 5
    CallsPerTool = 4
    FailuresInARow = 3
    ReadAttempts = 3
INVARIANT AttemptsRunTheTool
CHECK_DEADLOCK FALSE
