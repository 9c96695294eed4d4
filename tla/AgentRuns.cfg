SPECIFICATION MCSpec
CONSTANTS
    ChannelSize = 2
    MaxMessages = 4
    Tool <- AllTools
    ReadTool <- ReadTools
    LedgerTool <- LedgerTools
    RetryableTool <- ReadTools
    CallLimit = 3
    CallsPerTool = 2
    FailuresInARow = 2
    ReadAttempts = 3
    Client <- Clients
    Key <- Keys
    KeyOf <- KeyOfClient
    ArgsOf <- ArgsOfClient
    NoArgs = NoArgs
INVARIANTS
    LogMatchesRecord
    OneEffectPerCall
    NoWaiterStranded
PROPERTIES
    RefinesSingleFlight
    FinalStatusKept
    EveryRunEnds
\* Every run, call and key comes to its end.
CHECK_DEADLOCK FALSE
